-------------------------------- MODULE Exercise --------------------------------
(***************************************************************************)
(* One exercise from the command line: build_attack with its evasions,     *)
(* compose_scenario around it, write_ground_truth, and run_detection on    *)
(* what was written.  The program is sequential; what it draws and what    *)
(* the detection engine reports is chosen freely.  Suricata is external:   *)
(* it may alert on any flow, seen from either side.                        *)
(***************************************************************************)
EXTENDS Composer

CONSTANTS Exercises,   \* records [attack, intensity, env, hosts, noise, duration, activity,
                       \*          evasions, alerts]
          MaxScan      \* bound of the search for client addresses

\* The flow model refuses an intensity whose flows have no port left while it is built; the
\* sources of a flood are beyond every subnet that is looked at.
ASSUME ExercisesAssumption ==
  /\ \A e \in Exercises : /\ {e.intensity, e.hosts, e.noise, e.duration} \subseteq Nat
                           /\ FirstStory + 25 + (80 * e.intensity) \div 100 <= MaxPort + 1
                           /\ 1024 + Count(40, 300, e.intensity) <= MaxPort + 1
  /\ MaxScan \in Nat /\ 20 <= MaxScan /\ MaxScan <= 1000

VARIABLES exercise,    \* what was asked for
          phase,       \* where the program is
          attack,      \* the Intrusion being built
          evasions,    \* the names of the evasions applied to it
          clients,     \* the internal hosts found
          scan,        \* the next address to look at
          n,           \* the counter of the current loop
          capture,     \* the flows composed
          answer,      \* malicious_flows of the ground truth
          report       \* [seen, tp, fp, caught, missed] of run_detection

vars == <<exercise, phase, attack, evasions, clients, scan, n, capture, answer, report>>
env == exercise.env

NoAttack == [flows |-> <<>>, key |-> <<>>, iocs |-> <<>>]
NoReport == [seen |-> <<>>, tp |-> 0, fp |-> 0, caught |-> {}, missed |-> {}]

Jitters == [0..1 -> {-4000, 4000}]
Profiles == [0..1 -> {"generic_browser", "curl"}]
Hops == {8443, 4443}

Init == /\ exercise = None /\ phase = "start" /\ attack = NoAttack /\ evasions = <<>>
        /\ clients = <<>> /\ scan = 20 /\ n = 0 /\ capture = <<>> /\ answer = <<>>
        /\ report = NoReport

-----------------------------------------------------------------------------
(* build_attack.                                                           *)

Refuse(e) == /\ e.attack \notin ATTACKS \cup {None}
             /\ exercise' = e /\ phase' = "refused"
             /\ UNCHANGED <<attack, evasions, clients, scan, n, capture, answer, report>>

Build(e) == /\ e.attack \in ATTACKS
            /\ exercise' = e /\ phase' = "evade"
            /\ \E j \in Jitters, again \in BOOLEAN :
                 attack' = Built(e.attack, e.env, e.intensity, [jitter |-> j, again |-> again])
            /\ UNCHANGED <<evasions, clients, scan, n, capture, answer, report>>

Benign(e) == /\ e.attack = None
             /\ exercise' = e /\ phase' = "hosts"
             /\ UNCHANGED <<attack, evasions, clients, scan, n, capture, answer, report>>

\* The evasions asked for are applied one after the other.
Evade(ev) == /\ Len(evasions) < exercise.evasions /\ ev \in EVASIONS
             /\ \E p \in Profiles, h \in Hops :
                  attack' = Evaded(attack, ev, [profile |-> p, hop |-> h])
             /\ evasions' = Append(evasions, ev)
             /\ UNCHANGED <<exercise, phase, clients, scan, n, capture, answer, report>>

RefuseEvasion(ev) == /\ Len(evasions) < exercise.evasions /\ ev \notin EVASIONS
                     /\ phase' = "refused"
                     /\ UNCHANGED <<exercise, attack, evasions, clients, scan, n, capture, answer,
                                    report>>

Compose == /\ phase = "evade" /\ phase' = "hosts"
           /\ UNCHANGED <<exercise, attack, evasions, clients, scan, n, capture, answer, report>>

-----------------------------------------------------------------------------
(* compose_scenario.                                                       *)

\* Mutant: an address outside the subnet will do.
UsableAnywhere(k) == Host(k) \notin {env.gateway, env.dns}

Usable(k) == Host(k) \notin {env.gateway, env.dns} /\ k < env.size

\* _internal_hosts: addresses from .20 upwards, for as long as it takes.
PickHost == /\ phase = "hosts" /\ Len(clients) < exercise.hosts /\ scan < MaxScan
            /\ clients' = IF Usable(scan) THEN Append(clients, Host(scan)) ELSE clients
            /\ scan' = scan + 1
            /\ UNCHANGED <<exercise, phase, attack, evasions, n, capture, answer, report>>

HostsPicked == /\ phase = "hosts" /\ Len(clients) = exercise.hosts
               /\ phase' = "noise" /\ n' = 0
               /\ UNCHANGED <<exercise, attack, evasions, clients, scan, capture, answer, report>>

Limit == [noise |-> exercise.noise, fail |-> Failures(exercise.noise),
          fp |-> FalsePositives(exercise.duration)]
Weights == [noise |-> exercise.activity, fail |-> [p \in 1..FlatPhases(Limit.fail) |-> 1],
          fp |-> [p \in 1..FlatPhases(Limit.fp) |-> 1]]

\* The loop at index n in a phase; its arrival times hold an entry for n.
Looping(loop) == /\ phase = loop /\ n < Limit[loop]
                 /\ n < SumOf(Allotted(Limit[loop], Weights[loop]))
                 /\ n' = n + 1
                 /\ UNCHANGED <<exercise, phase, attack, evasions, clients, scan, answer, report>>

Noise(service) ==
  /\ Looping("noise")
  /\ IF HasFlow(service)
     THEN \E f \in AmbientFlows(env, service, ToSet(clients), Id("noise", n), NoisePort(n)) :
            capture' = Append(capture, f)
     ELSE UNCHANGED capture

Fail == /\ Looping("fail")
        /\ IF Len(clients) >= 2
           THEN \E f \in FailedFlows(ToSet(clients), Id("fail", n), FailPort(n)) :
                  capture' = Append(capture, f)
           ELSE UNCHANGED capture

Fp == /\ Looping("fp")
      /\ \E f \in FpFlows(env, ToSet(clients), Id("fp", n), FpPort(n)) : capture' = Append(capture, f)

Looped == /\ phase \in {"noise", "fail", "fp"} /\ n = Limit[phase]
          /\ phase' = [noise |-> "fail", fail |-> "fp", fp |-> "weave"][phase] /\ n' = 0
          /\ UNCHANGED <<exercise, attack, evasions, clients, scan, capture, answer, report>>

Weave == /\ phase = "weave" /\ phase' = "captured"
         /\ capture' = capture \o attack.flows
         /\ UNCHANGED <<exercise, attack, evasions, clients, scan, n, answer, report>>

-----------------------------------------------------------------------------
(* The answer key and what a detection engine is credited with.            *)

WriteGroundTruth == /\ phase = "captured" /\ phase' = "detect"
                    /\ answer' = MaliciousFlows(attack)
                    /\ UNCHANGED <<exercise, attack, evasions, clients, scan, n, capture, report>>

\* Mutant: a pair knows who spoke first.
PairDirected(ends) == ends

\* An alert is matched by its two addresses alone.
Pair(ends) == {ends[1], ends[2]}

\* The last malicious flow of a pair decides its technique.
Hits(ends) == {i \in DOMAIN answer : Pair(answer[i].ends) = Pair(ends)}
Credited(ends) == answer[Max(Hits(ends))].technique

Techniques == {answer[i].technique : i \in DOMAIN answer} \ {None}

Alert(k, ends) ==
  /\ Len(report.seen) < exercise.alerts
  /\ report' = IF Hits(ends) # {}
               THEN [report EXCEPT !.seen = Append(@, k), !.tp = @ + 1,
                                   !.caught = @ \cup {Credited(ends)}]
               ELSE [report EXCEPT !.seen = Append(@, k), !.fp = @ + 1]
  /\ UNCHANGED <<exercise, phase, attack, evasions, clients, scan, n, capture, answer>>

Score == /\ phase = "detect" /\ phase' = "done"
         /\ report' = [report EXCEPT !.missed = Techniques \ report.caught]
         /\ UNCHANGED <<exercise, attack, evasions, clients, scan, n, capture, answer>>

Concluded == /\ phase \in {"done", "refused"} \/ (phase = "hosts" /\ scan = MaxScan)
             /\ UNCHANGED vars

Start == phase = "start" /\ \E e \in Exercises : Refuse(e) \/ Build(e) \/ Benign(e)

Modify == phase = "evade" /\ \E ev \in EVASIONS \cup {"sleep"} : Evade(ev) \/ RefuseEvasion(ev)

AddNoise == phase = "noise" /\ \E service \in env.ambient : Noise(service)

Detect == phase = "detect" /\ \E k \in DOMAIN capture :
            \E ends \in {capture[k].ends, Reverse(capture[k].ends)} : Alert(k, ends)

Next == \/ Start \/ Modify \/ Compose \/ PickHost \/ HostsPicked
        \/ AddNoise \/ Fail \/ Fp \/ Looped \/ Weave \/ WriteGroundTruth
        \/ Detect \/ Score \/ Concluded

Spec == Init /\ [][Next]_vars /\ WF_vars(Next)

-----------------------------------------------------------------------------
\* A capture's clients are different addresses of the subnet, neither its gateway nor its name
\* server, and its flows have ports of 16 bits (compose.py:_internal_hosts).
TypeOK ==
  /\ phase \in {"start", "refused", "evade", "hosts", "noise", "fail", "fp", "weave", "captured",
                "detect", "done"}
  /\ IsInjective(clients)
  /\ \A i \in DOMAIN clients : \E k \in 20..MaxScan : clients[i] = Host(k) /\ k < env.size
                                                      /\ clients[i] \notin {env.gateway, env.dns}
  /\ \A i \in DOMAIN capture : capture[i].sport \in 0..MaxPort /\ capture[i].dport \in 0..MaxPort
  /\ n \in Nat /\ scan \in 20..MaxScan

\* "Each modifier is a pure flow-field mutation, so captures stay Zeek-clean" (scenarios.py:1138),
\* and a benign flow's ending "never orphans an L7 service claim" (compose.py:169): every flow of
\* an attack, evaded or not, and every flow of the noise loads, renders and reads back.
EveryFlowReadsBack ==
  LET flows == CASE phase = "evade" -> ToSet(attack.flows)
                 [] phase \in {"noise", "fail", "fp"} /\ capture # <<>> -> {Last(capture)}
                 [] OTHER -> {}
  IN  \A f \in flows : IsFlow(f) /\ ~Raises(f) /\ Sayable(f)

\* The one flow of the library that no entry of a key names.
Unnamed == Id("atk-psexec-epm", 0)

\* "Malicious flows are labelled atk-*; everything else is benign ambient noise"
\* (scenarios.py:160): whatever the evasions did, every entry names flows of the storyline, no
\* flow is in two entries, every flow but one has a technique, and once woven in, an identity of
\* the storyline is carried by exactly one flow of the capture.
AnswerKey ==
  LET named == [k \in DOMAIN attack.key |-> ToSet(attack.key[k].ids)]
      ids == {attack.flows[i].id : i \in DOMAIN attack.flows}
  IN  phase \in {"evade", "captured"} =>
      /\ \A k \in DOMAIN named : named[k] # {} /\ named[k] \subseteq ids
      /\ \A k, l \in DOMAIN named : k # l => named[k] \cap named[l] = {}
      /\ \A i \in ids : TechniqueOf(attack, i) = None <=> i = Unnamed
      /\ phase = "captured" =>
           \A i \in ids : Cardinality({k \in DOMAIN capture : capture[k].id = i}) = 1

\* "mutate an Intrusion so a naive IOC misses it, while the ground-truth technique is unchanged"
\* (scenarios.py:1135): an evasion changes neither the key nor who talks to whom over what, and
\* keeps the order of the storyline.
EvasionsKeepTheStory ==
  [][phase = "evade" /\ phase' = "evade" =>
       LET was == attack.flows
           is == attack'.flows
       IN  /\ attack'.key = attack.key /\ DOMAIN is = DOMAIN was
           /\ \A i \in DOMAIN was :
                /\ is[i].id = was[i].id /\ is[i].ends = was[i].ends /\ is[i].sport = was[i].sport
                /\ is[i].kind = was[i].kind /\ is[i].state = was[i].state
           /\ \A i, j \in DOMAIN was : was[i].t < was[j].t => is[i].t < is[j].t]_vars

TlsFlows == {i \in DOMAIN attack.flows : attack.flows[i].kind = "tls"}
Applied(ev) == {k \in DOMAIN evasions : evasions[k] = ev}

\* After fronting, an attack that knows its C2 domain no longer finds its beacons.
Blinded(ev) == /\ "c2_domain" \in DOMAIN attack.iocs /\ Applied("domain-fronting") # {}
               /\ Min(Applied("domain-fronting")) < Max(Applied(ev))

\* The storylines that an attack may be built with, before any evasion.
Stories(e) == {Built(e.attack, e.env, e.intensity, [jitter |-> j, again |-> b]).flows :
                 j \in Jitters, b \in BOOLEAN}

Power(factor, k) == LET p[i \in 0..k] == IF i = 0 THEN 1 ELSE factor * p[i - 1]
                    IN  p[k]

\* Every gap between two flows is a gap of such a storyline times the factor.
SlowedBy(factor) ==
  \E story \in Stories(exercise) :
    /\ DOMAIN story = DOMAIN attack.flows
    /\ \A i, j \in DOMAIN story :
         attack.flows[i].t - attack.flows[j].t = factor * (story[i].t - story[j].t)

\* The answer key's notes on fronting, hopping, slowing and depth against the flows it ships with
\* (scenarios.py:_evade_*), as far as the code makes them true.  As many channels carry the
\* front's name as were fronted.  They run to the port hopped to, unless there are none or fronting
\* came first and hid them.  Every gap is stretched by the factor noted, once for each slowing:
\* the note says 12 however often, so it is true of one slowing and falls short of two.  The names
\* asked for start with a short label, cut or not.  The note on JA3 is not among them: it says
\* that beacons rotate also where the draws agree, and where there is one beacon or none.
NotesTrue ==
  LET notes == DOMAIN attack.iocs
      flows == attack.flows
      hasBeacons == TlsFlows # {}
  IN  /\ "note_domain_fronting" \in notes =>
           attack.iocs.fronted_flows
             = Cardinality({i \in TlsFlows : flows[i].given.server_name = "front"})
      /\ "note_port_hopping" \in notes /\ hasBeacons /\ ~Blinded("port-hopping") =>
           \E i \in TlsFlows : flows[i].dport = attack.iocs.note_port_hopping
                               /\ \A j \in TlsFlows : flows[j].dport = flows[i].dport
      /\ "note_slow_and_low" \in notes =>
           SlowedBy(Power(attack.iocs.note_slow_and_low, Cardinality(Applied("slow-and-low"))))
      /\ "note_dns_depth" \in notes =>
           \A i \in DOMAIN flows : flows[i].kind = "dns" => Head(flows[i].given.qname) <= 15

Tuple(f) == <<f.transport, f.ends, f.sport, f.dport>>
Portless(f) == f.kind \in {"dhcp", "icmp"}
Flooded(f) == f.id[1] = "atk-syn"
StoryHosts == {StoryHost(i) : i \in 0..2}

\* As many flows as the ranges of source ports have room for before they overlap.
Sparse == /\ exercise.noise <= FirstFp - FirstNoise
          /\ Failures(exercise.noise) <= FailSpan /\ FalsePositives(exercise.duration) <= FpSpan
          /\ ToSet(clients) \cap StoryHosts = {}

\* "unique per flow -> unique 5-tuple" (compose.py:521): no two flows of a sparse capture are the
\* same connection, leases, pings and the random sources of a flood apart.
TuplesApart ==
  phase = "captured" /\ Sparse =>
    \A i, j \in DOMAIN capture :
      i < j /\ Tuple(capture[i]) = Tuple(capture[j]) =>
        Portless(capture[i]) \/ (Flooded(capture[i]) /\ Flooded(capture[j]))

IsStory(k) == k > Len(capture) - Len(attack.flows)

\* Two stages of an attack between the same two hosts.
PairsShared == \E i, j \in DOMAIN answer : /\ Pair(answer[i].ends) = Pair(answer[j].ends)
                                           /\ answer[i].technique # answer[j].technique

\* "which ATT&CK techniques were caught vs missed, and the false-positive load on benign
\* traffic" (detect.py:9): with clients that are not hosts of the storyline, every alert counts
\* for what its flow is, whichever side it was raised from; and where no two stages run between
\* the same hosts, a technique is caught exactly if one of its own flows was alerted on.
DetectionIsFair ==
  phase = "done" =>
    LET right == {k \in ToSet(report.seen) : IsStory(k)}
    IN  /\ ToSet(clients) \cap StoryHosts = {} =>
             /\ report.tp = Cardinality({x \in DOMAIN report.seen : report.seen[x] \in right})
             /\ report.fp = Len(report.seen) - report.tp
             /\ ~PairsShared =>
                  report.caught = {TechniqueOf(attack, capture[k].id) : k \in right}
        /\ report.caught \cap report.missed = {}
        /\ Techniques \subseteq report.caught \cup report.missed

\* Addresses a client may have.
Room == {k \in 20 .. env.size - 1 : Host(k) \notin {env.gateway, env.dns}}

\* An exercise whose subnet has room for its hosts is composed, keyed and scored: no loop runs out
\* of arrival times.  In a smaller one the search for hosts leaves the subnet (compose.py:307).
Composes == (phase = "hosts" /\ Cardinality(Room) >= exercise.hosts) ~> (phase = "done")
=============================================================================
