-------------------------------- MODULE Composer --------------------------------
(***************************************************************************)
(* compose.py: the benign flows of a capture.  Arrival times, sizes and    *)
(* operating systems are drawn from distributions and left out; the number *)
(* of flows, who talks to whom, over which service, from which port and    *)
(* with which ending are not.  An environment is [name, size, gateway,     *)
(* dns, ambient]; a duration is in seconds.                                *)
(***************************************************************************)
EXTENDS Library

CONSTANTS
  FirstNoise, NoiseSpan,   \* source ports of the noise: 1025 and 64000
  FirstFail, FailSpan,     \* of the failed connections: 60000 and 5000
  FirstFp, FpSpan,         \* of the false positives: 55000 and 4000
  FailPorts                \* the ports a connection fails at (_FAIL_PORTS)

ASSUME PortsAssumption ==
  /\ {FirstNoise, NoiseSpan, FirstStory, FirstFail, FailSpan, FirstFp, FpSpan} \subseteq Nat \ {0}
  /\ FirstNoise <= FirstStory /\ FirstStory <= FirstFp
  /\ FirstFp + FpSpan <= FirstFail /\ FirstFail + FailSpan <= FirstNoise + NoiseSpan
  /\ FirstNoise + NoiseSpan <= MaxPort + 1 /\ FailPorts \subseteq 0..MaxPort
  /\ MaxPort \in Nat /\ 49200 <= MaxPort

NoisePort(i) == FirstNoise + (i % NoiseSpan)

\* Mutant: failed connections take the ports of the noise.
FailPortOfNoise(j) == FirstNoise + (j % NoiseSpan)

FailPort(j) == FirstFail + (j % FailSpan)
FpPort(k) == FirstFp + (k % FpSpan)

-----------------------------------------------------------------------------
(* How many flows.                                                         *)

\* round(p / q): halves go to the even neighbour.
Round(p, q) ==
  LET below == p \div q
      rest == 2 * (p % q)
  IN  IF rest < q \/ (rest = q /\ below % 2 = 0) THEN below ELSE below + 1

VolumeRates == [quiet |-> 20, normal |-> 60, busy |-> 200, saturated |-> 600]
flows_for_volume(level, duration) == AtLeast(Round(VolumeRates[level] * duration, 60), 1)

Failures(noise) == Round(noise * 15, 100)
FalsePositives(duration) == Round(180 * duration, 3600)

SumOf(s) == FoldFunction(+, 0, s)

\* With no activity given: about the square root of n equal phases.
FlatPhases(n) == AtLeast(Min({k \in 0..n : n <= k * k + k}), 1)

\* Mutant: the shares are rounded down and the rest is lost.
AllottedDown(n, activity) == [p \in DOMAIN activity |-> (n * activity[p]) \div SumOf(activity)]

\* _bursty_times: n flows over the phases in proportion to their activity, the rest to the
\* largest remainders, earlier phases first.
Allotted(n, activity) ==
  LET total == SumOf(activity)
      share(p) == (n * activity[p]) \div total
      lost(p) == (n * activity[p]) % total
      rest == n - SumOf([p \in DOMAIN activity |-> share(p)])
      before(p) == {q \in DOMAIN activity : lost(q) > lost(p) \/ (lost(q) = lost(p) /\ q < p)}
  IN  [p \in DOMAIN activity |-> share(p) + (IF Cardinality(before(p)) < rest THEN 1 ELSE 0)]

-----------------------------------------------------------------------------
(* Who talks to whom.                                                      *)

\* _server: a peer other than the client, if there is one.
Servers(client, clients) == IF clients \ {client} # {} THEN clients \ {client} ELSE {client}

External == {Far("api"), Far("cdn")}

\* Mutant: a service flow may end as any connection does.
EstablishedOrNot == {"SF", "RSTO", "RSTR", "S0", "REJ"}

\* _benign_conn_state: established flows carry their L7, then some abort.
EstablishedStates == {"SF", "RSTO", "RSTR"}

TcpPorts == [http |-> 80, tls |-> 443, ssh |-> 22, ftp |-> 21, smtp |-> 25, smb |-> 445,
             kerberos |-> 88, ldap |-> 389, rdp |-> 3389, modbus |-> 502, s7 |-> 102,
             dnp3 |-> 20000, enip |-> 44818, mysql |-> 3306, mssql |-> 1433, rpc |-> 135]
FaithfulPorts == [dns |-> 53, ntp |-> 123, dhcp |-> 67, tls |-> 443, http |-> 80, ssh |-> 22,
                  ftp |-> 21, icmp |-> 0, snmp |-> 161, radius |-> 1812, modbus |-> 502,
                  kerberos |-> 88, ldap |-> 389, smb |-> 445, pop3 |-> 110, imap |-> 143,
                  irc |-> 6667, sip |-> 5060]

\* What a benign flow of a service says.
Said(env, service, client) ==
  CASE service = "dns" -> {Answered(<<3, 7, 3>>)}
    [] service = "dhcp" -> {[assigned_ip |-> client, server_ip |-> env.gateway]}
    [] service = "tls" -> {[server_name |-> "www", version |-> v, alpn |-> "h2",
                            app_data_orig_bytes |-> 500, app_data_resp_bytes |-> 900] :
                             v \in {"TLS1.2", "TLS1.3"}}
    [] service = "http" -> {[method |-> p[1], request_body_len |-> p[2], status |-> c,
                             response_body_len |-> 900] :
                              p \in {<<"GET", 0>>, <<"POST", 500>>}, c \in {200, 304, 404}}
    [] service = "icmp" -> {[count |-> n] : n \in 1..3}
    [] service = "kerberos" -> {[request_type |-> q, request_etypes |-> <<18, 17>>] :
                                  q \in {"AS", "TGS"}}
    [] OTHER -> {<<>>}

Destinations(env, service, client, clients) ==
  CASE service \in {"dns", "kerberos", "ldap"} -> {env.dns}
    [] service \in {"ntp", "dhcp"} -> {env.gateway}
    [] service \in {"tls", "http", "irc"} -> External
    [] OTHER -> Servers(client, clients)

DportOf(service) ==
  IF service \in DOMAIN FaithfulPorts THEN FaithfulPorts[service] ELSE TcpPorts[service]
KindOf(service) == IF service \in DOMAIN FaithfulPorts THEN service ELSE "opaque_tcp"
TransportOf(service) ==
  CASE service = "dns" -> "udp"
    [] OTHER -> CHOOSE x \in Transports(KindOf(service)) : TRUE
SportOf(service, sport) == CASE service = "dhcp" -> 68 [] service = "icmp" -> 0 [] OTHER -> sport

\* _ambient_flow: one of these, or none for a service without a renderer and a port.
AmbientFlows(env, service, clients, id, sport) ==
  {[Flow(id, TransportOf(service), <<x[1], x[2]>>, DportOf(service), 0, KindOf(service), x[3])
      EXCEPT !.sport = SportOf(service, sport), !.state = x[4]] :
     x \in UNION {{client} \X Destinations(env, service, client, clients)
                    \X Said(env, service, client)
                    \X (IF TransportOf(service) = "tcp" THEN EstablishedStates ELSE {"SF"}) :
                    client \in clients}}
HasFlow(service) == service \in DOMAIN FaithfulPorts \cup DOMAIN TcpPorts

\* _failed_flow: none with fewer than two clients.
FailedFlows(clients, id, sport) ==
  {[Flow(id, "tcp", <<x[1], x[2]>>, x[3], 0, "opaque_tcp", <<>>)
      EXCEPT !.sport = sport, !.state = x[4]] :
     x \in UNION {{client} \X Servers(client, clients) \X FailPorts \X {"S0", "REJ"} :
                    client \in clients}}

\* _benign_fp_flow: a name or a page that some ruleset alerts on.
FpFlows(env, clients, id, sport) ==
  {[UdpTo(id, <<client, env.dns>>, 53, 0, "dns", Answered(<<6, 5, 3>>))
      EXCEPT !.sport = sport] : client \in clients}
  \cup {[TcpTo(id, ends, 80, 0, "http", [response_body_len |-> 50]) EXCEPT !.sport = sport] :
           ends \in clients \X External}
=============================================================================
