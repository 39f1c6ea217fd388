-------------------------------- MODULE Library --------------------------------
(***************************************************************************)
(* scenarios.py: the attacks, their ground truth and the evasions.  An     *)
(* attack is [flows, key, iocs]; the key is the sequence of its ground     *)
(* truth entries [technique, ids].  A flow is a flow of a document with    *)
(* the fields [id, ends, t]: ends is <<source, destination>>, t is in      *)
(* milliseconds after the attack's start.  An intensity is in percent.     *)
(* An address is a host of the subnet or one from elsewhere; a domain is a *)
(* name in a TLS hello and the lengths of its labels in a DNS question.    *)
(* r holds what the generator drew, by the parity of a flow's position.    *)
(***************************************************************************)
EXTENDS Renderers

CONSTANTS FirstStory,   \* the first source port of a storyline (40000)
          MaxPort       \* 65535

Host(k) == <<"host", k>>
Far(x) == <<"far", x>>

\* Mutant: the flows of a series share one identity.
IdOfSeries(name, i) == <<name, 0>>

Id(name, i) == <<name, i>>

Flow(id, transport, ends, dport, t, kind, given) ==
  [id |-> id, ends |-> ends, t |-> t, transport |-> transport, sport |-> 0, dport |-> dport,
   v6 |-> FALSE, state |-> "SF", rtt |-> 30, kind |-> kind, given |-> given]
TcpTo(id, ends, dport, t, kind, given) == Flow(id, "tcp", ends, dport, t, kind, given)
UdpTo(id, ends, dport, t, kind, given) == Flow(id, "udp", ends, dport, t, kind, given)

\* _sports: the flows of a storyline take consecutive source ports.
Numbered(flows) == [i \in DOMAIN flows |-> [flows[i] EXCEPT !.sport = FirstStory + i - 1]]

\* max(least, int(full * intensity)) flows, and their distance of ms / max(0.1, intensity).
Count(least, full, intensity) == AtLeast((full * intensity) \div 100, least)
Pace(ms, intensity) == (ms * 100) \div AtLeast(intensity, 10)
Series(n, flow(_)) == [i \in 1..n |-> flow(i - 1)]

Entry(technique, flows) == [technique |-> technique, ids |-> [i \in DOMAIN flows |-> flows[i].id]]
Attack(flows, key, iocs) == [flows |-> Numbered(flows), key |-> key, iocs |-> iocs]
Single(technique, flows) == Attack(flows, <<Entry(technique, flows)>>, <<>>)

\* _hosts: the storyline's hosts start at .40, whoever else has the address.
StoryHost(i) == Host(40 + i)
Victim == StoryHost(0)
Peer == StoryHost(1)
Pair12 == <<StoryHost(0), StoryHost(1)>>

Beacon(sni, given) == Filled([server_name |-> sni, client_profile |-> "curl",
                              app_data_orig_bytes |-> 160, app_data_resp_bytes |-> 600], given)
Modern(sni) == Beacon(sni, [version |-> "TLS1.3"])
Answered(labels) == [qname |-> labels, answers |-> 1]
C2Labels == <<3, 14, 7>>

\* The techniques of the keys: an empty string is none of them.
TechniqueNames ==
  {"T1003.006", "T1021.002", "T1021.002/T1570", "T1021.002/T1570/T1569.002", "T1021.006",
   "T1046", "T1047", "T1048", "T1048.003", "T1053.005", "T1071.001", "T1071.001/.004",
   "T1071.004/T1572", "T1087.002", "T1087/T1135", "T1110.001", "T1112", "T1135", "T1486",
   "T1499.001", "T1543.003/T1569.002", "T1552.005", "T1557.001", "T1558.003", "T1558.004",
   "T1566.001", "T1567.002", "T1613/T1021"}

ASSUME NoneAssumption == None \notin TechniqueNames

-----------------------------------------------------------------------------
(* Intrusions and tunnels.                                                 *)

build_intrusion(env, intensity, r) ==
  LET fileserver == StoryHost(2)
      phish == TcpTo(Id("atk-01-phish", 0), <<Far("exfil"), env.gateway>>, 25, 0, "smtp",
                     [mail_from |-> "hr", rcpt_to |-> <<"victim">>, body_len |-> 600])
      c2 == <<UdpTo(Id("atk-02-c2dns", 0), <<Victim, env.dns>>, 53, 45000, "dns",
                    Answered(C2Labels))>>
            \o Series(Count(3, 6, intensity), LAMBDA i :
                 TcpTo(Id("atk-02-beacon", i), <<Victim, Far("c2")>>, 443,
                       75000 + i * 60000 + r.jitter[i % 2], "tls", Beacon("c2", <<>>)))
      look == <<TcpTo(Id("atk-03-ldap", 0), <<Victim, env.dns>>, 389, 465000, "ldap",
                      [searches |-> <<"domain", "users">>]),
                TcpTo(Id("atk-03-smbenum", 0), <<Victim, fileserver>>, 445, 473000, "smb",
                      [share |-> "IPC$"])>>
      move == <<TcpTo(Id("atk-04-lateral", 0), <<Victim, Peer>>, 445, 585000, "smb",
                      [share |-> "ADMIN$"])>>
      exfil == <<TcpTo(Id("atk-05-exfil", 0), <<Victim, Far("exfil")>>, 80, 675000, "http",
                       [method |-> "POST", uri |-> None, request_body_len |-> 45000,
                        response_body_len |-> 20])>>
  IN  Attack(<<phish>> \o c2 \o look \o move \o exfil,
             <<Entry("T1566.001", <<phish>>), Entry("T1071.001/.004", c2), Entry("T1087/T1135", look),
               Entry("T1021.002", move), Entry("T1048", exfil)>>,
             [c2_domain |-> "c2"])

build_dns_exfil(env, intensity) ==
  Single("T1048.003", Series(Count(8, 60, intensity), LAMBDA i :
    UdpTo(Id("atk-dnsx", i), <<Victim, env.dns>>, 53, i * Pace(2000, intensity), "dns",
          [qname |-> <<39, 5, 4, 7>>, rcode |-> "NXDOMAIN"])))

\* DoH and DoT: the version and the ALPN say which.
Tunnel(name, dport, version, alpn, intensity) ==
  Single("T1071.004/T1572", Series(Count(8, 40, intensity), LAMBDA i :
    TcpTo(Id(name, i), <<Victim, Far("resolver")>>, dport, i * Pace(3000, intensity), "tls",
          Beacon("resolver", [version |-> version, alpn |-> alpn]))))
build_doh_tunnel(intensity) == Tunnel("atk-doh", 443, "TLS1.3", "h2", intensity)
build_dot_tunnel(intensity) == Tunnel("atk-dot", 853, "TLS1.2", "dot", intensity)

\* The name is asked for over IPv4, from 10.10.0.40 in any environment.
build_ipv6_c2(env, intensity, r) ==
  LET flows == <<UdpTo(Id("atk-6-dns", 0), <<IF env.name = "office" THEN Victim ELSE Far("10.10.0.40"),
                                             env.dns>>, 53, 0, "dns",
                       [qname |-> C2Labels, qtype |-> "AAAA", answers |-> 1])>>
               \o Series(Count(3, 6, intensity), LAMBDA i :
                    [TcpTo(Id("atk-6-beacon", i), <<Far("victim6"), Far("c2-6")>>, 443,
                           30000 + i * 60000 + r.jitter[i % 2], "tls",
                           Modern("c2")) EXCEPT !.v6 = TRUE])
  IN  Attack(flows, <<Entry("T1071.001", flows)>>, [c2_domain |-> "c2"])

build_imds_ssrf ==
  Single("T1552.005", Series(2, LAMBDA i :
    TcpTo(Id("atk-imds", i), <<Victim, Far("metadata")>>, 80, i * 500, "http",
          [response_body_len |-> 800])))

build_cloud_exfil(env, intensity) ==
  Single("T1567.002",
    <<UdpTo(Id("atk-cx-dns", 0), <<Victim, env.dns>>, 53, 0, "dns",
            Answered(<<13, 2, 9, 3>>))>>
    \o Series(Count(3, 6, intensity), LAMBDA i :
         TcpTo(Id("atk-cx", i), <<Victim, Far("storage")>>, 443, 5000 + i * 2000, "tls",
               Modern("storage"))))

build_k8s_lateral(env) ==
  LET pod == Far("pod")
      Mesh(id, to, dport, t, sni) == TcpTo(id, <<pod, Far(to)>>, dport, t, "tls", Modern(sni))
  IN  Single("T1613/T1021",
        Series(2, LAMBDA i : UdpTo(Id("atk-k8s-dns", i), <<pod, env.dns>>, 53, i * 1000, "dns",
                                   Answered(<<10, 7, 3, 7, 5>>)))
        \o <<Mesh(Id("atk-k8s-api", 0), "api", 443, 2000, "api")>>
        \o Series(4, LAMBDA i : LET other == <<"svc-0", "svc-1", "svc-2", "svc-3">>[i + 1]
                                IN  Mesh(Id("atk-k8s-lat", i), other, 8443, 4000 + i * 1500, other)))

-----------------------------------------------------------------------------
(* Credentials, floods and scans.                                          *)

build_llmnr_poisoning ==
  Single("T1557.001",
    Series(3, LAMBDA i :
      [UdpTo(Id("atk-llmnr", i), <<Victim, Far("224.0.0.252")>>, 5355, i * 4000, "namequery",
             [qname |-> "wpad", protocol |-> "llmnr", poison_from |-> Peer]) EXCEPT !.rtt = 1])
    \o <<TcpTo(Id("atk-llmnr-smb", 0), Pair12, 445, 14000, "smb",
               [share |-> "wpad", ntlm |-> "jsmith"])>>)

\* Sources, here addresses beyond any subnet, are drawn one by one: two flows may have the same.
build_ddos_syn_flood(intensity, r) ==
  LET n == Count(40, 300, intensity)
      source(i) == IF r.again /\ i = n - 1 THEN 0 ELSE i
      flood == Single("T1499.001", Series(n, LAMBDA i :
        [TcpTo(Id("atk-syn", i), <<Host(1000 + source(i)), Victim>>, 443,
               i * Pace(50, intensity), "opaque_tcp", <<>>) EXCEPT !.state = "S0"]))
  IN  [flood EXCEPT !.flows = [i \in 1..n |-> [flood.flows[i] EXCEPT !.sport = 1024 + source(i - 1)]]]

ScanPorts == <<21, 22, 23, 25, 53, 80, 110, 135, 139, 143, 389, 443, 445, 993, 995, 1433, 3306,
               3389, 5432, 8080>>

\* A slice of a list repeated max(1, int(intensity)) times.
build_port_scan(intensity) ==
  LET rounds == AtLeast(intensity \div 100, 1) * Len(ScanPorts)
      wanted == Count(12, Len(ScanPorts), intensity)
  IN  Single("T1046", Series(IF wanted < rounds THEN wanted ELSE rounds, LAMBDA i :
        LET port == ScanPorts[1 + (i % Len(ScanPorts))]
        IN  [TcpTo(Id("atk-scan", i), Pair12, port, i * 300, "opaque_tcp", <<>>)
               EXCEPT !.state = IF port \in {80, 443, 445} THEN "SF" ELSE "REJ"]))

build_brute_force(intensity) ==
  Single("T1110.001", Series(Count(10, 30, intensity), LAMBDA i :
    [TcpTo(Id("atk-bf", i), Pair12, 22, i * Pace(1500, intensity), "ssh", [payload_bytes |-> 200])
       EXCEPT !.state = "RSTO"]))

Documents8 == <<"xlsx", "xlsx", "docx", "pptx", "zip", "zip", "docx", "pdf">>

build_ransomware(intensity) ==
  LET c2 == <<TcpTo(Id("atk-rw-c2", 0), <<Victim, Far("c2")>>, 443, 0, "tls",
                    [server_name |-> "update", client_profile |-> "curl",
                     app_data_resp_bytes |-> 800])>>
      sweep == Series(Count(20, 80, intensity), LAMBDA i :
                 TcpTo(Id("atk-rw-smb", i), Pair12, 445, 30000 + i * Pace(400, intensity), "smb",
                       [share |-> "Share", read_file |-> Documents8[1 + (i % 8)],
                        file_bytes |-> 8000 + i * 64]))
  IN  Attack(c2 \o sweep, <<Entry("T1071.001", c2), Entry("T1486", sweep)>>, <<>>)

Ticket(id, env, t, type, etypes, preauth) ==
  TcpTo(id, <<Victim, env.dns>>, 88, t, "kerberos",
        [request_type |-> type, etype |-> Head(etypes), request_etypes |-> etypes,
         preauth |-> preauth])

build_kerberoasting(env, intensity) ==
  Single("T1558.003",
    <<Ticket(Id("atk-krb-tgt", 0), env, 0, "AS", <<18, 17>>, TRUE)>>
    \o Series(Count(4, 8, intensity), LAMBDA i :
         Ticket(Id("atk-krb-roast", i), env, 5000 + i * Pace(1500, intensity), "TGS", <<23>>, TRUE)))

build_asrep_roasting(env, intensity) ==
  Single("T1558.004", Series(Count(3, 6, intensity), LAMBDA i :
    Ticket(Id("atk-asrep", i), env, i * Pace(2000, intensity), "AS", <<23>>, FALSE)))

\* Only the last attempt gets in.
build_rdp_bruteforce(intensity) ==
  LET n == Count(6, 8, intensity)
  IN  Single("T1110.001", Series(n, LAMBDA i :
        [TcpTo(Id("atk-rdp", i), Pair12, 3389, i * Pace(2000, intensity), "opaque_tcp",
               [service_hint |-> "rdp", orig_bytes |-> 44, resp_bytes |-> 19,
                orig_literal_hex |-> 44, resp_literal_hex |-> 19])
           EXCEPT !.state = IF i = n - 1 THEN "SF" ELSE "RSTR"]))

build_winrm_lateral ==
  Single("T1021.006", Series(3, LAMBDA i :
    TcpTo(Id("atk-winrm", i), Pair12, 5985, i * 1500, "http",
          [method |-> "POST", request_body_len |-> <<900, 1400, 600>>[i + 1],
           response_body_len |-> <<700, 500, 2200>>[i + 1]])))

-----------------------------------------------------------------------------
(* Remote procedure calls between the first two hosts.                     *)

Rpc(name, t, pipe, interface, operations) ==
  TcpTo(Id(name, 0), Pair12, 445, t, "dcerpc",
        [share |-> "IPC$", pipe |-> pipe, interface |-> interface, operations |-> operations])
Direct(name, t, dport, interface, operations) ==
  TcpTo(Id(name, 0), Pair12, dport, t, "dcerpc",
        [share |-> None, pipe |-> interface, interface |-> interface, operations |-> operations,
         transport |-> "ncacn_ip_tcp"])
Epm(name, t) == Direct(name, t, 135, "epmapper", <<3>>)
Drop(name) == TcpTo(Id(name, 0), Pair12, 445, 0, "smb",
                    [share |-> "ADMIN$", write_file |-> "exe", file_bytes |-> 6144])
CreateStart == <<15, 12, 6, 16, 19, 6, 0, 0, 0>>

build_remote_service ==
  Single("T1543.003/T1569.002", <<Epm("atk-svcctl-epm", 0),
                                  Rpc("atk-svcctl-01", 200, "svcctl", "svcctl", CreateStart)>>)
build_scheduled_task ==
  Single("T1053.005", <<Rpc("atk-atsvc-01", 0, "atsvc", "ITaskSchedulerService", <<1>>)>>)
build_wmi_exec == Single("T1047", <<Rpc("atk-wmi-01", 0, "wmi", "IWbemServices", <<24>>)>>)
build_admin_share_transfer == Single("T1021.002/T1570", <<Drop("atk-admin-01")>>)
build_share_discovery ==
  Single("T1135", <<Rpc("atk-srvsvc-01", 0, "srvsvc", "srvsvc", <<15, 16, 16, 16, 16, 16>>)>>)
build_account_discovery ==
  Single("T1087.002", <<Rpc("atk-samr-01", 0, "samr", "samr", <<0, 5, 6, 7, 8, 13, 11, 15, 17, 1>>)>>)
build_dcsync ==
  Single("T1003.006", <<Epm("atk-dcsync-epm", 0),
                        Direct("atk-dcsync-drs", 200, 49200, "drsuapi", <<0, 16, 12, 0, 3, 1>>)>>)
build_remote_registry ==
  Single("T1112", <<Rpc("atk-winreg-01", 0, "winreg", "winreg", <<6, 22>>)>>)

\* The endpoint lookup is in the storyline and in no entry of the key.
build_psexec_lateral ==
  LET drop == Drop("atk-psexec-drop")
      service == Rpc("atk-psexec-svc", 3000, "svcctl", "svcctl", CreateStart)
  IN  Attack(<<drop, Epm("atk-psexec-epm", 2800), service>>,
             <<Entry("T1021.002/T1570/T1569.002", <<drop, service>>)>>, <<>>)

ATTACKS == {"phishing-intrusion", "dns-exfil", "doh-tunnel", "dot-tunnel", "llmnr-poisoning",
            "ipv6-c2", "imds-ssrf", "cloud-exfil", "k8s-lateral", "ddos-syn-flood", "port-scan",
            "brute-force", "ransomware", "kerberoasting", "asrep-roasting", "dcsync",
            "rdp-bruteforce", "winrm-lateral", "remote-service", "scheduled-task", "wmi-exec",
            "admin-share-transfer", "share-discovery", "account-discovery", "remote-registry",
            "psexec-lateral"}

Built(name, env, intensity, r) ==
  CASE name = "phishing-intrusion" -> build_intrusion(env, intensity, r)
    [] name = "dns-exfil" -> build_dns_exfil(env, intensity)
    [] name = "doh-tunnel" -> build_doh_tunnel(intensity)
    [] name = "dot-tunnel" -> build_dot_tunnel(intensity)
    [] name = "llmnr-poisoning" -> build_llmnr_poisoning
    [] name = "ipv6-c2" -> build_ipv6_c2(env, intensity, r)
    [] name = "imds-ssrf" -> build_imds_ssrf
    [] name = "cloud-exfil" -> build_cloud_exfil(env, intensity)
    [] name = "k8s-lateral" -> build_k8s_lateral(env)
    [] name = "ddos-syn-flood" -> build_ddos_syn_flood(intensity, r)
    [] name = "port-scan" -> build_port_scan(intensity)
    [] name = "brute-force" -> build_brute_force(intensity)
    [] name = "ransomware" -> build_ransomware(intensity)
    [] name = "kerberoasting" -> build_kerberoasting(env, intensity)
    [] name = "asrep-roasting" -> build_asrep_roasting(env, intensity)
    [] name = "dcsync" -> build_dcsync
    [] name = "rdp-bruteforce" -> build_rdp_bruteforce(intensity)
    [] name = "winrm-lateral" -> build_winrm_lateral
    [] name = "remote-service" -> build_remote_service
    [] name = "scheduled-task" -> build_scheduled_task
    [] name = "wmi-exec" -> build_wmi_exec
    [] name = "admin-share-transfer" -> build_admin_share_transfer
    [] name = "share-discovery" -> build_share_discovery
    [] name = "account-discovery" -> build_account_discovery
    [] name = "remote-registry" -> build_remote_registry
    [] name = "psexec-lateral" -> build_psexec_lateral

-----------------------------------------------------------------------------
(* Evasions change the flows of an attack and note what they did.          *)

EVASIONS == {"domain-fronting", "ja3-randomization", "port-hopping", "slow-and-low", "dns-depth"}

Change(attack, chosen, changed(_, _)) ==
  [attack EXCEPT !.flows = [i \in DOMAIN @ |-> IF i \in chosen THEN changed(i, @[i]) ELSE @[i]]]
Noted(attack, iocs) == [attack EXCEPT !.iocs = Filled(iocs, @)]

\* _c2_tls_flows: those that name the C2 domain, or all TLS flows of an attack without one.
C2Flows(attack) ==
  {i \in DOMAIN attack.flows :
     LET f == attack.flows[i]
     IN  /\ f.kind = "tls"
         /\ "c2_domain" \in DOMAIN attack.iocs => f.given.server_name = attack.iocs.c2_domain}

DomainFronting(attack) ==
  LET beacons == C2Flows(attack)
  IN  IF beacons = {} THEN attack
      ELSE Noted(Change(attack, beacons, LAMBDA i, f : [f EXCEPT !.given.server_name = "front"]),
                 [fronted_flows |-> Cardinality(beacons), note_domain_fronting |-> TRUE])

Ja3Randomization(attack, r) ==
  Noted(Change(attack, C2Flows(attack),
               LAMBDA i, f : [f EXCEPT !.given.client_profile = r.profile[i % 2]]),
        [note_ja3_randomization |-> TRUE])

\* Mutant: only the beacons on port 443 move.
PortHopping443(attack, r) ==
  Noted(Change(attack, {i \in C2Flows(attack) : attack.flows[i].dport = 443},
               LAMBDA i, f : [f EXCEPT !.dport = r.hop]), [note_port_hopping |-> r.hop])

PortHopping(attack, r) ==
  Noted(Change(attack, C2Flows(attack), LAMBDA i, f : [f EXCEPT !.dport = r.hop]),
        [note_port_hopping |-> r.hop])

Earliest(flows) == Min({flows[i].t : i \in DOMAIN flows})

\* Mutant: only the beacons slow down.
SlowAndLowC2(attack) ==
  LET t0 == Earliest(attack.flows)
  IN  Noted(Change(attack, C2Flows(attack), LAMBDA i, f : [f EXCEPT !.t = t0 + (f.t - t0) * 12]),
            [note_slow_and_low |-> 12])

SlowAndLow(attack) ==
  LET t0 == Earliest(attack.flows)
  IN  Noted(Change(attack, DOMAIN attack.flows, LAMBDA i, f : [f EXCEPT !.t = t0 + (f.t - t0) * 12]),
            [note_slow_and_low |-> 12])

\* The first label in pieces of at most 15 characters.
Chunked(labels) ==
  [i \in 1 .. (Head(labels) + 14) \div 15 |->
     IF i * 15 <= Head(labels) THEN 15 ELSE Head(labels) % 15] \o Tail(labels)

DnsDepth(attack) ==
  LET asked == {i \in DOMAIN attack.flows : attack.flows[i].kind = "dns" /\ attack.flows[i].dport = 53}
      deep == Change(attack, asked, LAMBDA i, f : [f EXCEPT !.given.qname = Chunked(@)])
  IN  IF asked = {} THEN attack ELSE Noted(deep, [note_dns_depth |-> TRUE])

Evaded(attack, ev, r) ==
  CASE ev = "domain-fronting" -> DomainFronting(attack)
    [] ev = "ja3-randomization" -> Ja3Randomization(attack, r)
    [] ev = "port-hopping" -> PortHopping(attack, r)
    [] ev = "slow-and-low" -> SlowAndLow(attack)
    [] ev = "dns-depth" -> DnsDepth(attack)

-----------------------------------------------------------------------------
(* write_ground_truth: the flows with the technique of the entry that      *)
(* names them last, "" for none.                                           *)

TechniqueOf(attack, id) ==
  LET naming == {k \in DOMAIN attack.key : id \in ToSet(attack.key[k].ids)}
  IN  IF naming = {} THEN None ELSE attack.key[Max(naming)].technique

MaliciousFlows(attack) ==
  [i \in DOMAIN attack.flows |->
     [id |-> attack.flows[i].id, ends |-> attack.flows[i].ends, dport |-> attack.flows[i].dport,
      technique |-> TechniqueOf(attack, attack.flows[i].id)]]
=============================================================================
