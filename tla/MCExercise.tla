------------------------------- MODULE MCExercise -------------------------------
(***************************************************************************)
(* Every attack with every short sequence of evasions, and small captures  *)
(* with every service, with few ports, in crowded and in tiny subnets.     *)
(***************************************************************************)
EXTENDS Exercise

Office == [name |-> "office", size |-> 60, gateway |-> Host(1), dns |-> Host(10), ambient |-> {"dns"}]
Home == [Office EXCEPT !.name = "home", !.dns = Host(1), !.ambient = {"dhcp", "icmp", "telnet"}]

\* A resolver among the clients.
Cloud == [Office EXCEPT !.name = "cloud", !.gateway = Host(21), !.dns = Far("metadata")]
Lab == [Office EXCEPT !.ambient = DOMAIN FaithfulPorts \cup DOMAIN TcpPorts]
Tiny == [Office EXCEPT !.size = 22, !.dns = Host(20)]

Plan(name, intensity, where, hosts, noise, duration) ==
  [attack |-> name, intensity |-> intensity, env |-> where, hosts |-> hosts, noise |-> noise,
   duration |-> duration, activity |-> <<3, 1, 2>>, evasions |-> 0, alerts |-> 1]

\* Attacks alone: evaded twice, alerted on twice, and at a high intensity.
Evasive == {[Plan(a, 1, Office, 1, 0, 0) EXCEPT !.evasions = 2, !.alerts = 0] : a \in ATTACKS}
Quiet == {[Plan(a, 1, Office, 1, 0, 0) EXCEPT !.alerts = 2] :
            a \in (ATTACKS \ {"ddos-syn-flood", "ransomware"}) \cup {"phishing"}}
Loud == {Plan(a, 250, Cloud, 2, 0, 0) :
           a \in {"phishing-intrusion", "port-scan", "kerberoasting", "rdp-bruteforce", "ipv6-c2"}}

\* One flow of every service; four and five of a few; names by volume; more hosts than the
\* storyline leaves room for; and subnets with room for one more host and for none.
Composed == {Plan("scheduled-task", 100, Lab, 2, 1, 0), Plan(None, 100, Home, 1, 3, 11),
             [Plan("dcsync", 100, [Office EXCEPT !.ambient = {"smb"}], 2, 4, 0) EXCEPT !.alerts = 0],
             Plan("wmi-exec", 100, Office, 2, flows_for_volume("quiet", 7), 11),
             Plan("llmnr-poisoning", 100, Office, 21, 1, 0),
             Plan("remote-registry", 100, Tiny, 1, 1, 0), Plan(None, 100, Tiny, 2, 1, 0)}

MCExercises == Evasive \cup Quiet \cup Loud \cup Composed
=============================================================================
