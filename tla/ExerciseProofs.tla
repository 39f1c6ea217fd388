---------------------------- MODULE ExerciseProofs ---------------------------
(***************************************************************************)
(* Proofs about Exercise: what its run checks for a few small exercises    *)
(* holds for any exercise, any environment and any number of flows.        *)
(***************************************************************************)
EXTENDS Exercise, FiniteSetTheorems, WellFoundedInduction, SequenceTheorems, TLAPS

LEMMA LeastNat ==
  ASSUME NEW T \in SUBSET Nat, T # {}
  PROVE  \E x \in T : \A y \in T : x <= y
<1>1. PICK x \in T : \A y \in T : ~(<<y, x>> \in OpToRel(<, Nat))
  BY NatLessThanWellFounded, WFMin
<1>2. \A y \in T : ~(y < x)
  BY <1>1 DEF OpToRel
<1> QED BY <1>2

LEMMA NatSteps ==
  ASSUME NEW G, 0 \in G, \A n0 \in Nat : n0 \in G => n0 + 1 \in G
  PROVE  Nat \subseteq G
<1>1. SUFFICES ASSUME Nat \ G # {} PROVE FALSE
  OBVIOUS
<1>2. PICK m \in Nat \ G : \A l \in Nat \ G : m <= l
  BY <1>1, LeastNat, Nat \ G \in SUBSET Nat
<1>3. m # 0 /\ m - 1 \in Nat /\ m - 1 \in G
  BY <1>2
<1> QED BY <1>2, <1>3

-----------------------------------------------------------------------------
(* Flows that load, render and read back. *)

Reads(f) == IsFlow(f) /\ ~Raises(f) /\ Sayable(f)

Photos == {"jpg", "jpeg"} \ {None}

\* What is said in a protocol is complete, of the right types, and can be rendered and read back.
Fits(kind, dport, given) ==
  LET s == Filled(given, L7Spec[kind])
  IN  /\ kind \in DOMAIN L7Spec
      /\ DOMAIN given \subseteq DOMAIN L7Spec[kind] /\ Typed(given)
      /\ \A x \in DOMAIN L7Spec[kind] : L7Spec[kind][x] = Required => x \in DOMAIN given
      /\ kind \in DOMAIN Literals => \A x \in DOMAIN Literals[kind] : s[x] \in Literals[kind][x]
      /\ kind = "http" => s.response_body_len <= 65000 /\ s.method # "HEAD"
      /\ kind = "ftp" => s.retrieve_file \notin Photos
      /\ kind = "smb" => s.read_file \notin Photos /\ s.write_file \notin Photos
      /\ kind = "dcerpc" => s.interface \in Interfaces /\ s.operations # <<>>
      /\ kind = "dns" => s.respond /\ s.rcode \in Rcodes
      /\ kind \in {"icmp", "ntp", "snmp", "modbus"} => s.count > 0
      /\ kind = "opaque_udp" => s.orig_bytes # 0 \/ s.orig_literal_hex > 0
      /\ kind = "namequery" => s.protocol = "llmnr" /\ dport = 5355

Ended == {"SF", "RSTO", "RSTR"}

\* The connection or the datagrams of a flow carry what it says.
Carried(f) ==
  /\ f.transport \in Transports(f.kind) /\ (f.kind = "dns" => f.transport = "udp")
  /\ f.transport = "icmp" => f.sport = 0 /\ f.dport = 0
  /\ f.v6 => Transports(f.kind) = {"tcp"}
  /\ Transports(f.kind) = {"tcp"} =>
       f.state \in Ended \/ (f.kind = "opaque_tcp" /\ f.state \in {"S0", "REJ"})

LEMMA FilesFit ==
  ASSUME NEW f, Fits(f.kind, f.dport, f.given)
  PROVE  \A x \in FilesAsked(f) : ~Unpackable(x[1], x[2])
<1> DEFINE s == Loaded(f)
<1>1. s = Filled(f.given, L7Spec[f.kind])
  BY Zenon DEF Loaded
<1> HIDE DEF s
<1>2. CASE f.kind = "http"
  <2>1. s.response_body_len <= 65000
    BY <1>1, <1>2 DEF Fits
  <2>2. \A x \in FilesAsked(f) : x[2] = s.response_body_len
    <3>1. FilesAsked(f) \subseteq {<<s.uri, s.response_body_len>>}
      BY <1>2 DEF FilesAsked, s
    <3> QED BY <3>1
  <2>3. s.response_body_len \in Int
    <3>1. HttpL7.response_body_len = 0 /\ "response_body_len" \in DOMAIN HttpL7
      BY DEF HttpL7
    <3>2. L7Spec[f.kind] = HttpL7
      BY <1>2 DEF L7Spec
    <3> QED BY <1>1, <1>2, <3>1, <3>2 DEF Fits, Filled, Typed, Integral
  <2> QED BY <2>1, <2>2, <2>3 DEF Unpackable
<1>3. CASE f.kind = "ftp"
  <2>1. \A x \in FilesAsked(f) : x[1] = s.retrieve_file /\ x[1] # None
    BY <1>3 DEF FilesAsked, s
  <2>2. s.retrieve_file \notin Photos
    BY <1>1, <1>3 DEF Fits
  <2> QED BY <2>1, <2>2 DEF Unpackable, Photos
<1>4. CASE f.kind = "smb"
  <2>1. \A x \in FilesAsked(f) : (x[1] = s.read_file \/ x[1] = s.write_file) /\ x[1] # None
    BY <1>4 DEF FilesAsked, s
  <2>2. s.read_file \notin Photos /\ s.write_file \notin Photos
    BY <1>1, <1>4 DEF Fits
  <2> QED BY <2>1, <2>2 DEF Unpackable, Photos
<1>5. CASE f.kind \notin {"http", "ftp", "smb"}
  BY <1>5 DEF FilesAsked
<1> QED BY <1>2, <1>3, <1>4, <1>5

LEMMA ReadsIs ==
  ASSUME NEW f, Fits(f.kind, f.dport, f.given), Carried(f)
  PROVE  Reads(f)
<1>1. IsFlow(f)
  BY DEF Fits, Carried, IsFlow, Loaded
<1>2. ~Raises(f)
  <2>1. f.kind = "dcerpc" => Loaded(f).interface \in Interfaces /\ Loaded(f).operations # <<>>
    BY DEF Fits, Loaded
  <2>2. f.kind = "dns" => Transports(f.kind) # {"tcp"}
    BY DEF Transports
  <2> QED BY FilesFit, <2>1, <2>2 DEF Raises, Carried, Ended
<1>3. Sayable(f)
  <2> DEFINE s == Loaded(f)
  <2>1. Delivers(f) \/ f.kind = "opaque_tcp"
    BY DEF Delivers, Carried, Ended
  <2>2. /\ f.kind = "dns" => f.transport = "udp" /\ s.respond /\ s.rcode \in Rcodes
        /\ f.kind \in {"icmp", "ntp", "snmp", "modbus"} => s.count > 0
        /\ f.kind = "opaque_udp" => s.orig_bytes # 0 \/ s.orig_literal_hex > 0
        /\ f.kind = "http" => s.method # "HEAD"
    BY DEF Fits, Carried, Loaded
  <2>3. f.kind = "namequery" => f.dport = PortOf(s)
    BY DEF Fits, PortOf, Loaded
  <2> HIDE DEF s
  <2> QED BY <2>1, <2>2, <2>3 DEF Sayable, s
<1> QED BY <1>1, <1>2, <1>3 DEF Reads

LEMMA FillIs ==
  ASSUME NEW g, NEW d
  PROVE  /\ \A x \in DOMAIN g : Filled(g, d)[x] = g[x]
         /\ \A x \in DOMAIN d : x \notin DOMAIN g => Filled(g, d)[x] = d[x]
BY DEF Filled

\* The fields without a default.
Mandatory == {"qname", "server_name", "mail_from", "rcpt_to", "assigned_ip", "server_ip"}

LEMMA DefaultsAre ==
  \A kind \in DOMAIN L7Spec : \A x \in DOMAIN L7Spec[kind] :
    L7Spec[kind][x] = Required => x \in Mandatory
BY DefaultsAssumption DEF Mandatory

LEMMA TlsFits ==
  ASSUME NEW g, DOMAIN g \subseteq DOMAIN TlsL7, Typed(g), "server_name" \in DOMAIN g,
         "version" \in DOMAIN g => g.version \in {"TLS1.2", "TLS1.3"}, NEW dport
  PROVE  Fits("tls", dport, g)
<1>1. L7Spec["tls"] = TlsL7 /\ "tls" \in DOMAIN L7Spec /\ DOMAIN Literals["tls"] = {"version"}
      /\ Literals["tls"]["version"] = {"TLS1.2", "TLS1.3"}
  BY DEF L7Spec, Literals
<1>2. DOMAIN TlsL7 \cap Mandatory = {"server_name"} /\ TlsL7.version = "TLS1.2" /\ "version" \in DOMAIN TlsL7
  BY DEF TlsL7, Mandatory
<1>3. Filled(g, TlsL7)["version"] \in {"TLS1.2", "TLS1.3"}
  BY <1>2, FillIs
<1>4. \A x \in DOMAIN TlsL7 : TlsL7[x] = Required => x \in DOMAIN g
  BY <1>1, <1>2, DefaultsAre
<1> QED BY <1>1, <1>3, <1>4 DEF Fits

LEMMA DnsFits ==
  ASSUME NEW g, DOMAIN g \subseteq DOMAIN DnsL7, Typed(g), "qname" \in DOMAIN g,
         "respond" \notin DOMAIN g, "rcode" \in DOMAIN g => g.rcode \in Rcodes, NEW dport
  PROVE  Fits("dns", dport, g)
<1>1. L7Spec["dns"] = DnsL7 /\ "dns" \in DOMAIN L7Spec /\ "dns" \notin DOMAIN Literals
  BY DEF L7Spec, Literals
<1>2. DOMAIN DnsL7 \cap Mandatory = {"qname"} /\ DnsL7.rcode = "NOERROR" /\ DnsL7.respond = TRUE
      /\ {"rcode", "respond"} \subseteq DOMAIN DnsL7
  BY DEF DnsL7, Mandatory
<1>3. Filled(g, DnsL7)["respond"] = TRUE /\ Filled(g, DnsL7)["rcode"] \in Rcodes
  <2>1. "NOERROR" \in Rcodes
    BY DEF Rcodes
  <2> QED BY <1>2, <2>1, FillIs
<1>4. \A x \in DOMAIN DnsL7 : DnsL7[x] = Required => x \in DOMAIN g
  BY <1>1, <1>2, DefaultsAre
<1> QED BY <1>1, <1>3, <1>4 DEF Fits

LEMMA HttpFits ==
  ASSUME NEW g, DOMAIN g \subseteq DOMAIN HttpL7, Typed(g), "method" \in DOMAIN g => g.method # "HEAD",
         "response_body_len" \in DOMAIN g => g.response_body_len <= 65000, NEW dport
  PROVE  Fits("http", dport, g)
<1>1. L7Spec["http"] = HttpL7 /\ "http" \in DOMAIN L7Spec /\ "http" \notin DOMAIN Literals
  BY DEF L7Spec, Literals
<1>2. DOMAIN HttpL7 \cap Mandatory = {} /\ HttpL7.method = "GET" /\ HttpL7.response_body_len = 0
      /\ {"method", "response_body_len"} \subseteq DOMAIN HttpL7
  BY DEF HttpL7, Mandatory
<1>3. Filled(g, HttpL7)["method"] # "HEAD" /\ Filled(g, HttpL7)["response_body_len"] <= 65000
  BY <1>2, FillIs
<1>4. \A x \in DOMAIN HttpL7 : HttpL7[x] = Required => x \in DOMAIN g
  BY <1>1, <1>2, DefaultsAre
<1> QED BY <1>1, <1>3, <1>4 DEF Fits

LEMMA SmtpFits ==
  ASSUME NEW g, DOMAIN g \subseteq DOMAIN SmtpL7, Typed(g), {"mail_from", "rcpt_to"} \subseteq DOMAIN g,
         NEW dport
  PROVE  Fits("smtp", dport, g)
<1>1. L7Spec["smtp"] = SmtpL7 /\ "smtp" \in DOMAIN L7Spec /\ "smtp" \notin DOMAIN Literals
  BY DEF L7Spec, Literals
<1>2. DOMAIN SmtpL7 \cap Mandatory = {"mail_from", "rcpt_to"}
  BY DEF SmtpL7, Mandatory
<1>4. \A x \in DOMAIN SmtpL7 : SmtpL7[x] = Required => x \in DOMAIN g
  BY <1>1, <1>2, DefaultsAre
<1> QED BY <1>1, <1>4 DEF Fits

LEMMA SmbFits ==
  ASSUME NEW g, DOMAIN g \subseteq DOMAIN SmbL7, Typed(g),
         "read_file" \in DOMAIN g => g.read_file \notin Photos,
         "write_file" \in DOMAIN g => g.write_file \notin Photos, NEW dport
  PROVE  Fits("smb", dport, g)
<1>1. L7Spec["smb"] = SmbL7 /\ "smb" \in DOMAIN L7Spec /\ "smb" \notin DOMAIN Literals
  BY DEF L7Spec, Literals
<1>2. DOMAIN SmbL7 \cap Mandatory = {} /\ SmbL7.read_file = None /\ SmbL7.write_file = None
      /\ {"read_file", "write_file"} \subseteq DOMAIN SmbL7
  BY DEF SmbL7, Mandatory
<1>3. None \notin Photos
  BY DEF Photos
<1>5. Filled(g, SmbL7)["read_file"] \notin Photos /\ Filled(g, SmbL7)["write_file"] \notin Photos
  BY <1>2, <1>3, FillIs
<1>4. \A x \in DOMAIN SmbL7 : SmbL7[x] = Required => x \in DOMAIN g
  BY <1>1, <1>2, DefaultsAre
<1> QED BY <1>1, <1>4, <1>5 DEF Fits

\* The kinds that any document's fields fit.
Easy == {"ldap", "opaque_tcp", "ssh", "radius", "pop3", "imap", "irc"}

LEMMA EasyFits ==
  ASSUME NEW kind \in Easy, NEW g, DOMAIN g \subseteq DOMAIN L7Spec[kind], Typed(g), NEW dport
  PROVE  Fits(kind, dport, g)
<1>1. kind \in DOMAIN L7Spec /\ kind \notin DOMAIN Literals
  BY DEF L7Spec, Literals, Easy
<1>2. DOMAIN L7Spec[kind] \cap Mandatory = {}
  <2>1. CASE kind = "ldap"
    BY <2>1 DEF L7Spec, LdapL7, Mandatory
  <2>2. CASE kind = "opaque_tcp"
    BY <2>2 DEF L7Spec, OpaqueTcpL7, Mandatory
  <2>3. CASE kind = "ssh"
    BY <2>3 DEF L7Spec, SshL7, Mandatory
  <2>4. CASE kind = "radius"
    BY <2>4 DEF L7Spec, RadiusL7, Mandatory
  <2>5. CASE kind = "pop3"
    BY <2>5 DEF L7Spec, Pop3L7, Mandatory
  <2>6. CASE kind = "imap"
    BY <2>6 DEF L7Spec, ImapL7, Mandatory
  <2>7. CASE kind = "irc"
    BY <2>7 DEF L7Spec, IrcL7, Mandatory
  <2> QED BY <2>1, <2>2, <2>3, <2>4, <2>5, <2>6, <2>7 DEF Easy
<1>4. \A x \in DOMAIN L7Spec[kind] : L7Spec[kind][x] = Required => x \in DOMAIN g
  BY <1>1, <1>2, DefaultsAre
<1> QED BY <1>1, <1>4 DEF Fits, Easy

Counting == {"icmp", "ntp", "snmp", "modbus"}

LEMMA CountFits ==
  ASSUME NEW kind \in Counting, NEW g, DOMAIN g \subseteq DOMAIN L7Spec[kind], Typed(g),
         "icmp_type" \notin DOMAIN g, "count" \in DOMAIN g => g.count > 0, NEW dport
  PROVE  Fits(kind, dport, g)
<1> DEFINE d == L7Spec[kind]
<1>1. kind \in DOMAIN L7Spec /\ (kind \in DOMAIN Literals => kind = "icmp")
  BY DEF L7Spec, Literals, Counting
<1>2. /\ DOMAIN d \cap Mandatory = {} /\ "count" \in DOMAIN d /\ d["count"] = 1
      /\ kind = "icmp" => "icmp_type" \in DOMAIN d /\ d["icmp_type"] = "echo"
  <2>1. CASE kind = "icmp"
    BY <2>1 DEF L7Spec, IcmpL7, Mandatory
  <2>2. CASE kind = "ntp"
    BY <2>2 DEF L7Spec, NtpL7, Mandatory
  <2>3. CASE kind = "snmp"
    BY <2>3 DEF L7Spec, SnmpL7, Mandatory
  <2>4. CASE kind = "modbus"
    BY <2>4 DEF L7Spec, ModbusL7, Mandatory
  <2> QED BY <2>1, <2>2, <2>3, <2>4 DEF Counting
<1>3. DOMAIN Literals["icmp"] = {"icmp_type"} /\ Literals["icmp"]["icmp_type"] = {"echo"}
  BY DEF Literals
<1>4. \A x \in DOMAIN d : d[x] = Required => x \in DOMAIN g
  BY <1>1, <1>2, DefaultsAre
<1> HIDE DEF d
<1>5. /\ Filled(g, d)["count"] > 0
      /\ kind = "icmp" => Filled(g, d)["icmp_type"] = "echo"
  BY <1>2, FillIs
<1> QED BY <1>1, <1>3, <1>4, <1>5 DEF Fits, Counting, d

LEMMA KerberosFits ==
  ASSUME NEW g, DOMAIN g \subseteq DOMAIN KerberosL7, Typed(g),
         "request_type" \in DOMAIN g => g.request_type \in {"AS", "TGS"}, NEW dport
  PROVE  Fits("kerberos", dport, g)
<1>1. L7Spec["kerberos"] = KerberosL7 /\ "kerberos" \in DOMAIN L7Spec
      /\ DOMAIN Literals["kerberos"] = {"request_type"}
      /\ Literals["kerberos"]["request_type"] = {"AS", "TGS"}
  BY DEF L7Spec, Literals
<1>2. DOMAIN KerberosL7 \cap Mandatory = {} /\ KerberosL7.request_type = "AS" /\ "request_type" \in DOMAIN KerberosL7
  BY DEF KerberosL7, Mandatory
<1>3. Filled(g, KerberosL7)["request_type"] \in {"AS", "TGS"}
  BY <1>2, FillIs
<1>4. \A x \in DOMAIN KerberosL7 : KerberosL7[x] = Required => x \in DOMAIN g
  BY <1>1, <1>2, DefaultsAre
<1> QED BY <1>1, <1>3, <1>4 DEF Fits

LEMMA RpcFits ==
  ASSUME NEW g, DOMAIN g \subseteq DOMAIN DceRpcL7, Typed(g),
         {"interface", "operations"} \subseteq DOMAIN g, g.interface \in Interfaces, g.operations # <<>>,
         "transport" \in DOMAIN g => g.transport = "ncacn_ip_tcp", NEW dport
  PROVE  Fits("dcerpc", dport, g)
<1>1. L7Spec["dcerpc"] = DceRpcL7 /\ "dcerpc" \in DOMAIN L7Spec
      /\ DOMAIN Literals["dcerpc"] = {"transport"}
      /\ Literals["dcerpc"]["transport"] = {"ncacn_np", "ncacn_ip_tcp"}
  BY DEF L7Spec, Literals
<1>2. DOMAIN DceRpcL7 \cap Mandatory = {} /\ DceRpcL7.transport = "ncacn_np" /\ "transport" \in DOMAIN DceRpcL7
  BY DEF DceRpcL7, Mandatory
<1>3. /\ Filled(g, DceRpcL7)["transport"] \in {"ncacn_np", "ncacn_ip_tcp"}
      /\ Filled(g, DceRpcL7)["interface"] \in Interfaces /\ Filled(g, DceRpcL7)["operations"] # <<>>
  BY <1>2, FillIs
<1>4. \A x \in DOMAIN DceRpcL7 : DceRpcL7[x] = Required => x \in DOMAIN g
  BY <1>1, <1>2, DefaultsAre
<1> QED BY <1>1, <1>3, <1>4 DEF Fits

LEMMA NameFits ==
  ASSUME NEW g, DOMAIN g \subseteq DOMAIN NameQueryL7, Typed(g), {"qname", "protocol"} \subseteq DOMAIN g,
         g.protocol = "llmnr"
  PROVE  Fits("namequery", 5355, g)
<1>1. L7Spec["namequery"] = NameQueryL7 /\ "namequery" \in DOMAIN L7Spec
      /\ DOMAIN Literals["namequery"] = {"protocol"}
      /\ Literals["namequery"]["protocol"] = {"llmnr", "nbns", "mdns"}
  BY DEF L7Spec, Literals
<1>2. DOMAIN NameQueryL7 \cap Mandatory = {"qname"}
  BY DEF NameQueryL7, Mandatory
<1>3. Filled(g, NameQueryL7)["protocol"] = "llmnr"
  BY FillIs
<1>4. \A x \in DOMAIN NameQueryL7 : NameQueryL7[x] = Required => x \in DOMAIN g
  BY <1>1, <1>2, DefaultsAre
<1> QED BY <1>1, <1>3, <1>4 DEF Fits

LEMMA DhcpFits ==
  ASSUME NEW g, DOMAIN g = {"assigned_ip", "server_ip"}, NEW dport
  PROVE  Fits("dhcp", dport, g)
<1>1. L7Spec["dhcp"] = DhcpL7 /\ "dhcp" \in DOMAIN L7Spec /\ "dhcp" \notin DOMAIN Literals
  BY DEF L7Spec, Literals
<1>2. /\ DOMAIN DhcpL7 \cap Mandatory = {"assigned_ip", "server_ip"}
      /\ {"assigned_ip", "server_ip"} \subseteq DOMAIN DhcpL7
  BY DEF DhcpL7, Mandatory
<1>3. Typed(g)
  BY DEF Typed, Integral, Lists
<1>4. \A x \in DOMAIN DhcpL7 : DhcpL7[x] = Required => x \in DOMAIN g
  BY <1>1, <1>2, DefaultsAre
<1> QED BY <1>1, <1>2, <1>3, <1>4 DEF Fits

LEMMA FtpFits == \A dport : Fits("ftp", dport, <<>>)
<1> DEFINE g == <<>>
<1>1. L7Spec["ftp"] = FtpL7 /\ "ftp" \in DOMAIN L7Spec /\ "ftp" \notin DOMAIN Literals
  BY DEF L7Spec, Literals
<1>2. DOMAIN FtpL7 \cap Mandatory = {} /\ FtpL7.retrieve_file = None /\ "retrieve_file" \in DOMAIN FtpL7
  BY DEF FtpL7, Mandatory
<1>3. DOMAIN g = {} /\ Typed(g)
  BY DEF Typed
<1> HIDE DEF g
<1>4. \A x \in DOMAIN FtpL7 : FtpL7[x] = Required => x \in DOMAIN g
  BY <1>1, <1>2, DefaultsAre
<1>5. Filled(g, FtpL7)["retrieve_file"] = None /\ None \notin Photos
  BY <1>2, <1>3, FillIs DEF Photos
<1> QED BY <1>1, <1>3, <1>4, <1>5 DEF Fits, g

LEMMA SipFits == \A dport : Fits("sip", dport, <<>>)
<1> DEFINE g == <<>>
<1>1. L7Spec["sip"] = SipL7 /\ "sip" \in DOMAIN L7Spec /\ DOMAIN Literals["sip"] = {"method"}
      /\ "REGISTER" \in Literals["sip"]["method"]
  BY DEF L7Spec, Literals
<1>2. DOMAIN SipL7 \cap Mandatory = {} /\ SipL7.method = "REGISTER" /\ "method" \in DOMAIN SipL7
  BY DEF SipL7, Mandatory
<1>3. DOMAIN g = {} /\ Typed(g)
  BY DEF Typed
<1> HIDE DEF g
<1>4. \A x \in DOMAIN SipL7 : SipL7[x] = Required => x \in DOMAIN g
  BY <1>1, <1>2, DefaultsAre
<1>5. Filled(g, SipL7)["method"] = "REGISTER"
  BY <1>2, <1>3, FillIs
<1> QED BY <1>1, <1>3, <1>4, <1>5 DEF Fits, g

-----------------------------------------------------------------------------
(* The flows of a storyline. *)

Fields == {"id", "ends", "t", "transport", "sport", "dport", "v6", "state", "rtt", "kind", "given"}

Port == 0..MaxPort

\* Not the address of a client, unless a host of the storyline has it.
Elsewhere(a) == \A k \in Nat : k < 1000 /\ a = Host(k) => a \in StoryHosts

\* A question: its labels, the first of which is not empty.
Labels(q) == q \in Seq(Nat) /\ Len(q) >= 1 /\ q[1] >= 1

\* What the flows of a storyline speak, on streams but for two.
Spoken == {"tls", "http", "smtp", "smb", "ldap", "ssh", "kerberos", "dcerpc", "opaque_tcp", "dns",
           "namequery"}

\* A flow says something that reads back, and one that an evasion can find says what it changes.
Saying(kind, dport, given) ==
  /\ kind \in Spoken /\ Fits(kind, dport, given)
  /\ kind = "dns" => dport = 53 /\ "qname" \in DOMAIN given /\ Labels(given.qname)
  /\ kind = "tls" => "server_name" \in DOMAIN given

\* Said on a stream.
Streaming(kind, dport, given) == Saying(kind, dport, given) /\ kind \notin {"dns", "namequery"}

\* A flow of the storyline in an environment.
StoryFlow(f, e) ==
  /\ Saying(f.kind, f.dport, f.given) /\ Carried(f)
  /\ DOMAIN f = Fields /\ f.t \in Nat /\ f.dport \in Port
  /\ f.ends = <<f.ends[1], f.ends[2]>>
  /\ Elsewhere(f.ends[1])
  /\ Elsewhere(f.ends[2]) \/ f.ends[2] \in {e.gateway, e.dns}

IdsOf(s) == {s[i].id : i \in DOMAIN s}

\* A piece of a storyline, whose identities begin with one of some names.
Story(s, e, names) ==
  /\ s = [i \in 1..Len(s) |-> s[i]] /\ Len(s) \in Nat
  /\ \A i \in 1..Len(s) : StoryFlow(s[i], e)
  /\ \A i \in 1..Len(s) : s[i].id = Id(s[i].id[1], s[i].id[2]) /\ s[i].id[1] \in names
  /\ \A i, j \in 1..Len(s) : s[i].id = s[j].id => i = j

LEMMA HostsDiffer ==
  /\ \A k, l : Host(k) = Host(l) => k = l
  /\ \A k, x : Host(k) # Far(x)
BY DEF Host, Far

\* The addresses that attacks use.
LEMMA Places ==
  /\ \A x : Elsewhere(Far(x))
  /\ \A i \in 0..2 : Elsewhere(StoryHost(i))
  /\ Elsewhere(Victim) /\ Elsewhere(Peer)
  /\ \A k \in Nat : k >= 1000 => Elsewhere(Host(k))
<1>1. \A x : Elsewhere(Far(x))
  BY HostsDiffer DEF Elsewhere
<1>2. \A i \in 0..2 : Elsewhere(StoryHost(i))
  BY DEF Elsewhere, StoryHosts
<1>3. Elsewhere(Victim) /\ Elsewhere(Peer)
  BY <1>2 DEF Victim, Peer
<1>4. ASSUME NEW k \in Nat, k >= 1000
      PROVE  Elsewhere(Host(k))
  BY <1>4, HostsDiffer DEF Elsewhere
<1> QED BY <1>1, <1>2, <1>3, <1>4

\* Evasions find names and secure channels only.
LEMMA Quiet ==
  ASSUME NEW kind, kind \in Spoken, kind \notin {"dns", "namequery", "tls"}, NEW dport, NEW given,
         Fits(kind, dport, given)
  PROVE  Streaming(kind, dport, given)
BY DEF Saying, Streaming

LEMMA Asks ==
  ASSUME NEW given, DOMAIN given \subseteq {"qname", "qtype", "answers", "rcode"}, "qname" \in DOMAIN given,
         Labels(given.qname), "answers" \in DOMAIN given => given.answers \in Int,
         "rcode" \in DOMAIN given => given.rcode = "NXDOMAIN"
  PROVE  Saying("dns", 53, given)
<1>1. DOMAIN given \subseteq DOMAIN DnsL7 /\ "respond" \notin DOMAIN given
  BY DEF DnsL7
<1>2. Typed(given)
  BY DEF Typed, Integral, Lists
<1>3. "rcode" \in DOMAIN given => given.rcode \in Rcodes
  BY DEF Rcodes
<1>4. Fits("dns", 53, given)
  BY <1>1, <1>2, <1>3, DnsFits
<1> QED BY <1>4 DEF Saying, Spoken

LEMMA Hellos ==
  ASSUME NEW given, "server_name" \in DOMAIN given, Fits("tls", 443, given), NEW dport
  PROVE  Streaming("tls", dport, given)
<1>1. Fits("tls", dport, given)
  BY DEF Fits
<1> QED BY <1>1 DEF Saying, Spoken, Streaming

LEMMA LabelsAre == /\ Labels(C2Labels) /\ Labels(<<39, 5, 4, 7>>) /\ Labels(<<13, 2, 9, 3>>)
                   /\ Labels(<<10, 7, 3, 7, 5>>)
BY DEF Labels, C2Labels

LEMMA AnsweredAsks ==
  ASSUME NEW q, Labels(q)
  PROVE  Saying("dns", 53, Answered(q))
<1>1. /\ DOMAIN Answered(q) = {"qname", "answers"} /\ Answered(q).qname = q
      /\ Answered(q).answers = 1
  BY DEF Answered
<1> HIDE DEF Answered
<1> QED BY <1>1, Asks

\* What a beacon adds to the usual.
Added(given) ==
  /\ DOMAIN given \subseteq {"version", "alpn"}
  /\ "version" \in DOMAIN given => given.version \in {"TLS1.2", "TLS1.3"}

LEMMA BeaconIs ==
  ASSUME NEW sni, NEW given, Added(given)
  PROVE  /\ "server_name" \in DOMAIN Beacon(sni, given)
         /\ Beacon(sni, given).server_name = sni
         /\ \A dport : Streaming("tls", dport, Beacon(sni, given))
<1> DEFINE x == [server_name |-> sni, client_profile |-> "curl", app_data_orig_bytes |-> 160,
                 app_data_resp_bytes |-> 600]
           g == Filled(x, given)
<1>1. /\ DOMAIN x = {"server_name", "client_profile", "app_data_orig_bytes", "app_data_resp_bytes"}
      /\ x.server_name = sni /\ x.app_data_orig_bytes = 160 /\ x.app_data_resp_bytes = 600
  OBVIOUS
<1> HIDE DEF x
<1>2. Beacon(sni, given) = g
  BY Zenon DEF Beacon, x, g
<1>3. DOMAIN g = DOMAIN x \cup DOMAIN given
  BY DEF Filled, g
<1>4. /\ \A y \in DOMAIN x : g[y] = x[y]
      /\ \A y \in DOMAIN given : y \notin DOMAIN x => g[y] = given[y]
  BY FillIs DEF g
<1> HIDE DEF g
<1>5. "server_name" \in DOMAIN g /\ g.server_name = sni
  BY <1>1, <1>3, <1>4
<1>6. DOMAIN g \subseteq DOMAIN TlsL7
  BY <1>1, <1>3 DEF Added, TlsL7
<1>7. Typed(g)
  BY <1>1, <1>3, <1>4 DEF Added, Typed, Integral, Lists
<1>8. "version" \in DOMAIN g => g.version \in {"TLS1.2", "TLS1.3"}
  BY <1>1, <1>3, <1>4 DEF Added
<1>9. Fits("tls", 443, g)
  BY <1>5, <1>6, <1>7, <1>8, TlsFits
<1> QED BY <1>2, <1>5, <1>9, Hellos

LEMMA ModernIs ==
  ASSUME NEW sni
  PROVE  /\ Modern(sni).server_name = sni
         /\ \A dport : Streaming("tls", dport, Modern(sni))
<1> DEFINE given == [version |-> "TLS1.3"]
<1>1. Added(given)
  BY DEF Added
<1> HIDE DEF given
<1>2. /\ Beacon(sni, given).server_name = sni
      /\ \A dport : Streaming("tls", dport, Beacon(sni, given))
  BY <1>1, BeaconIs
<1> QED BY Zenon, <1>2 DEF Modern, given

\* What attacks say in the other protocols.
LEMMA PagesAre ==
  ASSUME NEW g, DOMAIN g \subseteq {"method", "uri", "request_body_len", "response_body_len"},
         "method" \in DOMAIN g => g.method = "POST",
         "request_body_len" \in DOMAIN g => g.request_body_len \in Nat,
         "response_body_len" \in DOMAIN g => g.response_body_len \in Nat /\ g.response_body_len <= 65000,
         NEW dport
  PROVE  Streaming("http", dport, g)
<1>1. DOMAIN g \subseteq DOMAIN HttpL7
  BY DEF HttpL7
<1>2. Typed(g)
  BY DEF Typed, Integral, Lists
<1>3. "response_body_len" \in DOMAIN g => g.response_body_len <= 65000
  OBVIOUS
<1>4. Fits("http", dport, g)
  BY <1>1, <1>2, <1>3, HttpFits
<1> QED BY <1>4, Quiet DEF Spoken

Documents == {"xlsx", "docx", "pptx", "zip", "pdf", "exe"}

LEMMA SharesAre ==
  ASSUME NEW g, DOMAIN g \subseteq {"share", "ntlm", "read_file", "write_file", "file_bytes"},
         "read_file" \in DOMAIN g => g.read_file \in Documents,
         "write_file" \in DOMAIN g => g.write_file \in Documents,
         "file_bytes" \in DOMAIN g => g.file_bytes \in Nat, NEW dport
  PROVE  Streaming("smb", dport, g)
<1>1. DOMAIN g \subseteq DOMAIN SmbL7
  BY DEF SmbL7
<1>2. Typed(g)
  BY DEF Typed, Integral, Lists
<1>3. Documents \cap Photos = {}
  BY DEF Documents, Photos
<1>4. Fits("smb", dport, g)
  BY <1>1, <1>2, <1>3, SmbFits
<1> QED BY <1>4, Quiet DEF Spoken

LEMMA BytesAre ==
  ASSUME NEW g, DOMAIN g \subseteq {"service_hint", "orig_bytes", "resp_bytes", "orig_literal_hex",
                                    "resp_literal_hex"},
         \A x \in DOMAIN g : x # "service_hint" => g[x] \in Nat, NEW dport
  PROVE  Streaming("opaque_tcp", dport, g)
<1>1. DOMAIN g \subseteq DOMAIN L7Spec["opaque_tcp"] /\ "opaque_tcp" \in Easy
  BY DEF L7Spec, OpaqueTcpL7, Easy
<1>2. Typed(g)
  BY DEF Typed, Integral, Lists
<1>3. Fits("opaque_tcp", dport, g)
  BY <1>1, <1>2, EasyFits
<1> QED BY <1>3, Quiet DEF Spoken

LEMMA NothingSaid == \A dport : Streaming("opaque_tcp", dport, <<>>)
<1> DEFINE g == <<>>
<1>1. DOMAIN g = {}
  OBVIOUS
<1> HIDE DEF g
<1>2. \A dport : Streaming("opaque_tcp", dport, g)
  BY <1>1, BytesAre
<1> QED BY <1>2 DEF g

LEMMA SessionsAre ==
  ASSUME NEW g, DOMAIN g = {"payload_bytes"}, g.payload_bytes \in Nat, NEW dport
  PROVE  Streaming("ssh", dport, g)
<1>1. DOMAIN g \subseteq DOMAIN L7Spec["ssh"] /\ "ssh" \in Easy
  BY DEF L7Spec, SshL7, Easy
<1>2. Typed(g)
  BY DEF Typed, Integral, Lists
<1>3. Fits("ssh", dport, g)
  BY <1>1, <1>2, EasyFits
<1> QED BY <1>3, Quiet DEF Spoken

LEMMA SearchesAre ==
  ASSUME NEW g, DOMAIN g = {"searches"}, g.searches = <<"domain", "users">>, NEW dport
  PROVE  Streaming("ldap", dport, g)
<1>1. DOMAIN g \subseteq DOMAIN L7Spec["ldap"] /\ "ldap" \in Easy
  BY DEF L7Spec, LdapL7, Easy
<1>2. Typed(g)
  <2> DEFINE s == <<"domain", "users">>
  <2>1. ToSet(s) = {"domain", "users"}
    BY DEF ToSet
  <2>2. s \in Seq(ToSet(s))
    BY <2>1
  <2> HIDE DEF s
  <2> QED BY <2>2 DEF Typed, Integral, Lists, s
<1>3. Fits("ldap", dport, g)
  BY <1>1, <1>2, EasyFits
<1> QED BY <1>3, Quiet DEF Spoken

LEMMA LettersAre ==
  ASSUME NEW g, DOMAIN g = {"mail_from", "rcpt_to", "body_len"}, g.rcpt_to = <<"victim">>, NEW dport
  PROVE  Streaming("smtp", dport, g)
<1>1. DOMAIN g \subseteq DOMAIN SmtpL7
  BY DEF SmtpL7
<1>2. Typed(g)
  <2> DEFINE s == <<"victim">>
  <2>1. ToSet(s) = {"victim"}
    BY DEF ToSet
  <2>2. s \in Seq(ToSet(s))
    BY <2>1
  <2> HIDE DEF s
  <2> QED BY <2>2 DEF Typed, Integral, Lists, s
<1>3. Fits("smtp", dport, g)
  BY <1>1, <1>2, SmtpFits
<1> QED BY <1>3, Quiet DEF Spoken

LEMMA TicketsAre ==
  ASSUME NEW g, DOMAIN g = {"request_type", "etype", "request_etypes", "preauth"},
         g.request_type \in {"AS", "TGS"}, NEW dport
  PROVE  Streaming("kerberos", dport, g)
<1>1. DOMAIN g \subseteq DOMAIN KerberosL7
  BY DEF KerberosL7
<1>2. Typed(g)
  BY DEF Typed, Integral, Lists
<1>3. Fits("kerberos", dport, g)
  BY <1>1, <1>2, KerberosFits
<1> QED BY <1>3, Quiet DEF Spoken

LEMMA CallsAre ==
  ASSUME NEW g, DOMAIN g \subseteq {"share", "pipe", "interface", "operations", "transport"},
         {"interface", "operations"} \subseteq DOMAIN g, g.interface \in Interfaces,
         g.operations \in Seq(Nat), g.operations # <<>>,
         "transport" \in DOMAIN g => g.transport = "ncacn_ip_tcp", NEW dport
  PROVE  Streaming("dcerpc", dport, g)
<1>1. DOMAIN g \subseteq DOMAIN DceRpcL7
  BY DEF DceRpcL7
<1>2. Typed(g)
  <2>1. g.operations \in Seq(ToSet(g.operations))
    <3> DEFINE s == g.operations
    <3>1. DOMAIN s = 1..Len(s) /\ s \in Seq(Nat) /\ Len(s) \in Nat
      OBVIOUS
    <3> HIDE DEF s
    <3>2. \A i \in 1..Len(s) : s[i] \in ToSet(s)
      BY <3>1 DEF ToSet
    <3>3. s \in [1..Len(s) -> ToSet(s)]
      BY <3>1, <3>2
    <3> QED BY <3>1, <3>3 DEF s
  <2> QED BY <2>1 DEF Typed, Integral, Lists
<1>3. Fits("dcerpc", dport, g)
  BY <1>1, <1>2, RpcFits
<1> QED BY <1>3, Quiet DEF Spoken

LEMMA PoisonIs ==
  ASSUME NEW g, DOMAIN g = {"qname", "protocol", "poison_from"}, g.protocol = "llmnr"
  PROVE  Saying("namequery", 5355, g)
<1>1. DOMAIN g \subseteq DOMAIN NameQueryL7
  BY DEF NameQueryL7
<1>2. Typed(g)
  BY DEF Typed, Integral, Lists
<1>3. Fits("namequery", 5355, g)
  BY <1>1, <1>2, NameFits
<1> QED BY <1>3 DEF Saying, Spoken

LEMMA SpokenIs ==
  ASSUME NEW kind \in Spoken
  PROVE  IF kind = "dns" THEN Transports(kind) = {"udp", "tcp"}
         ELSE IF kind = "namequery" THEN Transports(kind) = {"udp"} ELSE Transports(kind) = {"tcp"}
BY DEF Spoken, Transports

LEMMA FlowIs ==
  ASSUME NEW e, NEW id, NEW transport, NEW a, NEW b, NEW dport \in Port, NEW t \in Nat, NEW kind,
         NEW given, Elsewhere(a), Elsewhere(b) \/ b \in {e.gateway, e.dns},
         Saying(kind, dport, given),
         transport = IF kind \in {"dns", "namequery"} THEN "udp" ELSE "tcp"
  PROVE  /\ StoryFlow(Flow(id, transport, <<a, b>>, dport, t, kind, given), e)
         /\ Flow(id, transport, <<a, b>>, dport, t, kind, given).id = id
<1> DEFINE f == Flow(id, transport, <<a, b>>, dport, t, kind, given)
<1>1. /\ f.id = id /\ f.t = t /\ f.dport = dport /\ f.ends = <<a, b>>
      /\ f.kind = kind /\ f.given = given
      /\ f.transport = transport /\ f.state = "SF" /\ f.v6 = FALSE
  BY DEF Flow
<1>2. DOMAIN f = Fields
  BY DEF Flow, Fields
<1> HIDE DEF f
<1>3. f.ends[1] = a /\ f.ends[2] = b
  BY <1>1
<1>4. f.ends = <<f.ends[1], f.ends[2]>>
  BY <1>1, <1>3
<1>5. Carried(f)
  <2>1. kind \in Spoken
    BY DEF Saying
  <2> QED BY <1>1, <2>1, SpokenIs DEF Carried, Ended
<1> QED BY <1>1, <1>2, <1>3, <1>4, <1>5 DEF StoryFlow, f

LEMMA TcpIs ==
  ASSUME NEW e, NEW id, NEW a, NEW b, NEW dport \in Port, NEW t \in Nat, NEW kind, NEW given,
         Elsewhere(a), Elsewhere(b) \/ b \in {e.gateway, e.dns}, Streaming(kind, dport, given)
  PROVE  /\ StoryFlow(TcpTo(id, <<a, b>>, dport, t, kind, given), e)
         /\ TcpTo(id, <<a, b>>, dport, t, kind, given).id = id
BY FlowIs DEF TcpTo, Streaming

LEMMA UdpIs ==
  ASSUME NEW e, NEW id, NEW a, NEW b, NEW dport \in Port, NEW t \in Nat, NEW kind, NEW given,
         Elsewhere(a), Elsewhere(b) \/ b \in {e.gateway, e.dns}, Saying(kind, dport, given),
         kind \in {"dns", "namequery"}
  PROVE  /\ StoryFlow(UdpTo(id, <<a, b>>, dport, t, kind, given), e)
         /\ UdpTo(id, <<a, b>>, dport, t, kind, given).id = id
BY FlowIs DEF UdpTo

LEMMA PairIs ==
  ASSUME NEW e, NEW id, NEW dport \in Port, NEW t \in Nat, NEW kind, NEW given,
         Streaming(kind, dport, given)
  PROVE  /\ StoryFlow(TcpTo(id, Pair12, dport, t, kind, given), e)
         /\ TcpTo(id, Pair12, dport, t, kind, given).id = id
BY TcpIs, Places DEF Pair12

LEMMA ToSays ==
  ASSUME NEW id, NEW a, NEW b, NEW dport, NEW t, NEW kind, NEW given
  PROVE  /\ TcpTo(id, <<a, b>>, dport, t, kind, given).kind = kind
         /\ TcpTo(id, <<a, b>>, dport, t, kind, given).given = given
         /\ UdpTo(id, <<a, b>>, dport, t, kind, given).kind = kind
         /\ UdpTo(id, <<a, b>>, dport, t, kind, given).given = given
BY DEF TcpTo, UdpTo, Flow

LEMMA PairSays ==
  ASSUME NEW id, NEW dport, NEW t, NEW kind, NEW given
  PROVE  TcpTo(id, Pair12, dport, t, kind, given).kind = kind
BY ToSays DEF Pair12

\* What an attack changes of a flow after it was made: its pace, its port.
LEMMA RttIs ==
  ASSUME NEW e, NEW f, StoryFlow(f, e), NEW x
  PROVE  StoryFlow([f EXCEPT !.rtt = x], e) /\ [f EXCEPT !.rtt = x].id = f.id
<1> DEFINE g == [f EXCEPT !.rtt = x]
<1>1. DOMAIN g = Fields /\ \A y \in Fields \ {"rtt"} : g[y] = f[y]
  BY DEF StoryFlow, Fields
<1> HIDE DEF g
<1>2. /\ g.kind = f.kind /\ g.dport = f.dport /\ g.given = f.given /\ g.transport = f.transport
      /\ g.v6 = f.v6 /\ g.state = f.state /\ g.sport = f.sport /\ g.t = f.t /\ g.ends = f.ends
      /\ g.id = f.id
  BY <1>1 DEF Fields
<1>3. Carried(g)
  BY <1>2 DEF StoryFlow, Carried
<1>4. StoryFlow(g, e)
  BY <1>1, <1>2, <1>3 DEF StoryFlow
<1> QED BY <1>2, <1>4 DEF g

LEMMA SportIs ==
  ASSUME NEW e, NEW f, StoryFlow(f, e), NEW x
  PROVE  StoryFlow([f EXCEPT !.sport = x], e) /\ [f EXCEPT !.sport = x].id = f.id
<1> DEFINE g == [f EXCEPT !.sport = x]
<1>1. DOMAIN g = Fields /\ \A y \in Fields \ {"sport"} : g[y] = f[y]
  BY DEF StoryFlow, Fields
<1> HIDE DEF g
<1>2. /\ g.kind = f.kind /\ g.dport = f.dport /\ g.given = f.given /\ g.transport = f.transport
      /\ g.v6 = f.v6 /\ g.state = f.state /\ g.t = f.t /\ g.ends = f.ends /\ g.id = f.id
  BY <1>1 DEF Fields
<1>3. Carried(g)
  <2>1. f.transport # "icmp"
    BY SpokenIs DEF StoryFlow, Saying, Carried
  <2> QED BY <1>2, <2>1 DEF StoryFlow, Carried
<1>4. StoryFlow(g, e)
  BY <1>1, <1>2, <1>3 DEF StoryFlow
<1> QED BY <1>2, <1>4 DEF g

\* A stream may end in other ways, and channels may run over IPv6.
LEMMA EndedIs ==
  ASSUME NEW e, NEW f, StoryFlow(f, e), NEW x,
         f.kind \notin {"dns", "namequery"} =>
           x \in Ended \/ (f.kind = "opaque_tcp" /\ x \in {"S0", "REJ"})
  PROVE  StoryFlow([f EXCEPT !.state = x], e) /\ [f EXCEPT !.state = x].id = f.id
<1> DEFINE g == [f EXCEPT !.state = x]
<1>1. DOMAIN g = Fields /\ \A y \in Fields \ {"state"} : g[y] = f[y]
  BY DEF StoryFlow, Fields
<1>2. g.state = x
  BY DEF StoryFlow, Fields
<1> HIDE DEF g
<1>3. /\ g.kind = f.kind /\ g.dport = f.dport /\ g.given = f.given /\ g.transport = f.transport
      /\ g.v6 = f.v6 /\ g.sport = f.sport /\ g.t = f.t /\ g.ends = f.ends /\ g.id = f.id
  BY <1>1 DEF Fields
<1>4. Carried(g)
  <2>1. f.kind \in Spoken /\ Carried(f)
    BY DEF StoryFlow, Saying
  <2>2. Transports(f.kind) = {"tcp"} => f.kind \notin {"dns", "namequery"}
    BY <2>1, SpokenIs
  <2> QED BY <1>2, <1>3, <2>1, <2>2 DEF Carried
<1>5. StoryFlow(g, e)
  BY <1>1, <1>3, <1>4 DEF StoryFlow
<1> QED BY <1>3, <1>5 DEF g

LEMMA V6Is ==
  ASSUME NEW e, NEW f, StoryFlow(f, e), f.kind \notin {"dns", "namequery"}, NEW x
  PROVE  StoryFlow([f EXCEPT !.v6 = x], e) /\ [f EXCEPT !.v6 = x].id = f.id
<1> DEFINE g == [f EXCEPT !.v6 = x]
<1>1. DOMAIN g = Fields /\ \A y \in Fields \ {"v6"} : g[y] = f[y]
  BY DEF StoryFlow, Fields
<1> HIDE DEF g
<1>3. /\ g.kind = f.kind /\ g.dport = f.dport /\ g.given = f.given /\ g.transport = f.transport
      /\ g.state = f.state /\ g.sport = f.sport /\ g.t = f.t /\ g.ends = f.ends /\ g.id = f.id
  BY <1>1 DEF Fields
<1>4. Carried(g)
  <2>1. f.kind \in Spoken /\ Carried(f)
    BY DEF StoryFlow, Saying
  <2>2. Transports(f.kind) = {"tcp"}
    BY <2>1, SpokenIs
  <2> QED BY <1>3, <2>1, <2>2 DEF Carried
<1>5. StoryFlow(g, e)
  BY <1>1, <1>3, <1>4 DEF StoryFlow
<1> QED BY <1>3, <1>5 DEF g

LEMMA StoryOne ==
  ASSUME NEW e, NEW f, NEW name, NEW i, StoryFlow(f, e), f.id = Id(name, i)
  PROVE  Story(<<f>>, e, {name}) /\ IdsOf(<<f>>) = {Id(name, i)} /\ Len(<<f>>) = 1
BY DEF Story, Id, IdsOf

\* n flows, numbered from 0 under one name.
SeriesOf(s, m, name, e) ==
  /\ m \in Nat /\ s = [i \in 1..m |-> s[i]]
  /\ \A i \in 1..m : StoryFlow(s[i], e) /\ s[i].id = Id(name, i - 1)

LEMMA StorySeries ==
  ASSUME NEW e, NEW m, NEW s, NEW name, SeriesOf(s, m, name, e)
  PROVE  Story(s, e, {name}) /\ Len(s) = m
<1>1. Len(s) = m
  BY DEF SeriesOf
<1> QED BY <1>1 DEF Story, Id, SeriesOf

Apart(N, M) == N \cap M = {}

\* Two pieces, and what they are together.
Joins(s, u, e, N, M) == Story(s, e, N) /\ Story(u, e, M) /\ Apart(N, M)
Joined(s, u, e, N, M) ==
  /\ Story(s \o u, e, N \cup M) /\ IdsOf(s \o u) = IdsOf(s) \cup IdsOf(u)
  /\ Len(s \o u) = Len(s) + Len(u)

IsSeq(s) == s = [i \in 1..Len(s) |-> s[i]] /\ Len(s) \in Nat

LEMMA AppendIs ==
  ASSUME NEW s, IsSeq(s), NEW x
  PROVE  /\ IsSeq(Append(s, x)) /\ Len(Append(s, x)) = Len(s) + 1
         /\ \A i \in 1..Len(s) : Append(s, x)[i] = s[i]
         /\ Append(s, x)[Len(s) + 1] = x
<1> DEFINE S == {s[i] : i \in 1..Len(s)} \cup {x}
           w == Append(s, x)
<1>1. s \in Seq(S) /\ x \in S
  <2> DEFINE m == Len(s)
  <2>1. s = [i \in 1..m |-> s[i]] /\ m \in Nat
    BY DEF IsSeq
  <2>2. \A i \in 1..m : s[i] \in S
    OBVIOUS
  <2> HIDE DEF m, S
  <2>3. s \in [1..m -> S]
    BY <2>1, <2>2
  <2> QED BY <2>1, <2>3 DEF S
<1> HIDE DEF S, w
<1>2. /\ w \in Seq(S) /\ Len(w) = Len(s) + 1 /\ \A i \in 1..Len(s) : w[i] = s[i]
      /\ w[Len(s) + 1] = x
  BY <1>1, AppendProperties DEF w
<1>3. IsSeq(w)
  BY <1>2 DEF IsSeq
<1> QED BY <1>2, <1>3 DEF w

LEMMA ConcatIs ==
  ASSUME NEW s, NEW u, IsSeq(s), IsSeq(u)
  PROVE  /\ IsSeq(s \o u) /\ Len(s \o u) = Len(s) + Len(u)
         /\ \A i \in 1..Len(s) : i \in 1..Len(s \o u) /\ (s \o u)[i] = s[i]
         /\ \A i \in 1..Len(u) : Len(s) + i \in 1..Len(s \o u) /\ (s \o u)[Len(s) + i] = u[i]
         /\ \A i \in 1..Len(s \o u) :
              i \in 1..Len(s) \/ (i - Len(s) \in 1..Len(u) /\ i = Len(s) + (i - Len(s)))
<1> DEFINE w == s \o u
           m == Len(s)
           l == Len(u)
<1>1. m \in Nat /\ l \in Nat
  BY DEF IsSeq
<1>2. s = [i \in 1..m |-> s[i]] /\ u = [i \in 1..l |-> u[i]]
  BY DEF IsSeq
<1>3. Len(w) = m + l /\ w = [i \in 1..(m + l) |-> IF i <= m THEN s[i] ELSE u[i - m]]
  <2> HIDE DEF m, l
  <2> DEFINE S == {s[i] : i \in 1..m} \cup {u[i] : i \in 1..l}
  <2>1. s \in [1..m -> S] /\ u \in [1..l -> S]
    BY <1>2
  <2> HIDE DEF S
  <2>2. s \in Seq(S) /\ Len(s) = m /\ u \in Seq(S) /\ Len(u) = l
    BY <1>1, <2>1
  <2>3. /\ Len(w) = m + l /\ w \in Seq(S)
        /\ \A i \in 1..(m + l) : w[i] = IF i <= m THEN s[i] ELSE u[i - m]
    BY <2>2, ConcatProperties
  <2> HIDE DEF w
  <2>4. w = [i \in 1..(m + l) |-> w[i]]
    BY <1>1, <2>3
  <2>5. ASSUME NEW i \in 1..(m + l)
        PROVE  w[i] = IF i <= m THEN s[i] ELSE u[i - m]
    BY <2>3
  <2> QED BY <2>3, <2>4, <2>5
<1> HIDE DEF m, l, w
<1>4. \A i \in 1..(m + l) : w[i] = IF i <= m THEN s[i] ELSE u[i - m]
  BY <1>1, <1>3
<1> QED BY <1>1, <1>3, <1>4 DEF m, l, w, IsSeq

LEMMA StoryConcat ==
  ASSUME NEW e, NEW s, NEW u, NEW N, NEW M, Joins(s, u, e, N, M)
  PROVE  Joined(s, u, e, N, M)
<1> USE DEF Joins
<1> DEFINE w == s \o u
<1>1. /\ w = [i \in 1..Len(w) |-> w[i]] /\ Len(w) = Len(s) + Len(u) /\ Len(w) \in Nat
      /\ \A i \in 1..Len(s) : i \in 1..Len(w) /\ w[i] = s[i]
      /\ \A i \in 1..Len(u) : Len(s) + i \in 1..Len(w) /\ w[Len(s) + i] = u[i]
      /\ \A i \in 1..Len(w) : i \in 1..Len(s) \/ (i - Len(s) \in 1..Len(u) /\ i = Len(s) + (i - Len(s)))
  <2>1. IsSeq(s) /\ IsSeq(u)
    BY DEF Story, IsSeq
  <2> QED BY SMTT(20), <2>1, ConcatIs DEF IsSeq
<1> HIDE DEF w
<1>2. \A i \in 1..Len(w) : \/ i \in 1..Len(s) /\ w[i] = s[i]
                           \/ i - Len(s) \in 1..Len(u) /\ w[i] = u[i - Len(s)]
  BY <1>1
<1>3. \A i \in 1..Len(w) : StoryFlow(w[i], e)
  BY <1>2 DEF Story
<1>4. \A i \in 1..Len(w) : w[i].id = Id(w[i].id[1], w[i].id[2]) /\ w[i].id[1] \in N \cup M
  BY <1>2 DEF Story
<1>5. \A i, j \in 1..Len(w) : w[i].id = w[j].id => i = j
  <2> SUFFICES ASSUME NEW i \in 1..Len(w), NEW j \in 1..Len(w), w[i].id = w[j].id
               PROVE  i = j
    OBVIOUS
  <2>1. CASE w[i] = s[i] /\ i \in 1..Len(s) /\ w[j] = s[j] /\ j \in 1..Len(s)
    BY <2>1 DEF Story
  <2>2. CASE /\ w[i] = u[i - Len(s)] /\ i - Len(s) \in 1..Len(u)
             /\ w[j] = u[j - Len(s)] /\ j - Len(s) \in 1..Len(u)
    <3>1. i - Len(s) = j - Len(s)
      BY <2>2 DEF Story
    <3> QED BY <3>1 DEF Story
  <2>3. CASE w[i] = s[i] /\ i \in 1..Len(s) /\ w[j] = u[j - Len(s)] /\ j - Len(s) \in 1..Len(u)
    BY <2>3 DEF Story, Apart
  <2>4. CASE w[j] = s[j] /\ j \in 1..Len(s) /\ w[i] = u[i - Len(s)] /\ i - Len(s) \in 1..Len(u)
    BY <2>4 DEF Story, Apart
  <2> QED BY <1>2, <2>1, <2>2, <2>3, <2>4
<1>6. IdsOf(w) = IdsOf(s) \cup IdsOf(u)
  <2>1. DOMAIN w = 1..Len(w) /\ DOMAIN s = 1..Len(s) /\ DOMAIN u = 1..Len(u)
    BY <1>1 DEF Story
  <2>2. IdsOf(w) \subseteq IdsOf(s) \cup IdsOf(u)
    BY <1>2, <2>1 DEF IdsOf
  <2>3. IdsOf(s) \subseteq IdsOf(w) /\ IdsOf(u) \subseteq IdsOf(w)
    BY <1>1, <2>1 DEF IdsOf
  <2> QED BY <2>2, <2>3
<1>7. Story(w, e, N \cup M)
  BY <1>1, <1>3, <1>4, <1>5 DEF Story
<1> QED BY Zenon, <1>1, <1>6, <1>7 DEF Joined, w

-----------------------------------------------------------------------------
(* Attacks and their keys. *)

\* The names of the flows around an attack.
Loops == {"noise", "fail", "fp"}

\* An entry names flows of the storyline, no flow is in two, and all but one are in one.
Keyed(key, ids) ==
  /\ DOMAIN key \subseteq Nat
  /\ \A k \in DOMAIN key : /\ ToSet(key[k].ids) # {} /\ ToSet(key[k].ids) \subseteq ids
                           /\ key[k].technique \in TechniqueNames
  /\ \A k, l \in DOMAIN key : k # l => ToSet(key[k].ids) \cap ToSet(key[l].ids) = {}
  /\ \A x \in ids : x = Unnamed <=> \A k \in DOMAIN key : x \notin ToSet(key[k].ids)

\* Source ports are those of the flow model and, but for those of a flood, taken once.
Ported(s) ==
  /\ \A i \in DOMAIN s : s[i].sport \in Port
  /\ \A i, j \in DOMAIN s : i # j /\ s[i].sport = s[j].sport =>
                              Flooded(s[i]) /\ Flooded(s[j])

IsAttack(a, e) ==
  /\ DOMAIN a = {"flows", "key", "iocs"}
  /\ (\E names : Story(a.flows, e, names) /\ names \cap Loops = {})
  /\ Ported(a.flows) /\ Keyed(a.key, IdsOf(a.flows))

\* All secure channels name the C2 domain.
C2Only(s) == \A i \in 1..Len(s) : s[i].kind = "tls" => s[i].given.server_name = "c2"

\* What is known of a new attack: nothing, or the domain that its channels name.
Known(s, iocs) ==
  /\ DOMAIN iocs \subseteq {"c2_domain"}
  /\ "c2_domain" \in DOMAIN iocs => iocs.c2_domain = "c2" /\ C2Only(s)

IsNew(a, e) == IsAttack(a, e) /\ Known(a.flows, a.iocs)

\* An intensity whose flows have ports.
Roomy(intensity) ==
  /\ intensity \in Nat
  /\ FirstStory + 25 + (80 * intensity) \div 100 <= MaxPort + 1
  /\ 1024 + Count(40, 300, intensity) <= MaxPort + 1

LEMMA EntryIs ==
  ASSUME NEW technique, NEW s
  PROVE  ToSet(Entry(technique, s).ids) = IdsOf(s) /\ Entry(technique, s).technique = technique
<1> DEFINE x == [i \in DOMAIN s |-> s[i].id]
<1>1. Entry(technique, s).ids = x /\ Entry(technique, s).technique = technique
  BY DEF Entry
<1>2. ToSet(x) = IdsOf(s)
  BY DEF ToSet, IdsOf
<1> QED BY <1>1, <1>2

LEMMA StoryIds ==
  ASSUME NEW s, NEW e, NEW N, Story(s, e, N)
  PROVE  /\ \A x \in IdsOf(s) : x[1] \in N
         /\ Len(s) >= 1 => IdsOf(s) # {}
         /\ DOMAIN s = 1..Len(s)
<1>1. DOMAIN s = 1..Len(s) /\ Len(s) \in Nat
  BY DEF Story
<1>2. \A x \in IdsOf(s) : x[1] \in N
  BY <1>1 DEF Story, IdsOf
<1>3. ASSUME Len(s) >= 1
      PROVE  IdsOf(s) # {}
  <2>1. 1 \in DOMAIN s
    BY <1>1, <1>3
  <2> QED BY <2>1 DEF IdsOf
<1> QED BY <1>1, <1>2, <1>3

LEMMA NumberedIs ==
  ASSUME NEW s, NEW e, NEW N, Story(s, e, N)
  PROVE  /\ Story(Numbered(s), e, N) /\ IdsOf(Numbered(s)) = IdsOf(s)
         /\ Len(Numbered(s)) = Len(s) /\ \A i \in 1..Len(s) : Numbered(s)[i].id = s[i].id
         /\ C2Only(s) => C2Only(Numbered(s))
         /\ FirstStory + Len(s) <= MaxPort + 1 => Ported(Numbered(s))
<1> DEFINE w == Numbered(s)
<1>1. DOMAIN s = 1..Len(s) /\ Len(s) \in Nat
  BY DEF Story
<1>2. w = [i \in 1..Len(s) |-> w[i]]
  BY <1>1 DEF Numbered
<1>3. \A i \in 1..Len(s) : w[i] = [s[i] EXCEPT !.sport = FirstStory + i - 1]
  BY <1>1 DEF Numbered
<1> HIDE DEF w
<1>4. Len(w) = Len(s) /\ DOMAIN w = 1..Len(s)
  BY <1>1, <1>2
<1>5. ASSUME NEW i \in 1..Len(s)
      PROVE  /\ StoryFlow(w[i], e) /\ w[i].id = s[i].id /\ w[i].sport = FirstStory + i - 1
             /\ w[i].kind = s[i].kind /\ w[i].given = s[i].given
  <2> DEFINE x == FirstStory + i - 1
             f == s[i]
  <2>1. StoryFlow(f, e)
    BY DEF Story
  <2> HIDE DEF x, f
  <2>2. StoryFlow([f EXCEPT !.sport = x], e) /\ [f EXCEPT !.sport = x].id = f.id
    BY <2>1, SportIs
  <2>3. /\ [f EXCEPT !.sport = x].kind = f.kind /\ [f EXCEPT !.sport = x].given = f.given
        /\ [f EXCEPT !.sport = x].sport = x
    BY <2>1 DEF StoryFlow, Fields
  <2> QED BY <1>3, <2>2, <2>3 DEF x, f
<1>6. Story(w, e, N)
  BY <1>2, <1>4, <1>5 DEF Story
<1>7. IdsOf(w) = IdsOf(s)
  <2>1. IdsOf(w) \subseteq IdsOf(s)
    BY <1>1, <1>4, <1>5 DEF IdsOf
  <2>2. IdsOf(s) \subseteq IdsOf(w)
    BY <1>1, <1>4, <1>5 DEF IdsOf
  <2> QED BY <2>1, <2>2
<1>8. ASSUME FirstStory + Len(s) <= MaxPort + 1
      PROVE  Ported(w)
  <2>1. FirstStory \in Nat /\ MaxPort \in Nat
    BY PortsAssumption
  <2>2. \A i \in 1..Len(s) : FirstStory + i - 1 \in Port
    BY <1>1, <1>8, <2>1 DEF Port
  <2>3. \A i, j \in 1..Len(s) : i # j => FirstStory + i - 1 # FirstStory + j - 1
    BY <1>1, <2>1
  <2> QED BY <1>4, <1>5, <2>2, <2>3 DEF Ported
<1>9. C2Only(s) => C2Only(w)
  BY <1>4, <1>5 DEF C2Only
<1> QED BY <1>4, <1>5, <1>6, <1>7, <1>8, <1>9 DEF w

LEMMA Unknown == \A s : Known(s, <<>>)
BY DEF Known

LEMMA C2Concat ==
  ASSUME NEW e, NEW s, NEW u, NEW N, NEW M, Story(s, e, N), Story(u, e, M), C2Only(s), C2Only(u)
  PROVE  C2Only(s \o u)
<1> DEFINE w == s \o u
<1>1. IsSeq(s) /\ IsSeq(u)
  BY DEF Story, IsSeq
<1>2. /\ Len(w) = Len(s) + Len(u) /\ Len(s) \in Nat /\ Len(u) \in Nat
      /\ \A i \in 1..Len(s) : w[i] = s[i]
      /\ \A i \in 1..Len(u) : w[Len(s) + i] = u[i]
  BY <1>1, ConcatIs DEF IsSeq
<1> HIDE DEF w
<1>3. \A i \in 1..Len(w) : \/ i \in 1..Len(s) /\ w[i] = s[i]
                           \/ i - Len(s) \in 1..Len(u) /\ w[i] = u[i - Len(s)]
  BY <1>2
<1> QED BY <1>3 DEF C2Only, w

LEMMA AttackIs ==
  ASSUME NEW s, NEW key, NEW iocs, NEW e, NEW N, Story(s, e, N), N \cap Loops = {},
         FirstStory + Len(s) <= MaxPort + 1, Keyed(key, IdsOf(s)), Known(s, iocs)
  PROVE  IsNew(Attack(s, key, iocs), e)
<1> DEFINE a == Attack(s, key, iocs)
<1>1. DOMAIN a = {"flows", "key", "iocs"} /\ a.flows = Numbered(s) /\ a.key = key /\ a.iocs = iocs
  BY DEF Attack
<1> HIDE DEF a
<1>2. /\ Story(a.flows, e, N) /\ Ported(a.flows) /\ IdsOf(a.flows) = IdsOf(s)
      /\ C2Only(s) => C2Only(a.flows)
  BY <1>1, NumberedIs
<1>3. Known(a.flows, a.iocs)
  BY <1>1, <1>2 DEF Known
<1> QED BY <1>1, <1>2, <1>3 DEF IsAttack, IsNew, a

LEMMA SingleKeyed ==
  ASSUME NEW s, NEW technique \in TechniqueNames, NEW e, NEW N, Story(s, e, N),
         N \cap (Loops \cup {"atk-psexec-epm"}) = {}, Len(s) >= 1
  PROVE  Keyed(<<Entry(technique, s)>>, IdsOf(s))
<1> DEFINE key == <<Entry(technique, s)>>
<1>1. DOMAIN key = {1} /\ key[1] = Entry(technique, s)
  OBVIOUS
<1> HIDE DEF key
<1>2. ToSet(key[1].ids) = IdsOf(s) /\ key[1].technique = technique
  BY <1>1, EntryIs
<1>3. IdsOf(s) # {} /\ \A x \in IdsOf(s) : x[1] \in N
  BY StoryIds
<1>4. Unnamed \notin IdsOf(s)
  BY <1>3 DEF Unnamed, Id
<1>5. Keyed(key, IdsOf(s))
  BY <1>1, <1>2, <1>3, <1>4 DEF Keyed
<1> QED BY <1>5 DEF key

LEMMA SingleIs ==
  ASSUME NEW s, NEW technique \in TechniqueNames, NEW e, NEW N, Story(s, e, N),
         N \cap (Loops \cup {"atk-psexec-epm"}) = {}, Len(s) >= 1,
         FirstStory + Len(s) <= MaxPort + 1
  PROVE  IsNew(Single(technique, s), e)
<1> DEFINE key == <<Entry(technique, s)>>
<1>1. Keyed(key, IdsOf(s))
  BY SingleKeyed
<1> HIDE DEF key
<1>2. N \cap Loops = {}
  OBVIOUS
<1> DEFINE none == <<>>
<1>3. Known(s, none)
  BY Unknown
<1> HIDE DEF none
<1>4. IsNew(Attack(s, key, none), e)
  BY <1>1, <1>2, <1>3, AttackIs
<1> QED BY Zenon, <1>4 DEF Single, key, none

\* The numbers of flows.
LEMMA CountIs ==
  ASSUME NEW intensity \in Nat, NEW least \in Nat, NEW full \in Nat, least <= 24, full <= 80
  PROVE  /\ Count(least, full, intensity) \in Nat /\ Count(least, full, intensity) >= least
         /\ Count(least, full, intensity) <= 24 + (80 * intensity) \div 100
<1> DEFINE p == full * intensity
           q == 80 * intensity
<1>1. p \in Nat /\ q \in Nat /\ p <= q
  OBVIOUS
<1> HIDE DEF p, q
<1>2. p \div 100 \in Nat /\ q \div 100 \in Nat /\ p \div 100 <= q \div 100
  BY <1>1
<1>3. Count(least, full, intensity) = IF p \div 100 > least THEN p \div 100 ELSE least
  BY DEF Count, AtLeast, p
<1> QED BY <1>2, <1>3 DEF q

LEMMA PaceIs == \A intensity \in Nat, ms \in Nat : Pace(ms, intensity) \in Nat
<1> SUFFICES ASSUME NEW intensity \in Nat, NEW ms \in Nat
             PROVE  Pace(ms, intensity) \in Nat
  OBVIOUS
<1> DEFINE p == ms * 100
           q == AtLeast(intensity, 10)
<1>1. p \in Nat /\ q \in Nat /\ q > 0
  BY DEF AtLeast
<1> HIDE DEF p, q
<1>2. p \div q \in Nat
  BY <1>1
<1> QED BY <1>2 DEF Pace, p, q

LEMMA TimesIs ==
  ASSUME NEW a \in Nat, NEW b \in Nat
  PROVE  a * b \in Nat
OBVIOUS

-----------------------------------------------------------------------------
(* The attacks of the library, one by one. *)

\* The ports that attacks go to.
LEMMA PortsAre ==
  /\ \A x \in Nat : x <= 49200 => x \in Port
  /\ FirstStory \in Nat /\ MaxPort \in Nat
BY PortsAssumption DEF Port

\* An attack whose flows are one series.
LEMMA OneSeries ==
  ASSUME NEW e, NEW m, NEW s, NEW name, SeriesOf(s, m, name, e),
         name \notin Loops \cup {"atk-psexec-epm"}, NEW technique \in TechniqueNames, m >= 1,
         FirstStory + m <= MaxPort + 1
  PROVE  IsNew(Single(technique, s), e)
<1>1. Story(s, e, {name}) /\ Len(s) = m
  BY StorySeries
<1> QED BY <1>1, SingleIs

\* There is room for as many flows as an attack has.
LEMMA SizeIs ==
  ASSUME NEW intensity, Roomy(intensity), NEW least \in Nat, NEW full \in Nat, least <= 24, full <= 80
  PROVE  /\ Count(least, full, intensity) \in Nat /\ Count(least, full, intensity) >= least
         /\ FirstStory + Count(least, full, intensity) + 1 <= MaxPort + 1
<1>1. /\ intensity \in Nat /\ Count(least, full, intensity) \in Nat
      /\ Count(least, full, intensity) >= least
      /\ Count(least, full, intensity) <= 24 + (80 * intensity) \div 100
  BY ZenonT(30), CountIs DEF Roomy
<1> DEFINE c == Count(least, full, intensity)
<1> HIDE DEF c
<1> QED BY <1>1, PortsAre DEF Roomy, c

\* The distances of the flows of a series.
LEMMA StepIs ==
  ASSUME NEW intensity \in Nat
  PROVE  /\ Pace(50, intensity) \in Nat /\ Pace(400, intensity) \in Nat
         /\ Pace(1500, intensity) \in Nat /\ Pace(2000, intensity) \in Nat
         /\ Pace(3000, intensity) \in Nat
<1>1. Pace(50, intensity) \in Nat
  BY PaceIs
<1>2. Pace(400, intensity) \in Nat
  BY PaceIs
<1>3. Pace(1500, intensity) \in Nat
  BY PaceIs
<1>4. Pace(2000, intensity) \in Nat
  BY PaceIs
<1>5. Pace(3000, intensity) \in Nat
  BY PaceIs
<1> QED BY <1>1, <1>2, <1>3, <1>4, <1>5

LEMMA DnsExfil ==
  ASSUME NEW e, NEW intensity, Roomy(intensity)
  PROVE  IsNew(build_dns_exfil(e, intensity), e)
<1> DEFINE m == Count(8, 60, intensity)
           d == Pace(2000, intensity)
           g == [qname |-> <<39, 5, 4, 7>>, rcode |-> "NXDOMAIN"]
           s == [i \in 1..m |->
                   UdpTo(Id("atk-dnsx", i - 1), <<Victim, e.dns>>, 53, (i - 1) * d, "dns", g)]
<1>1. build_dns_exfil(e, intensity) = Single("T1048.003", s)
  BY DEF build_dns_exfil, Series
<1>2. m \in Nat /\ m >= 8 /\ FirstStory + m + 1 <= MaxPort + 1
  BY SizeIs
<1>3. d \in Nat
  BY StepIs DEF Roomy
<1>a. Saying("dns", 53, g)
  BY LabelsAre, Asks
<1> HIDE DEF m, d, g
<1>4. ASSUME NEW i \in 1..m
      PROVE  StoryFlow(s[i], e) /\ s[i].id = Id("atk-dnsx", i - 1)
  <2>1. (i - 1) * d \in Nat /\ 53 \in Port
    BY <1>2, <1>3, TimesIs, PortsAre
  <2> QED BY <1>a, <2>1, UdpIs, Places
<1>5. SeriesOf(s, m, "atk-dnsx", e)
  BY <1>2, <1>4 DEF SeriesOf
<1>6. "atk-dnsx" \notin Loops \cup {"atk-psexec-epm"} /\ "T1048.003" \in TechniqueNames
  BY DEF Loops, TechniqueNames
<1> HIDE DEF s
<1> QED BY <1>1, <1>2, <1>5, <1>6, OneSeries, PortsAre

LEMMA RoomIs ==
  ASSUME NEW intensity, Roomy(intensity)
  PROVE  intensity \in Nat /\ FirstStory + 25 <= MaxPort + 1
<1>1. (80 * intensity) \div 100 \in Nat /\ (80 * intensity) \div 100 >= 0
  BY DEF Roomy
<1> QED BY <1>1, PortsAre DEF Roomy

LEMMA TunnelIs ==
  ASSUME NEW e, NEW intensity, Roomy(intensity), NEW name, NEW dport \in Port,
         NEW version \in {"TLS1.2", "TLS1.3"}, NEW alpn,
         name \notin Loops \cup {"atk-psexec-epm"}
  PROVE  IsNew(Tunnel(name, dport, version, alpn, intensity), e)
<1> DEFINE m == Count(8, 40, intensity)
           d == Pace(3000, intensity)
           g == Beacon("resolver", [version |-> version, alpn |-> alpn])
           s == [i \in 1..m |->
                   TcpTo(Id(name, i - 1), <<Victim, Far("resolver")>>, dport, (i - 1) * d, "tls", g)]
<1>1. Tunnel(name, dport, version, alpn, intensity) = Single("T1071.004/T1572", s)
  BY Zenon DEF Tunnel, Series
<1>2. m \in Nat /\ m >= 8 /\ FirstStory + m + 1 <= MaxPort + 1
  BY SizeIs
<1>3. d \in Nat
  BY StepIs DEF Roomy
<1>a. Streaming("tls", dport, g)
  <2> DEFINE given == [version |-> version, alpn |-> alpn]
  <2>1. Added(given)
    BY DEF Added
  <2> HIDE DEF given
  <2>2. Streaming("tls", dport, Beacon("resolver", given))
    BY <2>1, BeaconIs
  <2> QED BY <2>2 DEF given
<1> HIDE DEF m, d, g
<1>4. ASSUME NEW i \in 1..m
      PROVE  StoryFlow(s[i], e) /\ s[i].id = Id(name, i - 1)
  <2>1. (i - 1) * d \in Nat
    BY <1>2, <1>3, TimesIs
  <2> QED BY <1>a, <2>1, TcpIs, Places
<1>5. SeriesOf(s, m, name, e)
  BY <1>2, <1>4 DEF SeriesOf
<1>6. "T1071.004/T1572" \in TechniqueNames
  BY DEF TechniqueNames
<1> HIDE DEF s
<1> QED BY <1>1, <1>2, <1>5, <1>6, OneSeries, PortsAre

LEMMA Tunnels ==
  ASSUME NEW e, NEW intensity, Roomy(intensity)
  PROVE  IsNew(build_doh_tunnel(intensity), e) /\ IsNew(build_dot_tunnel(intensity), e)
<1>1. "atk-doh" \notin Loops \cup {"atk-psexec-epm"} /\ "atk-dot" \notin Loops \cup {"atk-psexec-epm"}
  BY DEF Loops
<1>2. 443 \in Port /\ 853 \in Port
  BY PortsAre
<1>3. IsNew(Tunnel("atk-doh", 443, "TLS1.3", "h2", intensity), e)
  BY ZenonT(30), <1>1, <1>2, TunnelIs
<1>4. IsNew(Tunnel("atk-dot", 853, "TLS1.2", "dot", intensity), e)
  BY <1>1, <1>2, TunnelIs
<1> QED BY <1>3, <1>4 DEF build_doh_tunnel, build_dot_tunnel

LEMMA Imds ==
  ASSUME NEW e, NEW intensity, Roomy(intensity)
  PROVE  IsNew(build_imds_ssrf, e)
<1> DEFINE g == [response_body_len |-> 800]
           at(i) == (i - 1) * 500
           s == [i \in 1..2 |->
                   TcpTo(Id("atk-imds", i - 1), <<Victim, Far("metadata")>>, 80, at(i), "http", g)]
<1>1. build_imds_ssrf = Single("T1552.005", s)
  BY DEF build_imds_ssrf, Series
<1>a. Streaming("http", 80, g)
  BY PagesAre
<1> HIDE DEF g
<1>2. ASSUME NEW i \in 1..2
      PROVE  StoryFlow(s[i], e) /\ s[i].id = Id("atk-imds", i - 1)
  <2>1. at(i) \in Nat /\ 80 \in Port
    BY PortsAre
  <2> HIDE DEF at
  <2> QED BY <1>a, <2>1, TcpIs, Places
<1>3. SeriesOf(s, 2, "atk-imds", e)
  BY <1>2 DEF SeriesOf
<1>4. "atk-imds" \notin Loops \cup {"atk-psexec-epm"} /\ "T1552.005" \in TechniqueNames
  BY DEF Loops, TechniqueNames
<1> HIDE DEF s
<1> QED BY <1>1, <1>3, <1>4, OneSeries, RoomIs, PortsAre

LEMMA BruteForce ==
  ASSUME NEW e, NEW intensity, Roomy(intensity)
  PROVE  IsNew(build_brute_force(intensity), e)
<1> DEFINE m == Count(10, 30, intensity)
           d == Pace(1500, intensity)
           g == [payload_bytes |-> 200]
           f(i) == TcpTo(Id("atk-bf", i - 1), Pair12, 22, (i - 1) * d, "ssh", g)
           s == [i \in 1..m |-> [f(i) EXCEPT !.state = "RSTO"]]
<1>1. build_brute_force(intensity) = Single("T1110.001", s)
  BY DEF build_brute_force, Series
<1>2. m \in Nat /\ m >= 10 /\ FirstStory + m + 1 <= MaxPort + 1
  BY SizeIs
<1>3. d \in Nat
  BY StepIs DEF Roomy
<1>a. Streaming("ssh", 22, g)
  BY SessionsAre
<1> HIDE DEF m, d, g
<1>4. ASSUME NEW i \in 1..m
      PROVE  StoryFlow(f(i), e) /\ f(i).id = Id("atk-bf", i - 1) /\ f(i).kind = "ssh"
  <2>1. (i - 1) * d \in Nat /\ 22 \in Port
    BY <1>2, <1>3, TimesIs, PortsAre
  <2>2. StoryFlow(f(i), e) /\ f(i).id = Id("atk-bf", i - 1)
    BY <1>a, <2>1, PairIs
  <2>3. f(i).kind = "ssh"
    BY PairSays
  <2> QED BY <2>2, <2>3
<1> HIDE DEF f
<1>5. ASSUME NEW i \in 1..m
      PROVE  StoryFlow(s[i], e) /\ s[i].id = Id("atk-bf", i - 1)
  <2>1. s[i] = [f(i) EXCEPT !.state = "RSTO"]
    OBVIOUS
  <2> HIDE DEF s
  <2> DEFINE x == "RSTO"
  <2>2. x \in Ended
    BY DEF Ended
  <2>3. s[i] = [f(i) EXCEPT !.state = x]
    BY <2>1
  <2> HIDE DEF x
  <2> QED BY <1>4, <2>2, <2>3, EndedIs
<1>6. SeriesOf(s, m, "atk-bf", e)
  BY <1>2, <1>5 DEF SeriesOf
<1>7. "atk-bf" \notin Loops \cup {"atk-psexec-epm"} /\ "T1110.001" \in TechniqueNames
  BY DEF Loops, TechniqueNames
<1> HIDE DEF s
<1> QED BY <1>1, <1>2, <1>6, <1>7, OneSeries, PortsAre

LEMMA TicketIs ==
  ASSUME NEW e, NEW id, NEW t \in Nat, NEW type \in {"AS", "TGS"}, NEW etypes, NEW preauth
  PROVE  StoryFlow(Ticket(id, e, t, type, etypes, preauth), e)
         /\ Ticket(id, e, t, type, etypes, preauth).id = id
<1> DEFINE g == [request_type |-> type, etype |-> Head(etypes), request_etypes |-> etypes,
                 preauth |-> preauth]
<1>1. Ticket(id, e, t, type, etypes, preauth) = TcpTo(id, <<Victim, e.dns>>, 88, t, "kerberos", g)
  BY Zenon DEF Ticket
<1>2. 88 \in Port
  BY PortsAre
<1>a. Streaming("kerberos", 88, g)
  BY TicketsAre
<1> HIDE DEF g
<1> QED BY <1>1, <1>2, <1>a, TcpIs, Places

LEMMA AsrepRoasting ==
  ASSUME NEW e, NEW intensity, Roomy(intensity)
  PROVE  IsNew(build_asrep_roasting(e, intensity), e)
<1> DEFINE m == Count(3, 6, intensity)
           d == Pace(2000, intensity)
           s == [i \in 1..m |-> Ticket(Id("atk-asrep", i - 1), e, (i - 1) * d, "AS", <<23>>, FALSE)]
<1>1. build_asrep_roasting(e, intensity) = Single("T1558.004", s)
  BY DEF build_asrep_roasting, Series
<1>2. m \in Nat /\ m >= 3 /\ FirstStory + m + 1 <= MaxPort + 1
  BY SizeIs
<1>3. d \in Nat
  BY StepIs DEF Roomy
<1> HIDE DEF m, d
<1>4. ASSUME NEW i \in 1..m
      PROVE  StoryFlow(s[i], e) /\ s[i].id = Id("atk-asrep", i - 1)
  <2> DEFINE t == (i - 1) * d
             no == FALSE
             types == <<23>>
  <2>1. t \in Nat
    BY <1>2, <1>3, TimesIs
  <2>2. s[i] = Ticket(Id("atk-asrep", i - 1), e, t, "AS", types, no)
    BY Zenon
  <2> HIDE DEF t, no, types, s
  <2> QED BY <2>1, <2>2, TicketIs
<1>5. SeriesOf(s, m, "atk-asrep", e)
  BY <1>2, <1>4 DEF SeriesOf
<1>6. "atk-asrep" \notin Loops \cup {"atk-psexec-epm"} /\ "T1558.004" \in TechniqueNames
  BY DEF Loops, TechniqueNames
<1> HIDE DEF s
<1> QED BY <1>1, <1>2, <1>5, <1>6, OneSeries, PortsAre

LEMMA WinrmLateral ==
  ASSUME NEW e, NEW intensity, Roomy(intensity)
  PROVE  IsNew(build_winrm_lateral, e)
<1> DEFINE g(i) == [method |-> "POST", request_body_len |-> <<900, 1400, 600>>[i - 1 + 1],
                    response_body_len |-> <<700, 500, 2200>>[i - 1 + 1]]
           at(i) == (i - 1) * 1500
           s == [i \in 1..3 |-> TcpTo(Id("atk-winrm", i - 1), Pair12, 5985, at(i), "http", g(i))]
<1>1. build_winrm_lateral = Single("T1021.006", s)
  BY DEF build_winrm_lateral, Series
<1>a. ASSUME NEW i \in 1..3
      PROVE  Streaming("http", 5985, g(i))
  <2>1. /\ <<900, 1400, 600>>[i - 1 + 1] \in Nat
        /\ <<700, 500, 2200>>[i - 1 + 1] \in Nat /\ <<700, 500, 2200>>[i - 1 + 1] <= 65000
    OBVIOUS
  <2> DEFINE h == g(i)
  <2>2. /\ DOMAIN h = {"method", "request_body_len", "response_body_len"} /\ h.method = "POST"
        /\ h.request_body_len \in Nat /\ h.response_body_len \in Nat /\ h.response_body_len <= 65000
    BY <2>1
  <2> HIDE DEF h
  <2>3. Streaming("http", 5985, h)
    BY <2>2, PagesAre
  <2> QED BY <2>3 DEF h
<1> HIDE DEF g
<1>2. ASSUME NEW i \in 1..3
      PROVE  StoryFlow(s[i], e) /\ s[i].id = Id("atk-winrm", i - 1)
  <2>1. at(i) \in Nat /\ 5985 \in Port
    BY PortsAre
  <2> HIDE DEF at
  <2> QED BY <1>a, <2>1, PairIs
<1>3. SeriesOf(s, 3, "atk-winrm", e)
  BY <1>2 DEF SeriesOf
<1>4. "atk-winrm" \notin Loops \cup {"atk-psexec-epm"} /\ "T1021.006" \in TechniqueNames
  BY DEF Loops, TechniqueNames
<1> HIDE DEF s
<1> QED BY <1>1, <1>3, <1>4, OneSeries, RoomIs, PortsAre

LEMMA RdpBruteforce ==
  ASSUME NEW e, NEW intensity, Roomy(intensity)
  PROVE  IsNew(build_rdp_bruteforce(intensity), e)
<1> DEFINE m == Count(6, 8, intensity)
           d == Pace(2000, intensity)
           g == [service_hint |-> "rdp", orig_bytes |-> 44, resp_bytes |-> 19,
                 orig_literal_hex |-> 44, resp_literal_hex |-> 19]
           f(i) == TcpTo(Id("atk-rdp", i - 1), Pair12, 3389, (i - 1) * d, "opaque_tcp", g)
           x(i) == IF i - 1 = m - 1 THEN "SF" ELSE "RSTR"
           s == [i \in 1..m |-> [f(i) EXCEPT !.state = x(i)]]
<1>1. build_rdp_bruteforce(intensity) = Single("T1110.001", s)
  BY DEF build_rdp_bruteforce, Series
<1>2. m \in Nat /\ m >= 6 /\ FirstStory + m + 1 <= MaxPort + 1
  BY SizeIs
<1>3. d \in Nat
  BY StepIs DEF Roomy
<1>a. Streaming("opaque_tcp", 3389, g)
  BY BytesAre
<1>b. \A i : x(i) \in Ended
  BY DEF Ended
<1> HIDE DEF m, d, g, x
<1>4. ASSUME NEW i \in 1..m
      PROVE  StoryFlow(f(i), e) /\ f(i).id = Id("atk-rdp", i - 1)
  <2>1. (i - 1) * d \in Nat /\ 3389 \in Port
    BY <1>2, <1>3, TimesIs, PortsAre
  <2> QED BY <1>a, <2>1, PairIs
<1> HIDE DEF f
<1>5. ASSUME NEW i \in 1..m
      PROVE  StoryFlow(s[i], e) /\ s[i].id = Id("atk-rdp", i - 1)
  <2>1. s[i] = [f(i) EXCEPT !.state = x(i)]
    OBVIOUS
  <2> HIDE DEF s
  <2> QED BY <1>4, <1>b, <2>1, EndedIs
<1>6. SeriesOf(s, m, "atk-rdp", e)
  BY <1>2, <1>5 DEF SeriesOf
<1>7. "atk-rdp" \notin Loops \cup {"atk-psexec-epm"} /\ "T1110.001" \in TechniqueNames
  BY DEF Loops, TechniqueNames
<1> HIDE DEF s
<1> QED BY <1>1, <1>2, <1>6, <1>7, OneSeries, PortsAre

LEMMA ScanPortsAre ==
  /\ Len(ScanPorts) = 20
  /\ \A i \in 1..20 : ScanPorts[i] \in Port
<1>1. \A i \in 1..20 : ScanPorts[i] \in Nat /\ ScanPorts[i] <= 49200
  BY DEF ScanPorts
<1>2. Len(ScanPorts) = 20
  BY DEF ScanPorts
<1> QED BY <1>1, <1>2, PortsAre

LEMMA PortScan ==
  ASSUME NEW e, NEW intensity, Roomy(intensity)
  PROVE  IsNew(build_port_scan(intensity), e)
<1> DEFINE rounds == AtLeast(intensity \div 100, 1) * Len(ScanPorts)
           wanted == Count(12, Len(ScanPorts), intensity)
           m == IF wanted < rounds THEN wanted ELSE rounds
           port(i) == ScanPorts[1 + ((i - 1) % Len(ScanPorts))]
           at(i) == (i - 1) * 300
           f(i) == TcpTo(Id("atk-scan", i - 1), Pair12, port(i), at(i), "opaque_tcp", <<>>)
           x(i) == IF port(i) \in {80, 443, 445} THEN "SF" ELSE "REJ"
           s == [i \in 1..m |-> [f(i) EXCEPT !.state = x(i)]]
<1>1. build_port_scan(intensity) = Single("T1046", s)
  BY DEF build_port_scan, Series
<1>2. m \in Nat /\ m >= 1 /\ FirstStory + m + 1 <= MaxPort + 1
  <2>1. rounds \in Nat /\ rounds >= 1
    <3>1. AtLeast(intensity \div 100, 1) \in Nat /\ AtLeast(intensity \div 100, 1) >= 1
      BY RoomIs DEF AtLeast
    <3> QED BY <3>1, ScanPortsAre
  <2>2. wanted = Count(12, 20, intensity)
    BY ScanPortsAre
  <2>3. wanted \in Nat /\ wanted >= 12 /\ FirstStory + wanted + 1 <= MaxPort + 1
    BY <2>2, SizeIs
  <2> HIDE DEF rounds, wanted
  <2> QED BY <2>1, <2>3, PortsAre
<1>3. ASSUME NEW i \in 1..m
      PROVE  StoryFlow(f(i), e) /\ f(i).id = Id("atk-scan", i - 1) /\ f(i).kind = "opaque_tcp"
  <2> HIDE DEF m
  <2>1. at(i) \in Nat /\ i - 1 \in Nat
    BY <1>2
  <2>2. 1 + ((i - 1) % 20) \in 1..20
    BY <2>1
  <2>3. port(i) \in Port
    BY <2>2, ScanPortsAre
  <2> DEFINE none == <<>>
  <2>4. Streaming("opaque_tcp", port(i), none)
    BY NothingSaid
  <2> HIDE DEF port, at, none
  <2> DEFINE h == TcpTo(Id("atk-scan", i - 1), Pair12, port(i), at(i), "opaque_tcp", none)
  <2>5. StoryFlow(h, e) /\ h.id = Id("atk-scan", i - 1)
    BY <2>1, <2>3, <2>4, PairIs
  <2>6. h.kind = "opaque_tcp"
    BY PairSays
  <2>7. f(i) = h
    BY DEF none
  <2> HIDE DEF f, h
  <2> QED BY <2>5, <2>6, <2>7
<1>a. \A i : x(i) \in {"SF", "REJ"}
  OBVIOUS
<1> HIDE DEF m, f, x
<1>4. ASSUME NEW i \in 1..m
      PROVE  StoryFlow(s[i], e) /\ s[i].id = Id("atk-scan", i - 1)
  <2>1. s[i] = [f(i) EXCEPT !.state = x(i)]
    OBVIOUS
  <2> HIDE DEF s
  <2> QED BY <1>3, <1>a, <2>1, EndedIs DEF Ended
<1>5. SeriesOf(s, m, "atk-scan", e)
  BY <1>2, <1>4 DEF SeriesOf
<1>6. "atk-scan" \notin Loops \cup {"atk-psexec-epm"} /\ "T1046" \in TechniqueNames
  BY DEF Loops, TechniqueNames
<1> HIDE DEF s
<1> QED BY <1>1, <1>2, <1>5, <1>6, OneSeries, PortsAre

\* Its flows are more than the others' may be: their ports are not of the series.
LEMMA SynFlood ==
  ASSUME NEW e, NEW intensity, Roomy(intensity), NEW r
  PROVE  IsNew(build_ddos_syn_flood(intensity, r), e)
<1> DEFINE m == Count(40, 300, intensity)
           d == Pace(50, intensity)
           source(i) == IF r.again /\ i = m - 1 THEN 0 ELSE i
           f(i) == TcpTo(Id("atk-syn", i - 1), <<Host(1000 + source(i - 1)), Victim>>, 443, (i - 1) * d,
                         "opaque_tcp", <<>>)
           s == [i \in 1..m |-> [f(i) EXCEPT !.state = "S0"]]
           w == Numbered(s)
           key == <<Entry("T1499.001", s)>>
           a == Attack(s, key, <<>>)
           port(i) == 1024 + source(i - 1)
           u == [i \in 1..m |-> [a.flows[i] EXCEPT !.sport = port(i)]]
           b == [a EXCEPT !.flows = u]
<1>1. build_ddos_syn_flood(intensity, r) = b
  BY DEF build_ddos_syn_flood, Series, Single
<1>2. m \in Nat /\ m >= 1 /\ 1024 + m <= MaxPort + 1
  BY RoomIs DEF Count, AtLeast, Roomy
<1>3. d \in Nat
  BY StepIs DEF Roomy
<1>4. ASSUME NEW i \in 1..m
      PROVE  source(i - 1) \in 0..(m - 1)
  <2> HIDE DEF m
  <2>1. source(i - 1) = 0 \/ source(i - 1) = i - 1
    BY Zenon
  <2> HIDE DEF source
  <2> QED BY <1>2, <2>1
<1>5. DOMAIN a = {"flows", "key", "iocs"} /\ a.flows = w /\ a.key = key /\ a.iocs = <<>>
  BY DEF Attack
<1> HIDE DEF m, d, source, a, key
<1>6. ASSUME NEW i \in 1..m
      PROVE  StoryFlow(f(i), e) /\ f(i).id = Id("atk-syn", i - 1) /\ f(i).kind = "opaque_tcp"
  <2>1. (i - 1) * d \in Nat /\ 443 \in Port
    BY <1>2, <1>3, TimesIs, PortsAre
  <2>2. 1000 + source(i - 1) \in Nat /\ 1000 + source(i - 1) >= 1000
    BY <1>2, <1>4
  <2> DEFINE host == Host(1000 + source(i - 1))
  <2>3. Elsewhere(host) /\ Elsewhere(Victim)
    BY <2>2, Places
  <2> DEFINE none == <<>>
  <2>5. Streaming("opaque_tcp", 443, none)
    BY NothingSaid
  <2> HIDE DEF host, none
  <2> DEFINE h == TcpTo(Id("atk-syn", i - 1), <<host, Victim>>, 443, (i - 1) * d, "opaque_tcp", none)
  <2>4. StoryFlow(h, e) /\ h.id = Id("atk-syn", i - 1)
    BY <2>1, <2>3, <2>5, TcpIs
  <2>6. h.kind = "opaque_tcp"
    BY ToSays
  <2>7. f(i) = h
    BY Zenon DEF host, none
  <2> HIDE DEF f, h
  <2> QED BY <2>4, <2>6, <2>7
<1> HIDE DEF f
<1>7. ASSUME NEW i \in 1..m
      PROVE  StoryFlow(s[i], e) /\ s[i].id = Id("atk-syn", i - 1)
  <2>1. s[i] = [f(i) EXCEPT !.state = "S0"]
    OBVIOUS
  <2> HIDE DEF s
  <2> QED BY <1>6, <2>1, EndedIs
<1>8. SeriesOf(s, m, "atk-syn", e)
  BY <1>2, <1>7 DEF SeriesOf
<1> HIDE DEF s
<1>9. Story(s, e, {"atk-syn"}) /\ Len(s) = m
  BY <1>8, StorySeries
<1>10. /\ Story(w, e, {"atk-syn"}) /\ IdsOf(w) = IdsOf(s) /\ Len(w) = m
  BY <1>9, NumberedIs
<1>11. Keyed(key, IdsOf(s))
  <2>1. "T1499.001" \in TechniqueNames /\ {"atk-syn"} \cap (Loops \cup {"atk-psexec-epm"}) = {}
    BY DEF Loops, TechniqueNames
  <2> QED BY <1>2, <1>9, <2>1, SingleKeyed DEF key
<1>12. \A i \in 1..m : u[i] = [w[i] EXCEPT !.sport = port(i)]
  BY <1>5
<1>13. u = [i \in 1..m |-> u[i]]
  OBVIOUS
<1>14. DOMAIN b = {"flows", "key", "iocs"} /\ b.flows = u /\ b.key = key /\ b.iocs = <<>>
  BY <1>5
<1> HIDE DEF u, w, b
<1>15. ASSUME NEW i \in 1..m
       PROVE  /\ StoryFlow(u[i], e) /\ u[i].id = w[i].id /\ u[i].sport = port(i)
              /\ w[i].id = Id(w[i].id[1], w[i].id[2]) /\ w[i].id[1] = "atk-syn"
  <2> DEFINE g == w[i]
             y == port(i)
  <2>1. StoryFlow(g, e) /\ u[i] = [g EXCEPT !.sport = y]
    BY <1>10, <1>12 DEF Story
  <2>2. g.id = Id(g.id[1], g.id[2]) /\ g.id[1] = "atk-syn"
    BY <1>10 DEF Story
  <2> HIDE DEF g, y
  <2>3. StoryFlow(u[i], e) /\ u[i].id = g.id
    BY <2>1, SportIs
  <2>4. u[i].sport = y
    BY <2>1 DEF StoryFlow, Fields
  <2> QED BY <2>2, <2>3, <2>4 DEF g, y
<1>16. Len(u) = m /\ DOMAIN u = 1..m /\ DOMAIN w = 1..m
  BY <1>2, <1>10, <1>13 DEF Story
<1>17. Story(u, e, {"atk-syn"})
  BY <1>2, <1>10, <1>13, <1>15, <1>16 DEF Story
<1>18. IdsOf(u) = IdsOf(s)
  <2>1. IdsOf(u) \subseteq IdsOf(w)
    BY <1>15, <1>16 DEF IdsOf
  <2>2. IdsOf(w) \subseteq IdsOf(u)
    BY <1>15, <1>16 DEF IdsOf
  <2> QED BY <1>10, <2>1, <2>2
<1>19. Ported(u)
  <2>1. \A i \in 1..m : port(i) \in Port
    BY <1>2, <1>4, PortsAre DEF Port
  <2>2. \A i \in 1..m : Flooded(u[i])
    BY <1>15 DEF Flooded
  <2> HIDE DEF port
  <2> QED BY <1>15, <1>16, <2>1, <2>2 DEF Ported
<1>20. {"atk-syn"} \cap Loops = {}
  BY DEF Loops
<1>21. IsNew(b, e)
  BY <1>11, <1>14, <1>17, <1>18, <1>19, <1>20, Unknown DEF IsAttack, IsNew
<1> QED BY <1>1, <1>21 DEF b

Whole(technique, s, iocs) == Attack(s, <<Entry(technique, s)>>, iocs)

\* A piece of a storyline under one name.
Piece(s, e, name) == Story(s, e, {name}) /\ name \notin Loops \cup {"atk-psexec-epm"}

\* An attack of a flow and a series, or of a series and a flow.
LEMMA TwoPieces ==
  ASSUME NEW e, NEW s, NEW u, NEW x, NEW y, Piece(s, e, x), Piece(u, e, y), x # y,
         NEW technique \in TechniqueNames, Len(s) >= 1, FirstStory + Len(s) + Len(u) <= MaxPort + 1,
         NEW iocs, Known(s \o u, iocs)
  PROVE  IsNew(Whole(technique, s \o u, iocs), e)
<1> DEFINE w == s \o u
<1>1. Story(w, e, {x, y}) /\ Len(w) = Len(s) + Len(u)
  <2>1. Apart({x}, {y}) /\ {x} \cup {y} = {x, y} /\ Story(s, e, {x}) /\ Story(u, e, {y})
    BY DEF Piece, Apart
  <2>2. Joined(s, u, e, {x}, {y})
    BY <2>1, StoryConcat DEF Joins
  <2> QED BY <2>1, <2>2 DEF Joined
<1>2. Len(s) \in Nat /\ Len(u) \in Nat
  BY DEF Story, Piece
<1> HIDE DEF w
<1>3. Len(w) >= 1 /\ FirstStory + Len(w) <= MaxPort + 1
  BY <1>1, <1>2, PortsAre
<1>4. {x, y} \cap (Loops \cup {"atk-psexec-epm"}) = {} /\ {x, y} \cap Loops = {}
  BY DEF Piece
<1> DEFINE key == <<Entry(technique, w)>>
<1>5. Keyed(key, IdsOf(w))
  BY <1>1, <1>3, <1>4, SingleKeyed
<1> HIDE DEF key
<1>6. IsNew(Attack(w, key, iocs), e)
  BY <1>1, <1>3, <1>4, <1>5, AttackIs DEF w
<1> QED BY Zenon, <1>6 DEF key, w, Whole

LEMMA OneIs ==
  ASSUME NEW e, NEW f, NEW name, NEW i, StoryFlow(f, e), f.id = Id(name, i)
  PROVE  Story(<<f>>, e, {name}) /\ Len(<<f>>) = 1
BY StoryOne

LEMMA Ipv6C2 ==
  ASSUME NEW e, NEW intensity, Roomy(intensity), NEW r, r.jitter \in Jitters
  PROVE  IsNew(build_ipv6_c2(e, intensity, r), e)
<1> DEFINE m == Count(3, 6, intensity)
           from == IF e.name = "office" THEN Victim ELSE Far("10.10.0.40")
           f == UdpTo(Id("atk-6-dns", 0), <<from, e.dns>>, 53, 0, "dns",
                      [qname |-> C2Labels, qtype |-> "AAAA", answers |-> 1])
           at(i) == 30000 + (i - 1) * 60000 + r.jitter[(i - 1) % 2]
           g(i) == TcpTo(Id("atk-6-beacon", i - 1), <<Far("victim6"), Far("c2-6")>>, 443, at(i), "tls",
                         Modern("c2"))
           s == [i \in 1..m |-> [g(i) EXCEPT !.v6 = TRUE]]
           w == <<f>> \o s
           iocs == [c2_domain |-> "c2"]
<1>1. build_ipv6_c2(e, intensity, r) = Whole("T1071.001", w, iocs)
  BY DEF build_ipv6_c2, Series, Whole
<1>2. m \in Nat /\ m >= 3 /\ FirstStory + m + 1 <= MaxPort + 1
  BY SizeIs
<1> HIDE DEF m
<1>3. ASSUME NEW i \in 1..m
      PROVE  at(i) \in Nat
  <2>1. (i - 1) % 2 \in 0..1 /\ (i - 1) * 60000 \in Nat
    BY <1>2
  <2>2. r.jitter[(i - 1) % 2] \in {-4000, 4000}
    BY <2>1 DEF Jitters
  <2> QED BY <2>1, <2>2
<1> HIDE DEF at
<1>4. ASSUME NEW i \in 1..m
      PROVE  /\ StoryFlow(g(i), e) /\ g(i).id = Id("atk-6-beacon", i - 1)
             /\ g(i).given.server_name = "c2" /\ g(i).kind = "tls"
  <2> DEFINE k == Modern("c2")
  <2>1. at(i) \in Nat /\ 443 \in Port /\ Streaming("tls", 443, k) /\ k.server_name = "c2"
    BY <1>3, PortsAre, ModernIs
  <2> HIDE DEF k
  <2> DEFINE h == TcpTo(Id("atk-6-beacon", i - 1), <<Far("victim6"), Far("c2-6")>>, 443, at(i), "tls", k)
  <2>2. StoryFlow(h, e) /\ h.id = Id("atk-6-beacon", i - 1)
    BY <2>1, TcpIs, Places
  <2>3. h.given = k /\ h.kind = "tls"
    BY ToSays
  <2>4. g(i) = h
    BY DEF k
  <2> HIDE DEF h, g
  <2> QED BY <2>1, <2>2, <2>3, <2>4
<1> HIDE DEF g
<1>5. ASSUME NEW i \in 1..m
      PROVE  /\ StoryFlow(s[i], e) /\ s[i].id = Id("atk-6-beacon", i - 1)
             /\ s[i].given.server_name = "c2"
  <2>1. s[i] = [g(i) EXCEPT !.v6 = TRUE]
    OBVIOUS
  <2> HIDE DEF s
  <2> DEFINE h == g(i)
             six == TRUE
  <2>2. s[i] = [h EXCEPT !.v6 = six] /\ StoryFlow(h, e) /\ h.id = Id("atk-6-beacon", i - 1)
        /\ h.kind = "tls" /\ h.given.server_name = "c2"
    BY <1>4, <2>1
  <2> HIDE DEF h, six
  <2>3. StoryFlow(s[i], e) /\ s[i].id = h.id
    BY <2>2, V6Is
  <2>4. s[i].given = h.given
    BY <2>2 DEF StoryFlow, Fields
  <2> QED BY <2>2, <2>3, <2>4
<1>6. SeriesOf(s, m, "atk-6-beacon", e)
  BY <1>2, <1>5 DEF SeriesOf
<1>7. StoryFlow(f, e) /\ f.id = Id("atk-6-dns", 0) /\ f.kind = "dns"
  <2> DEFINE k == [qname |-> C2Labels, qtype |-> "AAAA", answers |-> 1]
  <2>1. Elsewhere(from) /\ 53 \in Port
    BY Places, PortsAre
  <2>2. Saying("dns", 53, k)
    BY LabelsAre, Asks
  <2> HIDE DEF from, k
  <2> DEFINE h == UdpTo(Id("atk-6-dns", 0), <<from, e.dns>>, 53, 0, "dns", k)
  <2>3. StoryFlow(h, e) /\ h.id = Id("atk-6-dns", 0)
    BY <2>1, <2>2, UdpIs
  <2>4. h.kind = "dns"
    BY ToSays
  <2>5. f = h
    BY DEF k
  <2> HIDE DEF f, h
  <2> QED BY <2>3, <2>4, <2>5
<1>a. DOMAIN iocs = {"c2_domain"} /\ iocs.c2_domain = "c2"
  OBVIOUS
<1> HIDE DEF s, f, iocs
<1>8. /\ Story(s, e, {"atk-6-beacon"}) /\ Len(s) = m
      /\ Story(<<f>>, e, {"atk-6-dns"}) /\ Len(<<f>>) = 1
  BY <1>6, <1>7, StorySeries, OneIs
<1>9. /\ "atk-6-dns" \notin Loops \cup {"atk-psexec-epm"} /\ "T1071.001" \in TechniqueNames
      /\ "atk-6-beacon" \notin Loops \cup {"atk-psexec-epm"}
  BY DEF Loops, TechniqueNames
<1> DEFINE v == <<f>>
<1>b. Known(v \o s, iocs)
  <2>1. C2Only(v) /\ C2Only(s) /\ Story(v, e, {"atk-6-dns"}) /\ Story(s, e, {"atk-6-beacon"})
    BY <1>5, <1>7, <1>8 DEF C2Only
  <2> HIDE DEF v
  <2>2. C2Only(v \o s)
    BY <2>1, C2Concat
  <2> QED BY <1>a, <2>2 DEF Known
<1> HIDE DEF v
<1>10. IsNew(Whole("T1071.001", v \o s, iocs), e)
  <2>1. Piece(v, e, "atk-6-dns") /\ Piece(s, e, "atk-6-beacon") /\ Len(v) = 1 /\ Len(s) = m
    BY <1>8, <1>9 DEF v, Piece
  <2>2. FirstStory + Len(v) + Len(s) <= MaxPort + 1 /\ Len(v) >= 1 /\ "atk-6-dns" # "atk-6-beacon"
    BY <1>2, <2>1, PortsAre
  <2> QED BY <1>b, <1>9, <2>1, <2>2, TwoPieces
<1> QED BY Zenon, <1>1, <1>10 DEF v

LEMMA CloudExfil ==
  ASSUME NEW e, NEW intensity, Roomy(intensity)
  PROVE  IsNew(build_cloud_exfil(e, intensity), e)
<1> DEFINE m == Count(3, 6, intensity)
           f == UdpTo(Id("atk-cx-dns", 0), <<Victim, e.dns>>, 53, 0, "dns", Answered(<<13, 2, 9, 3>>))
           at(i) == 5000 + (i - 1) * 2000
           s == [i \in 1..m |-> TcpTo(Id("atk-cx", i - 1), <<Victim, Far("storage")>>, 443, at(i), "tls",
                                      Modern("storage"))]
           w == <<f>> \o s
           none == <<>>
<1>1. build_cloud_exfil(e, intensity) = Whole("T1567.002", w, none)
  BY DEF build_cloud_exfil, Series, Single, Whole
<1>2. m \in Nat /\ m >= 3 /\ FirstStory + m + 1 <= MaxPort + 1
  BY SizeIs
<1> HIDE DEF m
<1>3. ASSUME NEW i \in 1..m
      PROVE  at(i) \in Nat
  BY <1>2
<1> HIDE DEF at
<1>4. ASSUME NEW i \in 1..m
      PROVE  StoryFlow(s[i], e) /\ s[i].id = Id("atk-cx", i - 1)
  <2> DEFINE k == Modern("storage")
  <2>1. at(i) \in Nat /\ 443 \in Port /\ Streaming("tls", 443, k)
    BY <1>3, PortsAre, ModernIs
  <2> HIDE DEF k
  <2>2. LET h == TcpTo(Id("atk-cx", i - 1), <<Victim, Far("storage")>>, 443, at(i), "tls", k)
        IN  StoryFlow(h, e) /\ h.id = Id("atk-cx", i - 1)
    BY <2>1, TcpIs, Places
  <2> QED BY <2>2 DEF k
<1>5. SeriesOf(s, m, "atk-cx", e)
  BY <1>2, <1>4 DEF SeriesOf
<1>6. StoryFlow(f, e) /\ f.id = Id("atk-cx-dns", 0)
  <2> DEFINE h == Answered(<<13, 2, 9, 3>>)
  <2>1. 53 \in Port /\ Saying("dns", 53, h)
    BY PortsAre, LabelsAre, AnsweredAsks
  <2> HIDE DEF h
  <2>2. /\ StoryFlow(UdpTo(Id("atk-cx-dns", 0), <<Victim, e.dns>>, 53, 0, "dns", h), e)
        /\ UdpTo(Id("atk-cx-dns", 0), <<Victim, e.dns>>, 53, 0, "dns", h).id = Id("atk-cx-dns", 0)
    BY <2>1, UdpIs, Places
  <2> QED BY Zenon, <2>2 DEF h
<1> HIDE DEF s, f
<1>7. /\ Story(s, e, {"atk-cx"}) /\ Len(s) = m
      /\ Story(<<f>>, e, {"atk-cx-dns"}) /\ Len(<<f>>) = 1
  BY <1>5, <1>6, StorySeries, OneIs
<1>8. /\ "atk-cx-dns" \notin Loops \cup {"atk-psexec-epm"} /\ "T1567.002" \in TechniqueNames
      /\ "atk-cx" \notin Loops \cup {"atk-psexec-epm"}
  BY DEF Loops, TechniqueNames
<1>b. \A z : Known(z, none)
  BY Unknown
<1> DEFINE v == <<f>>
<1> HIDE DEF v, none
<1>9. IsNew(Whole("T1567.002", v \o s, none), e)
  <2>1. Piece(v, e, "atk-cx-dns") /\ Piece(s, e, "atk-cx") /\ Len(v) = 1 /\ Len(s) = m
    BY <1>7, <1>8 DEF v, Piece
  <2>2. FirstStory + Len(v) + Len(s) <= MaxPort + 1 /\ Len(v) >= 1 /\ "atk-cx-dns" # "atk-cx"
    BY <1>2, <2>1, PortsAre
  <2> QED BY <1>b, <1>8, <2>1, <2>2, TwoPieces
<1> QED BY Zenon, <1>1, <1>9 DEF v

LEMMA Kerberoasting ==
  ASSUME NEW e, NEW intensity, Roomy(intensity)
  PROVE  IsNew(build_kerberoasting(e, intensity), e)
<1> DEFINE m == Count(4, 8, intensity)
           d == Pace(1500, intensity)
           two == <<18, 17>>
           one == <<23>>
           yes == TRUE
           f == Ticket(Id("atk-krb-tgt", 0), e, 0, "AS", two, yes)
           at(i) == 5000 + (i - 1) * d
           s == [i \in 1..m |-> Ticket(Id("atk-krb-roast", i - 1), e, at(i), "TGS", one, yes)]
           none == <<>>
<1>1. build_kerberoasting(e, intensity) = Whole("T1558.003", <<f>> \o s, none)
  BY DEF build_kerberoasting, Series, Single, Whole
<1>2. m \in Nat /\ m >= 4 /\ FirstStory + m + 1 <= MaxPort + 1
  BY SizeIs
<1>3. d \in Nat
  BY StepIs DEF Roomy
<1>b. \A z : Known(z, none)
  BY Unknown
<1> HIDE DEF m, d, two, one, yes, none
<1>4. ASSUME NEW i \in 1..m
      PROVE  at(i) \in Nat
  <2>1. (i - 1) * d \in Nat
    BY <1>2, <1>3, TimesIs
  <2> QED BY <2>1
<1> HIDE DEF at
<1>5. ASSUME NEW i \in 1..m
      PROVE  StoryFlow(s[i], e) /\ s[i].id = Id("atk-krb-roast", i - 1)
  BY <1>4, TicketIs
<1>6. SeriesOf(s, m, "atk-krb-roast", e)
  BY <1>2, <1>5 DEF SeriesOf
<1>7. StoryFlow(f, e) /\ f.id = Id("atk-krb-tgt", 0)
  BY TicketIs
<1> HIDE DEF s, f
<1>8. /\ Story(s, e, {"atk-krb-roast"}) /\ Len(s) = m
      /\ Story(<<f>>, e, {"atk-krb-tgt"}) /\ Len(<<f>>) = 1
  BY <1>6, <1>7, StorySeries, OneIs
<1>9. /\ "atk-krb-tgt" \notin Loops \cup {"atk-psexec-epm"} /\ "T1558.003" \in TechniqueNames
      /\ "atk-krb-roast" \notin Loops \cup {"atk-psexec-epm"}
  BY DEF Loops, TechniqueNames
<1> DEFINE v == <<f>>
<1> HIDE DEF v
<1>10. IsNew(Whole("T1558.003", v \o s, none), e)
  <2>1. Piece(v, e, "atk-krb-tgt") /\ Piece(s, e, "atk-krb-roast") /\ Len(v) = 1 /\ Len(s) = m
    BY <1>8, <1>9 DEF v, Piece
  <2>2. FirstStory + Len(v) + Len(s) <= MaxPort + 1 /\ Len(v) >= 1 /\ "atk-krb-tgt" # "atk-krb-roast"
    BY <1>2, <2>1, PortsAre
  <2> QED BY <1>b, <1>9, <2>1, <2>2, TwoPieces
<1> QED BY Zenon, <1>1, <1>10 DEF v

LEMMA LlmnrPoisoning ==
  ASSUME NEW e, NEW intensity, Roomy(intensity)
  PROVE  IsNew(build_llmnr_poisoning, e)
<1> DEFINE h == [qname |-> "wpad", protocol |-> "llmnr", poison_from |-> Peer]
           at(i) == (i - 1) * 4000
           g(i) == UdpTo(Id("atk-llmnr", i - 1), <<Victim, Far("224.0.0.252")>>, 5355, at(i),
                         "namequery", h)
           s == [i \in 1..3 |-> [g(i) EXCEPT !.rtt = 1]]
           k == [share |-> "wpad", ntlm |-> "jsmith"]
           f == TcpTo(Id("atk-llmnr-smb", 0), Pair12, 445, 14000, "smb", k)
           none == <<>>
<1>1. build_llmnr_poisoning = Whole("T1557.001", s \o <<f>>, none)
  BY DEF build_llmnr_poisoning, Series, Single, Whole
<1>b. \A z : Known(z, none)
  BY Unknown
<1>a. Saying("namequery", 5355, h) /\ Streaming("smb", 445, k)
  BY PoisonIs, SharesAre
<1> HIDE DEF h, k, none
<1>2. ASSUME NEW i \in 1..3
      PROVE  StoryFlow(g(i), e) /\ g(i).id = Id("atk-llmnr", i - 1)
  <2>1. at(i) \in Nat /\ 5355 \in Port
    BY PortsAre
  <2> HIDE DEF at
  <2> QED BY <1>a, <2>1, UdpIs, Places
<1> HIDE DEF g
<1>3. ASSUME NEW i \in 1..3
      PROVE  StoryFlow(s[i], e) /\ s[i].id = Id("atk-llmnr", i - 1)
  <2>1. s[i] = [g(i) EXCEPT !.rtt = 1]
    OBVIOUS
  <2> DEFINE x == 1
             f1 == g(i)
  <2>2. s[i] = [f1 EXCEPT !.rtt = x] /\ StoryFlow(f1, e) /\ f1.id = Id("atk-llmnr", i - 1)
    BY <1>2, <2>1
  <2> DEFINE y == s[i]
  <2> HIDE DEF s, x, f1
  <2>3. StoryFlow(y, e) /\ y.id = f1.id
    BY <2>2, RttIs
  <2> QED BY <2>2, <2>3
<1>4. SeriesOf(s, 3, "atk-llmnr", e)
  BY <1>3 DEF SeriesOf
<1>5. StoryFlow(f, e) /\ f.id = Id("atk-llmnr-smb", 0)
  <2>1. 445 \in Port
    BY PortsAre
  <2> QED BY <1>a, <2>1, PairIs
<1> HIDE DEF s, f
<1>6. /\ Story(s, e, {"atk-llmnr"}) /\ Len(s) = 3
      /\ Story(<<f>>, e, {"atk-llmnr-smb"}) /\ Len(<<f>>) = 1
  BY <1>4, <1>5, StorySeries, OneIs
<1>7. /\ "atk-llmnr" \notin Loops \cup {"atk-psexec-epm"} /\ "T1557.001" \in TechniqueNames
      /\ "atk-llmnr-smb" \notin Loops \cup {"atk-psexec-epm"}
  BY DEF Loops, TechniqueNames
<1> DEFINE v == <<f>>
<1> HIDE DEF v
<1>8. IsNew(Whole("T1557.001", s \o v, none), e)
  <2>1. Piece(v, e, "atk-llmnr-smb") /\ Piece(s, e, "atk-llmnr") /\ Len(v) = 1 /\ Len(s) = 3
    BY <1>6, <1>7 DEF v, Piece
  <2>2. FirstStory + Len(s) + Len(v) <= MaxPort + 1 /\ Len(s) >= 1 /\ "atk-llmnr" # "atk-llmnr-smb"
    BY <2>1, RoomIs, PortsAre
  <2> QED BY <1>b, <1>7, <2>1, <2>2, TwoPieces
<1> QED BY Zenon, <1>1, <1>8 DEF v

\* Attacks of one and of two flows.
LEMMA SingleOne ==
  ASSUME NEW e, NEW intensity, Roomy(intensity), NEW f, NEW name, StoryFlow(f, e), f.id = Id(name, 0),
         name \notin Loops \cup {"atk-psexec-epm"}, NEW technique \in TechniqueNames
  PROVE  IsNew(Single(technique, <<f>>), e)
<1> DEFINE s == <<f>>
<1>1. Story(s, e, {name}) /\ Len(s) = 1
  BY OneIs
<1> HIDE DEF s
<1>2. FirstStory + Len(s) <= MaxPort + 1 /\ Len(s) >= 1
  BY <1>1, RoomIs, PortsAre
<1> DEFINE N == {name}
<1>3. N \cap (Loops \cup {"atk-psexec-epm"}) = {} /\ Story(s, e, N)
  BY <1>1
<1> HIDE DEF N
<1>4. IsNew(Single(technique, s), e)
  BY <1>2, <1>3, SingleIs
<1> QED BY <1>4 DEF s

LEMMA StoryTwo ==
  ASSUME NEW e, NEW f, NEW x, NEW g, NEW y, StoryFlow(f, e), f.id = Id(x, 0),
         StoryFlow(g, e), g.id = Id(y, 0), x # y
  PROVE  Story(<<f, g>>, e, {x, y}) /\ Len(<<f, g>>) = 2
<1> DEFINE s == <<f, g>>
<1>1. Len(s) = 2 /\ s[1] = f /\ s[2] = g /\ s = [i \in 1..2 |-> s[i]]
  OBVIOUS
<1> HIDE DEF s
<1>2. \A i \in 1..2 : i = 1 \/ i = 2
  OBVIOUS
<1>3. Story(s, e, {x, y})
  BY <1>1, <1>2 DEF Story, Id
<1> QED BY <1>1, <1>3 DEF s

LEMMA SingleTwo ==
  ASSUME NEW e, NEW intensity, Roomy(intensity), NEW f, NEW x, StoryFlow(f, e), f.id = Id(x, 0),
         NEW g, NEW y, StoryFlow(g, e), g.id = Id(y, 0), x # y,
         x \notin Loops \cup {"atk-psexec-epm"}, y \notin Loops \cup {"atk-psexec-epm"},
         NEW technique \in TechniqueNames
  PROVE  IsNew(Single(technique, <<f, g>>), e)
<1> DEFINE s == <<f, g>>
<1>1. Story(s, e, {x, y}) /\ Len(s) = 2
  BY StoryTwo
<1> HIDE DEF s
<1>2. FirstStory + Len(s) <= MaxPort + 1 /\ Len(s) >= 1
  BY <1>1, RoomIs, PortsAre
<1> DEFINE N == {x, y}
<1>3. N \cap (Loops \cup {"atk-psexec-epm"}) = {} /\ Story(s, e, N)
  BY <1>1
<1> HIDE DEF N
<1>4. IsNew(Single(technique, s), e)
  BY <1>2, <1>3, SingleIs
<1> QED BY <1>4 DEF s

\* Remote procedure calls and file drops.
Callable(interface, operations) ==
  interface \in Interfaces /\ operations \in Seq(Nat) /\ operations # <<>>

LEMMA RpcIs ==
  ASSUME NEW e, NEW name, NEW t \in Nat, NEW pipe, NEW interface, NEW operations,
         Callable(interface, operations)
  PROVE  /\ StoryFlow(Rpc(name, t, pipe, interface, operations), e)
         /\ Rpc(name, t, pipe, interface, operations).id = Id(name, 0)
<1> DEFINE g == [share |-> "IPC$", pipe |-> pipe, interface |-> interface, operations |-> operations]
<1>1. Rpc(name, t, pipe, interface, operations) = TcpTo(Id(name, 0), Pair12, 445, t, "dcerpc", g)
  BY Zenon DEF Rpc
<1>2. 445 \in Port
  BY PortsAre
<1>3. Streaming("dcerpc", 445, g)
  BY CallsAre DEF Callable
<1> HIDE DEF g
<1> QED BY <1>1, <1>2, <1>3, PairIs

LEMMA DirectIs ==
  ASSUME NEW e, NEW name, NEW t \in Nat, NEW dport \in Port, NEW interface, NEW operations,
         Callable(interface, operations)
  PROVE  /\ StoryFlow(Direct(name, t, dport, interface, operations), e)
         /\ Direct(name, t, dport, interface, operations).id = Id(name, 0)
<1> DEFINE g == [share |-> None, pipe |-> interface, interface |-> interface, operations |-> operations,
                 transport |-> "ncacn_ip_tcp"]
<1>1. Direct(name, t, dport, interface, operations) = TcpTo(Id(name, 0), Pair12, dport, t, "dcerpc", g)
  BY Zenon DEF Direct
<1>2. Streaming("dcerpc", dport, g)
  BY CallsAre DEF Callable
<1> HIDE DEF g
<1> QED BY <1>1, <1>2, PairIs

LEMMA EpmIs ==
  ASSUME NEW e, NEW name, NEW t \in Nat
  PROVE  StoryFlow(Epm(name, t), e) /\ Epm(name, t).id = Id(name, 0)
<1>1. 135 \in Port
  BY PortsAre
<1> DEFINE ops == <<3>>
<1>3. Callable("epmapper", ops)
  BY DEF Callable, Interfaces
<1> HIDE DEF ops
<1>2. StoryFlow(Direct(name, t, 135, "epmapper", ops), e)
      /\ Direct(name, t, 135, "epmapper", ops).id = Id(name, 0)
  BY <1>1, <1>3, DirectIs
<1> QED BY Zenon, <1>2 DEF Epm, ops

LEMMA ServicesAre == Callable("svcctl", CreateStart)
BY DEF Callable, Interfaces, CreateStart

LEMMA DropIs ==
  ASSUME NEW e, NEW name
  PROVE  StoryFlow(Drop(name), e) /\ Drop(name).id = Id(name, 0)
<1> DEFINE g == [share |-> "ADMIN$", write_file |-> "exe", file_bytes |-> 6144]
<1>1. Drop(name) = TcpTo(Id(name, 0), Pair12, 445, 0, "smb", g)
  BY DEF Drop
<1>2. 445 \in Port
  BY PortsAre
<1>3. Streaming("smb", 445, g)
  BY SharesAre DEF Documents
<1> HIDE DEF g
<1> QED BY <1>1, <1>2, <1>3, PairIs

LEMMA Calls ==
  ASSUME NEW e, NEW intensity, Roomy(intensity)
  PROVE  /\ IsNew(build_scheduled_task, e)
         /\ IsNew(build_wmi_exec, e)
         /\ IsNew(build_share_discovery, e)
         /\ IsNew(build_account_discovery, e)
         /\ IsNew(build_remote_registry, e)
<1>1. IsNew(build_scheduled_task, e)
  <2> DEFINE ops == <<1>>
             f == Rpc("atk-atsvc-01", 0, "atsvc", "ITaskSchedulerService", ops)
  <2>1. build_scheduled_task = Single("T1053.005", <<f>>)
    BY DEF build_scheduled_task
  <2>a. Callable("ITaskSchedulerService", ops)
    BY DEF Callable, Interfaces
  <2> HIDE DEF ops
  <2>2. StoryFlow(f, e) /\ f.id = Id("atk-atsvc-01", 0)
    BY <2>a, RpcIs
  <2> HIDE DEF f
  <2>3. "atk-atsvc-01" \notin Loops \cup {"atk-psexec-epm"} /\ "T1053.005" \in TechniqueNames
    BY DEF Loops, TechniqueNames
  <2> QED BY <2>1, <2>2, <2>3, SingleOne
<1>2. IsNew(build_wmi_exec, e)
  <2> DEFINE ops == <<24>>
             f == Rpc("atk-wmi-01", 0, "wmi", "IWbemServices", ops)
  <2>1. build_wmi_exec = Single("T1047", <<f>>)
    BY DEF build_wmi_exec
  <2>a. Callable("IWbemServices", ops)
    BY DEF Callable, Interfaces
  <2> HIDE DEF ops
  <2>2. StoryFlow(f, e) /\ f.id = Id("atk-wmi-01", 0)
    BY <2>a, RpcIs
  <2> HIDE DEF f
  <2>3. "atk-wmi-01" \notin Loops \cup {"atk-psexec-epm"} /\ "T1047" \in TechniqueNames
    BY DEF Loops, TechniqueNames
  <2> QED BY <2>1, <2>2, <2>3, SingleOne
<1>3. IsNew(build_share_discovery, e)
  <2> DEFINE ops == <<15, 16, 16, 16, 16, 16>>
             f == Rpc("atk-srvsvc-01", 0, "srvsvc", "srvsvc", ops)
  <2>1. build_share_discovery = Single("T1135", <<f>>)
    BY DEF build_share_discovery
  <2>a. Callable("srvsvc", ops)
    BY DEF Callable, Interfaces
  <2> HIDE DEF ops
  <2>2. StoryFlow(f, e) /\ f.id = Id("atk-srvsvc-01", 0)
    BY <2>a, RpcIs
  <2> HIDE DEF f
  <2>3. "atk-srvsvc-01" \notin Loops \cup {"atk-psexec-epm"} /\ "T1135" \in TechniqueNames
    BY DEF Loops, TechniqueNames
  <2> QED BY <2>1, <2>2, <2>3, SingleOne
<1>4. IsNew(build_account_discovery, e)
  <2> DEFINE ops == <<0, 5, 6, 7, 8, 13, 11, 15, 17, 1>>
             f == Rpc("atk-samr-01", 0, "samr", "samr", ops)
  <2>1. build_account_discovery = Single("T1087.002", <<f>>)
    BY DEF build_account_discovery
  <2>a. Callable("samr", ops)
    BY DEF Callable, Interfaces
  <2> HIDE DEF ops
  <2>2. StoryFlow(f, e) /\ f.id = Id("atk-samr-01", 0)
    BY <2>a, RpcIs
  <2> HIDE DEF f
  <2>3. "atk-samr-01" \notin Loops \cup {"atk-psexec-epm"} /\ "T1087.002" \in TechniqueNames
    BY DEF Loops, TechniqueNames
  <2> QED BY <2>1, <2>2, <2>3, SingleOne
<1>5. IsNew(build_remote_registry, e)
  <2> DEFINE ops == <<6, 22>>
             f == Rpc("atk-winreg-01", 0, "winreg", "winreg", ops)
  <2>1. build_remote_registry = Single("T1112", <<f>>)
    BY DEF build_remote_registry
  <2>a. Callable("winreg", ops)
    BY DEF Callable, Interfaces
  <2> HIDE DEF ops
  <2>2. StoryFlow(f, e) /\ f.id = Id("atk-winreg-01", 0)
    BY <2>a, RpcIs
  <2> HIDE DEF f
  <2>3. "atk-winreg-01" \notin Loops \cup {"atk-psexec-epm"} /\ "T1112" \in TechniqueNames
    BY DEF Loops, TechniqueNames
  <2> QED BY <2>1, <2>2, <2>3, SingleOne
<1> QED BY <1>1, <1>2, <1>3, <1>4, <1>5

LEMMA AdminShare ==
  ASSUME NEW e, NEW intensity, Roomy(intensity)
  PROVE  IsNew(build_admin_share_transfer, e)
<1> DEFINE f == Drop("atk-admin-01")
<1>1. build_admin_share_transfer = Single("T1021.002/T1570", <<f>>)
  BY DEF build_admin_share_transfer
<1>2. StoryFlow(f, e) /\ f.id = Id("atk-admin-01", 0)
  BY DropIs
<1> HIDE DEF f
<1>3. "atk-admin-01" \notin Loops \cup {"atk-psexec-epm"} /\ "T1021.002/T1570" \in TechniqueNames
  BY DEF Loops, TechniqueNames
<1> QED BY <1>1, <1>2, <1>3, SingleOne

LEMMA RemoteService ==
  ASSUME NEW e, NEW intensity, Roomy(intensity)
  PROVE  IsNew(build_remote_service, e)
<1> DEFINE f == Epm("atk-svcctl-epm", 0)
           g == Rpc("atk-svcctl-01", 200, "svcctl", "svcctl", CreateStart)
<1>1. build_remote_service = Single("T1543.003/T1569.002", <<f, g>>)
  BY DEF build_remote_service
<1>2. /\ StoryFlow(f, e) /\ f.id = Id("atk-svcctl-epm", 0)
      /\ StoryFlow(g, e) /\ g.id = Id("atk-svcctl-01", 0)
  BY EpmIs, RpcIs, ServicesAre
<1> HIDE DEF f, g
<1>3. /\ "atk-svcctl-epm" \notin Loops \cup {"atk-psexec-epm"} /\ "atk-svcctl-epm" # "atk-svcctl-01"
      /\ "atk-svcctl-01" \notin Loops \cup {"atk-psexec-epm"}
      /\ "T1543.003/T1569.002" \in TechniqueNames
  BY DEF Loops, TechniqueNames
<1> QED BY <1>1, <1>2, <1>3, SingleTwo

LEMMA DcSync ==
  ASSUME NEW e, NEW intensity, Roomy(intensity)
  PROVE  IsNew(build_dcsync, e)
<1> DEFINE ops == <<0, 16, 12, 0, 3, 1>>
           f == Epm("atk-dcsync-epm", 0)
           g == Direct("atk-dcsync-drs", 200, 49200, "drsuapi", ops)
<1>1. build_dcsync = Single("T1003.006", <<f, g>>)
  BY DEF build_dcsync
<1>a. Callable("drsuapi", ops)
  BY DEF Callable, Interfaces
<1> HIDE DEF ops
<1>2. /\ StoryFlow(f, e) /\ f.id = Id("atk-dcsync-epm", 0)
      /\ StoryFlow(g, e) /\ g.id = Id("atk-dcsync-drs", 0)
  <2>1. 49200 \in Port
    BY PortsAre
  <2> QED BY <1>a, <2>1, EpmIs, DirectIs
<1> HIDE DEF f, g
<1>3. /\ "atk-dcsync-epm" \notin Loops \cup {"atk-psexec-epm"} /\ "atk-dcsync-epm" # "atk-dcsync-drs"
      /\ "atk-dcsync-drs" \notin Loops \cup {"atk-psexec-epm"} /\ "T1003.006" \in TechniqueNames
  BY DEF Loops, TechniqueNames
<1> QED BY <1>1, <1>2, <1>3, SingleTwo

\* The lookup between the drop and the service has no entry.
LEMMA PsexecLateral ==
  ASSUME NEW e, NEW intensity, Roomy(intensity)
  PROVE  IsNew(build_psexec_lateral, e)
<1> DEFINE f == Drop("atk-psexec-drop")
           g == Epm("atk-psexec-epm", 2800)
           h == Rpc("atk-psexec-svc", 3000, "svcctl", "svcctl", CreateStart)
           s == <<f, g, h>>
           x == Entry("T1021.002/T1570/T1569.002", <<f, h>>)
           key == <<x>>
           none == <<>>
           N == {"atk-psexec-drop", "atk-psexec-epm", "atk-psexec-svc"}
<1>1. build_psexec_lateral = Attack(s, key, none)
  BY DEF build_psexec_lateral
<1>2. /\ StoryFlow(f, e) /\ f.id = Id("atk-psexec-drop", 0)
      /\ StoryFlow(g, e) /\ g.id = Id("atk-psexec-epm", 0)
      /\ StoryFlow(h, e) /\ h.id = Id("atk-psexec-svc", 0)
  BY EpmIs, RpcIs, DropIs, ServicesAre
<1>b. \A z : Known(z, none)
  BY Unknown
<1> HIDE DEF f, g, h, none
<1>3. /\ Len(s) = 3 /\ s[1] = f /\ s[2] = g /\ s[3] = h /\ s = [i \in 1..3 |-> s[i]]
  OBVIOUS
<1>4. \A i \in 1..3 : i = 1 \/ i = 2 \/ i = 3
  OBVIOUS
<1>5. ToSet(x.ids) = {f.id, h.id} /\ x.technique = "T1021.002/T1570/T1569.002"
  <2>1. ToSet(x.ids) = IdsOf(<<f, h>>) /\ x.technique = "T1021.002/T1570/T1569.002"
    BY EntryIs
  <2>2. IdsOf(<<f, h>>) = {f.id, h.id}
    BY DEF IdsOf
  <2> QED BY <2>1, <2>2
<1> HIDE DEF s, x
<1>6. Story(s, e, N)
  BY <1>2, <1>3, <1>4 DEF Story, Id
<1>7. IdsOf(s) = {f.id, g.id, h.id}
  <2>1. DOMAIN s = 1..3
    BY <1>3
  <2> QED BY <1>3, <1>4, <2>1 DEF IdsOf
<1>8. DOMAIN key = {1} /\ key[1] = x
  OBVIOUS
<1> HIDE DEF key
<1>9. Keyed(key, IdsOf(s))
  <2>1. "T1021.002/T1570/T1569.002" \in TechniqueNames
    BY DEF TechniqueNames
  <2>2. g.id = Unnamed /\ f.id # Unnamed /\ h.id # Unnamed
    BY <1>2 DEF Unnamed, Id
  <2> QED BY <1>5, <1>7, <1>8, <2>1, <2>2 DEF Keyed
<1>10. N \cap Loops = {}
  BY DEF Loops
<1>11. FirstStory + Len(s) <= MaxPort + 1
  BY <1>3, RoomIs, PortsAre
<1> HIDE DEF N
<1> QED BY <1>1, <1>b, <1>6, <1>9, <1>10, <1>11, AttackIs

LEMMA K8sLateral ==
  ASSUME NEW e, NEW intensity, Roomy(intensity)
  PROVE  IsNew(build_k8s_lateral(e), e)
<1> DEFINE pod == Far("pod")
           q == Answered(<<10, 7, 3, 7, 5>>)
           at1(i) == (i - 1) * 1000
           s1 == [i \in 1..2 |-> UdpTo(Id("atk-k8s-dns", i - 1), <<pod, e.dns>>, 53, at1(i), "dns", q)]
           api == TcpTo(Id("atk-k8s-api", 0), <<pod, Far("api")>>, 443, 2000, "tls", Modern("api"))
           other(i) == <<"svc-0", "svc-1", "svc-2", "svc-3">>[i - 1 + 1]
           at2(i) == 4000 + (i - 1) * 1500
           s3 == [i \in 1..4 |-> TcpTo(Id("atk-k8s-lat", i - 1), <<pod, Far(other(i))>>, 8443, at2(i),
                                       "tls", Modern(other(i)))]
           s2 == <<api>>
           s == s1 \o s2 \o s3
<1>1. build_k8s_lateral(e) = Single("T1613/T1021", s)
  BY DEF build_k8s_lateral, Series
<1>a. Saying("dns", 53, q)
  BY LabelsAre, AnsweredAsks
<1> HIDE DEF q, other
<1>2. Elsewhere(pod)
  BY Places
<1> HIDE DEF pod
<1>3. ASSUME NEW i \in 1..2
      PROVE  StoryFlow(s1[i], e) /\ s1[i].id = Id("atk-k8s-dns", i - 1)
  <2>1. at1(i) \in Nat /\ 53 \in Port
    BY PortsAre
  <2> HIDE DEF at1
  <2> QED BY <1>a, <1>2, <2>1, UdpIs
<1>4. ASSUME NEW i \in 1..4
      PROVE  StoryFlow(s3[i], e) /\ s3[i].id = Id("atk-k8s-lat", i - 1)
  <2>1. at2(i) \in Nat /\ 8443 \in Port
    BY PortsAre
  <2> DEFINE to == Far(other(i))
             g == Modern(other(i))
  <2>2. Elsewhere(to) /\ Streaming("tls", 8443, g)
    BY Places, ModernIs
  <2> HIDE DEF at2, to, g
  <2>3. /\ StoryFlow(TcpTo(Id("atk-k8s-lat", i - 1), <<pod, to>>, 8443, at2(i), "tls", g), e)
        /\ TcpTo(Id("atk-k8s-lat", i - 1), <<pod, to>>, 8443, at2(i), "tls", g).id
             = Id("atk-k8s-lat", i - 1)
    BY <1>2, <2>1, <2>2, TcpIs
  <2> QED BY <2>3 DEF to, g
<1>5. StoryFlow(api, e) /\ api.id = Id("atk-k8s-api", 0)
  <2> DEFINE k == Modern("api")
  <2>1. 443 \in Port /\ Elsewhere(Far("api")) /\ Streaming("tls", 443, k)
    BY PortsAre, Places, ModernIs
  <2> HIDE DEF k
  <2>2. LET h == TcpTo(Id("atk-k8s-api", 0), <<pod, Far("api")>>, 443, 2000, "tls", k)
        IN  StoryFlow(h, e) /\ h.id = Id("atk-k8s-api", 0)
    BY <1>2, <2>1, TcpIs
  <2> QED BY <2>2 DEF k
<1>6. SeriesOf(s1, 2, "atk-k8s-dns", e) /\ SeriesOf(s3, 4, "atk-k8s-lat", e)
  BY <1>3, <1>4 DEF SeriesOf
<1> HIDE DEF s1, s3, api
<1> DEFINE N1 == {"atk-k8s-dns"}
           N2 == {"atk-k8s-api"}
           N3 == {"atk-k8s-lat"}
<1>7. /\ Story(s1, e, N1) /\ Len(s1) = 2 /\ Story(s3, e, N3) /\ Len(s3) = 4
      /\ Story(s2, e, N2) /\ Len(s2) = 1
  <2>1. Story(s1, e, N1) /\ Len(s1) = 2 /\ Story(s3, e, N3) /\ Len(s3) = 4
    BY <1>6, StorySeries
  <2>2. Story(s2, e, N2) /\ Len(s2) = 1
    BY <1>5, OneIs
  <2> QED BY <2>1, <2>2
<1>8. /\ Apart(N1, N2) /\ Apart(N1 \cup N2, N3)
      /\ (N1 \cup N2 \cup N3) \cap (Loops \cup {"atk-psexec-epm"}) = {}
      /\ "T1613/T1021" \in TechniqueNames
  BY DEF Loops, TechniqueNames, Apart
<1> HIDE DEF N1, N2, N3, s2
<1>9. Story(s1 \o s2, e, N1 \cup N2) /\ Len(s1 \o s2) = 3
  <2>1. Joined(s1, s2, e, N1, N2)
    BY <1>7, <1>8, StoryConcat DEF Joins
  <2> QED BY <1>7, <2>1 DEF Joined
<1>10. Story(s, e, N1 \cup N2 \cup N3) /\ Len(s) = 7
  <2>1. Joined(s1 \o s2, s3, e, N1 \cup N2, N3)
    BY <1>7, <1>8, <1>9, StoryConcat DEF Joins
  <2> QED BY <1>7, <1>9, <2>1 DEF Joined
<1> DEFINE N == N1 \cup N2 \cup N3
<1>11. Story(s, e, N) /\ N \cap (Loops \cup {"atk-psexec-epm"}) = {}
  BY <1>8, <1>10
<1> HIDE DEF s, N
<1>12. FirstStory + Len(s) <= MaxPort + 1 /\ Len(s) >= 1
  BY <1>10, RoomIs, PortsAre
<1> QED BY <1>1, <1>8, <1>11, <1>12, SingleIs

\* An attack of two pieces with an entry each.
LEMMA TwoEntries ==
  ASSUME NEW e, NEW s, NEW u, NEW x, NEW y, Piece(s, e, x), Piece(u, e, y), x # y,
         Len(s) >= 1, Len(u) >= 1, FirstStory + Len(s) + Len(u) <= MaxPort + 1,
         NEW first \in TechniqueNames, NEW second \in TechniqueNames, NEW iocs, Known(s \o u, iocs)
  PROVE  IsNew(Attack(s \o u, <<Entry(first, s), Entry(second, u)>>, iocs), e)
<1> DEFINE w == s \o u
           N == {x, y}
           a == Entry(first, s)
           b == Entry(second, u)
           key == <<a, b>>
<1>1. Story(w, e, N) /\ Len(w) = Len(s) + Len(u) /\ IdsOf(w) = IdsOf(s) \cup IdsOf(u)
  <2>1. Apart({x}, {y}) /\ {x} \cup {y} = N /\ Story(s, e, {x}) /\ Story(u, e, {y})
    BY DEF Piece, Apart
  <2>2. Joined(s, u, e, {x}, {y})
    BY <2>1, StoryConcat DEF Joins
  <2> QED BY <2>1, <2>2 DEF Joined
<1>2. /\ Len(s) \in Nat /\ Len(u) \in Nat /\ Story(s, e, {x}) /\ Story(u, e, {y})
      /\ x # "atk-psexec-epm" /\ y # "atk-psexec-epm"
  BY DEF Story, Piece
<1>3. /\ IdsOf(s) # {} /\ \A z \in IdsOf(s) : z[1] = x
      /\ IdsOf(u) # {} /\ \A z \in IdsOf(u) : z[1] = y
  BY <1>2, StoryIds
<1>4. N \cap Loops = {}
  BY DEF Piece
<1>5. /\ ToSet(a.ids) = IdsOf(s) /\ a.technique = first
      /\ ToSet(b.ids) = IdsOf(u) /\ b.technique = second
  BY EntryIs
<1> HIDE DEF w, N, a, b
<1>6. /\ DOMAIN key = 1..2 /\ key[1] = a /\ key[2] = b /\ \A k \in 1..2 : k = 1 \/ k = 2
  OBVIOUS
<1> HIDE DEF key
<1>7. Keyed(key, IdsOf(w))
  <2>1. Unnamed[1] = "atk-psexec-epm"
    BY DEF Unnamed, Id
  <2>2. IdsOf(s) \cap IdsOf(u) = {} /\ Unnamed \notin IdsOf(w)
    BY <1>1, <1>2, <1>3, <2>1
  <2>3. \A k \in DOMAIN key : /\ ToSet(key[k].ids) # {} /\ ToSet(key[k].ids) \subseteq IdsOf(w)
                              /\ key[k].technique \in TechniqueNames
    BY <1>1, <1>3, <1>5, <1>6
  <2>4. \A k, l \in DOMAIN key : k # l => ToSet(key[k].ids) \cap ToSet(key[l].ids) = {}
    BY <1>5, <1>6, <2>2
  <2>5. \A z \in IdsOf(w) : z = Unnamed <=> \A k \in DOMAIN key : z \notin ToSet(key[k].ids)
    BY <1>1, <1>5, <1>6, <2>2
  <2> QED BY <1>6, <2>3, <2>4, <2>5 DEF Keyed
<1>8. FirstStory + Len(w) <= MaxPort + 1
  BY <1>1, <1>2, PortsAre
<1>9. IsNew(Attack(w, key, iocs), e)
  BY <1>1, <1>4, <1>7, <1>8, AttackIs DEF w
<1> QED BY Zenon, <1>9 DEF w, key, a, b

\* What the ransomware reads.
LEMMA ReadAre ==
  ASSUME NEW i \in Nat, i >= 1
  PROVE  Streaming("smb", 445, [share |-> "Share", read_file |-> Documents8[1 + ((i - 1) % 8)],
                                file_bytes |-> 8000 + (i - 1) * 64])
<1> DEFINE x == Documents8[1 + ((i - 1) % 8)]
           size == 8000 + (i - 1) * 64
           g == [share |-> "Share", read_file |-> x, file_bytes |-> size]
<1>1. x \in Documents
  <2>1. 1 + ((i - 1) % 8) \in 1..8
    OBVIOUS
  <2> DEFINE k == 1 + ((i - 1) % 8)
  <2>2. k = 1 \/ k = 2 \/ k = 3 \/ k = 4 \/ k = 5 \/ k = 6 \/ k = 7 \/ k = 8
    BY <2>1
  <2> HIDE DEF k
  <2>3. Documents8[k] \in Documents
    BY <2>2 DEF Documents8, Documents
  <2> QED BY <2>3 DEF k
<1>2. size \in Nat
  OBVIOUS
<1> HIDE DEF x, size
<1>3. DOMAIN g = {"share", "read_file", "file_bytes"} /\ g.read_file = x /\ g.file_bytes = size
  OBVIOUS
<1> HIDE DEF g
<1>4. Streaming("smb", 445, g)
  BY <1>1, <1>2, <1>3, SharesAre
<1> QED BY <1>4 DEF g, x, size

LEMMA Ransomware ==
  ASSUME NEW e, NEW intensity, Roomy(intensity)
  PROVE  IsNew(build_ransomware(intensity), e)
<1> DEFINE m == Count(20, 80, intensity)
           d == Pace(400, intensity)
           h == [server_name |-> "update", client_profile |-> "curl", app_data_resp_bytes |-> 800]
           f == TcpTo(Id("atk-rw-c2", 0), <<Victim, Far("c2")>>, 443, 0, "tls", h)
           at(i) == 30000 + (i - 1) * d
           g(i) == [share |-> "Share", read_file |-> Documents8[1 + ((i - 1) % 8)],
                    file_bytes |-> 8000 + (i - 1) * 64]
           s == [i \in 1..m |-> TcpTo(Id("atk-rw-smb", i - 1), Pair12, 445, at(i), "smb", g(i))]
           none == <<>>
           v == <<f>>
<1>1. build_ransomware(intensity) = Attack(v \o s, <<Entry("T1071.001", v), Entry("T1486", s)>>, none)
  BY DEF build_ransomware, Series
<1>2. m \in Nat /\ m >= 20 /\ FirstStory + m + 1 <= MaxPort + 1
  BY SizeIs
<1>3. d \in Nat
  BY StepIs DEF Roomy
<1>a. Streaming("tls", 443, h)
  <2>1. DOMAIN h \subseteq DOMAIN TlsL7 /\ "server_name" \in DOMAIN h /\ "version" \notin DOMAIN h
    BY DEF TlsL7
  <2>2. Typed(h)
    BY DEF Typed, Integral, Lists
  <2> HIDE DEF h
  <2> QED BY <2>1, <2>2, TlsFits, Hellos
<1>c. \A i \in 1..m : Streaming("smb", 445, g(i))
  BY <1>2, ReadAre
<1>b. \A z : Known(z, none)
  BY Unknown
<1> HIDE DEF m, d, h, g, none
<1>4. ASSUME NEW i \in 1..m
      PROVE  at(i) \in Nat
  <2>1. (i - 1) * d \in Nat
    BY <1>2, <1>3, TimesIs
  <2> QED BY <2>1
<1> HIDE DEF at
<1>5. ASSUME NEW i \in 1..m
      PROVE  StoryFlow(s[i], e) /\ s[i].id = Id("atk-rw-smb", i - 1)
  <2>1. 445 \in Port
    BY PortsAre
  <2> QED BY <1>4, <1>c, <2>1, PairIs
<1>6. SeriesOf(s, m, "atk-rw-smb", e)
  BY <1>2, <1>5 DEF SeriesOf
<1>7. StoryFlow(f, e) /\ f.id = Id("atk-rw-c2", 0)
  <2>1. 443 \in Port /\ Elsewhere(Far("c2")) /\ Elsewhere(Victim)
    BY PortsAre, Places
  <2> QED BY <1>a, <2>1, TcpIs
<1> HIDE DEF s, f
<1>8. /\ Story(s, e, {"atk-rw-smb"}) /\ Len(s) = m
      /\ Story(v, e, {"atk-rw-c2"}) /\ Len(v) = 1
  BY <1>6, <1>7, StorySeries, OneIs
<1>9. /\ "atk-rw-c2" \notin Loops \cup {"atk-psexec-epm"} /\ "T1071.001" \in TechniqueNames
      /\ "atk-rw-smb" \notin Loops \cup {"atk-psexec-epm"} /\ "T1486" \in TechniqueNames
  BY DEF Loops, TechniqueNames
<1> HIDE DEF v
<1>10. IsNew(Attack(v \o s, <<Entry("T1071.001", v), Entry("T1486", s)>>, none), e)
  <2>1. Piece(v, e, "atk-rw-c2") /\ Piece(s, e, "atk-rw-smb") /\ Len(v) = 1 /\ Len(s) = m
    BY <1>8, <1>9 DEF Piece
  <2>2. /\ FirstStory + Len(v) + Len(s) <= MaxPort + 1 /\ Len(v) >= 1 /\ Len(s) >= 1
        /\ "atk-rw-c2" # "atk-rw-smb"
    BY <1>2, <2>1, PortsAre
  <2> DEFINE first == "T1071.001"
             second == "T1486"
  <2>3. first \in TechniqueNames /\ second \in TechniqueNames
    BY <1>9
  <2> HIDE DEF first, second
  <2>4. IsNew(Attack(v \o s, <<Entry(first, v), Entry(second, s)>>, none), e)
    BY Zenon, <1>b, <2>1, <2>2, <2>3, TwoEntries
  <2> QED BY Zenon, <2>4 DEF first, second
<1> QED BY <1>1, <1>10

\* An attack of five stages with an entry each.
Stage(s, e, N) == Story(s, e, N) /\ Len(s) >= 1 /\ Apart(N, Loops \cup {"atk-psexec-epm"})

LEMMA FiveStages ==
  ASSUME NEW e, NEW s1, NEW s2, NEW s3, NEW s4, NEW s5, NEW N1, NEW N2, NEW N3, NEW N4, NEW N5,
         Stage(s1, e, N1), Stage(s2, e, N2), Stage(s3, e, N3), Stage(s4, e, N4), Stage(s5, e, N5),
         Apart(N1, N2), Apart(N1 \cup N2, N3), Apart(N1 \cup N2 \cup N3, N4),
         Apart(N1 \cup N2 \cup N3 \cup N4, N5),
         FirstStory + Len(s1) + Len(s2) + Len(s3) + Len(s4) + Len(s5) <= MaxPort + 1,
         NEW key, DOMAIN key = 1..5, \A k \in 1..5 : key[k].technique \in TechniqueNames,
         ToSet(key[1].ids) = IdsOf(s1), ToSet(key[2].ids) = IdsOf(s2), ToSet(key[3].ids) = IdsOf(s3),
         ToSet(key[4].ids) = IdsOf(s4), ToSet(key[5].ids) = IdsOf(s5),
         NEW iocs, Known(s1 \o s2 \o s3 \o s4 \o s5, iocs)
  PROVE  IsNew(Attack(s1 \o s2 \o s3 \o s4 \o s5, key, iocs), e)
<1> DEFINE w2 == s1 \o s2
           w3 == w2 \o s3
           w4 == w3 \o s4
           w5 == w4 \o s5
           M2 == N1 \cup N2
           M3 == M2 \cup N3
           M4 == M3 \cup N4
           M5 == M4 \cup N5
<1>1. Joined(s1, s2, e, N1, N2)
  BY StoryConcat DEF Joins, Stage
<1> HIDE DEF w2, w3, w4, w5, M2, M3, M4, M5
<1>2. Joined(w2, s3, e, M2, N3)
  <2>1. Joins(w2, s3, e, M2, N3)
    BY <1>1 DEF Joined, Joins, Stage, w2, M2
  <2> QED BY <2>1, StoryConcat
<1>3. Joined(w3, s4, e, M3, N4)
  <2>1. Joins(w3, s4, e, M3, N4)
    BY <1>2 DEF Joined, Joins, Stage, w3, M3, M2
  <2> QED BY <2>1, StoryConcat
<1>4. Joined(w4, s5, e, M4, N5)
  <2>1. Joins(w4, s5, e, M4, N5)
    BY <1>3 DEF Joined, Joins, Stage, w4, M4, M3, M2
  <2> QED BY <2>1, StoryConcat
<1> USE DEF w2, w3, w4, w5, M2, M3, M4, M5
<1>5. /\ IdsOf(w5) = IdsOf(s1) \cup IdsOf(s2) \cup IdsOf(s3) \cup IdsOf(s4) \cup IdsOf(s5)
      /\ Story(w5, e, M5)
  BY <1>1, <1>2, <1>3, <1>4 DEF Joined
<1>6. /\ Len(s1) \in Nat /\ Len(s2) \in Nat /\ Len(s3) \in Nat /\ Len(s4) \in Nat /\ Len(s5) \in Nat
  BY DEF Story, Stage
<1>7. Len(w5) = Len(s1) + Len(s2) + Len(s3) + Len(s4) + Len(s5)
  <2>1. /\ Len(w2) = Len(s1) + Len(s2) /\ Len(w3) = Len(w2) + Len(s3)
        /\ Len(w4) = Len(w3) + Len(s4) /\ Len(w5) = Len(w4) + Len(s5)
    BY <1>1, <1>2, <1>3, <1>4 DEF Joined
  <2> HIDE DEF w2, w3, w4, w5
  <2> QED BY <1>6, <2>1
<1> HIDE DEF w2, w3, w4, w5, M2, M3, M4, M5
<1>8. FirstStory + Len(w5) <= MaxPort + 1
  BY <1>6, <1>7, PortsAre
<1>9. M5 \cap Loops = {}
  BY DEF Stage, Apart, M5, M4, M3, M2
<1> DEFINE A1 == IdsOf(s1)
           A2 == IdsOf(s2)
           A3 == IdsOf(s3)
           A4 == IdsOf(s4)
           A5 == IdsOf(s5)
<1>10. /\ A1 # {} /\ A2 # {} /\ A3 # {} /\ A4 # {} /\ A5 # {}
       /\ \A x \in A1 : x[1] \in N1
       /\ \A x \in A2 : x[1] \in N2
       /\ \A x \in A3 : x[1] \in N3
       /\ \A x \in A4 : x[1] \in N4
       /\ \A x \in A5 : x[1] \in N5
  BY StoryIds DEF Stage
<1> HIDE DEF A1, A2, A3, A4, A5
<1>11. /\ A1 \cap A2 = {} /\ A1 \cap A3 = {} /\ A1 \cap A4 = {} /\ A1 \cap A5 = {}
       /\ A2 \cap A3 = {} /\ A2 \cap A4 = {} /\ A2 \cap A5 = {}
       /\ A3 \cap A4 = {} /\ A3 \cap A5 = {} /\ A4 \cap A5 = {}
  BY <1>10 DEF Apart
<1>12. Unnamed \notin A1 \cup A2 \cup A3 \cup A4 \cup A5
  <2>1. Unnamed[1] = "atk-psexec-epm"
    BY DEF Unnamed, Id
  <2> QED BY <1>10, <2>1 DEF Stage, Apart
<1>13. /\ ToSet(key[1].ids) = A1 /\ ToSet(key[2].ids) = A2 /\ ToSet(key[3].ids) = A3
       /\ ToSet(key[4].ids) = A4 /\ ToSet(key[5].ids) = A5
       /\ IdsOf(w5) = A1 \cup A2 \cup A3 \cup A4 \cup A5
  BY <1>5 DEF A1, A2, A3, A4, A5
<1>14. \A k \in 1..5 : k = 1 \/ k = 2 \/ k = 3 \/ k = 4 \/ k = 5
  OBVIOUS
<1>15. Keyed(key, IdsOf(w5))
  <2>1. \A k \in DOMAIN key : /\ ToSet(key[k].ids) # {} /\ ToSet(key[k].ids) \subseteq IdsOf(w5)
                              /\ key[k].technique \in TechniqueNames
    BY <1>10, <1>13, <1>14
  <2>2. \A k, l \in DOMAIN key : k # l => ToSet(key[k].ids) \cap ToSet(key[l].ids) = {}
    BY <1>11, <1>13, <1>14
  <2>3. \A z \in IdsOf(w5) : z = Unnamed <=> \A k \in DOMAIN key : z \notin ToSet(key[k].ids)
    BY <1>12, <1>13, <1>14
  <2>4. DOMAIN key \subseteq Nat
    BY <1>14
  <2> QED BY <2>1, <2>2, <2>3, <2>4 DEF Keyed
<1>a. Known(w5, iocs)
  BY DEF w5, w4, w3, w2
<1>16. IsNew(Attack(w5, key, iocs), e)
  BY <1>a, <1>5, <1>8, <1>9, <1>15, AttackIs
<1> QED BY <1>16 DEF w5, w4, w3, w2

LEMMA Intrusion ==
  ASSUME NEW e, NEW intensity, Roomy(intensity), NEW r, r.jitter \in Jitters
  PROVE  IsNew(build_intrusion(e, intensity, r), e)
<1> DEFINE m == Count(3, 6, intensity)
           g1 == [mail_from |-> "hr", rcpt_to |-> <<"victim">>, body_len |-> 600]
           f1 == TcpTo(Id("atk-01-phish", 0), <<Far("exfil"), e.gateway>>, 25, 0, "smtp", g1)
           g2 == Answered(C2Labels)
           f2 == UdpTo(Id("atk-02-c2dns", 0), <<Victim, e.dns>>, 53, 45000, "dns", g2)
           at(i) == 75000 + (i - 1) * 60000 + r.jitter[(i - 1) % 2]
           g3 == Beacon("c2", <<>>)
           s == [i \in 1..m |-> TcpTo(Id("atk-02-beacon", i - 1), <<Victim, Far("c2")>>, 443, at(i),
                                      "tls", g3)]
           g4 == [searches |-> <<"domain", "users">>]
           f4 == TcpTo(Id("atk-03-ldap", 0), <<Victim, e.dns>>, 389, 465000, "ldap", g4)
           g5 == [share |-> "IPC$"]
           f5 == TcpTo(Id("atk-03-smbenum", 0), <<Victim, StoryHost(2)>>, 445, 473000, "smb", g5)
           g6 == [share |-> "ADMIN$"]
           f6 == TcpTo(Id("atk-04-lateral", 0), <<Victim, Peer>>, 445, 585000, "smb", g6)
           g7 == [method |-> "POST", uri |-> None, request_body_len |-> 45000, response_body_len |-> 20]
           f7 == TcpTo(Id("atk-05-exfil", 0), <<Victim, Far("exfil")>>, 80, 675000, "http", g7)
           p1 == <<f1>>
           v == <<f2>>
           p2 == v \o s
           p3 == <<f4, f5>>
           p4 == <<f6>>
           p5 == <<f7>>
           key == <<Entry("T1566.001", p1), Entry("T1071.001/.004", p2), Entry("T1087/T1135", p3),
                    Entry("T1021.002", p4), Entry("T1048", p5)>>
           iocs == [c2_domain |-> "c2"]
<1>1. build_intrusion(e, intensity, r) = Attack(p1 \o p2 \o p3 \o p4 \o p5, key, iocs)
  BY DEF build_intrusion, Series
<1>2. m \in Nat /\ m >= 3 /\ intensity \in Nat /\ m <= 24 + (80 * intensity) \div 100
      /\ FirstStory + m + 6 <= MaxPort + 1
  <2>0. intensity \in Nat
    BY RoomIs
  <2>1. m \in Nat /\ m >= 3
    BY <2>0, CountIs
  <2>2. m <= 19 + (80 * intensity) \div 100
    BY <2>0 DEF Count, AtLeast
  <2> HIDE DEF m
  <2>3. (80 * intensity) \div 100 \in Nat
    BY <2>0
  <2> QED BY <2>0, <2>1, <2>2, <2>3, PortsAre DEF Roomy
<1>a. Saying("dns", 53, g2) /\ Streaming("tls", 443, g3)
  <2> DEFINE no == <<>>
  <2>1. Added(no)
    BY DEF Added
  <2> HIDE DEF no
  <2>2. Streaming("tls", 443, Beacon("c2", no))
    BY <2>1, BeaconIs
  <2> QED BY <2>2, LabelsAre, AnsweredAsks DEF no
<1>g. Streaming("smtp", 25, g1) /\ Streaming("ldap", 389, g4)
  BY LettersAre, SearchesAre
<1>h. Streaming("smb", 445, g5) /\ Streaming("smb", 445, g6)
  BY SharesAre
<1>i. Streaming("http", 80, g7)
  BY PagesAre
<1>b. g3.server_name = "c2" /\ DOMAIN iocs = {"c2_domain"} /\ iocs.c2_domain = "c2"
  <2> DEFINE no == <<>>
  <2>1. Added(no)
    BY DEF Added
  <2> HIDE DEF no
  <2>2. Beacon("c2", no).server_name = "c2"
    BY <2>1, BeaconIs
  <2> QED BY <2>2 DEF no
<1> HIDE DEF m, g1, g2, g3, g4, g5, g6, g7, iocs
<1>3. ASSUME NEW i \in 1..m
      PROVE  at(i) \in Nat
  <2>1. (i - 1) % 2 \in 0..1 /\ (i - 1) * 60000 \in Nat
    BY <1>2
  <2>2. r.jitter[(i - 1) % 2] \in {-4000, 4000}
    BY <2>1 DEF Jitters
  <2> QED BY <2>1, <2>2
<1> HIDE DEF at
<1>4. 25 \in Port /\ 53 \in Port /\ 443 \in Port /\ 389 \in Port /\ 445 \in Port /\ 80 \in Port
  BY PortsAre
<1>5. /\ Elsewhere(Far("exfil")) /\ Elsewhere(Far("c2")) /\ Elsewhere(Victim) /\ Elsewhere(Peer)
      /\ Elsewhere(StoryHost(2))
  BY Places
<1>6. ASSUME NEW i \in 1..m
      PROVE  StoryFlow(s[i], e) /\ s[i].id = Id("atk-02-beacon", i - 1)
  BY <1>a, <1>3, <1>4, <1>5, TcpIs
<1>7. SeriesOf(s, m, "atk-02-beacon", e)
  BY <1>2, <1>6 DEF SeriesOf
<1>8. StoryFlow(f1, e) /\ f1.id = Id("atk-01-phish", 0)
  BY <1>g, <1>4, <1>5, TcpIs
<1>9. StoryFlow(f2, e) /\ f2.id = Id("atk-02-c2dns", 0)
  BY <1>a, <1>4, <1>5, UdpIs
<1>10. StoryFlow(f4, e) /\ f4.id = Id("atk-03-ldap", 0)
  BY <1>g, <1>4, <1>5, TcpIs
<1>11. StoryFlow(f5, e) /\ f5.id = Id("atk-03-smbenum", 0)
  BY <1>h, <1>4, <1>5, TcpIs
<1>12. StoryFlow(f6, e) /\ f6.id = Id("atk-04-lateral", 0)
  BY <1>h, <1>4, <1>5, TcpIs
<1>13. StoryFlow(f7, e) /\ f7.id = Id("atk-05-exfil", 0)
  BY <1>i, <1>4, <1>5, TcpIs
<1>c. /\ \A i \in 1..m : s[i].given = g3
      /\ f1.kind # "tls" /\ f2.kind # "tls" /\ f4.kind # "tls" /\ f5.kind # "tls" /\ f6.kind # "tls"
      /\ f7.kind # "tls"
  BY ToSays
<1> HIDE DEF s, f1, f2, f4, f5, f6, f7
<1> DEFINE N1 == {"atk-01-phish"}
           Nv == {"atk-02-c2dns"}
           Ns == {"atk-02-beacon"}
           N2 == Nv \cup Ns
           N3 == {"atk-03-ldap", "atk-03-smbenum"}
           N4 == {"atk-04-lateral"}
           N5 == {"atk-05-exfil"}
<1>14. /\ Story(p1, e, N1) /\ Len(p1) = 1
       /\ Story(v, e, Nv) /\ Len(v) = 1
       /\ Story(s, e, Ns) /\ Len(s) = m
       /\ Story(p4, e, N4) /\ Len(p4) = 1
       /\ Story(p5, e, N5) /\ Len(p5) = 1
  BY <1>7, <1>8, <1>9, <1>12, <1>13, StorySeries, OneIs
<1>15. Story(p3, e, N3) /\ Len(p3) = 2
  <2>1. "atk-03-ldap" # "atk-03-smbenum"
    OBVIOUS
  <2> QED BY <1>10, <1>11, <2>1, StoryTwo
<1>16. /\ Apart(Nv, Ns) /\ Apart(N1, N2) /\ Apart(N1 \cup N2, N3) /\ Apart(N1 \cup N2 \cup N3, N4)
       /\ Apart(N1 \cup N2 \cup N3 \cup N4, N5)
  BY DEF Apart
<1>17. /\ Apart(N1, Loops \cup {"atk-psexec-epm"}) /\ Apart(N2, Loops \cup {"atk-psexec-epm"})
       /\ Apart(N3, Loops \cup {"atk-psexec-epm"}) /\ Apart(N4, Loops \cup {"atk-psexec-epm"})
       /\ Apart(N5, Loops \cup {"atk-psexec-epm"})
  BY DEF Apart, Loops
<1>d. /\ C2Only(p1) /\ C2Only(v) /\ C2Only(s) /\ C2Only(p4) /\ C2Only(p5)
  BY <1>b, <1>c, <1>14 DEF C2Only
<1>e. C2Only(p3)
  <2>1. p3[1] = f4 /\ p3[2] = f5 /\ \A i \in 1..2 : i = 1 \/ i = 2
    OBVIOUS
  <2> QED BY <1>c, <1>15, <2>1 DEF C2Only
<1> HIDE DEF N1, Nv, Ns, N3, N4, N5, p1, v, p3, p4, p5
<1>18. Story(p2, e, N2) /\ Len(p2) = 1 + m /\ C2Only(p2)
  <2>1. Joined(v, s, e, Nv, Ns)
    BY <1>14, <1>16, StoryConcat DEF Joins
  <2> QED BY <1>d, <1>14, <2>1, C2Concat DEF Joined
<1> HIDE DEF N2, p2
<1>f. Known(p1 \o p2 \o p3 \o p4 \o p5, iocs)
  <2> DEFINE w2 == p1 \o p2
             w3 == w2 \o p3
             w4 == w3 \o p4
             w5 == w4 \o p5
  <2>1. Story(w2, e, N1 \cup N2) /\ C2Only(w2)
    BY <1>d, <1>14, <1>16, <1>18, C2Concat, StoryConcat DEF Joins, Joined
  <2> HIDE DEF w2
  <2>2. Story(w3, e, N1 \cup N2 \cup N3) /\ C2Only(w3)
    BY <1>e, <1>15, <1>16, <2>1, C2Concat, StoryConcat DEF Joins, Joined
  <2> HIDE DEF w3
  <2>3. Story(w4, e, N1 \cup N2 \cup N3 \cup N4) /\ C2Only(w4)
    BY <1>d, <1>14, <1>16, <2>2, C2Concat, StoryConcat DEF Joins, Joined
  <2> HIDE DEF w4
  <2>4. C2Only(w5)
    BY <1>d, <1>14, <2>3, C2Concat
  <2> HIDE DEF w5
  <2>5. Known(w5, iocs)
    BY <1>b, <2>4 DEF Known
  <2> QED BY <2>5 DEF w5, w4, w3, w2
<1>19. /\ Stage(p1, e, N1) /\ Stage(p2, e, N2) /\ Stage(p3, e, N3) /\ Stage(p4, e, N4)
       /\ Stage(p5, e, N5)
  BY <1>2, <1>14, <1>15, <1>17, <1>18 DEF Stage
<1>20. FirstStory + Len(p1) + Len(p2) + Len(p3) + Len(p4) + Len(p5) <= MaxPort + 1
  BY <1>2, <1>14, <1>15, <1>18, PortsAre
<1>21. /\ DOMAIN key = 1..5
       /\ key[1] = Entry("T1566.001", p1) /\ key[2] = Entry("T1071.001/.004", p2)
       /\ key[3] = Entry("T1087/T1135", p3) /\ key[4] = Entry("T1021.002", p4)
       /\ key[5] = Entry("T1048", p5)
  OBVIOUS
<1> HIDE DEF key
<1>22. /\ ToSet(key[1].ids) = IdsOf(p1) /\ ToSet(key[2].ids) = IdsOf(p2)
       /\ ToSet(key[3].ids) = IdsOf(p3) /\ ToSet(key[4].ids) = IdsOf(p4)
       /\ ToSet(key[5].ids) = IdsOf(p5)
       /\ key[1].technique = "T1566.001" /\ key[2].technique = "T1071.001/.004"
       /\ key[3].technique = "T1087/T1135" /\ key[4].technique = "T1021.002"
       /\ key[5].technique = "T1048"
  BY <1>21, EntryIs
<1>23. \A k \in 1..5 : key[k].technique \in TechniqueNames
  <2>1. /\ "T1566.001" \in TechniqueNames /\ "T1071.001/.004" \in TechniqueNames
        /\ "T1087/T1135" \in TechniqueNames /\ "T1021.002" \in TechniqueNames
        /\ "T1048" \in TechniqueNames
    BY DEF TechniqueNames
  <2>2. \A k \in 1..5 : k = 1 \/ k = 2 \/ k = 3 \/ k = 4 \/ k = 5
    OBVIOUS
  <2> QED BY <1>22, <2>1, <2>2
<1> QED BY <1>1, <1>f, <1>16, <1>19, <1>20, <1>21, <1>22, <1>23, FiveStages

\* Whatever is built is an attack.
LEMMA BuiltIs ==
  ASSUME NEW e, NEW intensity, Roomy(intensity), NEW r, r.jitter \in Jitters, NEW name \in ATTACKS
  PROVE  IsNew(Built(name, e, intensity, r), e)
<1>1. CASE name = "phishing-intrusion"
  BY <1>1, Intrusion DEF Built
<1>2. CASE name = "dns-exfil"
  BY <1>2, DnsExfil DEF Built
<1>3. CASE name = "doh-tunnel"
  BY <1>3, Tunnels DEF Built
<1>4. CASE name = "dot-tunnel"
  BY <1>4, Tunnels DEF Built
<1>5. CASE name = "llmnr-poisoning"
  BY <1>5, LlmnrPoisoning DEF Built
<1>6. CASE name = "ipv6-c2"
  BY <1>6, Ipv6C2 DEF Built
<1>7. CASE name = "imds-ssrf"
  BY <1>7, Imds DEF Built
<1>8. CASE name = "cloud-exfil"
  BY <1>8, CloudExfil DEF Built
<1>9. CASE name = "k8s-lateral"
  BY <1>9, K8sLateral DEF Built
<1>10. CASE name = "ddos-syn-flood"
  BY <1>10, SynFlood DEF Built
<1>11. CASE name = "port-scan"
  BY <1>11, PortScan DEF Built
<1>12. CASE name = "brute-force"
  BY <1>12, BruteForce DEF Built
<1>13. CASE name = "ransomware"
  BY <1>13, Ransomware DEF Built
<1>14. CASE name = "kerberoasting"
  BY <1>14, Kerberoasting DEF Built
<1>15. CASE name = "asrep-roasting"
  BY <1>15, AsrepRoasting DEF Built
<1>16. CASE name = "dcsync"
  BY <1>16, DcSync DEF Built
<1>17. CASE name = "rdp-bruteforce"
  BY <1>17, RdpBruteforce DEF Built
<1>18. CASE name = "winrm-lateral"
  BY <1>18, WinrmLateral DEF Built
<1>19. CASE name = "remote-service"
  BY <1>19, RemoteService DEF Built
<1>20. CASE name = "scheduled-task"
  BY <1>20, Calls DEF Built
<1>21. CASE name = "wmi-exec"
  BY <1>21, Calls DEF Built
<1>22. CASE name = "admin-share-transfer"
  BY <1>22, AdminShare DEF Built
<1>23. CASE name = "share-discovery"
  BY <1>23, Calls DEF Built
<1>24. CASE name = "account-discovery"
  BY <1>24, Calls DEF Built
<1>25. CASE name = "remote-registry"
  BY <1>25, Calls DEF Built
<1>26. CASE name = "psexec-lateral"
  BY <1>26, PsexecLateral DEF Built
<1> QED BY <1>1, <1>2, <1>3, <1>4, <1>5, <1>6, <1>7, <1>8, <1>9, <1>10, <1>11, <1>12, <1>13,
           <1>14, <1>15, <1>16, <1>17, <1>18, <1>19, <1>20, <1>21, <1>22, <1>23, <1>24, <1>25,
           <1>26 DEF ATTACKS

-----------------------------------------------------------------------------
(* Evasions. *)

\* What an evasion keeps of a flow.
FlowKept(g, f) ==
  /\ Saying(g.kind, g.dport, g.given)
  /\ DOMAIN g = Fields /\ g.t \in Nat /\ g.dport \in Port
  /\ g.id = f.id /\ g.ends = f.ends /\ g.sport = f.sport
  /\ g.kind = f.kind /\ g.state = f.state /\ g.transport = f.transport /\ g.v6 = f.v6

OrderKept(s, u) == \A i, j \in DOMAIN s : s[i].t < s[j].t => u[i].t < u[j].t

\* What an evasion keeps of an attack.
Kept(b, a) ==
  /\ DOMAIN b = {"flows", "key", "iocs"} /\ b.key = a.key
  /\ DOMAIN b.flows = DOMAIN a.flows /\ b.flows = [i \in DOMAIN a.flows |-> b.flows[i]]
  /\ \A i \in DOMAIN a.flows : FlowKept(b.flows[i], a.flows[i])
  /\ OrderKept(a.flows, b.flows)

LEMMA NotedIs ==
  ASSUME NEW c, NEW x, DOMAIN c = {"flows", "key", "iocs"}
  PROVE  /\ Noted(c, x).flows = c.flows /\ Noted(c, x).key = c.key
         /\ Noted(c, x).iocs = Filled(x, c.iocs)
         /\ DOMAIN Noted(c, x) = {"flows", "key", "iocs"}
<1> DEFINE y == Filled(x, c.iocs)
<1>1. Noted(c, x) = [c EXCEPT !.iocs = y]
  BY Zenon DEF Noted
<1> HIDE DEF y
<1>2. /\ [c EXCEPT !.iocs = y].flows = c.flows /\ [c EXCEPT !.iocs = y].key = c.key
      /\ [c EXCEPT !.iocs = y].iocs = y
      /\ DOMAIN [c EXCEPT !.iocs = y] = {"flows", "key", "iocs"}
  OBVIOUS
<1>3. /\ Noted(c, x).flows = c.flows /\ Noted(c, x).key = c.key /\ Noted(c, x).iocs = y
      /\ DOMAIN Noted(c, x) = {"flows", "key", "iocs"}
  BY Zenon, <1>1, <1>2
<1> QED BY <1>3 DEF y

\* The first label is cut to at most 15 characters, and none is lost.
LEMMA ChunkedIs ==
  ASSUME NEW q, Labels(q)
  PROVE  Labels(Chunked(q)) /\ Chunked(q)[1] <= 15
<1> DEFINE h == q[1]
           m == (h + 14) \div 15
           c == [i \in 1..m |-> IF i * 15 <= h THEN 15 ELSE h % 15]
           u == Tail(q)
<1>1. q \in Seq(Nat) /\ Len(q) \in Nat /\ Len(q) >= 1 /\ h \in Nat /\ h >= 1 /\ Head(q) = h
  BY DEF Labels
<1>2. u \in Seq(Nat)
  BY <1>1
<1>3. m \in Nat /\ m >= 1
  BY <1>1
<1>4. Chunked(q) = c \o u
  BY <1>1 DEF Chunked
<1>5. h % 15 \in Nat /\ (h < 15 => h % 15 = h)
  BY <1>1
<1> HIDE DEF h, u
<1>6. c \in [1..m -> Nat] /\ c[1] \in Nat /\ c[1] >= 1 /\ c[1] <= 15
  BY <1>1, <1>3, <1>5
<1> HIDE DEF c
<1>7. c \in Seq(Nat) /\ Len(c) = m
  BY <1>3, <1>6
<1> HIDE DEF m
<1>8. c \o u \in Seq(Nat) /\ Len(c \o u) = Len(c) + Len(u) /\ Len(u) \in Nat
  BY <1>2, <1>7
<1>9. (c \o u)[1] = c[1]
  BY <1>2, <1>3, <1>7
<1> QED BY <1>3, <1>4, <1>6, <1>7, <1>8, <1>9 DEF Labels

\* What an evasion changes is of no consequence for the reading back.
LEMMA OtherFits ==
  ASSUME NEW kind \in {"tls", "dns"}, NEW dport, NEW given, Fits(kind, dport, given),
         NEW y \in {"server_name", "client_profile", "qname"}, NEW v, NEW port
  PROVE  Fits(kind, port, [given EXCEPT ![y] = v])
<1> DEFINE g == [given EXCEPT ![y] = v]
           d == L7Spec[kind]
<1>1. DOMAIN g = DOMAIN given /\ \A x \in DOMAIN given : x # y => g[x] = given[x]
  OBVIOUS
<1> HIDE DEF g, d
<1>2. y \notin Integral /\ y \notin Lists /\ y # "response_body_b64"
  BY DEF Integral, Lists
<1>3. Typed(given) /\ DOMAIN given \subseteq DOMAIN d
      /\ (\A x \in DOMAIN d : d[x] = Required => x \in DOMAIN given)
      /\ kind \in DOMAIN L7Spec
  BY DEF Fits, d
<1>4. Typed(g)
  BY <1>1, <1>2, <1>3 DEF Typed
<1>5. \A x : x \in DOMAIN d /\ x # y => Filled(g, d)[x] = Filled(given, d)[x]
  BY <1>1 DEF Filled
<1>6. CASE kind = "tls"
  <2>1. DOMAIN Literals["tls"] = {"version"} /\ "tls" \in DOMAIN Literals
    BY DEF Literals
  <2>2. Filled(given, d)["version"] \in Literals["tls"]["version"]
    BY <1>6, <2>1 DEF Fits, d
  <2>3. "version" \in DOMAIN d
    BY <1>6 DEF d, L7Spec, TlsL7
  <2>4. Filled(g, d)["version"] \in Literals["tls"]["version"]
    BY <1>5, <2>2, <2>3
  <2> QED BY <1>1, <1>3, <1>4, <1>6, <2>1, <2>4 DEF Fits, d, g
<1>7. CASE kind = "dns"
  <2>1. kind \notin DOMAIN Literals /\ {"respond", "rcode"} \subseteq DOMAIN d
    BY <1>7 DEF Literals, d, L7Spec, DnsL7
  <2>2. Filled(given, d)["respond"] /\ Filled(given, d)["rcode"] \in Rcodes
    BY <1>7 DEF Fits, d
  <2>3. Filled(g, d)["respond"] /\ Filled(g, d)["rcode"] \in Rcodes
    BY <1>5, <2>1, <2>2
  <2> QED BY <1>1, <1>3, <1>4, <1>7, <2>1, <2>3 DEF Fits, d, g
<1> QED BY <1>6, <1>7

LEMMA FlowFields ==
  ASSUME NEW f, NEW e, StoryFlow(f, e)
  PROVE  /\ FlowKept(f, f)
         /\ \A x : Saying(f.kind, f.dport, x) => /\ FlowKept([f EXCEPT !.given = x], f)
                                                /\ [f EXCEPT !.given = x].t = f.t
                                                /\ [f EXCEPT !.given = x].dport = f.dport
                                                /\ [f EXCEPT !.given = x].given = x
         /\ f.kind = "tls" => \A x \in Port : /\ FlowKept([f EXCEPT !.dport = x], f)
                                              /\ [f EXCEPT !.dport = x].t = f.t
                                              /\ [f EXCEPT !.dport = x].dport = x
                                              /\ [f EXCEPT !.dport = x].given = f.given
         /\ \A x \in Nat : /\ FlowKept([f EXCEPT !.t = x], f) /\ [f EXCEPT !.t = x].t = x
                           /\ [f EXCEPT !.t = x].dport = f.dport
                           /\ [f EXCEPT !.t = x].given = f.given
<1>1. FlowKept(f, f)
  BY DEF StoryFlow, FlowKept
<1>2. ASSUME NEW x, Saying(f.kind, f.dport, x)
      PROVE  LET g == [f EXCEPT !.given = x]
             IN  FlowKept(g, f) /\ g.t = f.t /\ g.dport = f.dport /\ g.given = x
  BY <1>2 DEF StoryFlow, FlowKept, Fields
<1>3. ASSUME NEW x \in Port, f.kind = "tls"
      PROVE  LET g == [f EXCEPT !.dport = x]
             IN  FlowKept(g, f) /\ g.t = f.t /\ g.dport = x /\ g.given = f.given
  <2>1. Fits("tls", 443, f.given) /\ "server_name" \in DOMAIN f.given
    BY <1>3 DEF StoryFlow, Saying, Fits
  <2>2. Saying("tls", x, f.given)
    BY <2>1, Hellos DEF Streaming
  <2> QED BY <1>3, <2>2 DEF StoryFlow, FlowKept, Fields
<1>4. ASSUME NEW x \in Nat
      PROVE  LET g == [f EXCEPT !.t = x]
             IN  FlowKept(g, f) /\ g.t = x /\ g.dport = f.dport /\ g.given = f.given
  BY <1>4 DEF StoryFlow, FlowKept, Fields
<1> QED BY <1>1, <1>2, <1>3, <1>4

\* The flows of an attack.
StoryFlows(a, e) == /\ DOMAIN a = {"flows", "key", "iocs"}
                    /\ a.flows = [i \in DOMAIN a.flows |-> a.flows[i]]
                    /\ \A i \in DOMAIN a.flows : StoryFlow(a.flows[i], e)

\* An attack with other flows and a note in its indicators.
Became(b, a, flows, x) ==
  /\ DOMAIN b = {"flows", "key", "iocs"}
  /\ b.key = a.key /\ b.flows = flows /\ b.iocs = Filled(x, a.iocs)

\* Flows of which an evasion changed some.
Alike(u, s) ==
  /\ u = [i \in DOMAIN s |-> u[i]]
  /\ \A i \in DOMAIN s : FlowKept(u[i], s[i])

LEMMA ItselfKept ==
  ASSUME NEW a, NEW e, StoryFlows(a, e)
  PROVE  Kept(a, a)
<1>1. \A i \in DOMAIN a.flows : FlowKept(a.flows[i], a.flows[i])
  BY FlowFields DEF StoryFlows
<1> QED BY <1>1 DEF StoryFlows, Kept, OrderKept

LEMMA KeptIs ==
  ASSUME NEW a, NEW b, NEW u, NEW x, Became(b, a, u, x), Alike(u, a.flows), OrderKept(a.flows, u)
  PROVE  Kept(b, a)
BY DEF Became, Alike, Kept

\* The flows after each evasion.
Fronted(a) ==
  [i \in DOMAIN a.flows |->
     IF i \in C2Flows(a)
     THEN [a.flows[i] EXCEPT !.given = [a.flows[i].given EXCEPT !.server_name = "front"]]
     ELSE a.flows[i]]
Disguised(a, r) ==
  [i \in DOMAIN a.flows |->
     IF i \in C2Flows(a)
     THEN [a.flows[i] EXCEPT
             !.given = [a.flows[i].given EXCEPT !.client_profile = r.profile[i % 2]]]
     ELSE a.flows[i]]
Hopped(a, r) ==
  [i \in DOMAIN a.flows |->
     IF i \in C2Flows(a) THEN [a.flows[i] EXCEPT !.dport = r.hop] ELSE a.flows[i]]
Asked53(a) == {i \in DOMAIN a.flows : a.flows[i].kind = "dns" /\ a.flows[i].dport = 53}
Deepened(a) ==
  [i \in DOMAIN a.flows |->
     IF i \in Asked53(a)
     THEN [a.flows[i] EXCEPT
             !.given = [a.flows[i].given EXCEPT !.qname = Chunked(a.flows[i].given.qname)]]
     ELSE a.flows[i]]
Later(a, i) == Earliest(a.flows) + (a.flows[i].t - Earliest(a.flows)) * 12
Slowed(a) == [i \in DOMAIN a.flows |-> [a.flows[i] EXCEPT !.t = Later(a, i)]]

LEMMA FrontingIs ==
  ASSUME NEW a, NEW e, StoryFlows(a, e)
  PROVE  IF C2Flows(a) = {} THEN DomainFronting(a) = a
         ELSE Became(DomainFronting(a), a, Fronted(a),
                     [fronted_flows |-> Cardinality(C2Flows(a)), note_domain_fronting |-> TRUE])
<1> DEFINE C == C2Flows(a)
           b == Change(a, C, LAMBDA i, f : [f EXCEPT !.given.server_name = "front"])
           x == [fronted_flows |-> Cardinality(C), note_domain_fronting |-> TRUE]
<1>1. DomainFronting(a) = IF C = {} THEN a ELSE Noted(b, x)
  BY Zenon DEF DomainFronting
<1> HIDE DEF C, x
<1>2. /\ b.key = a.key /\ DOMAIN b = {"flows", "key", "iocs"} /\ b.iocs = a.iocs
      /\ b.flows = [i \in DOMAIN a.flows |->
           IF i \in C THEN [a.flows[i] EXCEPT !.given = [a.flows[i].given EXCEPT !.server_name = "front"]]
           ELSE a.flows[i]]
  BY DEF Change, StoryFlows
<1> HIDE DEF b
<1>3. b.flows = Fronted(a)
  BY Zenon, <1>2 DEF Fronted, C
<1>4. Became(Noted(b, x), a, Fronted(a), x)
  BY <1>2, <1>3, NotedIs DEF Became
<1> QED BY <1>1, <1>4 DEF C, x

LEMMA Ja3Is ==
  ASSUME NEW a, NEW e, StoryFlows(a, e), NEW r
  PROVE  Became(Ja3Randomization(a, r), a, Disguised(a, r), [note_ja3_randomization |-> TRUE])
<1> DEFINE C == C2Flows(a)
           b == Change(a, C, LAMBDA i, f : [f EXCEPT !.given.client_profile = r.profile[i % 2]])
           x == [note_ja3_randomization |-> TRUE]
<1>1. Ja3Randomization(a, r) = Noted(b, x)
  BY Zenon DEF Ja3Randomization
<1> HIDE DEF C, x
<1>2. /\ b.key = a.key /\ DOMAIN b = {"flows", "key", "iocs"} /\ b.iocs = a.iocs
      /\ b.flows = [i \in DOMAIN a.flows |->
           IF i \in C THEN [a.flows[i] EXCEPT
                              !.given = [a.flows[i].given EXCEPT !.client_profile = r.profile[i % 2]]]
           ELSE a.flows[i]]
  BY DEF Change, StoryFlows
<1> HIDE DEF b
<1>3. b.flows = Disguised(a, r)
  BY Zenon, <1>2 DEF Disguised, C
<1>4. Became(Noted(b, x), a, Disguised(a, r), x)
  BY <1>2, <1>3, NotedIs DEF Became
<1> QED BY <1>1, <1>4 DEF x

LEMMA HoppingIs ==
  ASSUME NEW a, NEW e, StoryFlows(a, e), NEW r
  PROVE  Became(PortHopping(a, r), a, Hopped(a, r), [note_port_hopping |-> r.hop])
<1> DEFINE C == C2Flows(a)
           b == Change(a, C, LAMBDA i, f : [f EXCEPT !.dport = r.hop])
           x == [note_port_hopping |-> r.hop]
<1>1. PortHopping(a, r) = Noted(b, x)
  BY Zenon DEF PortHopping
<1> HIDE DEF C, x
<1>2. /\ b.key = a.key /\ DOMAIN b = {"flows", "key", "iocs"} /\ b.iocs = a.iocs
      /\ b.flows = [i \in DOMAIN a.flows |->
           IF i \in C THEN [a.flows[i] EXCEPT !.dport = r.hop] ELSE a.flows[i]]
  BY DEF Change, StoryFlows
<1> HIDE DEF b
<1>3. b.flows = Hopped(a, r)
  BY Zenon, <1>2 DEF Hopped, C
<1>4. Became(Noted(b, x), a, Hopped(a, r), x)
  BY <1>2, <1>3, NotedIs DEF Became
<1> QED BY <1>1, <1>4 DEF x

LEMMA DepthIs ==
  ASSUME NEW a, NEW e, StoryFlows(a, e)
  PROVE  IF Asked53(a) = {} THEN DnsDepth(a) = a
         ELSE Became(DnsDepth(a), a, Deepened(a), [note_dns_depth |-> TRUE])
<1> DEFINE C == Asked53(a)
           b == Change(a, C, LAMBDA i, f : [f EXCEPT !.given.qname = Chunked(@)])
           x == [note_dns_depth |-> TRUE]
<1>1. DnsDepth(a) = IF C = {} THEN a ELSE Noted(b, x)
  BY Zenon DEF DnsDepth, Asked53
<1> HIDE DEF C, x
<1>2. /\ b.key = a.key /\ DOMAIN b = {"flows", "key", "iocs"} /\ b.iocs = a.iocs
      /\ b.flows = [i \in DOMAIN a.flows |->
           IF i \in C THEN [a.flows[i] EXCEPT
                              !.given = [a.flows[i].given EXCEPT
                                           !.qname = Chunked(a.flows[i].given.qname)]]
           ELSE a.flows[i]]
  BY DEF Change, StoryFlows
<1> HIDE DEF b
<1>3. b.flows = Deepened(a)
  BY Zenon, <1>2 DEF Deepened, C
<1>4. Became(Noted(b, x), a, Deepened(a), x)
  BY <1>2, <1>3, NotedIs DEF Became
<1> QED BY <1>1, <1>4 DEF C, x

LEMMA SlowIs ==
  ASSUME NEW a, NEW e, StoryFlows(a, e)
  PROVE  Became(SlowAndLow(a), a, Slowed(a), [note_slow_and_low |-> 12])
<1> DEFINE t0 == Earliest(a.flows)
           C == DOMAIN a.flows
           b == Change(a, C, LAMBDA i, f : [f EXCEPT !.t = t0 + (f.t - t0) * 12])
           x == [note_slow_and_low |-> 12]
<1>1. SlowAndLow(a) = Noted(b, x)
  BY Zenon DEF SlowAndLow
<1> HIDE DEF x
<1>2. /\ b.key = a.key /\ DOMAIN b = {"flows", "key", "iocs"} /\ b.iocs = a.iocs
      /\ b.flows = [i \in C |-> IF i \in C THEN [a.flows[i] EXCEPT !.t = Later(a, i)] ELSE a.flows[i]]
  BY DEF Change, StoryFlows, Later
<1> HIDE DEF b
<1>3. b.flows = Slowed(a)
  BY <1>2 DEF Slowed
<1>4. Became(Noted(b, x), a, Slowed(a), x)
  BY <1>2, <1>3, NotedIs DEF Became
<1> QED BY <1>1, <1>4 DEF x

\* What an evasion does not touch, and what the notes speak of, flow by flow.
LEMMA FrontedFlows ==
  ASSUME NEW a, NEW e, StoryFlows(a, e)
  PROVE  /\ Alike(Fronted(a), a.flows)
         /\ \A i \in DOMAIN a.flows :
              /\ Fronted(a)[i].t = a.flows[i].t /\ Fronted(a)[i].dport = a.flows[i].dport
              /\ i \in C2Flows(a) => Fronted(a)[i].given.server_name = "front"
              /\ i \notin C2Flows(a) => Fronted(a)[i].given = a.flows[i].given
<1> DEFINE u == Fronted(a)
<1>1. u = [i \in DOMAIN a.flows |-> u[i]]
  BY DEF Fronted
<1>2. ASSUME NEW i \in DOMAIN a.flows
      PROVE  /\ FlowKept(u[i], a.flows[i])
             /\ u[i].t = a.flows[i].t /\ u[i].dport = a.flows[i].dport
             /\ i \in C2Flows(a) => u[i].given.server_name = "front"
             /\ i \notin C2Flows(a) => u[i].given = a.flows[i].given
  <2> DEFINE f == a.flows[i]
             x == [f.given EXCEPT !.server_name = "front"]
  <2>1. StoryFlow(f, e)
    BY DEF StoryFlows
  <2>2. CASE i \in C2Flows(a)
    <3>1. f.kind = "tls" /\ u[i] = [f EXCEPT !.given = x]
      BY <2>2 DEF Fronted, C2Flows
    <3>2. "server_name" \in DOMAIN f.given /\ Fits("tls", f.dport, f.given)
      BY <2>1, <3>1 DEF StoryFlow, Saying
    <3> HIDE DEF f, u
    <3>3. "server_name" \in DOMAIN x /\ x.server_name = "front"
      BY <3>2
    <3>5. Fits("tls", 443, x)
      BY <3>2, OtherFits
    <3> HIDE DEF x
    <3>4. Saying(f.kind, f.dport, x)
      BY <3>1, <3>3, <3>5, Hellos DEF Streaming
    <3> QED BY <2>1, <2>2, <3>1, <3>3, <3>4, FlowFields DEF f
  <2>3. CASE i \notin C2Flows(a)
    <3>1. u[i] = f
      BY <2>3 DEF Fronted
    <3> QED BY <2>1, <2>3, <3>1, FlowFields
  <2> QED BY <2>2, <2>3
<1> QED BY <1>1, <1>2 DEF Alike

LEMMA DisguisedFlows ==
  ASSUME NEW a, NEW e, StoryFlows(a, e), NEW r
  PROVE  /\ Alike(Disguised(a, r), a.flows)
         /\ \A i \in DOMAIN a.flows :
              /\ Disguised(a, r)[i].t = a.flows[i].t /\ Disguised(a, r)[i].dport = a.flows[i].dport
              /\ a.flows[i].kind = "tls" =>
                   Disguised(a, r)[i].given.server_name = a.flows[i].given.server_name
              /\ a.flows[i].kind # "tls" => Disguised(a, r)[i].given = a.flows[i].given
<1> DEFINE u == Disguised(a, r)
<1>1. u = [i \in DOMAIN a.flows |-> u[i]]
  BY DEF Disguised
<1>2. ASSUME NEW i \in DOMAIN a.flows
      PROVE  /\ FlowKept(u[i], a.flows[i])
             /\ u[i].t = a.flows[i].t /\ u[i].dport = a.flows[i].dport
             /\ a.flows[i].kind = "tls" => u[i].given.server_name = a.flows[i].given.server_name
             /\ a.flows[i].kind # "tls" => u[i].given = a.flows[i].given
  <2> DEFINE f == a.flows[i]
             x == [f.given EXCEPT !.client_profile = r.profile[i % 2]]
  <2>1. StoryFlow(f, e)
    BY DEF StoryFlows
  <2>2. CASE i \in C2Flows(a)
    <3>1. f.kind = "tls" /\ u[i] = [f EXCEPT !.given = x]
      BY <2>2 DEF Disguised, C2Flows
    <3>2. "server_name" \in DOMAIN f.given /\ Fits("tls", f.dport, f.given)
      BY <2>1, <3>1 DEF StoryFlow, Saying
    <3> HIDE DEF f, u
    <3>3. "server_name" \in DOMAIN x /\ x.server_name = f.given.server_name
      BY <3>2
    <3>5. Fits("tls", 443, x)
      BY <3>2, OtherFits
    <3> HIDE DEF x
    <3>4. Saying(f.kind, f.dport, x)
      BY <3>1, <3>3, <3>5, Hellos DEF Streaming
    <3> QED BY <2>1, <3>1, <3>3, <3>4, FlowFields DEF f
  <2>3. CASE i \notin C2Flows(a)
    <3>1. u[i] = f
      BY <2>3 DEF Disguised
    <3> QED BY <2>1, <3>1, FlowFields
  <2> QED BY <2>2, <2>3
<1> QED BY <1>1, <1>2 DEF Alike

LEMMA HoppedFlows ==
  ASSUME NEW a, NEW e, StoryFlows(a, e), NEW r, r.hop \in Port
  PROVE  /\ Alike(Hopped(a, r), a.flows)
         /\ \A i \in DOMAIN a.flows :
              /\ Hopped(a, r)[i].t = a.flows[i].t /\ Hopped(a, r)[i].given = a.flows[i].given
              /\ i \in C2Flows(a) => Hopped(a, r)[i].dport = r.hop
<1> DEFINE u == Hopped(a, r)
<1>1. u = [i \in DOMAIN a.flows |-> u[i]]
  BY DEF Hopped
<1>2. ASSUME NEW i \in DOMAIN a.flows
      PROVE  /\ FlowKept(u[i], a.flows[i])
             /\ u[i].t = a.flows[i].t /\ u[i].given = a.flows[i].given
             /\ i \in C2Flows(a) => u[i].dport = r.hop
  <2> DEFINE f == a.flows[i]
  <2>1. StoryFlow(f, e)
    BY DEF StoryFlows
  <2>2. CASE i \in C2Flows(a)
    <3>1. f.kind = "tls" /\ u[i] = [f EXCEPT !.dport = r.hop]
      BY <2>2 DEF Hopped, C2Flows
    <3> QED BY <2>1, <3>1, FlowFields
  <2>3. CASE i \notin C2Flows(a)
    <3>1. u[i] = f
      BY <2>3 DEF Hopped
    <3> QED BY <2>1, <2>3, <3>1, FlowFields
  <2> QED BY <2>2, <2>3
<1> QED BY <1>1, <1>2 DEF Alike

LEMMA DeepenedFlows ==
  ASSUME NEW a, NEW e, StoryFlows(a, e)
  PROVE  /\ Alike(Deepened(a), a.flows)
         /\ \A i \in DOMAIN a.flows :
              /\ Deepened(a)[i].t = a.flows[i].t /\ Deepened(a)[i].dport = a.flows[i].dport
              /\ a.flows[i].kind = "dns" => Deepened(a)[i].given.qname[1] <= 15
              /\ a.flows[i].kind # "dns" => Deepened(a)[i].given = a.flows[i].given
<1> DEFINE u == Deepened(a)
<1>1. u = [i \in DOMAIN a.flows |-> u[i]]
  BY DEF Deepened
<1>2. ASSUME NEW i \in DOMAIN a.flows
      PROVE  /\ FlowKept(u[i], a.flows[i])
             /\ u[i].t = a.flows[i].t /\ u[i].dport = a.flows[i].dport
             /\ a.flows[i].kind = "dns" => u[i].given.qname[1] <= 15
             /\ a.flows[i].kind # "dns" => u[i].given = a.flows[i].given
  <2> DEFINE f == a.flows[i]
             q == Chunked(f.given.qname)
             x == [f.given EXCEPT !.qname = q]
  <2>1. StoryFlow(f, e)
    BY DEF StoryFlows
  <2>2. CASE f.kind = "dns"
    <3>1. f.dport = 53 /\ "qname" \in DOMAIN f.given /\ Labels(f.given.qname)
          /\ Fits("dns", f.dport, f.given)
      BY <2>1, <2>2 DEF StoryFlow, Saying
    <3>2. u[i] = [f EXCEPT !.given = x]
      BY <2>2, <3>1 DEF Deepened, Asked53
    <3>3. Labels(q) /\ q[1] <= 15
      BY <3>1, ChunkedIs
    <3> HIDE DEF f, u, q
    <3>4. "qname" \in DOMAIN x /\ x.qname = q
      BY <3>1
    <3>6. Fits("dns", 53, x)
      BY <3>1, OtherFits
    <3> HIDE DEF x
    <3>5. Saying(f.kind, f.dport, x)
      BY <2>2, <3>1, <3>3, <3>4, <3>6 DEF Saying, Spoken
    <3> QED BY <2>1, <2>2, <3>2, <3>3, <3>4, <3>5, FlowFields DEF f
  <2>3. CASE f.kind # "dns"
    <3>1. u[i] = f
      BY <2>3 DEF Deepened, Asked53
    <3> QED BY <2>1, <2>3, <3>1, FlowFields
  <2> QED BY <2>2, <2>3
<1> QED BY <1>1, <1>2 DEF Alike

LEMMA MinIs ==
  ASSUME NEW T \in SUBSET Nat, T # {}
  PROVE  Min(T) \in T /\ \A y \in T : Min(T) <= y
<1>1. \E x \in T : \A y \in T : x <= y
  BY LeastNat
<1> QED BY <1>1 DEF Min

LEMMA SlowerIs ==
  ASSUME NEW x \in Nat, NEW y \in Nat, NEW t \in Nat, t <= x, t <= y
  PROVE  /\ t + (x - t) * 12 \in Nat
         /\ x < y => t + (x - t) * 12 < t + (y - t) * 12
         /\ (t + (x - t) * 12) - (t + (y - t) * 12) = 12 * (x - y)
OBVIOUS

LEMMA SlowedFlows ==
  ASSUME NEW a, NEW e, StoryFlows(a, e)
  PROVE  /\ Alike(Slowed(a), a.flows) /\ OrderKept(a.flows, Slowed(a))
         /\ \A i \in DOMAIN a.flows :
              /\ Slowed(a)[i].dport = a.flows[i].dport /\ Slowed(a)[i].given = a.flows[i].given
         /\ \A i, j \in DOMAIN a.flows :
              Slowed(a)[i].t - Slowed(a)[j].t = 12 * (a.flows[i].t - a.flows[j].t)
<1> DEFINE t0 == Earliest(a.flows)
           C == DOMAIN a.flows
           u == Slowed(a)
           g(i) == t0 + (a.flows[i].t - t0) * 12
<1> HIDE DEF t0
<1>1. \A i \in C : a.flows[i].t \in Nat
  BY DEF StoryFlows, StoryFlow
<1>2. \A i \in C : t0 \in Nat /\ t0 <= a.flows[i].t
  <2> TAKE i \in C
  <2> DEFINE T == {a.flows[j].t : j \in C}
  <2>1. T \in SUBSET Nat /\ T # {} /\ a.flows[i].t \in T
    BY <1>1
  <2>2. t0 = Min(T)
    BY DEF t0, Earliest
  <2> HIDE DEF T
  <2> QED BY <2>1, <2>2, MinIs
<1>3. \A i, j \in C : /\ g(i) \in Nat /\ (a.flows[i].t < a.flows[j].t => g(i) < g(j))
                      /\ g(i) - g(j) = 12 * (a.flows[i].t - a.flows[j].t)
  BY <1>1, <1>2, SlowerIs
<1>4. \A i \in C : u[i] = [a.flows[i] EXCEPT !.t = g(i)]
  BY DEF Slowed, Later, t0
<1>5. u = [i \in C |-> u[i]]
  BY DEF Slowed
<1> HIDE DEF g, u
<1>6. \A i \in C : /\ FlowKept(u[i], a.flows[i]) /\ u[i].t = g(i)
                   /\ u[i].dport = a.flows[i].dport /\ u[i].given = a.flows[i].given
  <2> TAKE i \in C
  <2> DEFINE f == a.flows[i]
             x == g(i)
  <2>1. StoryFlow(f, e) /\ x \in Nat
    BY <1>3 DEF StoryFlows
  <2>2. u[i] = [f EXCEPT !.t = x]
    BY <1>4
  <2> HIDE DEF f, x
  <2>3. /\ FlowKept([f EXCEPT !.t = x], f) /\ [f EXCEPT !.t = x].t = x
        /\ [f EXCEPT !.t = x].dport = f.dport /\ [f EXCEPT !.t = x].given = f.given
    BY <2>1, FlowFields
  <2>4. FlowKept(u[i], f) /\ u[i].t = x /\ u[i].dport = f.dport /\ u[i].given = f.given
    BY <2>2, <2>3
  <2> QED BY <2>4 DEF f, x
<1>7. Alike(u, a.flows) /\ OrderKept(a.flows, u)
  BY <1>3, <1>5, <1>6 DEF Alike, OrderKept
<1>8. \A i, j \in C : u[i].t - u[j].t = 12 * (a.flows[i].t - a.flows[j].t)
  BY <1>3, <1>6
<1> QED BY <1>6, <1>7, <1>8 DEF u

LEMMA EvadedIs ==
  ASSUME NEW a, NEW e, StoryFlows(a, e), NEW ev \in EVASIONS, NEW r, r.hop \in Port
  PROVE  Kept(Evaded(a, ev, r), a)
<1>1. CASE ev = "domain-fronting"
  <2>1. OrderKept(a.flows, Fronted(a)) /\ Alike(Fronted(a), a.flows)
    BY FrontedFlows DEF OrderKept
  <2> QED BY <1>1, <2>1, FrontingIs, KeptIs, ItselfKept DEF Evaded
<1>2. CASE ev = "ja3-randomization"
  <2>1. OrderKept(a.flows, Disguised(a, r)) /\ Alike(Disguised(a, r), a.flows)
    BY DisguisedFlows DEF OrderKept
  <2> QED BY <1>2, <2>1, Ja3Is, KeptIs DEF Evaded
<1>3. CASE ev = "port-hopping"
  <2>1. OrderKept(a.flows, Hopped(a, r)) /\ Alike(Hopped(a, r), a.flows)
    BY HoppedFlows DEF OrderKept
  <2> QED BY <1>3, <2>1, HoppingIs, KeptIs DEF Evaded
<1>4. CASE ev = "slow-and-low"
  BY <1>4, SlowIs, SlowedFlows, KeptIs DEF Evaded
<1>5. CASE ev = "dns-depth"
  <2>1. OrderKept(a.flows, Deepened(a)) /\ Alike(Deepened(a), a.flows)
    BY DeepenedFlows DEF OrderKept
  <2> QED BY <1>5, <2>1, DepthIs, KeptIs, ItselfKept DEF Evaded
<1> QED BY <1>1, <1>2, <1>3, <1>4, <1>5 DEF EVASIONS

LEMMA AttackFlows ==
  ASSUME NEW a, NEW e, IsAttack(a, e)
  PROVE  StoryFlows(a, e) /\ DOMAIN a.flows = 1..Len(a.flows) /\ Len(a.flows) \in Nat
<1>1. PICK names : Story(a.flows, e, names) /\ names \cap Loops = {}
  BY DEF IsAttack
<1>2. DOMAIN a.flows = 1..Len(a.flows) /\ Len(a.flows) \in Nat
  BY <1>1 DEF Story
<1> QED BY <1>1, <1>2 DEF IsAttack, Story, StoryFlows

\* What is kept of an attack is an attack.
LEMMA KeptAttack ==
  ASSUME NEW a, NEW b, NEW e, IsAttack(a, e), Kept(b, a)
  PROVE  IsAttack(b, e)
<1> DEFINE s == a.flows
           u == b.flows
<1>1. PICK names : Story(s, e, names) /\ names \cap Loops = {}
  BY DEF IsAttack
<1>2. DOMAIN s = 1..Len(s) /\ Len(s) \in Nat
  BY <1>1 DEF Story
<1>3. /\ DOMAIN u = 1..Len(s) /\ u = [i \in 1..Len(s) |-> u[i]]
      /\ \A i \in 1..Len(s) : FlowKept(u[i], s[i])
  BY <1>2 DEF Kept
<1> HIDE DEF s, u
<1>4. Len(u) = Len(s)
  BY <1>2, <1>3
<1>5. ASSUME NEW i \in 1..Len(s)
      PROVE  StoryFlow(u[i], e) /\ u[i].id = s[i].id
  <2>1. StoryFlow(s[i], e) /\ FlowKept(u[i], s[i])
    BY <1>1, <1>3 DEF Story
  <2>2. Carried(u[i])
    <3>1. s[i].transport # "icmp"
      BY <2>1, SpokenIs DEF StoryFlow, Saying, Carried
    <3> QED BY <2>1, <3>1 DEF FlowKept, StoryFlow, Carried
  <2> QED BY <2>1, <2>2 DEF FlowKept, StoryFlow
<1>6. Story(u, e, names)
  BY <1>1, <1>3, <1>4, <1>5 DEF Story
<1>7. IdsOf(u) = IdsOf(s)
  <2>1. IdsOf(u) \subseteq IdsOf(s)
    BY <1>2, <1>3, <1>5 DEF IdsOf
  <2>2. IdsOf(s) \subseteq IdsOf(u)
    BY <1>2, <1>3, <1>5 DEF IdsOf
  <2> QED BY <2>1, <2>2
<1>8. Ported(u)
  <2>1. Ported(s)
    BY DEF IsAttack, s
  <2>2. \A i \in 1..Len(s) : u[i].sport = s[i].sport /\ (Flooded(u[i]) <=> Flooded(s[i]))
    BY <1>3 DEF FlowKept, Flooded
  <2> QED BY <1>2, <1>3, <2>1, <2>2 DEF Ported
<1>9. Keyed(b.key, IdsOf(u)) /\ DOMAIN b = {"flows", "key", "iocs"}
  BY <1>7 DEF IsAttack, Kept, s, u
<1> QED BY <1>1, <1>6, <1>8, <1>9 DEF IsAttack, u

-----------------------------------------------------------------------------
(* The flows around an attack. *)

LoopPort(loop, m) ==
  CASE loop = "noise" -> NoisePort(m) [] loop = "fail" -> FailPort(m) [] OTHER -> FpPort(m)

\* The flow that a loop made at an index, between one of some hosts and another address.
Around(f, loop, m, hosts) ==
  /\ Reads(f)
  /\ f.id = Id(loop, m) /\ f.sport \in Port /\ f.dport \in Port
  /\ f.ends = <<f.ends[1], f.ends[2]>> /\ f.ends[1] \in hosts
  /\ IF Portless(f) THEN f.transport # "tcp" /\ (f.dport = 0 \/ f.dport = 67)
     ELSE f.sport = LoopPort(loop, m) /\ (f.transport = "tcp" \/ (f.dport # 0 /\ f.dport # 67))

LEMMA PortOfIs ==
  ASSUME NEW m \in Nat
  PROVE  NoisePort(m) \in Port /\ FailPort(m) \in Port /\ FpPort(m) \in Port
<1>1. /\ FirstNoise \in Nat /\ NoiseSpan \in Nat /\ FirstFail \in Nat /\ FailSpan \in Nat
      /\ FirstFp \in Nat /\ FpSpan \in Nat /\ MaxPort \in Nat
      /\ NoiseSpan > 0 /\ FailSpan > 0 /\ FpSpan > 0
      /\ FirstNoise + NoiseSpan <= MaxPort + 1 /\ FirstFail + FailSpan <= MaxPort + 1
      /\ FirstFp + FpSpan <= MaxPort + 1
  BY PortsAssumption
<1>2. m % NoiseSpan \in 0..(NoiseSpan - 1) /\ m % FailSpan \in 0..(FailSpan - 1)
      /\ m % FpSpan \in 0..(FpSpan - 1)
  BY <1>1
<1> QED BY <1>1, <1>2 DEF NoisePort, FailPort, FpPort, Port

LEMMA FaithfulAre ==
  ASSUME NEW s \in DOMAIN FaithfulPorts
  PROVE  /\ FaithfulPorts[s] \in Nat /\ FaithfulPorts[s] <= 49200
         /\ s = "dhcp" => FaithfulPorts[s] = 67
         /\ s = "icmp" => FaithfulPorts[s] = 0
         /\ s # "dhcp" /\ s # "icmp" => FaithfulPorts[s] # 0 /\ FaithfulPorts[s] # 67
BY DEF FaithfulPorts

LEMMA TcpAre ==
  ASSUME NEW s \in DOMAIN TcpPorts
  PROVE  /\ TcpPorts[s] \in Nat /\ TcpPorts[s] <= 49200
         /\ TcpPorts[s] # 0 /\ TcpPorts[s] # 67 /\ s # "dhcp" /\ s # "icmp"
BY DEF TcpPorts

LEMMA ServiceIs ==
  ASSUME NEW service, HasFlow(service)
  PROVE  /\ DportOf(service) \in Port
         /\ IF KindOf(service) \in {"dhcp", "icmp"}
            THEN /\ TransportOf(service) # "tcp"
                 /\ DportOf(service) = 0 \/ DportOf(service) = 67
            ELSE /\ DportOf(service) # 0 /\ DportOf(service) # 67
                 /\ service # "dhcp" /\ service # "icmp"
<1>1. DportOf(service) \in Nat /\ DportOf(service) <= 49200
  BY FaithfulAre, TcpAre DEF HasFlow, DportOf
<1>2. DportOf(service) \in Port
  BY <1>1, PortsAre
<1>3. "dhcp" \in DOMAIN FaithfulPorts /\ "icmp" \in DOMAIN FaithfulPorts
  BY DEF FaithfulPorts
<1>4. KindOf(service) = "dhcp" <=> service = "dhcp"
  BY <1>3 DEF KindOf
<1>5. KindOf(service) = "icmp" <=> service = "icmp"
  BY <1>3 DEF KindOf
<1>6. CASE service = "dhcp"
  <2>1. Transports("dhcp") = {"udp"}
    BY DEF Transports
  <2>2. TransportOf(service) = "udp"
    BY <1>4, <1>6, <2>1 DEF TransportOf
  <2>3. DportOf(service) = 67
    BY <1>3, <1>6, FaithfulAre DEF DportOf
  <2> QED BY <1>2, <1>4, <1>6, <2>2, <2>3
<1>7. CASE service = "icmp"
  <2>1. Transports("icmp") = {"icmp"}
    BY DEF Transports
  <2>2. TransportOf(service) = "icmp"
    BY <1>5, <1>7, <2>1 DEF TransportOf
  <2>3. DportOf(service) = 0
    BY <1>3, <1>7, FaithfulAre DEF DportOf
  <2> QED BY <1>2, <1>5, <1>7, <2>2, <2>3
<1>8. CASE service # "dhcp" /\ service # "icmp"
  <2>1. DportOf(service) # 0 /\ DportOf(service) # 67
    BY <1>8, FaithfulAre, TcpAre DEF DportOf, HasFlow
  <2> QED BY <1>2, <1>4, <1>5, <1>8, <2>1
<1> QED BY <1>6, <1>7, <1>8

\* What a service says without a word of its own.
LEMMA SilenceFits ==
  ASSUME NEW kind \in Easy \cup (Counting \ {"icmp"}) \cup {"smb", "ftp", "sip"}, NEW dport
  PROVE  Fits(kind, dport, <<>>)
<1> DEFINE g == <<>>
<1>1. DOMAIN g = {}
  OBVIOUS
<1>2. CASE kind = "ftp" \/ kind = "sip"
  BY <1>2, FtpFits, SipFits
<1> HIDE DEF g
<1>3. Typed(g)
  BY <1>1 DEF Typed
<1>4. CASE kind \in Easy
  <2>1. Fits(kind, dport, g)
    BY <1>1, <1>3, <1>4, EasyFits
  <2> QED BY <2>1 DEF g
<1>5. CASE kind \in Counting
  <2>1. Fits(kind, dport, g)
    BY <1>1, <1>3, <1>5, CountFits
  <2> QED BY <2>1 DEF g
<1>6. CASE kind = "smb"
  <2>1. Fits("smb", dport, g)
    BY <1>1, <1>3, SmbFits
  <2> QED BY <1>6, <2>1 DEF g
<1> QED BY <1>2, <1>4, <1>5, <1>6

LEMMA SaidFits ==
  ASSUME NEW e, NEW service, HasFlow(service), NEW client, NEW given \in Said(e, service, client)
  PROVE  Fits(KindOf(service), DportOf(service), given)
<1> DEFINE dport == DportOf(service)
<1>0. {"dns", "dhcp", "tls", "http", "icmp", "kerberos"} \subseteq DOMAIN FaithfulPorts
  BY DEF FaithfulPorts
<1>1. CASE service = "dns"
  <2> DEFINE q == <<3, 7, 3>>
  <2>1. given = Answered(q) /\ KindOf(service) = "dns"
    BY <1>0, <1>1 DEF Said, KindOf
  <2>2. Labels(q)
    BY DEF Labels
  <2>3. DportOf(service) = 53
    BY <1>0, <1>1 DEF DportOf, FaithfulPorts
  <2> HIDE DEF q
  <2>4. Saying("dns", 53, Answered(q))
    BY <2>2, AnsweredAsks
  <2> QED BY <2>1, <2>3, <2>4 DEF Saying
<1>2. CASE service = "dhcp"
  <2>1. DOMAIN given = {"assigned_ip", "server_ip"} /\ KindOf(service) = "dhcp"
    BY <1>0, <1>2 DEF Said, KindOf
  <2> HIDE DEF dport
  <2>2. Fits("dhcp", dport, given)
    BY <2>1, DhcpFits
  <2> QED BY <2>1, <2>2 DEF dport
<1>3. CASE service = "tls"
  <2>1. PICK v \in {"TLS1.2", "TLS1.3"} :
          given = [server_name |-> "www", version |-> v, alpn |-> "h2",
                   app_data_orig_bytes |-> 500, app_data_resp_bytes |-> 900]
    BY <1>3 DEF Said
  <2>2. KindOf(service) = "tls"
    BY <1>0, <1>3 DEF KindOf
  <2>3. /\ DOMAIN given = {"server_name", "version", "alpn", "app_data_orig_bytes", "app_data_resp_bytes"}
        /\ given.version = v /\ given.app_data_orig_bytes = 500 /\ given.app_data_resp_bytes = 900
    BY <2>1
  <2>4. Typed(given)
    BY <2>3 DEF Typed, Integral, Lists
  <2>5. DOMAIN given \subseteq DOMAIN TlsL7
    BY <2>3 DEF TlsL7
  <2> HIDE DEF dport
  <2>6. Fits("tls", dport, given)
    BY <2>3, <2>4, <2>5, TlsFits
  <2> QED BY <2>2, <2>6 DEF dport
<1>4. CASE service = "http"
  <2>1. PICK p \in {<<"GET", 0>>, <<"POST", 500>>}, c \in {200, 304, 404} :
          given = [method |-> p[1], request_body_len |-> p[2], status |-> c, response_body_len |-> 900]
    BY <1>4 DEF Said
  <2>2. KindOf(service) = "http"
    BY <1>0, <1>4 DEF KindOf
  <2>3. p[1] # "HEAD" /\ p[2] \in Int /\ c \in Int
    OBVIOUS
  <2>4. /\ DOMAIN given = {"method", "request_body_len", "status", "response_body_len"}
        /\ given.method = p[1] /\ given.request_body_len = p[2] /\ given.status = c
        /\ given.response_body_len = 900
    BY <2>1
  <2>5. Typed(given)
    BY <2>3, <2>4 DEF Typed, Integral, Lists
  <2>6. DOMAIN given \subseteq DOMAIN HttpL7
    BY <2>4 DEF HttpL7
  <2> HIDE DEF dport
  <2>7. Fits("http", dport, given)
    BY <2>3, <2>4, <2>5, <2>6, HttpFits
  <2> QED BY <2>2, <2>7 DEF dport
<1>5. CASE service = "icmp"
  <2>1. PICK k \in 1..3 : given = [count |-> k]
    BY <1>5 DEF Said
  <2>2. KindOf(service) = "icmp" /\ "icmp" \in Counting
    BY <1>0, <1>5 DEF KindOf, Counting
  <2>3. DOMAIN given = {"count"} /\ given.count = k
    BY <2>1
  <2>4. Typed(given)
    BY <2>3 DEF Typed, Integral, Lists
  <2>5. DOMAIN given \subseteq DOMAIN L7Spec["icmp"]
    BY <2>3 DEF L7Spec, IcmpL7
  <2> HIDE DEF dport
  <2>6. Fits("icmp", dport, given)
    BY <2>2, <2>3, <2>4, <2>5, CountFits
  <2> QED BY <2>2, <2>6 DEF dport
<1>6. CASE service = "kerberos"
  <2>1. PICK q \in {"AS", "TGS"} : given = [request_type |-> q, request_etypes |-> <<18, 17>>]
    BY <1>6 DEF Said
  <2>2. KindOf(service) = "kerberos"
    BY <1>0, <1>6 DEF KindOf
  <2>3. DOMAIN given = {"request_type", "request_etypes"} /\ given.request_type = q
    BY <2>1
  <2>4. Typed(given)
    BY <2>3 DEF Typed, Integral, Lists
  <2>5. DOMAIN given \subseteq DOMAIN KerberosL7
    BY <2>3 DEF KerberosL7
  <2> HIDE DEF dport
  <2>6. Fits("kerberos", dport, given)
    BY <2>3, <2>4, <2>5, KerberosFits
  <2> QED BY <2>2, <2>6 DEF dport
<1>7. CASE service \notin {"dns", "dhcp", "tls", "http", "icmp", "kerberos"}
  <2>1. given = <<>>
    BY <1>7 DEF Said
  <2>2. KindOf(service) \in Easy \cup (Counting \ {"icmp"}) \cup {"smb", "ftp", "sip"}
    <3>1. CASE service \in DOMAIN FaithfulPorts
      BY <1>7, <3>1 DEF KindOf, FaithfulPorts, Easy, Counting
    <3>2. CASE service \notin DOMAIN FaithfulPorts
      BY <3>2 DEF KindOf, Easy
    <3> QED BY <3>1, <3>2
  <2> QED BY <2>1, <2>2, SilenceFits
<1> QED BY <1>1, <1>2, <1>3, <1>4, <1>5, <1>6, <1>7

LEMMA ServiceCarried ==
  ASSUME NEW service, HasFlow(service)
  PROVE  /\ TransportOf(service) \in Transports(KindOf(service))
         /\ KindOf(service) = "dns" => TransportOf(service) = "udp"
         /\ TransportOf(service) = "icmp" => service = "icmp"
         /\ Transports(KindOf(service)) = {"tcp"} => TransportOf(service) = "tcp"
<1> DEFINE kind == KindOf(service)
<1>1. kind = "dns" <=> service = "dns"
  BY DEF KindOf, FaithfulPorts
<1>2. "icmp" \in Transports(kind) => service = "icmp"
  <2>1. kind = "icmp" => service = "icmp"
    BY DEF KindOf
  <2> HIDE DEF kind
  <2>2. "icmp" \in Transports(kind) => kind = "icmp"
    BY DEF Transports
  <2> QED BY <2>1, <2>2
<1>3. Transports(kind) # {}
  <2> HIDE DEF kind
  <2> QED BY DEF Transports
<1>4. Transports("dns") = {"udp", "tcp"}
  BY DEF Transports
<1>5. CASE service = "dns"
  <2>1. TransportOf(service) = "udp"
    BY <1>5 DEF TransportOf
  <2>2. kind = "dns"
    BY <1>1, <1>5
  <2> HIDE DEF kind
  <2>3. /\ TransportOf(service) \in Transports(kind)
        /\ Transports(kind) # {"tcp"}
    BY <1>4, <2>1, <2>2
  <2> QED BY <2>1, <2>3 DEF kind
<1>6. CASE service # "dns"
  <2>1. TransportOf(service) = CHOOSE x \in Transports(kind) : TRUE
    BY <1>6 DEF TransportOf
  <2> HIDE DEF kind
  <2>2. TransportOf(service) \in Transports(kind)
    BY <1>3, <2>1
  <2> QED BY <1>1, <1>2, <1>6, <2>2 DEF kind
<1> QED BY <1>5, <1>6

LEMMA AmbientIs ==
  ASSUME NEW e, NEW service, HasFlow(service), NEW hosts, NEW m \in Nat,
         NEW f \in AmbientFlows(e, service, hosts, Id("noise", m), NoisePort(m))
  PROVE  Around(f, "noise", m, hosts)
<1> DEFINE sport == SportOf(service, NoisePort(m))
           S(client) == {client} \X Destinations(e, service, client, hosts)
                          \X Said(e, service, client)
                          \X (IF TransportOf(service) = "tcp" THEN EstablishedStates ELSE {"SF"})
           F(x) == [Flow(Id("noise", m), TransportOf(service), <<x[1], x[2]>>, DportOf(service), 0,
                         KindOf(service), x[3]) EXCEPT !.sport = sport, !.state = x[4]]
<1>1. f \in {F(x) : x \in UNION {S(client) : client \in hosts}}
  BY Zenon DEF AmbientFlows
<1> HIDE DEF S, F
<1>2. PICK client \in hosts : \E x \in S(client) : f = F(x)
  BY <1>1
<1>3. PICK x \in S(client) : f = F(x)
  BY <1>2
<1> DEFINE a == x[1]
           b == x[2]
           given == x[3]
           state == x[4]
<1>4. /\ f.id = Id("noise", m) /\ f.transport = TransportOf(service) /\ f.ends = <<a, b>>
      /\ f.dport = DportOf(service) /\ f.kind = KindOf(service) /\ f.sport = sport
      /\ f.given = given /\ f.state = state /\ f.v6 = FALSE
  <2> HIDE DEF a, b, given, state, sport
  <2>1. f = [Flow(Id("noise", m), TransportOf(service), <<a, b>>, DportOf(service), 0,
                  KindOf(service), given) EXCEPT !.sport = sport, !.state = state]
    BY Zenon, <1>3 DEF F, a, b, given, state
  <2> QED BY <2>1 DEF Flow
<1>9. /\ given \in Said(e, service, client)
      /\ TransportOf(service) = "tcp" => state \in Ended
  BY <1>3 DEF S, EstablishedStates, Ended
<1> HIDE DEF b, given, state, sport
<1>5. a \in hosts
  BY <1>3 DEF S
<1> HIDE DEF a
<1>6. f.ends = <<f.ends[1], f.ends[2]>> /\ f.ends[1] \in hosts
  BY <1>4, <1>5
<1>7. sport \in Port
  BY PortOfIs, PortsAre DEF sport, SportOf
<1>8. KindOf(service) \notin {"dhcp", "icmp"} => sport = NoisePort(m)
  BY ServiceIs DEF sport, SportOf
<1>10. Reads(f)
  <2>1. Fits(f.kind, f.dport, f.given)
    BY <1>4, <1>9, SaidFits
  <2>2. TransportOf(service) = "icmp" => sport = 0 /\ DportOf(service) = 0
    <3>1. service = "icmp" => DportOf(service) = 0 /\ sport = 0
      BY DEF DportOf, FaithfulPorts, sport, SportOf
    <3> QED BY <3>1, ServiceCarried
  <2>3. Carried(f)
    BY <1>4, <1>9, <2>2, ServiceCarried DEF Carried
  <2> QED BY <2>1, <2>3, ReadsIs
<1> HIDE DEF Id
<1> QED BY <1>4, <1>6, <1>7, <1>8, <1>10, ServiceIs DEF Around, LoopPort, Portless

LEMMA FailedIs ==
  ASSUME NEW hosts, NEW m \in Nat, NEW f \in FailedFlows(hosts, Id("fail", m), FailPort(m))
  PROVE  Around(f, "fail", m, hosts)
<1> DEFINE S(client) == {client} \X Servers(client, hosts) \X FailPorts \X {"S0", "REJ"}
           F(x) == [Flow(Id("fail", m), "tcp", <<x[1], x[2]>>, x[3], 0, "opaque_tcp", <<>>)
                      EXCEPT !.sport = FailPort(m), !.state = x[4]]
<1>1. f \in {F(x) : x \in UNION {S(client) : client \in hosts}}
  BY Zenon DEF FailedFlows
<1> HIDE DEF S, F
<1>2. PICK client \in hosts : \E x \in S(client) : f = F(x)
  BY <1>1
<1>3. PICK x \in S(client) : f = F(x)
  BY <1>2
<1> DEFINE a == x[1]
           b == x[2]
           dport == x[3]
           state == x[4]
<1>4. /\ f.id = Id("fail", m) /\ f.transport = "tcp" /\ f.ends = <<a, b>>
      /\ f.dport = dport /\ f.kind = "opaque_tcp" /\ f.sport = FailPort(m)
      /\ f.given = <<>> /\ f.state = state /\ f.v6 = FALSE
  <2> HIDE DEF a, b, dport, state
  <2>1. f = [Flow(Id("fail", m), "tcp", <<a, b>>, dport, 0, "opaque_tcp", <<>>)
               EXCEPT !.sport = FailPort(m), !.state = state]
    BY Zenon, <1>3 DEF F, a, b, dport, state
  <2> QED BY <2>1 DEF Flow
<1>8. Reads(f)
  <2>1. state \in {"S0", "REJ"}
    BY <1>3 DEF S
  <2>2. Transports("opaque_tcp") = {"tcp"} /\ "opaque_tcp" \in Easy
    BY DEF Transports, Easy
  <2> HIDE DEF a, b, dport, state
  <2>3. Carried(f)
    BY <1>4, <2>1, <2>2 DEF Carried
  <2>4. Fits(f.kind, f.dport, f.given)
    BY <1>4, <2>2, SilenceFits
  <2> QED BY <2>3, <2>4, ReadsIs
<1> HIDE DEF b, state
<1>5. a \in hosts /\ dport \in Port
  <2>1. a \in hosts /\ dport \in FailPorts
    BY <1>3 DEF S
  <2>2. FailPorts \subseteq Port
    BY PortsAssumption DEF Port
  <2> QED BY <2>1, <2>2
<1> HIDE DEF a, dport
<1>6. f.ends = <<f.ends[1], f.ends[2]>> /\ f.ends[1] \in hosts
  BY <1>4, <1>5
<1>7. FailPort(m) \in Port
  BY PortOfIs
<1> HIDE DEF Id
<1> QED BY <1>4, <1>5, <1>6, <1>7, <1>8 DEF Around, LoopPort, Portless

LEMMA FalseIs ==
  ASSUME NEW e, NEW hosts, NEW m \in Nat, NEW f \in FpFlows(e, hosts, Id("fp", m), FpPort(m))
  PROVE  Around(f, "fp", m, hosts)
<1> DEFINE g == Answered(<<6, 5, 3>>)
           h == [response_body_len |-> 50]
           F(client) == [UdpTo(Id("fp", m), <<client, e.dns>>, 53, 0, "dns", g)
                           EXCEPT !.sport = FpPort(m)]
           H(ends) == [TcpTo(Id("fp", m), ends, 80, 0, "http", h) EXCEPT !.sport = FpPort(m)]
<1>1. f \in {F(client) : client \in hosts} \cup {H(ends) : ends \in hosts \X External}
  BY Zenon DEF FpFlows
<1> HIDE DEF F, H
<1>2. (\E a \in hosts : f = F(a)) \/ \E ends \in hosts \X External : f = H(ends)
  BY <1>1
<1>3. PICK a, b : /\ a \in hosts
                   /\ \/ f = F(a) /\ b = e.dns
                      \/ f = H(<<a, b>>)
  <2>1. CASE \E a \in hosts : f = F(a)
    BY <2>1
  <2>2. CASE \E ends \in hosts \X External : f = H(ends)
    <3>1. PICK ends \in hosts \X External : f = H(ends)
      BY <2>2
    <3>2. ends = <<ends[1], ends[2]>> /\ ends[1] \in hosts
      OBVIOUS
    <3>3. f = H(<<ends[1], ends[2]>>)
      BY <3>1, <3>2
    <3> QED BY <3>2, <3>3
  <2> QED BY <1>2, <2>1, <2>2
<1>4. /\ f.id = Id("fp", m) /\ f.ends = <<a, b>> /\ f.sport = FpPort(m)
      /\ f.state = "SF" /\ f.v6 = FALSE
      /\ \/ f.kind = "dns" /\ f.dport = 53 /\ f.transport = "udp" /\ f.given = g
         \/ f.kind = "http" /\ f.dport = 80 /\ f.transport = "tcp" /\ f.given = h
  <2> HIDE DEF g, h
  <2>1. CASE f = F(a) /\ b = e.dns
    <3>1. f = [Flow(Id("fp", m), "udp", <<a, b>>, 53, 0, "dns", g) EXCEPT !.sport = FpPort(m)]
      BY Zenon, <2>1 DEF F, UdpTo
    <3> QED BY <3>1 DEF Flow
  <2>2. CASE f = H(<<a, b>>)
    <3>1. f = [Flow(Id("fp", m), "tcp", <<a, b>>, 80, 0, "http", h) EXCEPT !.sport = FpPort(m)]
      BY Zenon, <2>2 DEF H, TcpTo
    <3> QED BY <3>1 DEF Flow
  <2> QED BY <1>3, <2>1, <2>2
<1>5. f.ends = <<f.ends[1], f.ends[2]>> /\ f.ends[1] \in hosts
  BY <1>3, <1>4
<1>6. FpPort(m) \in Port /\ 53 \in Port /\ 80 \in Port
  BY PortOfIs, PortsAre
<1>7. Reads(f)
  <2> DEFINE q == <<6, 5, 3>>
  <2>1. Labels(q) /\ g = Answered(q)
    BY DEF Labels
  <2> HIDE DEF q, g
  <2>2. Saying("dns", 53, g)
    BY <2>1, AnsweredAsks
  <2>3. Streaming("http", 80, h)
    BY PagesAre
  <2> HIDE DEF h
  <2>4. Fits(f.kind, f.dport, f.given)
    BY <1>4, <2>2, <2>3 DEF Saying, Streaming
  <2>5. "udp" \in Transports("dns") /\ Transports("dns") # {"tcp"} /\ Transports("http") = {"tcp"}
    BY DEF Transports
  <2>6. Carried(f)
    BY <1>4, <2>5 DEF Carried, Ended
  <2> QED BY <2>4, <2>6, ReadsIs
<1> HIDE DEF Id, g, h
<1> QED BY <1>4, <1>5, <1>6, <1>7 DEF Around, LoopPort, Portless

-----------------------------------------------------------------------------
(* The inductive invariant. *)

Phases == {"start", "refused", "evade", "hosts", "noise", "fail", "fp", "weave", "captured",
           "detect", "done"}

Woven == phase \in {"captured", "detect", "done"}

\* How many flows of the capture are not the attack's.
Behind == IF Woven THEN Len(capture) - Len(attack.flows) ELSE Len(capture)

Asked ==
  /\ phase \in Phases
  /\ phase = "start" => attack = NoAttack
  /\ phase # "start" => exercise \in Exercises /\ IsAttack(attack, env)
  /\ n \in Nat /\ scan \in Nat /\ 20 <= scan /\ scan <= MaxScan

\* The address that a client has.
ClientAt(c, k, e, top) ==
  k \in Nat /\ 20 <= k /\ k < top /\ k < e.size /\ c = Host(k) /\ c # e.gateway /\ c # e.dns

ClientsFound ==
  /\ IsSeq(clients)
  /\ \A i \in 1..Len(clients) : \E k : ClientAt(clients[i], k, env, scan)
  /\ \A i, j \in 1..Len(clients) : clients[i] = clients[j] => i = j
  /\ phase \in {"start", "refused", "evade"} => Len(clients) = 0

\* The indices that the loops have gone through when the program is at p with counter c.
Reached(loop, m, p, c, limit) ==
  /\ loop \in Loops /\ m \in Nat /\ m < limit[loop]
  /\ p = "noise" => loop = "noise" /\ m < c
  /\ p = "fail" => loop # "fp" /\ (loop = "fail" => m < c)
  /\ p = "fp" => (loop = "fp" => m < c)

MadeBy(f, loop, m, p, c, limit, hosts) == Reached(loop, m, p, c, limit) /\ Around(f, loop, m, hosts)

\* One flow per index at most, and the attack behind them all.
Surrounded ==
  /\ IsSeq(capture) /\ Behind \in Nat
  /\ phase \in {"start", "refused", "evade", "hosts"} => Len(capture) = 0
  /\ \A i \in 1..Behind : \E loop, m : MadeBy(capture[i], loop, m, phase, n, Limit, ToSet(clients))
  /\ \A i, j \in 1..Behind : capture[i].id = capture[j].id => i = j
  /\ Woven => \A i \in 1..Len(attack.flows) : capture[Behind + i] = attack.flows[i]

\* No client is a host of the storyline.
Strangers == ToSet(clients) \cap StoryHosts = {}

\* The alerts on the flows of the attack.
Rightly == {x \in 1..Len(report.seen) : IsStory(report.seen[x])}

Scored ==
  /\ DOMAIN report = {"seen", "tp", "fp", "caught", "missed"} /\ IsSeq(report.seen)
  /\ \A x \in 1..Len(report.seen) : report.seen[x] \in 1..Len(capture)
  /\ Strangers =>
       /\ report.tp = Cardinality(Rightly) /\ report.fp = Len(report.seen) - report.tp
       /\ ~PairsShared =>
            report.caught = {TechniqueOf(attack, capture[report.seen[x]].id) : x \in Rightly}
  /\ phase = "done" => report.missed = Techniques \ report.caught

Settled ==
  IF phase \in {"detect", "done"} THEN answer = MaliciousFlows(attack) /\ Scored
  ELSE report = NoReport

IInv == Asked /\ ClientsFound /\ Surrounded /\ Settled

USE DEF env

LEMMA EmptyIs ==
  ASSUME NEW s, Len(s) = 0, s = [i \in 1..0 |-> s[i]]
  PROVE  IsSeq(s)
BY DEF IsSeq

LEMMA NoAttackIs == \A e : IsAttack(NoAttack, e)
<1> SUFFICES ASSUME NEW e
             PROVE  IsAttack(NoAttack, e)
  OBVIOUS
<1> DEFINE s == <<>>
<1>1. NoAttack.flows = s /\ NoAttack.key = s /\ DOMAIN NoAttack = {"flows", "key", "iocs"}
  BY DEF NoAttack
<1>2. Len(s) = 0 /\ DOMAIN s = {} /\ s = [i \in 1..0 |-> s[i]]
  OBVIOUS
<1> HIDE DEF s
<1>3. Story(s, e, {}) /\ {} \cap Loops = {}
  BY <1>2 DEF Story
<1>4. IdsOf(s) = {}
  BY <1>2 DEF IdsOf
<1>5. Ported(s) /\ Keyed(s, {})
  BY <1>2 DEF Ported, Keyed
<1> QED BY <1>1, <1>3, <1>4, <1>5 DEF IsAttack

THEOREM InvInit == Init => IInv
<1> SUFFICES ASSUME Init
             PROVE  IInv
  OBVIOUS
<1>1. Asked
  BY ExercisesAssumption DEF Init, Asked, Phases
<1>2. ClientsFound
  <2>1. Len(clients) = 0 /\ clients = [i \in 1..0 |-> clients[i]]
    BY DEF Init
  <2>2. IsSeq(clients)
    BY <2>1, EmptyIs
  <2> QED BY <2>1, <2>2 DEF Init, ClientsFound
<1>3. Surrounded
  <2>1. Len(capture) = 0 /\ capture = [i \in 1..0 |-> capture[i]]
    BY DEF Init
  <2>2. IsSeq(capture)
    BY <2>1, EmptyIs
  <2> QED BY <2>1, <2>2 DEF Init, Surrounded, Behind, Woven
<1>4. Settled
  BY DEF Init, Settled
<1> QED BY <1>1, <1>2, <1>3, <1>4 DEF IInv

LEMMA ExerciseIs ==
  ASSUME NEW e \in Exercises
  PROVE  /\ Roomy(e.intensity) /\ e.noise \in Nat /\ e.duration \in Nat /\ e.hosts \in Nat
BY ExercisesAssumption DEF Roomy

\* While nothing is composed.
LEMMA NothingYet ==
  ASSUME Surrounded, capture' = capture, Len(capture) = 0, ~Woven'
  PROVE  Surrounded'
BY DEF Surrounded, Behind

LEMMA BuildIs ==
  ASSUME NEW e \in Exercises, Build(e)
  PROVE  IsNew(attack', e.env)
<1>1. PICK j \in Jitters, again \in BOOLEAN :
        attack' = Built(e.attack, e.env, e.intensity, [jitter |-> j, again |-> again])
  BY DEF Build
<1> DEFINE r == [jitter |-> j, again |-> again]
<1>2. r.jitter \in Jitters
  OBVIOUS
<1> HIDE DEF r
<1>3. e.attack \in ATTACKS /\ Roomy(e.intensity)
  BY ExerciseIs DEF Build
<1>4. attack' = Built(e.attack, e.env, e.intensity, r)
  BY Zenon, <1>1 DEF r
<1> QED BY <1>2, <1>3, <1>4, BuiltIs

LEMMA StartStep ==
  ASSUME IInv, Start
  PROVE  IInv'
<1>1. phase = "start"
  BY DEF Start
<1>2. PICK e \in Exercises : Refuse(e) \/ Build(e) \/ Benign(e)
  BY DEF Start
<1>3. exercise' = e /\ UNCHANGED <<clients, scan, n, capture, answer, report>>
      /\ phase' \in {"refused", "evade", "hosts"}
  BY <1>2 DEF Refuse, Build, Benign
<1>4. IsAttack(attack', e.env)
  <2>1. CASE Refuse(e) \/ Benign(e)
    BY <1>1, <2>1, NoAttackIs DEF IInv, Asked, Refuse, Benign
  <2>2. CASE Build(e)
    BY <2>2, BuildIs DEF IsNew
  <2> QED BY <1>2, <2>1, <2>2
<1>5. Asked'
  BY <1>3, <1>4 DEF IInv, Asked, Phases
<1>6. ClientsFound'
  BY <1>1, <1>3 DEF IInv, ClientsFound
<1>7. Surrounded'
  BY <1>1, <1>3, NothingYet DEF IInv, Surrounded, Woven
<1>8. Settled'
  BY <1>1, <1>3 DEF IInv, Settled
<1> QED BY <1>5, <1>6, <1>7, <1>8 DEF IInv

\* What an evasion does to an attack.
LEMMA EvadeIs ==
  ASSUME NEW ev, Evade(ev)
  PROVE  \E r : r.hop \in Port /\ attack' = Evaded(attack, ev, r)
<1>1. PICK p \in Profiles, h \in Hops : attack' = Evaded(attack, ev, [profile |-> p, hop |-> h])
  BY DEF Evade
<1> DEFINE r == [profile |-> p, hop |-> h]
<1>2. r.hop \in Port
  BY PortsAre DEF Hops
<1> HIDE DEF r
<1>3. attack' = Evaded(attack, ev, r)
  BY Zenon, <1>1 DEF r
<1> QED BY <1>2, <1>3

LEMMA EvadeStep ==
  ASSUME IInv, phase = "evade", NEW ev, Evade(ev)
  PROVE  Kept(attack', attack) /\ IsAttack(attack', env)
<1>1. IsAttack(attack, env) /\ ev \in EVASIONS
  BY DEF IInv, Asked, Evade
<1>2. PICK r : r.hop \in Port /\ attack' = Evaded(attack, ev, r)
  BY EvadeIs
<1>3. Kept(attack', attack)
  BY <1>1, <1>2, AttackFlows, EvadedIs
<1>4. IsAttack(attack', env)
  BY <1>1, <1>3, KeptAttack
<1> QED BY <1>3, <1>4

LEMMA ModifyStep ==
  ASSUME IInv, Modify
  PROVE  IInv'
<1>1. phase = "evade"
  BY DEF Modify
<1>2. PICK ev : Evade(ev) \/ RefuseEvasion(ev)
  BY DEF Modify
<1>3. /\ UNCHANGED <<exercise, clients, scan, n, capture, answer, report>>
      /\ phase' \in {"refused", "evade"} /\ IsAttack(attack', env)
  <2>1. CASE Evade(ev)
    BY <1>1, <2>1, EvadeStep DEF Evade
  <2>2. CASE RefuseEvasion(ev)
    BY <1>1, <2>2 DEF RefuseEvasion, IInv, Asked
  <2> QED BY <1>2, <2>1, <2>2
<1>4. Asked'
  BY <1>1, <1>3 DEF IInv, Asked, Phases
<1>5. ClientsFound'
  BY <1>1, <1>3 DEF IInv, ClientsFound
<1>6. Surrounded'
  BY <1>1, <1>3, NothingYet DEF IInv, Surrounded, Woven
<1>7. Settled'
  BY <1>1, <1>3 DEF IInv, Settled
<1> QED BY <1>4, <1>5, <1>6, <1>7 DEF IInv

LEMMA ComposeStep ==
  ASSUME IInv, Compose \/ HostsPicked
  PROVE  IInv'
<1>1. /\ UNCHANGED <<exercise, attack, clients, scan, capture, answer, report>> /\ n' \in Nat
      /\ \/ phase = "evade" /\ phase' = "hosts"
         \/ phase = "hosts" /\ phase' = "noise"
  BY DEF Compose, HostsPicked, IInv, Asked
<1>2. Asked'
  BY <1>1 DEF IInv, Asked, Phases
<1>3. ClientsFound'
  BY <1>1 DEF IInv, ClientsFound
<1>4. Surrounded'
  BY <1>1, NothingYet DEF IInv, Surrounded, Woven
<1>5. Settled'
  BY <1>1 DEF IInv, Settled
<1> QED BY <1>2, <1>3, <1>4, <1>5 DEF IInv

LEMMA PickStep ==
  ASSUME IInv, PickHost
  PROVE  IInv'
<1>1. /\ phase = "hosts" /\ UNCHANGED <<exercise, phase, attack, n, capture, answer, report>>
      /\ scan' = scan + 1 /\ scan < MaxScan
      /\ clients' = IF Usable(scan) THEN Append(clients, Host(scan)) ELSE clients
  BY DEF PickHost
<1>2. MaxScan \in Nat
  BY ExercisesAssumption
<1>3. Asked'
  BY <1>1, <1>2 DEF IInv, Asked
<1>4. /\ scan \in Nat /\ 20 <= scan /\ IsSeq(clients) /\ Len(clients) \in Nat
      /\ \A i \in 1..Len(clients) : \E k : ClientAt(clients[i], k, env, scan)
  BY DEF IInv, Asked, ClientsFound, IsSeq
<1>5. \A c, k : ClientAt(c, k, env, scan) => ClientAt(c, k, env, scan + 1) /\ c # Host(scan)
  <2> SUFFICES ASSUME NEW c, NEW k, ClientAt(c, k, env, scan)
               PROVE  ClientAt(c, k, env, scan + 1) /\ c # Host(scan)
    OBVIOUS
  <2>1. k # scan /\ c = Host(k)
    BY <1>4 DEF ClientAt
  <2>2. c # Host(scan)
    BY <2>1, HostsDiffer
  <2>3. k < scan + 1
    BY <1>1, <1>4 DEF ClientAt
  <2> QED BY <1>1, <2>2, <2>3 DEF ClientAt
<1>6. ClientsFound'
  <2>1. CASE Usable(scan)
    <3> DEFINE w == Append(clients, Host(scan))
               l == Len(clients)
    <3>1. /\ IsSeq(w) /\ Len(w) = l + 1 /\ \A i \in 1..l : w[i] = clients[i]
          /\ w[l + 1] = Host(scan)
      BY <1>4, AppendIs
    <3>2. clients' = w
      BY <1>1, <2>1
    <3> HIDE DEF w, l
    <3>3. ClientAt(Host(scan), scan, env, scan + 1)
      BY <1>1, <1>4, <2>1 DEF ClientAt, Usable
    <3>4. \A i \in 1..(l + 1) : i \in 1..l \/ i = l + 1
      BY <1>4 DEF l
    <3>5. \A i \in 1..(l + 1) : \E k : ClientAt(w[i], k, env, scan + 1)
      BY <1>4, <1>5, <3>1, <3>3, <3>4 DEF l
    <3>6. \A i \in 1..l : w[i] # Host(scan)
      BY <1>4, <1>5, <3>1 DEF l
    <3>7. \A i, j \in 1..l : w[i] = w[j] => i = j
      BY <3>1 DEF IInv, ClientsFound, l
    <3>8. \A i, j \in 1..(l + 1) : w[i] = w[j] => i = j
      BY <3>1, <3>4, <3>6, <3>7
    <3> QED BY <1>1, <3>1, <3>2, <3>5, <3>8 DEF ClientsFound
  <2>2. CASE ~Usable(scan)
    BY <1>1, <1>5, <2>2 DEF IInv, ClientsFound
  <2> QED BY <2>1, <2>2
<1>7. Surrounded'
  BY <1>1, NothingYet DEF IInv, Surrounded, Woven
<1>8. Settled'
  BY <1>1 DEF IInv, Settled
<1> QED BY <1>3, <1>6, <1>7, <1>8 DEF IInv

LEMMA ReachedOn ==
  ASSUME NEW p \in Loops, NEW c \in Nat, NEW limit, NEW loop, NEW m, Reached(loop, m, p, c, limit)
  PROVE  Reached(loop, m, p, c + 1, limit) /\ Id(loop, m) # Id(p, c)
<1>1. m \in Nat /\ (loop = p => m < c)
  BY DEF Reached, Loops
<1>2. Id(loop, m) # Id(p, c)
  BY <1>1 DEF Id
<1>3. Reached(loop, m, p, c + 1, limit)
  BY DEF Reached
<1> QED BY <1>2, <1>3

LEMMA ReachedNow ==
  ASSUME NEW p \in Loops, NEW c \in Nat, NEW limit, c < limit[p]
  PROVE  Reached(p, c, p, c + 1, limit)
BY DEF Reached, Loops

LEMMA ReachedNext ==
  ASSUME NEW p, NEW q, NEW c \in Nat, NEW limit, NEW loop, NEW m, Reached(loop, m, p, c, limit),
         \/ p = "noise" /\ q = "fail"
         \/ p = "fail" /\ q = "fp"
         \/ q \notin Loops
  PROVE  Reached(loop, m, q, 0, limit) /\ Reached(loop, m, q, c, limit)
BY DEF Reached, Loops

LEMMA LoopStep ==
  ASSUME IInv, NEW loop \in Loops, Looping(loop),
         \/ capture' = capture
         \/ \E f : capture' = Append(capture, f) /\ Around(f, loop, n, ToSet(clients))
  PROVE  IInv'
<1>1. /\ phase = loop /\ n < Limit[loop] /\ n' = n + 1
      /\ UNCHANGED <<exercise, phase, attack, clients, scan, answer, report>>
  BY DEF Looping
<1>2. loop \notin {"start", "refused", "evade", "hosts", "weave", "captured", "detect", "done"}
  BY DEF Loops
<1>3. Asked'
  BY <1>1 DEF IInv, Asked
<1>4. ClientsFound'
  BY <1>1 DEF IInv, ClientsFound
<1>5. Settled'
  BY <1>1, <1>2 DEF IInv, Settled
<1>6. Limit' = Limit
  BY <1>1 DEF Limit
<1>7. Behind = Len(capture) /\ Behind' = Len(capture')
  BY <1>1, <1>2 DEF Behind, Woven
<1>8. ~Woven /\ ~Woven'
  BY <1>1, <1>2 DEF Woven
<1> DEFINE hosts == ToSet(clients)
           l == Len(capture)
           limit == Limit
<1>9. /\ IsSeq(capture) /\ l \in Nat /\ n \in Nat
      /\ \A i \in 1..l : \E k, m : MadeBy(capture[i], k, m, loop, n, limit, hosts)
      /\ \A i, j \in 1..l : capture[i].id = capture[j].id => i = j
  BY <1>1, <1>7 DEF IInv, Surrounded, Asked
<1> HIDE DEF hosts, l, limit
<1>10. \A f, k, m : MadeBy(f, k, m, loop, n, limit, hosts) =>
                      MadeBy(f, k, m, loop, n + 1, limit, hosts) /\ f.id # Id(loop, n)
  BY <1>9, ReachedOn DEF MadeBy, Around
<1>11. \A i \in 1..l : /\ \E k, m : MadeBy(capture[i], k, m, loop, n + 1, limit, hosts)
                       /\ capture[i].id # Id(loop, n)
  BY <1>9, <1>10
<1>12. /\ phase' = loop /\ n' = n + 1 /\ Limit' = limit /\ ToSet(clients)' = hosts
  BY <1>1, <1>6 DEF limit, hosts
<1>13. ASSUME capture' = capture
       PROVE  Surrounded'
  BY <1>2, <1>7, <1>8, <1>9, <1>11, <1>12, <1>13 DEF Surrounded, l
<1>14. ASSUME NEW f, capture' = Append(capture, f), Around(f, loop, n, ToSet(clients))
       PROVE  Surrounded'
  <2> DEFINE w == Append(capture, f)
  <2>1. /\ IsSeq(w) /\ Len(w) = l + 1 /\ \A i \in 1..l : w[i] = capture[i]
        /\ w[l + 1] = f
    BY <1>9, AppendIs DEF l
  <2> HIDE DEF w
  <2>2. MadeBy(f, loop, n, loop, n + 1, limit, hosts) /\ f.id = Id(loop, n)
    BY <1>1, <1>9, <1>14, ReachedNow DEF MadeBy, Around, limit, hosts
  <2>3. \A i \in 1..(l + 1) : i \in 1..l \/ i = l + 1
    BY <1>9
  <2>4. \A i \in 1..(l + 1) : \E k, m : MadeBy(w[i], k, m, loop, n + 1, limit, hosts)
    BY <1>11, <2>1, <2>2, <2>3
  <2>5. \A i, j \in 1..(l + 1) : w[i].id = w[j].id => i = j
    BY <1>9, <1>11, <2>1, <2>2, <2>3
  <2>6. capture' = w
    BY <1>14 DEF w
  <2> QED BY <1>2, <1>7, <1>8, <1>9, <1>12, <2>1, <2>4, <2>5, <2>6 DEF Surrounded
<1>15. Surrounded'
  BY <1>13, <1>14
<1> QED BY <1>3, <1>4, <1>5, <1>15 DEF IInv

LEMMA LoopsStep ==
  ASSUME IInv, AddNoise \/ Fail \/ Fp
  PROVE  IInv'
<1>1. n \in Nat /\ "noise" \in Loops /\ "fail" \in Loops /\ "fp" \in Loops
  BY DEF IInv, Asked, Loops
<1>2. CASE AddNoise
  <2>1. PICK service : Noise(service)
    BY <1>2 DEF AddNoise
  <2>2. Looping("noise")
    BY <2>1 DEF Noise
  <2>3. \/ capture' = capture
        \/ /\ HasFlow(service)
           /\ \E f \in AmbientFlows(env, service, ToSet(clients), Id("noise", n), NoisePort(n)) :
                capture' = Append(capture, f)
    BY <2>1 DEF Noise
  <2>4. \/ capture' = capture
        \/ \E f : capture' = Append(capture, f) /\ Around(f, "noise", n, ToSet(clients))
    BY <1>1, <2>3, AmbientIs
  <2> QED BY <1>1, <2>2, <2>4, LoopStep
<1>3. CASE Fail
  <2>1. \/ capture' = capture
        \/ \E f \in FailedFlows(ToSet(clients), Id("fail", n), FailPort(n)) :
             capture' = Append(capture, f)
    BY <1>3 DEF Fail
  <2>2. \/ capture' = capture
        \/ \E f : capture' = Append(capture, f) /\ Around(f, "fail", n, ToSet(clients))
    BY <1>1, <2>1, FailedIs
  <2> QED BY <1>1, <1>3, <2>2, LoopStep DEF Fail
<1>4. CASE Fp
  <2>1. \E f \in FpFlows(env, ToSet(clients), Id("fp", n), FpPort(n)) : capture' = Append(capture, f)
    BY <1>4 DEF Fp
  <2>2. \E f : capture' = Append(capture, f) /\ Around(f, "fp", n, ToSet(clients))
    BY <1>1, <2>1, FalseIs
  <2> QED BY <1>1, <1>4, <2>2, LoopStep DEF Fp
<1> QED BY <1>2, <1>3, <1>4

LEMMA LoopedStep ==
  ASSUME IInv, Looped
  PROVE  IInv'
<1>1. /\ phase \in {"noise", "fail", "fp"} /\ n' = 0
      /\ UNCHANGED <<exercise, attack, clients, scan, capture, answer, report>>
      /\ phase' = [noise |-> "fail", fail |-> "fp", fp |-> "weave"][phase]
  BY DEF Looped
<1>2. \/ phase = "noise" /\ phase' = "fail"
      \/ phase = "fail" /\ phase' = "fp"
      \/ phase = "fp" /\ phase' = "weave"
  BY <1>1
<1>3. Asked'
  BY <1>1, <1>2 DEF IInv, Asked, Phases
<1>4. ClientsFound'
  BY <1>1, <1>2 DEF IInv, ClientsFound
<1>5. Settled'
  BY <1>1, <1>2 DEF IInv, Settled
<1>6. Limit' = Limit
  BY <1>1 DEF Limit
<1>7. /\ Behind = Len(capture) /\ Behind' = Len(capture) /\ ~Woven'
  BY <1>1, <1>2 DEF Behind, Woven
<1>8. \A f, k, m : MadeBy(f, k, m, phase, n, Limit, ToSet(clients)) =>
                      MadeBy(f, k, m, phase', 0, Limit, ToSet(clients))
  <2>1. n \in Nat
    BY DEF IInv, Asked
  <2>2. "weave" \notin Loops
    BY DEF Loops
  <2> QED BY <1>2, <2>1, <2>2, ReachedNext DEF MadeBy
<1>9. Surrounded'
  BY <1>1, <1>2, <1>6, <1>7, <1>8 DEF IInv, Surrounded
<1> QED BY <1>3, <1>4, <1>5, <1>9 DEF IInv

LEMMA AttackSeq ==
  ASSUME NEW a, NEW e, IsAttack(a, e)
  PROVE  IsSeq(a.flows)
BY DEF IsAttack, Story, IsSeq

LEMMA WeaveStep ==
  ASSUME IInv, Weave
  PROVE  IInv'
<1>1. /\ phase = "weave" /\ phase' = "captured" /\ capture' = capture \o attack.flows
      /\ UNCHANGED <<exercise, attack, clients, scan, n, answer, report>>
  BY DEF Weave
<1>2. Asked'
  BY <1>1 DEF IInv, Asked, Phases
<1>3. ClientsFound'
  BY <1>1 DEF IInv, ClientsFound
<1>4. Settled'
  BY <1>1 DEF IInv, Settled
<1> DEFINE s == capture
           u == attack.flows
           w == capture \o attack.flows
<1>5. IsSeq(s) /\ IsSeq(u) /\ Len(s) \in Nat /\ Len(u) \in Nat /\ n \in Nat
  BY <1>1, AttackSeq DEF IInv, Surrounded, Asked, IsSeq
<1>6. /\ IsSeq(w) /\ Len(w) = Len(s) + Len(u)
      /\ \A i \in 1..Len(s) : w[i] = s[i]
      /\ \A i \in 1..Len(u) : w[Len(s) + i] = u[i]
  BY <1>5, ConcatIs
<1>7. /\ capture' = w /\ attack'.flows = u
      /\ Limit' = Limit /\ clients' = clients
  BY <1>1 DEF Limit
<1>8. /\ \A i \in 1..Len(s) : \E k, m : MadeBy(s[i], k, m, phase, n, Limit, ToSet(clients))
      /\ \A i, j \in 1..Len(s) : s[i].id = s[j].id => i = j
  BY <1>1 DEF IInv, Surrounded, Behind, Woven
<1> HIDE DEF s, u, w
<1>9. Woven' /\ Behind' = Len(s)
  BY <1>1, <1>5, <1>6, <1>7 DEF Woven, Behind
<1>10. \A f, k, m : MadeBy(f, k, m, phase, n, Limit, ToSet(clients)) =>
                      MadeBy(f, k, m, phase', n', Limit, ToSet(clients))
  <2>1. "captured" \notin Loops
    BY DEF Loops
  <2> QED BY <1>1, <1>5, <2>1, ReachedNext DEF MadeBy
<1>11. Surrounded'
  BY <1>1, <1>5, <1>6, <1>7, <1>8, <1>9, <1>10 DEF Surrounded
<1> QED BY <1>2, <1>3, <1>4, <1>11 DEF IInv

\* Once the attack is woven in.
LEMMA Afterwards ==
  ASSUME IInv, phase \in {"captured", "detect", "done"}, phase' \in {"captured", "detect", "done"},
         UNCHANGED <<exercise, attack, clients, scan, n, capture>>
  PROVE  Asked' /\ ClientsFound' /\ Surrounded' /\ Behind' = Behind /\ Behind \in Nat
<1>1. Asked'
  BY DEF IInv, Asked, Phases
<1>2. ClientsFound'
  BY DEF IInv, ClientsFound
<1>3. Woven /\ Woven' /\ Behind' = Behind
  BY DEF Woven, Behind
<1>4. Limit' = Limit
  BY DEF Limit
<1>5. \A f, k, m : MadeBy(f, k, m, phase, n, Limit, ToSet(clients)) =>
                     MadeBy(f, k, m, phase', n, Limit, ToSet(clients))
  <2>1. phase' \notin Loops /\ n \in Nat
    BY DEF Loops, IInv, Asked
  <2> QED BY <2>1, ReachedNext DEF MadeBy
<1>6. Surrounded'
  BY <1>3, <1>4, <1>5 DEF IInv, Surrounded
<1> QED BY <1>1, <1>2, <1>3, <1>6 DEF IInv, Surrounded

LEMMA GroundTruthStep ==
  ASSUME IInv, WriteGroundTruth
  PROVE  IInv'
<1>1. /\ phase = "captured" /\ phase' = "detect" /\ answer' = MaliciousFlows(attack)
      /\ UNCHANGED <<exercise, attack, clients, scan, n, capture, report>>
  BY DEF WriteGroundTruth
<1>2. Asked' /\ ClientsFound' /\ Surrounded'
  BY <1>1, Afterwards
<1>3. report' = NoReport
  BY <1>1 DEF IInv, Settled
<1>4. /\ DOMAIN report' = {"seen", "tp", "fp", "caught", "missed"}
      /\ Len(report'.seen) = 0 /\ report'.seen = [i \in 1..0 |-> report'.seen[i]]
      /\ report'.tp = 0 /\ report'.fp = 0 /\ report'.caught = {}
  BY <1>3 DEF NoReport
<1>5. IsSeq(report'.seen)
  BY <1>4, EmptyIs
<1>6. Rightly' = {}
  BY <1>4 DEF Rightly
<1>7. Cardinality(Rightly') = 0
  BY <1>6, FS_EmptySet
<1>8. Scored'
  BY <1>1, <1>4, <1>5, <1>6, <1>7 DEF Scored
<1>9. Settled'
  BY <1>1, <1>8 DEF Settled
<1> QED BY <1>2, <1>9 DEF IInv

LEMMA MaxIs ==
  ASSUME NEW L \in Nat, NEW T \in SUBSET (1..L), T # {}
  PROVE  Max(T) \in T /\ \A y \in T : y <= Max(T)
<1> DEFINE S == {L - x : x \in T}
<1>1. S \in SUBSET Nat /\ S # {}
  <2>1. \A x \in T : L - x \in Nat
    OBVIOUS
  <2>2. S \subseteq Nat
    BY <2>1
  <2>3. PICK x : x \in T
    OBVIOUS
  <2>4. L - x \in S
    BY <2>3
  <2> QED BY <2>2, <2>4
<1> HIDE DEF S
<1>2. PICK y \in S : \A z \in S : y <= z
  BY <1>1, LeastNat
<1>3. PICK x \in T : y = L - x
  BY <1>2 DEF S
<1>4. \A z \in T : x >= z
  <2> TAKE z \in T
  <2>1. L - z \in S
    BY DEF S
  <2>2. L - x <= L - z
    BY <1>2, <1>3, <2>1
  <2> QED BY <2>2
<1> QED BY <1>4 DEF Max

LEMMA PairsMeet ==
  ASSUME NEW x, x = <<x[1], x[2]>>
  PROVE  Pair(Reverse(x)) = Pair(x)
<1> DEFINE a == x[1]
           b == x[2]
<1>1. x = <<a, b>>
  OBVIOUS
<1> HIDE DEF a, b
<1>2. Len(x) = 2
  BY <1>1
<1>3. Reverse(x)[1] = x[2] /\ Reverse(x)[2] = x[1]
  BY <1>2 DEF Reverse
<1> QED BY <1>3 DEF Pair

\* What an alert on a flow hits in the answer key.
LEMMA AlertIs ==
  ASSUME IInv, phase = "detect", NEW k \in DOMAIN capture,
         NEW ends \in {capture[k].ends, Reverse(capture[k].ends)}
  PROVE  /\ IsStory(k) => Hits(ends) # {}
         /\ Strangers /\ ~IsStory(k) => Hits(ends) = {}
         /\ IsStory(k) /\ ~PairsShared => Credited(ends) = TechniqueOf(attack, capture[k].id)
         /\ IsStory(k) <=> k > Behind
<1> DEFINE u == attack.flows
           L == Len(u)
           B == Behind
<1>1. /\ L \in Nat /\ B \in Nat /\ Len(capture) = B + L /\ k \in 1..Len(capture)
      /\ DOMAIN u = 1..L /\ IsAttack(attack, env)
      /\ \A i \in 1..L : capture[B + i] = u[i] /\ StoryFlow(u[i], env)
  <2>1. IsAttack(attack, env) /\ IsSeq(capture) /\ Woven
    BY DEF IInv, Asked, Surrounded, Woven
  <2>2. StoryFlows(attack, env) /\ DOMAIN u = 1..L /\ L \in Nat
    BY <2>1, AttackFlows
  <2>3. Len(capture) \in Nat /\ k \in 1..Len(capture) /\ B = Len(capture) - L /\ B \in Nat
    BY <2>1 DEF IsSeq, Behind, IInv, Surrounded
  <2>4. \A i \in 1..L : capture[B + i] = u[i]
    BY <2>1 DEF IInv, Surrounded
  <2>5. \A i \in 1..L : StoryFlow(u[i], env)
    BY <2>2 DEF StoryFlows
  <2> HIDE DEF u, L, B
  <2> QED BY <2>1, <2>2, <2>3, <2>4, <2>5
<1>2. /\ DOMAIN answer = 1..L
      /\ \A i \in 1..L : answer[i].ends = u[i].ends /\ answer[i].technique = TechniqueOf(attack, u[i].id)
  <2>1. answer = MaliciousFlows(attack)
    BY DEF IInv, Settled
  <2> QED BY <1>1, <2>1 DEF MaliciousFlows
<1>3. IsStory(k) <=> k > B
  <2>1. Len(capture) - L = B
    BY <1>1
  <2> QED BY <2>1 DEF IsStory
<1>4. k <= B => \E c \in ToSet(clients) : capture[k].ends = <<c, capture[k].ends[2]>>
  <2>1. k <= B => \E loop, m : MadeBy(capture[k], loop, m, phase, n, Limit, ToSet(clients))
    BY <1>1 DEF IInv, Surrounded
  <2> QED BY <2>1 DEF MadeBy, Around
<1>5. k > B => k - B \in 1..L /\ capture[k] = u[k - B]
  <2>1. k > B => k - B \in 1..L /\ k = B + (k - B)
    BY <1>1
  <2> QED BY <1>1, <2>1
<1>6. Pair(ends) = Pair(capture[k].ends)
  <2>1. capture[k].ends = <<capture[k].ends[1], capture[k].ends[2]>>
    <3>1. CASE k <= B
      BY <1>4, <3>1
    <3>2. CASE k > B
      BY <1>1, <1>5, <3>2 DEF StoryFlow
    <3> QED BY <1>1, <3>1, <3>2
  <2> QED BY <2>1, PairsMeet
<1>7. Hits(ends) = {i \in 1..L : Pair(u[i].ends) = Pair(capture[k].ends)}
  BY <1>2, <1>6 DEF Hits
<1> HIDE DEF u, L, B
<1>8. IsStory(k) => k - B \in Hits(ends)
  BY <1>3, <1>5, <1>7
<1>9. ASSUME Strangers, ~IsStory(k), NEW i \in Hits(ends)
      PROVE  FALSE
  <2>1. PICK c \in ToSet(clients) : capture[k].ends = <<c, capture[k].ends[2]>>
    BY <1>1, <1>3, <1>4, <1>9
  <2>2. c \in Pair(capture[k].ends)
    BY <2>1 DEF Pair
  <2>3. c = u[i].ends[1] \/ c = u[i].ends[2]
    BY <1>7, <2>2 DEF Pair
  <2>4. PICK x \in 1..Len(clients) : c = clients[x]
    BY DEF ToSet, IInv, ClientsFound, IsSeq
  <2>5. PICK h : ClientAt(c, h, env, scan)
    BY <2>4 DEF IInv, ClientsFound
  <2>6. h \in Nat /\ h < 1000 /\ c = Host(h) /\ c # env.gateway /\ c # env.dns
    BY <2>5, ExercisesAssumption DEF ClientAt, IInv, Asked
  <2>7. c \notin StoryHosts
    BY <1>9 DEF Strangers
  <2>8. ~Elsewhere(c)
    BY <2>6, <2>7 DEF Elsewhere
  <2>9. StoryFlow(u[i], env)
    BY <1>1, <1>7
  <2> QED BY <2>3, <2>6, <2>8, <2>9 DEF StoryFlow
<1>10. ASSUME IsStory(k), ~PairsShared
       PROVE  Credited(ends) = TechniqueOf(attack, capture[k].id)
  <2> DEFINE j == k - B
             x == Max(Hits(ends))
  <2>1. j \in Hits(ends) /\ Hits(ends) \in SUBSET (1..L) /\ L \in Nat
    BY <1>1, <1>7, <1>8, <1>10
  <2>2. x \in Hits(ends)
    BY <2>1, MaxIs
  <2>3. capture[k].id = u[j].id
    BY <1>3, <1>5, <1>10
  <2> HIDE DEF j, x
  <2>4. j \in DOMAIN answer /\ x \in DOMAIN answer /\ Pair(answer[j].ends) = Pair(answer[x].ends)
    BY <2>1, <2>2 DEF Hits
  <2>5. answer[x].technique = answer[j].technique
    BY <1>10, <2>4 DEF PairsShared
  <2>6. answer[j].technique = TechniqueOf(attack, capture[k].id)
    BY <1>2, <2>3, <2>4
  <2> QED BY <2>5, <2>6 DEF Credited, x
<1> QED BY <1>3, <1>8, <1>9, <1>10 DEF B

LEMMA DetectStep ==
  ASSUME IInv, Detect
  PROVE  IInv'
<1>1. phase = "detect"
  BY DEF Detect
<1>2. PICK k \in DOMAIN capture :
        \E ends \in {capture[k].ends, Reverse(capture[k].ends)} : Alert(k, ends)
  BY DEF Detect
<1>3. PICK ends \in {capture[k].ends, Reverse(capture[k].ends)} : Alert(k, ends)
  BY <1>2
<1>4. UNCHANGED <<exercise, phase, attack, clients, scan, n, capture, answer>>
  BY <1>3 DEF Alert
<1>5. Asked' /\ ClientsFound' /\ Surrounded' /\ Behind' = Behind /\ Behind \in Nat
  BY <1>1, <1>4, Afterwards
<1>6. answer = MaliciousFlows(attack) /\ Scored
  BY <1>1 DEF IInv, Settled
<1> DEFINE seen == report.seen
           w == Append(seen, k)
           l == Len(seen)
           B == Behind
           R == {x \in 1..l : seen[x] > B}
           R2 == {x \in 1..(l + 1) : w[x] > B}
           T(j) == TechniqueOf(attack, capture[j].id)
<1>7. /\ IsSeq(seen) /\ l \in Nat /\ DOMAIN report = {"seen", "tp", "fp", "caught", "missed"}
      /\ \A x \in 1..l : seen[x] \in 1..Len(capture)
      /\ k \in 1..Len(capture) /\ Len(capture) \in Nat /\ B \in Nat
  BY <1>5, <1>6 DEF Scored, IsSeq, IInv, Surrounded
<1>8. /\ IsSeq(w) /\ Len(w) = l + 1 /\ w[l + 1] = k
      /\ \A x \in 1..l : w[x] = seen[x]
  BY <1>7, AppendIs
<1>9. /\ IsStory(k) => Hits(ends) # {}
      /\ Strangers /\ ~IsStory(k) => Hits(ends) = {}
      /\ IsStory(k) /\ ~PairsShared => Credited(ends) = T(k)
      /\ IsStory(k) <=> k > B
  BY <1>1, AlertIs
<1>10. Len(capture) - Len(attack.flows) = B
  BY <1>1 DEF Behind, Woven
<1>11. /\ report'.seen = w /\ DOMAIN report' = {"seen", "tp", "fp", "caught", "missed"}
       /\ Hits(ends) # {} => /\ report'.tp = report.tp + 1 /\ report'.fp = report.fp
                             /\ report'.caught = report.caught \cup {Credited(ends)}
       /\ Hits(ends) = {} => /\ report'.tp = report.tp /\ report'.fp = report.fp + 1
                             /\ report'.caught = report.caught
  BY <1>3, <1>7 DEF Alert
<1>12. Rightly = R
  BY <1>10 DEF Rightly, IsStory
<1> HIDE DEF w, l, B, seen
<1>13. Rightly' = R2
  BY <1>4, <1>8, <1>10, <1>11 DEF Rightly, IsStory
<1>14. \A x \in 1..(l + 1) : x \in 1..l \/ x = l + 1
  BY <1>7
<1>15. l + 1 \notin 1..l /\ l + 1 \in 1..(l + 1) /\ \A x \in 1..l : x \in 1..(l + 1)
  BY <1>7
<1>16. /\ k > B => R2 = R \cup {l + 1}
       /\ ~(k > B) => R2 = R
  BY <1>8, <1>14, <1>15
<1>17. IsFiniteSet(R) /\ l + 1 \notin R
  <2>1. IsFiniteSet(1..l)
    BY <1>7, FS_Interval
  <2>2. R \in SUBSET (1..l)
    OBVIOUS
  <2> QED BY <2>1, <2>2, <1>15, FS_Subset
<1>18. Cardinality(R) \in Nat
  BY <1>17, FS_CardinalityType
<1>19. /\ k > B => Cardinality(R2) = Cardinality(R) + 1
       /\ ~(k > B) => Cardinality(R2) = Cardinality(R)
  BY <1>16, <1>17, FS_AddElement
<1> HIDE DEF R, R2
<1>20. ASSUME Strangers
       PROVE  report'.tp = Cardinality(R2) /\ report'.fp = Len(w) - report'.tp
  <2>1. report.tp = Cardinality(R) /\ report.fp = l - report.tp
    BY <1>6, <1>12, <1>20 DEF Scored, l, seen
  <2>2. CASE k > B
    <3>1. Hits(ends) # {}
      BY <1>9, <2>2
    <3> QED BY <1>7, <1>8, <1>11, <1>18, <1>19, <2>1, <2>2, <3>1
  <2>3. CASE ~(k > B)
    <3>1. Hits(ends) = {}
      BY <1>9, <1>20, <2>3
    <3> QED BY <1>7, <1>8, <1>11, <1>18, <1>19, <2>1, <2>3, <3>1
  <2> QED BY <2>2, <2>3
<1>21. ASSUME Strangers, ~PairsShared
       PROVE  report'.caught = {T(w[x]) : x \in R2}
  <2>1. report.caught = {T(seen[x]) : x \in R}
    BY Zenon, <1>6, <1>12, <1>21 DEF Scored, seen
  <2> HIDE DEF T
  <2>2. \A x \in R : w[x] = seen[x]
    BY <1>8 DEF R
  <2>3. report.caught = {T(w[x]) : x \in R}
    BY <2>1, <2>2
  <2>4. CASE k > B
    <3>1. report'.caught = report.caught \cup {T(k)}
      BY <1>9, <1>11, <1>21, <2>4
    <3> QED BY <1>8, <1>16, <2>3, <2>4, <3>1
  <2>5. CASE ~(k > B)
    <3>1. report'.caught = report.caught
      BY <1>9, <1>11, <1>21, <2>5
    <3> QED BY <1>16, <2>3, <2>5, <3>1
  <2> QED BY <2>4, <2>5
<1>22. Strangers' = Strangers /\ PairsShared' = PairsShared
  BY <1>4 DEF Strangers, PairsShared
<1>23. Strangers' /\ ~PairsShared' =>
         report'.caught = {TechniqueOf(attack', capture'[w[x]].id) : x \in R2}
  BY <1>4, <1>21, <1>22
<1>24. \A x \in 1..(l + 1) : w[x] \in 1..Len(capture)
  BY <1>7, <1>8, <1>14
<1>25. Scored'
  <2>1. Strangers' =>
         /\ report'.tp = Cardinality(Rightly') /\ report'.fp = Len(report'.seen) - report'.tp
         /\ ~PairsShared' =>
              report'.caught = {TechniqueOf(attack', capture'[report'.seen[x]].id) : x \in Rightly'}
    BY <1>11, <1>13, <1>20, <1>22, <1>23
  <2>2. /\ DOMAIN report' = {"seen", "tp", "fp", "caught", "missed"} /\ IsSeq(report'.seen)
        /\ \A x \in 1..Len(report'.seen) : report'.seen[x] \in 1..Len(capture')
    BY <1>4, <1>8, <1>11, <1>24
  <2>3. phase' # "done"
    BY <1>1, <1>4
  <2> QED BY <2>1, <2>2, <2>3 DEF Scored
<1>26. Settled'
  BY <1>1, <1>4, <1>6, <1>25 DEF Settled
<1> QED BY <1>5, <1>26 DEF IInv

LEMMA ScoreStep ==
  ASSUME IInv, Score
  PROVE  IInv'
<1>1. /\ phase = "detect" /\ phase' = "done"
      /\ report' = [report EXCEPT !.missed = Techniques \ report.caught]
      /\ UNCHANGED <<exercise, attack, clients, scan, n, capture, answer>>
  BY DEF Score
<1>2. Asked' /\ ClientsFound' /\ Surrounded'
  BY <1>1, Afterwards
<1>3. answer = MaliciousFlows(attack) /\ Scored
  BY <1>1 DEF IInv, Settled
<1> DEFINE missed == Techniques \ report.caught
<1> HIDE DEF missed
<1>4. report' = [report EXCEPT !.missed = missed]
  BY <1>1 DEF missed
<1>5. /\ DOMAIN report' = {"seen", "tp", "fp", "caught", "missed"}
      /\ report'.seen = report.seen /\ report'.tp = report.tp /\ report'.fp = report.fp
      /\ report'.caught = report.caught /\ report'.missed = missed
  BY <1>3, <1>4 DEF Scored
<1>6. Rightly' = Rightly /\ Strangers' = Strangers /\ PairsShared' = PairsShared
      /\ Techniques' = Techniques
  BY <1>1, <1>5 DEF Rightly, IsStory, Strangers, PairsShared, Techniques
<1>7. Scored'
  BY <1>1, <1>3, <1>5, <1>6 DEF Scored, missed
<1>8. Settled'
  BY <1>1, <1>3, <1>7 DEF Settled
<1> QED BY <1>2, <1>8 DEF IInv

THEOREM InvNext == IInv /\ [Next]_vars => IInv'
<1> SUFFICES ASSUME IInv, [Next]_vars
             PROVE  IInv'
  OBVIOUS
<1>1. CASE UNCHANGED vars
  <2>1. UNCHANGED <<exercise, phase, attack, clients, scan, n, capture, answer, report>>
    BY <1>1 DEF vars
  <2>2. Asked' /\ ClientsFound'
    BY <2>1 DEF IInv, Asked, ClientsFound
  <2>3. Surrounded'
    BY <2>1 DEF IInv, Surrounded, Behind, Woven, Limit
  <2>4. Settled'
    BY <2>1 DEF IInv, Settled, Scored, Rightly, IsStory, Strangers, PairsShared, Techniques
  <2> QED BY <2>2, <2>3, <2>4 DEF IInv
<1>2. CASE Next
  <2>1. CASE Concluded
    BY <1>1, <2>1 DEF Concluded
  <2>2. CASE ~Concluded
    BY <1>2, <2>2, StartStep, ModifyStep, ComposeStep, PickStep, LoopsStep, LoopedStep, WeaveStep,
       GroundTruthStep, DetectStep, ScoreStep DEF Next
  <2> QED BY <2>1, <2>2
<1> QED BY <1>1, <1>2

THEOREM Invariance == Spec => []IInv
<1>1. Init => IInv
  BY InvInit
<1>2. IInv /\ [Next]_vars => IInv'
  BY InvNext
<1> QED BY <1>1, <1>2, PTL DEF Spec

-----------------------------------------------------------------------------
(* What follows. *)

\* A flow of the capture is of the noise or of the attack.
LEMMA PlaceIs ==
  ASSUME IInv, NEW i \in DOMAIN capture
  PROVE  \/ /\ i \in 1..Behind
            /\ \E loop, m : MadeBy(capture[i], loop, m, phase, n, Limit, ToSet(clients))
         \/ /\ Woven /\ IsAttack(attack, env) /\ i - Behind \in DOMAIN attack.flows
            /\ i = Behind + (i - Behind) /\ capture[i] = attack.flows[i - Behind]
            /\ StoryFlow(attack.flows[i - Behind], env)
<1>1. Len(capture) \in Nat /\ Behind \in Nat /\ i \in 1..Len(capture)
  BY DEF IInv, Surrounded, IsSeq
<1>2. CASE i <= Behind
  BY <1>1, <1>2 DEF IInv, Surrounded
<1>3. CASE ~(i <= Behind)
  <2> DEFINE L == Len(attack.flows)
             x == i - Behind
  <2>1. Woven
    BY <1>1, <1>3 DEF Behind
  <2>2. IsAttack(attack, env)
    BY <2>1 DEF IInv, Asked, Woven
  <2>3. DOMAIN attack.flows = 1..L /\ L \in Nat /\ StoryFlows(attack, env)
    BY <2>2, AttackFlows
  <2>4. Behind = Len(capture) - L
    BY <2>1 DEF Behind
  <2> HIDE DEF L
  <2>5. x \in 1..L /\ i = Behind + x
    BY <1>1, <1>3, <2>3, <2>4
  <2>6. capture[i] = attack.flows[x]
    BY <2>1, <2>5 DEF IInv, Surrounded, L
  <2> HIDE DEF x
  <2>7. StoryFlow(attack.flows[x], env)
    BY <2>3, <2>5 DEF StoryFlows
  <2> QED BY <2>1, <2>2, <2>3, <2>5, <2>6, <2>7 DEF x
<1> QED BY <1>2, <1>3

\* Whatever is asked for, a capture's clients are different addresses of the subnet, neither its
\* gateway nor its name server, and all its flows have ports of 16 bits (compose.py:298).
THEOREM WellFormed == Spec => []TypeOK
<1>1. IInv => TypeOK
  <2> SUFFICES ASSUME IInv
               PROVE  TypeOK
    OBVIOUS
  <2>1. /\ phase \in {"start", "refused", "evade", "hosts", "noise", "fail", "fp", "weave",
                      "captured", "detect", "done"}
        /\ n \in Nat /\ scan \in 20..MaxScan
    BY ExercisesAssumption DEF IInv, Asked, Phases
  <2>2. IsInjective(clients)
    BY DEF IInv, ClientsFound, IsSeq, IsInjective
  <2>3. ASSUME NEW i \in DOMAIN clients
        PROVE  \E k \in 20..MaxScan : clients[i] = Host(k) /\ k < env.size
                                      /\ clients[i] \notin {env.gateway, env.dns}
    <3>1. PICK k : ClientAt(clients[i], k, env, scan)
      BY DEF IInv, ClientsFound, IsSeq
    <3>2. k \in 20..MaxScan
      BY <3>1, ExercisesAssumption DEF ClientAt, IInv, Asked
    <3> QED BY <3>1, <3>2 DEF ClientAt
  <2>4. ASSUME NEW i \in DOMAIN capture
        PROVE  capture[i].sport \in Port /\ capture[i].dport \in Port
    <3>1. CASE \E loop, m : MadeBy(capture[i], loop, m, phase, n, Limit, ToSet(clients))
      BY <3>1 DEF MadeBy, Around
    <3>2. CASE /\ IsAttack(attack, env) /\ i - Behind \in DOMAIN attack.flows
               /\ capture[i] = attack.flows[i - Behind] /\ StoryFlow(attack.flows[i - Behind], env)
      BY <3>2 DEF IsAttack, Ported, StoryFlow
    <3> QED BY <3>1, <3>2, PlaceIs
  <2> QED BY <2>1, <2>2, <2>3, <2>4 DEF TypeOK, Port
<1> QED BY <1>1, Invariance, PTL

\* However often and in whatever order an attack is evaded, the answer key and the identities, the
\* hosts, the ports, the kinds and the endings of its flows stay, and their order in time
\* (scenarios.py:1135).
THEOREM StoryKept == Spec => EvasionsKeepTheStory
<1> DEFINE Keeps ==
      phase = "evade" /\ phase' = "evade" =>
       LET was == attack.flows
           is == attack'.flows
       IN  /\ attack'.key = attack.key /\ DOMAIN is = DOMAIN was
           /\ \A i \in DOMAIN was :
                /\ is[i].id = was[i].id /\ is[i].ends = was[i].ends /\ is[i].sport = was[i].sport
                /\ is[i].kind = was[i].kind /\ is[i].state = was[i].state
           /\ \A i, j \in DOMAIN was : was[i].t < was[j].t => is[i].t < is[j].t
<1>1. IInv /\ [Next]_vars => [Keeps]_vars
  <2> SUFFICES ASSUME IInv, Next, phase = "evade", phase' = "evade", vars' # vars
               PROVE  Keeps
    OBVIOUS
  <2>1. \E ev : Evade(ev)
    <3>1. Modify
      BY DEF Next, Start, Compose, PickHost, HostsPicked, AddNoise, Fail, Fp, Looping, Looped, Weave,
             WriteGroundTruth, Detect, Score, Concluded
    <3> QED BY <3>1 DEF Modify, RefuseEvasion
  <2>2. Kept(attack', attack)
    BY <2>1, EvadeStep
  <2> QED BY <2>2 DEF Kept, FlowKept, OrderKept
<1>2. Spec => [][Keeps]_vars
  BY <1>1, Invariance, PTL DEF Spec
<1> QED BY <1>2 DEF EvasionsKeepTheStory

\* Every flow of the storyline, evaded however often, and every flow of the noise around it is a
\* flow the model loads, the renderers can render and the capture of which says what it asks for
\* (scenarios.py:1138, compose.py:169).
THEOREM EveryFlowReads == Spec => []EveryFlowReadsBack
<1>1. IInv => EveryFlowReadsBack
  <2> SUFFICES ASSUME IInv
               PROVE  EveryFlowReadsBack
    OBVIOUS
  <2>1. ASSUME phase = "evade", NEW f \in ToSet(attack.flows)
        PROVE  Reads(f)
    <3>1. IsAttack(attack, env)
      BY <2>1 DEF IInv, Asked
    <3>2. PICK i \in DOMAIN attack.flows : f = attack.flows[i]
      BY DEF ToSet
    <3>3. StoryFlows(attack, env)
      BY <3>1, AttackFlows
    <3>4. StoryFlow(f, env)
      BY <3>2, <3>3 DEF StoryFlows
    <3> QED BY <3>4, ReadsIs DEF StoryFlow, Saying
  <2>2. ASSUME phase \in {"noise", "fail", "fp"}, capture # <<>>
        PROVE  Reads(Last(capture))
    <3>1. Behind = Len(capture) /\ IsSeq(capture) /\ Behind \in Nat
      BY <2>2 DEF IInv, Surrounded, Behind, Woven
    <3>2. Len(capture) # 0
      BY <2>2, <3>1 DEF IsSeq
    <3>3. Len(capture) \in 1..Behind
      BY <3>1, <3>2
    <3>4. PICK loop, m : MadeBy(capture[Len(capture)], loop, m, phase, n, Limit, ToSet(clients))
      BY <3>3 DEF IInv, Surrounded
    <3> QED BY <3>4 DEF MadeBy, Around, Last
  <2>3. \A f : Reads(f) => IsFlow(f) /\ ~Raises(f) /\ Sayable(f)
    BY DEF Reads
  <2>4. CASE phase = "evade"
    BY <2>1, <2>3, <2>4 DEF EveryFlowReadsBack
  <2>5. CASE phase \in {"noise", "fail", "fp"} /\ capture # <<>>
    BY <2>2, <2>3, <2>5 DEF EveryFlowReadsBack
  <2>6. CASE phase # "evade" /\ ~(phase \in {"noise", "fail", "fp"} /\ capture # <<>>)
    BY <2>6 DEF EveryFlowReadsBack
  <2> QED BY <2>4, <2>5, <2>6
<1> QED BY <1>1, Invariance, PTL

\* The technique of a flow is that of the one entry that names it.
LEMMA TechniqueIs ==
  ASSUME NEW a, NEW ids, Keyed(a.key, ids), NEW x \in ids
  PROVE  TechniqueOf(a, x) = None <=> x = Unnamed
<1> DEFINE N == {k \in DOMAIN a.key : x \in ToSet(a.key[k].ids)}
<1>1. TechniqueOf(a, x) = IF N = {} THEN None ELSE a.key[Max(N)].technique
  BY DEF TechniqueOf
<1>2. N = {} <=> x = Unnamed
  BY DEF Keyed
<1>3. ASSUME NEW k \in N
      PROVE  a.key[Max(N)].technique # None
  <2>1. \A l \in N : l = k
    BY DEF Keyed
  <2>2. k \in Nat /\ a.key[k].technique # None
    BY NoneAssumption DEF Keyed
  <2> HIDE DEF N
  <2>3. Max(N) = k
    BY <2>1, <2>2 DEF Max
  <2> QED BY <2>2, <2>3
<1> HIDE DEF N
<1> QED BY <1>1, <1>2, <1>3

\* In every exercise, each entry of the key names flows of the storyline, no flow is in two
\* entries, every flow but the endpoint lookup of psexec has a technique, and once woven in an
\* identity of the storyline is carried by exactly one flow of the capture (scenarios.py:160).
THEOREM KeyIsRight == Spec => []AnswerKey
<1>1. IInv => AnswerKey
  <2> SUFFICES ASSUME IInv, phase \in {"evade", "captured"}
               PROVE  AnswerKey
    BY DEF AnswerKey
  <2> DEFINE u == attack.flows
             ids == {u[i].id : i \in DOMAIN u}
             named == [k \in DOMAIN attack.key |-> ToSet(attack.key[k].ids)]
  <2>1. IsAttack(attack, env)
    BY DEF IInv, Asked
  <2>2. Keyed(attack.key, ids)
    BY <2>1 DEF IsAttack, IdsOf
  <2>3. /\ \A k \in DOMAIN named : named[k] # {} /\ named[k] \subseteq ids
        /\ \A k, l \in DOMAIN named : k # l => named[k] \cap named[l] = {}
    BY <2>2 DEF Keyed
  <2>4. \A x \in ids : TechniqueOf(attack, x) = None <=> x = Unnamed
    BY <2>2, TechniqueIs
  <2>5. ASSUME phase = "captured", NEW x \in ids
        PROVE  Cardinality({k \in DOMAIN capture : capture[k].id = x}) = 1
    <3> DEFINE S == {k \in DOMAIN capture : capture[k].id = x}
    <3>1. PICK names : Story(u, env, names) /\ names \cap Loops = {}
      BY <2>1 DEF IsAttack
    <3>2. PICK i \in DOMAIN u : x = u[i].id
      OBVIOUS
    <3> DEFINE h == Behind + i
    <3>3. /\ DOMAIN u = 1..Len(u) /\ Len(u) \in Nat /\ Behind \in Nat
          /\ Len(capture) = Behind + Len(u) /\ DOMAIN capture = 1..Len(capture)
          /\ \A k \in 1..Len(u) : capture[Behind + k] = u[k]
      BY <2>5, <3>1 DEF Story, IInv, Surrounded, Behind, Woven, IsSeq
    <3> HIDE DEF u
    <3>4. h \in DOMAIN capture /\ capture[h].id = x
      BY <3>2, <3>3
    <3>5. ASSUME NEW k \in DOMAIN capture, capture[k].id = x
          PROVE  k = h
      <4>1. CASE \E loop, m : MadeBy(capture[k], loop, m, phase, n, Limit, ToSet(clients))
        <5>1. PICK loop, m : loop \in Loops /\ x = Id(loop, m)
          BY <3>5, <4>1 DEF MadeBy, Around, Reached
        <5>2. x[1] \in names
          BY <3>1, <3>2, <3>3 DEF Story
        <5> QED BY <3>1, <5>1, <5>2 DEF Id
      <4>2. CASE k - Behind \in DOMAIN u /\ k = Behind + (k - Behind) /\ capture[k] = u[k - Behind]
        <5>1. u[k - Behind].id = u[i].id
          BY <3>2, <3>5, <4>2
        <5>2. k - Behind = i
          BY <3>1, <3>2, <3>3, <4>2, <5>1 DEF Story
        <5> QED BY <4>2, <5>2
      <4> QED BY <4>1, <4>2, PlaceIs DEF u
    <3>6. S = {h}
      BY <3>4, <3>5
    <3> QED BY <3>6, FS_Singleton
  <2> HIDE DEF u
  <2> QED BY <2>3, <2>4, <2>5 DEF AnswerKey, u
<1> QED BY <1>1, Invariance, PTL

\* With clients that are no hosts of the storyline every alert counts for what its flow is, and
\* where no two stages run between the same hosts a technique is caught exactly if one of its
\* flows was alerted on; nothing is both caught and missed (detect.py:9).
THEOREM CreditIsFair == Spec => []DetectionIsFair
<1>1. IInv => DetectionIsFair
  <2> SUFFICES ASSUME IInv, phase = "done"
               PROVE  DetectionIsFair
    BY DEF DetectionIsFair
  <2> DEFINE seen == report.seen
             right == {k \in ToSet(seen) : IsStory(k)}
             T(k) == TechniqueOf(attack, capture[k].id)
  <2>1. Scored
    BY DEF IInv, Settled
  <2>2. DOMAIN seen = 1..Len(seen) /\ Len(seen) \in Nat
    BY <2>1 DEF Scored, IsSeq
  <2>3. {x \in DOMAIN seen : seen[x] \in right} = Rightly
    BY <2>2 DEF Rightly, ToSet
  <2>4. right = {seen[x] : x \in Rightly}
    BY <2>2 DEF Rightly, ToSet
  <2> HIDE DEF right
  <2>5. ASSUME Strangers
        PROVE  /\ report.tp = Cardinality({x \in DOMAIN seen : seen[x] \in right})
               /\ report.fp = Len(seen) - report.tp
    BY <2>1, <2>3, <2>5 DEF Scored
  <2>6. ASSUME Strangers, ~PairsShared
        PROVE  report.caught = {T(k) : k \in right}
    <3>1. report.caught = {T(seen[x]) : x \in Rightly}
      BY Zenon, <2>1, <2>6 DEF Scored
    <3> HIDE DEF T, seen
    <3> QED BY <2>4, <3>1
  <2>7. report.missed = Techniques \ report.caught
    BY <2>1 DEF Scored
  <2> HIDE DEF seen
  <2> QED BY <2>5, <2>6, <2>7 DEF DetectionIsFair, Strangers, right, seen
<1> QED BY <1>1, Invariance, PTL

LEMMA RoundIs ==
  ASSUME NEW p \in Nat, NEW q \in Nat, q > 0
  PROVE  Round(p, q) \in Nat
<1>1. p \div q \in Nat
  OBVIOUS
<1> QED BY <1>1 DEF Round

\* The loops of a sparse exercise take different ports.
LEMMA PortsApart ==
  ASSUME IInv, phase = "captured", Sparse, NEW a, NEW m, NEW b, NEW l,
         Reached(a, m, phase, n, Limit), Reached(b, l, phase, n, Limit), LoopPort(a, m) = LoopPort(b, l)
  PROVE  a = b /\ m = l
<1>1. /\ FirstNoise \in Nat /\ NoiseSpan \in Nat /\ FirstFail \in Nat /\ FailSpan \in Nat
      /\ FirstFp \in Nat /\ FpSpan \in Nat /\ NoiseSpan > 0 /\ FailSpan > 0 /\ FpSpan > 0
      /\ FirstNoise <= FirstFp /\ FirstFp + FpSpan <= FirstFail
      /\ FirstFail + FailSpan <= FirstNoise + NoiseSpan
  <2>1. FirstStory \in Nat
    BY PortsAssumption
  <2> QED BY <2>1, PortsAssumption
<1>2. exercise \in Exercises /\ exercise.noise \in Nat /\ exercise.duration \in Nat
  BY ExerciseIs DEF IInv, Asked
<1> DEFINE F == Failures(exercise.noise)
           P == FalsePositives(exercise.duration)
<1>3. F \in Nat /\ P \in Nat
  BY <1>2, RoundIs DEF Failures, FalsePositives
<1>4. exercise.noise <= FirstFp - FirstNoise /\ F <= FailSpan /\ P <= FpSpan
  BY DEF Sparse
<1>5. Limit["noise"] = exercise.noise /\ Limit["fail"] = F /\ Limit["fp"] = P
  BY DEF Limit
<1> HIDE DEF F, P
<1>6. ASSUME NEW k, NEW x, Reached(k, x, phase, n, Limit)
      PROVE  /\ x \in Nat
             /\ \/ k = "noise" /\ LoopPort(k, x) = FirstNoise + x /\ LoopPort(k, x) < FirstFp
                \/ k = "fail" /\ LoopPort(k, x) = FirstFail + x
                \/ /\ k = "fp" /\ LoopPort(k, x) = FirstFp + x
                   /\ FirstFp <= LoopPort(k, x) /\ LoopPort(k, x) < FirstFail
  <2>1. x \in Nat /\ x < Limit[k] /\ k \in Loops
    BY <1>6 DEF Reached
  <2>2. CASE k = "noise"
    <3>1. x < FirstFp - FirstNoise /\ x < NoiseSpan
      BY <1>1, <1>2, <1>4, <1>5, <2>1, <2>2
    <3>2. x % NoiseSpan = x
      BY <1>1, <2>1, <3>1
    <3>3. LoopPort(k, x) = FirstNoise + x
      BY <2>2, <3>2 DEF LoopPort, NoisePort
    <3> QED BY <1>1, <2>1, <2>2, <3>1, <3>3
  <2>3. CASE k = "fail"
    <3>1. x < FailSpan
      BY <1>1, <1>3, <1>4, <1>5, <2>1, <2>3
    <3>2. x % FailSpan = x
      BY <1>1, <2>1, <3>1
    <3>3. LoopPort(k, x) = FirstFail + x
      BY <2>3, <3>2 DEF LoopPort, FailPort
    <3> QED BY <2>1, <2>3, <3>3
  <2>4. CASE k = "fp"
    <3>1. x < FpSpan
      BY <1>1, <1>3, <1>4, <1>5, <2>1, <2>4
    <3>2. x % FpSpan = x
      BY <1>1, <2>1, <3>1
    <3>3. LoopPort(k, x) = FirstFp + x
      BY <2>4, <3>2 DEF LoopPort, FpPort
    <3> QED BY <1>1, <2>1, <2>4, <3>1, <3>3
  <2> QED BY <2>1, <2>2, <2>3, <2>4 DEF Loops
<1> DEFINE y == LoopPort(a, m)
           z == LoopPort(b, l)
<1>7. /\ m \in Nat /\ l \in Nat /\ y = z
      /\ \/ a = "noise" /\ y = FirstNoise + m /\ y < FirstFp
         \/ a = "fail" /\ y = FirstFail + m
         \/ a = "fp" /\ y = FirstFp + m /\ FirstFp <= y /\ y < FirstFail
      /\ \/ b = "noise" /\ z = FirstNoise + l /\ z < FirstFp
         \/ b = "fail" /\ z = FirstFail + l
         \/ b = "fp" /\ z = FirstFp + l /\ FirstFp <= z /\ z < FirstFail
  BY <1>6
<1> HIDE DEF y, z
<1> QED BY <1>1, <1>7

\* No two flows of a sparse capture are the same connection, leases, pings and the random sources
\* of a flood apart (compose.py:521).
THEOREM ConnectionsApart == Spec => []TuplesApart
<1>1. IInv => TuplesApart
  <2> SUFFICES ASSUME IInv, phase = "captured", Sparse, NEW i \in DOMAIN capture,
                      NEW j \in DOMAIN capture, i < j, Tuple(capture[i]) = Tuple(capture[j])
               PROVE  Portless(capture[i]) \/ (Flooded(capture[i]) /\ Flooded(capture[j]))
    BY DEF TuplesApart
  <2> DEFINE f == capture[i]
             g == capture[j]
  <2>1. f.transport = g.transport /\ f.ends = g.ends /\ f.sport = g.sport /\ f.dport = g.dport
    BY DEF Tuple
  <2> DEFINE Noisy(k) == \E loop, m : MadeBy(capture[k], loop, m, phase, n, Limit, ToSet(clients))
             Malicious(k) == /\ IsAttack(attack, env) /\ k - Behind \in DOMAIN attack.flows
                             /\ k = Behind + (k - Behind) /\ capture[k] = attack.flows[k - Behind]
                             /\ StoryFlow(attack.flows[k - Behind], env)
  <2>2. /\ (i \in 1..Behind /\ Noisy(i)) \/ Malicious(i)
        /\ (j \in 1..Behind /\ Noisy(j)) \/ Malicious(j)
    BY PlaceIs
  <2>3. ASSUME NEW k \in DOMAIN capture, NEW l \in DOMAIN capture, Noisy(k), Malicious(l)
        PROVE  capture[k].ends # capture[l].ends
    <3>1. PICK c \in ToSet(clients) : capture[k].ends[1] = c
      BY <2>3 DEF MadeBy, Around
    <3>2. PICK x \in 1..Len(clients) : c = clients[x]
      BY DEF ToSet, IInv, ClientsFound, IsSeq
    <3>3. PICK h : ClientAt(c, h, env, scan)
      BY <3>2 DEF IInv, ClientsFound
    <3>4. h \in Nat /\ h < 1000 /\ c = Host(h)
      BY <3>3, ExercisesAssumption DEF ClientAt, IInv, Asked
    <3>5. c \notin StoryHosts
      BY DEF Sparse
    <3>6. ~Elsewhere(c)
      BY <3>4, <3>5 DEF Elsewhere
    <3>7. Elsewhere(capture[l].ends[1])
      BY <2>3 DEF StoryFlow
    <3> QED BY <3>1, <3>6, <3>7
  <2>4. CASE Malicious(i) /\ Malicious(j)
    <3>1. i - Behind # j - Behind
      <4>1. Behind \in Nat /\ i \in Nat /\ j \in Nat
        BY DEF IInv, Surrounded, IsSeq
      <4> HIDE DEF Malicious, Noisy
      <4> QED BY <4>1
    <3>2. Ported(attack.flows)
      BY <2>4 DEF IsAttack
    <3> QED BY <2>1, <2>4, <3>1, <3>2 DEF Ported
  <2>5. CASE i \in 1..Behind /\ Noisy(i) /\ j \in 1..Behind /\ Noisy(j)
    <3>1. PICK a, m : Reached(a, m, phase, n, Limit) /\ Around(f, a, m, ToSet(clients))
      BY <2>5 DEF MadeBy
    <3>2. PICK b, l : Reached(b, l, phase, n, Limit) /\ Around(g, b, l, ToSet(clients))
      BY <2>5 DEF MadeBy
    <3>3. f.id # g.id
      BY <2>5 DEF IInv, Surrounded
    <3>4. CASE Portless(f)
      BY <3>4
    <3>5. CASE ~Portless(f) /\ Portless(g)
      BY <2>1, <3>1, <3>2, <3>5 DEF Around
    <3>6. CASE ~Portless(f) /\ ~Portless(g)
      <4>1. LoopPort(a, m) = LoopPort(b, l)
        BY <2>1, <3>1, <3>2, <3>6 DEF Around
      <4>2. a = b /\ m = l
        BY <3>1, <3>2, <4>1, PortsApart
      <4> QED BY <3>1, <3>2, <3>3, <4>2 DEF Around
    <3> QED BY <3>4, <3>5, <3>6
  <2> QED BY <2>1, <2>2, <2>3, <2>4, <2>5
<1> QED BY <1>1, Invariance, PTL

-----------------------------------------------------------------------------
(* The notes of the answer key. *)

TlsOf(a) == {i \in DOMAIN a.flows : a.flows[i].kind = "tls"}
Among(evs, ev) == {k \in DOMAIN evs : evs[k] = ev}
AllNamed(a, x) == \A i \in TlsOf(a) : a.flows[i].given.server_name = x

\* The channels name the C2 domain until fronting renames all of them.
Pinned(a, evs) ==
  "c2_domain" \in DOMAIN a.iocs =>
    /\ a.iocs.c2_domain = "c2" /\ (AllNamed(a, "c2") \/ AllNamed(a, "front"))
    /\ Among(evs, "domain-fronting") = {} => AllNamed(a, "c2")

\* What each note says of the flows.
FrontNote(a) ==
  "note_domain_fronting" \in DOMAIN a.iocs =>
    /\ "fronted_flows" \in DOMAIN a.iocs
    /\ a.iocs.fronted_flows
         = Cardinality({i \in TlsOf(a) : a.flows[i].given.server_name = "front"})
Unseen(a, evs) ==
  /\ "c2_domain" \in DOMAIN a.iocs
  /\ \E k \in Among(evs, "domain-fronting") : \E l \in Among(evs, "port-hopping") : k < l
HopNote(a, evs) ==
  "note_port_hopping" \in DOMAIN a.iocs =>
    Unseen(a, evs) \/ \A i \in TlsOf(a) : a.flows[i].dport = a.iocs.note_port_hopping
SlowNote(a) ==
  "note_slow_and_low" \in DOMAIN a.iocs => a.iocs.note_slow_and_low = 12
DeepNote(a) ==
  "note_dns_depth" \in DOMAIN a.iocs =>
    \A i \in DOMAIN a.flows : a.flows[i].kind = "dns" => a.flows[i].given.qname[1] <= 15

Noting(a, evs) ==
  Pinned(a, evs) /\ FrontNote(a) /\ HopNote(a, evs) /\ SlowNote(a) /\ DeepNote(a)

\* What an evasion leaves of what the notes are about.
Kindred(b, a) ==
  DOMAIN b.flows = DOMAIN a.flows /\ \A i \in DOMAIN a.flows : b.flows[i].kind = a.flows[i].kind
NamesKept(b, a) ==
  \A i \in DOMAIN a.flows :
    a.flows[i].kind = "tls" => b.flows[i].given.server_name = a.flows[i].given.server_name
DportsKept(b, a) == \A i \in DOMAIN a.flows : b.flows[i].dport = a.flows[i].dport
TimesKept(b, a) == \A i \in DOMAIN a.flows : b.flows[i].t = a.flows[i].t
AsksKept(b, a) == \A i \in DOMAIN a.flows : a.flows[i].kind = "dns" => b.flows[i].given = a.flows[i].given
Same(b, a, y) ==
  /\ y \in DOMAIN b.iocs <=> y \in DOMAIN a.iocs
  /\ y \in DOMAIN a.iocs => b.iocs[y] = a.iocs[y]

LEMMA FilledIs ==
  ASSUME NEW x, NEW d
  PROVE  /\ DOMAIN Filled(x, d) = DOMAIN x \cup DOMAIN d
         /\ \A y \in DOMAIN x : Filled(x, d)[y] = x[y]
         /\ \A y \in DOMAIN d \ DOMAIN x : Filled(x, d)[y] = d[y]
BY DEF Filled

LEMMA SameIs ==
  ASSUME NEW a, NEW b, NEW u, NEW x, Became(b, a, u, x)
  PROVE  /\ \A y : y \notin DOMAIN x => Same(b, a, y)
         /\ \A y \in DOMAIN x : y \in DOMAIN b.iocs /\ b.iocs[y] = x[y]
<1> DEFINE d == a.iocs
           g == b.iocs
<1>1. g = Filled(x, d)
  BY DEF Became
<1> HIDE DEF d, g
<1>2. /\ DOMAIN Filled(x, d) = DOMAIN x \cup DOMAIN d
      /\ \A y \in DOMAIN x : Filled(x, d)[y] = x[y]
      /\ \A y \in DOMAIN d \ DOMAIN x : Filled(x, d)[y] = d[y]
  BY FilledIs
<1>3. /\ DOMAIN g = DOMAIN x \cup DOMAIN d
      /\ \A y \in DOMAIN x : g[y] = x[y]
      /\ \A y \in DOMAIN d \ DOMAIN x : g[y] = d[y]
  BY <1>1, <1>2
<1> QED BY <1>3 DEF Same, d, g

LEMMA AmongIs ==
  ASSUME NEW evs, IsSeq(evs), NEW ev, NEW x
  PROVE  /\ Among(evs, x) \subseteq 1..Len(evs) /\ Len(evs) \in Nat
         /\ Among(Append(evs, ev), x) = Among(evs, x) \cup (IF ev = x THEN {Len(evs) + 1} ELSE {})
         /\ IsSeq(Append(evs, ev))
<1> DEFINE w == Append(evs, ev)
<1>1. DOMAIN evs = 1..Len(evs) /\ Len(evs) \in Nat
  BY DEF IsSeq
<1>2. /\ IsSeq(w) /\ Len(w) = Len(evs) + 1 /\ \A i \in 1..Len(evs) : w[i] = evs[i]
      /\ w[Len(evs) + 1] = ev
  BY AppendIs
<1> HIDE DEF w
<1>3. DOMAIN w = 1..(Len(evs) + 1)
  BY <1>2 DEF IsSeq
<1>4. \A i : i \in 1..(Len(evs) + 1) <=> (i \in 1..Len(evs) \/ i = Len(evs) + 1)
  BY <1>1
<1>5. Len(evs) + 1 \notin 1..Len(evs)
  BY <1>1
<1>6. Among(w, x) = Among(evs, x) \cup (IF ev = x THEN {Len(evs) + 1} ELSE {})
  BY <1>1, <1>2, <1>3, <1>4, <1>5 DEF Among
<1> QED BY <1>1, <1>2, <1>6 DEF w, Among

LEMMA TlsAre ==
  ASSUME NEW a, NEW b, Kindred(b, a)
  PROVE  TlsOf(b) = TlsOf(a)
BY DEF Kindred, TlsOf

\* A note stays true while what it is about stays.
LEMMA PinnedKept ==
  ASSUME NEW a, NEW b, NEW evs, IsSeq(evs), NEW ev, Pinned(a, evs),
         Kindred(b, a), NamesKept(b, a), Same(b, a, "c2_domain")
  PROVE  Pinned(b, Append(evs, ev))
<1> DEFINE w == Append(evs, ev)
<1>1. Among(w, "domain-fronting") = {} => Among(evs, "domain-fronting") = {}
  BY AmongIs
<1> HIDE DEF w
<1>2. ASSUME NEW x, AllNamed(a, x)
      PROVE  AllNamed(b, x)
  BY <1>2, TlsAre DEF AllNamed, TlsOf, NamesKept
<1> QED BY <1>1, <1>2 DEF Pinned, Same, w

LEMMA FrontKept ==
  ASSUME NEW a, NEW b, FrontNote(a), Kindred(b, a), NamesKept(b, a),
         Same(b, a, "note_domain_fronting"), Same(b, a, "fronted_flows")
  PROVE  FrontNote(b)
<1> DEFINE S(c) == {i \in TlsOf(c) : c.flows[i].given.server_name = "front"}
<1>1. S(b) = S(a)
  <2>1. TlsOf(b) = TlsOf(a)
    BY TlsAre
  <2>2. \A i \in TlsOf(a) : b.flows[i].given.server_name = a.flows[i].given.server_name
    BY DEF NamesKept, TlsOf
  <2> QED BY <2>1, <2>2
<1> QED BY <1>1 DEF FrontNote, Same

LEMMA HopKept ==
  ASSUME NEW a, NEW b, NEW evs, IsSeq(evs), NEW ev, HopNote(a, evs), Kindred(b, a), DportsKept(b, a),
         Same(b, a, "note_port_hopping"), Same(b, a, "c2_domain")
  PROVE  HopNote(b, Append(evs, ev))
<1> DEFINE w == Append(evs, ev)
<1>1. \A x : Among(evs, x) \subseteq Among(w, x)
  BY AmongIs
<1> HIDE DEF w
<1>2. Unseen(a, evs) => Unseen(b, w)
  BY <1>1 DEF Unseen, Same
<1>3. \A i \in TlsOf(b) : i \in TlsOf(a) /\ b.flows[i].dport = a.flows[i].dport
  BY TlsAre DEF DportsKept, TlsOf
<1> QED BY <1>2, <1>3 DEF HopNote, Same, w

LEMMA SlowKept ==
  ASSUME NEW a, NEW b, SlowNote(a), Same(b, a, "note_slow_and_low")
  PROVE  SlowNote(b)
BY DEF SlowNote, Same

LEMMA DeepKept ==
  ASSUME NEW a, NEW b, DeepNote(a), Kindred(b, a), AsksKept(b, a), Same(b, a, "note_dns_depth")
  PROVE  DeepNote(b)
BY DEF DeepNote, Kindred, AsksKept, Same

\* The beacons that an evasion finds: all channels, or none after fronting.
LEMMA C2Are ==
  ASSUME NEW a, NEW evs, Pinned(a, evs)
  PROVE  \/ C2Flows(a) = TlsOf(a)
         \/ /\ C2Flows(a) = {} /\ "c2_domain" \in DOMAIN a.iocs
            /\ Among(evs, "domain-fronting") # {}
<1>1. CASE "c2_domain" \notin DOMAIN a.iocs
  BY <1>1 DEF C2Flows, TlsOf
<1>2. CASE "c2_domain" \in DOMAIN a.iocs /\ AllNamed(a, "c2")
  BY <1>2 DEF C2Flows, TlsOf, AllNamed, Pinned
<1>3. CASE "c2_domain" \in DOMAIN a.iocs /\ AllNamed(a, "front") /\ ~AllNamed(a, "c2")
  <2>1. C2Flows(a) = {}
    BY <1>3 DEF C2Flows, TlsOf, AllNamed, Pinned
  <2> QED BY <1>3, <2>1 DEF Pinned
<1> QED BY <1>1, <1>2, <1>3 DEF Pinned

LEMMA AlikeIs ==
  ASSUME NEW a, NEW b, NEW u, NEW x, Became(b, a, u, x), Alike(u, a.flows)
  PROVE  Kindred(b, a)
BY DEF Became, Alike, FlowKept, Kindred

\* Each evasion keeps the notes true, and so does what it notes itself.
LEMMA FrontingNotes ==
  ASSUME NEW a, NEW e, StoryFlows(a, e), NEW evs, IsSeq(evs), Noting(a, evs)
  PROVE  Noting(DomainFronting(a), Append(evs, "domain-fronting"))
<1> DEFINE b == DomainFronting(a)
           w == Append(evs, "domain-fronting")
           C == C2Flows(a)
<1>1. Among(w, "domain-fronting") # {} /\ \A x : Among(evs, x) \subseteq Among(w, x)
  BY AmongIs
<1>2. CASE C = {}
  <2>1. b = a
    BY <1>2, FrontingIs
  <2>2. HopNote(a, w)
    BY <1>1 DEF Noting, HopNote, Unseen
  <2>3. Pinned(a, w)
    BY <1>1 DEF Noting, Pinned
  <2> QED BY <2>1, <2>2, <2>3 DEF Noting
<1>3. CASE C # {}
  <2> DEFINE x == [fronted_flows |-> Cardinality(C), note_domain_fronting |-> TRUE]
  <2>1. Became(b, a, Fronted(a), x)
    BY <1>3, FrontingIs
  <2>2. C = TlsOf(a)
    BY <1>3, C2Are DEF Noting
  <2>3. /\ DOMAIN x = {"fronted_flows", "note_domain_fronting"} /\ x.fronted_flows = Cardinality(C)
    OBVIOUS
  <2> HIDE DEF x, b, w, C
  <2>4. /\ Same(b, a, "c2_domain") /\ Same(b, a, "note_port_hopping")
        /\ Same(b, a, "note_slow_and_low") /\ Same(b, a, "note_dns_depth")
        /\ "fronted_flows" \in DOMAIN b.iocs /\ b.iocs.fronted_flows = Cardinality(C)
    BY <2>1, <2>3, SameIs
  <2>5. /\ b.flows = Fronted(a) /\ Alike(Fronted(a), a.flows) /\ Kindred(b, a)
    BY <2>1, FrontedFlows, AlikeIs DEF Became
  <2>6. /\ DportsKept(b, a) /\ TimesKept(b, a) /\ AsksKept(b, a)
        /\ \A i \in TlsOf(a) : b.flows[i].given.server_name = "front"
    BY <2>2, <2>5, FrontedFlows DEF C, DportsKept, TimesKept, AsksKept, C2Flows, TlsOf
  <2>7. TlsOf(b) = TlsOf(a)
    BY <2>5, TlsAre
  <2>8. Pinned(b, w)
    BY <1>1, <2>4, <2>6, <2>7 DEF Noting, Pinned, AllNamed, Same
  <2>9. FrontNote(b)
    <3>1. {i \in TlsOf(b) : b.flows[i].given.server_name = "front"} = C
      BY <2>2, <2>6, <2>7
    <3> QED BY <2>4, <3>1 DEF FrontNote
  <2>10. HopNote(b, w) /\ SlowNote(b) /\ DeepNote(b)
    BY <2>4, <2>5, <2>6, HopKept, SlowKept, DeepKept DEF Noting, w
  <2> QED BY <2>8, <2>9, <2>10 DEF Noting, b, w
<1> QED BY <1>2, <1>3

LEMMA Ja3Notes ==
  ASSUME NEW a, NEW e, StoryFlows(a, e), NEW evs, IsSeq(evs), Noting(a, evs), NEW r, NEW ev
  PROVE  Noting(Ja3Randomization(a, r), Append(evs, ev))
<1> DEFINE b == Ja3Randomization(a, r)
           x == [note_ja3_randomization |-> TRUE]
<1>1. Became(b, a, Disguised(a, r), x)
  BY Ja3Is
<1>2. DOMAIN x = {"note_ja3_randomization"}
  OBVIOUS
<1> HIDE DEF x, b
<1>3. /\ Same(b, a, "c2_domain") /\ Same(b, a, "note_port_hopping") /\ Same(b, a, "fronted_flows")
      /\ Same(b, a, "note_slow_and_low") /\ Same(b, a, "note_dns_depth")
      /\ Same(b, a, "note_domain_fronting")
  BY <1>1, <1>2, SameIs
<1>4. b.flows = Disguised(a, r) /\ Kindred(b, a)
  BY <1>1, DisguisedFlows, AlikeIs DEF Became
<1>5. NamesKept(b, a) /\ DportsKept(b, a) /\ TimesKept(b, a) /\ AsksKept(b, a)
  BY <1>4, DisguisedFlows DEF NamesKept, DportsKept, TimesKept, AsksKept
<1>6. Pinned(b, Append(evs, ev)) /\ FrontNote(b)
  BY <1>3, <1>4, <1>5, PinnedKept, FrontKept DEF Noting
<1>7. HopNote(b, Append(evs, ev)) /\ SlowNote(b) /\ DeepNote(b)
  BY <1>3, <1>4, <1>5, HopKept, SlowKept, DeepKept DEF Noting
<1> QED BY <1>6, <1>7 DEF Noting, b

LEMMA HoppingNotes ==
  ASSUME NEW a, NEW e, StoryFlows(a, e), NEW evs, IsSeq(evs), Noting(a, evs), NEW r, r.hop \in Port
  PROVE  Noting(PortHopping(a, r), Append(evs, "port-hopping"))
<1> DEFINE b == PortHopping(a, r)
           w == Append(evs, "port-hopping")
           x == [note_port_hopping |-> r.hop]
<1>1. Became(b, a, Hopped(a, r), x)
  BY HoppingIs
<1>2. DOMAIN x = {"note_port_hopping"} /\ x.note_port_hopping = r.hop
  OBVIOUS
<1>3. /\ \A y : Among(evs, y) \subseteq Among(w, y) /\ Among(evs, y) \subseteq 1..Len(evs)
      /\ Len(evs) + 1 \in Among(w, "port-hopping") /\ Len(evs) \in Nat
  BY AmongIs
<1> HIDE DEF x, b, w
<1>4. /\ Same(b, a, "c2_domain") /\ Same(b, a, "fronted_flows") /\ Same(b, a, "note_slow_and_low")
      /\ Same(b, a, "note_dns_depth") /\ Same(b, a, "note_domain_fronting")
      /\ "note_port_hopping" \in DOMAIN b.iocs /\ b.iocs.note_port_hopping = r.hop
  BY <1>1, <1>2, SameIs
<1>5. b.flows = Hopped(a, r) /\ Kindred(b, a)
  <2>1. Alike(Hopped(a, r), a.flows)
    BY HoppedFlows
  <2> QED BY <1>1, <2>1, AlikeIs DEF Became
<1>6. /\ NamesKept(b, a) /\ TimesKept(b, a) /\ AsksKept(b, a)
      /\ \A i \in C2Flows(a) : b.flows[i].dport = r.hop
  BY <1>5, HoppedFlows DEF NamesKept, TimesKept, AsksKept, C2Flows
<1>7. TlsOf(b) = TlsOf(a)
  BY <1>5, TlsAre
<1>8. HopNote(b, w)
  <2>1. CASE C2Flows(a) = TlsOf(a)
    BY <1>4, <1>6, <1>7, <2>1 DEF HopNote
  <2>2. CASE "c2_domain" \in DOMAIN a.iocs /\ Among(evs, "domain-fronting") # {}
    <3>1. PICK k \in Among(evs, "domain-fronting") : k \in 1..Len(evs)
      BY <1>3, <2>2
    <3>2. k \in Among(w, "domain-fronting") /\ k < Len(evs) + 1
      BY <1>3, <3>1
    <3> QED BY <1>3, <1>4, <2>2, <3>2 DEF HopNote, Unseen, Same
  <2> QED BY <2>1, <2>2, C2Are DEF Noting
<1>9. Pinned(b, w) /\ FrontNote(b)
  BY <1>4, <1>5, <1>6, PinnedKept, FrontKept DEF Noting, w
<1>10. SlowNote(b) /\ DeepNote(b)
  BY <1>4, <1>5, <1>6, SlowKept, DeepKept DEF Noting
<1> QED BY <1>8, <1>9, <1>10 DEF Noting, b, w

LEMMA SlowNotes ==
  ASSUME NEW a, NEW e, StoryFlows(a, e), NEW evs, IsSeq(evs), Noting(a, evs), NEW ev
  PROVE  Noting(SlowAndLow(a), Append(evs, ev))
<1> DEFINE b == SlowAndLow(a)
           x == [note_slow_and_low |-> 12]
<1>1. Became(b, a, Slowed(a), x)
  BY SlowIs
<1>2. DOMAIN x = {"note_slow_and_low"} /\ x.note_slow_and_low = 12
  OBVIOUS
<1> HIDE DEF x, b
<1>3. /\ Same(b, a, "c2_domain") /\ Same(b, a, "fronted_flows") /\ Same(b, a, "note_port_hopping")
      /\ Same(b, a, "note_dns_depth") /\ Same(b, a, "note_domain_fronting")
      /\ "note_slow_and_low" \in DOMAIN b.iocs /\ b.iocs.note_slow_and_low = 12
  BY <1>1, <1>2, SameIs
<1>4. b.flows = Slowed(a) /\ Kindred(b, a)
  BY <1>1, SlowedFlows, AlikeIs DEF Became
<1>5. NamesKept(b, a) /\ DportsKept(b, a) /\ AsksKept(b, a)
  BY <1>4, SlowedFlows DEF NamesKept, DportsKept, AsksKept
<1>6. SlowNote(b)
  BY <1>3 DEF SlowNote
<1>7. Pinned(b, Append(evs, ev)) /\ FrontNote(b)
  BY <1>3, <1>4, <1>5, PinnedKept, FrontKept DEF Noting
<1>8. HopNote(b, Append(evs, ev)) /\ DeepNote(b)
  BY <1>3, <1>4, <1>5, HopKept, DeepKept DEF Noting
<1> QED BY <1>6, <1>7, <1>8 DEF Noting, b

LEMMA DepthNotes ==
  ASSUME NEW a, NEW e, StoryFlows(a, e), NEW evs, IsSeq(evs), Noting(a, evs), NEW ev
  PROVE  Noting(DnsDepth(a), Append(evs, ev))
<1> DEFINE b == DnsDepth(a)
           w == Append(evs, ev)
<1>1. CASE Asked53(a) = {}
  <2>1. b = a
    BY <1>1, DepthIs
  <2>2. /\ Kindred(a, a) /\ NamesKept(a, a) /\ DportsKept(a, a)
        /\ \A y : Same(a, a, y)
    BY DEF Kindred, NamesKept, DportsKept, Same
  <2>3. Pinned(a, w) /\ HopNote(a, w)
    BY <2>2, PinnedKept, HopKept DEF Noting
  <2> QED BY <2>1, <2>3 DEF Noting
<1>2. CASE Asked53(a) # {}
  <2> DEFINE x == [note_dns_depth |-> TRUE]
  <2>1. Became(b, a, Deepened(a), x)
    BY <1>2, DepthIs
  <2>2. DOMAIN x = {"note_dns_depth"}
    OBVIOUS
  <2> HIDE DEF x, b, w
  <2>3. /\ Same(b, a, "c2_domain") /\ Same(b, a, "fronted_flows") /\ Same(b, a, "note_port_hopping")
        /\ Same(b, a, "note_slow_and_low") /\ Same(b, a, "note_domain_fronting")
    BY <2>1, <2>2, SameIs
  <2>4. b.flows = Deepened(a) /\ Kindred(b, a)
    BY <2>1, DeepenedFlows, AlikeIs DEF Became
  <2>5. /\ NamesKept(b, a) /\ DportsKept(b, a) /\ TimesKept(b, a)
        /\ \A i \in DOMAIN a.flows : a.flows[i].kind = "dns" => b.flows[i].given.qname[1] <= 15
    BY <2>4, DeepenedFlows DEF NamesKept, DportsKept, TimesKept
  <2>6. DeepNote(b)
    BY <2>4, <2>5 DEF DeepNote, Kindred
  <2>7. Pinned(b, w) /\ FrontNote(b)
    BY <2>3, <2>4, <2>5, PinnedKept, FrontKept DEF Noting, w
  <2>8. HopNote(b, w) /\ SlowNote(b)
    BY <2>3, <2>4, <2>5, HopKept, SlowKept DEF Noting, w
  <2> QED BY <2>6, <2>7, <2>8 DEF Noting, b, w
<1> QED BY <1>1, <1>2

LEMMA EvadedNotes ==
  ASSUME NEW a, NEW e, StoryFlows(a, e), NEW evs, IsSeq(evs), Noting(a, evs),
         NEW ev \in EVASIONS, NEW r, r.hop \in Port
  PROVE  Noting(Evaded(a, ev, r), Append(evs, ev))
<1>1. CASE ev = "domain-fronting"
  BY <1>1, FrontingNotes DEF Evaded
<1>2. CASE ev = "ja3-randomization"
  BY <1>2, Ja3Notes DEF Evaded
<1>3. CASE ev = "port-hopping"
  BY <1>3, HoppingNotes DEF Evaded
<1>4. CASE ev = "slow-and-low"
  BY <1>4, SlowNotes DEF Evaded
<1>5. CASE ev = "dns-depth"
  BY <1>5, DepthNotes DEF Evaded
<1> QED BY <1>1, <1>2, <1>3, <1>4, <1>5 DEF EVASIONS

LEMMA NewNotes ==
  ASSUME NEW a, NEW e, IsNew(a, e)
  PROVE  \A evs : Among(evs, "domain-fronting") = {} => Noting(a, evs)
<1>1. DOMAIN a.flows = 1..Len(a.flows)
  BY AttackFlows DEF IsNew
<1>2. /\ DOMAIN a.iocs \subseteq {"c2_domain"}
      /\ "c2_domain" \in DOMAIN a.iocs => a.iocs.c2_domain = "c2" /\ C2Only(a.flows)
  BY DEF IsNew, Known
<1>3. C2Only(a.flows) => AllNamed(a, "c2")
  BY <1>1 DEF C2Only, AllNamed, TlsOf
<1>4. FrontNote(a) /\ SlowNote(a) /\ DeepNote(a) /\ \A evs : HopNote(a, evs)
  BY <1>2 DEF FrontNote, SlowNote, DeepNote, HopNote
<1>5. \A evs : Pinned(a, evs)
  BY <1>2, <1>3 DEF Pinned
<1> QED BY <1>4, <1>5 DEF Noting

\* What else is invariant: the notes are true of the flows.
Noticed(a, evs) == IsSeq(evs) /\ Noting(a, evs)
NInv == Noticed(attack, evasions) /\ (phase = "start" => evasions = <<>>)

LEMMA NotesInit == Init => NInv
<1> SUFFICES ASSUME Init
             PROVE  NInv
  OBVIOUS
<1> DEFINE none == <<>>
<1>1. evasions = none /\ attack = NoAttack
  BY DEF Init
<1>2. Len(none) = 0 /\ none = [i \in 1..0 |-> none[i]] /\ DOMAIN none = {}
  OBVIOUS
<1>3. NoAttack.flows = none /\ NoAttack.iocs = none
  BY DEF NoAttack
<1>4. \A z : Known(z, none)
  BY Unknown
<1> HIDE DEF none
<1>5. IsSeq(none) /\ \A x : Among(none, x) = {}
  BY <1>2, EmptyIs DEF Among
<1>6. IsNew(NoAttack, env)
  BY <1>3, <1>4, NoAttackIs DEF IsNew
<1>7. Noting(NoAttack, none)
  BY <1>5, <1>6, NewNotes
<1> QED BY <1>1, <1>5, <1>7 DEF NInv, Noticed, none

LEMMA NotesNext == IInv /\ NInv /\ [Next]_vars => NInv'
<1> SUFFICES ASSUME IInv, NInv, [Next]_vars
             PROVE  NInv'
  OBVIOUS
<1>1. ASSUME UNCHANGED <<attack, evasions>>, phase' # "start"
      PROVE  NInv'
  BY <1>1 DEF NInv
<1>2. CASE Start
  <2>1. PICK e \in Exercises : Refuse(e) \/ Build(e) \/ Benign(e)
    BY <1>2 DEF Start
  <2>2. CASE Refuse(e) \/ Benign(e)
    BY <1>1, <2>2 DEF Refuse, Benign
  <2>3. CASE Build(e)
    <3>1. IsNew(attack', e.env)
      BY <2>3, BuildIs
    <3>2. UNCHANGED evasions /\ IsSeq(evasions) /\ evasions = <<>> /\ phase' = "evade"
      BY <1>2, <2>3 DEF Build, Start, NInv, Noticed
    <3>3. Among(evasions, "domain-fronting") = {}
      BY <3>2 DEF Among
    <3>4. Noting(attack', evasions)
      BY <3>1, <3>3, NewNotes
    <3> QED BY <3>2, <3>4 DEF NInv, Noticed
  <2> QED BY <2>1, <2>2, <2>3
<1>3. CASE Modify
  <2>1. PICK ev : Evade(ev) \/ RefuseEvasion(ev)
    BY <1>3 DEF Modify
  <2>2. CASE RefuseEvasion(ev)
    BY <1>1, <2>2 DEF RefuseEvasion
  <2>3. CASE Evade(ev)
    <3>1. ev \in EVASIONS /\ evasions' = Append(evasions, ev) /\ phase' = "evade"
      BY <1>3, <2>3 DEF Modify, Evade
    <3>2. PICK r : r.hop \in Port /\ attack' = Evaded(attack, ev, r)
      BY <2>3, EvadeIs
    <3>3. Noting(attack', evasions')
      <4>1. StoryFlows(attack, env)
        BY <1>3, AttackFlows DEF IInv, Asked, Modify
      <4>2. Noting(Evaded(attack, ev, r), Append(evasions, ev))
        BY <3>1, <3>2, <4>1, EvadedNotes DEF NInv, Noticed
      <4> QED BY <3>1, <3>2, <4>2
    <3>4. IsSeq(evasions')
      BY <3>1, AppendIs DEF NInv, Noticed
    <3> QED BY <3>1, <3>3, <3>4 DEF NInv, Noticed
  <2> QED BY <2>1, <2>2, <2>3
<1>4. CASE UNCHANGED vars
  BY <1>4 DEF vars, NInv
<1>5. CASE \/ Compose \/ PickHost \/ HostsPicked \/ AddNoise \/ Fail \/ Fp \/ Looped \/ Weave
           \/ WriteGroundTruth \/ Detect \/ Score \/ Concluded
  <2>1. UNCHANGED <<attack, evasions>> /\ phase' # "start"
    <3>1. CASE Compose \/ PickHost \/ HostsPicked
      BY <3>1 DEF Compose, PickHost, HostsPicked
    <3>2. CASE AddNoise \/ Fail \/ Fp
      BY <3>2 DEF AddNoise, Noise, Fail, Fp, Looping
    <3>3. CASE Looped
      BY <3>3 DEF Looped
    <3>4. CASE Weave \/ WriteGroundTruth \/ Score
      BY <3>4 DEF Weave, WriteGroundTruth, Score
    <3>5. CASE Detect
      BY <3>5 DEF Detect, Alert
    <3>6. CASE Concluded
      BY <3>6 DEF Concluded, vars
    <3> QED BY <1>5, <3>1, <3>2, <3>3, <3>4, <3>5, <3>6
  <2> QED BY <1>1, <2>1
<1> QED BY <1>2, <1>3, <1>4, <1>5 DEF Next

-----------------------------------------------------------------------------
(* How far the flows are apart: 12 times as far with every slowing. *)

Powers(f, k, g) == g = [i \in 0..k |-> IF i = 0 THEN 1 ELSE f * g[i - 1]]

LEMMA PowersExist ==
  ASSUME NEW f \in Nat, NEW k \in Nat
  PROVE  \E g : Powers(f, k, g) /\ \A i \in 0..k : g[i] \in Nat
<1> DEFINE P(m) == \E g : Powers(f, m, g) /\ \A i \in 0..m : g[i] \in Nat
           G == {m \in Nat : P(m)}
<1>1. 0 \in G
  <2> DEFINE g == [i \in 0..0 |-> 1]
  <2>1. \A i \in 0..0 : i = 0
    OBVIOUS
  <2>2. g = [i \in 0..0 |-> IF i = 0 THEN 1 ELSE f * g[i - 1]] /\ \A i \in 0..0 : g[i] \in Nat
    BY <2>1
  <2> QED BY <2>2 DEF Powers
<1>2. ASSUME NEW m \in Nat, m \in G
      PROVE  m + 1 \in G
  <2>1. PICK g : Powers(f, m, g) /\ \A i \in 0..m : g[i] \in Nat
    BY <1>2
  <2> DEFINE h == [i \in 0..(m + 1) |-> IF i = m + 1 THEN f * g[m] ELSE g[i]]
             v(i) == IF i = 0 THEN 1 ELSE f * h[i - 1]
  <2>2. \A i \in 0..m : g[i] = IF i = 0 THEN 1 ELSE f * g[i - 1]
    BY <2>1 DEF Powers
  <2>3. \A i \in 0..m : h[i] = g[i]
    BY <1>2
  <2>4. h[m + 1] = f * g[m]
    BY <1>2
  <2>5. h = [i \in 0..(m + 1) |-> h[i]]
    OBVIOUS
  <2> HIDE DEF h
  <2>6. ASSUME NEW i \in 0..(m + 1)
        PROVE  h[i] = v(i) /\ h[i] \in Nat
    <3>1. CASE i = m + 1
      <4>1. i # 0 /\ i - 1 = m /\ m \in 0..m
        BY <1>2, <3>1
      <4>2. h[i - 1] = g[m] /\ g[m] \in Nat /\ h[i] = f * g[m]
        BY <2>1, <2>3, <2>4, <3>1, <4>1
      <4> QED BY <4>1, <4>2
    <3>2. CASE i = 0
      BY <1>2, <2>2, <2>3, <3>2
    <3>3. CASE i # m + 1 /\ i # 0
      <4>1. i \in 0..m /\ i - 1 \in 0..m
        BY <1>2, <2>6, <3>3
      <4> QED BY <2>1, <2>2, <2>3, <3>3, <4>1
    <3> QED BY <3>1, <3>2, <3>3
  <2>7. Powers(f, m + 1, h)
    BY <2>5, <2>6 DEF Powers
  <2> QED BY <2>6, <2>7
<1> HIDE DEF P
<1>3. Nat \subseteq G
  <2> HIDE DEF G
  <2> QED BY <1>1, <1>2, NatSteps
<1> QED BY <1>3 DEF P

\* A table of powers holds the same as a shorter one.
LEMMA PowersAgree ==
  ASSUME NEW f, NEW k \in Nat, NEW l \in Nat, k <= l, NEW g, NEW h, Powers(f, k, g), Powers(f, l, h)
  PROVE  \A i \in 0..k : g[i] = h[i]
<1> DEFINE G == {i \in Nat : i <= k => g[i] = h[i]}
<1>1. \A i \in Nat : i <= k => /\ g[i] = IF i = 0 THEN 1 ELSE f * g[i - 1]
                               /\ h[i] = IF i = 0 THEN 1 ELSE f * h[i - 1]
  BY DEF Powers
<1>2. 0 \in G
  BY <1>1
<1>3. ASSUME NEW i \in Nat, i \in G
      PROVE  i + 1 \in G
  <2>1. CASE i + 1 <= k
    <3>1. i <= k /\ i + 1 # 0 /\ (i + 1) - 1 = i
      BY <1>3, <2>1
    <3> QED BY <1>1, <1>3, <2>1, <3>1
  <2>2. CASE ~(i + 1 <= k)
    BY <2>2
  <2> QED BY <2>1, <2>2
<1>4. Nat \subseteq G
  <2> HIDE DEF G
  <2> QED BY <1>2, <1>3, NatSteps
<1> QED BY <1>4

LEMMA PowerIs ==
  ASSUME NEW f \in Nat, NEW k \in Nat
  PROVE  Power(f, 0) = 1 /\ Power(f, k) \in Nat /\ Power(f, k + 1) = f * Power(f, k)
<1> DEFINE p(m) == CHOOSE g : Powers(f, m, g)
<1>1. \A m : Power(f, m) = p(m)[m]
  BY DEF Power, Powers
<1>2. \A m \in Nat : Powers(f, m, p(m))
  BY PowersExist
<1> HIDE DEF p
<1>3. p(0)[0] = 1
  BY <1>2 DEF Powers
<1>4. p(k)[k] \in Nat
  <2>1. PICK g : Powers(f, k, g) /\ \A i \in 0..k : g[i] \in Nat
    BY PowersExist
  <2>2. \A i \in 0..k : p(k)[i] = g[i]
    BY <1>2, <2>1, PowersAgree
  <2> QED BY <2>1, <2>2
<1>5. p(k + 1)[k + 1] = f * p(k)[k]
  <2> DEFINE h == p(k + 1)
  <2>1. Powers(f, k + 1, h) /\ Powers(f, k, p(k))
    BY <1>2
  <2> HIDE DEF h
  <2>2. h[k] = p(k)[k]
    BY <2>1, PowersAgree
  <2>3. k + 1 \in 0..(k + 1) /\ k + 1 # 0 /\ (k + 1) - 1 = k
    OBVIOUS
  <2>4. h[k + 1] = f * h[k]
    BY <2>1, <2>3 DEF Powers
  <2> QED BY <2>2, <2>4 DEF h
<1> QED BY <1>1, <1>3, <1>4, <1>5

Slowings(evs) == Cardinality(Among(evs, "slow-and-low"))

LEMMA SlowingsCount ==
  ASSUME NEW evs, IsSeq(evs), NEW ev
  PROVE  /\ Slowings(evs) \in Nat
         /\ Slowings(Append(evs, ev)) = IF ev = "slow-and-low" THEN Slowings(evs) + 1 ELSE Slowings(evs)
<1> DEFINE S == Among(evs, "slow-and-low")
           N == Len(evs)
<1>1. /\ S \subseteq 1..N /\ N \in Nat
      /\ Among(Append(evs, ev), "slow-and-low") = S \cup (IF ev = "slow-and-low" THEN {N + 1} ELSE {})
  BY AmongIs
<1> HIDE DEF S, N
<1>2. IsFiniteSet(S) /\ N + 1 \notin S
  <2>1. IsFiniteSet(1..N)
    BY <1>1, FS_Interval
  <2>2. IsFiniteSet(S)
    BY <1>1, <2>1, FS_Subset
  <2>3. N + 1 \notin S
    BY <1>1
  <2> QED BY <2>2, <2>3
<1>3. Cardinality(S) \in Nat /\ Cardinality(S \cup {N + 1}) = Cardinality(S) + 1
  BY <1>2, FS_CardinalityType, FS_AddElement
<1>4. S \cup {} = S
  OBVIOUS
<1> QED BY <1>1, <1>3, <1>4 DEF Slowings, S

\* The flows u are those of s with every gap c times as long.
Gaps(u, s, c) == /\ DOMAIN s = DOMAIN u
                 /\ \A i, j \in DOMAIN s : u[i].t - u[j].t = c * (s[i].t - s[j].t)

Paced(a, evs, e) ==
  \E s \in Stories(e) : /\ \A i \in DOMAIN s : s[i].t \in Nat
                        /\ Gaps(a.flows, s, Power(12, Slowings(evs)))

LEMMA TimesStay ==
  ASSUME NEW a, NEW b, NEW u, NEW x, Became(b, a, u, x), Alike(u, a.flows),
         \A i \in DOMAIN a.flows : u[i].t = a.flows[i].t
  PROVE  DOMAIN b.flows = DOMAIN a.flows /\ TimesKept(b, a)
<1>1. b.flows = u /\ DOMAIN u = DOMAIN a.flows
  BY DEF Became, Alike
<1> QED BY <1>1 DEF TimesKept

LEMMA TimesAre ==
  ASSUME NEW a, NEW e, StoryFlows(a, e), NEW ev \in EVASIONS, NEW r, r.hop \in Port
  PROVE  LET b == Evaded(a, ev, r)
         IN  IF ev = "slow-and-low" THEN b.flows = Slowed(a)
             ELSE DOMAIN b.flows = DOMAIN a.flows /\ TimesKept(b, a)
<1>1. CASE ev = "domain-fronting"
  <2> DEFINE b == DomainFronting(a)
  <2>1. Alike(Fronted(a), a.flows) /\ \A i \in DOMAIN a.flows : Fronted(a)[i].t = a.flows[i].t
    BY FrontedFlows
  <2>2. b = a \/ \E x : Became(b, a, Fronted(a), x)
    BY FrontingIs
  <2> HIDE DEF b
  <2>3. DOMAIN b.flows = DOMAIN a.flows /\ TimesKept(b, a)
    BY <2>1, <2>2, TimesStay DEF TimesKept
  <2> QED BY <1>1, <2>3 DEF Evaded, b
<1>2. CASE ev = "ja3-randomization"
  <2> DEFINE b == Ja3Randomization(a, r)
  <2>1. Alike(Disguised(a, r), a.flows) /\ \A i \in DOMAIN a.flows : Disguised(a, r)[i].t = a.flows[i].t
    BY DisguisedFlows
  <2>2. \E x : Became(b, a, Disguised(a, r), x)
    BY Ja3Is
  <2> HIDE DEF b
  <2>3. DOMAIN b.flows = DOMAIN a.flows /\ TimesKept(b, a)
    BY <2>1, <2>2, TimesStay
  <2> QED BY <1>2, <2>3 DEF Evaded, b
<1>3. CASE ev = "port-hopping"
  <2> DEFINE b == PortHopping(a, r)
  <2>1. Alike(Hopped(a, r), a.flows) /\ \A i \in DOMAIN a.flows : Hopped(a, r)[i].t = a.flows[i].t
    BY HoppedFlows
  <2>2. \E x : Became(b, a, Hopped(a, r), x)
    BY HoppingIs
  <2> HIDE DEF b
  <2>3. DOMAIN b.flows = DOMAIN a.flows /\ TimesKept(b, a)
    BY <2>1, <2>2, TimesStay
  <2> QED BY <1>3, <2>3 DEF Evaded, b
<1>4. CASE ev = "slow-and-low"
  <2>1. SlowAndLow(a).flows = Slowed(a)
    BY SlowIs DEF Became
  <2> QED BY <1>4, <2>1 DEF Evaded
<1>5. CASE ev = "dns-depth"
  <2> DEFINE b == DnsDepth(a)
  <2>1. Alike(Deepened(a), a.flows) /\ \A i \in DOMAIN a.flows : Deepened(a)[i].t = a.flows[i].t
    BY DeepenedFlows
  <2>2. b = a \/ \E x : Became(b, a, Deepened(a), x)
    BY DepthIs
  <2> HIDE DEF b
  <2>3. DOMAIN b.flows = DOMAIN a.flows /\ TimesKept(b, a)
    BY <2>1, <2>2, TimesStay DEF TimesKept
  <2> QED BY <1>5, <2>3 DEF Evaded, b
<1> QED BY <1>1, <1>2, <1>3, <1>4, <1>5 DEF EVASIONS

LEMMA EvadedPace ==
  ASSUME NEW a, NEW e, StoryFlows(a, e.env), NEW evs, IsSeq(evs), Paced(a, evs, e),
         NEW ev \in EVASIONS, NEW r, r.hop \in Port
  PROVE  Paced(Evaded(a, ev, r), Append(evs, ev), e)
<1> DEFINE b == Evaded(a, ev, r)
           u == a.flows
           w == b.flows
           k == Slowings(evs)
           c == Power(12, k)
<1>1. PICK s \in Stories(e) : (\A i \in DOMAIN s : s[i].t \in Nat) /\ Gaps(u, s, c)
  BY DEF Paced
<1>2. k \in Nat /\ c \in Nat /\ Power(12, k + 1) = 12 * c
  BY SlowingsCount, PowerIs
<1>3. \A i \in DOMAIN u : u[i].t \in Nat
  BY DEF StoryFlows, StoryFlow
<1>4. CASE ev = "slow-and-low"
  <2>1. Slowings(Append(evs, ev)) = k + 1
    BY <1>4, SlowingsCount
  <2>2. w = Slowed(a)
    BY <1>4, TimesAre
  <2>3. /\ DOMAIN w = DOMAIN u
        /\ \A i, j \in DOMAIN u : w[i].t - w[j].t = 12 * (u[i].t - u[j].t)
    BY <2>2, SlowedFlows DEF Alike
  <2> HIDE DEF u, w, c, k, b
  <2>4. ASSUME NEW i \in DOMAIN s, NEW j \in DOMAIN s
        PROVE  w[i].t - w[j].t = (12 * c) * (s[i].t - s[j].t)
    <3> DEFINE x == s[i].t - s[j].t
               y == u[i].t - u[j].t
    <3>1. x \in Int /\ y = c * x /\ w[i].t - w[j].t = 12 * y
      BY <1>1, <2>3 DEF Gaps
    <3> HIDE DEF x, y
    <3>2. 12 * (c * x) = (12 * c) * x
      BY <1>2, <3>1
    <3> QED BY <3>1, <3>2 DEF x
  <2>5. Gaps(w, s, 12 * c)
    BY <1>1, <2>3, <2>4 DEF Gaps
  <2> QED BY <1>1, <1>2, <2>1, <2>5 DEF Paced, w, b
<1>5. CASE ev # "slow-and-low"
  <2>1. Slowings(Append(evs, ev)) = k
    BY <1>5, SlowingsCount
  <2>2. DOMAIN w = DOMAIN u /\ \A i \in DOMAIN u : w[i].t = u[i].t
    BY <1>5, TimesAre DEF TimesKept
  <2> HIDE DEF u, w, c, k, b
  <2>3. Gaps(w, s, c)
    BY <1>1, <2>2 DEF Gaps
  <2> QED BY <1>1, <2>1, <2>3 DEF Paced, w, b, c
<1> QED BY <1>4, <1>5

LEMMA NewPace ==
  ASSUME NEW e \in Exercises, Build(e)
  PROVE  Paced(attack', <<>>, e)
<1>1. PICK j \in Jitters, again \in BOOLEAN :
        attack' = Built(e.attack, e.env, e.intensity, [jitter |-> j, again |-> again])
  BY DEF Build
<1> DEFINE s == attack'.flows
<1>2. s \in Stories(e)
  <2> DEFINE B(x, y) == Built(e.attack, e.env, e.intensity, [jitter |-> x, again |-> y]).flows
  <2>1. Stories(e) = {B(x, y) : x \in Jitters, y \in BOOLEAN}
    BY DEF Stories
  <2>2. s = B(j, again)
    BY <1>1
  <2> HIDE DEF B, s
  <2> QED BY <2>1, <2>2
<1>3. \A i \in DOMAIN s : s[i].t \in Nat
  <2>1. StoryFlows(attack', e.env)
    BY BuildIs, AttackFlows DEF IsNew
  <2> QED BY <2>1 DEF StoryFlows, StoryFlow
<1>4. Power(12, Slowings(<<>>)) = 1
  <2>1. Among(<<>>, "slow-and-low") = {}
    BY DEF Among
  <2>2. Slowings(<<>>) = 0
    BY <2>1, FS_EmptySet DEF Slowings
  <2> QED BY <2>2, PowerIs
<1> HIDE DEF s
<1>5. Gaps(s, s, 1)
  BY <1>3 DEF Gaps
<1> QED BY <1>2, <1>3, <1>4, <1>5 DEF Paced, s

\* What else is invariant: the storyline is one that was built, slowed as often as evaded.
PInv == IsSeq(evasions) /\ ((attack = NoAttack /\ phase # "evade") \/ Paced(attack, evasions, exercise))

LEMMA PaceNext == IInv /\ NInv /\ PInv /\ [Next]_vars => PInv'
<1> SUFFICES ASSUME IInv, NInv, PInv, [Next]_vars
             PROVE  PInv'
  OBVIOUS
<1>1. ASSUME UNCHANGED <<exercise, attack, evasions>>, phase' # "evade" \/ phase' = phase
      PROVE  PInv'
  BY <1>1 DEF PInv
<1>2. CASE Start
  <2>1. PICK e \in Exercises : Refuse(e) \/ Build(e) \/ Benign(e)
    BY <1>2 DEF Start
  <2>2. CASE Refuse(e) \/ Benign(e)
    BY <1>2, <2>2 DEF Refuse, Benign, Start, PInv, IInv, Asked
  <2>3. CASE Build(e)
    <3>1. exercise' = e /\ evasions' = <<>> /\ evasions = <<>>
      BY <1>2, <2>3 DEF Build, Start, NInv
    <3> QED BY <2>3, <3>1, NewPace DEF PInv
  <2> QED BY <2>1, <2>2, <2>3
<1>3. CASE Modify
  <2>1. PICK ev : Evade(ev) \/ RefuseEvasion(ev)
    BY <1>3 DEF Modify
  <2>2. CASE RefuseEvasion(ev)
    BY <1>1, <2>2 DEF RefuseEvasion
  <2>3. CASE Evade(ev)
    <3>1. /\ phase = "evade" /\ ev \in EVASIONS /\ evasions' = Append(evasions, ev)
          /\ exercise' = exercise
      BY <1>3, <2>3 DEF Modify, Evade
    <3>2. PICK r : r.hop \in Port /\ attack' = Evaded(attack, ev, r)
      BY <2>3, EvadeIs
    <3>3. StoryFlows(attack, exercise.env)
      BY <3>1, AttackFlows DEF IInv, Asked
    <3>4. Paced(attack', evasions', exercise)
      <4>1. Paced(Evaded(attack, ev, r), Append(evasions, ev), exercise)
        BY <3>1, <3>2, <3>3, EvadedPace DEF PInv
      <4> QED BY <3>1, <3>2, <4>1
    <3>5. IsSeq(evasions')
      BY <3>1, AppendIs DEF PInv
    <3> QED BY <3>1, <3>4, <3>5 DEF PInv
  <2> QED BY <2>1, <2>2, <2>3
<1>4. CASE UNCHANGED vars
  BY <1>1, <1>4 DEF vars
<1>5. CASE \/ Compose \/ PickHost \/ HostsPicked \/ AddNoise \/ Fail \/ Fp \/ Looped \/ Weave
           \/ WriteGroundTruth \/ Detect \/ Score \/ Concluded
  <2>1. UNCHANGED <<exercise, attack, evasions>> /\ (phase' # "evade" \/ phase' = phase)
    <3>1. CASE Compose \/ PickHost \/ HostsPicked
      BY <3>1 DEF Compose, PickHost, HostsPicked
    <3>2. CASE AddNoise \/ Fail \/ Fp
      BY <3>2 DEF AddNoise, Noise, Fail, Fp, Looping
    <3>3. CASE Looped
      BY <3>3 DEF Looped
    <3>4. CASE Weave \/ WriteGroundTruth \/ Score
      BY <3>4 DEF Weave, WriteGroundTruth, Score
    <3>5. CASE Detect
      BY <3>5 DEF Detect, Alert
    <3>6. CASE Concluded
      BY <3>6 DEF Concluded, vars
    <3> QED BY <1>5, <3>1, <3>2, <3>3, <3>4, <3>5, <3>6
  <2> QED BY <1>1, <2>1
<1> QED BY <1>2, <1>3, <1>4, <1>5 DEF Next

\* For any attack and any list of evasions: as many channels are fronted as the key says, they run
\* to the port hopped to unless fronting hid them first, the names asked for start with a short
\* label, and every gap is 12 times as long for each slowing, where the key says 12 once
\* (scenarios.py:_evade_*).
THEOREM NotesAreTrue == Spec => []NotesTrue
<1>1. ASSUME IInv, NInv, PInv
      PROVE  NotesTrue
  <2>1. /\ FrontNote(attack) /\ HopNote(attack, evasions) /\ SlowNote(attack) /\ DeepNote(attack)
        /\ IsSeq(evasions)
    BY <1>1 DEF NInv, Noticed, Noting
  <2>2. TlsFlows = TlsOf(attack) /\ \A x : Applied(x) = Among(evasions, x)
    BY DEF TlsFlows, TlsOf, Applied, Among
  <2>3. Unseen(attack, evasions) => Blinded("port-hopping")
    <3> SUFFICES ASSUME Unseen(attack, evasions)
                 PROVE  Blinded("port-hopping")
      OBVIOUS
    <3> DEFINE F == Applied("domain-fronting")
               H == Applied("port-hopping")
               L == Len(evasions)
    <3>1. PICK k \in F : \E l \in H : k < l
      BY <2>2 DEF Unseen
    <3>2. PICK l \in H : k < l
      BY <3>1
    <3>3. F \in SUBSET (1..L) /\ H \in SUBSET (1..L) /\ L \in Nat
      BY <2>1, <2>2, AmongIs
    <3> HIDE DEF F, H, L
    <3>4. F \in SUBSET Nat /\ H \in SUBSET Nat /\ F # {} /\ H # {}
      <4>1. 1..L \subseteq Nat
        BY <3>3
      <4> QED BY <3>1, <3>2, <3>3, <4>1
    <3>5. Min(F) \in F /\ Min(F) <= k
      BY <3>1, <3>4, MinIs
    <3>6. Max(H) \in H /\ l <= Max(H)
      BY <3>2, <3>3, <3>4, MaxIs
    <3>7. Min(F) < Max(H)
      <4>1. Min(F) \in Nat /\ Max(H) \in Nat /\ k \in Nat /\ l \in Nat
        BY <3>1, <3>2, <3>4, <3>5, <3>6
      <4> QED BY <3>2, <3>5, <3>6, <4>1
    <3> QED BY <3>4, <3>7 DEF Blinded, Unseen, F, H
  <2>4. \A i \in DOMAIN attack.flows : attack.flows[i].kind = "dns" =>
          Head(attack.flows[i].given.qname) = attack.flows[i].given.qname[1]
    <3>1. CASE phase = "start"
      BY <1>1, <3>1 DEF IInv, Asked, NoAttack
    <3>2. CASE phase # "start"
      <4>1. StoryFlows(attack, env)
        BY <1>1, <3>2, AttackFlows DEF IInv, Asked
      <4>2. \A q : Labels(q) => Head(q) = q[1]
        BY DEF Labels
      <4>3. \A i \in DOMAIN attack.flows : attack.flows[i].kind = "dns" =>
              Labels(attack.flows[i].given.qname)
        BY <4>1 DEF StoryFlows, StoryFlow, Saying
      <4> QED BY <4>2, <4>3
    <3> QED BY <3>1, <3>2
  <2>5. "note_domain_fronting" \in DOMAIN attack.iocs =>
          attack.iocs.fronted_flows
            = Cardinality({i \in TlsFlows : attack.flows[i].given.server_name = "front"})
    BY <2>1, <2>2 DEF FrontNote
  <2>6. "note_port_hopping" \in DOMAIN attack.iocs /\ TlsFlows # {} /\ ~Blinded("port-hopping") =>
          \E i \in TlsFlows : attack.flows[i].dport = attack.iocs.note_port_hopping
                              /\ \A j \in TlsFlows : attack.flows[j].dport = attack.flows[i].dport
    BY <2>1, <2>2, <2>3 DEF HopNote
  <2>7. "note_slow_and_low" \in DOMAIN attack.iocs =>
          SlowedBy(Power(attack.iocs.note_slow_and_low, Cardinality(Applied("slow-and-low"))))
    <3> SUFFICES ASSUME "note_slow_and_low" \in DOMAIN attack.iocs
                 PROVE  SlowedBy(Power(attack.iocs.note_slow_and_low,
                                       Cardinality(Applied("slow-and-low"))))
      OBVIOUS
    <3>1. attack.iocs.note_slow_and_low = 12
      BY <2>1 DEF SlowNote
    <3>2. Paced(attack, evasions, exercise)
      BY <1>1 DEF PInv, NoAttack
    <3>3. Cardinality(Applied("slow-and-low")) = Slowings(evasions)
      BY <2>2 DEF Slowings
    <3>4. SlowedBy(Power(12, Slowings(evasions)))
      BY <3>2 DEF Paced, Gaps, SlowedBy
    <3> QED BY <3>1, <3>3, <3>4
  <2>8. "note_dns_depth" \in DOMAIN attack.iocs =>
          \A i \in DOMAIN attack.flows : attack.flows[i].kind = "dns" =>
            Head(attack.flows[i].given.qname) <= 15
    BY <2>1, <2>4 DEF DeepNote
  <2> QED BY <2>5, <2>6, <2>7, <2>8 DEF NotesTrue
<1>2. Init => PInv
  <2> SUFFICES ASSUME Init
               PROVE  PInv
    OBVIOUS
  <2>1. IsSeq(evasions)
    BY NotesInit DEF NInv, Noticed
  <2> QED BY <2>1 DEF Init, PInv
<1> QED BY <1>1, <1>2, Invariance, NotesInit, NotesNext, PaceNext, PTL DEF Spec
=============================================================================
