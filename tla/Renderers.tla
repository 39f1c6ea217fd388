----------------------------- MODULE Renderers ------------------------------
(***************************************************************************)
(* renderers/*: the messages of a conversation, and what a correct parser  *)
(* should read back.  A message is [from, op, id, n]: its sender, what it  *)
(* is, the identifiers by which a parser relates it to others, and its     *)
(* size or another number of its own.  Encodings are left out.             *)
(***************************************************************************)
EXTENDS FlowSpec

Request(op, id, n) == [from |-> "orig", op |-> op, id |-> id, n |-> n]
Reply(op, id, n) == [from |-> "resp", op |-> op, id |-> id, n |-> n]
Exchange(op, id, n, answer) == <<Request(op, id, n), Reply(op, id, answer)>>
Line(op) == Exchange(op, 0, 0, 0)
Greeting == <<Reply("greeting", 0, 0)>>
Each(s, script(_)) == FlattenSeq([i \in DOMAIN s |-> script(s[i])])
Times(n, script(_)) == FlattenSeq([i \in 1..n |-> script(i)])

-----------------------------------------------------------------------------
(* file_bodies.py: how long a file of a type and a size really is.         *)

Small == 64
AtLeast(n, least) == IF n > least THEN n ELSE least

file_for(type, size) ==
  IF size < Small THEN AtLeast(size, 0)
  ELSE CASE type = "png" -> IF size - 81 < 1 THEN 69 ELSE AtLeast(size, 89)
         [] type \in {"zip", "xlsx", "docx", "pptx"} -> AtLeast(size, 119)
         [] type \in {"exe", "dll"} -> AtLeast(size, 312)
         [] OTHER -> size

\* The length of a jpeg's only filler segment has 16 bits: a longer one is not packed.
Unpackable(type, size) == type \in {"jpg", "jpeg"} /\ size - 26 + 2 > 65535

-----------------------------------------------------------------------------
(* Mail, files and text.                                                   *)

\* Content-Length and the body of a response; 204 and 304 carry none.
Response(s) ==
  LET body == IF s.status \in {204, 304} THEN 0
              ELSE IF s.response_body_b64 # None THEN s.response_body_b64
              ELSE file_for(s.uri, s.response_body_len)
  IN  [announced |-> body, sent |-> body]

render_http(s) ==
  <<Request("page", 0, s.request_body_len),
    Reply("page", [method |-> s.method, status |-> s.status,
                   announced |-> Response(s).announced], Response(s).sent)>>

render_smtp(s) == Greeting \o Line("EHLO") \o Line("MAIL")
                  \o Each(s.rcpt_to, LAMBDA r : Exchange("RCPT", r, 0, 0))
                  \o Line("DATA") \o Line("body") \o Line("QUIT")

render_pop3 == Greeting \o Line("USER") \o Line("PASS") \o Line("STAT") \o Line("QUIT")
render_imap == Greeting \o Line("LOGIN") \o Line("SELECT") \o Line("LOGOUT")
render_irc == <<Request("NICK", 0, 0), Request("USER", 0, 0), Reply("001", 0, 0),
                Request("JOIN", 0, 0), Reply("JOIN", 0, 0),
                Request("PRIVMSG", 0, 0), Request("QUIT", 0, 0)>>

\* Mutant: the file is asked for before the port.
PassiveLate(v6) == Line("RETR") \o Exchange("PASV", 0, 0, IF v6 THEN 0 ELSE 1)
                   \o <<Reply("226", 0, 0)>>

\* Passive mode: the port is announced in the reply, which can write an IPv4 address only,
\* and the transfer is a connection of its own.
Passive(v6) == Exchange("PASV", 0, 0, IF v6 THEN 0 ELSE 1) \o Line("RETR")
               \o <<Reply("226", 0, 0)>>

render_ftp(s, v6) == Greeting \o Line("USER") \o Line("PASS") \o Each(s.commands, Line)
                     \o (IF s.retrieve_file # None THEN Passive(v6) ELSE <<>>) \o Line("QUIT")

\* The data connection starts 1.5 s after the flow, whatever the control connection does.
DataStart == 1500
FtpData(s) == IF s.retrieve_file # None THEN <<file_for(s.retrieve_file, s.file_bytes)>> ELSE <<>>

-----------------------------------------------------------------------------
(* Secure channels: both sides' flights, then opaque records.              *)

\* The ALPN a server selects is in the clear before TLS 1.3 only.
NextProtocol(s) == IF s.alpn = None \/ s.version = "TLS1.3" THEN None ELSE s.alpn

render_tls(s) ==
  <<Request("client_hello", 0, 0), Reply("server_hello", s.version, NextProtocol(s)),
    Request("finished_c", 0, 0)>>
  \o (IF s.version = "TLS1.3" THEN <<>> ELSE <<Reply("finished_s", 0, 0)>>)
  \o (IF s.app_data_orig_bytes > 0 THEN <<Request("data", 0, s.app_data_orig_bytes)>> ELSE <<>>)
  \o (IF s.app_data_resp_bytes > 0 THEN <<Reply("data", 0, s.app_data_resp_bytes)>> ELSE <<>>)

render_ssh(s) ==
  LET half == AtLeast(s.payload_bytes \div 2, 1)
  IN  Exchange("banner", 0, 0, 0) \o Exchange("kexinit", 0, 0, 0) \o Exchange("newkeys", 0, 0, 0)
      \o Exchange("data", 0, half, half)

-----------------------------------------------------------------------------
(* Directory and industrial services: numbered requests.                   *)

render_ldap(s) == Exchange("bind", 1, 0, 0)
                  \o Times(Len(s.searches), LAMBDA i : Exchange("search", i + 1, 0, 0))
render_modbus(s) == Times(s.count, LAMBDA i : Exchange("registers", i % 65536, 0, s.quantity))
render_kerberos(s) == Exchange(s.request_type, 0, 0, s.etype)

-----------------------------------------------------------------------------
(* SMB: a message's id is its session, tree and file handle, 0 for none.   *)

Sid == 11
Tid == 22

SetUp(ntlm) ==
  Exchange("negotiate", <<0, 0, 0>>, 0, 0)
  \o (IF ntlm # None
      THEN <<Request("session", <<0, 0, 0>>, 1), Reply("session", <<Sid, 0, 0>>, 2),
             Request("session", <<Sid, 0, 0>>, 3), Reply("session", <<Sid, 0, 0>>, 0)>>
      ELSE <<Request("session", <<0, 0, 0>>, 0), Reply("session", <<Sid, 0, 0>>, 0)>>)

Tree(tid, pipe) == <<Request("tree", <<Sid, 0, 0>>, 0),
                     Reply("tree", <<Sid, tid, 0>>, IF pipe THEN 2 ELSE 1)>>

Open(tid, fid, size) == <<Request("create", <<Sid, tid, 0>>, 0),
                          Reply("create", <<Sid, tid, fid>>, size)>>
Close(tid, fid) == <<Request("close", <<Sid, tid, fid>>, 0), Reply("close", <<Sid, tid, 0>>, 0)>>

\* Mutant: one handle serves both files.
HandleOfOne(op) == 33

\* Each file has a handle of its own.
HandleOf(op) == IF op = "read" THEN 33 ELSE 44

\* A transfer announces the length of the content, asks for it and closes the file.
Transfer(op, content) ==
  LET fid == HandleOf(op)
  IN  Open(Tid, fid, content)
      \o <<Request(op, <<Sid, Tid, fid>>, content), Reply(op, <<Sid, Tid, 0>>, content)>>
      \o Close(Tid, fid)

render_smb(s) ==
  SetUp(s.ntlm) \o Tree(Tid, s.share = "IPC$")
  \o (IF s.read_file # None THEN Transfer("read", file_for(s.read_file, s.file_bytes)) ELSE <<>>)
  \o (IF s.write_file # None THEN Transfer("write", file_for(s.write_file, s.file_bytes))
      ELSE <<>>)

-----------------------------------------------------------------------------
(* DCE-RPC: PDUs numbered by call, directly or inside writes and reads of  *)
(* a pipe, whose messages carry a PDU [op, id] in the place of a number.   *)

Interfaces == {"svcctl", "atsvc", "ITaskSchedulerService", "srvsvc", "samr", "winreg",
               "IWbemServices", "epmapper", "drsuapi"}

\* Mutant: the counter of calls is not advanced between operations.
CallIdOfBind(i) == 1

\* The bind is call 1.
CallId(i) == i + 1

Piped(op, id) ==
  LET pdu == [op |-> op, id |-> id]
      fid == HandleOf("read")
  IN  <<Request("write", <<Sid, 0, fid>>, pdu), Reply("write", <<Sid, 0, 0>>, 0),
        Request("read", <<Sid, 0, fid>>, 0), Reply("read", <<Sid, 0, 0>>, pdu)>>

render_dcerpc(s) ==
  LET direct == s.transport = "ncacn_ip_tcp"
      calls == Times(Len(s.operations),
                     LAMBDA i : IF direct THEN Exchange("call", CallId(i), s.operations[i], 0)
                                ELSE Piped("call", CallId(i)))
  IN  IF direct THEN Exchange("rpc_bind", 1, 0, 0) \o calls
      ELSE SetUp(None) \o Tree(0, TRUE) \o Open(0, HandleOf("read"), 0)
           \o Piped("rpc_bind", 1) \o calls \o Close(0, HandleOf("read"))

-----------------------------------------------------------------------------
(* Datagrams.  A poisoned reply and a lease come from other addresses.     *)

Rcodes == {"NOERROR", "FORMERR", "SERVFAIL", "NXDOMAIN", "REFUSED"}

\* An unknown name becomes code 0; records are rendered for addresses only.
RcodeOf(s) == IF s.rcode \in Rcodes THEN s.rcode ELSE "NOERROR"
AnswersOf(s) == IF s.rcode = "NOERROR" /\ s.qtype \in {"A", "AAAA"} THEN s.answers ELSE 0

render_dns(s) == <<Request("query", 7, 0)>>
                 \o (IF s.respond
                     THEN <<Reply("query", 7, [rcode |-> RcodeOf(s), answers |-> AnswersOf(s)])>>
                     ELSE <<>>)
render_namequery(s) ==
  <<Request("query", 7, 0)>>
  \o (IF s.poison_from # None THEN <<Reply("query", 7, [rcode |-> "NOERROR", answers |-> 1])>>
      ELSE <<>>)
PortOf(s) == [llmnr |-> 5355, nbns |-> 137, mdns |-> 5353][s.protocol]
render_dhcp == Exchange("discover", 9, 0, 1) \o Exchange("request", 9, 0, 1)
render_ntp(s) == Times(s.count, LAMBDA i : Exchange("time", i, 0, s.stratum))
render_snmp(s) == Times(s.count, LAMBDA i : Exchange("get", i, 0, 0))
render_icmp(s) == Times(s.count, LAMBDA i : Exchange("echo", i - 1, s.payload_len, s.payload_len))
render_radius(s) == Exchange("access", 5, 0, IF s.accept THEN 2 ELSE 3)
render_sip(s) == Exchange(s.method, 1, 0, 200)

\* A literal prefix makes a stream at least that long; nothing is sent for no bytes.
Stream(from, n) == IF n > 0 THEN <<[from |-> from, op |-> "data", id |-> 0, n |-> n]>> ELSE <<>>
render_opaque_tcp(s) == Stream("orig", AtLeast(s.orig_bytes, s.orig_literal_hex))
                        \o Stream("resp", AtLeast(s.resp_bytes, s.resp_literal_hex))
\* A datagram is sent for any number but 0; it is empty for a negative one.
Datagram(from, asked, n) ==
  IF asked THEN <<[from |-> from, op |-> "data", id |-> 0, n |-> n]>> ELSE <<>>
render_opaque_udp(s) ==
  Datagram("orig", s.orig_bytes # 0 \/ s.orig_literal_hex > 0,
           AtLeast(AtLeast(s.orig_bytes, s.orig_literal_hex), 0))
  \o Datagram("resp", s.resp_bytes # 0, AtLeast(s.resp_bytes, 0))

-----------------------------------------------------------------------------
(* RENDERERS and what each leaves for the gate.                            *)

Script(f) ==
  LET s == Loaded(f)
  IN  CASE f.kind = "dns" -> render_dns(s)             [] f.kind = "http" -> render_http(s)
        [] f.kind = "icmp" -> render_icmp(s)           [] f.kind = "smtp" -> render_smtp(s)
        [] f.kind = "tls" -> render_tls(s)             [] f.kind = "dhcp" -> render_dhcp
        [] f.kind = "ntp" -> render_ntp(s)             [] f.kind = "ssh" -> render_ssh(s)
        [] f.kind = "ftp" -> render_ftp(s, f.v6)             [] f.kind = "snmp" -> render_snmp(s)
        [] f.kind = "modbus" -> render_modbus(s)       [] f.kind = "radius" -> render_radius(s)
        [] f.kind = "ldap" -> render_ldap(s)           [] f.kind = "smb" -> render_smb(s)
        [] f.kind = "dcerpc" -> render_dcerpc(s)       [] f.kind = "kerberos" -> render_kerberos(s)
        [] f.kind = "pop3" -> render_pop3              [] f.kind = "imap" -> render_imap
        [] f.kind = "irc" -> render_irc                [] f.kind = "sip" -> render_sip(s)
        [] f.kind = "namequery" -> render_namequery(s)
        [] f.kind = "opaque_tcp" -> render_opaque_tcp(s)
        [] f.kind = "opaque_udp" -> render_opaque_udp(s)

\* The files a flow's renderer makes: <<type, size>>.
FilesAsked(f) ==
  LET s == Loaded(f)
  IN  CASE f.kind = "http" /\ s.response_body_b64 = None -> {<<s.uri, s.response_body_len>>}
        [] f.kind = "ftp" -> {<<x, s.file_bytes>> : x \in {s.retrieve_file} \ {None}}
        [] f.kind = "smb" -> {<<x, s.file_bytes>> : x \in {s.read_file, s.write_file} \ {None}}
        [] OTHER -> {}

\* A renderer or the TCP builder raises; the datagram renderers know IPv4 only.
Raises(f) ==
  \/ \E x \in FilesAsked(f) : Unpackable(x[1], x[2])
  \/ f.kind = "dcerpc" /\ (Loaded(f).interface \notin Interfaces \/ Loaded(f).operations = <<>>)
  \/ f.v6 /\ (f.kind = "dns" \/ Transports(f.kind) # {"tcp"})
  \/ Transports(f.kind) = {"tcp"} /\ f.state \notin {"SF", "S0", "REJ", "RSTO", "RSTR"}

\* expected["conn"]["service"], and the log that has to have a row of any kind.
ServiceOf(f) ==
  CASE f.kind \in {"http", "smtp", "ssh", "ftp", "modbus", "smb", "pop3", "imap", "dns"} -> {f.kind}
    [] f.kind = "tls" -> {"ssl"}
    [] f.kind = "kerberos" -> {"krb_tcp"}
    [] f.kind = "dcerpc" -> IF Loaded(f).transport = "ncacn_ip_tcp" THEN {"dce_rpc"}
                            ELSE {"smb", "dce_rpc"}
    [] OTHER -> {}

Produces(f) ==
  CASE f.kind \in {"dhcp", "ntp", "ssh", "snmp", "modbus", "radius", "ldap", "kerberos", "irc",
                   "sip"} -> {f.kind}
    [] f.kind = "smb" -> {"smb_mapping"}
    [] f.kind = "dcerpc" -> {"dce_rpc"}
    [] f.kind = "namequery" -> {"dns"}
    [] OTHER -> {}

\* The row that is compared field by field.
RowOf(f) ==
  LET s == Loaded(f)
  IN  CASE f.kind = "dns" -> <<"dns", [rcode |-> s.rcode, answers |-> AnswersOf(s)]>>
        [] f.kind = "http" -> <<"http", [status |-> s.status, body |-> Response(s).sent]>>
        [] f.kind = "tls" -> <<"ssl", [version |-> s.version, next |-> NextProtocol(s)]>>
        [] f.kind = "smtp" -> <<"smtp", [rcptto |-> ToSet(s.rcpt_to)]>>
        [] OTHER -> <<>>

\* build_tcp_flow sends data in the states that complete the handshake only.
Delivers(f) == Transports(f.kind) # {"tcp"} \/ f.state \in {"SF", "RSTO", "RSTR"}

\* The flows whose capture can say what they ask for.
Sayable(f) ==
  LET s == Loaded(f)
  IN  /\ Delivers(f) \/ f.kind = "opaque_tcp"
      /\ f.kind = "dns" => f.transport = "udp" /\ s.respond /\ s.rcode \in Rcodes
      /\ f.kind \in {"icmp", "ntp", "snmp", "modbus"} => s.count > 0
      /\ f.kind = "opaque_udp" => s.orig_bytes # 0 \/ s.orig_literal_hex > 0
      /\ f.kind = "namequery" => f.dport = PortOf(s)
      /\ f.kind = "http" => s.method # "HEAD" \/ Response(s).sent = 0

=============================================================================
