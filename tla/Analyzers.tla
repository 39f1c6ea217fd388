------------------------------- MODULE Analyzers -------------------------------
(***************************************************************************)
(* How an analyzer of Zeek reads a connection: it relates replies to the   *)
(* requests still open, SMB messages to the session, tree and handles it   *)
(* has learnt, and RPC calls to their bind, and it logs what it has read.  *)
(* Messages are those of Renderers.  External: written from what the gate  *)
(* (validation/roundtrip.py) reads and what the renderers say of it.       *)
(***************************************************************************)
EXTENDS Integers, Sequences

CONSTANT None

\* files: what was announced and what came, by handle; at: the handle being read.
Fresh == [open |-> {}, sid |-> 0, tid |-> 0, handles |-> {}, at |-> 0, files |-> <<>>,
          calls |-> {}, bound |-> FALSE, rcpts |-> {}, port |-> FALSE,
          logs |-> {}, services |-> {}, odd |-> FALSE]

\* A reply that answers no open request is odd.
Match(z, from, request) ==
  IF from = "orig" THEN [z EXCEPT !.open = @ \cup {request}]
  ELSE [z EXCEPT !.open = @ \ {request}, !.odd = @ \/ request \notin z.open]

Arrived(files, handle, n) ==
  IF handle \in DOMAIN files THEN [files EXCEPT ![handle].got = @ + n] ELSE files
Announced(files, handle, n) ==
  [h \in DOMAIN files \cup {handle} |->
     IF h # handle THEN files[h]
     ELSE [announced |-> n, got |-> IF h \in DOMAIN files THEN files[h].got ELSE 0]]

-----------------------------------------------------------------------------
(* DCE-RPC: a call number is used once, a call needs an accepted bind.     *)

Rpc(z, from, op, id) ==
  LET y == Match(z, from, <<op, id>>)
  IN  IF from = "orig"
      THEN [y EXCEPT !.calls = @ \cup {id},
                     !.odd = @ \/ id \in z.calls \/ (op = "call" /\ ~z.bound)]
      ELSE [y EXCEPT !.bound = TRUE, !.services = @ \cup {"dce_rpc"},
                     !.logs = IF op = "call" THEN @ \cup {<<"dce_rpc", 0>>} ELSE @]

-----------------------------------------------------------------------------
(* SMB.                                                                    *)

SmbOps == {"negotiate", "session", "tree", "create", "read", "write", "close"}

\* A message names the session and tree it belongs to, and a handle that is open.
Misplaced(z, m) ==
  \/ m.id[1] # z.sid /\ (m.from = "orig" \/ m.op # "session")
  \/ m.id[2] # z.tid /\ (m.from = "orig" \/ m.op # "tree")
  \/ m.from = "orig" /\ m.op \in {"read", "write", "close"} /\ m.id[3] \notin z.handles

SmbRequest(z, m, piped) ==
  CASE m.op = "session" /\ m.n = 3 -> [z EXCEPT !.logs = @ \cup {<<"ntlm", 0>>}]
    [] m.op = "read" -> [z EXCEPT !.at = m.id[3]]
    [] m.op = "write" /\ piped -> Rpc(z, "orig", m.n.op, m.n.id)
    [] m.op = "write" /\ ~piped -> [z EXCEPT !.files = Arrived(@, m.id[3], m.n)]
    [] m.op = "close" -> [z EXCEPT !.handles = @ \ {m.id[3]}]
    [] OTHER -> z

SmbReply(z, m, piped) ==
  CASE m.op = "negotiate" -> [z EXCEPT !.services = @ \cup {"smb"}]
    [] m.op = "session" -> [z EXCEPT !.sid = m.id[1]]
    [] m.op = "tree" -> [z EXCEPT !.tid = m.id[2], !.logs = @ \cup {<<"smb_mapping", 0>>}]
    [] m.op = "create" -> [z EXCEPT !.handles = @ \cup {m.id[3]},
                                    !.files = Announced(@, m.id[3], m.n)]
    [] m.op = "read" /\ piped -> Rpc(z, "resp", m.n.op, m.n.id)
    [] m.op = "read" /\ ~piped -> [z EXCEPT !.files = Arrived(@, z.at, m.n)]
    [] OTHER -> z

Smb(z, m, piped) ==
  LET y == [Match(z, m.from, <<m.op, 0>>) EXCEPT !.odd = @ \/ Misplaced(z, m)]
  IN  IF m.from = "orig" THEN SmbRequest(y, m, piped) ELSE SmbReply(y, m, piped)

-----------------------------------------------------------------------------
(* The others.                                                             *)

\* Protocols read in the order of the stream, and replies nobody asked for.
Streams == {"tls", "ssh", "irc", "opaque_tcp", "opaque_udp"}
Unprompted == {"greeting", "226"}

Rows(kind, z, m) ==
  CASE kind = "http" /\ m.from = "resp" -> {<<"http", [status |-> m.id.status, body |-> m.n]>>}
    [] kind = "tls" /\ m.op = "server_hello" -> {<<"ssl", [version |-> m.id, next |-> m.n]>>}
    [] kind = "smtp" /\ m.op = "body" -> {<<"smtp", [rcptto |-> z.rcpts]>>}
    [] kind = "dns" /\ m.from = "resp" -> {<<"dns", m.n>>}
    [] kind = "namequery" -> {<<"dns", [rcode |-> None, answers |-> 0]>>}
    [] kind = "irc" /\ m.op = "JOIN" -> {<<kind, 0>>}
    [] kind \in {"ssh", "dhcp", "ntp", "snmp", "modbus", "radius", "ldap", "kerberos", "sip"}
         /\ m.from = "resp" -> {<<kind, 0>>}
    [] OTHER -> {}

Confirmed(kind) ==
  CASE kind = "tls" -> {"ssl"}
    [] kind = "kerberos" -> {"krb_tcp"}
    [] kind \in {"http", "smtp", "ssh", "ftp", "modbus", "pop3", "imap", "dns"} -> {kind}
    [] OTHER -> {}

Plain(kind, z, m) ==
  LET y == IF kind \in Streams \/ m.op \in Unprompted THEN z
           ELSE Match(z, m.from, <<m.op, IF kind = "http" THEN 0 ELSE m.id>>)
  IN  [y EXCEPT !.rcpts = IF m.op = "RCPT" THEN @ \cup {m.id} ELSE @,
                !.port = @ \/ (m.op = "PASV" /\ m.n = 1),
                !.logs = @ \cup Rows(kind, z, m),
                !.services = IF m.from = "resp" /\ m.op # "greeting" THEN @ \cup Confirmed(kind)
                             ELSE @]

\* A response to HEAD has no body, and no other has more or less than it announces.  A response
\* carries the method of its request, which Zeek knows.
Page(z, m) ==
  IF m.from = "orig" THEN z
  ELSE [z EXCEPT !.files = <<[announced |-> m.id.announced, got |-> m.n]>>,
                 !.odd = @ \/ m.id.announced # m.n \/ (m.id.method = "HEAD" /\ m.n > 0)]

Read(kind, z, m) ==
  CASE kind = "smb" -> Smb(z, m, FALSE)
    [] kind = "dcerpc" /\ m.op \in SmbOps -> Smb(z, m, TRUE)
    [] kind = "dcerpc" /\ m.op \notin SmbOps -> Rpc(z, m.from, m.op, m.id)
    [] kind = "http" -> Page(Plain(kind, z, m), m)
    [] OTHER -> Plain(kind, z, m)
=============================================================================
