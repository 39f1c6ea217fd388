------------------------------ MODULE FlowSpec ------------------------------
(***************************************************************************)
(* models/flowspec.py: what a Flow may say.  A model is the record of its  *)
(* fields with their defaults; a document gives some of them.  A string is *)
(* a name, a uri or a file stands for its extension, a list of addresses   *)
(* for its length, and a body for its number of bytes.                     *)
(***************************************************************************)
EXTENDS Integers, SequencesExt

CONSTANTS None,        \* an empty string or an absent value
          Required     \* a field without a default

DnsL7 == [qname |-> Required, qtype |-> "A", answers |-> 0, rcode |-> "NOERROR", respond |-> TRUE]
HttpL7 == [method |-> "GET", uri |-> None, host |-> None, user_agent |-> "browser",
           request_headers |-> None, request_body_len |-> 0, status |-> 200, reason |-> None,
           response_headers |-> None, response_body_len |-> 0, response_body_b64 |-> None]
TlsL7 == [server_name |-> Required, version |-> "TLS1.2", client_profile |-> "generic_browser",
          ja3 |-> None, issuer |-> None, server_cipher |-> None, alpn |-> None,
          app_data_orig_bytes |-> 0, app_data_resp_bytes |-> 0]
IcmpL7 == [icmp_type |-> "echo", count |-> 1, payload_len |-> 56]
SmtpL7 == [helo |-> "client", mail_from |-> Required, rcpt_to |-> Required, subject |-> None,
           from_header |-> None, to_header |-> None, body_len |-> 200, server_banner |-> "mail"]
OpaqueTcpL7 == [service_hint |-> None, orig_bytes |-> 0, resp_bytes |-> 0, segments |-> 1,
                orig_literal_hex |-> 0, resp_literal_hex |-> 0]
OpaqueUdpL7 == [service_hint |-> None, orig_bytes |-> 0, resp_bytes |-> 0, orig_literal_hex |-> 0]
DhcpL7 == [assigned_ip |-> Required, server_ip |-> Required, gateway |-> None,
           dns_server |-> None, lease_time |-> 3600, subnet_mask |-> "24", hostname |-> None]
NtpL7 == [version |-> 4, stratum |-> 2, count |-> 1]
SshL7 == [client_version |-> "SSH-2.0", server_version |-> "SSH-2.0", payload_bytes |-> 2000]
FtpL7 == [user |-> "anonymous", password |-> "anonymous", commands |-> <<"SYST", "PWD", "TYPE">>,
          banner |-> "220", retrieve_file |-> None, file_bytes |-> 4096]
SnmpL7 == [community |-> "public", oid |-> "sysDescr", value |-> "device", count |-> 1]
ModbusL7 == [unit_id |-> 1, start_addr |-> 0, quantity |-> 10, count |-> 1]
RadiusL7 == [username |-> "alice", accept |-> TRUE]
LdapL7 == [bind_dn |-> "svc", password |-> "pw", searches |-> <<>>]
NameQueryL7 == [protocol |-> "llmnr", qname |-> Required, qtype |-> "A", poison_from |-> None]
SmbL7 == [share |-> "Share", dialect |-> 768, read_file |-> None, write_file |-> None,
          file_bytes |-> 4096, ntlm |-> None]
DceRpcL7 == [share |-> "IPC$", pipe |-> "svcctl", interface |-> "svcctl", operations |-> <<>>,
             op_names |-> <<>>, transport |-> "ncacn_np"]
KerberosL7 == [request_type |-> "AS", client |-> "alice", realm |-> "CORP", service |-> None,
               etype |-> 18, request_etypes |-> <<18, 17, 23>>, preauth |-> TRUE,
               success |-> TRUE]
Pop3L7 == [user |-> "bob", password |-> "secret"]
ImapL7 == [user |-> "bob", password |-> "secret"]
IrcL7 == [nick |-> "user", channel |-> "#chat"]
SipL7 == [user |-> "bob", domain |-> "example", method |-> "REGISTER"]

L7Spec == [dns |-> DnsL7, http |-> HttpL7, tls |-> TlsL7, smtp |-> SmtpL7, icmp |-> IcmpL7,
           opaque_tcp |-> OpaqueTcpL7, opaque_udp |-> OpaqueUdpL7, dhcp |-> DhcpL7,
           ntp |-> NtpL7, ssh |-> SshL7, ftp |-> FtpL7, snmp |-> SnmpL7, modbus |-> ModbusL7,
           radius |-> RadiusL7, ldap |-> LdapL7, smb |-> SmbL7, dcerpc |-> DceRpcL7,
           namequery |-> NameQueryL7, kerberos |-> KerberosL7, pop3 |-> Pop3L7,
           imap |-> ImapL7, irc |-> IrcL7, sip |-> SipL7]

\* Nothing but the fields that have to be given is without a default.
ASSUME DefaultsAssumption ==
  \A kind \in DOMAIN L7Spec : \A x \in DOMAIN L7Spec[kind] :
    L7Spec[kind][x] = Required =>
      x \in {"qname", "server_name", "mail_from", "rcpt_to", "assigned_ip", "server_ip"}

\* The fields that only some values fit.
Literals ==
  [tls |-> [version |-> {"TLS1.2", "TLS1.3"}], icmp |-> [icmp_type |-> {"echo"}],
   namequery |-> [protocol |-> {"llmnr", "nbns", "mdns"}],
   dcerpc |-> [transport |-> {"ncacn_np", "ncacn_ip_tcp"}],
   kerberos |-> [request_type |-> {"AS", "TGS"}],
   sip |-> [method |-> {"REGISTER", "INVITE", "OPTIONS"}]]

\* The transports of a kind.
Transports(kind) ==
  CASE kind = "dns" -> {"udp", "tcp"}
    [] kind = "icmp" -> {"icmp"}
    [] kind \in {"opaque_udp", "dhcp", "ntp", "snmp", "radius", "namequery", "sip"} -> {"udp"}
    [] OTHER -> {"tcp"}

\* What is given, and the defaults of the rest.
Filled(given, defaults) ==
  [x \in DOMAIN given \cup DOMAIN defaults |-> IF x \in DOMAIN given THEN given[x] ELSE defaults[x]]

\* A document's flow is [transport, sport, dport, v6, state, rtt, kind, given].
Loaded(f) == Filled(f.given, L7Spec[f.kind])

\* The fields that hold integers, negative ones too, and those that hold lists.
Integral == {"answers", "request_body_len", "status", "response_body_len", "app_data_orig_bytes",
             "app_data_resp_bytes", "count", "payload_len", "orig_bytes", "resp_bytes",
             "orig_literal_hex", "resp_literal_hex", "payload_bytes", "file_bytes", "quantity"}
Lists == {"rcpt_to", "commands", "searches", "operations"}
Typed(given) ==
  \A x \in DOMAIN given :
    /\ x \in Integral => given[x] \in Int
    /\ x \in Lists => given[x] \in Seq(ToSet(given[x]))
    /\ x = "response_body_b64" => given[x] \in Nat \cup {None}

\* Mutant: the transport is not compared with the kind.
IsFlowAnyTransport(f) ==
  /\ f.kind \in DOMAIN L7Spec
  /\ DOMAIN f.given \subseteq DOMAIN L7Spec[f.kind] /\ Typed(f.given)
  /\ \A x \in DOMAIN L7Spec[f.kind] : L7Spec[f.kind][x] = Required => x \in DOMAIN f.given

IsFlow(f) ==
  /\ f.kind \in DOMAIN L7Spec
  /\ DOMAIN f.given \subseteq DOMAIN L7Spec[f.kind] /\ Typed(f.given)
  /\ \A x \in DOMAIN L7Spec[f.kind] : L7Spec[f.kind][x] = Required => x \in DOMAIN f.given
  /\ f.kind \in DOMAIN Literals =>
       \A x \in DOMAIN Literals[f.kind] : Loaded(f)[x] \in Literals[f.kind][x]
  /\ f.transport \in Transports(f.kind)
  /\ f.transport = "icmp" => f.sport = 0 /\ f.dport = 0

=============================================================================
