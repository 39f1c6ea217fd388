------------------------------ MODULE MCDialogues ------------------------------
(***************************************************************************)
(* Documents with a flow of every kind, and those at the edges of what     *)
(* loads, renders and reads back.                                          *)
(***************************************************************************)
EXTENDS Dialogues

\* A tcp and a udp flow saying `given` in the protocol `kind`.
Tcp(kind, given) == [transport |-> "tcp", sport |-> 40000, dport |-> 443, v6 |-> FALSE,
                     state |-> "SF", rtt |-> 30, texture |-> "clean", kind |-> kind, given |-> given]
Udp(kind, given) == [Tcp(kind, given) EXCEPT !.transport = "udp", !.dport = 5355]
Ping(given) == [Tcp("icmp", given) EXCEPT !.transport = "icmp", !.sport = 0, !.dport = 0]

Empty == <<>>

Names == {Udp("dns", "qname" :> "a" @@ g) :
            g \in {Empty, "answers" :> 2, "respond" :> FALSE, "rcode" :> "NXDOMAIN" @@ "answers" :> 1,
                   "rcode" :> "NOTIMP", "qtype" :> "TXT" @@ "answers" :> 1}}
         \cup {Tcp("dns", "qname" :> "a"), [Udp("dns", "qname" :> "a") EXCEPT !.v6 = TRUE],
               Udp("namequery", Empty), Udp("namequery", "qname" :> "a" @@ "protocol" :> "nbns"),
               Udp("namequery", "qname" :> "a" @@ "poison_from" :> "b")}

Pages == {Tcp("http", g) :
            g \in {Empty, "method" :> "HEAD", "method" :> "HEAD" @@ "response_body_len" :> 200,
                   "status" :> 204 @@ "response_body_len" :> 200, "response_body_b64" :> 10,
                   "response_body_len" :> -5, "response_body_len" :> None,
                   "uri" :> "zip" @@ "response_body_len" :> 90,
                   "uri" :> "png" @@ "response_body_len" :> 70,
                   "uri" :> "exe" @@ "response_body_len" :> 312,
                   "uri" :> "jpg" @@ "response_body_len" :> 65559,
                   "uri" :> "jpg" @@ "response_body_len" :> 65560}}

Shares == {Tcp("smb", g) :
             g \in {Empty, "share" :> "IPC$", "ntlm" :> "auth",
                    "read_file" :> "pdf", "write_file" :> "exe" @@ "file_bytes" :> 100,
                    "read_file" :> "pdf" @@ "write_file" :> "exe" @@ "ntlm" :> "auth"}}
          \cup {Tcp("dcerpc", g) :
                  g \in {Empty, "operations" :> <<12, 19>>, "operations" :> <<12, 12, 3>>
                         @@ "transport" :> "ncacn_ip_tcp", "operations" :> <<1>> @@ "interface" :> "x",
                         "operations" :> <<1>> @@ "transport" :> "http"}}

Transfers4 == {[Tcp("ftp", g) EXCEPT !.rtt = r, !.state = s] :
                 g \in {Empty, "retrieve_file" :> "zip", "retrieve_file" :> "pdf" @@ "commands" :> <<>>},
                 r \in {30, 105, 106, 204, 205}, s \in {"SF", "S0"}}

\* The port just in time and just too late for that to be sure, and paced by nothing.
TransfersPaced == {[Tcp("ftp", "retrieve_file" :> "pdf" @@ "commands" :> c)
                      EXCEPT !.rtt = x[1], !.texture = x[2]] :
                     c \in {<<>>, <<"a">>},
                     x \in {<<63, "realistic">>, <<70, "realistic">>, <<0, "conditioned">>,
                            <<30, "conditioned">>}}
Transfers6 == {[Tcp("ftp", "retrieve_file" :> "pdf") EXCEPT !.v6 = TRUE]}

Others == {Tcp(kind, Empty) : kind \in {"ssh", "modbus", "ldap", "kerberos", "pop3", "imap", "irc",
                                        "opaque_tcp", "smtp", "tls"}}
  \cup {Tcp("smtp", "mail_from" :> "a" @@ "rcpt_to" :> r) : r \in {<<>>, <<"a", "b">>}}
  \cup {Tcp("tls", "server_name" :> "a" @@ g) :
          g \in {Empty, "alpn" :> "h2", "version" :> "TLS1.3" @@ "alpn" :> "h2",
                 "app_data_orig_bytes" :> 10 @@ "app_data_resp_bytes" :> 20, "version" :> "SSLv3"}}
  \cup {Tcp("ldap", "searches" :> <<"a", "b">>), Tcp("modbus", "count" :> 0),
        Tcp("modbus", "count" :> 3), Tcp("kerberos", "request_type" :> "TGS"),
        Tcp("opaque_tcp", "orig_bytes" :> 5 @@ "resp_literal_hex" :> 3), Udp("pop3", Empty)}
  \cup {[Tcp(kind, Empty) EXCEPT !.state = s] :
          kind \in {"http", "ssh", "opaque_tcp"}, s \in {"S0", "REJ", "RSTO", "RSTR", "S1"}}
  \cup {Udp(kind, Empty) : kind \in {"ntp", "snmp", "radius", "sip", "opaque_udp", "dhcp"}}
  \cup {Udp("dhcp", "assigned_ip" :> "a" @@ "server_ip" :> "b"), Udp("ntp", "count" :> 0),
        Udp("snmp", "count" :> 2), Udp("radius", "accept" :> FALSE), Udp("sip", "method" :> "INVITE"),
        Udp("opaque_udp", "resp_bytes" :> 9), Udp("opaque_udp", "orig_literal_hex" :> 2),
        Udp("opaque_udp", "orig_bytes" :> -1 @@ "resp_bytes" :> -1), Ping("count" :> -1),
        Ping(Empty), Ping("count" :> 0), Ping("count" :> 2), [Ping(Empty) EXCEPT !.dport = 7]}

MCDocuments == Names \cup Pages \cup Shares \cup Transfers4 \cup TransfersPaced \cup Transfers6 \cup Others
=============================================================================
