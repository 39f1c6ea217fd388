------------------------------- MODULE MCGate -------------------------------
(* Small instances of Gate for TLC. *)
EXTENDS Gate

CONSTANT MaxFlows

MCFlow(skip, seen, l7, check, l7seen) ==
  [skip |-> skip, seen |-> seen, l7 |-> l7, check |-> check, l7seen |-> l7seen, key |-> 0,
   mail |-> None, read |-> None]

\* A mail flow; None is read where smtp.log has no row for it.
MCMail(mail, read) ==
  [MCFlow(FALSE, "agrees", "smtp", "sender",
          IF read = None THEN "missing" ELSE IF read = mail THEN "agrees" ELSE "differs")
     EXCEPT !.mail = mail, !.read = read]

MCLetter(from, says) == [from |-> from, says |-> says]

\* Two different mails of one sender, and one of another.
MCMails == {MCLetter("a", 1), MCLetter("a", 2), MCLetter("b", 1)}

\* A bare TCP flow, an http one, an ntp one and a dhcp one, sound or not.
MCFlows == {MCFlow(FALSE, s, None, "none", "missing") : s \in {"agrees", "differs", "missing"}}
           \cup {MCFlow(FALSE, "agrees", "http", "row", s) : s \in {"agrees", "differs", "missing"}}
           \cup {MCFlow(FALSE, "agrees", "ntp", "log", s) : s \in {"agrees", "missing"}}
           \cup {MCFlow(TRUE, "agrees", "dhcp", "log", s) : s \in {"agrees", "missing"}}

\* Mails read as they are, as another one or not at all, and a flow beside them.
MCMailFlows == {MCFlow(FALSE, "agrees", "ntp", "log", "agrees")}
               \cup UNION {{MCMail(m, r) : r \in {m, MCLetter("a", 2), None}} : m \in MCMails}

\* Every flow of a FlowSet has a 5-tuple of its own.
MCFlowLists(kinds) == UNION {{[i \in 1..n |-> [l[i] EXCEPT !.key = i]] : l \in [1..n -> kinds]}
                               : n \in 1..MaxFlows}

MCFlowSets == {s \in [flows : MCFlowLists(MCFlows), weird : BOOLEAN, expert : BOOLEAN] :
                 ~(s.weird /\ s.expert)}
              \cup [flows : MCFlowLists(MCMailFlows), weird : {FALSE}, expert : {FALSE}]
=============================================================================
