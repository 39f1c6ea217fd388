----------------------------- MODULE MCWarrant ------------------------------
(***************************************************************************)
(* Claim sets over a web session and one other flow: a lookup, a lookup on *)
(* the addresses and ports of the session, a lease whose packets have      *)
(* other addresses, or a second session of the same identity.              *)
(***************************************************************************)
EXTENDS Warrant, TLC

MCInternal == {"a", "b"}

Web == [id |-> "web", tuple |-> "t1", wire |-> {"t1"}, transport |-> "tcp", state |-> "SF",
        src |-> "a", dst |-> "x", start |-> 0,
        fields |-> (<<"dst_port">> :> 443 @@ <<"l7", "host">> :> 7 @@ <<"start_time">> :> 0
                    @@ <<"conn_state">> :> 1),
        authored |-> {<<"flow_id">>, <<"dst_port">>, <<"l7", "host">>, <<"start_time">>}]

Lookup == [id |-> "dns", tuple |-> "t2", wire |-> {"t2"}, transport |-> "udp", state |-> "SF",
           src |-> "a", dst |-> "b", start |-> 5,
           fields |-> (<<"dst_port">> :> 53 @@ <<"start_time">> :> 5 @@ <<"conn_state">> :> 1),
           authored |-> {<<"flow_id">>, <<"dst_port">>, <<"start_time">>}]

FlowLists == {<<Web, Lookup>>,
              <<Web, [Lookup EXCEPT !.tuple = "t1", !.wire = {"t1"}]>>,
              <<Web, [Lookup EXCEPT !.wire = {"t3", "t4"}]>>,
              <<[Web EXCEPT !.state = "REJ"], [Lookup EXCEPT !.id = "web"]>>}

Observed == [id |-> "c1", stance |-> "observed", source |-> "s1", quote |-> TRUE,
             renders |-> {"web"}, gap |-> None, expects |-> <<>>, quantity |-> None,
             note |-> FALSE]
Gap == [Observed EXCEPT !.id = "c2", !.renders = {}, !.gap = "vantage"]

Firsts == {Observed,
           [Observed EXCEPT !.renders = {"web", "dns"}],
           [Observed EXCEPT !.renders = {"web", "lost"}],
           [Observed EXCEPT !.quote = FALSE],
           [Observed EXCEPT !.source = "s9"],
           [Observed EXCEPT !.stance = "technology-default", !.source = None],
           [Observed EXCEPT !.expects = (<<"l7", "host">> :> {7})],
           [Observed EXCEPT !.renders = {"web", "dns"}, !.expects = (<<"dst_port">> :> {443})],
           [Observed EXCEPT !.expects = (<<"l7", "uri">> :> {1})],
           [Observed EXCEPT !.quantity = [kind |-> "floor", unit |-> "flows", value |-> 3]],
           [Observed EXCEPT !.quantity = [kind |-> "ceiling", unit |-> "failed_flow_fraction",
                                          value |-> 0]]}

Seconds == {<<>>, <<Gap>>,
            <<[Gap EXCEPT !.gap = None]>>,
            <<[Gap EXCEPT !.id = "c1"]>>,
            <<[Gap EXCEPT !.stance = "source-unresolved", !.gap = None]>>,
            <<[Observed EXCEPT !.id = "c2", !.stance = "source-unresolved"]>>,
            <<[Observed EXCEPT !.id = "c2", !.stance = "assumption", !.source = None,
                               !.quote = FALSE, !.renders = {"dns"}]>>,
            <<[Gap EXCEPT !.quantity = [kind |-> "floor", unit |-> "clusters", value |-> 2]]>>,
            <<Gap, [Gap EXCEPT !.id = "c3"]>>}

Mark == [selectors |-> {[flow |-> "web", path |-> <<"dst_port">>]}, class |-> "observed",
         pedigree |-> "L3", derivation |-> "retrievedFrom", ref |-> "c1"]

MarkLists == {<<>>, <<Mark>>,
              <<[Mark EXCEPT !.ref = None]>>,
              <<[Mark EXCEPT !.selectors = {[flow |-> "*", path |-> <<"start_time">>]}]>>,
              <<[Mark EXCEPT !.selectors = {[flow |-> "web", path |-> <<>>]}],
                [Mark EXCEPT !.selectors = {[flow |-> "*", path |-> <<"l7">>],
                                            [flow |-> "*", path |-> <<"typo">>]},
                             !.class = "fabricated", !.pedigree = "L0", !.ref = None]>>,
              <<[Mark EXCEPT !.class = "judgment",
                             !.selectors = {[flow |-> "web", path |-> <<>>]}],
                [Mark EXCEPT !.selectors = {[flow |-> "*", path |-> <<"l7", "host">>]}]>>}

Registers == {[preds |-> <<>>, key |-> <<>>],
              [preds |-> <<[p |-> 100, base |-> 50, renders |-> {"web"}],
                           [p |-> 85, base |-> 50, renders |-> {}],
                           [p |-> 95, base |-> 20, renders |-> {}]>>,
               key |-> <<"false", "true", "true">>],
              [preds |-> <<[p |-> 60, base |-> 50, renders |-> {}],
                           [p |-> 60, base |-> 98, renders |-> {"dns"}],
                           [p |-> 0, base |-> 2, renders |-> {}]>>,
               key |-> <<"true", "false", "open">>]}

S1 == [id |-> "s1", preliminary |-> TRUE, own |-> FALSE]

MCDocuments ==
  {[cs |-> [class |-> class, summary |-> TRUE, sources |-> <<S1>>, illustrative |-> ill,
            claims |-> <<c>> \o more, marks |-> marks, aleatoric |-> {<<"start_time">>},
            predictions |-> r.preds],
    flows |-> flows, key |-> r.key] :
     class \in {"reconstruction", "exercise"}, ill \in {{}, {"dns"}, {"web", "dns"}},
     c \in Firsts, more \in Seconds, marks \in MarkLists, flows \in FlowLists,
     r \in {CHOOSE r \in Registers : r.preds = <<>>}}
  \cup
  {[cs |-> [class |-> class, summary |-> summary, sources |-> <<S1>>, illustrative |-> {"dns"},
            claims |-> <<Observed, Gap>>, marks |-> marks, aleatoric |-> {},
            predictions |-> r.preds],
    flows |-> flows, key |-> r.key] :
     class \in {"reconstruction", "exercise"}, summary \in BOOLEAN, marks \in MarkLists,
     flows \in FlowLists, r \in Registers}

MCOptions == {{}, {"score", "manifest", "pcapng"}}
=============================================================================
