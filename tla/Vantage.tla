------------------------------ MODULE Vantage ------------------------------
(***************************************************************************)
(* compile/vantage.py and compile/fragment.py: what one sensor placement,  *)
(* or an IP fragmenter, makes of one packet of a compiled capture.  Views  *)
(* runs them over the capture.  A packet is its IP version, addresses,     *)
(* ports, IP id, TTL, IP payload length, fragment offset (in bytes), flags,*)
(* VLAN tag and link layer, with `n`, its place in the compiled capture.   *)
(***************************************************************************)
EXTENDS Integers, Sequences

CONSTANTS Internal,         \* the addresses of nat_subnet
          LinkLocal,        \* 169.254.0.0/16
          None              \* an option a vantage does not set

\* A host sensor never sees flows it is not an endpoint of; only an IPv4 packet is
\* tested.  A mirror or an overlay never carries link-local addresses.
Foreign(p, v) == v.sees_host # None /\ p.ver = 4 /\ v.sees_host \notin {p.src, p.dst}
Unmirrored(p, v) == v.vni # None /\ p.ver = 4 /\ {p.src, p.dst} \cap LinkLocal # {}
Shown(p, v) == ~Foreign(p, v) /\ ~Unmirrored(p, v)

Decremented(ttl, hops) == IF ttl - hops < 1 THEN 1 ELSE ttl - hops

Natted(ip, v) == IF v.nat /\ ip \in Internal THEN v.public ELSE ip

\* Mutant of Projected: source addresses only.
ProjectedSource(p, v) ==
  IF p.ver # 4 THEN p
  ELSE [p EXCEPT !.ttl = Decremented(@, v.hops), !.src = Natted(@, v)]

\* _project_ip: both addresses are translated, ports never are; IPv4 only.
Projected(p, v) ==
  IF p.ver # 4 THEN p
  ELSE [p EXCEPT !.ttl = Decremented(@, v.hops),
                 !.src = Natted(@, v), !.dst = Natted(@, v)]

Tagged(p, v) == IF v.vlan = None THEN p ELSE [p EXCEPT !.vlan = v.vlan]

\* A mirror ships the whole frame inside its own; a host capture is cooked.
Linked(p, v) == [p EXCEPT !.link = CASE v.vni # None -> "vxlan"
                                     [] v.vni = None /\ v.sll -> "sll"
                                     [] OTHER -> @]

Projection(p, v) == Linked(Tagged(Projected(p, v), v), v)

-----------------------------------------------------------------------------
(* fragment.py. *)

\* Mutant of FragSize: no rounding.
FragSizeRaw(asked) == IF asked < 8 THEN 8 ELSE asked

\* The fragment size, a multiple of 8 that is at least 8.
FragSize(asked) == IF (asked \div 8) * 8 < 8 THEN 8 ELSE (asked \div 8) * 8

Oversized(p, frag) == p.ver = 4 /\ p.len > frag

\* The offset field counts units of 8 bytes, so a piece starts where its offset
\* rounds to.  DF is cleared on every piece.
Piece(p, frag, k) ==
  LET start == k * frag
      left == p.len - start
  IN  [p EXCEPT !.off = (start \div 8) * 8,
                !.len = IF left < frag THEN left ELSE frag,
                !.more = left > frag,
                !.df = FALSE]

Pieces(p, frag) ==
  [k \in 1..((p.len + frag - 1) \div frag) |-> Piece(p, frag, k - 1)]
=============================================================================
