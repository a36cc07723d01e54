------------------------------- MODULE MCPmm -------------------------------
(***************************************************************************)
(* Memory maps for TLC: every way to cut a small memory into three pieces, *)
(* each usable, reserved or absent from the map.  A reserved piece may end *)
(* in the middle of a page, as firmware's do.                              *)
(***************************************************************************)
EXTENDS Pmm

CONSTANTS MaxPage, PageBytes

Kinds == {"usable", "reserved", "hole"}

Piece(from, to, kind) ==
  [base   |-> from * PageBytes,
   length |-> (to - from) * PageBytes - (IF kind = "reserved" THEN 1 ELSE 0),
   usable |-> kind = "usable"]

MapOf(c, k) ==
  LET cut == <<0, c[1], c[2], MaxPage>>
      present == SelectSeq(<<1, 2, 3>>, LAMBDA n : k[n] # "hole")
  IN  [n \in 1 .. Len(present) |->
         Piece(cut[present[n]], cut[present[n] + 1], k[present[n]])]

MCMemMaps ==
  {MapOf(c, k) : c \in {d \in (1 .. MaxPage) \X (1 .. MaxPage) : d[1] < d[2] /\ d[2] < MaxPage},
                 k \in [1 .. 3 -> Kinds] \ {[n \in 1 .. 3 |-> "hole"]}}
=============================================================================
