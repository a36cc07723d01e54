------------------------------ MODULE MCPaging ------------------------------
(***************************************************************************)
(* Three levels of four-entry tables.  The direct map is <<0, a, b>> for   *)
(* frame 4a + b: a table of small pages for frames 0 to 3, large pages for *)
(* 4 to 11, and nothing yet for 12 to 15, where device registers are.      *)
(* Frames 4, 5 and 6 are the boot loader's tables, 3 holds the bitmap; the *)
(* frames of the pool hold what was in memory before: nothing, or words    *)
(* that look like entries present.                                         *)
(*                                                                         *)
(* The heap's window is clear of the direct map, over its small pages, or  *)
(* under a large one.                                                      *)
(***************************************************************************)
EXTENDS Paging, TLC

MCIdx == 0 .. 3
MCFrames == 0 .. 11 \cup {15}
MCFree == {1, 2, 7, 8, 9}
MCMmio == {15}

MCPages ==
  {<<0, a, b>> : a, b \in MCIdx}
    \cup {<<1, 0, 0>>, <<1, 0, 1>>, <<1, 1, 0>>, <<1, 1, 3>>, <<2, 0, 0>>, <<3, 0, 0>>}

MCDirectMap == [f \in MCFrames |-> <<0, f \div 4, f % 4>>]

Large(f) == [frame |-> f, large |-> TRUE]
Leftover(g) == [x \in MCIdx |-> g]

MCBootTables ==
  {[f \in MCFrames |->
      CASE f = 4 -> [x \in MCIdx |-> IF x = 0 THEN Small(5) ELSE NULL]
        [] f = 5 -> <<Large(4), Large(8), NULL>> @@ (0 :> Small(6))
        [] f = 6 -> [x \in MCIdx |-> Small(x)]
        [] OTHER -> Leftover(g)] : g \in {NULL, Small(10)}}

ClearWindow == {<<1, 0, 0>>, <<1, 1, 0>>, <<2, 0, 0>>}
MCClearWindows == {ClearWindow}
MCWindows == {ClearWindow, {<<0, 0, 0>>, <<0, 0, 1>>, <<0, 0, 3>>}, {<<0, 1, 1>>}}

(* Nothing but types is promised once the pages have run out, so TLC need  *)
(* not look further than the first such state.                             *)
PagesLast == ~exhausted
=============================================================================
