------------------------------ MODULE HeapSpec ------------------------------
(***************************************************************************)
(* What the kernel heap promises its caller, with no bitmap, no headers,   *)
(* no rounding and no scan: a request for some bytes is answered in one    *)
(* step, with a run of blocks that has a header block and room for the     *)
(* bytes and that no live allocation touches.  Only when the heap has no   *)
(* such run may it answer NULL, or run over into memory that is not the    *)
(* heap's.  A size too near the end of size_t gets a header block and no   *)
(* room at all; whoever then uses the room leaves the heap too.            *)
(***************************************************************************)
EXTENDS Integers

CONSTANTS
  OwnedBlocks,       (* blocks the heap has bits of its own for            *)
  BLOCK_SIZE,        (* bytes in a block                                   *)
  Amounts,           (* sizes callers ask for                              *)
  Wrapping,          (* those of them whose rounding wraps                 *)
  NULL               (* the answer to a request that cannot be met         *)

VARIABLES
  live,              (* allocations handed out and not yet given back      *)
  want,              (* size asked for by the call being served, or NULL   *)
  ret,               (* the answer to the last call                        *)
  halted             (* the kernel left the heap: nothing more is promised *)

vars == <<live, want, ret, halted>>

(* The blocks of an allocation: its header and the payload behind it.      *)
Extent(a) == a.at .. (a.at + a.blocks - 1)

(* Run a can hold what the pending call asks for and is free.              *)
Candidates == [at : 0 .. (OwnedBlocks - 1), blocks : 1 .. OwnedBlocks, size : {want}]

Fits(a) ==
  /\ a.at + a.blocks <= OwnedBlocks
  /\ IF a.size \in Wrapping THEN a.blocks = 1 ELSE (a.blocks - 1) * BLOCK_SIZE >= a.size
  /\ \A b \in live : Extent(a) \cap Extent(b) = {}

Full == \A a \in Candidates : ~Fits(a)

Init == live = {} /\ want = NULL /\ ret = NULL /\ halted = FALSE

Request(size) ==
  /\ ~halted /\ want = NULL
  /\ want' = size
  /\ UNCHANGED <<live, ret, halted>>

Grant(a) ==
  /\ ~halted /\ want # NULL
  /\ Fits(a)
  /\ live' = live \cup {a}
  /\ ret' = a.at + 1
  /\ want' = NULL
  /\ UNCHANGED halted

Refuse ==
  /\ ~halted /\ want # NULL
  /\ Full
  /\ ret' = NULL
  /\ want' = NULL
  /\ UNCHANGED <<live, halted>>

(* The answer lies beyond the blocks the heap has bits for.                *)
Overrun ==
  /\ ~halted /\ want # NULL
  /\ Full
  /\ halted' = TRUE
  /\ want' = NULL
  /\ UNCHANGED <<live, ret>>

Release(a) ==
  /\ ~halted /\ want = NULL
  /\ live' = live \ {a}
  /\ UNCHANGED <<want, ret, halted>>

(* A caller uses room it asked for and did not get.                        *)
Trespass(a) ==
  /\ ~halted /\ want = NULL
  /\ a.size \in Wrapping
  /\ halted' = TRUE
  /\ UNCHANGED <<live, want, ret>>

Next ==
  \/ \E size \in Amounts : Request(size)
  \/ \E a \in Candidates : Grant(a)
  \/ Refuse
  \/ Overrun
  \/ \E a \in live : Release(a) \/ Trespass(a)

Spec == Init /\ [][Next]_vars
=============================================================================
