---------------------------- MODULE AddressSpace ----------------------------
(***************************************************************************)
(* What vmm_alloc promises the kernel, with no tables, no walk and no TLB: *)
(* the address space is a function from virtual to physical pages, and a   *)
(* call changes it at the page it names and nowhere else.  The promise     *)
(* holds while the page allocator has pages to give.                       *)
(***************************************************************************)

CONSTANTS
  Virts,             (* virtual pages the kernel maps                      *)
  Frames,            (* physical pages                                     *)
  NULL               (* a virtual page that is not mapped                  *)

VARIABLES
  space,             (* the physical page behind each virtual page         *)
  want,              (* the page being mapped and its frame, or NULL       *)
  exhausted          (* the page allocator has failed                      *)

vars == <<space, want, exhausted>>

Spaces == [Virts -> Frames \cup {NULL}]

Init == space \in Spaces /\ want = NULL /\ exhausted = FALSE

Request(v, f) ==
  /\ ~exhausted /\ want = NULL
  /\ want' = <<v, f>>
  /\ UNCHANGED <<space, exhausted>>

(* The page asked for changes, in one step, and no other.                  *)
Map ==
  /\ ~exhausted /\ want # NULL
  /\ space' = [space EXCEPT ![want[1]] = want[2]]
  /\ want' = NULL
  /\ UNCHANGED exhausted

(* Without pages, all promises are off.                                    *)
Fail == exhausted' = TRUE

Next ==
  \/ \E v \in Virts, f \in Frames : Request(v, f)
  \/ Map
  \/ Fail

Spec == Init /\ [][Next]_vars
=============================================================================
