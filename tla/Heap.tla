-------------------------------- MODULE Heap --------------------------------
(***************************************************************************)
(* What the kernel's memory promises: every core owns an arena and one     *)
(* bump pointer in it, the frontier, whichever allocator moves it.  A      *)
(* block starts at the first multiple of its boundary from the frontier    *)
(* on, so that the core is given no byte twice and loses none, and the     *)
(* frontiers of the other cores stay where they are.  A block that reaches *)
(* the end of its arena, and nothing else, is reported on the console;     *)
(* until then every block stays inside the arena of its core.              *)
(***************************************************************************)
EXTENDS Integers, Sequences

CONSTANTS
  Cores,          \* the cores
  ArenaStart(_),  \* where the arena of a core starts
  ArenaEnd(_)     \* and the address behind it

VARIABLES
  given,     \* the blocks handed out, oldest first: lo, hi, loc, boundary
  frontier,  \* of each core, the address behind its last block
  broken     \* a block has been reported to reach the end of its arena

vars == <<given, frontier, broken>>

Init ==
  /\ given = << >>
  /\ frontier = [c \in Cores |-> ArenaStart(c)]
  /\ broken = FALSE

\* Core c gets one more block.
Give(c) ==
  /\ Len(given') = Len(given) + 1
  /\ \A i \in 1 .. Len(given) : given'[i] = given[i]
  /\ LET b == given'[Len(given) + 1]
     IN  /\ b.loc = c
         /\ frontier[c] <= b.lo
         /\ b.lo < frontier[c] + b.boundary
         /\ b.lo % b.boundary = 0
         /\ frontier' = [frontier EXCEPT ![c] = b.hi]
         /\ broken => broken'
         /\ broken' => (broken \/ ArenaEnd(c) <= b.hi)
         /\ broken' \/ b.hi <= ArenaEnd(c)

Next == \E c \in Cores : Give(c)

Spec == Init /\ [][Next]_vars
=============================================================================
