------------------------------- MODULE Newlib -------------------------------
(***************************************************************************)
(* What newlib gets from the kernel (lib/newlib/syscalls.cpp, reent.cpp):  *)
(* write goes to the Console, sbrk hands out the bytes of a fixed array,   *)
(* getreent makes the one reentrancy structure on first use, isatty and    *)
(* fstat answer a constant, and every other call spins for ever.           *)
(*                                                                         *)
(* newlib's malloc calls sbrk and is external.  sbrk's reading of the      *)
(* break and its store are not synchronised, and the recursive lock malloc *)
(* takes does not keep cores apart (RecSpinlock): any core may call sbrk,  *)
(* at any moment.  With -O2, the default, the break is read once.          *)
(***************************************************************************)
EXTENDS Console

CONSTANTS
  heap_size,
  IntMax,      \* the largest int
  Increments,  \* the increments malloc calls sbrk with
  MaxBlocks    \* bound of the model: blocks in the heap when sbrk is called

ASSUME NewlibAssumption ==
  /\ IntMax \in Nat
  /\ heap_size \in 0 .. IntMax
  /\ Increments \subseteq -IntMax - 1 .. IntMax

VARIABLES
  heap_index,  \* the break, an index into the array
  held,        \* the blocks [lo, hi) that sbrk has returned, in that order
  span,        \* span[c]: the break core c has read in sbrk, and the new one
  met,         \* history: two cores have been in sbrk at once
  wrapped,     \* history: the sum of break and increment was no int
  init,        \* reent.cpp's flag
  everReady,   \* history: an initialisation of the structure has been completed
  libPc        \* libPc[c]: where core c is in a system call

heapVars == <<heap_index, held, span, met, wrapped>>
libVars == <<heapVars, init, everReady, libPc>>
vars == <<conVars, libVars>>

Init ==
  /\ ConsoleInit
  /\ heap_index = 0
  /\ held = << >>
  /\ span = [c \in Cores |-> [lo |-> 0, hi |-> 0]]
  /\ met = FALSE
  /\ wrapped = FALSE
  /\ init = FALSE
  /\ everReady = FALSE
  /\ libPc = [c \in Cores |-> "idle"]

GoesTo(c, label) == libPc' = [libPc EXCEPT ![c] = label]

\* Core c is in no call, and the kernel has started.
Free(c) == Booted /\ conPc[c] = "idle" /\ libPc[c] = "idle"

\* Calls that are not implemented.
NYI == {"exit", "execve", "getpid", "fork", "kill", "wait", "close", "link",
        "lseek", "open", "read", "stat", "unlink", "gettimeofday"}

-----------------------------------------------------------------------------
\* ebbos_newlib_write; also an assertion's line.
Write(c) ==
  /\ Free(c)
  /\ \E n \in 0 .. 2 : WriteCall(c, n)
  /\ UNCHANGED libVars

\* A call that is not implemented does not come back.
CallNYI(c) ==
  /\ Free(c)
  /\ \E call \in NYI : GoesTo(c, "spin")
  /\ UNCHANGED <<conVars, heapVars, init, everReady>>

\* int arithmetic.
Int32(n) == ((n + IntMax + 1) % (2 * (IntMax + 1))) - (IntMax + 1)

\* Mutant of Fits: the break may already be past the end.
FitsIndex(incr) == ~(heap_index > heap_size)

\* The test of ebbos_newlib_sbrk.
Fits(incr) == ~(Int32(heap_index + incr) > heap_size)

\* malloc asks for more, or for where the break is, or gives back at most its
\* last block, when that ends at the break.
Asks(incr) ==
  \/ incr >= 0
  \/ /\ held # << >>
     /\ held[Len(held)].hi = heap_index
     /\ held[Len(held)].lo <= heap_index + incr

\* The blocks after the last of them has changed by incr bytes.
Resized(incr) ==
  LET n == Len(held)
      last == [held[n] EXCEPT !.hi = @ + incr]
  IN  IF last.lo = last.hi THEN SubSeq(held, 1, n - 1) ELSE [held EXCEPT ![n] = last]

\* ebbos_newlib_sbrk reads the break, which the increment fits ...  (Nothing is
\* said of calls that follow on a sum that has wrapped.)
SbrkTest(c) ==
  /\ Free(c)
  /\ ~wrapped
  /\ Len(held) < MaxBlocks
  /\ \E incr \in Increments :
       /\ Asks(incr)
       /\ Fits(incr)
       /\ span' = [span EXCEPT ![c] =
                     [lo |-> heap_index, hi |-> Int32(heap_index + incr)]]
       /\ held' = IF incr < 0 THEN Resized(incr) ELSE held
       /\ wrapped' = (Int32(heap_index + incr) # heap_index + incr)
  /\ met' = (met \/ \E d \in Cores : libPc[d] = "sbrk")
  /\ GoesTo(c, "sbrk")
  /\ UNCHANGED <<conVars, heap_index, init, everReady>>

\* ... stores the new one, and returns the old one, where a new block begins.
SbrkStore(c) ==
  /\ libPc[c] = "sbrk"
  /\ heap_index' = span[c].hi
  /\ held' = IF span[c].lo < span[c].hi THEN Append(held, span[c]) ELSE held
  /\ span' = [span EXCEPT ![c] = [lo |-> 0, hi |-> 0]]
  /\ GoesTo(c, "idle")
  /\ UNCHANGED <<conVars, met, wrapped, init, everReady>>

\* When the array is used up, errno is set in the reentrancy structure.
SbrkRefused(c) ==
  /\ Free(c)
  /\ ~wrapped
  /\ \E incr \in Increments : Asks(incr) /\ ~Fits(incr)
  /\ GoesTo(c, "getreent")
  /\ UNCHANGED <<conVars, heapVars, init, everReady>>

\* A function of newlib that keeps state calls getreent.
CallReent(c) ==
  /\ Free(c)
  /\ GoesTo(c, "getreent")
  /\ UNCHANGED <<conVars, heapVars, init, everReady>>

\* ebbos_newlib_getreent reads the flag.
ReadInit(c) ==
  /\ libPc[c] = "getreent"
  /\ GoesTo(c, IF init THEN "got" ELSE "init")
  /\ UNCHANGED <<conVars, heapVars, init, everReady>>

\* Mutant of InitReent: the flag is set before the structure is filled in.
InitReentFlagFirst(c) ==
  /\ libPc[c] = "init"
  /\ init' = TRUE
  /\ GoesTo(c, "flag")
  /\ UNCHANGED <<conVars, heapVars, everReady>>

\* ebbos_init_reent returns.
InitReent(c) ==
  /\ libPc[c] = "init"
  /\ everReady' = TRUE
  /\ GoesTo(c, "flag")
  /\ UNCHANGED <<conVars, heapVars, init>>

SetInit(c) ==
  /\ libPc[c] = "flag"
  /\ init' = TRUE
  /\ GoesTo(c, "got")
  /\ UNCHANGED <<conVars, heapVars, everReady>>

GotReent(c) ==
  /\ libPc[c] = "got"
  /\ GoesTo(c, "idle")
  /\ UNCHANGED <<conVars, heapVars, init, everReady>>

Next ==
  \/ \E c \in Cores :
       \/ ConsoleStep(c) /\ UNCHANGED libVars
       \/ Write(c)
       \/ CallNYI(c)
       \/ CallReent(c)
       \/ ReadInit(c)
       \/ InitReent(c)
       \/ SetInit(c)
       \/ GotReent(c)
       \/ SbrkTest(c)
       \/ SbrkStore(c)
       \/ SbrkRefused(c)
  \/ Transmit /\ UNCHANGED libVars

Spec == Init /\ [][Next]_vars

-----------------------------------------------------------------------------
\* Whatever is asked for and given back, and also when cores race or a request
\* is refused at the last byte, the blocks malloc has from sbrk lie inside the
\* array; and they are apart from each other, unless two cores have been in sbrk
\* at once.  All this until a sum leaves the range of int: sbrk takes it for a
\* break below the end.
HeapBlocksApart ==
  ~wrapped =>
    \A i \in 1 .. Len(held) :
      /\ 0 <= held[i].lo /\ held[i].hi <= heap_size
      /\ ~met => \A j \in 1 .. i - 1 : held[j].hi <= held[i].lo

\* Nobody gets the reentrancy structure before it has been initialised, also
\* when cores race for the first call.  (A core that has seen the flag clear
\* may initialise it again, under the feet of those that use it already.)
ReentReady == \A c \in Cores : libPc[c] = "got" => everReady
=============================================================================
