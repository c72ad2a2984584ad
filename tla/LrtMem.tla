------------------------------- MODULE LrtMem -------------------------------
(***************************************************************************)
(* The boot-time memory of lrt/mem.c++ and lrt/arch/x86_64/mem.c++: the    *)
(* RAM behind the kernel image is cut into one region per core, and        *)
(* lrt::mem::memalign bumps a pointer inside the region of a core.         *)
(*                                                                         *)
(* Addresses are integers.  A region is the half open interval             *)
(* [start, end) with the bump pointer current.  memalign never fails: when *)
(* the block does not fit, lrtAssert prints a line on the console and the  *)
(* allocation goes on, so `asserted' remembers that the line was printed.  *)
(***************************************************************************)
EXTENDS Integers, Sequences

CONSTANTS
  NCores,     \* boot::getNCores, as mem::init receives it
  MemStart,   \* memstart: the end of the kernel image and of ACPI's data
  RamTop,     \* 0x100000 + (memoryHigher << 10), the end of the RAM
  RegionSize, \* sizeof(Region)
  Requests,   \* the <<boundary, size>> pairs the callers ask for
  MaxBlocks   \* bound of the model: blocks handed out in one behaviour

ASSUME NCoresAssumption == NCores \in Nat \ {0}
ASSUME MemoryAssumption ==
  /\ MemStart \in Nat /\ RamTop \in Nat /\ RegionSize \in Nat
  /\ MemStart < RamTop
ASSUME RequestsAssumption == Requests \subseteq (Nat \ {0}) \X (Nat \ {0})
ASSUME MaxBlocksAssumption == MaxBlocks \in Nat

VARIABLES
  regions,    \* the Region table
  blocks,     \* history: every block handed out, oldest first
  asserted    \* history: an lrtAssert has printed its line

memVars == <<regions, blocks, asserted>>

Locations == 0 .. NCores - 1

TableBytes == NCores * RegionSize

\* Mutant of Share: the bytes below memstart are not taken off numBytes.
WholeRamShare == RamTop \div NCores

\* What one pass of the loop of mem::init adds to ptr.  The bytes of the
\* table itself are not taken off numBytes.
Share == (RamTop - MemStart) \div NCores

\* ptr at the start of pass i of the loop.
RegionStart(i) == MemStart + TableBytes + i * Share

\* ptr at its end.
RegionEnd(i) == RegionStart(i) + Share

\* Mutant of AlignUp: do not round at all.
AlignNot(p, boundary) == p

\* Mutant of AlignUp: the next multiple, also of an aligned pointer.
AlignNext(p, boundary) == (p \div boundary + 1) * boundary

\* The expression both allocators round a pointer up with.
AlignUp(p, boundary) == ((p + boundary - 1) \div boundary) * boundary

Region == [start : Int, current : Int, end : Int]

Block == [lo : Int, hi : Int, loc : Locations, boundary : Nat]

NewBlock(p, boundary, size, loc) ==
  [lo |-> p, hi |-> p + size, loc |-> loc, boundary |-> boundary]

\* mem::init, run once by the boot core before anything allocates.
MemInit ==
  /\ regions = [i \in Locations |-> [start   |-> RegionStart(i),
                                     current |-> RegionStart(i),
                                     end     |-> RegionEnd(i)]]
  /\ blocks = << >>
  /\ asserted = FALSE

\* mem::memalign; mem::malloc is memalign with a boundary of 8.
Memalign(loc, boundary, size) ==
  LET p == AlignUp(regions[loc].current, boundary)
  IN  /\ Len(blocks) < MaxBlocks
      /\ asserted' = (asserted \/ ~(p + size < regions[loc].end))
      /\ regions' = [regions EXCEPT ![loc].current = p + size]
      /\ blocks' = Append(blocks, NewBlock(p, boundary, size, loc))

-----------------------------------------------------------------------------
Disjoint(a, b) == a.hi <= b.lo \/ b.hi <= a.lo

\* Until an assertion is reported no two blocks share a byte, whichever cores
\* and whichever of the two allocators handed them out: the bump pointers of
\* memalign and the cut of the RAM in mem::init keep them apart.
BlocksDisjoint ==
  ~asserted => \A i, j \in 1 .. Len(blocks) :
                 i # j => Disjoint(blocks[i], blocks[j])

\* Every block starts at a multiple of the boundary its caller asked for (page
\* tables and stacks depend on it), whatever came before it in the region.
BlocksAligned ==
  \A i \in 1 .. Len(blocks) : blocks[i].lo % blocks[i].boundary = 0

\* mem::init divides the RAM as if the Region table took none of it, so the
\* last region may run past the RAM.  It never does by more than the table's
\* size, and no block starts inside the table.
OvershootBounded ==
  ~asserted => \A i \in 1 .. Len(blocks) :
                 /\ blocks[i].lo >= MemStart + TableBytes
                 /\ blocks[i].hi <= RamTop + TableBytes
=============================================================================
