------------------------- MODULE SimpleMemAllocator -------------------------
(***************************************************************************)
(* ebb/MemAllocator/SimpleMemAllocator.c++ on top of lrt::mem.  While core *)
(* loc boots, the kernel allocates from the core's region with             *)
(* lrt::mem::memalign (trans::init, event::initCpu, trans::initCpu ...).   *)
(* The first call of the memAllocator Ebb on the core then constructs a    *)
(* SimpleMemAllocator there: its memory comes from lrt::mem, it copies the *)
(* bounds of the region, and from then on the core allocates through it.   *)
(*                                                                         *)
(* The constructor moves the region's start but not its current, so        *)
(* nothing but the calling order keeps lrt::mem from handing the same      *)
(* bytes out again: LrtMemalign is guarded by that order, and EbbDispatch  *)
(* shows that a core constructs its representative once only.              *)
(***************************************************************************)
EXTENDS LrtMem

CONSTANTS
  RepSize,  \* sizeof(SimpleMemAllocator)
  NoRep     \* the core has not constructed its representative yet

ASSUME RepAssumption == RepSize \in Nat \ {0} /\ NoRep \notin Region

VARIABLE sma  \* the representative of each core, or NoRep

vars == <<memVars, sma>>

Init ==
  /\ MemInit
  /\ sma = [loc \in Locations |-> NoRep]

\* Boot code of core loc, before app::start.
LrtMemalign(loc, boundary, size) ==
  /\ sma[loc] = NoRep
  /\ Memalign(loc, boundary, size)
  /\ UNCHANGED sma

\* Mutant of NewRep: the bounds are copied before the representative is
\* allocated.
NewRepCopiesFirst(loc) ==
  /\ sma[loc] = NoRep
  /\ LET p == AlignUp(regions[loc].current, 8)
     IN  /\ Len(blocks) < MaxBlocks
         /\ asserted' = (asserted \/ ~(p + RepSize < regions[loc].end))
         /\ blocks' = Append(blocks, NewBlock(p, 8, RepSize, loc))
         /\ sma' = [sma EXCEPT ![loc] = regions[loc]]
         /\ regions' = [regions EXCEPT ![loc].current = p + RepSize,
                                       ![loc].start = regions[loc].end]

\* new SimpleMemAllocator: operator new is lrt::mem::malloc(size, loc), the
\* constructor then takes what is left of the region.
NewRep(loc) ==
  /\ sma[loc] = NoRep
  /\ LET p == AlignUp(regions[loc].current, 8)
     IN  /\ Len(blocks) < MaxBlocks
         /\ asserted' = (asserted \/ ~(p + RepSize < regions[loc].end))
         /\ blocks' = Append(blocks, NewBlock(p, 8, RepSize, loc))
         /\ sma' = [sma EXCEPT ![loc] = [start   |-> regions[loc].start,
                                         current |-> p + RepSize,
                                         end     |-> regions[loc].end]]
         /\ regions' = [regions EXCEPT ![loc].current = p + RepSize,
                                       ![loc].start = regions[loc].end]

\* SimpleMemAllocator::memalign when the request fits; malloc is memalign
\* with a boundary of 8 and free does nothing.
RepMemalign(loc, boundary, size) ==
  /\ sma[loc] # NoRep
  /\ LET p == AlignUp(sma[loc].current, boundary)
     IN  /\ Len(blocks) < MaxBlocks
         /\ p + size <= sma[loc].end
         /\ blocks' = Append(blocks, NewBlock(p, boundary, size, loc))
         /\ sma' = [sma EXCEPT ![loc].current = p + size]
  /\ UNCHANGED <<regions, asserted>>

\* ... and when it does not: nullptr is returned and nothing changes.
RepRefuse(loc, boundary, size) ==
  /\ sma[loc] # NoRep
  /\ AlignUp(sma[loc].current, boundary) + size > sma[loc].end
  /\ UNCHANGED vars

Next ==
  \E loc \in Locations :
    \/ NewRep(loc)
    \/ \E r \in Requests :
         \/ LrtMemalign(loc, r[1], r[2])
         \/ RepMemalign(loc, r[1], r[2])
         \/ RepRefuse(loc, r[1], r[2])

Spec == Init /\ [][Next]_vars

-----------------------------------------------------------------------------
TypeOK ==
  /\ regions \in [Locations -> Region]
  /\ blocks \in Seq(Block)
  /\ asserted \in BOOLEAN
  /\ sma \in [Locations -> Region \cup {NoRep}]

\* The address below which every byte of core loc's region may be in use.
Used(loc) == IF sma[loc] = NoRep THEN regions[loc].current
                                 ELSE sma[loc].current

\* The strengthening that makes BlocksDisjoint inductive.
RegionsKept ==
  \A loc \in Locations :
    /\ regions[loc].end = RegionEnd(loc)
    /\ sma[loc] # NoRep => sma[loc].end = RegionEnd(loc)

UsedInRegion ==
  ~asserted => \A loc \in Locations :
                 /\ RegionStart(loc) <= Used(loc)
                 /\ Used(loc) <= RegionEnd(loc)

BlocksBelowUsed ==
  ~asserted => \A i \in 1 .. Len(blocks) :
                 /\ RegionStart(blocks[i].loc) <= blocks[i].lo
                 /\ blocks[i].lo < blocks[i].hi
                 /\ blocks[i].hi <= Used(blocks[i].loc)

IInv == /\ TypeOK
        /\ RegionsKept
        /\ UsedInRegion
        /\ BlocksBelowUsed
        /\ BlocksDisjoint

\* The two allocators implement Heap: the pointer of lrt::mem and the copy the
\* constructor takes of it are together one bump pointer per core, which goes on
\* at the hand over where it stood, skips no byte but for the boundary, and
\* never moves while another core allocates.
TheHeap == INSTANCE Heap WITH
  Cores      <- Locations,
  ArenaStart <- RegionStart,
  ArenaEnd   <- RegionEnd,
  given      <- blocks,
  frontier   <- [loc \in Locations |-> Used(loc)],
  broken     <- asserted

HeapSpec == TheHeap!Spec
=============================================================================
