---------------------- MODULE SimpleMemAllocatorProofs ----------------------
(***************************************************************************)
(* For every number of cores, every memory size and every sequence of      *)
(* requests: until an assertion is reported, blocks never overlap, and the *)
(* two allocators together implement Heap.                                 *)
(***************************************************************************)
EXTENDS SimpleMemAllocator, TLAPS

\* Rounding up never moves a pointer down, moves it by less than the boundary
\* and ends on a multiple of the boundary.
LEMMA AlignUpBounds ==
  ASSUME NEW p \in Int, NEW b \in Nat \ {0}
  PROVE  /\ AlignUp(p, b) \in Int
         /\ p <= AlignUp(p, b)
         /\ AlignUp(p, b) < p + b
  BY DEF AlignUp

\* The same for the boundary of 8 that malloc asks for.
LEMMA AlignUpWord ==
  ASSUME NEW p \in Int
  PROVE  /\ AlignUp(p, 8) \in Int /\ p <= AlignUp(p, 8)
         /\ AlignUp(p, 8) < p + 8 /\ AlignUp(p, 8) % 8 = 0
  BY DEF AlignUp

\* AlignUp returns a multiple of the boundary.
LEMMA AlignUpAligned ==
  ASSUME NEW p \in Int, NEW b \in Nat \ {0}
  PROVE  AlignUp(p, b) % b = 0
  BY DEF AlignUp

\* The RAM is cut into a whole number of bytes per core.
LEMMA ShareNat == Share \in Nat /\ NCores * Share <= RamTop - MemStart
  BY NCoresAssumption, MemoryAssumption DEF Share

\* The bounds of a region are integers.
LEMMA RegionStartInt ==
  ASSUME NEW i \in Int
  PROVE  RegionStart(i) \in Int /\ RegionEnd(i) \in Int
  BY NCoresAssumption, MemoryAssumption, ShareNat
     DEF RegionEnd, RegionStart, TableBytes

\* Regions of lower cores end before those of higher cores start.
LEMMA RegionsOrdered ==
  ASSUME NEW i \in Locations, NEW j \in Locations, i < j
  PROVE  RegionEnd(i) <= RegionStart(j)
<1>1. i \in Int /\ j \in Int /\ Share \in Nat /\ j - i - 1 \in Nat
  BY NCoresAssumption, ShareNat DEF Locations
<1>2. \A k, n \in Nat : k * n \in Nat
  OBVIOUS
<1>3. j * Share = i * Share + Share + (j - i - 1) * Share
  BY <1>1
<1>4. (j - i - 1) * Share \in Nat /\ i * Share \in Int /\ j * Share \in Int
  BY <1>1, <1>2
<1>5. MemStart + TableBytes \in Int
  BY NCoresAssumption, MemoryAssumption DEF TableBytes
<1> QED
  BY <1>1, <1>3, <1>4, <1>5 DEF RegionEnd, RegionStart

-----------------------------------------------------------------------------
\* mem::init establishes the invariant: all regions are empty.
LEMMA InitIInv == Init => IInv
<1> SUFFICES ASSUME Init PROVE IInv
  OBVIOUS
<1> USE DEF Init, MemInit, Locations
<1>1. TypeOK
  <2>1. \A loc \in Locations : RegionStart(loc) \in Int /\ RegionEnd(loc) \in Int
    BY RegionStartInt
  <2>2. regions \in [Locations -> Region]
    BY <2>1 DEF Region
  <2>3. blocks \in Seq(Block)
    OBVIOUS
  <2>4. sma \in [Locations -> Region \cup {NoRep}]
    OBVIOUS
  <2> QED
    BY <2>2, <2>3, <2>4 DEF TypeOK
<1>2. RegionsKept
  BY RepAssumption DEF RegionsKept
<1>3. UsedInRegion
  BY RegionStartInt, ShareNat, NCoresAssumption, MemoryAssumption
     DEF UsedInRegion, Used, RegionEnd, RegionStart, TableBytes
<1>4. BlocksBelowUsed /\ BlocksDisjoint
  BY DEF BlocksBelowUsed, BlocksDisjoint
<1> QED
  BY <1>1, <1>2, <1>3, <1>4 DEF IInv

\* Every action that hands out a block types its result.
LEMMA TypeStep == TypeOK /\ [Next]_vars => TypeOK'
<1> SUFFICES ASSUME TypeOK, [Next]_vars PROVE TypeOK'
  OBVIOUS
<1> USE DEF TypeOK
<1>1. ASSUME NEW loc \in Locations, NewRep(loc) PROVE TypeOK'
  <2> DEFINE p == AlignUp(regions[loc].current, 8)
  <2>1. p \in Int
    BY AlignUpBounds DEF Region
  <2>2. NewBlock(p, 8, RepSize, loc) \in Block
    BY <2>1, RepAssumption DEF NewBlock, Block
  <2>3. /\ regions[loc].start \in Int /\ regions[loc].end \in Int
        /\ p + RepSize \in Int
    BY <2>1, RepAssumption DEF Region
  <2>4. [start |-> regions[loc].start, current |-> p + RepSize,
         end |-> regions[loc].end] \in Region
    BY <2>3 DEF Region
  <2>5. sma' \in [Locations -> Region \cup {NoRep}]
    BY <1>1, <2>4 DEF NewRep
  <2>6. regions' \in [Locations -> Region]
    <3>1. [regions[loc] EXCEPT !.current = p + RepSize,
                               !.start = regions[loc].end] \in Region
      BY <2>3 DEF Region
    <3>2. regions' = [regions EXCEPT ![loc] =
                        [regions[loc] EXCEPT !.current = p + RepSize,
                                             !.start = regions[loc].end]]
      BY <1>1 DEF NewRep
    <3> QED
      BY <3>1, <3>2
  <2> QED
    BY <1>1, <2>2, <2>5, <2>6 DEF NewRep
<1>2. ASSUME NEW loc \in Locations, NEW r \in Requests, LrtMemalign(loc, r[1], r[2])
      PROVE  TypeOK'
  <2> DEFINE p == AlignUp(regions[loc].current, r[1])
  <2>1. r[1] \in Nat \ {0} /\ r[2] \in Nat \ {0}
    BY RequestsAssumption
  <2>2. p \in Int
    BY <2>1, AlignUpBounds DEF Region
  <2>3. NewBlock(p, r[1], r[2], loc) \in Block
    BY <2>1, <2>2 DEF NewBlock, Block
  <2>4. regions' \in [Locations -> Region]
    <3>1. [regions[loc] EXCEPT !.current = p + r[2]] \in Region
      <4>1. regions[loc] \in Region /\ p + r[2] \in Int
        BY <2>1, <2>2
      <4> QED
        BY <4>1 DEF Region
    <3>2. regions' = [regions EXCEPT ![loc] =
                        [regions[loc] EXCEPT !.current = p + r[2]]]
      BY <1>2 DEF LrtMemalign, Memalign
    <3> QED
      BY <3>1, <3>2
  <2> QED
    BY <1>2, <2>3, <2>4 DEF LrtMemalign, Memalign
<1>3. ASSUME NEW loc \in Locations, NEW r \in Requests, RepMemalign(loc, r[1], r[2])
      PROVE  TypeOK'
  <2> DEFINE p == AlignUp(sma[loc].current, r[1])
  <2>1. r[1] \in Nat \ {0} /\ r[2] \in Nat \ {0}
    BY RequestsAssumption
  <2>2. sma[loc] \in Region
    BY <1>3 DEF RepMemalign
  <2>3. p \in Int
    BY <2>1, <2>2, AlignUpBounds DEF Region
  <2>4. NewBlock(p, r[1], r[2], loc) \in Block
    BY <2>1, <2>3 DEF NewBlock, Block
  <2>5. sma' \in [Locations -> Region \cup {NoRep}]
    <3>1. [sma[loc] EXCEPT !.current = p + r[2]] \in Region
      <4>1. p + r[2] \in Int
        BY <2>1, <2>3
      <4> QED
        BY <2>2, <4>1 DEF Region
    <3>2. sma' = [sma EXCEPT ![loc] = [sma[loc] EXCEPT !.current = p + r[2]]]
      BY <1>3 DEF RepMemalign
    <3> QED
      BY <3>1, <3>2
  <2> QED
    BY <1>3, <2>4, <2>5 DEF RepMemalign
<1>4. ASSUME NEW loc \in Locations, NEW r \in Requests, RepRefuse(loc, r[1], r[2])
      PROVE  TypeOK'
  BY <1>4 DEF RepRefuse, vars, memVars
<1>5. CASE UNCHANGED vars
  BY <1>5 DEF vars, memVars
<1> QED
  BY <1>1, <1>2, <1>3, <1>4, <1>5 DEF Next

\* The step all three allocating actions share: one more block, cut from the
\* unused end of the region of loc.  Nothing else in the region of loc, and
\* nothing in another region, is touched.
LEMMA BumpKeepsApart ==
  ASSUME IInv, TypeOK', NEW loc \in Locations,
         NEW b \in Nat \ {0}, NEW size \in Nat \ {0}, NEW p \in Int,
         p >= Used(loc),
         blocks' = Append(blocks, NewBlock(p, b, size, loc)),
         asserted => asserted',
         ~asserted' => p + size <= RegionEnd(loc),
         \A l \in Locations : Used(l)' = IF l = loc THEN p + size ELSE Used(l)
  PROVE  UsedInRegion' /\ BlocksBelowUsed' /\ BlocksDisjoint'
<1> USE DEF Locations
<1>0. SUFFICES ASSUME ~asserted'
               PROVE  UsedInRegion' /\ BlocksBelowUsed' /\ BlocksDisjoint'
  BY DEF UsedInRegion, BlocksBelowUsed, BlocksDisjoint
<1> DEFINE n == Len(blocks)
           new == NewBlock(p, b, size, loc)
<1>1. /\ n \in Nat /\ Len(blocks') = n + 1 /\ blocks'[n + 1] = new
      /\ \A i \in 1 .. n : blocks'[i] = blocks[i] /\ blocks[i] \in Block
  BY DEF IInv, TypeOK
<1>2. \A l \in Locations : Used(l) \in Int /\ RegionStart(l) \in Int
                            /\ RegionEnd(l) \in Int
  <2> TAKE l \in Locations
  <2>1. regions[l].current \in Int
    BY DEF IInv, TypeOK, Region
  <2>2. sma[l] # NoRep => sma[l].current \in Int
    BY DEF IInv, TypeOK, Region
  <2>3. Used(l) \in Int
    BY <2>1, <2>2 DEF Used
  <2>4. l \in Int /\ l + 1 \in Int
    BY NCoresAssumption
  <2> QED
    BY <2>3, <2>4, RegionStartInt
<1>3. /\ RegionStart(loc) <= Used(loc) /\ p + size <= RegionEnd(loc)
      /\ \A l \in Locations : RegionStart(l) <= Used(l) /\ Used(l) <= RegionEnd(l)
  BY <1>0 DEF IInv, UsedInRegion
<1>4. UsedInRegion'
  BY <1>2, <1>3 DEF UsedInRegion, RegionEnd, RegionStart, TableBytes, Share
<1>5. new.lo = p /\ new.hi = p + size /\ new.loc = loc
  BY DEF NewBlock
<1>6. \A i \in 1 .. n : /\ RegionStart(blocks[i].loc) <= blocks[i].lo
                        /\ blocks[i].lo < blocks[i].hi
                        /\ blocks[i].hi <= Used(blocks[i].loc)
  BY <1>0 DEF IInv, BlocksBelowUsed
<1>7. BlocksBelowUsed'
  <2> DEFINE used == [l \in Locations |-> IF l = loc THEN p + size ELSE Used(l)]
  <2>1. ASSUME NEW i \in 1 .. n + 1
        PROVE  /\ RegionStart(blocks'[i].loc) <= blocks'[i].lo
               /\ blocks'[i].lo < blocks'[i].hi
               /\ blocks'[i].loc \in Locations
               /\ blocks'[i].hi <= used[blocks'[i].loc]
    <3>1. CASE i = n + 1
      BY <3>1, <1>1, <1>2, <1>3, <1>5
    <3>2. CASE i \in 1 .. n
      <4>1. /\ blocks[i].loc \in Locations /\ blocks[i].lo \in Int
            /\ blocks[i].hi \in Int
        BY <1>1, <3>2 DEF Block
      <4> QED
        BY <3>2, <4>1, <1>1, <1>2, <1>3, <1>6
    <3> QED
      BY <3>1, <3>2, <1>1
  <2>2. \A l \in Locations : used[l] = Used(l)'
    OBVIOUS
  <2> HIDE DEF used
  <2> QED
    BY <2>1, <2>2, <1>1 DEF BlocksBelowUsed, Used, RegionEnd, RegionStart,
                              TableBytes, Share
<1>8. ASSUME NEW i \in 1 .. n PROVE Disjoint(blocks[i], new) /\ Disjoint(new, blocks[i])
  <2>0. /\ blocks[i].loc \in Locations /\ blocks[i].lo \in Int /\ blocks[i].hi \in Int
    BY <1>1 DEF Block
  <2> DEFINE h == blocks[i].loc
  <2>4. /\ Used(h) <= RegionEnd(h) /\ RegionStart(h) <= blocks[i].lo
        /\ blocks[i].hi <= Used(h)
        /\ Used(h) \in Int /\ RegionStart(h) \in Int /\ RegionEnd(h) \in Int
    BY <2>0, <1>2, <1>3, <1>6
  <2> HIDE DEF h
  <2>5. /\ new.lo >= RegionStart(loc) /\ new.hi <= RegionEnd(loc)
        /\ new.lo \in Int /\ new.hi \in Int
        /\ RegionStart(loc) \in Int /\ RegionEnd(loc) \in Int
    BY <1>2, <1>3, <1>5
  <2> HIDE DEF new
  <2>1. CASE blocks[i].loc = loc
    BY <2>0, <2>1, <1>2, <1>5, <1>6 DEF Disjoint, new
  <2>2. CASE blocks[i].loc < loc
    <3>1. RegionEnd(h) <= RegionStart(loc)
      BY <2>0, <2>2, RegionsOrdered DEF h
    <3>2. blocks[i].hi <= new.lo
      BY <2>0, <2>4, <2>5, <3>1
    <3> QED
      BY <3>2 DEF Disjoint
  <2>3. CASE loc < blocks[i].loc
    <3>1. RegionEnd(loc) <= RegionStart(h)
      BY <2>0, <2>3, RegionsOrdered DEF h
    <3>2. new.hi <= blocks[i].lo
      BY <2>0, <2>4, <2>5, <3>1
    <3> QED
      BY <3>2 DEF Disjoint
  <2> QED
    BY <2>0, <2>1, <2>2, <2>3
<1>9. BlocksDisjoint'
  <2>1. \A i, j \in 1 .. n : i # j => Disjoint(blocks[i], blocks[j])
    BY <1>0 DEF IInv, BlocksDisjoint
  <2>2. \A i, j \in 1 .. n + 1 : i # j => Disjoint(blocks'[i], blocks'[j])
    BY <2>1, <1>1, <1>8
  <2> QED
    BY <2>2, <1>1 DEF BlocksDisjoint
<1> QED
  BY <1>4, <1>7, <1>9

-----------------------------------------------------------------------------
\* The ends of the regions never move, and a representative keeps the end of
\* the region it took over.
LEMMA RegionsKeptStep == IInv /\ [Next]_vars => RegionsKept'
<1> SUFFICES ASSUME IInv, [Next]_vars, NEW l \in Locations
             PROVE  /\ regions'[l].end = RegionEnd(l)
                    /\ sma'[l] # NoRep => sma'[l].end = RegionEnd(l)
  BY DEF RegionsKept, RegionEnd, RegionStart, TableBytes, Share, Locations
<1> DEFINE Kept == /\ regions'[l].end = regions[l].end
                   /\ \/ sma'[l] = sma[l]
                      \/ sma[l] # NoRep /\ sma'[l].end = sma[l].end
                      \/ sma'[l].end = regions[l].end
<1>0. /\ regions \in [Locations -> Region] /\ regions[l] \in Region
      /\ sma \in [Locations -> Region \cup {NoRep}]
      /\ sma[l] # NoRep => sma[l] \in Region
  BY DEF IInv, TypeOK
<1>1. /\ regions[l].end = RegionEnd(l)
      /\ sma[l] # NoRep => sma[l].end = RegionEnd(l)
  BY DEF IInv, RegionsKept
<1>2. ASSUME NEW loc \in Locations, NewRep(loc) PROVE Kept
  BY <1>0, <1>2 DEF NewRep, Region
<1>3. ASSUME NEW loc \in Locations, NEW r \in Requests, LrtMemalign(loc, r[1], r[2])
      PROVE  Kept
  BY <1>0, <1>3 DEF LrtMemalign, Memalign, Region
<1>4. ASSUME NEW loc \in Locations, NEW r \in Requests, RepMemalign(loc, r[1], r[2])
      PROVE  Kept
  BY <1>0, <1>4 DEF RepMemalign, Region
<1>5. ASSUME NEW loc \in Locations, NEW r \in Requests, RepRefuse(loc, r[1], r[2])
      PROVE  Kept
  BY <1>5 DEF RepRefuse, vars, memVars
<1>6. ASSUME UNCHANGED vars PROVE Kept
  BY <1>6 DEF vars, memVars
<1>7. Kept
  BY <1>2, <1>3, <1>4, <1>5, <1>6 DEF Next
<1> QED
  BY <1>1, <1>7

\* What the three allocating actions do to the heap, in one form: one block
\* cut from the unused end of one region, or nothing at all.
Bump(loc, b, size, p) ==
  /\ p >= Used(loc)
  /\ p < Used(loc) + b
  /\ p % b = 0
  /\ blocks' = Append(blocks, NewBlock(p, b, size, loc))
  /\ asserted => asserted'
  /\ asserted' => asserted \/ RegionEnd(loc) <= p + size
  /\ ~asserted' => p + size <= RegionEnd(loc)
  /\ \A l \in Locations : Used(l)' = IF l = loc THEN p + size ELSE Used(l)

\* Every step bumps the pointer of one core and hands out one block, or changes
\* nothing.
LEMMA StepIsBump ==
  ASSUME IInv, TypeOK', Next
  PROVE  \/ UNCHANGED vars
         \/ \E loc \in Locations, b, size \in Nat \ {0}, p \in Int :
              Bump(loc, b, size, p)
<1>0. /\ regions \in [Locations -> Region]
      /\ sma \in [Locations -> Region \cup {NoRep}]
      /\ sma' \in [Locations -> Region \cup {NoRep}]
      /\ \A l \in Locations : regions[l].end = RegionEnd(l)
      /\ \A l \in Locations : sma[l] # NoRep => sma[l].end = RegionEnd(l)
      /\ \A l \in Locations : RegionEnd(l) \in Int
  <2>1. \A l \in Locations : l \in Int /\ l + 1 \in Int
    BY NCoresAssumption DEF Locations
  <2>2. \A l \in Locations : RegionEnd(l) \in Int
    BY <2>1, RegionStartInt
  <2> QED
    BY <2>1, <2>2 DEF IInv, TypeOK, RegionsKept
<1>1. ASSUME NEW loc \in Locations, NewRep(loc)
      PROVE  \E p \in Int : Bump(loc, 8, RepSize, p)
  <2> DEFINE p == AlignUp(regions[loc].current, 8)
             kept == [start |-> regions[loc].start, current |-> p + RepSize,
                      end |-> regions[loc].end]
  <2>1. regions[loc].current \in Int
    BY <1>0 DEF Region
  <2>2. /\ p \in Int /\ regions[loc].current <= p
        /\ p < regions[loc].current + 8 /\ p % 8 = 0
    BY <2>1, AlignUpWord
  <2> HIDE DEF p
  <2>3. kept \in Region
    BY <1>0, <2>2, RepAssumption DEF Region
  <2>4. sma' = [sma EXCEPT ![loc] = kept] /\ kept # NoRep
    BY <1>1, <2>3, RepAssumption DEF NewRep, p
  <2>5. \A l \in Locations : l # loc => regions'[l] = regions[l]
    BY <1>0, <1>1 DEF NewRep
  <2>6. \A l \in Locations : Used(l)' = IF l = loc THEN p + RepSize ELSE Used(l)
    BY <1>0, <2>4, <2>5 DEF Used
  <2>7. Used(loc) = regions[loc].current
    BY <1>1 DEF Used, NewRep
  <2>8. /\ ~asserted' => p + RepSize <= RegionEnd(loc)
        /\ asserted' => asserted \/ RegionEnd(loc) <= p + RepSize
    <3>1. /\ ~asserted' => p + RepSize < regions[loc].end
          /\ asserted' => asserted \/ ~(p + RepSize < regions[loc].end)
      BY Zenon, <1>1 DEF NewRep, p
    <3>2. regions[loc].end = RegionEnd(loc)
      BY <1>0
    <3>3. RegionEnd(loc) \in Int /\ p + RepSize \in Int
      BY <1>0, <2>2, RepAssumption
    <3> QED
      BY <3>1, <3>2, <3>3
  <2> QED
    BY <1>1, <2>2, <2>6, <2>7, <2>8 DEF Bump, NewRep, p
<1>2. ASSUME NEW loc \in Locations, NEW r \in Requests, LrtMemalign(loc, r[1], r[2])
      PROVE  \E p \in Int : Bump(loc, r[1], r[2], p)
  <2> DEFINE p == AlignUp(regions[loc].current, r[1])
  <2>0. r[1] \in Nat \ {0} /\ r[2] \in Nat \ {0}
    BY RequestsAssumption
  <2>1. regions[loc].current \in Int
    BY <1>0 DEF Region
  <2>2. /\ p \in Int /\ p >= regions[loc].current
        /\ p < regions[loc].current + r[1] /\ p % r[1] = 0
    BY <2>0, <2>1, AlignUpBounds, AlignUpAligned
  <2> HIDE DEF p
  <2>3. regions' = [regions EXCEPT ![loc].current = p + r[2]] /\ sma' = sma
        /\ sma[loc] = NoRep
    BY <1>2 DEF LrtMemalign, Memalign, p
  <2>4. \A l \in Locations : Used(l)' = IF l = loc THEN p + r[2] ELSE Used(l)
    BY <1>0, <2>3 DEF Used, Region
  <2>5. /\ ~asserted' => p + r[2] <= RegionEnd(loc)
        /\ asserted' => asserted \/ RegionEnd(loc) <= p + r[2]
    <3>1. /\ ~asserted' => p + r[2] < regions[loc].end
          /\ asserted' => asserted \/ ~(p + r[2] < regions[loc].end)
      BY Zenon, <1>2 DEF LrtMemalign, Memalign, p
    <3>2. regions[loc].end = RegionEnd(loc)
      BY <1>0
    <3>3. RegionEnd(loc) \in Int /\ p + r[2] \in Int
      BY <1>0, <2>0, <2>2
    <3> QED
      BY <3>1, <3>2, <3>3
  <2> QED
    BY <1>2, <2>2, <2>3, <2>4, <2>5 DEF Bump, LrtMemalign, Memalign, Used, p
<1>3. ASSUME NEW loc \in Locations, NEW r \in Requests, RepMemalign(loc, r[1], r[2])
      PROVE  \E p \in Int : Bump(loc, r[1], r[2], p)
  <2> DEFINE p == AlignUp(sma[loc].current, r[1])
  <2>0. r[1] \in Nat \ {0} /\ r[2] \in Nat \ {0}
    BY RequestsAssumption
  <2>1. sma[loc] \in Region /\ sma[loc] # NoRep /\ sma[loc].current \in Int
    BY <1>0, <1>3 DEF RepMemalign, Region
  <2>2. /\ p \in Int /\ p >= sma[loc].current
        /\ p < sma[loc].current + r[1] /\ p % r[1] = 0
    BY <2>0, <2>1, AlignUpBounds, AlignUpAligned
  <2> HIDE DEF p
  <2>3. sma' = [sma EXCEPT ![loc].current = p + r[2]] /\ regions' = regions
        /\ asserted' = asserted /\ p + r[2] <= sma[loc].end
    BY <1>3 DEF RepMemalign, p
  <2>4. sma'[loc] # NoRep /\ sma'[loc].current = p + r[2]
    <3>1. [sma[loc] EXCEPT !.current = p + r[2]] \in Region
      BY <2>0, <2>1, <2>2 DEF Region
    <3> QED
      BY <1>0, <2>1, <2>3, <3>1, RepAssumption DEF Region
  <2>5. \A l \in Locations : Used(l)' = IF l = loc THEN p + r[2] ELSE Used(l)
    BY <1>0, <2>3, <2>4 DEF Used
  <2>6. ~asserted' => p + r[2] <= RegionEnd(loc)
    <3>1. sma[loc].end = RegionEnd(loc)
      BY <1>0, <2>1
    <3> QED
      BY <2>3, <3>1
  <2> QED
    BY <1>3, <2>1, <2>2, <2>3, <2>5, <2>6 DEF Bump, RepMemalign, Used, p
<1>4. ASSUME NEW loc \in Locations, NEW r \in Requests, RepRefuse(loc, r[1], r[2])
      PROVE  UNCHANGED vars
  BY <1>4 DEF RepRefuse
<1>5. \A r \in Requests : r[1] \in Nat \ {0} /\ r[2] \in Nat \ {0}
  BY RequestsAssumption
<1>6. 8 \in Nat \ {0} /\ RepSize \in Nat \ {0}
  BY RepAssumption
<1> QED
  BY <1>1, <1>2, <1>3, <1>4, <1>5, <1>6 DEF Next

\* The inductive step.
LEMMA StepIInv == IInv /\ [Next]_vars => IInv'
<1> SUFFICES ASSUME IInv, [Next]_vars PROVE IInv'
  OBVIOUS
<1>1. TypeOK' /\ RegionsKept'
  BY TypeStep, RegionsKeptStep DEF IInv
<1>2. CASE UNCHANGED vars
  BY <1>2 DEF IInv, TypeOK, RegionsKept, UsedInRegion, BlocksBelowUsed,
              BlocksDisjoint, Used, vars, memVars
<1>3. CASE \E loc \in Locations, b, size \in Nat \ {0}, p \in Int :
             Bump(loc, b, size, p)
  <2>1. PICK loc \in Locations, b \in Nat \ {0}, size \in Nat \ {0}, p \in Int :
             Bump(loc, b, size, p)
    BY <1>3
  <2>2. UsedInRegion' /\ BlocksBelowUsed' /\ BlocksDisjoint'
    BY <1>1, <2>1, BumpKeepsApart DEF Bump
  <2> QED
    BY <1>1, <2>2 DEF IInv
<1> QED
  BY <1>1, <1>2, <1>3, StepIsBump

\* IInv holds in every reachable state.
THEOREM Invariance == Spec => []IInv
  BY InitIInv, StepIInv, PTL DEF Spec

\* Every variable keeps its type.
THEOREM TypeCorrect == Spec => []TypeOK
<1>1. IInv => TypeOK
  BY DEF IInv
<1> QED
  BY Invariance, <1>1, PTL

\* lrt::mem and SimpleMemAllocator never hand out overlapping blocks before an
\* assertion is reported, on any number of cores.
THEOREM NoOverlap == Spec => []BlocksDisjoint
<1>1. IInv => BlocksDisjoint
  BY DEF IInv
<1> QED
  BY Invariance, <1>1, PTL

\* Every step leaves the blocks alone or appends one that starts at a multiple of
\* its boundary.
LEMMA StepAppendsAligned ==
  ASSUME TypeOK, Next
  PROVE  \/ blocks' = blocks
         \/ \E nb : blocks' = Append(blocks, nb) /\ nb.lo % nb.boundary = 0
<1> DEFINE Appends == \E nb : blocks' = Append(blocks, nb) /\ nb.lo % nb.boundary = 0
<1>0. /\ regions \in [Locations -> Region]
      /\ sma \in [Locations -> Region \cup {NoRep}]
  BY DEF TypeOK
<1>1. ASSUME NEW p \in Int, NEW b \in Nat \ {0}, NEW size, NEW loc,
             blocks' = Append(blocks, NewBlock(AlignUp(p, b), b, size, loc))
      PROVE  Appends
  <2>1. NewBlock(AlignUp(p, b), b, size, loc).lo = AlignUp(p, b)
        /\ NewBlock(AlignUp(p, b), b, size, loc).boundary = b
    BY DEF NewBlock
  <2> QED
    BY <1>1, <2>1, AlignUpAligned
<1>2. ASSUME NEW loc \in Locations, NewRep(loc) PROVE Appends
  <2>1. regions[loc].current \in Int /\ 8 \in Nat \ {0}
    BY <1>0 DEF Region
  <2>2. blocks' = Append(blocks, NewBlock(AlignUp(regions[loc].current, 8), 8, RepSize, loc))
    BY <1>2 DEF NewRep
  <2> QED
    BY <2>1, <2>2, <1>1
<1>3. ASSUME NEW loc \in Locations, NEW r \in Requests, LrtMemalign(loc, r[1], r[2])
      PROVE  Appends
  <2>1. regions[loc].current \in Int /\ r[1] \in Nat \ {0}
    BY <1>0, RequestsAssumption DEF Region
  <2>2. blocks' = Append(blocks, NewBlock(AlignUp(regions[loc].current, r[1]), r[1], r[2], loc))
    BY <1>3 DEF LrtMemalign, Memalign
  <2> QED
    BY <2>1, <2>2, <1>1
<1>4. ASSUME NEW loc \in Locations, NEW r \in Requests, RepMemalign(loc, r[1], r[2])
      PROVE  Appends
  <2>1. sma[loc].current \in Int /\ r[1] \in Nat \ {0}
    BY <1>0, <1>4, RequestsAssumption DEF RepMemalign, Region
  <2>2. blocks' = Append(blocks, NewBlock(AlignUp(sma[loc].current, r[1]), r[1], r[2], loc))
    BY <1>4 DEF RepMemalign
  <2> QED
    BY <2>1, <2>2, <1>1
<1>5. ASSUME NEW loc \in Locations, NEW r \in Requests, RepRefuse(loc, r[1], r[2])
      PROVE  blocks' = blocks
  BY <1>5 DEF RepRefuse, vars, memVars
<1> QED
  BY <1>2, <1>3, <1>4, <1>5 DEF Next

\* Every block ever handed out starts at a multiple of the boundary its caller
\* asked for, whatever was allocated before it and after any assertion.
THEOREM Aligned == Spec => []BlocksAligned
<1>1. Init => BlocksAligned
  BY DEF Init, MemInit, BlocksAligned
<1>2. TypeOK /\ BlocksAligned /\ [Next]_vars => BlocksAligned'
  <2> SUFFICES ASSUME TypeOK, BlocksAligned, [Next]_vars PROVE BlocksAligned'
    OBVIOUS
  <2>1. CASE blocks' = blocks
    BY <2>1 DEF BlocksAligned
  <2>2. CASE \E nb : blocks' = Append(blocks, nb) /\ nb.lo % nb.boundary = 0
    <3>1. PICK nb : blocks' = Append(blocks, nb) /\ nb.lo % nb.boundary = 0
      BY <2>2
    <3>2. blocks \in Seq(Block)
      BY DEF TypeOK
    <3>3. /\ Len(blocks') = Len(blocks) + 1
          /\ \A i \in 1 .. Len(blocks) : blocks'[i] = blocks[i]
          /\ blocks'[Len(blocks) + 1] = nb
      BY <3>1, <3>2
    <3>4. \A i \in 1 .. Len(blocks') : i \in 1 .. Len(blocks) \/ i = Len(blocks) + 1
      BY <3>2, <3>3
    <3> QED
      BY <3>1, <3>3, <3>4 DEF BlocksAligned
  <2>3. CASE UNCHANGED vars
    BY <2>1, <2>3 DEF vars, memVars
  <2> QED
    BY <2>1, <2>2, <2>3, StepAppendsAligned
<1> QED
  BY <1>1, <1>2, TypeCorrect, PTL DEF Spec

\* Blocks stay clear of the Region table and run past the RAM by no more than
\* the size of that table.
THEOREM Overshoot == Spec => []OvershootBounded
<1>1. IInv => OvershootBounded
  <2> SUFFICES ASSUME IInv, ~asserted, NEW i \in 1 .. Len(blocks)
               PROVE  /\ blocks[i].lo >= MemStart + TableBytes
                      /\ blocks[i].hi <= RamTop + TableBytes
    BY DEF OvershootBounded
  <2> DEFINE l == blocks[i].loc
  <2>1. blocks[i] \in Block
    BY DEF IInv, TypeOK
  <2>2. l \in Locations /\ blocks[i].lo \in Int /\ blocks[i].hi \in Int
    BY <2>1 DEF Block
  <2>3. /\ RegionStart(l) <= blocks[i].lo /\ blocks[i].hi <= Used(l)
        /\ Used(l) <= RegionEnd(l) /\ Used(l) \in Int
    <3>1. Used(l) \in Int
      BY <2>2 DEF IInv, TypeOK, Used, Region
    <3> QED
      BY <2>2, <3>1 DEF IInv, BlocksBelowUsed, UsedInRegion
  <2> HIDE DEF l
  <2>4. l * Share >= 0 /\ (l + 1) * Share <= NCores * Share
    <3>1. l \in 0 .. NCores - 1 /\ Share \in Nat /\ NCores \in Nat
      BY <2>2, ShareNat, NCoresAssumption DEF Locations
    <3>2. \A s, k \in Nat : k * s \in Nat
      OBVIOUS
    <3>3. NCores * Share - (l + 1) * Share = (NCores - (l + 1)) * Share
      BY <3>1
    <3>4. l * Share \in Nat /\ (NCores - (l + 1)) * Share \in Nat
      BY <3>1, <3>2
    <3>5. (l + 1) * Share \in Int /\ NCores * Share \in Int
      BY <3>1
    <3> QED
      BY <3>3, <3>4, <3>5
  <2>5. MemStart + TableBytes <= RegionStart(l)
        /\ RegionEnd(l) <= RamTop + TableBytes
    BY <2>2, <2>4, ShareNat, MemoryAssumption, NCoresAssumption
       DEF RegionEnd, RegionStart, TableBytes, Locations
  <2>6. RegionStart(l) \in Int /\ RegionEnd(l) \in Int
        /\ MemStart + TableBytes \in Int /\ RamTop + TableBytes \in Int
    <3>1. l \in Int /\ l + 1 \in Int
      BY <2>2, NCoresAssumption DEF Locations
    <3>2. RegionStart(l) \in Int /\ RegionEnd(l) \in Int
      BY <3>1, RegionStartInt
    <3>3. MemStart + TableBytes \in Int /\ RamTop + TableBytes \in Int
      BY MemoryAssumption, NCoresAssumption DEF TableBytes
    <3> QED
      BY <3>2, <3>3
  <2> QED
    BY <2>2, <2>3, <2>5, <2>6
<1> QED
  BY Invariance, <1>1, PTL

\* The two allocators implement the abstract heap: one bump pointer per core,
\* across the hand over.
THEOREM Refinement == Spec => HeapSpec
<1>1. Init => TheHeap!Init
  BY RepAssumption
     DEF Init, MemInit, TheHeap!Init, Used
<1>2. IInv /\ IInv' /\ [Next]_vars => [TheHeap!Next]_(TheHeap!vars)
  <2> SUFFICES ASSUME IInv, IInv', [Next]_vars
               PROVE  [TheHeap!Next]_(TheHeap!vars)
    OBVIOUS
  <2>1. CASE UNCHANGED vars
    BY <2>1 DEF vars, memVars, TheHeap!vars, Used
  <2>2. CASE \E loc \in Locations, b, size \in Nat \ {0}, p \in Int :
               Bump(loc, b, size, p)
    <3>1. PICK loc \in Locations, b \in Nat \ {0}, size \in Nat \ {0}, p \in Int :
               Bump(loc, b, size, p)
      BY <2>2
    <3> DEFINE frontier == [l \in Locations |-> Used(l)]
               moved == [frontier EXCEPT ![loc] = p + size]
    <3>2. /\ Len(blocks') = Len(blocks) + 1 /\ Len(blocks) \in Nat
          /\ \A i \in 1 .. Len(blocks) : blocks'[i] = blocks[i]
          /\ blocks'[Len(blocks) + 1] = NewBlock(p, b, size, loc)
      BY <3>1 DEF Bump, IInv, TypeOK
    <3>3. frontier' = moved
      <4>1. \A l \in Locations : Used(l)' = IF l = loc THEN p + size ELSE Used(l)
        BY <3>1 DEF Bump
      <4>2. frontier' = [l \in Locations |-> Used(l)']
        BY DEF Locations
      <4> QED
        BY <4>1, <4>2
    <3>4. frontier[loc] = Used(loc)
      OBVIOUS
    <3>5. TheHeap!Give(loc)
      <4> DEFINE new == blocks'[Len(blocks) + 1]
      <4>1. new.lo = p /\ new.hi = p + size /\ new.loc = loc /\ new.boundary = b
        BY <3>2 DEF NewBlock
      <4>2. Used(loc) <= p /\ p < Used(loc) + b /\ p % b = 0
        BY <3>1 DEF Bump
      <4>3. /\ asserted => asserted'
            /\ asserted' => (asserted \/ RegionEnd(loc) <= p + size)
            /\ asserted' \/ p + size <= RegionEnd(loc)
        BY Zenon, <3>1 DEF Bump
      <4> HIDE DEF frontier, new
      <4>4. frontier' = [frontier EXCEPT ![loc] = p + size]
        BY <3>3
      <4>5. frontier' = [frontier EXCEPT ![loc] = new.hi]
        BY <4>1, <4>4
      <4>6. /\ new.loc = loc /\ frontier[loc] <= new.lo
            /\ new.lo < frontier[loc] + new.boundary /\ new.lo % new.boundary = 0
            /\ asserted => asserted'
            /\ asserted' => (asserted \/ RegionEnd(loc) <= new.hi)
            /\ asserted' \/ new.hi <= RegionEnd(loc)
        BY Zenon, <3>4, <4>1, <4>2, <4>3
      <4> QED
        BY Zenon, <3>2, <4>5, <4>6 DEF TheHeap!Give, new, frontier
    <3> QED
      BY <3>5 DEF TheHeap!Next
  <2> QED
    BY <2>1, <2>2, StepIsBump DEF IInv
<1> QED
  BY <1>1, <1>2, Invariance, PTL DEF Spec, HeapSpec, TheHeap!Spec
=============================================================================
