---------------------------- MODULE NewlibProofs ----------------------------
(***************************************************************************)
(* How far sbrk's blocks stay apart, that nobody gets the reentrancy       *)
(* structure uninitialised, that the UART has been set up when the first   *)
(* byte goes out, and that each core's bytes reach the line in order, none *)
(* twice, and none lost while a single core writes.                        *)
(***************************************************************************)
EXTENDS Newlib, TLAPS

LibLabels == {"idle", "spin", "getreent", "init", "flag", "got", "sbrk"}
Block == [lo : Int, hi : Int]

LibTypeOK ==
  /\ heap_index \in Int
  /\ held \in Seq(Block)
  /\ span \in [Cores -> Block]
  /\ met \in BOOLEAN /\ wrapped \in BOOLEAN
  /\ init \in BOOLEAN
  /\ everReady \in BOOLEAN
  /\ libPc \in [Cores -> LibLabels]

-----------------------------------------------------------------------------
\* The heap.

\* What the ends of a block are.
LEMMA BlockEnds == \A b \in Block : b.lo \in Int /\ b.hi \in Int
  BY DEF Block

\* What is handed out, and about to be, lies inside the array.
InArray ==
  /\ 0 <= heap_index /\ heap_index <= heap_size
  /\ \A i \in 1 .. Len(held) : 0 <= held[i].lo /\ held[i].hi <= heap_size
  /\ \A c \in Cores :
       libPc[c] = "sbrk" => 0 <= span[c].lo /\ 0 <= span[c].hi /\ span[c].hi <= heap_size

\* As long as cores are in sbrk one after another, the blocks are in order, below
\* the break and below the one that the core in sbrk will store.
InOrder ==
  /\ \A c, d \in Cores : libPc[c] = "sbrk" /\ libPc[d] = "sbrk" => c = d
  /\ \A i \in 1 .. Len(held) :
       /\ held[i].hi <= heap_index
       /\ \A j \in 1 .. i - 1 : held[j].hi <= held[i].lo
  /\ \A c \in Cores :
       libPc[c] = "sbrk" =>
         /\ span[c].lo = heap_index
         /\ \A i \in 1 .. Len(held) : held[i].hi <= span[c].hi

HeapInv ==
  /\ LibTypeOK
  /\ ~wrapped => InArray
  /\ ~wrapped /\ ~met => InOrder

\* A step that leaves the heap alone and takes nobody into sbrk.
LEMMA HeapKept ==
  ASSUME HeapInv, LibTypeOK', UNCHANGED heapVars,
         \A c \in Cores : libPc'[c] = "sbrk" => libPc[c] = "sbrk"
  PROVE  HeapInv'
<1>1. UNCHANGED <<heap_index, held, span, met, wrapped>>
  BY DEF heapVars
<1>2. ~wrapped => InArray'
  BY <1>1 DEF HeapInv, InArray
<1>3. ~wrapped /\ ~met => InOrder'
  BY <1>1 DEF HeapInv, InOrder
<1> QED
  BY <1>1, <1>2, <1>3 DEF HeapInv

\* A sum that has not wrapped, and what else it is.
LEMMA SumIsInt == ASSUME NEW n \in Int PROVE Int32(n) \in Int
<1>1. 2 * (IntMax + 1) \in Nat \ {0} /\ n + IntMax + 1 \in Int /\ IntMax \in Int
  BY NewlibAssumption
<1>2. \A m \in Nat \ {0} : (n + IntMax + 1) % m \in Int
  BY <1>1
<1>3. (n + IntMax + 1) % (2 * (IntMax + 1)) \in Int
  BY <1>1, <1>2
<1> QED
  BY <1>1, <1>3 DEF Int32

\* Giving back changes the end of the last block, or drops it.
LEMMA ResizedBlocks ==
  ASSUME LibTypeOK, held # << >>, NEW incr \in Int
  PROVE  /\ Len(held) \in Nat \ {0}
         /\ Resized(incr) \in Seq(Block) /\ Len(Resized(incr)) <= Len(held)
         /\ \A i \in 1 .. Len(Resized(incr)) :
              /\ i \in 1 .. Len(held) /\ Resized(incr)[i] \in Block
              /\ Resized(incr)[i].lo = held[i].lo
              /\ i = Len(held) => Resized(incr)[i].hi = held[i].hi + incr
              /\ i # Len(held) => Resized(incr)[i].hi = held[i].hi
<1> DEFINE n == Len(held)
           last == [held[n] EXCEPT !.hi = @ + incr]
<1>1. /\ held \in Seq(Block) /\ n \in Nat \ {0} /\ n \in 1 .. n /\ held[n] \in Block
      /\ \A i \in 1 .. n : held[i] \in Block
  BY DEF LibTypeOK
<1>2. last \in Block /\ last.lo = held[n].lo /\ last.hi = held[n].hi + incr
  <2>1. PICK lo \in Int, hi \in Int : held[n] = [lo |-> lo, hi |-> hi]
    BY <1>1 DEF Block
  <2>2. last = [lo |-> lo, hi |-> hi + incr]
    BY <2>1
  <2> HIDE DEF last
  <2> QED
    BY <2>1, <2>2 DEF Block
<1>3. CASE last.lo = last.hi
  <2> DEFINE m == n - 1
  <2>1. Resized(incr) = SubSeq(held, 1, m) /\ m \in Nat /\ m < n
    BY <1>1, <1>3 DEF Resized
  <2> HIDE DEF m, last
  <2>2. /\ SubSeq(held, 1, m) \in Seq(Block) /\ Len(SubSeq(held, 1, m)) = m
        /\ \A i \in 1 .. m : SubSeq(held, 1, m)[i] = held[i]
    BY <1>1, <2>1
  <2> QED
    BY <1>1, <2>1, <2>2
<1>4. CASE last.lo # last.hi
  <2>1. Resized(incr) = [held EXCEPT ![n] = last]
    BY <1>4 DEF Resized
  <2> HIDE DEF last
  <2>2. /\ Resized(incr) \in Seq(Block) /\ Len(Resized(incr)) = n /\ Resized(incr)[n] = last
        /\ \A i \in 1 .. n : i # n => Resized(incr)[i] = held[i]
    BY <1>1, <1>2, <2>1
  <2> QED
    BY <1>1, <1>2, <2>2
<1>5. /\ Resized(incr) \in Seq(Block) /\ Len(Resized(incr)) <= n
      /\ \A i \in 1 .. Len(Resized(incr)) :
           /\ Resized(incr)[i].lo = held[i].lo
           /\ i = n => Resized(incr)[i].hi = held[i].hi + incr
           /\ i # n => Resized(incr)[i].hi = held[i].hi
  BY <1>3, <1>4
<1>6. \A i \in 1 .. Len(Resized(incr)) : i \in 1 .. n /\ Resized(incr)[i] \in Block
  BY <1>1, <1>5
<1> QED
  BY <1>1, <1>5, <1>6

\* sbrk has read the break and tested the sum.
LEMMA Tested ==
  ASSUME HeapInv, NEW c \in Cores, SbrkTest(c)
  PROVE  HeapInv'
<1>1. PICK incr \in Increments :
        /\ Asks(incr) /\ Fits(incr)
        /\ span' = [span EXCEPT ![c] =
                      [lo |-> heap_index, hi |-> Int32(heap_index + incr)]]
        /\ held' = (IF incr < 0 THEN Resized(incr) ELSE held)
        /\ wrapped' = (Int32(heap_index + incr) # heap_index + incr)
  BY DEF SbrkTest
<1>2. /\ libPc[c] # "sbrk" /\ ~wrapped /\ UNCHANGED <<heap_index, init, everReady>>
      /\ libPc' = [libPc EXCEPT ![c] = "sbrk"]
      /\ met' = (met \/ \E d \in Cores : libPc[d] = "sbrk")
  BY DEF SbrkTest, Free, GoesTo
<1> DEFINE sum == Int32(heap_index + incr)
           new == [lo |-> heap_index, hi |-> sum]
<1>3. /\ LibTypeOK /\ InArray /\ incr \in Int /\ heap_size \in Nat /\ heap_index \in Int
      /\ held \in Seq(Block) /\ \A i \in 1 .. Len(held) : held[i] \in Block
  BY <1>2, NewlibAssumption DEF HeapInv, LibTypeOK
<1>4. sum \in Int
  BY <1>3, SumIsInt
<1> HIDE DEF sum
<1>5. span' \in [Cores -> Block] /\ span'[c] = new
      /\ \A d \in Cores : d # c => span'[d] = span[d]
  BY <1>1, <1>3, <1>4 DEF LibTypeOK, Block, sum
<1>6. /\ held' \in Seq(Block) /\ Len(held') <= Len(held)
      /\ \A i \in 1 .. Len(held') : /\ i \in 1 .. Len(held)
                                    /\ held'[i] \in Block /\ held'[i].lo = held[i].lo
                                    /\ held'[i].hi <= held[i].hi
  <2>1. CASE incr < 0
    <3>1. held # << >> /\ held' = Resized(incr)
      BY <1>1, <1>3, <2>1 DEF Asks
    <3>2. /\ held' \in Seq(Block) /\ Len(held') <= Len(held)
          /\ \A i \in 1 .. Len(held') :
               /\ i \in 1 .. Len(held) /\ held'[i] \in Block
               /\ held'[i].lo = held[i].lo
               /\ i = Len(held) => held'[i].hi = held[i].hi + incr
               /\ i # Len(held) => held'[i].hi = held[i].hi
      <4>1. /\ Resized(incr) \in Seq(Block) /\ Len(Resized(incr)) <= Len(held)
            /\ \A i \in 1 .. Len(Resized(incr)) :
                 /\ i \in 1 .. Len(held) /\ Resized(incr)[i] \in Block
                 /\ Resized(incr)[i].lo = held[i].lo
                 /\ i = Len(held) => Resized(incr)[i].hi = held[i].hi + incr
                 /\ i # Len(held) => Resized(incr)[i].hi = held[i].hi
        <5> HIDE DEF new
        <5> QED
          BY ONLY <1>3, <3>1, ResizedBlocks, Zenon
      <4> QED
        BY <3>1, <4>1
    <3>3. ASSUME NEW i \in 1 .. Len(held')
          PROVE  held'[i].hi <= held[i].hi
      <4>1. i \in 1 .. Len(held) /\ held[i].hi \in Int
        BY <1>3, <3>2, BlockEnds
      <4> QED
        BY <1>3, <2>1, <3>2, <4>1
    <3> QED
      BY <3>2, <3>3
  <2>2. CASE ~(incr < 0)
    <3>1. held' = held
      BY <1>1, <2>2
    <3>2. \A i \in 1 .. Len(held) : held[i].hi \in Int
      BY <1>3, BlockEnds
    <3>3. \A i \in 1 .. Len(held) : held[i].hi <= held[i].hi
      BY <3>2
    <3>4. Len(held) <= Len(held)
      BY <1>3
    <3> QED
      BY <1>3, <3>1, <3>3, <3>4
  <2> QED
    BY <2>1, <2>2
<1>7. LibTypeOK'
  <2>1. met' \in BOOLEAN /\ wrapped' \in BOOLEAN
    BY <1>1, <1>2
  <2>2. libPc' \in [Cores -> LibLabels]
    BY <1>2, <1>3 DEF LibTypeOK, LibLabels
  <2> QED
    BY <1>2, <1>3, <1>5, <1>6, <2>1, <2>2 DEF LibTypeOK
<1>8. ASSUME ~wrapped' PROVE InArray' /\ sum = heap_index + incr /\ sum >= 0
  <2>1. sum = heap_index + incr
    BY <1>1, <1>8 DEF sum
  <2>2. sum <= heap_size
    BY <1>1, <1>3, <1>4 DEF Fits, sum
  <2>3. sum >= 0
    <3>1. CASE incr >= 0
      BY <1>3, <2>1, <3>1 DEF InArray
    <3>2. CASE ~(incr >= 0)
      <4>1. held # << >> /\ held[Len(held)].lo <= heap_index + incr
        BY <1>1, <3>2 DEF Asks
      <4>2. Len(held) \in 1 .. Len(held)
        BY <1>3, <4>1
      <4>3. 0 <= held[Len(held)].lo /\ held[Len(held)].lo \in Int
        BY <1>3, <4>2 DEF InArray, Block
      <4> QED
        BY <1>3, <1>4, <2>1, <4>1, <4>3
    <3> QED
      BY <3>1, <3>2
  <2>4. \A i \in 1 .. Len(held') : 0 <= held'[i].lo /\ held'[i].hi <= heap_size
    <3> TAKE i \in 1 .. Len(held')
    <3>1. /\ held'[i].lo = held[i].lo /\ held'[i].hi <= held[i].hi /\ held[i] \in Block
          /\ held'[i] \in Block /\ 0 <= held[i].lo /\ held[i].hi <= heap_size
      BY <1>3, <1>6 DEF InArray
    <3> QED
      BY <1>3, <3>1 DEF Block
  <2>5. ASSUME NEW d \in Cores, libPc'[d] = "sbrk"
        PROVE  0 <= span'[d].lo /\ 0 <= span'[d].hi /\ span'[d].hi <= heap_size
    <3>1. CASE d = c
      BY <1>3, <1>5, <2>2, <2>3, <3>1 DEF InArray
    <3>2. CASE d # c
      BY <1>2, <1>3, <1>5, <2>5, <3>2 DEF InArray, LibTypeOK
    <3> QED
      BY <3>1, <3>2
  <2> QED
    BY <1>2, <1>3, <2>1, <2>3, <2>4, <2>5 DEF InArray
<1>9. ASSUME ~wrapped', ~met' PROVE InOrder'
  <2>1. InOrder /\ \A d \in Cores : libPc[d] # "sbrk"
    BY <1>2, <1>9 DEF HeapInv
  <2>2. \A d \in Cores : libPc'[d] = "sbrk" => d = c
    BY <1>2, <1>3, <2>1 DEF LibTypeOK
  <2>3. ASSUME NEW i \in 1 .. Len(held')
        PROVE  /\ held'[i].hi <= heap_index /\ held'[i].hi <= sum
               /\ \A j \in 1 .. i - 1 : held'[j].hi <= held'[i].lo
    <3>1. /\ i \in 1 .. Len(held) /\ held[i].hi <= heap_index
          /\ \A j \in 1 .. i - 1 : held[j].hi <= held[i].lo
      BY <1>6, <2>1 DEF InOrder
    <3>2. /\ held[i] \in Block /\ held'[i] \in Block
          /\ held'[i].lo = held[i].lo /\ held'[i].hi <= held[i].hi
          /\ \A j \in 1 .. i - 1 : /\ held[j] \in Block /\ held'[j] \in Block
                                   /\ held'[j].hi <= held[j].hi
      BY <1>3, <1>6, <3>1
    <3>3. \A j \in 1 .. i - 1 : held'[j].hi <= held'[i].lo
      BY <3>1, <3>2 DEF Block
    <3>4. held'[i].hi <= sum
      <4>1. CASE incr >= 0
        BY <1>3, <1>4, <1>8, <1>9, <3>1, <3>2, <4>1 DEF Block
      <4>2. CASE ~(incr >= 0)
        <5>1. /\ held # << >> /\ held[Len(held)].hi = heap_index
              /\ held[Len(held)].lo <= sum /\ held' = Resized(incr)
          BY <1>1, <1>3, <1>8, <1>9, <4>2 DEF Asks
        <5>2. CASE i = Len(held)
          <6>1. held'[i].hi = held[i].hi + incr
            BY <1>3, <5>1, <5>2, ResizedBlocks
          <6> QED
            BY <1>3, <1>8, <1>9, <5>1, <5>2, <6>1
        <5>3. CASE i # Len(held)
          <6>1. Len(held) \in 1 .. Len(held) /\ i \in 1 .. Len(held) - 1
            BY <1>3, <3>1, <5>3
          <6>2. held[i].hi <= held[Len(held)].lo /\ held[Len(held)] \in Block
            BY <1>3, <2>1, <6>1 DEF InOrder
          <6> QED
            BY <1>4, <3>2, <5>1, <6>2 DEF Block
        <5> QED
          BY <5>2, <5>3
      <4> QED
        BY <4>1, <4>2
    <3> QED
      BY <1>3, <3>1, <3>2, <3>3, <3>4 DEF Block
  <2>4. \A d \in Cores : libPc'[d] = "sbrk" =>
          /\ span'[d].lo = heap_index
          /\ \A i \in 1 .. Len(held') : held'[i].hi <= span'[d].hi
    BY <1>5, <2>2, <2>3
  <2> QED
    BY <1>2, <2>2, <2>3, <2>4 DEF InOrder
<1> QED
  BY <1>7, <1>8, <1>9 DEF HeapInv

\* sbrk stores the new break; a new block begins at the old one.
LEMMA Stored ==
  ASSUME HeapInv, NEW c \in Cores, SbrkStore(c)
  PROVE  HeapInv'
<1> DEFINE new == span[c]
<1>1. /\ libPc[c] = "sbrk" /\ heap_index' = new.hi
      /\ held' = (IF new.lo < new.hi THEN Append(held, new) ELSE held)
      /\ span' = [span EXCEPT ![c] = [lo |-> 0, hi |-> 0]]
      /\ libPc' = [libPc EXCEPT ![c] = "idle"]
      /\ UNCHANGED <<met, wrapped, init, everReady>>
  BY DEF SbrkStore, GoesTo
<1>2. /\ LibTypeOK /\ new \in Block /\ new.lo \in Int /\ new.hi \in Int
      /\ held \in Seq(Block) /\ Len(held) \in Nat
      /\ \A i \in 1 .. Len(held) : held[i] \in Block
  <2>1. LibTypeOK
    BY DEF HeapInv
  <2>2. new \in Block /\ held \in Seq(Block)
    BY <2>1 DEF LibTypeOK
  <2> QED
    BY <2>1, <2>2, BlockEnds
<1> HIDE DEF new
<1>3. /\ held' \in Seq(Block)
      /\ \A i \in 1 .. Len(held') :
           \/ i \in 1 .. Len(held) /\ held'[i] = held[i]
           \/ i = Len(held) + 1 /\ held'[i] = new /\ new.lo < new.hi
      /\ \A i \in 1 .. Len(held') : \A j \in 1 .. i - 1 : j \in 1 .. Len(held)
  BY <1>1, <1>2
<1>4. /\ span' \in [Cores -> Block] /\ libPc' \in [Cores -> LibLabels]
      /\ \A d \in Cores : libPc'[d] = "sbrk" => /\ d # c /\ libPc[d] = "sbrk"
                                                /\ span'[d] = span[d]
  BY <1>1, <1>2 DEF LibTypeOK, Block, LibLabels
<1>5. LibTypeOK'
  BY <1>1, <1>2, <1>3, <1>4 DEF LibTypeOK
<1>6. ASSUME ~wrapped PROVE InArray'
  <2>1. InArray /\ 0 <= new.lo /\ 0 <= new.hi /\ new.hi <= heap_size
    BY <1>1, <1>6 DEF HeapInv, InArray, new
  <2>2. \A i \in 1 .. Len(held') : 0 <= held'[i].lo /\ held'[i].hi <= heap_size
    BY <1>3, <2>1 DEF InArray
  <2> QED
    BY <1>1, <1>4, <2>1, <2>2 DEF InArray
<1>7. ASSUME ~wrapped, ~met PROVE InOrder'
  <2>1. InOrder /\ new.lo = heap_index
        /\ \A i \in 1 .. Len(held) : held[i].hi <= new.hi
    BY <1>1, <1>7 DEF HeapInv, InOrder, new
  <2>2. \A d \in Cores : libPc'[d] # "sbrk"
    BY <1>1, <1>4, <2>1 DEF InOrder
  <2>3. ASSUME NEW i \in 1 .. Len(held')
        PROVE  /\ held'[i].hi <= new.hi
               /\ \A j \in 1 .. i - 1 : held'[j].hi <= held'[i].lo
    <3>1. \A j \in 1 .. i - 1 : j \in 1 .. Len(held) /\ held'[j] = held[j]
      <4> TAKE j \in 1 .. i - 1
      <4>1. j \in 1 .. Len(held) /\ j \in 1 .. Len(held') /\ j # Len(held) + 1
        BY <1>2, <1>3
      <4> QED
        BY <1>3, <4>1
    <3>2. CASE i \in 1 .. Len(held) /\ held'[i] = held[i]
      BY <2>1, <3>1, <3>2 DEF InOrder
    <3>3. CASE held'[i] = new
      BY <1>2, <2>1, <3>1, <3>3 DEF InOrder
    <3> QED
      BY <1>3, <3>2, <3>3
  <2> QED
    BY <1>1, <2>2, <2>3 DEF InOrder
<1> QED
  BY <1>1, <1>5, <1>6, <1>7 DEF HeapInv

-----------------------------------------------------------------------------
\* The reentrancy structure.

\* Who is past its initialisation, and the flag, say that it has been done.
ReentInv ==
  /\ init => everReady
  /\ \A c \in Cores : libPc[c] \in {"flag", "got"} => everReady

LibInv == HeapInv /\ ReentInv

\* The steps of the console and of what it writes.
LEMMA LibKept == LibInv /\ UNCHANGED libVars => LibInv'
<1> SUFFICES ASSUME LibInv, UNCHANGED libVars PROVE LibInv'
  OBVIOUS
<1>1. UNCHANGED <<heapVars, init, everReady, libPc>>
  BY DEF libVars
<1>2. LibTypeOK'
  BY <1>1 DEF LibInv, HeapInv, LibTypeOK, heapVars
<1>3. HeapInv'
  BY <1>1, <1>2, HeapKept DEF LibInv
<1>4. ReentInv'
  BY <1>1 DEF LibInv, ReentInv
<1> QED
  BY <1>3, <1>4 DEF LibInv

\* The steps of a core inside a system call other than sbrk.
LEMMA CallSteps ==
  ASSUME LibInv, NEW c \in Cores,
         \/ CallNYI(c) \/ CallReent(c) \/ ReadInit(c) \/ InitReent(c) \/ SetInit(c)
         \/ GotReent(c) \/ SbrkRefused(c)
  PROVE  LibInv'
<1>1. UNCHANGED heapVars
      /\ \E l \in LibLabels \ {"sbrk"} : libPc' = [libPc EXCEPT ![c] = l]
  BY DEF CallNYI, CallReent, ReadInit, InitReent, SetInit, GotReent, SbrkRefused, GoesTo,
     LibLabels
<1>2. LibTypeOK /\ ReentInv
  BY DEF LibInv, HeapInv
<1>3. /\ libPc' \in [Cores -> LibLabels]
      /\ \A d \in Cores : libPc'[d] = "sbrk" => libPc[d] = "sbrk"
      /\ \A d \in Cores : d # c => libPc'[d] = libPc[d]
  BY <1>1, <1>2 DEF LibTypeOK
<1>4. init' \in BOOLEAN /\ everReady' \in BOOLEAN /\ ReentInv'
  <2>1. CASE CallNYI(c) \/ CallReent(c) \/ GotReent(c) \/ SbrkRefused(c)
    <3>1. PICK l \in {"spin", "getreent", "idle"} : GoesTo(c, l)
      BY <2>1 DEF CallNYI, CallReent, GotReent, SbrkRefused
    <3>2. UNCHANGED <<init, everReady>>
      BY <2>1 DEF CallNYI, CallReent, GotReent, SbrkRefused
    <3> QED
      BY <1>2, <3>1, <3>2 DEF GoesTo, LibTypeOK, ReentInv
  <2>2. CASE ReadInit(c)
    <3>1. ASSUME NEW d \in Cores, libPc'[d] \in {"flag", "got"} PROVE everReady
      BY <1>2, <2>2, <3>1 DEF ReadInit, GoesTo, LibTypeOK, ReentInv
    <3> QED
      BY <1>2, <2>2, <3>1 DEF ReadInit, LibTypeOK, ReentInv
  <2>3. CASE InitReent(c)
    BY <1>2, <2>3 DEF InitReent, GoesTo, LibTypeOK, ReentInv
  <2>4. CASE SetInit(c)
    BY <1>2, <2>4 DEF SetInit, GoesTo, LibTypeOK, ReentInv
  <2> QED
    BY <2>1, <2>2, <2>3, <2>4
<1>5. LibTypeOK'
  BY <1>1, <1>2, <1>3, <1>4 DEF LibTypeOK, heapVars
<1> QED
  BY <1>1, <1>3, <1>4, <1>5, HeapKept DEF LibInv

\* The calls of sbrk that are not refused.
LEMMA SbrkSteps ==
  ASSUME LibInv, NEW c \in Cores, SbrkTest(c) \/ SbrkStore(c)
  PROVE  LibInv'
<1>1. HeapInv'
  BY Tested, Stored DEF LibInv
<1>2. UNCHANGED <<init, everReady>> /\ \E l \in {"sbrk", "idle"} : libPc' = [libPc EXCEPT ![c] = l]
  BY DEF SbrkTest, SbrkStore, GoesTo
<1>3. libPc \in [Cores -> LibLabels] /\ ReentInv
  BY DEF LibInv, HeapInv, LibTypeOK
<1>4. ReentInv'
  BY <1>2, <1>3 DEF ReentInv
<1> QED
  BY <1>1, <1>4 DEF LibInv

LEMMA LibStep == LibInv /\ [Next]_vars => LibInv'
<1> SUFFICES ASSUME LibInv, [Next]_vars PROVE LibInv'
  OBVIOUS
<1>1. CASE UNCHANGED vars
  BY <1>1, LibKept DEF vars
<1>2. CASE \E c \in Cores : ConsoleStep(c) /\ UNCHANGED libVars
  BY <1>2, LibKept
<1>3. CASE \E c \in Cores : Write(c)
  BY <1>3, LibKept DEF Write
<1>4. CASE Transmit /\ UNCHANGED libVars
  BY <1>4, LibKept
<1>5. CASE \E c \in Cores : \/ CallNYI(c) \/ CallReent(c) \/ ReadInit(c) \/ InitReent(c)
                            \/ SetInit(c) \/ GotReent(c) \/ SbrkRefused(c)
  BY <1>5, CallSteps
<1>6. CASE \E c \in Cores : SbrkTest(c) \/ SbrkStore(c)
  BY <1>6, SbrkSteps
<1> QED
  BY <1>1, <1>2, <1>3, <1>4, <1>5, <1>6 DEF Next

LEMMA LibInit == Init => LibInv
<1> SUFFICES ASSUME Init PROVE LibInv
  OBVIOUS
<1>1. /\ heap_index = 0 /\ held = << >> /\ init = FALSE /\ everReady = FALSE
      /\ span = [c \in Cores |-> [lo |-> 0, hi |-> 0]] /\ met = FALSE /\ wrapped = FALSE
      /\ libPc = [c \in Cores |-> "idle"]
  BY DEF Init
<1>2. LibTypeOK
  <2>1. << >> \in Seq(Block) /\ span \in [Cores -> Block]
    BY <1>1 DEF Block
  <2>2. libPc \in [Cores -> LibLabels]
    BY <1>1 DEF LibLabels
  <2>3. /\ met \in BOOLEAN /\ wrapped \in BOOLEAN
        /\ init \in BOOLEAN /\ everReady \in BOOLEAN
    BY <1>1
  <2> QED
    BY <1>1, <2>1, <2>2, <2>3 DEF LibTypeOK
<1>3. Len(held) = 0 /\ heap_size \in Nat /\ \A c \in Cores : libPc[c] = "idle"
  BY <1>1, NewlibAssumption
<1>4. InArray /\ InOrder
  BY <1>1, <1>3 DEF InArray, InOrder
<1>5. ReentInv
  BY <1>1, <1>3 DEF ReentInv
<1> QED
  BY <1>2, <1>4, <1>5 DEF LibInv, HeapInv

LEMMA LibInvariance == Spec => []LibInv
<1> QED
  BY LibInit, LibStep, PTL DEF Spec

\* For every heap, every width of int and every increments, and any number of
\* cores in sbrk at any moment: until a sum leaves the range of int the blocks
\* lie inside the array, and until two cores have been in sbrk at once they are
\* apart from each other.
THEOREM SbrkBlocksApart == Spec => []HeapBlocksApart
<1>1. LibInv => HeapBlocksApart
  BY DEF LibInv, HeapInv, InArray, InOrder, HeapBlocksApart
<1> QED
  BY <1>1, LibInvariance, PTL

\* However many cores race for the first getreent, none gets the structure
\* before an initialisation of it has been completed.
THEOREM ReentInitialised == Spec => []ReentReady
<1>1. LibInv => ReentReady
  BY DEF LibInv, ReentInv, ReentReady
<1> QED
  BY <1>1, LibInvariance, PTL

-----------------------------------------------------------------------------
(* The console: who constructs it, and what becomes of a byte.               *)

Bytes == Cores \X (Nat \ {0})
Registers == [lcr : Nat, lsb : Nat, msb : Nat, ier : Nat, thr : Bytes \cup {Empty}]
ConLabels == {"idle", "get", "construct", "write", "store"}

ConTypeOK ==
  /\ uart \in Registers
  /\ sent \in Seq(Bytes)
  /\ made \in BOOLEAN
  /\ conPc \in [Cores -> ConLabels]
  /\ step \in [Cores -> 0 .. 5]
  /\ todo \in [Cores -> Int]
  /\ written \in [Cores -> Nat]

Configured == uart.lcr = 3 /\ uart.lsb = 1 /\ uart.msb = 0 /\ uart.ier = 0

\* Until the guard is set the boot core is alone in the console's code, and so
\* many of the constructor's writes are done.
Making ==
  ~made =>
    /\ \A c \in Cores : written[c] = 0 /\ (c # BootCore => conPc[c] = "idle")
    /\ conPc[BootCore] \in {"get", "construct"}
    /\ conPc[BootCore] = "get" => step[BootCore] = 0
    /\ uart.thr = Empty /\ sent = << >>
    /\ step[BootCore] <= 1 => uart.lcr < 128
    /\ step[BootCore] >= 1 => uart.ier = 0
    /\ step[BootCore] \in 2 .. 4 => uart.lcr = 128
    /\ step[BootCore] >= 3 => uart.lsb = 1
    /\ step[BootCore] >= 4 => uart.msb = 0
    /\ step[BootCore] = 5 => uart.lcr = 3

\* Once it is set nobody constructs again.
Made == made => Configured /\ \A c \in Cores : conPc[c] # "construct"

\* The bytes of a core come in its order; the one in the register is the last.
OnLine ==
  /\ \A i \in 1 .. Len(sent) : sent[i][2] <= written[sent[i][1]]
  /\ \A i \in 1 .. Len(sent) : \A j \in 1 .. i - 1 :
       sent[i][1] = sent[j][1] => sent[j][2] < sent[i][2]
  /\ uart.thr # Empty =>
       /\ uart.thr[2] <= written[uart.thr[1]]
       /\ \A i \in 1 .. Len(sent) : sent[i][1] = uart.thr[1] => sent[i][2] < uart.thr[2]

Alone(c) == \A d \in Cores \ {c} : written[d] = 0

\* The byte in the register, if there is one, counts.
Pending == IF uart.thr = Empty THEN 0 ELSE 1

NoneLost ==
  \A c \in Cores : Alone(c) =>
    /\ Len(sent) + Pending = written[c]
    /\ conPc[c] = "store" => uart.thr = Empty

ConInv == ConTypeOK /\ Making /\ Made /\ OnLine /\ NoneLost

\* A write to a register, field by field.
LEMMA UartWrites ==
  ASSUME uart \in Registers, NEW val, NEW reg \in {0, 1, 3}, UartWrite(val, reg)
  PROVE  uart' = [lcr |-> IF reg = 3 THEN val ELSE uart.lcr,
                  lsb |-> IF uart.lcr >= 128 /\ reg = 0 THEN val ELSE uart.lsb,
                  msb |-> IF uart.lcr >= 128 /\ reg = 1 THEN val ELSE uart.msb,
                  ier |-> IF uart.lcr < 128 /\ reg = 1 THEN val ELSE uart.ier,
                  thr |-> IF uart.lcr < 128 /\ reg = 0 THEN val ELSE uart.thr]
<1> DEFINE lcr == IF reg = 3 THEN val ELSE uart.lcr
           lsb == IF uart.lcr >= 128 /\ reg = 0 THEN val ELSE uart.lsb
           msb == IF uart.lcr >= 128 /\ reg = 1 THEN val ELSE uart.msb
           ier == IF ~(uart.lcr >= 128) /\ reg = 1 THEN val ELSE uart.ier
           thr == IF ~(uart.lcr >= 128) /\ reg = 0 THEN val ELSE uart.thr
<1>1. uart' = [uart EXCEPT !.lcr = lcr, !.lsb = lsb, !.msb = msb, !.thr = thr, !.ier = ier]
  BY Zenon DEF UartWrite, DATA_REG, INT_ENABLE, BAUD_DIV_LSB, BAUD_DIV_MSB, LINE_CNTL_REG,
     LINE_CNTL_REG_DLAB
<1> HIDE DEF lcr, lsb, msb, ier, thr
<1>2. uart' = [lcr |-> lcr, lsb |-> lsb, msb |-> msb, ier |-> ier, thr |-> thr]
  BY <1>1 DEF Registers
<1>3. uart.lcr < 128 <=> ~(uart.lcr >= 128)
  BY DEF Registers
<1> QED
  BY <1>2, <1>3 DEF lcr, lsb, msb, ier, thr

\* Nobody calls the console before the boot core has written its banner.
LEMMA BootedMade == ConInv /\ Booted => made
<1> QED
  BY ConsoleAssumption DEF ConInv, Making, Booted

\* A step of core c that leaves the device and the bytes alone.
LEMMA Moves ==
  ASSUME ConInv, NEW c \in Cores, NEW l \in ConLabels, Goes(c, l),
         UNCHANGED <<uart, sent, made, step, written>>, todo' \in [Cores -> Int],
         ~made => c = BootCore /\ l = "construct",
         made => l # "construct",
         l = "store" => uart.thr = Empty
  PROVE  ConInv'
<1>1. /\ conPc' \in [Cores -> ConLabels] /\ conPc'[c] = l
      /\ \A d \in Cores : d # c => conPc'[d] = conPc[d]
  BY DEF ConInv, ConTypeOK, Goes
<1>2. ConTypeOK'
  BY <1>1 DEF ConInv, ConTypeOK
<1>3. Making' /\ Made'
  BY <1>1, ConsoleAssumption DEF ConInv, Making, Made, Configured
<1>4. OnLine' /\ NoneLost'
  BY <1>1 DEF ConInv, OnLine, NoneLost, Alone, Pending
<1> QED
  BY <1>2, <1>3, <1>4 DEF ConInv

\* The constructor's writes, which no other core can get between.
LEMMA Constructs ==
  ASSUME ConInv, NEW c \in Cores, Construct(c)
  PROVE  ConInv'
<1>1. ConTypeOK /\ c = BootCore /\ ~made /\ step[c] \in 0 .. 4
  BY DEF ConInv, ConTypeOK, Making, Made, Construct, ConstructorWrites
<1>2. /\ UNCHANGED <<sent, made, conPc, todo, written>>
      /\ step' = [step EXCEPT ![c] = step[c] + 1]
      /\ UartWrite(ConstructorWrites[step[c] + 1][1], ConstructorWrites[step[c] + 1][2])
  BY DEF Construct
<1>3. step' \in [Cores -> 0 .. 5] /\ step'[c] = step[c] + 1
  BY <1>1, <1>2 DEF ConTypeOK
<1>4. /\ uart' \in Registers /\ uart'.thr = Empty
      /\ step'[c] <= 1 => uart'.lcr < 128
      /\ step'[c] >= 1 => uart'.ier = 0
      /\ step'[c] \in 2 .. 4 => uart'.lcr = 128
      /\ step'[c] >= 3 => uart'.lsb = 1
      /\ step'[c] >= 4 => uart'.msb = 0
      /\ step'[c] = 5 => uart'.lcr = 3
  <2>0. uart \in Registers /\ Making
    BY DEF ConInv, ConTypeOK
  <2>1. CASE step[c] = 0
    <3>1. UartWrite(0, 1)
      BY <1>2, <2>1 DEF ConstructorWrites, INT_ENABLE
    <3> QED
      BY <1>1, <1>3, <2>0, <2>1, <3>1, UartWrites DEF Registers, Making
  <2>2. CASE step[c] = 1
    <3>1. UartWrite(128, 3)
      BY <1>2, <2>2 DEF ConstructorWrites, LINE_CNTL_REG, LINE_CNTL_REG_DLAB
    <3> QED
      BY <1>1, <1>3, <2>0, <2>2, <3>1, UartWrites DEF Registers, Making
  <2>3. CASE step[c] = 2
    <3>1. UartWrite(1, 0)
      BY <1>2, <2>3 DEF ConstructorWrites, BAUD_DIV_LSB
    <3> QED
      BY <1>1, <1>3, <2>0, <2>3, <3>1, UartWrites DEF Registers, Making
  <2>4. CASE step[c] = 3
    <3>1. UartWrite(0, 1)
      BY <1>2, <2>4 DEF ConstructorWrites, BAUD_DIV_MSB
    <3> QED
      BY <1>1, <1>3, <2>0, <2>4, <3>1, UartWrites DEF Registers, Making
  <2>5. CASE step[c] = 4
    <3>1. UartWrite(3, 3)
      BY <1>2, <2>5 DEF ConstructorWrites, LINE_CNTL_REG, LINE_CNTL_REG_CHARLEN_8
    <3> QED
      BY <1>1, <1>3, <2>0, <2>5, <3>1, UartWrites DEF Registers, Making
  <2> QED
    BY <1>1, <2>1, <2>2, <2>3, <2>4, <2>5
<1>5. uart.thr = Empty /\ conPc[BootCore] = "construct"
  BY <1>1 DEF ConInv, Making, Construct
<1>6. ConTypeOK'
  BY <1>1, <1>2, <1>3, <1>4 DEF ConTypeOK
<1>7. Making' /\ Made'
  BY <1>1, <1>2, <1>4, <1>5 DEF ConInv, Making, Made
<1>8. OnLine' /\ NoneLost'
  BY <1>2, <1>4, <1>5 DEF ConInv, OnLine, NoneLost, Alone, Pending
<1> QED
  BY <1>6, <1>7, <1>8 DEF ConInv

LEMMA Finishes ==
  ASSUME ConInv, NEW c \in Cores, Constructed(c)
  PROVE  ConInv'
<1>1. ConTypeOK /\ c = BootCore /\ ~made /\ step[c] = 5 /\ Making
  BY DEF ConInv, ConTypeOK, Making, Made, Constructed, ConstructorWrites
<1>2. /\ UNCHANGED <<uart, sent, todo, written>> /\ made' = TRUE
      /\ step' = [step EXCEPT ![c] = 0] /\ conPc' = [conPc EXCEPT ![c] = "write"]
  BY DEF Constructed, Goes
<1>3. /\ step' \in [Cores -> 0 .. 5] /\ conPc' \in [Cores -> ConLabels]
      /\ \A d \in Cores : conPc'[d] \in {"write", "idle"}
  BY <1>1, <1>2 DEF ConTypeOK, ConLabels, Making
<1>4. ConTypeOK'
  BY <1>1, <1>2, <1>3 DEF ConTypeOK
<1>5. Making' /\ Made'
  BY <1>1, <1>2, <1>3 DEF Making, Made, Configured
<1>6. OnLine' /\ NoneLost'
  BY <1>2, <1>3 DEF ConInv, OnLine, NoneLost, Alone, Pending
<1> QED
  BY <1>4, <1>5, <1>6 DEF ConInv

\* A store behind the poll: the byte is the core's last, and takes the place of
\* a byte of another core or of none.
LEMMA Stores ==
  ASSUME ConInv, NEW c \in Cores, Store(c)
  PROVE  ConInv'
<1> DEFINE byte == <<c, written[c] + 1>>
<1>1. /\ ConTypeOK /\ made /\ Configured /\ conPc[c] = "store"
      /\ \A d \in Cores : conPc[d] # "construct"
  BY DEF ConInv, ConTypeOK, Making, Made, Store
<1>2. /\ UNCHANGED <<sent, made, step>> /\ UartWrite(byte, 0)
      /\ written' = [written EXCEPT ![c] = written[c] + 1]
      /\ todo' = [todo EXCEPT ![c] = todo[c] - 1]
      /\ conPc' = [conPc EXCEPT ![c] = "write"]
  BY DEF Store, Goes, DATA_REG
<1>3. byte \in Bytes /\ byte[1] = c /\ byte[2] = written[c] + 1 /\ byte # Empty
  BY <1>1, ConsoleAssumption DEF ConTypeOK, Bytes
<1> HIDE DEF byte
<1>4. /\ uart' \in Registers /\ uart'.thr = byte
      /\ uart'.lcr = 3 /\ uart'.lsb = 1 /\ uart'.msb = 0 /\ uart'.ier = 0
  BY <1>1, <1>2, <1>3, UartWrites DEF ConTypeOK, Configured, Registers
<1>5. /\ written' \in [Cores -> Nat] /\ written'[c] = written[c] + 1
      /\ \A d \in Cores : d # c => written'[d] = written[d]
      /\ \A d \in Cores : written[d] <= written'[d]
  BY <1>1, <1>2 DEF ConTypeOK
<1>6. /\ conPc' \in [Cores -> ConLabels] /\ conPc'[c] = "write"
      /\ \A d \in Cores : d # c => conPc'[d] = conPc[d]
  BY <1>1, <1>2 DEF ConTypeOK, ConLabels
<1>7. ConTypeOK'
  BY <1>1, <1>2, <1>4, <1>5, <1>6 DEF ConTypeOK
<1>8. Making' /\ Made'
  BY <1>1, <1>2, <1>4, <1>6 DEF Making, Made, Configured
<1>9. OnLine'
  <2>1. \A i \in 1 .. Len(sent) :
          /\ sent[i] \in Bytes /\ sent[i][1] \in Cores /\ sent[i][2] \in Nat
          /\ sent[i][2] <= written[sent[i][1]]
    BY <1>1 DEF ConInv, ConTypeOK, OnLine, Bytes
  <2>2. \A i \in 1 .. Len(sent) : sent[i][2] <= written'[sent[i][1]]
    BY <1>1, <1>5, <2>1 DEF ConTypeOK
  <2>3. \A i \in 1 .. Len(sent) : sent[i][1] = c => sent[i][2] < written[c] + 1
    BY <1>1, <2>1 DEF ConTypeOK
  <2> QED
    BY <1>1, <1>2, <1>3, <1>4, <1>5, <2>2, <2>3 DEF ConInv, ConTypeOK, OnLine
<1>10. NoneLost'
  <2> SUFFICES ASSUME NEW d \in Cores, Alone(d)'
               PROVE  /\ Len(sent) + 1 = written'[d]
                      /\ conPc'[d] # "store"
    BY <1>2, <1>3, <1>4 DEF NoneLost, Pending
  <2>1. d = c
    BY <1>1, <1>5 DEF Alone, ConTypeOK
  <2>2. Alone(c)
    BY <1>5, <2>1 DEF Alone
  <2>3. Len(sent) + 0 = written[c]
    BY <1>1, <2>2 DEF ConInv, NoneLost, Pending
  <2> QED
    BY <1>1, <1>5, <1>6, <2>1, <2>3 DEF ConTypeOK
<1> QED
  BY <1>7, <1>8, <1>9, <1>10 DEF ConInv

LEMMA Transmits ==
  ASSUME ConInv, Transmit
  PROVE  ConInv'
<1> DEFINE n == Len(sent)
           byte == uart.thr
<1>1. /\ UNCHANGED <<made, conPc, step, todo, written>> /\ byte # Empty
      /\ sent' = Append(sent, byte) /\ uart' = [uart EXCEPT !.thr = Empty]
      /\ ConTypeOK
  BY DEF Transmit, ConInv
<1>2. made /\ Configured
  BY <1>1 DEF ConInv, Making, Made, ConTypeOK
<1>3. byte \in Bytes /\ n \in Nat
  BY <1>1 DEF ConTypeOK, Registers
<1>4. /\ uart' \in Registers /\ uart'.thr = Empty
      /\ uart'.lcr = 3 /\ uart'.lsb = 1 /\ uart'.msb = 0 /\ uart'.ier = 0
  BY <1>1, <1>2 DEF ConTypeOK, Registers, Configured
<1>5. byte[2] <= written[byte[1]]
      /\ \A i \in 1 .. n : sent[i][1] = byte[1] => sent[i][2] < byte[2]
  BY <1>1 DEF ConInv, OnLine
<1> HIDE DEF byte
<1>6. /\ sent' \in Seq(Bytes) /\ Len(sent') = n + 1 /\ sent'[n + 1] = byte
      /\ \A i \in 1 .. n : sent'[i] = sent[i]
  BY <1>1, <1>3 DEF ConTypeOK
<1>7. ConTypeOK'
  BY <1>1, <1>4, <1>6 DEF ConTypeOK
<1>8. Making' /\ Made'
  BY <1>1, <1>2, <1>4 DEF ConInv, Making, Made, Configured
<1>9. OnLine'
  <2> SUFFICES ASSUME NEW i \in 1 .. Len(sent')
               PROVE  /\ sent'[i][2] <= written[sent'[i][1]]
                      /\ \A j \in 1 .. i - 1 :
                           sent'[i][1] = sent'[j][1] => sent'[j][2] < sent'[i][2]
    BY <1>1, <1>4 DEF OnLine
  <2>1. CASE i = n + 1
    <3>1. \A j \in 1 .. i - 1 : j \in 1 .. n /\ sent'[j] = sent[j]
      BY <1>3, <1>6, <2>1
    <3> QED
      BY <1>5, <1>6, <2>1, <3>1
  <2>2. CASE i # n + 1
    <3>1. i \in 1 .. n /\ \A j \in 1 .. i - 1 : j \in 1 .. n /\ sent'[j] = sent[j]
      BY <1>3, <1>6, <2>2
    <3> QED
      BY <1>6, <3>1 DEF ConInv, OnLine
  <2> QED
    BY <2>1, <2>2
<1>10. NoneLost'
  <2> SUFFICES ASSUME NEW d \in Cores, Alone(d)'
               PROVE  Len(sent') + 0 = written[d]
    BY <1>1, <1>4 DEF NoneLost, Pending
  <2>1. Alone(d)
    BY <1>1 DEF Alone
  <2>2. Len(sent) + 1 = written[d]
    BY <1>1, <2>1 DEF ConInv, NoneLost, Pending, byte
  <2> QED
    BY <1>3, <1>6, <2>2
<1> QED
  BY <1>7, <1>8, <1>9, <1>10 DEF ConInv

LEMMA ConStep == ConInv /\ [Next]_vars => ConInv'
<1> SUFFICES ASSUME ConInv, [Next]_vars PROVE ConInv'
  OBVIOUS
<1>1. CASE UNCHANGED conVars
  BY <1>1 DEF conVars, ConInv, ConTypeOK, Making, Made, Configured, OnLine, NoneLost, Alone,
     Pending
<1>2. ASSUME NEW c \in Cores, ConsoleStep(c) PROVE ConInv'
  <2>0. ConTypeOK
    BY DEF ConInv
  <2>1. CASE GetInstance(c)
    <3>1. ~made => c = BootCore
      BY <2>1 DEF ConInv, Making, GetInstance
    <3> QED
      BY <2>0, <2>1, <3>1, Moves DEF GetInstance, ConLabels, ConTypeOK
  <2>2. CASE Poll(c)
    <3>1. made
      BY <2>0, <2>2 DEF ConInv, Making, Poll, ConTypeOK
    <3> QED
      BY <2>0, <2>2, <3>1, Moves DEF Poll, ThrEmpty, ConLabels, ConTypeOK
  <2>3. CASE WriteReturns(c)
    <3>1. made
      BY <2>0, <2>3 DEF ConInv, Making, WriteReturns, ConTypeOK
    <3> QED
      BY <2>0, <2>3, <3>1, Moves DEF WriteReturns, ConLabels, ConTypeOK
  <2> QED
    BY <1>2, <2>1, <2>2, <2>3, Constructs, Finishes, Stores DEF ConsoleStep
<1>3. ASSUME NEW c \in Cores, Write(c) PROVE ConInv'
  <2>1. PICK n \in 0 .. 2 : WriteCall(c, n)
    BY <1>3 DEF Write
  <2>2. made
    BY <2>1, BootedMade DEF WriteCall
  <2>3. todo' \in [Cores -> Int]
    BY <2>1 DEF WriteCall, ConInv, ConTypeOK
  <2> QED
    BY <2>1, <2>2, <2>3, Moves DEF WriteCall, ConLabels
<1>4. CASE \E c \in Cores : \/ CallNYI(c) \/ CallReent(c) \/ ReadInit(c) \/ InitReent(c)
                            \/ SetInit(c) \/ GotReent(c)
  BY <1>1, <1>4 DEF CallNYI, CallReent, ReadInit, InitReent, SetInit, GotReent
<1>5. CASE \E c \in Cores : SbrkTest(c) \/ SbrkStore(c) \/ SbrkRefused(c)
  BY <1>1, <1>5 DEF SbrkTest, SbrkStore, SbrkRefused
<1>6. CASE UNCHANGED vars
  BY <1>1, <1>6 DEF vars
<1> QED
  BY <1>2, <1>3, <1>4, <1>5, <1>6, Transmits DEF Next

LEMMA ConStarts == Init => ConInv
<1> SUFFICES ASSUME Init PROVE ConInv
  OBVIOUS
<1>1. PICK lcr \in {3, 26}, ier \in {0, 15} :
        uart = [lcr |-> lcr, lsb |-> 12, msb |-> 0, ier |-> ier, thr |-> Empty]
  BY DEF Init, ConsoleInit, LINE_CNTL_REG_CHARLEN_8
<1>2. /\ sent = << >> /\ made = FALSE
      /\ conPc = [c \in Cores |-> IF c = BootCore THEN "get" ELSE "idle"]
      /\ step = [c \in Cores |-> 0]
      /\ todo = [c \in Cores |-> IF c = BootCore THEN BannerLen ELSE 0]
      /\ written = [c \in Cores |-> 0]
  BY DEF Init, ConsoleInit
<1>3. ConTypeOK
  <2>1. uart \in Registers
    BY <1>1 DEF Registers
  <2>2. sent \in Seq(Bytes)
    BY <1>2
  <2>3. made \in BOOLEAN
    BY <1>2
  <2>4. /\ \A c \in Cores : conPc[c] \in ConLabels /\ step[c] \in 0 .. 5 /\ written[c] \in Nat
        /\ \A c \in Cores : todo[c] \in Int
    BY <1>2, ConsoleAssumption DEF ConLabels
  <2> QED
    BY <1>2, <2>1, <2>2, <2>3, <2>4 DEF ConTypeOK
<1>4. Making /\ Made
  BY <1>1, <1>2, ConsoleAssumption DEF Making, Made
<1>5. OnLine /\ NoneLost
  BY <1>1, <1>2 DEF OnLine, NoneLost, Pending
<1> QED
  BY <1>3, <1>4, <1>5 DEF ConInv

LEMMA ConInvariance == Spec => []ConInv
<1> QED
  BY ConStarts, ConStep, PTL DEF Spec

\* However many cores use the console, and though nothing guards getInstance,
\* nothing is on the line before the port is set up, and the settings stay.
THEOREM ConsoleConfigured == Spec => []ConfiguredFirst
<1>1. ConInv => ConfiguredFirst
  BY DEF ConInv, ConTypeOK, Making, Made, Configured, ConfiguredFirst, LINE_CNTL_REG_CHARLEN_8
<1> QED
  BY <1>1, ConInvariance, PTL

\* The bytes of a core keep their order on the line, and none of them is lost
\* while it is the only one that has written.
THEOREM ConsoleExact == Spec => []SerialExact
<1>1. ConInv => SerialExact
  <2> SUFFICES ASSUME ConInv PROVE SerialExact
    OBVIOUS
  <2>1. \A i \in 1 .. Len(sent) :
          /\ \E c \in Cores : sent[i] \in {c} \X (1 .. written[c])
          /\ \A j \in 1 .. i - 1 : sent[i][1] = sent[j][1] => sent[j][2] < sent[i][2]
    <3> SUFFICES ASSUME NEW i \in 1 .. Len(sent)
                 PROVE  \E c \in Cores : sent[i] \in {c} \X (1 .. written[c])
      BY DEF ConInv, OnLine
    <3>1. sent[i] \in Bytes /\ sent[i][2] <= written[sent[i][1]] /\ written \in [Cores -> Nat]
      BY DEF ConInv, ConTypeOK, OnLine
    <3> QED
      BY <3>1 DEF Bytes
  <2> QED
    BY <2>1 DEF ConInv, NoneLost, Alone, Pending, SerialExact
<1> QED
  BY <1>1, ConInvariance, PTL
=============================================================================
