--------------------------- MODULE AppStartProofs ---------------------------
(***************************************************************************)
(* What the start of the application keeps, although every core runs the   *)
(* constructors again while the others use what they construct, and so     *)
(* releases the locks of the managers under the feet of their holders: the *)
(* rootManager's table stays sound, cores are never given each other's     *)
(* entries, and Ebb calls still implement EbbCache.                        *)
(*                                                                         *)
(* The inductive invariant AppInv has the parts of EbbDispatch's that do   *)
(* not depend on the locks, and a part for each thing that AppStart adds.  *)
(***************************************************************************)
EXTENDS AppStart, EbbDispatchProofs

\* The node that an insertion under way will put in front is still in front of
\* nodes for representatives that exist, whatever others have inserted.
InsertionOf(c) ==
  /\ next[c] \in Seq(Node) \cup {None}
  /\ next[c] # None =>
       /\ sp[c] \in Levels /\ pc[c][sp[c]] = "insert"
       /\ \A i \in 1 .. Len(next[c]) : built[next[c][i].ref][on[c][sp[c]]] = 1

NextInv ==
  /\ next = [c \in Cores |-> next[c]]
  /\ \A c \in Cores : InsertionOf(c)

\* start and the client only call the allocator.
CallsAllocator == \A c \in Cores : pc[c][1] # "free" => on[c][1] = AllocEbb

\* The managers' entries hold nothing or the Ebb's own number.
RootInv ==
  /\ le \in [Ebbs -> {None, 0, 2}]
  /\ copied \in [Cores -> {None, 0, 2}]
  /\ DOMAIN ge = Reserved /\ ge = [n \in Reserved |-> ge[n]]
  /\ UsedWord \in DOMAIN words /\ words[UsedWord] = "globalMem"
  /\ \A e \in Ebbs :
       ge[ManagerEntry(e)] = "root" =>
         /\ RepWord(ManagerEntry(e)) \in DOMAIN words
         /\ words[RepWord(ManagerEntry(e))] = e

\* The bits of an allocator are none, those of the reserved entries, or the one
\* that is the number of the first entry behind these.
BitsInv ==
  /\ bv \in [Cores -> {{}, {2}, Reserved}]
  /\ built[0][AllocEbb] = 1 => bv[0] = Reserved

\* What a core has got are the first entry of its share and the first that
\* location 0's allocator does not reserve; what free is called with has been
\* got by some core.
EntryInv ==
  /\ got = [c \in Cores |-> got[c]] /\ asked = [c \in Cores |-> asked[c]]
  /\ \A c \in Cores : got[c] \subseteq {FirstEntry(c), FirstEntry(c) + 4}
  /\ \A c \in Cores : asked[c] # None => \E d \in Cores : asked[c] \in got[d]
  /\ 0 \in got[0] => ref[0][AllocEbb] \notin {None, 0}

AppInv ==
  /\ TypeOK
  /\ Parts
  /\ NextInv
  /\ CallsAllocator
  /\ RootInv
  /\ BitsInv
  /\ EntryInv

-----------------------------------------------------------------------------
\* The cores are numbered from zero.
LEMMA CoresNumbered ==
  /\ Cores \subseteq Int /\ 0 \in Cores
  /\ \A c \in Cores : c >= 0
  BY AppCoresAssumption

\* A core's share has a word of the bit vector at least.
LEMMA SharesLarge == Share \in Int /\ Share >= 64
  BY AppCoresAssumption, EntriesAssumption DEF Share

\* Where the shares start, and that they are apart.
LEMMA SharesApart ==
  /\ \A c \in Cores : FirstEntry(c) \in Int
  /\ FirstEntry(0) = 0
  /\ \A c, d \in Cores : c < d => FirstEntry(c) + 64 <= FirstEntry(d)
<1>1. ASSUME NEW c \in Cores, NEW d \in Cores, c < d
      PROVE  Share * c + 64 <= Share * d
  <2>1. c \in Int /\ d \in Int /\ d - c >= 1
    BY <1>1, CoresNumbered
  <2>2. Share * d = Share * c + Share * (d - c)
    BY <2>1, SharesLarge
  <2>3. Share * (d - c) >= Share
    BY <2>1, SharesLarge
  <2> QED
    BY <2>1, <2>2, <2>3, SharesLarge
<1> QED
  BY <1>1, CoresNumbered, SharesLarge DEF FirstEntry

\* Only location 0's first entries are reserved.
LEMMA ReservedAtZero ==
  ASSUME NEW c \in Cores, NEW x \in {0, 4}, FirstEntry(c) + x \in Reserved
  PROVE  c = 0 /\ x = 0
<1>1. c # 0 => FirstEntry(0) + 64 <= FirstEntry(c)
  BY CoresNumbered, SharesApart
<1> QED
  BY <1>1, SharesApart DEF Reserved

\* The first clear bit of what an allocator's bits can be.
LEMMA FirstClear ==
  ASSUME NEW bits \in {{}, {2}, Reserved}
  PROVE  Min((0 .. 63) \ bits) = IF bits = Reserved THEN 4 ELSE 0
<1>1. CASE bits = Reserved
  <2>1. Min((0 .. 63) \ Reserved) = 4
    BY DEF Min, Reserved
  <2> QED
    BY <1>1, <2>1
<1>2. CASE bits \in {{}, {2}}
  <2>1. bits # Reserved
    BY <1>2 DEF Reserved
  <2>2. 0 \in (0 .. 63) \ bits
    BY <1>2
  <2>3. Min((0 .. 63) \ bits) = 0
    BY <2>2 DEF Min
  <2> QED
    BY <2>1, <2>3
<1> QED
  BY <1>1, <1>2

\* The bits of the two numbers that free is given.
LEMMA BitsOfIndex == BitsOf(0) = {} /\ BitsOf(4) = {2}
<1>1. 2 ^ 0 = 1 /\ 2 ^ 1 = 2 /\ 2 ^ 2 = 4 /\ 2 ^ 3 = 8 /\ 2 ^ 4 = 16 /\ 2 ^ 5 = 32
  OBVIOUS
<1>2. ASSUME NEW n \in {0, 4}, NEW b \in 0 .. 5
      PROVE  (n \div 2 ^ b) % 2 = 1 <=> n = 4 /\ b = 2
  <2>1. CASE b = 0
    BY <1>1, <2>1
  <2>2. CASE b = 1
    BY <1>1, <2>2
  <2>3. CASE b = 2
    BY <1>1, <2>3
  <2>4. CASE b = 3
    BY <1>1, <2>4
  <2>5. CASE b = 4
    BY <1>1, <2>5
  <2>6. CASE b = 5
    BY <1>1, <2>6
  <2> QED
    BY <2>1, <2>2, <2>3, <2>4, <2>5, <2>6
<1>3. BitsOf(0) = {}
  <2>0. 0 # 4
    OBVIOUS
  <2>1. \A b \in 0 .. 5 : ~((0 \div 2 ^ b) % 2 = 1)
    BY <1>2, <2>0, Zenon
  <2> QED
    BY <2>1, Zenon DEF BitsOf
<1>4. BitsOf(4) = {b \in 0 .. 5 : b = 2}
  <2>1. \A b \in 0 .. 5 : (4 \div 2 ^ b) % 2 = 1 <=> b = 2
    BY <1>2
  <2> QED
    BY <2>1, Zenon DEF BitsOf
<1> QED
  BY <1>3, <1>4

\* Giving an entry back keeps the bits what they can be, and those of the
\* reserved entries set.
LEMMA FreeKeepsBits ==
  ASSUME NEW bits \in {{}, {2}, Reserved}, NEW index \in {0, 4}
  PROVE  /\ free(index, bits) \in {{}, {2}, Reserved}
         /\ bits = Reserved => free(index, bits) = Reserved
<1>1. BitsOf(index % 64) \in {{}, {2}}
  BY BitsOfIndex
<1>2. {2} \subseteq Reserved
  BY DEF Reserved
<1> QED
  BY <1>1, <1>2 DEF free

-----------------------------------------------------------------------------
\* What is on the stack decides TypeOK and Parts, not the locks.
LEMMA LocksAside ==
  ASSUME TypeOK, Parts, lock' \in [Ebbs -> BOOLEAN],
         UNCHANGED <<list, ref, mgrRef, altstack, built, sp, pc, on, rep, viaRoot>>
  PROVE  TypeOK' /\ Parts'
<1>1. TypeOK'
  BY DEF TypeOK
<1>2. StackShape'
  BY DEF Parts, StackShape, ShapeOf
<1>3. EntryFollowsDispatch'
  BY DEF Parts, EntryFollowsDispatch, EntryOf
<1>4. BuiltInv'
  BY DEF Parts, BuiltInv, BuiltKept, BuiltOf, RepOf, NodesBuilt, BoundIsBuilt, OwnRep
<1> QED
  BY <1>1, <1>2, <1>3, <1>4 DEF Parts

\* Insertions of other cores are not disturbed, and c has none under way.
LEMMA NextKept ==
  ASSUME TypeOK, NextInv, NEW c \in Cores,
         next' = [next EXCEPT ![c] = None] \/ (next' = next /\ next[c] = None),
         \A d \in Cores : d # c => sp'[d] = sp[d],
         \A d \in Cores, l \in Levels :
           d # c => pc'[d][l] = pc[d][l] /\ on'[d][l] = on[d][l],
         \A d \in Cores, e \in Ebbs : built[d][e] = 1 => built'[d][e] = 1
  PROVE  NextInv'
<1>1. next' = [d \in Cores |-> next'[d]] /\ next'[c] = None
      /\ \A d \in Cores : d # c => next'[d] = next[d]
  BY DEF NextInv
<1>2. SUFFICES ASSUME NEW d \in Cores PROVE InsertionOf(d)'
  BY <1>1 DEF NextInv
<1>3. CASE d = c
  BY <1>1, <1>3 DEF InsertionOf
<1>4. CASE d # c
  <2>1. InsertionOf(d) /\ next'[d] = next[d] /\ sp'[d] = sp[d]
    BY <1>1, <1>4 DEF NextInv
  <2>2. CASE next[d] = None
    BY <2>1, <2>2 DEF InsertionOf
  <2>3. CASE next[d] # None
    <3>1. next[d] \in Seq(Node) /\ sp[d] \in Levels /\ on[d][sp[d]] \in Ebbs
      BY <2>1, <2>3 DEF InsertionOf, TypeOK
    <3>2. pc'[d][sp'[d]] = "insert" /\ on'[d][sp'[d]] = on[d][sp[d]]
      BY <1>4, <2>1, <2>3, <3>1 DEF InsertionOf
    <3>3. ASSUME NEW i \in 1 .. Len(next[d])
          PROVE  built'[next[d][i].ref][on[d][sp[d]]] = 1
      <4>1. next[d][i] \in Node
        BY <3>1
      <4>2. next[d][i].ref \in Cores
        BY <4>1 DEF Node
      <4> QED
        BY <2>1, <2>3, <3>1, <4>2 DEF InsertionOf
    <3> QED
      BY <2>1, <3>1, <3>2, <3>3 DEF InsertionOf
  <2> QED
    BY <2>2, <2>3
<1> QED
  BY <1>3, <1>4

\* What a step does to the stack leaves the call of the allocator at its bottom.
LEMMA StackKeepsCalls ==
  ASSUME TypeOK, Parts, CallsAllocator, NEW c \in Cores, NEW k \in Levels,
         sp[c] = k,
         \/ \E from, to \in Labels : Moved(c, k, from, to)
         \/ k + 1 \in Levels /\ \E r \in Labels : Pushed(c, k + 1, MemEbb, r)
         \/ Popped(c, k)
  PROVE  CallsAllocator'
<1>1. 1 \in Levels /\ k \in Int /\ k >= 1 /\ \A l \in Levels : l \in Int /\ l >= 1
  BY DepthAssumption DEF Levels
<1>2. SUFFICES ASSUME NEW d \in Cores, pc'[d][1] # "free" PROVE on'[d][1] = AllocEbb
  BY DEF CallsAllocator
<1>3. pc[c][k] # "free" /\ (pc[c][1] = "free" => 1 > k)
  BY <1>1 DEF Parts, StackShape, ShapeOf
<1>4. pc[c][1] # "free"
  BY <1>1, <1>3
<1>5. CASE \E from, to \in Labels : Moved(c, k, from, to)
  BY <1>1, <1>2, <1>4, <1>5 DEF Moved, CallsAllocator
<1>6. CASE k + 1 \in Levels /\ \E r \in Labels : Pushed(c, k + 1, MemEbb, r)
  BY <1>1, <1>2, <1>4, <1>6 DEF Pushed, CallsAllocator
<1>7. CASE Popped(c, k)
  BY <1>1, <1>2, <1>4, <1>7 DEF Popped, CallsAllocator
<1> QED
  BY <1>5, <1>6, <1>7

\* A step of a dispatch other than its insertion keeps the parts about the calls.
LEMMA StepKeeps ==
  ASSUME TypeOK, Parts, NextInv, CallsAllocator, NEW c \in Cores, NEW k \in Levels,
         Step(c, k), pc[c][k] # "insert", next' = next
  PROVE  TypeOK' /\ Parts' /\ NextInv' /\ CallsAllocator'
<1>1. TypeOK' /\ Parts'
  BY StepParts
<1>2. /\ sp[c] = k
      /\ \/ \E from, to \in Labels : Moved(c, k, from, to)
         \/ k + 1 \in Levels /\ \E r \in Labels : Pushed(c, k + 1, MemEbb, r)
         \/ Popped(c, k)
  BY StepForms
<1>3. CallsAllocator'
  BY <1>2, StackKeepsCalls
<1>4. /\ \A d \in Cores : d # c => sp'[d] = sp[d]
      /\ \A d \in Cores, l \in Levels :
           d # c => pc'[d][l] = pc[d][l] /\ on'[d][l] = on[d][l]
  BY <1>2 DEF Moved, Pushed, Popped
<1>5. next[c] = None
  BY <1>2 DEF NextInv, InsertionOf
<1>6. \A d \in Cores, e \in Ebbs : built[d][e] = 1 => built'[d][e] = 1
  BY StepBuildsOnce
<1>7. NextInv'
  BY <1>4, <1>5, <1>6, NextKept
<1> QED
  BY <1>1, <1>3, <1>7

\* A representative that its core is bound to stays the one it is bound to.
LEMMA EntryRefKept ==
  ASSUME TypeOK, Parts, EntryInv, got' = got,
         \/ asked' = asked
         \/ /\ asked' = [c \in Cores |-> asked'[c]]
            /\ \A c \in Cores :
                 asked'[c] # None => \E d \in Cores : asked'[c] \in got[d],
         \/ ref' = ref
         \/ \E c \in Cores, k \in Levels : Step(c, k)
  PROVE  EntryInv'
<1>1. 0 \in Cores /\ AllocEbb \in Ebbs
  BY CoresNumbered, AppEbbsAssumption
<1>2. ref[0][AllocEbb] # None => ref'[0][AllocEbb] = ref[0][AllocEbb]
  BY <1>1, StepBindsOnce
<1> QED
  BY <1>2 DEF EntryInv, FirstEntry, Share

-----------------------------------------------------------------------------
\* A step of app::start before its call leaves the calls alone.
LEMMA ConstructorControl ==
  ASSUME TypeOK, NEW c \in Cores, Constructor(c)
  PROVE  /\ lock' \in [Ebbs -> BOOLEAN]
         /\ UNCHANGED <<list, ref, mgrRef, altstack, built, sp, pc, on, rep, viaRoot>>
         /\ UNCHANGED <<next, bv, asked, got>>
<1>1. lock \in [Ebbs -> BOOLEAN]
  BY DEF TypeOK
<1>2. \/ ConstructManager(c, "allocatorManagerRep", AllocEbb)
      \/ ConstructManager(c, "memAllocatorManager", MemEbb)
      \/ UNCHANGED <<vars, next, bv, asked, got>>
  BY DEF Constructor, ReadManager, StoreManager, ConstructRooted, ConstructAllocator
<1>3. ASSUME NEW n, NEW e, ConstructManager(c, n, e)
      PROVE  /\ lock' = [lock EXCEPT ![e] = FALSE]
             /\ UNCHANGED <<list, ref, mgrRef, altstack, built, sp, pc, on, rep, viaRoot>>
             /\ UNCHANGED <<next, bv, asked, got>>
  BY <1>3 DEF ConstructManager
<1>4. CASE UNCHANGED <<vars, next, bv, asked, got>>
  BY <1>1, <1>4 DEF vars
<1>5. CASE ConstructManager(c, "allocatorManagerRep", AllocEbb)
  BY <1>1, <1>3, <1>5
<1>6. CASE ConstructManager(c, "memAllocatorManager", MemEbb)
  BY <1>1, <1>3, <1>6
<1> QED
  BY <1>2, <1>4, <1>5, <1>6

\* The constructors fill the tables the same way whoever runs them.
LEMMA ConstructorTables ==
  ASSUME RootInv, NEW c \in Cores, Constructor(c)
  PROVE  RootInv'
<1>1. ASSUME NEW n, NEW e \in Ebbs, ConstructRooted(c, n, e)
      PROVE  RootInv'
  <2>1. /\ le' = [le EXCEPT ![e] = ManagerEntry(e)]
        /\ ge' = [ge EXCEPT ![ManagerEntry(e)] = "root"]
        /\ copied' = copied
        /\ words' = [w \in DOMAIN words \cup {RepWord(ManagerEntry(e))} |->
                       IF w = RepWord(ManagerEntry(e)) THEN e ELSE words[w]]
    BY <1>1 DEF ConstructRooted, addRep, StoreWord
  <2>2. /\ ManagerEntry(e) \in {0, 2} /\ ManagerEntry(e) \in Reserved
        /\ RepWord(ManagerEntry(e)) # UsedWord
        /\ \A f \in Ebbs : f # e =>
             /\ ManagerEntry(f) # ManagerEntry(e)
             /\ RepWord(ManagerEntry(f)) # RepWord(ManagerEntry(e))
    BY AppEbbsAssumption DEF ManagerEntry, Reserved, RepWord, UsedWord
  <2>3. le' \in [Ebbs -> {None, 0, 2}] /\ copied' \in [Cores -> {None, 0, 2}]
    BY <2>1, <2>2 DEF RootInv
  <2>4. DOMAIN ge' = Reserved /\ ge' = [n2 \in Reserved |-> ge'[n2]]
    BY <2>1 DEF RootInv
  <2>5. UsedWord \in DOMAIN words' /\ words'[UsedWord] = "globalMem"
    BY <2>1, <2>2 DEF RootInv
  <2>6. ASSUME NEW f \in Ebbs, ge'[ManagerEntry(f)] = "root"
        PROVE  /\ RepWord(ManagerEntry(f)) \in DOMAIN words'
               /\ words'[RepWord(ManagerEntry(f))] = f
    <3>1. CASE f = e
      BY <2>1, <3>1
    <3>2. CASE f # e
      <4>1. ge[ManagerEntry(f)] = "root"
        BY <2>1, <2>2, <2>6, <3>2 DEF RootInv
      <4> QED
        BY <2>1, <2>2, <3>2, <4>1 DEF RootInv
    <3> QED
      BY <3>1, <3>2
  <2> QED
    BY <2>3, <2>4, <2>5, <2>6 DEF RootInv
<1>2. ASSUME NEW n \in {1, 3}, NEW v, ge' = [ge EXCEPT ![n] = v], UNCHANGED <<le, words, copied>>
      PROVE  RootInv'
  <2>1. \A e \in Ebbs : ManagerEntry(e) \in Reserved /\ ManagerEntry(e) # n
    BY DEF ManagerEntry, Reserved
  <2>2. DOMAIN ge' = Reserved /\ ge' = [m \in Reserved |-> ge'[m]]
    BY <1>2 DEF RootInv
  <2>3. \A e \in Ebbs : ge'[ManagerEntry(e)] = ge[ManagerEntry(e)]
    BY <1>2, <2>1 DEF RootInv
  <2> QED
    BY <1>2, <2>2, <2>3 DEF RootInv
<1>3. CASE ReadManager(c)
  BY <1>3, EbbAssumption DEF ReadManager, RootInv
<1>4. CASE StoreManager(c)
  <2>1. EbbEntry(MemEbb) \in {1, 3}
    BY DEF EbbEntry, ManagerEntry
  <2> QED
    BY <1>2, <1>4, <2>1 DEF StoreManager
<1>5. CASE ConstructAllocator(c)
  <2>1. EbbEntry(AllocEbb) \in {1, 3}
    BY DEF EbbEntry, ManagerEntry
  <2> QED
    BY <1>2, <1>5, <2>1 DEF ConstructAllocator
<1>6. ASSUME NEW n, NEW e, ConstructManager(c, n, e)
      PROVE  RootInv'
  BY <1>6 DEF ConstructManager, RootInv
<1> QED
  BY <1>1, <1>3, <1>4, <1>5, <1>6, AppEbbsAssumption DEF Constructor

\* Steps that touch neither the calls nor the entries.
LEMMA StackAside ==
  ASSUME AppInv, lock' \in [Ebbs -> BOOLEAN],
         UNCHANGED <<list, ref, mgrRef, altstack, built, sp, pc, on, rep, viaRoot>>,
         UNCHANGED <<next, bv, asked, got>>, RootInv'
  PROVE  AppInv'
<1>1. TypeOK' /\ Parts'
  BY LocksAside DEF AppInv
<1>2. NextInv' /\ CallsAllocator'
  BY DEF AppInv, NextInv, InsertionOf, CallsAllocator
<1>3. BitsInv'
  BY DEF AppInv, BitsInv
<1>4. EntryInv'
  BY EntryRefKept DEF AppInv
<1> QED
  BY <1>1, <1>2, <1>3, <1>4 DEF AppInv

\* n->next = list: what is listed is built.
LEMMA InsertReads ==
  ASSUME AppInv, NEW c \in Cores, NEW k \in Levels, InsertRead(c, k)
  PROVE  AppInv'
<1>1. /\ sp[c] = k /\ pc[c][k] = "insert" /\ next' = [next EXCEPT ![c] = list[on[c][k]]]
      /\ UNCHANGED <<vars, le, ge, words, ctor, copied, bv, asked, got>>
  BY DEF InsertRead, At
<1>2. on[c][k] \in Ebbs /\ list[on[c][k]] \in Seq(Node)
  BY DEF AppInv, TypeOK
<1>3. /\ UNCHANGED <<list, ref, mgrRef, altstack, built, sp, pc, on, rep, viaRoot>>
      /\ lock' \in [Ebbs -> BOOLEAN]
  BY <1>1 DEF vars, AppInv, TypeOK
<1>4. TypeOK' /\ Parts'
  BY <1>3, LocksAside DEF AppInv
<1>5. NextInv'
  <2>1. /\ next' = [d \in Cores |-> next'[d]] /\ next'[c] = list[on[c][k]]
        /\ \A d \in Cores : d # c => next'[d] = next[d]
    BY <1>1 DEF AppInv, NextInv
  <2>2. SUFFICES ASSUME NEW d \in Cores PROVE InsertionOf(d)'
    BY <2>1 DEF NextInv
  <2>3. CASE d = c
    <3>1. \A i \in 1 .. Len(list[on[c][k]]) : built[list[on[c][k]][i].ref][on[c][k]] = 1
      BY <1>2 DEF AppInv, Parts, BuiltInv, BuiltKept, NodesBuilt
    <3> QED
      BY <1>1, <1>2, <1>3, <2>1, <2>3, <3>1 DEF InsertionOf
  <2>4. CASE d # c
    BY <1>3, <2>1, <2>4 DEF AppInv, NextInv, InsertionOf
  <2> QED
    BY <2>3, <2>4
<1>6. CallsAllocator'
  BY <1>3 DEF AppInv, CallsAllocator
<1>7. RootInv' /\ BitsInv'
  <2>1. UNCHANGED <<le, ge, words, copied, bv, built>>
    BY <1>1, <1>3
  <2> QED
    BY <2>1 DEF AppInv, RootInv, BitsInv
<1>8. EntryInv'
  BY <1>1, <1>3, EntryRefKept DEF AppInv
<1> QED
  BY <1>4, <1>5, <1>6, <1>7, <1>8 DEF AppInv

\* list = n: whatever others have inserted meanwhile, what is listed is built.
LEMMA InsertWrites ==
  ASSUME AppInv, NEW c \in Cores, NEW k \in Levels, InsertWrite(c, k)
  PROVE  AppInv'
<1>1. /\ At(c, k, "insert") /\ sp[c] = k /\ pc[c][k] = "insert" /\ next[c] # None
      /\ next' = [next EXCEPT ![c] = None] /\ Goto(c, k, "unlock")
      /\ UNCHANGED <<lock, ref, mgrRef, altstack, built, sp, on, rep, viaRoot>>
      /\ UNCHANGED <<le, ge, words, copied, bv, asked, got>>
  BY DEF InsertWrite, At
<1>2. /\ next[c] \in Seq(Node)
      /\ \A i \in 1 .. Len(next[c]) : built[next[c][i].ref][on[c][k]] = 1
  BY <1>1 DEF AppInv, NextInv, InsertionOf
<1>3. PICK l \in NodeLocations(c, on[c][k]) :
        list' = [list EXCEPT ![on[c][k]] =
                   <<[location |-> l, ref |-> rep[c][k]]>> \o next[c]]
  BY DEF InsertWrite
<1>4. l \in Junk
  BY ZeroAssumption DEF NodeLocations
<1>5. NodesBuilt' /\ list' \in [Ebbs -> Seq(Node)]
  BY <1>1, <1>2, <1>3, <1>4, NodeAdded DEF AppInv, Parts
<1>6. "insert" \in Labels /\ "unlock" \in Labels /\ "insert" \in Quiet /\ "unlock" \in Quiet
      /\ "insert" \in Bound /\ "unlock" \in Bound
  BY DEF Labels, Quiet, Bound
<1>7. Parts'
  BY <1>1, <1>5, <1>6, QuietStep DEF AppInv
<1>8. TypeOK'
  <2>1. /\ sp' \in [Cores -> 0 .. Depth] /\ pc' \in [Cores -> [Levels -> Labels]]
        /\ on' \in [Cores -> [Levels -> Ebbs]]
    BY <1>1, <1>6, ControlTypes, EbbAssumption DEF AppInv
  <2> QED
    BY <1>1, <1>5, <2>1 DEF AppInv, TypeOK
<1>9. Moved(c, k, "insert", "unlock")
  BY <1>1, <1>6, GotoMoves DEF AppInv
<1>10. NextInv'
  BY <1>1, <1>9, NextKept DEF AppInv, Moved
<1>11. CallsAllocator'
  BY <1>1, <1>6, <1>9, StackKeepsCalls DEF AppInv
<1>12. RootInv' /\ BitsInv'
  BY <1>1 DEF AppInv, RootInv, BitsInv
<1>13. EntryInv'
  BY <1>1, EntryRefKept DEF AppInv
<1> QED
  BY <1>7, <1>8, <1>10, <1>11, <1>12, <1>13 DEF AppInv

\* A step of a dispatch that the allocator's bits and the entries do not take
\* part in.
LEMMA DispatchKeeps ==
  ASSUME AppInv, NEW c \in Cores, NEW k \in Levels, Step(c, k),
         pc[c][k] # "insert", built'[0][AllocEbb] = built[0][AllocEbb],
         UNCHANGED <<le, ge, words, copied, next, bv, asked, got>>
  PROVE  AppInv'
<1>1. TypeOK' /\ Parts' /\ NextInv' /\ CallsAllocator'
  BY StepKeeps DEF AppInv
<1>2. RootInv' /\ BitsInv'
  BY DEF AppInv, RootInv, BitsInv
<1>3. EntryInv'
  BY EntryRefKept DEF AppInv
<1> QED
  BY <1>1, <1>2, <1>3 DEF AppInv

\* The steps of Dispatch and PrecallFound are of that kind.
LEMMA DispatchIsStep ==
  ASSUME AppInv, NEW c \in Cores, NEW k \in Levels, Dispatch(c, k) \/ PrecallFound(c, k)
  PROVE  /\ Step(c, k)
         /\ pc[c][k] # "insert" /\ built'[0][AllocEbb] = built[0][AllocEbb]
         /\ UNCHANGED <<le, ge, words, copied, next, bv, asked, got>>
<1>1. UNCHANGED <<le, ge, words, copied, next, bv, asked, got>>
  BY DEF Dispatch, PrecallFound, appVars
<1>2. Step(c, k)
  BY DEF Dispatch, PrecallFound, Step
<1>3. pc[c][k] # "insert"
  BY DEF Dispatch, PrecallFound, Precall, Lock, SearchFinds, SearchFails, NewMemRep, NewRep, BindRef,
         NewNode, Unlock, PreCallReturn, CallFunction, DirectReturn, Return, At
<1>4. built' = built \/ \E d \in Cores : built' = [built EXCEPT ![d][MemEbb] = @ + 1]
  BY DEF Dispatch, PrecallFound, Precall, Lock, SearchFinds, SearchFails, NewMemRep, NewRep, BindRef,
         NewNode, Unlock, PreCallReturn, CallFunction, DirectReturn, Return
<1>5. built'[0][AllocEbb] = built[0][AllocEbb]
  BY <1>4, CoresNumbered, AppEbbsAssumption DEF AppInv, TypeOK
<1> QED
  BY <1>1, <1>2, <1>3, <1>5

\* The constructor of an allocator sets the bits of the reserved entries when it
\* is that of location 0.
LEMMA ConstructRepKeeps ==
  ASSUME AppInv, NEW c \in Cores, NEW k \in Levels, ConstructRep(c, k)
  PROVE  AppInv'
<1>1. /\ Step(c, k) /\ pc[c][k] = "ctor"
      /\ built' = [built EXCEPT ![c][on[c][k]] = @ + 1]
      /\ bv' = [bv EXCEPT ![c] = NewBits(c)]
      /\ UNCHANGED <<le, ge, words, copied, next, asked, got>>
  BY DEF ConstructRep, Construct, Step, At
<1>2. TypeOK' /\ Parts' /\ NextInv' /\ CallsAllocator'
  BY <1>1, StepKeeps DEF AppInv
<1>3. RootInv'
  BY <1>1 DEF AppInv, RootInv
<1>4. EntryInv'
  BY <1>1, EntryRefKept DEF AppInv
<1>5. BitsInv'
  <2>1. bv' \in [Cores -> {{}, {2}, Reserved}]
    BY <1>1 DEF AppInv, BitsInv, NewBits
  <2>2. CASE c = 0
    BY <1>1, <2>1, <2>2, CoresNumbered DEF AppInv, BitsInv, NewBits
  <2>3. CASE c # 0
    BY <1>1, <2>1, <2>3, CoresNumbered DEF AppInv, BitsInv, TypeOK
  <2> QED
    BY <2>2, <2>3
<1> QED
  BY <1>2, <1>3, <1>4, <1>5 DEF AppInv

\* An entry that some core has got is in the first word of core c's share only
\* when it is one of c's.
LEMMA IndexOf ==
  ASSUME EntryInv, NEW c \in Cores, NEW d \in Cores, NEW e \in got[d],
         e - FirstEntry(c) >= 0
  PROVE  e - FirstEntry(c) \in {0, 4} \/ ~(e - FirstEntry(c) < 64)
<1>1. e \in {FirstEntry(d), FirstEntry(d) + 4}
  BY DEF EntryInv
<1>2. FirstEntry(c) \in Int /\ FirstEntry(d) \in Int
  BY SharesApart
<1>3. CASE c = d
  BY <1>1, <1>2, <1>3
<1>4. CASE c < d
  BY <1>1, <1>2, <1>4, SharesApart
<1>5. CASE d < c
  BY <1>1, <1>2, <1>5, SharesApart
<1> QED
  BY <1>3, <1>4, <1>5, CoresNumbered

\* Who serves a call of the allocator, and with what bits.
LEMMA ServedBy ==
  ASSUME AppInv, NEW c \in Cores, DirectReturn(c, 1) \/ Return(c, 1), next' = next
  PROVE  /\ TypeOK' /\ Parts' /\ NextInv' /\ CallsAllocator' /\ UNCHANGED <<ref, built>>
         /\ rep[c][1] = ref[c][AllocEbb] /\ rep[c][1] \in Cores
         /\ bv[rep[c][1]] \in {{}, {2}, Reserved}
         /\ rep[c][1] = 0 => bv[rep[c][1]] = Reserved
<1>0. 1 \in Levels /\ AllocEbb \in Ebbs
  BY DepthAssumption, AppEbbsAssumption DEF Levels
<1>1. pc[c][1] \in {"direct", "body"} /\ UNCHANGED <<ref, built>> /\ Step(c, 1)
  BY DEF DirectReturn, Return, At, Step
<1>2. TypeOK' /\ Parts' /\ NextInv' /\ CallsAllocator'
  BY <1>0, <1>1, StepKeeps DEF AppInv
<1>3. rep[c][1] = ref[c][AllocEbb] /\ rep[c][1] \in Cores
      /\ built[rep[c][1]][AllocEbb] = 1
  <2>1. on[c][1] = AllocEbb /\ RepOf(c, 1) /\ EntryOf(c, 1)
    BY <1>0, <1>1 DEF AppInv, CallsAllocator, Parts, BuiltInv, BuiltKept, EntryFollowsDispatch
  <2>2. rep[c][1] = ref[c][AllocEbb] /\ ref[c][AllocEbb] # None
    BY <1>1, <2>1 DEF RepOf, EntryOf, Bound
  <2> QED
    BY <1>0, <2>2 DEF AppInv, Parts, BuiltInv, BoundIsBuilt, TypeOK
<1>4. bv[rep[c][1]] \in {{}, {2}, Reserved} /\ (rep[c][1] = 0 => bv[rep[c][1]] = Reserved)
  BY <1>3 DEF AppInv, BitsInv
<1> QED
  BY <1>1, <1>2, <1>3, <1>4

\* alloc gives out what a core can get.
LEMMA ServeAllocKeeps ==
  ASSUME AppInv, NEW c \in Cores, ServeAlloc(c)
  PROVE  AppInv'
<1> DEFINE own == rep[c][1]
           e == alloc(c, bv[own])
<1>1. /\ DirectReturn(c, 1) \/ Return(c, 1)
      /\ got' = [got EXCEPT ![c] = @ \cup {e}]
      /\ UNCHANGED <<le, ge, words, copied, next, bv, asked>>
  BY DEF ServeAlloc
<1>2. /\ TypeOK' /\ Parts' /\ NextInv' /\ CallsAllocator' /\ UNCHANGED <<ref, built>>
      /\ own = ref[c][AllocEbb] /\ own \in Cores
      /\ bv[own] \in {{}, {2}, Reserved} /\ (own = 0 => bv[own] = Reserved)
  BY <1>1, ServedBy
<1>3. RootInv' /\ BitsInv'
  BY <1>1, <1>2 DEF AppInv, RootInv, BitsInv
<1>4. e = FirstEntry(c) + (IF bv[own] = Reserved THEN 4 ELSE 0)
  BY <1>2, FirstClear DEF alloc
<1> HIDE DEF own, e
<1>5. /\ got' = [d \in Cores |-> got'[d]] /\ asked' = [d \in Cores |-> asked'[d]]
      /\ \A d \in Cores : got[d] \subseteq got'[d]
      /\ got'[c] = got[c] \cup {e} /\ \A d \in Cores : d # c => got'[d] = got[d]
  BY <1>1 DEF AppInv, EntryInv
<1>6. \A d \in Cores : got'[d] \subseteq {FirstEntry(d), FirstEntry(d) + 4}
  BY <1>4, <1>5, SharesApart DEF AppInv, EntryInv
<1>7. \A d \in Cores : asked'[d] # None => \E b \in Cores : asked'[d] \in got'[b]
  BY <1>1, <1>5 DEF AppInv, EntryInv
<1>8. 0 \in got'[0] => ref'[0][AllocEbb] \notin {None, 0}
  <2>1. CASE 0 \in got[0]
    BY <1>2, <2>1 DEF AppInv, EntryInv
  <2>2. CASE c = 0 /\ e = 0
    BY <1>2, <1>4, <2>2, SharesApart, NoneAssumption
  <2> QED
    BY <1>5, <2>1, <2>2, CoresNumbered
<1>9. EntryInv'
  BY <1>5, <1>6, <1>7, <1>8 DEF EntryInv, FirstEntry, Share
<1> QED
  BY <1>2, <1>3, <1>9 DEF AppInv

\* free keeps the bits what they can be.
LEMMA ServeFreeKeeps ==
  ASSUME AppInv, NEW c \in Cores, ServeFree(c)
  PROVE  AppInv'
<1> DEFINE own == rep[c][1]
           index == asked[c] - FirstEntry(c)
<1>1. /\ DirectReturn(c, 1) /\ asked[c] # None /\ index >= 0
      /\ bv' = IF index < 64 THEN [bv EXCEPT ![own] = free(index, @)] ELSE bv
      /\ asked' = [asked EXCEPT ![c] = None]
      /\ UNCHANGED <<le, ge, words, copied, next, got>>
  BY DEF ServeFree
<1>2. /\ TypeOK' /\ Parts' /\ NextInv' /\ CallsAllocator' /\ UNCHANGED <<ref, built>>
      /\ own \in Cores
      /\ bv[own] \in {{}, {2}, Reserved} /\ (own = 0 => bv[own] = Reserved)
  BY <1>1, ServedBy
<1>3. RootInv'
  BY <1>1 DEF AppInv, RootInv
<1>4. index \in {0, 4} \/ ~(index < 64)
  BY <1>1, IndexOf DEF AppInv, EntryInv
<1> HIDE DEF own, index
<1>5. EntryInv'
  <2>1. asked' = [d \in Cores |-> asked'[d]]
        /\ \A d \in Cores : asked'[d] # None => \E b \in Cores : asked'[d] \in got[b]
    BY <1>1 DEF AppInv, EntryInv
  <2> QED
    BY <1>1, <1>2, <2>1, EntryRefKept DEF AppInv
<1>6. BitsInv'
  <2>1. CASE index \in {0, 4}  \* the first word
    <3>1. bv' = [bv EXCEPT ![own] = free(index, bv[own])]
      BY <1>1, <2>1
    <3>2. /\ free(index, bv[own]) \in {{}, {2}, Reserved}
          /\ bv[own] = Reserved => free(index, bv[own]) = Reserved
      BY <1>2, <2>1, FreeKeepsBits
    <3>3. bv' \in [Cores -> {{}, {2}, Reserved}]
      BY <1>2, <3>1, <3>2 DEF AppInv, BitsInv
    <3>4. built[0][AllocEbb] = 1 => bv'[0] = Reserved
      BY <1>2, <3>1, <3>2, CoresNumbered DEF AppInv, BitsInv
    <3> QED
      BY <1>2, <3>3, <3>4 DEF BitsInv
  <2>2. CASE ~(index < 64)
    <3>1. bv' = bv
      BY <1>1, <2>2
    <3> QED
      BY <1>2, <3>1 DEF AppInv, BitsInv
  <2> QED
    BY <1>4, <2>1, <2>2
<1> QED
  BY <1>2, <1>3, <1>5, <1>6 DEF AppInv

\* A call of the allocator by start or by the client.
LEMMA CallKeeps ==
  ASSUME AppInv, NEW c \in Cores, NEW e, CallAllocator(c, e),
         e = None \/ \E d \in Cores : e \in got[d]
  PROVE  AppInv'
<1>0. 1 \in Levels /\ AllocEbb \in Ebbs /\ "free" \in Labels /\ Levels \subseteq Int
  BY DepthAssumption, AppEbbsAssumption DEF Levels, Labels
<1>1. /\ UNCHANGED <<le, ge, words, copied, next, bv, got>> /\ UNCHANGED <<ref, built>>
      /\ asked' = [asked EXCEPT ![c] = e] /\ AppCall(c, AllocEbb)
  BY DEF CallAllocator, AppCall
<1>2. TypeOK' /\ Parts'
  BY <1>0, <1>1, AppCallTypes, AppCallAction DEF AppInv
<1>3. Pushed(c, 1, AllocEbb, "free")
  BY <1>0, <1>1, CallPushes DEF AppInv, AppCall
<1>4. next[c] = None
  BY <1>3 DEF AppInv, NextInv, InsertionOf, Pushed, Levels
<1>5. NextInv'
  BY <1>1, <1>3, <1>4, NextKept DEF AppInv, Pushed
<1>6. CallsAllocator'
  BY <1>0, <1>3 DEF AppInv, CallsAllocator, Pushed
<1>7. RootInv' /\ BitsInv'
  BY <1>1 DEF AppInv, RootInv, BitsInv
<1>8. EntryInv'
  <2>1. asked' = [d \in Cores |-> asked'[d]]
        /\ \A d \in Cores : asked'[d] # None => \E b \in Cores : asked'[d] \in got[b]
    BY <1>1 DEF AppInv, EntryInv
  <2> QED
    BY <1>1, <2>1, EntryRefKept DEF AppInv
<1> QED
  BY <1>2, <1>5, <1>6, <1>7, <1>8 DEF AppInv

\* What a core does by itself keeps AppInv.
LEMMA CoreKeeps ==
  ASSUME AppInv, NEW c \in Cores, Core(c)
  PROVE  AppInv'
<1>1. CASE Constructor(c)
  <2>1. /\ lock' \in [Ebbs -> BOOLEAN]
        /\ UNCHANGED <<list, ref, mgrRef, altstack, built, sp, pc, on, rep, viaRoot>>
        /\ UNCHANGED <<next, bv, asked, got>>
    BY <1>1, ConstructorControl DEF AppInv
  <2>2. RootInv'
    BY <1>1, ConstructorTables DEF AppInv
  <2> QED
    BY <2>1, <2>2, StackAside
<1>2. CASE CallAlloc(c)
  BY <1>2, CallKeeps DEF CallAlloc
<1>3. CASE ServeAlloc(c) \/ ServeFree(c)
  BY <1>3, ServeAllocKeeps, ServeFreeKeeps
<1>4. ASSUME NEW k \in Levels, AppStep(c, k)
      PROVE  AppInv'
  <2>1. CASE Dispatch(c, k) \/ PrecallFound(c, k)
    BY <2>1, DispatchIsStep, DispatchKeeps
  <2>2. CASE PrecallWild(c, k) \/ Clobber(c, k)
    <3>1. UNCHANGED <<vars, le, ge, words, copied, next, bv, asked, got>>
      BY <2>2 DEF PrecallWild, Clobber
    <3>2. lock' \in [Ebbs -> BOOLEAN] /\ RootInv'
      BY <3>1 DEF AppInv, TypeOK, RootInv, vars
    <3> QED
      BY <3>1, <3>2, StackAside DEF vars
  <2>3. CASE ConstructRep(c, k)
    BY <2>3, ConstructRepKeeps
  <2>4. CASE InsertRead(c, k) \/ InsertWrite(c, k)
    BY <2>4, InsertReads, InsertWrites
  <2> QED
    BY <1>4, <2>1, <2>2, <2>3, <2>4 DEF AppStep
<1> QED
  BY <1>1, <1>2, <1>3, <1>4 DEF Core

\* AppInv is inductive.
LEMMA AppStepInv == AppInv /\ [AppNext]_allVars => AppInv'
<1> SUFFICES ASSUME AppInv, [AppNext]_allVars PROVE AppInv'
  OBVIOUS
<1>1. ASSUME UNCHANGED <<vars, le, ge, words, copied, next, bv, asked, got>>
      PROVE  AppInv'
  <2>1. lock' \in [Ebbs -> BOOLEAN] /\ RootInv'
    BY <1>1 DEF AppInv, TypeOK, RootInv, vars
  <2> QED
    BY <1>1, <2>1, StackAside DEF vars
<1>2. CASE UNCHANGED allVars
  BY <1>1, <1>2 DEF allVars, appVars
<1>3. ASSUME NEW c \in Cores, Core(c)
      PROVE  AppInv'
  BY <1>3, CoreKeeps
<1>4. ASSUME NEW c \in Cores, Start(c)
      PROVE  AppInv'
  BY <1>1, <1>4 DEF Start
<1>5. ASSUME NEW c \in Cores, ClientAlloc(c) \/ CallFree(c)
      PROVE  AppInv'
  BY <1>5, CallKeeps DEF ClientAlloc, CallFree
<1> QED
  BY <1>2, <1>3, <1>4, <1>5 DEF AppNext

\* AppInv holds when the cores enter app::start.
LEMMA AppInitInv == AppInit => AppInv
<1> SUFFICES ASSUME AppInit PROVE AppInv
  OBVIOUS
<1>1. TypeOK /\ Parts
  BY InitIInv, IInvIsParts DEF AppInit
<1>2. NextInv
  BY DEF AppInit, NextInv, InsertionOf
<1>3. CallsAllocator
  BY DepthAssumption DEF AppInit, Init, CallsAllocator, Levels
<1>4. RootInv
  <2>1. /\ le = [e \in Ebbs |-> None] /\ copied = [c \in Cores |-> None]
        /\ ge = [n \in Reserved |-> None] /\ words = [w \in {UsedWord} |-> "globalMem"]
    BY DEF AppInit
  <2>2. \A e \in Ebbs : ge[ManagerEntry(e)] = None
    BY <2>1 DEF ManagerEntry, Reserved
  <2> QED
    BY <2>1, <2>2, NoEntryAssumption DEF RootInv
<1>5. BitsInv
  BY CoresNumbered, AppEbbsAssumption DEF AppInit, Init, BitsInv
<1>6. EntryInv
  BY CoresNumbered, NoEntryAssumption DEF AppInit, EntryInv
<1> QED
  BY <1>1, <1>2, <1>3, <1>4, <1>5, <1>6 DEF AppInv

\* AppInv holds in every reachable state, for any number of cores.
THEOREM AppInvariance == AppSpec => []AppInv
<1>1. AppInit => AppInv
  BY AppInitInv
<1>2. AppInv /\ [AppNext]_allVars => AppInv'
  BY AppStepInv
<1> QED
  BY <1>1, <1>2, PTL DEF AppSpec

\* The rootManager's table, used backwards from its start, keeps what the
\* constructors put into it and spares the word of the page directory in use.
THEOREM RootTableKept == AppSpec => []RootTableSound
<1>1. AppInv => RootTableSound
  BY DEF AppInv, RootInv, RootTableSound, Rooted
<1> QED
  BY <1>1, AppInvariance, PTL

\* What alloc gives out on different cores never coincides, however often it is
\* called, on however many cores, and whoever frees whose entries; and only
\* location 0 can be given an entry that the constructors use, when it has been
\* led to another core's allocator.
THEOREM EntriesDiffer == AppSpec => []EntriesApart
<1>1. AppInv => EntriesApart
  <2> SUFFICES ASSUME AppInv, NEW c \in Cores, NEW d \in Cores
               PROVE  /\ c # d => got[c] \cap got[d] = {}
                      /\ got[c] \cap Reserved # {} => c = 0 /\ ref[c][AllocEbb] # c
    BY DEF EntriesApart
  <2>1. /\ got[c] \subseteq {FirstEntry(c), FirstEntry(c) + 4}
        /\ got[d] \subseteq {FirstEntry(d), FirstEntry(d) + 4}
    BY DEF AppInv, EntryInv
  <2>2. ASSUME c # d
        PROVE  /\ FirstEntry(c) \notin {FirstEntry(d), FirstEntry(d) + 4}
               /\ FirstEntry(c) + 4 \notin {FirstEntry(d), FirstEntry(d) + 4}
    <3>1. FirstEntry(c) + 64 <= FirstEntry(d) \/ FirstEntry(d) + 64 <= FirstEntry(c)
      BY <2>2, CoresNumbered, SharesApart
    <3> QED
      BY <3>1, SharesApart
  <2>3. c # d => got[c] \cap got[d] = {}
    BY <2>1, <2>2
  <2>4. ASSUME NEW e \in got[c] \cap Reserved
        PROVE  c = 0 /\ ref[c][AllocEbb] # c
    <3>1. PICK x \in {0, 4} : e = FirstEntry(c) + x
      BY <2>1, SharesApart
    <3>2. c = 0 /\ x = 0
      BY <2>4, <3>1, ReservedAtZero
    <3> QED
      BY <2>4, <3>1, <3>2, SharesApart DEF AppInv, EntryInv
  <2> QED
    BY <2>3, <2>4
<1> QED
  BY <1>1, AppInvariance, PTL

\* Nobody constructs a second representative, although the locks of the managers
\* exclude nobody while the constructors run.
THEOREM StartBuildsOnce == AppSpec => []BuiltOnce
<1>1. AppInv => BuiltOnce
  BY DEF AppInv, Parts, BuiltInv, BuiltKept, BuiltOf, BuiltOnce
<1> QED
  BY <1>1, AppInvariance, PTL

-----------------------------------------------------------------------------
\* Steps that leave the calls and the entries alone are stutters of EbbCache.
LEMMA AsideRefines ==
  ASSUME UNCHANGED <<ref, sp, pc, on, rep>>
  PROVE  UNCHANGED Cache!vars
  BY DEF Cache!vars, servings, Serving

\* The second half of an insertion is one, too.
LEMMA InsertWriteRefines ==
  ASSUME AppInv, NEW c \in Cores, NEW k \in Levels, InsertWrite(c, k)
  PROVE  UNCHANGED Cache!vars
<1>1. "insert" \in Labels \ {"direct", "body"} /\ "unlock" \in Labels \ {"direct", "body"}
      /\ "insert" \in Labels /\ "unlock" \in Labels
  BY DEF Labels
<1>2. /\ At(c, k, "insert") /\ Goto(c, k, "unlock") /\ UNCHANGED <<sp, on, ref, rep>>
  BY DEF InsertWrite
<1>3. Moved(c, k, "insert", "unlock")
  BY <1>1, <1>2, GotoMoves DEF AppInv
<1>4. servings' = servings
  BY <1>1, <1>2, <1>3, StaysQuiet DEF AppInv
<1> QED
  BY <1>2, <1>4 DEF Cache!vars

\* A step of a core implements a step of EbbCache or none.
LEMMA CoreRefines ==
  ASSUME AppInv, NEW c \in Cores, Core(c)
  PROVE  Cache!Next \/ UNCHANGED Cache!vars
<1>0. TypeOK /\ Parts /\ 1 \in Levels /\ AllocEbb \in Ebbs
  BY DepthAssumption, AppEbbsAssumption DEF AppInv, Levels
<1>1. CASE Constructor(c)
  BY <1>0, <1>1, ConstructorControl, AsideRefines
<1>2. CASE CallAlloc(c)
  BY <1>0, <1>2, AppCallRefines DEF CallAlloc, CallAllocator
<1>3. CASE ServeAlloc(c) \/ ServeFree(c)
  BY <1>0, <1>3, PopRefines DEF ServeAlloc, ServeFree
<1>4. ASSUME NEW k \in Levels, AppStep(c, k)
      PROVE  Cache!Next \/ UNCHANGED Cache!vars
  <2>1. CASE PrecallFound(c, k)
    BY <1>0, <2>1, QuietRefines DEF PrecallFound
  <2>2. CASE PrecallWild(c, k) \/ InsertRead(c, k) \/ Clobber(c, k)
    BY <2>2, AsideRefines DEF PrecallWild, InsertRead, Clobber, vars
  <2>3. CASE ConstructRep(c, k)
    BY <1>0, <2>3, CallActionsRefine DEF ConstructRep
  <2>4. CASE InsertWrite(c, k)
    BY <2>4, InsertWriteRefines
  <2>5. CASE Dispatch(c, k)
    <3>1. CASE Lock(c, k) \/ SearchFails(c, k) \/ NewMemRep(c, k) \/ Unlock(c, k)
               \/ PreCallReturn(c, k)
      BY <1>0, <3>1, QuietRefines
    <3>2. CASE SearchFinds(c, k) \/ BindRef(c, k)
      BY <1>0, <3>2, BindRefines
    <3>3. CASE NewRep(c, k) \/ NewNode(c, k)
      BY <1>0, <3>3, CallActionsRefine
    <3>4. CASE CallFunction(c, k)
      BY <1>0, <3>4, CallFunctionRefines
    <3>5. CASE DirectReturn(c, k) \/ Return(c, k)
      BY <1>0, <3>5, PopRefines
    <3> QED
      BY <2>5, <3>1, <3>2, <3>3, <3>4, <3>5 DEF Dispatch
  <2> QED
    BY <1>4, <2>1, <2>2, <2>3, <2>4, <2>5 DEF AppStep
<1> QED
  BY <1>1, <1>2, <1>3, <1>4 DEF Core

\* Every step implements a step of EbbCache or none.
LEMMA AppStepRefines == AppInv /\ [AppNext]_allVars => [Cache!Next]_(Cache!vars)
<1> SUFFICES ASSUME AppInv, [AppNext]_allVars PROVE Cache!Next \/ UNCHANGED Cache!vars
  OBVIOUS
<1>1. CASE UNCHANGED allVars
  BY <1>1, AsideRefines DEF allVars, vars
<1>2. ASSUME NEW c \in Cores, Core(c)
      PROVE  Cache!Next \/ UNCHANGED Cache!vars
  BY <1>2, CoreRefines
<1>3. ASSUME NEW c \in Cores, Start(c)
      PROVE  UNCHANGED Cache!vars
  BY <1>3, AsideRefines DEF Start, vars
<1>4. ASSUME NEW c \in Cores, ClientAlloc(c) \/ CallFree(c)
      PROVE  Cache!Next \/ UNCHANGED Cache!vars
  BY <1>4, AppCallRefines, AppEbbsAssumption DEF ClientAlloc, CallFree, CallAllocator, AppInv
<1> QED
  BY <1>1, <1>2, <1>3, <1>4 DEF AppNext

\* The application's Ebb calls implement EbbCache while the constructors run on
\* other cores: mutual exclusion of the managers is not what they depend on.
THEOREM AppRefinement == AppSpec => AppCacheSpec
<1>1. AppInit => Cache!Init
  BY InitRefines DEF AppInit
<1>2. AppInv /\ [AppNext]_allVars => [Cache!Next]_(Cache!vars)
  BY AppStepRefines
<1> QED
  BY <1>1, <1>2, AppInvariance, PTL DEF AppSpec, AppCacheSpec, Cache!Spec
=============================================================================
