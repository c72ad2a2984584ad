----------------------------- MODULE BootProofs -----------------------------
(***************************************************************************)
(* What the boot sequence guarantees, whatever the firmware and however    *)
(* many cores: the walks over the MADT are exact; smpLock lets one core at *)
(* a time onto the boot stack and each takes a location of its own; the    *)
(* interrupt controllers are silent; the page tables keep what is shared   *)
(* and separate what is local; and a core enters app::start with all of it *)
(* done.                                                                   *)
(*                                                                         *)
(* First the walks, as long as the entries of the MADT lie one behind the  *)
(* other.  A recursive function is some solution of its equation.  For     *)
(* each walk the proof names a function, shows that it solves the equation,*)
(* and that nothing else does: of the places where another solution would  *)
(* differ, take the one that is nearest to the end of the walk.            *)
(*                                                                         *)
(* Then four inductive invariants, each with one lemma per group of steps: *)
(* SmpInv (the hand-off), IrqInv (the controllers), TransInv (the tables)  *)
(* and ReadyInv (what a core has behind it).                               *)
(***************************************************************************)
EXTENDS Boot, FiniteSetTheorems, WellFoundedInduction, TLAPS

\* Every non-empty set of naturals has a least element.
LEMMA LeastNatural ==
  ASSUME NEW S, S \subseteq Nat, S # {}
  PROVE  \E n \in S : \A m \in S : n <= m
<1> DEFINE Less == {p \in Nat \X Nat : p[1] < p[2]}
<1>1. IsWellFoundedOn(Less, Nat)
  BY NatLessThanWellFounded DEF OpToRel
<1>2. \E n \in S : \A m \in S : <<m, n>> \notin Less
  <2> HIDE DEF Less
  <2> QED
    BY <1>1, WFMin
<1>3. PICK n \in S : \A m \in S : <<m, n>> \notin Less
  BY <1>2
<1>4. ASSUME NEW m \in S, m < n PROVE <<m, n>> \in Less
  <2>1. <<m, n>> \in Nat \X Nat /\ <<m, n>>[1] < <<m, n>>[2]
    BY <1>4
  <2> QED
    BY <2>1
<1>5. ASSUME NEW m \in S PROVE n <= m
  <2>1. ~(m < n)
    BY <1>3, <1>4
  <2> QED
    BY <2>1
<1> QED
  BY <1>5

-----------------------------------------------------------------------------
\* The entries of a type that a walk from offset x passes before offset o, and
\* the one it finds when n of them are to be skipped.
Skipped(madt, type, x, o) == {q \in EntriesOf(madt, type) : x <= q /\ q < o}

Nth(madt, type, x, n) ==
  {o \in EntriesOf(madt, type) : x <= o /\ Cardinality(Skipped(madt, type, x, o)) = n}

\* What the walk finds.
Found(madt, type, x, n) ==
  IF Nth(madt, type, x, n) = {} THEN Null
  ELSE madt.data[CHOOSE o \in Nth(madt, type, x, n) : TRUE]

\* The equation of the walk.
MadtStep(madt, type, from, p) ==
  LET h == madt.data[p[1]]
  IN  IF p[1] >= madt.size THEN Null
      ELSE IF h.type = type /\ p[2] = 0 THEN h
      ELSE from[<<p[1] + h.len, IF h.type = type THEN p[2] - 1 ELSE p[2]>>]

MadtWalk(madt, type, from) ==
  [p \in Offsets(madt) \X Nat |-> MadtStep(madt, type, from, p)]

MadtWalked(madt, type) == [p \in Offsets(madt) \X Nat |-> Found(madt, type, p[1], p[2])]

LEMMA FindIsWalk ==
  ASSUME NEW madt, NEW type, NEW index
  PROVE  find(madt, type, index) =
           (CHOOSE from : from = MadtWalk(madt, type, from))[<<0, index>>]
<1> QED
  BY Zenon DEF find, MadtWalk, MadtStep

\* Offsets are naturals, and those of entries are below the size.
LEMMA OffsetsType ==
  ASSUME NEW madt, WellFormed(madt)
  PROVE  /\ madt.size \in Nat
         /\ Offsets(madt) \subseteq Nat
         /\ \A x \in Offsets(madt) : x < madt.size <=> x \in DOMAIN madt.data
<1> QED
  BY DEF WellFormed, Offsets

\* The step of the walk: what it goes on to is the next entry.
LEMMA NextEntry ==
  ASSUME NEW madt, WellFormed(madt), NEW o \in DOMAIN madt.data
  PROVE  /\ o + madt.data[o].len \in Offsets(madt)
         /\ o + madt.data[o].len > o
         /\ madt.data[o] # Null
         /\ \A q \in DOMAIN madt.data : q <= o \/ o + madt.data[o].len <= q
<1> QED
  BY DEF WellFormed

LEMMA SkippedFinite ==
  ASSUME NEW madt, WellFormed(madt), NEW type
  PROVE  /\ IsFiniteSet(EntriesOf(madt, type))
         /\ EntriesOf(madt, type) \subseteq Nat
         /\ \A x, o : /\ IsFiniteSet(Skipped(madt, type, x, o))
                      /\ Cardinality(Skipped(madt, type, x, o)) \in Nat
<1>1. IsFiniteSet(0 .. madt.size - 1) /\ EntriesOf(madt, type) \subseteq 0 .. madt.size - 1
  BY FS_Interval DEF WellFormed, EntriesOf
<1>2. IsFiniteSet(EntriesOf(madt, type))
  BY <1>1, FS_Subset
<1>3. ASSUME NEW x, NEW o PROVE IsFiniteSet(Skipped(madt, type, x, o))
  BY <1>2, FS_Subset DEF Skipped
<1> QED
  BY <1>1, <1>2, <1>3, FS_CardinalityType

\* An entry of the type is found at once, or is one to be skipped.
LEMMA AtEntry ==
  ASSUME NEW madt, WellFormed(madt), NEW type, NEW o \in EntriesOf(madt, type), NEW n \in Nat
  PROVE  /\ Nth(madt, type, o, 0) = {o}
         /\ n # 0 => Nth(madt, type, o, n) = Nth(madt, type, o + madt.data[o].len, n - 1)
<1> DEFINE next == o + madt.data[o].len
           E == EntriesOf(madt, type)
<1>1. o \in DOMAIN madt.data /\ E \subseteq DOMAIN madt.data /\ E \subseteq Nat /\ o \in Nat
  BY SkippedFinite DEF EntriesOf
<1>2. next \in Nat /\ next > o /\ \A q \in E : q <= o \/ next <= q
  BY <1>1, NextEntry, OffsetsType
<1>3. ASSUME NEW q \in E, next <= q
      PROVE  Cardinality(Skipped(madt, type, o, q)) = Cardinality(Skipped(madt, type, next, q)) + 1
  <2>1. Skipped(madt, type, o, q) = Skipped(madt, type, next, q) \cup {o}
    BY <1>1, <1>2, <1>3 DEF Skipped
  <2>2. o \notin Skipped(madt, type, next, q)
    BY <1>1, <1>2 DEF Skipped
  <2>3. IsFiniteSet(Skipped(madt, type, next, q))
    BY SkippedFinite
  <2> HIDE DEF next
  <2> QED
    BY <2>1, <2>2, <2>3, FS_AddElement
<1>4. Cardinality(Skipped(madt, type, o, o)) = 0
  <2>1. Skipped(madt, type, o, o) = {}
    BY <1>1 DEF Skipped
  <2> QED
    BY <2>1, FS_EmptySet
<1>5. \A q \in E : o <= q => q = o \/ next <= q
  BY <1>1, <1>2
<1>6. \A q : Cardinality(Skipped(madt, type, next, q)) \in Nat
  BY SkippedFinite
<1>7. Nth(madt, type, o, 0) = {o}
  BY <1>1, <1>3, <1>4, <1>5, <1>6 DEF Nth
<1>8. ASSUME n # 0 PROVE Nth(madt, type, o, n) = Nth(madt, type, next, n - 1)
  BY <1>1, <1>2, <1>3, <1>4, <1>5, <1>6, <1>8 DEF Nth
<1> QED
  BY <1>7, <1>8

\* An entry of another type is passed over.
LEMMA AtOther ==
  ASSUME NEW madt, WellFormed(madt), NEW type, NEW n \in Nat,
         NEW o \in DOMAIN madt.data, o \notin EntriesOf(madt, type)
  PROVE  Nth(madt, type, o, n) = Nth(madt, type, o + madt.data[o].len, n)
<1> DEFINE next == o + madt.data[o].len
           E == EntriesOf(madt, type)
<1>1. E \subseteq DOMAIN madt.data /\ E \subseteq Nat /\ o \in Nat
  BY SkippedFinite, OffsetsType DEF EntriesOf, WellFormed
<1>2. next \in Nat /\ next > o /\ \A q \in E : q <= o \/ next <= q
  BY <1>1, NextEntry, OffsetsType
<1>3. \A q \in E : o <= q <=> next <= q
  BY <1>1, <1>2
<1>4. ASSUME NEW q PROVE Skipped(madt, type, o, q) = Skipped(madt, type, next, q)
  BY <1>3 DEF Skipped
<1> QED
  BY <1>3, <1>4 DEF Nth

\* Beyond the end there is nothing.
LEMMA AtEnd ==
  ASSUME NEW madt, WellFormed(madt), NEW type, NEW x \in Nat, x >= madt.size, NEW n
  PROVE  Nth(madt, type, x, n) = {}
<1> QED
  BY OffsetsType DEF Nth, EntriesOf, WellFormed

\* Found solves the equation of the walk ...
LEMMA WalkedSolves ==
  ASSUME NEW madt, WellFormed(madt), NEW type
  PROVE  MadtWalked(madt, type) = MadtWalk(madt, type, MadtWalked(madt, type))
<1> DEFINE W == MadtWalked(madt, type)
<1> SUFFICES ASSUME NEW p \in Offsets(madt) \X Nat
             PROVE  Found(madt, type, p[1], p[2]) = MadtStep(madt, type, W, p)
  BY DEF MadtWalked, MadtWalk
<1> DEFINE h == madt.data[p[1]]
           next == p[1] + h.len
<1>1. p[1] \in Offsets(madt) /\ p[1] \in Nat /\ p[2] \in Nat /\ madt.size \in Nat
  BY OffsetsType
<1>2. CASE p[1] >= madt.size
  <2>1. Nth(madt, type, p[1], p[2]) = {}
    BY <1>1, <1>2, AtEnd
  <2> QED
    BY <1>2, <2>1 DEF Found, MadtStep
<1>3. CASE p[1] < madt.size /\ h.type = type /\ p[2] = 0
  <2>1. p[1] \in EntriesOf(madt, type)
    BY <1>1, <1>3, OffsetsType DEF EntriesOf
  <2>2. Nth(madt, type, p[1], p[2]) = {p[1]}
    BY <1>1, <1>3, <2>1, AtEntry
  <2>3. Found(madt, type, p[1], p[2]) = h
    BY <2>2 DEF Found
  <2> QED
    BY <1>1, <1>3, <2>3 DEF MadtStep
<1>4. CASE p[1] < madt.size /\ h.type = type /\ p[2] # 0
  <2>1. p[1] \in EntriesOf(madt, type) /\ p[1] \in DOMAIN madt.data
    BY <1>1, <1>4, OffsetsType DEF EntriesOf
  <2>2. Nth(madt, type, p[1], p[2]) = Nth(madt, type, next, p[2] - 1)
    BY <1>1, <1>4, <2>1, AtEntry
  <2>3. next \in Offsets(madt) /\ p[2] - 1 \in Nat
    BY <1>1, <1>4, <2>1, NextEntry
  <2>4. W[<<next, p[2] - 1>>] = Found(madt, type, next, p[2] - 1)
    BY <2>3 DEF MadtWalked
  <2>5. MadtStep(madt, type, W, p) = W[<<next, p[2] - 1>>]
    BY <1>1, <1>4 DEF MadtStep
  <2> QED
    BY <2>2, <2>4, <2>5 DEF Found
<1>5. CASE p[1] < madt.size /\ h.type # type
  <2>1. p[1] \notin EntriesOf(madt, type) /\ p[1] \in DOMAIN madt.data
    BY <1>1, <1>5, OffsetsType DEF EntriesOf
  <2>2. Nth(madt, type, p[1], p[2]) = Nth(madt, type, next, p[2])
    BY <1>1, <2>1, AtOther
  <2>3. W[<<next, p[2]>>] = Found(madt, type, next, p[2])
    BY <1>1, <2>1, NextEntry DEF MadtWalked
  <2>4. MadtStep(madt, type, W, p) = W[<<next, p[2]>>]
    BY <1>1, <1>5 DEF MadtStep
  <2> QED
    BY <2>2, <2>3, <2>4 DEF Found
<1> QED
  BY <1>1, <1>2, <1>3, <1>4, <1>5

\* ... and nothing else does.
LEMMA WalkUnique ==
  ASSUME NEW madt, WellFormed(madt), NEW type,
         NEW f, f = MadtWalk(madt, type, f), NEW g, g = MadtWalk(madt, type, g)
  PROVE  f = g
<1> DEFINE Places == Offsets(madt) \X Nat
           Left(p) == IF p[1] >= madt.size THEN 0 ELSE madt.size - p[1]
           Differ == {p \in Places : f[p] # g[p]}
<1>0. /\ madt.size \in Nat
      /\ \A p \in Places : p[1] \in Nat /\ p[2] \in Nat /\ p[1] \in Offsets(madt) /\ Left(p) \in Nat
  BY OffsetsType
<1>1. \A p \in Places : f[p] = MadtStep(madt, type, f, p) /\ g[p] = MadtStep(madt, type, g, p)
  BY DEF MadtWalk
<1>2. SUFFICES ASSUME Differ # {} PROVE FALSE
  BY DEF MadtWalk
<1>3. PICK p \in Differ : \A q \in Differ : Left(p) <= Left(q)
  <2> DEFINE Lefts == {Left(q) : q \in Differ}
  <2>1. Lefts \subseteq Nat /\ Lefts # {}
    BY <1>0, <1>2
  <2>2. PICK n \in Lefts : \A m \in Lefts : n <= m
    <3> HIDE DEF Lefts
    <3> QED
      BY <2>1, LeastNatural
  <2> QED
    BY <2>2
<1> DEFINE h == madt.data[p[1]]
           q == <<p[1] + h.len, IF h.type = type THEN p[2] - 1 ELSE p[2]>>
<1>4. p \in Places /\ f[p] # g[p] /\ p[1] < madt.size /\ ~(h.type = type /\ p[2] = 0)
  <2>1. p \in Places /\ f[p] # g[p]
    BY <1>3
  <2>2. MadtStep(madt, type, f, p) # MadtStep(madt, type, g, p)
    BY <1>1, <2>1
  <2>3. ~(p[1] >= madt.size) /\ ~(h.type = type /\ p[2] = 0)
    BY <2>2 DEF MadtStep
  <2>4. p[1] \in Nat
    BY <1>0, <2>1
  <2> QED
    BY <1>0, <2>1, <2>3, <2>4
<1>5. f[p] = f[q] /\ g[p] = g[q]
  BY <1>0, <1>1, <1>4 DEF MadtStep
<1>6. p[1] \in DOMAIN madt.data
  BY <1>0, <1>4, OffsetsType
<1>7. q \in Places /\ q[1] > p[1]
  BY <1>0, <1>4, <1>6, NextEntry
<1>8. Left(q) < Left(p)
  BY <1>0, <1>4, <1>7
<1>9. q \in Differ
  BY <1>4, <1>5, <1>7
<1> QED
  BY <1>0, <1>3, <1>4, <1>7, <1>8, <1>9

\* Madt::find gives entry number index of the type, or null when there are not
\* so many.
THEOREM FindIsExact ==
  ASSUME NEW madt, WellFormed(madt), NEW type, NEW index \in Nat
  PROVE  find(madt, type, index) = Found(madt, type, 0, index)
<1>1. MadtWalked(madt, type) = CHOOSE from : from = MadtWalk(madt, type, from)
  BY WalkedSolves, WalkUnique
<1>2. <<0, index>> \in Offsets(madt) \X Nat
  BY DEF WellFormed
<1> QED
  BY <1>1, <1>2, FindIsWalk DEF MadtWalked

-----------------------------------------------------------------------------
\* The entries of a type are numbered from zero without gaps.
Number(madt, type, o) == Cardinality(Skipped(madt, type, 0, o))

LEMMA Numbered ==
  ASSUME NEW madt, WellFormed(madt), NEW type
  PROVE  LET E == EntriesOf(madt, type)
         IN  /\ Cardinality(E) \in Nat
             /\ \A o \in E : Number(madt, type, o) \in 0 .. Cardinality(E) - 1
             /\ \A o, q \in E : Number(madt, type, o) = Number(madt, type, q) => o = q
             /\ \A n \in 0 .. Cardinality(E) - 1 : \E o \in E : Number(madt, type, o) = n
<1> DEFINE E == EntriesOf(madt, type)
           N == Cardinality(E)
           number == [o \in E |-> Number(madt, type, o)]
<1>1. IsFiniteSet(E) /\ N \in Nat /\ E \subseteq Nat
  BY SkippedFinite, FS_CardinalityType
<1>2. ASSUME NEW o \in E PROVE Number(madt, type, o) \in 0 .. N - 1
  <2>1. Skipped(madt, type, 0, o) \subseteq E \ {o}
    BY <1>1 DEF Skipped
  <2>2. IsFiniteSet(E \ {o}) /\ Cardinality(E \ {o}) = N - 1
    BY <1>1, FS_RemoveElement
  <2>3. Cardinality(Skipped(madt, type, 0, o)) <= N - 1
    <3> HIDE DEF E, N
    <3> QED
      BY <2>1, <2>2, FS_Subset
  <2> QED
    BY <1>1, <2>3, SkippedFinite DEF Number
<1>3. ASSUME NEW o \in E, NEW q \in E, o < q
      PROVE  Number(madt, type, o) < Number(madt, type, q)
  <2> DEFINE S == Skipped(madt, type, 0, o)
             T == Skipped(madt, type, 0, q)
  <2>1. S \cup {o} \subseteq T /\ o \notin S
    BY <1>1, <1>3 DEF Skipped
  <2>2. IsFiniteSet(S) /\ IsFiniteSet(T) /\ Cardinality(S) \in Nat /\ Cardinality(T) \in Nat
    BY SkippedFinite
  <2>3. Cardinality(S \cup {o}) = Cardinality(S) + 1
    <3> HIDE DEF S
    <3> QED
      BY <2>1, <2>2, FS_AddElement
  <2>4. Cardinality(S \cup {o}) <= Cardinality(T)
    <3> HIDE DEF S, T
    <3> QED
      BY <2>1, <2>2, FS_Subset
  <2> QED
    BY <2>2, <2>3, <2>4 DEF Number
<1>4. ASSUME NEW o \in E, NEW q \in E, Number(madt, type, o) = Number(madt, type, q)
      PROVE  o = q
  <2>1. o \in Nat /\ q \in Nat /\ Number(madt, type, o) \in Nat
    BY <1>1, <1>2
  <2> QED
    BY <1>3, <1>4, <2>1
<1>5. number \in Injection(E, 0 .. N - 1)
  BY <1>2, <1>4 DEF Injection, IsInjective
<1>6. IsFiniteSet(0 .. N - 1) /\ Cardinality(0 .. N - 1) = N
  BY <1>1, FS_Interval
<1>7. number \in Surjection(E, 0 .. N - 1)
  <2> HIDE DEF number, E
  <2> QED
    BY <1>5, <1>6, FS_Injection
<1>8. \A n \in 0 .. N - 1 : \E o \in E : Number(madt, type, o) = n
  BY <1>7 DEF Surjection
<1> QED
  BY <1>1, <1>2, <1>4, <1>8

LEMMA NthByNumber ==
  ASSUME NEW madt, WellFormed(madt), NEW type, NEW n \in Nat
  PROVE  Nth(madt, type, 0, n) = {o \in EntriesOf(madt, type) : Number(madt, type, o) = n}
<1>1. \A o \in EntriesOf(madt, type) : 0 <= o
  BY SkippedFinite
<1> QED
  BY <1>1 DEF Nth, Number

\* What find gives for the number of an entry, and beyond the last.
LEMMA FindByNumber ==
  ASSUME NEW madt, WellFormed(madt), NEW type
  PROVE  /\ \A o \in EntriesOf(madt, type) :
              /\ find(madt, type, Number(madt, type, o)) = madt.data[o]
              /\ madt.data[o] # Null
         /\ \A n \in Nat : n >= Cardinality(EntriesOf(madt, type)) =>
              find(madt, type, n) = Null
<1> DEFINE E == EntriesOf(madt, type)
<1>1. ASSUME NEW o \in E
      PROVE  find(madt, type, Number(madt, type, o)) = madt.data[o] /\ madt.data[o] # Null
  <2>1. Number(madt, type, o) \in Nat
    BY Numbered
  <2>2. Nth(madt, type, 0, Number(madt, type, o)) = {o}
    BY <2>1, Numbered, NthByNumber
  <2>3. o \in DOMAIN madt.data
    BY DEF EntriesOf
  <2> QED
    BY <2>1, <2>2, <2>3, FindIsExact, NextEntry DEF Found
<1>2. ASSUME NEW n \in Nat, n >= Cardinality(E)
      PROVE  find(madt, type, n) = Null
  <2>1. Cardinality(E) \in Nat /\ \A o \in E : Number(madt, type, o) \in 0 .. Cardinality(E) - 1
    BY Numbered
  <2>2. Nth(madt, type, 0, n) = {}
    BY <1>2, <2>1, NthByNumber
  <2> QED
    BY <2>2, FindIsExact DEF Found
<1> QED
  BY <1>1, <1>2

-----------------------------------------------------------------------------
\* Two solutions of a counting loop's equation agree when they do where the loop
\* ends, and at an element whenever they do at the next.
LEMMA CountUnique ==
  ASSUME NEW f, NEW g, NEW last \in Nat,
         \A x \in Nat : x >= last => f[x] = g[x],
         \A x \in Nat : x < last /\ f[x + 1] = g[x + 1] => f[x] = g[x]
  PROVE  \A x \in Nat : f[x] = g[x]
<1> DEFINE Differ == {x \in Nat : f[x] # g[x]}
           Lefts == {m \in Nat : \E x \in Differ : x < last /\ m = last - x}
<1> SUFFICES ASSUME Differ # {} PROVE FALSE
  OBVIOUS
<1>1. Lefts \subseteq Nat /\ Lefts # {}
  <2>1. PICK x \in Differ : TRUE
    OBVIOUS
  <2>2. x \in Nat /\ x < last
    BY <2>1
  <2>3. last - x \in Lefts
    BY <2>1, <2>2
  <2> QED
    BY <2>3
<1>2. PICK n \in Lefts : \A m \in Lefts : n <= m
  <2> HIDE DEF Lefts
  <2> QED
    BY <1>1, LeastNatural
<1>3. PICK x \in Differ : x < last /\ n = last - x
  BY <1>2
<1>4. x + 1 \in Differ
  BY <1>3
<1>5. x + 1 < last /\ last - (x + 1) \in Lefts
  BY <1>3, <1>4
<1> QED
  BY <1>2, <1>3, <1>5

\* What the body of each counting loop adds at element x.
NIoApicsStep(madt, count, x) ==
  IF findIoApic(madt, x) = Null THEN 0 ELSE 1 + count[x + 1]

NCoresStep(madt, count, x) ==
  LET madtLapic == findLapic(madt, x)
  IN  IF madtLapic = Null THEN 0
      ELSE count[x + 1] + IF madtLapic.enabled THEN 1 ELSE 0

\* Acpi::getNIoApics counts the I/O APICs that the MADT lists.
THEOREM IoApicsCounted ==
  ASSUME NEW madt, WellFormed(madt)
  PROVE  getNIoApics(madt) = Cardinality(EntriesOf(madt, IOAPIC_TYPE))
<1> DEFINE E == EntriesOf(madt, IOAPIC_TYPE)
           N == Cardinality(E)
           Count(c) == [x \in Nat |-> NIoApicsStep(madt, c, x)]
           left == [x \in Nat |-> IF x < N THEN N - x ELSE 0]
<1>1. N \in Nat
  BY Numbered
<1>2. ASSUME NEW x \in Nat PROVE findIoApic(madt, x) = Null <=> x >= N
  <2>1. CASE x >= N
    BY <2>1, FindByNumber DEF findIoApic
  <2>2. CASE x < N
    <3>1. PICK o \in E : Number(madt, IOAPIC_TYPE, o) = x
      BY <1>1, <2>2, Numbered
    <3> QED
      BY <1>1, <2>2, <3>1, FindByNumber DEF findIoApic
  <2> QED
    BY <1>1, <2>1, <2>2
<1> HIDE DEF N
<1>3. left = Count(left)
  BY <1>1, <1>2 DEF NIoApicsStep
<1>4. ASSUME NEW c, c = Count(c) PROVE c = left
  <2>1. \A x \in Nat : c[x] = NIoApicsStep(madt, c, x) /\ left[x] = NIoApicsStep(madt, left, x)
    BY <1>3, <1>4
  <2>2. \A x \in Nat : x >= N => c[x] = left[x]
    BY <1>2, <2>1 DEF NIoApicsStep
  <2>3. \A x \in Nat : c[x + 1] = left[x + 1] => c[x] = left[x]
    <3> HIDE DEF left
    <3> QED
      BY <2>1 DEF NIoApicsStep
  <2>4. \A x \in Nat : c[x] = left[x]
    <3> HIDE DEF left
    <3> QED
      BY <1>1, <2>2, <2>3, CountUnique
  <2> QED
    BY <1>4, <2>4
<1>5. left = CHOOSE c : c = Count(c)
  BY <1>3, <1>4
<1>6. getNIoApics(madt) = (CHOOSE c : c = Count(c))[0]
  BY Zenon DEF getNIoApics, NIoApicsStep
<1>7. left[0] = N
  BY <1>1
<1> QED
  BY <1>5, <1>6, <1>7 DEF N

\* Acpi::getNCores counts the enabled local APICs.
THEOREM CoresCounted ==
  ASSUME NEW madt, WellFormed(madt)
  PROVE  getNCores(madt) = Cardinality(EnabledLapics(madt))
<1> DEFINE E == EntriesOf(madt, LAPIC_TYPE)
           N == Cardinality(E)
           Count(c) == [x \in Nat |-> NCoresStep(madt, c, x)]
           From(x) == {o \in EnabledLapics(madt) : Number(madt, LAPIC_TYPE, o) >= x}
           left == [x \in Nat |-> Cardinality(From(x))]
           add == [x \in Nat |-> IF findLapic(madt, x).enabled THEN 1 ELSE 0]
<1>1. /\ N \in Nat
      /\ IsFiniteSet(E) /\ EnabledLapics(madt) \subseteq E
      /\ \A x : IsFiniteSet(From(x)) /\ Cardinality(From(x)) \in Nat
  <2>1. N \in Nat /\ IsFiniteSet(E) /\ EnabledLapics(madt) \subseteq E
    BY Numbered, SkippedFinite DEF EnabledLapics
  <2>2. ASSUME NEW x PROVE IsFiniteSet(From(x))
    BY <2>1, FS_Subset
  <2> QED
    BY <2>1, <2>2, FS_CardinalityType
<1>2. ASSUME NEW x \in Nat, x >= N PROVE findLapic(madt, x) = Null /\ left[x] = 0
  <2>1. From(x) = {}
    BY <1>1, <1>2, Numbered
  <2> QED
    BY <1>2, <2>1, FindByNumber, FS_EmptySet DEF findLapic
<1>3. ASSUME NEW x \in Nat, x < N
      PROVE  findLapic(madt, x) # Null /\ left[x] = left[x + 1] + add[x]
  <2>1. PICK o \in E : Number(madt, LAPIC_TYPE, o) = x
    BY <1>1, <1>3, Numbered
  <2>2. findLapic(madt, x) = madt.data[o] /\ madt.data[o] # Null
    BY <2>1, FindByNumber DEF findLapic
  <2>3. \A q \in E : Number(madt, LAPIC_TYPE, q) \in Nat /\ (Number(madt, LAPIC_TYPE, q) = x => q = o)
    BY <2>1, Numbered
  <2>4. o \notin From(x + 1)
    BY <2>1
  <2>5. CASE madt.data[o].enabled
    <3>1. From(x) = From(x + 1) \cup {o}
      BY <1>1, <2>1, <2>3, <2>5 DEF EnabledLapics
    <3>2. Cardinality(From(x)) = Cardinality(From(x + 1)) + 1
      <4> HIDE DEF From
      <4> QED
        BY <1>1, <2>4, <3>1, FS_AddElement
    <3> QED
      BY <2>2, <2>5, <3>2
  <2>6. CASE ~madt.data[o].enabled
    <3>1. From(x) = From(x + 1)
      BY <1>1, <2>1, <2>3, <2>6 DEF EnabledLapics
    <3>2. add[x] = 0 /\ left[x] = left[x + 1]
      BY <2>2, <2>6, <3>1
    <3>3. left[x + 1] \in Nat
      <4>1. Cardinality(From(x + 1)) \in Nat
        BY <1>1
      <4> HIDE DEF From
      <4> QED
        BY <4>1
    <3> HIDE DEF left, add
    <3> QED
      BY <2>2, <3>2, <3>3
  <2> QED
    BY <2>5, <2>6
<1> HIDE DEF N, From
<1>4. left = Count(left)
  <2>1. ASSUME NEW x \in Nat PROVE left[x] = NCoresStep(madt, left, x)
    <3>1. CASE x >= N
      BY <1>2, <3>1 DEF NCoresStep
    <3>2. CASE x < N
      <4>1. findLapic(madt, x) # Null /\ left[x] = left[x + 1] + add[x]
        BY <1>3, <3>2
      <4> QED
        BY <4>1 DEF NCoresStep
    <3> QED
      BY <1>1, <3>1, <3>2
  <2> QED
    BY <2>1
<1>5. ASSUME NEW c, c = Count(c) PROVE c = left
  <2>1. \A x \in Nat : c[x] = NCoresStep(madt, c, x) /\ left[x] = NCoresStep(madt, left, x)
    BY <1>4, <1>5
  <2>2. \A x \in Nat : x >= N => c[x] = left[x]
    BY <1>2, <2>1 DEF NCoresStep
  <2>3. \A x \in Nat : c[x + 1] = left[x + 1] => c[x] = left[x]
    <3> HIDE DEF left
    <3> QED
      BY <2>1 DEF NCoresStep
  <2>4. \A x \in Nat : c[x] = left[x]
    <3> HIDE DEF left
    <3> QED
      BY <1>1, <2>2, <2>3, CountUnique
  <2> QED
    BY <1>5, <2>4
<1>6. left = CHOOSE c : c = Count(c)
  BY <1>4, <1>5
<1>7. getNCores(madt) = (CHOOSE c : c = Count(c))[0]
  BY Zenon DEF getNCores, NCoresStep
<1>8. From(0) = EnabledLapics(madt)
  BY <1>1, Numbered DEF From
<1> QED
  BY <1>6, <1>7, <1>8

\* Apic::Apic, which asks for the I/O APICs by number, gets all of them.
THEOREM IoApicsListed ==
  ASSUME NEW madt, WellFormed(madt)
  PROVE  /\ getNIoApics(madt) \in Nat
         /\ {findIoApic(madt, k).addr : k \in 0 .. getNIoApics(madt) - 1} = IoApicAddresses(madt)
<1> DEFINE E == EntriesOf(madt, IOAPIC_TYPE)
           n == getNIoApics(madt)
<1>1. n = Cardinality(E) /\ n \in Nat
  BY IoApicsCounted, Numbered
<1>2. ASSUME NEW k \in 0 .. n - 1 PROVE findIoApic(madt, k).addr \in IoApicAddresses(madt)
  <2>1. PICK o \in E : Number(madt, IOAPIC_TYPE, o) = k
    BY <1>1, Numbered
  <2> QED
    BY <2>1, FindByNumber DEF findIoApic, IoApicAddresses
<1>3. ASSUME NEW o \in E PROVE \E k \in 0 .. n - 1 : findIoApic(madt, k).addr = madt.data[o].addr
  <2>1. Number(madt, IOAPIC_TYPE, o) \in 0 .. n - 1
    BY <1>1, Numbered
  <2> QED
    BY <2>1, FindByNumber DEF findIoApic
<1> HIDE DEF n
<1>4. {findIoApic(madt, k).addr : k \in 0 .. n - 1} = IoApicAddresses(madt)
  BY <1>2, <1>3 DEF IoApicAddresses
<1> QED
  BY <1>1, <1>4 DEF n

-----------------------------------------------------------------------------
CpuLabels == {"off", "entry", "lapic", "stacks", "switch", "publish", "trans", "app"}

SmpTypeOK ==
  /\ smpLock \in Int
  /\ cpuPc \in [Cores -> CpuLabels]
  /\ location \in [Cores -> Int]
  /\ rsp \in [Cores -> Int \cup {Shared}]

\* Where the hand-off of core p stands.  A core on its way has found in smpLock
\* the location before its own, and nobody changes smpLock until it publishes.
HandOff(p) ==
  /\ cpuPc[p] \in {"entry", "lapic", "stacks", "switch", "publish"} => smpLock = p - 1
  /\ cpuPc[p] \in {"trans", "app"} => smpLock >= p
  /\ cpuPc[p] \notin {"off", "entry"} =>
       location[p] = p /\ p < Cardinality(EnabledLapics(Acpi(firmware)))
  /\ cpuPc[p] = "entry" => p < Cardinality(EnabledLapics(Acpi(firmware)))
  /\ cpuPc[p] \in {"publish", "trans", "app"} => rsp[p] = p

SmpInv ==
  /\ SmpTypeOK
  /\ firmware \in Firmwares
  /\ bootPc # "mem" => nCores = getNCores(Acpi(firmware))
  /\ bootPc # "done" => \A p \in Cores : cpuPc[p] = "off"
  /\ \A p \in Cores : HandOff(p)

\* The cores are numbered from zero.
LEMMA CoresNumbered ==
  /\ Cores \subseteq Int /\ 0 \in Cores /\ Shared \notin Cores
  /\ \A p \in Cores : p >= 0
<1>1. Cardinality(Cores) - 1 \in Int /\ Cardinality(Cores) - 1 >= 0
  BY CoresAssumption
<1>2. PICK n \in Int : n >= 0 /\ Cores = 0 .. n
  BY <1>1, CoresAssumption
<1> QED
  BY <1>2, SharedAssumption

\* boot::init, before there is a second core.
LEMMA BeforeSmp ==
  ASSUME SmpInv, BootStep
  PROVE  SmpInv'
<1>1. CASE InitMem
  <2>1. /\ UNCHANGED <<firmware, smpLock, cpuPc, location, rsp>> /\ bootPc = "mem" /\ bootPc' = "trans"
        /\ nCores' = getNCores(Acpi(firmware))
    BY <1>1 DEF InitMem, irqVars, cpuVars, bootVars
  <2> QED
    BY <2>1 DEF SmpInv, SmpTypeOK, HandOff
<1>2. CASE InitTrans
  <2>1. /\ UNCHANGED <<firmware, nCores, smpLock, cpuPc, location, rsp>>
        /\ bootPc = "trans" /\ bootPc' \in {"trans", "idt"}
    BY <1>2 DEF InitTrans, irqVars, cpuVars
  <2> QED
    BY <2>1 DEF SmpInv, SmpTypeOK, HandOff
<1>3. CASE FillIdt
  <2>1. /\ UNCHANGED <<firmware, nCores, smpLock, cpuPc, location, rsp>>
        /\ bootPc = "idt" /\ bootPc' = "irq"
    BY <1>3 DEF FillIdt, irqVars, cpuVars
  <2> QED
    BY <2>1 DEF SmpInv, SmpTypeOK, HandOff
<1>4. CASE SilenceIrqs
  <2>1. UNCHANGED <<bootPc, nCores, smpLock, cpuPc, location, rsp>>
    BY <1>4 DEF SilenceIrqs, bootVars, cpuVars
  <2>2. firmware' = firmware
    BY <1>4 DEF SilenceIrqs, EventInitArch, disablePit, disableRtc, ApicConstructor, NextApic,
       ApicsDone, EntriesDone, SelectLow, WriteLow, SelectHigh, WriteHigh, Select, Window, apicVars
  <2> QED
    BY <2>1, <2>2 DEF SmpInv, SmpTypeOK, HandOff
<1>5. CASE AllocAltstack
  <2>1. /\ UNCHANGED <<firmware, nCores, smpLock, cpuPc, location, rsp>>
        /\ bootPc = "irq" /\ bootPc' = "smp"
    BY <1>5 DEF AllocAltstack, irqVars, cpuVars
  <2> QED
    BY <2>1 DEF SmpInv, SmpTypeOK, HandOff
<1>6. CASE InitSmp
  <2>1. /\ UNCHANGED <<firmware, nCores, location, rsp>> /\ smpLock' = -1
        /\ bootPc = "smp" /\ bootPc' = "done"
        /\ cpuPc' = [cpuPc EXCEPT ![0] = "entry"]
    BY <1>6 DEF InitSmp, EnableBootLapic, apicVars
  <2>2. SmpTypeOK'
    BY <2>1, CoresNumbered DEF SmpInv, SmpTypeOK, CpuLabels
  <2>3. ASSUME NEW p \in Cores PROVE HandOff(p)'
    <3>1. cpuPc[p] = "off"
      BY <2>1 DEF SmpInv
    <3>2. CASE p = 0
      <4>1. cpuPc'[p] = "entry" /\ smpLock' = p - 1
        BY <2>1, <3>2, CoresNumbered DEF SmpInv, SmpTypeOK
      <4>2. 0 < Cardinality(EnabledLapics(Acpi(firmware)))
        BY CoresAssumption DEF SmpInv
      <4> QED
        BY <2>1, <3>2, <4>1, <4>2 DEF HandOff
    <3>3. CASE p # 0
      <4>1. cpuPc'[p] = "off"
        BY <2>1, <3>1, <3>3 DEF SmpInv, SmpTypeOK
      <4> QED
        BY <4>1 DEF HandOff
    <3> QED
      BY <3>2, <3>3
  <2> QED
    BY <2>1, <2>2, <2>3 DEF SmpInv
<1> QED
  BY <1>1, <1>2, <1>3, <1>4, <1>5, <1>6 DEF BootStep

\* The hand-off of core p, when core p itself goes from one label to the next
\* and smpLock stays.
LEMMA CpuMoves ==
  ASSUME SmpInv, NEW p \in Cores, NEW from \in CpuLabels \ {"off"}, NEW to \in CpuLabels \ {"off"},
         cpuPc[p] = from, cpuPc' = [cpuPc EXCEPT ![p] = to],
         UNCHANGED <<firmware, bootPc, nCores, smpLock>>,
         location' \in [Cores -> Int], rsp' \in [Cores -> Int \cup {Shared}],
         \A q \in Cores : q # p => location'[q] = location[q] /\ rsp'[q] = rsp[q],
         HandOff(p)'
  PROVE  SmpInv'
<1>1. bootPc = "done" /\ bootPc' = "done"
  BY DEF SmpInv
<1>2. SmpTypeOK'
  BY DEF SmpInv, SmpTypeOK, CpuLabels
<1>3. ASSUME NEW q \in Cores, q # p PROVE HandOff(q)'
  <2>1. cpuPc'[q] = cpuPc[q] /\ HandOff(q) /\ location'[q] = location[q] /\ rsp'[q] = rsp[q]
    BY <1>3 DEF SmpInv, SmpTypeOK
  <2> QED
    BY <2>1 DEF HandOff
<1> QED
  BY <1>1, <1>2, <1>3 DEF SmpInv

\* Another processor is started where smpLock says that the stack is free.
LEMMA Starts ==
  ASSUME SmpInv, NEW p \in Cores, StartProcessor(p)
  PROVE  SmpInv'
<1>1. /\ UNCHANGED <<firmware, bootPc, nCores, smpLock, location, rsp>> /\ bootPc = "done"
      /\ cpuPc' = [cpuPc EXCEPT ![p] = "entry"] /\ smpLock = p - 1
      /\ p < Cardinality(EnabledLapics(Acpi(firmware)))
  BY DEF StartProcessor, irqVars, bootVars
<1>2. SmpTypeOK'
  BY <1>1 DEF SmpInv, SmpTypeOK, CpuLabels
<1>3. ASSUME NEW q \in Cores PROVE HandOff(q)'
  <2>1. CASE q = p
    <3>1. cpuPc'[q] = "entry"
      BY <1>1, <2>1 DEF SmpInv, SmpTypeOK
    <3> QED
      BY <1>1, <2>1, <3>1 DEF HandOff
  <2>2. CASE q # p
    <3>1. cpuPc'[q] = cpuPc[q] /\ HandOff(q)
      BY <1>1, <2>2 DEF SmpInv, SmpTypeOK
    <3> QED
      BY <1>1, <3>1 DEF HandOff
  <2> QED
    BY <2>1, <2>2
<1> QED
  BY <1>1, <1>2, <1>3 DEF SmpInv

\* Publishing hands the boot stack and the next location on: nobody else was
\* on the way.
LEMMA Publishes ==
  ASSUME SmpInv, NEW p \in Cores, Publish(p)
  PROVE  SmpInv'
<1>1. /\ UNCHANGED <<firmware, bootPc, nCores, location, rsp>> /\ cpuPc[p] = "publish"
      /\ smpLock' = location[p] /\ cpuPc' = [cpuPc EXCEPT ![p] = "trans"]
  BY DEF Publish, irqVars
<1>2. HandOff(p) /\ p \in Int /\ bootPc = "done"
  BY <1>1, CoresNumbered DEF SmpInv
<1>3. smpLock = p - 1 /\ location[p] = p /\ rsp[p] = p
      /\ p < Cardinality(EnabledLapics(Acpi(firmware)))
  BY <1>1, <1>2 DEF HandOff
<1>4. SmpTypeOK'
  BY <1>1 DEF SmpInv, SmpTypeOK, CpuLabels
<1>5. ASSUME NEW q \in Cores PROVE HandOff(q)'
  <2>1. CASE q = p
    <3>1. cpuPc'[q] = "trans"
      BY <1>1, <2>1 DEF SmpInv, SmpTypeOK
    <3> QED
      BY <1>1, <1>2, <1>3, <2>1, <3>1 DEF HandOff
  <2>2. CASE q # p
    <3>1. cpuPc'[q] = cpuPc[q] /\ HandOff(q) /\ q \in Int
      BY <1>1, <2>2, CoresNumbered DEF SmpInv, SmpTypeOK
    <3>2. cpuPc[q] \notin {"entry", "lapic", "stacks", "switch", "publish"}
      BY <1>2, <1>3, <2>2, <3>1 DEF HandOff
    <3>3. cpuPc[q] \in {"trans", "app"} => smpLock' >= q
      BY <1>1, <1>2, <1>3, <3>1 DEF HandOff
    <3> QED
      BY <1>1, <3>1, <3>2, <3>3 DEF HandOff
  <2> QED
    BY <2>1, <2>2
<1> QED
  BY <1>1, <1>2, <1>4, <1>5 DEF SmpInv

\* The steps of event::initCpuArch and initCpu.
LEMMA CpuSteps ==
  ASSUME SmpInv, NEW p \in Cores, Cpu(p)
  PROVE  SmpInv'
<1>0. /\ HandOff(p) /\ p \in Int /\ SmpTypeOK
  BY CoresNumbered DEF SmpInv
<1>1. CASE TakeLocation(p)
  <2>1. /\ UNCHANGED <<firmware, bootPc, nCores, smpLock, rsp>> /\ cpuPc[p] = "entry"
        /\ location' = [location EXCEPT ![p] = smpLock + 1]
        /\ cpuPc' = [cpuPc EXCEPT ![p] = "lapic"]
    BY <1>1 DEF TakeLocation, irqVars, bootVars
  <2>2. smpLock = p - 1 /\ location'[p] = p /\ cpuPc'[p] = "lapic"
    BY <1>0, <2>1 DEF HandOff, SmpTypeOK
  <2>3. HandOff(p)'
    BY <1>0, <2>1, <2>2 DEF HandOff
  <2>4. /\ location' \in [Cores -> Int] /\ rsp' \in [Cores -> Int \cup {Shared}]
        /\ \A q \in Cores : q # p => location'[q] = location[q] /\ rsp'[q] = rsp[q]
    BY <1>0, <2>1 DEF SmpTypeOK
  <2> QED
    BY <2>1, <2>3, <2>4, CpuMoves DEF CpuLabels
<1>2. CASE EnableOwnLapic(p)
  <2>1. /\ UNCHANGED <<firmware, bootPc, nCores, smpLock, location, rsp>> /\ cpuPc[p] = "lapic"
        /\ cpuPc' = [cpuPc EXCEPT ![p] = "stacks"]
    BY <1>2 DEF EnableOwnLapic, apicVars, bootVars
  <2>2. HandOff(p)'
    BY <1>0, <2>1 DEF HandOff, SmpTypeOK
  <2> QED
    BY <1>0, <2>1, <2>2, CpuMoves DEF CpuLabels, SmpTypeOK
<1>3. CASE AllocStacks(p)
  <2>1. /\ UNCHANGED <<firmware, bootPc, nCores, smpLock, location, rsp>> /\ cpuPc[p] = "stacks"
        /\ cpuPc' = [cpuPc EXCEPT ![p] = "switch"]
    BY <1>3 DEF AllocStacks, irqVars
  <2>2. HandOff(p)'
    BY <1>0, <2>1 DEF HandOff, SmpTypeOK
  <2> QED
    BY <1>0, <2>1, <2>2, CpuMoves DEF CpuLabels, SmpTypeOK
<1>4. CASE SwitchStack(p)
  <2>1. /\ UNCHANGED <<firmware, bootPc, nCores, smpLock, location>> /\ cpuPc[p] = "switch"
        /\ rsp' = [rsp EXCEPT ![p] = location[p]]
        /\ cpuPc' = [cpuPc EXCEPT ![p] = "publish"]
    BY <1>4 DEF SwitchStack, irqVars, bootVars
  <2>2. location[p] = p /\ rsp'[p] = p /\ cpuPc'[p] = "publish"
    BY <1>0, <2>1 DEF HandOff, SmpTypeOK
  <2>3. HandOff(p)'
    BY <1>0, <2>1, <2>2 DEF HandOff
  <2>4. /\ location' \in [Cores -> Int] /\ rsp' \in [Cores -> Int \cup {Shared}]
        /\ \A q \in Cores : q # p => location'[q] = location[q] /\ rsp'[q] = rsp[q]
    BY <1>0, <2>1 DEF SmpTypeOK
  <2> QED
    BY <2>1, <2>3, <2>4, CpuMoves DEF CpuLabels
<1>5. CASE InitCpuTrans(p)
  <2>1. PICK to \in {"trans", "app"} : cpuPc' = [cpuPc EXCEPT ![p] = to]
    BY <1>0, <1>5 DEF InitCpuTrans, SmpTypeOK
  <2>2. UNCHANGED <<firmware, bootPc, nCores, smpLock, location, rsp>> /\ cpuPc[p] = "trans"
    BY <1>5 DEF InitCpuTrans, irqVars, bootVars
  <2>3. HandOff(p)'
    BY <1>0, <2>1, <2>2 DEF HandOff, SmpTypeOK
  <2> QED
    BY <1>0, <2>1, <2>2, <2>3, CpuMoves DEF CpuLabels, SmpTypeOK
<1> QED
  BY <1>1, <1>2, <1>3, <1>4, <1>5, Publishes DEF Cpu

LEMMA SmpStep == SmpInv /\ [Next]_vars => SmpInv'
<1> SUFFICES ASSUME SmpInv, [Next]_vars PROVE SmpInv'
  OBVIOUS
<1>1. CASE UNCHANGED vars
  BY <1>1 DEF vars, irqVars, bootVars, cpuVars, SmpInv, SmpTypeOK, HandOff
<1>2. CASE BootStep
  BY <1>2, BeforeSmp
<1>3. CASE \E p \in Cores : StartProcessor(p) \/ Cpu(p)
  BY <1>3, Starts, CpuSteps
<1> QED
  BY <1>1, <1>2, <1>3 DEF Next

LEMMA SmpInit == Init => SmpInv
<1> SUFFICES ASSUME Init PROVE SmpInv
  OBVIOUS
<1>1. /\ firmware \in Firmwares /\ bootPc = "mem" /\ smpLock = 0
      /\ cpuPc = [p \in Cores |-> "off"] /\ location = [p \in Cores |-> 0]
      /\ rsp = [p \in Cores |-> Shared]
  BY DEF Init, IrqInit
<1> QED
  BY <1>1 DEF SmpInv, SmpTypeOK, HandOff, CpuLabels

LEMMA SmpInvariance == Spec => []SmpInv
<1> QED
  BY SmpInit, SmpStep, PTL DEF Spec

\* One core at a time runs on the boot stack: the next one starts only when
\* smpLock says that the last one has left it.
THEOREM BootStackIsOwned == Spec => []OneOnBootStack
<1>1. SmpInv => OneOnBootStack
  <2> SUFFICES ASSUME SmpInv, NEW p \in Cores, NEW q \in Cores,
                      cpuPc[p] # "off", rsp[p] = Shared, cpuPc[q] # "off", rsp[q] = Shared
               PROVE  p = q
    BY DEF OneOnBootStack
  <2>1. HandOff(p) /\ HandOff(q) /\ p \in Int /\ q \in Int /\ Shared # p /\ Shared # q
    BY CoresNumbered DEF SmpInv
  <2>2. cpuPc[p] \in CpuLabels /\ cpuPc[q] \in CpuLabels
    BY DEF SmpInv, SmpTypeOK
  <2>3. smpLock = p - 1 /\ smpLock = q - 1
    BY <2>1, <2>2 DEF HandOff, CpuLabels
  <2> QED
    BY <2>1, <2>3
<1> QED
  BY <1>1, SmpInvariance, PTL

\* The location of a core is its number, and there are that many altstacks.
LEMMA LocatedWithin ==
  ASSUME SmpInv, NEW p \in Located
  PROVE  location[p] = p /\ p \in 0 .. nCores - 1
<1>1. p \in Cores /\ p \in Int /\ p >= 0 /\ cpuPc[p] # "off"
  BY CoresNumbered DEF Located
<1>2. /\ location[p] = p /\ p < Cardinality(EnabledLapics(Acpi(firmware)))
      /\ firmware \in Firmwares
  BY DEF Located, SmpInv, HandOff
<1>3. nCores = Cardinality(EnabledLapics(Acpi(firmware)))
  BY <1>1, <1>2, FirmwareAssumption, CoresCounted DEF SmpInv
<1>4. nCores \in Int
  BY <1>2, <1>3, CoresAssumption
<1> QED
  BY <1>1, <1>2, <1>3, <1>4

\* Every core takes a location of its own, and one that memory and altstacks
\* were cut for: the walk over the MADT counts all processors.
THEOREM LocationsAreExact == Spec => []LocationsExact
<1>1. SmpInv => LocationsExact
  BY LocatedWithin DEF LocationsExact
<1> QED
  BY <1>1, SmpInvariance, PTL

-----------------------------------------------------------------------------
(* Interrupt silencing: Apic::disableIrqs goes through every entry of every  *)
(* I/O APIC that the MADT lists.                                             *)

IrqLabels ==
  {"disablePit", "disableRtc", "Apic", "apics", "entries", "low", "selectHigh", "high",
   "lapic", "done"}

\* disableIrqs is within the inner loop.
InnerLabels == {"entries", "low", "selectHigh", "high"}

\* The registers of a are the firmware's, but that entries may be masked, and
\* masked entries may be empty.
OnlyMasked(a) ==
  /\ DOMAIN regs[a] = 0 .. HighIndex(MaxRedEntry[a])
  /\ \A r \in DOMAIN regs[a] : ~InTableOf(a, r) => regs[a][r] = "firmware"
  /\ \A e \in 0 .. MaxRedEntry[a] :
       /\ regs[a][LowIndex(e)] \in {"firmware", Disabled}
       /\ regs[a][HighIndex(e)] \in {"firmware", Zero}
       /\ regs[a][HighIndex(e)] = Zero => regs[a][LowIndex(e)] = Disabled

EntryDisabled(a, e) == regs[a][LowIndex(e)] = Disabled /\ regs[a][HighIndex(e)] = Zero

\* What the constructor of Apic has left, once it is done.
ApicMade ==
  irqPc \notin {"disablePit", "disableRtc", "Apic"} =>
    /\ nIoApics = getNIoApics(Acpi(firmware))
    /\ ioApics = [k \in 0 .. nIoApics - 1 |-> findIoApic(Acpi(firmware), k).addr]

\* How far the two loops are: the I/O APICs before i are done, and of that at i
\* the entries before j.
LoopsAt ==
  /\ irqPc \notin {"disablePit", "disableRtc", "Apic"} =>
       \A k \in 0 .. nIoApics - 1 : k < i =>
         \A e \in 0 .. MaxRedEntry[ioApics[k]] : EntryDisabled(ioApics[k], e)
  /\ irqPc \in InnerLabels =>
       /\ i < nIoApics
       /\ \A e \in 0 .. MaxRedEntry[ioApics[i]] : e < j => EntryDisabled(ioApics[i], e)
  /\ irqPc \in InnerLabels \ {"entries"} => InTable
  /\ irqPc = "low" => ioRegSel[ioApics[i]] = LowIndex(j)
  /\ irqPc \in {"selectHigh", "high"} => regs[ioApics[i]][LowIndex(j)] = Disabled
  /\ irqPc = "high" => ioRegSel[ioApics[i]] = HighIndex(j)
  /\ irqPc \in {"lapic", "done"} => i >= nIoApics

IrqInv ==
  /\ firmware \in Firmwares
  /\ irqPc \in IrqLabels
  /\ i \in Nat /\ j \in Nat
  /\ irqPc \in {"disablePit", "disableRtc", "Apic"} => i = 0
  /\ DOMAIN ioRegSel = IoApics
  /\ DOMAIN regs = IoApics
  /\ \A a \in IoApics : OnlyMasked(a)
  /\ ApicMade
  /\ LoopsAt

\* The I/O APICs that the constructor has put into its table are there.
LEMMA ApicsThere ==
  ASSUME IrqInv, irqPc \notin {"disablePit", "disableRtc", "Apic"}
  PROVE  /\ nIoApics \in Nat
         /\ \A k \in 0 .. nIoApics - 1 : ioApics[k] \in IoApics /\ MaxRedEntry[ioApics[k]] \in Nat
         /\ \A a \in IoApicAddresses(Acpi(firmware)) : \E k \in 0 .. nIoApics - 1 : ioApics[k] = a
<1>1. /\ nIoApics = getNIoApics(Acpi(firmware))
      /\ \A k \in 0 .. nIoApics - 1 : ioApics[k] = findIoApic(Acpi(firmware), k).addr
  BY DEF IrqInv, ApicMade
<1>2. /\ nIoApics \in Nat
      /\ {findIoApic(Acpi(firmware), k).addr : k \in 0 .. nIoApics - 1}
           = IoApicAddresses(Acpi(firmware))
      /\ IoApicAddresses(Acpi(firmware)) \subseteq IoApics
  BY <1>1, FirmwareAssumption, IoApicsListed DEF IrqInv, IoApics
<1> QED
  BY <1>1, <1>2, MaxRedAssumption DEF IoApics

\* The steps before the loops.
LEMMA ApicStarts ==
  ASSUME IrqInv, disablePit \/ disableRtc \/ ApicConstructor
  PROVE  IrqInv'
<1>1. CASE disablePit \/ disableRtc
  <2>1. /\ UNCHANGED <<firmware, nIoApics, ioApics, ioRegSel, regs, i, j>>
        /\ irqPc \in {"disablePit", "disableRtc"} /\ irqPc' \in {"disableRtc", "Apic"}
    BY <1>1 DEF disablePit, disableRtc, apicVars
  <2> QED
    BY <2>1 DEF IrqInv, IrqLabels, InnerLabels, OnlyMasked, ApicMade, LoopsAt
<1>2. CASE ApicConstructor
  <2>1. /\ UNCHANGED <<firmware, ioRegSel, regs, i, j>> /\ irqPc = "Apic" /\ irqPc' = "apics"
        /\ nIoApics' = getNIoApics(Acpi(firmware))
        /\ ioApics' = [k \in 0 .. nIoApics' - 1 |-> findIoApic(Acpi(firmware), k).addr]
    BY <1>2 DEF ApicConstructor
  <2>2. i = 0
    BY <2>1 DEF IrqInv
  <2>3. ApicMade'
    BY <2>1 DEF ApicMade
  <2>4. LoopsAt'
    BY <2>1, <2>2 DEF LoopsAt, InnerLabels
  <2> QED
    BY <2>1, <2>2, <2>3, <2>4 DEF IrqInv, IrqLabels, OnlyMasked
<1> QED
  BY <1>1, <1>2

\* The steps of the loops that write to no register of a table.
LEMMA LoopSteps ==
  ASSUME IrqInv, NextApic \/ ApicsDone \/ EntriesDone \/ SelectLow \/ SelectHigh
  PROVE  IrqInv'
<1> DEFINE A == ioApics[i]
<1>1. /\ UNCHANGED <<firmware, nIoApics, ioApics, regs>>
      /\ irqPc \notin {"disablePit", "disableRtc", "Apic"}
      /\ irqPc' \in IrqLabels \ {"disablePit", "disableRtc", "Apic"}
  BY DEF NextApic, ApicsDone, EntriesDone, SelectLow, SelectHigh, Select, apicVars, IrqLabels
<1>2. /\ nIoApics \in Nat /\ i \in Nat /\ j \in Nat
      /\ \A k \in 0 .. nIoApics - 1 : MaxRedEntry[ioApics[k]] \in Nat /\ ioApics[k] \in IoApics
  BY <1>1, ApicsThere DEF IrqInv
<1>3. /\ \A a \in IoApics : OnlyMasked(a)'
      /\ ApicMade' /\ firmware' \in Firmwares
      /\ DOMAIN regs' = IoApics
      /\ \A a, e : EntryDisabled(a, e)' <=> EntryDisabled(a, e)
  BY <1>1 DEF IrqInv, OnlyMasked, ApicMade, EntryDisabled
<1>4. CASE NextApic
  <2>1. /\ i < nIoApics /\ irqPc' = "entries" /\ j' = 0 /\ i' = i
        /\ ioRegSel' = [ioRegSel EXCEPT ![A] = IO_APIC_VER]
    BY <1>4 DEF NextApic
  <2>2. LoopsAt'
    BY <1>1, <1>2, <1>3, <2>1 DEF IrqInv, LoopsAt, InnerLabels, InTable
  <2> QED
    BY <1>1, <1>2, <1>3, <2>1, <2>2 DEF IrqInv, IrqLabels
<1>5. CASE ApicsDone
  <2>1. i >= nIoApics /\ irqPc' = "lapic" /\ UNCHANGED <<i, j, ioRegSel>>
    BY <1>5 DEF ApicsDone
  <2>2. LoopsAt'
    BY <1>1, <1>2, <1>3, <2>1 DEF IrqInv, LoopsAt, InnerLabels, InTable
  <2> QED
    BY <1>1, <1>2, <1>3, <2>1, <2>2 DEF IrqInv, IrqLabels
<1>6. CASE EntriesDone
  <2>1. ~InTable /\ i' = i + 1 /\ irqPc = "entries" /\ irqPc' = "apics" /\ UNCHANGED <<j, ioRegSel>>
    BY <1>6 DEF EntriesDone
  <2>2. i < nIoApics /\ \A e \in 0 .. MaxRedEntry[A] : EntryDisabled(A, e)
    BY <1>2, <2>1 DEF IrqInv, LoopsAt, InnerLabels, InTable
  <2>3. \A k \in 0 .. nIoApics - 1 : k < i' => k < i \/ k = i
    BY <1>2, <2>1
  <2>4. \A k \in 0 .. nIoApics - 1 : k < i' =>
          \A e \in 0 .. MaxRedEntry[ioApics[k]] : EntryDisabled(ioApics[k], e)
    BY <1>1, <2>2, <2>3 DEF IrqInv, LoopsAt
  <2>5. LoopsAt'
    BY <1>1, <1>3, <2>1, <2>4 DEF LoopsAt, InnerLabels
  <2> QED
    BY <1>1, <1>2, <1>3, <2>1, <2>5 DEF IrqInv, IrqLabels
<1>7. CASE SelectLow
  <2>1. /\ irqPc = "entries" /\ irqPc' = "low" /\ InTable /\ UNCHANGED <<i, j>>
        /\ ioRegSel' = [ioRegSel EXCEPT ![A] = LowIndex(j)]
    BY <1>7 DEF SelectLow, Select
  <2>2. i < nIoApics /\ A \in IoApics
    BY <1>2, <2>1 DEF IrqInv, LoopsAt, InnerLabels
  <2>3. ioRegSel'[A] = LowIndex(j)
    BY <2>1, <2>2 DEF IrqInv
  <2>4. LoopsAt'
    BY <1>1, <1>2, <1>3, <2>1, <2>2, <2>3 DEF IrqInv, LoopsAt, InnerLabels, InTable, LowIndex
  <2> QED
    BY <1>1, <1>2, <1>3, <2>1, <2>4 DEF IrqInv, IrqLabels
<1>8. CASE SelectHigh
  <2>1. /\ irqPc = "selectHigh" /\ irqPc' = "high" /\ UNCHANGED <<i, j>>
        /\ ioRegSel' = [ioRegSel EXCEPT ![A] = HighIndex(j)]
    BY <1>8 DEF SelectHigh, Select
  <2>2. i < nIoApics /\ A \in IoApics
    BY <1>2, <2>1 DEF IrqInv, LoopsAt, InnerLabels
  <2>3. ioRegSel'[A] = HighIndex(j)
    BY <2>1, <2>2 DEF IrqInv
  <2>4. LoopsAt'
    BY <1>1, <1>2, <1>3, <2>1, <2>2, <2>3 DEF IrqInv, LoopsAt, InnerLabels, InTable, LowIndex
  <2> QED
    BY <1>1, <1>2, <1>3, <2>1, <2>4 DEF IrqInv, IrqLabels
<1> QED
  BY <1>4, <1>5, <1>6, <1>7, <1>8
\* The registers of an entry are within the table.
LEMMA EntryRegisters ==
  ASSUME NEW n \in Nat, NEW e \in 0 .. n
  PROVE  /\ LowIndex(e) \in LowIndex(0) .. HighIndex(n)
         /\ HighIndex(e) \in LowIndex(0) .. HighIndex(n)
         /\ LowIndex(0) .. HighIndex(n) \subseteq 0 .. HighIndex(n)
<1> QED
  BY DEF LowIndex, HighIndex, IO_APIC_REDTBL_START

\* The two stores of writeEntry through the data window.
LEMMA WindowStores ==
  ASSUME IrqInv, WriteLow \/ WriteHigh
  PROVE  IrqInv'
<1> DEFINE A == ioApics[i]
           n == MaxRedEntry[A]
<1>1. /\ UNCHANGED <<firmware, nIoApics, ioApics, ioRegSel, i>>
      /\ irqPc \in {"low", "high"} /\ irqPc' \in {"selectHigh", "entries"}
  BY DEF WriteLow, WriteHigh, Window, apicVars
<1>2. /\ nIoApics \in Nat /\ i \in 0 .. nIoApics - 1
      /\ A \in IoApics /\ n \in Nat /\ j \in 0 .. n
      /\ \A k \in 0 .. nIoApics - 1 : MaxRedEntry[ioApics[k]] \in Nat /\ ioApics[k] \in IoApics
  <2>1. i < nIoApics /\ InTable /\ i \in Nat /\ j \in Nat
    BY <1>1 DEF IrqInv, LoopsAt, InnerLabels
  <2>2. nIoApics \in Nat
        /\ \A k \in 0 .. nIoApics - 1 : MaxRedEntry[ioApics[k]] \in Nat /\ ioApics[k] \in IoApics
    BY <1>1, ApicsThere
  <2> QED
    BY <2>1, <2>2 DEF InTable
<1>3. ApicMade' /\ firmware' \in Firmwares
  BY <1>1 DEF IrqInv, ApicMade
<1>4. \A a \in IoApics : OnlyMasked(a) /\ MaxRedEntry[a] \in Nat
  BY MaxRedAssumption DEF IrqInv, IoApics
<1>5. DOMAIN regs[A] = 0 .. HighIndex(n) /\ LowIndex(j) \in DOMAIN regs[A] /\ HighIndex(j) \in DOMAIN regs[A]
  BY <1>2, <1>4, EntryRegisters DEF OnlyMasked
<1>6. InTableOf(A, LowIndex(j)) /\ InTableOf(A, HighIndex(j))
  BY <1>2, EntryRegisters DEF InTableOf
<1>7. ASSUME NEW a \in IoApics, NEW e \in 0 .. MaxRedEntry[a]
      PROVE  /\ LowIndex(e) \in DOMAIN regs[a] /\ HighIndex(e) \in DOMAIN regs[a]
             /\ LowIndex(j) # HighIndex(e) /\ LowIndex(e) # HighIndex(j)
             /\ HighIndex(e) = HighIndex(j) <=> e = j
  <2>1. MaxRedEntry[a] \in Nat /\ DOMAIN regs[a] = 0 .. HighIndex(MaxRedEntry[a])
    BY <1>4 DEF OnlyMasked
  <2>2. LowIndex(e) \in DOMAIN regs[a] /\ HighIndex(e) \in DOMAIN regs[a]
    BY <2>1, EntryRegisters
  <2>3. e \in Nat /\ j \in Nat
    BY <1>2, <2>1
  <2> QED
    BY <2>2, <2>3 DEF LowIndex, HighIndex, IO_APIC_REDTBL_START
<1>8. CASE WriteLow
  <2>1. /\ regs' = [regs EXCEPT ![A][ioRegSel[A]] = Disabled] /\ j' = j
        /\ irqPc = "low" /\ irqPc' = "selectHigh"
    BY <1>8 DEF WriteLow, Window
  <2>2. ioRegSel[A] = LowIndex(j)
    BY <2>1 DEF IrqInv, LoopsAt
  <2>3. /\ DOMAIN regs' = IoApics /\ \A a \in IoApics : DOMAIN regs'[a] = DOMAIN regs[a]
        /\ \A a \in IoApics : \A r \in DOMAIN regs[a] :
             regs'[a][r] = IF a = A /\ r = LowIndex(j) THEN Disabled ELSE regs[a][r]
    BY <1>2, <1>5, <2>1, <2>2 DEF IrqInv
  <2>4. ASSUME NEW a \in IoApics, NEW e \in 0 .. MaxRedEntry[a]
        PROVE  /\ regs'[a][HighIndex(e)] = regs[a][HighIndex(e)]
               /\ regs'[a][LowIndex(e)] \in {regs[a][LowIndex(e)], Disabled}
               /\ a = A /\ e = j => regs'[a][LowIndex(e)] = Disabled
    BY <1>7, <2>3
  <2>5. ASSUME NEW a \in IoApics PROVE OnlyMasked(a)'
    <3>1. \A r \in DOMAIN regs[a] : ~InTableOf(a, r) => regs'[a][r] = "firmware"
      <4>1. \A r \in DOMAIN regs[a] : ~InTableOf(a, r) => regs[a][r] = "firmware"
        BY <1>4 DEF OnlyMasked
      <4> QED
        BY <1>6, <2>3, <4>1, Zenon
    <3> QED
      BY <1>4, <2>3, <2>4, <3>1 DEF OnlyMasked, InTableOf
  <2>6. \A a \in IoApics : \A e \in 0 .. MaxRedEntry[a] : EntryDisabled(a, e) => EntryDisabled(a, e)'
    BY <2>4 DEF EntryDisabled
  <2>7. LoopsAt'
    BY <1>1, <1>2, <2>1, <2>4, <2>6 DEF IrqInv, LoopsAt, InnerLabels, InTable
  <2> QED
    BY <1>1, <1>2, <1>3, <2>1, <2>3, <2>5, <2>7 DEF IrqInv, IrqLabels
<1>9. CASE WriteHigh
  <2>1. /\ regs' = [regs EXCEPT ![A][ioRegSel[A]] = Zero] /\ j' = j + 1
        /\ irqPc = "high" /\ irqPc' = "entries"
    BY <1>9 DEF WriteHigh, Window
  <2>2. ioRegSel[A] = HighIndex(j) /\ regs[A][LowIndex(j)] = Disabled
    BY <2>1 DEF IrqInv, LoopsAt
  <2>3. /\ DOMAIN regs' = IoApics /\ \A a \in IoApics : DOMAIN regs'[a] = DOMAIN regs[a]
        /\ \A a \in IoApics : \A r \in DOMAIN regs[a] :
             regs'[a][r] = IF a = A /\ r = HighIndex(j) THEN Zero ELSE regs[a][r]
    BY <1>2, <1>5, <2>1, <2>2 DEF IrqInv
  <2>4. ASSUME NEW a \in IoApics, NEW e \in 0 .. MaxRedEntry[a]
        PROVE  /\ regs'[a][LowIndex(e)] = regs[a][LowIndex(e)]
               /\ regs'[a][HighIndex(e)] =
                    IF a = A /\ e = j THEN Zero ELSE regs[a][HighIndex(e)]
    BY <1>7, <2>3
  <2>5. ASSUME NEW a \in IoApics PROVE OnlyMasked(a)'
    <3>1. \A r \in DOMAIN regs[a] : ~InTableOf(a, r) => regs'[a][r] = "firmware"
      <4>1. \A r \in DOMAIN regs[a] : ~InTableOf(a, r) => regs[a][r] = "firmware"
        BY <1>4 DEF OnlyMasked
      <4> QED
        BY <1>6, <2>3, <4>1, Zenon
    <3> QED
      BY <1>4, <2>2, <2>3, <2>4, <3>1 DEF OnlyMasked, InTableOf
  <2>6. \A a \in IoApics : \A e \in 0 .. MaxRedEntry[a] : EntryDisabled(a, e) => EntryDisabled(a, e)'
    BY <2>4 DEF EntryDisabled
  <2>7. regs'[A][LowIndex(j)] = Disabled /\ regs'[A][HighIndex(j)] = Zero
    BY <1>2, <2>2, <2>4
  <2>8. \A e \in 0 .. n : e < j + 1 => EntryDisabled(A, e)'
    <3>1. \A e \in 0 .. n : e < j => EntryDisabled(A, e)
      BY <2>1 DEF IrqInv, LoopsAt, InnerLabels
    <3>2. \A e \in 0 .. n : e < j + 1 => e < j \/ e = j
      BY <1>2
    <3>3. \A e \in 0 .. n : EntryDisabled(A, e) => EntryDisabled(A, e)'
      BY <1>1, <1>2, <2>6
    <3> QED
      BY <1>1, <2>7, <3>1, <3>2, <3>3 DEF EntryDisabled
  <2>9. LoopsAt'
    BY <1>1, <1>2, <2>1, <2>6, <2>8 DEF IrqInv, LoopsAt, InnerLabels
  <2> QED
    BY <1>1, <1>2, <1>3, <2>1, <2>3, <2>5, <2>9 DEF IrqInv, IrqLabels
<1> QED
  BY <1>8, <1>9

\* Starting the local APICs touches neither the I/O APICs nor the loops.
LEMMA IrqStep == IrqInv /\ [Next]_vars => IrqInv'
<1> SUFFICES ASSUME IrqInv, [Next]_vars PROVE IrqInv'
  OBVIOUS
<1>1. CASE SilenceIrqs
  BY <1>1, ApicStarts, LoopSteps, WindowStores DEF SilenceIrqs, EventInitArch
<1>2. CASE InitSmp
  <2>1. /\ UNCHANGED <<firmware, nIoApics, ioApics, ioRegSel, regs, i, j>>
        /\ irqPc = "lapic" /\ irqPc' = "done"
    BY <1>2 DEF InitSmp, EnableBootLapic, apicVars
  <2> QED
    BY <2>1 DEF IrqInv, IrqLabels, InnerLabels, OnlyMasked, ApicMade, LoopsAt, EntryDisabled
<1>3. CASE UNCHANGED <<firmware, nIoApics, ioApics, ioRegSel, regs, irqPc, i, j>>
  BY <1>3 DEF IrqInv, OnlyMasked, ApicMade, LoopsAt, EntryDisabled, InTable
<1>4. CASE InitMem \/ InitTrans \/ FillIdt \/ AllocAltstack
  BY <1>3, <1>4 DEF InitMem, InitTrans, FillIdt, AllocAltstack, irqVars
<1>5. CASE \E p \in Cores : StartProcessor(p) \/ Cpu(p)
  BY <1>3, <1>5 DEF StartProcessor, Cpu, TakeLocation, EnableOwnLapic, AllocStacks, SwitchStack,
     Publish, InitCpuTrans, irqVars, apicVars
<1>6. CASE UNCHANGED vars
  BY <1>3, <1>6 DEF vars, irqVars
<1> QED
  BY <1>1, <1>2, <1>4, <1>5, <1>6 DEF Next, BootStep

LEMMA IrqStarts == Init => IrqInv
<1> SUFFICES ASSUME Init PROVE IrqInv
  OBVIOUS
<1>1. /\ firmware \in Firmwares /\ irqPc = "disablePit" /\ i = 0 /\ j = 0
      /\ ioRegSel = [a \in IoApics |-> 0]
      /\ regs = [a \in IoApics |-> [r \in 0 .. HighIndex(MaxRedEntry[a]) |-> "firmware"]]
  BY DEF Init, IrqInit
<1>2. ASSUME NEW a \in IoApics PROVE OnlyMasked(a)
  <2>1. MaxRedEntry[a] \in Nat
    BY MaxRedAssumption DEF IoApics
  <2> QED
    BY <1>1, <2>1, EntryRegisters DEF OnlyMasked, Zero
<1> QED
  BY <1>1, <1>2 DEF IrqInv, IrqLabels, InnerLabels, ApicMade, LoopsAt

LEMMA IrqInvariance == Spec => []IrqInv
<1> QED
  BY IrqStarts, IrqStep, PTL DEF Spec

\* When Apic::disableIrqs is done, every entry of every I/O APIC that the MADT
\* lists is masked, whatever the firmware.
THEOREM IrqsDisabled == Spec => []AllDisabled
<1>1. IrqInv => AllDisabled
  <2> SUFFICES ASSUME IrqInv, irqPc \in {"lapic", "done"},
                      NEW a \in IoApicAddresses(Acpi(firmware)), NEW e \in 0 .. MaxRedEntry[a]
               PROVE  EntryDisabled(a, e)
    BY DEF AllDisabled, EntryDisabled
  <2>1. PICK k \in 0 .. nIoApics - 1 : ioApics[k] = a
    BY ApicsThere
  <2>2. k < i
    BY ApicsThere DEF IrqInv, LoopsAt
  <2> QED
    BY <2>1, <2>2 DEF IrqInv, LoopsAt
<1> QED
  BY <1>1, IrqInvariance, PTL

\* No entry is rerouted while the firmware's lower half is in force.
THEOREM MaskedFirst == Spec => []MaskedBeforeMoved
<1>1. IrqInv => MaskedBeforeMoved
  BY DEF IrqInv, OnlyMasked, MaskedBeforeMoved, Zero
<1> QED
  BY <1>1, IrqInvariance, PTL

\* The index register never leads a write out of the redirection table.
THEOREM TablesOnly == Spec => []OtherRegistersKept
<1>1. IrqInv => OtherRegistersKept
  BY DEF IrqInv, OnlyMasked, OtherRegistersKept
<1> QED
  BY <1>1, IrqInvariance, PTL

-----------------------------------------------------------------------------
(* Page tables: what every table holds at each step of initArch and          *)
(* initCpuArch.                                                              *)

GlobalPdpt == <<"gpdpt", Shared>>
GlobalPdir == <<"gpdir", Shared>>
OwnPml4(c) == <<"pml4", c>>
OwnPdpt(c) == <<"pdpt", c>>
OwnPdir(c) == <<"pdir", c>>

ArchLabels == {"pdir", "pdpt", "pml4", "done"}
TransLabels == {"copy", "pdir", "pdpt", "pml4", "load", "fill", "start"}

TablesType ==
  /\ DOMAIN tables = Tables
  /\ \A t \in Tables : DOMAIN tables[t] = Indexes
  /\ DOMAIN cr3 = Cores
  /\ archPc \in ArchLabels
  /\ transPc \in [Cores -> TransLabels]

SharedTables ==
  /\ tables[BootPml4][0] = OwnPdpt(Shared)
  /\ tables[OwnPdpt(Shared)][0] = OwnPdir(Shared)
  /\ tables[OwnPdir(Shared)][0] = LowFrame
  /\ tables[BootPml4][511] = IF archPc = "done" THEN GlobalPdpt ELSE Absent
  /\ tables[GlobalPdpt][504] = Absent
  /\ archPc \in {"pml4", "done"} => tables[GlobalPdpt][508] = GlobalPdir
  /\ archPc # "pdir" => tables[GlobalPdir][0] = GlobalFrame

\* The tables of core c, from its copies on.
CoreTables(c) ==
  /\ transPc[c] # "copy" =>
       /\ archPc = "done"
       /\ tables[OwnPml4(c)][0] = OwnPdpt(Shared)
       /\ tables[OwnPdpt(c)][508] = GlobalPdir
       /\ tables[OwnPdpt(c)][504] = IF transPc[c] \in {"pdir", "pdpt"} THEN Absent ELSE OwnPdir(c)
  /\ transPc[c] \notin {"copy", "pdir"} => tables[OwnPdir(c)][0] = LocalFrame(c)
  /\ transPc[c] \in {"load", "fill", "start"} => tables[OwnPml4(c)][511] = OwnPdpt(c)
  /\ cr3[c] = IF transPc[c] \in {"fill", "start"} THEN OwnPml4(c) ELSE BootPml4

Filled(c) == filled[LocalFrame(c)] = IF transPc[c] = "start" THEN {c} ELSE {}

TransInv ==
  /\ TablesType
  /\ SharedTables
  /\ \A c \in Cores : CoreTables(c) /\ Filled(c)

\* The tables are there, and are not each other.
LEMMA TablesApart ==
  /\ \A c \in Cores \cup {Shared} :
       OwnPml4(c) \in Tables /\ OwnPdpt(c) \in Tables /\ OwnPdir(c) \in Tables
  /\ GlobalPdpt \in Tables /\ GlobalPdir \in Tables /\ BootPml4 \in Tables
  /\ \A c \in Cores : LocalFrame(c) \in Frames
  /\ LowFrame \in Frames /\ GlobalFrame \in Frames
  /\ Absent \notin Tables /\ Absent \notin Frames
<1> QED
  BY AbsentAssumption DEF Tables, Frames, Kinds, OwnPml4, OwnPdpt, OwnPdir, GlobalPdpt,
     GlobalPdir, BootPml4

LEMMA TablesDiffer ==
  /\ BootPml4 = OwnPml4(Shared) /\ GlobalPdpt # GlobalPdir
  /\ \A c, d \in Cores \cup {Shared} :
       /\ OwnPml4(c) # OwnPdpt(d) /\ OwnPml4(c) # OwnPdir(d) /\ OwnPdpt(c) # OwnPdir(d)
       /\ c # d => /\ OwnPml4(c) # OwnPml4(d) /\ OwnPdpt(c) # OwnPdpt(d)
                   /\ OwnPdir(c) # OwnPdir(d)
       /\ {GlobalPdpt, GlobalPdir} \cap {OwnPml4(c), OwnPdpt(c), OwnPdir(c)} = {}
<1> QED
  BY DEF OwnPml4, OwnPdpt, OwnPdir, GlobalPdpt, GlobalPdir, BootPml4

\* What a walk finds, by the tables it goes through.
LEMMA WalkOnBoot ==
  ASSUME TransInv, NEW c \in Cores, cr3[c] = BootPml4
  PROVE  /\ Walk(c, "low") = LowFrame
         /\ Walk(c, "local") = Absent
         /\ archPc = "done" => Walk(c, "global") = GlobalFrame
<1> QED
  BY TablesApart DEF TransInv, SharedTables, Walk, Pml4Index, PdptIndex, PdirIndex

LEMMA WalkOnOwn ==
  ASSUME TransInv, NEW c \in Cores, transPc[c] \in {"fill", "start"}
  PROVE  /\ Walk(c, "low") = LowFrame
         /\ Walk(c, "local") = LocalFrame(c)
         /\ Walk(c, "global") = GlobalFrame
<1> QED
  BY TablesApart DEF TransInv, SharedTables, CoreTables, Walk, Pml4Index, PdptIndex, PdirIndex
\* A store into one entry of a table.
LEMMA SetStores ==
  ASSUME TablesType, NEW t \in Tables, NEW x \in Indexes, NEW entry, Set(t, x, entry)
  PROVE  /\ DOMAIN tables' = Tables /\ \A u \in Tables : DOMAIN tables'[u] = Indexes
         /\ tables'[t][x] = entry
         /\ \A u \in Tables, y \in Indexes : u # t \/ y # x => tables'[u][y] = tables[u][y]
<1> QED
  BY DEF TablesType, Set

\* initArch, while no core has tables of its own.
LEMMA ArchSteps ==
  ASSUME TransInv, ArchPdir \/ ArchPdpt \/ ArchPml4
  PROVE  TransInv'
<1>1. UNCHANGED <<cr3, filled, transPc>> /\ archPc # "done"
  BY DEF ArchPdir, ArchPdpt, ArchPml4
<1>2. \A c \in Cores : transPc[c] = "copy" /\ cr3[c] = BootPml4 /\ Filled(c)
  BY <1>1 DEF TransInv, CoreTables
<1>3. \A c \in Cores : CoreTables(c)' /\ Filled(c)'
  BY <1>1, <1>2 DEF CoreTables, Filled
<1>4. CASE ArchPdir
  <2>1. /\ archPc = "pdir" /\ archPc' = "pdpt" /\ GlobalPdir \in Tables
        /\ Set(GlobalPdir, 0, GlobalFrame)
    BY <1>4, TablesApart DEF ArchPdir, PdirIndex, GlobalPdir
  <2>2. /\ DOMAIN tables' = Tables /\ \A u \in Tables : DOMAIN tables'[u] = Indexes
        /\ tables'[GlobalPdir][0] = GlobalFrame
        /\ \A u \in Tables, y \in Indexes :
             u # GlobalPdir \/ y # 0 => tables'[u][y] = tables[u][y]
    BY <2>1, SetStores DEF TransInv, Indexes
  <2>3. TablesType'
    BY <1>1, <2>1, <2>2 DEF TransInv, TablesType, ArchLabels
  <2>4. /\ {BootPml4, OwnPdpt(Shared), OwnPdir(Shared), GlobalPdpt} \subseteq Tables \ {GlobalPdir}
        /\ {0, 504, 511} \subseteq Indexes
    <3>1. /\ GlobalPdir \notin {OwnPml4(Shared), OwnPdpt(Shared), OwnPdir(Shared)}
          /\ BootPml4 = OwnPml4(Shared) /\ GlobalPdpt # GlobalPdir
      BY TablesDiffer
    <3>2. {BootPml4, OwnPdpt(Shared), OwnPdir(Shared), GlobalPdpt} \subseteq Tables
      BY TablesApart
    <3> QED
      BY <3>1, <3>2 DEF Indexes
  <2>5. SharedTables'
    <3>1. \A u \in Tables \ {GlobalPdir}, y \in Indexes : tables'[u][y] = tables[u][y]
      BY <2>2
    <3> QED
      BY <2>1, <2>2, <2>4, <3>1 DEF TransInv, SharedTables
  <2> QED
    BY <1>3, <2>3, <2>5 DEF TransInv
<1>5. CASE ArchPdpt
  <2>1. /\ archPc = "pdpt" /\ archPc' = "pml4" /\ GlobalPdpt \in Tables
        /\ Set(GlobalPdpt, 508, GlobalPdir)
    BY <1>5, TablesApart DEF ArchPdpt, PdptIndex, GlobalPdpt, GlobalPdir
  <2>2. /\ DOMAIN tables' = Tables /\ \A u \in Tables : DOMAIN tables'[u] = Indexes
        /\ tables'[GlobalPdpt][508] = GlobalPdir
        /\ \A u \in Tables, y \in Indexes :
             u # GlobalPdpt \/ y # 508 => tables'[u][y] = tables[u][y]
    BY <2>1, SetStores DEF TransInv, Indexes
  <2>3. TablesType'
    BY <1>1, <2>1, <2>2 DEF TransInv, TablesType, ArchLabels
  <2>4. SharedTables'
    BY <2>1, <2>2, TablesApart, TablesDiffer DEF TransInv, SharedTables, Indexes
  <2> QED
    BY <1>3, <2>3, <2>4 DEF TransInv
<1>6. CASE ArchPml4
  <2>1. /\ archPc = "pml4" /\ archPc' = "done" /\ BootPml4 \in Tables
        /\ Set(BootPml4, 511, GlobalPdpt)
    BY <1>6, TablesApart DEF ArchPml4, Pml4Index, GlobalPdpt
  <2>2. /\ DOMAIN tables' = Tables /\ \A u \in Tables : DOMAIN tables'[u] = Indexes
        /\ tables'[BootPml4][511] = GlobalPdpt
        /\ \A u \in Tables, y \in Indexes :
             u # BootPml4 \/ y # 511 => tables'[u][y] = tables[u][y]
    BY <2>1, SetStores DEF TransInv, Indexes
  <2>3. TablesType'
    BY <1>1, <2>1, <2>2 DEF TransInv, TablesType, ArchLabels
  <2>4. SharedTables'
    BY <2>1, <2>2, TablesApart, TablesDiffer DEF TransInv, SharedTables, Indexes
  <2> QED
    BY <1>3, <2>3, <2>4 DEF TransInv
<1> QED
  BY <1>4, <1>5, <1>6

\* A step of core c that stores into its own tables alone leaves the shared ones
\* and those of the other cores as they are.
LEMMA OwnStores ==
  ASSUME TransInv, NEW c \in Cores, NEW to \in TransLabels,
         transPc' = [transPc EXCEPT ![c] = to], archPc' = archPc,
         DOMAIN tables' = Tables, \A u \in Tables : DOMAIN tables'[u] = Indexes,
         \A u \in Tables, y \in Indexes :
           u \notin {OwnPml4(c), OwnPdpt(c), OwnPdir(c)} => tables'[u][y] = tables[u][y],
         DOMAIN cr3' = Cores, \A d \in Cores : d # c => cr3'[d] = cr3[d],
         \A d \in Cores : d # c => filled'[LocalFrame(d)] = filled[LocalFrame(d)],
         CoreTables(c)', Filled(c)'
  PROVE  TransInv'
<1>1. TablesType' /\ transPc'[c] = to /\ \A d \in Cores : d # c => transPc'[d] = transPc[d]
  BY DEF TransInv, TablesType
<1>2. SharedTables'
  <2> DEFINE Untouched(u) == \A y \in Indexes : tables'[u][y] = tables[u][y]
  <2>1. ASSUME NEW u \in Tables, u \notin {OwnPml4(c), OwnPdpt(c), OwnPdir(c)}
        PROVE  Untouched(u)
    BY <2>1
  <2>2. /\ Untouched(BootPml4) /\ Untouched(OwnPdpt(Shared)) /\ Untouched(OwnPdir(Shared))
        /\ Untouched(GlobalPdpt) /\ Untouched(GlobalPdir)
    <3> HIDE DEF Untouched
    <3> QED
      BY <2>1, TablesApart, TablesDiffer, SharedAssumption
  <2> QED
    BY <2>2 DEF TransInv, SharedTables, Indexes
<1>3. ASSUME NEW d \in Cores, d # c PROVE CoreTables(d)' /\ Filled(d)'
  <2>1. CoreTables(d) /\ Filled(d)
    BY DEF TransInv
  <2>2. \A u \in {OwnPml4(d), OwnPdpt(d), OwnPdir(d)}, y \in Indexes : tables'[u][y] = tables[u][y]
    <3>1. \A u \in {OwnPml4(d), OwnPdpt(d), OwnPdir(d)} :
            u \in Tables /\ u \notin {OwnPml4(c), OwnPdpt(c), OwnPdir(c)}
      BY <1>3, TablesApart, TablesDiffer
    <3> QED
      BY <3>1
  <2> QED
    BY <1>1, <1>3, <2>1, <2>2 DEF CoreTables, Filled, Indexes
<1> QED
  BY <1>1, <1>2, <1>3 DEF TransInv

\* initCpuArch and initCpu of core c.
LEMMA CoreSteps ==
  ASSUME TransInv, NEW c \in Cores, CpuStep(c)
  PROVE  TransInv'
<1>0. /\ TablesType /\ SharedTables /\ CoreTables(c) /\ Filled(c)
      /\ OwnPml4(c) \in Tables /\ OwnPdpt(c) \in Tables /\ OwnPdir(c) \in Tables
      /\ c # Shared
  BY TablesApart, SharedAssumption DEF TransInv
<1>1. CASE Copy(c)
  <2>1. /\ transPc[c] = "copy" /\ archPc = "done" /\ UNCHANGED <<cr3, filled, archPc>>
        /\ transPc' = [transPc EXCEPT ![c] = "pdir"]
        /\ tables' = [tables EXCEPT ![OwnPml4(c)] = tables[cr3[c]],
                                    ![OwnPdpt(c)] = tables[tables[cr3[c]][511]]]
    BY <1>1 DEF Copy, OwnPml4, OwnPdpt, Pml4Index
  <2>2. cr3[c] = BootPml4 /\ tables[cr3[c]][511] = GlobalPdpt
    BY <1>0, <2>1 DEF CoreTables, SharedTables
  <2>3. /\ DOMAIN tables' = Tables
        /\ tables'[OwnPml4(c)] = tables[BootPml4] /\ tables'[OwnPdpt(c)] = tables[GlobalPdpt]
        /\ \A u \in Tables : u \notin {OwnPml4(c), OwnPdpt(c)} => tables'[u] = tables[u]
    BY <1>0, <2>1, <2>2 DEF TablesType, OwnPml4, OwnPdpt
  <2>4. \A u \in Tables : DOMAIN tables'[u] = Indexes
    BY <1>0, <2>3, TablesApart DEF TablesType
  <2>5. transPc'[c] = "pdir" /\ CoreTables(c)' /\ Filled(c)'
    BY <1>0, <2>1, <2>2, <2>3 DEF CoreTables, Filled, SharedTables, TablesType
  <2>6. \A u \in Tables, y \in Indexes :
          u \notin {OwnPml4(c), OwnPdpt(c), OwnPdir(c)} => tables'[u][y] = tables[u][y]
    BY <2>3
  <2> QED
    BY <1>0, <2>1, <2>3, <2>4, <2>5, <2>6, OwnStores DEF TransLabels, TablesType
<1>2. CASE SetPdir(c)
  <2>1. /\ transPc[c] = "pdir" /\ UNCHANGED <<cr3, filled, archPc>>
        /\ transPc' = [transPc EXCEPT ![c] = "pdpt"] /\ Set(OwnPdir(c), 0, LocalFrame(c))
    BY <1>2 DEF SetPdir, OwnPdir, PdirIndex
  <2>2. /\ DOMAIN tables' = Tables /\ \A u \in Tables : DOMAIN tables'[u] = Indexes
        /\ tables'[OwnPdir(c)][0] = LocalFrame(c)
        /\ \A u \in Tables, y \in Indexes :
             u # OwnPdir(c) \/ y # 0 => tables'[u][y] = tables[u][y]
    BY <1>0, <2>1, SetStores DEF Indexes
  <2>3. transPc'[c] = "pdpt" /\ CoreTables(c)' /\ Filled(c)'
    BY <1>0, <2>1, <2>2, TablesDiffer DEF CoreTables, Filled, TablesType, Indexes
  <2>4. \A u \in Tables, y \in Indexes :
          u \notin {OwnPml4(c), OwnPdpt(c), OwnPdir(c)} => tables'[u][y] = tables[u][y]
    BY <2>2
  <2> QED
    BY <1>0, <2>1, <2>2, <2>3, <2>4, OwnStores DEF TransLabels, TablesType
<1>3. CASE SetPdpt(c)
  <2>1. /\ transPc[c] = "pdpt" /\ UNCHANGED <<cr3, filled, archPc>>
        /\ transPc' = [transPc EXCEPT ![c] = "pml4"] /\ Set(OwnPdpt(c), 504, OwnPdir(c))
    BY <1>3 DEF SetPdpt, OwnPdpt, OwnPdir, PdptIndex
  <2>2. /\ DOMAIN tables' = Tables /\ \A u \in Tables : DOMAIN tables'[u] = Indexes
        /\ tables'[OwnPdpt(c)][504] = OwnPdir(c)
        /\ \A u \in Tables, y \in Indexes :
             u # OwnPdpt(c) \/ y # 504 => tables'[u][y] = tables[u][y]
    BY <1>0, <2>1, SetStores DEF Indexes
  <2>3. transPc'[c] = "pml4" /\ CoreTables(c)' /\ Filled(c)'
    BY <1>0, <2>1, <2>2, TablesDiffer DEF CoreTables, Filled, TablesType, Indexes
  <2>4. \A u \in Tables, y \in Indexes :
          u \notin {OwnPml4(c), OwnPdpt(c), OwnPdir(c)} => tables'[u][y] = tables[u][y]
    BY <2>2
  <2> QED
    BY <1>0, <2>1, <2>2, <2>3, <2>4, OwnStores DEF TransLabels, TablesType
<1>4. CASE SetPml4(c)
  <2>1. /\ transPc[c] = "pml4" /\ UNCHANGED <<cr3, filled, archPc>>
        /\ transPc' = [transPc EXCEPT ![c] = "load"] /\ Set(OwnPml4(c), 511, OwnPdpt(c))
    BY <1>4 DEF SetPml4, OwnPdpt, OwnPml4, Pml4Index
  <2>2. /\ DOMAIN tables' = Tables /\ \A u \in Tables : DOMAIN tables'[u] = Indexes
        /\ tables'[OwnPml4(c)][511] = OwnPdpt(c)
        /\ \A u \in Tables, y \in Indexes :
             u # OwnPml4(c) \/ y # 511 => tables'[u][y] = tables[u][y]
    BY <1>0, <2>1, SetStores DEF Indexes
  <2>3. transPc'[c] = "load" /\ CoreTables(c)' /\ Filled(c)'
    BY <1>0, <2>1, <2>2, TablesDiffer DEF CoreTables, Filled, TablesType, Indexes
  <2>4. \A u \in Tables, y \in Indexes :
          u \notin {OwnPml4(c), OwnPdpt(c), OwnPdir(c)} => tables'[u][y] = tables[u][y]
    BY <2>2
  <2> QED
    BY <1>0, <2>1, <2>2, <2>3, <2>4, OwnStores DEF TransLabels, TablesType
<1>5. CASE Load(c)
  <2>1. /\ transPc[c] = "load" /\ UNCHANGED <<tables, filled, archPc>>
        /\ transPc' = [transPc EXCEPT ![c] = "fill"] /\ cr3' = [cr3 EXCEPT ![c] = OwnPml4(c)]
    BY <1>5 DEF Load, OwnPml4
  <2>2. transPc'[c] = "fill" /\ CoreTables(c)' /\ Filled(c)'
    BY <1>0, <2>1 DEF CoreTables, Filled, TablesType
  <2> QED
    BY <1>0, <2>1, <2>2, OwnStores DEF TransLabels, TablesType
<1>6. CASE Fill(c)
  <2>1. /\ transPc[c] = "fill" /\ UNCHANGED <<tables, cr3, archPc>>
        /\ transPc' = [transPc EXCEPT ![c] = "start"]
        /\ filled' = [f \in Frames |-> IF f = LocalFrame(c) THEN filled[f] \cup {c}
                                                           ELSE filled[f]]
    BY <1>6, WalkOnOwn DEF Fill
  <2>2. \A d \in Cores : d # c => filled'[LocalFrame(d)] = filled[LocalFrame(d)]
    BY <2>1, TablesApart DEF LocalFrame
  <2>3. transPc'[c] = "start" /\ CoreTables(c)' /\ Filled(c)'
    BY <1>0, <2>1, TablesApart DEF CoreTables, Filled, TablesType
  <2> QED
    BY <1>0, <2>1, <2>2, <2>3, OwnStores DEF TransLabels, TablesType
<1> QED
  BY <1>1, <1>2, <1>3, <1>4, <1>5, <1>6 DEF CpuStep

LEMMA TransStep ==
  ASSUME SmpInv, TransInv, [Next]_vars
  PROVE  TransInv'
<1>1. CASE UNCHANGED transVars
  <2>1. TablesType' /\ SharedTables'
    BY <1>1 DEF transVars, TransInv, TablesType, SharedTables
  <2>2. ASSUME NEW c \in Cores PROVE CoreTables(c)' /\ Filled(c)'
    <3>1. CoreTables(c) /\ Filled(c)
      BY DEF TransInv
    <3> QED
      BY <1>1, <3>1 DEF transVars, CoreTables, Filled
  <2> QED
    BY <2>1, <2>2 DEF TransInv
<1>2. CASE InitTrans
  BY <1>2, ArchSteps DEF InitTrans
<1>3. ASSUME NEW p \in Cores, InitCpuTrans(p) PROVE TransInv'
  <2>1. location[p] = p /\ CpuStep(location[p])
    BY <1>3 DEF InitCpuTrans, SmpInv, HandOff
  <2> QED
    BY <2>1, CoreSteps
<1>4. CASE InitMem \/ FillIdt \/ SilenceIrqs \/ AllocAltstack \/ InitSmp
  BY <1>1, <1>4 DEF InitMem, FillIdt, SilenceIrqs, AllocAltstack, InitSmp
<1>5. ASSUME NEW p \in Cores, StartProcessor(p) \/ Cpu(p) PROVE TransInv'
  BY <1>1, <1>3, <1>5 DEF StartProcessor, Cpu, TakeLocation, EnableOwnLapic, AllocStacks,
     SwitchStack, Publish
<1>6. CASE UNCHANGED vars
  BY <1>1, <1>6 DEF vars
<1> QED
  BY <1>2, <1>4, <1>5, <1>6 DEF Next, BootStep

LEMMA TransStarts == Init => TransInv
<1> SUFFICES ASSUME Init PROVE TransInv
  OBVIOUS
<1>1. /\ tables = BootTables /\ cr3 = [c \in Cores |-> BootPml4]
      /\ filled = [f \in Frames |-> {}] /\ archPc = "pdir"
      /\ transPc = [c \in Cores |-> "copy"]
  BY DEF Init, TransInit
<1>2. /\ DOMAIN tables = Tables /\ \A t \in Tables : DOMAIN tables[t] = Indexes
      /\ tables[BootPml4][0] = OwnPdpt(Shared) /\ tables[BootPml4][511] = Absent
      /\ tables[OwnPdpt(Shared)][0] = OwnPdir(Shared)
      /\ tables[OwnPdir(Shared)][0] = LowFrame
      /\ tables[GlobalPdpt][504] = Absent
  BY <1>1, TablesApart DEF BootTables, Empty, Indexes, OwnPdpt, OwnPdir, GlobalPdpt, BootPml4
<1>3. TablesType /\ SharedTables
  BY <1>1, <1>2 DEF TablesType, SharedTables, ArchLabels, TransLabels
<1>4. \A c \in Cores : CoreTables(c) /\ Filled(c)
  BY <1>1, TablesApart DEF CoreTables, Filled
<1> QED
  BY <1>3, <1>4 DEF TransInv

LEMMA TransInvariance == Spec => []TransInv
<1> QED
  BY TransStarts, TransStep, SmpInvariance, PTL DEF Spec

\* No core ever loses the memory its code and stack are in, and every core sees
\* the global table as soon as initArch has put it in.
THEOREM SharedStaysMapped == Spec => []SharedMapped
<1>1. TransInv => SharedMapped
  <2> SUFFICES ASSUME TransInv, NEW c \in Cores
               PROVE  /\ Walk(c, "low") = LowFrame
                      /\ archPc = "done" => Walk(c, "global") = GlobalFrame
    BY DEF SharedMapped
  <2>1. cr3[c] = BootPml4 \/ transPc[c] \in {"fill", "start"}
    BY DEF TransInv, CoreTables
  <2> QED
    BY <2>1, WalkOnBoot, WalkOnOwn
<1> QED
  BY <1>1, TransInvariance, PTL

\* The page of the local table never leads a core to another core's memory.
THEOREM LocalIsPrivate == Spec => []LocalPrivate
<1>1. TransInv => LocalPrivate
  <2> SUFFICES ASSUME TransInv, NEW c \in Cores
               PROVE  Walk(c, "local") \in {Absent, LocalFrame(c)}
    BY DEF LocalPrivate
  <2>1. cr3[c] = BootPml4 \/ transPc[c] \in {"fill", "start"}
    BY DEF TransInv, CoreTables
  <2> QED
    BY <2>1, WalkOnBoot, WalkOnOwn
<1> QED
  BY <1>1, TransInvariance, PTL

-----------------------------------------------------------------------------
(* What a core has when it starts the application.                           *)

Equipped(p) ==
  /\ cpuPc[p] = "app" => transPc[p] = "start"
  /\ cpuPc[p] \in {"switch", "publish", "trans", "app"} => altstack[p] = p

ReadyInv ==
  /\ bootPc \in {"irq", "smp", "done"} => idt = [v \in Vectors |-> IdtGate(exceptionTable[v])]
  /\ bootPc \in {"smp", "done"} => DOMAIN altstack = 0 .. nCores - 1
  /\ \A p \in Cores : Equipped(p)

\* The two halves of the address of a stub give it back.
LEMMA GateLeadsToStub ==
  ASSUME NEW v \in Vectors
  PROVE  IdtGate(exceptionTable[v]).p = 1 /\ Target(IdtGate(exceptionTable[v])) = exception(v)
<1>1. exceptionTable[v] = exception(v) /\ exception(v) \in Nat
  BY DEF exceptionTable, Vectors, exception
<1>2. \A a \in Nat : (a % 65536) + 65536 * (a \div 65536) = a
  OBVIOUS
<1> QED
  BY <1>1, <1>2 DEF IdtGate, Target

LEMMA ReadyBoot ==
  ASSUME SmpInv, ReadyInv, BootStep
  PROVE  ReadyInv'
<1>1. bootPc # "done" /\ \A p \in Cores : cpuPc[p] = "off"
  BY DEF SmpInv, BootStep, InitMem, InitTrans, FillIdt, SilenceIrqs, AllocAltstack, InitSmp
<1>2. CASE SilenceIrqs
  BY <1>1, <1>2 DEF SilenceIrqs, transVars, bootVars, cpuVars, ReadyInv, Equipped
<1>3. CASE InitMem \/ InitTrans \/ FillIdt \/ AllocAltstack
  <2>1. cpuPc' = cpuPc
    BY <1>3 DEF InitMem, InitTrans, FillIdt, AllocAltstack, cpuVars
  <2>2. \A p \in Cores : Equipped(p)'
    BY <1>1, <2>1 DEF Equipped
  <2> QED
    BY <1>3, <2>2 DEF InitMem, InitTrans, FillIdt, AllocAltstack, ReadyInv
<1>4. CASE InitSmp
  <2>1. /\ UNCHANGED <<nCores, idt, altstack>> /\ bootPc = "smp"
        /\ cpuPc' = [cpuPc EXCEPT ![0] = "entry"]
    BY <1>4 DEF InitSmp
  <2>2. \A p \in Cores : cpuPc'[p] \in {"off", "entry"}
    BY <1>1, <2>1 DEF SmpInv, SmpTypeOK
  <2> QED
    BY <2>1, <2>2 DEF ReadyInv, Equipped
<1> QED
  BY <1>2, <1>3, <1>4 DEF BootStep

LEMMA ReadyCpu ==
  ASSUME SmpInv, TransInv, ReadyInv, NEW p \in Cores, StartProcessor(p) \/ Cpu(p)
  PROVE  ReadyInv'
<1>1. bootPc = "done" /\ UNCHANGED <<bootPc, nCores, idt>>
  BY DEF SmpInv, StartProcessor, Cpu, TakeLocation, EnableOwnLapic, AllocStacks, SwitchStack,
     Publish, InitCpuTrans, bootVars
<1>2. PICK to \in CpuLabels : cpuPc' = [cpuPc EXCEPT ![p] = to]
  BY DEF StartProcessor, Cpu, TakeLocation, EnableOwnLapic, AllocStacks, SwitchStack, Publish,
     InitCpuTrans, SmpInv, SmpTypeOK, CpuLabels
<1>3. cpuPc'[p] = to /\ \A q \in Cores : q # p => cpuPc'[q] = cpuPc[q]
  BY <1>2 DEF SmpInv, SmpTypeOK
<1>4. CASE AllocStacks(p)
  <2>1. /\ altstack' = [altstack EXCEPT ![p] = p] /\ p \in DOMAIN altstack
        /\ transPc' = transPc /\ cpuPc[p] = "stacks" /\ to = "switch"
    BY <1>1, <1>3, <1>4, LocatedWithin DEF AllocStacks, Located, ReadyInv, transVars, SmpInv, SmpTypeOK
  <2>2. ASSUME NEW q \in Cores PROVE Equipped(q)'
    <3>1. CASE q = p
      BY <1>3, <2>1, <3>1 DEF Equipped
    <3>2. CASE q # p
      <4>1. altstack[q] = q => altstack'[q] = q \/ q \notin DOMAIN altstack
        BY <2>1, <3>2
      <4>2. cpuPc[q] \in {"switch", "publish", "trans", "app"} => q \in DOMAIN altstack
        BY <1>1, LocatedWithin DEF Located, ReadyInv
      <4> QED
        BY <1>3, <2>1, <3>2, <4>1, <4>2 DEF Equipped, ReadyInv
    <3> QED
      BY <3>1, <3>2
  <2> QED
    BY <1>1, <2>1, <2>2 DEF ReadyInv
<1>5. CASE InitCpuTrans(p)
  <2>1. /\ altstack' = altstack /\ location[p] = p /\ cpuPc[p] = "trans" /\ CpuStep(p)
        /\ to = "app" => transPc'[p] = "start"
    BY <1>3, <1>5 DEF InitCpuTrans, bootVars, SmpInv, HandOff, SmpTypeOK
  <2>2. \A q \in Cores : q # p => transPc'[q] = transPc[q]
    BY <2>1 DEF CpuStep, Copy, SetPdir, SetPdpt, SetPml4, Load, Fill, TransInv, TablesType
  <2> QED
    BY <1>1, <1>3, <2>1, <2>2 DEF ReadyInv, Equipped
<1>6. CASE ~AllocStacks(p) /\ ~InitCpuTrans(p)
  <2>1. UNCHANGED <<altstack, transPc>>
    BY <1>6 DEF StartProcessor, Cpu, TakeLocation, EnableOwnLapic, SwitchStack, Publish,
       bootVars, transVars
  <2>2. \/ to \in {"entry", "lapic", "stacks"}
        \/ cpuPc[p] = "switch" /\ to = "publish"
        \/ cpuPc[p] = "publish" /\ to = "trans"
    <3>1. cpuPc \in [Cores -> CpuLabels]
      BY DEF SmpInv, SmpTypeOK
    <3>2. CASE StartProcessor(p)
      BY <1>3, <3>1, <3>2 DEF StartProcessor
    <3>3. CASE Cpu(p)
      BY <1>3, <1>6, <3>1, <3>3 DEF Cpu, TakeLocation, EnableOwnLapic, SwitchStack, Publish
    <3> QED
      BY <3>2, <3>3
  <2> QED
    BY <1>1, <1>3, <2>1, <2>2 DEF ReadyInv, Equipped
<1> QED
  BY <1>4, <1>5, <1>6

LEMMA ReadyStarts == Init => ReadyInv
<1> QED
  BY DEF Init, ReadyInv, Equipped

LEMMA ReadyInvariance == Spec => []ReadyInv
<1>1. SmpInv /\ TransInv /\ ReadyInv /\ [Next]_vars => ReadyInv'
  <2>1. UNCHANGED vars /\ ReadyInv => ReadyInv'
    BY DEF vars, transVars, bootVars, cpuVars, ReadyInv, Equipped
  <2> QED
    BY <2>1, ReadyBoot, ReadyCpu DEF Next
<1> QED
  BY <1>1, ReadyStarts, SmpInvariance, TransInvariance, PTL DEF Spec

\* A core that starts the application has its own stack, its own altstack and
\* the table it has filled itself, and an IDT that leads to the stubs.
THEOREM CoresArePrepared == Spec => []AppPrepared
<1>1. SmpInv /\ TransInv /\ ReadyInv => AppPrepared
  <2> SUFFICES ASSUME SmpInv, TransInv, ReadyInv PROVE AppPrepared
    OBVIOUS
  <2>1. LocalFilled
    BY DEF LocalFilled, TransInv, Filled
  <2>2. ASSUME NEW p \in Cores, cpuPc[p] = "app"
        PROVE  /\ rsp[p] = location[p] /\ altstack[location[p]] = location[p]
               /\ filled[LocalFrame(location[p])] = {location[p]}
               /\ \A v \in Vectors : idt[v].p = 1 /\ Target(idt[v]) = exception(v)
    <3>1. rsp[p] = p /\ location[p] = p /\ bootPc = "done"
      BY <2>2 DEF SmpInv, HandOff
    <3>2. altstack[p] = p /\ transPc[p] = "start"
      BY <2>2 DEF ReadyInv, Equipped
    <3>3. filled[LocalFrame(p)] = {p}
      BY <3>2 DEF TransInv, Filled
    <3>4. \A v \in Vectors : idt[v] = IdtGate(exceptionTable[v])
      BY <3>1 DEF ReadyInv
    <3> QED
      BY <3>1, <3>2, <3>3, <3>4, GateLeadsToStub
  <2> QED
    BY <2>1, <2>2 DEF AppPrepared
<1> QED
  BY <1>1, SmpInvariance, TransInvariance, ReadyInvariance, PTL
=============================================================================
