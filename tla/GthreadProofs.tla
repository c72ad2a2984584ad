---------------------------- MODULE GthreadProofs ----------------------------
(***************************************************************************)
(* For any cores, any number of slots and any calls: once runs func once,  *)
(* the mutex has one holder, and keys keep their values.  The three        *)
(* primitives share only pc, so each action is proved to preserve the part *)
(* of the invariant it can disturb, and the other parts follow from what   *)
(* it leaves alone.                                                        *)
(***************************************************************************)
EXTENDS Gthread, TLAPS

InOnce == {"func", "store", "spin", "return"}

OnceInv ==
  /\ once \in 0 .. 2
  /\ begun \in Nat
  /\ ended \in Nat
  /\ OnceExact
  /\ Control

MutexInv ==
  /\ mutex \in {0, 1}
  /\ holders \subseteq Cores
  /\ HeldByOne

KeysInv ==
  /\ key_index \in Nat
  /\ key_array \in [0 .. NUM_KEYS -> Values \cup {NULL, Beyond}]
  /\ index \in [Cores -> Nat]
  /\ keys \in Seq([slot : Slots, value : Values \cup {NULL}])
  /\ ValueKept
  /\ Indexes

PcOK == pc \in [Cores -> Labels]

\* The invariant is the conjunction of its parts, before a step and after it.
LEMMA Parts == IInv <=> PcOK /\ OnceInv /\ MutexInv /\ KeysInv
  BY DEF IInv, TypeOK, PcOK, OnceInv, MutexInv, KeysInv

LEMMA PartsNext == (PcOK /\ OnceInv /\ MutexInv /\ KeysInv)' => IInv'
  BY DEF IInv, TypeOK, PcOK, OnceInv, MutexInv, KeysInv

\* A fresh control, mutex and key array satisfy the invariant.
LEMMA InitIInv == Init => IInv
<1> SUFFICES ASSUME Init PROVE IInv
  OBVIOUS
<1>1. PcOK
  BY DEF Init, PcOK, Labels
<1>2. OnceInv
  BY DEF Init, OnceInv, OnceExact, Control
<1>3. MutexInv
  BY DEF Init, MutexInv, HeldByOne
<1>4. KeysInv
  <2>1. keys = << >> /\ Len(keys) = 0 /\ key_array[NUM_KEYS] = Beyond
    BY KeysAssumption DEF Init, Slots
  <2>2. key_array \in [0 .. NUM_KEYS -> Values \cup {NULL, Beyond}]
    BY DEF Init
  <2>3. key_index \in Nat /\ index \in [Cores -> Nat]
    BY DEF Init
  <2>4. \A c \in Cores : pc[c] # "fetched"
    BY DEF Init
  <2>5. ValueKept /\ Indexes
    BY <2>1, <2>4 DEF ValueKept, Indexes
  <2> QED
    BY <2>1, <2>2, <2>3, <2>5 DEF KeysInv
<1> QED
  BY <1>1, <1>2, <1>3, <1>4, Parts

\* An action that moves one core without touching the once control, and into
\* and out of labels outside once, preserves once's part.
LEMMA OnceUntouched ==
  ASSUME PcOK, OnceInv, UNCHANGED onceVars,
         NEW c \in Cores, NEW from \in Labels \ InOnce, NEW to \in Labels \ InOnce,
         Goto(c, from, to)
  PROVE  OnceInv'
  BY DEF PcOK, OnceInv, onceVars, InOnce, Goto, OnceExact, Control

\* An action that leaves the word and the holders alone preserves the mutex's
\* part.
LEMMA MutexUntouched == MutexInv /\ UNCHANGED mutexVars => MutexInv'
  BY DEF MutexInv, mutexVars, HeldByOne

\* An action that leaves the keys alone and moves no core into key_create
\* preserves the keys' part.
LEMMA KeysUntouched ==
  ASSUME PcOK, KeysInv, UNCHANGED keyVars,
         NEW c \in Cores, NEW from, NEW to \in Labels \ {"fetched"}, Goto(c, from, to)
  PROVE  KeysInv'
  BY DEF PcOK, KeysInv, keyVars, Goto, ValueKept, Indexes

\* once: whoever runs func found the control 0 and has made it 1, so nobody
\* else runs it; the control is 2 only after func has returned.
LEMMA OnceSteps ==
  ASSUME IInv, NEW c \in Cores,
         \/ EnterFirst(c) \/ EnterLater(c) \/ FuncReturns(c)
         \/ StoreDone(c) \/ SpinEnds(c) \/ Return(c)
  PROVE  IInv'
<1> USE DEF PcOK, InOnce, Labels
<1>1. PcOK /\ OnceInv /\ MutexInv /\ KeysInv
  BY Parts
<1>2. PcOK'
  BY <1>1 DEF EnterFirst, EnterLater, FuncReturns, StoreDone, SpinEnds, Return, Goto
<1>3. UNCHANGED <<mutexVars, keyVars>>
  BY DEF EnterFirst, EnterLater, FuncReturns, StoreDone, SpinEnds, Return
<1>4. \E from \in Labels, to \in Labels \ {"fetched"} : Goto(c, from, to)
  BY DEF EnterFirst, EnterLater, FuncReturns, StoreDone, SpinEnds, Return
<1>5. MutexInv' /\ KeysInv'
  BY <1>1, <1>3, <1>4, MutexUntouched, KeysUntouched
<1>6. OnceInv'
  <2> USE <1>1 DEF OnceInv, OnceExact, Control, Goto, onceVars
  <2>1. CASE EnterFirst(c)
    BY <2>1 DEF EnterFirst
  <2>2. CASE EnterLater(c)
    BY <2>2 DEF EnterLater
  <2>3. CASE FuncReturns(c)
    BY <2>3 DEF FuncReturns
  <2>4. CASE StoreDone(c)
    BY <2>4 DEF StoreDone
  <2>5. CASE SpinEnds(c)
    BY <2>5 DEF SpinEnds
  <2>6. CASE Return(c)
    BY <2>6 DEF Return
  <2> QED
    BY <2>1, <2>2, <2>3, <2>4, <2>5, <2>6
<1> QED
  BY <1>2, <1>5, <1>6, PartsNext

\* The mutex: the compare and swap finds no holder, and the one that unlocks is
\* the only one.
LEMMA MutexSteps ==
  ASSUME IInv, NEW c \in Cores,
         \/ \E op \in {"lock", "trylock"} : Call(c, op)
         \/ Lock(c) \/ TryLock(c) \/ TryLockBusy(c) \/ Unlock(c)
  PROVE  IInv'
<1> USE DEF Labels
<1>1. PcOK /\ OnceInv /\ MutexInv /\ KeysInv
  BY Parts
<1>2. PICK from \in Labels \ (InOnce \cup {"fetched"}),
           to \in Labels \ (InOnce \cup {"fetched"}) : Goto(c, from, to)
  BY DEF Call, Lock, TryLock, TryLockBusy, Unlock, InOnce
<1>3. UNCHANGED <<onceVars, keyVars>>
  BY DEF Call, Lock, TryLock, Swap, TryLockBusy, Unlock, mutexVars
<1>4. PcOK'
  BY <1>1, <1>2 DEF PcOK, Goto
<1>5. OnceInv' /\ KeysInv'
  BY <1>1, <1>2, <1>3, OnceUntouched, KeysUntouched
<1>6. MutexInv'
  <2>1. CASE Lock(c) \/ TryLock(c)
    BY <1>1, <2>1 DEF Lock, TryLock, Swap, MutexInv, HeldByOne
  <2>2. CASE Unlock(c)
    BY <1>1, <2>2 DEF Unlock, MutexInv, HeldByOne
  <2>3. CASE TryLockBusy(c) \/ \E op \in {"lock", "trylock"} : Call(c, op)
    BY <1>1, <2>3, MutexUntouched DEF TryLockBusy, Call
  <2> QED
    BY <2>1, <2>2, <2>3
<1> QED
  BY <1>4, <1>5, <1>6, PartsNext

\* What the elements of a sequence are, and what appending one or replacing one
\* gives.
LEMMA AppendFacts ==
  ASSUME NEW S, NEW s \in Seq(S)
  PROVE  /\ Len(s) \in Nat
         /\ \A k \in 1 .. Len(s) : s[k] \in S
         /\ \A x \in S : /\ Append(s, x) \in Seq(S)
                          /\ Len(Append(s, x)) = Len(s) + 1
                          /\ \A k \in 1 .. Len(s) : Append(s, x)[k] = s[k]
                          /\ Append(s, x)[Len(s) + 1] = x
  OBVIOUS

LEMMA ReplaceFacts ==
  ASSUME NEW S, NEW s \in Seq(S), NEW k \in 1 .. Len(s), NEW x \in S
  PROVE  /\ [s EXCEPT ![k] = x] \in Seq(S)
         /\ Len([s EXCEPT ![k] = x]) = Len(s)
         /\ [s EXCEPT ![k] = x][k] = x
         /\ \A l \in 1 .. Len(s) : l # k => [s EXCEPT ![k] = x][l] = s[l]
  OBVIOUS

\* Keys: an index is fetched by one core and turned into one key, so a slot
\* has one owner and storing there concerns one key.
LEMMA KeySteps ==
  ASSUME IInv, NEW c \in Cores,
         \/ Create(c) \/ TakeSlot(c) \/ NoSlot(c)
         \/ \E k \in 1 .. Len(keys), value \in Values : SetSpecific(c, k, value)
  PROVE  IInv'
<1> USE DEF Labels
<1>1. PcOK /\ OnceInv /\ MutexInv /\ KeysInv
  BY Parts
<1>2. PICK from \in Labels \ InOnce, to \in Labels \ InOnce : Goto(c, from, to)
  BY DEF Create, TakeSlot, NoSlot, SetSpecific, InOnce
<1>3. UNCHANGED <<onceVars, mutexVars>>
  BY DEF Create, TakeSlot, NoSlot, SetSpecific
<1>4. PcOK'
  BY <1>1, <1>2 DEF PcOK, Goto
<1>5. OnceInv' /\ MutexInv'
  BY <1>1, <1>2, <1>3, OnceUntouched, MutexUntouched
<1>6. KeysInv'
  <2> USE <1>1 DEF KeysInv, PcOK
  <2> DEFINE Keys == [slot : Slots, value : Values \cup {NULL}]
  <2>0. /\ Len(keys) \in Nat
        /\ \A k \in 1 .. Len(keys) : keys[k] \in Keys
        /\ \A k \in 1 .. Len(keys) : keys[k].slot \in Slots
    <3>1. Len(keys) \in Nat /\ \A k \in 1 .. Len(keys) : keys[k] \in Keys
      BY AppendFacts
    <3> QED
      BY <3>1
  <2>1. CASE Create(c)
    <3>1. /\ key_index' = key_index + 1 /\ index' = [index EXCEPT ![c] = key_index]
          /\ key_array' = key_array /\ keys' = keys
          /\ pc' = [pc EXCEPT ![c] = "fetched"] /\ pc[c] = "idle"
      BY <2>1 DEF Create, Goto
    <3>2. ValueKept'
      BY <3>1 DEF ValueKept
    <3>3. \A k \in 1 .. Len(keys) : keys[k].slot \in Nat
      BY <2>0, KeysAssumption DEF Slots
    <3>4. Indexes'
      <4> HIDE DEF Keys
      <4> QED
        BY <3>1, <3>3 DEF Indexes
    <3> QED
      BY <3>1, <3>2, <3>4
  <2>2. CASE NoSlot(c)
    BY <2>2, KeysUntouched DEF NoSlot
  <2>3. CASE TakeSlot(c)
    <3> DEFINE i == index[c]
               n == Len(keys)
    <3>1. i \in Slots /\ i < key_index /\ i # NUM_KEYS
      BY <2>3, KeysAssumption DEF TakeSlot, HasSlot, Goto, Indexes, Slots
    <3>2. /\ keys' \in Seq([slot : Slots, value : Values \cup {NULL}])
          /\ Len(keys') = n + 1
          /\ \A k \in 1 .. n : keys'[k] = keys[k]
          /\ keys'[n + 1] = [slot |-> i, value |-> NULL]
      <4>1. [slot |-> i, value |-> NULL] \in Keys
        BY <3>1
      <4>2. keys' = Append(keys, [slot |-> i, value |-> NULL])
        BY <2>3 DEF TakeSlot
      <4> HIDE DEF Keys, i
      <4>3. /\ keys' \in Seq(Keys)
            /\ Len(keys') = n + 1
            /\ \A k \in 1 .. n : keys'[k] = keys[k]
            /\ keys'[n + 1] = [slot |-> i, value |-> NULL]
        BY <4>1, <4>2, AppendFacts DEF Keys
      <4> QED
        BY <4>3 DEF Keys
    <3>3. /\ key_array' = [key_array EXCEPT ![i] = NULL]
          /\ key_index' = key_index /\ index' = index
          /\ pc[c] = "fetched" /\ pc' = [pc EXCEPT ![c] = "idle"]
      BY <2>3 DEF TakeSlot, Goto
    <3>4. n \in Nat /\ \A k \in 1 .. n : keys[k].slot \in Slots /\ keys[k].slot # i
      BY <2>0, <3>3 DEF Indexes
    <3> HIDE DEF i, n
    <3>5. key_array' \in [0 .. NUM_KEYS -> Values \cup {NULL, Beyond}]
      BY <3>3
    <3>6. ValueKept'
      <4>1. /\ keys'[n + 1].slot = i /\ keys'[n + 1].value = NULL
            /\ key_array'[i] = NULL
        BY <3>1, <3>2, <3>3, KeysAssumption DEF Slots
      <4>2. ASSUME NEW k \in 1 .. n
            PROVE  key_array'[keys'[k].slot] = keys'[k].value
        <5>1. keys'[k] = keys[k] /\ keys[k].slot \in Slots /\ keys[k].slot # i
          BY <3>2, <3>4
        <5>2. key_array'[keys[k].slot] = key_array[keys[k].slot]
          BY <3>3, <5>1, KeysAssumption DEF Slots
        <5>3. key_array[keys[k].slot] = keys[k].value
          BY DEF ValueKept, n
        <5> QED
          BY <5>1, <5>2, <5>3
      <4>3. \A k \in 1 .. Len(keys') : k \in 1 .. n \/ k = n + 1
        BY <3>2, <3>4
      <4>4. key_array'[NUM_KEYS] = Beyond
        BY <3>1, <3>3, KeysAssumption DEF ValueKept
      <4> QED
        BY <4>1, <4>2, <4>3, <4>4 DEF ValueKept
    <3>7. Indexes'
      <4>1. \A k \in 1 .. Len(keys') : k \in 1 .. n \/ k = n + 1
        BY <3>2, <3>4
      <4>2. keys'[n + 1].slot = i
        BY <3>2
      <4>3. \A k \in 1 .. n : keys'[k].slot = keys[k].slot /\ keys[k].slot # i
        BY <3>2, <3>4
      <4>4. \A d \in Cores : pc'[d] = "fetched" => pc[d] = "fetched" /\ d # c
        BY <3>3
      <4>5. \A d \in Cores : pc[d] = "fetched" /\ d # c => index[d] # i
        BY <3>3 DEF Indexes, i
      <4>6. \A k \in 1 .. n : /\ keys[k].slot < key_index
                             /\ \A l \in 1 .. n : keys[k].slot = keys[l].slot => k = l
                             /\ \A d \in Cores : pc[d] = "fetched" => index[d] # keys[k].slot
        BY DEF Indexes, n
      <4>7. \A k \in 1 .. Len(keys') :
              /\ keys'[k].slot < key_index
              /\ \A d \in Cores : pc'[d] = "fetched" => index[d] # keys'[k].slot
        BY <3>1, <4>1, <4>2, <4>3, <4>4, <4>5, <4>6
      <4>8. \A k, l \in 1 .. Len(keys') : keys'[k].slot = keys'[l].slot => k = l
        BY <4>1, <4>2, <4>3, <4>6
      <4>9. /\ \A d \in Cores : pc'[d] = "fetched" => index[d] < key_index
            /\ \A d, e \in Cores :
                 pc'[d] = "fetched" /\ pc'[e] = "fetched" /\ index[d] = index[e] => d = e
        BY <4>4 DEF Indexes
      <4> QED
        BY <3>3, <4>7, <4>8, <4>9 DEF Indexes
    <3> QED
      BY <3>2, <3>3, <3>5, <3>6, <3>7
  <2>4. CASE \E k \in 1 .. Len(keys), value \in Values : SetSpecific(c, k, value)
    <3>1. PICK k \in 1 .. Len(keys), value \in Values : SetSpecific(c, k, value)
      BY <2>4
    <3>2. /\ keys[k].slot \in Slots
          /\ [keys[k] EXCEPT !.value = value] \in Keys
          /\ [keys[k] EXCEPT !.value = value].slot = keys[k].slot
          /\ [keys[k] EXCEPT !.value = value].value = value
          /\ keys' = [keys EXCEPT ![k] = [keys[k] EXCEPT !.value = value]]
          /\ key_array' = [key_array EXCEPT ![keys[k].slot] = value]
          /\ key_index' = key_index /\ index' = index
          /\ pc' = pc
      <4>1. keys[k] \in Keys /\ keys[k].slot \in Slots
        BY <2>0
      <4>2. keys' = [keys EXCEPT ![k] = [keys[k] EXCEPT !.value = value]]
        BY <3>1 DEF SetSpecific
      <4>3. /\ key_array' = [key_array EXCEPT ![keys[k].slot] = value]
            /\ key_index' = key_index /\ index' = index /\ pc' = pc
        BY <3>1 DEF SetSpecific, Goto
      <4> QED
        BY <4>1, <4>2, <4>3
    <3>3. /\ keys' \in Seq([slot : Slots, value : Values \cup {NULL}])
          /\ Len(keys') = Len(keys)
          /\ \A l \in 1 .. Len(keys) : keys'[l].slot = keys[l].slot
          /\ \A l \in 1 .. Len(keys) : l # k => keys'[l] = keys[l]
          /\ keys'[k].value = value
      <4> DEFINE new == [keys[k] EXCEPT !.value = value]
      <4>1. new \in Keys /\ new.slot = keys[k].slot /\ new.value = value
            /\ keys' = [keys EXCEPT ![k] = new]
        BY <3>2
      <4> HIDE DEF new, Keys
      <4>2. /\ keys' \in Seq(Keys) /\ Len(keys') = Len(keys) /\ keys'[k] = new
            /\ \A l \in 1 .. Len(keys) : l # k => keys'[l] = keys[l]
        BY <4>1, ReplaceFacts DEF Keys
      <4> QED
        BY <4>1, <4>2 DEF Keys
    <3>4. key_array' \in [0 .. NUM_KEYS -> Values \cup {NULL, Beyond}]
      BY <3>2
    <3>5. ValueKept'
      <4> HIDE DEF Keys
      <4> QED
        BY <2>0, <3>2, <3>3, KeysAssumption DEF ValueKept, Indexes, Slots
    <3>6. Indexes'
      BY <3>2, <3>3 DEF Indexes
    <3> QED
      BY <3>2, <3>3, <3>4, <3>5, <3>6
  <2> QED
    BY <2>1, <2>2, <2>3, <2>4
<1> QED
  BY <1>4, <1>5, <1>6, PartsNext

LEMMA StepIInv == IInv /\ [Next]_vars => IInv'
<1> SUFFICES ASSUME IInv, [Next]_vars PROVE IInv'
  OBVIOUS
<1>1. ASSUME NEW c \in Cores, Step(c) \/ Begin(c) PROVE IInv'
  BY <1>1, OnceSteps, MutexSteps, KeySteps DEF Step, Begin
<1>2. CASE UNCHANGED vars
  BY <1>2 DEF vars, onceVars, mutexVars, keyVars, IInv, TypeOK, OnceExact,
              HeldByOne, ValueKept, Control, Indexes
<1> QED
  BY <1>1, <1>2 DEF Next

\* The inductive invariant of once, the mutex and the keys.
THEOREM Invariance == Spec => []IInv
  BY InitIInv, StepIInv, PTL DEF Spec

\* Every variable keeps its type: in particular a key is a slot of key_array.
THEOREM TypeCorrect == Spec => []TypeOK
<1>1. IInv => TypeOK
  BY DEF IInv
<1> QED
  BY Invariance, <1>1, PTL

\* func runs at most once, and before any call of once returns, for any number
\* of racing cores.
THEOREM OnceIsOnce == Spec => []OnceExact
<1>1. IInv => OnceExact
  BY DEF IInv
<1> QED
  BY Invariance, <1>1, PTL

\* The mutex has one holder at a time and is taken just while it has one.
THEOREM MutexExcludes == Spec => []HeldByOne
<1>1. IInv => HeldByOne
  BY DEF IInv
<1> QED
  BY Invariance, <1>1, PTL

\* A key keeps what was stored under it and nothing is written behind the
\* array, for any number of slots and of calls of key_create.
THEOREM KeysKeepValues == Spec => []ValueKept
<1>1. IInv => ValueKept
  BY DEF IInv
<1> QED
  BY Invariance, <1>1, PTL
=============================================================================
