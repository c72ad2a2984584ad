-------------------------- MODULE RecSpinlockProofs --------------------------
(***************************************************************************)
(* For every set of cores and every recursion limit, the limit itself      *)
(* included: the inner spinlock excludes, and count is exact.              *)
(***************************************************************************)
EXTENDS RecSpinlock, TLAPS

\* The initial value of the mutex satisfies the inductive invariant.
LEMMA InitIInv == Init => IInv
<1> SUFFICES ASSUME Init PROVE IInv
  OBVIOUS
<1>1. TypeOK
  <2>1. held \in [Cores -> Int] /\ pc \in [Cores -> Labels] /\ op \in [Cores -> Ops]
    BY DEF Init, Labels, Ops
  <2>2. inner \in BOOLEAN
    BY DEF Init
  <2>3. count \in Int /\ loc \in Int /\ holds \in Int
    BY DEF Init
  <2> QED
    BY <2>1, <2>2, <2>3 DEF TypeOK
<1>2. InnerExclusion /\ PendingExact
  BY DEF Init, InnerExclusion, PendingExact, Inside
<1> QED
  BY <1>1, <1>2 DEF IInv

\* One step per action.  The core that acts is inside alone once it has taken
\* the inner lock, so what it does to count concerns nobody else's claim.
LEMMA StepIInv == IInv /\ [Next]_vars => IInv'
<1> SUFFICES ASSUME IInv, [Next]_vars PROVE IInv'
  OBVIOUS
<1> USE DEF IInv, TypeOK, Labels, Ops, InnerExclusion, Inside, PendingExact
<1>1. ASSUME NEW c \in Cores, NEW o \in Ops, Begin(c, o) PROVE IInv'
  BY <1>1 DEF Begin
<1>2. ASSUME NEW c \in Cores, TakeInner(c) PROVE IInv'
  BY <1>2 DEF TakeInner
<1>3. ASSUME NEW c \in Cores, TryLock(c) PROVE IInv'
  BY <1>3 DEF TryLock, MYLOC
<1>4. ASSUME NEW c \in Cores, Unlock(c) PROVE IInv'
  BY <1>4 DEF Unlock
<1>5. ASSUME NEW c \in Cores, GiveInner(c) PROVE IInv'
  <2> DEFINE change == CASE pc[c] = "granted"  -> 1
                         [] pc[c] = "refused"  -> 0
                         [] pc[c] = "released" -> -1
  <2>1. /\ change \in Int
        /\ pc[c] = "granted" => change = 1
        /\ pc[c] = "refused" => change = 0
        /\ pc[c] = "released" => change = -1
    BY <1>5 DEF GiveInner
  <2>2. /\ held' = [held EXCEPT ![c] = @ + change]
        /\ holds' = holds + change
    BY <1>5 DEF GiveInner
  <2> HIDE DEF change
  <2>3. inner' = FALSE /\ count' = count /\ loc' = loc /\ op' = op
    BY <1>5 DEF GiveInner
  <2>4. /\ pc' \in [Cores -> Labels] /\ pc'[c] \in {"idle", "spin"}
        /\ \A d \in Cores : d # c => pc'[d] = pc[d] /\ pc[d] \notin Inside
    BY <1>5 DEF GiveInner
  <2>5. TypeOK'
    <3>1. held' \in [Cores -> Int]
      BY <2>1, <2>2
    <3>2. inner' \in BOOLEAN
      BY <2>3
    <3>3. count' \in Int /\ loc' \in Int /\ holds' \in Int
      BY <2>1, <2>2, <2>3
    <3> QED
      BY <2>3, <2>4, <3>1, <3>2, <3>3
  <2>6. InnerExclusion'
    BY <2>4
  <2>7. count = holds + change
    BY <1>5, <2>1, <2>4 DEF GiveInner
  <2>8. PendingExact'
    BY <2>1, <2>2, <2>3, <2>4, <2>7
  <2> QED
    BY <2>5, <2>6, <2>8
<1>6. CASE UNCHANGED vars
  BY <1>6 DEF vars
<1> QED
  BY <1>1, <1>2, <1>3, <1>4, <1>5, <1>6 DEF Next, Step

\* The inductive invariant of the recursive mutex's fields holds for any number
\* of cores: nothing is lost between count and the clients' holds.
THEOREM Invariance == Spec => []IInv
  BY InitIInv, StepIInv, PTL DEF Spec

\* One core at a time reads and writes the fields of the mutex.
THEOREM InnerLockExcludes == Spec => []InnerExclusion
<1>1. IInv => InnerExclusion
  BY DEF IInv
<1> QED
  BY Invariance, <1>1, PTL

\* The recursion count is the number of holds, even after the limit was hit.
THEOREM CountIsExact == Spec => []CountExact
<1>1. IInv => CountExact
  BY DEF IInv, PendingExact, CountExact, Inside
<1> QED
  BY Invariance, <1>1, PTL

\* What makes AbandonedAtLimit inductive: count never passes the limit.
LimitInv == count <= MaxCount /\ (Abandoned => count = MaxCount)

LEMMA LimitStep == IInv /\ LimitInv /\ [Next]_vars => LimitInv'
<1> SUFFICES ASSUME IInv, LimitInv, [Next]_vars PROVE LimitInv'
  OBVIOUS
<1> USE MaxCountAssumption
    DEF IInv, TypeOK, Labels, Inside, InnerExclusion, LimitInv, Abandoned
<1>1. ASSUME NEW c \in Cores, NEW o \in Ops, Begin(c, o) PROVE LimitInv'
  BY <1>1 DEF Begin
<1>2. ASSUME NEW c \in Cores, TakeInner(c) PROVE LimitInv'
  BY <1>2 DEF TakeInner
<1>3. ASSUME NEW c \in Cores, TryLock(c) PROVE LimitInv'
  BY <1>3 DEF TryLock, MYLOC
<1>4. ASSUME NEW c \in Cores, Unlock(c) PROVE LimitInv'
  BY <1>4 DEF Unlock
<1>5. ASSUME NEW c \in Cores, GiveInner(c) PROVE LimitInv'
  BY <1>5 DEF GiveInner
<1>6. CASE UNCHANGED vars
  BY <1>6 DEF vars
<1> QED
  BY <1>1, <1>2, <1>3, <1>4, <1>5, <1>6 DEF Next, Step

\* The safety half of InnerGivenBack: the inner lock is taken with nobody inside
\* to give it back only when the recursion limit has been reached.
THEOREM AbandonedAtLimit == Spec => [](Abandoned => count = MaxCount)
<1>1. Init => LimitInv
  BY MaxCountAssumption DEF Init, LimitInv, Abandoned
<1>2. LimitInv => (Abandoned => count = MaxCount)
  BY DEF LimitInv
<1> QED
  BY <1>1, <1>2, LimitStep, Invariance, PTL DEF Spec
=============================================================================
