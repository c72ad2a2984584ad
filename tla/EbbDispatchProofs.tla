-------------------------- MODULE EbbDispatchProofs --------------------------
(***************************************************************************)
(* The inductive invariant of EbbDispatch, the safety theorems that follow *)
(* from it and the refinement of EbbCache, for any set of cores and Ebbs;  *)
(* and, on top of it, that dispatch keeps its books: the altstack holds    *)
(* exactly what the activations of a core have saved, and the list of a    *)
(* manager exactly one node for every representative.                      *)
(*                                                                         *)
(* An action either moves its activation on (Moved), calls (Pushed) or     *)
(* returns (Popped); each part of the invariant has a lemma for each of    *)
(* these, and the types one for each variable.  Then one lemma per action  *)
(* (or pair of alike actions) shows that it keeps the parts that the locks *)
(* have nothing to do with, another that the actions keep what the locks   *)
(* are for, and another that each implements EbbCache.  The parts without  *)
(* the locks are what AppStartProofs uses, where locks exclude nobody.     *)
(***************************************************************************)
EXTENDS EbbDispatch, SequenceTheorems, FiniteSetTheorems, TLAPS

\* sp, pc and on after a step of core c that only moves activation k on.
Moved(c, k, from, to) ==
  /\ At(c, k, from)
  /\ sp' = sp /\ on' = on
  /\ \A d \in Cores, l \in Levels :
       pc'[d][l] = IF d = c /\ l = k THEN to ELSE pc[d][l]

\* The same for a call of e that becomes activation k.
Pushed(c, k, e, resume) ==
  /\ sp[c] = k - 1
  /\ \A d \in Cores : sp'[d] = IF d = c THEN k ELSE sp[d]
  /\ \A d \in Cores, l \in Levels :
       on'[d][l] = IF d = c /\ l = k THEN e ELSE on[d][l]
  /\ \A d \in Cores, l \in Levels :
       pc'[d][l] = IF d = c /\ l = k
                   THEN IF ref[c][e] = None THEN "precall" ELSE "direct"
                   ELSE IF d = c /\ l = k - 1 THEN resume ELSE pc[d][l]

\* The same for a return from activation k.
Popped(c, k) ==
  /\ sp[c] = k
  /\ \A d \in Cores : sp'[d] = IF d = c THEN k - 1 ELSE sp[d]
  /\ \A d \in Cores, l \in Levels :
       on'[d][l] = IF d = c /\ l = k THEN MemEbb ELSE on[d][l]
  /\ \A d \in Cores, l \in Levels :
       pc'[d][l] = IF d = c /\ l = k THEN "free" ELSE pc[d][l]

\* A step that only moves its activation on has the pointwise effect Moved.
LEMMA GotoMoves ==
  ASSUME TypeOK, NEW c \in Cores, NEW k \in Levels, NEW from \in Labels, NEW to \in Labels,
         At(c, k, from), Goto(c, k, to), UNCHANGED <<sp, on>>
  PROVE  Moved(c, k, from, to)
<1>1. pc \in [Cores -> [Levels -> Labels]]
  BY DEF TypeOK
<1> QED
  BY <1>1 DEF Goto, Moved

\* A call pushes an activation: the pointwise effect of Call.
LEMMA CallPushes ==
  ASSUME TypeOK, NEW c \in Cores, NEW k \in Levels, NEW e \in Ebbs, NEW r \in Labels,
         Call(c, k, e, r)
  PROVE  Pushed(c, k, e, r)
<1>1. /\ pc \in [Cores -> [Levels -> Labels]] /\ sp \in [Cores -> 0 .. Depth]
      /\ on \in [Cores -> [Levels -> Ebbs]]
  BY DEF TypeOK
<1> QED
  BY <1>1 DEF Call, Pushed, Levels

\* A return pops the activation: the pointwise effect of Leave.
LEMMA LeavePops ==
  ASSUME TypeOK, NEW c \in Cores, NEW k \in Levels, sp[c] = k, Leave(c, k)
  PROVE  Popped(c, k)
<1>1. /\ pc \in [Cores -> [Levels -> Labels]] /\ sp \in [Cores -> 0 .. Depth]
      /\ on \in [Cores -> [Levels -> Ebbs]]
  BY DEF TypeOK
<1> QED
  BY <1>1 DEF Leave, Goto, Popped, Levels

\* Moving an activation between labels of a dispatch keeps the stack's shape.
LEMMA ShapeMoved ==
  ASSUME TypeOK, StackShape, NEW c \in Cores, NEW k \in Levels,
         NEW from \in Labels \ {"free", "direct"}, NEW to \in Labels \ {"free"},
         Moved(c, k, from, to)
  PROVE  StackShape'
<1>1. Levels \subseteq Int /\ sp \in [Cores -> 0 .. Depth] /\ 1 \in Levels /\ 2 \in Levels /\ 3 \in Levels
      /\ on' = on /\ sp' = sp
  BY DepthAssumption DEF TypeOK, Levels, Moved
<1>2. SUFFICES ASSUME NEW d \in Cores PROVE ShapeOf(d)'
  BY DEF StackShape
<1>3. CASE d = c
  BY <1>1, <1>3 DEF StackShape, ShapeOf, Moved, At
<1>4. CASE d # c
  BY <1>1, <1>4 DEF StackShape, ShapeOf, Moved, At
<1> QED
  BY <1>3, <1>4

\* A call keeps the stack's shape, provided the calls that nest are calls of
\* memAllocator made while a dispatch allocates.
LEMMA ShapePushed ==
  ASSUME TypeOK, StackShape, NEW c \in Cores, NEW k \in Levels, NEW e \in Ebbs,
         NEW r \in Labels,
         Pushed(c, k, e, r),
         k > 1 => /\ e = MemEbb
                  /\ pc[c][k - 1] \notin {"free", "direct"}
                  /\ r \in {"ctor", "bind", "insert"}
                  /\ on[c][k - 1] = MemEbb => r = "insert" /\ ref[c][MemEbb] # None
  PROVE  StackShape'
<1>1. Levels \subseteq Int /\ sp \in [Cores -> 0 .. Depth] /\ 1 \in Levels /\ 2 \in Levels /\ 3 \in Levels
      /\ \A l \in Levels : l >= 1
  BY DepthAssumption DEF TypeOK, Levels
<1>2. SUFFICES ASSUME NEW d \in Cores PROVE ShapeOf(d)'
  BY DEF StackShape
<1>3. CASE d = c
  BY <1>1, <1>3 DEF StackShape, ShapeOf, Pushed
<1>4. CASE d # c
  BY <1>1, <1>4 DEF StackShape, ShapeOf, Pushed
<1> QED
  BY <1>3, <1>4

\* A return keeps the stack's shape.
LEMMA ShapePopped ==
  ASSUME TypeOK, StackShape, NEW c \in Cores, NEW k \in Levels, Popped(c, k)
  PROVE  StackShape'
<1>1. Levels \subseteq Int /\ sp \in [Cores -> 0 .. Depth] /\ 1 \in Levels /\ 2 \in Levels /\ 3 \in Levels
      /\ \A l \in Levels : l >= 1
  BY DepthAssumption DEF TypeOK, Levels
<1>2. SUFFICES ASSUME NEW d \in Cores PROVE ShapeOf(d)'
  BY DEF StackShape
<1>3. CASE d = c
  BY <1>1, <1>3 DEF StackShape, ShapeOf, Popped
<1>4. CASE d # c
  BY <1>1, <1>4 DEF StackShape, ShapeOf, Popped
<1> QED
  BY <1>3, <1>4

\* Moving on, without binding, inside the unbound or inside the bound part of
\* a dispatch keeps EntryFollowsDispatch.
LEMMA EntryMoved ==
  ASSUME TypeOK, EntryFollowsDispatch, NEW c \in Cores, NEW k \in Levels,
         NEW from \in Labels, NEW to \in Labels,
         Moved(c, k, from, to), ref' = ref,
         (from \in Unbound /\ to \in Unbound \ {"ctor"}) \/ (from \in Bound /\ to \in Bound)
  PROVE  EntryFollowsDispatch'
<1>1. SUFFICES ASSUME NEW d \in Cores, NEW l \in Levels PROVE EntryOf(d, l)'
  BY DEF EntryFollowsDispatch
<1>2. EntryOf(d, l) /\ EntryOf(c, k)
  BY DEF EntryFollowsDispatch
<1>3. CASE d = c /\ l = k
  BY <1>2, <1>3 DEF EntryOf, Moved, At, Unbound, Bound
<1>4. CASE ~(d = c /\ l = k)
  BY <1>2, <1>4 DEF EntryOf, Moved, At, Unbound, Bound
<1> QED
  BY <1>3, <1>4

\* A core is not inside two dispatches of one Ebb.
LEMMA NoTwoDispatches ==
  ASSUME TypeOK, StackShape, NEW c \in Cores, NEW j \in Levels, NEW k \in Levels,
         j # k, on[c][j] = on[c][k], pc[c][j] \notin {"free", "direct"}
  PROVE  pc[c][k] \in {"free", "direct"}
<1>1. j \in Int /\ k \in Int /\ j >= 1 /\ k >= 1 /\ sp[c] \in Int
  BY DepthAssumption DEF TypeOK, Levels
<1>2. ShapeOf(c)
  BY DEF StackShape
<1>3. SUFFICES ASSUME k <= sp[c] PROVE pc[c][k] = "direct"
  BY <1>1, <1>2 DEF ShapeOf
<1>4. j <= sp[c] /\ sp[c] <= 3
  BY <1>1, <1>2 DEF ShapeOf
<1>5. j \in {1, 2, 3} /\ k \in {1, 2, 3} /\ sp[c] \in {1, 2, 3}
  BY <1>1, <1>3, <1>4
<1> QED
  BY <1>2, <1>3, <1>4, <1>5 DEF ShapeOf

\* Binding the entry of the Ebb being dispatched keeps EntryFollowsDispatch.
LEMMA EntryBinds ==
  ASSUME TypeOK, StackShape, EntryFollowsDispatch, NEW c \in Cores, NEW k \in Levels,
         NEW from \in Labels \ {"free", "direct"}, NEW to \in Bound, NEW r \in Cores,
         Moved(c, k, from, to),
         \A d \in Cores, e \in Ebbs : ref'[d][e] = IF d = c /\ e = on[c][k] THEN r ELSE ref[d][e]
  PROVE  EntryFollowsDispatch'
<1>1. SUFFICES ASSUME NEW d \in Cores, NEW l \in Levels PROVE EntryOf(d, l)'
  BY DEF EntryFollowsDispatch
<1>2. EntryOf(d, l) /\ EntryOf(c, k) /\ on[d][l] \in Ebbs /\ on[c][k] \in Ebbs
  BY DEF EntryFollowsDispatch, TypeOK
<1>3. CASE d = c /\ l = k
  BY <1>2, <1>3, NoneAssumption DEF EntryOf, Moved, At, Unbound, Bound
<1>4. CASE d = c /\ l # k
  <2>1. on[c][l] = on[c][k] => pc[c][l] \in {"free", "direct"}
    BY <1>4, NoTwoDispatches DEF Moved, At
  <2> QED
    BY <1>2, <1>4, <2>1, NoneAssumption DEF EntryOf, Moved, At, Unbound, Bound
<1>5. CASE d # c
  BY <1>2, <1>5 DEF EntryOf, Moved, At, Unbound, Bound
<1> QED
  BY <1>3, <1>4, <1>5

\* A call keeps EntryFollowsDispatch: it reads the entry.
LEMMA EntryPushed ==
  ASSUME TypeOK, StackShape, EntryFollowsDispatch, NEW c \in Cores, NEW k \in Levels, NEW e \in Ebbs,
         NEW r \in Labels,
         Pushed(c, k, e, r), ref' = ref,
         k > 1 => \/ pc[c][k - 1] \in Unbound /\ r \in Unbound /\ on[c][k - 1] # MemEbb
                  \/ pc[c][k - 1] \in Bound /\ r \in Bound
  PROVE  EntryFollowsDispatch'
<1>1. SUFFICES ASSUME NEW d \in Cores, NEW l \in Levels PROVE EntryOf(d, l)'
  BY DEF EntryFollowsDispatch
<1>2. EntryOf(d, l) /\ (l = k - 1 => k > 1)
  BY DEF EntryFollowsDispatch, Levels
<1>3. CASE d = c /\ l = k
  BY <1>3 DEF EntryOf, Pushed, Unbound, Bound
<1>4. CASE d = c /\ l = k - 1
  BY <1>2, <1>4 DEF EntryOf, Pushed, Unbound, Bound, Levels
<1>5. CASE ~(d = c /\ (l = k \/ l = k - 1))
  BY <1>2, <1>5 DEF EntryOf, Pushed, Unbound, Bound
<1> QED
  BY <1>3, <1>4, <1>5

\* A return keeps EntryFollowsDispatch.
LEMMA EntryPopped ==
  ASSUME TypeOK, EntryFollowsDispatch, NEW c \in Cores, NEW k \in Levels,
         Popped(c, k), ref' = ref
  PROVE  EntryFollowsDispatch'
<1>1. SUFFICES ASSUME NEW d \in Cores, NEW l \in Levels PROVE EntryOf(d, l)'
  BY DEF EntryFollowsDispatch
<1>2. EntryOf(d, l)
  BY DEF EntryFollowsDispatch
<1> QED
  BY <1>2 DEF EntryOf, Popped, Unbound, Bound

\* A move that does not enter or leave the critical section changes no holder.
LEMMA HoldsMoved ==
  ASSUME TypeOK, NEW c \in Cores, NEW k \in Levels,
         NEW from \in Labels, NEW to \in Labels,
         Moved(c, k, from, to), from \in InPreCall <=> to \in InPreCall
  PROVE  \A d \in Cores, l \in Levels, e \in Ebbs : Holds(d, l, e)' <=> Holds(d, l, e)
  BY DEF Holds, Moved, At

\* A call changes no holder.
LEMMA HoldsPushed ==
  ASSUME TypeOK, StackShape, NEW c \in Cores, NEW k \in Levels, NEW e \in Ebbs,
         NEW r \in Labels, Pushed(c, k, e, r),
         k > 1 => pc[c][k - 1] \in InPreCall /\ r \in InPreCall
  PROVE  \A d \in Cores, l \in Levels, f \in Ebbs : Holds(d, l, f)' <=> Holds(d, l, f)
<1>1. /\ sp \in [Cores -> 0 .. Depth] /\ k \in Int /\ k >= 1
  BY DEF TypeOK, Levels
<1>2. SUFFICES ASSUME NEW d \in Cores, NEW l \in Levels, NEW f \in Ebbs
               PROVE  Holds(d, l, f)' <=> Holds(d, l, f)
  OBVIOUS
<1>3. l \in Int /\ l >= 1 /\ sp[d] \in Int
  BY <1>1 DEF Levels
<1>4. CASE d = c /\ l = k
  BY <1>1, <1>3, <1>4 DEF Holds, Pushed, InPreCall
<1>5. CASE d = c /\ l = k - 1
  BY <1>1, <1>3, <1>5 DEF Holds, Pushed
<1>6. CASE d = c /\ l # k /\ l # k - 1
  BY <1>1, <1>3, <1>6 DEF Holds, Pushed
<1>7. CASE d # c
  BY <1>1, <1>3, <1>7 DEF Holds, Pushed
<1> QED
  BY <1>4, <1>5, <1>6, <1>7

\* A return from outside the critical section changes no holder.
LEMMA HoldsPopped ==
  ASSUME TypeOK, StackShape, NEW c \in Cores, NEW k \in Levels, Popped(c, k),
         pc[c][k] \notin InPreCall
  PROVE  \A d \in Cores, l \in Levels, f \in Ebbs : Holds(d, l, f)' <=> Holds(d, l, f)
<1>1. /\ sp \in [Cores -> 0 .. Depth] /\ k \in Int /\ k >= 1
  BY DEF TypeOK, Levels
<1>2. SUFFICES ASSUME NEW d \in Cores, NEW l \in Levels, NEW f \in Ebbs
               PROVE  Holds(d, l, f)' <=> Holds(d, l, f)
  OBVIOUS
<1>3. l \in Int /\ l >= 1 /\ sp[d] \in Int
  BY <1>1 DEF Levels
<1>4. CASE d = c /\ l = k
  BY <1>1, <1>3, <1>4 DEF Holds, Popped, InPreCall
<1>5. CASE d = c /\ l # k
  BY <1>1, <1>3, <1>5 DEF Holds, Popped
<1>6. CASE d # c
  BY <1>1, <1>3, <1>6 DEF Holds, Popped
<1> QED
  BY <1>4, <1>5, <1>6

\* The part of the invariant that is about the locks.
LockInv == HolderLocks /\ MutualExclusion

\* A step that changes neither the locks nor their holders keeps LockInv.
LEMMA LockInvKept ==
  ASSUME LockInv, lock' = lock,
         \A d \in Cores, l \in Levels, e \in Ebbs : Holds(d, l, e)' <=> Holds(d, l, e)
  PROVE  LockInv'
  BY DEF LockInv, HolderLocks, MutualExclusion

\* Spinlock::lock keeps LockInv: the lock was free, so nobody held it.
LEMMA LockInvLock ==
  ASSUME TypeOK, LockInv, NEW c \in Cores, NEW k \in Levels, Lock(c, k), Moved(c, k, "lock", "search")
  PROVE  LockInv'
<1>1. \A d \in Cores, l \in Levels, f \in Ebbs :
        Holds(d, l, f)' <=> Holds(d, l, f) \/ (d = c /\ l = k /\ f = on[c][k])
  BY DEF Holds, Moved, At, InPreCall, Levels
<1>2. \A e \in Ebbs : lock'[e] <=> lock[e] \/ e = on[c][k]
  BY DEF Lock, TypeOK
<1>3. \A d \in Cores, l \in Levels : ~Holds(d, l, on[c][k])
  BY DEF Lock, LockInv, HolderLocks, TypeOK
<1> QED
  BY <1>1, <1>2, <1>3 DEF LockInv, HolderLocks, MutualExclusion

\* Spinlock::unlock keeps LockInv: the caller was the only holder.
LEMMA LockInvUnlock ==
  ASSUME TypeOK, LockInv, NEW c \in Cores, NEW k \in Levels, NEW to \in {"mgrret", "call"},
         Unlock(c, k), Moved(c, k, "unlock", to)
  PROVE  LockInv'
<1>1. \A d \in Cores, l \in Levels, f \in Ebbs :
        Holds(d, l, f)' <=> Holds(d, l, f) /\ ~(d = c /\ l = k)
  BY DEF Holds, Moved, At, InPreCall, Levels
<1>2. \A e \in Ebbs : lock'[e] <=> lock[e] /\ e # on[c][k]
  BY DEF Unlock, TypeOK
<1>3. Holds(c, k, on[c][k])
  BY DEF Unlock, At, Holds, InPreCall, Levels
<1>4. \A d \in Cores, l \in Levels : Holds(d, l, on[c][k]) => d = c /\ l = k
  BY <1>3 DEF LockInv, MutualExclusion, TypeOK
<1>5. HolderLocks'
  BY <1>1, <1>2, <1>4 DEF LockInv, HolderLocks
<1>6. MutualExclusion'
  BY <1>1 DEF LockInv, MutualExclusion
<1> QED
  BY <1>5, <1>6 DEF LockInv

\* The part of the invariant that is about what has been constructed.
BuiltInv == BuiltKept /\ BoundIsBuilt /\ OwnRep

\* Steps that construct nothing and bind nothing.
LEMMA BuiltQuiet ==
  ASSUME TypeOK, BuiltInv, NEW c \in Cores, NEW k \in Levels,
         NEW from \in Labels \ {"bind"}, NEW to \in Labels \ {"bind"},
         Moved(c, k, from, to), from \in Bound <=> to \in Bound,
         UNCHANGED <<ref, rep, built>>, NodesBuilt'
  PROVE  BuiltInv'
<1>1. ASSUME NEW d \in Cores, NEW e \in Ebbs PROVE BuiltOf(d, e)'
  <2>1. BuiltOf(d, e)
    BY DEF BuiltInv, BuiltKept
  <2>2. \A l \in Levels : pc[d][l] = "bind" => pc'[d][l] = "bind"
    BY DEF Moved, At
  <2> QED
    BY <2>1, <2>2 DEF BuiltOf, Moved
<1>2. ASSUME NEW d \in Cores, NEW l \in Levels PROVE RepOf(d, l)'
  <2>1. RepOf(d, l) /\ RepOf(c, k)
    BY DEF BuiltInv, BuiltKept
  <2> QED
    BY <2>1 DEF RepOf, Moved, At
<1> QED
  BY <1>1, <1>2 DEF BuiltInv, BuiltKept, BoundIsBuilt, OwnRep

\* While a dispatch has not bound the entry, no other activation of the core
\* calls the same Ebb.
LEMMA UnboundAlone ==
  ASSUME TypeOK, StackShape, EntryFollowsDispatch, NEW c \in Cores,
         NEW j \in Levels, NEW k \in Levels,
         pc[c][k] \in Unbound, on[c][j] = on[c][k], j # k
  PROVE  pc[c][j] = "free"
<1>1. pc[c][j] \in {"free", "direct"}
  BY NoTwoDispatches DEF Unbound
<1>2. EntryOf(c, j) /\ EntryOf(c, k)
  BY DEF EntryFollowsDispatch
<1> QED
  BY <1>1, <1>2 DEF EntryOf, Bound

\* Steps that bind the entry of an Ebb to a representative that exists.
LEMMA BuiltBinds ==
  ASSUME TypeOK, StackShape, EntryFollowsDispatch, BuiltInv,
         NEW c \in Cores, NEW k \in Levels,
         NEW from \in Unbound, NEW to \in Bound, NEW r \in Cores,
         Moved(c, k, from, to),
         \A d \in Cores, e \in Ebbs :
           ref'[d][e] = IF d = c /\ e = on[c][k] THEN r ELSE ref[d][e],
         \A d \in Cores, l \in Levels :
           rep'[d][l] = IF d = c /\ l = k THEN r ELSE rep[d][l],
         UNCHANGED <<built, list>>,
         built[r][on[c][k]] = 1, c \in Junk \/ r = c
  PROVE  BuiltInv'
<1>0. on \in [Cores -> [Levels -> Ebbs]] /\ on[c][k] \in Ebbs /\ on' = on
  BY DEF TypeOK, Moved
<1>1. ASSUME NEW d \in Cores, NEW e \in Ebbs PROVE BuiltOf(d, e)'
  <2>1. BuiltOf(d, e)
    BY DEF BuiltInv, BuiltKept
  <2>2. CASE d = c /\ e = on[c][k]
    BY <2>1, <2>2, NoneAssumption DEF BuiltOf
  <2>3. CASE ~(d = c /\ e = on[c][k])
    <3>1. ref'[d][e] = ref[d][e]
      BY <2>3
    <3>2. \A l \in Levels : on[d][l] = e /\ pc[d][l] = "bind" => pc'[d][l] = "bind"
      BY <2>3 DEF Moved
    <3> QED
      BY <2>1, <3>1, <3>2, <1>0 DEF BuiltOf
  <2> QED
    BY <2>2, <2>3
<1>2. ASSUME NEW d \in Cores, NEW l \in Levels PROVE RepOf(d, l)'
  <2>1. RepOf(d, l) /\ on[d][l] \in Ebbs
    BY <1>0 DEF BuiltInv, BuiltKept
  <2>2. CASE d = c /\ l = k
    BY <1>0, <2>2 DEF RepOf, Moved, Bound
  <2>3. CASE d = c /\ l # k
    <3>1. on[c][l] = on[c][k] => pc[c][l] = "free"
      BY <2>3, UnboundAlone DEF Moved, At
    <3> QED
      BY <1>0, <2>1, <2>3, <3>1 DEF RepOf, Moved, Bound
  <2>4. CASE d # c
    BY <1>0, <2>1, <2>4 DEF RepOf, Moved
  <2> QED
    BY <2>2, <2>3, <2>4
<1>3. BoundIsBuilt'
  BY <1>0 DEF BuiltInv, BoundIsBuilt
<1>4. OwnRep'
  BY <1>0 DEF BuiltInv, OwnRep
<1>5. NodesBuilt'
  BY DEF BuiltInv, BuiltKept, NodesBuilt
<1> QED
  BY <1>1, <1>2, <1>3, <1>4, <1>5 DEF BuiltInv, BuiltKept

\* A nested call: nothing is constructed.
LEMMA BuiltPushed ==
  ASSUME TypeOK, BuiltInv, NEW c \in Cores, NEW k \in Levels, NEW e \in Ebbs,
         NEW r \in Labels \ {"bind"},
         Pushed(c, k, e, r), UNCHANGED <<ref, built, list>>,
         \A d \in Cores, l \in Levels :
           rep'[d][l] = IF d = c /\ l = k THEN ref[c][e] ELSE rep[d][l],
         pc[c][k] # "bind",
         k > 1 => pc[c][k - 1] # "bind" /\ (r \in Bound => pc[c][k - 1] \in Bound)
  PROVE  BuiltInv'
<1>0. k \in Int /\ \A l \in Levels : l >= 1 /\ l \in Int
  BY DEF Levels
<1>1. ASSUME NEW d \in Cores, NEW f \in Ebbs PROVE BuiltOf(d, f)'
  <2>1. BuiltOf(d, f)
    BY DEF BuiltInv, BuiltKept
  <2>2. \A l \in Levels : pc[d][l] = "bind" => pc'[d][l] = "bind" /\ on'[d][l] = on[d][l]
    BY <1>0 DEF Pushed
  <2> QED
    BY <2>1, <2>2 DEF BuiltOf
<1>2. ASSUME NEW d \in Cores, NEW l \in Levels PROVE RepOf(d, l)'
  <2>1. RepOf(d, l)
    BY DEF BuiltInv, BuiltKept
  <2>2. CASE d = c /\ l = k
    BY <2>2 DEF RepOf, Pushed, Bound
  <2>3. CASE d = c /\ l = k - 1
    BY <1>0, <2>1, <2>3 DEF RepOf, Pushed
  <2>4. CASE d # c \/ (l # k /\ l # k - 1)
    BY <2>1, <2>4 DEF RepOf, Pushed
  <2> QED
    BY <2>2, <2>3, <2>4
<1>3. NodesBuilt'
  BY DEF BuiltInv, BuiltKept, NodesBuilt
<1> QED
  BY <1>1, <1>2, <1>3 DEF BuiltInv, BuiltKept, BoundIsBuilt, OwnRep

\* A return: nothing is constructed.
LEMMA BuiltPopped ==
  ASSUME TypeOK, BuiltInv, NEW c \in Cores, NEW k \in Levels,
         Popped(c, k), UNCHANGED <<ref, built, list>>,
         \A d \in Cores, l \in Levels :
           rep'[d][l] = IF d = c /\ l = k THEN None ELSE rep[d][l],
         pc[c][k] # "bind"
  PROVE  BuiltInv'
<1>1. ASSUME NEW d \in Cores, NEW f \in Ebbs PROVE BuiltOf(d, f)'
  <2>1. BuiltOf(d, f)
    BY DEF BuiltInv, BuiltKept
  <2>2. \A l \in Levels : pc[d][l] = "bind" => pc'[d][l] = "bind" /\ on'[d][l] = on[d][l]
    BY DEF Popped
  <2> QED
    BY <2>1, <2>2 DEF BuiltOf
<1>2. ASSUME NEW d \in Cores, NEW l \in Levels PROVE RepOf(d, l)'
  <2>1. RepOf(d, l)
    BY DEF BuiltInv, BuiltKept
  <2> QED
    BY <2>1 DEF RepOf, Popped, Bound
<1>3. NodesBuilt'
  BY DEF BuiltInv, BuiltKept, NodesBuilt
<1> QED
  BY <1>1, <1>2, <1>3 DEF BuiltInv, BuiltKept, BoundIsBuilt, OwnRep

\* A core whose dispatch is about to construct has not constructed before.
LEMMA NotBuiltYet ==
  ASSUME TypeOK, StackShape, EntryFollowsDispatch, BuiltInv,
         NEW c \in Cores, NEW k \in Levels, pc[c][k] \in {"new", "ctor"}
  PROVE  built[c][on[c][k]] = 0
<1>0. on[c][k] \in Ebbs
  BY DEF TypeOK
<1>1. BuiltOf(c, on[c][k])
  BY <1>0 DEF BuiltInv, BuiltKept
<1>2. ref[c][on[c][k]] = None
  BY DEF EntryFollowsDispatch, EntryOf, Unbound
<1>3. \A l \in Levels : on[c][l] = on[c][k] => pc[c][l] # "bind"
  BY UnboundAlone DEF Unbound
<1> QED
  BY <1>1, <1>2, <1>3 DEF BuiltOf

\* A construction: activation k goes on at "bind" with a representative of its
\* own core; other activations may be entered at the same time, but none that
\* is at "bind" is touched.
LEMMA BuiltConstructs ==
  ASSUME TypeOK, StackShape, EntryFollowsDispatch, BuiltInv,
         NEW c \in Cores, NEW k \in Levels,
         pc[c][k] \in {"new", "ctor"}, pc'[c][k] = "bind",
         on'[c][k] = on[c][k], rep'[c][k] = c,
         \A d \in Cores, l \in Levels :
           d # c \/ l # k =>
             \/ pc'[d][l] = pc[d][l] /\ on'[d][l] = on[d][l] /\ rep'[d][l] = rep[d][l]
             \/ /\ pc[d][l] # "bind" /\ pc'[d][l] # "bind"
                /\ pc'[d][l] \in Bound => rep'[d][l] = ref[d][on'[d][l]],
         \A d \in Cores, e \in Ebbs :
           built'[d][e] = IF d = c /\ e = on[c][k] THEN built[d][e] + 1 ELSE built[d][e],
         UNCHANGED <<ref, list>>
  PROVE  BuiltInv'
<1>0. /\ on[c][k] \in Ebbs /\ on \in [Cores -> [Levels -> Ebbs]]
      /\ list \in [Ebbs -> Seq(Node)]
  BY DEF TypeOK
<1>1. built[c][on[c][k]] = 0 /\ built'[c][on[c][k]] = 1
  BY <1>0, NotBuiltYet
<1>2. \A d \in Cores, e \in Ebbs : built[d][e] = 1 => built'[d][e] = 1
  BY <1>0, <1>1
<1>3. ASSUME NEW d \in Cores, NEW e \in Ebbs PROVE BuiltOf(d, e)'
  <2>1. BuiltOf(d, e)
    BY DEF BuiltInv, BuiltKept
  <2>2. CASE d = c /\ e = on[c][k]
    BY <1>1, <2>2 DEF BuiltOf
  <2>3. CASE ~(d = c /\ e = on[c][k])
    <3>1. built'[d][e] = built[d][e]
      BY <2>3
    <3>2. \A l \in Levels : on[d][l] = e /\ pc[d][l] = "bind" =>
                              on'[d][l] = e /\ pc'[d][l] = "bind"
      OBVIOUS
    <3> QED
      BY <2>1, <3>1, <3>2 DEF BuiltOf
  <2> QED
    BY <2>2, <2>3
<1>4. ASSUME NEW d \in Cores, NEW l \in Levels PROVE RepOf(d, l)'
  <2>1. RepOf(d, l) /\ on[d][l] \in Ebbs
    BY <1>0 DEF BuiltInv, BuiltKept
  <2>2. CASE d = c /\ l = k
    BY <1>1, <2>2 DEF RepOf, Bound
  <2>3. CASE d # c \/ l # k
    BY <1>2, <2>1, <2>3 DEF RepOf
  <2> QED
    BY <2>2, <2>3
<1>5. NodesBuilt'
  <2> SUFFICES ASSUME NEW e \in Ebbs, NEW i \in 1 .. Len(list[e])
               PROVE  built'[list[e][i].ref][e] = 1
    BY DEF NodesBuilt
  <2>1. list[e][i] \in Node
    BY <1>0
  <2>2. list[e][i].ref \in Cores
    BY <2>1 DEF Node
  <2> QED
    BY <1>2, <2>2 DEF BuiltInv, BuiltKept, NodesBuilt
<1>6. BoundIsBuilt'
  <2> SUFFICES ASSUME NEW d \in Cores, NEW e \in Ebbs, ref[d][e] # None
               PROVE  built'[ref[d][e]][e] = 1
    BY DEF BoundIsBuilt
  <2>1. ref[d][e] \in Cores
    BY DEF TypeOK
  <2> QED
    BY <1>2, <2>1 DEF BuiltInv, BoundIsBuilt
<1> QED
  BY <1>3, <1>4, <1>5, <1>6 DEF BuiltInv, BuiltKept, OwnRep

\* What an activation at "insert" lists is a representative that exists.
LEMMA InsertsBuilt ==
  ASSUME TypeOK, EntryFollowsDispatch, BuiltInv,
         NEW c \in Cores, NEW k \in Levels, pc[c][k] = "insert"
  PROVE  rep[c][k] \in Cores /\ built[rep[c][k]][on[c][k]] = 1
<1>1. RepOf(c, k) /\ EntryOf(c, k) /\ on[c][k] \in Ebbs
  BY DEF BuiltInv, BuiltKept, EntryFollowsDispatch, TypeOK
<1>2. rep[c][k] = ref[c][on[c][k]] /\ ref[c][on[c][k]] # None
  BY <1>1 DEF RepOf, EntryOf, Bound
<1> QED
  BY <1>1, <1>2 DEF BuiltInv, BoundIsBuilt, TypeOK

\* Putting its node in front of nodes that are for representatives that exist
\* makes a list of that kind.
LEMMA NodeAdded ==
  ASSUME TypeOK, EntryFollowsDispatch, BuiltInv,
         NEW c \in Cores, NEW k \in Levels, pc[c][k] = "insert",
         NEW loc \in Junk, NEW nodes \in Seq(Node),
         \A i \in 1 .. Len(nodes) : built[nodes[i].ref][on[c][k]] = 1,
         list' = [list EXCEPT ![on[c][k]] =
                    <<[location |-> loc, ref |-> rep[c][k]]>> \o nodes],
         built' = built
  PROVE  NodesBuilt' /\ list' \in [Ebbs -> Seq(Node)]
<1>0. on[c][k] \in Ebbs /\ list \in [Ebbs -> Seq(Node)]
  BY DEF TypeOK
<1>1. rep[c][k] \in Cores /\ built[rep[c][k]][on[c][k]] = 1
  BY InsertsBuilt
<1> DEFINE node == [location |-> loc, ref |-> rep[c][k]]
<1>2. list' = [list EXCEPT ![on[c][k]] = <<node>> \o nodes] /\ node \in Node /\ node.ref = rep[c][k]
  BY <1>1 DEF Node
<1> HIDE DEF node
<1>3. <<node>> \o nodes \in Seq(Node)
  BY <1>2
<1>4. list' \in [Ebbs -> Seq(Node)]
  BY <1>0, <1>2, <1>3
<1>5. ASSUME NEW e \in Ebbs, NEW i \in 1 .. Len(list'[e])
      PROVE  built[list'[e][i].ref][e] = 1
  <2>1. CASE e # on[c][k]
    BY <1>0, <1>2, <2>1 DEF BuiltInv, BuiltKept, NodesBuilt
  <2>2. CASE e = on[c][k]
    <3>1. list'[e] = <<node>> \o nodes
      BY <1>0, <1>2, <2>2
    <3>2. list'[e][i] = IF i = 1 THEN node ELSE nodes[i - 1]
      BY <1>2, <3>1
    <3>3. i # 1 => i - 1 \in 1 .. Len(nodes)
      BY <1>2, <3>1
    <3> QED
      BY <1>1, <1>2, <2>2, <3>2, <3>3
  <2> QED
    BY <2>1, <2>2
<1> QED
  BY <1>4, <1>5 DEF NodesBuilt

\* The node that Insert adds is for a representative that exists.
LEMMA InsertBuilt ==
  ASSUME TypeOK, EntryFollowsDispatch, BuiltInv,
         NEW c \in Cores, NEW k \in Levels, Insert(c, k)
  PROVE  NodesBuilt'
<1>1. /\ on[c][k] \in Ebbs /\ list[on[c][k]] \in Seq(Node)
      /\ pc[c][k] = "insert" /\ built' = built
  BY DEF TypeOK, Insert, At
<1>2. PICK junk \in Junk :
        list' = [list EXCEPT ![on[c][k]] =
                   <<[location |-> junk, ref |-> rep[c][k]]>> \o list[on[c][k]]]
  BY DEF Insert
<1>3. \A i \in 1 .. Len(list[on[c][k]]) : built[list[on[c][k]][i].ref][on[c][k]] = 1
  BY <1>1 DEF BuiltInv, BuiltKept, NodesBuilt
<1> QED
  BY <1>1, <1>2, <1>3, NodeAdded

-----------------------------------------------------------------------------
\* pc, sp and on keep their types whatever the three ways to go on.
LEMMA ControlTypes ==
  ASSUME TypeOK, NEW c \in Cores, NEW k \in Levels, NEW e \in Ebbs, NEW r \in Labels,
         \/ Goto(c, k, r) /\ UNCHANGED <<sp, on>>
         \/ Call(c, k, e, r)
         \/ Leave(c, k)
  PROVE  /\ sp' \in [Cores -> 0 .. Depth]
         /\ pc' \in [Cores -> [Levels -> Labels]]
         /\ on' \in [Cores -> [Levels -> Ebbs]]
<1>1. /\ sp \in [Cores -> 0 .. Depth] /\ pc \in [Cores -> [Levels -> Labels]]
      /\ on \in [Cores -> [Levels -> Ebbs]] /\ k \in 0 .. Depth /\ k - 1 \in 0 .. Depth
      /\ {"precall", "direct", "free"} \subseteq Labels
  BY DepthAssumption DEF TypeOK, Levels, Labels
<1>2. CASE Goto(c, k, r) /\ UNCHANGED <<sp, on>>
  BY <1>1, <1>2 DEF Goto
<1>3. CASE Call(c, k, e, r)
  BY <1>1, <1>3 DEF Call
<1>4. CASE Leave(c, k)
  BY <1>1, <1>4, EbbAssumption DEF Leave, Goto
<1> QED
  BY <1>2, <1>3, <1>4

\* A return keeps the types of the variables it clears.
LEMMA LeaveTypes ==
  ASSUME TypeOK, NEW c \in Cores, NEW k \in Levels, Leave(c, k)
  PROVE  /\ rep' \in [Cores -> [Levels -> Cores \cup {None}]]
         /\ viaRoot' \in [Cores -> [Levels -> BOOLEAN]]
  BY DEF Leave, TypeOK

\* No step takes the locks out of their type.
LEMMA LockTypes ==
  ASSUME TypeOK, NEW c \in Cores, NEW k \in Levels, Step(c, k)
  PROVE  lock' \in [Ebbs -> BOOLEAN]
<1>1. lock \in [Ebbs -> BOOLEAN] /\ on[c][k] \in Ebbs
  BY DEF TypeOK
<1>2. lock' = lock \/ lock' = [lock EXCEPT ![on[c][k]] = TRUE]
      \/ lock' = [lock EXCEPT ![on[c][k]] = FALSE]
  BY DEF Step, DirectReturn, Precall, Lock, SearchFinds, SearchFails, NewMemRep, NewRep, Construct,
         BindRef, NewNode, Insert, Unlock, PreCallReturn, CallFunction, Return
<1> QED
  BY <1>1, <1>2

\* No step takes the lists out of their type, given that the node to insert
\* has a representative.
LEMMA ListTypes ==
  ASSUME TypeOK, NEW c \in Cores, NEW k \in Levels, Step(c, k),
         pc[c][k] = "insert" => rep[c][k] \in Cores
  PROVE  list' \in [Ebbs -> Seq(Node)]
<1>1. list \in [Ebbs -> Seq(Node)] /\ on[c][k] \in Ebbs
  BY DEF TypeOK
<1>2. CASE Insert(c, k)
  <2>1. PICK junk \in Junk :
          list' = [list EXCEPT ![on[c][k]] =
                     <<[location |-> junk, ref |-> rep[c][k]]>> \o @]
    BY <1>2 DEF Insert
  <2>2. [location |-> junk, ref |-> rep[c][k]] \in Node
    BY <1>2 DEF Insert, At, Node
  <2>3. <<[location |-> junk, ref |-> rep[c][k]]>> \o list[on[c][k]] \in Seq(Node)
    BY <1>1, <2>2
  <2> QED
    BY <1>1, <2>1, <2>3
<1>3. CASE list' = list
  BY <1>1, <1>3
<1> QED
  BY <1>2, <1>3 DEF Step, DirectReturn, Precall, Lock, SearchFinds, SearchFails, NewMemRep, NewRep,
     Construct, BindRef, NewNode, Unlock, PreCallReturn, CallFunction, Return

\* No step takes the translation entries out of their type.
LEMMA RefTypes ==
  ASSUME TypeOK, NEW c \in Cores, NEW k \in Levels, Step(c, k)
  PROVE  ref' \in [Cores -> [Ebbs -> Cores \cup {None}]]
<1>1. /\ ref \in [Cores -> [Ebbs -> Cores \cup {None}]] /\ on[c][k] \in Ebbs
      /\ list \in [Ebbs -> Seq(Node)] /\ rep[c][k] \in Cores \cup {None}
  BY DEF TypeOK
<1>2. CASE SearchFinds(c, k)
  <2>1. PICK i \in 1 .. Len(list[on[c][k]]) :
          ref' = [ref EXCEPT ![c][on[c][k]] = list[on[c][k]][i].ref]
    BY <1>2 DEF SearchFinds
  <2>2. list[on[c][k]][i] \in Node
    BY <1>1
  <2>3. list[on[c][k]][i].ref \in Cores
    BY <2>2 DEF Node
  <2> QED
    BY <1>1, <2>1, <2>3
<1>3. CASE BindRef(c, k)
  BY <1>1, <1>3 DEF BindRef
<1>4. CASE ref' = ref
  BY <1>1, <1>4
<1> QED
  BY <1>2, <1>3, <1>4 DEF Step, DirectReturn, Precall, Lock, SearchFails, NewMemRep, NewRep,
     Construct, NewNode, Insert, Unlock, PreCallReturn, CallFunction, Return

\* No step takes the local representatives out of their type.
LEMMA RepTypes ==
  ASSUME TypeOK, NEW c \in Cores, NEW k \in Levels, Step(c, k)
  PROVE  rep' \in [Cores -> [Levels -> Cores \cup {None}]]
<1>1. /\ rep \in [Cores -> [Levels -> Cores \cup {None}]] /\ on[c][k] \in Ebbs
      /\ list \in [Ebbs -> Seq(Node)] /\ ref[c][MemEbb] \in Cores \cup {None}
  BY EbbAssumption DEF TypeOK
<1>2. CASE SearchFinds(c, k)
  <2>1. PICK i \in 1 .. Len(list[on[c][k]]) :
          rep' = [rep EXCEPT ![c][k] = list[on[c][k]][i].ref]
    BY <1>2 DEF SearchFinds
  <2>2. list[on[c][k]][i] \in Node
    BY <1>1
  <2>3. list[on[c][k]][i].ref \in Cores
    BY <2>2 DEF Node
  <2> QED
    BY <1>1, <2>1, <2>3
<1>3. CASE NewMemRep(c, k) \/ NewRep(c, k) \/ Construct(c, k) \/ NewNode(c, k)
  <2>1. CASE NewMemRep(c, k)
    BY <1>1, <2>1 DEF NewMemRep
  <2>2. CASE NewRep(c, k)
    BY <1>1, <2>2 DEF NewRep
  <2>3. CASE Construct(c, k)
    <3>1. rep' = [rep EXCEPT ![c][k] = c, ![c][k + 1] = ref[c][MemEbb]] /\ k + 1 \in Levels
      BY <2>3 DEF Construct
    <3> QED
      BY <1>1, <3>1
  <2>4. CASE NewNode(c, k)
    BY <1>1, <2>4 DEF NewNode
  <2> QED
    BY <1>3, <2>1, <2>2, <2>3, <2>4
<1>4. CASE DirectReturn(c, k) \/ Return(c, k)
  BY <1>4, LeaveTypes DEF DirectReturn, Return
<1>5. CASE rep' = rep
  BY <1>1, <1>5
<1> QED
  BY <1>2, <1>3, <1>4, <1>5 DEF Step, Precall, Lock, SearchFails, BindRef, Insert, Unlock,
     PreCallReturn, CallFunction

\* No step takes the history of constructions out of its type.
LEMMA HistoryTypes ==
  ASSUME TypeOK, NEW c \in Cores, NEW k \in Levels, Step(c, k)
  PROVE  built' \in [Cores -> [Ebbs -> Nat]]
<1>1. built \in [Cores -> [Ebbs -> Nat]] /\ on[c][k] \in Ebbs
  BY DEF TypeOK
<1>2. built' = built \/ built' = [built EXCEPT ![c][on[c][k]] = built[c][on[c][k]] + 1]
  BY DEF Step, DirectReturn, Precall, Lock, SearchFinds, SearchFails, NewMemRep, NewRep, Construct,
     BindRef, NewNode, Insert, Unlock, PreCallReturn, CallFunction, Return
<1>3. CASE built' = built
  BY <1>1, <1>3
<1>4. CASE built' = [built EXCEPT ![c][on[c][k]] = built[c][on[c][k]] + 1]
  BY <1>1, <1>4
<1> QED
  BY <1>2, <1>3, <1>4

\* No step takes the managers' entries out of their type.
LEMMA MgrRefTypes ==
  ASSUME TypeOK, NEW c \in Cores, NEW k \in Levels, Step(c, k)
  PROVE  mgrRef' \in [Cores -> [Ebbs -> BOOLEAN]]
<1>1. mgrRef \in [Cores -> [Ebbs -> BOOLEAN]] /\ on[c][k] \in Ebbs
  BY DEF TypeOK
<1>2. mgrRef' = mgrRef \/ mgrRef' = [mgrRef EXCEPT ![c][on[c][k]] = TRUE]
  BY DEF Step, DirectReturn, Precall, Lock, SearchFinds, SearchFails, NewMemRep, NewRep, Construct,
     BindRef, NewNode, Insert, Unlock, PreCallReturn, CallFunction, Return
<1>3. CASE mgrRef' = mgrRef
  BY <1>1, <1>3
<1>4. CASE mgrRef' = [mgrRef EXCEPT ![c][on[c][k]] = TRUE]
  BY <1>1, <1>4
<1> QED
  BY <1>2, <1>3, <1>4

\* No step takes the flags of dispatched preCalls out of their type.
LEMMA ViaRootTypes ==
  ASSUME TypeOK, NEW c \in Cores, NEW k \in Levels, Step(c, k)
  PROVE  viaRoot' \in [Cores -> [Levels -> BOOLEAN]]
<1>1. viaRoot \in [Cores -> [Levels -> BOOLEAN]]
  BY DEF TypeOK
<1>2. CASE Precall(c, k)
  <2>1. CASE mgrRef[c][on[c][k]]
    <3>1. viaRoot' = [viaRoot EXCEPT ![c][k] = FALSE]
      BY <1>2, <2>1, Zenon DEF Precall
    <3> QED
      BY <1>1, <3>1
  <2>2. CASE ~mgrRef[c][on[c][k]]
    <3>1. viaRoot' = [viaRoot EXCEPT ![c][k] = TRUE]
      BY <1>2, <2>2, Zenon DEF Precall
    <3> QED
      BY <1>1, <3>1
  <2> QED
    BY <2>1, <2>2
<1>3. CASE DirectReturn(c, k) \/ Return(c, k)
  BY <1>3, LeaveTypes DEF DirectReturn, Return
<1>4. CASE viaRoot' = viaRoot
  BY <1>1, <1>4
<1> QED
  BY <1>2, <1>3, <1>4 DEF Step, Lock, SearchFinds, SearchFails, NewMemRep, NewRep, Construct,
     BindRef, NewNode, Insert, Unlock, PreCallReturn, CallFunction

\* Popping twice leaves a sequence over the same set.
LEMMA PopTwoTypes ==
  ASSUME NEW S, NEW s \in Seq(S)
  PROVE  PopTwo(s) \in Seq(S)
<1>1. Len(s) \in Nat
  OBVIOUS
<1>2. CASE Len(s) >= 2
  BY <1>1, <1>2 DEF PopTwo
<1>3. CASE Len(s) < 2
  <2>1. Len(s) - 2 < 1 /\ Len(s) - 2 \in Int
    BY <1>1, <1>3
  <2>2. \A i \in 1 .. (Len(s) - 2) : s[i] \in S
    BY <2>1
  <2> QED
    BY <2>1, <2>2 DEF PopTwo
<1> QED
  BY <1>1, <1>2, <1>3

\* No step takes the altstacks out of their type.
LEMMA AltstackTypes ==
  ASSUME TypeOK, NEW c \in Cores, NEW k \in Levels, Step(c, k)
  PROVE  altstack' \in [Cores -> Seq(Saving)]
<1>1. altstack \in [Cores -> Seq(Saving)] /\ on[c][k] \in Ebbs
  BY DEF TypeOK
<1>2. CASE altstack' = [altstack EXCEPT ![c] = @ \o <<RootMgr, MgrRet(k)>>]
  <2>1. RootMgr \in Saving /\ MgrRet(k) \in Saving
    BY DEF Saving
  <2>2. altstack[c] \o <<RootMgr, MgrRet(k)>> \in Seq(Saving)
    BY <1>1, <2>1
  <2> QED
    BY <1>1, <1>2, <2>2
<1>3. CASE altstack' = [altstack EXCEPT ![c] = @ \o <<MgrOf(on[c][k]), Ret(k)>>]
  <2>1. MgrOf(on[c][k]) \in Saving /\ Ret(k) \in Saving
    BY <1>1 DEF Saving
  <2>2. altstack[c] \o <<MgrOf(on[c][k]), Ret(k)>> \in Seq(Saving)
    BY <1>1, <2>1
  <2> QED
    BY <1>1, <1>3, <2>2
<1>4. CASE altstack' = [altstack EXCEPT ![c] = PopTwo(@)]
  <2>1. PopTwo(altstack[c]) \in Seq(Saving)
    BY <1>1, PopTwoTypes
  <2> QED
    BY <1>1, <1>4, <2>1
<1>5. CASE altstack' = altstack
  BY <1>1, <1>5
<1> QED
  BY <1>2, <1>3, <1>4, <1>5 DEF Step, DirectReturn, Precall, Lock, SearchFinds, SearchFails,
     NewMemRep, NewRep, Construct, BindRef, NewNode, Insert, Unlock, PreCallReturn, CallFunction,
     Return

\* Every step keeps the types of the stack of activations.
LEMMA StepControl ==
  ASSUME NEW c \in Cores, NEW k \in Levels, Step(c, k), TypeOK
  PROVE  /\ sp' \in [Cores -> 0 .. Depth]
         /\ pc' \in [Cores -> [Levels -> Labels]]
         /\ on' \in [Cores -> [Levels -> Ebbs]]
<1>1. \/ \E r \in Labels : Goto(c, k, r) /\ UNCHANGED <<sp, on>>
      \/ k + 1 \in Levels /\ \E r \in Labels : Call(c, k + 1, MemEbb, r)
      \/ Leave(c, k)
  BY DEF Step, DirectReturn, Precall, Lock, SearchFinds, SearchFails, NewMemRep, NewRep, Construct,
     BindRef, NewNode, Insert, Unlock, PreCallReturn, CallFunction, Return, Labels
<1>2. CASE \E r \in Labels : Goto(c, k, r) /\ UNCHANGED <<sp, on>>
  <2>1. PICK r \in Labels : Goto(c, k, r) /\ UNCHANGED <<sp, on>>
    BY <1>2
  <2> QED
    BY <2>1, ControlTypes, EbbAssumption
<1>3. CASE k + 1 \in Levels /\ \E r \in Labels : Call(c, k + 1, MemEbb, r)
  <2>1. PICK r \in Labels : Call(c, k + 1, MemEbb, r)
    BY <1>3
  <2> QED
    BY <1>3, <2>1, ControlTypes, EbbAssumption
<1>4. CASE Leave(c, k)
  <2>1. "free" \in Labels
    BY DEF Labels
  <2> QED
    BY <1>4, <2>1, ControlTypes, EbbAssumption
<1> QED
  BY <1>1, <1>2, <1>3, <1>4

\* Every step of an activation keeps TypeOK.
LEMMA StepTypes ==
  ASSUME NEW c \in Cores, NEW k \in Levels, Step(c, k), TypeOK,
         pc[c][k] = "insert" => rep[c][k] \in Cores
  PROVE  TypeOK'
  BY StepControl, LockTypes, ListTypes, RefTypes, MgrRefTypes, AltstackTypes, HistoryTypes,
     RepTypes, ViaRootTypes DEF TypeOK

\* A call by the application keeps TypeOK.
LEMMA AppCallTypes ==
  ASSUME NEW c \in Cores, NEW e \in Ebbs, AppCall(c, e), TypeOK
  PROVE  TypeOK'
<1>1. 1 \in Levels /\ "free" \in Labels
  BY DepthAssumption DEF Levels, Labels
<1>2. /\ sp' \in [Cores -> 0 .. Depth]
      /\ pc' \in [Cores -> [Levels -> Labels]]
      /\ on' \in [Cores -> [Levels -> Ebbs]]
  BY <1>1, ControlTypes DEF AppCall
<1>3. rep' \in [Cores -> [Levels -> Cores \cup {None}]]
  BY <1>1 DEF AppCall, TypeOK
<1> QED
  BY <1>2, <1>3 DEF AppCall, TypeOK

-----------------------------------------------------------------------------
\* The inductive invariant without its types and locks.
Parts == StackShape /\ EntryFollowsDispatch /\ BuiltInv

\* Parts is the rest of the inductive invariant.
LEMMA IInvIsParts == IInv <=> TypeOK /\ Parts /\ LockInv
  BY DEF IInv, Parts, LockInv, BuiltInv

Quiet == {"precall", "lock", "search", "new", "node", "insert", "unlock", "mgrret", "call", "body"}

\* Steps that move one activation on and neither construct nor bind.
LEMMA QuietStep ==
  ASSUME TypeOK, Parts, NEW c \in Cores, NEW k \in Levels,
         NEW from \in Quiet, NEW to \in Quiet, from \in Bound <=> to \in Bound,
         At(c, k, from), Goto(c, k, to), UNCHANGED <<sp, on, ref, rep, built>>,
         NodesBuilt'
  PROVE  Parts'
<1>1. /\ from \in Labels \ {"free", "direct", "bind"} /\ to \in Labels \ {"free", "direct", "bind"}
      /\ from \in Labels /\ to \in Labels
      /\ (from \in Unbound /\ to \in Unbound \ {"ctor"}) \/ (from \in Bound /\ to \in Bound)
  BY DEF Quiet, Labels, Unbound, Bound
<1>2. Moved(c, k, from, to)
  BY <1>1, GotoMoves
<1>3. StackShape'
  BY <1>1, <1>2, ShapeMoved DEF Parts
<1>4. EntryFollowsDispatch'
  BY <1>1, <1>2, EntryMoved DEF Parts
<1>5. BuiltInv'
  BY <1>1, <1>2, BuiltQuiet DEF Parts
<1> QED
  BY <1>3, <1>4, <1>5 DEF Parts

\* NodesBuilt holds while no node is added and nothing is constructed.
LEMMA NodesKept ==
  ASSUME Parts, UNCHANGED <<list, built>>
  PROVE  NodesBuilt'
  BY DEF Parts, BuiltInv, BuiltKept, NodesBuilt

\* The actions that neither construct, bind, lock nor unlock keep the invariant.
LEMMA QuietActions ==
  ASSUME TypeOK, Parts, NEW c \in Cores, NEW k \in Levels,
         \/ Precall(c, k) \/ SearchFails(c, k) \/ Insert(c, k)
         \/ PreCallReturn(c, k) \/ CallFunction(c, k)
  PROVE  Parts'
<1>1. CASE Precall(c, k)
  <2>1. "precall" \in Quiet /\ "lock" \in Quiet /\ "precall" \notin InPreCall /\ "lock" \notin InPreCall
        /\ "precall" \notin Bound /\ "lock" \notin Bound
    BY DEF Quiet, InPreCall, Bound
  <2> QED
    BY <1>1, <2>1, QuietStep, NodesKept DEF Precall
<1>2. CASE SearchFails(c, k)
  <2>1. "search" \in Quiet /\ "new" \in Quiet /\ "search" \in InPreCall /\ "new" \in InPreCall
        /\ "search" \notin Bound /\ "new" \notin Bound
    BY DEF Quiet, InPreCall, Bound
  <2> QED
    BY <1>2, <2>1, QuietStep, NodesKept DEF SearchFails
<1>3. CASE Insert(c, k)
  <2>1. "insert" \in Quiet /\ "unlock" \in Quiet /\ "insert" \in InPreCall /\ "unlock" \in InPreCall
        /\ "insert" \in Bound /\ "unlock" \in Bound
    BY DEF Quiet, InPreCall, Bound
  <2>2. NodesBuilt'
    BY <1>3, InsertBuilt DEF Parts
  <2> QED
    BY <1>3, <2>1, <2>2, QuietStep DEF Insert
<1>4. CASE PreCallReturn(c, k)
  <2>1. "mgrret" \in Quiet /\ "call" \in Quiet /\ "mgrret" \notin InPreCall /\ "call" \notin InPreCall
        /\ "mgrret" \in Bound /\ "call" \in Bound
    BY DEF Quiet, InPreCall, Bound
  <2> QED
    BY <1>4, <2>1, QuietStep, NodesKept DEF PreCallReturn
<1>5. CASE CallFunction(c, k)
  <2>1. "call" \in Quiet /\ "body" \in Quiet /\ "call" \notin InPreCall /\ "body" \notin InPreCall
        /\ "call" \in Bound /\ "body" \in Bound
    BY DEF Quiet, InPreCall, Bound
  <2> QED
    BY <1>5, <2>1, QuietStep, NodesKept DEF CallFunction
<1> QED
  BY <1>1, <1>2, <1>3, <1>4, <1>5

\* Lock keeps the invariant.
LEMMA LockAction ==
  ASSUME TypeOK, Parts, NEW c \in Cores, NEW k \in Levels, Lock(c, k)
  PROVE  Parts'
<1>1. "lock" \in Quiet /\ "search" \in Quiet /\ "lock" \notin Bound /\ "search" \notin Bound
  BY DEF Quiet, Bound
<1> QED
  BY <1>1, QuietStep, NodesKept DEF Lock

\* Unlock keeps the invariant.
LEMMA UnlockAction ==
  ASSUME TypeOK, Parts, NEW c \in Cores, NEW k \in Levels, Unlock(c, k)
  PROVE  Parts'
<1> DEFINE to == IF viaRoot[c][k] THEN "mgrret" ELSE "call"
<1>1. "unlock" \in Quiet /\ to \in Quiet /\ "unlock" \in Bound /\ to \in Bound
  BY DEF Quiet, Bound
<1>2. At(c, k, "unlock") /\ Goto(c, k, to) /\ UNCHANGED <<sp, on, ref, rep, built, list>>
  BY DEF Unlock
<1> HIDE DEF to
<1> QED
  BY <1>1, <1>2, QuietStep, NodesKept

\* SearchFinds keeps the invariant: the node it finds is for a representative
\* that exists, and only a core that is in Junk can find one.
LEMMA SearchFindsAction ==
  ASSUME TypeOK, Parts, NEW c \in Cores, NEW k \in Levels, SearchFinds(c, k)
  PROVE  Parts'
<1>0. /\ list \in [Ebbs -> Seq(Node)] /\ on[c][k] \in Ebbs
      /\ ref \in [Cores -> [Ebbs -> Cores \cup {None}]]
      /\ rep \in [Cores -> [Levels -> Cores \cup {None}]]
  BY DEF TypeOK
<1>1. PICK i \in 1 .. Len(list[on[c][k]]) :
        /\ FirstHere(c, list[on[c][k]], i)
        /\ rep' = [rep EXCEPT ![c][k] = list[on[c][k]][i].ref]
        /\ ref' = [ref EXCEPT ![c][on[c][k]] = list[on[c][k]][i].ref]
  BY DEF SearchFinds
<1> DEFINE r == list[on[c][k]][i].ref
<1>2. list[on[c][k]][i] \in Node
  BY <1>0
<1>3. r \in Cores /\ c \in Junk
  BY <1>1, <1>2 DEF Node, FirstHere
<1>4. built[r][on[c][k]] = 1
  BY <1>0 DEF Parts, BuiltInv, BuiltKept, NodesBuilt
<1>5. rep' = [rep EXCEPT ![c][k] = r] /\ ref' = [ref EXCEPT ![c][on[c][k]] = r]
  BY <1>1
<1> HIDE DEF r
<1>6. /\ \A d \in Cores, e \in Ebbs : ref'[d][e] = IF d = c /\ e = on[c][k] THEN r ELSE ref[d][e]
      /\ \A d \in Cores, l \in Levels : rep'[d][l] = IF d = c /\ l = k THEN r ELSE rep[d][l]
  BY <1>0, <1>5
<1>7. /\ "search" \in Labels \ {"free", "direct"} /\ "unlock" \in Labels \ {"free"}
      /\ "search" \in Unbound /\ "unlock" \in Bound /\ "search" \in Labels /\ "unlock" \in Labels
  BY DEF Labels, Unbound, Bound
<1>8. Moved(c, k, "search", "unlock")
  BY <1>7, GotoMoves DEF SearchFinds
<1>9. StackShape'
  BY <1>7, <1>8, ShapeMoved DEF Parts
<1>10. EntryFollowsDispatch'
  BY <1>3, <1>6, <1>7, <1>8, EntryBinds DEF Parts
<1>12. BuiltInv'
  BY <1>3, <1>4, <1>6, <1>7, <1>8, BuiltBinds DEF Parts, SearchFinds
<1> QED
  BY <1>9, <1>10, <1>12 DEF Parts

\* BindRef keeps the invariant.
LEMMA BindRefAction ==
  ASSUME TypeOK, Parts, NEW c \in Cores, NEW k \in Levels, BindRef(c, k)
  PROVE  Parts'
<1>0. /\ on[c][k] \in Ebbs
      /\ ref \in [Cores -> [Ebbs -> Cores \cup {None}]]
      /\ rep \in [Cores -> [Levels -> Cores \cup {None}]]
  BY DEF TypeOK
<1>1. rep[c][k] = c /\ built[c][on[c][k]] = 1
  BY DEF Parts, BuiltInv, BuiltKept, RepOf, BindRef, At
<1>2. /\ \A d \in Cores, e \in Ebbs : ref'[d][e] = IF d = c /\ e = on[c][k] THEN c ELSE ref[d][e]
      /\ \A d \in Cores, l \in Levels : rep'[d][l] = IF d = c /\ l = k THEN c ELSE rep[d][l]
  BY <1>0, <1>1 DEF BindRef
<1>7. /\ "bind" \in Labels \ {"free", "direct"} /\ "node" \in Labels \ {"free"}
      /\ "bind" \in Unbound /\ "node" \in Bound /\ "bind" \in Labels /\ "node" \in Labels
  BY DEF Labels, Unbound, Bound
<1>8. Moved(c, k, "bind", "node")
  BY <1>7, GotoMoves DEF BindRef
<1>9. StackShape'
  BY <1>7, <1>8, ShapeMoved DEF Parts
<1>10. EntryFollowsDispatch'
  BY <1>2, <1>7, <1>8, EntryBinds DEF Parts
<1>12. BuiltInv'
  BY <1>1, <1>2, <1>7, <1>8, BuiltBinds DEF Parts, BindRef
<1> QED
  BY <1>9, <1>10, <1>12 DEF Parts

\* NewMemRep keeps the invariant.
LEMMA NewMemRepAction ==
  ASSUME TypeOK, Parts, NEW c \in Cores, NEW k \in Levels, NewMemRep(c, k)
  PROVE  Parts'
<1>0. /\ on[c][k] = MemEbb /\ MemEbb \in Ebbs /\ pc[c][k] = "new"
      /\ built \in [Cores -> [Ebbs -> Nat]]
      /\ rep \in [Cores -> [Levels -> Cores \cup {None}]]
  BY EbbAssumption DEF TypeOK, NewMemRep, At
<1>2. /\ \A d \in Cores, e \in Ebbs :
           built'[d][e] = IF d = c /\ e = on[c][k] THEN built[d][e] + 1 ELSE built[d][e]
      /\ \A d \in Cores, l \in Levels : rep'[d][l] = IF d = c /\ l = k THEN c ELSE rep[d][l]
  BY <1>0 DEF NewMemRep
<1>7. /\ "new" \in Labels \ {"free", "direct"} /\ "bind" \in Labels \ {"free"}
      /\ "new" \in Unbound /\ "bind" \in Unbound \ {"ctor"} /\ "new" \in Labels /\ "bind" \in Labels
  BY DEF Labels, Unbound
<1>8. Moved(c, k, "new", "bind")
  BY <1>7, GotoMoves DEF NewMemRep
<1>9. StackShape'
  BY <1>7, <1>8, ShapeMoved DEF Parts
<1>10. EntryFollowsDispatch'
  BY <1>7, <1>8, EntryMoved DEF Parts, NewMemRep
<1>12. /\ pc'[c][k] = "bind" /\ on'[c][k] = on[c][k] /\ rep'[c][k] = c
       /\ \A d \in Cores, l \in Levels :
            d # c \/ l # k =>
              pc'[d][l] = pc[d][l] /\ on'[d][l] = on[d][l] /\ rep'[d][l] = rep[d][l]
  BY <1>2, <1>8 DEF Moved
<1>13. BuiltInv'
  BY <1>0, <1>2, <1>12, BuiltConstructs DEF Parts, NewMemRep
<1> QED
  BY <1>9, <1>10, <1>13 DEF Parts

\* The two returns keep the invariant.
LEMMA PopActions ==
  ASSUME TypeOK, Parts, NEW c \in Cores, NEW k \in Levels,
         DirectReturn(c, k) \/ Return(c, k)
  PROVE  Parts'
<1>1. /\ sp[c] = k /\ pc[c][k] \in {"direct", "body"} /\ Leave(c, k)
      /\ UNCHANGED <<lock, list, ref, built>>
  BY DEF DirectReturn, Return, At
<1>2. Popped(c, k)
  BY <1>1, LeavePops
<1>3. \A d \in Cores, l \in Levels :
        rep'[d][l] = IF d = c /\ l = k THEN None ELSE rep[d][l]
  BY <1>1 DEF Leave, TypeOK
<1>4. pc[c][k] # "bind"
  BY <1>1
<1>5. StackShape'
  BY <1>2, ShapePopped DEF Parts
<1>6. EntryFollowsDispatch'
  BY <1>1, <1>2, EntryPopped DEF Parts
<1>8. BuiltInv'
  BY <1>1, <1>2, <1>3, <1>4, BuiltPopped DEF Parts
<1> QED
  BY <1>5, <1>6, <1>8 DEF Parts

\* AppCall keeps the invariant.
LEMMA AppCallAction ==
  ASSUME TypeOK, Parts, NEW c \in Cores, NEW e \in Ebbs, AppCall(c, e)
  PROVE  Parts'
<1>1. 1 \in Levels /\ "free" \in Labels \ {"bind"} /\ "free" \in Labels
  BY DepthAssumption DEF Levels, Labels
<1>2. Pushed(c, 1, e, "free")
  BY <1>1, CallPushes DEF AppCall
<1>3. sp[c] = 0 /\ pc[c][1] = "free"
  BY <1>1, <1>2 DEF Pushed, Parts, StackShape, ShapeOf
<1>4. \A d \in Cores, l \in Levels :
        rep'[d][l] = IF d = c /\ l = 1 THEN ref[c][e] ELSE rep[d][l]
  BY <1>1 DEF AppCall, TypeOK
<1>5. StackShape'
  BY <1>1, <1>2, ShapePushed DEF Parts
<1>6. EntryFollowsDispatch'
  BY <1>1, <1>2, EntryPushed DEF Parts, AppCall
<1>8. BuiltInv'
  BY <1>1, <1>2, <1>3, <1>4, BuiltPushed DEF Parts, AppCall
<1> QED
  BY <1>5, <1>6, <1>8 DEF Parts

\* A nested call of memAllocator from level j - 1.
LEMMA NestedShape ==
  ASSUME TypeOK, Parts, NEW c \in Cores, NEW j \in Levels, j > 1, NEW r \in Labels,
         Call(c, j, MemEbb, r), UNCHANGED <<lock, ref>>,
         \/ pc[c][j - 1] \in {"new", "ctor"} /\ r \in {"ctor", "bind"} /\ on[c][j - 1] # MemEbb
         \/ pc[c][j - 1] = "node" /\ r = "insert"
  PROVE  /\ StackShape' /\ EntryFollowsDispatch'
         /\ Pushed(c, j, MemEbb, r) /\ pc[c][j] = "free"
<1>1. j - 1 \in Levels /\ j \in Int /\ sp[c] = j - 1
  BY DepthAssumption DEF Levels, Call
<1>2. EntryOf(c, j - 1)
  BY <1>1 DEF Parts, EntryFollowsDispatch
<1>3. on[c][j - 1] = MemEbb => r = "insert" /\ ref[c][MemEbb] # None
  BY <1>2 DEF EntryOf, Bound
<1>4. Pushed(c, j, MemEbb, r)
  BY CallPushes, EbbAssumption
<1>5. pc[c][j - 1] \notin {"free", "direct"} /\ r \in {"ctor", "bind", "insert"}
  OBVIOUS
<1>6. StackShape'
  BY <1>3, <1>4, <1>5, ShapePushed, EbbAssumption DEF Parts
<1>7. \/ pc[c][j - 1] \in Unbound /\ r \in Unbound /\ on[c][j - 1] # MemEbb
      \/ pc[c][j - 1] \in Bound /\ r \in Bound
  BY DEF Unbound, Bound
<1>8. EntryFollowsDispatch'
  BY <1>4, <1>7, EntryPushed, EbbAssumption DEF Parts
<1>11. pc[c][j] = "free"
  BY <1>1 DEF Parts, StackShape, ShapeOf
<1> QED
  BY <1>4, <1>6, <1>8, <1>11

\* A nested call that constructs nothing keeps the invariant.
LEMMA NestedCall ==
  ASSUME TypeOK, Parts, NEW c \in Cores, NEW j \in Levels, j > 1, NEW r \in Labels,
         Call(c, j, MemEbb, r),
         \/ pc[c][j - 1] = "new" /\ r = "ctor" /\ on[c][j - 1] # MemEbb
         \/ pc[c][j - 1] = "node" /\ r = "insert",
         rep' = [rep EXCEPT ![c][j] = ref[c][MemEbb]],
         UNCHANGED <<lock, list, ref, built>>
  PROVE  Parts'
<1>1. /\ StackShape' /\ EntryFollowsDispatch'
      /\ Pushed(c, j, MemEbb, r) /\ pc[c][j] = "free"
  BY NestedShape
<1>2. \A d \in Cores, l \in Levels :
        rep'[d][l] = IF d = c /\ l = j THEN ref[c][MemEbb] ELSE rep[d][l]
  BY DEF TypeOK
<1>3. /\ r \in Labels \ {"bind"} /\ pc[c][j] # "bind" /\ pc[c][j - 1] # "bind"
      /\ r \in Bound => pc[c][j - 1] \in Bound
  BY <1>1 DEF Bound
<1>4. BuiltInv'
  BY <1>1, <1>2, <1>3, BuiltPushed, EbbAssumption DEF Parts
<1> QED
  BY <1>1, <1>4 DEF Parts

\* NewRep and NewNode keep the invariant.
LEMMA NestedActions ==
  ASSUME TypeOK, Parts, NEW c \in Cores, NEW k \in Levels,
         NewRep(c, k) \/ NewNode(c, k)
  PROVE  Parts'
<1> DEFINE j == k + 1
<1>1. j \in Levels /\ j > 1 /\ j - 1 = k
  BY DEF NewRep, NewNode, Levels
<1>2. CASE NewRep(c, k)
  <2>1. /\ Call(c, j, MemEbb, "ctor") /\ pc[c][k] = "new" /\ on[c][k] # MemEbb
        /\ rep' = [rep EXCEPT ![c][j] = ref[c][MemEbb]]
        /\ UNCHANGED <<lock, list, ref, built>> /\ "ctor" \in Labels
    BY <1>2 DEF NewRep, At, Labels
  <2> HIDE DEF j
  <2> QED
    BY <1>1, <2>1, NestedCall
<1>3. CASE NewNode(c, k)
  <2>1. /\ Call(c, j, MemEbb, "insert") /\ pc[c][k] = "node"
        /\ rep' = [rep EXCEPT ![c][j] = ref[c][MemEbb]]
        /\ UNCHANGED <<lock, list, ref, built>> /\ "insert" \in Labels
    BY <1>3 DEF NewNode, At, Labels
  <2> HIDE DEF j
  <2> QED
    BY <1>1, <2>1, NestedCall
<1> QED
  BY <1>2, <1>3

\* Construct keeps the invariant.
LEMMA ConstructAction ==
  ASSUME TypeOK, Parts, NEW c \in Cores, NEW k \in Levels, Construct(c, k)
  PROVE  Parts'
<1> DEFINE j == k + 1
<1>1. j \in Levels /\ j > 1 /\ j - 1 = k /\ j # k
  BY DEF Construct, Levels
<1>2. /\ Call(c, j, MemEbb, "bind") /\ pc[c][k] = "ctor" /\ "bind" \in Labels
      /\ rep' = [rep EXCEPT ![c][k] = c, ![c][j] = ref[c][MemEbb]]
      /\ built' = [built EXCEPT ![c][on[c][k]] = @ + 1]
      /\ UNCHANGED <<lock, list, ref>>
  BY DEF Construct, At, Labels
<1> HIDE DEF j
<1>3. on[c][k] # MemEbb
  BY <1>2 DEF Parts, EntryFollowsDispatch, EntryOf
<1>4. /\ StackShape' /\ EntryFollowsDispatch'
      /\ Pushed(c, j, MemEbb, "bind") /\ pc[c][j] = "free"
  BY <1>1, <1>2, <1>3, NestedShape
<1>5. \A d \in Cores, l \in Levels :
        rep'[d][l] = IF d = c /\ l = j THEN ref[c][MemEbb]
                     ELSE IF d = c /\ l = k THEN c ELSE rep[d][l]
  BY <1>1, <1>2 DEF TypeOK
<1>6. \A d \in Cores, e \in Ebbs :
        built'[d][e] = IF d = c /\ e = on[c][k] THEN built[d][e] + 1 ELSE built[d][e]
  BY <1>2 DEF TypeOK
<1>7. /\ pc'[c][k] = "bind" /\ on'[c][k] = on[c][k] /\ rep'[c][k] = c
      /\ pc'[c][j] # "bind" /\ on'[c][j] = MemEbb
      /\ \A d \in Cores, l \in Levels :
           d # c \/ (l # k /\ l # j) =>
             pc'[d][l] = pc[d][l] /\ on'[d][l] = on[d][l] /\ rep'[d][l] = rep[d][l]
  BY <1>1, <1>4, <1>5 DEF Pushed
<1>8. \A d \in Cores, l \in Levels :
        d # c \/ l # k =>
          \/ pc'[d][l] = pc[d][l] /\ on'[d][l] = on[d][l] /\ rep'[d][l] = rep[d][l]
          \/ /\ pc[d][l] # "bind" /\ pc'[d][l] # "bind"
             /\ pc'[d][l] \in Bound => rep'[d][l] = ref[d][on'[d][l]]
  BY <1>1, <1>4, <1>5, <1>7
<1>9. BuiltInv'
  BY <1>2, <1>6, <1>7, <1>8, BuiltConstructs DEF Parts
<1> QED
  BY <1>4, <1>9 DEF Parts

\* What an activation does next keeps the parts that the locks have nothing to
\* do with.
LEMMA StepParts ==
  ASSUME TypeOK, Parts, NEW c \in Cores, NEW k \in Levels, Step(c, k)
  PROVE  TypeOK' /\ Parts'
<1>1. TypeOK'
  <2>1. pc[c][k] = "insert" => rep[c][k] \in Cores
    BY InsertsBuilt DEF Parts
  <2> QED
    BY <2>1, StepTypes
<1>2. CASE Precall(c, k) \/ SearchFails(c, k) \/ Insert(c, k)
           \/ PreCallReturn(c, k) \/ CallFunction(c, k)
  BY <1>1, <1>2, QuietActions
<1>3. CASE Lock(c, k) \/ Unlock(c, k)
  BY <1>1, <1>3, LockAction, UnlockAction
<1>4. CASE SearchFinds(c, k) \/ BindRef(c, k)
  BY <1>1, <1>4, SearchFindsAction, BindRefAction
<1>5. CASE NewMemRep(c, k) \/ Construct(c, k)
  BY <1>1, <1>5, NewMemRepAction, ConstructAction
<1>6. CASE NewRep(c, k) \/ NewNode(c, k)
  BY <1>1, <1>6, NestedActions
<1>7. CASE DirectReturn(c, k) \/ Return(c, k)
  BY <1>1, <1>7, PopActions
<1> QED
  BY <1>2, <1>3, <1>4, <1>5, <1>6, <1>7 DEF Step

\* A representative that has been made is not made again.
LEMMA StepBuildsOnce ==
  ASSUME TypeOK, Parts, NEW c \in Cores, NEW k \in Levels, Step(c, k),
         NEW d \in Cores, NEW e \in Ebbs, built[d][e] = 1
  PROVE  built'[d][e] = 1
<1>1. built \in [Cores -> [Ebbs -> Nat]] /\ on[c][k] \in Ebbs
  BY DEF TypeOK
<1>2. CASE NewMemRep(c, k) \/ Construct(c, k)
  <2>1. pc[c][k] \in {"new", "ctor"} /\ built' = [built EXCEPT ![c][on[c][k]] = @ + 1]
    BY <1>2 DEF NewMemRep, Construct, At
  <2>2. built[c][on[c][k]] = 0
    BY <2>1, NotBuiltYet DEF Parts
  <2> QED
    BY <1>1, <2>1, <2>2
<1>3. CASE built' = built
  BY <1>3
<1> QED
  BY <1>2, <1>3 DEF Step, DirectReturn, Precall, Lock, SearchFinds, SearchFails, NewRep, BindRef,
     NewNode, Insert, Unlock, PreCallReturn, CallFunction, Return

\* What a step does to the stack of activations: it moves the topmost one on,
\* makes it call memAllocator, or pops it.
LEMMA StepForms ==
  ASSUME TypeOK, NEW c \in Cores, NEW k \in Levels, Step(c, k)
  PROVE  /\ sp[c] = k
         /\ \/ \E from, to \in Labels : Moved(c, k, from, to)
            \/ k + 1 \in Levels /\ \E r \in Labels : Pushed(c, k + 1, MemEbb, r)
            \/ Popped(c, k)
<1>1. sp[c] = k
  BY DEF Step, DirectReturn, Precall, Lock, SearchFinds, SearchFails, NewMemRep, NewRep, Construct,
     BindRef, NewNode, Insert, Unlock, PreCallReturn, CallFunction, Return, At
<1>2. \/ \E from, to \in Labels : At(c, k, from) /\ Goto(c, k, to) /\ UNCHANGED <<sp, on>>
      \/ k + 1 \in Levels /\ \E r \in Labels : Call(c, k + 1, MemEbb, r)
      \/ Leave(c, k)
  BY DEF Step, DirectReturn, Precall, Lock, SearchFinds, SearchFails, NewMemRep, NewRep, Construct,
     BindRef, NewNode, Insert, Unlock, PreCallReturn, CallFunction, Return, Labels
<1> QED
  BY <1>1, <1>2, GotoMoves, CallPushes, LeavePops, EbbAssumption

\* Steps that neither lock, unlock, call nor return keep LockInv.
LEMMA MovesKeepLocks ==
  ASSUME TypeOK, LockInv, NEW c \in Cores, NEW k \in Levels,
         \/ Precall(c, k) \/ SearchFinds(c, k) \/ SearchFails(c, k) \/ NewMemRep(c, k)
         \/ BindRef(c, k) \/ Insert(c, k) \/ PreCallReturn(c, k) \/ CallFunction(c, k)
  PROVE  LockInv'
<1>1. PICK from \in Labels, to \in Labels :
        At(c, k, from) /\ Goto(c, k, to) /\ (from \in InPreCall <=> to \in InPreCall)
  BY DEF Precall, SearchFinds, SearchFails, NewMemRep, BindRef, Insert, PreCallReturn,
         CallFunction, Labels, InPreCall
<1>2. UNCHANGED <<sp, on, lock>>
  BY DEF Precall, SearchFinds, SearchFails, NewMemRep, BindRef, Insert, PreCallReturn, CallFunction
<1>3. Moved(c, k, from, to)
  BY <1>1, <1>2, GotoMoves
<1> QED
  BY <1>1, <1>2, <1>3, HoldsMoved, LockInvKept

\* A nested call is made inside the critical section and resumed there.
LEMMA CallsKeepLocks ==
  ASSUME TypeOK, Parts, LockInv, NEW c \in Cores, NEW k \in Levels,
         NewRep(c, k) \/ NewNode(c, k) \/ Construct(c, k)
  PROVE  LockInv'
<1> DEFINE j == k + 1
<1>1. j \in Levels /\ j - 1 = k
  BY DEF NewRep, NewNode, Construct, Levels
<1>2. PICK r \in Labels : Call(c, j, MemEbb, r) /\ r \in InPreCall
  BY DEF NewRep, NewNode, Construct, Labels, InPreCall
<1>3. pc[c][k] \in InPreCall /\ lock' = lock
  BY DEF NewRep, NewNode, Construct, At, InPreCall
<1> HIDE DEF j
<1>4. Pushed(c, j, MemEbb, r)
  BY <1>1, <1>2, CallPushes, EbbAssumption
<1> QED
  BY <1>1, <1>2, <1>3, <1>4, HoldsPushed, LockInvKept, EbbAssumption DEF Parts

\* No step of an activation breaks what the locks are for.
LEMMA StepLocks ==
  ASSUME TypeOK, Parts, LockInv, NEW c \in Cores, NEW k \in Levels, Step(c, k)
  PROVE  LockInv'
<1>1. CASE Lock(c, k)
  <2>1. "lock" \in Labels /\ "search" \in Labels
    BY DEF Labels
  <2> QED
    BY <1>1, <2>1, GotoMoves, LockInvLock DEF Lock
<1>2. CASE Unlock(c, k)
  <2> DEFINE to == IF viaRoot[c][k] THEN "mgrret" ELSE "call"
  <2>1. "unlock" \in Labels /\ to \in Labels /\ to \in {"mgrret", "call"}
    BY DEF Labels
  <2>2. At(c, k, "unlock") /\ Goto(c, k, to) /\ UNCHANGED <<sp, on>>
    BY <1>2 DEF Unlock
  <2> HIDE DEF to
  <2>3. Moved(c, k, "unlock", to)
    BY <2>1, <2>2, GotoMoves
  <2> QED
    BY <1>2, <2>1, <2>3, LockInvUnlock
<1>3. CASE DirectReturn(c, k) \/ Return(c, k)
  <2>1. /\ sp[c] = k /\ pc[c][k] \notin InPreCall /\ Leave(c, k) /\ lock' = lock
    BY <1>3 DEF DirectReturn, Return, At, InPreCall
  <2>2. Popped(c, k)
    BY <2>1, LeavePops
  <2> QED
    BY <2>1, <2>2, HoldsPopped, LockInvKept DEF Parts
<1>4. CASE NewRep(c, k) \/ NewNode(c, k) \/ Construct(c, k)
  BY <1>4, CallsKeepLocks
<1>5. CASE \/ Precall(c, k) \/ SearchFinds(c, k) \/ SearchFails(c, k) \/ NewMemRep(c, k)
           \/ BindRef(c, k) \/ Insert(c, k) \/ PreCallReturn(c, k) \/ CallFunction(c, k)
  BY <1>5, MovesKeepLocks
<1> QED
  BY <1>1, <1>2, <1>3, <1>4, <1>5 DEF Step

\* Nor does a call by the application.
LEMMA AppCallLocks ==
  ASSUME TypeOK, Parts, LockInv, NEW c \in Cores, NEW e \in Ebbs, AppCall(c, e)
  PROVE  LockInv'
<1>1. 1 \in Levels /\ "free" \in Labels /\ ~(1 > 1)
  BY DepthAssumption DEF Levels, Labels
<1>2. Pushed(c, 1, e, "free")
  BY <1>1, CallPushes DEF AppCall
<1> QED
  BY <1>1, <1>2, HoldsPushed, LockInvKept DEF Parts, AppCall

\* A stuttering step keeps the invariant.
LEMMA StutterKeeps ==
  ASSUME IInv, UNCHANGED vars
  PROVE  IInv'
<1>1. TypeOK'
  BY DEF IInv, TypeOK, vars
<1>2. StackShape' /\ EntryFollowsDispatch'
  BY DEF IInv, StackShape, ShapeOf, EntryFollowsDispatch, EntryOf, vars
<1>3. HolderLocks' /\ MutualExclusion'
  BY DEF IInv, HolderLocks, MutualExclusion, Holds, vars
<1>4. BuiltKept' /\ BoundIsBuilt' /\ OwnRep'
  BY DEF IInv, BuiltKept, BuiltOf, RepOf, NodesBuilt, BoundIsBuilt, OwnRep, vars
<1> QED
  BY <1>1, <1>2, <1>3, <1>4 DEF IInv

\* IInv is inductive.
LEMMA StepIInv == IInv /\ [Next]_vars => IInv'
<1> SUFFICES ASSUME IInv, [Next]_vars PROVE IInv'
  OBVIOUS
<1>1. TypeOK /\ Parts /\ LockInv
  BY IInvIsParts
<1>2. CASE UNCHANGED vars
  BY <1>2, StutterKeeps
<1>3. ASSUME NEW c \in Cores, NEW e \in Ebbs, AppCall(c, e) PROVE TypeOK' /\ Parts' /\ LockInv'
  BY <1>1, <1>3, AppCallTypes, AppCallAction, AppCallLocks
<1>4. ASSUME NEW c \in Cores, NEW k \in Levels, Step(c, k) PROVE TypeOK' /\ Parts' /\ LockInv'
  BY <1>1, <1>4, StepParts, StepLocks
<1>5. ASSUME Next PROVE IInv'
  <2>1. TypeOK' /\ Parts' /\ LockInv'
    BY <1>3, <1>4, <1>5 DEF Next
  <2> QED
    BY <2>1 DEF IInv, Parts, LockInv, BuiltInv
<1> QED
  BY <1>2, <1>5

\* IInv holds initially.
LEMMA InitIInv == Init => IInv
<1> SUFFICES ASSUME Init PROVE IInv
  OBVIOUS
<1>1. TypeOK
  <2>1. /\ lock \in [Ebbs -> BOOLEAN]
        /\ mgrRef \in [Cores -> [Ebbs -> BOOLEAN]]
        /\ viaRoot \in [Cores -> [Levels -> BOOLEAN]]
    BY DEF Init
  <2>2. list \in [Ebbs -> Seq(Node)] /\ altstack \in [Cores -> Seq(Saving)]
    BY DEF Init
  <2>3. /\ ref \in [Cores -> [Ebbs -> Cores \cup {None}]]
        /\ rep \in [Cores -> [Levels -> Cores \cup {None}]]
        /\ built \in [Cores -> [Ebbs -> Nat]]
    BY DEF Init
  <2>4. sp \in [Cores -> 0 .. Depth] /\ on \in [Cores -> [Levels -> Ebbs]]
    BY EbbAssumption, DepthAssumption DEF Init
  <2>5. pc \in [Cores -> [Levels -> Labels]]
    BY DEF Init, Labels
  <2> QED
    BY <2>1, <2>2, <2>3, <2>4, <2>5 DEF TypeOK
<1>2. StackShape
  <2>1. SUFFICES ASSUME NEW c \in Cores PROVE ShapeOf(c)
    BY DEF StackShape
  <2>2. sp[c] = 0 /\ \A k \in Levels : pc[c][k] = "free" /\ k > 0
    BY DEF Init, Levels
  <2> QED
    BY <2>2 DEF ShapeOf
<1>3. EntryFollowsDispatch /\ HolderLocks /\ MutualExclusion
  BY DEF Init, EntryFollowsDispatch, EntryOf, HolderLocks, MutualExclusion, Holds, Bound, Unbound, InPreCall
<1>4. BuiltKept
  BY DEF Init, BuiltKept, BuiltOf, RepOf, NodesBuilt, Bound
<1>5. BoundIsBuilt /\ OwnRep
  BY DEF Init, BoundIsBuilt, OwnRep
<1> QED
  BY <1>1, <1>2, <1>3, <1>4, <1>5 DEF IInv

\* The inductive invariant holds in every reachable state, for any number of
\* cores and Ebbs.
THEOREM Invariance == Spec => []IInv
<1>1. Init => IInv
  BY InitIInv
<1>2. IInv /\ [Next]_vars => IInv'
  BY StepIInv
<1> QED
  BY <1>1, <1>2, PTL DEF Spec

\* Every variable keeps its type; in particular a bound entry names a core's
\* representative and nothing nests deeper than the bound of the model.
THEOREM TypeCorrect == Spec => []TypeOK
<1>1. IInv => TypeOK
  BY DEF IInv
<1> QED
  BY <1>1, Invariance, PTL

\* DistributedManager::preCall runs under mutual exclusion: one activation of one
\* core at a time between Spinlock::lock and unlock of a manager.
THEOREM LockExcludes == Spec => []MutualExclusion
<1>1. IInv => MutualExclusion
  BY DEF IInv
<1> QED
  BY <1>1, Invariance, PTL

\* The shape of the stacks rules out a dispatch inside a dispatch of the same Ebb.
LEMMA ShapeForbidsSelfDeadlock == IInv => NoSelfDeadlock
<1> SUFFICES ASSUME IInv, NEW c \in Cores, NEW j \in Levels, NEW k \in Levels,
                    j < k, k <= sp[c], on[c][j] = on[c][k]
             PROVE  pc[c][k] = "direct"
  BY DEF NoSelfDeadlock
<1>1. ShapeOf(c) /\ sp[c] \in 0 .. Depth
  BY DEF IInv, StackShape, TypeOK
<1>2. j \in {1, 2} /\ k \in {2, 3} /\ sp[c] \in {2, 3}
  BY <1>1, DepthAssumption DEF ShapeOf, Levels
<1> QED
  BY <1>1, <1>2 DEF ShapeOf

\* No core ever waits for a manager's Spinlock that it holds itself: memAllocator
\* is bound before the dispatch that binds it allocates from it.
THEOREM NeverSelfDeadlocked == Spec => []NoSelfDeadlock
<1> QED
  BY ShapeForbidsSelfDeadlock, Invariance, PTL

\* Dispatches nest at most twice, which bounds the altstack and justifies the
\* bound Depth.
THEOREM NestsTwice == Spec => []NestingBounded
<1>1. IInv => NestingBounded
  BY DEF IInv, StackShape, ShapeOf, NestingBounded
<1> QED
  BY <1>1, Invariance, PTL

\* A core constructs its representative of an Ebb at most once.
THEOREM ConstructedOnce == Spec => []BuiltOnce
<1>1. IInv => BuiltOnce
  BY DEF IInv, BuiltKept, BuiltOf, BuiltOnce
<1> QED
  BY <1>1, Invariance, PTL

\* A translation entry is only bound to a representative that exists.
THEOREM OnlyConstructedBound == Spec => []BoundIsBuilt
<1>1. IInv => BoundIsBuilt
  BY DEF IInv
<1> QED
  BY <1>1, Invariance, PTL

\* A core that no uninitialised Node::location names works on its own
\* representative.
THEOREM OwnRepresentative == Spec => []OwnRep
<1>1. IInv => OwnRep
  BY DEF IInv
<1> QED
  BY <1>1, Invariance, PTL

\* What an activation does next leaves a bound entry alone.
LEMMA StepBindsOnce ==
  ASSUME TypeOK, Parts, NEW d \in Cores, NEW k \in Levels, Step(d, k),
         NEW c \in Cores, NEW e \in Ebbs, ref[c][e] # None
  PROVE  ref'[c][e] = ref[c][e]
<1>1. ref \in [Cores -> [Ebbs -> Cores \cup {None}]]
  BY DEF TypeOK
<1>2. CASE SearchFinds(d, k) \/ BindRef(d, k)
  <2>1. ref[d][on[d][k]] = None
    BY <1>2 DEF Parts, EntryFollowsDispatch, EntryOf, SearchFinds, BindRef, At, Unbound
  <2>2. ~(c = d /\ e = on[d][k])
    BY <2>1
  <2>3. \E r : ref' = [ref EXCEPT ![d][on[d][k]] = r]
    BY <1>2 DEF SearchFinds, BindRef
  <2> QED
    BY <1>1, <2>2, <2>3
<1>3. CASE ref' = ref
  BY <1>3
<1> QED
  BY <1>2, <1>3 DEF Step, DirectReturn, Precall, Lock, SearchFails, NewMemRep, NewRep, Construct,
     NewNode, Insert, Unlock, PreCallReturn, CallFunction, Return

\* A step leaves a bound entry alone.
LEMMA BindsOnce ==
  ASSUME IInv, [Next]_vars, NEW c \in Cores, NEW e \in Ebbs, ref[c][e] # None
  PROVE  ref'[c][e] = ref[c][e]
<1>1. TypeOK /\ Parts
  BY IInvIsParts
<1>2. ASSUME NEW d \in Cores, NEW k \in Levels, Step(d, k)
      PROVE  ref'[c][e] = ref[c][e]
  BY <1>1, <1>2, StepBindsOnce
<1>3. ASSUME NEW d \in Cores, NEW f \in Ebbs, AppCall(d, f)
      PROVE  ref' = ref
  BY <1>3 DEF AppCall
<1>4. UNCHANGED vars => ref' = ref
  BY DEF vars
<1> QED
  BY <1>2, <1>3, <1>4 DEF Next

\* A bound translation entry is never bound again nor unbound.
THEOREM BindingStable == Spec => RefStable
<1>1. IInv /\ [Next]_vars =>
        [\A c \in Cores, e \in Ebbs : ref[c][e] # None => ref'[c][e] = ref[c][e]]_vars
  BY BindsOnce
<1>2. Spec => [][\A c \in Cores, e \in Ebbs :
                    ref[c][e] # None => ref'[c][e] = ref[c][e]]_vars
  BY <1>1, Invariance, PTL DEF Spec
<1> QED
  BY <1>2 DEF RefStable

-----------------------------------------------------------------------------
\* A move inside a dispatch serves nobody.
LEMMA StaysQuiet ==
  ASSUME TypeOK, NEW c \in Cores, NEW k \in Levels,
         NEW from \in Labels \ {"direct", "body"}, NEW to \in Labels \ {"direct", "body"},
         Moved(c, k, from, to),
         \A d \in Cores, l \in Levels : d # c => rep'[d][l] = rep[d][l]
  PROVE  servings' = servings /\ servings[c] = None
<1>1. ASSUME NEW d \in Cores PROVE Serving(d)' = Serving(d)
  <2>1. sp[d] = 0 \/ sp[d] \in Levels
    BY DepthAssumption DEF TypeOK, Levels
  <2>2. CASE d = c
    BY <2>1, <2>2 DEF Serving, Moved, At
  <2>3. CASE d # c
    BY <2>1, <2>3 DEF Serving, Moved, At
  <2> QED
    BY <2>2, <2>3
<1>2. Serving(c) = None
  BY DEF Serving, Moved, At
<1> QED
  BY <1>1, <1>2 DEF servings

\* CallFunction starts to serve the caller.
LEMMA StartsServing ==
  ASSUME TypeOK, NEW c \in Cores, NEW k \in Levels,
         Moved(c, k, "call", "body"), rep' = rep
  PROVE  /\ servings[c] = None
         /\ servings' = [servings EXCEPT ![c] = <<on[c][k], rep[c][k]>>]
<1>1. ASSUME NEW d \in Cores, d # c PROVE Serving(d)' = Serving(d)
  <2>1. sp[d] = 0 \/ sp[d] \in Levels
    BY DepthAssumption DEF TypeOK, Levels
  <2> QED
    BY <1>1, <2>1 DEF Serving, Moved, At
<1>2. Serving(c) = None /\ Serving(c)' = <<on[c][k], rep[c][k]>>
  BY DEF Serving, Moved, At, Levels
<1> QED
  BY <1>1, <1>2 DEF servings

\* A call through a bound entry is served at once.
LEMMA EntersServing ==
  ASSUME TypeOK, StackShape, NEW c \in Cores, NEW j \in Levels, NEW e \in Ebbs, NEW r \in Labels,
         Pushed(c, j, e, r),
         j > 1 => pc[c][j - 1] \notin {"direct", "body"},
         \A d \in Cores, l \in Levels : d # c => rep'[d][l] = rep[d][l],
         rep'[c][j] = ref[c][e]
  PROVE  /\ servings[c] = None
         /\ servings' = [servings EXCEPT ![c] =
                           IF ref[c][e] = None THEN None ELSE <<e, ref[c][e]>>]
<1>0. j \in Int /\ j >= 1 /\ sp[c] = j - 1
  BY DEF Levels, Pushed
<1>1. ASSUME NEW d \in Cores, d # c PROVE Serving(d)' = Serving(d)
  <2>1. sp[d] = 0 \/ sp[d] \in Levels
    BY DepthAssumption DEF TypeOK, Levels
  <2> QED
    BY <1>1, <2>1 DEF Serving, Pushed
<1>2. Serving(c) = None
  BY <1>0 DEF Serving
<1>3. Serving(c)' = IF ref[c][e] = None THEN None ELSE <<e, ref[c][e]>>
  BY <1>0 DEF Serving, Pushed
<1> QED
  BY <1>1, <1>2, <1>3 DEF servings

\* A return ends what the core was serving; the caller below is inside a dispatch.
LEMMA LeavesServing ==
  ASSUME TypeOK, Parts, NEW c \in Cores, NEW k \in Levels, Popped(c, k),
         pc[c][k] \in {"direct", "body"},
         \A d \in Cores, l \in Levels : d # c => rep'[d][l] = rep[d][l]
  PROVE  /\ servings[c] # None
         /\ servings' = [servings EXCEPT ![c] = None]
<1>0. k \in Int /\ k >= 1 /\ sp[c] = k
  BY DEF Levels, Popped
<1>1. ASSUME NEW d \in Cores, d # c PROVE Serving(d)' = Serving(d)
  <2>1. sp[d] = 0 \/ sp[d] \in Levels
    BY DepthAssumption DEF TypeOK, Levels
  <2> QED
    BY <1>1, <2>1 DEF Serving, Popped
<1>2. Serving(c) # None
  <2>1. RepOf(c, k) /\ EntryOf(c, k) /\ on[c][k] \in Ebbs
    BY DEF Parts, BuiltInv, BuiltKept, EntryFollowsDispatch, TypeOK
  <2>2. rep[c][k] \in Cores
    BY <2>1 DEF TypeOK, RepOf, EntryOf, Bound
  <2>3. Serving(c) = <<on[c][k], rep[c][k]>>
    BY <1>0 DEF Serving
  <2>4. <<on[c][k], rep[c][k]>> \in Ebbs \X Cores
    BY <2>1, <2>2
  <2> QED
    BY <2>3, <2>4, NoneAssumption
<1>3. Serving(c)' = None
  <2>1. k - 1 = 0 \/ (k - 1 \in Levels /\ pc[c][k - 1] \notin {"direct", "body"})
    <3>1. ShapeOf(c)
      BY DEF Parts, StackShape
    <3>2. k \in {1, 2, 3}
      BY <1>0, <3>1 DEF ShapeOf
    <3> QED
      BY <1>0, <3>1, <3>2, DepthAssumption DEF ShapeOf, Levels
  <2> QED
    BY <1>0, <2>1 DEF Serving, Popped
<1> QED
  BY <1>1, <1>2, <1>3 DEF servings

\* Binding steps.
LEMMA BindRefines ==
  ASSUME TypeOK, Parts, NEW c \in Cores, NEW k \in Levels,
         SearchFinds(c, k) \/ BindRef(c, k)
  PROVE  Cache!Next
<1>0. /\ on[c][k] \in Ebbs /\ list \in [Ebbs -> Seq(Node)]
      /\ rep \in [Cores -> [Levels -> Cores \cup {None}]]
  BY DEF TypeOK
<1>1. ref[c][on[c][k]] = None
  BY DEF Parts, EntryFollowsDispatch, EntryOf, SearchFinds, BindRef, At, Unbound
<1>2. CASE SearchFinds(c, k)
  <2>1. "search" \in Labels \ {"direct", "body"} /\ "unlock" \in Labels \ {"direct", "body"}
        /\ "search" \in Labels /\ "unlock" \in Labels
    BY DEF Labels
  <2>2. Moved(c, k, "search", "unlock")
    BY <1>2, <2>1, GotoMoves DEF SearchFinds
  <2>3. PICK i \in 1 .. Len(list[on[c][k]]) :
          /\ FirstHere(c, list[on[c][k]], i)
          /\ rep' = [rep EXCEPT ![c][k] = list[on[c][k]][i].ref]
          /\ ref' = [ref EXCEPT ![c][on[c][k]] = list[on[c][k]][i].ref]
    BY <1>2 DEF SearchFinds
  <2>4. list[on[c][k]][i] \in Node
    BY <1>0
  <2>5. list[on[c][k]][i].ref \in Cores /\ c \in Junk \cap Cores
    BY <2>3, <2>4 DEF Node, FirstHere
  <2>6. \A d \in Cores, l \in Levels : d # c => rep'[d][l] = rep[d][l]
    BY <1>0, <2>3
  <2>7. servings' = servings /\ servings[c] = None
    BY <2>1, <2>2, <2>6, StaysQuiet
  <2> QED
    BY <1>0, <1>1, <2>3, <2>5, <2>7 DEF Cache!Next, Cache!Bind
<1>3. CASE BindRef(c, k)
  <2>1. "bind" \in Labels \ {"direct", "body"} /\ "node" \in Labels \ {"direct", "body"}
        /\ "bind" \in Labels /\ "node" \in Labels
    BY DEF Labels
  <2>2. Moved(c, k, "bind", "node")
    BY <1>3, <2>1, GotoMoves DEF BindRef
  <2>3. rep[c][k] = c /\ rep' = rep /\ ref' = [ref EXCEPT ![c][on[c][k]] = rep[c][k]]
    BY <1>3 DEF Parts, BuiltInv, BuiltKept, RepOf, BindRef, At
  <2>4. servings' = servings /\ servings[c] = None
    BY <2>1, <2>2, <2>3, StaysQuiet
  <2> QED
    BY <1>0, <1>1, <2>3, <2>4 DEF Cache!Next, Cache!Bind
<1> QED
  BY <1>2, <1>3

\* A return implements Done.
LEMMA PopRefines ==
  ASSUME TypeOK, Parts, NEW c \in Cores, NEW k \in Levels,
         DirectReturn(c, k) \/ Return(c, k)
  PROVE  Cache!Next
<1>1. /\ sp[c] = k /\ pc[c][k] \in {"direct", "body"} /\ Leave(c, k) /\ ref' = ref
  BY DEF DirectReturn, Return, At
<1>2. Popped(c, k)
  BY <1>1, LeavePops
<1>3. \A d \in Cores, l \in Levels : d # c => rep'[d][l] = rep[d][l]
  BY <1>1 DEF Leave, TypeOK
<1>4. servings[c] # None /\ servings' = [servings EXCEPT ![c] = None]
  BY <1>1, <1>2, <1>3, LeavesServing
<1> QED
  BY <1>1, <1>4 DEF Cache!Next, Cache!Done

\* CallFunction implements Serve on the bound representative.
LEMMA CallFunctionRefines ==
  ASSUME TypeOK, Parts, NEW c \in Cores, NEW k \in Levels, CallFunction(c, k)
  PROVE  Cache!Next
<1>1. "call" \in Labels /\ "body" \in Labels
  BY DEF Labels
<1>2. Moved(c, k, "call", "body") /\ rep' = rep /\ ref' = ref
  BY <1>1, GotoMoves DEF CallFunction
<1>3. RepOf(c, k) /\ EntryOf(c, k) /\ on[c][k] \in Ebbs
  BY DEF Parts, BuiltInv, BuiltKept, EntryFollowsDispatch, TypeOK
<1>4. rep[c][k] = ref[c][on[c][k]] /\ ref[c][on[c][k]] # None
  BY <1>2, <1>3 DEF RepOf, EntryOf, Moved, At, Bound
<1>5. servings[c] = None /\ servings' = [servings EXCEPT ![c] = <<on[c][k], rep[c][k]>>]
  BY <1>2, StartsServing
<1> QED
  BY <1>2, <1>3, <1>4, <1>5 DEF Cache!Next, Cache!Serve

\* A call starts running at once when the entry is bound.
LEMMA CallRefines ==
  ASSUME TypeOK, Parts, NEW c \in Cores, NEW j \in Levels, NEW e \in Ebbs, NEW r \in Labels,
         Call(c, j, e, r), ref' = ref,
         j > 1 => pc[c][j - 1] \notin {"direct", "body"},
         \A d \in Cores, l \in Levels : d # c => rep'[d][l] = rep[d][l],
         rep'[c][j] = ref[c][e]
  PROVE  Cache!Next \/ UNCHANGED Cache!vars
<1>1. Pushed(c, j, e, r)
  BY CallPushes
<1>2. /\ servings[c] = None
      /\ servings' = [servings EXCEPT ![c] = IF ref[c][e] = None THEN None ELSE <<e, ref[c][e]>>]
  BY <1>1, EntersServing DEF Parts
<1>3. CASE ref[c][e] = None
  <2>1. servings' = servings
    BY <1>2, <1>3 DEF servings
  <2> QED
    BY <2>1 DEF Cache!vars
<1>4. CASE ref[c][e] # None
  BY <1>2, <1>4 DEF Cache!Next, Cache!Serve
<1> QED
  BY <1>3, <1>4

\* A nested call implements Serve or nothing.
LEMMA CallActionsRefine ==
  ASSUME TypeOK, Parts, NEW c \in Cores, NEW k \in Levels,
         NewRep(c, k) \/ NewNode(c, k) \/ Construct(c, k)
  PROVE  Cache!Next \/ UNCHANGED Cache!vars
<1> DEFINE j == k + 1
<1>1. j \in Levels /\ j - 1 = k /\ j # k
  BY DEF NewRep, NewNode, Construct, Levels
<1>2. PICK r \in Labels : Call(c, j, MemEbb, r)
  BY DEF NewRep, NewNode, Construct, Labels
<1>3. pc[c][k] \notin {"direct", "body"} /\ ref' = ref
  BY DEF NewRep, NewNode, Construct, At
<1>4. \/ rep' = [rep EXCEPT ![c][j] = ref[c][MemEbb]]
      \/ rep' = [rep EXCEPT ![c][k] = c, ![c][j] = ref[c][MemEbb]]
  BY DEF NewRep, NewNode, Construct
<1> HIDE DEF j
<1>5. /\ \A d \in Cores, l \in Levels : d # c => rep'[d][l] = rep[d][l]
      /\ rep'[c][j] = ref[c][MemEbb]
  BY <1>1, <1>4 DEF TypeOK
<1> QED
  BY <1>1, <1>2, <1>3, <1>5, CallRefines, EbbAssumption

\* A call by the application implements Serve or nothing.
LEMMA AppCallRefines ==
  ASSUME TypeOK, Parts, NEW c \in Cores, NEW e \in Ebbs, AppCall(c, e)
  PROVE  Cache!Next \/ UNCHANGED Cache!vars
<1>1. 1 \in Levels /\ "free" \in Labels /\ ~(1 > 1)
  BY DepthAssumption DEF Levels, Labels
<1>2. /\ \A d \in Cores, l \in Levels : d # c => rep'[d][l] = rep[d][l]
      /\ rep'[c][1] = ref[c][e]
  BY <1>1 DEF AppCall, TypeOK
<1> QED
  BY <1>1, <1>2, CallRefines DEF AppCall

\* Everything else is internal to the dispatch.
LEMMA QuietRefines ==
  ASSUME TypeOK, Parts, NEW c \in Cores, NEW k \in Levels,
         \/ Precall(c, k) \/ Lock(c, k) \/ SearchFails(c, k) \/ NewMemRep(c, k)
         \/ Insert(c, k) \/ Unlock(c, k) \/ PreCallReturn(c, k)
  PROVE  UNCHANGED Cache!vars
<1>1. PICK from \in Labels \ {"direct", "body"}, to \in Labels \ {"direct", "body"} :
        At(c, k, from) /\ Goto(c, k, to)
  BY DEF Precall, Lock, SearchFails, NewMemRep, Insert, Unlock, PreCallReturn, Labels
<1>2. UNCHANGED <<sp, on, ref>>
  BY DEF Precall, Lock, SearchFails, NewMemRep, Insert, Unlock, PreCallReturn
<1>3. Moved(c, k, from, to)
  BY <1>1, <1>2, GotoMoves
<1>4. \A d \in Cores, l \in Levels : d # c => rep'[d][l] = rep[d][l]
  BY DEF Precall, Lock, SearchFails, NewMemRep, Insert, Unlock, PreCallReturn, TypeOK
<1>5. servings' = servings
  BY <1>3, <1>4, StaysQuiet
<1> QED
  BY <1>2, <1>5 DEF Cache!vars

\* Every step implements a step of EbbCache or none.
LEMMA StepRefines == IInv /\ [Next]_vars => [Cache!Next]_(Cache!vars)
<1> SUFFICES ASSUME IInv, [Next]_vars PROVE Cache!Next \/ UNCHANGED Cache!vars
  OBVIOUS
<1>1. TypeOK /\ Parts
  BY IInvIsParts
<1>2. CASE UNCHANGED vars
  BY <1>2 DEF vars, Cache!vars, servings, Serving
<1>3. ASSUME NEW c \in Cores, NEW e \in Ebbs, AppCall(c, e)
      PROVE  Cache!Next \/ UNCHANGED Cache!vars
  BY <1>1, <1>3, AppCallRefines
<1>4. ASSUME NEW c \in Cores, NEW k \in Levels, Step(c, k)
      PROVE  Cache!Next \/ UNCHANGED Cache!vars
  <2>1. CASE SearchFinds(c, k) \/ BindRef(c, k)
    BY <1>1, <2>1, BindRefines
  <2>2. CASE DirectReturn(c, k) \/ Return(c, k)
    BY <1>1, <2>2, PopRefines
  <2>3. CASE CallFunction(c, k)
    BY <1>1, <2>3, CallFunctionRefines
  <2>4. CASE NewRep(c, k) \/ NewNode(c, k) \/ Construct(c, k)
    BY <1>1, <2>4, CallActionsRefine
  <2>5. CASE \/ Precall(c, k) \/ Lock(c, k) \/ SearchFails(c, k) \/ NewMemRep(c, k)
             \/ Insert(c, k) \/ Unlock(c, k) \/ PreCallReturn(c, k)
    BY <1>1, <2>5, QuietRefines
  <2> QED
    BY <1>4, <2>1, <2>2, <2>3, <2>4, <2>5 DEF Step
<1> QED
  BY <1>2, <1>3, <1>4 DEF Next

\* The initial states implement those of EbbCache.
LEMMA InitRefines == Init => Cache!Init
  BY DEF Init, Cache!Init, servings, Serving

\* Translation implements EbbCache: a call runs on the representative its core is
\* bound to, and the binding is made once.
THEOREM Refinement == Spec => CacheSpec
<1>1. Init => Cache!Init
  BY InitRefines
<1>2. IInv /\ [Next]_vars => [Cache!Next]_(Cache!vars)
  BY StepRefines
<1> QED
  BY <1>1, <1>2, Invariance, PTL DEF Spec, CacheSpec, Cache!Spec

-----------------------------------------------------------------------------
\* What PopTwo takes off is what was put on last.
LEMMA PopPushed ==
  ASSUME NEW S, NEW s \in Seq(S), NEW a \in S, NEW b \in S
  PROVE  PopTwo(s \o <<a, b>>) = s
<1> DEFINE t == s \o <<a, b>>
<1>1. <<a, b>> \in Seq(S) /\ Len(<<a, b>>) = 2
  OBVIOUS
<1>2. t \in Seq(S) /\ Len(t) = Len(s) + 2 /\ \A i \in 1 .. Len(s) : t[i] = s[i]
  BY <1>1, ConcatProperties
<1>3. PopTwo(t) \in Seq(S) /\ Len(PopTwo(t)) = Len(s)
      /\ \A i \in 1 .. Len(s) : PopTwo(t)[i] = t[i]
  <2>1. Len(s) \in Nat
    BY LenProperties
  <2>2. Len(t) - 2 = Len(s)
    BY <1>2, <2>1
  <2> HIDE DEF t
  <2>3. SubSeq(t, 1, Len(s)) \in Seq(S) /\ Len(SubSeq(t, 1, Len(s))) = Len(s)
        /\ \A i \in 1 .. Len(s) : SubSeq(t, 1, Len(s))[i] = t[i]
    BY <1>2, <2>1
  <2> QED
    BY <2>2, <2>3 DEF PopTwo
<1> HIDE DEF t
<1>4. PopTwo(t) = s
  BY <1>2, <1>3, SeqEqual
<1> QED
  BY <1>4 DEF t

-----------------------------------------------------------------------------
\* The altstack.

\* A dispatch that returns through the rootManager's postCall was made with it.
ViaRootKnown ==
  \A c \in Cores, k \in Levels : pc[c][k] = "mgrret" => viaRoot[c][k]

\* What an activation saves is a sequence of what altstackPush is given.
LEMMA SavedType ==
  ASSUME TypeOK, NEW c \in Cores, NEW k \in Levels
  PROVE  Saved(c, k) \in Seq(Saving)
<1>1. /\ RootMgr \in Saving /\ MgrRet(k) \in Saving /\ Ret(k) \in Saving
      /\ MgrOf(on[c][k]) \in Saving
  BY DEF TypeOK, Saving
<1>2. /\ <<RootMgr, MgrRet(k)>> \in Seq(Saving)
      /\ <<MgrOf(on[c][k]), Ret(k)>> \in Seq(Saving)
      /\ << >> \in Seq(Saving)
  BY <1>1
<1> HIDE DEF Saving
<1> QED
  BY <1>2 DEF Saved

\* The three levels there are.
LEMMA ThreeLevels == 1 \in Levels /\ 2 \in Levels /\ 3 \in Levels /\ Levels \subseteq Int
  BY DepthAssumption DEF Levels

\* A step under which no activation saves or gives back anything.
LEMMA ExactKept ==
  ASSUME AltstackExact, altstack' = altstack,
         \A d \in Cores, l \in Levels : Saved(d, l)' = Saved(d, l)
  PROVE  AltstackExact'
  BY ThreeLevels DEF AltstackExact

\* A step by which the topmost activation saves two words.
LEMMA ExactPushed ==
  ASSUME TypeOK, AltstackExact, NEW c \in Cores, NEW k \in {1, 2, 3},
         NEW a \in Saving, NEW b \in Saving,
         altstack' = [altstack EXCEPT ![c] = @ \o <<a, b>>],
         Saved(c, k) = << >>, Saved(c, k)' = <<a, b>>,
         \A l \in {1, 2, 3} : l > k => Saved(c, l) = << >>,
         \A d \in Cores, l \in Levels : d # c \/ l # k => Saved(d, l)' = Saved(d, l)
  PROVE  AltstackExact'
<1>1. SUFFICES ASSUME NEW d \in Cores
               PROVE  altstack'[d] = Saved(d, 1)' \o Saved(d, 2)' \o Saved(d, 3)'
  BY DEF AltstackExact
<1>2. CASE d # c
  BY <1>2, ThreeLevels DEF AltstackExact, TypeOK
<1>3. CASE d = c
  <2>1. /\ altstack'[c] = altstack[c] \o <<a, b>>
        /\ altstack[c] = Saved(c, 1) \o Saved(c, 2) \o Saved(c, 3)
    BY DEF AltstackExact, TypeOK
  <2>2. Saved(c, 1) \in Seq(Saving) /\ Saved(c, 2) \in Seq(Saving)
    BY SavedType, ThreeLevels
  <2>3. <<a, b>> \in Seq(Saving) /\ << >> \in Seq(Saving)
    OBVIOUS
  <2> HIDE DEF Saving
  <2>4. CASE k = 1
    <3>1. Saved(c, 1) = << >> /\ Saved(c, 2) = << >> /\ Saved(c, 3) = << >>
          /\ Saved(c, 1)' = <<a, b>> /\ Saved(c, 2)' = << >> /\ Saved(c, 3)' = << >>
      BY <2>4, ThreeLevels
    <3>2. << >> \o << >> = << >> /\ << >> \o <<a, b>> = <<a, b>> /\ <<a, b>> \o << >> = <<a, b>>
      BY <2>3, ConcatEmptySeq
    <3> QED
      BY <1>3, <2>1, <3>1, <3>2, Zenon
  <2>5. CASE k = 2
    <3>1. Saved(c, 2) = << >> /\ Saved(c, 3) = << >> /\ Saved(c, 1)' = Saved(c, 1)
          /\ Saved(c, 2)' = <<a, b>> /\ Saved(c, 3)' = << >>
      BY <2>5, ThreeLevels
    <3>2. Saved(c, 1) \o <<a, b>> \in Seq(Saving)
      BY <2>2, <2>3, ConcatProperties
    <3>3. /\ Saved(c, 1) \o << >> = Saved(c, 1)
          /\ (Saved(c, 1) \o <<a, b>>) \o << >> = Saved(c, 1) \o <<a, b>>
      BY <2>2, <3>2, ConcatEmptySeq
    <3> QED
      BY <1>3, <2>1, <3>1, <3>3, Zenon
  <2>6. CASE k = 3
    <3>1. Saved(c, 3) = << >> /\ Saved(c, 1)' = Saved(c, 1) /\ Saved(c, 2)' = Saved(c, 2)
          /\ Saved(c, 3)' = <<a, b>>
      BY <2>6, ThreeLevels
    <3>2. Saved(c, 1) \o Saved(c, 2) \in Seq(Saving)
      BY <2>2, ConcatProperties
    <3>3. (Saved(c, 1) \o Saved(c, 2)) \o << >> = Saved(c, 1) \o Saved(c, 2)
      BY <3>2, ConcatEmptySeq
    <3> QED
      BY <1>3, <2>1, <3>1, <3>3, Zenon
  <2> QED
    BY <2>4, <2>5, <2>6
<1> QED
  BY <1>2, <1>3

\* A step by which the topmost activation gives two words back.
LEMMA ExactPopped ==
  ASSUME TypeOK, AltstackExact, NEW c \in Cores, NEW k \in {1, 2, 3},
         NEW a \in Saving, NEW b \in Saving,
         altstack' = [altstack EXCEPT ![c] = PopTwo(@)],
         Saved(c, k) = <<a, b>>, Saved(c, k)' = << >>,
         \A l \in {1, 2, 3} : l > k => Saved(c, l) = << >>,
         \A d \in Cores, l \in Levels : d # c \/ l # k => Saved(d, l)' = Saved(d, l)
  PROVE  AltstackExact'
<1>1. SUFFICES ASSUME NEW d \in Cores
               PROVE  altstack'[d] = Saved(d, 1)' \o Saved(d, 2)' \o Saved(d, 3)'
  BY DEF AltstackExact
<1>2. CASE d # c
  BY <1>2, ThreeLevels DEF AltstackExact, TypeOK
<1>3. CASE d = c
  <2>1. /\ altstack'[c] = PopTwo(altstack[c])
        /\ altstack[c] = Saved(c, 1) \o Saved(c, 2) \o Saved(c, 3)
    BY DEF AltstackExact, TypeOK
  <2>2. Saved(c, 1) \in Seq(Saving) /\ Saved(c, 2) \in Seq(Saving)
    BY SavedType, ThreeLevels
  <2>3. <<a, b>> \in Seq(Saving) /\ << >> \in Seq(Saving)
    OBVIOUS
  <2> HIDE DEF Saving
  <2>4. CASE k = 1
    <3>1. Saved(c, 1) = <<a, b>> /\ Saved(c, 2) = << >> /\ Saved(c, 3) = << >>
          /\ Saved(c, 1)' = << >> /\ Saved(c, 2)' = << >> /\ Saved(c, 3)' = << >>
      BY <2>4, ThreeLevels
    <3>2. << >> \o << >> = << >> /\ << >> \o <<a, b>> = <<a, b>> /\ <<a, b>> \o << >> = <<a, b>>
      BY <2>3, ConcatEmptySeq
    <3>3. PopTwo(<< >> \o <<a, b>>) = << >>
      <4>1. \A s \in Seq(Saving) : PopTwo(s \o <<a, b>>) = s
        BY PopPushed
      <4> QED
        BY <2>3, <4>1, Zenon
    <3> QED
      BY <1>3, <2>1, <3>1, <3>2, <3>3, Zenon
  <2>5. CASE k = 2
    <3>1. Saved(c, 2) = <<a, b>> /\ Saved(c, 3) = << >> /\ Saved(c, 1)' = Saved(c, 1)
          /\ Saved(c, 2)' = << >> /\ Saved(c, 3)' = << >>
      BY <2>5, ThreeLevels
    <3>2. Saved(c, 1) \o <<a, b>> \in Seq(Saving)
      BY <2>2, <2>3, ConcatProperties
    <3>3. /\ Saved(c, 1) \o << >> = Saved(c, 1)
          /\ (Saved(c, 1) \o <<a, b>>) \o << >> = Saved(c, 1) \o <<a, b>>
      BY <2>2, <3>2, ConcatEmptySeq
    <3>4. PopTwo(Saved(c, 1) \o <<a, b>>) = Saved(c, 1)
      BY <2>2, PopPushed
    <3> QED
      BY <1>3, <2>1, <3>1, <3>3, <3>4, Zenon
  <2>6. CASE k = 3
    <3>1. Saved(c, 3) = <<a, b>> /\ Saved(c, 1)' = Saved(c, 1) /\ Saved(c, 2)' = Saved(c, 2)
          /\ Saved(c, 3)' = << >>
      BY <2>6, ThreeLevels
    <3>2. Saved(c, 1) \o Saved(c, 2) \in Seq(Saving)
      BY <2>2, ConcatProperties
    <3>3. (Saved(c, 1) \o Saved(c, 2)) \o << >> = Saved(c, 1) \o Saved(c, 2)
      BY <3>2, ConcatEmptySeq
    <3>4. PopTwo((Saved(c, 1) \o Saved(c, 2)) \o <<a, b>>) = Saved(c, 1) \o Saved(c, 2)
      <4>1. \A s \in Seq(Saving) : PopTwo(s \o <<a, b>>) = s
        BY PopPushed
      <4> QED
        BY <3>2, <4>1, Zenon
    <3> QED
      BY <1>3, <2>1, <3>1, <3>3, <3>4, Zenon
  <2> QED
    BY <2>4, <2>5, <2>6
<1> QED
  BY <1>2, <1>3

\* The activation that runs is one of three, and those above it save nothing.
LEMMA TopLevel ==
  ASSUME TypeOK, StackShape, NEW c \in Cores, NEW k \in Levels, sp[c] = k
  PROVE  /\ k \in {1, 2, 3}
         /\ \A l \in {1, 2, 3} : l > k => Saved(c, l) = << >>
<1>1. k \in 1 .. 3
  BY DEF StackShape, ShapeOf, Levels
<1>2. \A l \in {1, 2, 3} : l > k => pc[c][l] = "free"
  BY <1>1, ThreeLevels DEF StackShape, ShapeOf
<1> QED
  BY <1>1, <1>2 DEF Saved, InPreCall

\* The labels at which an activation has saved nothing of its own, and those at
\* which it has saved what the rootManager's preCall needs, if it was called.
NothingSaved == {"free", "direct", "precall", "call"}
MaybeSaved == {"lock", "mgrret"} \cup InPreCall

\* An activation that stays on its side keeps what it has saved.
LEMMA SavedKept ==
  ASSUME NEW c \in Cores, NEW k \in Levels,
         \/ pc[c][k] \in NothingSaved /\ pc'[c][k] \in NothingSaved
         \/ pc[c][k] \in MaybeSaved /\ pc'[c][k] \in MaybeSaved
            /\ viaRoot'[c][k] = viaRoot[c][k]
         \/ pc'[c][k] = pc[c][k] /\ viaRoot'[c][k] = viaRoot[c][k] /\ on'[c][k] = on[c][k]
  PROVE  Saved(c, k)' = Saved(c, k)
  BY DEF Saved, NothingSaved, MaybeSaved, InPreCall

ExactInv == AltstackExact /\ ViaRootKnown

\* Steps that move an activation on without saving anything.
LEMMA ExactMoved ==
  ASSUME IInv, ExactInv, NEW c \in Cores, NEW k \in Levels,
         NEW from \in Labels, NEW to \in Labels,
         Moved(c, k, from, to), viaRoot' = viaRoot, altstack' = altstack,
         \/ from \in NothingSaved /\ to \in NothingSaved
         \/ from \in MaybeSaved /\ to \in MaybeSaved /\ to # "mgrret"
         \/ from = "unlock" /\ to = IF viaRoot[c][k] THEN "mgrret" ELSE "call"
  PROVE  ExactInv'
<1>1. \A d \in Cores, l \in Levels : Saved(d, l)' = Saved(d, l)
  <2>1. SUFFICES ASSUME NEW d \in Cores, NEW l \in Levels PROVE Saved(d, l)' = Saved(d, l)
    OBVIOUS
  <2>2. CASE d = c /\ l = k /\ from = "unlock" /\ ~viaRoot[c][k]
    BY <2>2 DEF Moved, At, Saved, InPreCall, NothingSaved, MaybeSaved
  <2>3. CASE d = c /\ l = k /\ ~(from = "unlock" /\ ~viaRoot[c][k])
    BY <2>3, SavedKept DEF Moved, At, InPreCall, NothingSaved, MaybeSaved
  <2>4. CASE ~(d = c /\ l = k)
    BY <2>4, SavedKept DEF Moved
  <2> QED
    BY <2>2, <2>3, <2>4
<1>2. AltstackExact'
  BY <1>1, ExactKept DEF ExactInv
<1>3. ViaRootKnown'
  BY DEF ExactInv, ViaRootKnown, Moved, At, NothingSaved
<1> QED
  BY <1>2, <1>3 DEF ExactInv

\* Calls: the new activation has saved nothing, its caller stays in preCall.
LEMMA ExactCalled ==
  ASSUME IInv, ExactInv, NEW c \in Cores, NEW k \in Levels, NEW e \in Ebbs,
         NEW r \in MaybeSaved \ {"mgrret"},
         Pushed(c, k, e, r), viaRoot' = viaRoot, altstack' = altstack,
         k > 1 => k - 1 \in Levels /\ pc[c][k - 1] \in MaybeSaved
  PROVE  ExactInv'
<1>0. TypeOK /\ StackShape /\ ExactInv /\ k \in Int
  BY DEF IInv, Levels
<1>1. pc[c][k] = "free"
  BY <1>0 DEF StackShape, ShapeOf, Pushed, Levels
<1>2. \A d \in Cores, l \in Levels : Saved(d, l)' = Saved(d, l)
  <2>1. SUFFICES ASSUME NEW d \in Cores, NEW l \in Levels PROVE Saved(d, l)' = Saved(d, l)
    OBVIOUS
  <2>2. CASE d = c /\ l = k
    BY <1>1, <2>2, SavedKept DEF Pushed, NothingSaved
  <2>3. CASE d = c /\ l = k - 1
    <3>1. k > 1 /\ l # k
      BY <1>0, <2>3 DEF Levels
    <3>2. pc'[c][l] = r /\ pc[c][l] \in MaybeSaved
      BY <2>3, <3>1 DEF Pushed
    <3> QED
      BY <2>3, <3>2, SavedKept
  <2>4. CASE ~(d = c /\ l \in {k, k - 1})
    BY <2>4, SavedKept DEF Pushed
  <2> QED
    BY <2>2, <2>3, <2>4
<1>3. AltstackExact'
  BY <1>2, ExactKept DEF ExactInv
<1>4. ViaRootKnown'
  BY DEF ExactInv, ViaRootKnown, Pushed, MaybeSaved
<1> QED
  BY <1>3, <1>4 DEF ExactInv

\* Each action of a dispatch keeps the altstack exact.
LEMMA ExactMoveActions ==
  ASSUME IInv, ExactInv, NEW c \in Cores, NEW k \in Levels,
         \/ Lock(c, k) \/ SearchFinds(c, k) \/ SearchFails(c, k) \/ NewMemRep(c, k)
         \/ BindRef(c, k) \/ Insert(c, k) \/ Unlock(c, k)
  PROVE  ExactInv'
<1>0. TypeOK /\ viaRoot' = viaRoot /\ altstack' = altstack /\ UNCHANGED <<sp, on>>
  BY DEF IInv, Lock, SearchFinds, SearchFails, NewMemRep, BindRef, Insert, Unlock
<1>1. ASSUME NEW from \in MaybeSaved \cap Labels, NEW to \in (MaybeSaved \cap Labels) \ {"mgrret"},
             At(c, k, from), Goto(c, k, to)
      PROVE  ExactInv'
  BY <1>0, <1>1, GotoMoves, ExactMoved
<1>2. \A l \in {"lock", "search", "new", "bind", "node", "insert", "unlock"} :
        l \in (MaybeSaved \cap Labels) \ {"mgrret"}
  BY DEF MaybeSaved, InPreCall, Labels
<1>3. CASE Lock(c, k)
  BY <1>1, <1>2, <1>3 DEF Lock
<1>4. CASE SearchFinds(c, k)
  BY <1>1, <1>2, <1>4 DEF SearchFinds
<1>5. CASE SearchFails(c, k)
  BY <1>1, <1>2, <1>5 DEF SearchFails
<1>6. CASE NewMemRep(c, k)
  BY <1>1, <1>2, <1>6 DEF NewMemRep
<1>7. CASE BindRef(c, k)
  BY <1>1, <1>2, <1>7 DEF BindRef
<1>8. CASE Insert(c, k)
  BY <1>1, <1>2, <1>8 DEF Insert
<1>9. CASE Unlock(c, k)
  <2> DEFINE to == IF viaRoot[c][k] THEN "mgrret" ELSE "call"
  <2>1. to \in Labels /\ "unlock" \in Labels
    BY DEF Labels
  <2>2. At(c, k, "unlock") /\ Goto(c, k, to)
    BY <1>9 DEF Unlock
  <2> HIDE DEF to
  <2>3. Moved(c, k, "unlock", to)
    BY <1>0, <2>1, <2>2, GotoMoves
  <2> USE DEF to
  <2> QED
    BY <1>0, <2>1, <2>3, ExactMoved
<1> QED
  BY <1>3, <1>4, <1>5, <1>6, <1>7, <1>8, <1>9

LEMMA ExactCallActions ==
  ASSUME IInv, ExactInv, NEW c \in Cores, NEW k \in Levels,
         NewRep(c, k) \/ Construct(c, k) \/ NewNode(c, k)
  PROVE  ExactInv'
<1>0. TypeOK /\ viaRoot' = viaRoot /\ altstack' = altstack /\ MemEbb \in Ebbs /\ k + 1 \in Levels
      /\ k \in Int /\ k >= 1
  BY EbbAssumption DEF IInv, NewRep, Construct, NewNode, Levels
<1>1. ASSUME NEW from \in MaybeSaved \cap Labels, NEW r \in (MaybeSaved \cap Labels) \ {"mgrret"},
             At(c, k, from), Call(c, k + 1, MemEbb, r)
      PROVE  ExactInv'
  <2>1. Pushed(c, k + 1, MemEbb, r)
    BY <1>0, <1>1, CallPushes
  <2>2. (k + 1) - 1 = k
    BY <1>0
  <2>3. pc[c][(k + 1) - 1] \in MaybeSaved /\ (k + 1) - 1 \in Levels
    BY <1>1, <2>2 DEF At
  <2> QED
    BY <1>0, <2>1, <2>3, ExactCalled
<1>2. \A l \in {"new", "ctor", "bind", "node", "insert"} :
        l \in (MaybeSaved \cap Labels) \ {"mgrret"}
  BY DEF MaybeSaved, InPreCall, Labels
<1>3. CASE NewRep(c, k)
  BY <1>1, <1>2, <1>3 DEF NewRep
<1>4. CASE Construct(c, k)
  BY <1>1, <1>2, <1>4 DEF Construct
<1>5. CASE NewNode(c, k)
  BY <1>1, <1>2, <1>5 DEF NewNode
<1> QED
  BY <1>3, <1>4, <1>5

LEMMA ExactAppCall ==
  ASSUME IInv, ExactInv, NEW c \in Cores, NEW e \in Ebbs, AppCall(c, e)
  PROVE  ExactInv'
<1>1. TypeOK /\ viaRoot' = viaRoot /\ altstack' = altstack /\ Call(c, 1, e, "free")
  BY DEF IInv, AppCall
<1>2. Pushed(c, 1, e, "free")
  BY <1>1, CallPushes, ThreeLevels DEF Labels
<1>3. Pushed(c, 1, e, "lock")
  BY <1>2 DEF Pushed, Levels
<1> QED
  BY <1>1, <1>3, ExactCalled, ThreeLevels DEF MaybeSaved

\* precall saves the rootManager and defaultFunc's return address in it when
\* the manager's own entry has to be bound first.
LEMMA ExactPrecall ==
  ASSUME IInv, ExactInv, NEW c \in Cores, NEW k \in Levels, Precall(c, k)
  PROVE  ExactInv'
<1> DEFINE unbound == ~mgrRef[c][on[c][k]]
<1>0. TypeOK /\ StackShape /\ AltstackExact /\ ViaRootKnown
  BY DEF IInv, ExactInv
<1>1. Moved(c, k, "precall", "lock")
  BY <1>0, GotoMoves DEF Precall, Labels
<1>2. \A d \in Cores, l \in Levels :
        viaRoot'[d][l] = IF d = c /\ l = k THEN unbound ELSE viaRoot[d][l]
  BY <1>0 DEF Precall, TypeOK
<1>3. \A d \in Cores, l \in Levels : d # c \/ l # k => Saved(d, l)' = Saved(d, l)
  BY <1>1, <1>2, SavedKept DEF Moved
<1>4. Saved(c, k) = << >> /\ sp[c] = k
  BY <1>1 DEF Moved, At, Saved, InPreCall
<1>5. Saved(c, k)' = IF unbound THEN <<RootMgr, MgrRet(k)>> ELSE << >>
  BY <1>1, <1>2 DEF Moved, At, Saved
<1>6. AltstackExact'
  <2>1. CASE unbound
    <3>1. altstack' = [altstack EXCEPT ![c] = @ \o <<RootMgr, MgrRet(k)>>]
      BY <2>1 DEF Precall
    <3>2. RootMgr \in Saving /\ MgrRet(k) \in Saving
      BY DEF Saving
    <3>3. k \in {1, 2, 3} /\ \A l \in {1, 2, 3} : l > k => Saved(c, l) = << >>
      BY <1>0, <1>4, TopLevel
    <3>4. Saved(c, k)' = <<RootMgr, MgrRet(k)>>
      BY <1>5, <2>1
    <3> HIDE DEF unbound
    <3> QED
      BY <1>0, <1>3, <1>4, <3>1, <3>2, <3>3, <3>4, ExactPushed
  <2>2. CASE ~unbound
    <3>1. altstack' = altstack
      BY <2>2 DEF Precall
    <3> QED
      BY <1>0, <1>3, <1>4, <1>5, <2>2, <3>1, ExactKept
  <2> QED
    BY <2>1, <2>2
<1>7. ViaRootKnown'
  BY <1>0, <1>1, <1>2 DEF ViaRootKnown, Moved
<1> QED
  BY <1>6, <1>7 DEF ExactInv

\* ... and both come off again when preCall has returned.
LEMMA ExactPreCallReturn ==
  ASSUME IInv, ExactInv, NEW c \in Cores, NEW k \in Levels, PreCallReturn(c, k)
  PROVE  ExactInv'
<1>0. TypeOK /\ StackShape /\ AltstackExact /\ ViaRootKnown
  BY DEF IInv, ExactInv
<1>1. Moved(c, k, "mgrret", "call") /\ viaRoot' = viaRoot
  BY <1>0, GotoMoves DEF PreCallReturn, Labels
<1>2. \A d \in Cores, l \in Levels : d # c \/ l # k => Saved(d, l)' = Saved(d, l)
  BY <1>1, SavedKept DEF Moved
<1>3. Saved(c, k) = <<RootMgr, MgrRet(k)>> /\ Saved(c, k)' = << >> /\ sp[c] = k
  BY <1>0, <1>1 DEF Moved, At, Saved, InPreCall, ViaRootKnown
<1>4. RootMgr \in Saving /\ MgrRet(k) \in Saving
  BY DEF Saving
<1>5. altstack' = [altstack EXCEPT ![c] = PopTwo(@)]
  BY DEF PreCallReturn
<1>6. AltstackExact'
  <2>1. k \in {1, 2, 3} /\ \A l \in {1, 2, 3} : l > k => Saved(c, l) = << >>
    BY <1>0, <1>3, TopLevel
  <2> QED
    BY <1>0, <1>2, <1>3, <1>4, <1>5, <2>1, ExactPopped
<1>7. ViaRootKnown'
  BY <1>0, <1>1 DEF ViaRootKnown, Moved
<1> QED
  BY <1>6, <1>7 DEF ExactInv

\* precall saves the manager and defaultFunc the caller's return address ...
LEMMA ExactCallFunction ==
  ASSUME IInv, ExactInv, NEW c \in Cores, NEW k \in Levels, CallFunction(c, k)
  PROVE  ExactInv'
<1>0. TypeOK /\ StackShape /\ AltstackExact /\ ViaRootKnown
  BY DEF IInv, ExactInv
<1>1. Moved(c, k, "call", "body") /\ viaRoot' = viaRoot
  BY <1>0, GotoMoves DEF CallFunction, Labels
<1>2. \A d \in Cores, l \in Levels : d # c \/ l # k => Saved(d, l)' = Saved(d, l)
  BY <1>1, SavedKept DEF Moved
<1>3. Saved(c, k) = << >> /\ sp[c] = k
  BY <1>1 DEF Moved, At, Saved, InPreCall
<1>4. Saved(c, k)' = <<MgrOf(on[c][k]), Ret(k)>>
  BY <1>1 DEF Moved, At, Saved, InPreCall
<1>5. MgrOf(on[c][k]) \in Saving /\ Ret(k) \in Saving
  BY <1>0 DEF Saving, TypeOK
<1>6. altstack' = [altstack EXCEPT ![c] = @ \o <<MgrOf(on[c][k]), Ret(k)>>]
  BY DEF CallFunction
<1>7. AltstackExact'
  <2>1. k \in {1, 2, 3} /\ \A l \in {1, 2, 3} : l > k => Saved(c, l) = << >>
    BY <1>0, <1>3, TopLevel
  <2> DEFINE a == MgrOf(on[c][k])
             b == Ret(k)
  <2>2. /\ a \in Saving /\ b \in Saving /\ Saved(c, k)' = <<a, b>>
        /\ altstack' = [altstack EXCEPT ![c] = @ \o <<a, b>>]
    BY <1>4, <1>5, <1>6
  <2> HIDE DEF a, b
  <2> QED
    BY <1>0, <1>2, <1>3, <2>1, <2>2, ExactPushed
<1>8. ViaRootKnown'
  BY <1>0, <1>1 DEF ViaRootKnown, Moved
<1> QED
  BY <1>7, <1>8 DEF ExactInv

\* ... and defaultFunc and postcall take both off before they return with them.
LEMMA ExactReturns ==
  ASSUME IInv, ExactInv, NEW c \in Cores, NEW k \in Levels,
         DirectReturn(c, k) \/ Return(c, k)
  PROVE  ExactInv'
<1>0. TypeOK /\ StackShape /\ AltstackExact /\ ViaRootKnown
  BY DEF IInv, ExactInv
<1>1. Leave(c, k) /\ sp[c] = k
  BY DEF DirectReturn, Return, At
<1>2. Popped(c, k)
  BY <1>0, <1>1, LeavePops
<1>3. \A d \in Cores, l \in Levels :
        viaRoot'[d][l] = IF d = c /\ l = k THEN FALSE ELSE viaRoot[d][l]
  BY <1>0, <1>1 DEF Leave, TypeOK
<1>4. \A d \in Cores, l \in Levels : d # c \/ l # k => Saved(d, l)' = Saved(d, l)
  <2>1. SUFFICES ASSUME NEW d \in Cores, NEW l \in Levels, d # c \/ l # k
                 PROVE  Saved(d, l)' = Saved(d, l)
    OBVIOUS
  <2>2. pc'[d][l] = pc[d][l] /\ on'[d][l] = on[d][l]
    BY <1>2, <2>1 DEF Popped
  <2>3. viaRoot'[d][l] = viaRoot[d][l]
    BY <1>3, <2>1, Zenon
  <2> QED
    BY <2>2, <2>3, SavedKept
<1>5. Saved(c, k)' = << >>
  BY <1>2 DEF Popped, Saved, InPreCall
<1>6. AltstackExact'
  <2>1. CASE DirectReturn(c, k)
    <3>1. Saved(c, k) = << >> /\ altstack' = altstack
      BY <2>1 DEF DirectReturn, At, Saved, InPreCall
    <3> QED
      BY <1>0, <1>4, <1>5, <3>1, ExactKept
  <2>2. CASE Return(c, k)
    <3>1. Saved(c, k) = <<MgrOf(on[c][k]), Ret(k)>>
      BY <2>2 DEF Return, At, Saved, InPreCall
    <3>2. MgrOf(on[c][k]) \in Saving /\ Ret(k) \in Saving
      BY <1>0 DEF Saving, TypeOK
    <3>3. altstack' = [altstack EXCEPT ![c] = PopTwo(@)]
      BY <2>2 DEF Return
    <3>4. k \in {1, 2, 3} /\ \A l \in {1, 2, 3} : l > k => Saved(c, l) = << >>
      BY <1>0, <1>1, TopLevel
    <3> QED
      BY <1>0, <1>4, <1>5, <3>1, <3>2, <3>3, <3>4, ExactPopped
  <2> QED
    BY <2>1, <2>2
<1>7. ViaRootKnown'
  <2>1. SUFFICES ASSUME NEW d \in Cores, NEW l \in Levels, pc'[d][l] = "mgrret"
                 PROVE  viaRoot'[d][l]
    BY DEF ViaRootKnown
  <2>2. ~(d = c /\ l = k) /\ pc[d][l] = "mgrret"
    BY <1>2, <2>1 DEF Popped
  <2>3. viaRoot[d][l]
    BY <1>0, <2>2 DEF ViaRootKnown
  <2> QED
    BY <1>3, <2>2, <2>3, Zenon
<1> QED
  BY <1>6, <1>7 DEF ExactInv

LEMMA ExactStep == IInv /\ ExactInv /\ [Next]_vars => ExactInv'
<1> SUFFICES ASSUME IInv, ExactInv, [Next]_vars PROVE ExactInv'
  OBVIOUS
<1>1. CASE UNCHANGED vars
  <2>1. altstack' = altstack /\ pc' = pc /\ viaRoot' = viaRoot /\ on' = on
    BY <1>1 DEF vars
  <2>2. \A d \in Cores, l \in Levels : Saved(d, l)' = Saved(d, l)
    BY <2>1 DEF Saved
  <2>3. ViaRootKnown'
    BY <2>1 DEF ExactInv, ViaRootKnown
  <2> QED
    BY <2>1, <2>2, <2>3, ExactKept DEF ExactInv
<1>2. ASSUME NEW c \in Cores, NEW e \in Ebbs, AppCall(c, e) PROVE ExactInv'
  BY <1>2, ExactAppCall
<1>3. ASSUME NEW c \in Cores, NEW k \in Levels, Step(c, k) PROVE ExactInv'
  BY <1>3, ExactMoveActions, ExactCallActions, ExactPrecall, ExactPreCallReturn,
     ExactCallFunction, ExactReturns DEF Step
<1> QED
  BY <1>1, <1>2, <1>3 DEF Next

LEMMA ExactInit == Init => ExactInv
<1> SUFFICES ASSUME Init PROVE ExactInv
  OBVIOUS
<1>1. \A c \in Cores, k \in Levels : pc[c][k] = "free" /\ Saved(c, k) = << >>
  BY DEF Init, Saved, InPreCall
<1>2. << >> \o << >> \o << >> = << >>
  OBVIOUS
<1>3. \A c \in Cores : altstack[c] = << >>
  BY DEF Init
<1> QED
  BY <1>1, <1>2, <1>3, ThreeLevels DEF ExactInv, AltstackExact, ViaRootKnown

\* The altstack of every core always holds exactly what its activations have
\* saved, innermost last: defaultFunc and postcall pop what the same dispatch
\* has pushed, for any cores, Ebbs and nesting.
THEOREM AltstackIsExact == Spec => []AltstackExact
<1>1. Init => ExactInv
  BY ExactInit
<1>2. IInv /\ ExactInv /\ [Next]_vars => ExactInv'
  BY ExactStep
<1>3. ExactInv => AltstackExact
  BY DEF ExactInv
<1> QED
  BY <1>1, <1>2, <1>3, Invariance, PTL DEF Spec

-----------------------------------------------------------------------------
\* The lists.

\* Core c has made a representative of e, or bound it, but not listed it yet.
Adding == {"bind", "node", "insert"}
Pending(c, e) == \E k \in Levels : on[c][k] = e /\ pc[c][k] \in Adding

Listed(c, e) == \E i \in 1 .. Len(list[e]) : list[e][i].ref = c

\* The representative a dispatch is about to list is its own core's.
OwnNode ==
  \A c \in Cores, k \in Levels : pc[c][k] \in {"node", "insert"} => rep[c][k] = c

PendingUnlisted == \A c \in Cores, e \in Ebbs : Pending(c, e) => ~Listed(c, e)

BuiltListed ==
  \A c \in Cores, e \in Ebbs : built[c][e] = 1 => Pending(c, e) \/ Listed(c, e)

ListedOnce ==
  \A e \in Ebbs : \A i, j \in 1 .. Len(list[e]) :
    list[e][i].ref = list[e][j].ref => i = j

ListInv == OwnNode /\ PendingUnlisted /\ BuiltListed /\ ListedOnce

\* A step that touches no list and neither makes nor lists a representative.
LEMMA ListKept ==
  ASSUME ListInv, OwnNode', list' = list, built' = built,
         \A c \in Cores, e \in Ebbs : Pending(c, e)' <=> Pending(c, e)
  PROVE  ListInv'
<1>1. \A c \in Cores, e \in Ebbs : Listed(c, e)' <=> Listed(c, e)
  BY DEF Listed
<1> QED
  BY <1>1 DEF ListInv, PendingUnlisted, BuiltListed, ListedOnce

\* Making a representative: it is the first of its core, so it is not listed.
LEMMA ListBuilds ==
  ASSUME IInv, ListInv, OwnNode', list' = list, NEW c \in Cores, NEW k \in Levels,
         pc[c][k] \in {"new", "ctor"},
         built' = [built EXCEPT ![c][on[c][k]] = @ + 1],
         \A d \in Cores, e \in Ebbs :
           Pending(d, e)' <=> Pending(d, e) \/ (d = c /\ e = on[c][k])
  PROVE  ListInv'
<1>0. on[c][k] \in Ebbs /\ list \in [Ebbs -> Seq(Node)]
      /\ built \in [Cores -> [Ebbs -> Nat]]
  BY DEF IInv, TypeOK
<1>1. \A d \in Cores, e \in Ebbs : Listed(d, e)' <=> Listed(d, e)
  BY DEF Listed
<1>2. ~Listed(c, on[c][k])
  <2>1. built[c][on[c][k]] = 0
    BY NotBuiltYet, IInvIsParts DEF Parts
  <2> QED
    BY <1>0, <2>1 DEF IInv, BuiltKept, NodesBuilt, Listed
<1>3. PendingUnlisted'
  BY <1>1, <1>2 DEF ListInv, PendingUnlisted
<1>4. BuiltListed'
  <2> SUFFICES ASSUME NEW d \in Cores, NEW e \in Ebbs, built'[d][e] = 1
               PROVE  Pending(d, e)' \/ Listed(d, e)'
    BY DEF BuiltListed
  <2>1. CASE d = c /\ e = on[c][k]
    BY <2>1
  <2>2. CASE ~(d = c /\ e = on[c][k])
    <3>1. built[d][e] = 1
      BY <1>0, <2>2
    <3> QED
      BY <1>1, <3>1 DEF ListInv, BuiltListed
  <2> QED
    BY <2>1, <2>2
<1>5. ListedOnce'
  BY DEF ListInv, ListedOnce
<1> QED
  BY <1>3, <1>4, <1>5 DEF ListInv

\* Moving an activation between labels on one side of Adding.
LEMMA PendingMoved ==
  ASSUME NEW c \in Cores, NEW k \in Levels, NEW from \in Labels, NEW to \in Labels,
         Moved(c, k, from, to), from \in Adding <=> to \in Adding
  PROVE  \A d \in Cores, e \in Ebbs : Pending(d, e)' <=> Pending(d, e)
<1>1. \A d \in Cores, l \in Levels :
        (pc'[d][l] \in Adding <=> pc[d][l] \in Adding) /\ on'[d][l] = on[d][l]
  BY DEF Moved, At
<1> QED
  BY <1>1 DEF Pending

\* Calling, when the caller stays on its side of Adding.
LEMMA PendingPushed ==
  ASSUME IInv, NEW c \in Cores, NEW k \in Levels, NEW e \in Ebbs, NEW r \in Labels,
         Pushed(c, k, e, r),
         k > 1 => (pc[c][k - 1] \in Adding <=> r \in Adding)
  PROVE  \A d \in Cores, f \in Ebbs : Pending(d, f)' <=> Pending(d, f)
<1>0. k \in Int /\ \A l \in Levels : l \in Int /\ l >= 1
  BY DEF Levels
<1>1. pc[c][k] = "free"
  BY <1>0 DEF IInv, StackShape, ShapeOf, Pushed, Levels
<1>2. \A d \in Cores, l \in Levels :
        /\ pc'[d][l] \in Adding <=> pc[d][l] \in Adding
        /\ pc[d][l] \in Adding => on'[d][l] = on[d][l]
  <2>1. SUFFICES ASSUME NEW d \in Cores, NEW l \in Levels
                 PROVE  /\ pc'[d][l] \in Adding <=> pc[d][l] \in Adding
                        /\ pc[d][l] \in Adding => on'[d][l] = on[d][l]
    OBVIOUS
  <2>2. CASE d = c /\ l = k
    BY <1>1, <2>2 DEF Pushed, Adding
  <2>3. CASE d = c /\ l = k - 1
    <3>1. l # k /\ k > 1
      BY <1>0, <2>3
    <3>2. pc'[d][l] = r /\ on'[d][l] = on[d][l]
      BY <2>3, <3>1 DEF Pushed
    <3> QED
      BY <2>3, <3>1, <3>2
  <2>4. CASE ~(d = c /\ l \in {k, k - 1})
    BY <2>4 DEF Pushed
  <2> QED
    BY <2>2, <2>3, <2>4
<1> QED
  BY <1>2 DEF Pending

\* Steps inside a dispatch that make, list and bind nothing.
LEMMA ListMoveActions ==
  ASSUME IInv, ListInv, NEW c \in Cores, NEW k \in Levels,
         \/ Precall(c, k) \/ Lock(c, k) \/ SearchFinds(c, k) \/ SearchFails(c, k)
         \/ Unlock(c, k) \/ PreCallReturn(c, k) \/ CallFunction(c, k)
  PROVE  ListInv'
<1>0. TypeOK /\ UNCHANGED <<sp, on, list, built>>
  BY DEF IInv, Precall, Lock, SearchFinds, SearchFails, Unlock, PreCallReturn, CallFunction
<1>1. PICK from \in Labels \ Adding, to \in Labels \ Adding : At(c, k, from) /\ Goto(c, k, to)
  BY DEF Precall, Lock, SearchFinds, SearchFails, Unlock, PreCallReturn, CallFunction,
     Labels, Adding
<1>2. Moved(c, k, from, to)
  BY <1>0, <1>1, GotoMoves
<1>3. \A d \in Cores, l \in Levels : d # c \/ l # k => rep'[d][l] = rep[d][l]
  <2>1. rep' = rep \/ \E r : rep' = [rep EXCEPT ![c][k] = r]
    BY DEF Precall, Lock, SearchFinds, SearchFails, Unlock, PreCallReturn, CallFunction
  <2> QED
    BY <1>0, <2>1 DEF TypeOK
<1>4. OwnNode'
  BY <1>2, <1>3 DEF ListInv, OwnNode, Moved, Adding
<1>5. \A d \in Cores, e \in Ebbs : Pending(d, e)' <=> Pending(d, e)
  BY <1>2, PendingMoved
<1> QED
  BY <1>0, <1>4, <1>5, ListKept

\* The entry is bound to the representative just made.
LEMMA ListBindRef ==
  ASSUME IInv, ListInv, NEW c \in Cores, NEW k \in Levels, BindRef(c, k)
  PROVE  ListInv'
<1>0. TypeOK /\ UNCHANGED <<sp, on, list, built, rep>>
  BY DEF IInv, BindRef
<1>1. Moved(c, k, "bind", "node") /\ "bind" \in Labels /\ "node" \in Labels
  BY <1>0, GotoMoves DEF BindRef, Labels
<1>2. rep[c][k] = c
  BY <1>1 DEF IInv, BuiltKept, RepOf, Moved, At
<1>3. OwnNode'
  BY <1>0, <1>1, <1>2 DEF ListInv, OwnNode, Moved
<1>4. \A d \in Cores, e \in Ebbs : Pending(d, e)' <=> Pending(d, e)
  BY <1>1, PendingMoved DEF Adding
<1> QED
  BY <1>0, <1>3, <1>4, ListKept

\* new T for memAllocator.
LEMMA ListNewMemRep ==
  ASSUME IInv, ListInv, NEW c \in Cores, NEW k \in Levels, NewMemRep(c, k)
  PROVE  ListInv'
<1>0. /\ TypeOK /\ UNCHANGED <<sp, on, list>> /\ on[c][k] = MemEbb
      /\ built' = [built EXCEPT ![c][MemEbb] = @ + 1]
      /\ \A d \in Cores, l \in Levels : d # c \/ l # k => rep'[d][l] = rep[d][l]
  BY DEF IInv, NewMemRep, TypeOK
<1>1. Moved(c, k, "new", "bind") /\ "new" \in Labels /\ "bind" \in Labels
  BY <1>0, GotoMoves DEF NewMemRep, Labels
<1>2. OwnNode'
  BY <1>0, <1>1 DEF ListInv, OwnNode, Moved
<1>3. \A d \in Cores, e \in Ebbs :
        Pending(d, e)' <=> Pending(d, e) \/ (d = c /\ e = on[c][k])
  BY <1>0, <1>1 DEF Pending, Moved, At, Adding
<1>4. pc[c][k] \in {"new", "ctor"}
  BY <1>1 DEF Moved, At
<1> QED
  BY <1>0, <1>2, <1>3, <1>4, ListBuilds

\* new T for any other Ebb, and the allocation of a node.
LEMMA ListCallActions ==
  ASSUME IInv, ListInv, NEW c \in Cores, NEW k \in Levels, NewRep(c, k) \/ NewNode(c, k)
  PROVE  ListInv'
<1> DEFINE j == k + 1
<1>a. /\ TypeOK /\ UNCHANGED <<list, built>> /\ j \in Levels /\ j > 1 /\ j - 1 = k /\ j # k
      /\ rep' = [rep EXCEPT ![c][j] = ref[c][MemEbb]]
  BY DEF IInv, NewRep, NewNode, Levels
<1>1. PICK r \in Labels :
        /\ Call(c, j, MemEbb, r)
        /\ \/ pc[c][k] = "new" /\ r = "ctor"
           \/ pc[c][k] = "node" /\ r = "insert"
  BY DEF NewRep, NewNode, At, Labels
<1> HIDE DEF j
<1>0. /\ TypeOK /\ UNCHANGED <<list, built>> /\ j \in Levels /\ j > 1 /\ j - 1 = k /\ j # k
      /\ \A d \in Cores, l \in Levels : d # c \/ l # j => rep'[d][l] = rep[d][l]
  BY <1>a DEF TypeOK
<1>2. Pushed(c, j, MemEbb, r)
  BY <1>0, <1>1, CallPushes, EbbAssumption
<1>3. OwnNode'
  <2>1. SUFFICES ASSUME NEW d \in Cores, NEW l \in Levels, pc'[d][l] \in {"node", "insert"}
                 PROVE  rep'[d][l] = d
    BY DEF OwnNode
  <2>2. l # j \/ d # c
    BY <1>2, <2>1 DEF Pushed
  <2>3. CASE d = c /\ l = k
    BY <1>0, <1>1, <1>2, <2>1, <2>2, <2>3 DEF ListInv, OwnNode, Pushed
  <2>4. CASE ~(d = c /\ l = k)
    BY <1>0, <1>2, <2>1, <2>2, <2>4 DEF ListInv, OwnNode, Pushed
  <2> QED
    BY <2>3, <2>4
<1>4. \A d \in Cores, e \in Ebbs : Pending(d, e)' <=> Pending(d, e)
  <2>1. pc[c][j - 1] \in Adding <=> r \in Adding
    BY <1>0, <1>1 DEF Adding
  <2> QED
    BY <1>0, <1>2, <2>1, PendingPushed, EbbAssumption
<1> QED
  BY <1>0, <1>3, <1>4, ListKept

\* The constructor of a representative.
LEMMA ListConstruct ==
  ASSUME IInv, ListInv, NEW c \in Cores, NEW k \in Levels, Construct(c, k)
  PROVE  ListInv'
<1> DEFINE j == k + 1
<1>a. /\ j \in Levels /\ j - 1 = k /\ j # k /\ j > 1
      /\ rep' = [rep EXCEPT ![c][k] = c, ![c][j] = ref[c][MemEbb]]
      /\ Call(c, j, MemEbb, "bind")
  BY DEF Construct, Levels
<1> HIDE DEF j
<1>0. /\ TypeOK /\ UNCHANGED list /\ j \in Levels /\ j - 1 = k /\ j # k /\ j > 1
      /\ Call(c, j, MemEbb, "bind") /\ pc[c][k] = "ctor" /\ "bind" \in Labels
      /\ built' = [built EXCEPT ![c][on[c][k]] = @ + 1]
      /\ \A d \in Cores, l \in Levels : d # c \/ l \notin {j, k} => rep'[d][l] = rep[d][l]
  <2>1. rep \in [Cores -> [Levels -> Cores \cup {None}]]
    BY DEF IInv, TypeOK
  <2>2. \A d \in Cores, l \in Levels : d # c \/ l \notin {j, k} => rep'[d][l] = rep[d][l]
    BY <1>a, <2>1
  <2>3. TypeOK /\ UNCHANGED list /\ pc[c][k] = "ctor" /\ "bind" \in Labels
        /\ built' = [built EXCEPT ![c][on[c][k]] = @ + 1]
    BY DEF IInv, Construct, At, Labels
  <2> QED
    BY <1>a, <2>2, <2>3
<1>1. Pushed(c, j, MemEbb, "bind")
  BY <1>0, CallPushes, EbbAssumption
<1>2. pc[c][j] = "free"
  BY <1>0, <1>1 DEF IInv, StackShape, ShapeOf, Pushed, Levels
<1>3. OwnNode'
  <2>1. SUFFICES ASSUME NEW d \in Cores, NEW l \in Levels, pc'[d][l] \in {"node", "insert"}
                 PROVE  rep'[d][l] = d
    BY DEF OwnNode
  <2>2. ~(d = c /\ l \in {j, k})
    BY <1>0, <1>1, <2>1 DEF Pushed
  <2> QED
    BY <1>0, <1>1, <2>1, <2>2 DEF ListInv, OwnNode, Pushed
<1>4. \A d \in Cores, l \in Levels :
        IF d = c /\ l = k THEN pc'[d][l] \in Adding /\ on'[d][l] = on[d][l]
        ELSE /\ pc'[d][l] \in Adding <=> pc[d][l] \in Adding
             /\ pc[d][l] \in Adding => on'[d][l] = on[d][l]
  BY <1>0, <1>1, <1>2 DEF Pushed, Adding
<1>5. \A d \in Cores, e \in Ebbs :
        Pending(d, e)' <=> Pending(d, e) \/ (d = c /\ e = on[c][k])
  BY <1>0, <1>4 DEF Pending, Adding
<1>6. pc[c][k] \in {"new", "ctor"}
  BY <1>0
<1> QED
  BY <1>0, <1>3, <1>5, <1>6, ListBuilds

\* Calls by the application, and returns.
LEMMA ListAppCall ==
  ASSUME IInv, ListInv, NEW c \in Cores, NEW e \in Ebbs, AppCall(c, e)
  PROVE  ListInv'
<1>0. /\ TypeOK /\ UNCHANGED <<list, built>> /\ Call(c, 1, e, "free") /\ 1 \in Levels
      /\ \A d \in Cores, l \in Levels : d # c \/ l # 1 => rep'[d][l] = rep[d][l]
  BY ThreeLevels DEF IInv, AppCall, TypeOK
<1>1. Pushed(c, 1, e, "free") /\ "free" \in Labels /\ ~(1 > 1)
  BY <1>0, CallPushes DEF Labels
<1>2. OwnNode'
  BY <1>0, <1>1 DEF ListInv, OwnNode, Pushed
<1>3. \A d \in Cores, f \in Ebbs : Pending(d, f)' <=> Pending(d, f)
  BY <1>0, <1>1, PendingPushed
<1> QED
  BY <1>0, <1>2, <1>3, ListKept

LEMMA ListReturns ==
  ASSUME IInv, ListInv, NEW c \in Cores, NEW k \in Levels,
         DirectReturn(c, k) \/ Return(c, k)
  PROVE  ListInv'
<1>0. /\ TypeOK /\ UNCHANGED <<list, built>> /\ Leave(c, k) /\ sp[c] = k
      /\ pc[c][k] \in {"direct", "body"}
  BY DEF IInv, DirectReturn, Return, At
<1>1. Popped(c, k)
  BY <1>0, LeavePops
<1>2. \A d \in Cores, l \in Levels : d # c \/ l # k => rep'[d][l] = rep[d][l]
  BY <1>0 DEF Leave, TypeOK
<1>3. OwnNode'
  BY <1>1, <1>2 DEF ListInv, OwnNode, Popped
<1>4. \A d \in Cores, l \in Levels :
        /\ pc'[d][l] \in Adding <=> pc[d][l] \in Adding
        /\ pc[d][l] \in Adding => on'[d][l] = on[d][l]
  BY <1>0, <1>1 DEF Popped, Adding
<1>5. \A d \in Cores, e \in Ebbs : Pending(d, e)' <=> Pending(d, e)
  BY <1>4 DEF Pending
<1> QED
  BY <1>0, <1>3, <1>5, ListKept

\* What Insert makes of the list it extends.
LEMMA InsertLists ==
  ASSUME IInv, ListInv, NEW c \in Cores, NEW k \in Levels, Insert(c, k)
  PROVE  /\ \A d \in Cores, e \in Ebbs :
              Listed(d, e)' <=> Listed(d, e) \/ (d = c /\ e = on[c][k])
         /\ ~Listed(c, on[c][k]) => ListedOnce'
<1>0. /\ on[c][k] \in Ebbs /\ list \in [Ebbs -> Seq(Node)]
      /\ rep[c][k] = c
  BY DEF IInv, TypeOK, ListInv, OwnNode, Insert, At
<1>1. PICK junk \in Junk :
        list' = [list EXCEPT ![on[c][k]] = <<[location |-> junk, ref |-> rep[c][k]]>> \o @]
  BY DEF Insert
<1> DEFINE node == [location |-> junk, ref |-> rep[c][k]]
<1>2. node \in Node /\ node.ref = c
  BY <1>0 DEF Node
<1>3. list' = [list EXCEPT ![on[c][k]] = <<node>> \o @]
  BY <1>1
<1> HIDE DEF node
<1> DEFINE old == list[on[c][k]]
<1>4. list'[on[c][k]] = <<node>> \o old /\ old \in Seq(Node)
      /\ \A e \in Ebbs : e # on[c][k] => list'[e] = list[e]
  BY <1>0, <1>3
<1> DEFINE new == list'[on[c][k]]
<1>5. /\ Len(new) = Len(old) + 1 /\ Len(old) \in Nat /\ new[1] = node
      /\ \A i \in 2 .. Len(new) : i - 1 \in 1 .. Len(old) /\ new[i] = old[i - 1]
      /\ \A i \in 1 .. Len(old) : i + 1 \in 2 .. Len(new) /\ new[i + 1] = old[i]
  <2> HIDE DEF old
  <2> QED
    BY <1>2, <1>4
<1>6. ASSUME NEW d \in Cores, NEW e \in Ebbs
      PROVE  Listed(d, e)' <=> Listed(d, e) \/ (d = c /\ e = on[c][k])
  <2>1. CASE e # on[c][k]
    BY <1>4, <2>1 DEF Listed
  <2>2. CASE e = on[c][k]
    <3>1. Listed(d, e)' <=> \E i \in 1 .. Len(new) : new[i].ref = d
      BY <2>2 DEF Listed
    <3>2. Listed(d, e) <=> \E i \in 1 .. Len(old) : old[i].ref = d
      BY <2>2 DEF Listed
    <3> HIDE DEF new, old
    <3>3. ASSUME NEW i \in 1 .. Len(new), new[i].ref = d
          PROVE  d = c \/ \E h \in 1 .. Len(old) : old[h].ref = d
      <4>1. CASE i = 1
        BY <1>2, <1>5, <3>3, <4>1
      <4>2. CASE i # 1
        BY <1>5, <3>3, <4>2
      <4> QED
        BY <4>1, <4>2
    <3>4. ASSUME NEW i \in 1 .. Len(old), old[i].ref = d
          PROVE  \E h \in 1 .. Len(new) : new[h].ref = d
      BY <1>5, <3>4
    <3>5. 1 \in 1 .. Len(new) /\ new[1].ref = c
      BY <1>2, <1>5
    <3> QED
      BY <2>2, <3>1, <3>2, <3>3, <3>4, <3>5
  <2> QED
    BY <2>1, <2>2
<1>7. ASSUME ~Listed(c, on[c][k]) PROVE ListedOnce'
  <2>1. \A i \in 1 .. Len(old) : old[i].ref # c
    BY <1>7 DEF Listed
  <2>2. \A i, j \in 1 .. Len(old) : old[i].ref = old[j].ref => i = j
    BY <1>0 DEF ListInv, ListedOnce
  <2>3. ASSUME NEW i \in 1 .. Len(new), NEW j \in 1 .. Len(new), new[i].ref = new[j].ref
        PROVE  i = j
    <3> HIDE DEF new, old
    <3>1. CASE i = 1 /\ j # 1
      BY <1>2, <1>5, <2>1, <2>3, <3>1
    <3>2. CASE i # 1 /\ j = 1
      BY <1>2, <1>5, <2>1, <2>3, <3>2
    <3>3. CASE i # 1 /\ j # 1
      <4>1. i - 1 \in 1 .. Len(old) /\ j - 1 \in 1 .. Len(old) /\ i \in Int /\ j \in Int
            /\ old[i - 1].ref = old[j - 1].ref
        BY <1>5, <2>3, <3>3
      <4>2. i - 1 = j - 1
        BY <2>2, <4>1
      <4> QED
        BY <4>1, <4>2
    <3> QED
      BY <3>1, <3>2, <3>3
  <2>4. SUFFICES ASSUME NEW e \in Ebbs, NEW i \in 1 .. Len(list'[e]), NEW j \in 1 .. Len(list'[e]),
                        list'[e][i].ref = list'[e][j].ref
                 PROVE  i = j
    BY DEF ListedOnce
  <2>5. CASE e = on[c][k]
    BY <2>3, <2>4, <2>5
  <2>6. CASE e # on[c][k]
    BY <1>4, <2>4, <2>6 DEF ListInv, ListedOnce
  <2> QED
    BY <2>5, <2>6
<1> QED
  BY <1>6, <1>7

\* The node goes into the list, under the manager's lock.
LEMMA ListInsert ==
  ASSUME IInv, ListInv, NEW c \in Cores, NEW k \in Levels, Insert(c, k)
  PROVE  ListInv'
<1>0. TypeOK /\ StackShape /\ UNCHANGED <<sp, on, built, rep>> /\ on[c][k] \in Ebbs
  BY DEF IInv, Insert, TypeOK
<1>1. Moved(c, k, "insert", "unlock")
  BY <1>0, GotoMoves DEF Insert, Labels
<1>2. \A l \in Levels : l # k /\ on[c][l] = on[c][k] => pc[c][l] \in {"free", "direct"}
  BY <1>0, <1>1, NoTwoDispatches DEF Moved, At
<1>3. ASSUME NEW d \in Cores, NEW e \in Ebbs
      PROVE  Pending(d, e)' <=> Pending(d, e) /\ ~(d = c /\ e = on[c][k])
  <2>1. CASE d = c /\ e = on[c][k]
    BY <1>0, <1>1, <1>2, <2>1 DEF Pending, Moved, Adding
  <2>2. CASE ~(d = c /\ e = on[c][k])
    BY <1>0, <1>1, <2>2 DEF Pending, Moved
  <2> QED
    BY <2>1, <2>2
<1>4. Pending(c, on[c][k])
  BY <1>1 DEF Pending, Moved, At, Adding
<1>5. ~Listed(c, on[c][k])
  BY <1>0, <1>4 DEF ListInv, PendingUnlisted
<1>6. /\ ListedOnce'
      /\ \A d \in Cores, e \in Ebbs : Listed(d, e)' <=> Listed(d, e) \/ (d = c /\ e = on[c][k])
  BY <1>5, InsertLists
<1>7. OwnNode'
  BY <1>0, <1>1 DEF ListInv, OwnNode, Moved
<1>8. PendingUnlisted'
  BY <1>3, <1>6 DEF ListInv, PendingUnlisted
<1>9. BuiltListed'
  BY <1>0, <1>3, <1>6 DEF ListInv, BuiltListed
<1> QED
  BY <1>6, <1>7, <1>8, <1>9 DEF ListInv

LEMMA ListStep == IInv /\ ListInv /\ [Next]_vars => ListInv'
<1> SUFFICES ASSUME IInv, ListInv, [Next]_vars PROVE ListInv'
  OBVIOUS
<1>1. CASE UNCHANGED vars
  <2>1. list' = list /\ built' = built /\ pc' = pc /\ on' = on /\ rep' = rep
    BY <1>1 DEF vars
  <2>2. OwnNode'
    BY <2>1 DEF ListInv, OwnNode
  <2>3. \A c \in Cores, e \in Ebbs : Pending(c, e)' <=> Pending(c, e)
    BY <2>1 DEF Pending
  <2> QED
    BY <2>1, <2>2, <2>3, ListKept
<1>2. ASSUME NEW c \in Cores, NEW e \in Ebbs, AppCall(c, e) PROVE ListInv'
  BY <1>2, ListAppCall
<1>3. ASSUME NEW c \in Cores, NEW k \in Levels, Step(c, k) PROVE ListInv'
  BY <1>3, ListMoveActions, ListBindRef, ListNewMemRep, ListCallActions, ListConstruct,
     ListInsert, ListReturns DEF Step
<1> QED
  BY <1>1, <1>2, <1>3 DEF Next

LEMMA ListInit == Init => ListInv
  BY DEF Init, ListInv, OwnNode, PendingUnlisted, BuiltListed, ListedOnce, Pending, Listed, Adding

\* Whoever is about to list a node holds the manager's lock.
LEMMA PendingLocked ==
  ASSUME IInv, NEW c \in Cores, NEW e \in Ebbs, Pending(c, e)
  PROVE  lock[e]
<1>1. PICK k \in Levels : on[c][k] = e /\ pc[c][k] \in Adding
  BY DEF Pending
<1>2. k \in 1 .. sp[c]
  BY <1>1 DEF IInv, TypeOK, StackShape, ShapeOf, Levels, Adding
<1>3. Holds(c, k, e)
  BY <1>1, <1>2 DEF Holds, Adding, InPreCall
<1> QED
  BY <1>3 DEF IInv, HolderLocks

\* The invariant gives the property: what is not pending is listed, once.
LEMMA ListInvComplete == IInv /\ ListInv => ListComplete
<1> SUFFICES ASSUME IInv, ListInv, NEW e \in Ebbs, ~lock[e], NEW c \in Cores
             PROVE  built[c][e] = Cardinality(NodesFor(c, e))
  BY DEF ListComplete
<1>1. ~Pending(c, e)
  BY PendingLocked
<1>2. built[c][e] \in {0, 1}
  BY DEF IInv, BuiltKept, BuiltOf
<1>3. CASE built[c][e] = 0
  <2>1. NodesFor(c, e) = {}
    BY <1>3 DEF NodesFor, IInv, BuiltKept, NodesBuilt
  <2> QED
    BY <1>3, <2>1, FS_EmptySet
<1>4. CASE built[c][e] = 1
  <2>1. Listed(c, e)
    BY <1>1, <1>4 DEF ListInv, BuiltListed
  <2>2. PICK i \in 1 .. Len(list[e]) : list[e][i].ref = c
    BY <2>1 DEF Listed
  <2>3. NodesFor(c, e) = {i}
    BY <2>2 DEF NodesFor, ListInv, ListedOnce
  <2> QED
    BY <1>4, <2>3, FS_Singleton
<1> QED
  BY <1>2, <1>3, <1>4

\* No node is lost and none is listed twice: whenever nobody holds a manager's
\* Spinlock, its list has exactly one node for every representative made.
THEOREM ListIsComplete == Spec => []ListComplete
<1>1. Init => ListInv
  BY ListInit
<1>2. IInv /\ ListInv /\ [Next]_vars => ListInv'
  BY ListStep
<1>3. IInv /\ ListInv => ListComplete
  BY ListInvComplete
<1> QED
  BY <1>1, <1>2, <1>3, Invariance, PTL DEF Spec
=============================================================================
