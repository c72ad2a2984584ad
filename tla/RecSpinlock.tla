----------------------------- MODULE RecSpinlock -----------------------------
(***************************************************************************)
(* The recursive mutex handed to libstdc++ (lib/gthread/gthread.cpp) and,  *)
(* line for line the same, to newlib (lib/newlib/lock.cpp): a rec_spinlock *)
(* packs a recursion count, the owner's location and an inner spinlock     *)
(* that guards the other two.  Every operation takes the inner spinlock,   *)
(* works on count and loc, and gives it back, all of it non-blocking       *)
(* except for the spinning.                                                *)
(*                                                                         *)
(* The location the code compares and stores is MYLOC, which is 0 on every *)
(* core.                                                                   *)
(***************************************************************************)
EXTENDS Integers

CONSTANTS
  Cores,     \* the cores that use the mutex
  MaxCount,  \* INT16_MAX
  MaxHeld    \* bound of the clients: how often one core may hold the mutex

ASSUME MaxCountAssumption == MaxCount \in Nat \ {0}
ASSUME MaxHeldAssumption == MaxHeld \in Nat

VARIABLES
  inner,  \* the field lock: the inner spinlock is taken
  count,  \* the field count
  loc,    \* the field loc
  pc,     \* pc[c]: where core c is in its operation
  op,     \* op[c]: the operation c runs, or ran last
  held,   \* history: held[c] is the successful locks of c minus its unlocks
  holds   \* history: the same for all cores together

vars == <<inner, count, loc, pc, op, held, holds>>

MYLOC == 0

Ops == {"trylock", "lock", "unlock"}

\* "spin" on the inner lock, inside it ("section"), about to give it back and
\* to return 0 ("granted", "released") or 1 ("refused").
Labels == {"idle", "spin", "section", "granted", "refused", "released"}

\* recursive_mutex_init, and the initial value of a static mutex.
Init ==
  /\ inner = FALSE
  /\ count = 0
  /\ loc = 0
  /\ pc = [c \in Cores |-> "idle"]
  /\ op = [c \in Cores |-> "trylock"]
  /\ held = [c \in Cores |-> 0]
  /\ holds = 0

\* A client calls an operation; it unlocks only what it has locked.
Begin(c, o) ==
  /\ pc[c] = "idle"
  /\ IF o = "unlock" THEN held[c] > 0 ELSE held[c] < MaxHeld
  /\ pc' = [pc EXCEPT ![c] = "spin"]
  /\ op' = [op EXCEPT ![c] = o]
  /\ UNCHANGED <<inner, count, loc, held, holds>>

\* Mutant of TakeInner: the inner lock is not tested.
TakeInnerAlways(c) ==
  /\ pc[c] = "spin"
  /\ inner' = TRUE
  /\ pc' = [pc EXCEPT ![c] = "section"]
  /\ UNCHANGED <<count, loc, op, held, holds>>

\* The compare and swap on the inner lock that succeeds.
TakeInner(c) ==
  /\ pc[c] = "spin"
  /\ ~inner
  /\ inner' = TRUE
  /\ pc' = [pc EXCEPT ![c] = "section"]
  /\ UNCHANGED <<count, loc, op, held, holds>>

\* Mutants of TryLock: a recursive lock does not count, and lock waits inside the
\* inner lock.
TryLockCountsOnce(c) ==
  /\ pc[c] = "section"
  /\ op[c] # "unlock"
  /\ count' = 1
  /\ loc' = MYLOC
  /\ pc' = [pc EXCEPT ![c] = "granted"]
  /\ UNCHANGED <<inner, op, held, holds>>

TryLockWaitsInside(c) ==
  /\ pc[c] = "section"
  /\ op[c] # "unlock"
  /\ IF count = 0
     THEN /\ loc' = MYLOC
          /\ count' = 1
          /\ pc' = [pc EXCEPT ![c] = "granted"]
     ELSE UNCHANGED <<count, loc, pc>>
  /\ UNCHANGED <<inner, op, held, holds>>

\* trylock between taking the inner lock and its return or its release.
TryLock(c) ==
  /\ pc[c] = "section"
  /\ op[c] # "unlock"
  /\ IF count = 0
     THEN /\ loc' = MYLOC
          /\ count' = 1
          /\ pc' = [pc EXCEPT ![c] = "granted"]
          /\ UNCHANGED inner
     ELSE IF loc = MYLOC /\ count < MaxCount
     THEN /\ count' = count + 1
          /\ pc' = [pc EXCEPT ![c] = "granted"]
          /\ UNCHANGED <<inner, loc>>
     ELSE IF loc = MYLOC
     THEN \* too much recursion: return 1 at once, the inner lock is kept
          /\ pc' = [pc EXCEPT ![c] = IF op[c] = "lock" THEN "spin" ELSE "idle"]
          /\ UNCHANGED <<inner, count, loc>>
     ELSE /\ pc' = [pc EXCEPT ![c] = "refused"]
          /\ UNCHANGED <<inner, count, loc>>
  /\ UNCHANGED <<op, held, holds>>

\* unlock between taking the inner lock and releasing it.
Unlock(c) ==
  /\ pc[c] = "section"
  /\ op[c] = "unlock"
  /\ count' = count - 1
  /\ pc' = [pc EXCEPT ![c] = "released"]
  /\ UNCHANGED <<inner, loc, op, held, holds>>

\* The inner lock is given back and the operation returns: 0 from trylock, 1
\* from trylock (which lock answers by trying again), or 0 from unlock.
GiveInner(c) ==
  /\ pc[c] \in {"granted", "refused", "released"}
  /\ inner' = FALSE
  /\ LET change == CASE pc[c] = "granted"  -> 1
                     [] pc[c] = "refused"  -> 0
                     [] pc[c] = "released" -> -1
     IN  /\ held' = [held EXCEPT ![c] = @ + change]
         /\ holds' = holds + change
  /\ pc' = [pc EXCEPT ![c] = IF @ = "refused" /\ op[c] = "lock" THEN "spin"
                                                                ELSE "idle"]
  /\ UNCHANGED <<count, loc, op>>

Step(c) == TakeInner(c) \/ TryLock(c) \/ Unlock(c) \/ GiveInner(c)

Next == \E c \in Cores : Step(c) \/ \E o \in Ops : Begin(c, o)

Spec == Init /\ [][Next]_vars

\* A core inside an operation keeps executing; the inner lock has no queue, so
\* nothing is said about which spinning core gets it.
Fairness == \A c \in Cores : WF_vars(Step(c))

FairSpec == Spec /\ Fairness

-----------------------------------------------------------------------------
TypeOK ==
  /\ inner \in BOOLEAN
  /\ count \in Int
  /\ loc \in Int
  /\ pc \in [Cores -> Labels]
  /\ op \in [Cores -> Ops]
  /\ held \in [Cores -> Int]
  /\ holds \in Int

Inside == {"section", "granted", "refused", "released"}

\* One core at a time reads and writes count and loc.
InnerExclusion ==
  \A c, d \in Cores : pc[c] \in Inside /\ pc[d] \in Inside => c = d

\* The mutex counts its holds exactly: when nobody is inside an operation,
\* count is the number of locks not yet unlocked, of all cores together, so
\* the mutex is free just when the last hold is given up.
CountExact == ~inner => count = holds

\* The strengthening that makes the two inductive: what the operation under way
\* has already done to count and its client does not know yet.
PendingExact ==
  /\ \A c \in Cores : pc[c] \in Inside => inner
  /\ \A c \in Cores : pc[c] = "granted" => count = holds + 1
  /\ \A c \in Cores : pc[c] = "released" => count = holds - 1
  /\ (\A c \in Cores : pc[c] \notin {"granted", "released"}) => count = holds

IInv == TypeOK /\ InnerExclusion /\ PendingExact

\* The inner lock is taken and nobody inside will give it back.
Abandoned == inner /\ \A c \in Cores : pc[c] \notin Inside

\* trylock at the recursion limit returns with the inner lock taken, and from
\* then on every operation of every core spins.  Nothing else ever loses it:
\* who takes the inner lock gives it back, however many cores want it, unless
\* the holds of all cores together have reached the limit.
InnerGivenBack == inner ~> (~inner \/ (Abandoned /\ count = MaxCount))

\* trylock, per its comments: the first locker stores its location, a locker
\* with the same location is "a recursive lock by us", any other is refused
\* because "someone holds the lock that is not us".  So never two holders.
OwnerExclusion ==
  \A c, d \in Cores : held[c] > 0 /\ held[d] > 0 => c = d
=============================================================================
