------------------------------- MODULE Gthread -------------------------------
(***************************************************************************)
(* The threading primitives of lib/gthread/gthread.cpp but the recursive   *)
(* mutex (RecSpinlock): once, the plain mutex (the plain lock of           *)
(* lib/newlib/lock.cpp is the same code again) and the thread-specific     *)
(* keys.  Cores call them on one control, one mutex and the keys in any    *)
(* order; a core may hold the mutex while it uses the others.  The library *)
(* leaves to its callers: once's function returns and does not call once   *)
(* or lock the mutex itself, a core locks only what it does not hold and   *)
(* unlocks what it holds.                                                  *)
(***************************************************************************)
EXTENDS Naturals, Sequences

CONSTANTS
  Cores,      \* the callers
  NUM_KEYS,   \* the size of key_array
  Values,     \* what is stored under a key
  NULL,
  Beyond,     \* what the memory after key_array holds
  MaxCreates  \* bound of the model: calls of key_create

ASSUME KeysAssumption == NUM_KEYS \in Nat \ {0}
ASSUME ValuesAssumption == NULL \notin Values /\ Beyond \notin Values \cup {NULL}

VARIABLES
  once,       \* the once control: 0, 1 or 2
  mutex,      \* the mutex word: 0 or 1
  key_index,  \* the number of calls of key_create so far
  key_array,  \* the slots, and the memory right after them
  pc,         \* pc[c]: the operation core c is in, and where
  index,      \* index[c]: the local variable of key_create
  begun,      \* history: how often func has been entered
  ended,      \* history: how often func has returned
  holders,    \* history: the cores that have locked and not yet unlocked
  keys        \* history: the keys handed out, and what is stored under each

onceVars == <<once, begun, ended>>
mutexVars == <<mutex, holders>>
keyVars == <<key_index, key_array, index, keys>>
vars == <<pc, onceVars, mutexVars, keyVars>>

Labels == {"idle", "func", "store", "spin", "return", "lock", "trylock", "fetched"}

Slots == 0 .. NUM_KEYS - 1

Init ==
  /\ once = 0
  /\ mutex = 0
  /\ key_index = 0
  /\ key_array = [i \in 0 .. NUM_KEYS |-> IF i \in Slots THEN NULL ELSE Beyond]
  /\ pc = [c \in Cores |-> "idle"]
  /\ index = [c \in Cores |-> 0]
  /\ begun = 0
  /\ ended = 0
  /\ holders = {}
  /\ keys = << >>

Goto(c, from, to) == pc[c] = from /\ pc' = [pc EXCEPT ![c] = to]

-----------------------------------------------------------------------------
\* once(func)

\* The compare and swap finds 0: this core is to run func.
EnterFirst(c) ==
  /\ Goto(c, "idle", "func")
  /\ once = 0
  /\ once' = 1
  /\ begun' = begun + 1
  /\ UNCHANGED <<ended, mutexVars, keyVars>>

\* The compare and swap finds anything else.
EnterLater(c) ==
  /\ Goto(c, "idle", "spin")
  /\ once # 0
  /\ UNCHANGED <<onceVars, mutexVars, keyVars>>

FuncReturns(c) ==
  /\ Goto(c, "func", "store")
  /\ ended' = ended + 1
  /\ UNCHANGED <<once, begun, mutexVars, keyVars>>

\* Mutant of StoreDone: the store is left out.
StoreNothing(c) ==
  /\ Goto(c, "store", "return")
  /\ UNCHANGED <<onceVars, mutexVars, keyVars>>

\* The control becomes 2, after a memory barrier.
StoreDone(c) ==
  /\ Goto(c, "store", "return")
  /\ once' = 2
  /\ UNCHANGED <<begun, ended, mutexVars, keyVars>>

\* Mutant of SpinEnds: it is enough that somebody has begun.
SpinEndsEarly(c) ==
  /\ Goto(c, "spin", "return")
  /\ once # 0
  /\ UNCHANGED <<onceVars, mutexVars, keyVars>>

\* The waiting loop reads 2.
SpinEnds(c) ==
  /\ Goto(c, "spin", "return")
  /\ once = 2
  /\ UNCHANGED <<onceVars, mutexVars, keyVars>>

Return(c) ==
  /\ Goto(c, "return", "idle")
  /\ UNCHANGED <<onceVars, mutexVars, keyVars>>

-----------------------------------------------------------------------------
\* The mutex

\* A core that does not hold the mutex calls lock or trylock.
Call(c, op) ==
  /\ Goto(c, "idle", op)
  /\ c \notin holders
  /\ UNCHANGED <<onceVars, mutexVars, keyVars>>

\* The compare and swap that succeeds.
Swap(c) ==
  /\ mutex = 0
  /\ mutex' = 1
  /\ holders' = holders \cup {c}
  /\ UNCHANGED <<onceVars, keyVars>>

Lock(c) == Goto(c, "lock", "idle") /\ Swap(c)

TryLock(c) == Goto(c, "trylock", "idle") /\ Swap(c)

\* Mutant of TryLockBusy: a failing trylock reports success.
TryLockIgnored(c) ==
  /\ Goto(c, "trylock", "idle")
  /\ mutex # 0
  /\ holders' = holders \cup {c}
  /\ UNCHANGED <<mutex, onceVars, keyVars>>

\* trylock returns EBUSY.
TryLockBusy(c) ==
  /\ Goto(c, "trylock", "idle")
  /\ mutex # 0
  /\ UNCHANGED <<onceVars, mutexVars, keyVars>>

\* Mutant of Unlock: the store of 0 is left out.
UnlockNothing(c) ==
  /\ Goto(c, "idle", "idle")
  /\ c \in holders
  /\ holders' = holders \ {c}
  /\ UNCHANGED <<mutex, onceVars, keyVars>>

\* A core that holds the mutex unlocks it.
Unlock(c) ==
  /\ Goto(c, "idle", "idle")
  /\ c \in holders
  /\ mutex' = 0
  /\ holders' = holders \ {c}
  /\ UNCHANGED <<onceVars, keyVars>>

-----------------------------------------------------------------------------
\* The keys.  A key is the address of its slot, so all cores share one value
\* per key; key_delete does nothing and getspecific reads the slot.

\* Mutant of Create: the counter is read but not advanced.
CreateReads(c) ==
  /\ Goto(c, "idle", "fetched")
  /\ key_index < MaxCreates
  /\ index' = [index EXCEPT ![c] = key_index]
  /\ UNCHANGED <<key_index, key_array, keys, onceVars, mutexVars>>

\* key_create fetches its index and adds one, ...
Create(c) ==
  /\ Goto(c, "idle", "fetched")
  /\ key_index < MaxCreates
  /\ index' = [index EXCEPT ![c] = key_index]
  /\ key_index' = key_index + 1
  /\ UNCHANGED <<key_array, keys, onceVars, mutexVars>>

HasSlot(i) == i < NUM_KEYS

\* ... stores NULL in the slot and hands its address out, ...
TakeSlot(c) ==
  /\ Goto(c, "fetched", "idle")
  /\ HasSlot(index[c])
  /\ key_array' = [key_array EXCEPT ![index[c]] = NULL]
  /\ keys' = Append(keys, [slot |-> index[c], value |-> NULL])
  /\ UNCHANGED <<key_index, index, onceVars, mutexVars>>

\* ... or returns ENOMEM.
NoSlot(c) ==
  /\ Goto(c, "fetched", "idle")
  /\ ~HasSlot(index[c])
  /\ UNCHANGED <<onceVars, mutexVars, keyVars>>

\* setspecific of a key that some core has created.
SetSpecific(c, k, value) ==
  /\ Goto(c, "idle", "idle")
  /\ key_array' = [key_array EXCEPT ![keys[k].slot] = value]
  /\ keys' = [keys EXCEPT ![k].value = value]
  /\ UNCHANGED <<key_index, index, onceVars, mutexVars>>

-----------------------------------------------------------------------------
\* What a core does inside an operation.
Step(c) ==
  \/ FuncReturns(c)
  \/ StoreDone(c)
  \/ SpinEnds(c)
  \/ Return(c)
  \/ Lock(c)
  \/ TryLock(c)
  \/ TryLockBusy(c)
  \/ TakeSlot(c)
  \/ NoSlot(c)

\* What a core between two operations may do.
Begin(c) ==
  \/ EnterFirst(c)
  \/ EnterLater(c)
  \/ \E op \in {"lock", "trylock"} : Call(c, op)
  \/ Unlock(c)
  \/ Create(c)
  \/ \E k \in 1 .. Len(keys), value \in Values : SetSpecific(c, k, value)

Next == \E c \in Cores : Step(c) \/ Begin(c)

Spec == Init /\ [][Next]_vars

\* A core inside an operation keeps executing.  A core that holds the mutex
\* unlocks it at last, whatever it does in between; which of the spinning
\* cores gets it then is left open.
Fairness == \A c \in Cores : WF_vars(Step(c)) /\ SF_vars(Unlock(c))

FairSpec == Spec /\ Fairness

-----------------------------------------------------------------------------
TypeOK ==
  /\ once \in 0 .. 2
  /\ mutex \in {0, 1}
  /\ key_index \in Nat
  /\ key_array \in [0 .. NUM_KEYS -> Values \cup {NULL, Beyond}]
  /\ pc \in [Cores -> Labels]
  /\ index \in [Cores -> Nat]
  /\ begun \in Nat
  /\ ended \in Nat
  /\ holders \subseteq Cores
  /\ keys \in Seq([slot : Slots, value : Values \cup {NULL}])

\* once runs func once, whichever cores race for it and however often they
\* call; nobody returns before func has: what it initialised is there for
\* every caller, not only for the one that ran it.
OnceExact ==
  /\ begun <= 1
  /\ \A c \in Cores : pc[c] = "return" => ended > 0

\* One holder of the mutex at a time, and the word is 1 just while there is
\* one; so trylock fails only because of a holder, and nobody's unlock ends
\* another core's hold.
HeldByOne ==
  /\ \A c, d \in holders : c = d
  /\ mutex = 1 <=> holders # {}

\* getspecific of a key returns what was last stored under that key, or NULL:
\* creating keys on other cores, before, meanwhile or when the slots have run
\* out, and storing under other keys, never touch it; and nothing behind
\* key_array is ever written.
ValueKept ==
  /\ \A k \in 1 .. Len(keys) : key_array[keys[k].slot] = keys[k].value
  /\ key_array[NUM_KEYS] = Beyond

\* The control says how far func has got, and one core runs it.
Control ==
  /\ once = 0 <=> begun = 0
  /\ once = 0 => \A c \in Cores : pc[c] \notin {"func", "store", "spin", "return"}
  /\ once = 2 => ended > 0
  /\ \A c \in Cores : pc[c] \in {"func", "store"} => once = 1
  /\ \A c \in Cores : pc[c] = "store" => ended > 0
  /\ \A c, d \in Cores :
       pc[c] \in {"func", "store"} /\ pc[d] \in {"func", "store"} => c = d

\* An index is fetched by one core and belongs to one key.
Indexes ==
  /\ \A c \in Cores : pc[c] = "fetched" => index[c] < key_index
  /\ \A c, d \in Cores :
       pc[c] = "fetched" /\ pc[d] = "fetched" /\ index[c] = index[d] => c = d
  /\ \A k \in 1 .. Len(keys) :
       /\ keys[k].slot < key_index
       /\ \A c \in Cores : pc[c] = "fetched" => index[c] # keys[k].slot
       /\ \A l \in 1 .. Len(keys) : keys[k].slot = keys[l].slot => k = l

IInv ==
  /\ TypeOK
  /\ OnceExact
  /\ HeldByOne
  /\ ValueKept
  /\ Control
  /\ Indexes

\* Every call of once returns, the spinning ones included.
OnceReturns ==
  \A c \in Cores : pc[c] \in {"func", "store", "spin", "return"} ~> pc[c] = "idle"

\* The mutex cannot die: while somebody spins on it, somebody gets it again
\* and again, though the spinning core itself may be overtaken for ever.
NeverDead == (\E c \in Cores : pc[c] = "lock") ~> holders # {}
=============================================================================
