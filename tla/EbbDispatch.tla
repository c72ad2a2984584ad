----------------------------- MODULE EbbDispatch -----------------------------
(***************************************************************************)
(* How a call of an Ebb finds its representative on the calling core:      *)
(* lrt/trans.c++ (precall, postcall, RootManager), defaultFunc.S,          *)
(* event.c++ (the altstack), ebb/DistributedManager.h, sync/Spinlock.h and *)
(* the part of SimpleEbbAllocator that calls another Ebb while it is being *)
(* constructed.                                                            *)
(*                                                                         *)
(* Every core has its own translation table (the pages at LOCAL_MEM_VIRT   *)
(* are per core).  As long as an entry holds the default vtable, a call    *)
(* through it enters defaultFunc, which asks the Ebb's manager to bind the *)
(* entry; afterwards calls go straight to the representative.  A manager   *)
(* is itself an Ebb, bound on first use by the rootManager, which is a     *)
(* plain object.                                                           *)
(*                                                                         *)
(* A core is single threaded and calls nest, so it has a stack of          *)
(* activations, 1 .. sp[c]; only the topmost one runs.  Level 1 is a call  *)
(* made by the application; the levels above it are calls of memAllocator  *)
(* made while a representative or a list node is being allocated.          *)
(*                                                                         *)
(* The global table and the rooted managers are as the constructors that   *)
(* app::start runs are declared to leave them.                             *)
(***************************************************************************)
EXTENDS Integers, Sequences, FiniteSets

CONSTANTS
  Cores,   \* event locations
  Ebbs,    \* Ebbs with a DistributedManager of their own
  MemEbb,  \* the memAllocator Ebb
  Junk,    \* what the never initialised Node::location may read as
  None,    \* no representative bound: the entry holds the default vtable
  Depth    \* bound of the model: nested activations of one core

ASSUME EbbAssumption == MemEbb \in Ebbs
ASSUME NoneAssumption == None \notin Cores /\ None \notin Ebbs \X Cores
ASSUME JunkAssumption == Junk # {}
ASSUME DepthAssumption == Depth \in Nat /\ Depth >= 3

VARIABLES
  lock,      \* lock[e]: the Spinlock of the manager of e is taken
  list,      \* list[e]: the manager's Node list, head first
  ref,       \* ref[c][e]: LocalEntry::ref of e on c, or None
  mgrRef,    \* mgrRef[c][e]: the entry of the manager of e is bound on c
  altstack,  \* altstack[c]: what altstackPush has saved, oldest first
  built,     \* history: built[c][e] representatives of e were made by c
  sp,        \* sp[c]: the number of activations on the stack of c
  pc,        \* pc[c][k]: where activation k of c is
  on,        \* on[c][k]: the Ebb activation k calls
  rep,       \* rep[c][k]: the representative activation k found, or None
  viaRoot    \* viaRoot[c][k]: preCall was itself reached through defaultFunc

vars == <<lock, list, ref, mgrRef, altstack, built, sp, pc, on, rep, viaRoot>>

Levels == 1 .. Depth

\* A representative is named by the core that constructed it.
Node == [location : Junk, ref : Cores]

Labels == {"free", "direct", "precall", "lock", "search", "new", "ctor",
           "bind", "node", "insert", "unlock", "mgrret", "call", "body"}

\* What altstackPush saves: a return address, named by the activation it
\* leads back to, or the manager whose postCall is due.
Ret(k) == <<"ret", k>>
MgrRet(k) == <<"mgrret", k>>
MgrOf(e) == <<"mgr", e>>
RootMgr == <<"mgr", "root">>

Init ==
  /\ lock = [e \in Ebbs |-> FALSE]
  /\ list = [e \in Ebbs |-> << >>]
  /\ ref = [c \in Cores |-> [e \in Ebbs |-> None]]
  /\ mgrRef = [c \in Cores |-> [e \in Ebbs |-> FALSE]]
  /\ altstack = [c \in Cores |-> << >>]
  /\ built = [c \in Cores |-> [e \in Ebbs |-> 0]]
  /\ sp = [c \in Cores |-> 0]
  /\ pc = [c \in Cores |-> [k \in Levels |-> "free"]]
  /\ on = [c \in Cores |-> [k \in Levels |-> MemEbb]]
  /\ rep = [c \in Cores |-> [k \in Levels |-> None]]
  /\ viaRoot = [c \in Cores |-> [k \in Levels |-> FALSE]]

At(c, k, label) == sp[c] = k /\ pc[c][k] = label

Goto(c, k, label) == pc' = [pc EXCEPT ![c][k] = label]

\* Push an activation for a call of e: operator-> reads the entry and the
\* call goes to the representative or, through the default vtable, to
\* defaultFunc.  A nesting caller is left at the label it resumes from.
Call(c, k, e, resume) ==
  /\ sp[c] = k - 1
  /\ sp' = [sp EXCEPT ![c] = k]
  /\ on' = [on EXCEPT ![c][k] = e]
  /\ LET entered == IF ref[c][e] = None THEN "precall" ELSE "direct"
     IN  pc' = [pc EXCEPT ![c] = [l \in Levels |-> IF l = k THEN entered
                                                   ELSE IF l = k - 1 THEN resume
                                                   ELSE pc[c][l]]]

\* Pop activation k.
Leave(c, k) ==
  /\ sp' = [sp EXCEPT ![c] = k - 1]
  /\ on' = [on EXCEPT ![c][k] = MemEbb]
  /\ rep' = [rep EXCEPT ![c][k] = None]
  /\ viaRoot' = [viaRoot EXCEPT ![c][k] = FALSE]
  /\ Goto(c, k, "free")

-----------------------------------------------------------------------------
\* The application calls a function of e.
AppCall(c, e) ==
  /\ Call(c, 1, e, "free")
  /\ rep' = [rep EXCEPT ![c][1] = ref[c][e]]
  /\ UNCHANGED <<lock, list, ref, mgrRef, altstack, built, viaRoot>>

\* A call through a bound entry runs on the representative and returns.
DirectReturn(c, k) ==
  /\ At(c, k, "direct")
  /\ Leave(c, k)
  /\ UNCHANGED <<lock, list, ref, mgrRef, altstack, built>>

\* precall calls mgr->preCall.  When the manager's entry is not bound either,
\* that call is dispatched too: RootManager::preCall binds the entry, the inner
\* precall saves the rootManager and defaultFunc its return address.
Precall(c, k) ==
  /\ At(c, k, "precall")
  /\ LET unbound == ~mgrRef[c][on[c][k]]
     IN  /\ mgrRef' = [mgrRef EXCEPT ![c][on[c][k]] = TRUE]
         /\ viaRoot' = [viaRoot EXCEPT ![c][k] = unbound]
         /\ altstack' = IF unbound
                          THEN [altstack EXCEPT ![c] = @ \o <<RootMgr, MgrRet(k)>>]
                          ELSE altstack
  /\ Goto(c, k, "lock")
  /\ UNCHANGED <<lock, list, ref, built, sp, on, rep>>

\* Mutant of Lock: a plain store instead of the compare and swap.
LockStores(c, k) ==
  /\ At(c, k, "lock")
  /\ lock' = [lock EXCEPT ![on[c][k]] = TRUE]
  /\ Goto(c, k, "search")
  /\ UNCHANGED <<list, ref, mgrRef, altstack, built, sp, on, rep, viaRoot>>

\* Spinlock::lock, the compare and swap that succeeds.
Lock(c, k) ==
  /\ At(c, k, "lock")
  /\ ~lock[on[c][k]]
  /\ lock' = [lock EXCEPT ![on[c][k]] = TRUE]
  /\ Goto(c, k, "search")
  /\ UNCHANGED <<list, ref, mgrRef, altstack, built, sp, on, rep, viaRoot>>

\* Mutant of FirstHere: the location is not compared.
FirstAnywhere(c, nodes, i) == i = 1

\* Node i is the first whose location reads as this core.
FirstHere(c, nodes, i) ==
  /\ nodes[i].location = c
  /\ \A j \in 1 .. i - 1 : nodes[j].location # c

\* The loop over the list finds a node: its representative is bound.
SearchFinds(c, k) ==
  /\ At(c, k, "search")
  /\ \E i \in 1 .. Len(list[on[c][k]]) :
       /\ FirstHere(c, list[on[c][k]], i)
       /\ rep' = [rep EXCEPT ![c][k] = list[on[c][k]][i].ref]
       /\ ref' = [ref EXCEPT ![c][on[c][k]] = list[on[c][k]][i].ref]
  /\ Goto(c, k, "unlock")
  /\ UNCHANGED <<lock, list, mgrRef, altstack, built, sp, on, viaRoot>>

SearchFails(c, k) ==
  /\ At(c, k, "search")
  /\ \A i \in 1 .. Len(list[on[c][k]]) : list[on[c][k]][i].location # c
  /\ Goto(c, k, "new")
  /\ UNCHANGED <<lock, list, ref, mgrRef, altstack, built, sp, on, rep, viaRoot>>

\* new T for memAllocator: operator new takes lrt memory, no Ebb is called.
NewMemRep(c, k) ==
  /\ At(c, k, "new")
  /\ on[c][k] = MemEbb
  /\ built' = [built EXCEPT ![c][MemEbb] = @ + 1]
  /\ rep' = [rep EXCEPT ![c][k] = c]
  /\ Goto(c, k, "bind")
  /\ UNCHANGED <<lock, list, ref, mgrRef, altstack, sp, on, viaRoot>>

\* Mutant of NewRep: the entry is bound before the representative is constructed.
NewRepBindsEarly(c, k) ==
  /\ At(c, k, "new")
  /\ on[c][k] # MemEbb
  /\ k + 1 \in Levels
  /\ Call(c, k + 1, MemEbb, "ctor")
  /\ rep' = [rep EXCEPT ![c][k + 1] = ref[c][MemEbb]]
  /\ ref' = [ref EXCEPT ![c][on[c][k]] = c]
  /\ UNCHANGED <<lock, list, mgrRef, altstack, built, viaRoot>>

\* new T for any other Ebb: operator new is memAllocator->malloc ...
NewRep(c, k) ==
  /\ At(c, k, "new")
  /\ on[c][k] # MemEbb
  /\ k + 1 \in Levels
  /\ Call(c, k + 1, MemEbb, "ctor")
  /\ rep' = [rep EXCEPT ![c][k + 1] = ref[c][MemEbb]]
  /\ UNCHANGED <<lock, list, ref, mgrRef, altstack, built, viaRoot>>

\* ... and the constructor calls memAllocator->malloc for its bit vector.
Construct(c, k) ==
  /\ At(c, k, "ctor")
  /\ k + 1 \in Levels
  /\ built' = [built EXCEPT ![c][on[c][k]] = @ + 1]
  /\ Call(c, k + 1, MemEbb, "bind")
  /\ rep' = [rep EXCEPT ![c][k] = c, ![c][k + 1] = ref[c][MemEbb]]
  /\ UNCHANGED <<lock, list, ref, mgrRef, altstack, viaRoot>>

\* Mutants of BindRef: the entry is not bound yet when the node is allocated, and
\* only the entry of memAllocator is bound.
BindRefLate(c, k) ==
  /\ At(c, k, "bind")
  /\ Goto(c, k, "node")
  /\ UNCHANGED <<lock, list, ref, mgrRef, altstack, built, sp, on, rep, viaRoot>>

BindMemRefOnly(c, k) ==
  /\ At(c, k, "bind")
  /\ ref' = [ref EXCEPT ![c][MemEbb] = IF on[c][k] = MemEbb THEN rep[c][k] ELSE @]
  /\ Goto(c, k, "node")
  /\ UNCHANGED <<lock, list, mgrRef, altstack, built, sp, on, rep, viaRoot>>

\* The entry is bound before the list node is allocated.
BindRef(c, k) ==
  /\ At(c, k, "bind")
  /\ ref' = [ref EXCEPT ![c][on[c][k]] = rep[c][k]]
  /\ Goto(c, k, "node")
  /\ UNCHANGED <<lock, list, mgrRef, altstack, built, sp, on, rep, viaRoot>>

\* Node::operator new is memAllocator->malloc.
NewNode(c, k) ==
  /\ At(c, k, "node")
  /\ k + 1 \in Levels
  /\ Call(c, k + 1, MemEbb, "insert")
  /\ rep' = [rep EXCEPT ![c][k + 1] = ref[c][MemEbb]]
  /\ UNCHANGED <<lock, list, ref, mgrRef, altstack, built, viaRoot>>

\* Mutant of Insert: the old list is dropped.
InsertDropsList(c, k) ==
  /\ At(c, k, "insert")
  /\ \E junk \in Junk :
       list' = [list EXCEPT ![on[c][k]] = <<[location |-> junk, ref |-> rep[c][k]]>>]
  /\ Goto(c, k, "unlock")
  /\ UNCHANGED <<lock, ref, mgrRef, altstack, built, sp, on, rep, viaRoot>>

\* The node becomes the head of the list; its location is never assigned.
\* One step: the manager's lock is held.
Insert(c, k) ==
  /\ At(c, k, "insert")
  /\ \E junk \in Junk :
       list' = [list EXCEPT ![on[c][k]] =
                  <<[location |-> junk, ref |-> rep[c][k]]>> \o @]
  /\ Goto(c, k, "unlock")
  /\ UNCHANGED <<lock, ref, mgrRef, altstack, built, sp, on, rep, viaRoot>>

\* Mutant of Unlock: only the lock of memAllocator's manager is ever released.
UnlockMemOnly(c, k) ==
  /\ At(c, k, "unlock")
  /\ lock' = [lock EXCEPT ![on[c][k]] = on[c][k] # MemEbb]
  /\ Goto(c, k, IF viaRoot[c][k] THEN "mgrret" ELSE "call")
  /\ UNCHANGED <<list, ref, mgrRef, altstack, built, sp, on, rep, viaRoot>>

\* Spinlock::unlock, after which preCall returns.
Unlock(c, k) ==
  /\ At(c, k, "unlock")
  /\ lock' = [lock EXCEPT ![on[c][k]] = FALSE]
  /\ Goto(c, k, IF viaRoot[c][k] THEN "mgrret" ELSE "call")
  /\ UNCHANGED <<list, ref, mgrRef, altstack, built, sp, on, rep, viaRoot>>

PopTwo(s) == SubSeq(s, 1, Len(s) - 2)

\* When preCall was itself dispatched, defaultFunc pops the return address and
\* postcall the manager: the rootManager's postCall.
PreCallReturn(c, k) ==
  /\ At(c, k, "mgrret")
  /\ altstack' = [altstack EXCEPT ![c] = PopTwo(@)]
  /\ Goto(c, k, "call")
  /\ UNCHANGED <<lock, list, ref, mgrRef, built, sp, on, rep, viaRoot>>

\* Mutant of CallFunction: the return address is saved before the manager.
CallFunctionSwapped(c, k) ==
  /\ At(c, k, "call")
  /\ altstack' = [altstack EXCEPT ![c] = @ \o <<Ret(k), MgrOf(on[c][k])>>]
  /\ Goto(c, k, "body")
  /\ UNCHANGED <<lock, list, ref, mgrRef, built, sp, on, rep, viaRoot>>

\* precall saves the manager, defaultFunc the caller's return address, and the
\* function is called on the representative put into the arguments.
CallFunction(c, k) ==
  /\ At(c, k, "call")
  /\ altstack' = [altstack EXCEPT ![c] = @ \o <<MgrOf(on[c][k]), Ret(k)>>]
  /\ Goto(c, k, "body")
  /\ UNCHANGED <<lock, list, ref, mgrRef, built, sp, on, rep, viaRoot>>

\* The function returns: defaultFunc pops the return address, postcall pops the
\* manager and calls its postCall, and control goes back to the caller.
Return(c, k) ==
  /\ At(c, k, "body")
  /\ altstack' = [altstack EXCEPT ![c] = PopTwo(@)]
  /\ Leave(c, k)
  /\ UNCHANGED <<lock, list, ref, mgrRef, built>>

Step(c, k) ==
  \/ DirectReturn(c, k)
  \/ Precall(c, k)
  \/ Lock(c, k)
  \/ SearchFinds(c, k)
  \/ SearchFails(c, k)
  \/ NewMemRep(c, k)
  \/ NewRep(c, k)
  \/ Construct(c, k)
  \/ BindRef(c, k)
  \/ NewNode(c, k)
  \/ Insert(c, k)
  \/ Unlock(c, k)
  \/ PreCallReturn(c, k)
  \/ CallFunction(c, k)
  \/ Return(c, k)

Next ==
  \E c \in Cores :
    \/ \E e \in Ebbs : AppCall(c, e)
    \/ \E k \in Levels : Step(c, k)

Spec == Init /\ [][Next]_vars

\* A core never stops executing; nothing is assumed about who wins a lock.
Fairness == \A c \in Cores : WF_vars(\E k \in Levels : Step(c, k))

FairSpec == Spec /\ Fairness

-----------------------------------------------------------------------------
Saving == {Ret(k) : k \in Levels} \cup {MgrRet(k) : k \in Levels}
          \cup {MgrOf(e) : e \in Ebbs} \cup {RootMgr}

TypeOK ==
  /\ lock \in [Ebbs -> BOOLEAN]
  /\ list \in [Ebbs -> Seq(Node)]
  /\ ref \in [Cores -> [Ebbs -> Cores \cup {None}]]
  /\ mgrRef \in [Cores -> [Ebbs -> BOOLEAN]]
  /\ altstack \in [Cores -> Seq(Saving)]
  /\ built \in [Cores -> [Ebbs -> Nat]]
  /\ sp \in [Cores -> 0 .. Depth]
  /\ pc \in [Cores -> [Levels -> Labels]]
  /\ on \in [Cores -> [Levels -> Ebbs]]
  /\ rep \in [Cores -> [Levels -> Cores \cup {None}]]
  /\ viaRoot \in [Cores -> [Levels -> BOOLEAN]]

InPreCall == {"search", "new", "ctor", "bind", "node", "insert", "unlock"}

\* Activation k of core c holds the lock of the manager of e.
Holds(c, k, e) == /\ k \in 1 .. sp[c]
                  /\ on[c][k] = e
                  /\ pc[c][k] \in InPreCall

\* The Spinlock keeps everyone else out of the list of a manager, while its
\* holder allocates, constructs and is dispatched through another manager.
MutualExclusion ==
  \A e \in Ebbs, c, d \in Cores, j, k \in Levels :
    Holds(c, j, e) /\ Holds(d, k, e) => c = d /\ j = k

\* The Spinlock is not recursive.  A core that has started to dispatch a call
\* of e never starts to dispatch another one inside it: the entry is bound
\* before anything is allocated from the Ebb being bound.
NoSelfDeadlock ==
  \A c \in Cores, j, k \in Levels :
    j < k /\ k <= sp[c] /\ on[c][j] = on[c][k] => pc[c][k] = "direct"

\* Whatever Ebb is called first, a core is never inside more than two
\* dispatches: what they allocate from is bound by then.
NestingBounded ==
  \A c \in Cores : sp[c] <= 3 /\ (sp[c] = 3 => pc[c][3] = "direct")

\* A core constructs its representative of an Ebb once.  (SimpleMemAllocator
\* relies on it: a second construction would hand out its memory again.)
BuiltOnce == \A c \in Cores, e \in Ebbs : built[c][e] <= 1

\* An entry is only ever bound to a representative that has been constructed.
BoundIsBuilt ==
  \A c \in Cores, e \in Ebbs :
    ref[c][e] # None => built[ref[c][e]][e] = 1

\* A core works on its own representative, unless an uninitialised location
\* happens to read as this core.
OwnRep ==
  \A c \in Cores \ Junk, e \in Ebbs : ref[c][e] \in {None, c}

\* The places in the list of e's manager of nodes for c's representative.
NodesFor(c, e) == {i \in 1 .. Len(list[e]) : list[e][i].ref = c}

\* No node is lost: outside the manager's lock the list holds exactly one node
\* for every representative made.
ListComplete ==
  \A e \in Ebbs :
    ~lock[e] => \A c \in Cores : built[c][e] = Cardinality(NodesFor(c, e))

\* What activation k of core c has on the altstack.
Saved(c, k) ==
  CASE pc[c][k] \in {"lock", "mgrret"} \cup InPreCall ->
         IF viaRoot[c][k] THEN <<RootMgr, MgrRet(k)>> ELSE << >>
    [] pc[c][k] = "body" -> <<MgrOf(on[c][k]), Ret(k)>>
    [] OTHER -> << >>

\* defaultFunc and postcall pop exactly what the same dispatch pushed: at any
\* moment a core's altstack is what its activations saved, innermost last, so
\* every return goes to its own caller and every postCall to its own manager.
\* (There are at most three: NestingBounded.)
AltstackExact ==
  \A c \in Cores : altstack[c] = Saved(c, 1) \o Saved(c, 2) \o Saved(c, 3)

\* A bound entry is never bound again nor unbound.
RefStable ==
  [][\A c \in Cores, e \in Ebbs :
       ref[c][e] # None => ref'[c][e] = ref[c][e]]_vars

\* Every call returns, although the cores spin on locks with no queue and hold
\* one lock while they wait for another.  It needs no strong fairness: a core
\* takes the lock of a manager once in its life.
CallCompletes == \A c \in Cores : sp[c] > 0 ~> sp[c] = 0

-----------------------------------------------------------------------------
\* The inductive invariant.  Unbound and Bound split the labels by whether the
\* dispatch has bound the entry already.
Unbound == {"precall", "lock", "search", "new", "ctor", "bind"}
Bound == {"direct", "node", "insert", "unlock", "mgrret", "call", "body"}

\* What the stack of a core can look like: a dispatch, the dispatch of
\* memAllocator it caused, and a direct call of memAllocator.
ShapeOf(c) ==
  /\ sp[c] <= 3
  /\ \A k \in Levels : pc[c][k] = "free" <=> k > sp[c]
  /\ sp[c] >= 2 => /\ on[c][2] = MemEbb
                   /\ pc[c][1] \in {"ctor", "bind", "insert"}
                   /\ on[c][1] = MemEbb => pc[c][2] = "direct"
  /\ sp[c] = 3 => /\ on[c][3] = MemEbb
                  /\ pc[c][3] = "direct"
                  /\ pc[c][2] = "insert"

StackShape == \A c \in Cores : ShapeOf(c)

\* The entry of the called Ebb is bound just when its dispatch has bound it.
EntryOf(c, k) ==
  /\ pc[c][k] \in Unbound => ref[c][on[c][k]] = None
  /\ pc[c][k] \in Bound => ref[c][on[c][k]] # None
  /\ pc[c][k] = "ctor" => on[c][k] # MemEbb

EntryFollowsDispatch == \A c \in Cores, k \in Levels : EntryOf(c, k)

HolderLocks ==
  \A c \in Cores, k \in Levels, e \in Ebbs : Holds(c, k, e) => lock[e]

\* A core has constructed a representative of e just when it has bound it or
\* is about to (or never, when it was given another core's).
BuiltOf(c, e) ==
  /\ built[c][e] \in {0, 1}
  /\ built[c][e] = 1 => \/ ref[c][e] # None
                        \/ \E k \in Levels : on[c][k] = e /\ pc[c][k] = "bind"

\* What the local variable of activation k holds once it is set.
RepOf(c, k) ==
  /\ pc[c][k] = "bind" => rep[c][k] = c /\ built[c][on[c][k]] = 1
  /\ pc[c][k] \in Bound => rep[c][k] = ref[c][on[c][k]]

NodesBuilt ==
  \A e \in Ebbs : \A i \in 1 .. Len(list[e]) : built[list[e][i].ref][e] = 1

BuiltKept ==
  /\ \A c \in Cores, e \in Ebbs : BuiltOf(c, e)
  /\ \A c \in Cores, k \in Levels : RepOf(c, k)
  /\ NodesBuilt

IInv == /\ TypeOK
        /\ StackShape
        /\ EntryFollowsDispatch
        /\ HolderLocks
        /\ MutualExclusion
        /\ BuiltKept
        /\ BoundIsBuilt
        /\ OwnRep

Serving(c) ==
  LET k == sp[c]
  IN  IF k > 0 /\ pc[c][k] \in {"direct", "body"} THEN <<on[c][k], rep[c][k]>>
                                                  ELSE None

servings == [c \in Cores |-> Serving(c)]

Cache == INSTANCE EbbCache WITH
           Confusable <- Junk \cap Cores,
           bound <- ref,
           serving <- servings

CacheSpec == Cache!Spec
=============================================================================
