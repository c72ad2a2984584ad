------------------------------ MODULE AppStart ------------------------------
(***************************************************************************)
(* What every core does once it is set up: app::start runs the global      *)
(* constructors and calls allocator->alloc().  The constructors fill the   *)
(* global translation table and the rootManager's table, and construct the *)
(* distributed managers; alloc is the first Ebb call of the core, so it is *)
(* dispatched (EbbDispatch) through what the constructors have left.       *)
(*                                                                         *)
(* link.ld puts .ctors.* in ascending order before .ctors, and start runs  *)
(* them from the first to the last: those with an init_priority, 201       *)
(* before 200, then those without, in the order the files are linked.      *)
(* Nothing keeps the cores apart: each runs all of them again, at any      *)
(* moment of what the others do.  A constructor that stores through no     *)
(* pointer it has read is one step, for it stores the same every time.     *)
(*                                                                         *)
(* A core that calls a function of a manager it finds to be null goes      *)
(* through the memory at address 0; one that allocates from a              *)
(* representative of memAllocator that another core uses may overwrite     *)
(* what that core has got; free may write behind its bit vector.  Nothing  *)
(* is said of what happens then: `wild' ends the behaviour.                *)
(*                                                                         *)
(* start loops for ever after its call of alloc.  The client here goes on: *)
(* it may ask for more entries on any core, as often as it likes, and give *)
(* back any entry that some core has got, on any core.                     *)
(***************************************************************************)
EXTENDS EbbDispatch, FiniteSetsExt

CONSTANTS
  AllocEbb,       \* the allocator Ebb
  NLocalEntries   \* N_LOCAL_ENTRIES

ASSUME AppEbbsAssumption == Ebbs = {MemEbb, AllocEbb} /\ MemEbb # AllocEbb
ASSUME AppCoresAssumption ==
  /\ Cardinality(Cores) \in Nat \ {0}
  /\ Cores = 0 .. Cardinality(Cores) - 1
ASSUME EntriesAssumption ==
  NLocalEntries \in Nat /\ NLocalEntries \div Cardinality(Cores) >= 64
ASSUME ZeroAssumption == 0 \in Junk  \* memory may read as zero
ASSUME NoEntryAssumption == None \notin 0 .. 3 /\ None # "root"

VARIABLES
  le,      \* le[e]: the entry that the Ebb of the manager of e holds
  ge,      \* ge[n]: the manager in entry n of the global table
  words,   \* the words around the RootManager that are not 0, by offset
  ctor,    \* ctor[c]: the constructor core c runs next, 0 before app::start
  copied,  \* copied[c]: what memAllocator's constructor has read
  next,    \* next[c]: what core c has put into n->next, or None
  bv,      \* bv[c]: the bits set in the allocator representative c has made
  asked,   \* asked[c]: the entry core c has called free with, None for alloc
  got,     \* got[c]: the entries that core c has ever got from alloc
  wild     \* memory in use may have been overwritten

appVars == <<le, ge, words, ctor, copied, next, bv, asked, got, wild>>
allVars == <<vars, appVars>>

\* memAllocatorManagerEbb, memAllocator, allocatorManager and allocator have
\* entries 0, 1, 2 and 3.
ManagerEntry(e) == IF e = MemEbb THEN 0 ELSE 2
EbbEntry(e) == ManagerEntry(e) + 1
Reserved == 0 .. 3

\* The last step is the call of alloc.
Constructors ==
  <<"allocatorManagerRep", "read", "memAllocator", "allocatorManager",
    "allocator", "memAllocatorManager", "memAllocatorManagerEbb", "call">>

\* Where repTbl[LOCAL_MEM_VIRT - l] is: the difference is in bytes, an entry
\* has 16 of them, and repTbl starts behind the pointer to the vtable.
RepWord(n) == 1 - 16 * n

\* mem::malloc has put the RootManager behind the page directory of 512 words
\* that initArch made last.  Its first word maps the global table.
UsedWord == -512

AppInit ==
  /\ Init
  /\ le = [e \in Ebbs |-> None]
  /\ ge = [n \in Reserved |-> None]
  /\ words = [w \in {UsedWord} |-> "globalMem"]
  /\ ctor = [c \in Cores |-> 0]
  /\ copied = [c \in Cores |-> None]
  /\ next = [c \in Cores |-> None]
  /\ bv = [c \in Cores |-> {}]
  /\ asked = [c \in Cores |-> None]
  /\ got = [c \in Cores |-> {}]
  /\ wild = FALSE

Running(c, name) ==
  /\ ctor[c] \in DOMAIN Constructors
  /\ Constructors[ctor[c]] = name

NextConstructor(c) == ctor' = [ctor EXCEPT ![c] = @ + 1]

-----------------------------------------------------------------------------
\* boot::initCpu enters app::start.
Start(c) ==
  /\ ctor[c] = 0
  /\ NextConstructor(c)
  /\ UNCHANGED <<vars, le, ge, words, copied, next, bv, asked, got, wild>>

\* DistributedManager::DistributedManager: nothing but the Spinlock's.
ConstructManager(c, name, e) ==
  /\ Running(c, name)
  /\ lock' = [lock EXCEPT ![e] = FALSE]
  /\ NextConstructor(c)
  /\ UNCHANGED <<list, ref, mgrRef, altstack, built, sp, pc, on, rep, viaRoot,
                 le, ge, words, copied, next, bv, asked, got, wild>>

\* Ebb(LocalEntry*, Ebb<Manager>) of memAllocator: the argument is the entry
\* memAllocatorManagerEbb holds at the moment ...
ReadManager(c) ==
  /\ Running(c, "read")
  /\ copied' = [copied EXCEPT ![c] = le[MemEbb]]
  /\ NextConstructor(c)
  /\ UNCHANGED <<vars, le, ge, words, next, bv, asked, got, wild>>

\* ... and goes into the global entry.
StoreManager(c) ==
  /\ Running(c, "memAllocator")
  /\ ge' = [ge EXCEPT ![EbbEntry(MemEbb)] = copied[c]]
  /\ NextConstructor(c)
  /\ UNCHANGED <<vars, le, words, copied, next, bv, asked, got, wild>>

\* The same of allocator, constructed just behind its manager.
ConstructAllocator(c) ==
  /\ Running(c, "allocator")
  /\ ge' = [ge EXCEPT ![EbbEntry(AllocEbb)] = le[AllocEbb]]
  /\ NextConstructor(c)
  /\ UNCHANGED <<vars, le, words, copied, next, bv, asked, got, wild>>

StoreWord(m, e) ==
  words' = [w \in DOMAIN words \cup {m} |-> IF w = m THEN e ELSE words[w]]

\* Mutant of addRep: the index counts entries, as it does not in preCall.
AddRepByEntry(n, e) == StoreWord(1 - n, e)

\* RootManager::addRep.
addRep(n, e) == StoreWord(RepWord(n), e)

\* Ebb(LocalEntry*, T*): an Ebb that the rootManager manages.
ConstructRooted(c, name, e) ==
  /\ Running(c, name)
  /\ le' = [le EXCEPT ![e] = ManagerEntry(e)]
  /\ addRep(ManagerEntry(e), e)
  /\ ge' = [ge EXCEPT ![ManagerEntry(e)] = "root"]
  /\ NextConstructor(c)
  /\ UNCHANGED <<vars, copied, next, bv, asked, got, wild>>

\* A step of app::start before its call.
Constructor(c) ==
  \/ ConstructManager(c, "allocatorManagerRep", AllocEbb)
  \/ ReadManager(c)
  \/ StoreManager(c)
  \/ ConstructRooted(c, "allocatorManager", AllocEbb)
  \/ ConstructAllocator(c)
  \/ ConstructManager(c, "memAllocatorManager", MemEbb)
  \/ ConstructRooted(c, "memAllocatorManagerEbb", MemEbb)

-----------------------------------------------------------------------------
\* A core calls allocator->alloc(), for which e is None, or allocator->free(e).
CallAllocator(c, e) ==
  /\ AppCall(c, AllocEbb)
  /\ asked' = [asked EXCEPT ![c] = e]
  /\ UNCHANGED <<le, ge, words, copied, next, bv, got, wild>>

\* start calls allocator->alloc().
CallAlloc(c) ==
  /\ Running(c, "call")
  /\ CallAllocator(c, None)
  /\ NextConstructor(c)

\* So does the client, on a core that has been through start.
ClientAlloc(c) ==
  /\ ctor[c] > Len(Constructors)
  /\ CallAllocator(c, None)
  /\ UNCHANGED ctor

\* The client calls allocator->free, on whatever core it has come to.
CallFree(c) ==
  /\ ctor[c] > Len(Constructors)
  /\ \E d \in Cores : \E e \in got[d] : CallAllocator(c, e)
  /\ UNCHANGED ctor

\* What RootManager::preCall finds in its table for entry n.
Rooted(n) == IF RepWord(n) \in DOMAIN words THEN words[RepWord(n)] ELSE None

\* The manager that precall finds for e is the one that has been constructed.
ManagerFound(e) ==
  LET n == ge[EbbEntry(e)]
  IN  n # None /\ ge[n] = "root" /\ Rooted(n) = e

\* precall.
PrecallFound(c, k) ==
  /\ ManagerFound(on[c][k])
  /\ Precall(c, k)
  /\ UNCHANGED appVars

PrecallWild(c, k) ==
  /\ At(c, k, "precall")
  /\ ~ManagerFound(on[c][k])
  /\ wild' = TRUE
  /\ UNCHANGED <<vars, le, ge, words, ctor, copied, next, bv, asked, got>>

\* SimpleEbbAllocator::SimpleEbbAllocator: the core at location 0 sets the bits
\* of the reserved entries.
NewBits(c) == IF c = 0 THEN Reserved ELSE {}

ConstructRep(c, k) ==
  /\ Construct(c, k)
  /\ bv' = [bv EXCEPT ![c] = NewBits(c)]
  /\ UNCHANGED <<le, ge, words, ctor, copied, next, asked, got, wild>>

\* The manager's lock may have been released by a constructor on another core,
\* so the two steps of an insertion are apart: n->next = list ...
InsertRead(c, k) ==
  /\ At(c, k, "insert")
  /\ next[c] = None
  /\ next' = [next EXCEPT ![c] = list[on[c][k]]]
  /\ UNCHANGED <<vars, le, ge, words, ctor, copied, bv, asked, got, wild>>

\* Another core uses core c's representative of memAllocator.
MemShared(c) ==
  \E d \in Cores \ {c} : ref[d][MemEbb] = ref[c][MemEbb] /\ ref[c][MemEbb] # None

\* What Node::location reads as.  The constructor of SimpleEbbAllocator zeroes
\* eight times the bytes of its bit vector: behind it is memory that is free,
\* as long as no other core allocates from there, and the node comes next.
NodeLocations(c, e) == IF e = AllocEbb /\ ~MemShared(c) THEN {0} ELSE Junk

\* ... and list = n.
InsertWrite(c, k) ==
  /\ At(c, k, "insert")
  /\ next[c] # None
  /\ \E l \in NodeLocations(c, on[c][k]) :
       list' = [list EXCEPT ![on[c][k]] =
                  <<[location |-> l, ref |-> rep[c][k]]>> \o next[c]]
  /\ next' = [next EXCEPT ![c] = None]
  /\ Goto(c, k, "unlock")
  /\ UNCHANGED <<lock, ref, mgrRef, altstack, built, sp, on, rep, viaRoot,
                 le, ge, words, ctor, copied, bv, asked, got, wild>>

\* Activation k of core c runs memalign on representative r.
InMemalign(c, k, r) ==
  on[c][k] = MemEbb /\ rep[c][k] = r /\ (At(c, k, "direct") \/ At(c, k, "body"))

\* What core c does to memory it shares may hit what another core has got: the
\* two are in memalign at once, or c zeroes what lies behind its bit vector.
Clobber(c, k) ==
  /\ \/ \E d \in Cores \ {c} : \E l \in Levels :
          InMemalign(c, k, rep[c][k]) /\ InMemalign(d, l, rep[c][k])
     \/ on[c][k] = AllocEbb /\ At(c, k, "bind") /\ MemShared(c)
  /\ wild' = TRUE
  /\ UNCHANGED <<vars, le, ge, words, ctor, copied, next, bv, asked, got>>

\* The part of the table that a core's allocator gives out.
Share == NLocalEntries \div Cardinality(Cores)
FirstEntry(c) == Share * c

\* SimpleEbbAllocator::alloc: the first clear bit, which stays clear.
alloc(c, bits) == FirstEntry(c) + Min((0 .. 63) \ bits)

\* The bits that are set in a number.
BitsOf(n) == {b \in 0 .. 5 : (n \div 2 ^ b) % 2 = 1}

\* Mutant of free: the word is stored instead of added to.
FreeStores(index, bits) == BitsOf(index % 64)

\* SimpleEbbAllocator::free: the number of the bit, not the bit, is put in.
free(index, bits) == bits \cup BitsOf(index % 64)

\* alloc returns.
ServeAlloc(c) ==
  /\ asked[c] = None
  /\ DirectReturn(c, 1) \/ Return(c, 1)
  /\ got' = [got EXCEPT ![c] = @ \cup {alloc(c, bv[rep[c][1]])}]
  /\ UNCHANGED <<le, ge, words, ctor, copied, next, bv, asked, wild>>

\* free returns, called straight as the core has been through start; for an entry
\* in front of the core's share it never does.  Of the vector, Share bytes, only
\* the first word matters to alloc.
ServeFree(c) ==
  LET own == rep[c][1]
      index == asked[c] - FirstEntry(c)
  IN  /\ asked[c] # None
      /\ index >= 0
      /\ DirectReturn(c, 1)
      /\ bv' = IF index < 64 THEN [bv EXCEPT ![own] = free(index, @)] ELSE bv
      /\ asked' = [asked EXCEPT ![c] = None]
      /\ wild' = (index \div 64 >= Share \div 8)
      /\ UNCHANGED <<le, ge, words, ctor, copied, next, got>>

\* The steps of a dispatch that are as in EbbDispatch.
Dispatch(c, k) ==
  /\ \/ Lock(c, k) \/ SearchFinds(c, k) \/ SearchFails(c, k)
     \/ NewMemRep(c, k) \/ NewRep(c, k) \/ BindRef(c, k) \/ NewNode(c, k)
     \/ Unlock(c, k) \/ PreCallReturn(c, k) \/ CallFunction(c, k)
     \/ k > 1 /\ (DirectReturn(c, k) \/ Return(c, k))
  /\ UNCHANGED appVars

AppStep(c, k) ==
  \/ PrecallFound(c, k)
  \/ PrecallWild(c, k)
  \/ ConstructRep(c, k)
  \/ InsertRead(c, k)
  \/ InsertWrite(c, k)
  \/ Clobber(c, k)
  \/ Dispatch(c, k)

Core(c) ==
  /\ ~wild
  /\ \/ Constructor(c)
     \/ CallAlloc(c)
     \/ ServeAlloc(c)
     \/ ServeFree(c)
     \/ \E k \in Levels : AppStep(c, k)

AppNext ==
  \E c \in Cores :
    \/ Core(c)
    \/ ~wild /\ (Start(c) \/ ClientAlloc(c) \/ CallFree(c))

\* A core that has entered start goes on; nothing makes a core enter it, and
\* nothing makes the client call.
AppSpec == AppInit /\ [][AppNext]_allVars /\ \A c \in Cores : WF_allVars(Core(c))

-----------------------------------------------------------------------------
\* The rootManager's table is used backwards from its start, into the page
\* directory before it.  All the same preCall finds there what addRep has put
\* in, and the one entry of the directory that is in use stays.
RootTableSound ==
  /\ words[UsedWord] = "globalMem"
  /\ \A e \in Ebbs : ge[ManagerEntry(e)] = "root" => Rooted(ManagerEntry(e)) = e

\* No entry is ever given out on two cores, however often alloc and free are
\* called, on whatever cores and with whosever entries, and none is that of an
\* Ebb that the constructors made.  (Only location 0 may be led to another
\* core's allocator, which knows nothing of the reserved entries.)  This says
\* nothing of one core: alloc does not mark what it returns, and the next call
\* on the core returns the same.
EntriesApart ==
  \A c, d \in Cores :
    /\ c # d => got[c] \cap got[d] = {}
    /\ got[c] \cap Reserved # {} => c = 0 /\ ref[c][AllocEbb] # c

\* Although a core that runs the constructors releases the managers' locks
\* under the feet of their holders, Ebb calls keep their promise: bound once,
\* never bound again, a representative of the core's own unless it is the one
\* that uninitialised locations read as.
AppCacheSpec == Cache!Spec

\* Nor does it stop anybody: a core that has entered app::start gets an entry,
\* whatever the client frees meanwhile on others, or the system has gone wild.
AllocReturns == \A c \in Cores : ctor[c] = 1 ~> (got[c] # {} \/ wild)

\* What the definition of memAllocator says: its manager is the one of the Ebb
\* memAllocatorManagerEbb, once the constructors have been run.
ManagersKnown ==
  \A c \in Cores : Running(c, "call") => \A e \in Ebbs : ManagerFound(e)
=============================================================================
