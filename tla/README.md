# Verification of EbbOS

EbbOS is a small library operating system for x86-64 multiprocessors. It boots
through multiboot, cuts the memory into one region per core, gives every core its
own copy of a translation table, and starts an application whose objects are *Ebbs*
(Elastic Building Blocks): objects with one name and one representative per core,
made on the first call of a core. This directory holds TLA+ models of that system,
the configurations TLC checks them with, and proofs checked by TLAPS.

Paths below are relative to `src/`, the repository; `lrt/` stands for `src/src/lrt/`,
and likewise `ebb/`, `arch/`, `lib/`, `sync/`, `app/`.

Contents: 1 inventory, 2 modules, 3 runs, 4 bounds, 5 fairness, 6 proofs,
7 findings, 8 assumptions and omissions, 9 plan.

## 1. Inventory

### Components, their state and their operations

| Component | Source | State | Operations |
|---|---|---|---|
| Boot-time memory | `lrt/mem.c++`, `lrt/arch/x86_64/mem.c++`, `lrt/assert.h` | the `Region` table: start, current, end of each core's region | `init`, `memalign`, `malloc` |
| SimpleMemAllocator | `ebb/MemAllocator/` | one representative per core: start, current, end | construction, `memalign`, `malloc`, `free` |
| Ebb translation and dispatch | `lrt/trans.c++`, `lrt/trans.h`, `lrt/arch/x86_64/defaultFunc.S`, `lrt/event.c++` (altstack), `ebb/DistributedManager.h`, `ebb/ebb.h`, `sync/Spinlock.h` | the local table of each core (entry: `ref`), the global table, each manager's lock and node list, the altstack of each core | a call through an entry: stub, `defaultFunc`, `precall`, the manager's `preCall`, the function, `postcall` |
| EbbAllocator | `ebb/EbbAllocator/` | one representative per core with a bit vector; its constructor zeroes more than the vector | construction, `alloc`, `free` |
| Recursive mutexes | `lib/gthread/gthread.cpp`, `lib/newlib/lock.cpp` | `lock`, `loc`, `count` | `trylock`, `lock`, `unlock` |
| gthread once, mutex, keys | `lib/gthread/gthread.cpp` | the once control, the mutex word, `key_index`, `key_array` | `once`, `lock`, `trylock`, `unlock`, `key_create`, `setspecific`, `getspecific` |
| ACPI tables | `arch/x86_64/acpi.c++`, `acpi.h` | none: the tables in memory are only read | the search for RSDP, XSDT or RSDT and MADT; counting and walking MADT entries |
| Interrupt silencing, APICs | `arch/x86_64/apic.c++`, `8259.h`, `pit.h`, `rtc.h`, `io.h` | registers of the PIT, RTC, 8259s, I/O APICs and local APICs | `disablePit`, `disableRtc`, the `Apic` constructor, `disableIrqs`, `Lapic::enable` |
| Page tables | `lrt/arch/x86_64/trans.c++`, `bootAsm.S` | the boot tables, the shared tables, each core's root and private page | boot map, `initArch`, `initCpuArch`, `initCpu` |
| Boot sequence, SMP hand-off | `lrt/boot.c++`, `lrt/event.c++`, `lrt/arch/x86_64/event.c++`, `boot.c++` | `smpLock`, location, stack and altstack of each core | `boot::init`, `event::initCpu`, `boot::initCpu` |
| Exception stubs and IDT | `lrt/arch/x86_64/isr.S`, `event.c++` | the IDT | filling, loading |
| Application start | `app/app.c++`, `link.ld`, `lrt/trans.h` | the global translation table, the root manager's table, the managers' locks, all filled by global constructors that every core runs again | `app::start`: the constructors in table order, then `allocator->alloc()` |
| Console and UART | `lrt/console.h`, `lrt/uart.c++` | the guard of the one `Console`; the registers of the 16550 | `getInstance`, the constructor, `write` of a byte or a string |
| newlib system calls | `lib/newlib/syscalls.cpp`, `reent.cpp` | the break in a static array, the reentrancy structure and its flag | `sbrk`, `write`, `getreent`, calls that spin for ever |
| Lock-free list headers | `sync/nblist.h`, `sync/TaggedPointer.h` | – | used nowhere |

### How they interact

The boot core runs `boot::init`: it asks ACPI for the number of cores, cuts the memory,
prepares translation, fills the IDT, silences the devices, and then, like any core started
later, runs `event::initCpu` (location, stack, altstack) and `boot::initCpu` (its own page
tables and local table), and `app::start`. There every core runs all global constructors,
which build the Ebb managers and the global table, and makes its first Ebb call. On the way
everything is allocated from the core's region with `lrt::mem`.

An Ebb call is an ordinary virtual call through the entry of the Ebb in the core's
own table. As long as the entry is unbound its vtable is the default one, whose 256
slots lead to `defaultFunc`: it saves the caller's arguments, asks the Ebb's manager
(itself an Ebb, bound by the root manager) to bind the entry, and forwards the call.
Binding makes a representative and a list node, which are allocated by calling another
Ebb, `memAllocator`, whose own first representative comes from `lrt::mem`. So dispatch
nests in dispatch while a spinlock is held, and a side stack (the altstack) has to
remember the return addresses that the forwarded stack arguments leave no room for.

### What is hard, and what correctness means

- **Memory.** Two allocators bump two copies of one pointer, and only the order of
  calls keeps them apart. Blocks must be disjoint across cores and allocators and
  aligned; the cut of the RAM ignores the table that is put in front of it.
- **Dispatch.** Cores race for a manager's lock; the holder allocates through another
  manager; the lock is not recursive; `Node::location` is never initialised. A binding
  must be made once, to a constructed representative, and never change; a core must
  not deadlock on itself, cores must not deadlock on each other; the list must lose no
  node; the altstack must be popped exactly as it was pushed; every call must return.
- **defaultFunc.** Registers, stack arguments and alignment must come out right around
  C++ calls that clobber everything they may and that nest.
- **Locks of the C++ and C libraries.** One owner at a time, an exact count, an inner
  lock that always comes back, one run of `once`'s function that everybody waits for,
  keys that do not disturb each other when slots run out.
- **Application start.** The constructors reset locks and tables that other cores are
  using, copy a manager before it is made, and index a table by a difference of bytes. Ebb
  calls must keep their promise all the same, entries of different cores must differ, and every core
  that starts must get its entry.
- **Console and newlib.** A guard nobody synchronises, a divisor latch that covers the
  data register, polling writers that nothing keeps apart; a break that must stay in
  its array through refusals and negative increments; a structure made on first use.
- **Boot.** A register window written in two stores, 64-bit entries in two halves,
  last index against number, swapped port and value; live page tables changed, copied
  and shared; locations handed from core to core through one variable while all start
  on one boot stack.

`PROJECT.json` lists each of these hazards at its line with the properties that would
catch it, and those that no property covers with the reason.

## 2. Modules

| Module | Models | Built on |
|---|---|---|
| `Heap` | what memory promises to its callers (abstract): one bump pointer per core, whichever allocator moves it | |
| `LrtMem` | `lrt::mem`: the cut of the RAM and `memalign` | |
| `SimpleMemAllocator` | the allocator Ebb on top of `lrt::mem` | `LrtMem`, implements `Heap` |
| `EbbCache` | what translation promises to the callers of an Ebb (abstract) | |
| `EbbDispatch` | the path of a call from the local entry to the representative and back | implements `EbbCache` |
| `AppStart` | the global constructors on every core, `app::start`, the EbbAllocator | `EbbDispatch`, implements `EbbCache` |
| `DefaultFunc` | the same path at the level of registers and stack bytes | |
| `RecSpinlock` | `rec_spinlock`, the recursive mutex of both libraries | |
| `Gthread` | once, the plain mutex, the keys | |
| `Acpi` | the searches and walks over ACPI's tables, as functions | |
| `IrqSetup` | the silencing of the devices, store by store | `Acpi` |
| `PageTables` | the page tables from `bootAsm.S` to `trans::initCpu` | |
| `Boot` | `boot::init` and the start of every core | `IrqSetup`, `PageTables` |
| `Console` | the console and the serial port | |
| `Newlib` | `write`, `sbrk`, `getreent` and the calls that do not return | `Console` |
| `MC…` | values of the constants for TLC | |
| `…Proofs` | theorems and their proofs; `BootProofs` and `NewlibProofs` also those about the modules they are composed of | |

### LrtMem and SimpleMemAllocator

`Heap` gives every core an arena and one frontier in it: a block starts at the first
multiple of its boundary from the frontier on and leaves the others' frontiers alone, and a
block that reaches the arena's end, and no other, is reported. The code keeps the pointer in
two places, `regions[loc].current` and the representative's `current`, with an end in each;
that the two behave as one pointer across the handover is what the refinement adds to
`BlocksDisjoint`.

Addresses are integers. `regions` is the Region table, `sma[loc]` the representative
of a core or `NoRep`; `blocks` (every block handed out) and `asserted` (an `lrtAssert`
has printed) are history. `lrtAssert` prints and execution goes on, and the model
does that too: `Memalign` never refuses. `LrtMemalign` is boot code of a core,
`NewRep` is `new SimpleMemAllocator` (its memory from `lrt::mem::malloc`, then the copy
of the bounds), `RepMemalign` and `RepRefuse` are `SimpleMemAllocator::memalign`, whose
`malloc` is `memalign` with boundary 8. That a core leaves `lrt::mem` alone once it has
its representative, and makes one only, is a precondition that the code keeps by its
calling order; `EbbDispatch`'s `BuiltOnce` shows the second half.

### EbbDispatch

A core is single threaded and calls nest, so each core has a stack of activations:
`pc`, `on`, `rep`, `viaRoot` are the program counter and local variables of each
level. One action is one step between two points where another core can matter.

| Action | Code |
|---|---|
| `AppCall`, `DirectReturn` | `operator->` reads the entry; a bound entry is called directly |
| `Precall` | `precall` up to the call of the manager, which may itself be dispatched through the root manager |
| `Lock`, `Unlock` | `Spinlock::lock` and `unlock` |
| `SearchFinds`, `SearchFails` | the loop over the manager's list |
| `NewMemRep`, `NewRep`, `Construct` | `new T` of memAllocator (from `lrt::mem`) and of any other Ebb (two nested calls of memAllocator) |
| `BindRef`, `NewNode`, `Insert` | the entry is bound, then the node allocated, then inserted |
| `PreCallReturn`, `CallFunction`, `Return` | the altstack pushes and pops of `precall`, `defaultFunc` and `postcall` |

`Junk` is the set of values that the uninitialised `Node::location` can read as: the
choice is made when the node is inserted and stays, as memory does. With a core in
`Junk`, that core can find another's representative; `EbbCache` allows it for exactly
these cores (`Confusable`) and for nobody else.

### AppStart

`AppStart` extends `EbbDispatch` and replaces its initial state by what boot leaves: no
manager known, nothing constructed. `ctor[c]` is the place of core c in the table of
constructors (`Constructors`, in the order that `link.ld` and the init priorities give);
its last step is the call of `allocator->alloc()`, an Ebb call that goes through all of
`EbbDispatch`'s actions. `le`, `ge` and `words` are the local entries the Ebb objects
hold, the global table, and the memory around the `RootManager` by word offset.

| Action | Code |
|---|---|
| `Start` | `boot::initCpu` enters `app::start` |
| `ConstructManager`, `ConstructRooted`, `ReadManager`, `StoreManager`, `ConstructAllocator` | the global constructors; `memAllocator`'s reads its manager and stores it in two steps, the rest store the same each time |
| `PrecallFound`, `PrecallWild` | `precall` with the manager the tables give, or through a null pointer (`wild`: the behaviour ends, nothing is said of what follows) |
| `InsertRead`, `InsertWrite` | the two halves of a list insertion, apart because a constructor may have released the lock |
| `ConstructRep`, `ServeAlloc`, `ServeFree` | `SimpleEbbAllocator`: construction, `alloc`, `free`; a `free` of an entry in front of the core's share never returns, one behind its vector writes there (`wild`) |
| `CallAlloc`, `ClientAlloc`, `CallFree` | the call of `alloc` in `app::start`; `alloc` again, and `free` of any entry that some core has ever got, by the application, at any time and as often as it likes |
| `Clobber` | the rest of the constructor's zeroing, while another core is in the same `memalign` or has its own memory behind the buffer (`wild`) |
| `Dispatch` | everything else as in `EbbDispatch` |

What survives the second run of the constructors and what does not: `MutualExclusion` and
`ListComplete` of `EbbDispatch` fail here, as an unlocked lock lets a second core in
and one of two insertions can be lost. What callers rely on survives, because a core
only ever binds its own entries: this is `AppCacheSpec`. Location 0 is among the
confusable cores, as the constructor of `SimpleEbbAllocator` zeroes eight times its vector's
bytes and with them the `location` of the node allocated next; so core 0 can find
another core's allocator, and be handed an entry that is reserved (`EntriesApart`
says so).

The loop zeroes as many words as the vector has bytes. When a core's memAllocator is its
own, what lies behind the vector is that core's memory, which nothing has been put into yet
but what the same constructor allocates later; section 8 says what that takes for granted.
When the core shares another's representative of memAllocator (`MemShared`), or another core
is in its `memalign` at that moment (`InMemalign`), the loop can clear what has been given
to somebody else, a representative or a pointer to a vtable included. `Clobber` is that
case, and it ends the behaviour.

`alloc` does not mark what it returns and `free` adds the number of the bit instead of the
bit. So a core that calls `alloc` twice gets the same entry twice: `got[c]` never has two
members in any state of the run, and nothing in the repository says that it should. What
`EntriesApart` says is that no two cores ever get the same entry, over the whole history,
whoever frees whose entries and however often.

`app.c++:43-44` does not compile as written (a declaration is missing); the model takes
it as it is evidently meant.

### DefaultFunc

One core; `stack` holds the words at and above `rsp`, a value is a tuple naming where it
came from, so "the third argument of the caller at level 2" is `<<"arg", 2, r>>`. The
actions follow the instructions of the stub and of `defaultFuncCommon` in groups between C++
calls; C++ code overwrites every register it may change and everything below its own frame,
and may make Ebb calls of its own. Every call of a C++ function is a point of its own;
`Park` is that of `altstackPop` after the function has returned, the one place where a C++
function is entered with `rsp` 8 off (`defaultFunc.S:99-101` pushes `rax` first).
`FrameAligned` names the places that are aligned and leaves this one out. Three remarks that
the model made plain and that change nothing at this commit: `Args::ret` is at offset 576
while the return address is at 584 (nothing reads the field); `.Lfail` takes the frame down
by 8 bytes more than it has (no manager refuses); `.Llp0` pops the return address and leaves
the manager on the altstack (nothing throws).

### RecSpinlock and Gthread

`RecSpinlock` has one action per critical step: taking the inner lock, the body of `trylock`
or `unlock`, giving the inner lock back. `held` and `holds` count what the clients were
told, as history. `MYLOC` is 0 on every core, as in the code. Clients unlock only what they
hold. The return of `trylock` at the recursion limit (`gthread.cpp:171`) leaves with the
inner lock taken (`Abandoned`), and from then on every operation on the mutex spins.
`InnerGivenBack` says that whoever takes the inner lock gives it back or has met the limit,
and that nothing else abandons it.

`Gthread` puts `once`, the mutex and the keys next to each other and lets every core
call them in any order. `begun` and `ended` (runs of `once`'s function), `holders` (of
the mutex) and `keys` (what was stored under each key) are history; `Beyond` is the
word behind `key_array`. `lib/newlib/lock.cpp` has the same plain lock.

### Acpi, IrqSetup, PageTables, Boot

`Acpi` computes over a firmware record: the places where the RSDP may be, the SDTs,
the MADT as a function from offsets to entries, so that the walk by entry lengths is the
code's. `IrqSetup` takes the stores to ports and registers one by one: an I/O APIC has
its index register and its table, read and written through the window. A port write
goes where the arguments send it, and `outb`'s are swapped at two callers.

In `PageTables` a frame or table is named by what it is for and by its owner (`Shared`
or a core). Steps are the stores to live tables; the private page of a core is filled
through its virtual address, so it matters when `setPml4` comes.

`Boot` strings them together in the order of `boot::init` and adds the hand-off:
`TakeLocation` reads `smpLock`, `AllocStacks`, `SwitchStack`, then `Publish` stores it.
`StartProcessor` is external: nothing in the repository starts a second processor, but
`smpLock` and the stack hand-off are there for it, and it may happen at any time after
`smpLock` allows it, or never.

### Console and Newlib

`Console` has the registers of the 16550 the driver uses, with the divisor latch that
covers the data and interrupt registers; `GetInstance` reads the guard, `Construct` is one
store of the constructor at a time, `Poll` and `Store` the two halves of `write(char)`,
`Transmit` the device. The boot core starts inside `getInstance` for its banner; other
cores run only after that. A byte is named by its writer and number, so a lost or a
reordered byte shows.

`Newlib` adds the system calls. In `sbrk` nothing keeps cores apart (the recursive lock that
newlib takes does not, finding 1), so any core may be in it at any moment: `SbrkTest` reads
the break and tests the sum, which is an int's (`Int32`); `SbrkStore` stores it and returns;
`SbrkRefused` goes on to `getreent` for errno. The test and the increment read the break
once, as at the default `-O2`. `held` is the blocks handed out. `met` and `wrapped` are
history: two cores have been in `sbrk` at once, a sum has left the range of int.
`HeapBlocksApart` says how far `sbrk` can be relied upon: blocks are inside the array until
`wrapped`, even when cores meet, and apart until they have met. `ReadInit`, `InitReent`,
`SetInit` are `getreent`'s test, initialisation and store of the flag; a core that saw the
flag clear may initialise the structure again while others use it.

## 3. Runs

| Run | Shows | Distinct states |
|---|---|---|
| `SimpleMemAllocator` | blocks of all cores and both allocators are disjoint until an assertion is reported, aligned, and never more than the table's size past the RAM; the two allocators behave as one bump pointer per core (`Heap`) | 213 376 |
| `EbbDispatch` | exclusion, no self-deadlock, one construction, binding to constructed representatives, a complete list, an exact altstack, every call returns, `EbbCache` implemented | 208 938 |
| `DefaultFunc` | the function finds the caller's registers and stack arguments, control returns to the caller with the result, frames and C++ entries but `altstackPop`'s are aligned | 1 462 |
| `RecSpinlock` | exclusion inside, exact count, the inner lock comes back unless the recursion limit has been met, which the run reaches | 14 938 |
| `RecSpinlockOwner` | *violation*: two cores hold the mutex at once | |
| `Gthread` | `once` runs its function once and nobody returns before; one holder of the mutex; keys keep their values, nothing behind the array is written; calls of `once` return; the mutex does not die | 90 924 |
| `Boot` | every I/O APIC entry is masked, and masked before it is changed otherwise; no other register is touched; page tables keep the shared map and keep private pages private; locations are unique and within the tables; one core at a time on the boot stack; a core that reaches the application is prepared, and all get there | 1 702 |
| `IrqSetupLegacy` | *violation*: RTC and 8259s are not masked after the code that masks them | |
| `IrqSetupLapic` | *violation*: the local APIC's enable bit is not set by `Lapic::enable` | |
| `AppStart` | the root manager's table keeps what is stored in it and spares its neighbour, entries got by different cores differ for ever, Ebb calls still implement `EbbCache` while constructors run again, every core that starts gets its entry unless memory in use has been cleared | 20 697 |
| `AppStartManagers` | *violation*: an Ebb's manager is not known once the constructors have run | |
| `Newlib` | nothing is sent before the port is configured, bytes come in order and a single writer loses none, `sbrk`'s blocks are inside the array until a sum wraps and apart until cores meet in it, nobody gets the structure before it is made | 3 889 285 |

The violations are code bugs (section 7). The type invariants, and those properties of
`EbbDispatch` that the proofs give for every instance (`NestingBounded`, `OwnRep`,
`RefStable`), are left to TLAPS and are in no run. Every
property of a passing run has a mutant in `PROJECT.json`: a change of one definition,
of the kind a programmer could make, under which TLC finds the property violated. The
mutant definitions stand next to the ones they change and are used by nothing else.

`CHECK_DEADLOCK FALSE` is set where the system really stops: at the bound of blocks, at the
end of booting, when the application's cores have all they ask for or the system has gone
wild, when every core is in a call that spins, and when the recursion limit has killed the
mutex.

## 4. Bounds and why they are enough

- **SimpleMemAllocator.** Three cores, so that a region has two neighbours; memory starts at
  5 and a region has 51 bytes, so that regions start at odd addresses and aligning always
  costs; requests of 8 and 3 bytes and 16 bytes at a boundary of 16. With `MaxBlocks` = 5
  one core can overflow its region after two or three blocks and another can allocate on
  both sides of it.
- **EbbDispatch.** Two cores race; three Ebbs are the one that allocates and two that need
  it, so that two cores can hold different managers' locks and both wait for memAllocator's;
  `Junk` has a core and a value that is no core. `Depth` = 3 is what the theorem
  `NestsTwice` says is ever used, so the guard `k + 1 \in Levels` never restricts.
- **AppStart.** Two cores: one runs the constructors while the other is anywhere in what
  follows them. `Junk` is location 0, which the zeroed node reads as anyway, and a location
  nobody has. `NLocalEntries` is the code's 131072 (2 MB of entries of 16 bytes): the
  shares, the words of the bit vectors and the indices are the real ones. (Three cores take
  TLC longer than five minutes.)
- **Newlib.** Two cores, a banner and strings of up to two bytes; a heap of 4 bytes, ints
  from -8 to 7, and increments -1, 0, 2 and 7, so that requests fit exactly, are refused at
  the last byte, are given back in part, and wrap when the break is not 0. Two blocks are
  enough for an overlap. The bound `MaxBlocks` stands in the guard of `SbrkTest`. The
  firmware leaves the line control register and the interrupt register in two states each,
  the divisor latch closed.
- **DefaultFunc.** The first slot, the last, and one in the middle; nesting of three.
- **RecSpinlock.** Three cores that hold the mutex up to `MaxHeld` = 3 times each, against a
  `MaxCount` of 4, which stands for INT16_MAX: the limit is reached by one core's holds
  together with another's, by `trylock` and by `lock`.
- **Gthread.** Three cores, two slots, three creations: one more than there are slots.
- **Boot.** Three firmwares: three enabled processors mixed with disabled ones, an override
  and two I/O APICs behind the XSDT; one processor and one I/O APIC, the RSDP in the EBDA
  and the XSDT above 4 GB; two processors and no I/O APIC, no XSDT. The two I/O APICs have
  tables of one and of two entries. Three cores start one after another, with one still in
  `trans::initCpu` while the next one starts.

## 5. Fairness

Fairness is weak everywhere but in one place: a core inside an operation keeps
executing, because nothing preempts a core (interrupts are off) and a core that runs
does not halt. Which spinning core wins a lock is left open: spinlocks here have no queue.

- `EbbDispatch`: weak fairness of each core's next step. A core takes the lock of a
  manager once in its life, so `CallCompletes` holds without any fairness of the lock.
- `RecSpinlock`, `Gthread`: weak fairness of steps inside operations, none of starting
  one. `Gthread` adds strong fairness of `Unlock`: a core that holds the mutex gives it back in
  the end, whatever else it does meanwhile. This is the client's duty and not the code's.
  `NeverDead` says that somebody gets the mutex, not that everybody does: that would be false.
- `Boot`: weak fairness of the boot core and of each started core; none of
  `StartProcessor`.
- `AppStart`: weak fairness of a core that has entered `app::start`; none of `Start`
  and of the application's later calls of `alloc` and `free`.
- `Newlib`: none; its properties are safety properties.

## 6. Proofs

The theorems hold for all values of the constants that satisfy the named assumptions
in the modules; TLC evaluates those in every run. The argument is always the
same: an inductive invariant `IInv` with `Init => IInv` and `IInv /\ [Next]_vars => IInv'`
(lemma `StepIInv`, one step per action), theorem `Invariance`, and the properties from it.

**Memory** (`SimpleMemAllocatorProofs`): `TypeCorrect`, `NoOverlap`,
`Aligned`, `Overshoot`, for any number of cores, any RAM and any requests, and `Refinement`: the two
allocators with their two copies of the pointer implement `Heap`, whose cores have one each.
`BlocksDisjoint` alone is not inductive: it needs that a region's end is never moved in
the copy that counts (`RegionsKept`), that the pointer in use is inside the region
(`UsedInRegion`; false after an assertion, hence `~asserted`) and that every block lies below it
(`BlocksBelowUsed`). `BumpKeepsApart` states once why moving a pointer up keeps
blocks apart; all allocating actions are instances of it (`StepIsBump`). `RegionsOrdered`
gives the disjointness of regions from the arithmetic of the cut.

**Dispatch** (`EbbDispatchProofs`): type correctness, `NestsTwice`, all safety properties of
the run, and `Refinement` to `EbbCache`, for any cores, any Ebbs and any junk. `StackShape`
says what a core's stack can look like (a dispatch, the dispatch of memAllocator it caused,
a direct call); `EntryFollowsDispatch` ties the entry to the label of the activation that
binds it: this is what rules out a second dispatch of the same Ebb inside the first, and
with it the self-deadlock. `HolderLocks` makes exclusion inductive, `BuiltKept` says that a
core has constructed a representative just when its entry is bound or about to be.

On top of that invariant the same module proves `AltstackIsExact` and
`ListIsComplete`. The altstack is the concatenation of what three levels have saved; a
push or a pop is always of the topmost level, for the levels above it have saved nothing
(`TopLevel`), and `ViaRootKnown` says that a return through the root manager was made with
a push. For the lists, `ListInv` says that a representative is either on its way
(`Pending`: made, its node not inserted) or listed, never both, and listed once; whoever is
on the way holds the lock (`PendingLocked`), so with the lock free nothing is on the way.

**Application start** (`AppStartProofs`): `RootTableKept`, `EntriesDiffer`,
`StartBuildsOnce` and `AppRefinement`, for any number of cores that run the constructors
again while others are in the middle of dispatch. `AppInv` takes over the parts of
`EbbDispatch`'s invariant that do not speak of locks (`Parts`; those about locks are false
here), and has one part for each thing that is new: `NextInv` (what an insertion will put
its node in front of, read before others inserted), `RootInv` (the word a manager's entry
leads to holds its Ebb), `BitsInv` (the three values an allocator's bits can have, in spite
of `alloc` and `free`), `EntryInv` (an entry ever given out is the first of the core's
share, or the fourth behind it). `ServedBy` and `IndexOf` say which entries a core's
allocator can return, and that a `free` which comes back has been given one of the core's
own. The steps that are `EbbDispatch`'s own are proved by its lemmas.

**DefaultFunc** (`DefaultFuncProofs`): `FunctionSeesCall`, `CallerGoesOn` and
`FramesAligned`, for each of the 256 slots and any depth of calls in calls; a model checker
sees three. `FuncInv` says of every call under way where its frame lies and which of its
words are still needed (`FrameInv`), what its dispatch has on the altstack (`AltOf`), and that
the next call's frame and altstack begin where its own end (`LinkInv`, `ApartInv`). A step
of the innermost call writes only below the words of the calls around it; `TopMoves` says so
once for all of them. The 64 bytes of pushes and their pops are related by `PushRegsIs`.

**RecSpinlock** (`RecSpinlockProofs`): `InnerLockExcludes`, `CountIsExact`, and
`AbandonedAtLimit`: only at the recursion limit does anybody leave with the inner lock
taken. `PendingExact` relates `count` and the clients' holds in the middle of an operation.

**Gthread** (`GthreadProofs`): `TypeCorrect`, `OnceIsOnce`, `MutexExcludes`,
`KeysKeepValues`. `Control` says which values of the control go with which cores' places,
`Indexes` that a fetched index belongs to one core and one key.

**Boot** (`BootProofs`): all safety properties of the run, for any firmware whose MADT is
well formed, any I/O APICs with tables of any size, and any number of cores.

- *The walks over the MADT* (`FindIsExact`, `CoresCounted`, `IoApicsCounted`, `IoApicsListed`):
  what `Madt::find`, `getNCores` and the `Apic` constructor compute for every table. They are
  recursive functions, so the proof has to show both that the function with the expected
  values solves the equation and that nothing else does. The second is the induction: of
  the offsets at which another solution would differ, the one nearest to the end
  (`LeastNatural`, from the well-founded order of the naturals) depends only on those
  where both agree.
- *The hand-off* (`BootStackIsOwned`, `LocationsAreExact`). `SmpInv` says of
  each core that while it is on its way `smpLock` is the location before its own, and that
  smpLock has passed it when it has published; so no two cores are on their way at once.
  That the locations lie inside what was cut follows from `CoresCounted`.
- *The interrupt controllers* (`IrqsDisabled`, `MaskedFirst`, `TablesOnly`). `IrqInv` says how
  far the two nested loops have got: the I/O APICs before `i` and the entries before `j` are
  masked, and between two stores the index register is where the next one needs it.
- *The page tables* (`SharedStaysMapped`, `LocalIsPrivate`). `TransInv` has the entries of the
  shared tables for each place of `initArch` (`SharedTables`) and those of a core's own for
  each place of `initCpu`; a core has only ever written its own.
- *What a core has when it enters the application* (`CoresArePrepared`): `ReadyInv`, which
  puts the other three side by side.

**Newlib** (`NewlibProofs`): `SbrkBlocksApart`, `ReentInitialised`, `ConsoleConfigured`,
`ConsoleExact`. `HeapBlocksApart` alone is not inductive. `InArray` has the break and what
each core in `sbrk` has read and is about to store between 0 and `heap_size`, which is all
that survives a race; `InOrder` has, until cores meet, the blocks in order below the break
and at most one core in `sbrk`, with the present break in its hand. For the console,
`ConInv` says what the port's registers hold after each write of the constructor (`Making`)
and that nobody is in it any more once the guard is set (`Made`), and relates the bytes on
the line to those written (`OnLine`: the sent ones and the one in the transmitter are in
each core's order, none twice; `NoneLost`: with a single writer, all of them are there).

**Assumptions.** Beyond the types of the constants, the theorems rest on these:

- `FirmwareAssumption`: there is a MADT, its entries lie one behind the other up to its
  length (`WellFormed`: no length is 0, none leads past the end), and its I/O APICs are those of the
  machine. This is what the ACPI specification asks of firmware, and the code's loops end
  on no other. The walks' theorems have `WellFormed` as a hypothesis of their own.
- `MaxRedAssumption`, `LapicAssumption`, `CmosAssumption`: what the registers of the devices
  can read as.
- `AbsentAssumption`, `SharedAssumption`, `NoEntryAssumption`, and `Empty \notin Cores \X Nat` in
  `ConsoleAssumption`: a value that stands for nothing is not one of the others. These are about
  the model's names only.
- `AppCoresAssumption`, `EntriesAssumption`: locations are numbered from 0, there is at least
  one, and a core's share of the entries is larger than the four reserved ones
  (`EbbAllocator`'s share is the table's size by the number of cores).
- `ZeroAssumption`: uninitialised memory may read as 0. It only allows more behaviours.

**Only model-checked.** The six liveness properties (`CallCompletes`, `InnerGivenBack`,
`OnceReturns`, `NeverDead`, `BootCompletes`, `AllocReturns`): TLAPS has no support for
ENABLED and fairness here. Every invariant and every action property of the runs has a
theorem. Of `Acpi`, the searches for the RSDP and the tables before the MADT are checked on
the firmwares of section 4 and no theorem says what they find; the theorems start from the
MADT.

## 7. Findings

1. **Two cores hold a recursive mutex** (`lib/gthread/gthread.cpp:151,168`). `MYLOC` is 0 on
   every core; the comment there says FIXME. Run `RecSpinlockOwner`.
2. **RTC and 8259s are not masked** (`arch/x86_64/apic.c++:40`, `rtc.h:54-64`). `outb` takes
   the value first, the callers give the port first. Run `IrqSetupLegacy`.
3. **The local APIC is not enabled** (`arch/x86_64/apic.c++:128`). The address is masked
   with the complement of what it should be. Run `IrqSetupLapic`.
4. **memAllocator may have no manager** (`ebb/MemAllocator/SimpleMemAllocator.c++:35`). Its
   constructor copies `memAllocatorManagerEbb` before that is constructed, as the
   priorities order the two; the first core's first allocation goes through a null
   manager. Run `AppStartManagers`.

Others were met on the way. No document, comment or test says otherwise of them, so they have no run
of their own; the models have them, and the properties are stated up to them:

- The return of `trylock` at the recursion limit (`lib/gthread/gthread.cpp:171`) does not
  release the inner lock, all the others do: the mutex is dead for everyone (`Abandoned`).
- `altstackPop` is called with a stack pointer 8 off a multiple of 16
  (`lrt/arch/x86_64/defaultFunc.S:99-101`). It works as long as the compiler needs no
  aligned stack there (`Park`).
- `alloc` marks nothing (`ebb/EbbAllocator/SimpleEbbAllocator.c++:69-72`): a core gets the
  same entry on every call. `free` adds the number of a bit instead of the bit, and spins
  for ever on an entry in front of the core's share (lines 82-85).
- The constructor of `SimpleEbbAllocator` zeroes eight times too much (lines 45-50), which
  can clear another core's memory when the two share a representative of memAllocator
  (`Clobber`).
- Two cores in `sbrk` at once get the same block (`lib/newlib/syscalls.cpp:160`), and an
  increment that makes the int sum wrap is accepted.
- `lrtAssert` only prints, so `memalign` hands out what it asserts it does not have
  (`lrt/mem.c++:47`), which is why `BlocksDisjoint` holds only until an assertion is
  reported.

## 8. Assumptions and omissions

- Loads and stores happen in source order and are seen by all cores at once. MMIO
  fields are not volatile in the code; what a compiler may do with them is outside.
- `EbbDispatch` starts from the global table and the rooted managers as they are meant to
  be; `AppStart` from what boot leaves, with the constructors as they are.
- Allocations inside dispatch succeed; the allocator's refusal is in `SimpleMemAllocator`,
  and nobody checks for it. The contents of blocks are not modelled.
- In `EbbDispatch` the root manager's own table is a function of the entry; `AppStart` has
  it word by word, with the index in bytes that comes to zero or less.
- `AppStart` leaves out `__register_frame`, which only the C++ runtime reads.
- A call through a null manager ends the behaviour (`wild`): what the code at address 0 does
  is outside.
- `initCpuArch` stores into `physLocalEntries`, which nothing allocates; nothing reads it,
  and what lies at the addresses it hits is not modelled.
- The region of a core has room behind the bit vector of its EbbAllocator for what the
  constructor zeroes, and for what is allocated after it: with less, the loop runs into the next
  core's region.
- The firmware leaves the divisor latch closed, as the device has it after a reset. With the
  latch open, `disable interrupts` (`lrt/uart.c++:61`) would go into the divisor and be
  overwritten, and the interrupts would stay as they were.
- `mem::init` asserts that multiboot has told the size of the memory
  (`lrt/arch/x86_64/mem.c++:31`) and goes on if not; `LrtMem` starts from a known size.
- `PageTables` stores an entry (`present`, `rw`, `base`) in one step. The code writes the bits
  one by one, `present` first, into tables that are live; no address that goes through a
  half-made entry is used by the code meanwhile, and no core but the one that writes can see it: the
  tables are the boot core's alone until other cores start, or the core's own copies.
- `Gthread` makes the two stores of `key_create` (the key, line 85; NULL in its slot, line
  86) one step: a caller has the key only when `key_create` has returned, and the slot
  is nobody else's. `key_index` is an `int` that is incremented by failing calls too; the
  2^31 calls that would make it negative are beyond `MaxCreates`.
- newlib's malloc gives back at most its last block, and only when that ends at the break.
  Nothing is said of calls of `sbrk` after a sum has wrapped.

**Not modelled**, with the reasons:

- *Exceptions through `defaultFunc`* (`.Llp0`): nothing throws through an Ebb at this
  commit, and no document says what should happen.
- *A manager that refuses a call* (`.Lfail`): none does. (Reading it shows that it takes the
  frame down by 8 bytes more than it has and tests all of `rax` for a bool.)
- *The 32-bit entry code* beyond its page tables: straight-line code that nothing can
  interleave with.
- *ACPI's SRAT* and core infos: their users are commented out.
- *The list headers* (`sync/nblist.h`, `sync/TaggedPointer.h`): used nowhere.

## 9. Plan

Done: every component of the inventory but the headers nothing uses; every invariant and
action property of the runs proved. What could still be added:

1. Proofs: that the search of the RSDP finds the first valid one, for any memory.
2. The failing `preCall` and the landing pad of `defaultFunc`, should a manager come to use them.
3. A start of second processors, should the repository come to have one: `StartProcessor`
   is the place.
