-------------------------------- MODULE Boot --------------------------------
(***************************************************************************)
(* From the entry of boot::init to app::start, on every core.  The boot    *)
(* core initialises the subsystems in turn (boot.c++): memory, translation *)
(* (PageTables), interrupts (the IDT here, the devices in IrqSetup), SMP.  *)
(* Then it, and every core started after it, runs event::initCpuArch: it   *)
(* loads the IDT, takes the next location, gets a stack and an altstack of *)
(* its own, leaves the boot stack, and sets up its translation.            *)
(*                                                                         *)
(* The code says by smpLock, which is stored when the boot stack is free,  *)
(* when the next core may start; the part that would start it is not       *)
(* there, so here a core may start as soon as smpLock says so, or never.   *)
(* A processor is named by the order in which it is started.               *)
(***************************************************************************)
EXTENDS IrqSetup, PageTables

ASSUME CoresAssumption ==
  /\ Cardinality(Cores) \in Nat \ {0}
  /\ Cores = 0 .. Cardinality(Cores) - 1
  /\ \A f \in Firmwares : Cardinality(EnabledLapics(Acpi(f))) \in 1 .. Cardinality(Cores)

VARIABLES
  bootPc,    \* where boot::init is
  nCores,    \* event::getNCores, kept from the first call
  idt,       \* idt[v]: the gate of vector v
  altstack,  \* altstack[loc]: whose stack the entry points to, or Absent
  smpLock,   \* the last location that is off the boot stack
  cpuPc,     \* cpuPc[p]: where processor p is in event::initCpuArch, initCpu
  location,  \* location[p]: what the FS register of p leads to
  rsp        \* rsp[p]: the stack p is on: Shared, the boot stack, or a location's

bootVars == <<bootPc, nCores, idt, altstack, smpLock>>
cpuVars == <<cpuPc, location, rsp>>
vars == <<irqVars, transVars, bootVars, cpuVars>>

Vectors == 0 .. 255

\* The stub of vector v: a jump to itself, the stubs 8 bytes apart.
exception(v) == 1048576 + 8 * v

\* exceptionTable[v] is the stub of that number.
exceptionTable == [v \in Vectors |-> exception(v)]

NoGate == [p |-> 0, type |-> 0, selector |-> 0, offset_low |-> 0, offset_high |-> 0]

\* IdtDesc::set(0x8, addr): an interrupt gate into the code segment.
IdtGate(addr) == [p |-> 1, type |-> 14, selector |-> 8,
                  offset_low |-> addr % 65536, offset_high |-> addr \div 65536]

\* Where the processor goes through a gate.
Target(gate) == gate.offset_low + 65536 * gate.offset_high

Init ==
  /\ IrqInit
  /\ TransInit
  /\ bootPc = "mem"
  /\ nCores = 0
  /\ idt = [v \in Vectors |-> NoGate]
  /\ altstack = << >>
  /\ smpLock = 0
  /\ cpuPc = [p \in Cores |-> "off"]
  /\ location = [p \in Cores |-> 0]
  /\ rsp = [p \in Cores |-> Shared]

-----------------------------------------------------------------------------
\* getNCores asks the ACPI tables; mem::init cuts a region for each core.
InitMem ==
  /\ bootPc = "mem"
  /\ nCores' = getNCores(Acpi(firmware))
  /\ bootPc' = "trans"
  /\ UNCHANGED <<irqVars, transVars, idt, altstack, smpLock, cpuVars>>

\* trans::init.
InitTrans ==
  /\ bootPc = "trans"
  /\ ArchPdir \/ ArchPdpt \/ ArchPml4
  /\ bootPc' = IF archPc' = "done" THEN "idt" ELSE "trans"
  /\ UNCHANGED <<irqVars, nCores, idt, altstack, smpLock, cpuVars>>

\* event::init fills the IDT ...
FillIdt ==
  /\ bootPc = "idt"
  /\ idt' = [v \in Vectors |-> IdtGate(exceptionTable[v])]
  /\ bootPc' = "irq"
  /\ UNCHANGED <<irqVars, transVars, nCores, altstack, smpLock, cpuVars>>

\* ... silences the devices ...
SilenceIrqs ==
  /\ bootPc = "irq"
  /\ EventInitArch
  /\ UNCHANGED <<transVars, bootVars, cpuVars>>

\* ... and allocates a pointer per core for the altstacks.
AllocAltstack ==
  /\ bootPc = "irq"
  /\ irqPc = "lapic"
  /\ altstack' = [loc \in 0 .. nCores - 1 |-> Absent]
  /\ bootPc' = "smp"
  /\ UNCHANGED <<irqVars, transVars, nCores, idt, smpLock, cpuVars>>

\* boot::initSmp, after which the boot core goes on to event::initCpu.
InitSmp ==
  /\ bootPc = "smp"
  /\ smpLock' = -1
  /\ EnableBootLapic
  /\ bootPc' = "done"
  /\ cpuPc' = [cpuPc EXCEPT ![0] = "entry"]
  /\ UNCHANGED <<transVars, nCores, idt, altstack, location, rsp>>

\* Some code that is not in the repository starts the next enabled processor
\* on the boot stack.
StartProcessor(p) ==
  /\ bootPc = "done"
  /\ cpuPc[p] = "off"
  /\ p < Cardinality(EnabledLapics(Acpi(firmware)))
  /\ smpLock = p - 1
  /\ cpuPc' = [cpuPc EXCEPT ![p] = "entry"]
  /\ UNCHANGED <<irqVars, transVars, bootVars, location, rsp>>

\* lidt; the location is one more than smpLock, and is kept behind FS.
TakeLocation(p) ==
  /\ cpuPc[p] = "entry"
  /\ location' = [location EXCEPT ![p] = smpLock + 1]
  /\ cpuPc' = [cpuPc EXCEPT ![p] = "lapic"]
  /\ UNCHANGED <<irqVars, transVars, bootVars, rsp>>

\* The local APIC, unless initSmp has enabled it.
EnableOwnLapic(p) ==
  /\ cpuPc[p] = "lapic"
  /\ IF location[p] # 0 THEN EnableLapic(location[p]) ELSE UNCHANGED lapicOn
  /\ cpuPc' = [cpuPc EXCEPT ![p] = "stacks"]
  /\ UNCHANGED <<apicVars, ports, ioRegSel, regs, irqPc, i, j, transVars, bootVars,
                 location, rsp>>

\* The core's stack and altstack are allocated from its own region.
AllocStacks(p) ==
  /\ cpuPc[p] = "stacks"
  /\ altstack' = [altstack EXCEPT ![location[p]] = location[p]]
  /\ cpuPc' = [cpuPc EXCEPT ![p] = "switch"]
  /\ UNCHANGED <<irqVars, transVars, bootPc, nCores, idt, smpLock, location, rsp>>

\* Mutant of SwitchStack: smpLock is stored while the core is on the boot stack.
SwitchStackLate(p) ==
  /\ cpuPc[p] = "switch"
  /\ smpLock' = location[p]
  /\ cpuPc' = [cpuPc EXCEPT ![p] = "publish"]
  /\ UNCHANGED <<irqVars, transVars, bootPc, nCores, idt, altstack, location, rsp>>

\* mov stack, rsp.
SwitchStack(p) ==
  /\ cpuPc[p] = "switch"
  /\ rsp' = [rsp EXCEPT ![p] = location[p]]
  /\ cpuPc' = [cpuPc EXCEPT ![p] = "publish"]
  /\ UNCHANGED <<irqVars, transVars, bootVars, location>>

\* mov val, smpLock; then boot::initCpu.
Publish(p) ==
  /\ cpuPc[p] = "publish"
  /\ smpLock' = location[p]
  /\ cpuPc' = [cpuPc EXCEPT ![p] = "trans"]
  /\ UNCHANGED <<irqVars, transVars, bootPc, nCores, idt, altstack, location, rsp>>

\* trans::initCpu, and app::start behind it.
InitCpuTrans(p) ==
  /\ cpuPc[p] = "trans"
  /\ CpuStep(location[p])
  /\ cpuPc' = [cpuPc EXCEPT ![p] = IF transPc'[location[p]] = "start" THEN "app" ELSE @]
  /\ UNCHANGED <<irqVars, bootVars, location, rsp>>

BootStep ==
  \/ InitMem
  \/ InitTrans
  \/ FillIdt
  \/ SilenceIrqs
  \/ AllocAltstack
  \/ InitSmp

Cpu(p) ==
  \/ TakeLocation(p)
  \/ EnableOwnLapic(p)
  \/ AllocStacks(p)
  \/ SwitchStack(p)
  \/ Publish(p)
  \/ InitCpuTrans(p)

Next ==
  \/ BootStep
  \/ \E p \in Cores : StartProcessor(p) \/ Cpu(p)

\* A processor that runs goes on running.
Fairness == WF_vars(BootStep) /\ \A p \in Cores : WF_vars(Cpu(p))

Spec == Init /\ [][Next]_vars /\ Fairness

-----------------------------------------------------------------------------
\* Cores that hold a location: past the load of smpLock.
Located == {p \in Cores : cpuPc[p] \notin {"off", "entry"}}

\* No two cores ever take the same location from smpLock, and each is below the
\* number of cores that memory and altstacks were cut for: the walk that counts
\* the cores finds every processor that can be started.
LocationsExact ==
  \A p \in Located : /\ location[p] \in 0 .. nCores - 1
                     /\ \A q \in Located : location[p] = location[q] => p = q

\* At most one core at a time is on the boot stack.
OneOnBootStack ==
  \A p, q \in Cores :
    /\ cpuPc[p] # "off" /\ rsp[p] = Shared
    /\ cpuPc[q] # "off" /\ rsp[q] = Shared
    => p = q

\* A core that reaches the application runs on its own stack, has its own
\* altstack, finds in its own memory the default entries it has written there
\* itself, and every exception vector leads to the stub of that number.
AppPrepared ==
  /\ LocalFilled
  /\ \A p \in Cores : cpuPc[p] = "app" =>
       /\ rsp[p] = location[p] /\ altstack[location[p]] = location[p]
       /\ filled[LocalFrame(location[p])] = {location[p]}
       /\ \A v \in Vectors : idt[v].p = 1 /\ Target(idt[v]) = exception(v)

\* The boot core, and every core that is started, gets to the application.
BootCompletes ==
  /\ <>(cpuPc[0] = "app")
  /\ \A p \in Cores : cpuPc[p] = "entry" ~> cpuPc[p] = "app"
=============================================================================
