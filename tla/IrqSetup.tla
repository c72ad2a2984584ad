------------------------------ MODULE IrqSetup ------------------------------
(***************************************************************************)
(* How the boot core silences the interrupt sources before it has any      *)
(* handler but endless loops: event::initArch calls disablePit (pit.h),    *)
(* disableRtc (rtc.h), constructs the Apic (apic.c++), which means to mask *)
(* the two 8259s, and disables every redirection entry of every I/O APIC;  *)
(* boot::initSmp then enables the core's local APIC.                       *)
(*                                                                         *)
(* Devices are modelled as far as this code uses them: the ports of the    *)
(* PIT, the CMOS and the 8259s, the index and data window of an I/O APIC   *)
(* and the local APIC's enable bit.  What firmware left in them is         *)
(* arbitrary.                                                              *)
(***************************************************************************)
EXTENDS Acpi, Integers, SequencesExt

CONSTANTS
  Firmwares,    \* the ACPI tables the machine may have
  MaxRedEntry,  \* MaxRedEntry[a]: the last entry of the I/O APIC at address a
  CmosValues,   \* what the CMOS registers may hold
  LapicBase     \* the page aligned address in MSR_APIC_BASE

ASSUME FirmwareAssumption ==
  \A f \in Firmwares : /\ Acpi(f) # Null
                       /\ WellFormed(Acpi(f))
                       /\ IoApicAddresses(Acpi(f)) \subseteq DOMAIN MaxRedEntry
ASSUME MaxRedAssumption == \A a \in DOMAIN MaxRedEntry : MaxRedEntry[a] \in Nat
ASSUME CmosAssumption == CmosValues \subseteq 0 .. 255
ASSUME LapicAssumption == LapicBase \in Nat /\ LapicBase >= 4096

VARIABLES
  firmware,  \* the tables in memory
  nIoApics,  \* Apic::nIoApics
  ioApics,   \* Apic::ioApics: the address of each I/O APIC
  ports,     \* the devices behind I/O ports
  ioRegSel,  \* ioRegSel[a]: the index register of I/O APIC a
  regs,      \* regs[a]: the registers of I/O APIC a
  lapicOn,   \* the locations whose local APIC has its software enable bit set
  irqPc,     \* where event::initArch and boot::initSmp are
  i, j       \* the local variables of Apic::disableIrqs

apicVars == <<firmware, nIoApics, ioApics>>
irqVars == <<firmware, nIoApics, ioApics, ports, ioRegSel, regs, lapicOn, irqPc, i, j>>

\* The I/O APICs of the machine, by their addresses.
IoApics == DOMAIN MaxRedEntry

IO_APIC_VER == 1
IO_APIC_REDTBL_START == 16

\* The register that holds the lower half of redirection entry e.
LowIndex(e) == IO_APIC_REDTBL_START + 2 * e
HighIndex(e) == LowIndex(e) + 1

\* A disabled entry: the mask bit in the lower half, nothing else in either.
Disabled == "masked"
Zero == "zero"

IrqInit ==
  /\ firmware \in Firmwares
  /\ nIoApics = 0
  /\ ioApics = << >>
  /\ \E b, c \in CmosValues, sel \in {11, 12} :
       ports = [pit |-> 0, pic1 |-> 0, pic2 |-> 0,
                select |-> sel, statusB |-> b, statusC |-> c]
  /\ ioRegSel = [a \in IoApics |-> 0]
  /\ regs = [a \in IoApics |-> [r \in 0 .. HighIndex(MaxRedEntry[a]) |-> "firmware"]]
  /\ lapicOn = {}
  /\ irqPc = "disablePit"
  /\ i = 0
  /\ j = 0

\* outb of io.h: the value comes first.
outb(val, port) == [port |-> port, val |-> val]

\* What the devices make of a byte written to a port.
Written(dev, w) ==
  CASE w.port = 33  -> [dev EXCEPT !.pic1 = w.val]
    [] w.port = 161 -> [dev EXCEPT !.pic2 = w.val]
    [] w.port = 67  -> [dev EXCEPT !.pit = w.val]
    [] w.port = 112 -> [dev EXCEPT !.select = w.val]
    [] w.port = 113 /\ dev.select = 11 -> [dev EXCEPT !.statusB = w.val]
    [] OTHER -> dev

\* inb(CMOS_REGISTER).
ReadCmos(dev) == IF dev.select = 11 THEN dev.statusB ELSE dev.statusC

\* status_b without its three interrupt enable bits, 4 to 6.
MaskedStatus(b) == ((b \div 128) * 128) + (b % 16)

disablePit ==
  /\ irqPc = "disablePit"
  /\ ports' = FoldLeft(Written, ports, <<outb(64, 0), outb(67, 48)>>)
  /\ irqPc' = "disableRtc"
  /\ UNCHANGED <<apicVars, ioRegSel, regs, lapicOn, i, j>>

disableRtc ==
  /\ irqPc = "disableRtc"
  /\ ports' = LET selected == Written(ports, outb(112, 11))
                  status_b == MaskedStatus(ReadCmos(selected))
              IN  FoldLeft(Written, selected,
                           <<outb(112, 11), outb(113, status_b), outb(112, 12)>>)
  /\ irqPc' = "Apic"
  /\ UNCHANGED <<apicVars, ioRegSel, regs, lapicOn, i, j>>

\* Apic::Apic: the writes to the two 8259s, and the table of the I/O APICs that
\* the MADT lists.
ApicConstructor ==
  /\ irqPc = "Apic"
  /\ ports' = FoldLeft(Written, ports, <<outb(33, 255), outb(161, 255)>>)
  /\ nIoApics' = getNIoApics(Acpi(firmware))
  /\ ioApics' = [k \in 0 .. nIoApics' - 1 |-> findIoApic(Acpi(firmware), k).addr]
  /\ irqPc' = "apics"
  /\ UNCHANGED <<firmware, ioRegSel, regs, lapicOn, i, j>>

\* The outer loop of disableIrqs; maxRedEntry selects the version register.
NextApic ==
  /\ irqPc = "apics"
  /\ i < nIoApics
  /\ ioRegSel' = [ioRegSel EXCEPT ![ioApics[i]] = IO_APIC_VER]
  /\ irqPc' = "entries"
  /\ j' = 0
  /\ UNCHANGED <<apicVars, ports, regs, lapicOn, i>>

ApicsDone ==
  /\ irqPc = "apics"
  /\ i >= nIoApics
  /\ irqPc' = "lapic"
  /\ UNCHANGED <<apicVars, ports, ioRegSel, regs, lapicOn, i, j>>

\* Mutant of InTable: maxRedEntry taken for the number of entries.
InTableExclusive == j < MaxRedEntry[ioApics[i]]

\* j < entries, where entries is maxRedEntry() + 1.
InTable == j < MaxRedEntry[ioApics[i]] + 1

\* Mutant of EntriesDone: i is not advanced.
EntriesDoneStays ==
  /\ irqPc = "entries"
  /\ ~InTable
  /\ irqPc' = "apics"
  /\ UNCHANGED <<apicVars, ports, ioRegSel, regs, lapicOn, i, j>>

EntriesDone ==
  /\ irqPc = "entries"
  /\ ~InTable
  /\ i' = i + 1
  /\ irqPc' = "apics"
  /\ UNCHANGED <<apicVars, ports, ioRegSel, regs, lapicOn, j>>

\* IoApic::write stores the index register, then the window; the second store
\* lands in the register the first one has selected.
Select(index, next) ==
  /\ ioRegSel' = [ioRegSel EXCEPT ![ioApics[i]] = index]
  /\ irqPc' = next
  /\ UNCHANGED <<apicVars, ports, regs, lapicOn, i, j>>

Window(value, next) ==
  /\ regs' = [regs EXCEPT ![ioApics[i]][ioRegSel[ioApics[i]]] = value]
  /\ irqPc' = next
  /\ UNCHANGED <<apicVars, ports, ioRegSel, lapicOn, i>>

\* writeEntry(j, entry) of a disabled entry: the lower half first.
SelectLow ==
  /\ irqPc = "entries"
  /\ InTable
  /\ Select(LowIndex(j), "low")

\* Mutant of WriteLow: the mask bit is lost.
WriteLowUnmasked ==
  /\ irqPc = "low"
  /\ Window(Zero, "selectHigh")
  /\ UNCHANGED j

WriteLow ==
  /\ irqPc = "low"
  /\ Window(Disabled, "selectHigh")
  /\ UNCHANGED j

\* Mutant of SelectHigh: the table's first register is forgotten.
SelectHighUnbased ==
  /\ irqPc = "selectHigh"
  /\ Select(2 * j + 1, "high")

SelectHigh ==
  /\ irqPc = "selectHigh"
  /\ Select(HighIndex(j), "high")

WriteHigh ==
  /\ irqPc = "high"
  /\ Window(Zero, "entries")
  /\ j' = j + 1

\* The address Lapic::enable makes of MSR_APIC_BASE: base & ((1 << 12) - 1).
LapicAddress(base) == base % 4096

\* Lapic::enable: bit 11 of the MSR is set and the enable bit at that address;
\* bit 8 is on for the boot processor.
EnableLapic(loc) ==
  LET base == LapicBase + 2048 + (IF loc = 0 THEN 256 ELSE 0)
  IN  lapicOn' = IF LapicAddress(base) = LapicBase THEN lapicOn \cup {loc} ELSE lapicOn

\* boot::initSmp enables the local APIC of the boot core.
EnableBootLapic ==
  /\ irqPc = "lapic"
  /\ EnableLapic(0)
  /\ irqPc' = "done"
  /\ UNCHANGED <<apicVars, ports, ioRegSel, regs, i, j>>

\* event::initArch, its share of the IDT apart.
EventInitArch ==
  \/ disablePit
  \/ disableRtc
  \/ ApicConstructor
  \/ NextApic
  \/ ApicsDone
  \/ EntriesDone
  \/ SelectLow
  \/ WriteLow
  \/ SelectHigh
  \/ WriteHigh

-----------------------------------------------------------------------------
InTableOf(a, r) == r \in LowIndex(0) .. HighIndex(MaxRedEntry[a])

\* Once disableIrqs has returned, every entry of every I/O APIC that the MADT
\* lists is masked and empty, whatever the firmware left there and however the
\* list is mixed with entries of other kinds.
AllDisabled ==
  irqPc \in {"lapic", "done"} =>
    \A a \in IoApicAddresses(Acpi(firmware)) : \A e \in 0 .. MaxRedEntry[a] :
      regs[a][LowIndex(e)] = Disabled /\ regs[a][HighIndex(e)] = Zero

\* An interrupt is masked before it is rerouted: no entry has its new upper
\* half while the firmware's lower half is still in force.
MaskedBeforeMoved ==
  \A a \in IoApics : \A e \in 0 .. MaxRedEntry[a] :
    regs[a][HighIndex(e)] # "firmware" => regs[a][LowIndex(e)] = Disabled

\* Nothing but the redirection tables is written, although reading the size
\* of a table goes through the same index register.
OtherRegistersKept ==
  \A a \in IoApics : \A r \in DOMAIN regs[a] :
    ~InTableOf(a, r) => regs[a][r] = "firmware"

\* Before the APICs are touched the legacy interrupts are off: rtc.h says that
\* disableRtc masks off the three interrupts of the RTC, apic.c++ that the
\* constructor masks the IRQs on master and slave.
LegacyMasked ==
  irqPc \notin {"disablePit", "disableRtc", "Apic"} =>
    /\ ports.statusB = MaskedStatus(ports.statusB)
    /\ ports.pic1 = 255
    /\ ports.pic2 = 255

\* event.c++ says that the first processor's local APIC has been enabled.
LapicEnabled == irqPc = "done" => 0 \in lapicOn
=============================================================================
