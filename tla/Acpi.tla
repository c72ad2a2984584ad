-------------------------------- MODULE Acpi --------------------------------
(***************************************************************************)
(* What the kernel reads from the firmware's ACPI tables (acpi.c++,        *)
(* acpi.h): the search for the RSDP, the choice between XSDT and RSDT, the *)
(* search for the MADT and the walks over its entries that give the number *)
(* of cores and the I/O APICs.                                             *)
(*                                                                         *)
(* A firmware is [ebda, rom]: the two areas that are searched, each        *)
(* a sequence of 16 byte paragraphs, Null or an RSDP.  An RSDP has the two *)
(* table pointers, Null or [low, tables]: low says the address is below    *)
(* 4 GB, tables are the headers pointed to.  A MADT is [size, data]: its   *)
(* bytes behind the header, and the entry that starts at each byte offset. *)
(***************************************************************************)
EXTENDS Naturals, FiniteSets, Sequences

CONSTANT Null

\* MadtHeader::LAPIC_TYPE and IOAPIC_TYPE.
LAPIC_TYPE == 0
IOAPIC_TYPE == 1

\* The first paragraph that holds an RSDP.
locateInRange(paragraphs) ==
  LET found == SelectSeq(paragraphs, LAMBDA p : p # Null)
  IN  IF found = << >> THEN Null ELSE found[1]

\* The extended BIOS data area is searched before the ROM.
locate(firmware) ==
  LET ret == locateInRange(firmware.ebda)
  IN  IF ret = Null THEN locateInRange(firmware.rom) ELSE ret

\* Sdt::find: the first table with this signature.
SdtFind(sdt, signature) ==
  LET found == SelectSeq(sdt.tables, LAMBDA h : h.signature = signature)
  IN  IF found = << >> THEN Null ELSE found[1]

Usable(sdt) == sdt # Null /\ sdt.low

\* Acpi::Acpi: the XSDT if the kernel can reach it, else the RSDT.
Acpi(firmware) ==
  LET rsdp == locate(firmware)
  IN  CASE rsdp = Null       -> Null
        [] Usable(rsdp.xsdt) -> SdtFind(rsdp.xsdt, "APIC")
        [] Usable(rsdp.rsdt) -> SdtFind(rsdp.rsdt, "APIC")
        [] OTHER             -> Null

\* Where the walk over the entries can be: where one starts, or past the end.
Offsets(madt) == DOMAIN madt.data \cup {o \in Nat : o >= madt.size}

\* Madt::find: entry number index of a type, walking from entry to entry by
\* their lengths.  At the offset p[1], p[2] entries are still to be skipped.
find(madt, type, index) ==
  LET from[p \in Offsets(madt) \X Nat] ==
        LET h == madt.data[p[1]]
        IN  IF p[1] >= madt.size THEN Null
            ELSE IF h.type = type /\ p[2] = 0 THEN h
            ELSE from[<<p[1] + h.len, IF h.type = type THEN p[2] - 1 ELSE p[2]>>]
  IN  from[<<0, index>>]

findLapic(madt, index) == find(madt, LAPIC_TYPE, index)
findIoApic(madt, index) == find(madt, IOAPIC_TYPE, index)

\* Mutant of getNCores: the count ends at the first that is not enabled.
getNCoresStops(madt) ==
  LET count[i \in Nat] ==
        LET madtLapic == findLapic(madt, i)
        IN  IF madtLapic = Null \/ ~madtLapic.enabled THEN 0 ELSE 1 + count[i + 1]
  IN  count[0]

\* The enabled local APICs.
getNCores(madt) ==
  LET count[i \in Nat] ==
        LET madtLapic == findLapic(madt, i)
        IN  IF madtLapic = Null THEN 0
            ELSE count[i + 1] + IF madtLapic.enabled THEN 1 ELSE 0
  IN  count[0]

getNIoApics(madt) ==
  LET count[i \in Nat] == IF findIoApic(madt, i) = Null THEN 0 ELSE 1 + count[i + 1]
  IN  count[0]

-----------------------------------------------------------------------------
\* What the walks take for granted: the entries lie one behind the other from
\* the first byte to the last.
WellFormed(madt) ==
  /\ madt.size \in Nat
  /\ DOMAIN madt.data \subseteq 0 .. madt.size - 1
  /\ 0 \in Offsets(madt)
  /\ \A o \in DOMAIN madt.data :
       LET next == o + madt.data[o].len
       IN  /\ madt.data[o] # Null
           /\ next \in Offsets(madt) /\ next > o
           /\ \A q \in DOMAIN madt.data : q <= o \/ next <= q

\* The reference the walks are compared with: entries by type, whatever is
\* between them.
EntriesOf(madt, type) == {o \in DOMAIN madt.data : madt.data[o].type = type}
EnabledLapics(madt) == {o \in EntriesOf(madt, LAPIC_TYPE) : madt.data[o].enabled}
IoApicAddresses(madt) == {madt.data[o].addr : o \in EntriesOf(madt, IOAPIC_TYPE)}
=============================================================================
