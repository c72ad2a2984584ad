------------------------------- MODULE MCBoot -------------------------------
EXTENDS Boot

\* Entries of a MADT: a local APIC, an I/O APIC, an interrupt override.
Lapic(on) == [type |-> LAPIC_TYPE, len |-> 8, enabled |-> on]
IoApic(a) == [type |-> IOAPIC_TYPE, len |-> 12, addr |-> a]
Override == [type |-> 2, len |-> 10]

Madt(length, entries) == [signature |-> "APIC", size |-> length, data |-> entries]
Other == [signature |-> "SRAT", size |-> 0, data |-> << >>]

Sdt(below4GB, list) == [low |-> below4GB, tables |-> list]

\* Three enabled processors among disabled ones, two I/O APICs with an override
\* between them; found through the XSDT.
MCLarge ==
  [ebda |-> <<Null, Null>>,
   rom  |-> <<Null, [xsdt |-> Sdt(TRUE,
     <<Other, Madt(66, 0 :> Lapic(TRUE) @@ 8 :> IoApic(4096) @@ 20 :> Lapic(FALSE)
                       @@ 28 :> Override @@ 38 :> Lapic(TRUE) @@ 46 :> IoApic(8192)
                       @@ 58 :> Lapic(TRUE))>>), rsdt |-> Null]>>]

\* One processor and one I/O APIC, the RSDP in the EBDA; the XSDT is out of
\* reach above 4 GB.
MCSmall ==
  [ebda |-> <<Null, [xsdt |-> Sdt(FALSE, << >>),
                     rsdt |-> Sdt(TRUE, <<Madt(20, 0 :> Lapic(TRUE) @@ 8 :> IoApic(8192))>>)]>>,
   rom  |-> <<Null>>]

\* Two processors and no I/O APIC, no XSDT.
MCNoIoApic ==
  [ebda |-> << >>,
   rom  |-> <<[xsdt |-> Null, rsdt |-> Sdt(TRUE,
                <<Madt(26, 0 :> Override @@ 10 :> Lapic(TRUE) @@ 18 :> Lapic(TRUE)), Other>>)]>>]

MCFirmwares == {MCLarge, MCSmall, MCNoIoApic}

\* Two I/O APICs whose tables differ in length.
MCMaxRedEntry == 4096 :> 0 @@ 8192 :> 1

MCCores == 0 .. 2

\* All three RTC interrupts enabled, one of them, none.
MCCmosValues == {2, 18, 114}
=============================================================================
