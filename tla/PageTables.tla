----------------------------- MODULE PageTables -----------------------------
(***************************************************************************)
(* The address translation every core sets up for itself: bootAsm.S maps   *)
(* the first 4 GB one to one, trans::initArch adds the page of the global  *)
(* translation table to the boot tables, which the boot core is running    *)
(* on, and trans::initCpuArch gives a core a root of its own, in which the *)
(* page of the local table is the core's private memory; trans::initCpu    *)
(* then fills that page with default entries.                              *)
(*                                                                         *)
(* A table is named by its kind and owner, and so is a 2 MB frame.  Three  *)
(* pages stand for the address space: one below 4 GB, the global table and *)
(* the local table.  Boot core code runs initArch before any core reaches  *)
(* initCpuArch; the cores then run it at the same time.  (initCpuArch also *)
(* stores through physLocalEntries, which nothing has allocated: the store *)
(* lands in the first bytes of memory, which hold no table.)               *)
(***************************************************************************)
EXTENDS Integers

CONSTANTS
  Cores,
  Shared,  \* the owner of what all cores share
  Absent   \* an entry that is not present

ASSUME SharedAssumption == Shared \notin Cores

VARIABLES
  tables,  \* tables[t][x]: entry x of table t
  cr3,     \* cr3[c]: the root core c runs on
  filled,  \* filled[f]: the cores that have written default entries to frame f
  archPc,  \* where initArch is
  transPc  \* transPc[c]: where core c is in initCpuArch and initCpu

transVars == <<tables, cr3, filled, archPc, transPc>>

Pages == {"low", "global", "local"}

\* pml4Index and pdptIndex of a page; the pdirIndex of all three is 0.
Pml4Index(page) == IF page = "low" THEN 0 ELSE 511
PdptIndex(page) == CASE page = "low" -> 0
                     [] page = "local" -> 504
                     [] page = "global" -> 508
PdirIndex(page) == 0

Indexes == {0, 504, 508, 511}
Empty == [x \in Indexes |-> Absent]

Kinds == {"pml4", "pdpt", "pdir"}
Tables == {<<kind, o>> : kind \in Kinds, o \in Cores \cup {Shared}}
          \cup {<<"gpdpt", Shared>>, <<"gpdir", Shared>>}

LowFrame == <<"low", Shared>>
GlobalFrame == <<"globalMem", Shared>>
LocalFrame(c) == <<"localMem", c>>
Frames == {LowFrame, GlobalFrame} \cup {LocalFrame(c) : c \in Cores}

ASSUME AbsentAssumption == Absent \notin Tables \cup Frames

BootPml4 == <<"pml4", Shared>>

\* bootAsm.S: the first four gigabytes, one to one.
BootTables ==
  [t \in Tables |->
     CASE t = BootPml4          -> [Empty EXCEPT ![0] = <<"pdpt", Shared>>]
       [] t = <<"pdpt", Shared>> -> [Empty EXCEPT ![0] = <<"pdir", Shared>>]
       [] t = <<"pdir", Shared>> -> [Empty EXCEPT ![0] = LowFrame]
       [] OTHER                -> Empty]

TransInit ==
  /\ tables = BootTables
  /\ cr3 = [c \in Cores |-> BootPml4]
  /\ filled = [f \in Frames |-> {}]
  /\ archPc = "pdir"
  /\ transPc = [c \in Cores |-> "copy"]

\* What the hardware finds for a page on core c.
Walk(c, page) ==
  LET pdpt == tables[cr3[c]][Pml4Index(page)]
      pdir == IF pdpt = Absent THEN Absent ELSE tables[pdpt][PdptIndex(page)]
  IN  IF pdir = Absent THEN Absent ELSE tables[pdir][PdirIndex(page)]

Set(t, x, entry) == tables' = [tables EXCEPT ![t][x] = entry]

-----------------------------------------------------------------------------
\* initArch: a directory with the global page, a pdpt with the directory, and
\* at last the entry in the table the core is running on.
ArchPdir ==
  /\ archPc = "pdir"
  /\ Set(<<"gpdir", Shared>>, PdirIndex("global"), GlobalFrame)
  /\ archPc' = "pdpt"
  /\ UNCHANGED <<cr3, filled, transPc>>

ArchPdpt ==
  /\ archPc = "pdpt"
  /\ Set(<<"gpdpt", Shared>>, PdptIndex("global"), <<"gpdir", Shared>>)
  /\ archPc' = "pml4"
  /\ UNCHANGED <<cr3, filled, transPc>>

ArchPml4 ==
  /\ archPc = "pml4"
  /\ Set(BootPml4, Pml4Index("global"), <<"gpdpt", Shared>>)
  /\ archPc' = "done"
  /\ UNCHANGED <<cr3, filled, transPc>>

\* Mutants of Copy: the root alone is copied, and the pdpt in use is shared
\* instead of copied.
CopyRootOnly(c) ==
  /\ transPc[c] = "copy"
  /\ archPc = "done"
  /\ tables' = [tables EXCEPT ![<<"pml4", c>>] = tables[cr3[c]]]
  /\ transPc' = [transPc EXCEPT ![c] = "pdir"]
  /\ UNCHANGED <<cr3, filled, archPc>>

\* initCpuArch copies the root the core runs on and the pdpt that serves the
\* address of the local table, the one initArch has made.
Copy(c) ==
  /\ transPc[c] = "copy"
  /\ archPc = "done"
  /\ tables' = [tables EXCEPT
                  ![<<"pml4", c>>] = tables[cr3[c]],
                  ![<<"pdpt", c>>] = tables[tables[cr3[c]][Pml4Index("local")]]]
  /\ transPc' = [transPc EXCEPT ![c] = "pdir"]
  /\ UNCHANGED <<cr3, filled, archPc>>

SetPdir(c) ==
  /\ transPc[c] = "pdir"
  /\ Set(<<"pdir", c>>, PdirIndex("local"), LocalFrame(c))
  /\ transPc' = [transPc EXCEPT ![c] = "pdpt"]
  /\ UNCHANGED <<cr3, filled, archPc>>

\* Mutant of SetPdpt: the entry goes to the pdpt that all cores share.
SetPdptShared(c) ==
  /\ transPc[c] = "pdpt"
  /\ Set(<<"gpdpt", Shared>>, PdptIndex("local"), <<"pdir", c>>)
  /\ transPc' = [transPc EXCEPT ![c] = "pml4"]
  /\ UNCHANGED <<cr3, filled, archPc>>

SetPdpt(c) ==
  /\ transPc[c] = "pdpt"
  /\ Set(<<"pdpt", c>>, PdptIndex("local"), <<"pdir", c>>)
  /\ transPc' = [transPc EXCEPT ![c] = "pml4"]
  /\ UNCHANGED <<cr3, filled, archPc>>

SetPml4(c) ==
  /\ transPc[c] = "pml4"
  /\ Set(<<"pml4", c>>, Pml4Index("local"), <<"pdpt", c>>)
  /\ transPc' = [transPc EXCEPT ![c] = "load"]
  /\ UNCHANGED <<cr3, filled, archPc>>

\* Mutant of Load: the core stays on the boot tables.
LoadNothing(c) ==
  /\ transPc[c] = "load"
  /\ transPc' = [transPc EXCEPT ![c] = "fill"]
  /\ UNCHANGED <<tables, cr3, filled, archPc>>

\* setPml4.
Load(c) ==
  /\ transPc[c] = "load"
  /\ cr3' = [cr3 EXCEPT ![c] = <<"pml4", c>>]
  /\ transPc' = [transPc EXCEPT ![c] = "fill"]
  /\ UNCHANGED <<tables, filled, archPc>>

\* initCpu writes the default entries through the page of the local table.
Fill(c) ==
  /\ transPc[c] = "fill"
  /\ filled' = [f \in Frames |-> IF f = Walk(c, "local") THEN filled[f] \cup {c}
                                                         ELSE filled[f]]
  /\ transPc' = [transPc EXCEPT ![c] = "start"]
  /\ UNCHANGED <<tables, cr3, archPc>>

CpuStep(c) ==
  \/ Copy(c)
  \/ SetPdir(c)
  \/ SetPdpt(c)
  \/ SetPml4(c)
  \/ Load(c)
  \/ Fill(c)

-----------------------------------------------------------------------------
\* At no moment, not even while it changes the tables it runs on, does a core
\* lose the memory below 4 GB, where its code and stack are; and from the end
\* of initArch on every core sees the one global table.
SharedMapped ==
  \A c \in Cores : /\ Walk(c, "low") = LowFrame
                   /\ archPc = "done" => Walk(c, "global") = GlobalFrame

\* The page of the local table leads a core to its own memory or nowhere: what
\* one core does to the tables never shows through on another.
LocalPrivate == \A c \in Cores : Walk(c, "local") \in {Absent, LocalFrame(c)}

\* A core that starts the application has default entries in its own table,
\* and nobody else has written there.
LocalFilled ==
  \A c \in Cores : /\ filled[LocalFrame(c)] \subseteq {c}
                   /\ transPc[c] = "start" => filled[LocalFrame(c)] = {c}
=============================================================================
