------------------------------ MODULE Console -------------------------------
(***************************************************************************)
(* The console (lrt/uart.c++, lrt/console.h): a serial port written to by  *)
(* polling.  getInstance constructs it on first use, behind a guard that   *)
(* -fno-threadsafe-statics leaves unsynchronised; boot::init writes its    *)
(* banner before it does anything else, and no other core runs before      *)
(* that.  Later every core may write, and nothing keeps the cores apart.   *)
(*                                                                         *)
(* A byte is named by the core that writes it and its number among the     *)
(* bytes of that core.  The device is the part of a 16550 that the driver  *)
(* uses; it sends what the transmitter register holds in its own time.     *)
(***************************************************************************)
EXTENDS Integers, Sequences

CONSTANTS
  Cores,
  BootCore,   \* the core that runs boot::init
  BannerLen,  \* the bytes of the banner
  MaxBytes,   \* bound of the model: bytes a core writes after the banner
  Empty       \* the transmitter holding register is empty

ASSUME ConsoleAssumption ==
  /\ BootCore \in Cores
  /\ BannerLen \in Nat \ {0} /\ MaxBytes \in Nat
  /\ Empty \notin Cores \X Nat

VARIABLES
  uart,     \* the registers of the device
  sent,     \* history: the bytes the device has sent
  made,     \* the guard of getInstance's static
  conPc,    \* conPc[c]: where core c is in the console's code
  step,     \* step[c]: the constructor's writes that core c has done
  todo,     \* todo[c]: the bytes left of the string core c writes
  written   \* written[c]: the bytes core c has stored

conVars == <<uart, sent, made, conPc, step, todo, written>>

DATA_REG == 0
INT_ENABLE == 1
BAUD_DIV_LSB == 0
BAUD_DIV_MSB == 1
LINE_CNTL_REG == 3
LINE_CNTL_REG_CHARLEN_8 == 3
LINE_CNTL_REG_DLAB == 128

\* A write to the device: the divisor latch covers the first two registers for
\* as long as the top bit of the line control register is set.
UartWrite(val, reg) ==
  LET dlab == uart.lcr >= LINE_CNTL_REG_DLAB
  IN  uart' = [uart EXCEPT !.lcr = IF reg = LINE_CNTL_REG THEN val ELSE @,
                           !.lsb = IF dlab /\ reg = BAUD_DIV_LSB THEN val ELSE @,
                           !.msb = IF dlab /\ reg = BAUD_DIV_MSB THEN val ELSE @,
                           !.thr = IF ~dlab /\ reg = DATA_REG THEN val ELSE @,
                           !.ier = IF ~dlab /\ reg = INT_ENABLE THEN val ELSE @]

\* The device as the firmware may leave it.
ConsoleInit ==
  /\ \E lcr \in {LINE_CNTL_REG_CHARLEN_8, 26}, ier \in {0, 15} :
       uart = [lcr |-> lcr, lsb |-> 12, msb |-> 0, ier |-> ier, thr |-> Empty]
  /\ sent = << >>
  /\ made = FALSE
  /\ conPc = [c \in Cores |-> IF c = BootCore THEN "get" ELSE "idle"]
  /\ step = [c \in Cores |-> 0]
  /\ todo = [c \in Cores |-> IF c = BootCore THEN BannerLen ELSE 0]
  /\ written = [c \in Cores |-> 0]

Goes(c, label) == conPc' = [conPc EXCEPT ![c] = label]

\* The boot core has written its banner.
Booted == written[BootCore] >= BannerLen

-----------------------------------------------------------------------------
\* A core calls getInstance().write with a string of n bytes.
WriteCall(c, n) ==
  /\ Booted
  /\ conPc[c] = "idle"
  /\ written[c] + n <= MaxBytes + IF c = BootCore THEN BannerLen ELSE 0
  /\ todo' = [todo EXCEPT ![c] = n]
  /\ Goes(c, "get")
  /\ UNCHANGED <<uart, sent, made, step, written>>

\* getInstance reads the guard.
GetInstance(c) ==
  /\ conPc[c] = "get"
  /\ Goes(c, IF made THEN "write" ELSE "construct")
  /\ UNCHANGED <<uart, sent, made, step, todo, written>>

\* Mutant of ConstructorWrites: the divisor is written before the latch is open.
DivisorBeforeLatch ==
  <<<<0, INT_ENABLE>>, <<1, BAUD_DIV_LSB>>, <<0, BAUD_DIV_MSB>>,
    <<LINE_CNTL_REG_DLAB, LINE_CNTL_REG>>,
    <<LINE_CNTL_REG_CHARLEN_8, LINE_CNTL_REG>>>>

\* What Console::Console writes, and where.
ConstructorWrites ==
  <<<<0, INT_ENABLE>>, <<LINE_CNTL_REG_DLAB, LINE_CNTL_REG>>,
    <<1, BAUD_DIV_LSB>>, <<0, BAUD_DIV_MSB>>,
    <<LINE_CNTL_REG_CHARLEN_8, LINE_CNTL_REG>>>>

Construct(c) ==
  /\ conPc[c] = "construct"
  /\ step[c] < Len(ConstructorWrites)
  /\ LET w == ConstructorWrites[step[c] + 1] IN UartWrite(w[1], w[2])
  /\ step' = [step EXCEPT ![c] = @ + 1]
  /\ UNCHANGED <<sent, made, conPc, todo, written>>

Constructed(c) ==
  /\ conPc[c] = "construct"
  /\ step[c] = Len(ConstructorWrites)
  /\ made' = TRUE
  /\ step' = [step EXCEPT ![c] = 0]
  /\ Goes(c, "write")
  /\ UNCHANGED <<uart, sent, todo, written>>

\* Mutant of ThrEmpty: the status is not waited for.
ThrWhatever == TRUE

\* The line status that the loop of write(char) waits for.
ThrEmpty == uart.thr = Empty

Poll(c) ==
  /\ conPc[c] = "write"
  /\ todo[c] > 0
  /\ ThrEmpty
  /\ Goes(c, "store")
  /\ UNCHANGED <<uart, sent, made, step, todo, written>>

\* The store of write(char); the next byte is polled for.
Store(c) ==
  /\ conPc[c] = "store"
  /\ UartWrite(<<c, written[c] + 1>>, DATA_REG)
  /\ written' = [written EXCEPT ![c] = @ + 1]
  /\ todo' = [todo EXCEPT ![c] = @ - 1]
  /\ Goes(c, "write")
  /\ UNCHANGED <<sent, made, step>>

\* The end of the string.
WriteReturns(c) ==
  /\ conPc[c] = "write"
  /\ todo[c] = 0
  /\ Goes(c, "idle")
  /\ UNCHANGED <<uart, sent, made, step, todo, written>>

\* The device sends a byte.
Transmit ==
  /\ uart.thr # Empty
  /\ sent' = Append(sent, uart.thr)
  /\ uart' = [uart EXCEPT !.thr = Empty]
  /\ UNCHANGED <<made, conPc, step, todo, written>>

ConsoleStep(c) ==
  \/ GetInstance(c)
  \/ Construct(c)
  \/ Constructed(c)
  \/ Poll(c)
  \/ Store(c)
  \/ WriteReturns(c)

-----------------------------------------------------------------------------
\* Nothing goes out on the line, neither a byte of a string nor one of the
\* constructor's values, before the port is set to 115200 baud and 8N1 with its
\* interrupts off, and nothing changes these settings later: with no more than
\* an unsynchronised guard only the boot core ever constructs the console.
ConfiguredFirst ==
  uart.thr # Empty \/ sent # << >> =>
    /\ uart.lcr = LINE_CNTL_REG_CHARLEN_8
    /\ uart.lsb = 1 /\ uart.msb = 0 /\ uart.ier = 0

\* Cores that write at once can lose bytes (both find the register empty), but
\* the bytes of a core come in its order, none twice and none invented; and as
\* long as a single core has written, as the boot core does its banner, none
\* is lost.
SerialExact ==
  /\ \A i \in 1 .. Len(sent) :
       /\ \E c \in Cores : sent[i] \in {c} \X (1 .. written[c])
       /\ \A j \in 1 .. i - 1 :
            sent[i][1] = sent[j][1] => sent[j][2] < sent[i][2]
  /\ \A c \in Cores :
       (\A d \in Cores \ {c} : written[d] = 0) =>
         Len(sent) + (IF uart.thr = Empty THEN 0 ELSE 1) = written[c]
=============================================================================
