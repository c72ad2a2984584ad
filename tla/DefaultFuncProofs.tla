------------------------- MODULE DefaultFuncProofs --------------------------
(***************************************************************************)
(* That a call through the default vtable is like a direct one, for every  *)
(* slot and however deep calls nest.  Of each call under way the inductive *)
(* invariant FuncInv says where its frame lies, which words of it are      *)
(* still needed (FrameInv), and what its dispatch has put on the altstack  *)
(* (AltOf); and that the next call's frame and altstack begin where those  *)
(* of this one end.  Every step but the first and the last of a call is of *)
(* the innermost one and writes below its caller's words only, so the      *)
(* calls around it keep theirs (TopMoves).                                 *)
(***************************************************************************)
EXTENDS DefaultFunc, SequenceTheorems, TLAPS

Labels == {"common", "saved", "precall", "bound", "kept", "enter", "body", "post",
           "parked", "postcall", "returned"}

\* What altstackPush is given.
Saving == {Manager(l) : l \in Nat} \cup {ReturnAddress(l) : l \in Nat}

ArgSets == [Regs -> {Argument(l, r) : l \in Nat, r \in Regs}]
Fnums == {Junk} \cup {Num(n) : n \in Slots}
Backs == {Junk} \cup {ReturnAddress(l) : l \in Nat}

Call == [at : Labels, slot : Slots, args : ArgSets, caller : Int, frame : Int,
         alt : Seq(Saving), fnum : Fnums, back : Backs]

\* How far below the caller's words the fxsave area and the registers are.
FxBelow == 8 + FxBytes
FrameBelow == FxBelow + ArgBytes

\* How far below the caller's words a call's stack ends.
Below(at) ==
  IF at \in {"saved", "bound", "kept"} THEN FrameBelow + FretBytes
  ELSE IF at = "precall" THEN FrameBelow + FretBytes + 8
  ELSE IF at \in {"post", "returned"} THEN 0
  ELSE 8

Low(l) == calls[l].caller - Below(calls[l].at)

\* The altstack of call l, which found alt, with what its dispatch has saved.
AltAt(at, alt, l) ==
  IF at \in {"common", "saved", "precall", "returned"} THEN alt
  ELSE IF at \in {"bound", "postcall"} THEN Append(alt, Manager(l))
  ELSE Append(Append(alt, Manager(l)), ReturnAddress(l))

AltOf(l) == AltAt(calls[l].at, calls[l].alt, l)

Has(words, a, value) == a \in DOMAIN words /\ words[a] = value

\* The words of the frame of call l at c that are still needed at a label.
Frame(words, l, c, at, slot) ==
  /\ Has(words, c, Argument(l, "stack"))
  /\ at \in {"common", "saved", "precall", "bound", "kept", "postcall"} =>
       Has(words, c - 8, ReturnAddress(l))
  /\ at = "parked" => Has(words, c - 8, Result(l))
  /\ at \in {"saved", "precall", "bound", "kept"} =>
       /\ Has(words, c - FxBelow, Argument(l, "fx"))
       /\ \A i \in 1 .. 7 : Has(words, c - FxBelow - 8 * i, Argument(l, Pushed[i]))
  /\ at \in {"bound", "kept"} =>
       /\ Has(words, c - FrameBelow, Rep(l))
       /\ Has(words, c - FrameBelow - FretBytes, Function(Rep(l), Num(slot)))

FrameInv(l) == Frame(stack, l, calls[l].caller, calls[l].at, calls[l].slot)

\* What the model remembers of the call.
CallInv(l) ==
  /\ calls[l].caller % 16 = 0
  /\ calls[l].args = [r \in Regs |-> Argument(l, r)]
  /\ calls[l].at \in {"saved", "precall", "bound", "kept"} =>
       calls[l].frame = calls[l].caller - FrameBelow /\ calls[l].fnum = Num(calls[l].slot)
  /\ calls[l].at = "returned" => calls[l].back = ReturnAddress(l)

\* A call that has made another one waits for it, in a manager or in its
\* function, and the other's begins where this one's ends.
LinkInv(l) ==
  /\ calls[l].at \in {"precall", "body"}
  /\ calls[l + 1].caller = Low(l) - 8
  /\ calls[l + 1].alt = AltOf(l)

\* The frames lie apart, the inner ones below.
ApartInv == \A k, l \in 1 .. Level : k < l => calls[l].caller + 8 <= Low(k)

\* What the registers r hold for call l at a label.
RegsAt(r, l, at, args, slot) ==
  /\ at = "common" => r = [args EXCEPT !.r11 = Num(slot)]
  /\ at = "enter" => r = [args EXCEPT !.rdi = Rep(l), !.r11 = Function(Rep(l), Num(slot))]
  /\ at \in {"post", "returned"} => r.rax = Result(l)
  /\ at = "postcall" => r.rdi = Result(l)

\* The machine is where the innermost call has it.
TopInv ==
  /\ DOMAIN regs = Regs
  /\ calls = << >> => rsp = 4096 /\ altstack = << >>
  /\ calls # << >> =>
       /\ rsp = Low(Level) /\ altstack = AltOf(Level)
       /\ RegsAt(regs, Level, Top.at, Top.args, Top.slot)

FuncInv ==
  /\ calls \in Seq(Call)
  /\ \A l \in 1 .. Level : FrameInv(l) /\ CallInv(l)
  /\ \A l \in 1 .. Level - 1 : LinkInv(l)
  /\ Level > 0 => calls[1].caller = 4080 /\ calls[1].alt = << >>
  /\ ApartInv
  /\ TopInv

-----------------------------------------------------------------------------
\* Sizes, registers, memory and sequences.

USE DEF FxBytes, ArgBytes, FretBytes, FxBelow, FrameBelow

LEMMA BelowIs ==
  /\ \A at : Below(at) \in {0, 8, 608, 616}
  /\ \A at \in {"saved", "bound", "kept"} : Below(at) = 608
  /\ Below("precall") = 616
  /\ \A at \in {"post", "returned"} : Below(at) = 0
  /\ \A at \in {"common", "enter", "body", "parked", "postcall"} : Below(at) = 8
  BY DEF Below

LEMMA PushedIs ==
  /\ Len(Pushed) = 8 /\ DOMAIN Pushed = 1 .. 8
  /\ Pushed[1] = "rax" /\ Pushed[2] = "r10" /\ Pushed[3] = "r9" /\ Pushed[4] = "r8"
  /\ Pushed[5] = "rcx" /\ Pushed[6] = "rdx" /\ Pushed[7] = "rsi" /\ Pushed[8] = "rdi"
  BY DEF Pushed

LEMMA RegsAre ==
  Regs = {"rax", "r10", "r9", "r8", "rcx", "rdx", "rsi", "rdi", "r11", "fx"}
<1>1. ToSet(Pushed) = {Pushed[i] : i \in 1 .. 8}
  BY PushedIs DEF ToSet
<1>2. {Pushed[i] : i \in 1 .. 8}
      = {Pushed[1], Pushed[2], Pushed[3], Pushed[4], Pushed[5], Pushed[6], Pushed[7], Pushed[8]}
  OBVIOUS
<1> QED
  BY <1>1, <1>2, PushedIs DEF Regs

\* Where the pops find what was pushed.
LEMMA PopsMatch ==
  ASSUME NEW low \in Int
  PROVE  /\ \A i \in 1 .. 8 : PopAt(low, Pushed[i]) = low + 8 * (8 - i)
         /\ PopAt(low, "fx") = low + ArgBytes
<1>1. ASSUME NEW i \in 1 .. 8
      PROVE  (CHOOSE j \in 1 .. Len(Pushed) : Pushed[j] = Pushed[i]) = i
  <2>1. \A j \in 1 .. 8 : Pushed[j] = Pushed[i] => j = i
    BY PushedIs
  <2> QED
    BY <2>1, PushedIs
<1>2. ASSUME NEW i \in 1 .. 8
      PROVE  PopAt(low, Pushed[i]) = low + 8 * (8 - i)
  <2>1. Pushed[i] # "fx"
    BY PushedIs
  <2> QED
    BY <1>1, <2>1, PushedIs DEF PopAt
<1> QED
  BY <1>2 DEF PopAt

LEMMA StoreHas ==
  ASSUME NEW words, NEW a, NEW value
  PROVE  /\ Has(Store(words, a, value), a, value)
         /\ \A x, w : x # a /\ Has(words, x, w) => Has(Store(words, a, value), x, w)
  BY DEF Has, Store

LEMMA AboveHas ==
  ASSUME NEW words, NEW low
  PROVE  \A x, w : x >= low /\ Has(words, x, w) => Has(AtOrAbove(low, words), x, w)
  BY DEF Has, AtOrAbove, Restrict

LEMMA LastAppended ==
  ASSUME NEW S, NEW s \in Seq(S), NEW x \in S
  PROVE  Last(Append(s, x)) = x /\ Front(Append(s, x)) = s
<1>1. Append(s, x) \in Seq(S) /\ Len(Append(s, x)) = Len(s) + 1
      /\ Append(s, x)[Len(s) + 1] = x /\ \A i \in 1 .. Len(s) : Append(s, x)[i] = s[i]
  OBVIOUS
<1>2. Len(s) \in Nat
  OBVIOUS
<1>3. Last(Append(s, x)) = x
  BY <1>1, <1>2 DEF Last
<1> DEFINE t == Append(s, x)
<1>4. Front(t) = SubSeq(t, 1, Len(s))
  BY <1>1, <1>2 DEF Front
<1> HIDE DEF t
<1>5. SubSeq(t, 1, Len(s)) \in Seq(S) /\ Len(SubSeq(t, 1, Len(s))) = Len(s)
      /\ \A i \in 1 .. Len(s) : SubSeq(t, 1, Len(s))[i] = t[i]
  BY <1>1, <1>2 DEF t
<1>6. SubSeq(t, 1, Len(s)) = s
  BY <1>1, <1>5, SeqEqual DEF t
<1> QED
  BY <1>3, <1>4, <1>6 DEF t

\* A frame is not disturbed by a change below it.
LEMMA FrameKept ==
  ASSUME NEW words, NEW words1, NEW l, NEW c \in Int, NEW at, NEW slot, at \in Labels,
         Frame(words, l, c, at, slot),
         \A x \in Int : \A w : x >= c - Below(at) /\ Has(words, x, w) => Has(words1, x, w)
  PROVE  Frame(words1, l, c, at, slot)
<1>1. Has(words1, c, Argument(l, "stack"))
  BY BelowIs DEF Frame
<1>2. ASSUME at \in {"common", "saved", "precall", "bound", "kept", "postcall"}
      PROVE  Has(words1, c - 8, ReturnAddress(l))
  BY <1>2, BelowIs DEF Frame
<1>21. ASSUME at = "parked"
       PROVE  Has(words1, c - 8, Result(l))
  BY <1>21, BelowIs DEF Frame
<1>3. ASSUME at \in {"saved", "precall", "bound", "kept"}
      PROVE  /\ Has(words1, c - FxBelow, Argument(l, "fx"))
             /\ \A i \in 1 .. 7 : Has(words1, c - FxBelow - 8 * i, Argument(l, Pushed[i]))
  <2>1. Below(at) \in {608, 616}
    BY <1>3, BelowIs
  <2>2. Has(words1, c - 528, Argument(l, "fx"))
    BY <1>3, <2>1 DEF Frame
  <2>3. ASSUME NEW i \in 1 .. 7
        PROVE  Has(words1, c - 528 - 8 * i, Argument(l, Pushed[i]))
    <3>1. Has(words, c - 528 - 8 * i, Argument(l, Pushed[i]))
      BY <1>3 DEF Frame
    <3> QED
      BY <2>1, <3>1
  <2> QED
    BY <2>2, <2>3
<1>4. ASSUME at \in {"bound", "kept"}
      PROVE  /\ Has(words1, c - FrameBelow, Rep(l))
             /\ Has(words1, c - FrameBelow - FretBytes, Function(Rep(l), Num(slot)))
  BY <1>4, BelowIs DEF Frame
<1> QED
  BY <1>1, <1>2, <1>21, <1>3, <1>4 DEF Frame

LEMMA SavingIs ==
  ASSUME NEW l \in Nat
  PROVE  Manager(l) \in Saving /\ ReturnAddress(l) \in Saving
  BY DEF Saving

\* The innermost call, when there is one.
LEMMA TopIs ==
  ASSUME FuncInv, calls # << >>
  PROVE  /\ Level \in Nat \ {0} /\ Level \in 1 .. Level
         /\ Top \in Call /\ Top = calls[Level] /\ \A l \in 1 .. Level : calls[l] \in Call
         /\ Top.caller \in Int /\ Top.slot \in Slots /\ Top.alt \in Seq(Saving)
         /\ FrameInv(Level) /\ CallInv(Level)
         /\ rsp = Top.caller - Below(Top.at) /\ rsp \in Int
         /\ altstack = AltAt(Top.at, Top.alt, Level) /\ AltAt(Top.at, Top.alt, Level) \in Seq(Saving)
         /\ Frame(stack, Level, Top.caller, Top.at, Top.slot)
         /\ RegsAt(regs, Level, Top.at, Top.args, Top.slot)
         /\ Top.args = [r \in Regs |-> Argument(Level, r)] /\ DOMAIN regs = Regs
<1>1. Level \in Nat \ {0} /\ Level \in 1 .. Level /\ \A l \in 1 .. Level : calls[l] \in Call
  BY DEF FuncInv, Level
<1>2. Top \in Call /\ Top = calls[Level]
  BY <1>1 DEF Top
<1>3. Top.caller \in Int /\ Top.slot \in Slots /\ Top.alt \in Seq(Saving)
  BY <1>2 DEF Call
<1>4. rsp = Top.caller - Below(Top.at) /\ altstack = AltAt(Top.at, Top.alt, Level)
  BY <1>2 DEF FuncInv, TopInv, Low, AltOf
<1>5. rsp \in Int
  BY <1>3, <1>4, BelowIs
<1>6. AltAt(Top.at, Top.alt, Level) \in Seq(Saving)
  BY <1>1, <1>3, SavingIs DEF AltAt
<1>7. FrameInv(Level) /\ CallInv(Level)
  BY <1>1 DEF FuncInv
<1>8. Frame(stack, Level, Top.caller, Top.at, Top.slot)
  BY <1>2, <1>7 DEF FrameInv
<1>9. RegsAt(regs, Level, Top.at, Top.args, Top.slot) /\ DOMAIN regs = Regs
  BY DEF FuncInv, TopInv
<1>10. Top.args = [r \in Regs |-> Argument(Level, r)]
  BY <1>2, <1>7 DEF CallInv
<1> QED
  BY <1>1, <1>2, <1>3, <1>4, <1>5, <1>6, <1>7, <1>8, <1>9, <1>10

LEMMA LowIs ==
  ASSUME NEW l, calls[l] \in Call
  PROVE  /\ calls[l].caller \in Int /\ Low(l) \in Int /\ Low(l) <= calls[l].caller
         /\ calls[l].at \in {"saved", "bound", "kept"} => Low(l) = calls[l].caller - 608
         /\ calls[l].at = "precall" => Low(l) = calls[l].caller - 616
         /\ calls[l].at \in {"post", "returned"} => Low(l) = calls[l].caller
         /\ calls[l].at \in {"common", "enter", "body", "parked", "postcall"} =>
              Low(l) = calls[l].caller - 8
<1>1. calls[l].caller \in Int
  BY DEF Call
<1>2. Low(l) = calls[l].caller - Below(calls[l].at)
  BY DEF Low
<1> DEFINE at == calls[l].at  c == calls[l].caller
<1> HIDE DEF at, c
<1>3. Low(l) = c - Below(at) /\ c \in Int
  BY <1>1, <1>2 DEF at, c
<1>4. /\ Low(l) \in Int /\ Low(l) <= c
      /\ at \in {"saved", "bound", "kept"} => Low(l) = c - 608
      /\ at = "precall" => Low(l) = c - 616
      /\ at \in {"post", "returned"} => Low(l) = c
      /\ at \in {"common", "enter", "body", "parked", "postcall"} => Low(l) = c - 8
  BY <1>3, BelowIs
<1> QED
  BY <1>1, <1>4 DEF at, c

\* The words at and above low are as they were.
KeptFrom(low) == \A x \in Int : \A w : x >= low /\ Has(stack, x, w) => Has(stack', x, w)

\* A step of the innermost call leaves the others alone, when it keeps the
\* words from its caller's on.
LEMMA TopMoves ==
  ASSUME FuncInv, calls # << >>,
         calls' \in Seq(Call), Len(calls') = Level,
         \A l \in 1 .. Level - 1 : calls'[l] = calls[l],
         calls'[Level].caller = Top.caller, calls'[Level].alt = Top.alt,
         KeptFrom(Top.caller + 8),
         FrameInv(Level)', CallInv(Level)', TopInv'
  PROVE  FuncInv'
<1>1. /\ Level \in Nat \ {0} /\ \A l \in 1 .. Level : calls[l] \in Call
      /\ Top = calls[Level] /\ Top.caller \in Int
  BY TopIs
<1>2. Level' = Level
  BY DEF Level
<1>3. \A l \in 1 .. Level : calls'[l].caller = calls[l].caller /\ calls'[l].alt = calls[l].alt
  BY <1>1
<1>4. \A l \in 1 .. Level : calls[l].caller \in Int /\ Low(l) \in Int /\ Low(l) <= calls[l].caller
  BY <1>1, LowIs
<1>5. \A l \in 1 .. Level - 1 : Low(l)' = Low(l) /\ AltOf(l)' = AltOf(l)
  BY DEF Low, AltOf
<1>6. ASSUME NEW l \in 1 .. Level - 1
      PROVE  FrameInv(l)' /\ CallInv(l)'
  <2>1. FrameInv(l) /\ CallInv(l) /\ Top.caller + 8 <= Low(l)
        /\ calls[l].caller \in Int /\ calls'[l] = calls[l] /\ l \in 1 .. Level
    BY <1>1, <1>4 DEF FuncInv, ApartInv
  <2>2. CallInv(l)'
    BY <2>1 DEF CallInv
  <2>3. \A x \in Int : \A w : x >= Low(l) /\ Has(stack, x, w) => Has(stack', x, w)
    BY <1>1, <1>4, <2>1 DEF KeptFrom
  <2>4. calls[l].at \in Labels
    BY <1>1, <2>1 DEF Call
  <2>5. Frame(stack', l, calls[l].caller, calls[l].at, calls[l].slot)
    BY <2>1, <2>3, <2>4, FrameKept DEF FrameInv, Low
  <2>6. FrameInv(l)'
    BY <2>1, <2>5 DEF FrameInv
  <2> QED
    BY <2>2, <2>6
<1>7. \A l \in 1 .. Level' : FrameInv(l)' /\ CallInv(l)'
  BY <1>1, <1>2, <1>6
<1>8. \A l \in 1 .. Level' - 1 : LinkInv(l)'
  <2> SUFFICES ASSUME NEW l \in 1 .. Level - 1
               PROVE  LinkInv(l)'
    BY <1>2
  <2>1. LinkInv(l) /\ l + 1 \in 1 .. Level
    BY <1>1 DEF FuncInv
  <2> QED
    BY <1>3, <1>5, <2>1 DEF LinkInv
<1>9. ApartInv'
  <2> SUFFICES ASSUME NEW k \in 1 .. Level, NEW l \in 1 .. Level, k < l
               PROVE  calls'[l].caller + 8 <= Low(k)'
    BY <1>2 DEF ApartInv
  <2>1. k \in 1 .. Level - 1
    BY <1>1
  <2> QED
    BY <1>3, <1>5, <2>1 DEF FuncInv, ApartInv
<1>10. Level' > 0 => calls'[1].caller = 4080 /\ calls'[1].alt = << >>
  BY <1>1, <1>2, <1>3 DEF FuncInv
<1> QED
  BY <1>7, <1>8, <1>9, <1>10 DEF FuncInv

LEMMA CallMoved ==
  ASSUME NEW k \in Call, NEW label \in Labels
  PROVE  LET t == [k EXCEPT !.at = label]
         IN  /\ t \in Call /\ t.at = label /\ t.slot = k.slot /\ t.args = k.args
             /\ t.caller = k.caller /\ t.frame = k.frame /\ t.alt = k.alt
             /\ t.fnum = k.fnum /\ t.back = k.back
  BY DEF Call

LEMMA CallReturned ==
  ASSUME NEW k \in Call, NEW back \in Backs
  PROVE  LET t == [k EXCEPT !.at = "returned", !.back = back]
         IN  /\ t \in Call /\ t.at = "returned" /\ t.slot = k.slot /\ t.args = k.args
             /\ t.caller = k.caller /\ t.alt = k.alt /\ t.back = back
  BY DEF Call, Labels

\* The same for a step that makes t of the innermost call.
LEMMA TopSteps ==
  ASSUME FuncInv, calls # << >>, NEW t \in Call, calls' = [calls EXCEPT ![Level] = t],
         t.caller = Top.caller, t.alt = Top.alt, t.args = Top.args, t.slot = Top.slot,
         t.at \in {"saved", "precall", "bound", "kept"} =>
           t.frame = t.caller - FrameBelow /\ t.fnum = Num(t.slot),
         t.at = "returned" => t.back = ReturnAddress(Level),
         KeptFrom(Top.caller + 8), Frame(stack', Level, t.caller, t.at, t.slot),
         rsp' = t.caller - Below(t.at), altstack' = AltAt(t.at, t.alt, Level),
         DOMAIN regs' = Regs, RegsAt(regs', Level, t.at, t.args, t.slot)
  PROVE  FuncInv'
<1>1. Level \in Nat \ {0} /\ Level \in 1 .. Level /\ calls \in Seq(Call) /\ CallInv(Level)
      /\ Top = calls[Level]
  BY TopIs DEF FuncInv
<1>2. /\ calls' \in Seq(Call) /\ Len(calls') = Level /\ calls'[Level] = t
      /\ \A l \in 1 .. Level - 1 : calls'[l] = calls[l]
  BY <1>1 DEF Level
<1>3. Level' = Level /\ Top' = t /\ calls' # << >>
  BY <1>1, <1>2 DEF Level, Top
<1>4. FrameInv(Level)'
  BY <1>2, <1>3 DEF FrameInv
<1>5. CallInv(Level)'
  BY <1>1, <1>2, <1>3 DEF CallInv
<1>6. TopInv'
  BY <1>2, <1>3 DEF TopInv, Low, AltOf
<1> QED
  BY <1>2, <1>4, <1>5, <1>6, TopMoves

\* And for one that only moves it to the next label.
LEMMA TopGoes ==
  ASSUME FuncInv, calls # << >>, NEW label \in Labels \ {"returned"}, Goto(label),
         label \in {"precall", "bound", "kept"} => Top.at \in {"saved", "precall", "bound"},
         label # "saved",
         KeptFrom(Top.caller + 8), Frame(stack', Level, Top.caller, label, Top.slot),
         rsp' = Top.caller - Below(label), altstack' = AltAt(label, Top.alt, Level),
         DOMAIN regs' = Regs, RegsAt(regs', Level, label, Top.args, Top.slot)
  PROVE  FuncInv'
<1>1. Level \in 1 .. Level /\ Top \in Call /\ Top = calls[Level] /\ CallInv(Level)
  BY TopIs
<1>2. PICK t : t = [Top EXCEPT !.at = label]
  OBVIOUS
<1>3. /\ t \in Call /\ t.at = label /\ t.slot = Top.slot /\ t.args = Top.args
      /\ t.caller = Top.caller /\ t.frame = Top.frame /\ t.alt = Top.alt
      /\ t.fnum = Top.fnum
  BY <1>1, <1>2, CallMoved
<1>4. calls' = [calls EXCEPT ![Level] = t]
  BY <1>1, <1>2 DEF Goto
<1>5. t.at \in {"saved", "precall", "bound", "kept"} =>
        t.frame = t.caller - FrameBelow /\ t.fnum = Num(t.slot)
  BY <1>1, <1>3 DEF CallInv
<1> QED
  BY <1>3, <1>4, <1>5, TopSteps

-----------------------------------------------------------------------------
\* The steps of a call.

LEMMA ReturnedIs ==
  ASSUME NEW value
  PROVE  DOMAIN Returned(value) = Regs /\ Returned(value).rax = value
  BY RegsAre DEF Returned

LEMMA StepEnterPrecall ==
  ASSUME FuncInv, EnterPrecall
  PROVE  FuncInv'
<1>1. calls # << >> /\ Top.at = "saved" /\ Goto("precall") /\ rsp' = rsp - 8
      /\ UNCHANGED <<regs, stack, altstack>>
  BY DEF EnterPrecall, At
<1>2. Frame(stack, Level, Top.caller, "precall", Top.slot)
  BY <1>1, TopIs DEF Frame
<1>3. rsp' = Top.caller - Below("precall") /\ KeptFrom(Top.caller + 8)
  BY <1>1, TopIs, BelowIs DEF KeptFrom
<1>4. altstack' = AltAt("precall", Top.alt, Level)
  BY <1>1, TopIs DEF AltAt
<1>5. DOMAIN regs' = Regs /\ RegsAt(regs', Level, "precall", Top.args, Top.slot)
  BY <1>1, TopIs DEF RegsAt
<1> QED
  BY <1>1, <1>2, <1>3, <1>4, <1>5, TopGoes DEF Labels

LEMMA StepPrecallReturns ==
  ASSUME FuncInv, PrecallReturns
  PROVE  FuncInv'
<1>1. calls # << >> /\ Top.at = "precall" /\ Goto("bound") /\ rsp' = rsp + 8
      /\ altstack' = Append(altstack, Manager(Level)) /\ regs' = Returned(Num(1))
  BY DEF PrecallReturns, At
<1>2. Top.frame = Top.caller - 592 /\ Top.fnum = Num(Top.slot)
  BY <1>1, TopIs DEF CallInv
<1>3. PICK c \in Int : c = Top.caller
  BY <1>1, TopIs
<1>4. rsp' = c - 608 /\ rsp' = Top.caller - Below("bound")
  BY <1>1, <1>3, TopIs, BelowIs
<1> DEFINE kept == AtOrAbove(c - 608, stack)
           found == Store(kept, c - 592, Rep(Level))
           next == Store(found, c - 608, Function(Rep(Level), Num(Top.slot)))
<1>5. stack' = next
  <2>1. Top.frame = c - 592 /\ Top.frame - FretBytes = c - 608
    BY <1>2, <1>3
  <2> QED
    BY <1>2, <1>4, <2>1 DEF PrecallReturns
<1>6. \A x \in Int : \A w : x >= c - 608 /\ x # c - 592 /\ x # c - 608 /\ Has(stack, x, w)
        => Has(next, x, w)
  <2>1. \A x \in Int : \A w : x >= c - 608 /\ Has(stack, x, w) => Has(kept, x, w)
    BY AboveHas
  <2>2. \A x \in Int : \A w : x # c - 592 /\ Has(kept, x, w) => Has(found, x, w)
    BY StoreHas
  <2>3. \A x \in Int : \A w : x # c - 608 /\ Has(found, x, w) => Has(next, x, w)
    BY StoreHas
  <2> QED
    BY <2>1, <2>2, <2>3
<1>7. Has(next, c - 608, Function(Rep(Level), Num(Top.slot))) /\ Has(next, c - 592, Rep(Level))
  <2>1. Has(found, c - 592, Rep(Level)) /\ c - 592 # c - 608
    BY StoreHas
  <2> QED
    BY <2>1, StoreHas
<1> HIDE DEF next
<1>8. Frame(stack, Level, c, "precall", Top.slot)
  BY <1>1, <1>3, TopIs
<1>9. Frame(next, Level, c, "bound", Top.slot)
  <2>1. Has(next, c, Argument(Level, "stack")) /\ Has(next, c - 8, ReturnAddress(Level))
        /\ Has(next, c - 528, Argument(Level, "fx"))
    BY <1>6, <1>8 DEF Frame
  <2>2. ASSUME NEW i \in 1 .. 7
        PROVE  Has(next, c - 528 - 8 * i, Argument(Level, Pushed[i]))
    <3>1. Has(stack, c - 528 - 8 * i, Argument(Level, Pushed[i]))
      BY <1>8 DEF Frame
    <3> QED
      BY <1>6, <3>1
  <2> QED
    BY <1>7, <2>1, <2>2 DEF Frame
<1>10. KeptFrom(Top.caller + 8)
  BY <1>3, <1>5, <1>6 DEF KeptFrom
<1>11. altstack' = AltAt("bound", Top.alt, Level)
  BY <1>1, TopIs DEF AltAt
<1>12. DOMAIN regs' = Regs /\ RegsAt(regs', Level, "bound", Top.args, Top.slot)
  BY <1>1, ReturnedIs DEF RegsAt
<1> QED
  BY <1>1, <1>3, <1>4, <1>5, <1>9, <1>10, <1>11, <1>12, TopGoes DEF Labels

LEMMA StepKeepReturn ==
  ASSUME FuncInv, KeepReturn
  PROVE  FuncInv'
<1>1. calls # << >> /\ Top.at = "bound" /\ Goto("kept") /\ UNCHANGED <<rsp, stack>>
      /\ altstack' = Append(altstack, stack[rsp + FxBytes + ArgBytes + FretBytes])
      /\ regs' = Returned(Junk)
  BY DEF KeepReturn, At
<1>2. Frame(stack, Level, Top.caller, "bound", Top.slot)
      /\ Frame(stack, Level, Top.caller, "kept", Top.slot)
  BY <1>1, TopIs DEF Frame
<1>3. rsp' = Top.caller - Below("kept") /\ KeptFrom(Top.caller + 8)
      /\ rsp + FxBytes + ArgBytes + FretBytes = Top.caller - 8
  <2>1. rsp = Top.caller - 608 /\ Top.caller \in Int
    BY <1>1, TopIs, BelowIs
  <2>2. KeptFrom(Top.caller + 8)
    BY <1>1 DEF KeptFrom
  <2>3. rsp' = Top.caller - Below("kept")
    <3>1. Below("kept") = 608 /\ rsp' = rsp
      BY <1>1, BelowIs
    <3> QED
      BY <2>1, <3>1
  <2>4. rsp + FxBytes + ArgBytes + FretBytes = Top.caller - 8
    <3>1. rsp + 520 + 64 + 16 = Top.caller - 8
      BY <2>1
    <3> QED
      BY <3>1
  <2> QED
    BY <2>2, <2>3, <2>4
<1>4. stack[rsp + FxBytes + ArgBytes + FretBytes] = ReturnAddress(Level)
  BY <1>2, <1>3 DEF Frame, Has
<1>5. altstack' = AltAt("kept", Top.alt, Level)
  BY <1>1, <1>4, TopIs DEF AltAt
<1>6. DOMAIN regs' = Regs /\ RegsAt(regs', Level, "kept", Top.args, Top.slot)
  BY <1>1, ReturnedIs DEF RegsAt
<1> QED
  BY <1>1, <1>2, <1>3, <1>5, <1>6, TopGoes DEF Labels

LEMMA StepRun ==
  ASSUME FuncInv, Run
  PROVE  FuncInv'
<1>1. calls # << >> /\ Top.at = "enter" /\ Goto("body") /\ UNCHANGED <<regs, rsp, stack, altstack>>
  BY DEF Run, At
<1>2. Frame(stack, Level, Top.caller, "body", Top.slot)
  BY <1>1, TopIs DEF Frame
<1>3. rsp' = Top.caller - Below("body") /\ KeptFrom(Top.caller + 8)
  BY <1>1, TopIs, BelowIs DEF KeptFrom
<1>4. altstack' = AltAt("body", Top.alt, Level)
  BY <1>1, TopIs DEF AltAt
<1>5. DOMAIN regs' = Regs /\ RegsAt(regs', Level, "body", Top.args, Top.slot)
  BY <1>1, TopIs DEF RegsAt
<1> QED
  BY <1>1, <1>2, <1>3, <1>4, <1>5, TopGoes DEF Labels

LEMMA StepFunctionReturns ==
  ASSUME FuncInv, FunctionReturns
  PROVE  FuncInv'
<1>1. calls # << >> /\ Top.at = "body" /\ Goto("post") /\ rsp' = rsp + 8
      /\ stack' = AtOrAbove(rsp', stack) /\ regs' = Returned(Result(Level))
      /\ UNCHANGED altstack
  BY DEF FunctionReturns, At
<1>2. rsp' = Top.caller /\ Top.caller \in Int /\ rsp' = Top.caller - Below("post")
  BY <1>1, TopIs, BelowIs
<1>3. \A x \in Int : \A w : x >= Top.caller /\ Has(stack, x, w) => Has(stack', x, w)
  BY <1>1, <1>2, AboveHas
<1>4. Frame(stack', Level, Top.caller, "post", Top.slot) /\ KeptFrom(Top.caller + 8)
  BY <1>1, <1>2, <1>3, TopIs DEF Frame, KeptFrom
<1>5. altstack' = AltAt("post", Top.alt, Level)
  BY <1>1, TopIs DEF AltAt
<1>6. DOMAIN regs' = Regs /\ RegsAt(regs', Level, "post", Top.args, Top.slot)
  BY <1>1, ReturnedIs DEF RegsAt
<1> QED
  BY <1>1, <1>2, <1>4, <1>5, <1>6, TopGoes DEF Labels

\* The pops put every register back, but for the one that now holds the
\* representative and the one that holds the function.
LEMMA PopsRestore ==
  ASSUME FuncInv, Restore
  PROVE  regs' = [Top.args EXCEPT !.rdi = Rep(Level),
                                  !.r11 = Function(Rep(Level), Num(Top.slot))]
<1>1. calls # << >> /\ Top.at = "kept" /\ Top.args = [r \in Regs |-> Argument(Level, r)]
  BY TopIs DEF Restore, At
<1>2. PICK c \in Int : c = Top.caller
  BY <1>1, TopIs
<1>3. rsp = c - 608 /\ rsp + FretBytes = c - 592
  BY <1>1, <1>2, TopIs, BelowIs
<1>4. regs' = [r \in Regs |-> IF r = "r11" THEN stack[c - 608] ELSE stack[PopAt(c - 592, r)]]
  BY <1>3 DEF Restore
<1>5. Frame(stack, Level, c, "kept", Top.slot)
  BY <1>1, <1>2, TopIs
<1>6. /\ stack[c - 608] = Function(Rep(Level), Num(Top.slot)) /\ stack[c - 592] = Rep(Level)
      /\ stack[c - 528] = Argument(Level, "fx")
      /\ \A i \in 1 .. 7 : stack[c - 528 - 8 * i] = Argument(Level, Pushed[i])
  BY <1>5 DEF Frame, Has
<1>7. stack[PopAt(c - 592, "fx")] = Argument(Level, "fx")
  BY <1>6, PopsMatch
<1>8. stack[PopAt(c - 592, "rdi")] = Rep(Level)
  <2>1. PopAt(c - 592, Pushed[8]) = c - 592
    BY PopsMatch
  <2> QED
    BY <1>6, <2>1, PushedIs
<1>9. ASSUME NEW i \in 1 .. 7
      PROVE  stack[PopAt(c - 592, Pushed[i])] = Argument(Level, Pushed[i])
  <2>1. PopAt(c - 592, Pushed[i]) = c - 528 - 8 * i
    BY PopsMatch
  <2> QED
    BY <1>6, <2>1
<1>10. \A r \in Regs : r \notin {"r11", "rdi"} => stack[PopAt(c - 592, r)] = Argument(Level, r)
  BY <1>7, <1>9, RegsAre, PushedIs
<1> DEFINE right == [Top.args EXCEPT !.rdi = Rep(Level),
                                     !.r11 = Function(Rep(Level), Num(Top.slot))]
<1>11. /\ DOMAIN right = Regs
       /\ \A r \in Regs : right[r] = IF r = "r11" THEN Function(Rep(Level), Num(Top.slot))
                                     ELSE IF r = "rdi" THEN Rep(Level) ELSE Argument(Level, r)
  BY <1>1
<1>12. right = [r \in Regs |-> right[r]]
  BY <1>1
<1> HIDE DEF right
<1>13. \A r \in Regs : regs'[r] = right[r]
  BY <1>4, <1>6, <1>8, <1>10, <1>11
<1> QED
  BY <1>4, <1>12, <1>13 DEF right

LEMMA StepRestore ==
  ASSUME FuncInv, Restore
  PROVE  FuncInv'
<1>1. calls # << >> /\ Top.at = "kept" /\ Goto("enter") /\ UNCHANGED altstack
  BY DEF Restore, At
<1>2. PICK c \in Int : c = Top.caller
  BY <1>1, TopIs
<1>3. rsp = c - 608
  BY <1>1, <1>2, TopIs, BelowIs
<1>4. rsp' = c - 8 /\ rsp' = Top.caller - Below("enter")
  BY <1>2, <1>3, BelowIs DEF Restore
<1>5. stack' = Store(AtOrAbove(c, stack), c - 8, <<"post_foo_call">>)
  <2>1. rsp + FretBytes + ArgBytes + FxBytes + 8 = c /\ c - 8 \in Int
    BY <1>3
  <2> QED
    BY <2>1 DEF Restore
<1>6. \A x \in Int : \A w : x >= c /\ Has(stack, x, w) => Has(stack', x, w)
  <2>1. \A x \in Int : \A w : x >= c /\ Has(stack, x, w) => Has(AtOrAbove(c, stack), x, w)
    BY AboveHas
  <2> QED
    BY <1>5, <2>1, StoreHas
<1>7. Frame(stack', Level, Top.caller, "enter", Top.slot) /\ KeptFrom(Top.caller + 8)
  <2>1. Frame(stack', Level, c, "enter", Top.slot)
    <3>1. Frame(stack, Level, c, "kept", Top.slot)
      BY <1>1, <1>2, TopIs
    <3>2. Has(stack', c, Argument(Level, "stack"))
      BY <1>6, <3>1 DEF Frame
    <3> QED
      BY <3>2 DEF Frame
  <2>2. KeptFrom(c + 8)
    BY <1>6 DEF KeptFrom
  <2> QED
    BY <1>2, <2>1, <2>2
<1>8. altstack' = AltAt("enter", Top.alt, Level)
  BY <1>1, TopIs DEF AltAt
<1>9. DOMAIN regs' = Regs
  BY DEF Restore
<1>10. RegsAt(regs', Level, "enter", Top.args, Top.slot)
  BY PopsRestore DEF RegsAt
<1> QED
  BY <1>1, <1>4, <1>7, <1>8, <1>9, <1>10, TopGoes DEF Labels

LEMMA StepPark ==
  ASSUME FuncInv, Park
  PROVE  FuncInv'
<1>1. calls # << >> /\ Top.at = "post" /\ Goto("parked") /\ rsp' = rsp - 8
      /\ stack' = Store(stack, rsp', regs.rax) /\ UNCHANGED <<regs, altstack>>
  BY DEF Park, At
<1>2. rsp' = Top.caller - 8 /\ Top.caller \in Int /\ rsp' = Top.caller - Below("parked")
  BY <1>1, TopIs, BelowIs
<1>3. regs.rax = Result(Level)
  BY <1>1, TopIs DEF RegsAt
<1>4. /\ Has(stack', Top.caller - 8, Result(Level))
      /\ \A x \in Int : \A w : x # Top.caller - 8 /\ Has(stack, x, w) => Has(stack', x, w)
  BY <1>1, <1>2, <1>3, StoreHas
<1>5. Frame(stack', Level, Top.caller, "parked", Top.slot)
  BY <1>1, <1>2, <1>4, TopIs DEF Frame
<1>6. KeptFrom(Top.caller + 8)
  BY <1>2, <1>4 DEF KeptFrom
<1>7. altstack' = AltAt("parked", Top.alt, Level)
  BY <1>1, TopIs DEF AltAt
<1>8. DOMAIN regs' = Regs /\ RegsAt(regs', Level, "parked", Top.args, Top.slot)
  BY <1>1, TopIs DEF RegsAt
<1> QED
  BY <1>1, <1>2, <1>5, <1>6, <1>7, <1>8, TopGoes DEF Labels

LEMMA StepGiveReturn ==
  ASSUME FuncInv, GiveReturn
  PROVE  FuncInv'
<1>1. calls # << >> /\ Top.at = "parked" /\ Goto("postcall") /\ rsp' = rsp
      /\ altstack' = Front(altstack) /\ stack' = Store(stack, rsp, Last(altstack))
      /\ regs' = [Returned(Last(altstack)) EXCEPT !.rdi = stack[rsp]]
  BY DEF GiveReturn, At
<1>2. rsp = Top.caller - 8 /\ Top.caller \in Int /\ rsp' = Top.caller - Below("postcall")
  BY <1>1, TopIs, BelowIs
<1>3. Last(altstack) = ReturnAddress(Level) /\ Front(altstack) = Append(Top.alt, Manager(Level))
  <2>1. altstack = Append(Append(Top.alt, Manager(Level)), ReturnAddress(Level))
        /\ Top.alt \in Seq(Saving) /\ Level \in Nat
    BY <1>1, TopIs DEF AltAt
  <2>2. Append(Top.alt, Manager(Level)) \in Seq(Saving) /\ ReturnAddress(Level) \in Saving
    BY <2>1, SavingIs
  <2> QED
    BY <2>1, <2>2, LastAppended
<1>4. /\ Has(stack', Top.caller - 8, ReturnAddress(Level))
      /\ \A x \in Int : \A w : x # Top.caller - 8 /\ Has(stack, x, w) => Has(stack', x, w)
  BY <1>1, <1>2, <1>3, StoreHas
<1>5. Frame(stack', Level, Top.caller, "postcall", Top.slot)
  BY <1>1, <1>2, <1>4, TopIs DEF Frame
<1>6. KeptFrom(Top.caller + 8)
  BY <1>2, <1>4 DEF KeptFrom
<1>7. altstack' = AltAt("postcall", Top.alt, Level)
  BY <1>1, <1>3 DEF AltAt
<1>8. stack[rsp] = Result(Level)
  BY <1>1, <1>2, TopIs DEF Frame, Has
<1>9. DOMAIN regs' = Regs /\ regs'.rdi = Result(Level)
  BY <1>1, <1>8, ReturnedIs, RegsAre
<1>10. RegsAt(regs', Level, "postcall", Top.args, Top.slot)
  BY <1>9 DEF RegsAt
<1> QED
  BY <1>1, <1>2, <1>5, <1>6, <1>7, <1>9, <1>10, TopGoes DEF Labels

LEMMA StepPostcallReturns ==
  ASSUME FuncInv, PostcallReturns
  PROVE  FuncInv'
<1>1. calls # << >> /\ Top.at = "postcall" /\ rsp' = rsp + 8 /\ altstack' = Front(altstack)
      /\ stack' = AtOrAbove(rsp', stack) /\ regs' = Returned(regs.rdi)
  BY DEF PostcallReturns, At
<1>2. rsp = Top.caller - 8 /\ rsp' = Top.caller /\ Top.caller \in Int
      /\ rsp' = Top.caller - Below("returned")
  BY <1>1, TopIs, BelowIs
<1>3. stack[rsp] = ReturnAddress(Level) /\ ReturnAddress(Level) \in Backs
  BY <1>1, <1>2, TopIs DEF Frame, Has, Backs
<1>4. PICK t : t = [Top EXCEPT !.at = "returned", !.back = ReturnAddress(Level)]
  OBVIOUS
<1>5. /\ t \in Call /\ t.at = "returned" /\ t.slot = Top.slot /\ t.args = Top.args
      /\ t.caller = Top.caller /\ t.alt = Top.alt /\ t.back = ReturnAddress(Level)
  <2>1. Top \in Call
    BY <1>1, TopIs
  <2> QED
    BY <1>3, <1>4, <2>1, CallReturned
<1>6. calls' = [calls EXCEPT ![Level] = t]
  <2>1. calls' = [calls EXCEPT ![Level].at = "returned", ![Level].back = ReturnAddress(Level)]
    BY <1>3 DEF PostcallReturns
  <2>2. Level \in 1 .. Level /\ Top = calls[Level] /\ calls \in Seq(Call)
    BY <1>1, TopIs DEF FuncInv
  <2> QED
    BY <1>4, <2>1, <2>2
<1>7. altstack' = AltAt("returned", Top.alt, Level)
  <2>1. altstack = Append(Top.alt, Manager(Level)) /\ Top.alt \in Seq(Saving) /\ Level \in Nat
    BY <1>1, TopIs DEF AltAt
  <2>2. Front(altstack) = Top.alt
    BY <2>1, SavingIs, LastAppended
  <2> QED
    BY <1>1, <2>2 DEF AltAt
<1>8. \A x \in Int : \A w : x >= Top.caller /\ Has(stack, x, w) => Has(stack', x, w)
  BY <1>1, <1>2, AboveHas
<1>9. Frame(stack', Level, Top.caller, "returned", Top.slot)
  BY <1>1, <1>2, <1>8, TopIs DEF Frame
<1>10. KeptFrom(Top.caller + 8)
  BY <1>2, <1>8 DEF KeptFrom
<1>11. DOMAIN regs' = Regs /\ RegsAt(regs', Level, "returned", Top.args, Top.slot)
  BY <1>1, ReturnedIs, TopIs DEF RegsAt
<1> QED
  BY <1>1, <1>2, <1>5, <1>6, <1>7, <1>9, <1>10, <1>11, TopSteps

\* What the pushes leave in memory.
LEMMA PushRegsIs ==
  ASSUME NEW words, NEW sp \in Int, NEW m, m = PushRegs([sp |-> sp, words |-> words])
  PROVE  /\ m.sp = sp - 64
         /\ \A i \in 1 .. 8 : Has(m.words, sp - 8 * i, regs[Pushed[i]])
         /\ \A x \in Int : \A w : x >= sp /\ Has(words, x, w) => Has(m.words, x, w)
<1>1. /\ m.sp = sp - 64
      /\ m.words = [a \in DOMAIN words \cup {sp - 8 * i : i \in 1 .. 8} |->
                      IF a < sp THEN regs[Pushed[(sp - a) \div 8]] ELSE words[a]]
  BY PushedIs DEF PushRegs
<1>2. ASSUME NEW i \in 1 .. 8
      PROVE  Has(m.words, sp - 8 * i, regs[Pushed[i]])
  <2>1. sp - (sp - 8 * i) = 8 * i /\ (8 * i) \div 8 = i /\ sp - 8 * i < sp
    OBVIOUS
  <2>2. sp - 8 * i \in DOMAIN m.words
    BY <1>1
  <2> QED
    BY <1>1, <2>1, <2>2 DEF Has
<1>3. ASSUME NEW x \in Int, NEW w, x >= sp, Has(words, x, w)
      PROVE  Has(m.words, x, w)
  BY <1>1, <1>3 DEF Has
<1> QED
  BY <1>1, <1>2, <1>3

LEMMA StepSave ==
  ASSUME FuncInv, Save
  PROVE  FuncInv'
<1>1. calls # << >> /\ Top.at = "common" /\ UNCHANGED <<regs, altstack>>
  BY DEF Save, At
<1>2. PICK c \in Int : c = Top.caller
  BY <1>1, TopIs
<1>3. rsp = c - 8 /\ rsp - FxBytes = c - 528
  BY <1>1, <1>2, TopIs, BelowIs
<1>4. PICK words : words = Store(stack, rsp - FxBytes, regs.fx)
  OBVIOUS
<1>5. PICK m : m = PushRegs([sp |-> rsp - FxBytes, words |-> words])
  OBVIOUS
<1>6. /\ rsp' = m.sp - FretBytes /\ stack' = m.words
      /\ calls' = [calls EXCEPT ![Level] = [@ EXCEPT !.at = "saved", !.frame = m.sp,
                                                      !.fnum = regs.r11]]
  <2> DEFINE pushed == PushRegs([sp |-> rsp - FxBytes,
                                 words |-> Store(stack, rsp - FxBytes, regs.fx)])
  <2>1. m = pushed
    BY <1>4, <1>5, Zenon
  <2>2. rsp' = pushed.sp - FretBytes
    BY Zenon DEF Save
  <2>3. stack' = pushed.words
    BY Zenon DEF Save
  <2>4. calls' = [calls EXCEPT ![Level] = [@ EXCEPT !.at = "saved", !.frame = pushed.sp,
                                                    !.fnum = regs.r11]]
    BY Zenon DEF Save
  <2> HIDE DEF pushed
  <2> QED
    BY <2>1, <2>2, <2>3, <2>4, Zenon
<1>7. /\ m.sp = c - 592
      /\ \A i \in 1 .. 8 : Has(m.words, c - 528 - 8 * i, regs[Pushed[i]])
      /\ \A x \in Int : \A w : x >= c - 528 /\ Has(words, x, w) => Has(m.words, x, w)
  BY <1>3, <1>5, PushRegsIs
<1>8. /\ regs.r11 = Num(Top.slot) /\ regs.fx = Argument(Level, "fx")
      /\ \A i \in 1 .. 7 : regs[Pushed[i]] = Argument(Level, Pushed[i])
  <2>1. regs = [[r \in Regs |-> Argument(Level, r)] EXCEPT !.r11 = Num(Top.slot)]
    BY <1>1, TopIs DEF RegsAt
  <2>2. \A r \in Regs : r # "r11" => regs[r] = Argument(Level, r)
    BY <2>1
  <2>3. regs.r11 = Num(Top.slot) /\ regs.fx = Argument(Level, "fx")
    BY <2>1, RegsAre
  <2>4. \A i \in 1 .. 7 : Pushed[i] \in Regs /\ Pushed[i] # "r11"
    BY PushedIs, RegsAre
  <2> QED
    BY <2>2, <2>3, <2>4
<1>81. PICK frame \in Int : frame = c - 592
  OBVIOUS
<1>82. PICK fnum \in Fnums : fnum = Num(Top.slot)
  BY <1>1, TopIs DEF Fnums
<1>9. PICK t : t = [Top EXCEPT !.at = "saved", !.frame = frame, !.fnum = fnum]
  OBVIOUS
<1>10. /\ t \in Call /\ t.at = "saved" /\ t.slot = Top.slot /\ t.args = Top.args
       /\ t.caller = Top.caller /\ t.alt = Top.alt /\ t.frame = frame /\ t.fnum = fnum
  <2>1. PICK k \in Call : k = Top
    BY <1>1, TopIs
  <2>2. t = [k EXCEPT !.at = "saved", !.frame = frame, !.fnum = fnum]
    BY <1>9, <2>1
  <2>3. /\ t \in Call /\ t.at = "saved" /\ t.slot = k.slot /\ t.args = k.args
        /\ t.caller = k.caller /\ t.alt = k.alt /\ t.frame = frame /\ t.fnum = fnum
    BY <2>2 DEF Call, Labels
  <2> QED
    BY <2>1, <2>3
<1>11. calls' = [calls EXCEPT ![Level] = t]
  <2>1. calls' = [calls EXCEPT ![Level] = [calls[Level] EXCEPT !.at = "saved", !.frame = m.sp,
                                                               !.fnum = regs.r11]]
    BY <1>6, Zenon
  <2>2. Top = calls[Level] /\ m.sp = frame /\ regs.r11 = fnum
    BY <1>1, <1>7, <1>8, <1>81, <1>82, TopIs
  <2> QED
    BY <1>9, <2>1, <2>2, Zenon
<1>12. \A x \in Int : \A w : x > c - 528 /\ Has(stack, x, w) => Has(stack', x, w)
  <2>1. \A x \in Int : \A w : x > c - 528 /\ Has(stack, x, w) => Has(words, x, w)
    BY <1>3, <1>4, StoreHas
  <2> QED
    BY <1>6, <1>7, <2>1
<1>13. Has(stack', c - 528, Argument(Level, "fx"))
  <2>1. Has(words, c - 528, regs.fx)
    BY <1>3, <1>4, StoreHas
  <2> QED
    BY <1>6, <1>7, <1>8, <2>1
<1>14. Frame(stack, Level, c, "common", Top.slot)
  BY <1>1, <1>2, TopIs
<1>15. Frame(stack', Level, c, "saved", Top.slot)
  <2>1. Has(stack', c, Argument(Level, "stack")) /\ Has(stack', c - 8, ReturnAddress(Level))
    BY <1>12, <1>14 DEF Frame
  <2>2. \A i \in 1 .. 7 : Has(stack', c - 528 - 8 * i, Argument(Level, Pushed[i]))
    BY <1>6, <1>7, <1>8
  <2> QED
    BY <1>13, <2>1, <2>2 DEF Frame
<1>16. KeptFrom(Top.caller + 8)
  BY <1>2, <1>12 DEF KeptFrom
<1>17. rsp' = Top.caller - Below("saved")
  BY <1>2, <1>6, <1>7, BelowIs
<1>18. altstack' = AltAt("saved", Top.alt, Level)
  BY <1>1, TopIs DEF AltAt
<1>19. DOMAIN regs' = Regs /\ RegsAt(regs', Level, "saved", Top.args, Top.slot)
  BY <1>1, TopIs DEF RegsAt
<1>20. t.frame = t.caller - FrameBelow /\ t.fnum = Num(t.slot)
       /\ Frame(stack', Level, t.caller, t.at, t.slot)
  BY <1>2, <1>81, <1>82, <1>10, <1>15
<1> QED
  BY <1>1, <1>10, <1>11, <1>16, <1>17, <1>18, <1>19, <1>20, TopSteps

\* A call begins where its caller's stack ends.
LEMMA StepCallEbb ==
  ASSUME FuncInv, NEW slot \in Called, CallEbb(slot)
  PROVE  FuncInv'
<1>0. Level \in Nat /\ calls \in Seq(Call) /\ (calls = << >> <=> Level = 0) /\ slot \in Slots
  BY CalledAssumption DEF FuncInv, Level
<1> PICK n \in Nat : n = Level
  BY <1>0
<1>1. PICK c : c = rsp - IF calls = << >> THEN 16 ELSE 8
  OBVIOUS
<1>2. /\ calls # << >> => Top.at \in {"precall", "body"}
      /\ UNCHANGED altstack
  BY DEF CallEbb
<1>3. /\ c \in Int /\ c % 16 = 0
      /\ calls = << >> => c = 4080 /\ altstack = << >>
      /\ calls # << >> => c = Low(n) - 8 /\ altstack = AltOf(n) /\ Low(n) \in Int
                          /\ Low(n) <= Top.caller
      /\ altstack \in Seq(Saving)
  <2>1. CASE calls = << >>
    <3>1. rsp = 4096 /\ altstack = << >>
      BY <2>1 DEF FuncInv, TopInv
    <3> QED
      BY <1>1, <2>1, <3>1
  <2>2. CASE calls # << >>
    <3>1. rsp = Low(n) /\ altstack = AltOf(n)
      BY <2>2 DEF FuncInv, TopInv
    <3>2. altstack \in Seq(Saving) /\ Top = calls[n] /\ Top \in Call
      BY <2>2, TopIs
    <3>3. PICK d \in Int : d = Top.caller /\ d % 16 = 0
      BY <2>2, TopIs DEF CallInv
    <3>4. Low(n) \in {d - 616, d - 8}
      BY <1>2, <2>2, <3>2, <3>3, LowIs
    <3>5. (d - 624) % 16 = 0 /\ (d - 16) % 16 = 0
      BY <3>3
    <3>6. c = Low(n) - 8
      BY <1>1, <2>2, <3>1
    <3>7. c \in {d - 624, d - 16} /\ Low(n) \in Int /\ Low(n) <= d
      BY <3>3, <3>4, <3>6
    <3> QED
      BY <2>2, <3>1, <3>2, <3>3, <3>5, <3>6, <3>7
  <2> QED
    BY <2>1, <2>2
<1> PICK args : args = [r \in Regs |-> Argument(n + 1, r)]
  OBVIOUS
<1> PICK t : t = [at |-> "common", slot |-> slot, args |-> args, caller |-> c, frame |-> 0,
                  alt |-> altstack, fnum |-> Junk, back |-> Junk]
  OBVIOUS
<1>4. /\ calls' = Append(calls, t) /\ rsp' = c - 8
      /\ regs' = [args EXCEPT !.r11 = Num(slot)]
      /\ stack' = Store(Store(stack, c, Argument(n + 1, "stack")), c - 8,
                        ReturnAddress(n + 1))
  BY <1>0, <1>1 DEF CallEbb, Push, defaultVtable, DEFAULT_FUNC
<1>5. /\ t \in Call /\ t.at = "common" /\ t.slot = slot /\ t.args = args /\ t.caller = c
      /\ t.alt = altstack
  <2>1. args \in ArgSets
    <3>1. \A r \in Regs : Argument(n + 1, r) \in {Argument(l, q) : l \in Nat, q \in Regs}
      OBVIOUS
    <3> QED
      BY <3>1 DEF ArgSets
  <2> QED
    BY <1>0, <1>3, <2>1 DEF Call, Labels, Fnums, Backs
<1>6. /\ calls' \in Seq(Call) /\ Level' = n + 1 /\ calls'[n + 1] = t /\ calls' # << >>
      /\ \A l \in 1 .. n : calls'[l] = calls[l]
  BY <1>0, <1>4, <1>5 DEF Level
<1>7. Top' = t
  BY <1>6 DEF Top
<1>8. \A l \in 1 .. n : /\ calls[l] \in Call /\ calls[l].caller \in Int /\ Low(l) \in Int
                            /\ Low(l) <= calls[l].caller /\ c + 8 <= Low(l)
  <2> SUFFICES ASSUME NEW l \in 1 .. n
               PROVE  /\ calls[l] \in Call /\ calls[l].caller \in Int /\ Low(l) \in Int
                      /\ Low(l) <= calls[l].caller /\ c + 8 <= Low(l)
    OBVIOUS
  <2>1. calls # << >> /\ n \in 1 .. n /\ calls[l] \in Call /\ Top = calls[n]
    BY <1>0 DEF Top, Level
  <2>2. calls[l].caller \in Int /\ Low(l) \in Int /\ Low(l) <= calls[l].caller
    BY <2>1, LowIs
  <2>3. l < n => Top.caller + 8 <= Low(l)
    BY <2>1 DEF FuncInv, ApartInv
  <2>4. Top.caller \in Int
    BY <2>1, TopIs
  <2> QED
    BY <1>0, <1>3, <2>1, <2>2, <2>3, <2>4
<1>9. \A x \in Int : \A w : x > c /\ Has(stack, x, w) => Has(stack', x, w)
  <2> DEFINE one == Store(stack, c, Argument(n + 1, "stack"))
  <2>1. \A x \in Int : \A w : x > c /\ Has(stack, x, w) => Has(one, x, w)
    BY <1>3, StoreHas
  <2>2. \A x \in Int : \A w : x > c /\ Has(one, x, w) => Has(stack', x, w)
    BY <1>3, <1>4, StoreHas
  <2> QED
    BY <2>1, <2>2
<1>10. Frame(stack', n + 1, c, "common", slot)
  <2> DEFINE one == Store(stack, c, Argument(n + 1, "stack"))
  <2>1. Has(one, c, Argument(n + 1, "stack")) /\ c # c - 8
    BY <1>3, StoreHas
  <2>2. Has(stack', c, Argument(n + 1, "stack"))
    BY <1>4, <2>1, StoreHas
  <2>3. Has(stack', c - 8, ReturnAddress(n + 1))
    BY <1>4, StoreHas
  <2> QED
    BY <2>2, <2>3 DEF Frame
<1>11. \A l \in 1 .. n : Low(l)' = Low(l) /\ AltOf(l)' = AltOf(l)
  BY <1>6 DEF Low, AltOf
<1>12. \A l \in 1 .. n + 1 : FrameInv(l)' /\ CallInv(l)'
  <2>1. FrameInv(n + 1)' /\ CallInv(n + 1)'
    <3>1. FrameInv(n + 1)'
      BY <1>5, <1>6, <1>10 DEF FrameInv
    <3>2. CallInv(n + 1)'
      BY <1>3, <1>5, <1>6 DEF CallInv
    <3> QED
      BY <3>1, <3>2
  <2>2. ASSUME NEW l \in 1 .. n
        PROVE  FrameInv(l)' /\ CallInv(l)'
    <3>1. FrameInv(l) /\ CallInv(l) /\ calls'[l] = calls[l]
      BY <1>6 DEF FuncInv
    <3>2. CallInv(l)'
      BY <3>1 DEF CallInv
    <3>3. \A x \in Int : \A w : x >= Low(l) /\ Has(stack, x, w) => Has(stack', x, w)
      BY <1>3, <1>8, <1>9
    <3>4. calls[l].at \in Labels
      BY <1>8 DEF Call
    <3>5. Frame(stack', l, calls[l].caller, calls[l].at, calls[l].slot)
      BY <1>8, <3>1, <3>3, <3>4, FrameKept DEF FrameInv, Low
    <3> QED
      BY <3>1, <3>2, <3>5 DEF FrameInv
  <2> QED
    BY <1>0, <2>1, <2>2
<1>13. \A l \in 1 .. n : LinkInv(l)'
  <2>1. ASSUME NEW l \in 1 .. n, l < n
        PROVE  LinkInv(l)'
    <3>1. LinkInv(l) /\ calls'[l + 1] = calls[l + 1] /\ calls'[l] = calls[l]
      <4>1. l \in 1 .. Level - 1 /\ l + 1 \in 1 .. n
        BY <2>1
      <4>2. LinkInv(l)
        BY <4>1 DEF FuncInv
      <4>3. calls'[l + 1] = calls[l + 1] /\ calls'[l] = calls[l]
        BY <1>6, <4>1
      <4> QED
        BY <4>2, <4>3
    <3> QED
      BY <1>11, <3>1 DEF LinkInv
  <2>2. ASSUME n \in 1 .. n
        PROVE  LinkInv(n)'
    <3>1. calls # << >> /\ calls'[n] = Top
      BY <1>0, <1>6, <2>2 DEF Top
    <3> QED
      BY <1>2, <1>3, <1>5, <1>6, <1>11, <2>2, <3>1 DEF LinkInv
  <2> QED
    BY <1>0, <2>1, <2>2
<1>14. calls'[1].caller = 4080 /\ calls'[1].alt = << >>
  <2>1. CASE n = 0
    BY <1>0, <1>3, <1>5, <1>6, <2>1
  <2>2. CASE n > 0
    BY <1>0, <1>6, <2>2 DEF FuncInv
  <2> QED
    BY <1>0, <2>1, <2>2
<1>15. ApartInv'
  <2> SUFFICES ASSUME NEW k \in 1 .. n + 1, NEW l \in 1 .. n + 1, k < l
               PROVE  calls'[l].caller + 8 <= Low(k)'
    BY <1>6 DEF ApartInv
  <2>1. k \in 1 .. n /\ Low(k)' = Low(k)
    BY <1>0, <1>11
  <2>2. CASE l = n + 1
    BY <1>5, <1>6, <1>8, <2>1, <2>2
  <2>3. CASE l \in 1 .. n
    BY <1>6, <2>1, <2>3 DEF FuncInv, ApartInv
  <2> QED
    BY <1>0, <2>2, <2>3
<1>16. TopInv'
  <2>1. DOMAIN regs' = Regs
    BY <1>4
  <2>2. Low(n + 1)' = c - 8
    BY <1>5, <1>6, BelowIs DEF Low
  <2>3. AltOf(n + 1)' = altstack
    BY <1>5, <1>6 DEF AltOf, AltAt
  <2>4. RegsAt(regs', n + 1, "common", args, slot)
    BY <1>4 DEF RegsAt
  <2> QED
    BY <1>2, <1>4, <1>5, <1>6, <1>7, <2>1, <2>2, <2>3, <2>4 DEF TopInv
<1> QED
  BY <1>0, <1>6, <1>12, <1>13, <1>14, <1>15, <1>16 DEF FuncInv

\* When a call is over, the one around it is where it was.
LEMMA StepResume ==
  ASSUME FuncInv, Resume
  PROVE  FuncInv'
<1>1. /\ calls # << >> /\ Top.at = "returned" /\ calls' = Front(calls)
      /\ rsp' = rsp + IF Level = 1 THEN 16 ELSE 8
      /\ stack' = AtOrAbove(rsp', stack) /\ regs' = Returned(Junk) /\ UNCHANGED altstack
  BY DEF Resume, At
<1>2. PICK n \in Nat \ {0} : n = Level
  BY <1>1, TopIs
<1>3. /\ calls \in Seq(Call) /\ Len(calls) = n /\ Top = calls[n]
      /\ \A l \in 1 .. n : calls[l] \in Call
  BY <1>1, <1>2, TopIs DEF FuncInv, Level
<1>4. /\ calls' \in Seq(Call) /\ Len(calls') = n - 1
      /\ \A l \in 1 .. n - 1 : calls'[l] = calls[l]
  <2>1. calls' = SubSeq(calls, 1, n - 1)
    BY <1>1, <1>3 DEF Front
  <2>2. n - 1 \in Nat /\ n - 1 <= Len(calls)
    BY <1>3
  <2> QED
    BY <1>3, <2>1, <2>2
<1>5. Level' = n - 1 /\ (calls' = << >> <=> n = 1)
  BY <1>4 DEF Level
<1>6. PICK c \in Int : c = Top.caller
  BY <1>1, TopIs
<1>7. rsp = c /\ altstack = Top.alt
  BY <1>1, <1>6, TopIs, BelowIs DEF AltAt
<1>8. \A l \in 1 .. n - 1 :
        /\ Low(l)' = Low(l) /\ AltOf(l)' = AltOf(l)
        /\ FrameInv(l) /\ CallInv(l) /\ LinkInv(l)
  <2> SUFFICES ASSUME NEW l \in 1 .. n - 1
               PROVE  /\ Low(l)' = Low(l) /\ AltOf(l)' = AltOf(l)
                      /\ FrameInv(l) /\ CallInv(l) /\ LinkInv(l)
    OBVIOUS
  <2>1. Low(l)' = Low(l) /\ AltOf(l)' = AltOf(l)
    BY <1>4 DEF Low, AltOf
  <2>2. l \in 1 .. Level /\ l \in 1 .. Level - 1
    BY <1>2
  <2> QED
    BY <2>1, <2>2 DEF FuncInv
<1>9. n = 1 => rsp' = 4096 /\ altstack' = << >>
  <2>1. n = 1 => c = 4080 /\ Top.alt = << >>
    BY <1>2, <1>3, <1>6 DEF FuncInv
  <2> QED
    BY <1>1, <1>2, <1>7, <2>1
<1>10. n > 1 => rsp' = Low(n - 1) /\ altstack' = AltOf(n - 1) /\ calls[n - 1].at \in {"precall", "body"}
  <2> SUFFICES ASSUME n > 1
               PROVE  /\ rsp' = Low(n - 1) /\ altstack' = AltOf(n - 1)
                      /\ calls[n - 1].at \in {"precall", "body"}
    OBVIOUS
  <2>1. n - 1 \in 1 .. n - 1 /\ (n - 1) + 1 = n
    OBVIOUS
  <2>2. LinkInv(n - 1)
    BY <1>8, <2>1
  <2>3. c = Low(n - 1) - 8 /\ Top.alt = AltOf(n - 1) /\ calls[n - 1].at \in {"precall", "body"}
    BY <1>3, <1>6, <2>1, <2>2 DEF LinkInv
  <2>4. Low(n - 1) \in Int
    BY <1>3, <2>1, LowIs
  <2> QED
    BY <1>1, <1>2, <1>7, <2>3, <2>4
<1>11. \A l \in 1 .. n - 1 : Low(l) \in Int /\ calls[l].caller \in Int /\ rsp' <= Low(l)
  <2> SUFFICES ASSUME NEW l \in 1 .. n - 1
               PROVE  Low(l) \in Int /\ calls[l].caller \in Int /\ rsp' <= Low(l)
    OBVIOUS
  <2>1. n > 1 /\ n - 1 \in 1 .. n - 1 /\ l \in 1 .. n /\ n - 1 \in 1 .. n
    OBVIOUS
  <2>2. /\ Low(l) \in Int /\ calls[l].caller \in Int
        /\ Low(n - 1) \in Int /\ calls[n - 1].caller \in Int /\ Low(n - 1) <= calls[n - 1].caller
    BY <1>3, <2>1, LowIs
  <2>3. l < n - 1 => calls[n - 1].caller + 8 <= Low(l)
    BY <1>2, <2>1 DEF FuncInv, ApartInv
  <2> QED
    BY <1>10, <2>1, <2>2, <2>3
<1>12. ASSUME NEW l \in 1 .. n - 1
       PROVE  FrameInv(l)' /\ CallInv(l)'
  <2>1. CallInv(l)'
    BY <1>4, <1>8 DEF CallInv
  <2>2. \A x \in Int : \A w : x >= Low(l) /\ Has(stack, x, w) => Has(stack', x, w)
    <3>1. rsp' \in Int
      BY <1>1, <1>7
    <3>2. \A x \in Int : \A w : x >= rsp' /\ Has(stack, x, w) => Has(AtOrAbove(rsp', stack), x, w)
      BY AboveHas
    <3> QED
      BY <1>1, <1>11, <3>1, <3>2
  <2>3. calls[l] \in Call /\ calls[l].at \in Labels /\ calls[l].caller \in Int
    BY <1>3, <1>11 DEF Call
  <2>4. Frame(stack', l, calls[l].caller, calls[l].at, calls[l].slot)
    BY <1>8, <2>2, <2>3, FrameKept DEF FrameInv, Low
  <2> QED
    BY <1>4, <2>1, <2>4 DEF FrameInv
<1>13. ASSUME NEW l \in 1 .. n - 2
       PROVE  LinkInv(l)'
  <2>1. l \in 1 .. n - 1 /\ l + 1 \in 1 .. n - 1
    OBVIOUS
  <2> QED
    BY <1>4, <1>8, <2>1 DEF LinkInv
<1>14. n > 1 => calls'[1].caller = 4080 /\ calls'[1].alt = << >>
  BY <1>2, <1>4 DEF FuncInv
<1>15. ApartInv'
  <2> SUFFICES ASSUME NEW k \in 1 .. n - 1, NEW l \in 1 .. n - 1, k < l
               PROVE  calls'[l].caller + 8 <= Low(k)'
    BY <1>5 DEF ApartInv
  <2>1. k \in 1 .. Level /\ l \in 1 .. Level
    BY <1>2
  <2> QED
    BY <1>4, <1>8, <2>1 DEF FuncInv, ApartInv
<1>16. TopInv'
  <2>1. DOMAIN regs' = Regs
    BY <1>1, ReturnedIs
  <2>2. ASSUME n > 1
        PROVE  /\ rsp' = Low(n - 1)' /\ altstack' = AltOf(n - 1)'
               /\ RegsAt(regs', n - 1, Top'.at, Top'.args, Top'.slot)
    <3>1. n - 1 \in 1 .. n - 1
      BY <2>2
    <3>2. Top' = calls[n - 1]
      BY <1>4, <1>5, <3>1 DEF Top
    <3> QED
      BY <1>8, <1>10, <2>2, <3>1, <3>2 DEF RegsAt
  <2>3. Level' = n - 1
    BY <1>5
  <2> QED
    BY <1>5, <1>9, <2>1, <2>2, <2>3 DEF TopInv
<1> QED
  BY <1>4, <1>5, <1>12, <1>13, <1>14, <1>15, <1>16 DEF FuncInv

-----------------------------------------------------------------------------
\* The invariant, and what follows from it.

LEMMA FuncStarts == Init => FuncInv
<1> SUFFICES ASSUME Init
             PROVE  FuncInv
  OBVIOUS
<1>1. calls = << >> /\ calls \in Seq(Call) /\ Level = 0
  BY DEF Init, Level
<1>2. TopInv
  BY <1>1 DEF Init, TopInv
<1> QED
  BY <1>1, <1>2 DEF FuncInv, ApartInv

LEMMA FuncIdles == FuncInv /\ UNCHANGED vars => FuncInv'
<1> SUFFICES ASSUME FuncInv, UNCHANGED vars
             PROVE  FuncInv'
  OBVIOUS
<1>1. regs' = regs /\ rsp' = rsp /\ stack' = stack /\ altstack' = altstack /\ calls' = calls
  BY DEF vars
<1>2. Level' = Level /\ Top' = Top
  BY <1>1 DEF Level, Top
<1>3. \A l : Low(l)' = Low(l) /\ AltOf(l)' = AltOf(l)
  BY <1>1 DEF Low, AltOf
<1>4. \A l \in 1 .. Level : FrameInv(l)' /\ CallInv(l)'
  BY <1>1 DEF FuncInv, FrameInv, CallInv
<1>5. \A l \in 1 .. Level - 1 : LinkInv(l)'
  BY <1>1, <1>3 DEF FuncInv, LinkInv
<1>6. ApartInv'
  BY <1>1, <1>2, <1>3 DEF FuncInv, ApartInv
<1>7. TopInv'
  <2>1. Low(Level)' = Low(Level)
    BY <1>1, <1>2 DEF Low
  <2>2. AltOf(Level)' = AltOf(Level)
    BY <1>1, <1>2 DEF AltOf
  <2> QED
    BY <1>1, <1>2, <2>1, <2>2 DEF FuncInv, TopInv
<1> QED
  BY <1>1, <1>2, <1>4, <1>5, <1>6, <1>7 DEF FuncInv

LEMMA FuncStep == FuncInv /\ [Next]_vars => FuncInv'
<1> SUFFICES ASSUME FuncInv, [Next]_vars
             PROVE  FuncInv'
  OBVIOUS
<1>1. CASE UNCHANGED vars
  BY <1>1, FuncIdles
<1>2. CASE \E slot \in Called : CallEbb(slot)
  BY <1>2, StepCallEbb
<1> QED
  BY <1>1, <1>2, StepSave, StepEnterPrecall, StepPrecallReturns, StepKeepReturn, StepRestore,
     StepRun, StepFunctionReturns, StepPark, StepGiveReturn, StepPostcallReturns, StepResume DEF Next

\* FuncInv holds in every reachable state, however deep calls nest.
THEOREM FuncInvariance == Spec => []FuncInv
<1> QED
  BY FuncStarts, FuncStep, PTL DEF Spec

\* The function finds the registers and the stack arguments of a direct call,
\* on the representative and with the number that the caller named.
THEOREM FunctionSeesCall == Spec => []ArgumentsKept
<1>1. FuncInv => ArgumentsKept
  <2> SUFFICES ASSUME FuncInv, At("enter")
               PROVE  /\ regs = [Top.args EXCEPT !.rdi = Rep(Level),
                                                 !.r11 = Function(Rep(Level), Num(Top.slot))]
                      /\ rsp = Top.caller - 8
                      /\ stack[Top.caller] = Argument(Level, "stack")
    BY DEF ArgumentsKept
  <2>1. calls # << >> /\ Top.at = "enter"
    BY DEF At
  <2> QED
    BY <2>1, TopIs, BelowIs DEF RegsAt, Frame, Has
<1> QED
  BY <1>1, FuncInvariance, PTL

\* Control comes back to the caller with the result, and with the stack pointer
\* and the altstack as they were.
THEOREM CallerGoesOn == Spec => []ReturnsToCaller
<1>1. FuncInv => ReturnsToCaller
  <2> SUFFICES ASSUME FuncInv, At("returned")
               PROVE  /\ Top.back = ReturnAddress(Level) /\ regs.rax = Result(Level)
                      /\ rsp = Top.caller /\ altstack = Top.alt
    BY DEF ReturnsToCaller
  <2>1. calls # << >> /\ Top.at = "returned"
    BY DEF At
  <2>2. Top.back = ReturnAddress(Level)
    BY <2>1, TopIs DEF CallInv
  <2>3. rsp = Top.caller
    BY <2>1, TopIs, BelowIs
  <2> QED
    BY <2>1, <2>2, <2>3, TopIs DEF RegsAt, AltAt
<1> QED
  BY <1>1, FuncInvariance, PTL

\* The fxsave area and every stack C++ code is entered on, but for that of
\* altstackPop, are aligned, however deep calls nest.
THEOREM FramesAligned == Spec => []FrameAligned
<1>1. FuncInv => FrameAligned
  <2> SUFFICES ASSUME FuncInv, calls # << >>
               PROVE  FrameAligned
    BY DEF FrameAligned, At
  <2>1. PICK c \in Int : c = Top.caller /\ c % 16 = 0
    BY TopIs DEF CallInv
  <2>2. (c - 608) % 16 = 0 /\ (c - 528) % 16 = 0 /\ ((c - 8) + 8) % 16 = 0
    BY <2>1
  <2>3. ASSUME At("saved")
        PROVE  (Top.frame + ArgBytes) % 16 = 0
    <3>1. Top.frame = c - 592
      BY <2>1, <2>3, TopIs DEF At, CallInv
    <3>2. Top.frame + ArgBytes = c - 528
      BY <3>1
    <3> QED
      BY <2>2, <3>2
  <2>4. ASSUME At("saved") \/ At("bound")
        PROVE  rsp % 16 = 0
    <3>1. rsp = c - 608
      BY <2>1, <2>4, TopIs, BelowIs DEF At
    <3> QED
      BY <2>2, <3>1
  <2>5. ASSUME At("enter") \/ At("postcall")
        PROVE  (rsp + 8) % 16 = 0
    <3>1. rsp = c - 8
      BY <2>1, <2>5, TopIs, BelowIs DEF At
    <3> QED
      BY <2>2, <3>1
  <2> QED
    BY <2>3, <2>4, <2>5 DEF FrameAligned
<1> QED
  BY <1>1, FuncInvariance, PTL
=============================================================================
