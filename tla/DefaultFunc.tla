----------------------------- MODULE DefaultFunc -----------------------------
(***************************************************************************)
(* The machine level of a call that enters through the default vtable:     *)
(* the 256 stubs and defaultFuncCommon of defaultFunc.S.  The caller made  *)
(* an ordinary C++ call; whatever function it named, with whatever         *)
(* arguments in registers and on the stack, the representative's function  *)
(* must find them as if it had been called directly, although C++ code     *)
(* (precall, the manager, altstackPush) has run in between, and control    *)
(* must come back to the caller through postcall.                          *)
(*                                                                         *)
(* One core.  rsp and addresses count bytes; a value is a tuple that says  *)
(* where it came from.  fx stands for the whole x87 and SSE state.  C++    *)
(* code leaves junk in every register it may change and in the stack below *)
(* its own; precall and the function may themselves call Ebbs.  No manager *)
(* at this commit lets preCall fail and nothing throws through an Ebb, so  *)
(* .Lfail and .Llp0 are not entered.                                       *)
(***************************************************************************)
EXTENDS Integers, Functions, SequencesExt

CONSTANTS
  Called,   \* the slots of the vtable that callers use
  Depth     \* bound of the model: calls inside calls

\* The vtable has 256 entries.
Slots == 0 .. 255

ASSUME CalledAssumption == Called \subseteq Slots
ASSUME DepthAssumption == Depth \in Nat

VARIABLES
  regs,      \* the registers a call may change
  rsp,       \* the stack pointer
  stack,     \* the words at and above rsp
  altstack,  \* what altstackPush has saved
  calls      \* the calls under way, the innermost last

vars == <<regs, rsp, stack, altstack, calls>>

\* The order of the pushes of defaultFuncCommon: in memory, from the lowest
\* address up, the fields of Args.
Pushed == <<"rax", "r10", "r9", "r8", "rcx", "rdx", "rsi", "rdi">>
Regs == ToSet(Pushed) \cup {"r11", "fx"}

\* Mutant of FxBytes: what fxsave writes, without padding.
FxBytesUnpadded == 512

\* The bytes of the frame: the fxsave area, the registers, the FuncRet.
FxBytes == 520
ArgBytes == 8 * 8
FretBytes == 16

Junk == <<"junk">>
Num(n) == <<"num", n>>
Rep(level) == <<"rep", level>>
Function(r, fnum) == <<"function", r, fnum>>
Argument(level, r) == <<"arg", level, r>>
ReturnAddress(level) == <<"ret", level>>
Manager(level) == <<"mgr", level>>
Result(level) == <<"result", level>>

\* What C++ code leaves in the registers when it returns value.
Returned(value) == [[r \in Regs |-> Junk] EXCEPT !.rax = value]

AtOrAbove(low, words) == Restrict(words, {a \in DOMAIN words : a >= low})

Store(words, a, value) ==
  [x \in DOMAIN words \cup {a} |-> IF x = a THEN value ELSE words[x]]

\* The machine's push.
Push(m, value) == [sp |-> m.sp - 8, words |-> Store(m.words, m.sp - 8, value)]

Init ==
  /\ regs = [r \in Regs |-> Junk]
  /\ rsp = 4096
  /\ stack = << >>
  /\ altstack = << >>
  /\ calls = << >>

Level == Len(calls)
Top == calls[Level]
At(label) == calls # << >> /\ Top.at = label
Goto(label) == calls' = [calls EXCEPT ![Level].at = label]

-----------------------------------------------------------------------------
\* Mutant of DEFAULT_FUNC: the stubs are numbered from one.
DEFAULT_FUNC_FromOne(n) == Num(n + 1)

\* What the stub defaultFuncN leaves in r11.
DEFAULT_FUNC(n) == Num(n)

\* defaultVtable[slot] is the stub of that number.
defaultVtable == [slot \in Slots |-> DEFAULT_FUNC(slot)]

\* C++ code, the application's or that of a function or a manager under way,
\* calls function slot of an Ebb this core has not bound: it has an argument in
\* every register and one on the stack, which it keeps aligned.
CallEbb(slot) ==
  /\ Level < Depth
  /\ calls # << >> => Top.at \in {"precall", "body"}
  /\ LET level == Level + 1
         caller == rsp - IF calls = << >> THEN 16 ELSE 8
         args == [r \in Regs |-> Argument(level, r)]
         m == Push([sp |-> caller, words |-> Store(stack, caller, Argument(level, "stack"))],
                   ReturnAddress(level))
     IN  /\ calls' = Append(calls, [at |-> "common", slot |-> slot, args |-> args,
                                    caller |-> caller, frame |-> 0, alt |-> altstack,
                                    fnum |-> Junk, back |-> Junk])
         /\ regs' = [args EXCEPT !.r11 = defaultVtable[slot]]
         /\ rsp' = m.sp
         /\ stack' = m.words
  /\ UNCHANGED altstack

\* The machine after the pushes of the registers.
PushRegs(m) ==
  [sp |-> m.sp - ArgBytes,
   words |-> [a \in DOMAIN m.words \cup {m.sp - 8 * i : i \in 1 .. Len(Pushed)} |->
                IF a < m.sp THEN regs[Pushed[(m.sp - a) \div 8]] ELSE m.words[a]]]

\* defaultFuncCommon up to the call of precall: precall(Args*, fnum, FuncRet*).
Save ==
  /\ At("common")
  /\ LET fx == [sp |-> rsp - FxBytes, words |-> Store(stack, rsp - FxBytes, regs.fx)]
         m == PushRegs(fx)
     IN  /\ rsp' = m.sp - FretBytes
         /\ stack' = m.words
         /\ calls' = [calls EXCEPT ![Level] = [@ EXCEPT !.at = "saved", !.frame = m.sp,
                                                         !.fnum = regs.r11]]
  /\ UNCHANGED <<regs, altstack>>

EnterPrecall ==
  /\ At("saved")
  /\ rsp' = rsp - 8
  /\ Goto("precall")
  /\ UNCHANGED <<regs, stack, altstack>>

\* The manager puts the representative into args->rdi and its function number
\* fnum into fret->func; precall saves the manager and returns true.
PrecallReturns ==
  /\ At("precall")
  /\ rsp' = rsp + 8
  /\ stack' = Store(Store(AtOrAbove(rsp', stack), Top.frame, Rep(Level)),
                    Top.frame - FretBytes, Function(Rep(Level), Top.fnum))
  /\ altstack' = Append(altstack, Manager(Level))
  /\ regs' = Returned(Num(1))
  /\ Goto("bound")

\* The return address, behind the whole frame, goes to altstackPush.
KeepReturn ==
  /\ At("bound")
  /\ altstack' = Append(altstack, stack[rsp + FxBytes + ArgBytes + FretBytes])
  /\ regs' = Returned(Junk)
  /\ Goto("kept")
  /\ UNCHANGED <<rsp, stack>>

\* Where the pops, and fxrstor behind them, find a register: the last one
\* pushed is the lowest.
PopAt(low, r) ==
  low + IF r = "fx" THEN ArgBytes
        ELSE 8 * (Len(Pushed) - CHOOSE i \in 1 .. Len(Pushed) : Pushed[i] = r)

\* fret->func into r11, the arguments back, the frame and the return address
\* dropped (add $528), and the function called.
Restore ==
  /\ At("kept")
  /\ LET low == rsp + FretBytes
         after == low + ArgBytes + FxBytes + 8
     IN  /\ regs' = [r \in Regs |-> IF r = "r11" THEN stack[rsp] ELSE stack[PopAt(low, r)]]
         /\ rsp' = after - 8
         /\ stack' = Store(AtOrAbove(after, stack), after - 8, <<"post_foo_call">>)
  /\ Goto("enter")
  /\ UNCHANGED altstack

Run ==
  /\ At("enter")
  /\ Goto("body")
  /\ UNCHANGED <<regs, rsp, stack, altstack>>

FunctionReturns ==
  /\ At("body")
  /\ regs' = Returned(Result(Level))
  /\ rsp' = rsp + 8
  /\ stack' = AtOrAbove(rsp', stack)
  /\ Goto("post")
  /\ UNCHANGED altstack

\* .Lpost_foo_call: the result is parked on the stack and altstackPop called.
\* Unlike the other calls of C++ code it is made with rsp 8 off a multiple of
\* 16, which only works as long as altstackPop needs no aligned stack.
Park ==
  /\ At("post")
  /\ rsp' = rsp - 8
  /\ stack' = Store(stack, rsp', regs.rax)
  /\ Goto("parked")
  /\ UNCHANGED <<regs, altstack>>

\* Mutant of GiveReturn: the return address is read but not popped.
GiveReturnPeeks ==
  /\ At("parked")
  /\ stack' = Store(stack, rsp, Last(altstack))
  /\ regs' = [Returned(Last(altstack)) EXCEPT !.rdi = stack[rsp]]
  /\ Goto("postcall")
  /\ UNCHANGED <<rsp, altstack>>

\* altstackPop has run: the result comes back from the stack, the return
\* address takes its place and postcall is entered by a jump.
GiveReturn ==
  /\ At("parked")
  /\ altstack' = Front(altstack)
  /\ stack' = Store(stack, rsp, Last(altstack))
  /\ regs' = [Returned(Last(altstack)) EXCEPT !.rdi = stack[rsp]]
  /\ Goto("postcall")
  /\ UNCHANGED rsp

\* postcall pops the manager and returns what its postCall makes of the
\* result, which is the result, to where the stack says.
PostcallReturns ==
  /\ At("postcall")
  /\ altstack' = Front(altstack)
  /\ regs' = Returned(regs.rdi)
  /\ calls' = [calls EXCEPT ![Level].at = "returned", ![Level].back = stack[rsp]]
  /\ rsp' = rsp + 8
  /\ stack' = AtOrAbove(rsp', stack)

\* The caller goes on and drops its argument.
Resume ==
  /\ At("returned")
  /\ calls' = Front(calls)
  /\ rsp' = rsp + IF Level = 1 THEN 16 ELSE 8
  /\ stack' = AtOrAbove(rsp', stack)
  /\ regs' = Returned(Junk)
  /\ UNCHANGED altstack

Next ==
  \/ \E slot \in Called : CallEbb(slot)
  \/ Save
  \/ EnterPrecall
  \/ PrecallReturns
  \/ KeepReturn
  \/ Restore
  \/ Run
  \/ FunctionReturns
  \/ Park
  \/ GiveReturn
  \/ PostcallReturns
  \/ Resume

Spec == Init /\ [][Next]_vars

-----------------------------------------------------------------------------
\* The function that is entered is the one the caller named, on the
\* representative the manager chose, and it finds every register argument and,
\* just above its return address, the caller's stack arguments.
ArgumentsKept ==
  At("enter") =>
    /\ regs = [Top.args EXCEPT !.rdi = Rep(Level),
                               !.r11 = Function(Rep(Level), Num(Top.slot))]
    /\ rsp = Top.caller - 8
    /\ stack[Top.caller] = Argument(Level, "stack")

\* Control comes back to this call's own return address with the function's
\* result, the caller's stack pointer and the altstack as they were, however
\* many calls were made on the way.
ReturnsToCaller ==
  At("returned") =>
    /\ Top.back = ReturnAddress(Level)
    /\ regs.rax = Result(Level)
    /\ rsp = Top.caller
    /\ altstack = Top.alt

\* fxsave faults on an address that is not a multiple of 16, and C++ code relies
\* on a stack pointer that is one where it is called.  The fxsave area is
\* aligned, and so are the calls of precall and altstackPush and, behind their
\* return addresses, the function and postcall, however deep calls nest.  The
\* call of altstackPop (Park) is not, and is not claimed to be.
FrameAligned ==
  /\ At("saved") => (Top.frame + ArgBytes) % 16 = 0
  /\ At("saved") \/ At("bound") => rsp % 16 = 0
  /\ At("enter") \/ At("postcall") => (rsp + 8) % 16 = 0
=============================================================================
