------------------------------ MODULE TrapEntry ------------------------------
(***************************************************************************)
(* The entry and exit code of interrupts and exceptions (Intr_Trap.asm),   *)
(* instruction by instruction, on the kernel stack it shares with the code *)
(* it interrupts.  What to go on with is nowhere but in the words on that  *)
(* stack: IRET takes whatever lies on top.                                 *)
(*                                                                         *)
(* The interrupted code is in ring 0: the processor pushes three words and *)
(* an error code for some exceptions, and the data segments stay loaded.   *)
(*                                                                         *)
(* The C functions of the exceptions have empty bodies, or read _ErrorCode *)
(* (PageFault).  GeneralProtect calls the V86 monitor, which changes the   *)
(* frame and may enter V86 mode: that is module V86, not here.             *)
(***************************************************************************)
EXTENDS Naturals, Sequences

CONSTANTS
    Stubs,      \* the names of the IRQ stubs in use: Low0 .. Low15
    Raised,     \* the exceptions that occur, GeneralProtect not among them
    Codes,      \* values of the processor's error codes
    TailPops,   \* DWORDs that Continue drops after its call: 1 as built
    None,       \* "not written yet"
    MaxDepth    \* TLC's bound on nested activations

\* The exceptions MakeExcept has a stub for.
Exceptions ==
    {"Divide0", "Debug", "NMI", "Breakpoint", "Overflow",
     "BoundRangeExceeded", "InvalidOp", "DevNotAvail", "DoubleFault",
     "SegOverrun", "InvalidTSS", "SegNotPresent", "StackSegFault",
     "GeneralProtect", "PageFault", "FloatError"}

\* Those whose stub takes an error code off the stack, and those for which the
\* processor pushes one.
ERRCODE == {"BoundRangeExceeded", "DoubleFault", "InvalidTSS",
            "SegNotPresent", "StackSegFault", "GeneralProtect", "PageFault"}
PushesCode == {"DoubleFault", "InvalidTSS", "SegNotPresent",
               "StackSegFault", "GeneralProtect", "PageFault"}

Kernel == "kernel"  \* ring 0 code other than the stubs

ASSUME TrapAssumption ==
    /\ Raised \subseteq Exceptions \ {"GeneralProtect"}
    /\ Stubs \cap (Exceptions \union {Kernel}) = {}
    /\ TailPops \in Nat
    /\ MaxDepth \in Nat

VARIABLES
    stack,      \* the words from the bottom of the kernel stack to ESP
    regs,       \* the general registers
    eip,        \* the code that runs and the place in it
    ints,       \* EFLAGS.IF
    nmi,        \* TRUE while the processor holds back NMIs
    errorCode,  \* _ErrorCode
    theIRQ,     \* TheIRQ
    acts        \* history: what each activation interrupted

vars == <<stack, regs, eip, ints, nmi, errorCode, theIRQ, acts>>

-----------------------------------------------------------------------------

\* SaveTrapRegs and RestTrapRegs: the registers in the order of their pushes
\* and pops.  "esp" is pushed, and passed over on the way back.  Two variants
\* have a pop too many and two pops in the wrong order.
SaveTrapRegs == <<"ebp", "esp", "edi", "esi", "edx", "ecx", "ebx", "eax">>
RestTrapRegsLonger == <<"eax", "ebx", "ecx", "edx", "esi", "edi", "esp", "ebp", "ebp">>
RestTrapRegsSwapped == <<"eax", "ecx", "ebx", "edx", "esi", "edi", "esp", "ebp">>
RestTrapRegs == <<"eax", "ebx", "ecx", "edx", "esi", "edi", "esp", "ebp">>
GPR == {"eax", "ebx", "ecx", "edx", "esi", "edi", "ebp"}

\* Places in a stub: AtCode, then 1 .. 8 for the pushes, AtCall, AtBody while
\* the C function runs, AtBody + 1 .. AtBody + 8 for the pops, and AtIret.
AtCode == 0
AtCall == 9
AtBody == 10
AtIret == 19
Place(stub, at) == [stub |-> stub, at |-> at]

\* Words on the stack.
Reg(r, v)  == [of |-> r, v |-> v]
Eflags(on) == [of |-> "eflags", ints |-> on]
CS         == [of |-> "cs"]
Eip(p)     == [of |-> "eip", place |-> p]
Code(c)    == [of |-> "code", code |-> c]
Own        == [of |-> "own"]  \* what the interrupted code itself pushed

Top == stack[Len(stack)]
Under(n) == SubSeq(stack, 1, Len(stack) - n)  \* the stack after n pops
This == acts[Len(acts)]

-----------------------------------------------------------------------------

Init ==
    /\ stack = <<Own>>
    /\ regs = [r \in GPR |-> Reg(r, 0)]
    /\ eip = Place(Kernel, 0)
    /\ ints \in BOOLEAN
    /\ nmi = FALSE
    /\ errorCode = None
    /\ theIRQ = None
    /\ acts = << >>

\* The kernel's own CriticalSection and ExitCritical.
CriticalSection ==
    /\ eip.stub = Kernel
    /\ ints' = ~ints
    /\ UNCHANGED <<stack, regs, eip, nmi, errorCode, theIRQ, acts>>

\* A variant: through a trap gate (IDT_TRAP386), which leaves IF alone.
EnterTrapGate(stub, at, codes) ==
    /\ Len(acts) < MaxDepth
    /\ stack' = stack \o <<Eflags(ints), CS, Eip(eip)>> \o codes
    /\ eip' = Place(stub, at)
    /\ acts' = Append(acts, [stub |-> stub, regs |-> regs, eip |-> eip,
                             ints |-> ints, height |-> Len(stack),
                             own |-> IF codes = << >> THEN stub ELSE codes[1],
                             got |-> None])
    /\ UNCHANGED <<regs, ints, errorCode, theIRQ>>

\* The processor takes an interrupt or exception.  MkTrapGate and MkIntrGate
\* both make interrupt gates (IDT_INT386): IF is off at the first instruction.
Enter(stub, at, codes) ==
    /\ Len(acts) < MaxDepth
    /\ stack' = stack \o <<Eflags(ints), CS, Eip(eip)>> \o codes
    /\ eip' = Place(stub, at)
    /\ ints' = FALSE
    /\ acts' = Append(acts, [stub |-> stub, regs |-> regs, eip |-> eip,
                             ints |-> ints, height |-> Len(stack),
                             own |-> IF codes = << >> THEN stub ELSE codes[1],
                             got |-> None])
    /\ UNCHANGED <<regs, errorCode, theIRQ>>

Interrupt ==
    /\ ints
    /\ \E q \in Stubs : Enter(q, AtCode, << >>)
    /\ UNCHANGED nmi

\* A variant: a stub that MakeExcept is told has no error code.
FirstAtForgotten(k) == IF k \in ERRCODE \ {"PageFault"} THEN AtCode ELSE 1

\* The stub's first instruction is the pop of the error code, if it has one.
FirstAt(k) == IF k \in ERRCODE THEN AtCode ELSE 1

\* C code faults: the kernel's own or a driver's handler.
Fault ==
    /\ eip.stub = Kernel \/ (eip.stub \in Stubs /\ eip.at = AtBody)
    /\ \E k \in Raised \ {"NMI"} :
          IF k \in PushesCode
          THEN \E c \in Codes : Enter(k, FirstAt(k), <<Code(c)>>)
          ELSE Enter(k, FirstAt(k), << >>)
    /\ UNCHANGED nmi

NMI ==
    /\ "NMI" \in Raised
    /\ ~nmi
    /\ Enter("NMI", FirstAt("NMI"), << >>)
    /\ nmi' = TRUE

\* pop dword [_ErrorCode]
PopErrorCode ==
    /\ eip.stub \in Exceptions
    /\ eip.at = AtCode
    /\ Len(stack) > 0
    /\ errorCode' = Top
    /\ stack' = Under(1)
    /\ eip' = [eip EXCEPT !.at = 1]
    /\ UNCHANGED <<regs, ints, nmi, theIRQ, acts>>

\* push byte i; jmp short Continue; pop dword [TheIRQ]
PopTheIRQ ==
    /\ eip.stub \in Stubs
    /\ eip.at = AtCode
    /\ theIRQ' = eip.stub
    /\ eip' = [eip EXCEPT !.at = 1]
    /\ UNCHANGED <<stack, regs, ints, nmi, errorCode, acts>>

\* One push of SaveTrapRegs.
Push ==
    /\ eip.at \in DOMAIN SaveTrapRegs
    /\ LET r == SaveTrapRegs[eip.at]
       IN  stack' = Append(stack, IF r = "esp" THEN Reg(r, 0) ELSE regs[r])
    /\ eip' = [eip EXCEPT !.at = @ + 1]
    /\ UNCHANGED <<regs, ints, nmi, errorCode, theIRQ, acts>>

\* From the last push to the first lines of the C function.  What the function
\* pushes it takes off again; EAX, ECX and EDX are its to use, and the stub's
\* after the last push.  InMasterDispatch is told TheIRQ, and turns interrupts
\* on when it calls a driver's handler; PageFault reads _ErrorCode.
Call ==
    /\ eip.at = AtCall
    /\ regs' = [r \in GPR |-> IF r \in {"eax", "ecx", "edx"}
                              THEN Reg(r, Len(acts)) ELSE regs[r]]
    /\ acts' = [acts EXCEPT ![Len(acts)].got =
                  IF eip.stub \in Stubs THEN theIRQ
                  ELSE IF eip.stub = "PageFault" THEN errorCode
                  ELSE None]
    /\ ints' \in IF eip.stub \in Stubs THEN {ints, TRUE} ELSE {ints}
    /\ eip' = [eip EXCEPT !.at = AtBody]
    /\ UNCHANGED <<stack, nmi, errorCode, theIRQ>>

\* The C function returns; Continue drops TailPops DWORDs (add esp,4).
Return ==
    /\ eip.at = AtBody
    /\ stack' = IF eip.stub \in Stubs THEN Under(TailPops) ELSE stack
    /\ eip' = [eip EXCEPT !.at = AtBody + 1]
    /\ UNCHANGED <<regs, ints, nmi, errorCode, theIRQ, acts>>

\* One pop of RestTrapRegs.
Pop ==
    /\ eip.at - AtBody \in DOMAIN RestTrapRegs
    /\ Len(stack) > 0
    /\ LET r == RestTrapRegs[eip.at - AtBody]
       IN  regs' = IF r = "esp" THEN regs ELSE [regs EXCEPT ![r] = Top]
    /\ stack' = Under(1)
    /\ eip' = [eip EXCEPT !.at = @ + 1]
    /\ UNCHANGED <<ints, nmi, errorCode, theIRQ, acts>>

\* IRET, to wherever the word on top says, with the flags two below it.
Iret ==
    /\ eip.at = AtIret
    /\ Len(stack) > 2
    /\ LET flags == stack[Len(stack) - 2]
       IN  /\ eip' = IF Top.of = "eip" THEN Top.place ELSE Place(None, 0)
           /\ ints' = IF flags.of = "eflags" THEN flags.ints ELSE FALSE
    /\ stack' = Under(3)
    /\ acts' = SubSeq(acts, 1, Len(acts) - 1)
    /\ nmi' = FALSE
    /\ UNCHANGED <<regs, errorCode, theIRQ>>

Next ==
    \/ CriticalSection \/ Interrupt \/ Fault \/ NMI
    \/ PopErrorCode \/ PopTheIRQ \/ Push \/ Call \/ Return \/ Pop \/ Iret

Spec == Init /\ [][Next]_vars

-----------------------------------------------------------------------------
(* Properties *)

\* Types of the machine's state.
TypeOK ==
    /\ ints \in BOOLEAN /\ nmi \in BOOLEAN
    /\ eip.at \in 0 .. AtIret
    /\ theIRQ \in Stubs \union {None}
    /\ DOMAIN regs = GPR
    /\ \A i \in DOMAIN acts :
          /\ acts[i].stub \in Stubs \union Raised
          /\ acts[i].ints \in BOOLEAN
          /\ acts[i].height \in Nat

\* The code that the next activation interrupted, or that runs now.
PlaceOf(i) == IF i = Len(acts) THEN eip ELSE acts[i + 1].eip
RegsOf(i)  == IF i = Len(acts) THEN regs ELSE acts[i + 1].regs
TopOf(i)   == IF i = Len(acts) THEN Len(stack) ELSE acts[i + 1].height

\* How many of the eight words of SaveTrapRegs an activation has on the stack.
Saved(p) ==
    IF p.at = AtCode THEN 0
    ELSE IF p.at < AtCall THEN p.at - 1
    ELSE IF p.at =< AtBody THEN 8
    ELSE AtIret - p.at

\* The same for the words the processor pushed for activation a.
Pushed(a, p) == IF p.at = AtCode /\ a.stub \in PushesCode THEN 4 ELSE 3

\* Stack s holds, up to height top, the frame of activation a, which is at
\* place p of its stub.
FrameOn(s, a, p, top) ==
    LET h == a.height
        f == h + Pushed(a, p)
    IN  /\ p.stub = a.stub
        /\ top = f + Saved(p)
        /\ s[h + 1] = Eflags(a.ints)
        /\ s[h + 3] = Eip(a.eip)
        /\ \A j \in 1 .. Saved(p) :
              SaveTrapRegs[j] # "esp" => s[f + j] = a.regs[SaveTrapRegs[j]]

\* Whatever activations have piled up and wherever each was interrupted, every
\* activation still finds on the stack, above the height it started from, the
\* frame the processor pushed and the registers it saved, and right above them
\* the next activation starts (SaveTrapRegs, RestTrapRegs, MakeExcept).
FramesIntact ==
    \A i \in DOMAIN acts : FrameOn(stack, acts[i], PlaceOf(i), TopOf(i))

\* Leaving an activation gives the code it interrupted its registers, flags,
\* place and stack height back (docs/Scheduler.md: "simply restore them and
\* continue running the last interrupt or kernel code").
ResumesExactly ==
    [][Len(acts') < Len(acts) =>
          /\ regs' = This.regs
          /\ eip' = This.eip
          /\ ints' = This.ints
          /\ Len(stack') = This.height]_vars

\* TheIRQ is one variable for all nested interrupts, _ErrorCode one for all
\* exceptions; still the C function gets the number of its own stub, and the
\* error code the processor pushed for it.
OwnArgument ==
    \A i \in DOMAIN acts : acts[i].got \in {None, acts[i].own}

=============================================================================
