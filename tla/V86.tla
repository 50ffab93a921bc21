--------------------------------- MODULE V86 ---------------------------------
(***************************************************************************)
(* DOS and BIOS calls from ring 0 (V86.c, vm86.asm): ScVirtual86_Int goes  *)
(* to virtual 8086 mode and the code there comes back as a #GP for each    *)
(* sensitive instruction, on the kernel stack at TSS.ESP0, to the monitor. *)
(* An INT instruction makes the monitor call ScVirtual86_Int again.        *)
(*                                                                         *)
(* The stack is its words from the bottom up.  A height is a number of     *)
(* words, and so is an address on the stack: [ESP0+0] is the last of the   *)
(* first esp0 words, [ESP0-4] the one after it.  What C code has on the    *)
(* stack depends on the compiler: it is a constant number of words where a *)
(* call of V86 code goes on top of it, and left out elsewhere.             *)
(***************************************************************************)
EXTENDS Naturals, Sequences

CONSTANTS
    Vectors,    \* the interrupts that are called
    Stub,       \* how the stubs are coded: AsBuilt or AsMeant
    KernelWords,\* words from the bottom of the stack to ScVirtual86_Int's copy
    MonitorWords, \* and from the frame of the fault, when the monitor calls it:
                \* return addresses, arguments and saved registers
    StackWords, \* the DWORDs of the stack: InitStack has 256
    MaxCalls    \* TLC's bound on nested calls

\* AsBuilt is the code.  AsMeant is the code with its stubs repaired so that they
\* do what their comments say; the stub of an IRQ has no add esp,4 either.
\* segsFirst: the segment registers are loaded before memory is accessed.
\* flagsAt: the DWORD of the frame RestoreSegsIfNecessary takes for EFLAGS.
\* vmIf: the value of the VM bit for which the handler is told of V86 mode.
\* frameOff: the DWORDs between the frame and the address the handler gets.
AsBuilt == [segsFirst |-> FALSE, flagsAt |-> 11, vmIf |-> FALSE, frameOff |-> 1]
AsMeant == [segsFirst |-> TRUE,  flagsAt |-> 10, vmIf |-> TRUE,  frameOff |-> 0]

ASSUME V86Assumption ==
    /\ Stub \in {AsBuilt, AsMeant}
    /\ KernelWords \in Nat /\ MonitorWords \in Nat /\ StackWords \in Nat
    /\ MaxCalls \in Nat \ {0}

VARIABLES
    pc,         \* what the processor runs
    cpu,        \* the registers of the V86 code, kept while ring 0 runs
    ints,       \* EFLAGS.IF
    ds,         \* the data segments of ring 0: loaded or "null"
    stack,      \* the words on the kernel stack
    esp0,       \* TSS.ESP0
    supervisor_call,
    calls       \* history: the calls of ScEnterV86 in progress

vars == <<pc, cpu, ints, ds, stack, esp0, supervisor_call, calls>>

-----------------------------------------------------------------------------

\* What runs: the kernel before its call, V86 code, the stub and the handler of
\* #GP (leaving when the monitor is done), and the same for an IRQ, irq0 when
\* it interrupted the handler.  In overrun the frames have left the stack: what
\* they write over, and what the processor does then, is not modelled.
Ring0 == {"gpstub", "gp", "gpleave", "irqstub", "irq", "irq0"}
PCs == {"kernel", "v86", "overrun"} \union Ring0

\* The order of the registers in a frame, from the word on top (RD_EAX .. RD_GS
\* and struc TF).  "none" is the ESP that SaveTrapRegs pushes.
RD == <<"eax", "ebx", "ecx", "edx", "esi", "edi", "ebp", "none",
        "eip", "cs", "eflags", "esp", "ss", "es", "ds", "fs", "gs">>
RD_NUM_DWORDS == 17
General == {"eax", "ebx", "ecx", "edx", "esi", "edi", "ebp"}
Regs == {RD[i] : i \in 1 .. RD_NUM_DWORDS} \ {"none", "eflags"}

\* Words.  A register's value tells whose it is and one of two versions.
Reg(r, n)      == [of |-> r, n |-> n]
Eflags(vm, on) == [of |-> "eflags", vm |-> vm, ints |-> on]
CS(segment)    == [of |-> "cs", segment |-> segment]
Eip(place)     == [of |-> "eip", place |-> place]
Own(what, k)   == [of |-> "own", what |-> what, k |-> k]  \* words of C code

\* The V86 code at a place is anything; what stands there is chosen when it gets
\* there.  At the bound it calls no further interrupt.
Instructions(depth) ==
    [op : {"work", "iret", "cli", "sti", "other"}]
    \union (IF depth < MaxCalls THEN [op : {"int"}, vector : Vectors] ELSE {})
Place(n, ins) == [v86 |-> TRUE, n |-> n, ins |-> ins]
After(place, ins) == Place(1 - place.n, ins)
Ring0Place(at) == [v86 |-> FALSE, at |-> at]

\* The registers c as the words of a frame, in the order of their pushes.
Word(c, flags, r) ==
    IF r = "eflags" THEN flags ELSE IF r = "none" THEN Own("esp", 0) ELSE c[r]
Frame(c, flags) ==
    [k \in 1 .. RD_NUM_DWORDS |-> Word(c, flags, RD[RD_NUM_DWORDS + 1 - k])]

\* The word that C code has as frame[i], and the register it stands for.
At(i) == stack[Len(stack) - i]
Saved(r) == At((CHOOSE i \in 1 .. RD_NUM_DWORDS : RD[i] = r) - 1)
Drop(n) == SubSeq(stack, 1, Len(stack) - n)

-----------------------------------------------------------------------------

Init ==
    /\ pc = "kernel"
    /\ cpu = [r \in Regs |-> Own("none", 0)]
    /\ ints \in BOOLEAN
    /\ ds = "kernel"
    /\ stack = << >>
    /\ esp0 = 0
    /\ supervisor_call = FALSE
    /\ calls = << >>

\* What ScEnterV86 leaves on the stack for its caller: the return address and
\* what it pushes.
Kept(k) ==
    <<Own("return", k), Eflags(FALSE, ints), Own("ebx", k), Own("esi", k),
      Own("edi", k), Own("ebp", k)>>

\* The frames of the next faults and interrupts from V86 mode go above address h.
SetESP0(h) == esp0' = h
GetESP0 == esp0

\* Variants: with ESP0 at the word under ESP, and with ESP0 left where it was.
ScEnterV86AtESP(s, new) ==
    LET s2 == s \o Kept(Len(calls))
    IN  /\ stack' = Append(s2, new["gs"])
        /\ SetESP0(Len(s2))
        /\ cpu' = new
        /\ pc' = "v86"
        /\ calls' = Append(calls, [below |-> s2, ints |-> ints])
ScEnterV86SameESP0(s, new) ==
    LET s2 == s \o Kept(Len(calls))
    IN  /\ stack' = Append(s2, new["gs"])
        /\ SetESP0(IF calls = << >> THEN Len(s2) + 1 ELSE esp0)
        /\ cpu' = new
        /\ pc' = "v86"
        /\ calls' = Append(calls, [below |-> s2, ints |-> ints])

\* ScEnterV86 with the registers new: ESP0 is one DWORD on from the saved EBP,
\* and the first word of the IRET frame, GS, stays there.
ScEnterV86(s, new) ==
    LET s2 == s \o Kept(Len(calls))
    IN  /\ stack' = Append(s2, new["gs"])
        /\ SetESP0(Len(s2) + 1)
        /\ cpu' = new
        /\ pc' = "v86"
        /\ calls' = Append(calls, [below |-> s2, ints |-> ints])

\* ScVirtual86_Int: the registers it is given, at the vector's CS and EIP.  Its
\* copy of them is on the stack, and above it the argument of ScEnterV86.
ScVirtual86_Int(words, context, vector) ==
    /\ supervisor_call' = TRUE
    /\ \E ins \in Instructions(Len(calls) + 1) :
          LET new == [context EXCEPT !["cs"] = CS(vector), !["eip"] = Eip(Place(0, ins))]
              linkage == [i \in 1 .. words |-> Own("linkage", 0)]
          IN  ScEnterV86(Append((stack \o linkage) \o Frame(new, Own("flags", 0)),
                                Own("argument", 0)), new)

\* The registers of MmAllocateDosMemory, of which it sets two of the seventeen,
\* and of KernelMain, which sets four: the others are any value.
AnyContext == {[r \in Regs |-> Reg(r, n)] : n \in 0 .. 1}

KernelCall ==
    /\ pc = "kernel"
    /\ \E vector \in Vectors, context \in AnyContext :
          ScVirtual86_Int(KernelWords, context, vector)
    /\ UNCHANGED <<ints, ds>>

\* V86 code works on its registers.
Work ==
    /\ pc = "v86"
    /\ cpu["eip"].place.ins.op = "work"
    /\ \E ins \in Instructions(Len(calls)), n \in 0 .. 1 :
          cpu' = [r \in Regs |->
                    IF r \in General THEN Reg(r, n)
                    ELSE IF r = "eip" THEN Eip(After(cpu["eip"].place, ins))
                    ELSE cpu[r]]
    /\ UNCHANGED <<pc, ints, ds, stack, esp0, supervisor_call, calls>>

\* The processor leaves V86 mode: it goes to the stack at ESP0, pushes the nine
\* words of the frame and, for a fault, the error code, and sets the data
\* segments to null.
FromV86(to, code) ==
    /\ stack' = SubSeq(stack, 1, esp0)
                  \o SubSeq(Frame(cpu, Eflags(TRUE, ints)), 1, 9) \o code
    /\ ds' = "null"
    /\ ints' = FALSE
    /\ pc' = to
    /\ UNCHANGED <<cpu, esp0, supervisor_call, calls>>

GeneralProtectFault ==
    /\ pc = "v86"
    /\ cpu["eip"].place.ins.op # "work"
    /\ FromV86("gpstub", <<Own("code", 0)>>)

Irq ==
    /\ pc = "v86"
    /\ ints
    /\ FromV86("irqstub", << >>)

\* RestoreSegsIfNecessary, after SaveTrapRegs has left stack s.
Bit17(w) == w.of = "eflags" /\ w.vm
SegsRestored(s) == IF Bit17(s[Len(s) - Stub.flagsAt]) THEN "kernel" ELSE ds

\* A fault in ring 0, with stack s: the frame goes on top of it, and the stub of
\* #GP starts again.
FaultInStub(s) ==
    LET frame == <<Eflags(FALSE, ints), CS("kernel"), Eip(Ring0Place(pc)), Own("code", 0)>>
        fits == Len(s) + 4 =< StackWords
    IN  /\ stack' = IF fits THEN s \o frame ELSE stack
        /\ pc' = IF fits THEN "gpstub" ELSE "overrun"
        /\ ds' = ds

\* The stub of #GP: the error code off the stack, SaveTrapRegs, the segments.  As
\* built, pop dword [_ErrorCode] comes first and faults through the null DS, in
\* the same stub, again and again.
SaveAfterFault ==
    /\ stack' = Drop(1) \o SubSeq(Frame(cpu, Own("none", 0)), 10, RD_NUM_DWORDS)
    /\ ds' = SegsRestored(stack')
    /\ pc' = IF Bit17(stack'[Len(stack') - Stub.flagsAt]) = Stub.vmIf
             THEN "gp" ELSE "gpleave"

GPStub ==
    /\ pc = "gpstub"
    /\ IF Stub.segsFirst THEN SaveAfterFault ELSE FaultInStub(stack)
    /\ UNCHANGED <<cpu, ints, esp0, supervisor_call, calls>>

\* The stub of an IRQ up to its handler's return.  As built it has pushed the
\* number of the IRQ, has no RestoreSegsIfNecessary at all, and faults at its
\* pop dword [TheIRQ].
SaveAfterIrq ==
    /\ stack' = stack \o SubSeq(Frame(cpu, Own("none", 0)), 10, RD_NUM_DWORDS)
    /\ ds' = "kernel"
    /\ pc' = "irq"

IrqStub ==
    /\ pc = "irqstub"
    /\ IF Stub.segsFirst THEN SaveAfterIrq ELSE FaultInStub(Append(stack, Own("irq", 0)))
    /\ UNCHANGED <<cpu, ints, esp0, supervisor_call, calls>>

\* Between IntsOn in the monitor and the IRET that ends it an IRQ comes in on
\* the same stack: three words and eight registers.
IrqInHandler ==
    /\ pc = "gpleave"
    /\ ints
    /\ stack' = stack \o <<Eflags(FALSE, ints), CS("kernel"), Eip(Ring0Place(pc))>>
                      \o [k \in 1 .. 8 |-> Own("registers", 0)]
    /\ pc' = "irq0"
    /\ ints' = FALSE
    /\ UNCHANGED <<cpu, ds, esp0, supervisor_call, calls>>

-----------------------------------------------------------------------------

\* ScMonitorV86: what the handler finds at the address it was given.  A variant
\* is one DWORD off.
ContextOneOff(i) == At(i + 1)
Context(i) == At(i + Stub.frameOff)
ContextRegs ==
    [r \in Regs |-> Context((CHOOSE i \in 1 .. RD_NUM_DWORDS : RD[i] = r) - 1)]
RD_EIP == 8
RD_CS == 9

\* The instruction the monitor decodes; what stands at another address is one it
\* does not know.
Ins ==
    IF Context(RD_EIP).of = "eip" /\ Context(RD_CS) = cpu["cs"]
       THEN Context(RD_EIP).place.ins
       ELSE [op |-> "other"]

\* INT: one more call, with EIP still at the instruction.
MonitorInt ==
    /\ pc = "gp"
    /\ Ins.op = "int"
    /\ ScVirtual86_Int(MonitorWords, ContextRegs, Ins.vector)
    /\ UNCHANGED <<ints, ds>>

\* CLI and STI: of the handler itself; IRET takes the flags from the frame.
MonitorFlag ==
    /\ pc = "gp"
    /\ Ins.op \in {"cli", "sti"}
    /\ supervisor_call
    /\ ints' = (Ins.op = "sti")
    /\ LET i == Len(stack) - (RD_EIP + Stub.frameOff)
       IN  \E ins \in Instructions(Len(calls)) :
              stack' = [stack EXCEPT ![i] = Eip(After(@.place, ins))]
    /\ pc' = "gpleave"
    /\ UNCHANGED <<cpu, ds, esp0, supervisor_call, calls>>

\* Where ScOnExceptRetReenterCallerV86 writes for RD[i + 1]: it takes the frame
\* for one DWORD lower than it is.  A variant does not.
WrittenThere(i) == GetESP0 + RD_NUM_DWORDS - i
Written(i) == GetESP0 + RD_NUM_DWORDS + 1 - i
RD_ESI == 4
RD_EBP == 6

\* IRET: the word at ESP0 goes to where EBP is thought to be, and the saved EBP,
\* EDI and ESI one after the other to the place of ESI.
MonitorIret ==
    /\ pc = "gp"
    /\ Ins.op = "iret"
    /\ supervisor_call
    /\ stack' = [stack EXCEPT ![Written(RD_EBP)] = stack[GetESP0],
                              ![Written(RD_ESI)] = stack[GetESP0 - 3]]
    /\ pc' = "gpleave"
    /\ UNCHANGED <<cpu, ints, ds, esp0, supervisor_call, calls>>

\* Anything else: nothing.  A variant tries again.
MonitorOtherAgain ==
    /\ pc = "gp"
    /\ Ins.op = "other"
    /\ UNCHANGED vars
MonitorOther ==
    /\ pc = "gp"
    /\ Ins.op = "other"
    /\ pc' = "gpleave"
    /\ UNCHANGED <<cpu, ints, ds, stack, esp0, supervisor_call, calls>>

\* RestTrapRegs and IRET with the registers of the frame: to V86 mode, or to
\* where ScEnterV86 was called if the VM bit of the frame is off.
Iret ==
    /\ pc \in {"gpleave", "irq"}
    /\ ints' = Saved("eflags").ints
    /\ IF Saved("eflags").vm
          THEN /\ cpu' = [r \in Regs |-> Saved(r)]
               /\ stack' = Drop(RD_NUM_DWORDS)
               /\ pc' = "v86"
               /\ calls' = calls
          ELSE /\ cpu' = cpu
               /\ stack' = calls[Len(calls)].below
               /\ pc' = "kernel"
               /\ calls' = SubSeq(calls, 1, Len(calls) - 1)
    /\ UNCHANGED <<ds, esp0, supervisor_call>>

\* RestTrapRegs and IRET to ring 0.
IretToHandler ==
    /\ pc = "irq0"
    /\ ints' = Saved("eflags").ints
    /\ stack' = Drop(11)
    /\ pc' = Saved("eip").place.at
    /\ UNCHANGED <<cpu, ds, esp0, supervisor_call, calls>>

Monitor == MonitorInt \/ MonitorFlag \/ MonitorIret \/ MonitorOther
Handle ==
    GPStub \/ IrqStub \/ Monitor \/ Iret \/ IretToHandler

Next ==
    \/ KernelCall \/ Work \/ GeneralProtectFault \/ Irq \/ IrqInHandler
    \/ Handle

Spec == Init /\ [][Next]_vars

\* The processor goes on.
FairSpec ==
    /\ Spec
    /\ WF_vars(Handle)
    /\ WF_vars(KernelCall \/ Work \/ GeneralProtectFault)

-----------------------------------------------------------------------------
(* Properties *)

Top == calls[Len(calls)]
Op == cpu["eip"].place.ins.op

\* Types, and how far the stack is above ESP0 in each place of ring 0: as built
\* the stub of #GP piles frames up.
Above ==
    [v86 |-> 0, gpstub |-> 10, gp |-> 17, gpleave |-> 17, irqstub |-> 9,
     irq |-> 17, irq0 |-> 28]
Height(place, h) ==
    IF place \in {"gpstub", "overrun"} /\ ~Stub.segsFirst THEN h >= esp0 + 9
    ELSE h = esp0 + Above[place]
TypeOK ==
    /\ pc \in PCs
    /\ ints \in BOOLEAN
    /\ ds \in {"kernel", "null"}
    /\ DOMAIN cpu = Regs
    /\ pc # "kernel" => Height(pc, Len(stack))

\* What ScEnterV86 left for its caller, and all that lies below it (the callers'
\* frames, the frame of the fault in which a nested call was made), stays as
\* it was, whatever faults, IRQs and further calls come (V86.c 44-51).
CallersKept ==
    \A i \in DOMAIN calls :
        LET below == calls[i].below
        IN  Len(below) =< Len(stack) /\ SubSeq(stack, 1, Len(below)) = below

\* When the monitor runs, memory can be reached, and what it takes for the frame
\* is that of the fault: at any depth of calls the stub and the monitor agree
\* where it is.  As built no monitor ever runs.
MonitorSeesFault ==
    pc = "gp" => ds = "kernel" /\ Ins = cpu["eip"].place.ins

\* Back in V86 mode the code has its registers, and goes on behind a CLI or STI;
\* after an IRET that did not return, EDI and EDX have been written over.
ResumesV86 ==
    [][pc # "v86" /\ pc' = "v86" /\ calls' = calls =>
         LET lost == IF pc = "gpleave" /\ Op = "iret" THEN {"edi", "edx"} ELSE {}
             moved == pc = "gpleave" /\ Op \in {"cli", "sti"}
         IN  /\ \A r \in Regs \ (lost \union {"eip"}) : cpu'[r] = cpu[r]
             /\ cpu'["eip"].place.n =
                   IF moved THEN 1 - cpu["eip"].place.n ELSE cpu["eip"].place.n]_vars

IrqsFallSilent == <>[][~(Irq \/ IrqInHandler)]_vars

\* "Interrupts and exceptions must work in V86 mode or getting out is impossible"
\* (docs/Scheduler.md): when no more IRQs come, every fault of V86 code ends with
\* V86 code running again, its own or that of the interrupt it called.
Answered == IrqsFallSilent => (pc = "gpstub" ~> pc = "v86")

\* A call returns when its code executes IRET (V86.c 185-204), when no more IRQs
\* come.
CallReturns ==
    IrqsFallSilent =>
        \A k \in 1 .. MaxCalls :
            (Len(calls) = k /\ pc = "gp" /\ Op = "iret") ~> Len(calls) < k

=============================================================================
