----------------------------- MODULE KernelInit -----------------------------
(***************************************************************************)
(* What the kernel sets up before it runs anything: StartK.asm the         *)
(* selectors and the stack, InitIA32 (IA32.c) the segments, the two 8259s  *)
(* and the IDT, and InitScheduler (Scheduler.c) the timer and the vectors  *)
(* of DPMI programs.  A step is one port write or one table entry;         *)
(* interrupts are off, but devices may request them.  At the end a user    *)
(* program calls interrupts with INT, each of which is to end in #GP.      *)
(***************************************************************************)
EXTENDS Startup

CONSTANTS
    Tss, Ldt,   \* where the linker puts them: <<high 16 bits, low 16 bits>>
    Devices,    \* the lines whose devices request interrupts
    DosMasks,   \* what lines DOS may leave masked
    Called      \* the vectors the user program calls

Byte == 0 .. 255
Word == 0 .. 65535
ASSUME KernelInitAssumption ==
    /\ Tss \in Word \X Word /\ Ldt \in Word \X Word
    /\ Devices \subseteq Line /\ DosMasks \subseteq SUBSET Line
    /\ Called \subseteq Byte

VARIABLES
    pc, i,      \* the part of the initialisation and its loop variable
    gdt,        \* the descriptors
    tr, ldtr,   \* the descriptors the processor has loaded
    chip,       \* the 8259s
    requested,  \* history: the lines requested since their chip's ICW1
    idt,        \* the gates written so far
    pit,        \* channel 0 of the timer
    errorCode, entered
                \* of the last INT: the error code and the stub it came to in ring 0

setupVars == <<pc, i, gdt, tr, ldtr, chip, requested, idt, pit, errorCode, entered>>
descriptors == <<gdt, tr, ldtr>>
program == <<errorCode, entered>>

BitOn(byte, k) == (byte \div <<1, 2, 4, 8, 16, 32, 64, 128>>[k + 1]) % 2 = 1
Bits(byte) == {k \in 0 .. 7 : BitOn(byte, k)}
DPL(byte) == (byte \div 32) % 4

-----------------------------------------------------------------------------
(* The segments *)

\* ACCESS_RIGHTS of a present segment: 1<<7 | ring<<6 | type.  The ring's field is
\* at bit 5, so that ring 3 becomes 2.
ACCESS_RIGHTS(ring, type) == 128 + 64 * (ring % 2) + type
TYPE_TSS == 9
TYPE_LDT == 2
TYPE_CODE == 27

Descriptor(access) == [access |-> access, base0 |-> 0, base1 |-> 0, base2 |-> 0]
GDT ==
    [ucode |-> Descriptor(ACCESS_RIGHTS(3, TYPE_CODE)),
     tss   |-> Descriptor(ACCESS_RIGHTS(3, TYPE_TSS)),
     ldt   |-> Descriptor(ACCESS_RIGHTS(0, TYPE_LDT))]

AppendAddress(entry, address) ==
    [gdt EXCEPT ![entry].base0 = address[2],
                ![entry].base1 = address[1] % 256,
                ![entry].base2 = address[1] \div 256]

Present(d) == d.access >= 128

\* The base the processor takes from a descriptor.
Base(d) == <<256 * d.base2 + d.base1, d.base0>>

\* The order of InitIA32.  A variant fills in the TSS descriptor after LTR.
SegmentStepsLate == <<"ltr", "tss", "ldt", "lldt">>
SegmentSteps == <<"tss", "ltr", "ldt", "lldt">>

-----------------------------------------------------------------------------
(* The 8259s *)

ICW1 == 17          \* 1<<4 | ICW1_ICW4
ICW4_8086 == 1
ICW4_SLAVE == 8
\* Variants: the base before the command word, and one base for both.
RemapBaseFirst ==
    <<<<33, IRQ_BASE>>, <<161, IRQ_BASE + 8>>, <<32, ICW1>>, <<160, ICW1>>,
      <<33, 4>>, <<161, 2>>, <<33, ICW4_8086>>, <<161, ICW4_8086 + ICW4_SLAVE>>>>
RemapOneBase ==
    <<<<32, ICW1>>, <<160, ICW1>>, <<33, IRQ_BASE>>, <<161, IRQ_BASE>>,
      <<33, 4>>, <<161, 2>>, <<33, ICW4_8086>>, <<161, ICW4_8086 + ICW4_SLAVE>>>>
PIC_Remap ==
    <<<<32, ICW1>>, <<160, ICW1>>, <<33, IRQ_BASE>>, <<161, IRQ_BASE + 8>>,
      <<33, 4>>, <<161, 2>>, <<33, ICW4_8086>>, <<161, ICW4_8086 + ICW4_SLAVE>>>>

\* And the OCW3 that makes reads of the command ports give the ISR.
PortWrites == PIC_Remap \o <<<<32, 11>>, <<160, 11>>>>

ChipOf(port) == IF port < 160 THEN "master" ELSE "slave"
LinesOf(c) == IF c = "master" THEN MasterLine ELSE SlaveLine

\* An even port: ICW1, which also clears the masks and the requests, or OCW3.
Command(c, byte) ==
    IF BitOn(byte, 4)
       THEN [c EXCEPT !.expect = 2, !.icw4 = BitOn(byte, 0), !.read = "irr",
                      !.imr = {}, !.irr = {}]
       ELSE [c EXCEPT !.read = IF BitOn(byte, 0) THEN "isr" ELSE "irr"]

\* An odd port: the ICW that is due, and OCW1 when none is.
Data(c, byte) ==
    CASE c.expect = 2 -> [c EXCEPT !.base = byte, !.expect = 3]
      [] c.expect = 3 -> [c EXCEPT !.cascade = byte, !.expect = IF c.icw4 THEN 4 ELSE 1]
      [] c.expect = 4 -> [c EXCEPT !.mode = byte, !.expect = 1]
      [] c.expect = 1 -> [c EXCEPT !.imr = Bits(byte)]

\* As the BIOS and DOS leave a chip, with some lines masked and some requested.
Chip(name, masked, irr) ==
    [expect |-> 1, icw4 |-> TRUE, mode |-> 1, read |-> "irr",
     base    |-> IF name = "master" THEN 8 ELSE 112,
     cascade |-> IF name = "master" THEN 4 ELSE 2,
     imr     |-> masked \cap LinesOf(name), irr |-> irr \cap LinesOf(name)]

-----------------------------------------------------------------------------
(* The IDT *)

EXCEPT_IMPLEMENTED == 15
DPMI_VECTOR == 49

\* MkTrapGate: the DPL is put in at bit 4, and a gate's DPL is at bit 5.
MkTrapGate(dpl, stub) == [attr |-> 128 + 16 * dpl + 14, stub |-> stub]
MkIntrGate(stub) == [attr |-> 128 + 14, stub |-> stub]
SetIntVector(vector, gate) ==
    [v \in DOMAIN idt \union {vector} |-> IF v = vector THEN gate ELSE idt[v]]

\* FillIDT: the exceptions' stubs, then those of the IRQs.
FillIDT ==
    [k \in 1 .. EXCEPT_IMPLEMENTED |-> <<k - 1, MkTrapGate(0, <<"except", k - 1>>)>>]
    \o [k \in 1 .. 16 |-> <<InterruptGates[k][1], MkIntrGate(<<"irq", InterruptGates[k][2]>>)>>]

\* Init_DPMI_ReflectionHandlers: entry and the bound are BYTEs.  Variants: the
\* bound of the table's size in an int, and all vectors that are no exception.
ReflectBoundInt == 256
ReflectBound == (256 - DPMI_VECTOR) % 256
ReflectFromExceptions == EXCEPT_IMPLEMENTED
ReflectFrom == DPMI_VECTOR

-----------------------------------------------------------------------------

SetupInit ==
    /\ pc = "begin" /\ i = 1
    /\ gdt = GDT
    /\ tr = Descriptor(0) /\ ldtr = Descriptor(0)
    /\ \E masked \in DosMasks, irr \in SUBSET Devices :
          chip = [c \in {"master", "slave"} |-> Chip(c, masked, irr)]
    /\ requested = {}
    /\ idt = << >>
    /\ pit = [both |-> TRUE, half |-> "low", low |-> 0, count |-> 0]
    /\ errorCode = 0 /\ entered = <<"none", 0>>

\* On to the next of n steps, or to the next part.
Advance(n, next, first) ==
    IF i < n THEN i' = i + 1 /\ pc' = pc ELSE i' = first /\ pc' = next

\* The kernel's first instructions, to the call of KernelMain.
Begin ==
    /\ pc = "begin"
    /\ pc' = "segments"
    /\ UNCHANGED <<i, descriptors, chip, requested, idt, pit, program>>

Raise(q) ==
    /\ pc \notin {"begin", "user"}
    /\ q \in Devices
    /\ \E c \in {"master", "slave"} :
          /\ q \in LinesOf(c)
          /\ chip' = [chip EXCEPT ![c].irr = @ \union {q}]
    /\ requested' = requested \union {q}
    /\ UNCHANGED <<pc, i, descriptors, idt, pit, program>>

Segments ==
    /\ pc = "segments"
    /\ LET step == SegmentSteps[i]
       IN  /\ gdt' = CASE step = "tss" -> AppendAddress("tss", Tss)
                       [] step = "ldt" -> AppendAddress("ldt", Ldt)
                       [] OTHER        -> gdt
           /\ tr' = IF step = "ltr" THEN gdt["tss"] ELSE tr
           /\ ldtr' = IF step = "lldt" THEN gdt["ldt"] ELSE ldtr
    /\ Advance(Len(SegmentSteps), "pic", 1)
    /\ UNCHANGED <<chip, requested, idt, pit, program>>

PicOutb ==
    /\ pc = "pic"
    /\ LET port == PortWrites[i][1]
           c == ChipOf(port)
           reply == IF port % 2 = 0 THEN Command(chip[c], PortWrites[i][2])
                                    ELSE Data(chip[c], PortWrites[i][2])
       IN  /\ chip' = [chip EXCEPT ![c] = reply]
           /\ requested' = IF PortWrites[i] = <<port, ICW1>> THEN requested \ LinesOf(c)
                                                            ELSE requested
    /\ Advance(Len(PortWrites), "idt", 1)
    /\ UNCHANGED <<descriptors, idt, pit, program>>

WriteGate ==
    /\ pc = "idt"
    /\ idt' = SetIntVector(FillIDT[i][1], FillIDT[i][2])
    /\ Advance(Len(FillIDT), "ready", 1)
    /\ UNCHANGED <<descriptors, chip, requested, pit, program>>

\* The timer: port 43h says that a count comes as a low and a high byte, which go
\* to port 40h.
Timer(port, byte) ==
    CASE port = 67 -> [pit EXCEPT !.both = Bits(byte) \cap {4, 5} = {4, 5}, !.half = "low"]
      [] port = 64 /\ pit.both /\ pit.half = "low" ->
             [pit EXCEPT !.low = byte, !.half = "high"]
      [] port = 64 /\ pit.both /\ pit.half = "high" ->
             [pit EXCEPT !.count = pit.low + 256 * byte, !.half = "low"]

\* InitScheduler, which nothing calls yet, with ConfigurePIT.
PitWrites == <<<<67, 54>>, <<64, 176>>, <<64, 4>>>>
InitScheduler ==
    /\ pc = "ready"
    /\ pc' = "pit"
    /\ UNCHANGED <<i, descriptors, chip, requested, idt, pit, program>>
ConfigurePIT ==
    /\ pc = "pit"
    /\ pit' = Timer(PitWrites[i][1], PitWrites[i][2])
    /\ Advance(Len(PitWrites), "reflect", ReflectFrom)
    /\ UNCHANGED <<descriptors, chip, requested, idt, program>>

Reflect ==
    /\ pc = "reflect"
    /\ IF i < ReflectBound
          THEN /\ idt' = SetIntVector(i, MkTrapGate(0, <<"address", 0>>))
               /\ i' = (i + 1) % 256
               /\ pc' = pc
          ELSE pc' = "user" /\ UNCHANGED <<i, idt>>
    /\ UNCHANGED <<descriptors, chip, requested, pit, program>>

-----------------------------------------------------------------------------

\* A program at the privilege level with which IRET can enter its code segment
\* executes INT vector; the processor takes the gate if its DPL lets it, and
\* otherwise raises #GP with the gate's number and bit 1, the IDT's, in the code.
GateOpen(vector) ==
    vector \in DOMAIN idt /\ DPL(idt[vector].attr) >= DPL(gdt["ucode"].access)

CallInt(vector) ==
    /\ pc = "user"
    /\ IF GateOpen(vector)
          THEN entered' = idt[vector].stub /\ errorCode' = errorCode
          ELSE entered' = idt[13].stub /\ errorCode' = 8 * vector + 2
    /\ UNCHANGED <<pc, i, descriptors, chip, requested, idt, pit>>

\* How CheckAndHandleDPMI_Trap decodes _ErrorCode.  GeneralProtect does not call
\* it, nor does anything else.  A variant decodes it wrong.
TrapVectorShifted(code) == (code \div 4) % 256
TrapVector(code) == (code \div 8) % 256

SetupStep == Segments \/ PicOutb \/ WriteGate \/ ConfigurePIT \/ Reflect
SetupNext ==
    \/ Begin
    \/ \E q \in Line : Raise(q)
    \/ SetupStep \/ InitScheduler
    \/ \E vector \in Called : CallInt(vector)

\* The processor goes on; nothing makes a loader start the kernel, the kernel call
\* InitScheduler, a device raise its line or a program run.
SetupSpec == SetupInit /\ [][SetupNext]_setupVars /\ WF_setupVars(SetupStep)

-----------------------------------------------------------------------------
(* Properties *)

SetupTypeOK ==
    /\ pc \in {"begin", "segments", "pic", "idt", "ready", "pit", "reflect", "user"}
    /\ i \in Byte
    /\ \A c \in {"master", "slave"} :
          /\ chip[c].expect \in 1 .. 4
          /\ chip[c].base \in Byte /\ chip[c].base % 8 = 0
          /\ chip[c].imr \union chip[c].irr \subseteq LinesOf(c)
    /\ DOMAIN idt \subseteq Byte
    /\ \A v \in DOMAIN idt : idt[v].attr \in Byte
    /\ errorCode \in Word

\* LTR and LLDT keep a copy of the descriptor, which has to have its base by
\* then: the one the CPU holds leads to the tables, whatever was in it before.
TablesReached ==
    /\ Present(tr) => Base(tr) = Tss
    /\ Present(ldtr) => Base(ldtr) = Ldt

\* When PIC_Remap and the OCW3s are through, the chips are as the dispatcher
\* takes them to be: line q comes at IRQ_BASE+q, the slave where both chips have
\* it, reads give the ISR.  Each has the requests since its own first command word
\* and no others.  The timer then counts 1200.
Programmed ==
    pc \notin {"begin", "segments", "pic"} =>
        /\ \A q \in Line :
              LET c == CHOOSE c \in {"master", "slave"} : q \in LinesOf(c)
              IN  chip[c].base + (q % 8) = IRQ_BASE + q
        /\ Bits(chip["master"].cascade) = {chip["slave"].cascade}
        /\ chip["slave"].cascade = Cascade
        /\ \A c \in {"master", "slave"} :
              /\ chip[c].expect = 1 /\ chip[c].read = "isr"
              /\ BitOn(chip[c].mode, 0) /\ ~BitOn(chip[c].mode, 1)
              /\ chip[c].irr = requested \cap LinesOf(c)
        /\ pc \in {"reflect", "user"} => pit.count = 1200

\* From FillIDT on an exception finds its own stub and the first IRQ vector a
\* stub of an IRQ: Init_DPMI_ReflectionHandlers leaves them alone.
OwnGates ==
    pc \in {"ready", "pit", "reflect", "user"} =>
        /\ \A v \in 0 .. EXCEPT_IMPLEMENTED - 1 : idt[v].stub = <<"except", v>>
        /\ idt[IRQ_BASE].stub[1] = "irq"

\* Whatever vector a program calls, an exception's, an IRQ's, a reflected one or one
\* of the last 49 that the reflection loop leaves empty, it comes to the stub of #GP
\* with a code that decodes to that vector.
IntReflected ==
    [][\A v \in Called : CallInt(v) =>
         entered' = <<"except", 13>> /\ TrapVector(errorCode') = v]_setupVars

\* The loops over BYTEs end.
InitEnds ==
    /\ pc = "segments" ~> pc = "ready"
    /\ pc = "pit" ~> pc = "user"
=============================================================================
