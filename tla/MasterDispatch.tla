---------------------------- MODULE MasterDispatch ----------------------------
(***************************************************************************)
(* Hardware interrupts: the entry stubs of Intr_Trap.asm, InMasterDispatch *)
(* and SendEOI of Scheduler.c, and the line table of PnP_Mgr.c, run by one *)
(* processor against the two 8259s.                                        *)
(*                                                                         *)
(* At the bottom of the kernel stack one driver at a time is in, or        *)
(* between, calls of InAcquireLegacyIRQ.  On top of it lie the activations *)
(* of InMasterDispatch that have called a handler, each interrupting the   *)
(* one below.  The prologue of InMasterDispatch runs with IF = 0 from the  *)
(* interrupt gate up to IntsOn(), so taking an interrupt is one step up to *)
(* there, or up to the return when no handler is called.                   *)
(***************************************************************************)
EXTENDS Sequences, FiniteSets, InterruptTable

CONSTANTS
    Devices,    \* lines with a device that raises them
    Noisy,      \* lines whose request may drop before it is acknowledged
    Gate,       \* what the stub of vector IRQ_BASE + q pushes, or NoGate
    NoGate,     \* the IDT entry is not present
    TailPops,   \* DWORDs Continue drops before RestTrapRegs and IRET
    StartLevels,\* lvl_bmp as the startup code leaves it
    Driver,     \* drivers that ask for lines
    Wanted,     \* lines they ask for
    NoHandler,  \* an entry of handlers[] nothing was stored in
    MaxDepth    \* bound: activations on the kernel stack

ASSUME DispatchAssumption ==
    /\ Devices \subseteq Line \ {Cascade}
    /\ Noisy \subseteq Devices
    /\ NoGate \notin Line
    /\ Gate \in [Line -> Line \cup {NoGate}]
    /\ \A p, q \in Line : Gate[p] = Gate[q] /\ p # q => Gate[p] = NoGate
    /\ TailPops \in Nat
    /\ StartLevels \in Bitmap
    /\ Wanted \subseteq Line
    /\ NoHandler \notin Driver
    /\ MaxDepth \in Nat

VARIABLES
    irr, isr, imr,  \* the controllers: requests, in service, masked
    iflag,          \* EFLAGS.IF
    last_mode,      \* Scheduler.c
    lvl_bmp,        \* interrupts.lvl_bmp
    handlers,       \* interrupts.handlers, by the driver that installed one
    stack,          \* activations of InMasterDispatch, the running one last
    call,           \* the driver's call: [pc, who, irq, edx]
    critical,       \* the driver is between its own Enter and Exit
    granted,        \* <<driver, line>> InAcquireLegacyIRQ did not refuse
    wild            \* control left the code: a call or return through garbage

chips  == <<irr, isr, imr>>
table  == <<lvl_bmp, handlers>>
client == <<call, critical, granted>>
vars   == <<chips, iflag, last_mode, table, stack, client, wild>>

Idle == [pc |-> "idle", who |-> NoHandler, irq |-> 0, edx |-> Cleared]

Init ==
    /\ irr = {} /\ isr = {} /\ imr = {}
    /\ iflag = FALSE
    /\ last_mode = "KERNEL"
    /\ lvl_bmp = StartLevels
    /\ handlers = [q \in Line |-> NoHandler]
    /\ stack = <<>>
    /\ call = Idle
    /\ critical = FALSE
    /\ granted = {}
    /\ wild = FALSE

------------------------------------------------------------------------------
(* The devices. *)

\* A device drives its line high and the edge is latched.
Raise(q) ==
    /\ ~wild
    /\ q \notin irr
    /\ irr' = irr \cup {q}
    /\ UNCHANGED <<isr, imr, iflag, last_mode, table, stack, client, wild>>

------------------------------------------------------------------------------
(* Taking an interrupt. *)

\* RestTrapRegs and IRET: IF comes back on, unless ESP is off the frame.
Resume == /\ wild' = (TailPops # 0)
          /\ UNCHANGED stack

\* IntsOn() and the call through handlers[irq].
CallHandler(v, irq) ==
    IF handlers[irq] = NoHandler
    THEN wild' = TRUE /\ UNCHANGED stack
    ELSE /\ stack' = Append(stack, [line |-> v, irq |-> irq, pc |-> "handler"])
         /\ UNCHANGED wild

\* The in-service bits decide whether IRQ 7 or IRQ 15 is spurious.
IsSpurious(irq, inservice16) ==
    \/ irq = 7 /\ inservice16 \cap MasterLine = {}
    \/ irq = 15 /\ inservice16 \cap SlaveLine = {}

\* InGetInterruptLevel shifts the table it reads.  HandleIRQ0, called when
\* bit 0 is in service, has an empty body and does not end the dispatch.
InMasterDispatch(v, irq) ==
    /\ last_mode' = "INTERRUPT"
    /\ IF IsSpurious(irq, isr')
       THEN Resume /\ UNCHANGED lvl_bmp
       ELSE /\ lvl_bmp' = ShiftedRight(lvl_bmp, irq)
            /\ IF Equals(lvl_bmp', BUS_INUSE) THEN CallHandler(v, irq) ELSE Resume

\* Vector IRQ_BASE + v.  A gate that is not present raises #NP instead, whose
\* handler is empty: the interrupted code goes on and no EOI is ever sent.
Vector(v) ==
    IF Gate[v] = NoGate
    THEN UNCHANGED <<last_mode, lvl_bmp, stack, wild>>
    ELSE InMasterDispatch(v, Gate[v])

Accepting == ~wild /\ iflag /\ Len(stack) < MaxDepth

\* Mutant: the EOI is sent on entry, before the handler is called.
InterruptEOIFirst(q) ==
    /\ Accepting
    /\ Wins(q, irr, isr, imr)
    /\ irr' = irr \ {q}
    /\ isr' = MasterEOI(InService(q, isr))
    /\ Vector(q)
    /\ UNCHANGED <<imr, iflag, handlers, client>>

Interrupt(q) ==
    /\ Accepting
    /\ Wins(q, irr, isr, imr)
    /\ irr' = irr \ {q}
    /\ isr' = InService(q, isr)
    /\ Vector(q)
    /\ UNCHANGED <<imr, iflag, handlers, client>>

\* The only request drops after INTR went up.  The chip that has nothing left
\* to present answers with its lowest line; no bit of its own comes in service.
Spurious(q) ==
    /\ Accepting
    /\ \A p \in irr : Unblocked(p, isr, imr) <=> p = q
    /\ q \in irr
    /\ irr' = irr \ {q}
    /\ IF q \in SlaveLine
       THEN isr' = isr \cup {Cascade} /\ Vector(15)
       ELSE isr' = isr /\ Vector(7)
    /\ UNCHANGED <<imr, iflag, handlers, client>>

------------------------------------------------------------------------------
(* The running activation, from the handler's return to its own. *)

Top == stack[Len(stack)]
Step(pc) == stack' = [stack EXCEPT ![Len(stack)].pc = pc]

\* Mutant: the handler has ended its level already, and SendEOI ends another.
SendEOITwice ==
    /\ ~wild /\ stack # <<>> /\ Top.pc = "handler"
    /\ isr' = MasterEOI(MasterEOI(isr))
    /\ Step(IF Top.irq > 7 THEN "slave" ELSE "return")
    /\ UNCHANGED <<irr, imr, iflag, last_mode, table, client, wild>>

\* The handler returns and SendEOI writes 20h to the master's command port.
SendEOI ==
    /\ ~wild /\ stack # <<>> /\ Top.pc = "handler"
    /\ isr' = MasterEOI(isr)
    /\ Step(IF Top.irq > 7 THEN "slave" ELSE "return")
    /\ UNCHANGED <<irr, imr, iflag, last_mode, table, client, wild>>

\* Mutants: the second EOI goes to the master again; the slave's in-service
\* register is polled until it reads zero.
SendSlaveEOIToMaster ==
    /\ ~wild /\ stack # <<>> /\ Top.pc = "slave"
    /\ isr' = MasterEOI(isr)
    /\ Step("return")
    /\ UNCHANGED <<irr, imr, iflag, last_mode, table, client, wild>>

SendSlaveEOIPolled ==
    /\ ~wild /\ stack # <<>> /\ Top.pc = "slave"
    /\ isr \cap SlaveLine = {}
    /\ imr' = MaskSlave({13}, imr)
    /\ Step("return")
    /\ UNCHANGED <<irr, isr, iflag, last_mode, table, client, wild>>

\* For a slave line it writes 20h to port A1h, which is the mask register.
SendSlaveEOI ==
    /\ ~wild /\ stack # <<>> /\ Top.pc = "slave"
    /\ imr' = MaskSlave({13}, imr)
    /\ Step("return")
    /\ UNCHANGED <<irr, isr, iflag, last_mode, table, client, wild>>

Return ==
    /\ ~wild /\ stack # <<>> /\ Top.pc = "return"
    /\ stack' = SubSeq(stack, 1, Len(stack) - 1)
    /\ wild' = (TailPops # 0)
    /\ UNCHANGED <<chips, iflag, last_mode, table, client>>

------------------------------------------------------------------------------
(* The driver, which runs when no activation lies on top of it. *)

Running(pc) == ~wild /\ stack = <<>> /\ call.pc = pc

\* A critical section of the driver's own, around its calls.
EnterCriticalSection ==
    /\ Running("idle") /\ ~critical
    /\ critical' = TRUE
    /\ iflag' = FALSE
    /\ UNCHANGED <<chips, last_mode, table, stack, call, granted, wild>>

ExitCriticalSection ==
    /\ Running("idle") /\ critical
    /\ critical' = FALSE
    /\ iflag' = TRUE
    /\ UNCHANGED <<chips, last_mode, table, stack, call, granted, wild>>

\* InAcquireLegacyIRQ enters InGetInterruptLevel: load the bitmap and shift it.
InAcquireLegacyIRQ(d, q) ==
    /\ Running("idle")
    /\ <<d, q>> \notin granted
    /\ call' = [pc |-> "store", who |-> d, irq |-> q,
                edx |-> ShiftedRight(lvl_bmp, q)]
    /\ UNCHANGED <<chips, iflag, last_mode, table, stack, critical, granted, wild>>

\* ... and store it back.
StoreLevels ==
    /\ Running("store")
    /\ lvl_bmp' = call.edx
    /\ call' = [call EXCEPT !.pc = "test"]
    /\ UNCHANGED <<chips, iflag, last_mode, handlers, stack, critical, granted, wild>>

\* Mutant: a line in use is tried again instead of refused.
RefuseRetries ==
    /\ Running("test")
    /\ Equals(call.edx, BUS_INUSE)
    /\ call' = [call EXCEPT !.pc = "store"]
    /\ UNCHANGED <<chips, iflag, last_mode, table, stack, critical, granted, wild>>

\* OS_ERROR_GENERIC
Refuse ==
    /\ Running("test")
    /\ Equals(call.edx, BUS_INUSE)
    /\ call' = Idle
    /\ UNCHANGED <<chips, iflag, last_mode, table, stack, critical, granted, wild>>

\* Mutant: the critical section is entered without cli.
EnterSetInterruptEntryOpen ==
    /\ Running("test")
    /\ ~Equals(call.edx, BUS_INUSE)
    /\ call' = [call EXCEPT !.pc = "entry"]
    /\ UNCHANGED <<chips, iflag, last_mode, table, stack, critical, granted, wild>>

\* SetInterruptEntry, first instruction: cli.
EnterSetInterruptEntry ==
    /\ Running("test")
    /\ ~Equals(call.edx, BUS_INUSE)
    /\ iflag' = FALSE
    /\ call' = [call EXCEPT !.pc = "entry"]
    /\ UNCHANGED <<chips, last_mode, table, stack, critical, granted, wild>>

\* The handler, and its owner, which is &kernel_bus_hdr in every call there is.
SetHandler ==
    /\ Running("entry")
    /\ handlers' = [handlers EXCEPT ![call.irq] = call.who]
    /\ call' = [call EXCEPT !.pc = "level"]
    /\ UNCHANGED <<chips, iflag, last_mode, lvl_bmp, stack, critical, granted, wild>>

\* Mutant: lvl << (irq * 2 + 1), one bit too far.
SetLevelMisplaced ==
    /\ Running("level")
    /\ lvl_bmp' = WithLevel(lvl_bmp, call.irq, 2 * BUS_INUSE)
    /\ call' = [call EXCEPT !.pc = "exit"]
    /\ UNCHANGED <<chips, iflag, last_mode, handlers, stack, critical, granted, wild>>

\* The level, or-ed into whatever the table holds of the line.
SetLevel ==
    /\ Running("level")
    /\ lvl_bmp' = WithLevel(lvl_bmp, call.irq, BUS_INUSE)
    /\ call' = [call EXCEPT !.pc = "exit"]
    /\ UNCHANGED <<chips, iflag, last_mode, handlers, stack, critical, granted, wild>>

\* sti, whatever IF was on entry, and back to the driver.
ExitSetInterruptEntry ==
    /\ Running("exit")
    /\ iflag' = TRUE
    /\ granted' = granted \cup {<<call.who, call.irq>>}
    /\ call' = Idle
    /\ UNCHANGED <<chips, last_mode, table, stack, critical, wild>>

------------------------------------------------------------------------------
Device == \E q \in Devices : Raise(q)
Accept == \/ \E q \in Devices : Interrupt(q)
          \/ \E q \in Noisy : Spurious(q)
Finish == SendEOI \/ SendSlaveEOI \/ Return
Acquire == \/ StoreLevels
           \/ Refuse
           \/ EnterSetInterruptEntry
           \/ SetHandler
           \/ SetLevel
           \/ ExitSetInterruptEntry

Next == \/ Device
        \/ Accept
        \/ Finish
        \/ Acquire
        \/ EnterCriticalSection
        \/ ExitCriticalSection
        \/ \E d \in Driver, q \in Wanted : InAcquireLegacyIRQ(d, q)

Spec == Init /\ [][Next]_vars

\* The processor never stops executing: a handler returns (the drivers' duty),
\* and code that is not interrupted for ever gets to its end.
FairSpec == Spec /\ WF_vars(Finish) /\ WF_vars(Acquire)

------------------------------------------------------------------------------
(* Properties *)

\* Activations inside a handler's body, the outermost first.
Handling == {i \in DOMAIN stack : stack[i].pc = "handler"}

Activation == [line : Line, irq : Line, pc : {"handler", "slave", "return"}]
Call == [pc : {"store", "test", "entry", "level", "exit"},
         who : Driver, irq : Line, edx : Bitmap]

\* Every variable ranges over what its code can hold.
TypeOK ==
    /\ irr \subseteq Line /\ isr \subseteq Line /\ imr \subseteq Line
    /\ iflag \in BOOLEAN
    /\ last_mode \in {"KERNEL", "INTERRUPT"}
    /\ lvl_bmp \in Bitmap
    /\ handlers \in [Line -> Driver \cup {NoHandler}]
    /\ stack \in Seq(Activation)
    /\ call \in Call \cup {Idle}
    /\ critical \in BOOLEAN
    /\ granted \subseteq Driver \X Line
    /\ wild \in BOOLEAN

\* The EOI a running handler still owes is for a level really in service
\* (SendEOI is non-specific and trusts that it is).
OwnInService ==
    \A i \in Handling : MasterBit(stack[i].line) \in isr

\* A handler is interrupted only by lines of strictly higher priority, however
\* EOIs, dropped interrupts and nested activations follow one another.
ServiceOrder ==
    \A i, j \in Handling :
        i < j => MasterBit(stack[j].line) < MasterBit(stack[i].line)

\* No handler is entered again before it has returned: handlers need not be
\* reentrant although they run with interrupts on (docs/Scheduler.md).
NoReentry ==
    \A i, j \in Handling : stack[i].irq = stack[j].irq => i = j

\* When SetInterruptEntry leaves its critical section the table holds the
\* entry: the handler of the driver, and BUS_INUSE, which "the caller now owns"
\* (InAcquireLegacyIRQ).  No dispatch came between the two writes.
GrantIsRegistered ==
    call.pc = "exit" =>
        /\ handlers[call.irq] = call.who
        /\ lvl_bmp[call.irq] = BUS_INUSE

\* "VINT 15 is the same is the actual IRQ 15" (docs/drivers/Drivers.md): the
\* handler that runs is the one of the line that interrupted.
VintIsIrq == \A i \in DOMAIN stack : stack[i].irq = stack[i].line

\* InAcquireLegacyIRQ: "If the IRQ is BUS_INUSE, this function fails", so a
\* line has one driver.  It does not: every look at the table consumes it.
ExclusiveGrant == \A g, h \in granted : g[2] = h[2] => g[1] = h[1]

\* "Operations contained wherein will run as a single unit without any
\* interruption" (docs/Scheduler.md).  SetInterruptEntry's sti ends the section.
CriticalSectionIsUnit == critical => ~iflag

\* "If it is from the slave PIC EOI is sent to the master only" (InMasterDispatch
\* on spurious interrupts).  The code returns and sends none.
SpuriousSlaveAcknowledged ==
    [][\A q \in Noisy \cap SlaveLine : Spurious(q) => Cascade \notin isr']_vars

\* Levels of the master in service that no running handler will end.
Stuck == (isr \cap MasterLine) \ {MasterBit(stack[i].line) : i \in Handling}

\* A level whose interrupt was dropped without EOI is never recovered: a later
\* EOI that happens to clear it leaves the handler's own level behind instead.
StuckForGood == [][Cardinality(Stuck') >= Cardinality(Stuck)]_vars

DevicesFallSilent == <>[][~Device]_vars

\* No dispatch calls through an entry of handlers[] nothing was stored in.  The
\* code makes such calls, when the table has been shifted that far: where they
\* lead nobody knows, and the two properties below are about the rest.
ControlKept == []~wild

\* When the devices fall silent every activation returns, down to the driver,
\* whatever requests and levels in service they leave behind.
KernelResumes == ControlKept /\ DevicesFallSilent => []<>(stack = <<>>)

\* ... and a call of InAcquireLegacyIRQ comes back, however it is interrupted.
AcquireReturns ==
    ControlKept /\ DevicesFallSilent => (call.pc # "idle" ~> call.pc = "idle")

\* The dispatcher implements the nested service its comments describe, with
\* the handlers that are running as the active ones.
Active == {<<i, MasterBit(stack[i].line)>> : i \in Handling}
Nested == INSTANCE NestedService
          WITH Depths <- 1 .. MaxDepth, Levels <- MasterLine, active <- Active
NestedSpec == Nested!Spec
=============================================================================
