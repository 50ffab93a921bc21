# OS/90: a TLA+ development

OS/90 is a 32-bit kernel that is loaded from DOS, takes over the 8259 interrupt
controllers and runs DOS and BIOS code in virtual 8086 mode. It is written in C
and NASM for one i386 processor. This directory models it in TLA+, checks the
models with TLC on small instances and proves what matters most with TLAPS.
Paths below are relative to the repository; `kernel/` is `src/kernel/`.

## 1. Inventory

| Component | State it keeps | Operations | What makes it correct |
|---|---|---|---|
| Interrupt dispatch: `Intr_Trap.asm` 104-144, `Scheduler.c` 182-248, `8259.h` | the two 8259s (IRR, ISR, IMR), EFLAGS.IF, the activations on the kernel stack, `TheIRQ`, `last_mode` | `Low0`..`Low15`, `Continue`, `InMasterDispatch`, `HandleIRQ0`, `SendEOI` | a handler's level is in service while it runs; handlers nest by priority; none is reentered; each EOI ends its own level; spurious interrupts are told apart; the interrupted code goes on |
| Interrupt line table: `PnP_Mgr.c` 55-143 | `interrupts` (two bits a line, handlers, owners) | `InGetInterruptLevel`, `InGetInterruptHandler`, `SetInterruptEntry`, `InAcquireLegacyIRQ` | a line has one driver; what is registered stays; handler and level change together |
| Trap entry: `Intr_Trap.asm` 25-102, 146-201 | the trap frame on the stack, `_ErrorCode` | `MakeExcept`, `SaveTrapRegs`, `RestoreSegsIfNecessary` | the handler gets the frame; IRET finds it again; the error code is the handler's own |
| Processor and PIC setup: `IA32.c`, `StartK.asm`, `Main.c` | GDT, IDT, TSS, the controllers' command words, the BSS | `Begin`, `KernelMain`, `InitIA32`, `PIC_Remap`, `FillIDT`, `Init_DPMI_ReflectionHandlers` | each line has its own stub; every other vector faults to ring 0; variables start at zero |
| Virtual 8086 supervisor: `V86.c`, `vm86.asm` | `supervisor_call`, `TSS.ESP0`, the I/O bitmap offset, `v86_capture_chain` | `ScVirtual86_Int`, `ScEnterV86`, `ScMonitorV86`, `ScOnExceptRetReenterCallerV86`, `ScHookDosTrap` | a call returns to its caller; nested calls keep their stacks; every fault is answered |
| DPMI traps: `Scheduler.c` 250-314, `DOS.c` | the IDT, `local_idt` of the program | `Init_DPMI_ReflectionHandlers`, `CheckAndHandleDPMI_Trap` | each INT of a program comes to #GP, with a code that tells the vector |
| Boot loader: `boot/boot386.asm` | A20, HMA, the locked extended memory block, the file, the page tables | `Main` | the whole image is loaded at a page boundary, or everything is given back |
| Tables: `PnP_Mgr.c` 216-224, `Farcall.c` | `resources`, `fc_handlers` | `PnAddIOMemRsc`, `ScInsertFarCallHandler` | bounded; what is returned finds the entry |
| Diagnostics: `Debug.c` | none of its own; `FatalError` clears the capture chains | `Uint32ToString`, `KeLogf`, `FatalError` | no link captures the BIOS calls of `FatalError`; the digits are those of the value, in the buffer |

How they interact: the boot loader jumps to `StartK.asm`, which calls
`KernelMain` and `InitIA32`. From then on everything enters through the IDT.
An IRQ stub calls `InMasterDispatch`, which reads the line table and calls a
driver's handler with interrupts on. Drivers change the line table from
outside of ISRs only (`PnP_Mgr.c` 45-53) and share it with the dispatcher. DOS
and BIOS calls leave ring 0 through `ScEnterV86` and come back as #GP faults
through the trap entry to the monitor, on the stack `TSS.ESP0` names.

The hard behaviours: handlers that interrupt handlers and drivers, at any
instruction between `sti` and `cli`; EOIs that name no level; requests that
vanish before they are acknowledged; a table that both sides read and write;
traps on top of traps, on one stack; calls into V86 mode that nest, and come
back as faults on a stack whose top is moved with each call; port writes whose
meaning depends on the one before; a loader that may be refused at every call.
Every such place is a hazard in `PROJECT.json`, with its line.

## 2. Plan

1. **Interrupt dispatch and the line table** (`Pic8259`, `InterruptTable`,
   `MasterDispatch`, `NestedService`, proofs): done, section 3.
2. **TrapEntry**: the words on the stack from the processor's push to IRET, for
   traps that nest in ring 0, with proofs: done, section 4.
3. **V86**: supervisor calls that nest, the traps that come out of V86 mode, the
   monitor, `TSS.ESP0`, with proofs: done, section 5.
4. **Startup** and **KernelInit**: segments, controllers, gates, timer, DPMI
   vectors, with proofs; `as_built` puts startup and dispatcher together: done,
   section 6.
5. **Tables** and **Diagnostics**, with their proofs: done, section 7.
6. **BootLoader**, with its proofs: done, section 8.
7. **SystemStart**: loader, initialisation and the kernel's first services in one
   behaviour, with proofs: done, section 9.

Theorems first for what a small instance cannot show: any IDT, any lines and
any nesting in the dispatcher; the layout of the stack at any depth, in ring 0
and for V86 calls; tables of any size; a file of any size; then the rest of what
the runs check as safety: each invariant and action property of a passing run is
also a theorem. Where the code does not do what its documents say, section 10
has the list, with the run, theorem or definition that shows it. What is left is
in section 11.

## 3. The dispatcher

### Modules

* `Pic8259`: the controllers, which are hardware, as operators on sets of lines.
  They are edge triggered, cascaded on IR2 and fully nested without automatic
  EOI: what `PIC_Remap` (`IA32.c` 108-126) asks for. Reading a command port
  gives the in-service register because of `IA32.c` 210-211.
* `InterruptTable`: `lvl_bmp` as a function from line to level and the three
  things done to it: `>>=` (`ShiftedRight`), the unmasked comparison
  (`Equals`) and `|=` (`WithLevel`).
* `MasterDispatch`: one processor running stubs, dispatcher, handlers and a
  driver. `stack` holds the activations of `InMasterDispatch` that called a
  handler: the line whose vector was taken, the number its stub pushed, and
  what remains to be done. `call` is the driver's call of
  `InAcquireLegacyIRQ`, one memory access per step: load and shift, store,
  compare, `cli`, the handler, the level, `sti`.
* `NestedService`: the abstract specification. Handlers enter on top of all the
  active ones, at higher priority, and the one on top leaves.
* `MCDispatch`: a stub per line, for TLC.
* `Startup`: the IDT entries `FillIDT` writes for the stubs and the DWORD that
  `StartK.asm` fills the BSS with. `MCAsBuilt` gives both to `MasterDispatch`.
* `MasterDispatch_proof`: the theorems.

| Action | Code |
|---|---|
| `Raise` | a device |
| `Interrupt`, `Spurious` | INTA, the gate, `Low<n>`, `Continue`, `InMasterDispatch` up to the handler's first instruction, or to IRET |
| `SendEOI`, `SendSlaveEOI` | return of the handler and the two writes of `SendEOI` |
| `Return` | the rest of `InMasterDispatch`, `RestTrapRegs`, IRET |
| `InAcquireLegacyIRQ`, `StoreLevels`, `Refuse` | `InAcquireLegacyIRQ` with `InGetInterruptLevel` inlined |
| `EnterSetInterruptEntry`, `SetHandler`, `SetLevel`, `ExitSetInterruptEntry` | `SetInterruptEntry` |
| `EnterCriticalSection`, `ExitCriticalSection` | a driver's own use of `Atomic.h` |

Taking an interrupt is one step up to `IntsOn()` because the gates are
interrupt gates (`MkIntrGate`): nothing else runs before it. `TheIRQ` can be a
local of that step for the same reason. `wild` records that control left the
code: a call through an entry of `handlers` that nothing was stored in, or an
IRET from the wrong place. Nothing is modelled after it. The first really happens,
also with the values of the run: dispatches shift the table until the timer's
interrupt finds a level that is another line's and calls `handlers[0]`.

Three constants carry what other files put in, so that the dispatcher can be
studied both as the present image has it and as its comments intend it:

| Constant | As built | In the run |
|---|---|---|
| `Gate` | `FillIDT` writes all sixteen stubs to vector 20h, so only line 0 has a gate, to `Low15` | one stub per line |
| `TailPops` | 1, from `add esp,4` at `Intr_Trap.asm:141` | 0 |
| `StartLevels` | 80000010h in every DWORD of the BSS (`StartK.asm` 16-21 stores an EAX it never clears) | zero |

With the values as built the story ends after the first interrupts (a line has
no gate, or the return goes wild): `as_built` shows that, and the main run takes
the other values. The theorems hold for both.

### Runs

| Run | Shows |
|---|---|
| `dispatch` | every property below, with devices on lines 0, 3 and 8 (timer, lower half of the master, slave), spurious requests on 8, a driver that acquires 0, 3, 8 and 14, and up to four activations. Line 14 has no device: its entry, shifted by a dispatch of line 3, is what a second handler could be called through |
| `exclusive_grant` | a violation: two drivers acquire one line |
| `critical_section` | a violation: a critical section ends inside a nested one |
| `spurious_slave` | a violation: no EOI after a spurious interrupt of the slave |
| `as_built` | a violation, with the IDT and BSS of `Startup`: `IRQ_BASE` is the same vector for all sixteen gates, so line 8 has none and its level stays in service on the slave; the timer then enters through `Low15`, the reading of the slave's ISR finds it, and handler 15 is called for line 0 |

Bounds: an activation whose EOI is sent but which has not returned yet can be
interrupted again, also by its own line, so the pile of activations has no bound
in the code; `MaxDepth` = 4 cuts it off. That is enough because every step looks
at the top activation only, and at most two handlers run at once (theorem
`NestingIsTimer`): the bound leaves room for both and for two that are past
their EOI. Only the slave's line may drop its request in the run; if line 3 may
too while line 5 is left in service, `OwnInService` and `StuckForGood` fail (see
`SteadyMaster` below). One driver makes one call at a time, as `PnP_Mgr.c` 45-53
says that kernel code is not preempted.
Deadlock is not checked: when every wanted line is granted, every request is
latched and blocked and no section is open, the system rests.

Properties of `dispatch`:

* `OwnInService`, `ServiceOrder`, `NoReentry`: the EOI is non-specific and is
  sent with interrupts on, so that it ends the right level rests on the
  controllers' nesting and the handlers' together.
* `GrantIsRegistered`: when `SetInterruptEntry` leaves its critical section the
  table has the driver's handler and exactly `BUS_INUSE`, though it is written by
  two stores that a dispatch would shift or read if `cli` were not there. It
  takes a table with no `BUS_FREE` and no `RECL_16` in it: `|=` turns either into
  `RECL_16`, and the handler is then never called.
* `StuckForGood`: a level whose interrupt was dropped without EOI stays lost.
* `KernelResumes`, `AcquireReturns`: liveness, under weak fairness of the steps
  the processor takes on its own (`Finish`, `Acquire`). Devices get no
  fairness; they are only assumed to fall silent. That a handler returns is the
  drivers' duty and part of `Finish`. Both are stated for behaviours in which
  control is never lost (`ControlKept`): after a call through an empty entry of
  `handlers`, which the code makes in the run, they promise nothing.
* `NestedSpec`: every behaviour is a `NestedService`.

### Proofs

`MasterDispatch_proof` proves, for all constants that satisfy
`DispatchAssumption` (distinct lines have distinct stubs or none):

* `TypeCorrect`: `[]TypeOK`.
* `ServiceNests`: `OwnInService` and `ServiceOrder`, by the invariant
  `ServiceInv`. `ServiceOrder` alone is not inductive: that an EOI spares the
  levels below needs `OwnInService`; that a new level is above all others needs
  both and the controller's `Unblocked`. `EOIOwed` states `OwnInService` by itself.
* `NeverRecovered`: `StuckForGood`. An EOI may end another level than its
  handler's, so the set of levels that nobody will end can change, but not get
  smaller: `OneForOne` counts what is taken from the levels in service and from
  the handlers.
* `NeverReentered`: `NoReentry`, from that order and `ThroughGate` (an
  activation's stub is its line's).
* `NestingIsTimer`: only line 0 is ever entered on top of another handler
  (`OnlyTimerNests`, stated in the proof module), with the invariant `TableSpent`:
  while a handler runs the table is empty or holds line 0 alone. Reading a level
  consumes the table, and line 0 is shifted by nothing.
* `EntriesRegister`: `GrantIsRegistered`, with IF off from `cli` to `sti`, from a
  start-up table of `UNDEFINED` and `BUS_INUSE` alone (`PlainBitmap`).
* `ImplementsNestedService`: the refinement, by one lemma for entering and one
  for leaving a handler.

`ServiceNests`, `EOIOwed`, `NeverRecovered`, `NeverReentered` and
`ImplementsNestedService` assume
`SteadyMaster`: no request on the master drops before it is acknowledged. The
code is wrong without it: an IRQ 7 that nobody raised is told apart only when
no level of the master is in service, else handler 7 is called and its EOI
ends another level. `TypeCorrect`, `NestingIsTimer` and `EntriesRegister` need no
such assumption.

Only model-checked: the two liveness properties (fairness is out of the prover's
reach).

## 4. The trap entry

`MasterDispatch` takes an interrupt in one step. `TrapEntry` is what is inside
it: the stubs of `Intr_Trap.asm`, one instruction a step, for IRQs, exceptions
and NMIs that strike ring 0 code, on the one stack they share with it. The words
on that stack are tagged with what they are, so that IRET or `pop` finding the
wrong one shows. `acts` is a history: what each activation interrupted, and
the height of the stack then. No action decides by it; `MaxDepth` bounds it.

| Action | Code |
|---|---|
| `Interrupt`, `Fault`, `NMI` | the processor pushes EFLAGS, CS, EIP and an error code if the exception has one, and clears IF: both `MkIntrGate` and `MkTrapGate` make interrupt gates (`IA32.h` 57-61) |
| `PopErrorCode` | `pop dword [_ErrorCode]` in the stubs that are declared ERRCODE |
| `PopTheIRQ` | `push byte i`, `jmp`, `pop dword [TheIRQ]`: taken together, since an NMI in between only pushes above the number and takes all of it off again |
| `Push`, `Pop` | one line of `SaveTrapRegs`, `RestTrapRegs` |
| `Call` | from the last push to the first lines of the C function: what it is told, which registers it may change, `IntsOn()` in `InMasterDispatch` |
| `Return` | the return of the C function and, in `Continue`, `add esp,4` (`TailPops`) |
| `Iret` | `iret` |
| `CriticalSection` | the interrupted kernel code's `cli` and `sti` |

`GeneralProtect` is not among the exceptions of this module (`TrapAssumption`):
its C function calls the monitor, which changes the frame and may enter V86 mode.
`V86` has it. The C functions of the other exceptions are empty (`Scheduler.c`
68-126) or read `_ErrorCode`; those of the IRQs are the dispatcher and a driver's handler, which
may turn interrupts on and may fault. All leave the stack as they found it.
IF when the first trap strikes is arbitrary.

| Run | Shows |
|---|---|
| `trap_entry` | the four properties below for two IRQ stubs, an exception with an error code, one without, and the NMI, each striking wherever it can |
| `irq_return` | a violation of `ResumesExactly` with `TailPops` = 1, as built: `Continue` has already taken the number off, so its `add esp,4` drops a saved register, and IRET takes CS for EIP |

Bounds: three activations. A fourth would see nothing new: a stub
touches only the words above its own start, and what can be shared wrongly
(`TheIRQ`, `_ErrorCode`) needs one writer on top of one reader, which with a
handler below them is three. Two error codes and two IRQ stubs make mixing them
up visible. Deadlock is checked: the machine never hangs.

* `FramesIntact`: whatever has piled up, each activation's words are where its
  remaining instructions will look for them.
* `ResumesExactly`: leaving an activation restores what it interrupted.
* `OwnArgument`: `TheIRQ` and `_ErrorCode` are single variables. They reach the
  right function because IF stays off until the call, also in
  exceptions, and because an NMI, which is not kept out, writes neither. With
  the trap gates their macro is named for, an interrupt between a page
  fault's first pop and its C function could bring in a handler that faults.

`TrapEntry_proof` proves all four (`TrapTypeCorrect`, `TrapFrames`,
`TrapResumes`, `TrapArguments`) for any stubs, any error codes and any depth, from
two assumptions. Neither is true of the whole code. `NoTail`: `Continue` drops
nothing, or no IRQ stub is in use. It does drop a DWORD (141), and then
`irq_return` refutes them; what is proved is about the exceptions as they are and
the IRQ path without that line. `CodesAgree`: ERRCODE is right for the exceptions
that occur. It is wrong for one: the processor pushes no error code for
`BoundRangeExceeded` (vector 5), and its stub pops one, so that vector is left
out, of the theorems as of the run.

The invariant `Inv` has, besides types, for each activation its frame, its error
code until that is popped, and which registers hold the interrupted code's
values (`Good`); that the activations lie on the stack in order (`Stacked`); and
that the lowest one interrupted ring 0 code that is no stub (`Base`). `Good` is
stated of a stack, an activation, a place and a height, so that one
lemma per kind of instruction (`PushGood`, `PopGood`, `PopCodeGood`, `StayGood`,
`NewGood`) speaks of one activation, and `TopStep`, `EnterInv` and `IretInv` lift
it to the pile: what lies below a height is not touched (`Above`). `OwnInv`
adds who can be running while an activation has not made its call: itself,
with IF off, or one NMI.

## 5. Virtual 8086 mode

`V86` has the processor running V86 code that DOS or BIOS calls have started,
and ring 0 while it handles what comes out of it. The kernel's `stack` is
modelled word for word, as in `TrapEntry`, because everything here hangs on
heights: `ScEnterV86` sets `TSS.ESP0`, the processor puts the next frame
there, the stub adds the registers, the C code reads them by index, and the
return from a call writes words by fixed offsets. A height is a number of words
from the bottom. The V86 code itself is anything: what stands at its next place
is chosen when it gets there. `calls` is a history of the calls of `ScEnterV86`.

| Action | Code |
|---|---|
| `KernelCall` | `ScVirtual86_Int` called by the kernel (`MmAllocateDosMemory`, `KernelMain`), the copy of the registers, `ScEnterV86` up to its IRET |
| `Work` | an instruction that does not fault |
| `GeneralProtectFault`, `Irq` | the processor: the stack at ESP0, nine words, the error code, null data segments |
| `GPStub` | the stub of #GP: error code, `SaveTrapRegs`, `RestoreSegsIfNecessary`, what the handler is told; or the fault in it |
| `IrqStub` | an IRQ's stub and handler, up to the registers' return; or the fault in it |
| `MonitorInt`, `MonitorFlag`, `MonitorIret`, `MonitorOther` | `ScMonitorV86`: INT (a call on top of this one), CLI and STI, IRET (`ScOnExceptRetReenterCallerV86`), anything else |
| `IrqInHandler`, `IretToHandler` | an IRQ after the monitor's `IntsOn()` |
| `Iret` | `RestTrapRegs` and IRET |

`Stub` is how the two stubs are coded: `AsBuilt` or `AsMeant`.

* `AsBuilt` is the code. The stub of #GP begins with `pop dword [_ErrorCode]` and
  `Continue` with `pop dword [TheIRQ]`, through a data segment the processor has
  just made null. The pop faults in ring 0, the frame of that fault goes on top,
  and the stub of #GP starts again at the same pop (`FaultInStub`), until the
  frames have left the stack of `StackWords` DWORDs (`overrun`). The model ends
  there: what they write over is not part of it. The code has three more
  deviations behind the pop: EFLAGS is read one DWORD too far down (60), the
  monitor is told of V86 mode the wrong way round (92), and the pointer passed on
  is one DWORD off (97).
* `AsMeant` repairs all of this, to what the comments say the stubs do: segments
  before memory, EFLAGS, flag and pointer as they should be. For an IRQ it also
  has the segments loaded, which `Continue` asks for in a comment (133-136) and
  does not do, and it has no `add esp,4` (141).

What the run `v86` and the theorems `MonitorSees` and `Resumes` show, they show of
the repaired stubs: that with those lines mended the rest of the design, ESP0, the
monitor's indices and the nesting of calls, fits together, and where it does not
(`CallReturns`). `Types`, `Callers` and `FlagKept` hold for both.

What C functions have on the stack depends on the compiler: return addresses,
saved registers, arguments, the local copy's place. It is a constant number of
words where a call of V86 code goes on top of it (`KernelWords`, `MonitorWords`,
any numbers in the proofs) and left out elsewhere; nothing is claimed about how
many calls the 1024 bytes hold. `GeneralProtect` falls through to
`ScNukeCurrentProcess`, which is empty, so that the fall has no effect.
`IaIOPB_Allow` and `IaIOPB_Deny` store the same offset and have none either (and
at offset 100 of the TSS, where the processor reads 102). The walk along the
capture chain in `ScVirtual86_Int` is commented out.

| Run | Shows |
|---|---|
| `v86` | the properties below for calls two deep of two interrupts, stubs as meant |
| `v86_as_built` | a violation of `Answered` with the stubs as built: the first fault of V86 code piles up frames until the stack is overrun, and no V86 code runs again |
| `v86_return` | a violation of `CallReturns`, stubs as meant: V86 code that executes IRET does not end its call. The words written go one DWORD beside the frame's registers and not to its EIP, so it executes the same IRET again |

Bounds: `MaxCalls` = 2 is a call and a call made by the monitor on top of it.
The second differs from the first in where it starts (on the frame of a fault)
and in its interrupt flag; a third differs from the second in nothing the code
looks at, and the proofs have no bound. Two interrupts, and two values of each
register, make it visible whose registers come back. The violations need one call.
`v86_as_built` stops at the overrun, so deadlock is not checked there.

* `CallersKept`: ESP0 is never moved back when a call ends, only forward when one
  starts; that a fault's frame does not run over what a caller left rests on all of
  the heights together.
* `MonitorSeesFault`: the monitor's view of the frame, by index from the pointer
  it is given, is the state of the code that faulted.
* `ResumesV86`: what V86 code gets back of its registers, and where it goes on. After
  an IRET that did not return, EDI and EDX have been written over.
* `Answered`: liveness. The only fairness is weak: the processor goes on (`WF` of
  what ring 0 does, and of `KernelCall`, `Work` and `GeneralProtectFault`). IRQs
  without end can keep a handler from its last instruction, so the property is
  about behaviours in which they stop (`IrqsFallSilent`).

`V86_proof` proves, for any depth and either `Stub`: `Types` (`TypeOK`; as built a
lower bound of the height while frames pile up), `Callers` (`CallersKept`) and
`FlagKept`: V86 code runs with the interrupt flag of its call, whatever CLI and STI
it executes, and every nested call with interrupts off (`FlagOfCall`, stated
there). The inductive invariant `Inv` has four parts:
`Values` (what the variables hold), `Shape` (the height of the stack above ESP0
at each place of the stub and the monitor), `Depth` (what each call left lies
under the next, and is what the stack still has) and
`Flags` (the EFLAGS word of each frame that will be taken back is the one V86
code had). `CallersKept` alone is not inductive: that a frame spares the callers
needs ESP0 to be just above what the innermost one left, that needs the heights,
and the monitor's writes need all of it, because the places of `MonitorIret` are
computed from ESP0 alone. The facts about sequences it needs are stated with one
predicate each (`JoinOf`, `AppendOf`, `CutOf`, `SameTo`).

`V86Frames_proof` goes on to what is in the frames, for `Stub = AsMeant`:
`MonitorSees` (`MonitorSeesFault`) and `Resumes` (`ResumesV86`). Its invariant
`Frames` says of each place between fault and IRET which words above ESP0 hold
which register of the V86 code (`Pos`, `ImageOf`), and what the monitor has changed
of them by then (`Changed`, `MovedOn`). It needs `Inv`: without the heights, the
same word could be the frame's and a caller's. `Answered` is only model-checked.

## 6. Initialisation

`Startup` has the IDT entries `FillIDT` writes for the stubs and the DWORD that
`StartK.asm` fills the BSS with. `KernelInit` goes through `StartK.asm`, `InitIA32`
and `InitScheduler` one port write or table entry at a time. A chip of the 8259 pair
is a record with the ICW it expects next, because the meaning of a byte on its
odd port depends on that; devices may raise their lines between any two
writes (`Raise`). Then a user program executes INT (`CallInt`).

| Action | Code |
|---|---|
| `Begin` | `StartK.asm` up to the call of `KernelMain` |
| `Segments` | `InitIA32`: TSS and LDT descriptors, `ltr`, `lldt` |
| `PicOutb` | a port write of `PIC_Remap` or of the two OCW3s |
| `WriteGate` | an entry of `FillIDT` |
| `InitScheduler`, `ConfigurePIT`, `Reflect` | `InitScheduler`, a port write of `ConfigurePIT`, an entry of `Init_DPMI_ReflectionHandlers` |
| `CallInt` | the processor: INT through a gate of the program's ring, or #GP with an error code |

Nothing calls `InitScheduler` yet: it may come at any time after `InitIA32`. What
#GP does with the error code is not part of it: `GeneralProtect` does not call
`CheckAndHandleDPMI_Trap`, whose comment says that #GP does. Only the expression
with which that function decodes the code is here (`TrapVector`).

The properties are checked in the run `system_start` (section 9).

* `SetupTypeOK`: types; a base is a byte with three zero bits, a chip masks and
  requests its own lines only.
* `TablesReached`: LTR and LLDT keep copies of descriptors that have their bases.
* `Programmed`: the order of the command words; each chip ends with its base,
  cascade and mode, and with the requests since its own ICW1. A request of a slave
  line between the two ICW1 writes is lost like all earlier ones. It does not speak
  of masks.
* `OwnGates`, `IntReflected`: where a program's INT of any vector ends, which the
  gates' DPL, one bit away from its field, and the loop's bound, 207 instead of 256,
  both have a part in: the last 49 vectors have no gate and come to #GP all the same.
* `InitEnds`: liveness under weak fairness of `SetupStep`: the processor runs its
  loops.

`KernelInit_proof` proves the other five for any place of the tables, any masks,
any devices that request at any time and any vectors that are called, from
`KernelInitAssumption` alone (two halves of 16 bits for an address, lines that
exist, vectors of one byte): `Types` (`SetupTypeOK`), `Loaded` (`TablesReached`),
`Remapped` (`Programmed`), `Undisturbed` (`OwnGates`) and `Reflected`
(`IntReflected`). `Unmasked` says what becomes of the masks (`NoneMasked`, stated
there): ICW1 clears them, and none is left. The invariant `Inv` says how far the loop variable is in each
part (`Ranges`), which descriptors have their base by then (`Descriptors`), how
many of its five bytes each chip has had and what it is after them (`Chips`, with
`Programming`), which gates are written and that all of them have the attribute
8Eh (`Gates`), and the same for the timer (`Channel0`). `Programmed` is not
inductive: a byte on the odd port means nothing without the count of bytes
before it. What a chip is after each byte, and what the bits of each constant
are, are lemmas; that an address comes back together from three fields is
arithmetic on halves and bytes. `InitEnds` is only model-checked.

## 7. Tables and diagnostics

`Tables` has what drivers register things in: `resources` (`PnAddIOMemRsc`), the
far calls (`ScInsertFarCallHandler`) and the capture chains (`ScHookDosTrap`,
`InitV86`, `ScOnErrorDetatchLinks`), one step a call, as kernel code is not
preempted. `Diagnostics` extends it with `Debug.c`: `KeLogf` a turn of its loop
a step, `FatalError`, `Uint32ToString`, and `InitPnP`, which calls the first two.

| Action | Code |
|---|---|
| `KeLogf`, `KeLogfTurn`, `KeLogfReturn` | the call, a turn of the loop, `FailSilent` or the end |
| `InitPnP`, `FatalError` | the complaint of `InitPnP`, and `FatalError` up to its first BIOS call |
| `BiosReturns` | the BIOS call of `FatalError` or `_KernelPutchar` comes back |
| `Paint` | the last loop of `FatalError` |
| `Uint32ToString`, `NumberUsed` | the digits, and the caller's use of them |

A string is its characters up to the NUL, of which only what the `switch` tells
apart is kept. `KeLogf` looks at its first character once and then at each third
one, and its end test never sees a later one: what it reads behind the end of a
string is any character (`CharAt`), up to `ReadBound`, where it is a NUL. That
bound is the model's; memory gives none. `BiosReturns` may never be taken: it has no
fairness, and `v86_return` shows that the call really does not come back. Nothing
is claimed of what `FatalError` puts on the screen, which is not modelled.

The properties are checked in the run `system_start`.

* `ResourcesKept`, `FarCallsKept`: what was accepted is still in the table, at the
  place of its index, inside the table and under an address of its own.
* `LinksDetached`: from `ScOnErrorDetatchLinks` to the end of `FatalError`, with the
  message's characters and the BIOS calls between, no link is in a chain.
* `DebugTypeOK`: types, and that the loop variable of `KeLogf`, a WORD, goes in threes.

`Diagnostics_proof` proves them for tables of any size, any drivers and strings of
any length:

* `Kept` (`ResourcesKept`) and `Sold` (`FarCallsKept`): each with the types of the
  tables and the length of its history.
* `Detached` (`LinksDetached`): while `FatalError` is under way nobody can register.
* `Types` (`DebugTypeOK`), with `Turns`: a turn is taken only at a place that
  can be read, so that the WORD does not wrap (`ReadAssumption`).
* `ReadsAsValue`: what is read of the first n digits `Uint32ToString` stores is the
  value divided by the place of the last (`DigitMore`, `ReadsBack`), starting at the
  byte before the buffer, and the last byte of the buffer gets no digit (`Decimal`, stated
  there). It assumes what
  `NumberAssumption` says, that a value has no more digits than are stored: ten
  for a DWORD. The induction over digits, and that `DigitDivisor` and the reading
  are the functions their recursive definitions describe, come from two lemmas about sets
  and functions, `Induction` and `Recursion`. They follow from the least element
  of a set of numbers (`WFMin`), and are there because the library's theorems
  about induction take operators as parameters, which the provers cannot instantiate.

## 8. The boot loader

`BootLoader` is `boot386.asm` from the XMS check to the jump into the kernel. DOS
and the XMS driver are external: each call may succeed or be refused, and after an
error the program ends and may be started again (`StartAgain`), while the driver
keeps what it has given. An address held in two 16-bit registers is a pair of
halves, so that carries and borrows are what the instructions make of them.

| Action | Code |
|---|---|
| `PresentXMS`, `EnableA20`, `AcquireHMA`, `Allocate`, `Lock` | the calls of the XMS driver, in order |
| `Align` | the next page boundary and the offset of it in the block |
| `LoadKernel` | open, size, number of pages |
| `LoadPage`, `LoopEnds` | a turn of the load loop, and its end |
| `PageSetup` | the page tables and `GotoKernel` |
| `ERROR`, `StartAgain` | `ERROR`, and DOS |

Three properties are checked in the run `system_start`, and one is violated:

* `FoundWhereMapped`: the kernel starts only with A20 and the HMA. If the lock
  succeeded (its result is not looked at) and the block's first page boundary is in
  the same 64K as its start, the page table leads to each page that was loaded.
* `NoSecondTry`: a failed attempt keeps the HMA, so that no later one gets
  further.
* `AttemptEnds`: liveness, under weak fairness of the loader's steps: a call of
  DOS or XMS returns.
* `KernelLoads`: each page of the file, the last part of one too, is where the page
  tables lead. The run `boot_loads` refutes it with one block and one file
  (`MCBootLoader`): the block's first page boundary is behind the end of 64K, and the
  file has three pages and a byte. The pages go 64K too high, because the halves are
  subtracted high half first, and only two of them are loaded, because the counter
  is decremented before it is tested and the part of a page is not counted.

`BootLoader_proof` proves, whatever DOS and the XMS driver answer: `Mapped`
(`FoundWhereMapped`), for blocks anywhere in the first 64 MB and files whose
loaded pages fit the 256 entries of the table (`FilesFit`); `OneShort`: of the file's
whole pages all but one are loaded (`LastPageMissing`, stated there), for files whose
pages DI can count (`CountsFit`); `Blocked` (`NoSecondTry`) and `Types`
(`LoaderTypeOK`), for any file. The invariant has what the driver has given by each
point of the program (`Given`), the addresses (`Addresses`), that counter and
position add up to the file's pages (`Counter`) and that page k lies k pages from
the start (`Loaded`). `OffsetLeads` is the arithmetic of the halves: it
says when the borrow goes wrong and by how much. `LoaderTypeOK` is not inductive, since
what is put into the block is a page only if its start is: `Types` has that every
address is a multiple of a page (`PutAt`), also 64K too high, and that
nothing is in the memory before the lock (`Fresh`), because there is no second
attempt. `AttemptEnds` is only model-checked.

## 9. From DOS to the running kernel

`SystemStart` composes `BootLoader`, `KernelInit` and `Diagnostics` (with `Tables`)
into one behaviour. Each has its own variables, and a step of one leaves those of the
others alone. What joins them are the places where one waits for another: the
kernel begins (`StartKernel`) when the loader has jumped and the first page of the
tables leads to the first page of its file; drivers register and the kernel
reports errors (`Registering`, `Reporting`) when `InitIA32` is through (`ready`).
`InitScheduler` shares no state with the tables and `Debug.c`; `StartScheduler`
takes it where nothing was registered or reported before. That is a bound: the
order with registrations makes no difference to either side, and without it the run
would have the product of the two.

The run `system_start` checks the properties of sections 6 to 8 on the whole:

* three blocks, on a page, a kilobyte behind one, and across the end of 64K, and files
  of no byte, of less than a page, and of one, two and three pages and a byte; larger
  files only take more turns of the same loop;
* the devices of lines 0 and 9, one on each chip, three sets of lines that DOS may
  leave masked, and thirteen vectors, the ends of each range of the IDT. A third
  device would differ from these only in its number;
* tables of two places and one place to spare for far calls, two resources, a link
  and two vectors. The tables are full after as many calls as they have places, in
  any order with the rest; that is the case that matters;
* strings whose end `KeLogf` finds at once, goes past, or hits at a third character,
  and numbers up to three digits, the largest length in the run.

Fairness is weak, of the loader's calls and of the initialisation's steps. Nothing
makes a user start the loader again, a device raise its line, a driver register, the
kernel call `InitScheduler` or the BIOS return.
Deadlock is checked: when all is done devices and programs still have steps.

`SystemStart_proof` proves that the parts keep their own specifications in the
whole: `LoaderPart`, `SetupPart` and `DebugPart` say that every step of the system is,
seen from a part, a step of that part or none. The safety theorems of the parts use
only the initial predicate and the steps, never fairness, and so hold of the whole. And
`BegunAfterLoading`: once the kernel has begun, the loader stays where it jumped.

## 10. Where code and documents disagree

Each row is something a document or a comment says and the code does not do. A run that
is expected to be violated shows it by a trace; a theorem says for every value of
the constants what the code does instead; the rest are plain in the
definition named. Paths are in `src/kernel` unless they start with another directory.

| Said | Done | Shown by |
|---|---|---|
| A line in `BUS_INUSE` is refused (`PnP_Mgr.c` 123) | a look at the table shifts it, and the line is granted again | run `exclusive_grant` |
| A line is set to `BUS_INUSE`, also from `BUS_FREE` or `RECL_16` (`PnP_Mgr.c` 118-124) | `\|=` leaves `RECL_16`, and the handler is never called | the assumption of theorem `EntriesRegister`; `WithLevel`, `Or` |
| Other interrupts are serviced during a handler (`docs/Scheduler.md` 48, `Scheduler.c` 235) | only the timer's: the table the handler was called from is spent | theorem `NestingIsTimer` |
| A critical section is one unit (`docs/Scheduler.md` 52) | `InAcquireLegacyIRQ` ends it | run `critical_section` |
| The in-service bits are zero after a spurious interrupt (`Scheduler.c` 216) | not while another line of the chip is in service; handler 7 then runs for nobody | `IsSpurious`; section 3, bounds |
| A spurious interrupt of the slave gets an EOI at the master (`Scheduler.c` 217-219) | it gets none | run `spurious_slave` |
| VINT 15 is IRQ 15 (`docs/drivers/Drivers.md` 113) | every line has the gate of line 0, to `Low15` | run `as_built` |
| After an interrupt the last code goes on (`docs/Scheduler.md` 40) | `add esp,4` takes the frame four bytes off | run `irq_return` |
| Interrupts and exceptions work in V86 mode (`docs/Scheduler.md` 63) | their stubs fault through the null DS | run `v86_as_built` |
| IRET of a call goes back to the caller of `ScEnterV86` (`V86.c` 209) | the IRET is executed again | run `v86_return` |
| The monitor emulates CLI and STI (`V86.c` 187-193), and DOS and BIOS calls run with interrupts on (`docs/Scheduler.md` 59, 65) | the code's flag never changes, and nested calls run with interrupts off | theorem `FlagKept` |
| Lines that DOS does not use stay masked (`IA32.c` 213-214, `PnP_Mgr.c` 233-239) | no line is masked | theorem `Unmasked` |
| #GP calls `CheckAndHandleDPMI_Trap` (`Scheduler.c` 270, `docs/dosvm.md` 220) | it does not | section 6 |
| 16 far calls, known by their index (`docs/dosvm.md` 287, `Farcall.h` 19-21) | 15, with addresses one above the index | `NoFarCallLeft`, `InsertFarCall` |
| Links form a chain (`V86.c` 38-42, `docs/kernel.md` 58, `docs/drivers/Drivers.md` 239) | a second link drops the first | `HookDosTrap` |
| `KeLogf` sends what is no escape (`Debug.c` 75-76) | no text is ever sent, and the reading goes on behind the string | `KeLogfTurn`, `CharAt` |
| Each digit is copied to the buffer (`Debug.c` 47-49) | the first goes to the byte before it | theorem `ReadsAsValue` |
| The screen is made blue (`Debug.c` 152) | the loop starts at the characters, not at the attributes | `Paint`, without the screen |
| The kernel loads (`boot/boot386.asm` 40), at the offset aligned minus original (213) | the last page is missing, and some blocks are filled 64K too high | run `boot_loads`, theorem `OneShort` |

## 11. What is left

Out of the prover's reach and with TLC: liveness (`KernelResumes`,
`AcquireReturns`, `Answered`, `InitEnds`, `AttemptEnds`). Every other property of
the passing runs is stated by a theorem. What the theorems assume beyond the
constants' own assumptions is `SteadyMaster` and `PlainBitmap` (section 3), `NoTail`
and `CodesAgree` (section 4), `Stub = AsMeant` (section 5) and `CountsFit`, `FilesFit`
(section 8).

Modelled but with no claim: what follows a call through an empty entry of
`handlers`, an overrun of the kernel stack, a failed lock of the block, or a spurious
interrupt of the master that is taken for IRQ 7. The bytes C code takes
of the stack are not modelled, so that nothing bounds the depth of calls.

Not modelled, because there is no state, no code or no caller yet:

* `SetupPnP` scans the ROM; the PnP BIOS call of `PnP_Mgr.asm` is unfinished and
  nothing calls it.
* `HandleDPMI_IRET`, `DpmiInt31hHandler`, `DpmiProcessEnterProtectedMode`,
  `InSurrenderInterrupt`, `InRequestBusIRQ`, `Bus_AllocateIO`,
  `HandleFcallAfterPF`, `Hex32ToString`: empty. `Init_DetectFreeInt` and
  `DetectCOM` are never called.
* Task switching: `HandleIRQ0` is empty; `last_mode` is written in `MasterDispatch`'s
  step and read by nobody.
* `Filesystem.c`, `ExecLoader.c`, `PFrameAlloc.c` and `X87.h`: stubs. `SetupX87`
  is not called.
* `drivers/pci`, `user/`, `boot/grabirq.asm`: an unfinished DOS device driver and
  stubs. `old/` is not built.
* Of what is modelled, the texts of messages, the GDT's other descriptors and the
  first page of low memory.
