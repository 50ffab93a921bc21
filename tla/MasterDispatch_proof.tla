------------------------- MODULE MasterDispatch_proof -------------------------
(***************************************************************************)
(* Proofs about MasterDispatch, for every IDT, set of devices and drivers, *)
(* start-up table and depth of nesting.                                    *)
(***************************************************************************)
EXTENDS MasterDispatch, FiniteSetTheorems, TLAPS

\* Every line interrupts on a level of the master.
LEMMA MasterLevels == ASSUME NEW q \in Line PROVE MasterBit(q) \in MasterLine /\ MasterBit(q) \in Int
BY DEF MasterBit, Line, MasterLine, SlaveLine, Cascade

\* The controllers' operators keep to their sixteen lines.
LEMMA ChipTypes ==
    ASSUME NEW s \in SUBSET Line, NEW m \in SUBSET Line, NEW q \in Line
    PROVE  /\ InService(q, s) \in SUBSET Line
           /\ MasterEOI(s) \in SUBSET Line
           /\ MaskSlave({13}, m) \in SUBSET Line
<1>1. MasterBit(q) \in MasterLine /\ MasterLine \subseteq Line
  BY MasterLevels DEF Line, MasterLine
<1>2. InService(q, s) \in SUBSET Line
  BY <1>1 DEF InService
<1>3. MasterEOI(s) \in SUBSET Line
  BY DEF MasterEOI
<1>4. MaskSlave({13}, m) \in SUBSET Line
  <2>1. 13 \in Line /\ MasterLine \subseteq Line
    BY DEF Line, MasterLine
  <2>2. QED
    BY <2>1 DEF MaskSlave
<1>5. QED
  BY <1>1, <1>2, <1>3, <1>4

\* The table's operators return tables.
LEMMA TableTypes ==
    ASSUME NEW b \in Bitmap, NEW q \in Line
    PROVE  /\ ShiftedRight(b, q) \in Bitmap
           /\ WithLevel(b, q, BUS_INUSE) \in Bitmap
<1>1. ShiftedRight(b, q) \in Bitmap
  BY DEF ShiftedRight, Bitmap, Level, UNDEFINED, Line
<1>2. Or(b[q], BUS_INUSE) \in {BUS_INUSE, RECL_16}
  BY DEF Or, Bitmap, Level, BUS_INUSE, UNDEFINED, RECL_16
<1>3. WithLevel(b, q, BUS_INUSE) \in Bitmap
  BY <1>2 DEF WithLevel, Bitmap, Level, BUS_INUSE, RECL_16
<1>4. QED
  BY <1>1, <1>3

\* Pushing an activation keeps a stack of activations.
LEMMA AppendType ==
    ASSUME NEW s \in Seq(Activation), NEW a \in Activation
    PROVE  Append(s, a) \in Seq(Activation)
OBVIOUS

\* Moving the running activation on keeps a stack of activations.
LEMMA StepType ==
    ASSUME stack \in Seq(Activation), stack # <<>>,
           NEW pc \in {"handler", "slave", "return"}, Step(pc)
    PROVE  stack' \in Seq(Activation)
<1>1. Len(stack) \in DOMAIN stack
  OBVIOUS
<1>2. stack[Len(stack)] \in Activation
  BY <1>1
<1>3. [stack[Len(stack)] EXCEPT !.pc = pc] \in Activation
  BY <1>2 DEF Activation
<1>4. QED
  BY <1>1, <1>3 DEF Step

\* Taking an interrupt calls a handler or leaves the stack as it is.
LEMMA VectorEffect ==
    ASSUME TypeOK, NEW v \in Line, Vector(v), isr' \in SUBSET Line
    PROVE  /\ last_mode' \in {"KERNEL", "INTERRUPT"}
           /\ lvl_bmp' \in Bitmap
           /\ wild' \in BOOLEAN
           /\ \/ UNCHANGED stack
              \/ /\ Gate[v] \in Line
                 /\ stack' = Append(stack, [line |-> v, irq |-> Gate[v], pc |-> "handler"])
<1> USE DispatchAssumption
<1>1. CASE Gate[v] = NoGate
  BY <1>1 DEF Vector, TypeOK
<1>2. CASE Gate[v] # NoGate
  <2>1. Gate[v] \in Line /\ InMasterDispatch(v, Gate[v])
    BY <1>2 DEF Vector
  <2>2. ShiftedRight(lvl_bmp, Gate[v]) \in Bitmap
    BY <2>1, TableTypes DEF TypeOK
  <2>3. CASE IsSpurious(Gate[v], isr')
    BY <2>1, <2>3 DEF InMasterDispatch, Resume, TypeOK
  <2>4. CASE ~IsSpurious(Gate[v], isr')
    BY <2>1, <2>2, <2>4 DEF InMasterDispatch, Resume, CallHandler, TypeOK
  <2>5. QED
    BY <2>3, <2>4
<1>3. QED
  BY <1>1, <1>2

\* The state the kernel starts in is well formed.
LEMMA InitTypes == Init => TypeOK
<1> SUFFICES ASSUME Init PROVE TypeOK
  OBVIOUS
<1>1. stack \in Seq(Activation) /\ handlers \in [Line -> Driver \cup {NoHandler}]
  BY DEF Init
<1>2. QED
  BY <1>1, DispatchAssumption DEF Init, TypeOK

\* Type correctness of the dispatcher.
THEOREM TypeCorrect == Spec => []TypeOK
<1> USE DispatchAssumption
<1>1. Init => TypeOK
  BY InitTypes
<1>2. TypeOK /\ [Next]_vars => TypeOK'
  <2> SUFFICES ASSUME TypeOK, [Next]_vars PROVE TypeOK'
    OBVIOUS
  <2>1. ASSUME NEW q \in Devices, Raise(q) PROVE TypeOK'
    BY <2>1 DEF TypeOK, Raise, table, client
  <2>2. ASSUME NEW v \in Line, Vector(v), isr' \in SUBSET Line, irr' \in SUBSET Line,
               UNCHANGED <<imr, iflag, handlers, client>>
        PROVE  TypeOK'
    <3>1. ASSUME Gate[v] \in Line
          PROVE  [line |-> v, irq |-> Gate[v], pc |-> "handler"] \in Activation
      BY <3>1 DEF Activation
    <3>2. stack \in Seq(Activation)
      BY DEF TypeOK
    <3>3. stack' \in Seq(Activation)
      BY <2>2, <3>1, <3>2, VectorEffect, AppendType
    <3>4. QED
      BY <2>2, <3>3, VectorEffect DEF TypeOK, client
  <2>3. ASSUME NEW q \in Devices, Interrupt(q) PROVE TypeOK'
    <3>1. isr' \in SUBSET Line /\ irr' \in SUBSET Line
      BY <2>3, ChipTypes DEF TypeOK, Interrupt
    <3>2. QED
      BY <2>2, <2>3, <3>1 DEF Interrupt
  <2>4. ASSUME NEW q \in Noisy, Spurious(q) PROVE TypeOK'
    <3>1. isr' \in SUBSET Line /\ irr' \in SUBSET Line
      <4>1. Cascade \in Line
        BY DEF Cascade, Line
      <4>2. QED
        BY <2>4, <4>1 DEF TypeOK, Spurious
    <3>2. \E v \in Line : Vector(v)
      BY <2>4 DEF Spurious, Line
    <3>3. QED
      BY <2>2, <2>4, <3>1, <3>2 DEF Spurious
  <2>5. CASE SendEOI
    <3>1. MasterEOI(isr) \subseteq isr
      BY DEF MasterEOI
    <3>2. QED
      BY <2>5, <3>1, StepType DEF TypeOK, SendEOI, table, client
  <2>6. CASE SendSlaveEOI
    <3>1. MaskSlave({13}, imr) \subseteq Line
      <4>1. 13 \in Line
        BY DEF Line
      <4>2. QED
        BY <4>1 DEF TypeOK, MaskSlave
    <3>2. QED
      BY <2>6, <3>1, StepType DEF TypeOK, SendSlaveEOI, table, client
  <2>7. CASE Return
    BY <2>7 DEF TypeOK, Return, chips, table, client
  <2>8. CASE EnterCriticalSection \/ ExitCriticalSection
    BY <2>8 DEF TypeOK, EnterCriticalSection, ExitCriticalSection, chips, table
  <2>9. ASSUME NEW d \in Driver, NEW q \in Wanted, InAcquireLegacyIRQ(d, q) PROVE TypeOK'
    BY <2>9, TableTypes DEF TypeOK, InAcquireLegacyIRQ, Call, chips, table
  <2>10. CASE StoreLevels
    BY <2>10 DEF TypeOK, StoreLevels, Running, Call, Idle, chips
  <2>11. CASE Refuse
    BY <2>11 DEF TypeOK, Refuse, chips, table
  <2>12. CASE EnterSetInterruptEntry
    <3>1. call \in Call
      BY <2>12 DEF TypeOK, EnterSetInterruptEntry, Running, Idle
    <3>2. call' \in Call
      BY <2>12, <3>1 DEF EnterSetInterruptEntry, Call
    <3>3. QED
      BY <2>12, <3>2 DEF TypeOK, EnterSetInterruptEntry, chips, table
  <2>13. CASE SetHandler \/ SetLevel
    <3>1. call \in Call
      BY <2>13 DEF TypeOK, SetHandler, SetLevel, Running, Idle
    <3>2. call.irq \in Line /\ call.who \in Driver /\ call' \in Call
      BY <2>13, <3>1 DEF SetHandler, SetLevel, Call
    <3>3. lvl_bmp' \in Bitmap /\ handlers' \in [Line -> Driver \cup {NoHandler}]
      BY <2>13, <3>2, TableTypes DEF TypeOK, SetHandler, SetLevel
    <3>4. QED
      BY <2>13, <3>2, <3>3 DEF TypeOK, SetHandler, SetLevel, chips
  <2>14. CASE ExitSetInterruptEntry
    BY <2>14 DEF TypeOK, ExitSetInterruptEntry, Running, Call, Idle, chips, table
  <2>15. CASE UNCHANGED vars
    BY <2>15 DEF TypeOK, vars, chips, table, client
  <2>16. QED
    BY <2>1, <2>3, <2>4, <2>5, <2>6, <2>7, <2>8, <2>9, <2>10, <2>11, <2>12, <2>13, <2>14, <2>15
       DEF Next, Device, Accept, Finish, Acquire
<1>3. QED
  BY <1>1, <1>2, PTL DEF Spec

------------------------------------------------------------------------------
(* Nested service.  ServiceOrder alone is not inductive: that the EOI of the  *)
(* running handler spares the levels below it rests on OwnInService, and that *)
(* a new level is above all of them rests on both and on the 8259.  A request *)
(* on the master that drops before it is acknowledged calls handler 7 with no *)
(* level in service, so the theorems assume that such requests do not occur.  *)

SteadyMaster == Noisy \cap MasterLine = {}

\* Each activation came through the gate of its line.
ThroughGate == \A i \in DOMAIN stack : stack[i].irq = Gate[stack[i].line]

ServiceInv == TypeOK /\ OwnInService /\ ServiceOrder /\ ThroughGate

\* What a taken interrupt does to the levels in service: the one it comes in on
\* is above every other, and all the others stay.
LEMMA AcceptedLevel ==
    ASSUME SteadyMaster, TypeOK,
           \/ \E q \in Devices : Interrupt(q)
           \/ \E q \in Noisy : Spurious(q)
    PROVE  \E v \in Line :
               /\ Vector(v)
               /\ isr \subseteq isr'
               /\ isr' \in SUBSET Line
               /\ MasterBit(v) \in isr'
               /\ \A s \in isr \cap MasterLine : MasterBit(v) < s
<1> USE DispatchAssumption
<1>1. ASSUME NEW q \in Devices, Interrupt(q)
      PROVE  /\ q \in Line /\ Vector(q) /\ isr \subseteq isr'
             /\ isr' \in SUBSET Line /\ MasterBit(q) \in isr'
             /\ \A s \in isr \cap MasterLine : MasterBit(q) < s
  <2>1. Wins(q, irr, isr, imr) /\ isr' = InService(q, isr) /\ Vector(q) /\ q \in Line
    BY <1>1 DEF Interrupt
  <2>2. Unblocked(q, isr, imr)
    BY <2>1 DEF Wins
  <2>3. isr' \in SUBSET Line
    BY <2>1, ChipTypes DEF TypeOK
  <2>4. QED
    BY <2>1, <2>2, <2>3 DEF Unblocked, InService
<1>2. ASSUME NEW q \in Noisy, Spurious(q)
      PROVE  /\ 15 \in Line /\ Vector(15) /\ isr \subseteq isr'
             /\ isr' \in SUBSET Line /\ MasterBit(15) \in isr'
             /\ \A s \in isr \cap MasterLine : MasterBit(15) < s
  <2>1. q \in SlaveLine /\ MasterBit(q) = Cascade
    BY <1>2 DEF SteadyMaster, Line, MasterLine, SlaveLine, MasterBit
  <2>2. Unblocked(q, isr, imr) /\ isr' = isr \cup {Cascade} /\ Vector(15)
    BY <1>2, <2>1 DEF Spurious
  <2>3. MasterBit(15) = Cascade /\ 15 \in Line /\ Cascade \in Line
    BY DEF MasterBit, SlaveLine, Line, Cascade
  <2>4. QED
    BY <2>1, <2>2, <2>3 DEF Unblocked, TypeOK
<1>3. QED
  BY <1>1, <1>2

\* Handlers nest in the order of the 8259's priorities, and the EOI each still
\* owes is for a level in service, as long as no request of the master drops
\* before it is acknowledged.
THEOREM ServiceNests ==
    ASSUME SteadyMaster
    PROVE  Spec => [](OwnInService /\ ServiceOrder /\ ThroughGate)
<1> USE DispatchAssumption
<1>1. Init => ServiceInv
  <2> SUFFICES ASSUME Init PROVE OwnInService /\ ServiceOrder /\ ThroughGate /\ TypeOK
    BY DEF ServiceInv
  <2>1. DOMAIN stack = {} /\ Handling = {}
    BY DEF Init, Handling
  <2>2. TypeOK
    BY InitTypes
  <2>3. QED
    BY <2>1, <2>2 DEF OwnInService, ServiceOrder, ThroughGate
<1>2. ServiceInv /\ [Next]_vars /\ TypeOK' => ServiceInv'
  <2> SUFFICES ASSUME ServiceInv, [Next]_vars, TypeOK'
               PROVE  (OwnInService /\ ServiceOrder /\ ThroughGate)'
    BY DEF ServiceInv
  <2> USE DEF ServiceInv
  <2>0. stack \in Seq(Activation) /\ \A i \in Handling : MasterBit(stack[i].line) \in MasterLine
    <3>1. stack \in Seq(Activation)
      BY DEF TypeOK
    <3>2. \A i \in DOMAIN stack : stack[i] \in Activation
      BY <3>1
    <3>3. \A i \in Handling : stack[i].line \in Line
      BY <3>2 DEF Handling, Activation
    <3>4. QED
      BY <3>1, <3>3, MasterLevels
  <2>1. ASSUME UNCHANGED <<isr, stack>>
        PROVE  (OwnInService /\ ServiceOrder /\ ThroughGate)'
    BY <2>1 DEF OwnInService, ServiceOrder, ThroughGate, Handling
  <2>2. CASE Accept
    <3>1. PICK v \in Line : /\ Vector(v) /\ isr \subseteq isr' /\ isr' \in SUBSET Line
                            /\ MasterBit(v) \in isr'
                            /\ \A s \in isr \cap MasterLine : MasterBit(v) < s
      BY <2>2, AcceptedLevel DEF Accept
    <3>2. CASE UNCHANGED stack
      BY <3>1, <3>2 DEF OwnInService, ServiceOrder, ThroughGate, Handling
    <3>3. CASE stack' = Append(stack, [line |-> v, irq |-> Gate[v], pc |-> "handler"])
      <4>1. /\ DOMAIN stack' = 1 .. (Len(stack) + 1)
            /\ DOMAIN stack = 1 .. Len(stack)
            /\ Len(stack) \in Nat
            /\ \A i \in DOMAIN stack : stack'[i] = stack[i]
            /\ stack'[Len(stack) + 1] = [line |-> v, irq |-> Gate[v], pc |-> "handler"]
        BY <2>0, <3>3
      <4>2. Handling' = Handling \cup {Len(stack) + 1}
        BY <4>1 DEF Handling
      <4>3. OwnInService'
        BY <3>1, <4>1, <4>2 DEF OwnInService, Handling
      <4>4. ServiceOrder'
        BY <2>0, <3>1, <4>1, <4>2 DEF OwnInService, ServiceOrder, Handling
      <4>5. ThroughGate'
        BY <4>1 DEF ThroughGate
      <4>6. QED
        BY <4>3, <4>4, <4>5
    <3>4. QED
      BY <3>1, <3>2, <3>3, VectorEffect
  <2>3. ASSUME NEW pc \in {"slave", "return"}, Step(pc), stack # <<>>,
               isr' \in {isr, MasterEOI(isr)}, isr' # isr => Top.pc = "handler"
        PROVE  (OwnInService /\ ServiceOrder /\ ThroughGate)'
    <3>1. /\ DOMAIN stack' = DOMAIN stack
          /\ DOMAIN stack = 1 .. Len(stack) /\ Len(stack) \in DOMAIN stack
          /\ \A i \in DOMAIN stack : /\ stack'[i].line = stack[i].line
                                     /\ stack'[i].irq = stack[i].irq
          /\ \A i \in DOMAIN stack \ {Len(stack)} : stack'[i] = stack[i]
          /\ stack'[Len(stack)].pc = pc
      BY <2>0, <2>3 DEF Step, Activation
    <3>2. Handling' = Handling \ {Len(stack)}
      BY <3>1 DEF Handling
    <3>3. ASSUME NEW i \in Handling' PROVE MasterBit(stack[i].line) \in isr'
      <4>1. CASE isr' = isr
        BY <3>2, <3>3, <4>1 DEF OwnInService
      <4>2. CASE isr' = MasterEOI(isr) /\ isr' # isr
        <5> DEFINE t == MasterBit(stack[Len(stack)].line)
        <5>1. Len(stack) \in Handling /\ i < Len(stack)
          BY <2>3, <3>1, <3>2, <3>3, <4>2 DEF Top, Handling
        <5>2. t \in isr \cap MasterLine /\ t < MasterBit(stack[i].line)
          BY <2>0, <3>2, <3>3, <5>1 DEF OwnInService, ServiceOrder
        <5>3. QED
          BY <3>2, <3>3, <4>2, <5>2 DEF OwnInService, MasterEOI
      <4>3. QED
        BY <2>3, <4>1, <4>2
    <3>4. OwnInService'
      BY <3>1, <3>2, <3>3 DEF OwnInService, Handling
    <3>5. ServiceOrder'
      BY <3>1, <3>2 DEF ServiceOrder, Handling
    <3>6. ThroughGate'
      BY <3>1 DEF ThroughGate
    <3>7. QED
      BY <3>4, <3>5, <3>6
  <2>4. CASE Return
    <3>1. /\ DOMAIN stack = 1 .. Len(stack) /\ Len(stack) \in Nat
          /\ DOMAIN stack' = 1 .. (Len(stack) - 1)
          /\ \A i \in DOMAIN stack' : i \in DOMAIN stack /\ stack'[i] = stack[i]
      BY <2>0, <2>4 DEF Return
    <3>2. Handling' \subseteq Handling /\ isr' = isr
      BY <2>4, <3>1 DEF Handling, Return, chips
    <3>3. QED
      BY <3>1, <3>2 DEF OwnInService, ServiceOrder, ThroughGate, Handling
  <2>5. CASE Device
    BY <2>1, <2>5 DEF Device, Raise
  <2>6. CASE SendEOI
    BY <2>3, <2>6 DEF SendEOI
  <2>7. CASE SendSlaveEOI
    <3>1. isr' = isr
      BY <2>7 DEF SendSlaveEOI
    <3>2. QED
      BY <2>3, <2>7, <3>1 DEF SendSlaveEOI
  <2>8. CASE Acquire
    BY <2>1, <2>8 DEF Acquire, StoreLevels, Refuse, EnterSetInterruptEntry, SetHandler, SetLevel,
                      ExitSetInterruptEntry, chips
  <2>9. CASE EnterCriticalSection \/ ExitCriticalSection
    BY <2>1, <2>9 DEF EnterCriticalSection, ExitCriticalSection, chips
  <2>10. ASSUME NEW d \in Driver, NEW q \in Wanted, InAcquireLegacyIRQ(d, q)
         PROVE  (OwnInService /\ ServiceOrder /\ ThroughGate)'
    BY <2>1, <2>10 DEF InAcquireLegacyIRQ, chips
  <2>11. CASE UNCHANGED vars
    BY <2>1, <2>11 DEF vars, chips
  <2>12. QED
    BY <2>2, <2>4, <2>5, <2>6, <2>7, <2>8, <2>9, <2>10, <2>11 DEF Next, Finish
<1>3. ServiceInv => OwnInService /\ ServiceOrder /\ ThroughGate
  BY DEF ServiceInv
<1>4. QED
  BY <1>1, <1>2, <1>3, TypeCorrect, PTL DEF Spec

\* Behind any IDT, no handler is entered again before it has returned, as long as
\* no request of the master drops (SteadyMaster).
THEOREM NeverReentered == ASSUME SteadyMaster PROVE Spec => []NoReentry
<1> USE DispatchAssumption
<1>1. TypeOK /\ ServiceOrder /\ ThroughGate => NoReentry
  <2> SUFFICES ASSUME TypeOK, ServiceOrder, ThroughGate,
                      NEW i \in Handling, NEW j \in Handling,
                      stack[i].irq = stack[j].irq
               PROVE  i = j
    BY DEF NoReentry
  <2>1. stack \in Seq(Activation)
    BY DEF TypeOK
  <2>2. \A k \in DOMAIN stack : k \in Nat /\ stack[k] \in Activation
    BY <2>1
  <2>3. i \in DOMAIN stack /\ j \in DOMAIN stack
    BY DEF Handling
  <2>4. /\ stack[i].line \in Line /\ stack[j].line \in Line
        /\ stack[i].irq \in Line
    BY <2>2, <2>3 DEF Activation
  <2>5. stack[i].line = stack[j].line
    BY <2>3, <2>4 DEF ThroughGate
  <2>6. MasterBit(stack[i].line) \in Int
    BY <2>4, MasterLevels
  <2>7. ~(i < j) /\ ~(j < i)
    BY <2>5, <2>6 DEF ServiceOrder
  <2>8. QED
    BY <2>2, <2>3, <2>7
<1>2. QED
  BY <1>1, ServiceNests, TypeCorrect, PTL

------------------------------------------------------------------------------
(* Which handlers nest.  While one runs no driver does, so the table it was   *)
(* called from is only ever shifted, and holds at most the level of line 0.   *)

Timer == [Cleared EXCEPT ![0] = BUS_INUSE]

OnlyTimerNests ==
    \A i, j \in Handling : i < j => stack[j].irq = 0

TableSpent == Handling # {} => lvl_bmp \in {Cleared, Timer}

\* Shifting a spent table leaves a spent table, and clears it but for line 0.
LEMMA ShiftSpent ==
    ASSUME NEW q \in Line, NEW b \in {Cleared, Timer}
    PROVE  /\ ShiftedRight(b, q) \in {Cleared, Timer}
           /\ ShiftedRight(b, q) = Timer => q = 0
<1> USE DEF Cleared, Timer, ShiftedRight, UNDEFINED, BUS_INUSE, Line
<1>1. 0 \in Line /\ \A i \in Line : i + q = 0 => i = 0 /\ q = 0
  OBVIOUS
<1>2. ShiftedRight(Cleared, q) = Cleared
  OBVIOUS
<1>3. CASE q = 0
  <2>1. ShiftedRight(Timer, q) = Timer
    BY <1>3
  <2>2. QED
    BY <1>2, <1>3, <2>1
<1>4. CASE q # 0
  <2>1. ShiftedRight(Timer, q) = Cleared
    BY <1>4
  <2>2. Timer[0] # Cleared[0]
    BY <1>1
  <2>3. QED
    BY <1>2, <2>1, <2>2
<1>5. QED
  BY <1>3, <1>4

\* Only the handler of IRQ 0 is ever entered on top of another.  The documents
\* say otherwise: "All other interrupts are enabled so that they can be serviced
\* before the current one is finished" (docs/Scheduler.md).
THEOREM NestingIsTimer == Spec => []OnlyTimerNests
<1> USE DispatchAssumption
<1> DEFINE Inv == OnlyTimerNests /\ TableSpent
<1>1. Init => Inv
  BY DEF Init, OnlyTimerNests, TableSpent, Handling
<1>2. TypeOK /\ Inv /\ [Next]_vars => Inv'
  <2> SUFFICES ASSUME TypeOK, Inv, [Next]_vars PROVE Inv'
    OBVIOUS
  <2>0. stack \in Seq(Activation) /\ Handling \subseteq DOMAIN stack
    BY DEF TypeOK, Handling
  <2>1. ASSUME UNCHANGED <<stack, lvl_bmp>> PROVE Inv'
    BY <2>1 DEF OnlyTimerNests, TableSpent, Handling
  <2>2. ASSUME stack = <<>>, UNCHANGED stack PROVE Inv'
    BY <2>2 DEF OnlyTimerNests, TableSpent, Handling
  <2>3. CASE Accept
    <3>1. PICK v \in Line : Vector(v) /\ isr' \in SUBSET Line
      <4>1. ASSUME NEW q \in Devices, Interrupt(q)
            PROVE  Vector(q) /\ q \in Line /\ InService(q, isr) \in SUBSET Line
        BY <4>1, ChipTypes DEF Interrupt, TypeOK
      <4>2. ASSUME NEW q \in Noisy, Spurious(q)
            PROVE  \E w \in {7, 15} : Vector(w) /\ isr' \subseteq isr \cup {Cascade}
        BY <4>2 DEF Spurious
      <4>3. 7 \in Line /\ 15 \in Line /\ Cascade \in Line
        BY DEF Line, Cascade
      <4>4. QED
        BY <2>3, <4>1, <4>2, <4>3 DEF Accept, Interrupt, TypeOK
    <3>2. UNCHANGED lvl_bmp \/ (Gate[v] \in Line /\ lvl_bmp' = ShiftedRight(lvl_bmp, Gate[v]))
      BY <3>1 DEF Vector, InMasterDispatch
    <3>3. CASE UNCHANGED stack
      BY <3>2, <3>3, ShiftSpent DEF OnlyTimerNests, TableSpent, Handling
    <3>4. CASE stack' = Append(stack, [line |-> v, irq |-> Gate[v], pc |-> "handler"])
      <4>1. /\ DOMAIN stack' = 1 .. (Len(stack) + 1)
            /\ DOMAIN stack = 1 .. Len(stack) /\ Len(stack) \in Nat
            /\ \A i \in DOMAIN stack : stack'[i] = stack[i]
            /\ stack'[Len(stack) + 1].irq = Gate[v]
            /\ stack'[Len(stack) + 1].pc = "handler"
        BY <2>0, <3>4
      <4>2. Handling' = Handling \cup {Len(stack) + 1}
        BY <4>1 DEF Handling
      <4>3. Gate[v] \in Line /\ lvl_bmp' = ShiftedRight(lvl_bmp, Gate[v]) /\ lvl_bmp' = Timer
        <5>1. stack' # stack
          BY <2>0, <3>4
        <5>2. QED
          BY <3>1, <5>1 DEF Vector, InMasterDispatch, Resume, Equals, Timer
      <4>4. ASSUME NEW i \in Handling PROVE Gate[v] = 0
        BY <4>3, <4>4, ShiftSpent DEF TableSpent
      <4>5. OnlyTimerNests'
        BY <2>0, <4>1, <4>2, <4>4 DEF OnlyTimerNests
      <4>6. QED
        BY <4>3, <4>5 DEF TableSpent
    <3>5. QED
      BY <3>1, <3>3, <3>4, VectorEffect
  <2>4. ASSUME NEW pc \in {"slave", "return"}, Step(pc), stack # <<>>, UNCHANGED lvl_bmp
        PROVE  Inv'
    <3>1. /\ DOMAIN stack' = DOMAIN stack
          /\ DOMAIN stack = 1 .. Len(stack) /\ Len(stack) \in DOMAIN stack
          /\ \A i \in DOMAIN stack : stack'[i].irq = stack[i].irq
          /\ \A i \in DOMAIN stack \ {Len(stack)} : stack'[i] = stack[i]
          /\ stack'[Len(stack)].pc = pc
      BY <2>0, <2>4 DEF Step, Activation
    <3>2. Handling' \subseteq Handling
      BY <3>1 DEF Handling
    <3>3. QED
      BY <2>0, <2>4, <3>1, <3>2 DEF OnlyTimerNests, TableSpent
  <2>5. CASE SendEOI \/ SendSlaveEOI
    BY <2>4, <2>5 DEF SendEOI, SendSlaveEOI, table
  <2>6. CASE Return
    <3>1. /\ DOMAIN stack = 1 .. Len(stack) /\ Len(stack) \in Nat
          /\ DOMAIN stack' = 1 .. (Len(stack) - 1)
          /\ \A i \in DOMAIN stack' : i \in DOMAIN stack /\ stack'[i] = stack[i]
      BY <2>0, <2>6 DEF Return
    <3>2. Handling' \subseteq Handling /\ UNCHANGED lvl_bmp
      BY <2>6, <3>1 DEF Handling, Return, table
    <3>3. QED
      BY <3>1, <3>2 DEF OnlyTimerNests, TableSpent, Handling
  <2>7. CASE Device \/ EnterCriticalSection \/ ExitCriticalSection
    BY <2>1, <2>7 DEF Device, Raise, EnterCriticalSection, ExitCriticalSection, table
  <2>8. CASE Acquire
    BY <2>2, <2>8 DEF Acquire, StoreLevels, Refuse, EnterSetInterruptEntry, SetHandler, SetLevel,
                      ExitSetInterruptEntry, Running
  <2>9. ASSUME NEW d \in Driver, NEW q \in Wanted, InAcquireLegacyIRQ(d, q) PROVE Inv'
    BY <2>2, <2>9 DEF InAcquireLegacyIRQ, Running
  <2>10. CASE UNCHANGED vars
    BY <2>1, <2>10 DEF vars, table
  <2>11. QED
    BY <2>3, <2>5, <2>6, <2>7, <2>8, <2>9, <2>10 DEF Next, Finish
<1>3. QED
  BY <1>1, <1>2, TypeCorrect, PTL DEF Spec

------------------------------------------------------------------------------
(* The critical section of SetInterruptEntry.  The level is or-ed into the    *)
(* table, and InAcquireLegacyIRQ takes a BUS_FREE line as well: of that the   *)
(* |= makes RECL_16.  The theorem is about a table with no such level in it,  *)
(* and then every level there ever is in it is UNDEFINED or BUS_INUSE.        *)

PlainBitmap == [Line -> {UNDEFINED, BUS_INUSE}]

\* The table's operators keep to the two levels.
LEMMA PlainTable ==
    ASSUME NEW b \in PlainBitmap, NEW q \in Line
    PROVE  /\ ShiftedRight(b, q) \in PlainBitmap
           /\ WithLevel(b, q, BUS_INUSE) \in PlainBitmap
           /\ WithLevel(b, q, BUS_INUSE)[q] = BUS_INUSE
<1>1. ShiftedRight(b, q) \in PlainBitmap
  BY DEF ShiftedRight, PlainBitmap, UNDEFINED, Line
<1>2. Or(b[q], BUS_INUSE) = BUS_INUSE
  BY DEF Or, PlainBitmap, BUS_INUSE, UNDEFINED
<1>3. WithLevel(b, q, BUS_INUSE) \in PlainBitmap /\ WithLevel(b, q, BUS_INUSE)[q] = BUS_INUSE
  BY <1>2 DEF WithLevel, PlainBitmap
<1>4. QED
  BY <1>1, <1>3

\* From cli to sti no interrupt is accepted, so what was written stays.
EntryInv ==
    /\ lvl_bmp \in PlainBitmap /\ call.edx \in PlainBitmap
    /\ call.pc \in {"entry", "level", "exit"} => ~iflag
    /\ call.pc \in {"level", "exit"} => handlers[call.irq] = call.who
    /\ call.pc = "exit" => lvl_bmp[call.irq] = BUS_INUSE

\* From a start-up table with no BUS_FREE and no RECL_16 in it, a driver that
\* gets a line leaves the critical section with its handler and BUS_INUSE there.
THEOREM EntriesRegister ==
    ASSUME StartLevels \in PlainBitmap
    PROVE  Spec => []GrantIsRegistered
<1>1. Init => EntryInv
  BY DEF Init, EntryInv, Idle, Cleared, PlainBitmap
<1>2. TypeOK /\ EntryInv /\ [Next]_vars => EntryInv'
  <2> SUFFICES ASSUME TypeOK, EntryInv, [Next]_vars PROVE EntryInv'
    OBVIOUS
  <2> USE DEF EntryInv
  <2>1. CASE Device
    BY <2>1 DEF Device, Raise, table, client
  <2>2. ASSUME NEW v \in Line, Vector(v), iflag, UNCHANGED <<iflag, handlers, client>>
        PROVE  EntryInv'
    <3>1. UNCHANGED lvl_bmp \/ (Gate[v] \in Line /\ lvl_bmp' = ShiftedRight(lvl_bmp, Gate[v]))
      BY <2>2, DispatchAssumption DEF Vector, InMasterDispatch
    <3>2. QED
      BY <2>2, <3>1, PlainTable DEF client
  <2>3. CASE Accept
    <3>1. 7 \in Line /\ 15 \in Line /\ Devices \subseteq Line
      BY DispatchAssumption DEF Line
    <3>2. iflag /\ UNCHANGED <<iflag, handlers, client>>
      BY <2>3 DEF Accept, Interrupt, Spurious, Accepting
    <3>3. \E v \in Line : Vector(v)
      BY <2>3, <3>1 DEF Accept, Interrupt, Spurious
    <3>4. QED
      BY <2>2, <3>2, <3>3
  <2>4. CASE Finish
    BY <2>4 DEF Finish, SendEOI, SendSlaveEOI, Return, table, client
  <2>5. CASE EnterCriticalSection \/ ExitCriticalSection
    BY <2>5 DEF EnterCriticalSection, ExitCriticalSection, Running, table
  <2>6. ASSUME NEW d \in Driver, NEW q \in Wanted, InAcquireLegacyIRQ(d, q)
        PROVE  EntryInv'
    <3>1. q \in Line
      BY DispatchAssumption
    <3>2. QED
      BY <2>6, <3>1, PlainTable DEF InAcquireLegacyIRQ, table
  <2>7. ASSUME NEW pc, call.pc # "idle", call' = [call EXCEPT !.pc = pc]
        PROVE  /\ call'.pc = pc /\ call'.who = call.who
               /\ call'.irq = call.irq /\ call'.edx = call.edx
    <3>1. call \in Call
      BY <2>7 DEF TypeOK, Idle
    <3>2. QED
      BY <2>7, <3>1 DEF Call
  <2>8. CASE StoreLevels \/ EnterSetInterruptEntry
    BY <2>7, <2>8 DEF StoreLevels, EnterSetInterruptEntry, Running, table
  <2>9. CASE Refuse \/ ExitSetInterruptEntry
    BY <2>9 DEF Refuse, ExitSetInterruptEntry, Idle, Cleared, PlainBitmap, table
  <2>10. CASE SetHandler \/ SetLevel
    <3>1. call \in Call
      BY <2>10 DEF TypeOK, SetHandler, SetLevel, Running, Idle
    <3>2. call.irq \in Line /\ call.who \in Driver
      BY <3>1 DEF Call
    <3>3. CASE SetHandler
      BY <2>7, <3>2, <3>3 DEF SetHandler, Running, TypeOK
    <3>4. CASE SetLevel
      BY <2>7, <3>2, <3>4, PlainTable DEF SetLevel, Running
    <3>5. QED
      BY <2>10, <3>3, <3>4
  <2>11. CASE UNCHANGED vars
    BY <2>11 DEF vars, table, client
  <2>12. QED
    BY <2>1, <2>3, <2>4, <2>5, <2>6, <2>8, <2>9, <2>10, <2>11 DEF Next, Acquire
<1>3. EntryInv => GrantIsRegistered
  BY DEF EntryInv, GrantIsRegistered
<1>4. QED
  BY <1>1, <1>2, <1>3, TypeCorrect, PTL DEF Spec

------------------------------------------------------------------------------
(* The dispatcher implements the nested service.                             *)

\* The stack is a sequence of activations, each of a line.
LEMMA StackFacts ==
    ASSUME TypeOK
    PROVE  /\ DOMAIN stack = 1 .. Len(stack) /\ Len(stack) \in Nat
           /\ \A i \in DOMAIN stack : stack[i] \in Activation
           /\ \A i \in Handling : MasterBit(stack[i].line) \in MasterLine
<1>1. stack \in Seq(Activation)
  BY DEF TypeOK
<1>2. \A i \in DOMAIN stack : stack[i] \in Activation
  BY <1>1
<1>3. \A i \in DOMAIN stack : stack[i].line \in Line
  BY <1>2 DEF Activation
<1>4. \A i \in Handling : MasterBit(stack[i].line) \in MasterLine
  BY <1>3, MasterLevels DEF Handling
<1>5. QED
  BY <1>1, <1>2, <1>4

\* Entering a handler is entering its level, above all the active ones.
LEMMA AcceptEnters ==
    ASSUME SteadyMaster, ServiceInv, Accept
    PROVE  UNCHANGED Active \/ \E d \in 1 .. MaxDepth, m \in MasterLine : Nested!Enter(d, m)
<1> USE DispatchAssumption DEF ServiceInv
<1>1. PICK v \in Line : Vector(v) /\ isr' \in SUBSET Line
                        /\ \A s \in isr \cap MasterLine : MasterBit(v) < s
  BY AcceptedLevel DEF Accept
<1>2. CASE UNCHANGED stack
  BY <1>2 DEF Active, Handling
<1>3. CASE stack' = Append(stack, [line |-> v, irq |-> Gate[v], pc |-> "handler"])
  <2> DEFINE d == Len(stack) + 1
             m == MasterBit(v)
  <2>1. /\ DOMAIN stack' = 1 .. d
        /\ DOMAIN stack = 1 .. Len(stack) /\ Len(stack) \in Nat
        /\ \A i \in DOMAIN stack : stack'[i] = stack[i]
        /\ stack'[d] = [line |-> v, irq |-> Gate[v], pc |-> "handler"]
    BY <1>3 DEF TypeOK
  <2>2. Handling' = Handling \cup {d} /\ Handling \subseteq DOMAIN stack
    BY <2>1 DEF Handling
  <2>3. Active' = Active \cup {<<d, m>>}
    BY <2>1, <2>2 DEF Active
  <2>4. \A i \in Handling : i < d /\ m < MasterBit(stack[i].line)
    BY <1>1, <2>1, <2>2, StackFacts DEF OwnInService
  <2>5. m \in MasterLine /\ d \in 1 .. MaxDepth
    <3>1. Len(stack) < MaxDepth
      BY DEF Accept, Interrupt, Spurious, Accepting
    <3>2. QED
      BY <2>1, <3>1, MasterLevels
  <2>6. Nested!Enter(d, m)
    BY <2>3, <2>4 DEF Nested!Enter, Active
  <2>7. QED
    BY <2>5, <2>6
<1>4. QED
  BY <1>1, <1>2, <1>3, VectorEffect

\* Leaving the running handler is leaving the active one on top.
LEMMA EOILeaves ==
    ASSUME ServiceInv, SendEOI
    PROVE  \E a \in Active : Nested!Leave(a)
<1> USE DEF ServiceInv
<1> DEFINE n == Len(stack)
           top == <<n, MasterBit(stack[n].line)>>
<1>1. /\ n \in Handling /\ DOMAIN stack = 1 .. n /\ n \in Nat
      /\ Handling \subseteq DOMAIN stack
  <2>1. stack # <<>> /\ Top.pc = "handler" /\ stack \in Seq(Activation)
    BY DEF SendEOI, TypeOK
  <2>2. n \in DOMAIN stack
    BY <2>1
  <2>3. QED
    BY <2>1, <2>2, StackFacts DEF Handling, Top
<1>2. /\ DOMAIN stack' = DOMAIN stack
      /\ \A i \in DOMAIN stack \ {n} : stack'[i] = stack[i]
      /\ stack'[n].pc # "handler"
  <2>1. stack \in Seq(Activation) /\ n \in DOMAIN stack /\ stack[n] \in Activation
    BY <1>1, StackFacts DEF TypeOK
  <2>2. PICK pc \in {"slave", "return"} : stack' = [stack EXCEPT ![n].pc = pc]
    BY DEF SendEOI, Step
  <2>3. QED
    BY <2>1, <2>2 DEF Activation
<1>3. Handling' = Handling \ {n}
  BY <1>1, <1>2 DEF Handling
<1>4. \A i \in Handling' : stack'[i] = stack[i]
  BY <1>1, <1>2, <1>3
<1>5. Active' = Active \ {top}
  <2>1. Active' = {<<i, MasterBit(stack[i].line)>> : i \in Handling \ {n}}
    BY <1>3, <1>4 DEF Active
  <2>2. QED
    BY <2>1 DEF Active
<1>6. top \in Active /\ \A a \in Active : a[1] =< n
  BY <1>1 DEF Active
<1>7. QED
  BY <1>5, <1>6 DEF Nested!Leave

\* Every behaviour of the dispatcher in which no request of the master drops is a
\* nested service of the master's levels.
THEOREM ImplementsNestedService == ASSUME SteadyMaster PROVE Spec => NestedSpec
<1> USE DispatchAssumption
<1>1. Init => Nested!Init
  BY DEF Init, Nested!Init, Active, Handling
<1>2. ServiceInv /\ [Next]_vars => [Nested!Next]_Active
  <2> SUFFICES ASSUME ServiceInv, [Next]_vars PROVE [Nested!Next]_Active
    OBVIOUS
  <2>1. ASSUME UNCHANGED stack PROVE UNCHANGED Active
    BY <2>1 DEF Active, Handling
  <2>2. CASE Accept
    BY <2>2, AcceptEnters DEF Nested!Next
  <2>3. CASE SendEOI
    BY <2>3, EOILeaves DEF Nested!Next
  <2>4. CASE SendSlaveEOI \/ Return
    <3>1. stack \in Seq(Activation) /\ stack # <<>> /\ Len(stack) \in DOMAIN stack
      BY <2>4 DEF ServiceInv, TypeOK, SendSlaveEOI, Return
    <3>2. Len(stack) \notin Handling /\ stack[Len(stack)] \in Activation
      BY <2>4, <3>1 DEF Handling, Top, SendSlaveEOI, Return
    <3>3. Handling' = Handling /\ \A i \in Handling : stack'[i] = stack[i]
      <4>1. CASE SendSlaveEOI
        <5>1. stack' = [stack EXCEPT ![Len(stack)].pc = "return"]
          BY <4>1 DEF SendSlaveEOI, Step
        <5>2. QED
          BY <3>1, <3>2, <5>1 DEF Handling, Activation
      <4>2. CASE Return
        <5>1. stack' = SubSeq(stack, 1, Len(stack) - 1)
          BY <4>2 DEF Return
        <5>2. /\ DOMAIN stack = 1 .. Len(stack) /\ Len(stack) \in Nat
              /\ DOMAIN stack' = 1 .. (Len(stack) - 1)
              /\ \A i \in DOMAIN stack' : stack'[i] = stack[i]
          BY <3>1, <5>1
        <5>3. QED
          BY <3>2, <5>2 DEF Handling
      <4>3. QED
        BY <2>4, <4>1, <4>2
    <3>4. QED
      BY <3>3 DEF Active
  <2>5. CASE Device
    BY <2>1, <2>5 DEF Device, Raise
  <2>6. CASE Acquire
    BY <2>1, <2>6 DEF Acquire, StoreLevels, Refuse, EnterSetInterruptEntry, SetHandler, SetLevel,
                      ExitSetInterruptEntry
  <2>7. CASE EnterCriticalSection \/ ExitCriticalSection
    BY <2>1, <2>7 DEF EnterCriticalSection, ExitCriticalSection
  <2>8. ASSUME NEW d \in Driver, NEW q \in Wanted, InAcquireLegacyIRQ(d, q)
        PROVE  UNCHANGED Active
    BY <2>1, <2>8 DEF InAcquireLegacyIRQ
  <2>9. CASE UNCHANGED vars
    BY <2>1, <2>9 DEF vars
  <2>10. QED
    BY <2>2, <2>3, <2>4, <2>5, <2>6, <2>7, <2>8, <2>9 DEF Next, Finish
<1>3. QED
  BY <1>1, <1>2, ServiceNests, TypeCorrect, PTL DEF Spec, NestedSpec, Nested!Spec, ServiceInv, Active
------------------------------------------------------------------------------
(* Levels left in service.  An EOI ends one level and takes one handler that  *)
(* owed an EOI away, but perhaps not the same: the number of levels that no   *)
(* handler will end stays, although the set may change.                       *)

\* Each EOI ends at most one level of the master.
LEMMA EOIEndsOne ==
    ASSUME NEW s \in SUBSET Line
    PROVE  \/ MasterEOI(s) \cap MasterLine = s \cap MasterLine
           \/ \E h \in s \cap MasterLine :
                 MasterEOI(s) \cap MasterLine = (s \cap MasterLine) \ {h}
<1> DEFINE B == s \cap MasterLine
<1>1. B \subseteq Int
  BY DEF MasterLine
<1>2. MasterEOI(s) \cap MasterLine = {x \in B : \E t \in B : t < x}
  BY DEF MasterEOI
<1> HIDE DEF B
<1>3. CASE \A x \in B : \E t \in B : t < x
  BY <1>2, <1>3 DEF B
<1>4. CASE \E h \in B : \A t \in B : ~(t < h)
  <2>1. PICK h \in B : \A t \in B : ~(t < h)
    BY <1>4
  <2>2. \A x \in B : x # h => h < x
    BY <1>1, <2>1
  <2>3. {x \in B : \E t \in B : t < x} = B \ {h}
    BY <2>1, <2>2
  <2>4. QED
    BY <1>2, <2>1, <2>3 DEF B
<1>5. QED
  BY <1>3, <1>4

\* There are finitely many levels.
LEMMA SomeLevels ==
    ASSUME NEW s
    PROVE  IsFiniteSet(s \cap MasterLine)
<1>1. IsFiniteSet(MasterLine)
  <2>1. 0 \in Int /\ 7 \in Int
    OBVIOUS
  <2>2. IsFiniteSet(0 .. 7)
    BY <2>1, FS_Interval
  <2>3. QED
    BY <2>2 DEF MasterLine
<1>2. s \cap MasterLine \in SUBSET MasterLine
  OBVIOUS
<1>3. QED
  BY <1>1, <1>2, FS_Subset

\* Of a finite set and a part of it, taking one away from each brings what is
\* outside the part down by no more than it brings it up.
LEMMA OneForOne ==
    ASSUME NEW B, IsFiniteSet(B), NEW H \in SUBSET B, NEW h \in B, NEW b \in H
    PROVE  Cardinality((B \ {h}) \ (H \ {b})) >= Cardinality(B \ H)
<1> DEFINE C == B \ H
           D == (B \ {h}) \ (H \ {b})
<1>1. IsFiniteSet(C) /\ IsFiniteSet(D) /\ Cardinality(C) \in Nat /\ Cardinality(D) \in Nat
  BY FS_Subset, FS_CardinalityType
<1>2. CASE h \in H
  <2>1. C \subseteq D
    BY <1>2
  <2>2. QED
    BY <1>1, <2>1, FS_Subset
<1>3. CASE h \notin H
  <2>1. D = (C \ {h}) \cup {b} /\ h \in C /\ b \notin C \ {h}
    BY <1>3
  <2> HIDE DEF C, D
  <2>2. IsFiniteSet(C \ {h}) /\ Cardinality(C \ {h}) = Cardinality(C) - 1
    BY <1>1, <2>1, FS_RemoveElement
  <2>3. Cardinality(D) = Cardinality(C \ {h}) + 1
    BY <2>1, <2>2, FS_AddElement
  <2>4. Cardinality(D) = Cardinality(C)
    BY <1>1, <2>2, <2>3
  <2>5. QED
    BY <1>1, <2>4 DEF C, D
<1>4. QED
  BY <1>2, <1>3

\* The levels for which a running handler owes an EOI.
Owed == {MasterBit(stack[i].line) : i \in Handling}

\* The number only falls when a level in service gets a handler to end it, and a
\* new handler's level is its own interrupt's.
LEMMA StuckStep ==
    ASSUME SteadyMaster, ServiceInv, [Next]_vars
    PROVE  Cardinality(Stuck') >= Cardinality(Stuck)
<1> USE DispatchAssumption DEF ServiceInv
<1> DEFINE B == isr \cap MasterLine
<1>1. IsFiniteSet(B) /\ isr \in SUBSET Line
  BY SomeLevels DEF TypeOK
<1>2. /\ Stuck = B \ Owed /\ Owed \subseteq B
      /\ Stuck' = (isr' \cap MasterLine) \ Owed'
  BY StackFacts DEF Stuck, Owed, OwnInService
<1>3. IsFiniteSet(Stuck) /\ Cardinality(Stuck) \in Nat
  BY <1>1, <1>2, FS_Subset, FS_CardinalityType
<1>4. ASSUME Stuck \subseteq Stuck', isr' \in SUBSET Line
      PROVE  Cardinality(Stuck') >= Cardinality(Stuck)
  <2>1. IsFiniteSet(isr' \cap MasterLine) /\ Stuck' \in SUBSET (isr' \cap MasterLine)
    BY <1>2, SomeLevels
  <2>2. IsFiniteSet(Stuck')
    BY <2>1, FS_Subset
  <2>3. QED
    BY <1>3, <1>4, <2>2, FS_Subset
<1>5. ASSUME UNCHANGED <<isr, stack>>
      PROVE  Cardinality(Stuck') >= Cardinality(Stuck)
  BY <1>1, <1>4, <1>5 DEF Stuck, Handling
<1>6. CASE Accept
  <2>1. PICK v \in Line : /\ Vector(v) /\ isr \subseteq isr' /\ isr' \in SUBSET Line
                          /\ \A s \in isr \cap MasterLine : MasterBit(v) < s
    BY <1>6, AcceptedLevel DEF Accept
  <2>2. MasterBit(v) \notin isr
    BY <2>1, MasterLevels
  <2>3. Owed' \subseteq Owed \cup {MasterBit(v)}
    <3>1. CASE UNCHANGED stack
      BY <3>1 DEF Owed, Handling
    <3>2. CASE stack' = Append(stack, [line |-> v, irq |-> Gate[v], pc |-> "handler"])
      <4>1. /\ DOMAIN stack' = DOMAIN stack \cup {Len(stack) + 1}
            /\ \A i \in DOMAIN stack : stack'[i] = stack[i]
            /\ stack'[Len(stack) + 1].line = v
        <5>1. stack \in Seq(Activation)
          BY DEF TypeOK
        <5>2. QED
          BY <3>2, <5>1
      <4>2. QED
        BY <4>1 DEF Owed, Handling
    <3>3. QED
      BY <2>1, <3>1, <3>2, VectorEffect
  <2>4. Stuck \subseteq Stuck'
    BY <1>2, <2>1, <2>2, <2>3
  <2>5. QED
    BY <1>4, <2>1, <2>4
<1>7. ASSUME NEW pc \in {"slave", "return"}, Step(pc), stack # <<>>
      PROVE  /\ Handling' = Handling \ {Len(stack)}
             /\ \A i \in Handling' : stack'[i].line = stack[i].line
  <2>1. stack \in Seq(Activation) /\ Len(stack) \in DOMAIN stack
    BY <1>7 DEF TypeOK
  <2>2. /\ DOMAIN stack' = DOMAIN stack
        /\ \A i \in DOMAIN stack : stack'[i].line = stack[i].line
        /\ \A i \in DOMAIN stack \ {Len(stack)} : stack'[i] = stack[i]
        /\ stack'[Len(stack)].pc = pc
    BY <1>7, <2>1, StackFacts DEF Step, Activation
  <2>3. QED
    BY <2>2 DEF Handling
<1>8. CASE SendEOI
  <2> DEFINE n == Len(stack)
             b == MasterBit(stack[n].line)
  <2>1. stack # <<>> /\ Top.pc = "handler" /\ isr' = MasterEOI(isr) /\ stack \in Seq(Activation)
    BY <1>8 DEF SendEOI, TypeOK
  <2>2. n \in Handling /\ n \in Int /\ Handling \subseteq 1 .. n
    BY <2>1 DEF Handling, Top
  <2>3. /\ Handling' = Handling \ {n}
        /\ \A i \in Handling' : stack'[i].line = stack[i].line
    BY <1>7, <1>8 DEF SendEOI
  <2>4. \A i \in Handling \ {n} : MasterBit(stack[i].line) # b
    <3>1. SUFFICES ASSUME NEW i \in Handling \ {n} PROVE MasterBit(stack[i].line) # b
      OBVIOUS
    <3>2. i < n
      BY <2>2, <3>1
    <3>3. b < MasterBit(stack[i].line) /\ b \in MasterLine
      BY <2>2, <3>1, <3>2, StackFacts DEF ServiceOrder
    <3>4. QED
      BY <3>3 DEF MasterLine
  <2>5. Owed' = Owed \ {b} /\ b \in Owed
    BY <2>2, <2>3, <2>4 DEF Owed
  <2>6. isr' \in SUBSET Line
    BY <2>1, <1>1 DEF MasterEOI
  <2> HIDE DEF b
  <2>7. CASE isr' \cap MasterLine = B
    BY <1>2, <1>4, <2>5, <2>6, <2>7
  <2>8. ASSUME NEW h \in B, isr' \cap MasterLine = B \ {h}
        PROVE  Cardinality(Stuck') >= Cardinality(Stuck)
    BY <1>1, <1>2, <2>5, <2>8, OneForOne
  <2>9. QED
    BY <1>1, <2>1, <2>7, <2>8, EOIEndsOne
<1>9. CASE SendSlaveEOI
  <2>1. isr' = isr /\ stack # <<>> /\ Top.pc = "slave" /\ Step("return")
    BY <1>9 DEF SendSlaveEOI
  <2>2. Handling' \subseteq Handling /\ \A i \in Handling' : stack'[i].line = stack[i].line
    BY <1>7, <2>1
  <2>3. Owed' \subseteq Owed
    BY <2>2 DEF Owed
  <2>4. QED
    BY <1>1, <1>2, <1>4, <2>1, <2>3
<1>10. CASE Return
  <2>1. /\ DOMAIN stack = 1 .. Len(stack) /\ Len(stack) \in Nat
        /\ DOMAIN stack' = 1 .. (Len(stack) - 1)
        /\ \A i \in DOMAIN stack' : i \in DOMAIN stack /\ stack'[i] = stack[i]
    BY <1>10 DEF Return, TypeOK
  <2>2. Owed' \subseteq Owed /\ isr' = isr
    BY <1>10, <2>1 DEF Owed, Handling, Return, chips
  <2>3. QED
    BY <1>1, <1>2, <1>4, <2>2
<1>11. CASE Device \/ Acquire \/ EnterCriticalSection \/ ExitCriticalSection
  BY <1>5, <1>11 DEF Device, Raise, Acquire, StoreLevels, Refuse, EnterSetInterruptEntry,
     SetHandler, SetLevel, ExitSetInterruptEntry, EnterCriticalSection, ExitCriticalSection, chips
<1>12. ASSUME NEW d \in Driver, NEW q \in Wanted, InAcquireLegacyIRQ(d, q)
       PROVE  Cardinality(Stuck') >= Cardinality(Stuck)
  BY <1>5, <1>12 DEF InAcquireLegacyIRQ, chips
<1>13. CASE UNCHANGED vars
  BY <1>5, <1>13 DEF vars, chips
<1>14. QED
  BY <1>6, <1>8, <1>9, <1>10, <1>11, <1>12, <1>13 DEF Next, Finish

\* A level that was left in service, because its interrupt was dropped without an
\* EOI, is never recovered: the handlers' EOIs only pass it on to another level.  It holds as long as no
\* request of the master drops: the EOI after a spurious IRQ 7 may end one.
THEOREM NeverRecovered == ASSUME SteadyMaster PROVE Spec => StuckForGood
<1> USE DispatchAssumption
<1>1. ServiceInv /\ [Next]_vars => [Cardinality(Stuck') >= Cardinality(Stuck)]_vars
  BY StuckStep
<1>2. QED
  BY <1>1, ServiceNests, TypeCorrect, PTL DEF Spec, ServiceInv, StuckForGood

\* The EOI that a running handler will send ends a level in service, of whatever
\* the interrupts dropped without one leave behind, as long as no request of the
\* master drops (SteadyMaster).
THEOREM EOIOwed == ASSUME SteadyMaster PROVE Spec => []OwnInService
<1>1. QED
  BY ServiceNests, PTL
=============================================================================
