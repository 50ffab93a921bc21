--------------------------- MODULE KernelInit_proof ---------------------------
(***************************************************************************)
(* Proofs about KernelInit: what the descriptors, the two 8259s, the IDT   *)
(* and the timer are after each port write and table entry, wherever the   *)
(* linker puts the tables, whatever DOS has masked, whichever devices      *)
(* request interrupts meanwhile and whatever vectors a program calls.      *)
(***************************************************************************)
EXTENDS KernelInit, SequenceTheorems, TLAPS

-----------------------------------------------------------------------------
(* The invariant. *)

\* Where the loop variable is in each part.
Ranges ==
    /\ pc \in {"begin", "segments", "pic", "idt", "ready", "pit", "reflect", "user"}
    /\ pc = "begin" => i = 1
    /\ pc = "segments" => i \in 1 .. 4
    /\ pc = "pic" => i \in 1 .. 10
    /\ pc = "idt" => i \in 1 .. 31
    /\ pc = "ready" => i = 1
    /\ pc = "pit" => i \in 1 .. 3
    /\ pc \in {"reflect", "user"} => i \in 49 .. 207

\* The segment steps up to the k-th have been made.
SegmentsUpTo(k) == pc # "begin" /\ (pc = "segments" => i > k)
IsDescriptor(d) ==
    d = [access |-> d.access, base0 |-> d.base0, base1 |-> d.base1, base2 |-> d.base2]
Descriptors ==
    /\ gdt = [ucode |-> gdt.ucode, tss |-> gdt.tss, ldt |-> gdt.ldt]
    /\ IsDescriptor(gdt.tss) /\ IsDescriptor(gdt.ldt)
    /\ gdt.ucode.access = 219
    /\ SegmentsUpTo(1) => Base(gdt.tss) = Tss
    /\ SegmentsUpTo(3) => Base(gdt.ldt) = Ldt

\* How many of the five bytes a chip gets it has had at step n of part p, and
\* what it is then; mine are its lines requested since its ICW1.
DoneAt(p, n, c) ==
    IF p \in {"begin", "segments"} THEN 0
    ELSE IF p = "pic" THEN IF c = "master" THEN n \div 2 ELSE (n - 1) \div 2
    ELSE 5
IsChip(d) ==
    d = [expect |-> d.expect, icw4 |-> d.icw4, mode |-> d.mode, read |-> d.read,
         base |-> d.base, cascade |-> d.cascade, imr |-> d.imr, irr |-> d.irr]
ExpectAfter == <<2, 3, 4, 1, 1>>
BaseOf(c) == IF c = "master" THEN 32 ELSE 40
CascadeOf(c) == IF c = "master" THEN 4 ELSE 2
ModeOf(c) == IF c = "master" THEN 1 ELSE 9
Programming(c, d, k, mine) ==
    /\ IsChip(d)
    /\ d.imr \subseteq LinesOf(c) /\ d.irr \subseteq LinesOf(c)
    /\ k = 0 => d.expect = 1
    /\ k < 2 => d.base \in {8, 112}
    /\ k > 0 => d.expect = ExpectAfter[k] /\ d.icw4 /\ d.imr = {} /\ d.irr = mine
    /\ k > 1 => d.base = BaseOf(c)
    /\ k > 2 => d.cascade = CascadeOf(c)
    /\ k > 3 => d.mode = ModeOf(c)
    /\ k > 4 => d.read = "isr"
ChipNames == {"master", "slave"}
Chips ==
    /\ DOMAIN chip = ChipNames
    /\ \A c \in ChipNames :
          Programming(c, chip[c], DoneAt(pc, i, c), requested \cap LinesOf(c))

\* FillIDT has written its k-th gate.
GatesUpTo(k) == pc \in {"ready", "pit", "reflect", "user"} \/ (pc = "idt" /\ i > k)
Gates ==
    /\ DOMAIN idt \subseteq Byte
    /\ \A v \in DOMAIN idt : idt[v].attr = 142
    /\ \A v \in 0 .. 14 : GatesUpTo(v + 1) => v \in DOMAIN idt /\ idt[v].stub = <<"except", v>>
    /\ GatesUpTo(16) => IRQ_BASE \in DOMAIN idt /\ idt[IRQ_BASE].stub[1] = "irq"

Channel0 ==
    /\ pit = [both |-> pit.both, half |-> pit.half, low |-> pit.low, count |-> pit.count]
    /\ pc = "pit" /\ i > 1 => pit.both
    /\ pc = "pit" /\ i = 2 => pit.half = "low"
    /\ pc = "pit" /\ i = 3 => pit.half = "high" /\ pit.low = 176
    /\ pc \in {"reflect", "user"} => pit.count = 1200

CodeIsWord == errorCode \in Word

Inv ==
    Ranges /\ Descriptors /\ TablesReached /\ Chips /\ Gates /\ Channel0 /\ CodeIsWord

-----------------------------------------------------------------------------
(* Bytes. *)

LEMMA Weights ==
  /\ <<1, 2, 4, 8, 16, 32, 64, 128>>[0 + 1] = 1
  /\ <<1, 2, 4, 8, 16, 32, 64, 128>>[1 + 1] = 2
  /\ <<1, 2, 4, 8, 16, 32, 64, 128>>[2 + 1] = 4
  /\ <<1, 2, 4, 8, 16, 32, 64, 128>>[3 + 1] = 8
  /\ <<1, 2, 4, 8, 16, 32, 64, 128>>[4 + 1] = 16
  /\ <<1, 2, 4, 8, 16, 32, 64, 128>>[5 + 1] = 32
  /\ <<1, 2, 4, 8, 16, 32, 64, 128>>[6 + 1] = 64
  /\ <<1, 2, 4, 8, 16, 32, 64, 128>>[7 + 1] = 128
  BY SMT

LEMMA BitOfByte ==
  ASSUME NEW byte
  PROVE  /\ BitOn(byte, 0) <=> (byte \div 1) % 2 = 1
         /\ BitOn(byte, 1) <=> (byte \div 2) % 2 = 1
         /\ BitOn(byte, 2) <=> (byte \div 4) % 2 = 1
         /\ BitOn(byte, 3) <=> (byte \div 8) % 2 = 1
         /\ BitOn(byte, 4) <=> (byte \div 16) % 2 = 1
         /\ BitOn(byte, 5) <=> (byte \div 32) % 2 = 1
         /\ BitOn(byte, 6) <=> (byte \div 64) % 2 = 1
         /\ BitOn(byte, 7) <=> (byte \div 128) % 2 = 1
  <1>1. BitOn(byte, 0) <=> (byte \div 1) % 2 = 1
    BY Weights, Zenon DEF BitOn
  <1>2. BitOn(byte, 1) <=> (byte \div 2) % 2 = 1
    BY Weights, Zenon DEF BitOn
  <1>3. BitOn(byte, 2) <=> (byte \div 4) % 2 = 1
    BY Weights, Zenon DEF BitOn
  <1>4. BitOn(byte, 3) <=> (byte \div 8) % 2 = 1
    BY Weights, Zenon DEF BitOn
  <1>5. BitOn(byte, 4) <=> (byte \div 16) % 2 = 1
    BY Weights, Zenon DEF BitOn
  <1>6. BitOn(byte, 5) <=> (byte \div 32) % 2 = 1
    BY Weights, Zenon DEF BitOn
  <1>7. BitOn(byte, 6) <=> (byte \div 64) % 2 = 1
    BY Weights, Zenon DEF BitOn
  <1>8. BitOn(byte, 7) <=> (byte \div 128) % 2 = 1
    BY Weights, Zenon DEF BitOn
  <1> QED
    BY <1>1, <1>2, <1>3, <1>4, <1>5, <1>6, <1>7, <1>8

\* The bits of the bytes that the kernel sends and that the properties ask for.
LEMMA BitsSent ==
  /\ BitOn(ICW1, 4) /\ BitOn(ICW1, 0) /\ ~BitOn(11, 4) /\ BitOn(11, 0)
  /\ BitOn(1, 0) /\ ~BitOn(1, 1) /\ BitOn(9, 0) /\ ~BitOn(9, 1)
  /\ 4 \in Bits(54) /\ 5 \in Bits(54)
  <1>1. /\ BitOn(17, 4) /\ BitOn(17, 0) /\ ~BitOn(11, 4) /\ BitOn(11, 0)
        /\ BitOn(1, 0) /\ ~BitOn(1, 1) /\ BitOn(9, 0) /\ ~BitOn(9, 1)
        /\ BitOn(54, 4) /\ BitOn(54, 5)
    BY BitOfByte, SMT
  <1>2. 4 \in 0 .. 7 /\ 5 \in 0 .. 7
    BY SMT
  <1> QED
    BY <1>1, <1>2, Zenon DEF ICW1, Bits

LEMMA CascadeBits == Bits(4) = {2}
  <1>1. 0 .. 7 = {0, 1, 2, 3, 4, 5, 6, 7}
    BY SMT
  <1>2. /\ BitOn(4, 2) /\ ~BitOn(4, 0) /\ ~BitOn(4, 1) /\ ~BitOn(4, 3) /\ ~BitOn(4, 4)
        /\ ~BitOn(4, 5) /\ ~BitOn(4, 6) /\ ~BitOn(4, 7)
    BY BitOfByte, SMT
  <1> QED
    BY <1>1, <1>2, SMT DEF Bits

-----------------------------------------------------------------------------
(* The lists of steps. *)

LEMMA ListOf ==
  ASSUME NEW n \in Nat, NEW S, NEW f \in [1 .. n -> S]
  PROVE  f \in Seq(S) /\ Len(f) = n
  BY SMT

JoinOf(u, s, t, m, n) ==
    /\ Len(u) = m + n
    /\ \A k \in 1 .. m : u[k] = s[k]
    /\ \A k \in 1 .. n : u[m + k] = t[k]

LEMMA Joined ==
  ASSUME NEW S, NEW s \in Seq(S), NEW t \in Seq(S), NEW m, Len(s) = m, NEW n, Len(t) = n
  PROVE  JoinOf(s \o t, s, t, m, n)
  BY SMT DEF JoinOf

LEMMA SegmentList ==
  /\ Len(SegmentSteps) = 4
  /\ SegmentSteps[1] = "tss" /\ SegmentSteps[2] = "ltr"
  /\ SegmentSteps[3] = "ldt" /\ SegmentSteps[4] = "lldt"
  BY SMT DEF SegmentSteps

LEMMA PortList ==
  /\ Len(PortWrites) = 10
  /\ PortWrites[1] = <<32, ICW1>> /\ PortWrites[2] = <<160, ICW1>>
  /\ PortWrites[3] = <<33, 32>> /\ PortWrites[4] = <<161, 40>>
  /\ PortWrites[5] = <<33, 4>> /\ PortWrites[6] = <<161, 2>>
  /\ PortWrites[7] = <<33, 1>> /\ PortWrites[8] = <<161, 9>>
  /\ PortWrites[9] = <<32, 11>> /\ PortWrites[10] = <<160, 11>>
  <1> DEFINE P == Nat \X Nat
  <1>1. /\ PIC_Remap \in Seq(P) /\ Len(PIC_Remap) = 8
        /\ PIC_Remap[1] = <<32, ICW1>> /\ PIC_Remap[2] = <<160, ICW1>>
        /\ PIC_Remap[3] = <<33, 32>> /\ PIC_Remap[4] = <<161, 40>>
        /\ PIC_Remap[5] = <<33, 4>> /\ PIC_Remap[6] = <<161, 2>>
        /\ PIC_Remap[7] = <<33, 1>> /\ PIC_Remap[8] = <<161, 9>>
    BY SMT DEF PIC_Remap, ICW1, IRQ_BASE, ICW4_8086, ICW4_SLAVE
  <1> DEFINE Reads == <<<<32, 11>>, <<160, 11>>>>
  <1>2. Reads \in Seq(P) /\ Len(Reads) = 2 /\ Reads[1] = <<32, 11>> /\ Reads[2] = <<160, 11>>
    BY SMT
  <1>3. PortWrites = PIC_Remap \o Reads
    BY DEF PortWrites
  <1> HIDE DEF P, Reads
  <1>4. /\ Len(PortWrites) = 10
        /\ \A k \in 1 .. 8 : PortWrites[k] = PIC_Remap[k]
        /\ \A k \in 1 .. 2 : PortWrites[8 + k] = Reads[k]
    <2>1. JoinOf(PIC_Remap \o Reads, PIC_Remap, Reads, 8, 2)
      <3>1. /\ PIC_Remap \in Seq(P) /\ Len(PIC_Remap) = 8
            /\ Reads \in Seq(P) /\ Len(Reads) = 2
        BY <1>1, <1>2
      <3> QED
        BY <3>1, Joined, Zenon
    <2>2. 8 + 2 = 10
      BY SMT
    <2> QED
      BY <2>1, <2>2, <1>3, Zenon DEF JoinOf
  <1>5. PortWrites[8 + 1] = Reads[1] /\ PortWrites[8 + 2] = Reads[2]
    BY <1>4, SMT
  <1>6. /\ PortWrites[1] = PIC_Remap[1] /\ PortWrites[2] = PIC_Remap[2]
        /\ PortWrites[3] = PIC_Remap[3] /\ PortWrites[4] = PIC_Remap[4]
        /\ PortWrites[5] = PIC_Remap[5] /\ PortWrites[6] = PIC_Remap[6]
        /\ PortWrites[7] = PIC_Remap[7] /\ PortWrites[8] = PIC_Remap[8]
    BY <1>4, SMT
  <1>7. PortWrites[9] = <<32, 11>> /\ PortWrites[10] = <<160, 11>>
    <2>1. 8 + 1 = 9 /\ 8 + 2 = 10
      BY SMT
    <2> QED
      BY <2>1, <1>2, <1>5
  <1> QED
    BY <1>1, <1>4, <1>6, <1>7, Zenon

\* FillIDT writes the fifteen exceptions' gates and then sixteen times the vector
\* of the first IRQ.
ExceptionGate(v) == [attr |-> 142, stub |-> <<"except", v>>]
IrqGate(q) == [attr |-> 142, stub |-> <<"irq", q>>]

LEMMA GateList ==
  /\ Len(FillIDT) = 31
  /\ \A k \in 1 .. 15 : FillIDT[k] = <<k - 1, ExceptionGate(k - 1)>>
  /\ \A k \in 1 .. 16 : FillIDT[15 + k] = <<IRQ_BASE, IrqGate(k - 1)>>
  <1> DEFINE e == [k \in 1 .. EXCEPT_IMPLEMENTED |->
                     <<k - 1, MkTrapGate(0, <<"except", k - 1>>)>>]
             g == [k \in 1 .. 16 |->
                     <<InterruptGates[k][1], MkIntrGate(<<"irq", InterruptGates[k][2]>>)>>]
  <1>1. FillIDT = e \o g
    BY DEF FillIDT
  <1>2. e = [k \in 1 .. 15 |-> <<k - 1, ExceptionGate(k - 1)>>]
    <2>1. \A k \in 1 .. 15 : MkTrapGate(0, <<"except", k - 1>>) = ExceptionGate(k - 1)
      BY SMT DEF MkTrapGate, ExceptionGate
    <2> QED
      BY <2>1, Zenon DEF EXCEPT_IMPLEMENTED
  <1>3. g = [k \in 1 .. 16 |-> <<IRQ_BASE, IrqGate(k - 1)>>]
    <2>1. ASSUME NEW k \in 1 .. 16
          PROVE  /\ InterruptGates[k][1] = IRQ_BASE
                 /\ MkIntrGate(<<"irq", InterruptGates[k][2]>>) = IrqGate(k - 1)
      BY SMT DEF InterruptGates, MkIntrGate, IrqGate
    <2> QED
      BY <2>1, Zenon
  <1> HIDE DEF e, g
  <1> DEFINE S == {<<k - 1, ExceptionGate(k - 1)>> : k \in 1 .. 15}
             T == {<<IRQ_BASE, IrqGate(k - 1)>> : k \in 1 .. 16}
  <1>4. e \in [1 .. 15 -> S \union T] /\ g \in [1 .. 16 -> S \union T]
    BY <1>2, <1>3, Zenon
  <1> HIDE DEF S, T
  <1>5. /\ e \in Seq(S \union T) /\ Len(e) = 15
        /\ g \in Seq(S \union T) /\ Len(g) = 16
    <2>1. 15 \in Nat /\ 16 \in Nat
      BY SMT
    <2> QED
      BY <2>1, <1>4, ListOf, Zenon
  <1>6. /\ Len(e \o g) = 31
        /\ \A k \in 1 .. 15 : (e \o g)[k] = e[k]
        /\ \A k \in 1 .. 16 : (e \o g)[15 + k] = g[k]
    <2>1. JoinOf(e \o g, e, g, 15, 16)
      BY <1>5, Joined, Zenon
    <2>2. 15 + 16 = 31
      BY SMT
    <2> QED
      BY <2>1, <2>2, Zenon DEF JoinOf
  <1> QED
    BY <1>1, <1>2, <1>3, <1>6, Zenon

LEMMA PitList ==
  /\ Len(PitWrites) = 3
  /\ PitWrites[1] = <<67, 54>> /\ PitWrites[2] = <<64, 176>> /\ PitWrites[3] = <<64, 4>>
  BY SMT DEF PitWrites

-----------------------------------------------------------------------------
(* The bytes a chip gets. *)

PortFor(c, k) == (IF c = "master" THEN 32 ELSE 160) + (IF k \in 1 .. 3 THEN 1 ELSE 0)
ByteFor(c, k) == <<ICW1, BaseOf(c), CascadeOf(c), ModeOf(c), 11>>[k + 1]
Reply(d, port, byte) == IF port % 2 = 0 THEN Command(d, byte) ELSE Data(d, byte)

LEMMA Expected ==
  /\ ExpectAfter[1] = 2 /\ ExpectAfter[2] = 3 /\ ExpectAfter[3] = 4
  /\ ExpectAfter[4] = 1 /\ ExpectAfter[5] = 1
  BY SMT DEF ExpectAfter

LEMMA BytesOf ==
  ASSUME NEW c
  PROVE  /\ ByteFor(c, 0) = ICW1 /\ ByteFor(c, 1) = BaseOf(c) /\ ByteFor(c, 2) = CascadeOf(c)
         /\ ByteFor(c, 3) = ModeOf(c) /\ ByteFor(c, 4) = 11
  BY SMT DEF ByteFor

LEMMA PortsOf ==
  ASSUME NEW c
  PROVE  /\ PortFor(c, 0) % 2 = 0 /\ PortFor(c, 1) % 2 = 1 /\ PortFor(c, 2) % 2 = 1
         /\ PortFor(c, 3) % 2 = 1 /\ PortFor(c, 4) % 2 = 0
  BY SMT DEF PortFor

LEMMA AfterICW1 ==
  ASSUME NEW c \in ChipNames, NEW d, NEW mine, Programming(c, d, 0, mine)
  PROVE  Programming(c, Command(d, ICW1), 1, {})
  <1> DEFINE e == Command(d, ICW1)
  <1>1. IsChip(d) /\ d.base \in {8, 112}
    BY SMT DEF Programming
  <1> PICK b : b = BitOn(ICW1, 0)
    OBVIOUS
  <1>2. e = [d EXCEPT !.expect = 2, !.icw4 = b, !.read = "irr", !.imr = {}, !.irr = {}]
    BY BitsSent, Zenon DEF Command
  <1>3. e = [expect |-> 2, icw4 |-> b, mode |-> d.mode, read |-> "irr",
             base |-> d.base, cascade |-> d.cascade, imr |-> {}, irr |-> {}]
    <2>1. /\ DOMAIN e = DOMAIN d
          /\ DOMAIN d = {"expect", "icw4", "mode", "read", "base", "cascade", "imr", "irr"}
      BY <1>1, <1>2, SMT DEF IsChip
    <2>2. /\ e.expect = 2 /\ e.icw4 = b /\ e.mode = d.mode /\ e.read = "irr"
          /\ e.base = d.base /\ e.cascade = d.cascade /\ e.imr = {} /\ e.irr = {}
      BY <1>2, <2>1, SMT
    <2>3. e = [f \in DOMAIN e |-> e[f]]
      BY <1>2, Zenon
    <2> QED
      BY <2>1, <2>2, <2>3, SMT
  <1> HIDE DEF e
  <1>4. /\ IsChip(e) /\ e.imr = {} /\ e.irr = {} /\ e.base = d.base
        /\ e.expect = ExpectAfter[1] /\ e.icw4 = b
    BY <1>3, Expected DEF IsChip
  <1>5. e.icw4
    BY <1>4, BitsSent, Zenon
  <1>6. Programming(c, e, 1, {})
    BY <1>1, <1>4, <1>5, SMT DEF Programming
  <1> QED
    BY <1>6 DEF e

LEMMA AfterICW2 ==
  ASSUME NEW c \in ChipNames, NEW d, NEW mine, Programming(c, d, 1, mine)
  PROVE  Programming(c, Data(d, BaseOf(c)), 2, mine)
  <1> DEFINE e == Data(d, BaseOf(c))
  <1>1. /\ IsChip(d) /\ d.expect = 2 /\ d.icw4 /\ d.imr = {} /\ d.irr = mine
        /\ d.irr \subseteq LinesOf(c)
    BY Expected, SMT DEF Programming
  <1>2. e = [d EXCEPT !.base = BaseOf(c), !.expect = 3]
    BY <1>1 DEF Data
  <1>3. e = [expect |-> 3, icw4 |-> d.icw4, mode |-> d.mode, read |-> d.read,
             base |-> BaseOf(c), cascade |-> d.cascade, imr |-> d.imr, irr |-> d.irr]
    BY <1>1, <1>2 DEF IsChip
  <1> HIDE DEF e
  <1>4. /\ IsChip(e) /\ e.imr = d.imr /\ e.irr = d.irr /\ e.base = BaseOf(c)
        /\ e.expect = ExpectAfter[2] /\ e.icw4 = d.icw4
    BY <1>3, Expected DEF IsChip
  <1>5. Programming(c, e, 2, mine)
    BY <1>1, <1>4, SMT DEF Programming
  <1> QED
    BY <1>5 DEF e

LEMMA AfterICW3 ==
  ASSUME NEW c \in ChipNames, NEW d, NEW mine, Programming(c, d, 2, mine)
  PROVE  Programming(c, Data(d, CascadeOf(c)), 3, mine)
  <1> DEFINE e == Data(d, CascadeOf(c))
  <1>1. /\ IsChip(d) /\ d.expect = 3 /\ d.icw4 /\ d.imr = {} /\ d.irr = mine
        /\ d.irr \subseteq LinesOf(c) /\ d.base = BaseOf(c)
    BY Expected, SMT DEF Programming
  <1>2. e = [d EXCEPT !.cascade = CascadeOf(c), !.expect = 4]
    BY <1>1 DEF Data
  <1>3. e = [expect |-> 4, icw4 |-> d.icw4, mode |-> d.mode, read |-> d.read,
             base |-> d.base, cascade |-> CascadeOf(c), imr |-> d.imr, irr |-> d.irr]
    BY <1>1, <1>2 DEF IsChip
  <1> HIDE DEF e
  <1>4. /\ IsChip(e) /\ e.imr = d.imr /\ e.irr = d.irr /\ e.base = BaseOf(c)
        /\ e.expect = ExpectAfter[3] /\ e.icw4 = d.icw4 /\ e.cascade = CascadeOf(c)
    BY <1>1, <1>3, Expected DEF IsChip
  <1>5. Programming(c, e, 3, mine)
    BY <1>1, <1>4, SMT DEF Programming
  <1> QED
    BY <1>5 DEF e

LEMMA AfterICW4 ==
  ASSUME NEW c \in ChipNames, NEW d, NEW mine, Programming(c, d, 3, mine)
  PROVE  Programming(c, Data(d, ModeOf(c)), 4, mine)
  <1> DEFINE e == Data(d, ModeOf(c))
  <1>1. /\ IsChip(d) /\ d.expect = 4 /\ d.icw4 /\ d.imr = {} /\ d.irr = mine
        /\ d.irr \subseteq LinesOf(c) /\ d.base = BaseOf(c) /\ d.cascade = CascadeOf(c)
    BY Expected, SMT DEF Programming
  <1>2. e = [d EXCEPT !.mode = ModeOf(c), !.expect = 1]
    BY <1>1 DEF Data
  <1>3. e = [expect |-> 1, icw4 |-> d.icw4, mode |-> ModeOf(c), read |-> d.read,
             base |-> d.base, cascade |-> d.cascade, imr |-> d.imr, irr |-> d.irr]
    BY <1>1, <1>2 DEF IsChip
  <1> HIDE DEF e
  <1>4. /\ IsChip(e) /\ e.imr = d.imr /\ e.irr = d.irr /\ e.base = BaseOf(c)
        /\ e.expect = ExpectAfter[4] /\ e.icw4 = d.icw4 /\ e.cascade = CascadeOf(c)
        /\ e.mode = ModeOf(c)
    BY <1>1, <1>3, Expected DEF IsChip
  <1>5. Programming(c, e, 4, mine)
    BY <1>1, <1>4, SMT DEF Programming
  <1> QED
    BY <1>5 DEF e

LEMMA AfterOCW3 ==
  ASSUME NEW c \in ChipNames, NEW d, NEW mine, Programming(c, d, 4, mine)
  PROVE  Programming(c, Command(d, 11), 5, mine)
  <1> DEFINE e == Command(d, 11)
  <1>1. /\ IsChip(d) /\ d.expect = 1 /\ d.icw4 /\ d.imr = {} /\ d.irr = mine
        /\ d.irr \subseteq LinesOf(c) /\ d.base = BaseOf(c) /\ d.cascade = CascadeOf(c)
        /\ d.mode = ModeOf(c)
    BY Expected, SMT DEF Programming
  <1>2. e = [d EXCEPT !.read = "isr"]
    BY BitsSent DEF Command
  <1>3. e = [expect |-> d.expect, icw4 |-> d.icw4, mode |-> d.mode, read |-> "isr",
             base |-> d.base, cascade |-> d.cascade, imr |-> d.imr, irr |-> d.irr]
    BY <1>1, <1>2 DEF IsChip
  <1> HIDE DEF e
  <1>4. /\ IsChip(e) /\ e.imr = d.imr /\ e.irr = d.irr /\ e.base = BaseOf(c)
        /\ e.expect = ExpectAfter[5] /\ e.icw4 = d.icw4 /\ e.cascade = CascadeOf(c)
        /\ e.mode = ModeOf(c) /\ e.read = "isr"
    BY <1>1, <1>3, Expected DEF IsChip
  <1>5. Programming(c, e, 5, mine)
    BY <1>1, <1>4, SMT DEF Programming
  <1> QED
    BY <1>5 DEF e

\* Each byte takes the chip one stage further; ICW1 clears what was requested.
LEMMA NextByte ==
  ASSUME NEW c \in ChipNames, NEW d, NEW mine, NEW k \in 0 .. 4, Programming(c, d, k, mine)
  PROVE  Programming(c, Reply(d, PortFor(c, k), ByteFor(c, k)), k + 1, IF k = 0 THEN {} ELSE mine)
  <1>1. CASE k = 0
    <2>1. Reply(d, PortFor(c, k), ByteFor(c, k)) = Command(d, ICW1) /\ k + 1 = 1
      BY <1>1, BytesOf, PortsOf DEF Reply
    <2> QED
      BY <1>1, <2>1, AfterICW1
  <1>2. CASE k = 1
    <2>1. Reply(d, PortFor(c, k), ByteFor(c, k)) = Data(d, BaseOf(c)) /\ k + 1 = 2 /\ k # 0
      BY <1>2, BytesOf, PortsOf DEF Reply
    <2> QED
      BY <1>2, <2>1, AfterICW2
  <1>3. CASE k = 2
    <2>1. Reply(d, PortFor(c, k), ByteFor(c, k)) = Data(d, CascadeOf(c)) /\ k + 1 = 3 /\ k # 0
      BY <1>3, BytesOf, PortsOf DEF Reply
    <2> QED
      BY <1>3, <2>1, AfterICW3
  <1>4. CASE k = 3
    <2>1. Reply(d, PortFor(c, k), ByteFor(c, k)) = Data(d, ModeOf(c)) /\ k + 1 = 4 /\ k # 0
      BY <1>4, BytesOf, PortsOf DEF Reply
    <2> QED
      BY <1>4, <2>1, AfterICW4
  <1>5. CASE k = 4
    <2>1. Reply(d, PortFor(c, k), ByteFor(c, k)) = Command(d, 11) /\ k + 1 = 5 /\ k # 0
      BY <1>5, BytesOf, PortsOf DEF Reply
    <2> QED
      BY <1>5, <2>1, AfterOCW3
  <1>6. k \in {0, 1, 2, 3, 4}
    BY SMT
  <1> QED
    BY <1>1, <1>2, <1>3, <1>4, <1>5, <1>6

\* The part and step after the n-th of the port writes.
PartAfter(n) == IF n < 10 THEN "pic" ELSE "idt"
StepAfter(n) == IF n < 10 THEN n + 1 ELSE 1

\* What a port write is for: the next byte of one chip.
TurnOf(n, c, o, k) ==
    /\ c # o
    /\ PortWrites[n] = <<PortFor(c, k), ByteFor(c, k)>>
    /\ DoneAt("pic", n, c) = k /\ DoneAt(PartAfter(n), StepAfter(n), c) = k + 1
    /\ DoneAt(PartAfter(n), StepAfter(n), o) = DoneAt("pic", n, o)

LEMMA Turn ==
  ASSUME NEW n \in 1 .. 10
  PROVE  \E c, o \in ChipNames, k \in 0 .. 4 : TurnOf(n, c, o, k)
  <1> DEFINE m == "master"
             s == "slave"
  <1>1. m \in ChipNames /\ s \in ChipNames
    BY DEF ChipNames
  <1>2. 0 \in 0 .. 4 /\ 1 \in 0 .. 4 /\ 2 \in 0 .. 4 /\ 3 \in 0 .. 4 /\ 4 \in 0 .. 4
    BY SMT
  <1> USE BytesOf, PortList DEF TurnOf, PortFor, BaseOf, CascadeOf, ModeOf, DoneAt, PartAfter,
                                StepAfter
  <1>3. TurnOf(1, m, s, 0)
    BY SMT
  <1>4. TurnOf(2, s, m, 0)
    BY SMT
  <1>5. TurnOf(3, m, s, 1)
    BY SMT
  <1>6. TurnOf(4, s, m, 1)
    BY SMT
  <1>7. TurnOf(5, m, s, 2)
    BY SMT
  <1>8. TurnOf(6, s, m, 2)
    BY SMT
  <1>9. TurnOf(7, m, s, 3)
    BY SMT
  <1>10. TurnOf(8, s, m, 3)
    BY SMT
  <1>11. TurnOf(9, m, s, 4)
    BY SMT
  <1>12. TurnOf(10, s, m, 4)
    BY SMT
  <1> HIDE BytesOf, PortList DEF TurnOf, PortFor, BaseOf, CascadeOf, ModeOf, DoneAt, PartAfter,
                                 StepAfter, m, s
  <1>13. n \in {1, 2, 3, 4, 5, 6, 7, 8, 9, 10}
    BY SMT
  <1> QED
    BY <1>1, <1>2, <1>3, <1>4, <1>5, <1>6, <1>7, <1>8, <1>9, <1>10, <1>11, <1>12, <1>13, Zenon

LEMMA PortsAndBytes ==
  ASSUME NEW c \in ChipNames, NEW k \in 0 .. 4
  PROVE  ChipOf(PortFor(c, k)) = c /\ (ByteFor(c, k) = ICW1 <=> k = 0)
  <1>1. ChipOf(PortFor(c, k)) = c
    BY SMT DEF ChipOf, PortFor, ChipNames
  <1>2. k \in {0, 1, 2, 3, 4}
    BY SMT
  <1>3. /\ BaseOf(c) # 17 /\ CascadeOf(c) # 17 /\ ModeOf(c) # 17
    BY SMT DEF BaseOf, CascadeOf, ModeOf
  <1>4. ByteFor(c, k) = ICW1 <=> k = 0
    BY <1>2, <1>3, BytesOf, SMT DEF ICW1
  <1> QED
    BY <1>1, <1>4

LEMMA Lines ==
  ASSUME NEW c \in ChipNames, NEW o \in ChipNames, c # o
  PROVE  LinesOf(c) \cap LinesOf(o) = {}
  BY SMT DEF ChipNames, LinesOf, MasterLine, SlaveLine

-----------------------------------------------------------------------------
(* The steps. *)

LEMMA ChipNow ==
  ASSUME Inv, NEW c \in ChipNames
  PROVE  Programming(c, chip[c], DoneAt(pc, i, c), requested \cap LinesOf(c))
  BY Zenon DEF Inv, Chips

LEMMA ChipDomain == Inv => DOMAIN chip = ChipNames
  BY Zenon DEF Inv, Chips

LEMMA ChipsPicOutb == Inv /\ PicOutb => Chips'
  <1> SUFFICES ASSUME Inv, PicOutb PROVE Chips'
    OBVIOUS
  <1>1. pc = "pic" /\ i \in 1 .. 10
    BY Zenon DEF PicOutb, Inv, Ranges
  <1>2. PICK c, o \in ChipNames, k \in 0 .. 4 : TurnOf(i, c, o, k)
    BY <1>1, Turn
  <1> DEFINE port == PortFor(c, k)
             mine == requested \cap LinesOf(c)
             d == chip[c]
             e == Reply(d, port, ByteFor(c, k))
  <1>3. PortWrites[i][1] = port /\ PortWrites[i][2] = ByteFor(c, k)
    BY <1>2 DEF TurnOf
  <1>4. ChipOf(port) = c /\ (ByteFor(c, k) = ICW1 <=> k = 0)
    BY PortsAndBytes
  <1>5. chip' = [chip EXCEPT ![c] = e]
    BY <1>3, <1>4, Zenon DEF PicOutb, Reply
  <1>6. requested' = IF k = 0 THEN requested \ LinesOf(c) ELSE requested
    <2>1. PortWrites[i] = <<port, ICW1>> <=> k = 0
      BY <1>2, <1>4, SMT DEF TurnOf
    <2> QED
      BY <2>1, <1>3, <1>4, Zenon DEF PicOutb
  <1>7. pc' = PartAfter(i) /\ i' = StepAfter(i)
    BY <1>1, PortList, Zenon DEF PicOutb, Advance, PartAfter, StepAfter
  <1>8. DOMAIN chip = ChipNames /\ Programming(c, d, k, mine)
    BY <1>1, <1>2, ChipNow, ChipDomain, Zenon DEF TurnOf
  <1>9. Programming(c, e, k + 1, IF k = 0 THEN {} ELSE mine)
    BY <1>8, NextByte
  <1> HIDE DEF e, port
  <1>10. requested' \cap LinesOf(c) = IF k = 0 THEN {} ELSE mine
    BY <1>6, Zenon
  <1>11. chip'[c] = e /\ chip'[o] = chip[o] /\ DOMAIN chip' = ChipNames
    BY <1>2, <1>5, <1>8, Zenon DEF TurnOf
  <1>12. requested' \cap LinesOf(o) = requested \cap LinesOf(o)
    <2>1. LinesOf(c) \cap LinesOf(o) = {}
      BY <1>2, Lines DEF TurnOf
    <2> QED
      BY <2>1, <1>6, SMT
  <1>13. Programming(c, chip'[c], DoneAt(pc', i', c), requested' \cap LinesOf(c))
    BY <1>2, <1>7, <1>9, <1>10, <1>11, Zenon DEF TurnOf
  <1>14. Programming(o, chip'[o], DoneAt(pc', i', o), requested' \cap LinesOf(o))
    BY <1>1, <1>2, <1>7, <1>11, <1>12, ChipNow, Zenon DEF TurnOf
  <1>15. \A x \in ChipNames : x = c \/ x = o
    BY <1>2 DEF ChipNames, TurnOf
  <1> QED
    BY <1>11, <1>13, <1>14, <1>15, Zenon DEF Chips

LEMMA ChipsRaise ==
  ASSUME NEW q, Inv, Raise(q) PROVE Chips'
  <1>1. PICK c \in ChipNames : /\ q \in LinesOf(c)
                               /\ chip' = [chip EXCEPT ![c].irr = @ \union {q}]
    BY DEF Raise, ChipNames
  <1>2. requested' = requested \union {q} /\ pc' = pc /\ i' = i
    BY DEF Raise
  <1>3. DOMAIN chip = ChipNames
    BY ChipDomain
  <1> SUFFICES ASSUME NEW x \in ChipNames
               PROVE  Programming(x, chip'[x], DoneAt(pc, i, x), requested' \cap LinesOf(x))
    BY <1>1, <1>2, <1>3 DEF Chips
  <1> DEFINE mine == requested \cap LinesOf(x)
             k == DoneAt(pc, i, x)
  <1>4. Programming(x, chip[x], k, mine)
    BY ChipNow
  <1>5. CASE x = c
    <2> DEFINE d == chip[x]
               e == chip'[x]
    <2>1. e = [d EXCEPT !.irr = d.irr \union {q}]
      BY <1>1, <1>3, <1>5
    <2>2. IsChip(d) /\ d.imr \subseteq LinesOf(x) /\ d.irr \subseteq LinesOf(x)
      BY <1>4, Zenon DEF Programming
    <2>3. /\ e = [expect |-> d.expect, icw4 |-> d.icw4, mode |-> d.mode, read |-> d.read,
                  base |-> d.base, cascade |-> d.cascade, imr |-> d.imr,
                  irr |-> d.irr \union {q}]
      BY <2>1, <2>2 DEF IsChip
    <2> HIDE DEF e, d, k
    <2>4. /\ IsChip(e) /\ e.imr = d.imr /\ e.irr = d.irr \union {q} /\ e.base = d.base
          /\ e.expect = d.expect /\ e.icw4 = d.icw4 /\ e.cascade = d.cascade
          /\ e.mode = d.mode /\ e.read = d.read
      BY <2>3, SMT DEF IsChip
    <2>5. requested' \cap LinesOf(x) = mine \union {q}
      BY <1>1, <1>2, <1>5, Zenon
    <2>6. e.irr \subseteq LinesOf(x)
      BY <1>1, <1>5, <2>2, <2>4, Zenon
    <2>7. Programming(x, d, k, mine)
      BY <1>4 DEF d, k
    <2> HIDE DEF mine
    <2>8. Programming(x, e, k, mine \union {q})
      BY <2>4, <2>6, <2>7, Zenon DEF Programming
    <2> QED
      BY <2>5, <2>8 DEF e, k
  <1>6. CASE x # c
    <2>1. chip'[x] = chip[x]
      BY <1>1, <1>3, <1>6
    <2>2. requested' \cap LinesOf(x) = mine
      <3>1. q \notin LinesOf(x)
        BY <1>1, <1>6, Lines
      <3> QED
        BY <3>1, <1>2, Zenon
    <2> QED
      BY <1>4, <2>1, <2>2
  <1> QED
    BY <1>5, <1>6

Segment3(u, t, l) == [ucode |-> u, tss |-> t, ldt |-> l]

\* The parts of the invariant that a step has nothing to do with.
LEMMA ChipsStay ==
  ASSUME Inv, UNCHANGED <<chip, requested>>,
         \A c \in ChipNames : DoneAt(pc', i', c) = DoneAt(pc, i, c)
  PROVE  Chips'
  <1>1. Chips
    BY Zenon DEF Inv
  <1> QED
    BY <1>1, Zenon DEF Chips

LEMMA SegmentsStay ==
  ASSUME Inv, UNCHANGED descriptors, \A k \in {1, 3} : SegmentsUpTo(k)' => SegmentsUpTo(k)
  PROVE  Descriptors' /\ TablesReached'
  <1>1. Descriptors /\ TablesReached /\ gdt' = gdt /\ tr' = tr /\ ldtr' = ldtr
    BY Zenon DEF Inv, descriptors
  <1>2. TablesReached'
    BY <1>1, Zenon DEF TablesReached, Present, Base
  <1>3. (SegmentsUpTo(1)' => SegmentsUpTo(1)) /\ (SegmentsUpTo(3)' => SegmentsUpTo(3))
    BY Zenon
  <1>4. /\ gdt' = Segment3(gdt'.ucode, gdt'.tss, gdt'.ldt)
        /\ IsDescriptor(gdt'.tss) /\ IsDescriptor(gdt'.ldt) /\ gdt'.ucode.access = 219
    BY <1>1 DEF Descriptors, Segment3
  <1>5. /\ SegmentsUpTo(1)' => Base(gdt'.tss) = Tss
        /\ SegmentsUpTo(3)' => Base(gdt'.ldt) = Ldt
    BY <1>1, <1>3, Zenon DEF Descriptors
  <1> QED
    BY <1>2, <1>4, <1>5, Zenon DEF Descriptors, Segment3, IsDescriptor, Base

LEMMA ExceptionWritten ==
  ASSUME Gates, NEW v \in 0 .. 14, GatesUpTo(v + 1)
  PROVE  v \in DOMAIN idt /\ idt[v].stub = <<"except", v>>
  BY DEF Gates

LEMMA IrqWritten ==
  ASSUME Gates, GatesUpTo(16)
  PROVE  IRQ_BASE \in DOMAIN idt /\ idt[IRQ_BASE].stub[1] = "irq"
  BY DEF Gates

LEMMA GatesStay ==
  ASSUME Inv, UNCHANGED idt, \A k \in 1 .. 16 : GatesUpTo(k)' => GatesUpTo(k)
  PROVE  Gates'
  <1>1. Gates /\ idt' = idt
    BY Zenon DEF Inv
  <1>2. 16 \in 1 .. 16 /\ \A v \in 0 .. 14 : v + 1 \in 1 .. 16
    BY SMT
  <1>3. ASSUME NEW v \in 0 .. 14, GatesUpTo(v + 1)'
        PROVE  v \in DOMAIN idt /\ idt[v].stub = <<"except", v>>
    BY <1>1, <1>2, <1>3, ExceptionWritten, Zenon
  <1>4. GatesUpTo(16)' => IRQ_BASE \in DOMAIN idt /\ idt[IRQ_BASE].stub[1] = "irq"
    BY <1>1, <1>2, IrqWritten, Zenon
  <1> QED
    BY <1>1, <1>3, <1>4 DEF Gates

\* AppendAddress takes an address apart and Base puts it together again.
LEMMA AddressWhole ==
  ASSUME NEW x \in Int
  PROVE  256 * (x \div 256) + (x % 256) = x
  BY SMT

\* What AppendAddress makes of a descriptor, and the three descriptors.
Fields(acc, b0, b1, b2) == [access |-> acc, base0 |-> b0, base1 |-> b1, base2 |-> b2]
Filled(d, a) == Fields(d.access, a[2], a[1] % 256, a[1] \div 256)
Put0(g, entry, x) == [g EXCEPT ![entry].base0 = x]
Put1(g, entry, x) == [g EXCEPT ![entry].base1 = x]
Put2(g, entry, x) == [g EXCEPT ![entry].base2 = x]

LEMMA Pair ==
  ASSUME NEW a \in Nat \X Nat
  PROVE  a[1] \in Int /\ a = <<a[1], a[2]>>
  BY SMT

LEMMA FilledBase ==
  ASSUME NEW d, NEW a \in Nat \X Nat
  PROVE  IsDescriptor(Filled(d, a)) /\ Base(Filled(d, a)) = a
  <1>1. IsDescriptor(Filled(d, a))
    BY DEF IsDescriptor, Filled, Fields
  <1>2. a[1] \in Int /\ a = <<a[1], a[2]>>
    BY Pair
  <1>3. 256 * (a[1] \div 256) + (a[1] % 256) = a[1]
    BY <1>2, AddressWhole, Zenon
  <1> PICK low, middle, high : low = a[2] /\ middle = a[1] % 256 /\ high = a[1] \div 256
    BY Zenon
  <1>4. Base(Fields(d.access, low, middle, high)) = <<256 * high + middle, low>>
    BY DEF Base, Fields
  <1> QED
    BY <1>1, <1>2, <1>3, <1>4 DEF Filled

LEMMA StoredTss0 ==
  ASSUME NEW g, NEW u, NEW l, NEW acc, NEW b0, NEW b1, NEW b2, NEW x,
         g = Segment3(u, Fields(acc, b0, b1, b2), l)
  PROVE  Put0(g, "tss", x) = Segment3(u, Fields(acc, x, b1, b2), l)
  BY DEF Segment3, Fields, Put0, Put1, Put2

LEMMA StoredTss1 ==
  ASSUME NEW g, NEW u, NEW l, NEW acc, NEW b0, NEW b1, NEW b2, NEW x,
         g = Segment3(u, Fields(acc, b0, b1, b2), l)
  PROVE  Put1(g, "tss", x) = Segment3(u, Fields(acc, b0, x, b2), l)
  BY DEF Segment3, Fields, Put0, Put1, Put2

LEMMA StoredTss2 ==
  ASSUME NEW g, NEW u, NEW l, NEW acc, NEW b0, NEW b1, NEW b2, NEW x,
         g = Segment3(u, Fields(acc, b0, b1, b2), l)
  PROVE  Put2(g, "tss", x) = Segment3(u, Fields(acc, b0, b1, x), l)
  BY DEF Segment3, Fields, Put0, Put1, Put2

LEMMA AppendedTss ==
  ASSUME Descriptors, NEW a
  PROVE  AppendAddress("tss", a) = Segment3(gdt.ucode, Filled(gdt.tss, a), gdt.ldt)
  <1> PICK u : u = gdt.ucode
    OBVIOUS
  <1> PICK l : l = gdt.ldt
    OBVIOUS
  <1> PICK d : d = gdt.tss
    OBVIOUS
  <1> PICK acc, b0, b1, b2 : acc = d.access /\ b0 = d.base0 /\ b1 = d.base1 /\ b2 = d.base2
    BY Zenon
  <1>0. gdt = Segment3(u, Fields(acc, b0, b1, b2), l)
    <2>1. gdt = Segment3(u, d, l) /\ IsDescriptor(d)
      BY Zenon DEF Descriptors, Segment3
    <2>2. d = Fields(acc, b0, b1, b2)
      BY <2>1, Zenon DEF IsDescriptor, Fields
    <2> QED
      BY <2>1, <2>2, Zenon
  <1> PICK low, middle, high : low = a[2] /\ middle = a[1] % 256 /\ high = a[1] \div 256
    BY Zenon
  <1> DEFINE e1 == Put0(gdt, "tss", low)
             e2 == Put1(e1, "tss", middle)
             e3 == Put2(e2, "tss", high)
  <1>1. e1 = Segment3(u, Fields(acc, low, b1, b2), l)
    BY <1>0, StoredTss0
  <1>2. e2 = Segment3(u, Fields(acc, low, middle, b2), l)
    BY <1>1, StoredTss1
  <1>3. e3 = Segment3(u, Fields(acc, low, middle, high), l)
    BY <1>2, StoredTss2
  <1>4. AppendAddress("tss", a) = e3
    BY Zenon DEF AppendAddress, Put0, Put1, Put2
  <1> HIDE DEF e3
  <1> QED
    BY <1>3, <1>4 DEF Filled

LEMMA StoredLdt0 ==
  ASSUME NEW g, NEW u, NEW l, NEW acc, NEW b0, NEW b1, NEW b2, NEW x,
         g = Segment3(u, l, Fields(acc, b0, b1, b2))
  PROVE  Put0(g, "ldt", x) = Segment3(u, l, Fields(acc, x, b1, b2))
  BY DEF Segment3, Fields, Put0, Put1, Put2

LEMMA StoredLdt1 ==
  ASSUME NEW g, NEW u, NEW l, NEW acc, NEW b0, NEW b1, NEW b2, NEW x,
         g = Segment3(u, l, Fields(acc, b0, b1, b2))
  PROVE  Put1(g, "ldt", x) = Segment3(u, l, Fields(acc, b0, x, b2))
  BY DEF Segment3, Fields, Put0, Put1, Put2

LEMMA StoredLdt2 ==
  ASSUME NEW g, NEW u, NEW l, NEW acc, NEW b0, NEW b1, NEW b2, NEW x,
         g = Segment3(u, l, Fields(acc, b0, b1, b2))
  PROVE  Put2(g, "ldt", x) = Segment3(u, l, Fields(acc, b0, b1, x))
  BY DEF Segment3, Fields, Put0, Put1, Put2

LEMMA AppendedLdt ==
  ASSUME Descriptors, NEW a
  PROVE  AppendAddress("ldt", a) = Segment3(gdt.ucode, gdt.tss, Filled(gdt.ldt, a))
  <1> PICK u : u = gdt.ucode
    OBVIOUS
  <1> PICK l : l = gdt.tss
    OBVIOUS
  <1> PICK d : d = gdt.ldt
    OBVIOUS
  <1> PICK acc, b0, b1, b2 : acc = d.access /\ b0 = d.base0 /\ b1 = d.base1 /\ b2 = d.base2
    BY Zenon
  <1>0. gdt = Segment3(u, l, Fields(acc, b0, b1, b2))
    <2>1. gdt = Segment3(u, l, d) /\ IsDescriptor(d)
      BY Zenon DEF Descriptors, Segment3
    <2>2. d = Fields(acc, b0, b1, b2)
      BY <2>1, Zenon DEF IsDescriptor, Fields
    <2> QED
      BY <2>1, <2>2, Zenon
  <1> PICK low, middle, high : low = a[2] /\ middle = a[1] % 256 /\ high = a[1] \div 256
    BY Zenon
  <1> DEFINE e1 == Put0(gdt, "ldt", low)
             e2 == Put1(e1, "ldt", middle)
             e3 == Put2(e2, "ldt", high)
  <1>1. e1 = Segment3(u, l, Fields(acc, low, b1, b2))
    BY <1>0, StoredLdt0
  <1>2. e2 = Segment3(u, l, Fields(acc, low, middle, b2))
    BY <1>1, StoredLdt1
  <1>3. e3 = Segment3(u, l, Fields(acc, low, middle, high))
    BY <1>2, StoredLdt2
  <1>4. AppendAddress("ldt", a) = e3
    BY Zenon DEF AppendAddress, Put0, Put1, Put2
  <1> HIDE DEF e3
  <1> QED
    BY <1>3, <1>4 DEF Filled

LEMMA Addresses == Tss \in Nat \X Nat /\ Ldt \in Nat \X Nat
  <1>1. Word \subseteq Nat
    BY SMT DEF Word
  <1>2. Tss \in Word \X Word /\ Ldt \in Word \X Word
    BY KernelInitAssumption, Zenon DEF KernelInitAssumption
  <1> QED
    BY <1>1, <1>2

\* Where the loop over the segment steps goes, and what has been done by then.
LEMMA SegmentsAdvance ==
  ASSUME Inv, Segments
  PROVE  /\ i \in {1, 2, 3, 4}
         /\ i = 1 => (SegmentsUpTo(3)' <=> FALSE)
         /\ i = 2 => SegmentsUpTo(1) /\ (SegmentsUpTo(3)' <=> FALSE)
         /\ i = 3 => SegmentsUpTo(1)
         /\ i = 4 => SegmentsUpTo(1) /\ SegmentsUpTo(3)
  <1>1. pc = "segments" /\ i \in 1 .. 4
    BY Zenon DEF Segments, Inv, Ranges
  <1>2. Advance(4, "pic", 1)
    BY SegmentList, Zenon DEF Segments
  <1> QED
    BY <1>1, <1>2, SMT DEF Advance, SegmentsUpTo

LEMMA SegmentsStep ==
  ASSUME Inv, Segments PROVE Descriptors' /\ TablesReached'
  <1>1. Descriptors /\ TablesReached
    BY Zenon DEF Inv
  <1>2. /\ gdt = Segment3(gdt.ucode, gdt.tss, gdt.ldt)
        /\ IsDescriptor(gdt.tss) /\ IsDescriptor(gdt.ldt) /\ gdt.ucode.access = 219
        /\ SegmentsUpTo(1) => Base(gdt.tss) = Tss
        /\ SegmentsUpTo(3) => Base(gdt.ldt) = Ldt
    BY <1>1, Zenon DEF Descriptors, Segment3
  <1>3. ASSUME NEW u, NEW t, NEW l, gdt' = Segment3(u, t, l)
        PROVE  gdt'.ucode = u /\ gdt'.tss = t /\ gdt'.ldt = l
    BY <1>3, SMT DEF Segment3
  <1>4. CASE i = 1
    <2>1. gdt' = Segment3(gdt.ucode, Filled(gdt.tss, Tss), gdt.ldt) /\ tr' = tr /\ ldtr' = ldtr
      <3>1. gdt' = AppendAddress("tss", Tss) /\ tr' = tr /\ ldtr' = ldtr
        BY <1>4, SegmentList DEF Segments
      <3> QED
        BY <1>1, <3>1, AppendedTss, Zenon
    <2>2. gdt'.ucode = gdt.ucode /\ gdt'.tss = Filled(gdt.tss, Tss) /\ gdt'.ldt = gdt.ldt
      BY <1>3, <2>1
    <2>3. IsDescriptor(gdt'.tss) /\ Base(gdt'.tss) = Tss
      BY <2>2, FilledBase, Addresses, Zenon
    <2>4. ~SegmentsUpTo(3)'
      BY <1>4, SegmentsAdvance
    <2>5. Descriptors'
      BY <1>2, <2>1, <2>2, <2>3, <2>4, Zenon DEF Descriptors, Segment3, IsDescriptor
    <2> QED
      BY <1>1, <2>1, <2>5, Zenon DEF TablesReached, Present, Base
  <1>5. CASE i = 2
    <2>1. gdt' = gdt /\ tr' = gdt.tss /\ ldtr' = ldtr
      BY <1>5, SegmentList DEF Segments
    <2>2. SegmentsUpTo(1) /\ ~SegmentsUpTo(3)'
      BY <1>5, SegmentsAdvance
    <2>3. Base(tr') = Tss
      BY <1>2, <2>1, <2>2, Zenon DEF Base
    <2>4. Descriptors'
      BY <1>2, <2>1, <2>2, Zenon DEF Descriptors, Segment3, IsDescriptor, Base
    <2> QED
      BY <1>1, <2>1, <2>3, <2>4, Zenon DEF TablesReached, Present, Base
  <1>6. CASE i = 3
    <2>1. gdt' = Segment3(gdt.ucode, gdt.tss, Filled(gdt.ldt, Ldt)) /\ tr' = tr /\ ldtr' = ldtr
      <3>1. gdt' = AppendAddress("ldt", Ldt) /\ tr' = tr /\ ldtr' = ldtr
        BY <1>6, SegmentList DEF Segments
      <3> QED
        BY <1>1, <3>1, AppendedLdt, Zenon
    <2>2. gdt'.ucode = gdt.ucode /\ gdt'.ldt = Filled(gdt.ldt, Ldt) /\ gdt'.tss = gdt.tss
      BY <1>3, <2>1
    <2>3. IsDescriptor(gdt'.ldt) /\ Base(gdt'.ldt) = Ldt
      BY <2>2, FilledBase, Addresses, Zenon
    <2>4. SegmentsUpTo(1)
      BY <1>6, SegmentsAdvance
    <2>5. Descriptors'
      BY <1>2, <2>1, <2>2, <2>3, <2>4, Zenon DEF Descriptors, Segment3, IsDescriptor, Base
    <2> QED
      BY <1>1, <2>1, <2>5, Zenon DEF TablesReached, Present, Base
  <1>7. CASE i = 4
    <2>1. gdt' = gdt /\ tr' = tr /\ ldtr' = gdt.ldt
      BY <1>7, SegmentList DEF Segments
    <2>2. SegmentsUpTo(1) /\ SegmentsUpTo(3)
      BY <1>7, SegmentsAdvance
    <2>3. Base(ldtr') = Ldt
      BY <1>2, <2>1, <2>2, Zenon DEF Base
    <2>4. Descriptors'
      BY <1>2, <2>1, <2>2, Zenon DEF Descriptors, Segment3, IsDescriptor, Base
    <2> QED
      BY <1>1, <2>1, <2>3, <2>4, Zenon DEF TablesReached, Present, Base
  <1>8. i \in {1, 2, 3, 4}
    BY SegmentsAdvance
  <1> QED
    BY <1>4, <1>5, <1>6, <1>7, <1>8

\* Which parts of the invariant the loop variables are in.
LEMMA RangesStep == Inv /\ [SetupNext]_setupVars => Ranges'
  <1> SUFFICES ASSUME Inv, [SetupNext]_setupVars PROVE Ranges'
    OBVIOUS
  <1>1. Ranges
    BY Zenon DEF Inv
  <1>2. CASE Segments
    <2>1. pc = "segments" /\ i \in 1 .. 4 /\ Advance(4, "pic", 1)
      BY <1>1, <1>2, SegmentList, Zenon DEF Segments, Ranges
    <2> QED
      BY <2>1, SMT DEF Advance, Ranges
  <1>3. CASE PicOutb
    <2>1. pc = "pic" /\ i \in 1 .. 10 /\ Advance(10, "idt", 1)
      BY <1>1, <1>3, PortList, Zenon DEF PicOutb, Ranges
    <2> QED
      BY <2>1, SMT DEF Advance, Ranges
  <1>4. CASE WriteGate
    <2>1. pc = "idt" /\ i \in 1 .. 31 /\ Advance(31, "ready", 1)
      BY <1>1, <1>4, GateList, Zenon DEF WriteGate, Ranges
    <2> QED
      BY <2>1, SMT DEF Advance, Ranges
  <1>5. CASE ConfigurePIT
    <2>1. pc = "pit" /\ i \in 1 .. 3 /\ Advance(3, "reflect", 49)
      BY <1>1, <1>5, PitList, Zenon DEF ConfigurePIT, Ranges, ReflectFrom, DPMI_VECTOR
    <2> QED
      BY <2>1, SMT DEF Advance, Ranges
  <1>6. CASE Reflect
    <2>1. pc = "reflect" /\ i \in 49 .. 207
      BY <1>1, <1>6, Zenon DEF Reflect, Ranges
    <2>2. ReflectBound = 207
      BY SMT DEF ReflectBound, DPMI_VECTOR
    <2>3. \/ i < 207 /\ i' = (i + 1) % 256 /\ pc' = "reflect"
          \/ i' = i /\ pc' = "user"
      BY <1>6, <2>2 DEF Reflect
    <2>4. i' \in 49 .. 207 /\ pc' \in {"reflect", "user"}
      BY <2>1, <2>3, SMT
    <2> QED
      BY <2>4, Zenon DEF Ranges
  <1>7. CASE InitScheduler
    BY <1>1, <1>7, SMT DEF InitScheduler, Ranges
  <1>8. CASE UNCHANGED <<pc, i>>
    BY <1>1, <1>8 DEF Ranges
  <1>12. CASE Begin
    BY <1>1, <1>12, SMT DEF Begin, Ranges
  <1>9. (\E q \in Line : Raise(q)) => UNCHANGED <<pc, i>>
    BY Zenon DEF Raise
  <1>10. (\E v \in Called : CallInt(v)) => UNCHANGED <<pc, i>>
    BY Zenon DEF CallInt
  <1>11. UNCHANGED setupVars => UNCHANGED <<pc, i>>
    BY Zenon DEF setupVars
  <1> QED
    BY <1>2, <1>3, <1>4, <1>5, <1>6, <1>7, <1>8, <1>9, <1>10, <1>11, <1>12, Zenon
       DEF SetupNext, SetupStep

\* Which gate FillIDT writes at a step.
LEMMA GateAt ==
  ASSUME NEW n \in 1 .. 31
  PROVE  \/ n \in 1 .. 15 /\ FillIDT[n] = <<n - 1, ExceptionGate(n - 1)>>
         \/ n \in 16 .. 31 /\ FillIDT[n] = <<IRQ_BASE, IrqGate(n - 16)>>
  <1>1. CASE n < 16
    <2>1. n \in 1 .. 15
      BY <1>1, SMT
    <2> QED
      BY <2>1, GateList, Zenon
  <1>2. CASE n >= 16
    <2>1. PICK k \in 1 .. 16 : n = 15 + k /\ k - 1 = n - 16
      <3>1. n - 15 \in 1 .. 16 /\ n = 15 + (n - 15) /\ (n - 15) - 1 = n - 16
        BY <1>2, SMT
      <3> QED
        BY <3>1
    <2>2. n \in 16 .. 31
      BY <1>2, SMT
    <2> QED
      BY <2>1, <2>2, GateList, Zenon
  <1>3. n < 16 \/ n >= 16
    BY SMT
  <1> QED
    BY <1>1, <1>2, <1>3

GateOf(n, v, g) ==
    /\ FillIDT[n] = <<v, g>>
    /\ v \in Byte /\ g.attr = 142
    /\ v \in 0 .. 14 => g.stub = <<"except", v>>
    /\ v = IRQ_BASE => g.stub[1] = "irq"
    /\ n \in 1 .. 15 => v = n - 1
    /\ n \in 16 .. 31 => v = IRQ_BASE

LEMMA GatesWrite ==
  ASSUME Inv, WriteGate PROVE Gates'
  <1>1. pc = "idt" /\ i \in 1 .. 31 /\ Gates
    BY Zenon DEF WriteGate, Inv, Ranges
  <1>2. \A k \in 1 .. 16 : GatesUpTo(k)' => GatesUpTo(k) \/ k = i
    <2>1. Advance(31, "ready", 1)
      BY GateList, Zenon DEF WriteGate
    <2> QED
      BY <1>1, <2>1, SMT DEF Advance, GatesUpTo
  <1>3. PICK v, g : GateOf(i, v, g)
    <2>1. CASE i \in 1 .. 15 /\ FillIDT[i] = <<i - 1, ExceptionGate(i - 1)>>
      <3>1. i - 1 \in Byte /\ i - 1 # IRQ_BASE /\ i \notin 16 .. 31
        BY <2>1, SMT DEF Byte, IRQ_BASE
      <3>2. ExceptionGate(i - 1).attr = 142 /\ ExceptionGate(i - 1).stub = <<"except", i - 1>>
        BY Zenon DEF ExceptionGate
      <3>3. GateOf(i, i - 1, ExceptionGate(i - 1))
        BY <2>1, <3>1, <3>2 DEF GateOf
      <3> QED
        BY <3>3
    <2>2. CASE i \in 16 .. 31 /\ FillIDT[i] = <<IRQ_BASE, IrqGate(i - 16)>>
      <3>1. IRQ_BASE \in Byte /\ IRQ_BASE \notin 0 .. 14 /\ i \notin 1 .. 15
        BY <2>2, SMT DEF Byte, IRQ_BASE
      <3>2. IrqGate(i - 16).attr = 142 /\ IrqGate(i - 16).stub[1] = "irq"
        BY DEF IrqGate
      <3>3. GateOf(i, IRQ_BASE, IrqGate(i - 16))
        BY <2>2, <3>1, <3>2 DEF GateOf
      <3> QED
        BY <3>3
    <2> QED
      BY <1>1, <2>1, <2>2, GateAt
  <1>4. idt' = SetIntVector(v, g)
    BY <1>3 DEF WriteGate, GateOf
  <1>5. /\ DOMAIN idt' = DOMAIN idt \union {v}
        /\ idt'[v] = g
        /\ \A w \in DOMAIN idt : w # v => idt'[w] = idt[w]
    BY <1>4, Zenon DEF SetIntVector
  <1>6. DOMAIN idt' \subseteq Byte /\ \A w \in DOMAIN idt' : idt'[w].attr = 142
    <2>1. v \in Byte /\ g.attr = 142
      BY <1>3 DEF GateOf
    <2> QED
      BY <1>1, <2>1, <1>5 DEF Gates
  <1>7. ASSUME NEW w \in 0 .. 14, GatesUpTo(w + 1)'
        PROVE  w \in DOMAIN idt' /\ idt'[w].stub = <<"except", w>>
    <2>1. w + 1 \in 1 .. 16 /\ (w + 1 = i => i \in 1 .. 15 /\ i - 1 = w)
      BY SMT
    <2>2. GatesUpTo(w + 1) \/ v = w
      BY <1>2, <1>3, <1>7, <2>1 DEF GateOf
    <2>3. v = w => g.stub = <<"except", w>>
      BY <1>3 DEF GateOf
    <2>4. GatesUpTo(w + 1) => w \in DOMAIN idt /\ idt[w].stub = <<"except", w>>
      BY <1>1, ExceptionWritten
    <2> QED
      BY <1>5, <2>2, <2>3, <2>4, Zenon
  <1>8. ASSUME GatesUpTo(16)'
        PROVE  IRQ_BASE \in DOMAIN idt' /\ idt'[IRQ_BASE].stub[1] = "irq"
    <2>1. 16 \in 1 .. 16 /\ (16 = i => i \in 16 .. 31)
      BY SMT
    <2>2. GatesUpTo(16) \/ v = IRQ_BASE
      BY <1>2, <1>3, <1>8, <2>1 DEF GateOf
    <2>3. v = IRQ_BASE => g.stub[1] = "irq"
      BY <1>3 DEF GateOf
    <2>4. GatesUpTo(16) => IRQ_BASE \in DOMAIN idt /\ idt[IRQ_BASE].stub[1] = "irq"
      BY <1>1, IrqWritten, Zenon
    <2> QED
      BY <1>5, <2>2, <2>3, <2>4, Zenon
  <1> QED
    BY <1>6, <1>7, <1>8, Zenon DEF Gates

\* The reflection loop writes its gates behind those of the exceptions and IRQs.
LEMMA GatesReflect ==
  ASSUME Inv, Reflect PROVE Gates'
  <1>1. pc = "reflect" /\ Gates
    BY Zenon DEF Reflect, Inv
  <1>2. pc' \in {"reflect", "user"}
    BY <1>1, Zenon DEF Reflect
  <1>3. \A k \in 1 .. 16 : GatesUpTo(k)
    BY <1>1, Zenon DEF GatesUpTo
  <1>4. CASE UNCHANGED idt
    BY <1>3, <1>4, GatesStay
  <1>5. CASE i < ReflectBound /\ idt' = SetIntVector(i, MkTrapGate(0, <<"address", 0>>))
    <2> DEFINE g == MkTrapGate(0, <<"address", 0>>)
    <2>1. g.attr = 142
      BY SMT DEF MkTrapGate
    <2>2. i \in Byte /\ i \notin 0 .. 14 /\ i # IRQ_BASE
      <3>1. i \in 49 .. 207
        BY <1>1, Zenon DEF Inv, Ranges
      <3> QED
        BY <3>1, SMT DEF Byte, IRQ_BASE
    <2> HIDE DEF g
    <2>3. /\ DOMAIN idt' = DOMAIN idt \union {i}
          /\ idt'[i] = g
          /\ \A w \in DOMAIN idt : w # i => idt'[w] = idt[w]
      BY <1>5, Zenon DEF SetIntVector, g
    <2>4. DOMAIN idt' \subseteq Byte /\ \A w \in DOMAIN idt' : idt'[w].attr = 142
      BY <1>1, <2>1, <2>2, <2>3 DEF Gates
    <2>5. ASSUME NEW w \in 0 .. 14
          PROVE  w \in DOMAIN idt' /\ idt'[w].stub = <<"except", w>>
      <3>1. w + 1 \in 1 .. 16
        BY SMT
      <3>2. w \in DOMAIN idt /\ idt[w].stub = <<"except", w>>
        BY <1>1, <1>3, <3>1, ExceptionWritten, Zenon
      <3> QED
        BY <2>2, <2>3, <3>2, Zenon
    <2>6. IRQ_BASE \in DOMAIN idt' /\ idt'[IRQ_BASE].stub[1] = "irq"
      <3>1. 16 \in 1 .. 16
        BY SMT
      <3>2. IRQ_BASE \in DOMAIN idt /\ idt[IRQ_BASE].stub[1] = "irq"
        <4>1. GatesUpTo(16)
          BY <1>3, <3>1, Zenon
        <4> QED
          BY <1>1, <4>1 DEF Gates
      <3> QED
        BY <2>2, <2>3, <3>2, Zenon
    <2> QED
      BY <2>4, <2>5, <2>6, Zenon DEF Gates
  <1> QED
    BY <1>4, <1>5, Zenon DEF Reflect

IsChannel(p) == p = [both |-> p.both, half |-> p.half, low |-> p.low, count |-> p.count]

Channel(both, half, low, count) ==
    [both |-> both, half |-> half, low |-> low, count |-> count]

LEMMA ChannelFields ==
  ASSUME NEW p, NEW both, NEW half, NEW low, NEW count, p = Channel(both, half, low, count)
  PROVE  IsChannel(p) /\ p.both = both /\ p.half = half /\ p.low = low /\ p.count = count
  BY SMT DEF Channel, IsChannel

IsTrue(t) == t = TRUE

PutBoth(p, x, y) == [p EXCEPT !.both = x, !.half = y]
PutLow(p, x, y) == [p EXCEPT !.low = x, !.half = y]
PutCount(p, x, y) == [p EXCEPT !.count = x, !.half = y]

LEMMA BothSet ==
  ASSUME NEW p, NEW b, NEW h, NEW l, NEW c, p = Channel(b, h, l, c), NEW x, NEW y
  PROVE  PutBoth(p, x, y) = Channel(x, y, l, c)
  <1> DEFINE e == [p EXCEPT !.both = x, !.half = y]
  <1>1. DOMAIN e = {"both", "half", "low", "count"}
    BY SMT DEF Channel
  <1>2. e.both = x /\ e.half = y /\ e.low = l /\ e.count = c
    BY SMT DEF Channel
  <1>3. e = [f \in DOMAIN e |-> e[f]]
    BY Zenon
  <1> HIDE DEF e
  <1>4. e = Channel(x, y, l, c)
    BY <1>1, <1>2, <1>3, SMT DEF Channel
  <1> QED
    BY <1>4 DEF e, PutBoth

LEMMA LowSet ==
  ASSUME NEW p, NEW b, NEW h, NEW l, NEW c, p = Channel(b, h, l, c), NEW x, NEW y
  PROVE  PutLow(p, x, y) = Channel(b, y, x, c)
  <1> DEFINE e == [p EXCEPT !.low = x, !.half = y]
  <1>1. DOMAIN e = {"both", "half", "low", "count"}
    BY SMT DEF Channel
  <1>2. e.both = b /\ e.half = y /\ e.low = x /\ e.count = c
    BY SMT DEF Channel
  <1>3. e = [f \in DOMAIN e |-> e[f]]
    BY Zenon
  <1> HIDE DEF e
  <1>4. e = Channel(b, y, x, c)
    BY <1>1, <1>2, <1>3, SMT DEF Channel
  <1> QED
    BY <1>4 DEF e, PutLow

LEMMA CountSet ==
  ASSUME NEW p, NEW b, NEW h, NEW l, NEW c, p = Channel(b, h, l, c), NEW x, NEW y
  PROVE  PutCount(p, x, y) = Channel(b, y, l, x)
  <1> DEFINE e == [p EXCEPT !.count = x, !.half = y]
  <1>1. DOMAIN e = {"both", "half", "low", "count"}
    BY SMT DEF Channel
  <1>2. e.both = b /\ e.half = y /\ e.low = l /\ e.count = x
    BY SMT DEF Channel
  <1>3. e = [f \in DOMAIN e |-> e[f]]
    BY Zenon
  <1> HIDE DEF e
  <1>4. e = Channel(b, y, l, x)
    BY <1>1, <1>2, <1>3, SMT DEF Channel
  <1> QED
    BY <1>4 DEF e, PutCount

LEMMA InRange ==
  ASSUME NEW n \in Int, NEW x \in Int, 0 =< x, x =< n
  PROVE  x \in 0 .. n
  BY SMT

LEMMA CodeFits ==
  ASSUME NEW v \in Byte
  PROVE  8 * v + 2 \in Word
  <1> DEFINE code == 8 * v + 2
             max == 65535
  <1>1. code \in Int /\ 0 =< code /\ code =< max /\ max \in Int
    BY SMT DEF Byte
  <1>2. Word = 0 .. max
    BY DEF Word
  <1> HIDE DEF code, max
  <1>3. code \in Word
    BY <1>1, <1>2, InRange
  <1> QED
    BY <1>3 DEF code

LEMMA ChannelStep ==
  ASSUME Inv, ConfigurePIT PROVE Channel0'
  <1>1. pc = "pit" /\ i \in 1 .. 3 /\ Channel0
    BY Zenon DEF ConfigurePIT, Inv, Ranges
  <1>2. IsChannel(pit) /\ (i > 1 => pit.both) /\ (i = 2 => pit.half = "low")
        /\ (i = 3 => pit.half = "high" /\ pit.low = 176)
    BY <1>1 DEF Channel0, IsChannel
  <1> PICK b, h, l, c : b = pit.both /\ h = pit.half /\ l = pit.low /\ c = pit.count
    BY Zenon
  <1>0. pit = Channel(b, h, l, c)
    <2>1. IsChannel(pit)
      BY <1>2
    <2> QED
      BY <2>1, Zenon DEF IsChannel, Channel
  <1>3. Advance(3, "reflect", 49)
    BY PitList, Zenon DEF ConfigurePIT, ReflectFrom, DPMI_VECTOR
  <1>4. pit' = Timer(PitWrites[i][1], PitWrites[i][2])
    BY Zenon DEF ConfigurePIT
  <1>5. CASE i = 1
    <2>1. i' = 2 /\ pc' = "pit"
      BY <1>1, <1>3, <1>5, SMT DEF Advance
    <2>2. pit' = Timer(67, 54)
      BY <1>4, <1>5, PitList
    <2>3. Bits(54) \cap {4, 5} = {4, 5}
      BY BitsSent, Zenon
    <2>4. pit' = [pit EXCEPT !.both = TRUE, !.half = "low"]
      <3>1. Timer(67, 54) = [pit EXCEPT !.both = Bits(54) \cap {4, 5} = {4, 5}, !.half = "low"]
        BY SMT DEF Timer
      <3>2. (Bits(54) \cap {4, 5} = {4, 5}) = TRUE
        BY <2>3, Zenon
      <3> QED
        BY <2>2, <3>1, <3>2, Zenon
    <2> PICK t : IsTrue(t)
      BY Zenon DEF IsTrue
    <2>5. pit' = Channel(t, "low", l, c)
      <3>1. pit' = PutBoth(pit, t, "low")
        BY <2>4, Zenon DEF PutBoth, IsTrue
      <3> QED
        BY <1>0, <3>1, BothSet
    <2>6. IsChannel(pit') /\ pit'.both /\ pit'.half = "low"
      <3>1. IsChannel(pit') /\ pit'.both = t /\ pit'.half = "low"
        BY <2>5, ChannelFields
      <3> QED
        BY <3>1, Zenon DEF IsTrue
    <2> QED
      BY <2>1, <2>6, SMT DEF Channel0, IsChannel
  <1>6. CASE i = 2
    <2>1. i' = 3 /\ pc' = "pit"
      BY <1>1, <1>3, <1>6, SMT DEF Advance
    <2>2. pit' = Timer(64, 176)
      BY <1>4, <1>6, PitList
    <2>3. pit' = [pit EXCEPT !.low = 176, !.half = "high"]
      BY <1>2, <1>6, <2>2 DEF Timer
    <2>4. IsChannel(pit') /\ pit'.both = pit.both /\ pit'.half = "high" /\ pit'.low = 176
      <3>1. pit' = Channel(b, "high", 176, c)
        <4>1. pit' = PutLow(pit, 176, "high")
          BY <2>3 DEF PutLow
        <4> QED
          BY <1>0, <4>1, LowSet
      <3> QED
        BY <3>1, ChannelFields
    <2> QED
      BY <1>2, <1>6, <2>1, <2>4, SMT DEF Channel0, IsChannel
  <1>7. CASE i = 3
    <2>1. pc' = "reflect"
      BY <1>1, <1>3, <1>7, SMT DEF Advance
    <2>2. pit' = Timer(64, 4)
      BY <1>4, <1>7, PitList
    <2> DEFINE n == pit.low + 256 * 4
    <2>3. pit' = [pit EXCEPT !.count = n, !.half = "low"]
      BY <1>2, <1>7, <2>2 DEF Timer
    <2>4. n = 1200
      <3>1. pit.low = 176 /\ 176 + 256 * 4 = 1200
        BY <1>2, <1>7
      <3> QED
        BY <3>1
    <2>5. IsChannel(pit') /\ pit'.count = 1200
      <3> HIDE DEF n
      <3>1. pit' = Channel(b, "low", l, 1200)
        <4>1. pit' = PutCount(pit, n, "low")
          BY <2>3, Zenon DEF PutCount
        <4>2. pit' = Channel(b, "low", l, n)
          BY <1>0, <4>1, CountSet
        <4> QED
          BY <2>4, <4>2
      <3> QED
        BY <3>1, ChannelFields
    <2> QED
      BY <2>1, <2>5 DEF Channel0, IsChannel
  <1>8. i = 1 \/ i = 2 \/ i = 3
    BY <1>1, SMT
  <1> QED
    BY <1>5, <1>6, <1>7, <1>8

LEMMA ChannelStays ==
  ASSUME Inv, UNCHANGED pit, pc' \in {"reflect", "user"} => pc \in {"reflect", "user"},
         pc' = "pit" => (pc = "pit" /\ i' = i) \/ i' = 1
  PROVE  Channel0'
  <1>1. Channel0
    BY Zenon DEF Inv
  <1> QED
    BY <1>1, SMT DEF Channel0

LEMMA CodeStep == Inv /\ [SetupNext]_setupVars => CodeIsWord'
  <1> SUFFICES ASSUME Inv, [SetupNext]_setupVars PROVE CodeIsWord'
    OBVIOUS
  <1>1. CodeIsWord
    BY Zenon DEF Inv
  <1>2. CASE \E v \in Called : CallInt(v)
    <2>1. PICK v \in Called : CallInt(v)
      BY <1>2
    <2>2. 8 * v + 2 \in Word
      <3>1. v \in Byte
        BY KernelInitAssumption, Zenon DEF KernelInitAssumption
      <3> QED
        BY <3>1, CodeFits
    <2> QED
      BY <1>1, <2>1, <2>2, Zenon DEF CallInt, CodeIsWord
  <1>3. CASE UNCHANGED errorCode
    BY <1>1, <1>3, Zenon DEF CodeIsWord
  <1> QED
    BY <1>2, <1>3, Zenon DEF SetupNext, SetupStep, Segments, PicOutb, WriteGate, ConfigurePIT, Reflect,
                             InitScheduler, Begin, Raise, setupVars, program

\* What the parts of the invariant see of a step from one part and loop variable
\* to the next.
Moves ==
    /\ \A k \in {1, 3} : SegmentsUpTo(k)' => SegmentsUpTo(k)
    /\ \A c \in ChipNames : DoneAt(pc', i', c) = DoneAt(pc, i, c)
    /\ \A k \in 1 .. 16 : GatesUpTo(k)' => GatesUpTo(k)
    /\ pc' \in {"reflect", "user"} => pc \in {"reflect", "user"}
    /\ pc' = "pit" => (pc = "pit" /\ i' = i) \/ i' = 1

LEMMA SameMoves == UNCHANGED <<pc, i>> => Moves
  BY Zenon DEF Moves, SegmentsUpTo, DoneAt, GatesUpTo

LEMMA SegmentsMoves ==
  ASSUME Inv, Segments
  PROVE  /\ \A c \in ChipNames : DoneAt(pc', i', c) = DoneAt(pc, i, c)
         /\ \A k \in 1 .. 16 : GatesUpTo(k)' => GatesUpTo(k)
         /\ pc' \notin {"reflect", "user", "pit"}
  <1>1. pc = "segments" /\ Advance(4, "pic", 1)
    BY SegmentList, Zenon DEF Segments
  <1>2. pc' = "segments" \/ (pc' = "pic" /\ i' = 1)
    BY <1>1, Zenon DEF Advance
  <1>3. 1 \div 2 = 0 /\ (1 - 1) \div 2 = 0
    BY SMT
  <1> QED
    BY <1>1, <1>2, <1>3 DEF DoneAt, GatesUpTo

LEMMA PicMoves ==
  ASSUME Inv, PicOutb
  PROVE  /\ \A k \in {1, 3} : SegmentsUpTo(k)' => SegmentsUpTo(k)
         /\ \A k \in 1 .. 16 : GatesUpTo(k)' => GatesUpTo(k)
         /\ pc' \notin {"reflect", "user", "pit"}
  <1>1. pc = "pic" /\ Advance(10, "idt", 1)
    BY PortList, Zenon DEF PicOutb
  <1>2. pc' = "pic" \/ (pc' = "idt" /\ i' = 1)
    BY <1>1, Zenon DEF Advance
  <1> QED
    BY <1>1, <1>2, SMT DEF SegmentsUpTo, GatesUpTo

LEMMA GateMoves ==
  ASSUME Inv, WriteGate
  PROVE  /\ \A k \in {1, 3} : SegmentsUpTo(k)' => SegmentsUpTo(k)
         /\ \A c \in ChipNames : DoneAt(pc', i', c) = DoneAt(pc, i, c)
         /\ pc' \notin {"reflect", "user", "pit"}
  <1>1. pc = "idt" /\ Advance(31, "ready", 1)
    BY GateList, Zenon DEF WriteGate
  <1>2. pc' = "idt" \/ pc' = "ready"
    BY <1>1, Zenon DEF Advance
  <1> QED
    BY <1>1, <1>2, SMT DEF SegmentsUpTo, DoneAt

LEMMA PitMoves ==
  ASSUME Inv, ConfigurePIT
  PROVE  /\ \A k \in {1, 3} : SegmentsUpTo(k)' => SegmentsUpTo(k)
         /\ \A c \in ChipNames : DoneAt(pc', i', c) = DoneAt(pc, i, c)
         /\ \A k \in 1 .. 16 : GatesUpTo(k)' => GatesUpTo(k)
  <1>1. pc = "pit" /\ Advance(3, "reflect", ReflectFrom)
    BY PitList, Zenon DEF ConfigurePIT
  <1>2. pc' = "pit" \/ pc' = "reflect"
    BY <1>1, Zenon DEF Advance
  <1> QED
    BY <1>1, <1>2, SMT DEF SegmentsUpTo, DoneAt, GatesUpTo

LEMMA ReadyMoves ==
  ASSUME Inv, InitScheduler PROVE Moves
  <1>1. pc = "ready" /\ pc' = "pit" /\ i' = 1
    BY Zenon DEF InitScheduler, Inv, Ranges
  <1> QED
    BY <1>1, SMT DEF Moves, SegmentsUpTo, DoneAt, GatesUpTo

LEMMA BeginMoves ==
  ASSUME Inv, Begin PROVE Moves
  <1>1. pc = "begin" /\ pc' = "segments" /\ i' = 1
    BY Zenon DEF Begin, Inv, Ranges
  <1> QED
    BY <1>1, SMT DEF Moves, SegmentsUpTo, DoneAt, GatesUpTo

LEMMA ReflectMoves ==
  ASSUME Inv, Reflect PROVE Moves
  <1>1. pc = "reflect" /\ (pc' = "reflect" \/ pc' = "user")
    BY Zenon DEF Reflect
  <1> QED
    BY <1>1, SMT DEF Moves, SegmentsUpTo, DoneAt, GatesUpTo

LEMMA StepInv == Inv /\ [SetupNext]_setupVars => Inv'
  <1> SUFFICES ASSUME Inv, [SetupNext]_setupVars
               PROVE  Descriptors' /\ TablesReached' /\ Chips' /\ Gates' /\ Channel0'
    BY RangesStep, CodeStep, Zenon DEF Inv
  <1>1. CASE Segments
    <2>1. UNCHANGED <<chip, requested, idt, pit>>
      BY <1>1, Zenon DEF Segments
    <2>2. Chips' /\ Gates' /\ Channel0'
      BY <1>1, <2>1, SegmentsMoves, ChipsStay, GatesStay, ChannelStays, Zenon
    <2> QED
      BY <1>1, <2>2, SegmentsStep
  <1>2. CASE PicOutb
    <2>1. UNCHANGED <<descriptors, idt, pit>>
      BY <1>2, Zenon DEF PicOutb
    <2>2. Descriptors' /\ TablesReached' /\ Gates' /\ Channel0'
      BY <1>2, <2>1, PicMoves, SegmentsStay, GatesStay, ChannelStays, Zenon
    <2> QED
      BY <1>2, <2>2, ChipsPicOutb
  <1>3. CASE WriteGate
    <2>1. UNCHANGED <<descriptors, chip, requested, pit>>
      BY <1>3, Zenon DEF WriteGate
    <2>2. Descriptors' /\ TablesReached' /\ Chips' /\ Channel0'
      BY <1>3, <2>1, GateMoves, SegmentsStay, ChipsStay, ChannelStays, Zenon
    <2> QED
      BY <1>3, <2>2, GatesWrite
  <1>4. CASE ConfigurePIT
    <2>1. UNCHANGED <<descriptors, chip, requested, idt>>
      BY <1>4, Zenon DEF ConfigurePIT
    <2>2. Descriptors' /\ TablesReached' /\ Chips' /\ Gates'
      BY <1>4, <2>1, PitMoves, SegmentsStay, ChipsStay, GatesStay, Zenon
    <2> QED
      BY <1>4, <2>2, ChannelStep
  <1>5. CASE Reflect
    <2>1. UNCHANGED <<descriptors, chip, requested, pit>>
      BY <1>5, Zenon DEF Reflect
    <2>2. Descriptors' /\ TablesReached' /\ Chips' /\ Channel0'
      BY <1>5, <2>1, ReflectMoves, SegmentsStay, ChipsStay, ChannelStays, Zenon DEF Moves
    <2> QED
      BY <1>5, <2>2, GatesReflect
  <1>6. CASE \E q \in Line : Raise(q)
    <2>1. PICK q \in Line : Raise(q)
      BY <1>6
    <2>2. UNCHANGED <<pc, i, descriptors, idt, pit>>
      BY <2>1, Zenon DEF Raise
    <2>3. Descriptors' /\ TablesReached' /\ Gates' /\ Channel0'
      BY <2>2, SameMoves, SegmentsStay, GatesStay, ChannelStays, Zenon DEF Moves
    <2> QED
      BY <2>1, <2>3, ChipsRaise
  <1>7. CASE /\ UNCHANGED <<descriptors, chip, requested, idt, pit>>
             /\ UNCHANGED <<pc, i>> \/ InitScheduler \/ Begin
    <2>1. Moves
      BY <1>7, SameMoves, ReadyMoves, BeginMoves
    <2> QED
      BY <1>7, <2>1, SegmentsStay, ChipsStay, GatesStay, ChannelStays, Zenon DEF Moves
  <1> QED
    BY <1>1, <1>2, <1>3, <1>4, <1>5, <1>6, <1>7, Zenon
       DEF SetupNext, SetupStep, CallInt, InitScheduler, Begin, setupVars, descriptors

\* As the BIOS and DOS leave the machine.
LEMMA InitDescriptors == SetupInit => Descriptors /\ TablesReached
  <1> SUFFICES ASSUME SetupInit PROVE Descriptors /\ TablesReached
    OBVIOUS
  <1>1. gdt = GDT /\ tr = Descriptor(0) /\ ldtr = Descriptor(0) /\ pc = "begin" /\ i = 1
    BY Zenon DEF SetupInit
  <1>2. ACCESS_RIGHTS(3, TYPE_CODE) = 219
    BY SMT DEF ACCESS_RIGHTS, TYPE_CODE
  <1>3. gdt.ucode.access = 219
    BY <1>1, <1>2 DEF GDT, Descriptor
  <1>4. ASSUME NEW x PROVE IsDescriptor(Descriptor(x)) /\ Descriptor(x).access = x
    BY DEF IsDescriptor, Descriptor
  <1>5. /\ gdt = [ucode |-> gdt.ucode, tss |-> gdt.tss, ldt |-> gdt.ldt]
        /\ IsDescriptor(gdt.tss) /\ IsDescriptor(gdt.ldt)
    BY <1>1, <1>4, Zenon DEF GDT
  <1>6. ~SegmentsUpTo(1) /\ ~SegmentsUpTo(3)
    BY <1>1, SMT DEF SegmentsUpTo
  <1>7. ~Present(tr) /\ ~Present(ldtr)
    BY <1>1, <1>4, SMT DEF Present
  <1>8. Descriptors
    BY <1>3, <1>5, <1>6 DEF Descriptors
  <1> QED
    BY <1>7, <1>8, Zenon DEF TablesReached

LEMMA InitChips == SetupInit => Chips
  <1> SUFFICES ASSUME SetupInit PROVE Chips
    OBVIOUS
  <1>1. PICK masked, irr : chip = [c \in ChipNames |-> Chip(c, masked, irr)]
    BY Zenon DEF SetupInit, ChipNames
  <1>2. DOMAIN chip = ChipNames
    BY <1>1, Zenon
  <1>3. pc = "begin"
    BY Zenon DEF SetupInit
  <1> SUFFICES ASSUME NEW c \in ChipNames
               PROVE  Programming(c, chip[c], DoneAt(pc, i, c), requested \cap LinesOf(c))
    BY <1>2, Zenon DEF Chips
  <1> DEFINE d == chip[c]
  <1>4. d = Chip(c, masked, irr)
    BY <1>1, Zenon
  <1> HIDE DEF d
  <1>5. /\ IsChip(d) /\ d.expect = 1 /\ d.imr = masked \cap LinesOf(c) /\ d.irr = irr \cap LinesOf(c)
        /\ d.base = IF c = "master" THEN 8 ELSE 112
    BY <1>4 DEF IsChip, Chip
  <1>6. d.base \in {8, 112}
    BY <1>5
  <1>7. DoneAt(pc, i, c) = 0
    BY <1>3, Zenon DEF DoneAt
  <1>8. Programming(c, d, 0, requested \cap LinesOf(c))
    <2>1. ~(0 > 0) /\ ~(0 > 1) /\ ~(0 > 2) /\ ~(0 > 3) /\ ~(0 > 4)
      BY SMT
    <2>2. d.imr \subseteq LinesOf(c) /\ d.irr \subseteq LinesOf(c)
      BY <1>5, Zenon
    <2> QED
      BY <1>5, <1>6, <2>1, <2>2 DEF Programming
  <1> QED
    BY <1>7, <1>8 DEF d

LEMMA InitInv == SetupInit => Inv
  <1> SUFFICES ASSUME SetupInit PROVE Inv
    OBVIOUS
  <1>1. /\ pc = "begin" /\ i = 1 /\ idt = << >> /\ errorCode = 0
        /\ pit = [both |-> TRUE, half |-> "low", low |-> 0, count |-> 0]
    BY Zenon DEF SetupInit
  <1>2. Ranges
    BY <1>1, SMT DEF Ranges
  <1>3. Gates
    <2>1. \A k : ~GatesUpTo(k)
      BY <1>1, Zenon DEF GatesUpTo
    <2>2. DOMAIN idt = {}
      BY <1>1, SMT
    <2> QED
      BY <2>1, <2>2 DEF Gates
  <1>4. Channel0
    BY <1>1, SMT DEF Channel0
  <1>5. CodeIsWord
    BY <1>1, SMT DEF CodeIsWord, Word
  <1> QED
    BY <1>2, <1>3, <1>4, <1>5, InitDescriptors, InitChips, Zenon DEF Inv

LEMMA Invariant == SetupSpec => []Inv
  BY InitInv, StepInv, PTL DEF SetupSpec

-----------------------------------------------------------------------------
(* The theorems. *)

LEMMA DoneRange ==
  ASSUME Inv, NEW c \in ChipNames
  PROVE  DoneAt(pc, i, c) \in 0 .. 5
  <1>1. pc = "pic" => i \in 1 .. 10
    BY Zenon DEF Inv, Ranges
  <1>2. ASSUME NEW n \in 1 .. 10 PROVE n \div 2 \in 0 .. 5 /\ (n - 1) \div 2 \in 0 .. 5
    BY SMT
  <1>3. 0 \in 0 .. 5 /\ 5 \in 0 .. 5
    BY SMT
  <1> QED
    BY <1>1, <1>2, <1>3, Zenon DEF DoneAt

LEMMA ChipTypes ==
  ASSUME NEW c \in ChipNames, NEW d, NEW mine, NEW k \in 0 .. 5, Programming(c, d, k, mine)
  PROVE  /\ d.expect \in 1 .. 4
         /\ d.base \in Byte /\ d.base % 8 = 0
         /\ d.imr \union d.irr \subseteq LinesOf(c)
  <1>1. d.imr \subseteq LinesOf(c) /\ d.irr \subseteq LinesOf(c)
    BY Zenon DEF Programming
  <1>2. d.base \in {8, 112, 32, 40}
    BY SMT DEF Programming, BaseOf
  <1>3. d.expect \in {1, 2, 3, 4}
    <2>1. k = 0 => d.expect = 1
      BY SMT DEF Programming
    <2>2. k > 0 => d.expect = ExpectAfter[k]
      BY SMT DEF Programming
    <2>3. k \in {0, 1, 2, 3, 4, 5} /\ (k = 0 \/ k > 0)
      BY SMT
    <2> QED
      BY <2>1, <2>2, <2>3, Expected
  <1>4. d.base \in Byte /\ d.base % 8 = 0
    <2>1. ASSUME NEW b \in {8, 112, 32, 40} PROVE b \in Byte /\ b % 8 = 0
      BY SMT DEF Byte
    <2> QED
      BY <1>2, <2>1
  <1>5. d.expect \in 1 .. 4
    <2>1. ASSUME NEW x \in {1, 2, 3, 4} PROVE x \in 1 .. 4
      BY SMT
    <2> QED
      BY <1>3, <2>1
  <1> QED
    BY <1>1, <1>4, <1>5, Zenon

\* The variables keep their types: a chip that is told a base is told a byte with
\* three zero bits, and has masks and requests of its own lines only.
THEOREM Types == SetupSpec => []SetupTypeOK
  <1>1. Inv => SetupTypeOK
    <2> SUFFICES ASSUME Inv PROVE SetupTypeOK
      OBVIOUS
    <2>1. pc \in {"begin", "segments", "pic", "idt", "ready", "pit", "reflect", "user"}
      BY Zenon DEF Inv, Ranges
    <2>2. i \in Byte
      <3>1. Ranges
        BY Zenon DEF Inv
      <3> QED
        BY <3>1, SMT DEF Ranges, Byte
    <2>3. \A c \in ChipNames :
             /\ chip[c].expect \in 1 .. 4
             /\ chip[c].base \in Byte /\ chip[c].base % 8 = 0
             /\ chip[c].imr \union chip[c].irr \subseteq LinesOf(c)
      BY ChipNow, DoneRange, ChipTypes
    <2>4. DOMAIN idt \subseteq Byte /\ \A v \in DOMAIN idt : idt[v].attr \in Byte
      <3>1. Gates /\ 142 \in Byte
        BY SMT DEF Inv, Byte
      <3> QED
        BY <3>1 DEF Gates
    <2>5. errorCode \in Word
      BY Zenon DEF Inv, CodeIsWord
    <2> QED
      BY <2>1, <2>2, <2>3, <2>4, <2>5, Zenon DEF SetupTypeOK, ChipNames
  <1> QED
    BY <1>1, Invariant, PTL

\* The descriptors that LTR and LLDT load have their bases by then, wherever the
\* linker puts the tables: AppendAddress spreads an address over three fields and
\* the processor finds all of it.
THEOREM Loaded == SetupSpec => []TablesReached
  <1>1. Inv => TablesReached
    BY Zenon DEF Inv
  <1> QED
    BY <1>1, Invariant, PTL

LEMMA ChipProgrammed ==
  ASSUME Inv, pc \notin {"begin", "segments", "pic"}, NEW c \in ChipNames
  PROVE  /\ chip[c].base = BaseOf(c) /\ chip[c].cascade = CascadeOf(c)
         /\ chip[c].mode = ModeOf(c) /\ chip[c].expect = 1 /\ chip[c].read = "isr"
         /\ chip[c].imr = {} /\ chip[c].irr = requested \cap LinesOf(c)
  <1>1. DoneAt(pc, i, c) = 5
    BY Zenon DEF DoneAt
  <1>2. Programming(c, chip[c], 5, requested \cap LinesOf(c))
    BY <1>1, ChipNow
  <1>3. 5 > 0 /\ 5 > 1 /\ 5 > 2 /\ 5 > 3 /\ 5 > 4
    BY SMT
  <1> QED
    BY <1>2, <1>3, Expected DEF Programming

\* PIC_Remap, the OCW3s and ConfigurePIT leave the bases, modes and read registers
\* of the chips, and the timer's count, as the dispatcher takes them to be, whatever
\* DOS left in the chips and whatever is requested while they are programmed; a chip
\* has the requests since its own ICW1, the earlier ones are lost.
THEOREM Remapped == SetupSpec => []Programmed
  <1>2. ASSUME Inv, pc \notin {"begin", "segments", "pic"}, NEW q \in Line,
               NEW c \in ChipNames, q \in LinesOf(c)
        PROVE  chip[c].base + (q % 8) = IRQ_BASE + q
    <2>1. chip[c].base = BaseOf(c)
      BY <1>2, ChipProgrammed
    <2>2. BaseOf(c) + (q % 8) = 32 + q
      BY <1>2, SMT DEF BaseOf, LinesOf, MasterLine, SlaveLine, ChipNames
    <2> QED
      BY <2>1, <2>2 DEF IRQ_BASE
  <1>3. ASSUME NEW q \in Line PROVE \E c \in ChipNames : q \in LinesOf(c)
    BY SMT DEF Line, LinesOf, MasterLine, SlaveLine, ChipNames
  <1>4. ASSUME NEW c \in ChipNames
        PROVE  BitOn(ModeOf(c), 0) /\ ~BitOn(ModeOf(c), 1)
    BY BitsSent, Zenon DEF ModeOf
  <1>5. Bits(CascadeOf("master")) = {CascadeOf("slave")} /\ CascadeOf("slave") = Cascade
    BY CascadeBits DEF CascadeOf, Cascade
  <1>6. Inv => Programmed
    <2> SUFFICES ASSUME Inv, pc \notin {"begin", "segments", "pic"}
                 PROVE  /\ \A q \in Line :
                              LET c == CHOOSE c \in ChipNames : q \in LinesOf(c)
                              IN  chip[c].base + (q % 8) = IRQ_BASE + q
                        /\ Bits(chip["master"].cascade) = {chip["slave"].cascade}
                        /\ chip["slave"].cascade = Cascade
                        /\ \A c \in ChipNames :
                              /\ chip[c].expect = 1 /\ chip[c].read = "isr"
                              /\ BitOn(chip[c].mode, 0) /\ ~BitOn(chip[c].mode, 1)
                              /\ chip[c].irr = requested \cap LinesOf(c)
                        /\ pc \in {"reflect", "user"} => pit.count = 1200
      BY DEF Programmed, ChipNames
    <2>1. ASSUME NEW q \in Line
          PROVE  LET c == CHOOSE c \in ChipNames : q \in LinesOf(c)
                 IN  chip[c].base + (q % 8) = IRQ_BASE + q
      <3> DEFINE c == CHOOSE c \in ChipNames : q \in LinesOf(c)
      <3>1. c \in ChipNames /\ q \in LinesOf(c)
        BY <1>3, Zenon
      <3> QED
        BY <1>2, <3>1
    <2>2. "master" \in ChipNames /\ "slave" \in ChipNames
      BY DEF ChipNames
    <2>3. /\ Bits(chip["master"].cascade) = {chip["slave"].cascade}
          /\ chip["slave"].cascade = Cascade
      BY ChipProgrammed, <1>5, <2>2, Zenon
    <2>4. \A c \in ChipNames : BitOn(chip[c].mode, 0) /\ ~BitOn(chip[c].mode, 1)
      BY ChipProgrammed, <1>4, Zenon
    <2>5. pc \in {"reflect", "user"} => pit.count = 1200
      BY DEF Inv, Channel0
    <2> QED
      BY ChipProgrammed, <2>1, <2>3, <2>4, <2>5
  <1> QED
    BY <1>6, Invariant, PTL

NoneMasked ==
    pc \notin {"begin", "segments", "pic"} => \A c \in ChipNames : chip[c].imr = {}

\* ICW1 clears the masks and nothing writes them again: when the chips are programmed
\* no line is masked, whichever DOS had masked.  IA32.c 213-214 says that the IRQs not
\* used by DOS remain masked, and Init_DetectFreeInt (PnP_Mgr.c 233-239) reads the
\* masks to find the lines that are free.
THEOREM Unmasked == SetupSpec => []NoneMasked
  <1>1. Inv => NoneMasked
    BY ChipProgrammed, Zenon DEF NoneMasked
  <1> QED
    BY <1>1, Invariant, PTL

\* Once FillIDT is through, the vector of every exception it knows leads to that
\* exception's stub and the first IRQ vector to the stub of an IRQ, and the
\* reflection loop leaves them so.
THEOREM Undisturbed == SetupSpec => []OwnGates
  <1>1. Inv => OwnGates
    <2> SUFFICES ASSUME Inv, pc \in {"ready", "pit", "reflect", "user"}
                 PROVE  /\ \A v \in 0 .. EXCEPT_IMPLEMENTED - 1 : idt[v].stub = <<"except", v>>
                        /\ idt[IRQ_BASE].stub[1] = "irq"
      BY Zenon DEF OwnGates
    <2>1. \A k : GatesUpTo(k)
      BY Zenon DEF GatesUpTo
    <2>2. Gates
      BY Zenon DEF Inv
    <2>3. 0 .. EXCEPT_IMPLEMENTED - 1 = 0 .. 14
      BY SMT DEF EXCEPT_IMPLEMENTED
    <2> QED
      BY <2>1, <2>2, <2>3 DEF Gates
  <1> QED
    BY <1>1, Invariant, PTL

LEMMA CodeOfVector ==
  ASSUME NEW v \in Byte
  PROVE  TrapVector(8 * v + 2) = v
  <1> PICK code : code = 8 * v + 2
    OBVIOUS
  <1>3. (code \div 8) % 256 = v
    BY SMT DEF Byte
  <1> QED
    BY <1>3, Zenon DEF TrapVector

\* Every INT of a program ends in the stub of #GP with a code that decodes to its
\* vector: no gate that the kernel writes lets a program of its ring in.
THEOREM Reflected == SetupSpec => IntReflected
  <1>1. ASSUME Inv, NEW v \in Called, CallInt(v)
        PROVE  entered' = <<"except", 13>> /\ TrapVector(errorCode') = v
    <2>1. v \in Byte
      BY KernelInitAssumption, Zenon DEF KernelInitAssumption
    <2>2. pc = "user" /\ Gates /\ gdt["ucode"].access = 219
      BY <1>1 DEF CallInt, Inv, Descriptors
    <2>3. DPL(142) = 0 /\ DPL(219) = 2
      BY SMT DEF DPL
    <2>4. ~GateOpen(v)
      <3>1. ~(0 >= 2)
        BY SMT
      <3>2. v \in DOMAIN idt => idt[v].attr = 142
        BY <2>2 DEF Gates
      <3>3. v \in DOMAIN idt => DPL(idt[v].attr) = 0
        BY <2>3, <3>2
      <3>4. DPL(gdt["ucode"].access) = 2
        BY <2>2, <2>3
      <3> QED
        BY <3>1, <3>3, <3>4, Zenon DEF GateOpen
    <2>5. idt[13].stub = <<"except", 13>>
      <3>1. 13 \in 0 .. 14 /\ 13 + 1 = 14
        BY SMT
      <3>2. GatesUpTo(14)
        BY <2>2, Zenon DEF GatesUpTo
      <3> QED
        BY <2>2, <3>1, <3>2 DEF Gates
    <2>6. errorCode' = 8 * v + 2 /\ entered' = idt[13].stub
      BY <1>1, <2>4, Zenon DEF CallInt
    <2> QED
      BY <2>1, <2>5, <2>6, CodeOfVector, Zenon
  <1>2. Inv /\ [SetupNext]_setupVars => [\A v \in Called : CallInt(v) =>
            entered' = <<"except", 13>> /\ TrapVector(errorCode') = v]_setupVars
    BY <1>1, Zenon
  <1> QED
    BY <1>2, Invariant, PTL DEF SetupSpec, IntReflected

=============================================================================
