--------------------------- MODULE V86Frames_proof ---------------------------
(***************************************************************************)
(* Proofs about V86: where in the frame each register of the V86 code is,  *)
(* from the fault or interrupt to the IRET, so what the monitor finds and  *)
(* what the code gets back.  They are about the stubs as they were meant:  *)
(* as built neither the monitor nor the handler of an IRQ ever runs.       *)
(***************************************************************************)
EXTENDS V86_proof

-----------------------------------------------------------------------------
(* Where the registers are in a frame. *)

\* The word of the frame, counted from ESP0, that holds each register.
Pos == [gs |-> 1, fs |-> 2, ds |-> 3, es |-> 4, ss |-> 5, esp |-> 6, cs |-> 8,
        eip |-> 9, ebp |-> 11, edi |-> 12, esi |-> 13, edx |-> 14, ecx |-> 15,
        ebx |-> 16, eax |-> 17]
ByCpu == {r \in Regs : Pos[r] < 10}

LEMMA RegsAre ==
  Regs = {"eax", "ebx", "ecx", "edx", "esi", "edi", "ebp", "eip", "cs", "esp", "ss",
          "es", "ds", "fs", "gs"}
  <1>1. /\ RD[1] = "eax" /\ RD[2] = "ebx" /\ RD[3] = "ecx" /\ RD[4] = "edx"
        /\ RD[5] = "esi" /\ RD[6] = "edi" /\ RD[7] = "ebp" /\ RD[8] = "none"
        /\ RD[9] = "eip" /\ RD[10] = "cs" /\ RD[11] = "eflags" /\ RD[12] = "esp"
        /\ RD[13] = "ss" /\ RD[14] = "es" /\ RD[15] = "ds" /\ RD[16] = "fs"
        /\ RD[17] = "gs"
    BY SMT DEF RD
  <1>2. 1 .. RD_NUM_DWORDS = {1, 2, 3, 4, 5, 6, 7, 8, 9, 10, 11, 12, 13, 14, 15, 16, 17}
    BY SMT DEF RD_NUM_DWORDS
  <1>3. {RD[i] : i \in 1 .. RD_NUM_DWORDS} =
          {"eax", "ebx", "ecx", "edx", "esi", "edi", "ebp", "none", "eip", "cs",
           "eflags", "esp", "ss", "es", "ds", "fs", "gs"}
    BY <1>1, <1>2, SMT
  <1> QED
    BY <1>3, SMT DEF Regs

\* Its DWORD in the frame, counted from the top as C code does.
IndexOf(r) == CHOOSE i \in 1 .. RD_NUM_DWORDS : RD[i] = r

LEMMA Positions ==
  ASSUME NEW r \in Regs
  PROVE  /\ Pos[r] \in 1 .. 17 /\ Pos[r] # 7 /\ Pos[r] # 10
         /\ RD[18 - Pos[r]] = r /\ IndexOf(r) = 18 - Pos[r]
         /\ r # "none" /\ r # "eflags"
  <1> DEFINE P(q) == /\ Pos[q] \in 1 .. 17 /\ Pos[q] # 7 /\ Pos[q] # 10
                     /\ RD[18 - Pos[q]] = q /\ IndexOf(q) = 18 - Pos[q]
                     /\ q # "none" /\ q # "eflags"
  <1> USE DEF RD, RD_NUM_DWORDS, Pos, IndexOf
  <1>1. P("eax")  BY SMT
  <1>2. P("ebx")  BY SMT
  <1>3. P("ecx")  BY SMT
  <1>4. P("edx")  BY SMT
  <1>5. P("esi")  BY SMT
  <1>6. P("edi")  BY SMT
  <1>7. P("ebp")  BY SMT
  <1>8. P("eip")  BY SMT
  <1>9. P("cs")   BY SMT
  <1>10. P("esp") BY SMT
  <1>11. P("ss")  BY SMT
  <1>12. P("es")  BY SMT
  <1>13. P("ds")  BY SMT
  <1>14. P("fs")  BY SMT
  <1>15. P("gs")  BY SMT
  <1> HIDE DEF P, RD, RD_NUM_DWORDS, Pos, IndexOf
  <1>16. P(r)
    BY <1>1, <1>2, <1>3, <1>4, <1>5, <1>6, <1>7, <1>8, <1>9, <1>10, <1>11, <1>12, <1>13,
       <1>14, <1>15, RegsAre, Zenon
  <1> QED
    BY <1>16 DEF P

LEMMA FrameAt ==
  ASSUME NEW c, NEW flags, NEW r \in Regs
  PROVE  Frame(c, flags)[Pos[r]] = c[r]
  <1>1. Pos[r] \in 1 .. RD_NUM_DWORDS /\ RD_NUM_DWORDS + 1 - Pos[r] = 18 - Pos[r]
    BY Positions, SMT DEF RD_NUM_DWORDS
  <1>2. Frame(c, flags)[Pos[r]] = Word(c, flags, RD[RD_NUM_DWORDS + 1 - Pos[r]])
    BY <1>1, Zenon DEF Frame
  <1>3. RD[RD_NUM_DWORDS + 1 - Pos[r]] = r /\ r # "none" /\ r # "eflags"
    BY <1>1, Positions
  <1>4. Word(c, flags, r) = c[r]
    BY <1>3 DEF Word
  <1> QED
    BY <1>2, <1>3, <1>4

\* The words above h that hold the registers R of c.
ImageOf(t, h, c, R) == \A r \in R : t[h + Pos[r]] = c[r]

LEMMA SavedAt ==
  ASSUME NEW h \in Nat, Len(stack) = h + 17, NEW r \in Regs
  PROVE  Saved(r) = stack[h + Pos[r]]
  <1>1. Saved(r) = stack[Len(stack) - (IndexOf(r) - 1)]
    BY Zenon DEF Saved, At, IndexOf
  <1>2. Len(stack) - (IndexOf(r) - 1) = h + Pos[r]
    <2>1. IndexOf(r) = 18 - Pos[r] /\ Pos[r] \in 1 .. 17
      BY Positions
    <2>2. \A p \in 1 .. 17 : (h + 17) - ((18 - p) - 1) = h + p
      BY SMT
    <2> QED
      BY <2>1, <2>2, Zenon
  <1> QED
    BY <1>1, <1>2, Zenon

-----------------------------------------------------------------------------
(* The invariant. *)

HasImage(R) == ImageOf(stack, esp0, cpu, R)
IsCode(w) ==
    /\ w = Eip(w.place)
    /\ w.place = Place(w.place.n, w.place.ins)
    /\ w.place.n \in {0, 1}

\* The registers whose words the monitor has changed by its end.
Changed ==
    IF Op = "iret" THEN {"edi", "edx"} ELSE IF Op \in {"cli", "sti"} THEN {"eip"} ELSE {}
MovedOn ==
    Op \in {"cli", "sti"} => /\ IsCode(stack[esp0 + 9])
                             /\ stack[esp0 + 9].place.n = 1 - cpu["eip"].place.n

Frames ==
    /\ pc # "kernel" => IsCode(cpu["eip"])
    /\ pc \in {"gpstub", "irqstub"} => HasImage(ByCpu)
    /\ pc \in {"gp", "irq"} => HasImage(Regs)
    /\ pc \in {"gpleave", "irq0"} => HasImage(Regs \ Changed) /\ MovedOn
    /\ pc = "gp" => ds = "kernel"
    /\ pc \in {"gp", "gpleave", "irq", "irq0"} => Stub.segsFirst

\* Only the stub as it was meant gets anywhere.
LEMMA Meant ==
  ASSUME Stub.segsFirst
  PROVE  Stub.flagsAt = 10 /\ Stub.vmIf = TRUE /\ Stub.frameOff = 0
  <1>1. Stub = AsBuilt \/ Stub = AsMeant
    BY V86Assumption DEF V86Assumption
  <1>2. AsBuilt.segsFirst = FALSE
    BY DEF AsBuilt
  <1>3. AsMeant.flagsAt = 10 /\ AsMeant.vmIf = TRUE /\ AsMeant.frameOff = 0
    BY DEF AsMeant
  <1>4. CASE Stub = AsBuilt
    <2>1. AsBuilt.segsFirst
      BY <1>4
    <2> QED
      BY <1>2, <2>1, Zenon
  <1>5. CASE Stub = AsMeant
    BY <1>3, <1>5
  <1> QED
    BY <1>1, <1>4, <1>5

LEMMA CodeAt ==
  ASSUME NEW n \in {0, 1}, NEW ins
  PROVE  /\ IsCode(Eip(Place(n, ins))) /\ Eip(Place(n, ins)).place.n = n
         /\ Eip(Place(n, ins)).of = "eip"
  <1> DEFINE p == Place(n, ins)
  <1>1. p.n = n /\ p.ins = ins
    BY DEF Place
  <1>2. p = Place(p.n, p.ins)
    BY <1>1, Zenon
  <1>3. Eip(p).place = p /\ Eip(p).of = "eip"
    BY DEF Eip
  <1> HIDE DEF p
  <1>4. IsCode(Eip(p)) /\ Eip(p).place.n = n
    BY <1>1, <1>2, <1>3, Zenon DEF IsCode
  <1> QED
    BY <1>3, <1>4, Zenon DEF p

LEMMA CodeAfter ==
  ASSUME NEW w, IsCode(w), NEW ins
  PROVE  /\ IsCode(Eip(After(w.place, ins)))
         /\ Eip(After(w.place, ins)).place.n = 1 - w.place.n
  <1>1. w.place.n \in {0, 1}
    BY DEF IsCode
  <1>2. 1 - w.place.n \in {0, 1}
    BY <1>1, SMT
  <1> QED
    BY <1>2, CodeAt, Zenon DEF After

\* The frame of the fault is where the monitor takes it to be.
LEMMA Seen ==
  ASSUME Inv, Frames, pc = "gp"
  PROVE  ds = "kernel" /\ Ins = cpu["eip"].place.ins /\ Ins.op = Op
  <1>1. ds = "kernel" /\ IsCode(cpu["eip"]) /\ HasImage(Regs) /\ Stub.frameOff = 0
    BY Meant, Zenon DEF Frames
  <1>2. Len(stack) = esp0 + 17 /\ esp0 \in Nat
    BY Sizes, SMT DEF Above
  <1>3. Context(RD_EIP) = stack[esp0 + 9] /\ Context(RD_CS) = stack[esp0 + 8]
    <2>1. Context(RD_EIP) = stack[Len(stack) - (8 + 0)] /\ Context(RD_CS) = stack[Len(stack) - (9 + 0)]
      BY <1>1, Zenon DEF Context, At, RD_EIP, RD_CS
    <2>2. Len(stack) - (8 + 0) = esp0 + 9 /\ Len(stack) - (9 + 0) = esp0 + 8
      BY <1>2, SMT
    <2> QED
      BY <2>1, <2>2, Zenon
  <1>4. stack[esp0 + 9] = cpu["eip"] /\ stack[esp0 + 8] = cpu["cs"]
    <2>1. "eip" \in Regs /\ "cs" \in Regs
      BY RegsAre
    <2>2. Pos["eip"] = 9 /\ Pos["cs"] = 8
      BY DEF Pos
    <2> QED
      BY <2>1, <2>2, <1>1, Zenon DEF HasImage, ImageOf
  <1>5. cpu["eip"].of = "eip"
    <2>1. cpu["eip"] = Eip(cpu["eip"].place)
      BY <1>1, Zenon DEF IsCode
    <2>2. \A x : Eip(x).of = "eip"
      BY DEF Eip
    <2> QED
      BY <2>1, <2>2, Zenon
  <1>6. Ins = cpu["eip"].place.ins
    BY <1>3, <1>4, <1>5, Zenon DEF Ins
  <1> QED
    BY <1>1, <1>6, Zenon DEF Op

-----------------------------------------------------------------------------
(* The steps. *)

LEMMA FramesEntering ==
  ASSUME Inv, NEW words, NEW context, DOMAIN context = Regs, NEW vector,
         ScVirtual86_Int(words, context, vector)
  PROVE  Frames' /\ Len(calls') = Len(calls) + 1
  <1>1. PICK ins \in Instructions(Len(calls) + 1) :
           LET new == [context EXCEPT !["cs"] = CS(vector), !["eip"] = Eip(Place(0, ins))]
               linkage == [i \in 1 .. words |-> Own("linkage", 0)]
           IN  ScEnterV86(Append((stack \o linkage) \o Frame(new, Own("flags", 0)),
                                 Own("argument", 0)), new)
    BY DEF ScVirtual86_Int
  <1> DEFINE new == [context EXCEPT !["cs"] = CS(vector), !["eip"] = Eip(Place(0, ins))]
  <1>2. PICK c : calls' = Append(calls, c)
    BY <1>1, Zenon DEF ScEnterV86
  <1>3. pc' = "v86" /\ cpu' = new
    BY <1>1 DEF ScEnterV86
  <1>4. cpu'["eip"] = Eip(Place(0, ins))
    <2>1. "eip" \in Regs /\ "cs" # "eip"
      BY RegsAre
    <2> QED
      BY <1>3, <2>1
  <1>5. IsCode(cpu'["eip"])
    BY <1>4, CodeAt
  <1>6. Len(calls') = Len(calls) + 1
    <2>1. IsSeq(calls)
      BY DEF Inv, Shape
    <2>2. AppendOf(calls', calls, c)
      BY <1>2, <2>1, Appended, Zenon
    <2> QED
      BY <2>2 DEF AppendOf
  <1> QED
    BY <1>3, <1>5, <1>6 DEF Frames, IsCode

LEMMA FramesKernelCall ==
  ASSUME Inv, KernelCall PROVE Frames' /\ Len(calls') = Len(calls) + 1
  <1>1. PICK vector \in Vectors, context \in AnyContext :
           ScVirtual86_Int(KernelWords, context, vector)
    BY DEF KernelCall
  <1>2. DOMAIN context = Regs
    BY SMT DEF AnyContext
  <1> QED
    BY <1>1, <1>2, FramesEntering

LEMMA FramesMonitorInt ==
  ASSUME Inv, MonitorInt PROVE Frames' /\ Len(calls') = Len(calls) + 1
  <1>1. ScVirtual86_Int(MonitorWords, ContextRegs, Ins.vector) /\ DOMAIN ContextRegs = Regs
    BY DEF MonitorInt, ContextRegs
  <1> QED
    BY <1>1, FramesEntering

LEMMA FramesWork ==
  ASSUME Inv, Frames, Work PROVE Frames'
  <1>1. PICK ins : cpu'["eip"] = Eip(After(cpu["eip"].place, ins))
    <2>1. "eip" \in Regs /\ "eip" \notin General
      BY RegsAre, SMT DEF General
    <2>2. PICK ins, n : cpu' = [r \in Regs |->
                    IF r \in General THEN Reg(r, n)
                    ELSE IF r = "eip" THEN Eip(After(cpu["eip"].place, ins))
                    ELSE cpu[r]]
      BY Zenon DEF Work
    <2> QED
      BY <2>1, <2>2
  <1>2. pc = "v86" /\ pc' = "v86"
    BY DEF Work
  <1>3. IsCode(cpu["eip"])
    BY <1>2 DEF Frames
  <1>4. IsCode(cpu'["eip"])
    BY <1>1, <1>3, CodeAfter
  <1> QED
    BY <1>2, <1>4 DEF Frames, IsCode

\* The first words of the frame are on the stack after the fault or interrupt.
LEMMA FramesLeaving ==
  ASSUME Inv, Frames, pc = "v86", NEW code, IsSeq(code), NEW to, FromV86(to, code),
         to \in {"gpstub", "irqstub"}
  PROVE  Frames'
  <1> DEFINE f == Frame(cpu, Eflags(TRUE, ints))
  <1>1. /\ stack' = SubSeq(stack, 1, esp0) \o SubSeq(f, 1, 9) \o code
        /\ pc' = to /\ cpu' = cpu /\ esp0' = esp0
    BY DEF FromV86
  <1>2. IsSeq(stack) /\ esp0 \in Nat /\ esp0 > 0 /\ esp0 =< Len(stack)
    BY Sizes, SMT DEF Above
  <1>3. IsSeq(f) /\ Len(f) = 17 /\ \A r \in Regs : f[Pos[r]] = cpu[r]
    <2>1. IsSeq(f) /\ Len(f) = 17
      BY FrameIsSeq
    <2>2. ASSUME NEW r \in Regs PROVE f[Pos[r]] = cpu[r]
      BY FrameAt
    <2> QED
      BY <2>1, <2>2
  <1> HIDE DEF f
  <1>4. \A k \in 1 .. 9 : stack'[esp0 + k] = f[k]
    <2>1. LeftOf(stack', stack, esp0, f, code)
      BY <1>1, <1>2, <1>3, Pushed, Zenon
    <2> QED
      BY <2>1, Zenon DEF LeftOf
  <1>5. ImageOf(stack', esp0', cpu', ByCpu)
    <2> SUFFICES ASSUME NEW r \in Regs, Pos[r] < 10 PROVE stack'[esp0 + Pos[r]] = cpu[r]
      BY <1>1, Zenon DEF ImageOf, ByCpu
    <2>1. Pos[r] \in 1 .. 17
      BY Positions
    <2>2. Pos[r] \in 1 .. 9
      BY <2>1, SMT
    <2> QED
      BY <2>2, <1>3, <1>4, Zenon
  <1>6. IsCode(cpu'["eip"])
    BY <1>1 DEF Frames
  <1>7. to \notin {"gp", "irq", "gpleave", "irq0"}
    BY Zenon
  <1> QED
    BY <1>1, <1>5, <1>6, <1>7, Zenon DEF Frames, HasImage, IsCode

LEMMA FramesFault ==
  ASSUME Inv, Frames, GeneralProtectFault PROVE Frames'
  <1>1. pc = "v86" /\ FromV86("gpstub", <<Own("code", 0)>>)
    BY DEF GeneralProtectFault
  <1> QED
    BY <1>1, Few, FramesLeaving, Zenon

LEMMA FramesIrq ==
  ASSUME Inv, Frames, Irq PROVE Frames'
  <1>1. pc = "v86" /\ FromV86("irqstub", << >>)
    BY DEF Irq
  <1> QED
    BY <1>1, Few, FramesLeaving, Zenon

LEMMA Below9 ==
  ASSUME NEW h \in Nat, NEW p \in 1 .. 17, p < 10 PROVE h + p \in 1 .. h + 9
  BY SMT

LEMMA InFrame ==
  ASSUME NEW h \in Nat, NEW p \in 1 .. 17
  PROVE  h + p \in 1 .. h + 17 /\ \A q \in 1 .. 17 : p # q => h + p # h + q
  BY SMT

\* SaveTrapRegs completes the frame.
LEMMA ImageSaved ==
  ASSUME NEW t, NEW s, NEW h \in Nat, Len(s) = h + 9, NEW c, NEW flags,
         SavedOn(t, s, Frame(c, flags)), ImageOf(s, h, c, ByCpu)
  PROVE  ImageOf(t, h, c, Regs)
  <1> SUFFICES ASSUME NEW r \in Regs PROVE t[h + Pos[r]] = c[r]
    BY DEF ImageOf
  <1> DEFINE f == Frame(c, flags)
  <1>1. Pos[r] \in 1 .. 17 /\ f[Pos[r]] = c[r]
    BY Positions, FrameAt
  <1> HIDE DEF f
  <1>2. /\ \A k \in 1 .. Len(s) : t[k] = s[k]
        /\ \A k \in 1 .. 8 : t[Len(s) + k] = f[9 + k]
    BY DEF SavedOn, f
  <1>3. CASE Pos[r] < 10
    <2>1. r \in ByCpu /\ h + Pos[r] \in 1 .. Len(s)
      BY <1>1, <1>3, Below9, Zenon DEF ByCpu
    <2> QED
      BY <2>1, <1>2, Zenon DEF ImageOf
  <1>4. CASE ~(Pos[r] < 10)
    <2>1. PICK k \in 1 .. 8 : Pos[r] = 9 + k
      <3>1. \A p \in 1 .. 17 : ~(p < 10) => p - 9 \in 1 .. 8 /\ p = 9 + (p - 9)
        BY SMT
      <3> QED
        BY <3>1, <1>1, <1>4, Zenon
    <2>2. h + (9 + k) = Len(s) + k
      BY SMT
    <2>3. t[Len(s) + k] = f[9 + k]
      BY <1>2
    <2> QED
      BY <2>1, <2>2, <2>3, <1>1
  <1> QED
    BY <1>3, <1>4

\* A stub that faults leaves the frame of the code where it was.
LEMMA FramesFaultInStub ==
  ASSUME Inv, Frames, pc \in {"gpstub", "irqstub"}, ~Stub.segsFirst, NEW s, FaultInStub(s),
         IsSeq(s), Len(s) >= Len(stack), \A k \in 1 .. Len(stack) : s[k] = stack[k],
         cpu' = cpu, esp0' = esp0
  PROVE  Frames'
  <1> DEFINE frame == <<Eflags(FALSE, ints), CS("kernel"), Eip(Ring0Place(pc)), Own("code", 0)>>
             t == s \o frame
  <1>1. pc' \in {"gpstub", "overrun"} /\ (stack' = t \/ stack' = stack)
    BY Zenon DEF FaultInStub
  <1>2. /\ Len(stack) \in Nat /\ Len(stack) >= esp0 + 9 /\ esp0 \in Nat
    BY Sizes, SMT DEF Above
  <1>3. IsSeq(frame)
    BY Few
  <1> HIDE DEF frame
  <1>4. \A k \in 1 .. esp0 + 9 : t[k] = stack[k]
    <2>1. JoinOf(t, s, frame)
      BY <1>3, Joined
    <2> HIDE DEF t
    <2>2. Len(s) \in Nat
      BY SeqLength
    <2>3. \A k \in 1 .. esp0 + 9 : k \in 1 .. Len(s) /\ k \in 1 .. Len(stack)
      BY <2>2, <1>2, SMT
    <2> QED
      BY <2>1, <2>3, Zenon DEF JoinOf
  <1> HIDE DEF t
  <1>5. \A k \in 1 .. esp0 + 9 : stack'[k] = stack[k]
    BY <1>1, <1>4, Zenon
  <1>6. ImageOf(stack', esp0, cpu, ByCpu)
    <2> SUFFICES ASSUME NEW r \in ByCpu PROVE stack'[esp0 + Pos[r]] = cpu[r]
      BY DEF ImageOf
    <2>1. stack[esp0 + Pos[r]] = cpu[r]
      BY Zenon DEF Frames, HasImage, ImageOf
    <2>2. r \in Regs /\ Pos[r] \in 1 .. 17 /\ Pos[r] < 10
      BY Positions DEF ByCpu
    <2>3. esp0 + Pos[r] \in 1 .. esp0 + 9
      BY <2>2, <1>2, Below9
    <2> QED
      BY <2>1, <2>3, <1>5, Zenon
  <1>7. IsCode(cpu["eip"]) /\ pc' \notin {"gp", "irq", "gpleave", "irq0"}
    BY <1>1, "kernel" \notin {"gpstub", "irqstub"}, Zenon DEF Frames
  <1> QED
    BY <1>6, <1>7, Zenon DEF Frames, HasImage, IsCode

LEMMA FramesIrqStub ==
  ASSUME Inv, Frames, IrqStub PROVE Frames'
  <1>1. pc = "irqstub" /\ cpu' = cpu /\ esp0' = esp0
    BY DEF IrqStub
  <1>2. IsSeq(stack) /\ Len(stack) = esp0 + 9 /\ esp0 \in Nat
    BY <1>1, Sizes, SMT DEF Above
  <1>3. CASE Stub.segsFirst
    <2>1. /\ pc' = "irq"
          /\ stack' = stack \o SubSeq(Frame(cpu, Own("none", 0)), 10, RD_NUM_DWORDS)
      BY <1>3, Zenon DEF IrqStub, SaveAfterIrq
    <2>2. SavedOn(stack', stack, Frame(cpu, Own("none", 0)))
      BY <1>2, <2>1, Saving, Zenon
    <2>3. ImageOf(stack, esp0, cpu, ByCpu) /\ IsCode(cpu["eip"])
      BY <1>1 DEF Frames, HasImage
    <2>4. ImageOf(stack', esp0, cpu, Regs)
      BY <1>2, <2>2, <2>3, ImageSaved
    <2> QED
      BY <1>1, <1>3, <2>1, <2>3, <2>4 DEF Frames, HasImage, IsCode
  <1>4. CASE ~Stub.segsFirst
    <2> DEFINE s == Append(stack, Own("irq", 0))
    <2>1. FaultInStub(s)
      BY <1>4, Zenon DEF IrqStub
    <2>2. AppendOf(s, stack, Own("irq", 0))
      BY <1>2, Appended
    <2> HIDE DEF s
    <2>3. Len(stack) \in Nat
      BY <1>2, SeqLength
    <2>4. IsSeq(s) /\ Len(s) >= Len(stack) /\ \A k \in 1 .. Len(stack) : s[k] = stack[k]
      BY <2>2, <2>3, SMT DEF AppendOf
    <2> QED
      BY <1>1, <1>4, <2>1, <2>4, FramesFaultInStub, Zenon
  <1> QED
    BY <1>3, <1>4

LEMMA FramesSave ==
  ASSUME Inv, Frames, GPStub, Stub.segsFirst PROVE Frames'
  <1> DEFINE base == Drop(1)
  <1>1. /\ pc = "gpstub" /\ Stub.segsFirst /\ cpu' = cpu /\ esp0' = esp0
        /\ stack' = base \o SubSeq(Frame(cpu, Own("none", 0)), 10, RD_NUM_DWORDS)
        /\ ds' = SegsRestored(stack')
        /\ pc' = IF Bit17(stack'[Len(stack') - Stub.flagsAt]) = Stub.vmIf
                 THEN "gp" ELSE "gpleave"
    BY Zenon DEF GPStub, SaveAfterFault
  <1>2. IsSeq(stack) /\ Len(stack) = esp0 + 10 /\ esp0 \in Nat
    BY <1>1, Sizes, SMT DEF Above
  <1>3. DroppedTo(base, esp0 + 9)
    <2>1. 1 \in Nat /\ esp0 + 9 \in Nat /\ Len(stack) = (esp0 + 9) + 1
      BY <1>2, SMT
    <2> QED
      BY <2>1, <1>2, Dropping
  <1> HIDE DEF base
  <1>4. IsSeq(base) /\ Len(base) = esp0 + 9 /\ \A k \in 1 .. esp0 + 9 : base[k] = stack[k]
    BY <1>3 DEF DroppedTo
  <1>5. SavedOn(stack', base, Frame(cpu, Own("none", 0)))
    BY <1>1, <1>4, Saving, Zenon
  <1>6. ImageOf(base, esp0, cpu, ByCpu)
    <2> SUFFICES ASSUME NEW r \in ByCpu PROVE base[esp0 + Pos[r]] = cpu[r]
      BY DEF ImageOf
    <2>1. stack[esp0 + Pos[r]] = cpu[r]
      BY <1>1, Zenon DEF Frames, HasImage, ImageOf
    <2>2. r \in Regs /\ Pos[r] \in 1 .. 17 /\ Pos[r] < 10
      BY Positions DEF ByCpu
    <2>3. esp0 + Pos[r] \in 1 .. esp0 + 9
      BY <2>2, <1>2, Below9
    <2> QED
      BY <2>1, <2>3, <1>4, Zenon
  <1>7. ImageOf(stack', esp0, cpu, Regs)
    BY <1>2, <1>4, <1>5, <1>6, ImageSaved
  <1>8. Bit17(stack'[Len(stack') - Stub.flagsAt])
    <2>1. Stub.flagsAt = 10 /\ Len(stack') = esp0 + 17
      <3>1. Len(stack') = (esp0 + 9) + 8
        BY <1>4, <1>5, Zenon DEF SavedOn
      <3>2. (esp0 + 9) + 8 = esp0 + 17
        BY <1>2, SMT
      <3> QED
        BY <3>1, <3>2, <1>1, Meant, Zenon
    <2>2. Len(stack') - 10 = esp0 + 7 /\ esp0 + 7 \in 1 .. esp0 + 9
      BY <2>1, <1>2, SMT
    <2>3. stack'[esp0 + 7] = base[esp0 + 7] /\ base[esp0 + 7] = stack[esp0 + 7]
      BY <2>2, <1>4, <1>5, Zenon DEF SavedOn
    <2>4. stack[esp0 + 7] = Eflags(TRUE, Top.ints)
      <3>1. pc \in Ring0
        BY <1>1 DEF Ring0
      <3> QED
        BY <3>1 DEF Inv, Flags
    <2>5. Eflags(TRUE, Top.ints).of = "eflags" /\ Eflags(TRUE, Top.ints).vm = TRUE
      BY DEF Eflags
    <2> QED
      BY <2>1, <2>2, <2>3, <2>4, <2>5, Zenon DEF Bit17
  <1>9. ds' = "kernel" /\ pc' = "gp"
    <2>1. ds' = "kernel"
      BY <1>1, <1>8, Zenon DEF SegsRestored
    <2>2. Bit17(stack'[Len(stack') - Stub.flagsAt]) = TRUE
      BY <1>8 DEF Bit17
    <2> QED
      BY <2>1, <2>2, <1>1, Meant, Zenon
  <1>10. IsCode(cpu["eip"])
    BY <1>1 DEF Frames
  <1> QED
    BY <1>1, <1>7, <1>9, <1>10 DEF Frames, HasImage, IsCode

LEMMA FramesGPStub ==
  ASSUME Inv, Frames, GPStub PROVE Frames'
  <1>1. CASE Stub.segsFirst
    BY <1>1, FramesSave
  <1>2. CASE ~Stub.segsFirst
    <2>1. pc = "gpstub" /\ cpu' = cpu /\ esp0' = esp0 /\ FaultInStub(stack)
      BY <1>2, Zenon DEF GPStub
    <2>2. IsSeq(stack) /\ Len(stack) >= Len(stack)
      BY <2>1, Sizes, SMT
    <2> QED
      BY <1>2, <2>1, <2>2, FramesFaultInStub, Zenon
  <1> QED
    BY <1>1, <1>2

\* The frame stays and no register of the code changes.
LEMMA FramesKeptBelow ==
  ASSUME Inv, Frames, pc \in {"gpleave", "irq0"}, pc' \in {"gpleave", "irq0"},
         cpu' = cpu, esp0' = esp0, \A k \in 1 .. esp0 + 17 : stack'[k] = stack[k]
  PROVE  Frames'
  <1>1. esp0 \in Nat /\ pc # "kernel"
    BY Sizes
  <1>2. HasImage(Regs \ Changed) /\ MovedOn /\ IsCode(cpu["eip"]) /\ Stub.segsFirst
    BY <1>1 DEF Frames
  <1>3. Changed' = Changed /\ Op' = Op
    BY DEF Changed, Op
  <1>4. ImageOf(stack', esp0, cpu, Regs \ Changed)
    <2> SUFFICES ASSUME NEW r \in Regs \ Changed PROVE stack'[esp0 + Pos[r]] = cpu[r]
      BY DEF ImageOf
    <2>1. stack[esp0 + Pos[r]] = cpu[r]
      BY <1>2, Zenon DEF HasImage, ImageOf
    <2>2. Pos[r] \in 1 .. 17
      BY Positions
    <2>3. esp0 + Pos[r] \in 1 .. esp0 + 17
      BY <2>2, <1>1, InFrame
    <2> QED
      BY <2>1, <2>3, Zenon
  <1>5. stack'[esp0 + 9] = stack[esp0 + 9]
    <2>1. esp0 + 9 \in 1 .. esp0 + 17
      BY <1>1, SMT
    <2> QED
      BY <2>1
  <1>6. MovedOn'
    BY <1>2, <1>3, <1>5, Zenon DEF MovedOn, IsCode
  <1>7. pc' \notin {"gp", "gpstub", "irqstub", "irq"}
    BY Zenon
  <1> QED
    BY <1>2, <1>3, <1>4, <1>6, <1>7, Zenon DEF Frames, HasImage, IsCode

\* Words from above the frame change nothing of it.
LEMMA FramesIrqInHandler ==
  ASSUME Inv, Frames, IrqInHandler PROVE Frames'
  <1> DEFINE three == <<Eflags(FALSE, ints), CS("kernel"), Eip(Ring0Place(pc))>>
             eight == [k \in 1 .. 8 |-> Own("registers", 0)]
             a == stack \o three
  <1>1. /\ pc = "gpleave" /\ pc' = "irq0" /\ stack' = a \o eight
        /\ cpu' = cpu /\ esp0' = esp0
    BY DEF IrqInHandler
  <1>2. IsSeq(stack) /\ Len(stack) = esp0 + 17 /\ esp0 \in Nat
    BY <1>1, Sizes, SMT DEF Above
  <1>3. IsSeq(three) /\ Len(three) = 3
    BY Few
  <1>4. IsSeq(eight)
    <2>1. eight = [k \in 1 .. 8 |-> eight[k]] /\ 8 \in Nat
      BY SMT
    <2> HIDE DEF eight
    <2> QED
      BY <2>1, Listed
  <1> HIDE DEF three, eight
  <1>5. JoinOf(a, stack, three)
    BY <1>2, <1>3, Joined
  <1>6. IsSeq(a)
    BY <1>5 DEF JoinOf
  <1> HIDE DEF a
  <1>7. JoinOf(stack', a, eight)
    BY <1>1, <1>4, <1>6, Joined, Zenon
  <1>8. \A k \in 1 .. esp0 + 17 : stack'[k] = stack[k]
    <2>1. Len(a) = esp0 + 20 /\ \A k \in 1 .. esp0 + 17 : a[k] = stack[k]
      BY <1>2, <1>3, <1>5, SMT DEF JoinOf
    <2>2. \A k \in 1 .. esp0 + 17 : k \in 1 .. esp0 + 20
      BY <1>2, SMT
    <2> QED
      BY <2>1, <2>2, <1>7, Zenon DEF JoinOf
  <1> QED
    BY <1>1, <1>2, <1>8, FramesKeptBelow, "irq0" # "gp"

\* The IRET of an IRQ in the handler goes back to the end of the handler.
LEMMA IretToHandlerGoes ==
  ASSUME Inv, IretToHandler PROVE pc' = "gpleave"
  <1>1. pc = "irq0" /\ pc' = Saved("eip").place.at
    BY DEF IretToHandler
  <1>2. Len(stack) = esp0 + 28 /\ esp0 \in Nat
    BY <1>1, Sizes, SMT DEF Above
  <1>3. Saved("eip") = stack[Len(stack) - (9 - 1)]
    BY FrameWords, Zenon DEF Saved, At
  <1>4. Len(stack) - (9 - 1) = esp0 + 20
    BY <1>2, SMT
  <1>5. stack[esp0 + 20] = Eip(Ring0Place("gpleave"))
    BY <1>1 DEF Inv, Flags
  <1>6. Eip(Ring0Place("gpleave")).place.at = "gpleave"
    BY DEF Eip, Ring0Place
  <1> QED
    BY <1>1, <1>3, <1>4, <1>5, <1>6, Zenon

LEMMA FramesIretToHandler ==
  ASSUME Inv, Frames, IretToHandler PROVE Frames'
  <1>1. pc = "irq0" /\ stack' = Drop(11) /\ cpu' = cpu /\ esp0' = esp0
    BY DEF IretToHandler
  <1>2. IsSeq(stack) /\ Len(stack) = esp0 + 28 /\ esp0 \in Nat
    BY <1>1, Sizes, SMT DEF Above
  <1>3. DroppedTo(stack', esp0 + 17)
    <2>1. 11 \in Nat /\ esp0 + 17 \in Nat /\ Len(stack) = (esp0 + 17) + 11
      BY <1>2, SMT
    <2> QED
      BY <2>1, <1>1, <1>2, Dropping
  <1>4. \A k \in 1 .. esp0 + 17 : stack'[k] = stack[k]
    BY <1>3 DEF DroppedTo
  <1>5. pc' = "gpleave"
    BY IretToHandlerGoes
  <1> QED
    BY <1>1, <1>4, <1>5, FramesKeptBelow

\* What the monitor does has written nothing but the registers that it changes.
LEMMA FramesMonitored ==
  ASSUME Inv, Frames, pc = "gp", pc' = "gpleave", cpu' = cpu, esp0' = esp0,
         \A r \in Regs \ Changed : stack'[esp0 + Pos[r]] = stack[esp0 + Pos[r]],
         MovedOn'
  PROVE  Frames'
  <1>1. HasImage(Regs) /\ IsCode(cpu["eip"]) /\ Stub.segsFirst
    BY DEF Frames
  <1>2. ImageOf(stack', esp0, cpu, Regs \ Changed)
    BY <1>1, Zenon DEF HasImage, ImageOf
  <1>3. Changed' = Changed
    BY DEF Changed, Op
  <1> QED
    BY <1>1, <1>2, <1>3, Zenon DEF Frames, HasImage, IsCode

LEMMA FramesMonitorOther ==
  ASSUME Inv, Frames, MonitorOther PROVE Frames'
  <1>1. /\ pc = "gp" /\ Ins.op = "other" /\ pc' = "gpleave" /\ stack' = stack
        /\ cpu' = cpu /\ esp0' = esp0
    BY DEF MonitorOther
  <1>2. Op' = "other"
    BY <1>1, Seen DEF Op
  <1>3. MovedOn'
    BY <1>2, "other" \notin {"cli", "sti"} DEF MovedOn
  <1> QED
    BY <1>1, <1>3, FramesMonitored

\* t is s with w written at i.
PutAt(t, s, i, w) ==
    /\ IsSeq(t)
    /\ Len(t) = Len(s)
    /\ t[i] = w
    /\ \A k \in 1 .. Len(s) : k # i => t[k] = s[k]

LEMMA Putting ==
  ASSUME NEW s, IsSeq(s), NEW i \in 1 .. Len(s), NEW w
  PROVE  PutAt([s EXCEPT ![i] = w], s, i, w)
  <1>1. PICK t : t = [s EXCEPT ![i] = w]
    OBVIOUS
  <1>2. IsSeq(t) /\ Len(t) = Len(s)
    BY <1>1, Overwritten
  <1>3. \A k \in 1 .. Len(s) : t[k] = IF k = i THEN w ELSE s[k]
    BY <1>1, Overwritten
  <1> QED
    BY <1>1, <1>2, <1>3, Zenon DEF PutAt

LEMMA FramesMonitorFlag ==
  ASSUME Inv, Frames, MonitorFlag PROVE Frames'
  <1> DEFINE i == Len(stack) - (RD_EIP + Stub.frameOff)
  <1>1. /\ pc = "gp" /\ Ins.op \in {"cli", "sti"} /\ pc' = "gpleave"
        /\ cpu' = cpu /\ esp0' = esp0
    BY DEF MonitorFlag
  <1>2. PICK ins : stack' = [stack EXCEPT ![i] = Eip(After(@.place, ins))]
    BY Zenon DEF MonitorFlag
  <1>3. IsSeq(stack) /\ Len(stack) = esp0 + 17 /\ esp0 \in Nat
    BY <1>1, Sizes, SMT DEF Above
  <1>4. i = esp0 + 9
    <2>1. Stub.frameOff = 0
      BY <1>1, Meant DEF Frames
    <2>2. (esp0 + 17) - (8 + 0) = esp0 + 9
      BY <1>3, SMT
    <2> QED
      BY <2>1, <2>2, <1>3, Zenon DEF RD_EIP
  <1> HIDE DEF i
  <1>5. i \in 1 .. Len(stack)
    BY <1>3, <1>4, SMT
  <1>6. HasImage(Regs) /\ IsCode(cpu["eip"])
    BY <1>1 DEF Frames
  <1>7. "eip" \in Regs /\ Pos["eip"] = 9
    BY RegsAre DEF Pos
  <1>8. stack[i] = cpu["eip"]
    BY <1>4, <1>6, <1>7, Zenon DEF HasImage, ImageOf
  <1> DEFINE w == Eip(After(cpu["eip"].place, ins))
  <1>9. stack' = [stack EXCEPT ![i] = w]
    BY <1>2, <1>8, Zenon
  <1>10. IsCode(w) /\ w.place.n = 1 - cpu["eip"].place.n
    BY <1>6, CodeAfter
  <1> HIDE DEF w
  <1>11. PutAt(stack', stack, i, w)
    BY <1>3, <1>5, <1>9, Putting, Zenon
  <1>12. Op \in {"cli", "sti"} /\ Changed = {"eip"}
    <2>1. Op = Ins.op
      BY <1>1, Seen
    <2>2. "iret" \notin {"cli", "sti"}
      BY Zenon
    <2> QED
      BY <2>1, <2>2, <1>1, Zenon DEF Changed
  <1>13. ASSUME NEW r \in Regs \ Changed PROVE stack'[esp0 + Pos[r]] = stack[esp0 + Pos[r]]
    <2>1. Pos[r] \in 1 .. 17 /\ Pos[r] # 9
      <3>1. r \in Regs /\ r # "eip"
        BY <1>12
      <3>2. IndexOf(r) = 18 - Pos[r] /\ RD[18 - Pos[r]] = r /\ Pos[r] \in 1 .. 17
        BY <3>1, Positions
      <3>3. RD[18 - 9] = "eip"
        BY <1>7, Positions, Zenon
      <3> QED
        BY <3>1, <3>2, <3>3, Zenon
    <2>2. esp0 + Pos[r] \in 1 .. Len(stack) /\ esp0 + Pos[r] # i
      <3>1. 9 \in 1 .. 17
        BY SMT
      <3> QED
        BY <3>1, <2>1, <1>3, <1>4, InFrame, Zenon
    <2> QED
      BY <2>2, <1>11, Zenon DEF PutAt
  <1>14. stack'[esp0 + 9] = w
    BY <1>4, <1>11, Zenon DEF PutAt
  <1>15. MovedOn'
    BY <1>1, <1>10, <1>14, Zenon DEF MovedOn, IsCode
  <1> QED
    BY <1>1, <1>13, <1>15, FramesMonitored

LEMMA FramesMonitorIret ==
  ASSUME Inv, Frames, MonitorIret PROVE Frames'
  <1> DEFINE i == Written(RD_EBP)
             j == Written(RD_ESI)
             u == [stack EXCEPT ![i] = stack[GetESP0]]
  <1>1. /\ pc = "gp" /\ Ins.op = "iret" /\ pc' = "gpleave" /\ cpu' = cpu /\ esp0' = esp0
        /\ stack' = [u EXCEPT ![j] = stack[GetESP0 - 3]]
    BY DEF MonitorIret
  <1>2. IsSeq(stack) /\ Len(stack) = esp0 + 17 /\ esp0 \in Nat
    BY <1>1, Sizes, SMT DEF Above
  <1>3. /\ i = esp0 + 12 /\ i \in 1 .. Len(stack)
        /\ j = esp0 + 14 /\ j \in 1 .. Len(stack)
    BY <1>2, SMT DEF Written, GetESP0, RD_NUM_DWORDS, RD_EBP, RD_ESI
  <1> HIDE DEF i, j
  <1>4. PutAt(u, stack, i, stack[GetESP0])
    BY <1>2, <1>3, Putting
  <1> HIDE DEF u
  <1>5. \A k \in 1 .. Len(stack) : k # i /\ k # j => stack'[k] = stack[k]
    <2>1. IsSeq(u) /\ Len(u) = Len(stack)
      BY <1>4 DEF PutAt
    <2>2. PutAt(stack', u, j, stack[GetESP0 - 3])
      BY <2>1, <1>1, <1>3, Putting, Zenon
    <2> QED
      BY <2>1, <2>2, <1>4, Zenon DEF PutAt
  <1>6. Op = "iret" /\ Changed = {"edi", "edx"}
    BY <1>1, Seen DEF Changed
  <1>7. ASSUME NEW r \in Regs \ Changed PROVE stack'[esp0 + Pos[r]] = stack[esp0 + Pos[r]]
    <2>1. Pos[r] \in 1 .. 17 /\ Pos[r] # 12 /\ Pos[r] # 14
      <3>1. r \in Regs /\ r # "edi" /\ r # "edx"
        BY <1>6
      <3>2. RD[18 - Pos[r]] = r /\ Pos[r] \in 1 .. 17
        BY <3>1, Positions
      <3>3. RD[18 - 12] = "edi" /\ RD[18 - 14] = "edx"
        <4>1. "edi" \in Regs /\ "edx" \in Regs /\ Pos["edi"] = 12 /\ Pos["edx"] = 14
          BY RegsAre DEF Pos
        <4> QED
          BY <4>1, Positions, Zenon
      <3> QED
        BY <3>1, <3>2, <3>3, Zenon
    <2>2. esp0 + Pos[r] \in 1 .. Len(stack) /\ esp0 + Pos[r] # i /\ esp0 + Pos[r] # j
      <3>1. 12 \in 1 .. 17 /\ 14 \in 1 .. 17
        BY SMT
      <3> QED
        BY <3>1, <2>1, <1>2, <1>3, InFrame, Zenon
    <2> QED
      BY <2>2, <1>5, Zenon
  <1>8. MovedOn'
    BY <1>1, <1>6, "iret" \notin {"cli", "sti"} DEF MovedOn, Op
  <1> QED
    BY <1>1, <1>7, <1>8, FramesMonitored

\* IRET gives the code the words of the frame, and ring 0 returns to nothing else.
LEMMA IretGives ==
  ASSUME Inv, Iret
  PROVE  /\ pc \in {"gpleave", "irq"} /\ pc' = "v86" /\ calls' = calls
         /\ \A r \in Regs : cpu'[r] = stack[esp0 + Pos[r]]
  <1>1. pc \in {"gpleave", "irq"}
    BY DEF Iret
  <1>2. Len(stack) = esp0 + 17 /\ esp0 \in Nat /\ pc \in Ring0
    BY <1>1, Sizes, SMT DEF Above, Ring0
  <1>3. Saved("eflags").vm = TRUE
    <2>1. Saved("eflags") = stack[Len(stack) - (11 - 1)]
      BY FrameWords, Zenon DEF Saved, At
    <2>2. Len(stack) - (11 - 1) = esp0 + 7
      BY <1>2, SMT
    <2>3. stack[esp0 + 7] = Eflags(TRUE, Top.ints)
      BY <1>2 DEF Inv, Flags
    <2>4. Eflags(TRUE, Top.ints).vm = TRUE
      BY FlagsWord, Zenon
    <2> QED
      BY <2>1, <2>2, <2>3, <2>4, Zenon
  <1>4. cpu' = [r \in Regs |-> Saved(r)] /\ pc' = "v86" /\ calls' = calls
    BY <1>3, Zenon DEF Iret
  <1>5. ASSUME NEW r \in Regs PROVE cpu'[r] = stack[esp0 + Pos[r]]
    <2>1. cpu'[r] = Saved(r)
      BY <1>4, Zenon
    <2> QED
      BY <2>1, <1>2, SavedAt, Zenon
  <1> QED
    BY <1>1, <1>4, <1>5

LEMMA FramesIret ==
  ASSUME Inv, Frames, Iret PROVE Frames'
  <1>1. pc \in {"gpleave", "irq"} /\ pc' = "v86" /\ cpu'["eip"] = stack[esp0 + 9]
    <2>1. "eip" \in Regs /\ Pos["eip"] = 9
      BY RegsAre DEF Pos
    <2> QED
      BY <2>1, IretGives, Zenon
  <1>2. IsCode(stack[esp0 + 9])
    <2>1. IsCode(cpu["eip"])
      BY <1>1 DEF Frames
    <2>2. "eip" \in Regs /\ Pos["eip"] = 9 /\ "eip" \notin {"edi", "edx"}
      BY RegsAre DEF Pos
    <2>3. CASE pc = "irq"
      <3>1. stack[esp0 + 9] = cpu["eip"]
        BY <2>2, <2>3, Zenon DEF Frames, HasImage, ImageOf
      <3> QED
        BY <2>1, <3>1
    <2>4. CASE pc = "gpleave" /\ Op \in {"cli", "sti"}
      BY <2>4 DEF Frames, MovedOn
    <2>5. CASE pc = "gpleave" /\ Op \notin {"cli", "sti"}
      <3>1. "eip" \in Regs \ Changed
        BY <2>2, <2>5, Zenon DEF Changed
      <3>2. stack[esp0 + 9] = cpu["eip"]
        BY <2>2, <2>5, <3>1, Zenon DEF Frames, HasImage, ImageOf
      <3> QED
        BY <2>1, <3>2
    <2> QED
      BY <2>3, <2>4, <2>5, <1>1
  <1> QED
    BY <1>1, <1>2 DEF Frames, IsCode

-----------------------------------------------------------------------------
(* The theorems. *)

LEMMA InitFrames == Init => Frames
  BY Zenon DEF Init, Frames

LEMMA StepFrames == Inv /\ Frames /\ [Next]_vars => Frames'
  <1> SUFFICES ASSUME Inv, Frames, [Next]_vars PROVE Frames'
    OBVIOUS
  <1>1. CASE KernelCall
    BY <1>1, FramesKernelCall
  <1>2. CASE Work
    BY <1>2, FramesWork
  <1>3. CASE GeneralProtectFault
    BY <1>3, FramesFault
  <1>4. CASE Irq
    BY <1>4, FramesIrq
  <1>5. CASE IrqInHandler
    BY <1>5, FramesIrqInHandler
  <1>6. CASE GPStub
    BY <1>6, FramesGPStub
  <1>7. CASE IrqStub
    BY <1>7, FramesIrqStub
  <1>8. CASE MonitorInt
    BY <1>8, FramesMonitorInt
  <1>9. CASE MonitorFlag
    BY <1>9, FramesMonitorFlag
  <1>10. CASE MonitorIret
    BY <1>10, FramesMonitorIret
  <1>11. CASE MonitorOther
    BY <1>11, FramesMonitorOther
  <1>12. CASE Iret
    BY <1>12, FramesIret
  <1>13. CASE IretToHandler
    BY <1>13, FramesIretToHandler
  <1>14. CASE UNCHANGED vars
    BY <1>14 DEF vars, Frames, HasImage, ImageOf, IsCode, Changed, MovedOn, Op
  <1> QED
    BY <1>1, <1>2, <1>3, <1>4, <1>5, <1>6, <1>7, <1>8, <1>9, <1>10, <1>11, <1>12,
       <1>13, <1>14 DEF Next, Handle, Monitor

LEMMA FramesAlways == Spec => [](Inv /\ Frames)
  <1>1. Init => Inv /\ Frames
    BY InitInv, InitFrames
  <1>2. Inv /\ Frames /\ [Next]_vars => (Inv /\ Frames)'
    BY StepInv, StepFrames
  <1> QED
    BY <1>1, <1>2, PTL DEF Spec

\* With the stubs as their comments mean them (Intr_Trap.asm 57, 89-97), whenever
\* the monitor runs it can reach memory, and the instruction it decodes is the one
\* that faulted.  As built it never runs.
THEOREM MonitorSees ==
  ASSUME Stub = AsMeant
  PROVE  Spec => []MonitorSeesFault
  <1>1. Inv /\ Frames => MonitorSeesFault
    BY Seen DEF MonitorSeesFault
  <1> QED
    BY <1>1, FramesAlways, PTL

\* With the stubs as meant, and no add esp,4 in the one of an IRQ, V86 code that was
\* interrupted gets its registers back, but for EDI and EDX after an IRET that did
\* not return, and goes on behind a CLI or STI.
THEOREM Resumes ==
  ASSUME Stub = AsMeant
  PROVE  Spec => ResumesV86
  <1> DEFINE lost == IF pc = "gpleave" /\ Op = "iret" THEN {"edi", "edx"} ELSE {}
             moved == pc = "gpleave" /\ Op \in {"cli", "sti"}
             Back == /\ \A r \in Regs \ (lost \union {"eip"}) : cpu'[r] = cpu[r]
                     /\ cpu'["eip"].place.n = IF moved THEN 1 - cpu["eip"].place.n
                                              ELSE cpu["eip"].place.n
  <1>1. ASSUME Inv, Frames, [Next]_vars, pc # "v86", pc' = "v86", calls' = calls
        PROVE  Back
    <2>1. Iret
      <3>1. Len(calls') = Len(calls) /\ Len(calls) \in Nat
        BY <1>1, SeqLength DEF Inv, Shape
      <3>2. ~KernelCall /\ ~MonitorInt
        <4>1. Len(calls') # Len(calls) + 1
          BY <3>1, SMT
        <4> QED
          BY <4>1, <1>1, FramesKernelCall, FramesMonitorInt
      <3>3. ~Work /\ ~GeneralProtectFault /\ ~Irq
        BY <1>1 DEF Work, GeneralProtectFault, Irq
      <3>4. ~IrqInHandler /\ ~GPStub /\ ~IrqStub /\ ~MonitorFlag /\ ~MonitorIret /\ ~MonitorOther
        BY <1>1, Zenon DEF IrqInHandler, GPStub, SaveAfterFault, FaultInStub, IrqStub,
                           SaveAfterIrq, MonitorFlag, MonitorIret, MonitorOther
      <3>5. ~IretToHandler
        <4>1. ASSUME IretToHandler PROVE FALSE
          <5>1. pc' = "gpleave"
            BY <1>1, <4>1, IretToHandlerGoes
          <5> QED
            BY <5>1, <1>1
        <4> QED
          BY <4>1
      <3>6. ~(UNCHANGED vars)
        BY <1>1 DEF vars
      <3> QED
        BY <3>2, <3>3, <3>4, <3>5, <3>6, <1>1 DEF Next, Handle, Monitor
    <2>2. pc \in {"gpleave", "irq"} /\ \A r \in Regs : cpu'[r] = stack[esp0 + Pos[r]]
      BY <1>1, <2>1, IretGives
    <2>3. "eip" \in Regs /\ Pos["eip"] = 9 /\ "eip" \notin {"edi", "edx"}
      BY RegsAre DEF Pos
    <2>4. CASE pc = "irq"
      <3>1. \A r \in Regs : stack[esp0 + Pos[r]] = cpu[r]
        BY <2>4, <1>1, Zenon DEF Frames, HasImage, ImageOf
      <3>2. ~moved
        BY <2>4
      <3> QED
        BY <2>2, <2>3, <3>1, <3>2, Zenon
    <2>5. CASE pc = "gpleave"
      <3>1. \A r \in Regs \ Changed : stack[esp0 + Pos[r]] = cpu[r]
        BY <2>5, <1>1, Zenon DEF Frames, HasImage, ImageOf
      <3>2. \A r \in Regs \ (lost \union {"eip"}) : r \in Regs \ Changed
        BY <2>5, Zenon DEF Changed
      <3>3. CASE moved
        <4>1. stack[esp0 + 9].place.n = 1 - cpu["eip"].place.n
          BY <3>3, <1>1, Zenon DEF Frames, MovedOn
        <4> QED
          BY <2>2, <2>3, <3>1, <3>2, <3>3, <4>1, Zenon
      <3>4. CASE ~moved
        <4>1. "eip" \in Regs \ Changed
          BY <2>3, <2>5, <3>4, Zenon DEF Changed
        <4> QED
          BY <2>2, <2>3, <3>1, <3>2, <3>4, <4>1, Zenon
      <3> QED
        BY <3>3, <3>4
    <2> QED
      BY <2>2, <2>4, <2>5
  <1>2. Inv /\ Frames /\ [Next]_vars =>
          [pc # "v86" /\ pc' = "v86" /\ calls' = calls => Back]_vars
    BY <1>1
  <1> QED
    BY <1>2, FramesAlways, PTL DEF Spec, ResumesV86

=============================================================================
