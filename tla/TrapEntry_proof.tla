--------------------------- MODULE TrapEntry_proof ---------------------------
(***************************************************************************)
(* Proofs about TrapEntry, for all stubs, exceptions and depths of         *)
(* nesting.                                                                *)
(***************************************************************************)
EXTENDS TrapEntry, SequenceTheorems, TLAPS

\* Continue takes off what was pushed and nothing else.  As built it drops one
\* DWORD more (add esp,4), so of the code as built the theorems speak only where
\* no IRQ stub is in use: exceptions and NMIs nested in the kernel and each other.
NoTail == TailPops = 0 \/ Stubs = {}

\* Of the exceptions that occur, MakeExcept has ERRCODE for those that have one.
CodesAgree == Raised \cap ERRCODE = Raised \cap PushesCode

-----------------------------------------------------------------------------

Spot == [stub : Stubs \union Raised \union {Kernel}, at : 0 .. AtIret]

Word ==
    {Reg(r, v) : r \in GPR \union {"esp"}, v \in Nat}
    \union {Eflags(on) : on \in BOOLEAN}
    \union {Eip(p) : p \in Spot}
    \union {Code(c) : c \in Codes}
    \union {CS, Own}

Activation ==
    [stub : Stubs \union Raised, regs : [GPR -> Word], eip : Spot,
     ints : BOOLEAN, height : Nat,
     own : Stubs \union Raised \union Word,
     got : Stubs \union Word \union {None}]

Types ==
    /\ stack \in Seq(Word)
    /\ regs \in [GPR -> Word]
    /\ eip \in Spot
    /\ ints \in BOOLEAN
    /\ nmi \in BOOLEAN
    /\ errorCode \in Word \union {None}
    /\ theIRQ \in Stubs \union {None}
    /\ acts \in Seq(Activation)

\* Before the error code is popped it lies on top of the frame.
CodeOn(s, a, p) ==
    p.at = AtCode =>
        /\ a.stub \in Stubs \union PushesCode
        /\ a.stub \in PushesCode => s[a.height + 4] = a.own

\* Until the call, and again after each pop, the registers are those of the
\* interrupted code.
RegsOn(a, p, r) ==
    /\ p.at =< AtCall => r = a.regs
    /\ \A j \in 1 .. 8 :
          j =< p.at - 11 /\ RestTrapRegs[j] # "esp"
             => r[RestTrapRegs[j]] = a.regs[RestTrapRegs[j]]

Good(s, a, p, top, r) ==
    FrameOn(s, a, p, top) /\ CodeOn(s, a, p) /\ RegsOn(a, p, r)

AllGood ==
    \A i \in DOMAIN acts :
        Good(stack, acts[i], PlaceOf(i), TopOf(i), RegsOf(i))

\* An activation's words lie below those of all that came later.
Stacked ==
    \A i, j \in DOMAIN acts : i < j => TopOf(i) =< acts[j].height

Base == (IF acts = << >> THEN eip ELSE acts[1].eip) = Place(Kernel, 0)

Inv == Types /\ AllGood /\ Stacked /\ Base

-----------------------------------------------------------------------------
(* The words and the sequences of registers *)

LEMMA Words ==
    /\ CS \in Word /\ Own \in Word
    /\ \A on \in BOOLEAN : Eflags(on) \in Word
    /\ \A p \in Spot : Eip(p) \in Word
    /\ \A c \in Codes : Code(c) \in Word
    /\ \A r \in GPR, v \in Nat : Reg(r, v) \in Word
    /\ Reg("esp", 0) \in Word
<1>1. \A r \in GPR \union {"esp"}, v \in Nat : Reg(r, v) \in Word
  BY DEF Word
<1>2. QED
  BY <1>1 DEF Word

\* What SaveTrapRegs pushes at one place RestTrapRegs pops at the mirrored one.
LEMMA Mirror ==
    \A j \in 1 .. 8 :
        /\ SaveTrapRegs[j] \in GPR \union {"esp"}
        /\ RestTrapRegs[9 - j] = SaveTrapRegs[j]
<1> SUFFICES ASSUME NEW j \in 1 .. 8
             PROVE  /\ SaveTrapRegs[j] \in GPR \union {"esp"}
                    /\ RestTrapRegs[9 - j] = SaveTrapRegs[j]
  OBVIOUS
<1>1. j \in {1, 2, 3, 4, 5, 6, 7, 8}
  OBVIOUS
<1>2. QED
  BY <1>1 DEF SaveTrapRegs, RestTrapRegs, GPR

LEMMA Domains == DOMAIN SaveTrapRegs = 1 .. 8 /\ DOMAIN RestTrapRegs = 1 .. 8
BY DEF SaveTrapRegs, RestTrapRegs

\* The seven pops bring back every register.
LEMMA Covered == \A r \in GPR : \E j \in 1 .. 8 : RestTrapRegs[j] = r
<1> SUFFICES ASSUME NEW r \in GPR PROVE \E j \in 1 .. 8 : RestTrapRegs[j] = r
  OBVIOUS
<1>1. /\ RestTrapRegs[1] = "eax" /\ RestTrapRegs[2] = "ebx" /\ RestTrapRegs[3] = "ecx"
      /\ RestTrapRegs[4] = "edx" /\ RestTrapRegs[5] = "esi" /\ RestTrapRegs[6] = "edi"
      /\ RestTrapRegs[8] = "ebp"
  BY DEF RestTrapRegs
<1>2. QED
  BY <1>1 DEF GPR

-----------------------------------------------------------------------------
(* One activation, one step of its stub *)

\* Words above an activation's own do not matter to it.
LEMMA Above ==
    ASSUME NEW s, NEW s2, NEW a \in Activation, NEW p \in Spot, NEW top \in Nat,
           NEW r, Good(s, a, p, top, r),
           \A k \in 1 .. top : s2[k] = s[k]
    PROVE  Good(s2, a, p, top, r)
<1> DEFINE h == a.height
           f == h + Pushed(a, p)
<1>1. h \in Nat /\ f \in {h + 3, h + 4} /\ Saved(p) \in 0 .. 8 /\ top = f + Saved(p)
  BY DEF Good, FrameOn, Activation, Spot, Pushed, Saved, AtCode, AtCall, AtBody, AtIret
<1>2. s2[h + 1] = s[h + 1] /\ s2[h + 3] = s[h + 3]
  BY <1>1
<1>3. \A j \in 1 .. Saved(p) : s2[f + j] = s[f + j]
  BY <1>1
<1>4. p.at = AtCode /\ a.stub \in PushesCode => s2[h + 4] = s[h + 4]
  BY <1>1 DEF Pushed
<1>5. FrameOn(s2, a, p, top)
  BY <1>2, <1>3 DEF Good, FrameOn
<1>6. CodeOn(s2, a, p)
  BY <1>4 DEF Good, CodeOn
<1>7. QED
  BY <1>5, <1>6 DEF Good

\* A stack of n words holds a frame on h words of others: x saved registers on
\* the three words of the processor, at place at of the stub.  One more is y.
PushSum(n, h, at, x, y) ==
    h \in Nat /\ at \in 1 .. 8 /\ x = at - 1 /\ y = at /\ n = h + 3 + x
InFrame(n, h, x) ==
    /\ h + 1 \in 1 .. n /\ h + 3 \in 1 .. n
    /\ \A j \in 1 .. x : h + 3 + j \in 1 .. n

LEMMA PushHeights ==
    \A n, h, at, x, y :
        PushSum(n, h, at, x, y) => n + 1 = h + 3 + y /\ InFrame(n, h, x)
BY DEF PushSum, InFrame

\* The same where the registers are taken off again, and one less is y.
PopSum(n, h, at, y) ==
    h \in Nat /\ at \in 11 .. 18 /\ n = h + 3 + (19 - at) /\ y = 18 - at

LEMMA PopHeights ==
    \A n, h, at, y :
        PopSum(n, h, at, y)
           => /\ n \in Nat /\ n - 1 \in Nat /\ n \in 1 .. n
              /\ n - 1 = h + 3 + y /\ y \in 0 .. 7 /\ InFrame(n - 1, h, y)
BY DEF PopSum, InFrame

LEMMA Earlier ==
    \A j, at : j \in 1 .. 8 /\ j # at - 10 /\ at \in 11 .. 18 /\ j =< (at + 1) - 11
                 => j =< at - 11
OBVIOUS

\* The next place of a stub is a place, too.
LEMMA NextSpot ==
    \A p \in Spot : p.at \in 1 .. 18 => [p EXCEPT !.at = @ + 1] \in Spot
BY DEF Spot, AtIret

\* A push of SaveTrapRegs.
LEMMA PushGood ==
    ASSUME NEW s \in Seq(Word), NEW a \in Activation, NEW p \in Spot,
           NEW r \in [GPR -> Word], Good(s, a, p, Len(s), r), p.at \in 1 .. 8,
           NEW w \in Word,
           w = IF SaveTrapRegs[p.at] = "esp" THEN Reg("esp", 0) ELSE r[SaveTrapRegs[p.at]]
    PROVE  Good(Append(s, w), a, [p EXCEPT !.at = @ + 1], Len(s) + 1, r)
<1> DEFINE h == a.height
           q == [p EXCEPT !.at = @ + 1]
           s2 == Append(s, w)
<1>1. q \in Spot /\ q.at = p.at + 1 /\ q.stub = p.stub
  BY DEF Spot, AtIret
<1>2. h \in Nat /\ Pushed(a, p) = 3 /\ Pushed(a, q) = 3 /\ Saved(p) = p.at - 1 /\ Saved(q) = p.at
  BY <1>1 DEF Activation, Pushed, Saved, AtCode, AtCall, AtBody
<1>3. Len(s) = h + 3 + Saved(p)
  BY <1>2 DEF Good, FrameOn
<1>11. Len(s) + 1 = h + 3 + Saved(q) /\ InFrame(Len(s), h, Saved(p))
  <2>1. PushSum(Len(s), h, p.at, Saved(p), Saved(q))
    BY <1>2, <1>3, Zenon DEF PushSum
  <2>2. QED
    BY <2>1, PushHeights, Zenon
<1>4. s2[Len(s) + 1] = w /\ \A k \in 1 .. Len(s) : s2[k] = s[k]
  OBVIOUS
<1>5. r = a.regs
  BY DEF Good, RegsOn, AtCall
<1>6. ASSUME NEW j \in 1 .. Saved(q), SaveTrapRegs[j] # "esp"
      PROVE  s2[h + 3 + j] = a.regs[SaveTrapRegs[j]]
  <2>1. CASE j = p.at
    <3>1. h + 3 + j = Len(s) + 1
      BY <2>1, <1>2, <1>3
    <3>2. s2[h + 3 + j] = w
      BY <3>1, <1>4
    <3>3. w = r[SaveTrapRegs[j]]
      BY <2>1, <1>6
    <3>4. QED
      BY <3>2, <3>3, <1>5
  <2>2. CASE j # p.at
    <3>1. j \in 1 .. Saved(p)
      BY <2>2, <1>2
    <3>4. h + 3 + j \in 1 .. Len(s)
      BY <3>1, <1>11, Zenon DEF InFrame
    <3>2. s[h + 3 + j] = a.regs[SaveTrapRegs[j]]
      BY <3>1, <1>2, <1>6 DEF Good, FrameOn
    <3>3. QED
      BY <3>4, <3>2, <1>4
  <2>3. QED
    BY <2>1, <2>2
<1>7. s2[h + 1] = Eflags(a.ints) /\ s2[h + 3] = Eip(a.eip)
  <2>1. h + 1 \in 1 .. Len(s) /\ h + 3 \in 1 .. Len(s)
    BY <1>11, Zenon DEF InFrame
  <2>2. s2[h + 1] = s[h + 1] /\ s2[h + 3] = s[h + 3]
    BY <2>1, <1>4
  <2>3. QED
    BY <2>2 DEF Good, FrameOn
<1>8. FrameOn(s2, a, q, Len(s) + 1)
  <2>1. q.stub = a.stub
    BY <1>1 DEF Good, FrameOn
  <2>3. Len(s) + 1 = h + 3 + Saved(q)
    BY <1>11, Zenon
  <2>2. QED
    BY <2>1, <2>3, <1>2, <1>6, <1>7 DEF FrameOn
<1>9. CodeOn(s2, a, q) /\ RegsOn(a, q, r)
  BY <1>1, <1>5 DEF CodeOn, RegsOn, AtCode, AtCall
<1>10. QED
  BY <1>8, <1>9 DEF Good

\* The word that RestTrapRegs takes next.
LEMMA PopWord ==
    ASSUME NEW s \in Seq(Word), NEW a \in Activation, NEW p \in Spot, NEW r,
           Good(s, a, p, Len(s), r), p.at - AtBody \in 1 .. 8
    PROVE  /\ Len(s) = a.height + 3 + (AtIret - p.at)
           /\ RestTrapRegs[p.at - AtBody] # "esp" =>
                 s[Len(s)] = a.regs[RestTrapRegs[p.at - AtBody]]
<1>1. p.at \in 11 .. 18 /\ a.height \in Nat
  BY DEF Spot, AtBody, AtIret, Activation
<1>2. Pushed(a, p) = 3 /\ Saved(p) = 19 - p.at
  BY <1>1 DEF Pushed, Saved, AtCode, AtCall, AtBody, AtIret
<1>3. Len(s) = a.height + 3 + Saved(p)
  BY <1>2 DEF Good, FrameOn
<1>9. Saved(p) \in 1 .. 8
  BY <1>1, <1>2
<1>4. RestTrapRegs[9 - Saved(p)] = SaveTrapRegs[Saved(p)]
  BY <1>9, Mirror
<1>5. 9 - Saved(p) = p.at - AtBody
  BY <1>1, <1>2 DEF AtBody
<1>6. Saved(p) \in 1 .. Saved(p)
  BY <1>9
<1>7. SaveTrapRegs[Saved(p)] # "esp" => s[a.height + 3 + Saved(p)] = a.regs[SaveTrapRegs[Saved(p)]]
  BY <1>2, <1>6 DEF Good, FrameOn
<1>8. QED
  BY <1>2, <1>3, <1>4, <1>5, <1>7 DEF AtIret

\* While registers are still to be popped, something is above the frame.
LEMMA Heights ==
    ASSUME NEW n \in Nat, NEW h \in Nat, NEW at \in 11 .. 18, n = h + 3 + (19 - at)
    PROVE  n - 1 >= h /\ 1 <= n - 1 /\ n - 1 - 1 + 1 = n - 1
OBVIOUS

\* The registers after a pop, and what a pop leaves on the stack.
RegsPopped(s, p, r) ==
    IF RestTrapRegs[p.at - AtBody] = "esp" THEN r
    ELSE [r EXCEPT ![RestTrapRegs[p.at - AtBody]] = s[Len(s)]]
Left(s, s2, a, q, r2) ==
    /\ s2 \in Seq(Word) /\ Len(s2) = Len(s) - 1 /\ Len(s2) >= a.height
    /\ \A k \in 1 .. Len(s2) : s2[k] = s[k]
    /\ r2 \in [GPR -> Word]
    /\ Good(s2, a, q, Len(s2), r2)

\* A pop of RestTrapRegs.
LEMMA PopGood ==
    \A s \in Seq(Word), a \in Activation, p \in Spot, r \in [GPR -> Word] :
        Good(s, a, p, Len(s), r) /\ p.at - AtBody \in 1 .. 8
           => Left(s, SubSeq(s, 1, Len(s) - 1), a, [p EXCEPT !.at = @ + 1], RegsPopped(s, p, r))
<1> SUFFICES ASSUME NEW s \in Seq(Word), NEW a \in Activation, NEW p \in Spot,
                    NEW r \in [GPR -> Word], Good(s, a, p, Len(s), r), p.at - AtBody \in 1 .. 8,
                    NEW s2, s2 = SubSeq(s, 1, Len(s) - 1),
                    NEW r2, r2 = IF RestTrapRegs[p.at - AtBody] = "esp" THEN r
                                 ELSE [r EXCEPT ![RestTrapRegs[p.at - AtBody]] = s[Len(s)]]
             PROVE  Left(s, s2, a, [p EXCEPT !.at = @ + 1], r2)
  BY Zenon DEF RegsPopped
<1> DEFINE h == a.height
           q == [p EXCEPT !.at = @ + 1]
           now == RestTrapRegs[p.at - AtBody]
<1>1. p.at \in 11 .. 18 /\ h \in Nat /\ q.at = p.at + 1 /\ q.stub = p.stub
  BY DEF Spot, AtBody, AtIret, Activation
<1>2. /\ Pushed(a, p) = 3 /\ Saved(p) = 19 - p.at
      /\ Pushed(a, q) = 3 /\ Saved(q) = 18 - p.at
  <2>1. Pushed(a, p) = 3 /\ Saved(p) = 19 - p.at
    BY <1>1 DEF Pushed, Saved, AtCode, AtCall, AtBody, AtIret
  <2>2. q.at \in 12 .. 19 /\ 19 - q.at = 18 - p.at
    BY <1>1, SMTT(60)
  <2> HIDE DEF q
  <2>3. Pushed(a, q) = 3 /\ Saved(q) = 19 - q.at
    BY <2>2 DEF Pushed, Saved, AtCode, AtCall, AtBody, AtIret
  <2>4. QED
    BY <2>1, <2>2, <2>3, Zenon
<1>3. Len(s) = h + 3 + (19 - p.at) /\ (now # "esp" => s[Len(s)] = a.regs[now])
  BY PopWord DEF AtIret
<1>13. /\ Len(s) \in Nat /\ Len(s) - 1 \in Nat /\ Len(s) \in 1 .. Len(s)
       /\ Len(s) - 1 = h + 3 + Saved(q) /\ Saved(q) \in 0 .. 7
       /\ InFrame(Len(s) - 1, h, Saved(q))
  <2>1. PopSum(Len(s), h, p.at, Saved(q))
    BY <1>1, <1>2, <1>3, Zenon DEF PopSum
  <2>2. QED
    BY <2>1, PopHeights, Zenon
<1>12. Len(s) - 1 >= h /\ 1 <= Len(s) - 1 /\ Len(s) - 1 - 1 + 1 = Len(s) - 1
  <2>1. Len(s) \in Nat /\ Len(s) = h + 3 + (19 - p.at)
    BY <1>3, <1>13, Zenon
  <2>2. \A n, g, at : n \in Nat /\ g \in Nat /\ at \in 11 .. 18 /\ n = g + 3 + (19 - at)
           => n - 1 >= g /\ 1 <= n - 1 /\ n - 1 - 1 + 1 = n - 1
    BY Heights
  <2>3. QED
    BY <2>1, <2>2, <1>1, Zenon
<1>4. /\ s2 \in Seq(Word) /\ Len(s2) = Len(s) - 1
      /\ \A k \in 1 .. Len(s2) : s2[k] = s[k]
  <2>1. Len(s) - 1 \in Nat /\ Len(s) \in Nat
    BY <1>13, Zenon
  <2>2. \A i \in 1 .. Len(s) - 1 : s[i] \in Word
    BY <2>1
  <2>3. 1 \in Int /\ Len(s) - 1 \in Int
    BY <2>1
  <2>4. /\ SubSeq(s, 1, Len(s) - 1) \in Seq(Word)
        /\ Len(SubSeq(s, 1, Len(s) - 1)) = IF 1 <= Len(s) - 1 THEN Len(s) - 1 - 1 + 1 ELSE 0
        /\ \A i \in 1 .. Len(s) - 1 - 1 + 1 : SubSeq(s, 1, Len(s) - 1)[i] = s[1 + i - 1]
    BY <2>2, <2>3, SubSeqProperties
  <2>5. Len(s2) = Len(s) - 1
    BY <1>12, <2>4
  <2>6. ASSUME NEW k \in 1 .. Len(s2) PROVE s2[k] = s[k]
    BY <2>1, <2>4, <2>5
  <2>7. QED
    BY <2>4, <2>5, <2>6
<1>5. now \in GPR \union {"esp"} /\ s[Len(s)] \in Word
  <2>1. 9 - (p.at - AtBody) \in 1 .. 8 /\ 9 - (9 - (p.at - AtBody)) = p.at - AtBody
    BY <1>1 DEF AtBody
  <2>2. now \in GPR \union {"esp"}
    BY <2>1, Mirror
  <2>3. Len(s) \in 1 .. Len(s)
    BY <1>13, Zenon
  <2>4. QED
    BY <2>2, <2>3
<1>6. r2 \in [GPR -> Word]
  BY <1>5
<1>7. FrameOn(s2, a, q, Len(s2))
  <2>1. q.stub = a.stub
    BY <1>1 DEF Good, FrameOn
  <2>8. Len(s2) = Len(s) - 1
    BY <1>4, Zenon
  <2>5. Len(s2) = h + 3 + Saved(q)
    BY <1>13, <2>8, Zenon
  <2>6. h + 1 \in 1 .. Len(s2) /\ h + 3 \in 1 .. Len(s2)
    BY <1>13, <2>8, Zenon DEF InFrame
  <2>7. s2[h + 1] = s[h + 1] /\ s2[h + 3] = s[h + 3]
    BY <1>4, <2>6
  <2>2. s2[h + 1] = Eflags(a.ints) /\ s2[h + 3] = Eip(a.eip)
    BY <2>7 DEF Good, FrameOn
  <2>3. ASSUME NEW j \in 1 .. Saved(q), SaveTrapRegs[j] # "esp"
        PROVE  s2[h + 3 + j] = a.regs[SaveTrapRegs[j]]
    <3>5. \A at, i : at \in 11 .. 18 /\ i \in 1 .. 18 - at => i \in 1 .. 19 - at
      OBVIOUS
    <3>6. j \in 1 .. 18 - p.at
      BY <1>2, Zenon
    <3>7. j \in 1 .. 19 - p.at
      BY <1>1, <3>5, <3>6, Zenon
    <3>1. j \in 1 .. Saved(p)
      BY <1>2, <3>7, Zenon
    <3>4. h + 3 + j \in 1 .. Len(s2)
      BY <1>13, <2>8, Zenon DEF InFrame
    <3>2. s[h + 3 + j] = a.regs[SaveTrapRegs[j]]
      BY <3>1, <1>2, <2>3 DEF Good, FrameOn
    <3>3. QED
      BY <3>4, <3>2, <1>4
  <2>4. QED
    BY <2>1, <2>2, <2>3, <2>5, <1>2 DEF FrameOn
<1>8. CodeOn(s2, a, q)
  BY <1>1 DEF CodeOn, AtCode
<1>9. RegsOn(a, q, r2)
  <2>1. ~(q.at =< AtCall)
    BY <1>1 DEF AtCall
  <2>2. ASSUME NEW j \in 1 .. 8, j =< q.at - 11, RestTrapRegs[j] # "esp"
        PROVE  r2[RestTrapRegs[j]] = a.regs[RestTrapRegs[j]]
    <3>1. CASE RestTrapRegs[j] = now
      <4>1. now \in GPR
        BY <1>5, <2>2, <3>1
      <4>2. r2[now] = s[Len(s)]
        BY <2>2, <3>1, <4>1
      <4>3. QED
        BY <1>3, <2>2, <3>1, <4>2
    <3>2. CASE RestTrapRegs[j] # now
      <4>5. j # p.at - AtBody
        BY <3>2
      <4>7. j \in 1 .. 8 /\ j # p.at - 10 /\ p.at \in 11 .. 18
        BY <4>5, <1>1, Zenon DEF AtBody
      <4>8. j =< (p.at + 1) - 11
        BY <1>1, <2>2, Zenon
      <4>1. j =< p.at - 11
        BY <4>7, <4>8, Earlier, Zenon
      <4>2. r[RestTrapRegs[j]] = a.regs[RestTrapRegs[j]]
        BY <2>2, <4>1 DEF Good, RegsOn
      <4>3. RestTrapRegs[j] \in GPR
        BY <2>2 DEF RestTrapRegs, GPR
      <4>4. QED
        BY <3>2, <4>2, <4>3
    <3>3. QED
      BY <3>1, <3>2
  <2>3. QED
    BY <2>1, <2>2 DEF RegsOn
<1>10. Len(s2) >= h
  BY <1>4, <1>12
<1>11. QED
  BY <1>4, <1>6, <1>7, <1>8, <1>9, <1>10 DEF Good, Left

\* The pop of the error code.
LEMMA PopCodeGood ==
    \A s \in Seq(Word), a \in Activation, p \in Spot, r \in [GPR -> Word] :
        Good(s, a, p, Len(s), r) /\ p.at = AtCode /\ a.stub \in PushesCode
           => /\ Left(s, SubSeq(s, 1, Len(s) - 1), a, [p EXCEPT !.at = 1], r)
              /\ s[Len(s)] = a.own /\ s[Len(s)] \in Word
<1> SUFFICES ASSUME NEW s \in Seq(Word), NEW a \in Activation, NEW p \in Spot,
                    NEW r \in [GPR -> Word], Good(s, a, p, Len(s), r),
                    p.at = AtCode, a.stub \in PushesCode,
                    NEW s2, s2 = SubSeq(s, 1, Len(s) - 1)
             PROVE  /\ Left(s, s2, a, [p EXCEPT !.at = 1], r)
                    /\ s[Len(s)] = a.own /\ s[Len(s)] \in Word
  BY Zenon
<1> DEFINE h == a.height
           q == [p EXCEPT !.at = 1]
<1>1. h \in Nat /\ q.at = 1 /\ q.stub = p.stub
  BY DEF Spot, Activation
<1>2. Pushed(a, p) = 4 /\ Saved(p) = 0 /\ Pushed(a, q) = 3 /\ Saved(q) = 0
  BY <1>1 DEF Pushed, Saved, AtCode, AtCall
<1>3. Len(s) = h + 4
  BY <1>1, <1>2 DEF Good, FrameOn
<1>4. s[Len(s)] = a.own
  BY <1>3 DEF Good, CodeOn
<1>5. \A i \in 1 .. Len(s) : s[i] \in Word
  OBVIOUS
<1>6. Len(s) \in Nat /\ 1 <= Len(s) - 1 /\ Len(s) - 1 - 1 + 1 = Len(s) - 1 /\ Len(s) - 1 >= h
  BY <1>1, <1>3
<1>7. \A i \in 1 .. Len(s) - 1 : s[i] \in Word
  BY <1>5, <1>6
<1>8. /\ SubSeq(s, 1, Len(s) - 1) \in Seq(Word)
      /\ Len(SubSeq(s, 1, Len(s) - 1)) = IF 1 <= Len(s) - 1 THEN Len(s) - 1 - 1 + 1 ELSE 0
      /\ \A i \in 1 .. Len(s) - 1 - 1 + 1 : SubSeq(s, 1, Len(s) - 1)[i] = s[1 + i - 1]
  <2>1. 1 \in Int /\ Len(s) - 1 \in Int
    BY <1>6
  <2>2. QED
    BY <2>1, <1>7, SubSeqProperties
<1>9. Len(s2) = Len(s) - 1 /\ s2 \in Seq(Word)
  BY <1>6, <1>8
<1>10. \A k \in 1 .. Len(s2) : s2[k] = s[k]
  BY <1>6, <1>8, <1>9
<1>11. h + 1 \in 1 .. Len(s2) /\ h + 3 \in 1 .. Len(s2)
  BY <1>1, <1>3, <1>9
<1>12. FrameOn(s2, a, q, Len(s2))
  <2>1. s2[h + 1] = s[h + 1] /\ s2[h + 3] = s[h + 3]
    BY <1>10, <1>11
  <2>2. Len(s2) = h + 3 + Saved(q)
    BY <1>1, <1>2, <1>3, <1>9
  <2>3. q.stub = a.stub /\ s2[h + 1] = Eflags(a.ints) /\ s2[h + 3] = Eip(a.eip)
    BY <2>1, <1>1 DEF Good, FrameOn
  <2>4. \A j \in 1 .. Saved(q) : FALSE
    BY <1>2
  <2>5. Len(s2) = h + Pushed(a, q) + Saved(q)
    BY <2>2, <1>2
  <2>6. QED
    BY <2>3, <2>4, <2>5 DEF FrameOn
<1>13. CodeOn(s2, a, q) /\ RegsOn(a, q, r)
  BY <1>1 DEF Good, CodeOn, RegsOn, AtCode, AtCall
<1>14. s[Len(s)] \in Word
  BY <1>5, <1>6
<1>15. QED
  BY <1>4, <1>6, <1>9, <1>10, <1>12, <1>13, <1>14 DEF Good, Left

\* Steps of a stub that leave the stack alone: TheIRQ is stored, the C function
\* is called, and it returns.
LEMMA StayGood ==
    ASSUME NEW s, NEW a \in Activation, NEW p \in Spot, NEW top, NEW r,
           Good(s, a, p, top, r),
           NEW q \in Spot, q.stub = p.stub,
           \/ p.at = AtCode /\ q.at = 1 /\ a.stub \notin PushesCode
           \/ p.at = AtCall /\ q.at = AtBody
           \/ p.at = AtBody /\ q.at = AtBody + 1,
           NEW r2, p.at = AtCode => r2 = r,
           NEW b, b.stub = a.stub, b.regs = a.regs, b.eip = a.eip, b.ints = a.ints,
           b.height = a.height, b.own = a.own
    PROVE  Good(s, b, q, top, r2)
<1>1. Saved(q) = Saved(p) /\ Pushed(b, q) = Pushed(a, p)
  BY DEF Saved, Pushed, AtCode, AtCall, AtBody, AtIret
<1>2. FrameOn(s, b, q, top)
  BY <1>1 DEF Good, FrameOn
<1>3. CodeOn(s, b, q)
  BY DEF CodeOn, AtCode, AtCall, AtBody
<1>4. RegsOn(b, q, r2)
  BY DEF Good, RegsOn, AtCode, AtCall, AtBody
<1>5. QED
  BY <1>2, <1>3, <1>4 DEF Good

\* Where the words of two sequences are in their concatenation.
LEMMA Joined ==
    ASSUME NEW s \in Seq(Word), NEW t \in Seq(Word)
    PROVE  /\ s \o t \in Seq(Word)
           /\ Len(s \o t) = Len(s) + Len(t)
           /\ \A k \in 1 .. Len(s) : (s \o t)[k] = s[k]
           /\ \A k \in 1 .. Len(t) : (s \o t)[Len(s) + k] = t[k]
<1>1. /\ s \o t \in Seq(Word)
      /\ Len(s \o t) = Len(s) + Len(t)
      /\ \A i \in 1 .. Len(s) + Len(t) :
            (s \o t)[i] = IF i <= Len(s) THEN s[i] ELSE t[i - Len(s)]
  BY ConcatProperties
<1>2. Len(s) \in Nat /\ Len(t) \in Nat
  OBVIOUS
<1>3. ASSUME NEW k \in 1 .. Len(s) PROVE (s \o t)[k] = s[k]
  BY <1>1, <1>2
<1>4. ASSUME NEW k \in 1 .. Len(t) PROVE (s \o t)[Len(s) + k] = t[k]
  <2>1. Len(s) + k \in 1 .. Len(s) + Len(t) /\ ~(Len(s) + k <= Len(s)) /\ Len(s) + k - Len(s) = k
    BY <1>2
  <2>2. QED
    BY <1>1, <2>1
<1>5. QED
  BY <1>1, <1>3, <1>4

\* The words the processor pushes whatever the cause.
Frame(a) == <<Eflags(a.ints), CS, Eip(a.eip)>>

\* The stub starts where its frame has its error code, or has none.
Fits(a, p, codes) ==
    /\ p.stub = a.stub
    /\ p.at \in {AtCode, 1}
    /\ \/ codes = << >> /\ (p.at = 1 \/ a.stub \in Stubs \ PushesCode)
       \/ p.at = AtCode /\ a.stub \in PushesCode /\ Len(codes) = 1 /\ codes[1] = a.own

\* The stack after the entry of activation a, and what it is to be like.
Entered(s, a, codes) == (s \o Frame(a)) \o codes
OnTop(s, s2, a, p) ==
    /\ s2 \in Seq(Word) /\ Len(s2) >= Len(s)
    /\ \A k \in 1 .. Len(s) : s2[k] = s[k]
    /\ Good(s2, a, p, Len(s2), a.regs)

\* A new activation, with and without error code.
LEMMA NewGood ==
    \A s \in Seq(Word), codes \in Seq(Word), a \in Activation, p \in Spot :
        Fits(a, p, codes) /\ a.height = Len(s) => OnTop(s, Entered(s, a, codes), a, p)
<1> SUFFICES ASSUME NEW s \in Seq(Word), NEW codes \in Seq(Word),
                    NEW a \in Activation, NEW p \in Spot, Fits(a, p, codes),
                    a.height = Len(s), NEW s2, s2 = (s \o Frame(a)) \o codes
             PROVE  OnTop(s, s2, a, p)
  BY DEF Entered
<1> DEFINE f == Frame(a)
<1>1. f \in Seq(Word) /\ Len(f) = 3
  <2>1. Eflags(a.ints) \in Word /\ CS \in Word /\ Eip(a.eip) \in Word
    BY Words DEF Activation
  <2>2. QED
    BY <2>1 DEF Frame
<1>2. f[1] = Eflags(a.ints) /\ f[3] = Eip(a.eip)
  BY DEF Frame
<1>3. /\ s \o f \in Seq(Word) /\ Len(s \o f) = Len(s) + 3
      /\ \A k \in 1 .. Len(s) : (s \o f)[k] = s[k]
      /\ (s \o f)[Len(s) + 1] = f[1]
      /\ (s \o f)[Len(s) + 3] = f[3]
  <2> HIDE DEF f
  <2>1. /\ s \o f \in Seq(Word)
        /\ Len(s \o f) = Len(s) + Len(f)
        /\ \A k \in 1 .. Len(s) : (s \o f)[k] = s[k]
        /\ \A k \in 1 .. Len(f) : (s \o f)[Len(s) + k] = f[k]
    BY <1>1, Joined, Zenon
  <2>2. 1 \in 1 .. Len(f) /\ 3 \in 1 .. Len(f)
    BY <1>1
  <2>3. QED
    BY <1>1, <2>1, <2>2
<1>4. /\ s2 \in Seq(Word) /\ Len(s2) = Len(s) + 3 + Len(codes)
      /\ \A k \in 1 .. Len(s) + 3 : s2[k] = (s \o f)[k]
      /\ Len(codes) > 0 => s2[Len(s) + 4] = codes[1]
  <2>1. s2 = (s \o f) \o codes
    OBVIOUS
  <2> DEFINE g == s \o f
  <2>2. g \in Seq(Word) /\ Len(g) = Len(s) + 3 /\ s2 = g \o codes
    BY <2>1, <1>3
  <2> HIDE DEF g, f
  <2>3. /\ g \o codes \in Seq(Word) /\ Len(g \o codes) = Len(g) + Len(codes)
        /\ \A k \in 1 .. Len(g) : (g \o codes)[k] = g[k]
        /\ \A k \in 1 .. Len(codes) : (g \o codes)[Len(g) + k] = codes[k]
    BY <2>2, Joined, Zenon
  <2>6. Len(codes) > 0 => 1 \in 1 .. Len(codes)
    BY LenProperties
  <2>4. Len(s) \in Nat /\ Len(g) + 1 = Len(s) + 4
    BY <2>2
  <2>5. QED
    BY <2>2, <2>3, <2>4, <2>6 DEF g
<1>5. Pushed(a, p) = 3 + Len(codes) /\ Saved(p) = 0
  BY EmptySeq DEF Fits, Pushed, Saved, AtCode, AtCall
<1>6. FrameOn(s2, a, p, Len(s2))
  <2>1. Len(s) + 1 \in 1 .. Len(s) + 3 /\ Len(s) + 3 \in 1 .. Len(s) + 3
    OBVIOUS
  <2>2. s2[Len(s) + 1] = Eflags(a.ints) /\ s2[Len(s) + 3] = Eip(a.eip)
    BY <2>1, <1>2, <1>3, <1>4
  <2>3. Len(s2) = Len(s) + Pushed(a, p) + Saved(p)
    BY <1>4, <1>5
  <2>4. QED
    BY <2>2, <2>3, <1>5 DEF FrameOn, Fits
<1>7. CodeOn(s2, a, p)
  BY <1>4 DEF CodeOn, AtCode, Fits
<1>8. RegsOn(a, p, a.regs)
  BY DEF RegsOn, AtCode, AtCall, Fits
<1>9. Len(s2) >= Len(s) /\ \A k \in 1 .. Len(s) : s2[k] = s[k]
  <2>1. \A k \in 1 .. Len(s) : k \in 1 .. Len(s) + 3
    OBVIOUS
  <2>2. QED
    BY <2>1, <1>3, <1>4
<1>10. QED
  BY <1>4, <1>6, <1>7, <1>8, <1>9 DEF Good, OnTop

-----------------------------------------------------------------------------
(* The pile of activations *)

\* What the invariant says of the activation that runs.
LEMMA Running ==
    ASSUME Inv, acts # << >>
    PROVE  /\ Len(acts) \in Nat /\ Len(acts) \in DOMAIN acts /\ Len(acts) >= 1
           /\ This \in Activation
           /\ Good(stack, This, eip, Len(stack), regs)
           /\ eip.stub = This.stub /\ eip.stub \in Stubs \union Raised
           /\ eip.stub # Kernel
<1>1. Len(acts) \in Nat /\ Len(acts) \in DOMAIN acts /\ Len(acts) >= 1
  BY DEF Inv, Types
<1>2. This \in Activation
  BY <1>1 DEF Inv, Types, This
<1>3. Good(stack, This, eip, Len(stack), regs)
  BY <1>1 DEF Inv, AllGood, PlaceOf, TopOf, RegsOf, This
<1>4. eip.stub = This.stub
  BY <1>3 DEF Good, FrameOn
<1>5. This.stub \in Stubs \union Raised
  BY <1>2 DEF Activation
<1>6. Kernel \notin Stubs \union Raised
  BY TrapAssumption DEF Exceptions, Kernel
<1>7. QED
  BY <1>1, <1>2, <1>3, <1>4, <1>5, <1>6

\* A stub runs only in an activation.
LEMMA StubRuns ==
    ASSUME Inv, eip.stub # Kernel \/ eip.at # 0
    PROVE  acts # << >>
BY DEF Inv, Base, Place

\* The activations below the running one keep to themselves.
LEMMA Lower ==
    ASSUME Inv, NEW i \in DOMAIN acts
    PROVE  /\ acts[i] \in Activation /\ PlaceOf(i) \in Spot
           /\ TopOf(i) \in Nat /\ TopOf(i) =< Len(stack)
           /\ Good(stack, acts[i], PlaceOf(i), TopOf(i), RegsOf(i))
           /\ i < Len(acts) => TopOf(i) =< This.height
<1>1. i \in 1 .. Len(acts) /\ acts[i] \in Activation /\ Len(acts) \in Nat
  BY DEF Inv, Types
<1>2. i < Len(acts) => i + 1 \in DOMAIN acts /\ acts[i + 1] \in Activation
  BY <1>1 DEF Inv, Types
<1>3. PlaceOf(i) \in Spot /\ TopOf(i) \in Nat
  BY <1>1, <1>2 DEF PlaceOf, TopOf, Inv, Types, Activation
<1>4. Good(stack, acts[i], PlaceOf(i), TopOf(i), RegsOf(i))
  BY DEF Inv, AllGood
<1>5. i < Len(acts) => TopOf(i) =< This.height
  BY <1>1 DEF Inv, Stacked, This, Types
<1>6. TopOf(i) =< Len(stack)
  <2>1. CASE i = Len(acts)
    BY <2>1 DEF TopOf, Inv, Types
  <2>2. CASE i < Len(acts)
    <3>1. acts # << >>
      BY <1>1
    <3>2. Len(stack) = This.height + Pushed(This, eip) + Saved(eip) /\ This.height \in Nat
      BY <3>1, Running DEF Good, FrameOn, Activation
    <3>6. eip.at \in 0 .. 19
      BY DEF Inv, Types, Spot, AtIret
    <3>3. Pushed(This, eip) \in {3, 4} /\ Saved(eip) \in Nat
      BY <3>6, SMTT(60) DEF Pushed, Saved, AtCode, AtCall, AtBody, AtIret
    <3>4. This.height =< Len(stack)
      BY <3>2, <3>3
    <3>5. QED
      BY <2>2, <1>3, <1>5, <3>2, <3>4 DEF Inv, Types
  <2>3. QED
    BY <1>1, <2>1, <2>2
<1>7. QED
  BY <1>1, <1>3, <1>4, <1>5, <1>6

\* A step of the running activation that works on its own words only.
LEMMA TopStep ==
    ASSUME Inv, acts # << >>, Types', Len(acts') = Len(acts),
           \A i \in DOMAIN acts :
              /\ acts'[i].eip = acts[i].eip
              /\ acts'[i].regs = acts[i].regs
              /\ acts'[i].height = acts[i].height
              /\ i < Len(acts) => acts'[i] = acts[i],
           \A k \in 1 .. This.height : stack'[k] = stack[k],
           Good(stack', This', eip', Len(stack'), regs')
    PROVE  Inv'
<1> DEFINE n == Len(acts)
<1>1. n \in Nat /\ n >= 1 /\ n \in DOMAIN acts /\ DOMAIN acts = 1 .. n /\ DOMAIN acts' = 1 .. n
  BY Running DEF Inv, Types
<1>2. \A i \in 1 .. n : i < n => i + 1 \in 1 .. n
  BY <1>1
<1>3. ASSUME NEW i \in 1 .. n, i < n
      PROVE  /\ PlaceOf(i)' = PlaceOf(i) /\ TopOf(i)' = TopOf(i) /\ RegsOf(i)' = RegsOf(i)
             /\ acts'[i] = acts[i]
  <2>1. i # n /\ i + 1 \in DOMAIN acts /\ i \in DOMAIN acts
    BY <1>1, <1>2, <1>3
  <2>2. /\ acts'[i + 1].eip = acts[i + 1].eip
        /\ acts'[i + 1].regs = acts[i + 1].regs
        /\ acts'[i + 1].height = acts[i + 1].height
    BY <2>1
  <2>3. acts'[i] = acts[i]
    BY <2>1, <1>3
  <2>4. i # Len(acts')
    BY <2>1
  <2>5. PlaceOf(i)' = PlaceOf(i)
    BY <2>1, <2>2, <2>4 DEF PlaceOf
  <2>6. TopOf(i)' = TopOf(i)
    BY <2>1, <2>2, <2>4 DEF TopOf
  <2>7. RegsOf(i)' = RegsOf(i)
    BY <2>1, <2>2, <2>4 DEF RegsOf
  <2>8. QED
    BY <2>3, <2>5, <2>6, <2>7
<1>4. AllGood'
  <2> SUFFICES ASSUME NEW i \in 1 .. n
               PROVE  Good(stack, acts[i], PlaceOf(i), TopOf(i), RegsOf(i))'
    BY <1>1 DEF AllGood
  <2>1. CASE i = n
    BY <2>1, <1>1 DEF PlaceOf, TopOf, RegsOf, This
  <2>2. CASE i < n
    <3>1. /\ acts[i] \in Activation /\ PlaceOf(i) \in Spot
          /\ TopOf(i) \in Nat
          /\ Good(stack, acts[i], PlaceOf(i), TopOf(i), RegsOf(i))
          /\ TopOf(i) =< This.height /\ This.height \in Nat
      BY <2>2, <1>1, Lower, Running DEF Activation
    <3>2. \A k \in 1 .. TopOf(i) : stack'[k] = stack[k]
      BY <3>1
    <3>3. Good(stack', acts[i], PlaceOf(i), TopOf(i), RegsOf(i))
      BY <3>1, <3>2, Above
    <3>4. QED
      BY <2>2, <1>3, <3>3
  <2>3. i = n \/ i < n
    BY <1>1
  <2>4. QED
    BY <2>1, <2>2, <2>3
<1>5. Stacked'
  <2> SUFFICES ASSUME NEW i \in 1 .. n, NEW j \in 1 .. n, i < j
               PROVE  TopOf(i)' =< acts'[j].height
    BY <1>1 DEF Stacked
  <2>1. i < n
    BY <1>1
  <2>2. TopOf(i)' = TopOf(i) /\ acts'[j].height = acts[j].height
    BY <2>1, <1>1, <1>3
  <2>3. QED
    BY <2>2, <1>1 DEF Inv, Stacked
<1>6. Base'
  <2>1. acts' # << >>
    BY <1>1
  <2>2. acts'[1].eip = acts[1].eip
    BY <1>1
  <2>3. QED
    BY <2>1, <2>2 DEF Base, Inv
<1>7. QED
  BY <1>4, <1>5, <1>6 DEF Inv

\* An index that is not the last has a next one.
LEMMA NotLast == \A n \in Nat : \A i \in 1 .. n : i # n => i + 1 \in 1 .. n
OBVIOUS

\* The indices below the last.
LEMMA BelowLast ==
    \A n \in Nat : \A i \in 1 .. n - 1 :
        i # n /\ i \in 1 .. n /\ i < n /\ (i # n - 1 => i + 1 \in 1 .. n - 1)
OBVIOUS

\* Entering a stub keeps the pile in order.
LEMMA EnterInv ==
    ASSUME Inv, NEW q \in Stubs \union Raised, NEW at \in {AtCode, 1}, NEW codes \in Seq(Word),
           \/ codes = << >> /\ (at = 1 \/ q \in Stubs \ PushesCode)
           \/ at = AtCode /\ q \in PushesCode /\ Len(codes) = 1,
           Enter(q, at, codes), nmi' \in BOOLEAN
    PROVE  Inv'
<1> DEFINE n == Len(acts)
           a == [stub |-> q, regs |-> regs, eip |-> eip, ints |-> ints, height |-> Len(stack),
                 own |-> IF codes = << >> THEN q ELSE codes[1], got |-> None]
<1>1. n \in Nat /\ acts \in Seq(Activation) /\ DOMAIN acts = 1 .. n /\ Len(stack) \in Nat
  BY DEF Inv, Types
<1>2. a \in Activation
  <2>1. codes # << >> => codes[1] \in Word
    <3>1. codes # << >> => 1 \in 1 .. Len(codes)
      BY EmptySeq
    <3>2. QED
      BY <3>1, ElementOfSeq
  <2>2. QED
    BY <2>1, <1>1 DEF Activation, Inv, Types
<1>3. /\ acts' = Append(acts, a) /\ Len(acts') = n + 1 /\ DOMAIN acts' = 1 .. n + 1
      /\ acts' \in Seq(Activation)
      /\ acts'[n + 1] = a /\ \A i \in 1 .. n : acts'[i] = acts[i]
  <2>1. acts' = Append(acts, a)
    BY DEF Enter
  <2> HIDE DEF a
  <2>2. QED
    BY <2>1, <1>1, <1>2
<1>4. Place(q, at) \in Spot /\ Place(q, at).stub = q /\ Place(q, at).at = at
  BY DEF Place, Spot, AtCode, AtIret
<1>5. /\ stack' \in Seq(Word) /\ Len(stack') >= Len(stack)
      /\ \A k \in 1 .. Len(stack) : stack'[k] = stack[k]
      /\ Good(stack', a, eip', Len(stack'), regs')
  <2>1. stack' = stack \o <<Eflags(a.ints), CS, Eip(a.eip)>> \o codes
    BY DEF Enter
  <2>2. eip' = Place(q, at) /\ regs' = regs
    BY DEF Enter
  <2>3. a.regs = regs /\ a.height = Len(stack) /\ a.stub = q
    OBVIOUS
  <2>4. codes # << >> => a.own = codes[1]
    OBVIOUS
  <2>5. stack \in Seq(Word)
    BY DEF Inv, Types
  <2>6. \/ codes = << >> /\ (eip'.at = 1 \/ a.stub \in Stubs \ PushesCode)
        \/ eip'.at = AtCode /\ a.stub \in PushesCode /\ Len(codes) = 1 /\ codes[1] = a.own
    <3>1. Len(codes) = 1 => codes # << >>
      BY EmptySeq
    <3>2. QED
      BY <3>1, <2>2, <2>3, <2>4, <1>4
  <2>7. eip'.at \in {AtCode, 1} /\ eip'.stub = a.stub /\ eip' \in Spot
    BY <2>2, <2>3, <1>4
  <2>9. a.regs = regs'
    BY <2>2, <2>3
  <2> HIDE DEF a
  <2>10. /\ stack' \in Seq(Word) /\ Len(stack') >= Len(stack)
         /\ \A k \in 1 .. Len(stack) : stack'[k] = stack[k]
         /\ Good(stack', a, eip', Len(stack'), a.regs)
    <3>1. a.height = Len(stack)
      BY <2>3
    <3>2. stack' = Entered(stack, a, codes)
      BY <2>1 DEF Frame, Entered
    <3>3. Fits(a, eip', codes)
      BY <2>6, <2>7 DEF Fits
    <3>4. OnTop(stack, Entered(stack, a, codes), a, eip')
      BY <1>2, <2>5, <2>7, <3>1, <3>3, NewGood
    <3>5. QED
      BY <3>2, <3>4 DEF OnTop
  <2>8. QED
    BY <2>9, <2>10
<1>6. Types'
  BY <1>3, <1>4, <1>5 DEF Enter, Inv, Types
<1>7. ASSUME NEW i \in 1 .. n
      PROVE  PlaceOf(i)' = PlaceOf(i) /\ TopOf(i)' = TopOf(i) /\ RegsOf(i)' = RegsOf(i)
  <2>1. i # n + 1 /\ i + 1 \in 1 .. n + 1
    BY <1>1
  <2>2. CASE i = n
    BY <2>1, <2>2, <1>3 DEF PlaceOf, TopOf, RegsOf
  <2>3. CASE i # n
    <3>1. i + 1 \in 1 .. n
      BY <2>3, <1>1, NotLast, Zenon
    <3>2. acts'[i + 1] = acts[i + 1] /\ i # Len(acts') /\ i # Len(acts)
      BY <3>1, <2>1, <2>3, <1>3
    <3>3. QED
      BY <3>2 DEF PlaceOf, TopOf, RegsOf
  <2>4. QED
    BY <2>2, <2>3
<1>8. AllGood'
  <2> SUFFICES ASSUME NEW i \in 1 .. n + 1
               PROVE  Good(stack, acts[i], PlaceOf(i), TopOf(i), RegsOf(i))'
    BY <1>3 DEF AllGood
  <2>1. CASE i = n + 1
    BY <2>1, <1>3, <1>5 DEF PlaceOf, TopOf, RegsOf
  <2>2. CASE i # n + 1
    <3>1. i \in 1 .. n
      BY <2>2, <1>1
    <3>2. /\ acts[i] \in Activation /\ PlaceOf(i) \in Spot
          /\ TopOf(i) \in Nat /\ TopOf(i) =< Len(stack)
          /\ Good(stack, acts[i], PlaceOf(i), TopOf(i), RegsOf(i))
      BY <3>1, <1>1, Lower
    <3>3. \A k \in 1 .. TopOf(i) : stack'[k] = stack[k]
      BY <3>2, <1>1, <1>5
    <3>4. Good(stack', acts[i], PlaceOf(i), TopOf(i), RegsOf(i))
      BY <3>2, <3>3, Above
    <3>5. QED
      BY <3>1, <3>4, <1>3, <1>7
  <2>3. QED
    BY <2>1, <2>2
<1>9. Stacked'
  <2> SUFFICES ASSUME NEW i \in 1 .. n + 1, NEW j \in 1 .. n + 1, i < j
               PROVE  TopOf(i)' =< acts'[j].height
    BY <1>3 DEF Stacked
  <2>1. i \in 1 .. n
    BY <1>1
  <2>2. TopOf(i)' = TopOf(i) /\ TopOf(i) =< Len(stack)
    BY <2>1, <1>1, <1>7, Lower
  <2>3. CASE j = n + 1
    BY <2>2, <2>3, <1>3
  <2>4. CASE j # n + 1
    <3>1. j \in 1 .. n
      BY <2>4, <1>1
    <3>2. TopOf(i) =< acts[j].height
      BY <2>1, <3>1, <1>1 DEF Inv, Stacked
    <3>3. QED
      BY <3>1, <3>2, <2>2, <1>3
  <2>5. QED
    BY <2>3, <2>4
<1>10. Base'
  <2>1. acts' # << >>
    BY <1>1, <1>3
  <2>2. CASE n = 0
    <3>1. acts = << >> /\ acts'[1] = a
      BY <2>2, <1>1, <1>3
    <3>2. QED
      BY <3>1, <2>1 DEF Base, Inv
  <2>3. CASE n # 0
    <3>1. 1 \in 1 .. n /\ acts # << >>
      BY <2>3, <1>1
    <3>2. acts'[1] = acts[1]
      BY <3>1, <1>3
    <3>3. QED
      BY <3>1, <3>2, <2>1 DEF Base, Inv
  <2>4. QED
    BY <2>2, <2>3
<1>11. QED
  BY <1>6, <1>8, <1>9, <1>10 DEF Inv

\* IF at the place that the next activation interrupted, or where it runs now.
IntsOf(i) == IF i = Len(acts) THEN ints ELSE acts[i + 1].ints

\* What IRET finds on the stack, and what it leaves.
LEMMA IretExact ==
    ASSUME Inv, acts # << >>, Iret
    PROVE  /\ eip' = This.eip /\ ints' = This.ints /\ regs' = This.regs /\ regs' = regs
           /\ stack' \in Seq(Word) /\ Len(stack') = This.height
           /\ \A k \in 1 .. This.height : stack'[k] = stack[k]
<1> DEFINE h == This.height
<1>1. /\ This \in Activation /\ Good(stack, This, eip, Len(stack), regs)
      /\ h \in Nat /\ eip.at = 19 /\ stack \in Seq(Word) /\ regs \in [GPR -> Word]
  BY Running DEF Iret, AtIret, Activation, Inv, Types
<1>2. Pushed(This, eip) = 3 /\ Saved(eip) = 0
  BY <1>1 DEF Pushed, Saved, AtCode, AtCall, AtBody, AtIret
<1>3. Len(stack) = h + 3 /\ stack[h + 1] = Eflags(This.ints) /\ stack[h + 3] = Eip(This.eip)
  BY <1>1, <1>2 DEF Good, FrameOn
<1>4. Top = Eip(This.eip) /\ stack[Len(stack) - 2] = Eflags(This.ints)
  BY <1>1, <1>3 DEF Top
<1>5. eip' = This.eip /\ ints' = This.ints
  BY <1>4 DEF Iret, Eip, Eflags
<1>6. regs = This.regs
  <2>1. ASSUME NEW r \in GPR PROVE regs[r] = This.regs[r]
    <3>1. PICK j \in 1 .. 8 : RestTrapRegs[j] = r
      BY Covered
    <3>2. r # "esp"
      BY DEF GPR
    <3>3. j =< eip.at - 11
      BY <1>1
    <3>4. QED
      BY <3>1, <3>2, <3>3, <1>1 DEF Good, RegsOn
  <2>2. regs \in [GPR -> Word] /\ This.regs \in [GPR -> Word]
    BY <1>1 DEF Activation
  <2>3. QED
    BY <2>1, <2>2
<1>7. /\ stack' \in Seq(Word) /\ Len(stack') = h
      /\ \A k \in 1 .. h : stack'[k] = stack[k]
  <2>1. stack' = SubSeq(stack, 1, Len(stack) - 3) /\ Len(stack) - 3 = h
    BY <1>1, <1>3 DEF Iret, Under
  <2>2. stack' = SubSeq(stack, 1, h)
    BY <2>1
  <2>3. \A i \in 1 .. h : stack[i] \in Word
    BY <1>1, <1>3
  <2>4. /\ SubSeq(stack, 1, h) \in Seq(Word)
        /\ Len(SubSeq(stack, 1, h)) = IF 1 <= h THEN h - 1 + 1 ELSE 0
        /\ \A i \in 1 .. h - 1 + 1 : SubSeq(stack, 1, h)[i] = stack[1 + i - 1]
    <3>1. 1 \in Int /\ h \in Int
      BY <1>1
    <3>2. QED
      BY <3>1, <2>3, SubSeqProperties
  <2>5. h - 1 + 1 = h /\ (~(1 <= h) => h = 0)
    BY <1>1
  <2>6. Len(stack') = h
    BY <2>2, <2>4, <2>5
  <2>7. \A k \in 1 .. h : stack'[k] = stack[k]
    BY <2>2, <2>4, <2>5
  <2>8. QED
    BY <2>2, <2>4, <2>6, <2>7
<1>8. regs' = regs
  BY DEF Iret
<1>9. QED
  BY <1>5, <1>6, <1>7, <1>8

\* What IRET leaves of the pile: all but the last activation, as they were.
LEMMA IretLower ==
    ASSUME Inv, acts # << >>, Iret
    PROVE  /\ acts' \in Seq(Activation) /\ Len(acts') = Len(acts) - 1
           /\ DOMAIN acts' = 1 .. Len(acts) - 1
           /\ \A i \in 1 .. Len(acts) - 1 :
                 /\ PlaceOf(i)' = PlaceOf(i) /\ TopOf(i)' = TopOf(i) /\ RegsOf(i)' = RegsOf(i)
                 /\ IntsOf(i)' = IntsOf(i)
                 /\ acts'[i] = acts[i] /\ i \in 1 .. Len(acts) /\ i < Len(acts)
<1> DEFINE n == Len(acts)
<1>1. n \in Nat /\ n >= 1 /\ DOMAIN acts = 1 .. n /\ acts \in Seq(Activation) /\ This = acts[n]
  BY Running DEF Inv, Types, This
<1>2. /\ This \in Activation /\ eip' = This.eip /\ ints' = This.ints /\ regs' = This.regs
      /\ stack' \in Seq(Word) /\ Len(stack') = This.height
      /\ \A k \in 1 .. This.height : stack'[k] = stack[k]
  BY Running, IretExact
<1>3. /\ acts' \in Seq(Activation) /\ Len(acts') = n - 1 /\ DOMAIN acts' = 1 .. n - 1
      /\ \A i \in 1 .. n - 1 : acts'[i] = acts[i]
  <2>1. acts' = SubSeq(acts, 1, n - 1)
    BY DEF Iret
  <2>2. 1 \in Int /\ n - 1 \in Int /\ \A i \in 1 .. n - 1 : acts[i] \in Activation
    BY <1>1
  <2>3. /\ SubSeq(acts, 1, n - 1) \in Seq(Activation)
        /\ Len(SubSeq(acts, 1, n - 1)) = IF 1 <= n - 1 THEN n - 1 - 1 + 1 ELSE 0
        /\ \A i \in 1 .. n - 1 - 1 + 1 : SubSeq(acts, 1, n - 1)[i] = acts[1 + i - 1]
    BY <2>2, SubSeqProperties
  <2>4. n - 1 - 1 + 1 = n - 1 /\ (~(1 <= n - 1) => n - 1 = 0) /\ n - 1 \in Nat
    BY <1>1
  <2>5. acts' \in Seq(Activation) /\ Len(acts') = n - 1
    BY <2>1, <2>3, <2>4
  <2>6. \A i \in 1 .. n - 1 : acts'[i] = acts[i]
    BY <2>1, <2>3, <2>4
  <2>7. QED
    BY <2>5, <2>6
<1>5. ASSUME NEW i \in 1 .. n - 1
      PROVE  /\ PlaceOf(i)' = PlaceOf(i) /\ TopOf(i)' = TopOf(i) /\ RegsOf(i)' = RegsOf(i)
             /\ IntsOf(i)' = IntsOf(i)
             /\ acts'[i] = acts[i] /\ i \in 1 .. n /\ i < n
  <2>5. i # n /\ i \in 1 .. n /\ i < n /\ (i # n - 1 => i + 1 \in 1 .. n - 1)
    BY <1>1, BelowLast, Zenon
  <2>1. i # n /\ i \in 1 .. n /\ i < n /\ acts'[i] = acts[i]
    BY <1>3, <2>5, Zenon
  <2>2. CASE i = n - 1
    <3>1. i + 1 = n
      BY <2>2, <1>1
    <3>2. QED
      BY <2>1, <2>2, <3>1, <1>1, <1>2, <1>3 DEF PlaceOf, TopOf, RegsOf, IntsOf
  <2>3. CASE i # n - 1
    <3>1. i + 1 \in 1 .. n - 1
      BY <2>3, <2>5
    <3>2. acts'[i + 1] = acts[i + 1] /\ i # Len(acts') /\ i # Len(acts)
      BY <3>1, <2>1, <2>3, <1>3
    <3>3. QED
      BY <2>1, <3>2 DEF PlaceOf, TopOf, RegsOf, IntsOf
  <2>4. QED
    BY <2>2, <2>3
<1>6. QED
  BY <1>3, <1>5

\* IRET takes the pile back to what it was before the entry.
LEMMA IretInv == ASSUME Inv, acts # << >>, Iret PROVE Inv'
<1> DEFINE n == Len(acts)
<1>1. n \in Nat /\ n >= 1 /\ DOMAIN acts = 1 .. n /\ acts \in Seq(Activation) /\ This = acts[n]
  BY Running DEF Inv, Types, This
<1>2. /\ This \in Activation /\ eip' = This.eip /\ ints' = This.ints /\ regs' = This.regs
      /\ stack' \in Seq(Word) /\ Len(stack') = This.height
      /\ \A k \in 1 .. This.height : stack'[k] = stack[k]
  BY Running, IretExact
<1>3. acts' \in Seq(Activation) /\ Len(acts') = n - 1 /\ DOMAIN acts' = 1 .. n - 1
  BY IretLower
<1>4. Types'
  BY <1>2, <1>3 DEF Iret, Inv, Types, Activation
<1>5. \A i \in 1 .. n - 1 :
         /\ PlaceOf(i)' = PlaceOf(i) /\ TopOf(i)' = TopOf(i) /\ RegsOf(i)' = RegsOf(i)
         /\ acts'[i] = acts[i] /\ i \in 1 .. n /\ i < n
  BY IretLower
<1>6. AllGood'
  <2> SUFFICES ASSUME NEW i \in 1 .. n - 1
               PROVE  Good(stack, acts[i], PlaceOf(i), TopOf(i), RegsOf(i))'
    BY <1>3 DEF AllGood
  <2>1. /\ acts[i] \in Activation /\ PlaceOf(i) \in Spot /\ TopOf(i) \in Nat
        /\ Good(stack, acts[i], PlaceOf(i), TopOf(i), RegsOf(i))
        /\ TopOf(i) =< This.height /\ This.height \in Nat
    BY <1>1, <1>2, <1>5, Lower DEF Activation
  <2>2. \A k \in 1 .. TopOf(i) : stack'[k] = stack[k]
    BY <2>1, <1>2
  <2>3. Good(stack', acts[i], PlaceOf(i), TopOf(i), RegsOf(i))
    BY <2>1, <2>2, Above
  <2>4. QED
    BY <2>3, <1>5
<1>7. Stacked'
  <2> SUFFICES ASSUME NEW i \in 1 .. n - 1, NEW j \in 1 .. n - 1, i < j
               PROVE  TopOf(i)' =< acts'[j].height
    BY <1>3 DEF Stacked
  <2>1. i \in 1 .. n /\ j \in 1 .. n
    BY <1>5
  <2>2. TopOf(i) =< acts[j].height
    BY <2>1, <1>1 DEF Inv, Stacked
  <2>3. QED
    BY <2>2, <1>5
<1>8. Base'
  <2>1. CASE n = 1
    <3>1. acts' = << >> /\ This = acts[1]
      BY <2>1, <1>1, <1>3, EmptySeq
    <3>2. QED
      BY <3>1, <1>2 DEF Base, Inv
  <2>2. CASE n # 1
    <3>1. 1 \in 1 .. n - 1
      BY <2>2, <1>1
    <3>2. acts' # << >> /\ acts'[1] = acts[1]
      BY <3>1, <1>3, <1>5
    <3>3. QED
      BY <3>2 DEF Base, Inv
  <2>3. QED
    BY <2>1, <2>2
<1>9. QED
  BY <1>4, <1>6, <1>7, <1>8 DEF Inv

-----------------------------------------------------------------------------
(* The machine's steps *)

\* Stubs that have an error code to pop are those of exceptions that push one.
LEMMA StubKinds ==
    ASSUME CodesAgree
    PROVE  /\ \A k \in Raised : k \in ERRCODE <=> k \in PushesCode
           /\ \A q \in Stubs : q \notin Exceptions /\ q \notin PushesCode
           /\ Raised \subseteq Exceptions
           /\ "NMI" \notin ERRCODE
<1>1. PushesCode \subseteq Exceptions
  BY DEF PushesCode, Exceptions
<1>2. \A k \in Raised : k \in ERRCODE <=> k \in PushesCode
  BY DEF CodesAgree
<1>3. "NMI" \notin ERRCODE
  BY DEF ERRCODE
<1>4. QED
  BY <1>1, <1>2, <1>3, TrapAssumption

\* The initial state is in order.
LEMMA InitInv == Init => Inv
<1> SUFFICES ASSUME Init PROVE Inv
  OBVIOUS
<1>1. stack \in Seq(Word) /\ regs \in [GPR -> Word] /\ acts \in Seq(Activation)
  BY Words DEF Init
<1>2. eip \in Spot
  BY DEF Init, Place, Spot, AtIret
<1>3. acts = << >> /\ DOMAIN acts = {}
  BY DEF Init
<1>4. Types
  BY <1>1, <1>2 DEF Init, Types
<1>5. AllGood /\ Stacked
  BY <1>3 DEF AllGood, Stacked
<1>6. Base
  BY <1>3 DEF Init, Base
<1>7. QED
  BY <1>4, <1>5, <1>6 DEF Inv

\* Every step keeps the pile in order.
LEMMA StepInv == ASSUME NoTail, CodesAgree, Inv, [Next]_vars PROVE Inv'
<1>1. CASE UNCHANGED vars
  BY <1>1 DEF vars, Inv, Types, AllGood, Stacked, Base, PlaceOf, TopOf, RegsOf
<1>2. CASE CriticalSection
  BY <1>2 DEF CriticalSection, Inv, Types, AllGood, Stacked, Base, PlaceOf, TopOf, RegsOf
<1>3. CASE Interrupt
  <2>1. PICK q \in Stubs : Enter(q, AtCode, << >>)
    BY <1>3 DEF Interrupt
  <2>2. q \notin PushesCode /\ nmi' \in BOOLEAN /\ << >> \in Seq(Word)
    BY <1>3, StubKinds, EmptySeq DEF Interrupt, Inv, Types
  <2>3. QED
    BY <2>1, <2>2, EnterInv
<1>4. CASE Fault
  <2>1. PICK k \in Raised : IF k \in PushesCode
                            THEN \E c \in Codes : Enter(k, FirstAt(k), <<Code(c)>>)
                            ELSE Enter(k, FirstAt(k), << >>)
    BY <1>4 DEF Fault
  <2>2. nmi' \in BOOLEAN
    BY <1>4 DEF Fault, Inv, Types
  <2>3. CASE k \in PushesCode
    <3>1. PICK c \in Codes : Enter(k, FirstAt(k), <<Code(c)>>)
      BY <2>1, <2>3
    <3>2. FirstAt(k) = AtCode
      BY <2>3, StubKinds DEF FirstAt
    <3>3. <<Code(c)>> \in Seq(Word) /\ Len(<<Code(c)>>) = 1
      BY Words
    <3> DEFINE codes == <<Code(c)>>
    <3>4. Enter(k, AtCode, codes) /\ codes \in Seq(Word) /\ Len(codes) = 1
      BY <3>1, <3>2, <3>3
    <3> HIDE DEF codes
    <3>5. QED
      BY <2>2, <2>3, <3>4, EnterInv
  <2>4. CASE k \notin PushesCode
    <3>1. Enter(k, 1, << >>) /\ << >> \in Seq(Word)
      BY <2>1, <2>4, StubKinds, EmptySeq DEF FirstAt
    <3>2. QED
      BY <2>2, <3>1, EnterInv
  <2>5. QED
    BY <2>3, <2>4
<1>5. CASE NMI
  <2>1. "NMI" \in Raised /\ Enter("NMI", 1, << >>) /\ nmi' \in BOOLEAN /\ << >> \in Seq(Word)
    BY <1>5, StubKinds, EmptySeq DEF NMI, FirstAt
  <2>2. QED
    BY <2>1, EnterInv
<1>6. CASE PopErrorCode
  <2>1. eip.stub \in Exceptions /\ eip.at = AtCode /\ acts # << >>
    <3>1. eip.stub \in Exceptions /\ eip.at = AtCode
      BY <1>6 DEF PopErrorCode
    <3>2. eip.stub # Kernel
      BY <3>1 DEF Exceptions, Kernel
    <3>3. QED
      BY <3>1, <3>2, StubRuns
  <2>2. /\ This \in Activation /\ Good(stack, This, eip, Len(stack), regs) /\ This.stub = eip.stub
        /\ stack \in Seq(Word) /\ eip \in Spot /\ regs \in [GPR -> Word]
    BY <2>1, Running DEF Inv, Types
  <2>3. This.stub \in PushesCode
    BY <2>1, <2>2, StubKinds DEF Good, CodeOn
  <2>4. /\ stack' = SubSeq(stack, 1, Len(stack) - 1) /\ eip' = [eip EXCEPT !.at = 1]
        /\ errorCode' = stack[Len(stack)]
        /\ UNCHANGED <<regs, ints, nmi, theIRQ, acts>>
    BY <1>6 DEF PopErrorCode, Under, Top
  <2>5. /\ stack' \in Seq(Word) /\ Len(stack') >= This.height
        /\ Len(stack') = Len(stack) - 1
        /\ \A k \in 1 .. Len(stack') : stack'[k] = stack[k]
        /\ Good(stack', This, [eip EXCEPT !.at = 1], Len(stack'), regs)
        /\ stack[Len(stack)] \in Word
    <3>1. Left(stack, stack', This, [eip EXCEPT !.at = 1], regs) /\ stack[Len(stack)] \in Word
      BY <2>1, <2>2, <2>3, <2>4, PopCodeGood, Zenon
    <3>2. QED
      BY <3>1 DEF Left
  <2>6. eip' \in Spot
    BY <2>2, <2>4 DEF Spot, AtIret
  <2>7. Types'
    BY <2>4, <2>5, <2>6 DEF Inv, Types
  <2>8. This' = This
    BY <2>4 DEF This
  <2>9. Good(stack', This', eip', Len(stack'), regs')
    BY <2>4, <2>5, <2>8
  <2>10. \A k \in 1 .. This.height : stack'[k] = stack[k]
    BY <2>2, <2>5 DEF Activation
  <2>11. QED
    BY <2>1, <2>4, <2>7, <2>9, <2>10, TopStep
<1>7. CASE PopTheIRQ
  <2>1. eip.stub \in Stubs /\ eip.at = AtCode /\ acts # << >>
    <3>1. eip.stub \in Stubs /\ eip.at = AtCode
      BY <1>7 DEF PopTheIRQ
    <3>2. eip.stub # Kernel
      BY <3>1, TrapAssumption
    <3>3. QED
      BY <3>1, <3>2, StubRuns
  <2>2. /\ This \in Activation /\ Good(stack, This, eip, Len(stack), regs) /\ This.stub = eip.stub
        /\ eip \in Spot
    BY <2>1, Running DEF Inv, Types
  <2>3. /\ eip' = [eip EXCEPT !.at = 1] /\ theIRQ' = eip.stub
        /\ UNCHANGED <<stack, regs, ints, nmi, errorCode, acts>>
    BY <1>7 DEF PopTheIRQ
  <2>4. eip' \in Spot /\ eip'.stub = eip.stub /\ eip'.at = 1
    BY <2>2, <2>3 DEF Spot, AtIret
  <2>5. This.stub \notin PushesCode
    BY <2>1, <2>2, StubKinds
  <2>6. Good(stack, This, eip', Len(stack), regs)
    BY <2>1, <2>2, <2>4, <2>5, StayGood
  <2>7. Types'
    BY <2>1, <2>3, <2>4 DEF Inv, Types
  <2>8. This' = This /\ Good(stack', This', eip', Len(stack'), regs')
    BY <2>3, <2>6 DEF This
  <2>9. QED
    BY <2>1, <2>3, <2>7, <2>8, TopStep
<1>8. CASE Push
  <2>1. eip.at \in 1 .. 8 /\ acts # << >>
    BY <1>8, Domains, StubRuns DEF Push
  <2>2. /\ This \in Activation /\ Good(stack, This, eip, Len(stack), regs)
        /\ stack \in Seq(Word) /\ eip \in Spot /\ regs \in [GPR -> Word] /\ This.height \in Nat
    BY <2>1, Running DEF Inv, Types, Activation
  <2> DEFINE w == IF SaveTrapRegs[eip.at] = "esp" THEN Reg("esp", 0) ELSE regs[SaveTrapRegs[eip.at]]
  <2>3. w \in Word
    BY <2>1, <2>2, Mirror, Words
  <2>4. /\ stack' = Append(stack, w) /\ eip' = [eip EXCEPT !.at = @ + 1]
        /\ UNCHANGED <<regs, ints, nmi, errorCode, theIRQ, acts>>
    BY <1>8 DEF Push
  <2>5. w = IF SaveTrapRegs[eip.at] = "esp" THEN Reg("esp", 0) ELSE regs[SaveTrapRegs[eip.at]]
    OBVIOUS
  <2> HIDE DEF w
  <2>6. Good(Append(stack, w), This, [eip EXCEPT !.at = @ + 1], Len(stack) + 1, regs)
    BY <2>1, <2>2, <2>3, <2>5, PushGood
  <2>7. /\ stack' \in Seq(Word) /\ Len(stack') = Len(stack) + 1
        /\ \A k \in 1 .. Len(stack) : stack'[k] = stack[k]
    BY <2>2, <2>3, <2>4
  <2>8. eip' \in Spot
    <3>1. eip.at \in 1 .. 18
      BY <2>1
    <3>2. QED
      BY <2>2, <2>4, <3>1, NextSpot, Zenon
  <2>9. Types'
    BY <2>4, <2>7, <2>8 DEF Inv, Types
  <2>10. This' = This /\ Good(stack', This', eip', Len(stack'), regs')
    BY <2>4, <2>6, <2>7 DEF This
  <2>11. This.height =< Len(stack)
    <3>1. Len(stack) = This.height + Pushed(This, eip) + Saved(eip)
      BY <2>2 DEF Good, FrameOn
    <3>2. Pushed(This, eip) \in {3, 4} /\ Saved(eip) \in Nat
      BY <2>1 DEF Pushed, Saved, AtCode, AtCall, AtBody, AtIret
    <3>3. QED
      BY <2>2, <3>1, <3>2
  <2>12. \A k \in 1 .. This.height : stack'[k] = stack[k]
    BY <2>2, <2>7, <2>11
  <2>13. QED
    BY <2>1, <2>4, <2>9, <2>10, <2>12, TopStep
<1>9. CASE Call
  <2>1. eip.at = AtCall /\ acts # << >>
    BY <1>9, StubRuns DEF Call, AtCall
  <2> DEFINE n == Len(acts)
             g == IF eip.stub \in Stubs THEN theIRQ
                  ELSE IF eip.stub = "PageFault" THEN errorCode ELSE None
             b == [acts[n] EXCEPT !.got = g]
  <2>2. /\ This \in Activation /\ Good(stack, This, eip, Len(stack), regs)
        /\ eip \in Spot /\ This.height \in Nat /\ n \in 1 .. n /\ n \in Nat /\ This = acts[n]
        /\ acts \in Seq(Activation) /\ DOMAIN acts = 1 .. n
    BY <2>1, Running DEF Inv, Types, Activation, This
  <2>3. /\ acts' = [acts EXCEPT ![n] = b] /\ eip' = [eip EXCEPT !.at = AtBody]
        /\ UNCHANGED <<stack, nmi, errorCode, theIRQ>>
    BY <1>9 DEF Call
  <2>4. regs' \in [GPR -> Word] /\ ints' \in BOOLEAN
    <3>1. \A r \in GPR : Reg(r, n) \in Word
      BY <2>2, Words
    <3>2. regs' = [r \in GPR |-> IF r \in {"eax", "ecx", "edx"} THEN Reg(r, n) ELSE regs[r]]
      BY <1>9 DEF Call
    <3>3. regs' \in [GPR -> Word]
      BY <3>1, <3>2 DEF Inv, Types
    <3>4. ints' \in BOOLEAN
      BY <1>9 DEF Call, Inv, Types
    <3>5. QED
      BY <3>3, <3>4
  <2>5. b \in Activation /\ b.stub = acts[n].stub /\ b.regs = acts[n].regs /\ b.eip = acts[n].eip
        /\ b.ints = acts[n].ints /\ b.height = acts[n].height /\ b.own = acts[n].own
    <3>1. g \in Stubs \union Word \union {None}
      BY DEF Inv, Types
    <3>2. acts[n] \in Activation
      BY <2>2
    <3> HIDE DEF g
    <3>3. QED
      BY <3>1, <3>2 DEF Activation
  <2>6. /\ acts' \in Seq(Activation) /\ Len(acts') = n /\ acts'[n] = b
        /\ \A i \in 1 .. n : i # n => acts'[i] = acts[i]
    <3> HIDE DEF b
    <3>1. QED
      BY <2>2, <2>3, <2>5, ExceptSeq
  <2>7. eip' \in Spot /\ eip'.stub = eip.stub /\ eip'.at = AtBody
    BY <2>2, <2>3 DEF Spot, AtIret, AtBody
  <2>8. Good(stack, b, eip', Len(stack), regs')
    <3> HIDE DEF b
    <3>1. ~(eip.at = AtCode)
      BY <2>1 DEF AtCode, AtCall
    <3>2. QED
      BY <2>1, <2>2, <2>5, <2>7, <3>1, StayGood
  <2>9. This' = b
    BY <2>6 DEF This
  <2>10. Types'
    BY <2>3, <2>4, <2>6, <2>7 DEF Inv, Types
  <2>11. /\ Good(stack', This', eip', Len(stack'), regs')
         /\ \A k \in 1 .. This.height : stack'[k] = stack[k]
    BY <2>3, <2>8, <2>9
  <2>12. \A i \in DOMAIN acts :
              /\ acts'[i].eip = acts[i].eip
              /\ acts'[i].regs = acts[i].regs
              /\ acts'[i].height = acts[i].height
              /\ i < n => acts'[i] = acts[i]
    <3> HIDE DEF b
    <3> SUFFICES ASSUME NEW i \in 1 .. n
                 PROVE  /\ acts'[i].eip = acts[i].eip
                        /\ acts'[i].regs = acts[i].regs
                        /\ acts'[i].height = acts[i].height
                        /\ i < n => acts'[i] = acts[i]
      BY <2>2
    <3>1. CASE i = n
      <4>1. acts'[i] = b /\ acts[i] = acts[n]
        BY <2>6, <3>1
      <4>2. ~(i < n)
        BY <2>2, <3>1
      <4>3. QED
        BY <2>5, <4>1, <4>2, Zenon
    <3>2. CASE i # n
      BY <2>6, <3>2
    <3>3. QED
      BY <3>1, <3>2
  <2>13. QED
    BY <2>1, <2>6, <2>10, <2>11, <2>12, TopStep
<1>10. CASE Return
  <2>1. eip.at = AtBody /\ acts # << >>
    BY <1>10, StubRuns DEF Return, AtBody
  <2>2. /\ This \in Activation /\ Good(stack, This, eip, Len(stack), regs) /\ eip \in Spot
        /\ stack \in Seq(Word)
    BY <2>1, Running DEF Inv, Types
  <2>3. stack' = stack
    <3>1. Len(stack) - 0 = Len(stack)
      BY <2>2
    <3>2. TailPops = 0 => Under(TailPops) = stack
      BY <2>2, <3>1, SubSeqFull DEF Under
    <3>3. QED
      BY <1>10, <3>2 DEF Return, NoTail
  <2>4. eip' = [eip EXCEPT !.at = AtBody + 1] /\ UNCHANGED <<regs, ints, nmi, errorCode, theIRQ, acts>>
    BY <1>10 DEF Return
  <2>5. eip' \in Spot /\ eip'.stub = eip.stub /\ eip'.at = AtBody + 1
    BY <2>2, <2>4 DEF Spot, AtIret, AtBody
  <2>6. Good(stack, This, eip', Len(stack), regs)
    BY <2>1, <2>2, <2>5, StayGood DEF AtCode, AtBody
  <2>7. Types'
    BY <2>3, <2>4, <2>5 DEF Inv, Types
  <2>8. This' = This /\ Good(stack', This', eip', Len(stack'), regs')
    BY <2>3, <2>4, <2>6 DEF This
  <2>9. QED
    BY <2>1, <2>3, <2>4, <2>7, <2>8, TopStep
<1>11. CASE Pop
  <2>1. eip.at - AtBody \in 1 .. 8
    BY <1>11, Domains DEF Pop
  <2>2. eip \in Spot
    BY DEF Inv, Types
  <2>3. eip.at \in 11 .. 18
    BY <2>1, <2>2 DEF AtBody, Spot, AtIret
  <2>4. acts # << >>
    BY <2>3, StubRuns
  <2>5. /\ This \in Activation /\ Good(stack, This, eip, Len(stack), regs)
        /\ stack \in Seq(Word) /\ regs \in [GPR -> Word] /\ This.height \in Nat
    BY <2>4, Running DEF Inv, Types, Activation
  <2>6. /\ stack' = SubSeq(stack, 1, Len(stack) - 1) /\ eip' = [eip EXCEPT !.at = @ + 1]
        /\ regs' = IF RestTrapRegs[eip.at - AtBody] = "esp" THEN regs
                   ELSE [regs EXCEPT ![RestTrapRegs[eip.at - AtBody]] = stack[Len(stack)]]
        /\ UNCHANGED <<ints, nmi, errorCode, theIRQ, acts>>
    BY <1>11 DEF Pop, Under, Top
  <2>7. /\ stack' \in Seq(Word) /\ Len(stack') >= This.height /\ Len(stack') = Len(stack) - 1
        /\ \A k \in 1 .. Len(stack') : stack'[k] = stack[k]
        /\ regs' \in [GPR -> Word]
        /\ Good(stack', This, [eip EXCEPT !.at = @ + 1], Len(stack'), regs')
    <3>1. regs' = RegsPopped(stack, eip, regs)
      BY <2>6 DEF RegsPopped
    <3>2. Left(stack, stack', This, [eip EXCEPT !.at = @ + 1], regs')
      <4>1. Left(stack, SubSeq(stack, 1, Len(stack) - 1), This, [eip EXCEPT !.at = @ + 1],
                 RegsPopped(stack, eip, regs))
        BY <2>1, <2>2, <2>5, PopGood, Zenon
      <4>2. stack' = SubSeq(stack, 1, Len(stack) - 1)
        BY <2>6
      <4>3. QED
        BY <4>1, <4>2, <3>1, Zenon
    <3>3. QED
      BY <3>2 DEF Left
  <2>8. eip' \in Spot
    <3>1. eip.at \in 1 .. 18
      BY <2>3
    <3>2. QED
      BY <2>2, <2>6, <3>1, NextSpot, Zenon
  <2>9. Types'
    BY <2>6, <2>7, <2>8 DEF Inv, Types
  <2>10. This' = This /\ Good(stack', This', eip', Len(stack'), regs')
    BY <2>6, <2>7 DEF This
  <2>11. \A k \in 1 .. This.height : stack'[k] = stack[k]
    BY <2>5, <2>7
  <2>12. QED
    BY <2>4, <2>6, <2>9, <2>10, <2>11, TopStep
<1>12. CASE Iret
  <2>1. acts # << >>
    BY <1>12, StubRuns DEF Iret, AtIret
  <2>2. QED
    BY <1>12, <2>1, IretInv
<1>13. QED
  BY <1>1, <1>2, <1>3, <1>4, <1>5, <1>6, <1>7, <1>8, <1>9, <1>10, <1>11, <1>12 DEF Next
-----------------------------------------------------------------------------
(* Whose TheIRQ and whose _ErrorCode *)

\* What is so of activation a at place p: "on" is IF there and "last" whether it
\* runs; nm, irq and code are the values of nmi, theIRQ and errorCode.
Held(a, p, on, last, nm, irq, code) ==
    /\ a.stub = "NMI" => last /\ nm
    /\ p.at =< AtCall \/ a.stub = "NMI" => ~on
    /\ a.stub \in Stubs => a.own = a.stub
    /\ a.stub \in Stubs /\ p.at \in 1 .. AtCall => irq = a.stub
    /\ a.stub = "PageFault" /\ p.at \in 1 .. AtCall => code = a.own
    /\ a.got \in {None, a.own}

AllHeld ==
    \A i \in DOMAIN acts :
        Held(acts[i], PlaceOf(i), IntsOf(i), i = Len(acts), nmi, theIRQ, errorCode)

\* Only an NMI comes between the first instruction of a stub and its call.
OnlyNMI ==
    \A i \in DOMAIN acts :
        i # Len(acts) /\ PlaceOf(i).at =< AtCall => acts[i + 1].stub = "NMI"

OwnInv == AllHeld /\ OnlyNMI

\* While an activation has not made its call, what runs is the activation
\* itself or an NMI above it.
LEMMA Masked ==
    ASSUME Inv, OwnInv, NEW i \in DOMAIN acts, i # Len(acts)
    PROVE  /\ acts[i].stub # "NMI"
           /\ PlaceOf(i).at =< AtCall => This.stub = "NMI"
<1>1. Len(acts) \in Nat /\ DOMAIN acts = 1 .. Len(acts)
  BY DEF Inv, Types
<1>2. acts[i].stub # "NMI"
  BY DEF OwnInv, AllHeld, Held
<1>3. i + 1 \in DOMAIN acts
  BY <1>1, NotLast, Zenon
<1>4. acts[i + 1].stub = "NMI" => i + 1 = Len(acts)
  BY <1>3 DEF OwnInv, AllHeld, Held
<1>5. PlaceOf(i).at =< AtCall => acts[i + 1].stub = "NMI"
  BY DEF OwnInv, OnlyNMI
<1>6. QED
  BY <1>2, <1>4, <1>5 DEF This

\* With interrupts on, or in C code outside an NMI, no activation is short of
\* its call and none is an NMI's.
LEMMA AllCalled ==
    ASSUME Inv, OwnInv,
           acts # << >> => This.stub # "NMI" /\ ~(eip.at =< AtCall),
           NEW i \in DOMAIN acts
    PROVE  acts[i].stub # "NMI" /\ ~(PlaceOf(i).at =< AtCall)
<1>1. acts # << >>
  BY DEF Inv, Types
<1>2. CASE i = Len(acts)
  BY <1>1, <1>2 DEF This, PlaceOf
<1>3. CASE i # Len(acts)
  BY <1>1, <1>3, Masked
<1>4. QED
  BY <1>2, <1>3

\* A stub is entered.
LEMMA EnterOwn ==
    ASSUME Inv, OwnInv, NEW q \in Stubs \union Raised, NEW at \in {AtCode, 1}, NEW codes,
           Enter(q, at, codes),
           q \in Stubs => at = AtCode /\ codes = << >>,
           q = "PageFault" => at = AtCode,
           q = "NMI" => nmi',
           \A i \in DOMAIN acts : acts[i].stub # "NMI",
           q # "NMI" => \A i \in DOMAIN acts : ~(PlaceOf(i).at =< AtCall)
    PROVE  OwnInv'
<1> DEFINE n == Len(acts)
           a == [stub |-> q, regs |-> regs, eip |-> eip, ints |-> ints, height |-> Len(stack),
                 own |-> IF codes = << >> THEN q ELSE codes[1], got |-> None]
<1>1. n \in Nat /\ acts \in Seq(Activation) /\ DOMAIN acts = 1 .. n
  BY DEF Inv, Types
<1>2. a.stub = q /\ a.got = None /\ a.ints = ints /\ a.eip = eip /\ (codes = << >> => a.own = q)
  OBVIOUS
<1>3. acts' = Append(acts, a)
  BY DEF Enter
<1> HIDE DEF a
<1>4. /\ Len(acts') = n + 1 /\ DOMAIN acts' = 1 .. n + 1
      /\ acts'[n + 1] = a /\ \A i \in 1 .. n : acts'[i] = acts[i]
  BY <1>1, <1>3
<1>5. /\ eip'.stub = q /\ eip'.at = at /\ ints' = FALSE
      /\ theIRQ' = theIRQ /\ errorCode' = errorCode
  BY DEF Enter, Place
<1>6. ASSUME NEW i \in 1 .. n
      PROVE  PlaceOf(i)' = PlaceOf(i) /\ IntsOf(i)' = IntsOf(i)
  <2>1. i # n + 1 /\ i + 1 \in 1 .. n + 1
    BY <1>1
  <2>2. CASE i = n
    BY <2>1, <2>2, <1>2, <1>4 DEF PlaceOf, IntsOf
  <2>3. CASE i # n
    <3>1. i + 1 \in 1 .. n
      BY <2>3, <1>1, NotLast, Zenon
    <3>2. acts'[i + 1] = acts[i + 1] /\ i # Len(acts') /\ i # Len(acts)
      BY <3>1, <2>1, <2>3, <1>4
    <3>3. QED
      BY <3>2 DEF PlaceOf, IntsOf
  <2>4. QED
    BY <2>2, <2>3
<1>7. AllHeld'
  <2> SUFFICES ASSUME NEW i \in 1 .. n + 1
               PROVE  Held(acts[i], PlaceOf(i), IntsOf(i), i = Len(acts), nmi, theIRQ, errorCode)'
    BY <1>4 DEF AllHeld
  <2>1. CASE i = n + 1
    <3>1. acts'[i] = a /\ PlaceOf(i)' = eip' /\ IntsOf(i)' = FALSE /\ i = Len(acts')
      BY <2>1, <1>4, <1>5 DEF PlaceOf, IntsOf
    <3>2. ~(AtCode \in 1 .. AtCall)
      BY DEF AtCode
    <3>3. Held(a, eip', FALSE, TRUE, nmi', theIRQ', errorCode')
      BY <3>2, <1>2, <1>5 DEF Held
    <3>4. QED
      BY <3>1, <3>3
  <2>2. CASE i # n + 1
    <3>1. i \in 1 .. n
      BY <2>2, <1>1
    <3>2. Held(acts[i], PlaceOf(i), IntsOf(i), i = Len(acts), nmi, theIRQ, errorCode)
      BY <3>1, <1>1 DEF OwnInv, AllHeld
    <3>3. acts[i].stub # "NMI"
      BY <3>1, <1>1
    <3>4. QED
      BY <3>1, <3>2, <3>3, <1>4, <1>5, <1>6 DEF Held
  <2>3. QED
    BY <2>1, <2>2
<1>8. OnlyNMI'
  <2> SUFFICES ASSUME NEW i \in 1 .. n + 1, i # n + 1, PlaceOf(i)'.at =< AtCall
               PROVE  acts'[i + 1].stub = "NMI"
    BY <1>4 DEF OnlyNMI
  <2>1. i \in 1 .. n
    BY <1>1
  <2>2. PlaceOf(i).at =< AtCall
    BY <2>1, <1>6
  <2>3. CASE i = n
    <3>1. q = "NMI"
      BY <2>1, <2>2, <1>1
    <3>2. QED
      BY <2>3, <3>1, <1>2, <1>4
  <2>4. CASE i # n
    <3>1. i + 1 \in 1 .. n
      BY <2>1, <2>4, <1>1, NotLast, Zenon
    <3>2. acts[i + 1].stub = "NMI"
      BY <2>1, <2>2, <2>4, <1>1 DEF OwnInv, OnlyNMI
    <3>3. QED
      BY <3>1, <3>2, <1>4
  <2>5. QED
    BY <2>3, <2>4
<1>9. QED
  BY <1>7, <1>8 DEF OwnInv

\* A step of the running activation; only what is not an NMI writes TheIRQ or
\* _ErrorCode.
LEMMA TopOwn ==
    ASSUME Inv, OwnInv, acts # << >>, Len(acts') = Len(acts), DOMAIN acts' = DOMAIN acts,
           \A i \in DOMAIN acts :
              /\ acts'[i].stub = acts[i].stub
              /\ acts'[i].eip = acts[i].eip
              /\ acts'[i].ints = acts[i].ints
              /\ i # Len(acts) => acts'[i] = acts[i],
           This.stub = "NMI" => theIRQ' = theIRQ /\ errorCode' = errorCode,
           Held(acts'[Len(acts)], eip', ints', TRUE, nmi', theIRQ', errorCode')
    PROVE  OwnInv'
<1> DEFINE n == Len(acts)
<1>1. n \in Nat /\ DOMAIN acts = 1 .. n /\ DOMAIN acts' = 1 .. n
  BY DEF Inv, Types
<1>2. ASSUME NEW i \in 1 .. n, i # n
      PROVE  PlaceOf(i)' = PlaceOf(i) /\ IntsOf(i)' = IntsOf(i)
  <2>1. i + 1 \in 1 .. n
    BY <1>1, <1>2, NotLast, Zenon
  <2>2. acts'[i + 1].eip = acts[i + 1].eip /\ acts'[i + 1].ints = acts[i + 1].ints
    BY <2>1, <1>1
  <2>3. QED
    BY <2>2, <1>2 DEF PlaceOf, IntsOf
<1>3. AllHeld'
  <2> SUFFICES ASSUME NEW i \in 1 .. n
               PROVE  Held(acts[i], PlaceOf(i), IntsOf(i), i = Len(acts), nmi, theIRQ, errorCode)'
    BY <1>1 DEF AllHeld
  <2>1. CASE i = n
    <3>1. PlaceOf(i)' = eip' /\ IntsOf(i)' = ints' /\ i = Len(acts')
      BY <2>1 DEF PlaceOf, IntsOf
    <3>2. QED
      BY <2>1, <3>1
  <2>2. CASE i # n
    <3>1. Held(acts[i], PlaceOf(i), IntsOf(i), i = Len(acts), nmi, theIRQ, errorCode)
      BY <1>1 DEF OwnInv, AllHeld
    <3>2. acts[i].stub # "NMI" /\ (PlaceOf(i).at =< AtCall => This.stub = "NMI")
      BY <2>2, <1>1, Masked
    <3>3. acts'[i] = acts[i] /\ PlaceOf(i)' = PlaceOf(i) /\ IntsOf(i)' = IntsOf(i)
      BY <2>2, <1>1, <1>2
    <3>4. PlaceOf(i).at \in 1 .. AtCall => PlaceOf(i).at =< AtCall
      BY DEF AtCall
    <3>5. QED
      BY <3>1, <3>2, <3>3, <3>4 DEF Held
  <2>3. QED
    BY <2>1, <2>2
<1>4. OnlyNMI'
  <2> SUFFICES ASSUME NEW i \in 1 .. n, i # n, PlaceOf(i)'.at =< AtCall
               PROVE  acts'[i + 1].stub = "NMI"
    BY <1>1 DEF OnlyNMI
  <2>1. i + 1 \in 1 .. n
    BY <1>1, NotLast, Zenon
  <2>2. acts[i + 1].stub = "NMI"
    BY <1>1, <1>2 DEF OwnInv, OnlyNMI
  <2>3. QED
    BY <2>1, <2>2, <1>1
<1>5. QED
  BY <1>3, <1>4 DEF OwnInv

\* IRET leaves the activations below as they were, and none of them is an NMI's.
LEMMA IretOwn == ASSUME Inv, OwnInv, acts # << >>, Iret PROVE OwnInv'
<1> DEFINE n == Len(acts)
<1>1. /\ n \in Nat /\ DOMAIN acts = 1 .. n
      /\ Len(acts') = n - 1 /\ DOMAIN acts' = 1 .. n - 1
      /\ theIRQ' = theIRQ /\ errorCode' = errorCode
  <2>1. n \in Nat /\ DOMAIN acts = 1 .. n
    BY DEF Inv, Types
  <2>2. Len(acts') = n - 1 /\ DOMAIN acts' = 1 .. n - 1
    BY IretLower
  <2>3. theIRQ' = theIRQ /\ errorCode' = errorCode
    BY DEF Iret
  <2>4. QED
    BY <2>1, <2>2, <2>3
<1>2. ASSUME NEW i \in 1 .. n - 1
      PROVE  /\ PlaceOf(i)' = PlaceOf(i) /\ IntsOf(i)' = IntsOf(i) /\ acts'[i] = acts[i]
             /\ i \in DOMAIN acts /\ i # n
  <2>1. i # n
    BY <1>1, BelowLast, Zenon
  <2>2. QED
    BY <1>1, <2>1, IretLower
<1>3. AllHeld'
  <2> SUFFICES ASSUME NEW i \in 1 .. n - 1
               PROVE  Held(acts[i], PlaceOf(i), IntsOf(i), i = Len(acts), nmi, theIRQ, errorCode)'
    BY <1>1 DEF AllHeld
  <2>1. Held(acts[i], PlaceOf(i), IntsOf(i), i = Len(acts), nmi, theIRQ, errorCode)
    BY <1>2 DEF OwnInv, AllHeld
  <2>2. acts[i].stub # "NMI"
    BY <1>2, Masked
  <2>3. QED
    BY <2>1, <2>2, <1>1, <1>2 DEF Held
<1>4. OnlyNMI'
  <2> SUFFICES ASSUME NEW i \in 1 .. n - 1, i # n - 1, PlaceOf(i)'.at =< AtCall
               PROVE  acts'[i + 1].stub = "NMI"
    BY <1>1 DEF OnlyNMI
  <2>1. i + 1 \in 1 .. n - 1
    BY <1>1, BelowLast, Zenon
  <2>2. acts[i + 1].stub = "NMI"
    BY <1>2 DEF OwnInv, OnlyNMI
  <2>3. QED
    BY <2>1, <2>2, <1>2
<1>5. QED
  BY <1>3, <1>4 DEF OwnInv

\* What is held of the activation that runs.
LEMMA RunningHeld ==
    ASSUME Inv, OwnInv, acts # << >>
    PROVE  Held(This, eip, ints, TRUE, nmi, theIRQ, errorCode)
<1> DEFINE n == Len(acts)
<1>1. n \in DOMAIN acts
  BY Running
<1>2. Held(acts[n], PlaceOf(n), IntsOf(n), n = Len(acts), nmi, theIRQ, errorCode)
  BY <1>1 DEF OwnInv, AllHeld
<1>3. QED
  BY <1>2 DEF PlaceOf, IntsOf, This

\* A step of the running activation that leaves the pile alone.
LEMMA AloneOwn ==
    ASSUME Inv, OwnInv, acts # << >>, UNCHANGED acts,
           This.stub = "NMI" => theIRQ' = theIRQ /\ errorCode' = errorCode,
           Held(This, eip', ints', TRUE, nmi', theIRQ', errorCode')
    PROVE  OwnInv'
<1>1. Held(acts'[Len(acts)], eip', ints', TRUE, nmi', theIRQ', errorCode')
  BY DEF This
<1>2. QED
  BY <1>1, TopOwn

\* Every step keeps TheIRQ and _ErrorCode for the activation they are for.
LEMMA StepOwn == ASSUME CodesAgree, Inv, OwnInv, [Next]_vars PROVE OwnInv'
<1> USE DEF AtCode, AtCall, AtBody, AtIret
<1>1. CASE UNCHANGED vars
  BY <1>1 DEF vars, OwnInv, AllHeld, OnlyNMI, PlaceOf, IntsOf
<1>2. CASE CriticalSection
  <2>1. acts = << >> /\ acts' = << >>
    BY <1>2, Running DEF CriticalSection
  <2>2. QED
    BY <2>1 DEF OwnInv, AllHeld, OnlyNMI
<1>3. CASE Interrupt
  <2>1. PICK q \in Stubs : Enter(q, AtCode, << >>)
    BY <1>3 DEF Interrupt
  <2>2. acts # << >> => This.stub # "NMI" /\ ~(eip.at =< AtCall)
    BY <1>3, RunningHeld DEF Interrupt, Held
  <2>3. \A i \in DOMAIN acts : acts[i].stub # "NMI" /\ ~(PlaceOf(i).at =< AtCall)
    BY <2>2, AllCalled
  <2>4. q # "NMI" /\ q # "PageFault"
    BY TrapAssumption DEF Exceptions
  <2>5. QED
    BY <2>1, <2>3, <2>4, EnterOwn
<1>4. CASE Fault
  <2>1. acts # << >> => This.stub # "NMI" /\ ~(eip.at =< AtCall)
    BY <1>4, Running, TrapAssumption DEF Fault, Exceptions
  <2>2. \A i \in DOMAIN acts : acts[i].stub # "NMI" /\ ~(PlaceOf(i).at =< AtCall)
    BY <2>1, AllCalled
  <2>3. PICK k \in Raised \ {"NMI"}, codes \in {<< >>} \union {<<Code(c)>> : c \in Codes} :
           Enter(k, FirstAt(k), codes)
    BY <1>4 DEF Fault
  <2>4. k \notin Stubs /\ FirstAt(k) \in {AtCode, 1} /\ (k = "PageFault" => FirstAt(k) = AtCode)
    BY TrapAssumption DEF FirstAt, ERRCODE
  <2>5. QED
    BY <2>2, <2>3, <2>4, EnterOwn
<1>5. CASE NMI
  <2>1. "NMI" \in Raised /\ "NMI" \notin Stubs /\ Enter("NMI", 1, << >>) /\ nmi' /\ ~nmi
    BY <1>5, StubKinds, TrapAssumption DEF NMI, FirstAt
  <2>2. \A i \in DOMAIN acts : acts[i].stub # "NMI"
    BY <2>1 DEF OwnInv, AllHeld, Held
  <2>3. QED
    BY <2>1, <2>2, EnterOwn
<1>6. CASE PopErrorCode
  <2>1. eip.stub \in Exceptions /\ eip.at = AtCode /\ acts # << >>
    <3>1. eip.stub \in Exceptions /\ eip.at = AtCode
      BY <1>6 DEF PopErrorCode
    <3>2. eip.stub # Kernel
      BY <3>1 DEF Exceptions, Kernel
    <3>3. QED
      BY <3>1, <3>2, StubRuns
  <2>2. /\ This \in Activation /\ Good(stack, This, eip, Len(stack), regs) /\ This.stub = eip.stub
        /\ stack \in Seq(Word) /\ eip \in Spot /\ regs \in [GPR -> Word]
    BY <2>1, Running DEF Inv, Types
  <2>3. This.stub \in PushesCode /\ This.stub # "NMI" /\ This.stub \notin Stubs
    BY <2>1, <2>2, StubKinds, TrapAssumption DEF Good, CodeOn, PushesCode
  <2>4. /\ eip'.at = 1 /\ errorCode' = stack[Len(stack)]
        /\ UNCHANGED <<ints, nmi, theIRQ, acts>>
    BY <1>6, <2>2 DEF PopErrorCode, Top, Spot
  <2>5. errorCode' = This.own
    BY <2>1, <2>2, <2>3, <2>4, PopCodeGood, Zenon
  <2>6. Held(This, eip', ints', TRUE, nmi', theIRQ', errorCode')
    BY <2>1, <2>3, <2>4, <2>5, RunningHeld DEF Held
  <2>7. QED
    BY <2>1, <2>3, <2>4, <2>6, AloneOwn
<1>7. CASE PopTheIRQ
  <2>1. /\ eip.stub \in Stubs /\ eip.at = AtCode /\ eip'.at = 1 /\ theIRQ' = eip.stub
        /\ UNCHANGED <<ints, nmi, errorCode, acts>>
    BY <1>7 DEF PopTheIRQ, Inv, Types, Spot
  <2>2. acts # << >>
    BY <2>1, StubRuns, TrapAssumption
  <2>3. This.stub = eip.stub /\ This.stub # "NMI" /\ This.stub # "PageFault"
    BY <2>1, <2>2, Running, TrapAssumption DEF Exceptions
  <2>4. Held(This, eip', ints', TRUE, nmi', theIRQ', errorCode')
    BY <2>1, <2>2, <2>3, RunningHeld DEF Held
  <2>5. QED
    BY <2>1, <2>2, <2>3, <2>4, AloneOwn
<1>8. CASE Push
  <2>1. /\ eip.at \in 1 .. 8 /\ eip'.at = eip.at + 1
        /\ UNCHANGED <<ints, nmi, theIRQ, errorCode, acts>>
    BY <1>8, Domains DEF Push, Inv, Types, Spot
  <2>2. acts # << >>
    BY <2>1, StubRuns
  <2>3. Held(This, eip', ints', TRUE, nmi', theIRQ', errorCode')
    BY <2>1, <2>2, RunningHeld DEF Held
  <2>4. QED
    BY <2>1, <2>2, <2>3, AloneOwn
<1>9. CASE Call
  <2>1. /\ eip.at = 9 /\ eip'.at = 10
        /\ ints' \in IF eip.stub \in Stubs THEN {ints, TRUE} ELSE {ints}
        /\ UNCHANGED <<nmi, theIRQ, errorCode>>
    BY <1>9 DEF Call, Inv, Types, Spot
  <2>2. acts # << >>
    BY <2>1, StubRuns
  <2> DEFINE n == Len(acts)
             g == IF eip.stub \in Stubs THEN theIRQ
                  ELSE IF eip.stub = "PageFault" THEN errorCode ELSE None
             b == [acts[n] EXCEPT !.got = g]
  <2>3. /\ This \in Activation /\ This = acts[n] /\ This.stub = eip.stub
        /\ n \in 1 .. n /\ n \in Nat /\ acts \in Seq(Activation) /\ DOMAIN acts = 1 .. n
    BY <2>2, Running DEF Inv, Types, This
  <2>4. acts' = [acts EXCEPT ![n] = b]
    BY <1>9 DEF Call
  <2>5. g \in {None, This.own}
    BY <2>1, <2>2, <2>3, RunningHeld DEF Held
  <2>6. /\ b.stub = acts[n].stub /\ b.eip = acts[n].eip /\ b.ints = acts[n].ints
        /\ b.own = acts[n].own /\ b.got = g
    <3> HIDE DEF g
    <3>1. QED
      BY <2>3 DEF Activation
  <2> HIDE DEF b, g
  <2>7. /\ DOMAIN acts' = DOMAIN acts /\ Len(acts') = n /\ acts'[n] = b
        /\ \A i \in 1 .. n : i # n => acts'[i] = acts[i]
    <3>1. b \in Activation
      <4>1. g \in Stubs \union Word \union {None}
        BY DEF g, Inv, Types
      <4>2. QED
        BY <4>1, <2>3 DEF b, Activation
    <3>2. acts' \in Seq(Activation) /\ Len(acts') = n /\ acts'[n] = b
          /\ \A i \in 1 .. n : i # n => acts'[i] = acts[i]
      BY <2>3, <2>4, <3>1, ExceptSeq
    <3>3. DOMAIN acts' = DOMAIN acts
      <4>1. DOMAIN acts' = 1 .. Len(acts')
        BY <3>2, LenProperties
      <4>2. QED
        BY <4>1, <3>2, <2>3, Zenon
    <3>4. QED
      BY <3>2, <3>3, Zenon
  <2>8. This.stub = "NMI" => ~ints'
    BY <2>1, <2>2, <2>3, RunningHeld, TrapAssumption DEF Held, Exceptions
  <2>9. Held(b, eip', ints', TRUE, nmi', theIRQ', errorCode')
    BY <2>1, <2>2, <2>3, <2>5, <2>6, <2>8, RunningHeld DEF Held
  <2>10. ASSUME NEW i \in DOMAIN acts
         PROVE  /\ acts'[i].stub = acts[i].stub
                /\ acts'[i].eip = acts[i].eip
                /\ acts'[i].ints = acts[i].ints
                /\ i # Len(acts) => acts'[i] = acts[i]
    <3>1. CASE i = n
      BY <2>6, <2>7, <3>1
    <3>2. CASE i # n
      BY <2>3, <2>7, <3>2
    <3>3. QED
      BY <3>1, <3>2
  <2>11. QED
    BY <2>1, <2>2, <2>7, <2>9, <2>10, TopOwn
<1>10. CASE Return
  <2>1. /\ eip.at = 10 /\ eip'.at = 11
        /\ UNCHANGED <<ints, nmi, theIRQ, errorCode, acts>>
    BY <1>10 DEF Return, Inv, Types, Spot
  <2>2. acts # << >>
    BY <2>1, StubRuns
  <2>3. Held(This, eip', ints', TRUE, nmi', theIRQ', errorCode')
    BY <2>1, <2>2, RunningHeld DEF Held
  <2>4. QED
    BY <2>1, <2>2, <2>3, AloneOwn
<1>11. CASE Pop
  <2>1. /\ eip.at \in 11 .. 18 /\ eip'.at = eip.at + 1
        /\ UNCHANGED <<ints, nmi, theIRQ, errorCode, acts>>
    BY <1>11, Domains DEF Pop, Inv, Types, Spot
  <2>2. acts # << >>
    BY <2>1, StubRuns
  <2>3. Held(This, eip', ints', TRUE, nmi', theIRQ', errorCode')
    BY <2>1, <2>2, RunningHeld DEF Held
  <2>4. QED
    BY <2>1, <2>2, <2>3, AloneOwn
<1>12. CASE Iret
  <2>1. acts # << >>
    BY <1>12, StubRuns DEF Iret
  <2>2. QED
    BY <1>12, <2>1, IretOwn
<1>13. QED
  BY <1>1, <1>2, <1>3, <1>4, <1>5, <1>6, <1>7, <1>8, <1>9, <1>10, <1>11, <1>12 DEF Next

-----------------------------------------------------------------------------
(* The theorems.  Two assumptions: Continue takes off what was pushed, or no   *)
(* IRQ stub is in use (NoTail: as built Continue takes off a DWORD more); and  *)
(* ERRCODE is right for the exceptions that occur (CodesAgree: it is wrong for *)
(* BoundRangeExceeded alone, which takes a DWORD off that was never pushed).   *)
(* GeneralProtect is not among the exceptions (TrapAssumption).                *)

LEMMA Always == ASSUME NoTail, CodesAgree PROVE Spec => [](Inv /\ OwnInv)
<1>1. Init => Inv /\ OwnInv
  <2>1. Init => acts = << >>
    BY DEF Init
  <2>2. QED
    BY <2>1, InitInv DEF OwnInv, AllHeld, OnlyNMI
<1>2. Inv /\ OwnInv /\ [Next]_vars => (Inv /\ OwnInv)'
  BY StepInv, StepOwn
<1>3. QED
  BY <1>1, <1>2, PTL DEF Spec

\* The machine's state has its types for any depth, and any stubs and exceptions
\* that NoTail and CodesAgree allow.
THEOREM TrapTypeCorrect == ASSUME NoTail, CodesAgree PROVE Spec => []TypeOK
<1>1. Inv => TypeOK
  <2> SUFFICES ASSUME Inv PROVE TypeOK
    OBVIOUS
  <2>1. \A i \in DOMAIN acts : acts[i] \in Activation
    BY DEF Inv, Types
  <2>2. eip.at \in 0 .. AtIret /\ DOMAIN regs = GPR
    BY DEF Inv, Types, Spot
  <2>3. \A i \in DOMAIN acts :
           /\ acts[i].stub \in Stubs \union Raised
           /\ acts[i].ints \in BOOLEAN
           /\ acts[i].height \in Nat
    BY <2>1 DEF Activation
  <2>4. QED
    BY <2>2, <2>3 DEF Inv, Types, TypeOK
<1>2. QED
  BY <1>1, Always, PTL

\* However deep interrupts, exceptions and NMIs nest, and at whatever
\* instruction of a stub they strike, every activation keeps its frame and the
\* registers it saved, under NoTail and CodesAgree.
THEOREM TrapFrames == ASSUME NoTail, CodesAgree PROVE Spec => []FramesIntact
<1>1. Inv => FramesIntact
  BY DEF Inv, AllGood, Good, FramesIntact
<1>2. QED
  BY <1>1, Always, PTL

\* IRET resumes what was interrupted, with its registers, flags and stack, under
\* NoTail and CodesAgree.  With Continue's add esp,4 it does not.
THEOREM TrapResumes == ASSUME NoTail, CodesAgree PROVE Spec => ResumesExactly
<1> DEFINE Exact == Len(acts') < Len(acts) =>
                       /\ regs' = This.regs
                       /\ eip' = This.eip
                       /\ ints' = This.ints
                       /\ Len(stack') = This.height
<1>1. Inv /\ [Next]_vars => [Exact]_vars
  <2> SUFFICES ASSUME Inv, Next, Len(acts') < Len(acts) PROVE Exact
    BY DEF vars
  <2>1. Len(acts) \in Nat /\ acts \in Seq(Activation)
    BY DEF Inv, Types
  <2>2. ASSUME NEW q, NEW at, NEW codes, Enter(q, at, codes) PROVE FALSE
    <3>1. PICK a : acts' = Append(acts, a)
      BY <2>2 DEF Enter
    <3>2. Len(acts') = Len(acts) + 1
      BY <2>1, <3>1
    <3>3. QED
      BY <2>1, <3>2
  <2>3. ~Interrupt /\ ~Fault /\ ~NMI
    BY <2>2 DEF Interrupt, Fault, NMI
  <2>4. UNCHANGED acts => FALSE
    BY <2>1
  <2>5. ~Call
    <3> SUFFICES ASSUME Call PROVE FALSE
      OBVIOUS
    <3>1. PICK b : acts' = [acts EXCEPT ![Len(acts)] = b]
      BY DEF Call
    <3>2. Len(acts') = Len(acts)
      BY <2>1, <3>1
    <3>3. QED
      BY <2>1, <3>2
  <2>6. Iret
    BY <2>3, <2>4, <2>5 DEF Next, CriticalSection, PopErrorCode, PopTheIRQ, Push, Return, Pop
  <2>7. acts # << >>
    BY <2>6, StubRuns DEF Iret, AtIret
  <2>8. QED
    BY <2>6, <2>7, IretExact
<1>2. QED
  BY <1>1, Always, PTL DEF Spec, ResumesExactly

\* The one TheIRQ and the one _ErrorCode reach the handler they are for, under
\* NoTail and CodesAgree.
THEOREM TrapArguments == ASSUME NoTail, CodesAgree PROVE Spec => []OwnArgument
<1>1. OwnInv => OwnArgument
  BY DEF OwnInv, AllHeld, Held, OwnArgument
<1>2. QED
  BY <1>1, Always, PTL

=============================================================================
