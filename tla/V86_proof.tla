------------------------------ MODULE V86_proof ------------------------------
(***************************************************************************)
(* Proofs about V86: how high the kernel's stack is in each place, what of *)
(* it the callers find again, and what becomes of the interrupt flag, for  *)
(* any depth of calls and with the stub of #GP as built or as meant.       *)
(***************************************************************************)
EXTENDS V86, SequenceTheorems, TLAPS

-----------------------------------------------------------------------------
(* Sequences of any elements. *)

IsSeq(s) == \E S : s \in Seq(S)

LEMMA SeqLength == ASSUME NEW s, IsSeq(s) PROVE Len(s) \in Nat /\ DOMAIN s = 1 .. Len(s)
  BY SMT DEF IsSeq

\* s starts the sequence u and t goes on from there.
JoinOf(u, s, t) ==
    /\ IsSeq(u)
    /\ Len(u) = Len(s) + Len(t)
    /\ \A k \in 1 .. Len(s) : u[k] = s[k]
    /\ \A k \in 1 .. Len(t) : u[Len(s) + k] = t[k]

LEMMA Joined ==
  ASSUME NEW s, NEW t, IsSeq(s), IsSeq(t)
  PROVE  JoinOf(s \o t, s, t)
  <1>1. PICK S : s \in Seq(S)
    BY DEF IsSeq
  <1>2. PICK T : t \in Seq(T)
    BY DEF IsSeq
  <1>3. s \in Seq(S \union T) /\ t \in Seq(S \union T)
    BY <1>1, <1>2, SMT
  <1>4. s \o t \in Seq(S \union T)
    BY <1>3, SMT
  <1> QED
    BY <1>3, <1>4, SMT DEF IsSeq, JoinOf

AppendOf(u, s, w) ==
    /\ IsSeq(u)
    /\ Len(u) = Len(s) + 1
    /\ \A k \in 1 .. Len(s) : u[k] = s[k]
    /\ u[Len(s) + 1] = w

LEMMA Appended ==
  ASSUME NEW s, NEW w, IsSeq(s)
  PROVE  AppendOf(Append(s, w), s, w)
  <1>1. PICK S : s \in Seq(S)
    BY DEF IsSeq
  <1>2. s \in Seq(S \union {w}) /\ w \in S \union {w}
    BY <1>1, SMT
  <1>3. Append(s, w) \in Seq(S \union {w})
    BY <1>2, SMT
  <1> QED
    BY <1>2, <1>3, SMT DEF IsSeq, AppendOf

\* u is what s has from m to n.
CutOf(u, s, m, n) ==
    /\ IsSeq(u)
    /\ Len(u) = n + 1 - m
    /\ \A k \in 1 .. n + 1 - m : u[k] = s[m + k - 1]

LEMMA Cut ==
  ASSUME NEW s, IsSeq(s), NEW m \in Nat \ {0}, NEW n \in Nat, n =< Len(s), m =< n + 1
  PROVE  CutOf(SubSeq(s, m, n), s, m, n)
  <1>1. PICK S : s \in Seq(S)
    BY DEF IsSeq
  <1>2. \A i \in m .. n : s[i] \in S
    BY <1>1, SMT
  <1>3. /\ SubSeq(s, m, n) \in Seq(S)
        /\ Len(SubSeq(s, m, n)) = IF m =< n THEN n - m + 1 ELSE 0
        /\ \A i \in 1 .. n - m + 1 : SubSeq(s, m, n)[i] = s[m + i - 1]
    <2>1. m \in Int /\ n \in Int
      BY SMT
    <2> QED
      BY <2>1, <1>2, SubSeqProperties
  <1>4. IsSeq(SubSeq(s, m, n))
    BY <1>3, Zenon DEF IsSeq
  <1>5. Len(SubSeq(s, m, n)) = n + 1 - m /\ n - m + 1 = n + 1 - m
    BY <1>3, SMT
  <1> QED
    BY <1>3, <1>4, <1>5 DEF CutOf

LEMMA Overwritten ==
  ASSUME NEW s, IsSeq(s), NEW i \in 1 .. Len(s), NEW w
  PROVE  /\ IsSeq([s EXCEPT ![i] = w])
         /\ Len([s EXCEPT ![i] = w]) = Len(s)
         /\ \A k \in 1 .. Len(s) : [s EXCEPT ![i] = w][k] = IF k = i THEN w ELSE s[k]
  <1>1. PICK S : s \in Seq(S)
    BY DEF IsSeq
  <1>2. s \in Seq(S \union {w}) /\ w \in S \union {w}
    BY <1>1, SMT
  <1>3. /\ [s EXCEPT ![i] = w] \in Seq(S \union {w})
        /\ Len([s EXCEPT ![i] = w]) = Len(s)
        /\ \A j \in 1 .. Len(s) : [s EXCEPT ![i] = w][j] = IF j = i THEN w ELSE s[j]
    BY <1>2, ExceptSeq
  <1> QED
    BY <1>3, Zenon DEF IsSeq

\* A function on 1 .. n.
LEMMA Listed ==
  ASSUME NEW n \in Nat, NEW f, f = [k \in 1 .. n |-> f[k]]
  PROVE  IsSeq(f) /\ Len(f) = n
  <1> DEFINE S == {f[k] : k \in 1 .. n}
  <1>1. \A k \in 1 .. n : f[k] \in S
    OBVIOUS
  <1>2. f \in [1 .. n -> S]
    BY <1>1, Zenon
  <1> HIDE DEF S
  <1>3. f \in Seq(S) /\ Len(f) = n
    BY <1>2, SMT
  <1> QED
    BY <1>3, Zenon DEF IsSeq

LEMMA Few ==
  /\ IsSeq(<< >>) /\ Len(<< >>) = 0
  /\ \A a : IsSeq(<<a>>) /\ Len(<<a>>) = 1
  /\ \A a, b, c : IsSeq(<<a, b, c>>) /\ Len(<<a, b, c>>) = 3
  /\ \A a, b, c, d : IsSeq(<<a, b, c, d>>) /\ Len(<<a, b, c, d>>) = 4
  <1>1. << >> \in Seq({}) /\ Len(<< >>) = 0
    BY SMT
  <1>2. \A a : <<a>> \in Seq({a}) /\ Len(<<a>>) = 1
    BY SMT
  <1>3. \A a, b, c : <<a, b, c>> \in Seq({a, b, c}) /\ Len(<<a, b, c>>) = 3
    BY SMT
  <1>4. \A a, b, c, d : <<a, b, c, d>> \in Seq({a, b, c, d}) /\ Len(<<a, b, c, d>>) = 4
    BY SMT
  <1> QED
    BY <1>1, <1>2, <1>3, <1>4, Zenon DEF IsSeq

-----------------------------------------------------------------------------
(* The invariant. *)

\* A call as it is kept: the stack it was made with, in which the callers' are
\* contained, and of which only the kernel's own call may have interrupts on.
CallAt(c, i) ==
    /\ IsSeq(c.below) /\ Len(c.below) >= 24
    /\ c.ints \in BOOLEAN /\ (i > 1 => ~c.ints)
OnStack(s, b) == \A k \in 1 .. Len(b) : s[k] = b[k]
CallsOn(s, cs) ==
    \A i \in 1 .. Len(cs) :
        /\ CallAt(cs[i], i)
        /\ OnStack(s, cs[i].below)
        /\ Len(cs[i].below) =< Len(cs[Len(cs)].below)

Values == pc \in PCs /\ ints \in BOOLEAN /\ ds \in {"kernel", "null"} /\ DOMAIN cpu = Regs
Shape == IsSeq(stack) /\ IsSeq(calls) /\ CallsOn(stack, calls)
Depth ==
    /\ pc = "kernel" => stack = << >> /\ calls = << >>
    /\ pc # "kernel" => /\ Len(calls) > 0
                        /\ esp0 = Len(Top.below) + 1
                        /\ Height(pc, Len(stack))
    /\ pc = "overrun" => ~Stub.segsFirst
\* The flags of the interrupted V86 code are those its call was made with, and
\* ring 0 returns to nothing but that code and, from irq0, the handler.
Flags ==
    /\ pc = "v86" => ints = Top.ints
    /\ pc \in Ring0 => stack[esp0 + 7] = Eflags(TRUE, Top.ints)
    /\ pc \in Ring0 \ {"gpleave"} => ~ints
    /\ pc = "irq0" => /\ stack[esp0 + 18] = Eflags(FALSE, TRUE)
                      /\ stack[esp0 + 20] = Eip(Ring0Place("gpleave"))

Inv == Values /\ Shape /\ Depth /\ Flags

\* Where the words of a frame are.
LEMMA FrameWords ==
  /\ (CHOOSE i \in 1 .. RD_NUM_DWORDS : RD[i] = "eflags") = 11
  /\ (CHOOSE i \in 1 .. RD_NUM_DWORDS : RD[i] = "eip") = 9
  BY SMT DEF RD, RD_NUM_DWORDS

LEMMA FrameIsSeq ==
  ASSUME NEW c, NEW flags
  PROVE  /\ IsSeq(Frame(c, flags)) /\ Len(Frame(c, flags)) = 17
         /\ Frame(c, flags)[7] = flags
  <1> DEFINE f == Frame(c, flags)
  <1>1. f = [k \in 1 .. 17 |-> f[k]]
    BY SMT DEF Frame, RD_NUM_DWORDS
  <1>2. IsSeq(f) /\ Len(f) = 17
    <2> HIDE DEF f
    <2>1. 17 \in Nat
      BY SMT
    <2> QED
      BY <1>1, <2>1, Listed
  <1>3. f[7] = flags
    <2>1. f[7] = Word(c, flags, RD[11])
      BY SMT DEF Frame, RD_NUM_DWORDS
    <2>2. RD[11] = "eflags"
      BY SMT DEF RD
    <2> QED
      BY <2>1, <2>2, Zenon DEF Word
  <1> QED
    BY <1>2, <1>3

\* What the calls rest on is below ESP0.
LEMMA CallsStay ==
  ASSUME NEW s, NEW t, NEW cs, NEW h, IsSeq(cs), CallsOn(s, cs), Len(cs) > 0,
         h = Len(cs[Len(cs)].below) + 1, \A k \in 1 .. h : t[k] = s[k]
  PROVE  CallsOn(t, cs)
  <1> SUFFICES ASSUME NEW i \in 1 .. Len(cs)
               PROVE  /\ CallAt(cs[i], i) /\ OnStack(t, cs[i].below)
                      /\ Len(cs[i].below) =< Len(cs[Len(cs)].below)
    BY DEF CallsOn
  <1>1. /\ CallAt(cs[i], i) /\ OnStack(s, cs[i].below)
        /\ Len(cs[i].below) =< Len(cs[Len(cs)].below)
    BY DEF CallsOn
  <1>2. Len(cs) \in 1 .. Len(cs)
    BY SeqLength, SMT
  <1>3. CallAt(cs[Len(cs)], Len(cs))
    BY <1>2 DEF CallsOn
  <1>4. Len(cs[i].below) \in Nat /\ Len(cs[Len(cs)].below) \in Nat
    BY <1>1, <1>3, SeqLength DEF CallAt
  <1>5. \A k \in 1 .. Len(cs[i].below) : k \in 1 .. h
    BY <1>1, <1>4, SMT
  <1>6. OnStack(t, cs[i].below)
    BY <1>1, <1>5 DEF OnStack
  <1> QED
    BY <1>1, <1>6

LEMMA ShapeStays ==
  ASSUME Inv, pc # "kernel", esp0' = esp0, calls' = calls, IsSeq(stack'),
         \A k \in 1 .. esp0 : stack'[k] = stack[k]
  PROVE  Shape'
  <1>1. CallsOn(stack', calls)
    <2>1. /\ IsSeq(calls) /\ CallsOn(stack, calls) /\ Len(calls) > 0
          /\ esp0 = Len(calls[Len(calls)].below) + 1
      BY DEF Inv, Shape, Depth, Top
    <2> QED
      BY <2>1, CallsStay
  <1> QED
    BY <1>1 DEF Inv, Shape

-----------------------------------------------------------------------------
(* The steps. *)

\* What an Inv with a call in progress says of the sizes.
LEMMA Sizes ==
  ASSUME Inv, pc # "kernel"
  PROVE  /\ IsSeq(stack) /\ IsSeq(calls)
         /\ Len(calls) \in Nat /\ Len(calls) > 0 /\ esp0 \in Nat /\ esp0 > 24
         /\ esp0 = Len(Top.below) + 1
         /\ Len(stack) \in Nat /\ Len(stack) >= esp0
         /\ pc \notin {"gpstub", "overrun"} => Len(stack) = esp0 + Above[pc]
         /\ pc = "gpstub" /\ Stub.segsFirst => Len(stack) = esp0 + 10
         /\ pc = "gpstub" => Len(stack) >= esp0 + 9
  <1>1. /\ IsSeq(calls) /\ IsSeq(stack) /\ Len(calls) > 0
        /\ esp0 = Len(Top.below) + 1 /\ Height(pc, Len(stack))
        /\ pc \in PCs /\ (pc = "overrun" => ~Stub.segsFirst)
    BY DEF Inv, Shape, Depth, Values
  <1>2. Len(calls) \in Nat /\ Len(stack) \in Nat
    BY <1>1, SeqLength
  <1>3. Len(calls) \in 1 .. Len(calls)
    BY <1>1, <1>2, SMT
  <1>4. CallAt(Top, Len(calls))
    BY <1>3 DEF Inv, Shape, CallsOn, Top
  <1>5. Len(Top.below) \in Nat /\ Len(Top.below) >= 24
    BY <1>4, SeqLength DEF CallAt
  <1>6. esp0 \in Nat /\ esp0 > 24
    BY <1>1, <1>5, SMT
  <1>7. pc \notin {"gpstub", "overrun"} => Len(stack) = esp0 + Above[pc] /\ Above[pc] \in Nat
    BY <1>1, SMT DEF Height, PCs, Ring0, Above
  <1>8. pc = "gpstub" /\ Stub.segsFirst => Len(stack) = esp0 + 10
    <2>1. Above["gpstub"] = 10
      BY DEF Above
    <2> QED
      BY <1>1, <2>1, Zenon DEF Height
  <1>9. pc \in {"gpstub", "overrun"} /\ ~Stub.segsFirst => Len(stack) >= esp0 + 9
    BY <1>1, Zenon DEF Height
  <1>10. pc = "gpstub" => Len(stack) >= esp0 + 9
    BY <1>2, <1>6, <1>8, <1>9, SMT
  <1>11. Len(stack) >= esp0
    BY <1>1, <1>2, <1>6, <1>7, <1>9, <1>10, SMT
  <1> QED
    BY <1>1, <1>2, <1>6, <1>7, <1>8, <1>10, <1>11

LEMMA KeptIsSeq ==
  ASSUME NEW k
  PROVE  IsSeq(Kept(k)) /\ Len(Kept(k)) = 6
  <1> DEFINE s == Kept(k)
  <1>1. s \in Seq({s[1], s[2], s[3], s[4], s[5], s[6]}) /\ Len(s) = 6
    BY SMT DEF Kept
  <1> QED
    BY <1>1, Zenon DEF IsSeq

\* ScEnterV86 on a stack s that goes on from the present one.
LEMMA Entering ==
  ASSUME Inv, NEW s, NEW new, ScEnterV86(s, new), ints' = ints, ds' = ds,
         IsSeq(s), Len(s) >= 18, DOMAIN new = Regs,
         Len(stack) =< Len(s), \A k \in 1 .. Len(stack) : s[k] = stack[k],
         calls = << >> \/ ~ints
  PROVE  Inv'
  <1> DEFINE n == Len(calls)
             s2 == s \o Kept(n)
             c == [below |-> s2, ints |-> ints]
  <1>1. /\ stack' = Append(s2, new["gs"]) /\ esp0' = Len(s2) + 1
        /\ cpu' = new /\ pc' = "v86" /\ calls' = Append(calls, c)
    BY DEF ScEnterV86, SetESP0
  <1>2. IsSeq(calls) /\ n \in Nat /\ IsSeq(stack) /\ CallsOn(stack, calls)
    BY SeqLength DEF Inv, Shape
  <1>3. IsSeq(Kept(n)) /\ Len(Kept(n)) = 6
    BY KeptIsSeq
  <1>4. /\ IsSeq(s2) /\ Len(s2) = Len(s) + 6
        /\ \A k \in 1 .. Len(s) : s2[k] = s[k]
    <2>1. IsSeq(s2) /\ Len(s2) = Len(s) + Len(Kept(n)) /\ \A k \in 1 .. Len(s) : s2[k] = s[k]
      <3>1. JoinOf(s2, s, Kept(n))
        BY <1>3, Joined
      <3> QED
        BY <3>1, Zenon DEF JoinOf
    <2> QED
      BY <2>1, <1>2, <1>3, SMT
  <1> HIDE DEF s2
  <1>5. /\ IsSeq(stack') /\ Len(stack') = Len(s2) + 1
        /\ \A k \in 1 .. Len(s2) : stack'[k] = s2[k]
    <2>1. AppendOf(stack', s2, new["gs"])
      BY <1>1, <1>4, Appended, Zenon
    <2> QED
      BY <2>1 DEF AppendOf
  <1>6. /\ IsSeq(calls') /\ Len(calls') = n + 1
        /\ \A k \in 1 .. n : calls'[k] = calls[k]
        /\ calls'[n + 1] = c
    <2>1. AppendOf(calls', calls, c)
      BY <1>1, <1>2, Appended, Zenon
    <2> QED
      BY <2>1 DEF AppendOf
  <1>7. c.below = s2 /\ c.ints = ints
    BY Zenon
  <1>8. ints \in BOOLEAN
    BY DEF Inv, Values
  <1>9. CallsOn(stack', calls')
    <2> SUFFICES ASSUME NEW i \in 1 .. Len(calls')
                 PROVE  /\ CallAt(calls'[i], i) /\ OnStack(stack', calls'[i].below)
                        /\ Len(calls'[i].below) =< Len(s2)
      BY <1>6, <1>7 DEF CallsOn
    <2>0. Len(stack) \in Nat /\ Len(s) \in Nat /\ Len(s2) \in Nat
      BY <1>2, <1>4, SeqLength
    <2>1. CASE i \in 1 .. n
      <3>1. calls'[i] = calls[i] /\ CallAt(calls[i], i) /\ OnStack(stack, calls[i].below)
        BY <2>1, <1>2, <1>6 DEF CallsOn
      <3>2. Len(calls[i].below) \in Nat /\ Len(calls[i].below) =< Len(stack)
        <4>1. pc # "kernel"
          <5>1. n # 0
            BY <2>1, <1>2, SMT
          <5>2. Len(<< >>) = 0
            BY Few
          <5> QED
            BY <5>1, <5>2 DEF Inv, Depth
        <4>2. Len(stack) >= esp0 /\ esp0 \in Nat /\ esp0 = Len(calls[n].below) + 1
          BY <4>1, Sizes DEF Top
        <4>3. Len(calls[i].below) =< Len(calls[n].below)
          BY <2>1, <1>2 DEF CallsOn
        <4>4. n \in 1 .. n
          BY <2>1, <1>2, SMT
        <4>5. Len(calls[i].below) \in Nat /\ Len(calls[n].below) \in Nat
          BY <4>4, <3>1, <1>2, SeqLength DEF CallsOn, CallAt
        <4> QED
          BY <4>2, <4>3, <4>5, <2>0, SMT
      <3>3. Len(calls[i].below) =< Len(s2)
        BY <3>2, <2>0, <1>4, SMT
      <3>4. \A k \in 1 .. Len(calls[i].below) :
               k \in 1 .. Len(stack) /\ k \in 1 .. Len(s) /\ k \in 1 .. Len(s2)
        BY <3>2, <2>0, <1>4, SMT
      <3>5. OnStack(stack', calls[i].below)
        BY <3>1, <3>4, <1>4, <1>5, Zenon DEF OnStack
      <3> QED
        BY <3>1, <3>3, <3>5
    <2>2. CASE i = n + 1
      <3>1. calls'[i] = c
        BY <2>2, <1>6
      <3>2. i > 1 => ~ints
        <4>1. calls = << >> => n = 0
          BY Few
        <4> QED
          BY <4>1, <2>2, <1>2, SMT
      <3>3. Len(s2) >= 24 /\ Len(s2) =< Len(s2)
        BY <2>0, <1>4, SMT
      <3>4. CallAt(c, i)
        BY <3>2, <3>3, <1>4, <1>7, <1>8, Zenon DEF CallAt
      <3>5. OnStack(stack', s2)
        BY <1>5 DEF OnStack
      <3> QED
        BY <3>1, <3>3, <3>4, <3>5, <1>7
    <2> QED
      BY <2>1, <2>2, <1>2, <1>6, SMT
  <1>10. Shape'
    BY <1>5, <1>6, <1>9 DEF Shape
  <1>11. Values'
    BY <1>1 DEF Inv, Values, PCs
  <1>12. Depth'
    <2>1. Above["v86"] = 0
      BY SMT DEF Above
    <2>2. Len(s2) \in Nat
      BY <1>4, SeqLength
    <2>3. Len(calls') > 0 /\ Len(stack') = esp0' + Above["v86"]
      BY <2>1, <2>2, <1>1, <1>2, <1>5, <1>6, SMT
    <2>4. Top'.below = s2
      BY <1>6, <1>7 DEF Top
    <2>5. "v86" \notin {"gpstub", "overrun", "kernel"}
      OBVIOUS
    <2> QED
      BY <2>3, <2>4, <2>5, <1>1, Zenon DEF Depth, Height
  <1>13. Flags'
    <2>1. Top'.ints = ints
      BY <1>6, <1>7 DEF Top
    <2>2. "v86" \notin Ring0 /\ "v86" # "irq0"
      BY SMT DEF Ring0
    <2> QED
      BY <2>1, <2>2, <1>1 DEF Flags
  <1> QED
    BY <1>10, <1>11, <1>12, <1>13 DEF Inv

LEMMA ContextCall ==
  ASSUME Inv, NEW words \in Nat, NEW context, NEW vector,
         ScVirtual86_Int(words, context, vector), ints' = ints, ds' = ds,
         DOMAIN context = Regs, calls = << >> \/ ~ints
  PROVE  Inv'
  <1>1. PICK ins \in Instructions(Len(calls) + 1) :
           LET new == [context EXCEPT !["cs"] = CS(vector), !["eip"] = Eip(Place(0, ins))]
               linkage == [i \in 1 .. words |-> Own("linkage", 0)]
           IN  ScEnterV86(Append((stack \o linkage) \o Frame(new, Own("flags", 0)),
                                 Own("argument", 0)), new)
    BY DEF ScVirtual86_Int
  <1> DEFINE new == [context EXCEPT !["cs"] = CS(vector), !["eip"] = Eip(Place(0, ins))]
             linkage == [i \in 1 .. words |-> Own("linkage", 0)]
             frame == Frame(new, Own("flags", 0))
             a == stack \o linkage
             b == a \o frame
             s == Append(b, Own("argument", 0))
  <1>2. ScEnterV86(s, new)
    BY <1>1
  <1>3. DOMAIN new = Regs
    OBVIOUS
  <1>4. IsSeq(stack) /\ IsSeq(linkage) /\ Len(linkage) = words /\ IsSeq(frame) /\ Len(frame) = 17
    <2>1. IsSeq(linkage) /\ Len(linkage) = words
      <3>1. linkage = [k \in 1 .. words |-> linkage[k]]
        BY Zenon
      <3> HIDE DEF linkage
      <3> QED
        BY <3>1, Listed
    <2>2. IsSeq(frame) /\ Len(frame) = 17
      BY FrameIsSeq
    <2> QED
      BY <2>1, <2>2 DEF Inv, Shape
  <1> HIDE DEF new, linkage, frame
  <1>5. JoinOf(a, stack, linkage)
    BY <1>4, Joined
  <1>6. IsSeq(a)
    BY <1>5 DEF JoinOf
  <1> HIDE DEF a
  <1>7. JoinOf(b, a, frame)
    BY <1>4, <1>6, Joined
  <1>8. IsSeq(b)
    BY <1>7 DEF JoinOf
  <1> HIDE DEF b
  <1>9. AppendOf(s, b, Own("argument", 0))
    BY <1>8, Appended
  <1> HIDE DEF s
  <1>10. Len(stack) \in Nat /\ Len(a) \in Nat /\ Len(b) \in Nat
    BY <1>4, <1>6, <1>8, SeqLength
  <1>11. /\ IsSeq(s) /\ Len(s) >= 18 /\ Len(stack) =< Len(s)
         /\ \A k \in 1 .. Len(stack) : s[k] = stack[k]
    <2>1. Len(a) = Len(stack) + words /\ \A k \in 1 .. Len(stack) : a[k] = stack[k]
      BY <1>4, <1>5, Zenon DEF JoinOf
    <2>2. Len(b) = Len(a) + 17 /\ \A k \in 1 .. Len(a) : b[k] = a[k]
      BY <1>4, <1>7, Zenon DEF JoinOf
    <2>3. IsSeq(s) /\ Len(s) = Len(b) + 1 /\ \A k \in 1 .. Len(b) : s[k] = b[k]
      BY <1>9, Zenon DEF AppendOf
    <2>4. \A k \in 1 .. Len(stack) : k \in 1 .. Len(a) /\ k \in 1 .. Len(b)
      BY <2>1, <2>2, <1>10, SMT
    <2>5. Len(s) >= 18 /\ Len(stack) =< Len(s)
      BY <2>1, <2>2, <2>3, <1>10, SMT
    <2> QED
      BY <2>1, <2>2, <2>3, <2>4, <2>5, Zenon
  <1> QED
    BY <1>2, <1>3, <1>11, Entering

LEMMA KernelCallStep ==
  ASSUME Inv, KernelCall PROVE Inv'
  <1>1. PICK vector \in Vectors, context \in AnyContext :
           ScVirtual86_Int(KernelWords, context, vector)
    BY DEF KernelCall
  <1>2. DOMAIN context = Regs
    BY SMT DEF AnyContext
  <1>3. calls = << >> /\ ints' = ints /\ ds' = ds /\ KernelWords \in Nat
    BY V86Assumption DEF V86Assumption, KernelCall, Inv, Depth
  <1> QED
    BY <1>1, <1>2, <1>3, ContextCall

LEMMA MonitorIntStep ==
  ASSUME Inv, MonitorInt PROVE Inv'
  <1>1. /\ ScVirtual86_Int(MonitorWords, ContextRegs, Ins.vector) /\ MonitorWords \in Nat
        /\ ints' = ints /\ ds' = ds /\ pc = "gp"
    BY V86Assumption DEF V86Assumption, MonitorInt
  <1>2. DOMAIN ContextRegs = Regs
    BY DEF ContextRegs
  <1>3. ~ints
    BY <1>1, SMT DEF Inv, Flags, Ring0
  <1> QED
    BY <1>1, <1>2, <1>3, ContextCall

LEMMA WorkStep ==
  ASSUME Inv, Work PROVE Inv'
  <1>1. /\ pc = "v86" /\ pc' = pc /\ ints' = ints /\ ds' = ds /\ stack' = stack
        /\ esp0' = esp0 /\ calls' = calls /\ DOMAIN cpu' = Regs
    BY SMT DEF Work
  <1> QED
    BY <1>1 DEF Inv, Values, Shape, Depth, Height, Flags, Top

\* The stack t as the processor leaves V86 mode with s: nine words of the frame f
\* and the error code, if any, are above the first h words of s.
LeftOf(t, s, h, f, code) ==
    /\ IsSeq(t)
    /\ Len(t) = h + 9 + Len(code)
    /\ \A k \in 1 .. 9 : t[h + k] = f[k]
    /\ \A k \in 1 .. h : t[k] = s[k]

LEMMA Pushed ==
  ASSUME NEW s, IsSeq(s), NEW h \in Nat, h > 0, h =< Len(s),
         NEW f, IsSeq(f), Len(f) = 17, NEW code, IsSeq(code)
  PROVE  LeftOf(SubSeq(s, 1, h) \o SubSeq(f, 1, 9) \o code, s, h, f, code)
  <1> DEFINE base == SubSeq(s, 1, h)
             nine == SubSeq(f, 1, 9)
             a == base \o nine
             t == a \o code
  <1>1. IsSeq(base) /\ Len(base) = h /\ \A k \in 1 .. h : base[k] = s[k]
    <2>1. 1 \in Nat \ {0} /\ 1 =< h + 1
      BY SMT
    <2>2. CutOf(base, s, 1, h)
      BY <2>1, Cut
    <2> HIDE DEF base
    <2> QED
      BY <2>2, SMT DEF CutOf
  <1>2. IsSeq(nine) /\ Len(nine) = 9 /\ \A k \in 1 .. 9 : nine[k] = f[k]
    <2>1. 1 \in Nat \ {0} /\ 9 \in Nat /\ 9 =< Len(f) /\ 1 =< 9 + 1
      BY SMT
    <2>2. CutOf(nine, f, 1, 9)
      BY <2>1, Cut
    <2> HIDE DEF nine
    <2> QED
      BY <2>2, SMT DEF CutOf
  <1> HIDE DEF base, nine
  <1>3. JoinOf(a, base, nine)
    BY <1>1, <1>2, Joined
  <1>4. IsSeq(a)
    BY <1>3 DEF JoinOf
  <1> HIDE DEF a
  <1>5. JoinOf(t, a, code)
    BY <1>4, Joined
  <1> HIDE DEF t
  <1>6. Len(code) \in Nat
    BY SeqLength
  <1>7. /\ IsSeq(t) /\ Len(t) = h + 9 + Len(code)
        /\ \A k \in 1 .. 9 : t[h + k] = f[k]
        /\ \A k \in 1 .. h : t[k] = s[k]
    <2>1. /\ Len(a) = h + 9 /\ \A k \in 1 .. 9 : a[h + k] = nine[k]
          /\ \A k \in 1 .. h : a[k] = base[k]
      BY <1>1, <1>2, <1>3, SMT DEF JoinOf
    <2>2. IsSeq(t) /\ Len(t) = Len(a) + Len(code) /\ \A k \in 1 .. Len(a) : t[k] = a[k]
      BY <1>5, Zenon DEF JoinOf
    <2>3. (\A k \in 1 .. 9 : h + k \in 1 .. h + 9) /\ \A k \in 1 .. h : k \in 1 .. h + 9
      BY SMT
    <2>4. \A k \in 1 .. 9 : t[h + k] = f[k]
      BY <2>1, <2>2, <2>3, <1>2, Zenon
    <2>5. \A k \in 1 .. h : t[k] = s[k]
      BY <2>1, <2>2, <2>3, <1>1, Zenon
    <2> QED
      BY <2>1, <2>2, <2>4, <2>5
  <1> QED
    BY <1>7 DEF LeftOf, t, a, base, nine

LEMMA Leaving ==
  ASSUME Inv, pc = "v86", NEW code, IsSeq(code), NEW to, FromV86(to, code),
         to \in {"gpstub", "irqstub"}, 9 + Len(code) = Above[to]
  PROVE  Inv'
  <1> DEFINE f == Frame(cpu, Eflags(TRUE, ints))
  <1>1. /\ stack' = SubSeq(stack, 1, esp0) \o SubSeq(f, 1, 9) \o code
        /\ ds' = "null" /\ ints' = FALSE /\ pc' = to
        /\ cpu' = cpu /\ esp0' = esp0 /\ calls' = calls
    BY DEF FromV86
  <1>2. pc # "kernel" /\ to # "kernel" /\ to # "v86" /\ to # "irq0" /\ to \in PCs
    BY SMT DEF PCs, Ring0
  <1>3. IsSeq(stack) /\ esp0 \in Nat /\ esp0 > 0 /\ esp0 =< Len(stack)
    BY <1>2, Sizes, SMT DEF Above
  <1>4. IsSeq(f) /\ Len(f) = 17 /\ f[7] = Eflags(TRUE, ints)
    BY FrameIsSeq
  <1> HIDE DEF f
  <1>5. /\ IsSeq(stack') /\ Len(stack') = esp0 + 9 + Len(code) /\ stack'[esp0 + 7] = f[7]
        /\ \A k \in 1 .. esp0 : stack'[k] = stack[k]
    <2>1. LeftOf(stack', stack, esp0, f, code)
      BY <1>1, <1>3, <1>4, Pushed, Zenon
    <2>2. 7 \in 1 .. 9
      BY SMT
    <2> QED
      BY <2>1, <2>2, Zenon DEF LeftOf
  <1>6. Shape'
    BY <1>1, <1>2, <1>5, ShapeStays
  <1>7. Values'
    BY <1>1, <1>2, Zenon DEF Inv, Values
  <1>8. Depth'
    <2>1. Len(code) \in Nat
      BY SeqLength
    <2>2. Len(stack') = esp0 + Above[to] /\ Len(stack') >= esp0 + 9
      BY <2>1, <1>3, <1>5, SMT
    <2>3. to # "overrun" /\ Top' = Top
      BY <1>1 DEF Top
    <2> QED
      BY <2>2, <2>3, <1>1, <1>2, Zenon DEF Inv, Depth, Height
  <1>9. Flags'
    <2>1. ints = Top.ints
      BY DEF Inv, Flags
    <2>2. Top' = Top
      BY <1>1 DEF Top
    <2>3. stack'[esp0' + 7] = Eflags(TRUE, Top'.ints)
      BY <2>1, <2>2, <1>1, <1>4, <1>5, Zenon
    <2>4. ~ints'
      BY <1>1
    <2> QED
      BY <2>3, <2>4, <1>1, <1>2, Zenon DEF Flags
  <1> QED
    BY <1>6, <1>7, <1>8, <1>9 DEF Inv

LEMMA FaultStep ==
  ASSUME Inv, GeneralProtectFault PROVE Inv'
  <1>1. pc = "v86" /\ FromV86("gpstub", <<Own("code", 0)>>)
    BY DEF GeneralProtectFault
  <1>2. IsSeq(<<Own("code", 0)>>) /\ Len(<<Own("code", 0)>>) = 1
    BY Few
  <1>3. 9 + Len(<<Own("code", 0)>>) = Above["gpstub"]
    BY <1>2, SMT DEF Above
  <1> QED
    BY <1>1, <1>2, <1>3, Leaving, Zenon

LEMMA IrqStep ==
  ASSUME Inv, Irq PROVE Inv'
  <1>1. pc = "v86" /\ FromV86("irqstub", << >>)
    BY DEF Irq
  <1>2. 9 + Len(<< >>) = Above["irqstub"]
    BY Few, SMT DEF Above
  <1> QED
    BY <1>1, <1>2, Few, Leaving, Zenon

\* A step in ring 0 that only adds to the stack or takes from it, above the flags.
LEMMA StackStep ==
  ASSUME Inv, pc \in Ring0, pc' \in (Ring0 \ {"irq0"}) \union {"overrun"},
         esp0' = esp0, calls' = calls,
         cpu' = cpu, ds' \in {"kernel", "null"}, ints' \in BOOLEAN,
         pc' # "gpleave" => ~ints', pc' = "overrun" => ~Stub.segsFirst,
         IsSeq(stack'), Height(pc, Len(stack))',
         \A k \in 1 .. esp0 + 7 : stack'[k] = stack[k]
  PROVE  Inv'
  <1>1. pc # "kernel" /\ pc' # "kernel" /\ pc' # "v86" /\ pc' \in PCs /\ pc' # "irq0"
    BY SMT DEF Ring0, PCs
  <1>2. esp0 \in Nat
    BY <1>1, Sizes
  <1>3. /\ \A k \in 1 .. esp0 : stack'[k] = stack[k]
        /\ stack'[esp0 + 7] = stack[esp0 + 7]
    BY <1>2, SMT
  <1>4. Shape'
    BY <1>1, <1>3, ShapeStays
  <1>5. Top' = Top
    BY DEF Top
  <1>6. Values' /\ Depth'
    BY <1>1, <1>5, Zenon DEF Inv, Values, Depth
  <1>7. Flags'
    <2>1. stack[esp0 + 7] = Eflags(TRUE, Top.ints)
      BY DEF Inv, Flags
    <2> QED
      BY <2>1, <1>1, <1>3, <1>5, Zenon DEF Flags
  <1> QED
    BY <1>4, <1>6, <1>7 DEF Inv

LEMMA Ring0Step ==
  ASSUME Inv, pc \in Ring0, pc' \in Ring0 \ {"irq0", "gpstub"}, esp0' = esp0, calls' = calls,
         cpu' = cpu, ds' \in {"kernel", "null"}, ints' \in BOOLEAN,
         pc' # "gpleave" => ~ints',
         IsSeq(stack'), Len(stack') = esp0 + Above[pc'],
         \A k \in 1 .. esp0 + 7 : stack'[k] = stack[k]
  PROVE  Inv'
  <1>1. pc' \notin {"gpstub", "overrun"}
    BY SMT DEF Ring0
  <1>2. Height(pc, Len(stack))'
    BY <1>1, Zenon DEF Height
  <1> QED
    BY <1>1, <1>2, StackStep, Zenon

\* SaveTrapRegs on stack s: the rest of frame f.
SavedOn(t, s, f) ==
    /\ IsSeq(t)
    /\ Len(t) = Len(s) + 8
    /\ \A k \in 1 .. Len(s) : t[k] = s[k]
    /\ \A k \in 1 .. 8 : t[Len(s) + k] = f[9 + k]

LEMMA Saving ==
  ASSUME NEW s, IsSeq(s), NEW c, NEW flags
  PROVE  SavedOn(s \o SubSeq(Frame(c, flags), 10, RD_NUM_DWORDS), s, Frame(c, flags))
  <1> DEFINE f == Frame(c, flags)
             e == SubSeq(f, 10, 17)
             t == s \o e
  <1>1. IsSeq(f) /\ Len(f) = 17
    BY FrameIsSeq
  <1> HIDE DEF f
  <1>2. IsSeq(e) /\ Len(e) = 8 /\ \A k \in 1 .. 8 : e[k] = f[9 + k]
    <2>1. 10 \in Nat \ {0} /\ 17 \in Nat /\ 17 =< Len(f) /\ 10 =< 17 + 1
      BY <1>1, SMT
    <2>2. CutOf(e, f, 10, 17)
      BY <1>1, <2>1, Cut
    <2> HIDE DEF e
    <2> QED
      BY <2>2, SMT DEF CutOf
  <1> HIDE DEF e
  <1>3. JoinOf(t, s, e)
    BY <1>2, Joined
  <1> HIDE DEF t
  <1>4. SavedOn(t, s, f)
    BY <1>2, <1>3, Zenon DEF JoinOf, SavedOn
  <1> QED
    BY <1>4 DEF t, e, f, RD_NUM_DWORDS

\* The words of stack under the first n.
DroppedTo(t, h) == IsSeq(t) /\ Len(t) = h /\ \A k \in 1 .. h : t[k] = stack[k]

LEMMA Dropping ==
  ASSUME IsSeq(stack), NEW n \in Nat, NEW h \in Nat, Len(stack) = h + n
  PROVE  DroppedTo(Drop(n), h)
  <1> DEFINE t == SubSeq(stack, 1, h)
  <1>1. 1 \in Nat \ {0} /\ h =< Len(stack) /\ 1 =< h + 1
    BY SMT
  <1>2. CutOf(t, stack, 1, h)
    BY <1>1, Cut
  <1> HIDE DEF t
  <1>3. IsSeq(t) /\ Len(t) = h /\ \A k \in 1 .. h : t[k] = stack[k]
    BY <1>2, SMT DEF CutOf
  <1>4. Drop(n) = t
    <2>1. Len(stack) - n = h
      BY SMT
    <2> QED
      BY <2>1 DEF Drop, t
  <1> QED
    BY <1>3, <1>4, Zenon DEF DroppedTo

\* The stub of #GP faults in its first instruction: one more frame, or none left.
LEMMA FaultInStubStep ==
  ASSUME Inv, pc \in {"gpstub", "irqstub"}, ~Stub.segsFirst, NEW s, FaultInStub(s),
         IsSeq(s), Len(s) >= Len(stack), \A k \in 1 .. Len(stack) : s[k] = stack[k],
         cpu' = cpu, ints' = ints, esp0' = esp0, calls' = calls
  PROVE  Inv'
  <1> DEFINE frame == <<Eflags(FALSE, ints), CS("kernel"), Eip(Ring0Place(pc)), Own("code", 0)>>
             t == s \o frame
  <1>1. /\ pc' \in {"gpstub", "overrun"} /\ ds' = ds
        /\ stack' = t \/ stack' = stack
    BY Zenon DEF FaultInStub
  <1>2. /\ IsSeq(stack) /\ Len(stack) \in Nat /\ Len(stack) >= esp0 + 9 /\ esp0 \in Nat
    BY Sizes, SMT DEF Above
  <1>3. IsSeq(frame) /\ Len(frame) = 4
    BY Few
  <1> HIDE DEF frame
  <1>4. IsSeq(t) /\ Len(t) >= esp0 + 9 /\ \A k \in 1 .. esp0 + 7 : t[k] = stack[k]
    <2>1. JoinOf(t, s, frame)
      BY <1>3, Joined
    <2> HIDE DEF t
    <2>2. Len(s) \in Nat
      BY SeqLength
    <2>3. \A k \in 1 .. esp0 + 7 : k \in 1 .. Len(s) /\ k \in 1 .. Len(stack)
      BY <2>2, <1>2, SMT
    <2>4. IsSeq(t) /\ Len(t) = Len(s) + 4 /\ \A k \in 1 .. Len(s) : t[k] = s[k]
      BY <2>1, <1>3, Zenon DEF JoinOf
    <2>5. Len(t) >= esp0 + 9
      BY <2>2, <2>4, <1>2, SMT
    <2> QED
      BY <2>3, <2>4, <2>5, Zenon
  <1> HIDE DEF t
  <1>5. /\ IsSeq(stack') /\ Len(stack') >= esp0 + 9
        /\ \A k \in 1 .. esp0 + 7 : stack'[k] = stack[k]
    BY <1>1, <1>2, <1>4, Zenon
  <1>6. Height(pc, Len(stack))'
    BY <1>1, <1>5, Zenon DEF Height
  <1>7. pc \in Ring0 /\ pc' \in (Ring0 \ {"irq0"}) \union {"overrun"} /\ pc' # "gpleave"
    BY <1>1, SMT DEF Ring0
  <1>8. ~ints /\ ints \in BOOLEAN /\ ds \in {"kernel", "null"}
    BY <1>7, "gpstub" # "gpleave", "irqstub" # "gpleave", Zenon DEF Inv, Values, Flags
  <1> QED
    BY <1>1, <1>5, <1>6, <1>7, <1>8, StackStep, Zenon

LEMMA GPStubStep ==
  ASSUME Inv, GPStub PROVE Inv'
  <1>1. pc = "gpstub" /\ cpu' = cpu /\ ints' = ints /\ esp0' = esp0 /\ calls' = calls
    BY DEF GPStub
  <1>2. CASE Stub.segsFirst
    <2> DEFINE base == Drop(1)
    <2>1. /\ pc' \in {"gp", "gpleave"} /\ ds' \in {"kernel", ds}
          /\ stack' = base \o SubSeq(Frame(cpu, Own("none", 0)), 10, RD_NUM_DWORDS)
      BY <1>2, Zenon DEF GPStub, SaveAfterFault, SegsRestored
    <2>2. IsSeq(stack) /\ Len(stack) = esp0 + 10 /\ esp0 \in Nat
      BY <1>1, <1>2, Sizes
    <2>3. DroppedTo(base, esp0 + 9)
      <3>1. 1 \in Nat /\ esp0 + 9 \in Nat /\ Len(stack) = (esp0 + 9) + 1
        BY <2>2, SMT
      <3> QED
        BY <3>1, <2>2, Dropping
    <2> HIDE DEF base
    <2>4. IsSeq(base)
      BY <2>3 DEF DroppedTo
    <2>5. SavedOn(stack', base, Frame(cpu, Own("none", 0)))
      BY <2>1, <2>4, Saving, Zenon
    <2>6. IsSeq(stack') /\ Len(stack') = esp0 + 17 /\ \A k \in 1 .. esp0 + 7 : stack'[k] = stack[k]
      BY <2>2, <2>3, <2>5, SMT DEF DroppedTo, SavedOn
    <2>7. pc \in Ring0 /\ pc' \in Ring0 \ {"irq0", "gpstub"} /\ Above[pc'] = 17
      BY <1>1, <2>1, SMT DEF Ring0, Above
    <2>8. ~ints /\ ints \in BOOLEAN /\ ds \in {"kernel", "null"}
      BY <1>1, <2>7, "gpstub" # "gpleave", Zenon DEF Inv, Values, Flags
    <2> QED
      BY <1>1, <2>1, <2>6, <2>7, <2>8, Ring0Step, Zenon
  <1>3. CASE ~Stub.segsFirst
    <2>1. FaultInStub(stack)
      BY <1>3, Zenon DEF GPStub
    <2>2. IsSeq(stack) /\ Len(stack) >= Len(stack)
      BY <1>1, Sizes, SMT
    <2> QED
      BY <1>1, <1>3, <2>1, <2>2, FaultInStubStep, Zenon
  <1> QED
    BY <1>2, <1>3

LEMMA IrqStubStep ==
  ASSUME Inv, IrqStub PROVE Inv'
  <1>1. pc = "irqstub" /\ cpu' = cpu /\ ints' = ints /\ esp0' = esp0 /\ calls' = calls
    BY DEF IrqStub
  <1>2. IsSeq(stack) /\ Len(stack) = esp0 + 9 /\ esp0 \in Nat
    BY <1>1, Sizes, SMT DEF Above
  <1>3. CASE Stub.segsFirst
    <2>1. /\ pc' = "irq" /\ ds' = "kernel"
          /\ stack' = stack \o SubSeq(Frame(cpu, Own("none", 0)), 10, RD_NUM_DWORDS)
      BY <1>3, Zenon DEF IrqStub, SaveAfterIrq
    <2>2. SavedOn(stack', stack, Frame(cpu, Own("none", 0)))
      BY <1>2, <2>1, Saving, Zenon
    <2>3. IsSeq(stack') /\ Len(stack') = esp0 + 17 /\ \A k \in 1 .. esp0 + 7 : stack'[k] = stack[k]
      <3>1. \A k \in 1 .. esp0 + 7 : k \in 1 .. Len(stack)
        BY <1>2, SMT
      <3>2. (esp0 + 9) + 8 = esp0 + 17
        BY <1>2, SMT
      <3> QED
        BY <3>1, <3>2, <1>2, <2>2, Zenon DEF SavedOn
    <2>4. pc \in Ring0 /\ pc' \in Ring0 \ {"irq0", "gpstub"} /\ Above[pc'] = 17
      BY <1>1, <2>1, SMT DEF Ring0, Above
    <2>5. ~ints /\ ints \in BOOLEAN
      BY <1>1, <2>4, "irqstub" # "gpleave", Zenon DEF Inv, Values, Flags
    <2> QED
      BY <1>1, <2>1, <2>3, <2>4, <2>5, Ring0Step, Zenon
  <1>4. CASE ~Stub.segsFirst
    <2> DEFINE s == Append(stack, Own("irq", 0))
    <2>1. FaultInStub(s)
      BY <1>4, Zenon DEF IrqStub
    <2>2. AppendOf(s, stack, Own("irq", 0))
      BY <1>2, Appended
    <2> HIDE DEF s
    <2>3. Len(stack) \in Nat
      BY <1>2, SeqLength
    <2>4. IsSeq(s) /\ Len(s) >= Len(stack) /\ \A k \in 1 .. Len(stack) : s[k] = stack[k]
      BY <2>2, <2>3, SMT DEF AppendOf
    <2> QED
      BY <1>1, <1>4, <2>1, <2>4, FaultInStubStep, Zenon
  <1> QED
    BY <1>3, <1>4

\* t has the words of s up to h.
SameTo(t, s, h) == IsSeq(t) /\ Len(t) = Len(s) /\ \A k \in 1 .. h : t[k] = s[k]

LEMMA Writing ==
  ASSUME NEW s, IsSeq(s), NEW h \in Nat, NEW i, i > h, i =< Len(s), i \in Nat, NEW w
  PROVE  SameTo([s EXCEPT ![i] = w], s, h)
  <1>1. Len(s) \in Nat
    BY SeqLength
  <1>2. i \in 1 .. Len(s) /\ \A k \in 1 .. h : k \in 1 .. Len(s) /\ k # i
    BY <1>1, SMT
  <1> DEFINE t == [s EXCEPT ![i] = w]
  <1>3. IsSeq(t) /\ Len(t) = Len(s) /\ \A k \in 1 .. Len(s) : t[k] = IF k = i THEN w ELSE s[k]
    BY <1>2, Overwritten
  <1> HIDE DEF t
  <1>4. IsSeq(t) /\ Len(t) = Len(s) /\ \A k \in 1 .. h : t[k] = s[k]
    BY <1>2, <1>3, Zenon
  <1> QED
    BY <1>4 DEF t, SameTo

LEMMA MonitorFlagStep ==
  ASSUME Inv, MonitorFlag PROVE Inv'
  <1> DEFINE i == Len(stack) - (RD_EIP + Stub.frameOff)
  <1>1. PICK w : stack' = [stack EXCEPT ![i] = w]
    BY Zenon DEF MonitorFlag
  <1>2. /\ pc = "gp" /\ pc' = "gpleave" /\ ints' \in BOOLEAN
        /\ cpu' = cpu /\ ds' = ds /\ esp0' = esp0 /\ calls' = calls
    BY DEF MonitorFlag
  <1>3. IsSeq(stack) /\ Len(stack) = esp0 + 17 /\ esp0 \in Nat
    BY <1>2, Sizes, SMT DEF Above
  <1>4. Stub.frameOff \in {0, 1}
    BY V86Assumption, SMT DEF V86Assumption, AsBuilt, AsMeant
  <1>5. i \in Nat /\ i > esp0 + 7 /\ i =< Len(stack) /\ esp0 + 7 \in Nat
    BY <1>3, <1>4, SMT DEF RD_EIP
  <1> HIDE DEF i
  <1>6. IsSeq(stack') /\ Len(stack') = Len(stack) /\ \A k \in 1 .. esp0 + 7 : stack'[k] = stack[k]
    <2>1. SameTo(stack', stack, esp0 + 7)
      BY <1>1, <1>3, <1>5, Writing, Zenon
    <2> QED
      BY <2>1 DEF SameTo
  <1>7. pc \in Ring0 /\ pc' \in Ring0 \ {"irq0", "gpstub"} /\ Above[pc'] = 17
    BY <1>2, SMT DEF Ring0, Above
  <1>8. ds \in {"kernel", "null"}
    BY DEF Inv, Values
  <1> QED
    BY <1>2, <1>3, <1>6, <1>7, <1>8, Ring0Step, Zenon

LEMMA MonitorIretStep ==
  ASSUME Inv, MonitorIret PROVE Inv'
  <1> DEFINE i == Written(RD_EBP)
             j == Written(RD_ESI)
             u == [stack EXCEPT ![i] = stack[GetESP0]]
  <1>1. /\ pc = "gp" /\ pc' = "gpleave" /\ ints' = ints
        /\ cpu' = cpu /\ ds' = ds /\ esp0' = esp0 /\ calls' = calls
        /\ stack' = [u EXCEPT ![j] = stack[GetESP0 - 3]]
    BY DEF MonitorIret
  <1>2. IsSeq(stack) /\ Len(stack) = esp0 + 17 /\ esp0 \in Nat
    BY <1>1, Sizes, SMT DEF Above
  <1>3. /\ i \in Nat /\ i > esp0 + 7 /\ i =< Len(stack) /\ esp0 + 7 \in Nat
        /\ j \in Nat /\ j > esp0 + 7 /\ j =< Len(stack)
    BY <1>2, SMT DEF Written, GetESP0, RD_NUM_DWORDS, RD_EBP, RD_ESI
  <1> HIDE DEF i, j
  <1>4. IsSeq(u) /\ Len(u) = Len(stack) /\ \A k \in 1 .. esp0 + 7 : u[k] = stack[k]
    <2>1. SameTo(u, stack, esp0 + 7)
      BY <1>2, <1>3, Writing, Zenon
    <2> QED
      BY <2>1 DEF SameTo
  <1> HIDE DEF u
  <1>5. j =< Len(u)
    BY <1>3, <1>4
  <1>6. IsSeq(stack') /\ Len(stack') = Len(u) /\ \A k \in 1 .. esp0 + 7 : stack'[k] = u[k]
    <2>1. SameTo(stack', u, esp0 + 7)
      BY <1>1, <1>3, <1>4, <1>5, Writing, Zenon
    <2> QED
      BY <2>1 DEF SameTo
  <1>7. IsSeq(stack') /\ Len(stack') = esp0 + 17 /\ \A k \in 1 .. esp0 + 7 : stack'[k] = stack[k]
    BY <1>2, <1>4, <1>6, Zenon
  <1>8. pc \in Ring0 /\ pc' \in Ring0 \ {"irq0", "gpstub"} /\ Above[pc'] = 17
    BY <1>1, SMT DEF Ring0, Above
  <1>9. ds \in {"kernel", "null"} /\ ints \in BOOLEAN
    BY DEF Inv, Values
  <1> QED
    BY <1>1, <1>7, <1>8, <1>9, Ring0Step, Zenon

LEMMA MonitorOtherStep ==
  ASSUME Inv, MonitorOther PROVE Inv'
  <1>1. /\ pc = "gp" /\ pc' = "gpleave" /\ ints' = ints /\ stack' = stack
        /\ cpu' = cpu /\ ds' = ds /\ esp0' = esp0 /\ calls' = calls
    BY DEF MonitorOther
  <1>2. IsSeq(stack) /\ Len(stack) = esp0 + 17
    BY <1>1, Sizes, SMT DEF Above
  <1>3. pc \in Ring0 /\ pc' \in Ring0 \ {"irq0", "gpstub"} /\ Above[pc'] = 17
    BY <1>1, SMT DEF Ring0, Above
  <1>4. ds \in {"kernel", "null"} /\ ints \in BOOLEAN
    BY DEF Inv, Values
  <1> QED
    BY <1>1, <1>2, <1>3, <1>4, Ring0Step, Zenon

LEMMA FlagsWord ==
  ASSUME NEW vm, NEW on
  PROVE  Eflags(vm, on).vm = vm /\ Eflags(vm, on).ints = on
  BY DEF Eflags

LEMMA IretStep ==
  ASSUME Inv, Iret PROVE Inv'
  <1>1. /\ pc \in {"gpleave", "irq"} /\ ds' = ds /\ esp0' = esp0
        /\ ints' = Saved("eflags").ints
    BY DEF Iret
  <1>2. pc # "kernel" /\ pc \in Ring0 /\ Above[pc] = 17
    BY <1>1, SMT DEF Ring0, Above
  <1>3. IsSeq(stack) /\ Len(stack) = esp0 + 17 /\ esp0 \in Nat
    BY <1>1, <1>2, Sizes, SMT
  <1>4. Saved("eflags") = Eflags(TRUE, Top.ints)
    <2>1. Saved("eflags") = stack[Len(stack) - (11 - 1)]
      BY FrameWords, Zenon DEF Saved, At
    <2>2. Len(stack) - (11 - 1) = esp0 + 7
      BY <1>3, SMT
    <2>3. stack[esp0 + 7] = Eflags(TRUE, Top.ints)
      BY <1>2 DEF Inv, Flags
    <2> QED
      BY <2>1, <2>2, <2>3, Zenon
  <1>5. Saved("eflags").vm = TRUE /\ Saved("eflags").ints = Top.ints
    <2>1. Eflags(TRUE, Top.ints).vm = TRUE /\ Eflags(TRUE, Top.ints).ints = Top.ints
      BY FlagsWord, Zenon
    <2> QED
      BY <2>1, <1>4, Zenon
  <1>6. /\ cpu' = [r \in Regs |-> Saved(r)] /\ stack' = Drop(RD_NUM_DWORDS)
        /\ pc' = "v86" /\ calls' = calls
    BY <1>5, Zenon DEF Iret
  <1>7. DroppedTo(stack', esp0)
    <2>1. 17 \in Nat
      BY SMT
    <2> QED
      BY <2>1, <1>3, <1>6, Dropping DEF RD_NUM_DWORDS
  <1>8. IsSeq(stack') /\ Len(stack') = esp0 /\ \A k \in 1 .. esp0 : stack'[k] = stack[k]
    BY <1>7 DEF DroppedTo
  <1>9. Shape'
    BY <1>1, <1>2, <1>6, <1>8, ShapeStays
  <1>10. Values'
    <2>1. DOMAIN cpu' = Regs
      BY <1>6
    <2>2. Top.ints \in BOOLEAN
      <3>1. Len(calls) \in 1 .. Len(calls)
        BY <1>2, Sizes, SMT
      <3>2. CallAt(calls[Len(calls)], Len(calls))
        BY <3>1 DEF Inv, Shape, CallsOn
      <3> QED
        BY <3>2 DEF CallAt, Top
    <2>3. "v86" \in PCs
      BY DEF PCs
    <2> QED
      BY <2>1, <2>2, <2>3, <1>1, <1>5, <1>6, Zenon DEF Inv, Values
  <1>11. Depth'
    <2>1. Len(stack') = esp0 + Above["v86"] /\ "v86" \notin {"kernel", "gpstub", "overrun"}
      BY <1>3, <1>8, SMT DEF Above
    <2>2. Top' = Top
      BY <1>6 DEF Top
    <2> QED
      BY <2>1, <2>2, <1>1, <1>2, <1>6, Zenon DEF Inv, Depth, Height
  <1>12. Flags'
    <2>1. Top' = Top
      BY <1>6 DEF Top
    <2>2. "v86" \notin Ring0 /\ "v86" # "irq0"
      BY SMT DEF Ring0
    <2> QED
      BY <2>1, <2>2, <1>1, <1>5, <1>6, Zenon DEF Flags
  <1> QED
    BY <1>9, <1>10, <1>11, <1>12 DEF Inv

LEMMA IretToHandlerStep ==
  ASSUME Inv, IretToHandler PROVE Inv'
  <1>1. /\ pc = "irq0" /\ pc' = Saved("eip").place.at /\ ints' = Saved("eflags").ints
        /\ stack' = Drop(11) /\ cpu' = cpu /\ ds' = ds /\ esp0' = esp0 /\ calls' = calls
    BY DEF IretToHandler
  <1>2. IsSeq(stack) /\ Len(stack) = esp0 + 28 /\ esp0 \in Nat
    BY <1>1, Sizes, SMT DEF Above
  <1>3. Saved("eflags") = Eflags(FALSE, TRUE) /\ Saved("eip") = Eip(Ring0Place("gpleave"))
    <2>1. /\ Saved("eflags") = stack[Len(stack) - (11 - 1)]
          /\ Saved("eip") = stack[Len(stack) - (9 - 1)]
      BY FrameWords, Zenon DEF Saved, At
    <2>2. Len(stack) - (11 - 1) = esp0 + 18 /\ Len(stack) - (9 - 1) = esp0 + 20
      BY <1>2, SMT
    <2>3. stack[esp0 + 18] = Eflags(FALSE, TRUE) /\ stack[esp0 + 20] = Eip(Ring0Place("gpleave"))
      BY <1>1 DEF Inv, Flags
    <2> QED
      BY <2>1, <2>2, <2>3, Zenon
  <1>4. ints' = TRUE
    BY <1>1, <1>3, FlagsWord
  <1>5. pc' = "gpleave"
    <2>1. Eip(Ring0Place("gpleave")).place.at = "gpleave"
      BY DEF Eip, Ring0Place
    <2> QED
      BY <2>1, <1>1, <1>3
  <1>6. DroppedTo(stack', esp0 + 17)
    <2>1. 11 \in Nat /\ esp0 + 17 \in Nat /\ Len(stack) = (esp0 + 17) + 11
      BY <1>2, SMT
    <2> QED
      BY <2>1, <1>1, <1>2, Dropping
  <1>7. IsSeq(stack') /\ Len(stack') = esp0 + 17 /\ \A k \in 1 .. esp0 + 7 : stack'[k] = stack[k]
    BY <1>2, <1>6, SMT DEF DroppedTo
  <1>8. pc \in Ring0 /\ pc' \in Ring0 \ {"irq0", "gpstub"} /\ Above[pc'] = 17
    BY <1>1, <1>5, SMT DEF Ring0, Above
  <1>9. ds \in {"kernel", "null"} /\ ints' \in BOOLEAN
    BY <1>4 DEF Inv, Values
  <1> QED
    BY <1>1, <1>5, <1>7, <1>8, <1>9, Ring0Step, Zenon

\* An IRQ in the handler of #GP: three words and eight registers more.
LEMMA IrqInHandlerStep ==
  ASSUME Inv, IrqInHandler PROVE Inv'
  <1> DEFINE three == <<Eflags(FALSE, ints), CS("kernel"), Eip(Ring0Place(pc))>>
             eight == [k \in 1 .. 8 |-> Own("registers", 0)]
             a == stack \o three
  <1>1. /\ pc = "gpleave" /\ ints /\ pc' = "irq0" /\ ints' = FALSE /\ stack' = a \o eight
        /\ cpu' = cpu /\ ds' = ds /\ esp0' = esp0 /\ calls' = calls
    BY DEF IrqInHandler
  <1>2. IsSeq(stack) /\ Len(stack) = esp0 + 17 /\ esp0 \in Nat /\ pc # "kernel"
    BY <1>1, Sizes, SMT DEF Above
  <1>3. IsSeq(three) /\ Len(three) = 3
    BY Few
  <1>4. three[1] = Eflags(FALSE, TRUE) /\ three[3] = Eip(Ring0Place("gpleave"))
    <2>1. three[1] = Eflags(FALSE, ints) /\ three[3] = Eip(Ring0Place(pc))
      OBVIOUS
    <2>2. ints = TRUE
      BY <1>1 DEF Inv, Values
    <2> QED
      BY <2>1, <2>2, <1>1, Zenon
  <1>5. IsSeq(eight) /\ Len(eight) = 8
    <2>1. eight = [k \in 1 .. 8 |-> eight[k]] /\ 8 \in Nat
      BY SMT
    <2> HIDE DEF eight
    <2> QED
      BY <2>1, Listed
  <1> HIDE DEF three, eight
  <1>6. JoinOf(a, stack, three)
    BY <1>2, <1>3, Joined
  <1>7. IsSeq(a)
    BY <1>6 DEF JoinOf
  <1> HIDE DEF a
  <1>8. JoinOf(stack', a, eight)
    BY <1>1, <1>5, <1>7, Joined, Zenon
  <1>9. /\ Len(a) = esp0 + 20 /\ a[esp0 + 18] = three[1] /\ a[esp0 + 20] = three[3]
        /\ \A k \in 1 .. esp0 + 7 : a[k] = stack[k]
    BY <1>2, <1>3, <1>6, SMT DEF JoinOf
  <1>10. /\ IsSeq(stack') /\ Len(stack') = esp0 + 28
         /\ stack'[esp0 + 18] = a[esp0 + 18] /\ stack'[esp0 + 20] = a[esp0 + 20]
         /\ \A k \in 1 .. esp0 + 7 : stack'[k] = a[k]
    BY <1>2, <1>5, <1>8, <1>9, SMT DEF JoinOf
  <1>11. /\ \A k \in 1 .. esp0 : stack'[k] = stack[k]
         /\ stack'[esp0 + 7] = stack[esp0 + 7]
    <2>1. esp0 + 7 \in 1 .. esp0 + 7 /\ \A k \in 1 .. esp0 : k \in 1 .. esp0 + 7
      BY <1>2, SMT
    <2> QED
      BY <2>1, <1>9, <1>10, Zenon
  <1>12. Shape'
    BY <1>1, <1>2, <1>10, <1>11, ShapeStays
  <1>13. pc \in Ring0 /\ "irq0" \in PCs /\ Above["irq0"] = 28
         /\ "irq0" # "v86" /\ "irq0" \notin {"kernel", "gpstub", "overrun"}
    BY <1>1, SMT DEF Ring0, PCs, Above
  <1>14. Values' /\ Depth'
    <2>1. Top' = Top
      BY <1>1 DEF Top
    <2> QED
      BY <2>1, <1>1, <1>2, <1>10, <1>13, Zenon DEF Inv, Values, Depth, Height
  <1>15. Flags'
    <2>1. Top' = Top /\ stack[esp0 + 7] = Eflags(TRUE, Top.ints)
      BY <1>1, <1>13 DEF Top, Inv, Flags
    <2> QED
      BY <2>1, <1>1, <1>4, <1>9, <1>10, <1>11, <1>13, Zenon DEF Flags
  <1> QED
    BY <1>12, <1>14, <1>15 DEF Inv

-----------------------------------------------------------------------------
(* The theorems. *)

LEMMA InitInv == Init => Inv
  <1> SUFFICES ASSUME Init PROVE Inv
    OBVIOUS
  <1>1. /\ pc = "kernel" /\ ints \in BOOLEAN /\ ds = "kernel" /\ stack = << >>
        /\ calls = << >> /\ DOMAIN cpu = Regs
    BY DEF Init
  <1>2. Values
    BY <1>1, Zenon DEF Values, PCs
  <1>3. IsSeq(<< >>) /\ Len(<< >>) = 0
    BY Few
  <1>4. CallsOn(<< >>, << >>)
    <2>1. 1 .. 0 = {}
      BY SMT
    <2> QED
      BY <2>1, <1>3, Zenon DEF CallsOn
  <1>5. Shape
    BY <1>1, <1>3, <1>4, Zenon DEF Shape
  <1>6. Depth
    BY <1>1 DEF Depth
  <1>7. Flags
    <2>1. "kernel" \notin Ring0 /\ "kernel" # "v86" /\ "kernel" # "irq0"
      BY SMT DEF Ring0
    <2> QED
      BY <2>1, <1>1, Zenon DEF Flags
  <1> QED
    BY <1>2, <1>5, <1>6, <1>7 DEF Inv

LEMMA StepInv == Inv /\ [Next]_vars => Inv'
  <1> SUFFICES ASSUME Inv, [Next]_vars PROVE Inv'
    OBVIOUS
  <1>1. CASE KernelCall
    BY <1>1, KernelCallStep
  <1>2. CASE Work
    BY <1>2, WorkStep
  <1>3. CASE GeneralProtectFault
    BY <1>3, FaultStep
  <1>4. CASE Irq
    BY <1>4, IrqStep
  <1>5. CASE IrqInHandler
    BY <1>5, IrqInHandlerStep
  <1>6. CASE GPStub
    BY <1>6, GPStubStep
  <1>7. CASE IrqStub
    BY <1>7, IrqStubStep
  <1>8. CASE MonitorInt
    BY <1>8, MonitorIntStep
  <1>9. CASE MonitorFlag
    BY <1>9, MonitorFlagStep
  <1>10. CASE MonitorIret
    BY <1>10, MonitorIretStep
  <1>11. CASE MonitorOther
    BY <1>11, MonitorOtherStep
  <1>12. CASE Iret
    BY <1>12, IretStep
  <1>13. CASE IretToHandler
    BY <1>13, IretToHandlerStep
  <1>14. CASE UNCHANGED vars
    BY <1>14 DEF vars, Inv, Values, Shape, Depth, Height, Flags, Top
  <1> QED
    BY <1>1, <1>2, <1>3, <1>4, <1>5, <1>6, <1>7, <1>8, <1>9, <1>10, <1>11, <1>12,
       <1>13, <1>14 DEF Next, Handle, Monitor

LEMMA InvAlways == Spec => []Inv
  BY InitInv, StepInv, PTL DEF Spec

\* The words of a stack and of a start of it.
LEMMA StartOfStack ==
  ASSUME NEW s, IsSeq(s), NEW b, IsSeq(b), Len(b) =< Len(s), OnStack(s, b)
  PROVE  SubSeq(s, 1, Len(b)) = b
  <1>1. PICK S : s \in Seq(S)
    BY DEF IsSeq
  <1>2. PICK B : b \in Seq(B)
    BY DEF IsSeq
  <1>3. s \in Seq(S \union B) /\ b \in Seq(S \union B) /\ Len(b) \in Nat
    BY <1>1, <1>2, SMT
  <1> DEFINE t == SubSeq(s, 1, Len(b))
  <1>4. t \in Seq(S \union B) /\ Len(t) = Len(b) /\ \A k \in 1 .. Len(b) : t[k] = s[k]
    BY <1>3, SMT
  <1>5. \A k \in 1 .. Len(b) : s[k] = b[k]
    BY DEF OnStack
  <1> HIDE DEF t
  <1>6. \A k \in 1 .. Len(t) : t[k] = b[k]
    BY <1>4, <1>5, Zenon
  <1>7. t = b
    BY <1>3, <1>4, <1>6, SeqEqual
  <1> QED
    BY <1>7 DEF t

\* The stack of the kernel has the height each place of ring 0 takes, at any
\* depth of calls (as built, at least that in the stub of #GP); the registers,
\* the flag and the segments have their types.
THEOREM Types == Spec => []TypeOK
  <1>1. Inv => TypeOK
    BY DEF Inv, Values, Depth, TypeOK
  <1> QED
    BY <1>1, InvAlways, PTL

\* However deep the calls, what ScEnterV86 left for each caller, and the stack
\* below it, is as it was when the call was made.
THEOREM Callers == Spec => []CallersKept
  <1>1. Inv => CallersKept
    <2> SUFFICES ASSUME Inv, NEW i \in DOMAIN calls
                 PROVE  /\ Len(calls[i].below) =< Len(stack)
                        /\ SubSeq(stack, 1, Len(calls[i].below)) = calls[i].below
      BY DEF CallersKept
    <2>1. IsSeq(stack) /\ IsSeq(calls) /\ CallsOn(stack, calls)
      BY DEF Inv, Shape
    <2>2. Len(calls) \in Nat /\ i \in 1 .. Len(calls)
      BY <2>1, SeqLength
    <2>3. CallAt(calls[i], i) /\ OnStack(stack, calls[i].below)
      BY <2>1, <2>2 DEF CallsOn
    <2>4. IsSeq(calls[i].below) /\ Len(calls[i].below) =< Len(Top.below)
      BY <2>1, <2>2, <2>3 DEF CallAt, CallsOn, Top
    <2>5. pc # "kernel"
      <3>1. calls = << >> => Len(calls) = 0
        BY Few
      <3>2. Len(calls) # 0
        BY <2>2, SMT
      <3> QED
        BY <3>1, <3>2 DEF Inv, Depth
    <2>6. Len(stack) >= esp0 /\ esp0 = Len(Top.below) + 1 /\ esp0 \in Nat /\ Len(stack) \in Nat
      BY <2>5, Sizes
    <2>7. Len(calls[i].below) \in Nat /\ Len(Top.below) \in Nat
      <3>1. Len(calls) \in 1 .. Len(calls)
        BY <2>2, SMT
      <3> QED
        BY <3>1, <2>1, <2>4, SeqLength DEF CallsOn, CallAt, Top
    <2>8. Len(calls[i].below) =< Len(stack)
      BY <2>4, <2>6, <2>7, SMT
    <2> QED
      BY <2>1, <2>3, <2>4, <2>8, StartOfStack
  <1> QED
    BY <1>1, InvAlways, PTL

\* The code of a call runs with the interrupt flag its caller had.
FlagOfCall ==
    /\ pc = "v86" => ints = Top.ints
    /\ \A i \in DOMAIN calls : i > 1 => ~calls[i].ints

\* V86 code's CLI and STI leave its interrupt flag as its call was made with, and
\* the code of every nested call runs with interrupts off (vm86.asm 117, 130;
\* V86.c 187-193 means them to be emulated, and docs/Scheduler.md 59 and 65 DOS
\* and BIOS calls to be interruptible).
THEOREM FlagKept == Spec => []FlagOfCall
  <1>1. Inv => FlagOfCall
    <2> SUFFICES ASSUME Inv
                 PROVE  /\ pc = "v86" => ints = Top.ints
                        /\ \A i \in DOMAIN calls : i > 1 => ~calls[i].ints
      BY DEF FlagOfCall
    <2>1. pc = "v86" => ints = Top.ints
      BY DEF Inv, Flags
    <2>2. ASSUME NEW i \in DOMAIN calls PROVE i > 1 => ~calls[i].ints
      <3>1. i \in 1 .. Len(calls)
        BY SeqLength DEF Inv, Shape
      <3> QED
        BY <3>1 DEF Inv, Shape, CallsOn, CallAt
    <2> QED
      BY <2>1, <2>2
  <1> QED
    BY <1>1, InvAlways, PTL

=============================================================================
