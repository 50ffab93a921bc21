--------------------------- MODULE BootLoader_proof ---------------------------
(***************************************************************************)
(* Proofs about the boot loader, for blocks anywhere in the first 64 MB    *)
(* and files of any size that the second page table has room for.          *)
(***************************************************************************)
EXTENDS BootLoader, TLAPS

\* No file is so large that DI cannot hold its pages, and none has more than the
\* table has entries, when the last one is not loaded.
CountsFit == \A s \in FileSizes : s \div Page < W
FilesFit == \A s \in FileSizes : s \div Page =< 257

-----------------------------------------------------------------------------
(* The addresses. *)

\* How much too high in the block the kernel is put.
Wrong == IF Aligned(base)[1] = base[1] THEN 0 ELSE W

LEMMA Wide == W \in Nat /\ W > 1
  BY DEF W

LEMMA Below ==
  ASSUME NEW x \in Nat, x < W
  PROVE  /\ x \div W = 0 /\ x % W = x
         /\ x % Page \in 0 .. Page - 1 /\ x % Page =< x
  BY DEF W, Page

LEMMA Beyond ==
  ASSUME NEW x \in Nat, x >= W, x < W + Page - 1
  PROVE  /\ x \div W = 1 /\ x % W = x - W
         /\ x % Page = x - W
  BY DEF W, Page

LEMMA AlignedHalves ==
  ASSUME NEW h \in Nat, NEW l \in Nat, l < W
  PROVE  \E y \in Nat :
            \/ Aligned(<<h, l>>) = <<h, y>> /\ y >= l /\ y < W
            \/ Aligned(<<h, l>>) = <<h + 1, y>> /\ y = 0 /\ l > 0
  <1>1. PICK ax \in Nat : ax = l + Page - 1
    BY DEF Page
  <1>2. Aligned(<<h, l>>) = <<h + ax \div W, (ax % W) - (ax % Page)>>
    BY <1>1 DEF Aligned
  <1>3. CASE ax < W
    <2>1. h + ax \div W = h /\ ax % W = ax
      BY <1>3, Below
    <2>2. /\ ax - (ax % Page) \in Nat
          /\ ax - (ax % Page) >= l
          /\ ax - (ax % Page) < W
      <3>1. PICK r \in Nat : r = ax % Page /\ r =< ax /\ r =< Page - 1
        BY <1>3, Below DEF Page
      <3> QED
        BY <1>1, <1>3, <3>1 DEF W, Page
    <2> QED
      BY <1>2, <2>1, <2>2
  <1>4. CASE ax >= W
    <2>1. l > 0 /\ ax < W + Page - 1
      BY <1>1, <1>4 DEF W, Page
    <2>2. ax \div W = 1 /\ (ax % W) - (ax % Page) = 0
      BY <1>4, <2>1, Beyond DEF W
    <2> QED
      BY <1>2, <2>1, <2>2
  <1> QED
    BY <1>3, <1>4 DEF W

LEMMA Places ==
  ASSUME NEW b \in Bases
  PROVE  /\ b = <<b[1], b[2]>>
         /\ b[1] \in 0 .. 1023 /\ b[2] \in Nat /\ b[2] < W
  <1>1. b \in (0 .. 1023) \X (0 .. W - 1)
    BY BootAssumption DEF BootAssumption
  <1>2. b = <<b[1], b[2]>> /\ b[1] \in 0 .. 1023 /\ b[2] \in 0 .. W - 1
    BY <1>1
  <1>3. \A n \in 0 .. W - 1 : n \in Nat /\ n < W
    BY Wide
  <1> QED
    BY <1>2, <1>3

LEMMA LinearNat ==
  ASSUME NEW b \in Bases
  PROVE  Linear(b) \in Nat
  <1>1. ASSUME NEW n \in Nat PROVE W * n \in Nat
    BY DEF W
  <1>2. b[1] \in Nat
    BY Places
  <1> QED
    BY <1>1, <1>2, Places DEF Linear

\* The subtraction with the borrow from the wrong half.
LEMMA Subtracted ==
  ASSUME NEW h \in Nat, NEW l \in Nat, l < W,
         NEW a1 \in Nat, NEW a2 \in Nat,
         \/ a1 = h /\ a2 >= l /\ a2 < W
         \/ a1 = h + 1 /\ a2 = 0 /\ l > 0
  PROVE  Offset(<<a1, a2>>, <<h, l>>) =
           IF a1 = h THEN <<0, a2 - l>> ELSE <<1, W - l>>
  <1>1. Offset(<<a1, a2>>, <<h, l>>) = <<(a1 - h + W) % W, (a2 - l - 0 + W) % W>>
    BY DEF Offset
  <1>2. CASE a1 = h
    <2>1. (0 + W) % W = 0
      BY DEF W
    <2>2. ASSUME NEW x \in Nat, x < W PROVE (x + W) % W = x
      BY <2>2 DEF W
    <2>3. a2 - l \in Nat /\ a2 - l < W
      BY <1>2 DEF W
    <2>4. (a2 - l - 0 + W) % W = a2 - l
      BY <2>2, <2>3
    <2> QED
      BY <1>1, <1>2, <2>1, <2>4
  <1>3. CASE a1 = h + 1
    <2>1. (1 + W) % W = 1
      BY DEF W
    <2>2. W - l \in Nat /\ W - l < W
      BY <1>3 DEF W
    <2>3. (W - l) % W = W - l
      BY <2>2, Below
    <2>4. a1 - h + W = 1 + W /\ a2 - l - 0 + W = W - l
      BY <1>3 DEF W
    <2> QED
      BY <1>1, <1>3, <2>1, <2>3, <2>4
  <1> QED
    BY <1>2, <1>3

\* The offset leads from the block to the boundary, or to 64K above it.
Start == Linear(Offset(Aligned(base), base))
LEMMA OffsetLeads ==
  ASSUME base \in Bases
  PROVE  /\ Linear(base) + Start = Linear(Aligned(base)) + Wrong
         /\ Start \in Nat /\ Linear(Aligned(base)) \in Nat /\ Wrong \in Nat
  <1>1. PICK h \in Nat, l \in Nat : base = <<h, l>> /\ h \in 0 .. 1023 /\ l < W
    BY Places
  <1> DEFINE a == Aligned(base)
  <1>2. a = <<a[1], a[2]>>
    BY DEF Aligned
  <1>3. /\ a[1] \in Nat /\ a[2] \in Nat
        /\ \/ a[1] = h /\ a[2] >= l /\ a[2] < W
           \/ a[1] = h + 1 /\ a[2] = 0 /\ l > 0
    <2>1. \/ a[1] = h /\ a[2] \in Nat /\ a[2] >= l /\ a[2] < W
          \/ a[1] = h + 1 /\ a[2] = 0 /\ l > 0
      <3>1. PICK y \in Nat :
               \/ Aligned(<<h, l>>) = <<h, y>> /\ y >= l /\ y < W
               \/ Aligned(<<h, l>>) = <<h + 1, y>> /\ y = 0 /\ l > 0
        BY <1>1, AlignedHalves
      <3>2. a = Aligned(<<h, l>>)
        BY <1>1
      <3> HIDE DEF a
      <3> QED
        BY <3>1, <3>2
    <2> QED
      BY <2>1
  <1> HIDE DEF a
  <1>4. Offset(a, base) = IF a[1] = h THEN <<0, a[2] - l>> ELSE <<1, W - l>>
    BY <1>1, <1>2, <1>3, Subtracted
  <1>5. base[1] = h /\ Linear(base) = W * h + l /\ Linear(a) = W * a[1] + a[2]
    BY <1>1 DEF Linear
  <1>6. Linear(Offset(a, base)) = IF a[1] = h THEN a[2] - l ELSE W + W - l
    BY <1>3, <1>4 DEF Linear, W
  <1>7. Wrong = IF a[1] = h THEN 0 ELSE W
    BY <1>5 DEF a, Wrong
  <1>8. Start = IF a[1] = h THEN a[2] - l ELSE W + W - l
    BY <1>6 DEF a, Start
  <1>9. Linear(base) + Start = Linear(a) + Wrong
    <2>1. CASE a[1] = h
      BY <1>3, <1>5, <1>7, <1>8, <2>1 DEF W
    <2>2. CASE a[1] = h + 1
      BY <1>3, <1>5, <1>7, <1>8, <2>2 DEF W
    <2> QED
      BY <1>3, <2>1, <2>2
  <1>10. Start \in Nat /\ Linear(a) \in Nat /\ Wrong \in Nat
    <2>1. W * a[1] \in Nat
      BY <1>3 DEF W
    <2>2. Linear(a) \in Nat
      BY <1>3, <1>5, <2>1
    <2>3. Wrong \in Nat
      BY <1>7, Wide
    <2>4. Start \in Nat
      <3>1. CASE a[1] = h
        BY <1>3, <1>8, <3>1
      <3>2. CASE a[1] # h
        BY <1>1, <1>8, <3>2, Wide
      <3> QED
        BY <3>1, <3>2
    <2> QED
      BY <2>2, <2>3, <2>4
  <1> QED
    BY <1>9, <1>10 DEF a

-----------------------------------------------------------------------------
(* The invariant. *)

Loading == {"load", "tables", "kernel"}
HasBlock == {"align", "open"} \union Loading
HasHMA == {"allocate", "lock"} \union HasBlock

\* What the XMS driver has given, by how far the program has come.
Given ==
    /\ loader \in {"hma"} \union HasHMA => a20 = TRUE
    /\ loader \in HasHMA => hma = "loader"
    /\ loader \in HasBlock => emb \in {"allocated", "locked"}
    /\ a20 \in BOOLEAN

\* The addresses: those of the lock, the boundary and how far loading is past it.
Addresses ==
    /\ loader \in HasBlock =>
          /\ base \in Bases /\ block \in Bases
          /\ emb = "locked" => block = base
    /\ loader \in {"open"} \union Loading => KernelAddr = Aligned(base)
    /\ loader = "open" => desoff = Start
    /\ loader \in Loading => desoff = Start + Page * position

Position == loader \in Loading => position \in Nat

\* The counter: one page is missing when it has run down.
Counter ==
    /\ size \in FileSizes
    /\ loader \in Loading => position \in Nat
    /\ loader = "load" =>
          di \in Nat /\ di > 0 /\ di < W /\ di + position = size \div Page
    /\ loader \in {"tables", "kernel"} => position + 1 = size \div Page

\* Every page loaded so far is where it was put.
Loaded ==
    loader \in Loading =>
        \A k \in Nat : k < position =>
            /\ Linear(block) + Start + Page * k \in DOMAIN memory
            /\ memory[Linear(block) + Start + Page * k] = k

Inv == Given /\ Addresses /\ Counter /\ Loaded

-----------------------------------------------------------------------------

LEMMA InitInv == LoaderInit => Inv
  BY DEF LoaderInit, Inv, Given, Addresses, Counter, Loaded, Loading, HasBlock, HasHMA

LEMMA GivenKept == Given /\ [LoaderNext]_loaderVars => Given'
  <1> SUFFICES ASSUME Given, [LoaderNext]_loaderVars PROVE Given'
    OBVIOUS
  <1> USE DEF Given, Loading, HasBlock, HasHMA, ERROR, xms
  <1>1. CASE PresentXMS
    BY <1>1 DEF PresentXMS
  <1>2. CASE EnableA20
    BY <1>2 DEF EnableA20
  <1>3. CASE AcquireHMA
    BY <1>3 DEF AcquireHMA
  <1>4. CASE Allocate
    BY <1>4 DEF Allocate
  <1>5. CASE Lock
    BY <1>5 DEF Lock
  <1>6. CASE Align
    BY <1>6 DEF Align
  <1>7. CASE LoadKernel
    BY <1>7 DEF LoadKernel
  <1>8. CASE LoopEnds
    BY <1>8 DEF LoopEnds
  <1>9. CASE LoadPage
    BY <1>9 DEF LoadPage
  <1>10. CASE PageSetup
    BY <1>10 DEF PageSetup
  <1>11. CASE StartAgain
    BY <1>11 DEF StartAgain
  <1>12. CASE UNCHANGED loaderVars
    BY <1>12 DEF loaderVars
  <1> QED
    BY <1>1, <1>2, <1>3, <1>4, <1>5, <1>6, <1>7, <1>8, <1>9, <1>10, <1>11, <1>12
    DEF LoaderNext, Call, Finished

LEMMA AddressesKept == Addresses /\ Position /\ [LoaderNext]_loaderVars => Addresses'
  <1> SUFFICES ASSUME Addresses, Position, [LoaderNext]_loaderVars PROVE Addresses'
    OBVIOUS
  <1> USE DEF Addresses, Loading, HasBlock, ERROR, xms, addresses, file
  <1>1. CASE PresentXMS
    BY <1>1 DEF PresentXMS
  <1>2. CASE EnableA20
    BY <1>2 DEF EnableA20
  <1>3. CASE AcquireHMA
    BY <1>3 DEF AcquireHMA
  <1>4. CASE Allocate
    BY <1>4 DEF Allocate
  <1>5. CASE Lock
    BY <1>5 DEF Lock
  <1>6. CASE Align
    BY <1>6 DEF Align, Start
  <1>7. CASE LoadKernel
    <2>1. loader' = "load" => desoff' = Start' /\ position' = 0
      BY <1>7 DEF LoadKernel, Start
    <2>2. base \in Bases /\ base' = base
      BY <1>7 DEF LoadKernel
    <2>3. Start \in Nat /\ Start' = Start
      BY <2>2, OffsetLeads DEF Start
    <2>4. loader' = "load" => desoff' = Start' + Page * position'
      BY <2>1, <2>3 DEF Page
    <2> QED
      BY <1>7, <2>4 DEF LoadKernel
  <1>8. CASE LoopEnds
    BY <1>8 DEF LoopEnds, Start
  <1>9. CASE StartAgain
    BY <1>9 DEF StartAgain
  <1>10. CASE PageSetup
    BY <1>10 DEF PageSetup, Start
  <1>11. CASE UNCHANGED loaderVars
    BY <1>11 DEF loaderVars, Start
  <1>12. CASE LoadPage
    <2>1. Start \in Nat /\ position \in Nat /\ Start' = Start
      BY <1>12, OffsetLeads DEF LoadPage, Start, Position
    <2>2. CASE loader' = "exit"
      BY <1>12, <2>2 DEF LoadPage
    <2>3. CASE loader' = "load" /\ desoff' = desoff + Page /\ position' = position + 1
      <3>1. desoff' = Start' + Page * position'
        BY <1>12, <2>1, <2>3 DEF LoadPage, Page
      <3> QED
        BY <1>12, <2>3, <3>1 DEF LoadPage
    <2> QED
      BY <1>12, <2>2, <2>3 DEF LoadPage
  <1> QED
    BY <1>1, <1>2, <1>3, <1>4, <1>5, <1>6, <1>7, <1>8, <1>9, <1>10, <1>11, <1>12
    DEF LoaderNext, Call, Finished

LEMMA PagesAre ==
  ASSUME CountsFit, size \in FileSizes
  PROVE  Pages = size \div Page /\ Pages \in Nat /\ Pages < W
  <1>1. PICK q \in Nat : q = size \div Page
    BY BootAssumption DEF BootAssumption, Page
  <1>2. q % W = q /\ q < W
    BY <1>1, Below DEF CountsFit
  <1> QED
    BY <1>1, <1>2 DEF Pages

LEMMA CountDown ==
  ASSUME NEW n \in Nat, n > 0, n < W
  PROVE  (n - 1 + W) % W = n - 1
  <1>1. ASSUME NEW m \in Nat, m < W PROVE (m + W) % W = m
    BY <1>1 DEF W
  <1>2. PICK m \in Nat : m = n - 1 /\ m < W
    BY Wide
  <1> QED
    BY <1>1, <1>2

LEMMA CounterKept == CountsFit /\ Counter /\ [LoaderNext]_loaderVars => Counter'
  <1> SUFFICES ASSUME CountsFit, Counter, [LoaderNext]_loaderVars PROVE Counter'
    OBVIOUS
  <1> USE DEF Counter, Loading, ERROR, file
  <1>1. CASE PresentXMS
    BY <1>1 DEF PresentXMS
  <1>2. CASE EnableA20
    BY <1>2 DEF EnableA20
  <1>3. CASE AcquireHMA
    BY <1>3 DEF AcquireHMA
  <1>4. CASE Allocate
    BY <1>4 DEF Allocate
  <1>5. CASE Lock
    BY <1>5 DEF Lock
  <1>6. CASE Align
    BY <1>6 DEF Align
  <1>7. CASE LoadKernel
    <2>1. Pages = size \div Page /\ Pages \in Nat /\ Pages < W
      BY PagesAre
    <2>2. Pages # 0 => Pages > 0 /\ Pages + 0 = Pages
      BY <2>1
    <2> QED
      BY <1>7, <2>1, <2>2 DEF LoadKernel
  <1>8. CASE LoopEnds
    <2>1. di \in Nat /\ di - 1 = 0 /\ di + position = size \div Page /\ position \in Nat
      BY <1>8, CountDown DEF LoopEnds, Count
    <2>2. position + 1 = size \div Page
      BY <2>1
    <2> QED
      BY <1>8, <2>2 DEF LoopEnds
  <1>9. CASE LoadPage
    <2> PICK n \in Nat : n = di /\ n > 0 /\ n < W
      BY <1>9 DEF LoadPage
    <2>1. /\ di' = n - 1 /\ di' # 0 /\ position \in Nat
          /\ n + position = size \div Page
      BY <1>9, CountDown DEF LoadPage, Count
    <2>4. di' \in Nat /\ di' > 0 /\ di' < W
      BY <2>1, Wide
    <2>2. CASE loader' = "exit"
      BY <1>9, <2>2 DEF LoadPage
    <2>3. CASE loader' = "load" /\ position' = position + 1
      <3>1. di' + position' = n + position /\ position' \in Nat
        BY <2>1, <2>3
      <3> QED
        BY <1>9, <2>1, <2>3, <2>4, <3>1 DEF LoadPage
    <2> QED
      BY <1>9, <2>2, <2>3 DEF LoadPage
  <1>10. CASE PageSetup
    BY <1>10 DEF PageSetup
  <1>11. CASE StartAgain
    BY <1>11 DEF StartAgain
  <1>12. CASE UNCHANGED loaderVars
    BY <1>12 DEF loaderVars
  <1> QED
    BY <1>1, <1>2, <1>3, <1>4, <1>5, <1>6, <1>7, <1>8, <1>9, <1>10, <1>11, <1>12
    DEF LoaderNext, Call, Finished

LEMMA LoadedKept == Addresses /\ Counter /\ Loaded /\ [LoaderNext]_loaderVars => Loaded'
  <1> SUFFICES ASSUME Addresses, Counter, Loaded, [LoaderNext]_loaderVars PROVE Loaded'
    OBVIOUS
  <1> USE DEF Loading, ERROR, addresses, file
  <1>1. ASSUME loader' \notin Loading PROVE Loaded'
    BY <1>1 DEF Loaded
  <1>2. ASSUME loader \in Loading,
               UNCHANGED <<block, base, position, memory>>
        PROVE  Loaded'
    BY <1>2 DEF Loaded, Start
  <1>3. CASE LoadKernel
    BY <1>3 DEF LoadKernel, Loaded, Counter
  <1>4. CASE LoadPage
    <2>1. CASE loader' = "exit"
      BY <1>1, <2>1
    <2> DEFINE at == Linear(block) + desoff
    <2>2. CASE /\ position' = position + 1
               /\ memory' = [a \in DOMAIN memory \union {at} |->
                              IF a = at THEN position ELSE memory[a]]
      <3>1. base \in Bases /\ block \in Bases /\ Start' = Start /\ block' = block
        BY <1>4 DEF LoadPage, Addresses, HasBlock, Start
      <3>2. Start \in Nat /\ Linear(block) \in Nat /\ position \in Nat
        BY <1>4, <3>1, OffsetLeads, LinearNat DEF LoadPage, Counter
      <3> DEFINE to(k) == Linear(block) + Start + Page * k
      <3>3. at = to(position)
        BY <1>4, <3>2 DEF LoadPage, Addresses, Page
      <3>4. ASSUME NEW k \in Nat, k < position PROVE to(k) # to(position)
        BY <3>2, <3>4 DEF Page
      <3>5. ASSUME NEW k \in Nat, k < position
            PROVE  to(k) \in DOMAIN memory /\ memory[to(k)] = k
        BY <1>4, <3>5 DEF LoadPage, Loaded
      <3> HIDE DEF to, at
      <3>6. ASSUME NEW k \in Nat, k < position + 1
            PROVE  to(k) \in DOMAIN memory' /\ memory'[to(k)] = k
        <4>1. CASE k = position
          BY <2>2, <3>3, <4>1
        <4>2. CASE k < position
          BY <2>2, <3>3, <3>4, <3>5, <4>2
        <4> QED
          BY <3>2, <3>6, <4>1, <4>2
      <3> QED
        BY <2>2, <3>1, <3>6 DEF Loaded, to
    <2> QED
      BY <1>4, <2>1, <2>2 DEF LoadPage
  <1>5. CASE PresentXMS \/ EnableA20 \/ AcquireHMA \/ Allocate \/ Lock \/ Align
    BY <1>1, <1>5 DEF PresentXMS, EnableA20, AcquireHMA, Allocate, Lock, Align
  <1>6. CASE StartAgain
    BY <1>1, <1>6 DEF StartAgain
  <1>7. CASE LoopEnds \/ PageSetup
    BY <1>2, <1>7 DEF LoopEnds, PageSetup
  <1>8. CASE UNCHANGED loaderVars
    BY <1>1, <1>2, <1>8 DEF loaderVars
  <1> QED
    BY <1>3, <1>4, <1>5, <1>6, <1>7, <1>8 DEF LoaderNext, Call, Finished

LEMMA Invariance == CountsFit /\ LoaderSpec => []Inv
  <1> SUFFICES ASSUME CountsFit PROVE LoaderSpec => []Inv
    OBVIOUS
  <1>1. Inv /\ [LoaderNext]_loaderVars => Inv'
    <2>1. Counter => Position
      BY DEF Counter, Position
    <2> QED
      BY <2>1, GivenKept, AddressesKept, CounterKept, LoadedKept DEF Inv
  <1> QED
    BY <1>1, InitInv, PTL DEF LoaderSpec

-----------------------------------------------------------------------------
(* The theorems. *)

LastPageMissing == loader = "kernel" => position = (size \div Page) - 1

\* Of any file that DI can count, the kernel starts with all whole pages but the
\* last, because the loop decrements DI before its first page (boot386.asm 271; the
\* comment at 40 says that the kernel loads).
THEOREM OneShort == CountsFit /\ LoaderSpec => []LastPageMissing
  <1> SUFFICES ASSUME CountsFit PROVE LoaderSpec => []LastPageMissing
    OBVIOUS
  <1>1. Inv => LastPageMissing
    <2> SUFFICES ASSUME Counter, loader = "kernel"
                 PROVE  position = (size \div Page) - 1
      BY DEF Inv, LastPageMissing
    <2> QED
      BY DEF Counter, Loading
  <1> QED
    BY <1>1, Invariance, PTL

\* Wherever the block is: if the lock succeeded, and the first page boundary is in
\* the block's 64K, the page table leads to each page that was loaded.
THEOREM Mapped == FilesFit /\ LoaderSpec => []FoundWhereMapped
  <1> SUFFICES ASSUME FilesFit PROVE LoaderSpec => []FoundWhereMapped
    OBVIOUS
  <1>1. CountsFit
    <2>1. ASSUME NEW s \in FileSizes PROVE s \div Page < W
      <3>1. PICK q \in Nat : q = s \div Page
        BY BootAssumption DEF BootAssumption, Page
      <3> QED
        BY <3>1 DEF FilesFit, W
    <2> QED
      BY <2>1 DEF CountsFit
  <1>2. Inv => FoundWhereMapped
    <2> SUFFICES ASSUME Inv, loader = "kernel"
                 PROVE  /\ a20 /\ hma = "loader" /\ emb # "free"
                        /\ emb = "locked" /\ Aligned(base)[1] = base[1] =>
                              \A k \in 0 .. position - 1 :
                                  /\ KernelTable[k] \in DOMAIN memory
                                  /\ memory[KernelTable[k]] = k
      BY DEF FoundWhereMapped
    <2>1. a20 /\ hma = "loader" /\ emb # "free"
      BY DEF Inv, Given, HasHMA, HasBlock, Loading
    <2>2. ASSUME emb = "locked", Aligned(base)[1] = base[1], NEW k \in 0 .. position - 1
          PROVE  /\ KernelTable[k] \in DOMAIN memory
                 /\ memory[KernelTable[k]] = k
      <3>1. base \in Bases /\ block = base /\ KernelAddr = Aligned(base)
        BY <2>2 DEF Inv, Addresses, HasBlock, Loading
      <3>2. position \in Nat /\ position + 1 =< 257
        BY DEF Inv, Counter, Loading, FilesFit
      <3>3. k \in Nat /\ k < position /\ k \in 0 .. 255
        BY <2>2, <3>2
      <3>4. KernelTable[k] = Linear(Aligned(base)) + Page * k
        BY <3>1, <3>3 DEF KernelTable
      <3>5. Page * k \in Nat /\ Linear(base) \in Nat
        BY <3>1, <3>3, LinearNat DEF Page
      <3>6. KernelTable[k] = Linear(block) + Start + Page * k
        <4>1. KernelTable[k] + Wrong = Linear(block) + Start + Page * k
          BY <3>1, <3>4, <3>5, OffsetLeads
        <4>2. Wrong = 0
          BY <2>2 DEF Wrong
        <4>3. Linear(Aligned(base)) \in Nat
          BY <3>1, OffsetLeads
        <4> QED
          BY <3>4, <3>5, <4>1, <4>2, <4>3
      <3>7. /\ Linear(block) + Start + Page * k \in DOMAIN memory
            /\ memory[Linear(block) + Start + Page * k] = k
        BY <3>3 DEF Inv, Loaded, Loading
      <3> QED
        BY <3>6, <3>7
    <2> QED
      BY <2>1, <2>2
  <1> QED
    BY <1>1, <1>2, Invariance, PTL

\* Once an attempt has failed with the HMA, none starts the kernel, whatever DOS
\* and the XMS driver answer.
THEOREM Blocked == LoaderSpec => NoSecondTry
  <1> DEFINE Shut == hma = "loader" /\ loader \in {"exit", "xms", "a20", "hma"}
  <1>1. Shut /\ [LoaderNext]_loaderVars => Shut'
    <2> SUFFICES ASSUME Shut, [LoaderNext]_loaderVars PROVE Shut'
      OBVIOUS
    <2>1. CASE UNCHANGED loaderVars
      BY <2>1 DEF loaderVars
    <2>2. CASE LoaderNext
      BY <2>2 DEF LoaderNext, Call, StartAgain, Finished, loaderVars, xms, ERROR, PresentXMS,
                  EnableA20, AcquireHMA, Allocate, Lock, Align, LoadKernel, LoopEnds,
                  LoadPage, PageSetup
    <2> QED
      BY <2>1, <2>2
  <1>2. loader = "exit" /\ hma = "loader" => Shut
    OBVIOUS
  <1>3. Shut => loader # "kernel"
    OBVIOUS
  <1> HIDE DEF Shut
  <1> QED
    BY <1>1, <1>2, <1>3, PTL DEF LoaderSpec, NoSecondTry

-----------------------------------------------------------------------------
(* The types. *)

LEMMA Multiple ==
  ASSUME NEW n \in Nat
  PROVE  (Page * n) % Page = 0
  BY DEF Page

LEMMA AlignedPage ==
  ASSUME NEW b \in Bases
  PROVE  /\ \E n \in Nat : Aligned(b)[2] = Page * n
         /\ Aligned(b)[2] \in 0 .. W - 1
         /\ Aligned(b)[1] \in Nat
  <1>1. PICK h \in Nat, l \in Nat : b = <<h, l>> /\ l < W
    BY Places
  <1>2. PICK ax \in Nat : ax = l + Page - 1
    BY DEF Page
  <1> DEFINE y == (ax % W) - (ax % Page)
  <1>3. Aligned(b) = <<h + ax \div W, y>>
    BY <1>1, <1>2 DEF Aligned
  <1>4. (\E n \in Nat : y = Page * n) /\ y \in 0 .. W - 1
    <2>1. CASE ax < W
      <3>1. y = Page * (ax \div Page) /\ ax \div Page \in Nat /\ y < W /\ y \in Nat
        BY <2>1 DEF W, Page
      <3> QED
        BY <3>1, Wide
    <2>2. CASE ax >= W
      <3>1. ax < W + Page - 1
        BY <1>1, <1>2 DEF W, Page
      <3>2. y = 0
        BY <2>2, <3>1, Beyond DEF W
      <3>3. y = Page * 0 /\ 0 \in Nat /\ 0 \in 0 .. W - 1
        BY <3>2 DEF Page, W
      <3> QED
        BY <3>2, <3>3
    <2>3. ax < W \/ ax >= W
      BY Wide
    <2> QED
      BY <2>1, <2>2, <2>3
  <1>5. h + ax \div W \in Nat
    BY DEF W
  <1> HIDE DEF y
  <1> QED
    BY <1>3, <1>4, <1>5

\* Where a page goes in a block that is where the program takes it to be.
LEMMA PutAt ==
  ASSUME base \in Bases, NEW p \in Nat
  PROVE  \E n \in Nat : Linear(base) + (Start + Page * p) = Page * n
  <1>1. PICK n \in Nat : Aligned(base)[2] = Page * n
    BY AlignedPage
  <1>2. PICK h \in Nat : h = Aligned(base)[1]
    BY AlignedPage
  <1>3. Linear(Aligned(base)) = W * h + Page * n
    BY <1>1, <1>2 DEF Linear
  <1>4. PICK wrong \in {0, 1} : Wrong = W * wrong
    BY DEF Wrong, W
  <1>5. Linear(base) + Start = W * h + Page * n + W * wrong
    BY <1>3, <1>4, OffsetLeads
  <1>6. Linear(base) \in Nat /\ Start \in Nat
    BY LinearNat, OffsetLeads
  <1>7. Linear(base) + (Start + Page * p) = Page * (16 * h + n + 16 * wrong + p)
    BY <1>5, <1>6 DEF W, Page
  <1>8. 16 * h + n + 16 * wrong + p \in Nat
    OBVIOUS
  <1> QED
    BY <1>7, <1>8

\* Nothing is in extended memory before the program has the HMA and, since no
\* later attempt gets it, before the block is locked.
Fresh == hma # "loader" \/ loader \in {"allocate", "lock"} => memory = << >>
WholePages == emb = "locked" => \A a \in DOMAIN memory : \E n \in Nat : a = Page * n
Kinds ==
    /\ loader \in {"xms", "a20", "hma", "exit"} \union HasHMA
    /\ hma \in {"free", "other", "loader"}
    /\ emb \in {"free", "allocated", "locked"}
    /\ KernelAddr[2] \in 0 .. W - 1 /\ \E n \in Nat : KernelAddr[2] = Page * n
    /\ di \in 0 .. W - 1

LEMMA PositionKept == Position /\ [LoaderNext]_loaderVars => Position'
  BY DEF Position, Loading, LoaderNext, Call, StartAgain, Finished, loaderVars, file, ERROR, PresentXMS,
         EnableA20, AcquireHMA, Allocate, Lock, Align, LoadKernel, LoopEnds, LoadPage, PageSetup

LEMMA FreshKept == Given /\ Fresh /\ [LoaderNext]_loaderVars => Fresh'
  <1> SUFFICES ASSUME Given, Fresh, [LoaderNext]_loaderVars PROVE Fresh'
    OBVIOUS
  <1> USE DEF Given, Fresh, HasHMA, HasBlock, Loading, ERROR, xms
  <1>1. CASE PresentXMS \/ EnableA20 \/ AcquireHMA \/ Allocate \/ Lock
    BY <1>1 DEF PresentXMS, EnableA20, AcquireHMA, Allocate, Lock
  <1>2. CASE Align \/ LoadKernel \/ LoopEnds
    BY <1>2 DEF Align, LoadKernel, LoopEnds
  <1>3. CASE LoadPage
    BY <1>3, Zenon DEF LoadPage
  <1>4. CASE PageSetup \/ StartAgain \/ UNCHANGED loaderVars
    BY <1>4 DEF PageSetup, StartAgain, loaderVars
  <1> QED
    BY <1>1, <1>2, <1>3, <1>4 DEF LoaderNext, Call, Finished

LEMMA Remainder ==
  ASSUME NEW x \in Int
  PROVE  x % W \in 0 .. W - 1
  <1>1. PICK r \in Int : r = x % W /\ 0 =< r /\ r < W
    BY DEF W
  <1>2. r \in 0 .. W - 1
    BY <1>1, Wide
  <1> QED
    BY <1>1, <1>2

LEMMA KindsKept == Addresses /\ Kinds /\ size \in FileSizes /\ [LoaderNext]_loaderVars => Kinds'
  <1> SUFFICES ASSUME Addresses, Kinds, size \in FileSizes, [LoaderNext]_loaderVars PROVE Kinds'
    OBVIOUS
  <1> USE DEF Kinds, HasHMA, HasBlock, Loading, ERROR, xms, addresses, file
  <1>1. CASE PresentXMS \/ EnableA20 \/ AcquireHMA \/ Allocate \/ Lock
    BY <1>1 DEF PresentXMS, EnableA20, AcquireHMA, Allocate, Lock
  <1>2. CASE Align
    <2>1. base \in Bases
      BY <1>2 DEF Align, Addresses
    <2>2. KernelAddr'[2] \in 0 .. W - 1 /\ \E n \in Nat : KernelAddr'[2] = Page * n
      BY <1>2, <2>1, AlignedPage DEF Align
    <2> QED
      BY <1>2, <2>2 DEF Align
  <1>3. CASE LoadKernel
    <2>1. Pages \in 0 .. W - 1
      <3>1. PICK q \in Int : q = size \div Page
        BY BootAssumption DEF BootAssumption, Page
      <3> QED
        BY <3>1, Remainder DEF Pages
    <2> QED
      BY <1>3, <2>1 DEF LoadKernel
  <1>4. CASE LoopEnds \/ LoadPage
    <2>1. Count \in 0 .. W - 1
      <3>1. di \in Int /\ W \in Int
        BY Wide
      <3>2. PICK n \in Int : n = di - 1 + W
        BY <3>1
      <3> QED
        BY <3>2, Remainder DEF Count
    <2>2. /\ loader' \in {"tables", "load", "exit"} /\ di' = Count
          /\ UNCHANGED <<hma, emb, KernelAddr>>
      BY <1>4 DEF LoopEnds, LoadPage
    <2> QED
      BY <2>1, <2>2
  <1>5. CASE PageSetup \/ StartAgain \/ UNCHANGED loaderVars
    BY <1>5 DEF PageSetup, StartAgain, loaderVars
  <1> QED
    BY <1>1, <1>2, <1>3, <1>4, <1>5 DEF LoaderNext, Call, Finished

LEMMA WholeKept ==
  Addresses /\ Position /\ Fresh /\ WholePages /\ [LoaderNext]_loaderVars => WholePages'
  <1> SUFFICES ASSUME Addresses, Position, Fresh, WholePages, [LoaderNext]_loaderVars PROVE WholePages'
    OBVIOUS
  <1>1. CASE UNCHANGED <<emb, memory>>
    BY <1>1 DEF WholePages
  <1>2. CASE Allocate
    <2>1. emb' = "locked" => emb = "locked"
      BY <1>2 DEF Allocate
    <2> QED
      BY <1>2, <2>1 DEF Allocate, WholePages
  <1>3. CASE Lock
    <2>1. memory' = << >>
      BY <1>3 DEF Lock, Fresh
    <2>2. DOMAIN memory' = {}
      BY <2>1
    <2> QED
      BY <2>2 DEF WholePages
  <1>4. CASE LoadPage
    <2> SUFFICES ASSUME emb' = "locked", NEW a \in DOMAIN memory'
                 PROVE  \E n \in Nat : a = Page * n
      BY DEF WholePages
    <2>1. emb = "locked" /\ loader = "load"
      BY <1>4 DEF LoadPage, xms
    <2>2. /\ block = base /\ base \in Bases /\ desoff = Start + Page * position
          /\ position \in Nat
      BY <2>1 DEF Addresses, Position, HasBlock, Loading
    <2> DEFINE at == Linear(block) + desoff
    <2>3. \E n \in Nat : at = Page * n
      BY <2>2, PutAt
    <2>4. DOMAIN memory' = DOMAIN memory \union {at} \/ memory' = memory
      BY <1>4, Zenon DEF LoadPage
    <2> HIDE DEF at
    <2> QED
      BY <2>1, <2>3, <2>4 DEF WholePages
  <1> QED
    BY <1>1, <1>2, <1>3, <1>4, Zenon DEF LoaderNext, Call, Finished, loaderVars, xms, PresentXMS, EnableA20,
       AcquireHMA, Align, LoadKernel, LoopEnds, PageSetup, StartAgain

\* The registers keep their width, the kernel's address is a page boundary, and a
\* block that is locked where the program takes it to be gets whole pages only:
\* the 64K that the borrow adds are pages too.
THEOREM Types == LoaderSpec => []LoaderTypeOK
  <1> DEFINE IInv == /\ Given /\ Addresses /\ Position /\ Fresh /\ Kinds /\ WholePages
                     /\ size \in FileSizes
  <1>1. LoaderInit => IInv
    <2> SUFFICES ASSUME LoaderInit PROVE IInv
      OBVIOUS
    <2>1. Given /\ Addresses /\ size \in FileSizes
      BY InitInv DEF Inv, Counter
    <2>2. Position /\ Fresh
      BY DEF LoaderInit, Position, Fresh, Loading
    <2>3. Kinds
      <3>1. 0 \in 0 .. W - 1 /\ 0 = Page * 0 /\ 0 \in Nat
        BY DEF W, Page
      <3> QED
        BY <3>1 DEF LoaderInit, Kinds
    <2>4. WholePages
      BY DEF LoaderInit, WholePages
    <2> QED
      BY <2>1, <2>2, <2>3, <2>4
  <1>2. IInv /\ [LoaderNext]_loaderVars => IInv'
    <2>1. size \in FileSizes /\ [LoaderNext]_loaderVars => size' \in FileSizes
      BY DEF LoaderNext, Call, Finished, loaderVars, file, StartAgain, PresentXMS, EnableA20, AcquireHMA,
             Allocate, Lock, Align, LoadKernel, LoopEnds, LoadPage, PageSetup
    <2> QED
      BY <2>1, GivenKept, AddressesKept, PositionKept, FreshKept, KindsKept, WholeKept
  <1>3. IInv => LoaderTypeOK
    <2> SUFFICES ASSUME IInv PROVE LoaderTypeOK
      OBVIOUS
    <2>1. KernelAddr[2] % Page = 0
      BY Multiple DEF Kinds
    <2>2. emb = "locked" => \A a \in DOMAIN memory : a % Page = 0
      BY Multiple DEF WholePages
    <2> QED
      BY <2>1, <2>2 DEF Kinds, Given, HasHMA, HasBlock, Loading, LoaderTypeOK
  <1> QED
    BY <1>1, <1>2, <1>3, PTL DEF LoaderSpec
=============================================================================
