----------------------------- MODULE BootLoader -----------------------------
(***************************************************************************)
(* boot386.asm: the DOS program that gets extended memory from the XMS     *)
(* driver, loads the kernel there page by page, makes the page tables in   *)
(* the HMA and goes to protected mode.  DOS and the XMS driver may refuse  *)
(* any call; after an error the program ends and may be started again.     *)
(*                                                                         *)
(* An address that is held in two registers is the pair of its halves.     *)
(***************************************************************************)
EXTENDS Integers

CONSTANTS
    Bases,      \* where the XMS driver may have the block: <<high, low>>
    FileSizes   \* the sizes of the kernel's file, in bytes

W == 65536      \* 2^16
Page == 4096

ASSUME BootAssumption ==
    Bases \subseteq (0 .. 1023) \X (0 .. W - 1) /\ FileSizes \subseteq Nat

VARIABLES
    loader,     \* what is done next
    a20, hma, emb,  \* the XMS driver's: A20 on, who has the HMA, the block: "free",
                    \* "allocated" or "locked"
    block,          \* where the block is
    base,           \* DX:BX after the lock
    KernelAddr, desoff,
    size, di,       \* of the file, and the loop counter
    position,       \* of the file, in pages
    memory          \* for pages of extended memory, the page of the file there

loaderVars == <<loader, a20, hma, emb, block, base,
          KernelAddr, desoff, size, di, position, memory>>
xms == <<a20, hma, emb>>
addresses == <<block, base, KernelAddr, desoff>>
file == <<size, di, position>>

Linear(halves) == W * halves[1] + halves[2]

LoaderInit ==
    /\ loader = "xms"
    /\ a20 \in BOOLEAN
    /\ hma \in {"free", "other"}
    /\ emb = "free"
    /\ block = <<0, 0>> /\ base = <<0, 0>> /\ KernelAddr = <<0, 0>> /\ desoff = 0
    /\ size \in FileSizes
    /\ di = 0 /\ position = 0
    /\ memory = << >>

\* ERROR: DOS gets control, and the XMS driver keeps what it has given.
\* A variant stays where it is.
ErrorIgnored == loader' = loader
ERROR == loader' = "exit"

StartAgain ==
    /\ loader = "exit"
    /\ loader' = "xms"
    /\ UNCHANGED <<xms, addresses, file, memory>>

PresentXMS ==
    /\ loader = "xms"
    /\ loader' = "a20" \/ ERROR
    /\ UNCHANGED <<xms, addresses, file, memory>>

EnableA20 ==
    /\ loader = "a20"
    /\ \/ a20 /\ loader' = "hma" /\ a20' = a20
       \/ ~a20 /\ loader' = "hma" /\ a20' = TRUE
       \/ ~a20 /\ ERROR /\ a20' = a20
    /\ UNCHANGED <<hma, emb, addresses, file, memory>>

\* A variant takes no notice of the answer.
AcquireHMAUnchecked ==
    /\ loader = "hma"
    /\ loader' = "allocate"
    /\ hma' = IF hma = "free" THEN "loader" ELSE hma
    /\ UNCHANGED <<a20, emb, addresses, file, memory>>
AcquireHMA ==
    /\ loader = "hma"
    /\ \/ hma = "free" /\ hma' = "loader" /\ loader' = "allocate"
       \/ hma # "free" /\ hma' = hma /\ ERROR
    /\ UNCHANGED <<a20, emb, addresses, file, memory>>

Allocate ==
    /\ loader = "allocate"
    /\ \/ emb = "free" /\ emb' = "allocated" /\ loader' = "lock"
       \/ emb' = emb /\ ERROR
    /\ UNCHANGED <<a20, hma, addresses, file, memory>>

\* The result of the lock is not checked: when it fails, DX and BX are not the
\* block's address, but used as if they were.
Lock ==
    /\ loader = "lock"
    /\ emb' \in {"locked", "allocated"}
    /\ block' \in Bases /\ base' \in Bases
    /\ emb' = "locked" => base' = block'
    /\ loader' = "align"
    /\ UNCHANGED <<a20, hma, KernelAddr, desoff, file, memory>>

\* add ax,4095; adc cx,0; and ax,~4095.  Variants: without the
\* carry, and without the mask.
AlignedUnmasked(halves) ==
    <<halves[1] + (halves[2] + Page - 1) \div W, (halves[2] + Page - 1) % W>>
AlignedNoCarry(halves) ==
    LET ax == halves[2] + Page - 1
    IN  <<halves[1], (ax % W) - (ax % Page)>>
Aligned(halves) ==
    LET ax == halves[2] + Page - 1
    IN  <<halves[1] + ax \div W, (ax % W) - (ax % Page)>>

\* sub cx,dx; sbb ax,bx: the high halves first, with the borrow going down.
Offset(aligned, halves) ==
    LET borrow == IF aligned[1] < halves[1] THEN 1 ELSE 0
    IN  <<(aligned[1] - halves[1] + W) % W, (aligned[2] - halves[2] - borrow + W) % W>>

Align ==
    /\ loader = "align"
    /\ KernelAddr' = Aligned(base)
    /\ desoff' = Linear(Offset(KernelAddr', base))
    /\ loader' = "open"
    /\ UNCHANGED <<xms, block, base, file, memory>>

\* shrd ax,dx,12: the number of whole pages.  A variant counts the rest as one.
PagesUp == ((size + Page - 1) \div Page) % W
Pages == (size \div Page) % W

LoadKernel ==
    /\ loader = "open"
    /\ \/ Pages # 0 /\ di' = Pages /\ position' = 0 /\ loader' = "load"
       \/ ERROR /\ UNCHANGED <<di, position>>
    /\ UNCHANGED <<xms, addresses, size, memory>>

\* The loop decrements DI first.
Count == (di - 1 + W) % W

LoopEnds ==
    /\ loader = "load"
    /\ di' = Count
    /\ di' = 0
    /\ loader' = "tables"
    /\ UNCHANGED <<xms, addresses, size, position, memory>>

\* The page goes to the block at desoff.  Of what DOS reads only the carry is
\* looked at, and the move is checked.
LoadPage ==
    /\ loader = "load"
    /\ di' = Count
    /\ di' # 0
    /\ \/ /\ LET at == Linear(block) + desoff
             IN  memory' = [a \in DOMAIN memory \union {at} |->
                              IF a = at THEN position ELSE memory[a]]
          /\ desoff' = desoff + Page
          /\ position' = position + 1
          /\ loader' = loader
       \/ ERROR /\ UNCHANGED <<memory, desoff, position>>
    /\ UNCHANGED <<xms, block, base, KernelAddr, size>>

\* PageSetup and GotoKernel: the second table maps 256 pages from KernelAddr on.
PageSetup ==
    /\ loader = "tables"
    /\ loader' = "kernel"
    /\ UNCHANGED <<xms, addresses, file, memory>>
KernelTable == [k \in 0 .. 255 |-> Linear(KernelAddr) + Page * k]

Call ==
    \/ PresentXMS \/ EnableA20 \/ AcquireHMA \/ Allocate \/ Lock \/ Align
    \/ LoadKernel \/ LoopEnds \/ LoadPage \/ PageSetup
Finished == loader = "kernel" /\ UNCHANGED loaderVars
LoaderNext == Call \/ StartAgain \/ Finished

\* A call returns.
LoaderSpec == LoaderInit /\ [][LoaderNext]_loaderVars /\ WF_loaderVars(Call)

-----------------------------------------------------------------------------
(* Properties *)

LoaderTypeOK ==
    /\ loader \in {"xms", "a20", "hma", "allocate", "lock", "align", "open", "load",
               "tables", "kernel", "exit"}
    /\ a20 \in BOOLEAN
    /\ hma \in {"free", "other", "loader"}
    /\ emb \in {"free", "allocated", "locked"}
    /\ KernelAddr[2] \in 0 .. W - 1 /\ KernelAddr[2] % Page = 0
    /\ di \in 0 .. W - 1
    /\ emb = "locked" => \A a \in DOMAIN memory : a % Page = 0

\* When an attempt has failed with the HMA in its hands, no later one starts the
\* kernel, because no error path gives anything back.
NoSecondTry == [](loader = "exit" /\ hma = "loader" => [](loader # "kernel"))

\* The kernel starts with A20 on and the HMA its loader's own, where CR3 finds the
\* page tables.  If the lock succeeded, and the first page boundary is in the same
\* 64K as the block's start, these tables find every page that was loaded where it
\* was loaded.  Where one of the two fails, KernelLoads does.
FoundWhereMapped ==
    loader = "kernel" =>
        /\ a20 /\ hma = "loader" /\ emb # "free"
        /\ emb = "locked" /\ Aligned(base)[1] = base[1] =>
               \A k \in 0 .. position - 1 :
                   KernelTable[k] \in DOMAIN memory /\ memory[KernelTable[k]] = k

\* "This code is working and kernel loads" (boot386.asm 40): if the lock succeeded,
\* each page of the file, the last part of one too, is where the page tables lead.
\* Aligned minus Original is to be the offset (213-214), but the borrow of sbb comes
\* from the wrong halves (216), and dec di is before the first page (271).
KernelLoads ==
    loader = "kernel" /\ emb = "locked" =>
        \A k \in 0 .. ((size + Page - 1) \div Page) - 1 :
            KernelTable[k] \in DOMAIN memory /\ memory[KernelTable[k]] = k

\* Every attempt ends: with the kernel running or back in DOS.
AttemptEnds == loader = "xms" ~> loader \in {"kernel", "exit"}
=============================================================================
