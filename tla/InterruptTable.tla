---------------------------- MODULE InterruptTable ----------------------------
(***************************************************************************)
(* The DWORD interrupts.lvl_bmp of PnP_Mgr.c: an INTERRUPT_LEVEL in two    *)
(* bits for each of the sixteen lines, line 0 lowest.  It is kept here as  *)
(* the function from line to level that those bits spell.                  *)
(***************************************************************************)
EXTENDS Pic8259

\* INTERRUPT_LEVEL, with the numbers that share the bitmap.
UNDEFINED == 0
BUS_FREE  == 1
BUS_INUSE == 2
RECL_16   == 3
Level     == 0 .. 3

Bitmap == [Line -> Level]
Cleared == [i \in Line |-> UNDEFINED]

\* lvl_bmp >> (irq * 2): what InGetInterruptLevel stores back and returns.
ShiftedRight(bmp, irq) ==
    [i \in Line |-> IF i + irq \in Line THEN bmp[i + irq] ELSE UNDEFINED]

\* The returned DWORD, unmasked, compares equal to a level.
Equals(bmp, lvl) == bmp = [Cleared EXCEPT ![0] = lvl]

\* The bitwise OR of two levels.
Or(a, b) == CASE a = b -> a
              [] a = UNDEFINED -> b
              [] b = UNDEFINED -> a
              [] OTHER -> RECL_16

\* lvl_bmp |= lvl << (irq * 2)
WithLevel(bmp, irq, lvl) == [bmp EXCEPT ![irq] = Or(@, lvl)]
=============================================================================
