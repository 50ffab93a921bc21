------------------------------- MODULE Startup -------------------------------
(***************************************************************************)
(* What the startup code leaves behind for the interrupt dispatcher: the   *)
(* IDT entries FillIDT (IA32.c) writes for the IRQ stubs, and the DWORD    *)
(* that StartK.asm fills the BSS with.                                     *)
(***************************************************************************)
EXTENDS Sequences, InterruptTable

CONSTANT NotPresent  \* an IDT entry nothing was written to

IRQ_BASE == 32

\* The MkIntrGate calls of FillIDT in their order: <<vector, stub>>.
InterruptGates == [i \in 1 .. 16 |-> <<IRQ_BASE, i - 1>>]

\* The IDT after a sequence of gates: the last one written to a vector counts.
Written(gates, vector) ==
    LET at == {i \in DOMAIN gates : gates[i][1] = vector}
    IN  IF at = {} THEN NotPresent
        ELSE gates[CHOOSE i \in at : \A j \in at : j =< i][2]

\* The stub at the vector PIC_Remap gives to each line.
BuiltGate == [q \in Line |-> Written(InterruptGates, IRQ_BASE + q)]

\* EAX when the boot loader jumps to Begin: CR0 with PE and PG, and the flat
\* data selector 10h moved into AX for DS, ES and SS.  The set of its bits.
EAX == {31, 4}

\* rep stosd with that EAX, as lvl_bmp in the BSS reads it: two bits a line.
FilledLevels ==
    [q \in Line |-> (IF 2 * q \in EAX THEN 1 ELSE 0)
                    + (IF 2 * q + 1 \in EAX THEN 2 ELSE 0)]
=============================================================================
