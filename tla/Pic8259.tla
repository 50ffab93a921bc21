------------------------------- MODULE Pic8259 -------------------------------
(***************************************************************************)
(* The pair of 8259 interrupt controllers as PIC_Remap (IA32.c) programs   *)
(* it: edge triggered, slave cascaded on IR2 of the master, fully nested   *)
(* priorities, no automatic end of interrupt.  The chips are hardware:     *)
(* these operators say what the kernel relies on when it takes an          *)
(* interrupt, reads the in-service registers and writes to the ports.      *)
(* A register is the set of lines whose bit is on; bits 0-7 belong to the  *)
(* master and bits 8-15 to the slave, as InGetInService16 packs them.      *)
(***************************************************************************)
EXTENDS Integers

Line       == 0 .. 15
MasterLine == 0 .. 7
SlaveLine  == 8 .. 15
Cascade    == 2

\* The master's level on which a line interrupts: its own, or the cascade.
MasterBit(q) == IF q \in SlaveLine THEN Cascade ELSE q

\* Priority over both chips, 0 the highest: 0, 1, 8..15, 3..7.
Rank(q) == CASE q \in SlaveLine -> q - 6
             [] q > Cascade     -> q + 7
             [] OTHER           -> q

\* A chip with a level in service presents only requests of higher priority.
Unblocked(q, isr, imr) ==
    /\ q \notin imr
    /\ \A s \in isr \cap MasterLine : MasterBit(q) < s
    /\ q \in SlaveLine => \A s \in isr \cap SlaveLine : q < s

\* The line whose vector the processor is given, if it accepts one now.
Wins(q, irr, isr, imr) ==
    /\ q \in irr
    /\ Unblocked(q, isr, imr)
    /\ \A p \in irr : Unblocked(p, isr, imr) => Rank(q) =< Rank(p)

\* INTA: the acknowledged line comes in service, in both chips for a slave line.
InService(q, isr) == isr \cup {q, MasterBit(q)}

\* Non-specific end of interrupt: the highest level in service on the master.
MasterEOI(isr) ==
    {s \in isr : s \in MasterLine => \E t \in isr \cap MasterLine : t < s}

\* OCW1 to port A1h: the byte becomes the slave's whole mask register.
MaskSlave(lines, imr) == (imr \cap MasterLine) \cup (lines \cap SlaveLine)
=============================================================================
