------------------------------ MODULE MCDispatch ------------------------------
(* MasterDispatch behind an IDT with one stub per line, for TLC. *)
EXTENDS MasterDispatch

OneStubPerLine == [q \in Line |-> q]
=============================================================================
