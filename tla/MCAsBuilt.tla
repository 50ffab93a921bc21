------------------------------ MODULE MCAsBuilt ------------------------------
(* MasterDispatch behind the IDT, the table and the entry code as built. *)
EXTENDS MasterDispatch

Built == INSTANCE Startup WITH NotPresent <- NoGate
BuiltGate == Built!BuiltGate
BuiltLevels == Built!FilledLevels
=============================================================================
