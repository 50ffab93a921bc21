---------------------------- MODULE NestedService ----------------------------
(***************************************************************************)
(* What the dispatcher and the 8259s promise together to the handlers:     *)
(* activations nest by priority.  A handler is entered on top of all the   *)
(* active ones and only at a higher priority than theirs (level 0 is the   *)
(* highest), and the one that ends is the one on top.                      *)
(***************************************************************************)
EXTENDS Integers

CONSTANTS Depths, Levels  \* integers
VARIABLE active  \* <<depth on the stack, level>> of the handlers entered

Init == active = {}

Enter(d, m) == /\ \A a \in active : a[1] < d /\ m < a[2]
               /\ active' = active \cup {<<d, m>>}

Leave(a) == /\ a \in active
            /\ \A b \in active : b[1] =< a[1]
            /\ active' = active \ {a}

Next == \/ \E d \in Depths, m \in Levels : Enter(d, m)
        \/ \E a \in active : Leave(a)

Spec == Init /\ [][Next]_active
=============================================================================
