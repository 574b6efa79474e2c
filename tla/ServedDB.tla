------------------------------- MODULE ServedDB -------------------------------
(***************************************************************************)
(* What the database cache promises to a scan: at any moment it serves one *)
(* complete database or none, and which one it serves changes only by      *)
(* withdrawing it and installing a published one whole.                    *)
(***************************************************************************)
EXTENDS Naturals

VARIABLES served,   \* the database that passes validation, as [built, bits]
          offered   \* the newest published build

None == [built |-> 0, bits |-> 0]

Init == served = None /\ offered = 1

\* A published build, hydrated (its file written to at least once) appears.
Install == /\ served = None
           /\ \E b \in 1 .. offered :
                /\ served'.built = b
                /\ served'.bits > 0
                /\ served' = [built |-> b, bits |-> served'.bits]
           /\ UNCHANGED offered

Withdraw == /\ served # None
            /\ served' = None
            /\ UNCHANGED offered

Publish == /\ offered' > offered
           /\ UNCHANGED served

Next == Install \/ Withdraw \/ Publish

Spec == Init /\ [][Next]_<<served, offered>>
=============================================================================
