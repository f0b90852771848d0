------------------------------ MODULE CallLine ------------------------------
(***************************************************************************)
(* What the queue of calls promises, without saying how (the comment at    *)
(* the head of ipcQueue.ts): calls are made one at a time in the order in  *)
(* which they were asked for, a firm call is made, and any other may only  *)
(* be given up for a newer one when no firm call stands between the two.   *)
(***************************************************************************)
EXTENDS Naturals

VARIABLES
  asked,   \* the number of calls asked for
  firm,    \* the numbers of the waiting calls that must be made
  loose    \* the numbers of the other waiting calls

vars == <<asked, firm, loose>>

Init == asked = 0 /\ firm = {} /\ loose = {}

AskFirm == asked' = asked + 1 /\ firm' = firm \union {asked + 1} /\ UNCHANGED loose

AskLoose == asked' = asked + 1 /\ loose' = loose \union {asked + 1} /\ UNCHANGED firm

(* The newest waiting call makes room for one that is newer still.         *)
AskInstead ==
  \E n \in loose :
    /\ \A k \in firm \union loose : k <= n
    /\ asked' = asked + 1
    /\ loose' = (loose \ {n}) \union {asked + 1}
    /\ UNCHANGED firm

(* The oldest waiting call is made.                                        *)
Make ==
  \E n \in firm \union loose :
    /\ \A k \in firm \union loose : n <= k
    /\ firm' = firm \ {n} /\ loose' = loose \ {n} /\ UNCHANGED asked

Next == AskFirm \/ AskLoose \/ AskInstead \/ Make

Spec == Init /\ [][Next]_vars
=============================================================================
