----------------------------- MODULE JobContract -----------------------------
(***************************************************************************)
(* What the wizard may expect of a calculation of proposals, whichever     *)
(* back end it runs on: the desktop's table of jobs (JobTable) or the      *)
(* browser's workers (JobWorkers).  A job is answered once.  An answered   *)
(* cancellation is final: it is never followed by candidates, nor ever     *)
(* granted once there are some (commands.rs:1934-1937: what has been made   *)
(* of a cancelled calculation is not returned).                            *)
(***************************************************************************)
CONSTANT Job

VARIABLES
  answer,     \* how the call of each job was answered: "none", "made" or "error"
  withdrawn   \* the jobs whose cancellation was granted

vars == <<answer, withdrawn>>

Init == answer = [j \in Job |-> "none"] /\ withdrawn = {}

(* The cancellation is granted: not if the candidates were handed out.     *)
Withdraw(j) ==
  /\ answer[j] # "made"
  /\ withdrawn' = withdrawn \union {j} /\ UNCHANGED answer

(* The candidates are handed out.                                          *)
Deliver(j) ==
  /\ answer[j] = "none" /\ j \notin withdrawn
  /\ answer' = [answer EXCEPT ![j] = "made"] /\ UNCHANGED withdrawn

(* The calculation failed or was cancelled.                                *)
Refuse(j) ==
  /\ answer[j] = "none"
  /\ answer' = [answer EXCEPT ![j] = "error"] /\ UNCHANGED withdrawn

(* On the browser both happen in one turn: the call is refused as it is    *)
(* withdrawn.                                                              *)
WithdrawAndRefuse(j) ==
  /\ answer[j] = "none"
  /\ answer' = [answer EXCEPT ![j] = "error"] /\ withdrawn' = withdrawn \union {j}

Next == \E j \in Job : Withdraw(j) \/ Deliver(j) \/ Refuse(j) \/ WithdrawAndRefuse(j)

Spec == Init /\ [][Next]_vars
=============================================================================
