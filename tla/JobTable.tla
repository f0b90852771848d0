------------------------------ MODULE JobTable ------------------------------
(***************************************************************************)
(* The calculations of proposals on the desktop (commands.rs:1592-2302):   *)
(* a table of the running jobs, each with one cell of progress, the thread *)
(* of each job with its scope of workers, one per candidate, and the calls *)
(* for cancelling and progress, which run on threads of their own.         *)
(*                                                                         *)
(* A step is what happens under one lock: that of the table or that of a   *)
(* cell.  A job is named by its id, which no two calls share.              *)
(***************************************************************************)
EXTENDS Naturals, FiniteSets

CONSTANTS
  Job,          \* the ids of jobs
  Candidates    \* at most so many candidates per job (MAX_CANDIDATES)

VARIABLES
  jobs,     \* ProposalJobs.jobs: the ids in the table
  cell,     \* for each job its cell
  thread,   \* for each job how far its thread is, and what it will answer
  work,     \* for each job the place of each worker
  cancel,   \* the call that cancels a job
  poll      \* the call that asks for the progress of a job

tableVars == <<jobs, cell, thread, work, cancel, poll>>

-----------------------------------------------------------------------------
Worker == 1 .. Candidates

Phase == {"Queued", "Generating", "Verifying", "Finished", "Cancelled", "Failed"}
Terminal == {"Finished", "Cancelled", "Failed"}

Snapshot == [done : 0 .. Candidates + 1, total : 0 .. Candidates, phase : Phase]
Cell == [done : 0 .. Candidates + 1, total : 0 .. Candidates, phase : Phase, cancel : BOOLEAN]

NewCell == [done |-> 0, total |-> 0, phase |-> "Queued", cancel |-> FALSE]

(* A worker's place: waiting for its turn, looking for a way to fold, or   *)
(* at an end: a candidate, none that could be made, given up because the   *)
(* job was cancelled or the search out of time, or a panic.                *)
Ended == {"made", "failed", "cancelled", "expired", "panicked"}
Place == {"none", "ready", "verifying"} \union Ended

(* A thread's place, and with what result its body ended or what it will   *)
(* answer.                                                                 *)
At == {"idle", "sent", "queued", "working", "ending", "leaving", "answered", "over"}
Out == {"none", "value", "cancelled", "failed", "panicked", "made", "error"}

NoSnapshot == [done |-> 0, total |-> 0, phase |-> "Queued"]
NoPoll == [at |-> "none", seen |-> NoSnapshot]

TableTypeOK ==
  /\ jobs \subseteq Job
  /\ cell \in [Job -> Cell]
  /\ thread \in [Job -> [at : At, out : Out]]
  /\ work \in [Job -> [Worker -> Place]]
  /\ cancel \in [Job -> {"none", "sent", "found", "granted"}]
  /\ poll \in [Job -> [at : {"none", "back"}, seen : Snapshot]]

TableInit ==
  /\ jobs = {}
  /\ cell = [j \in Job |-> NewCell]
  /\ thread = [j \in Job |-> [at |-> "idle", out |-> "none"]]
  /\ work = [j \in Job |-> [k \in Worker |-> "none"]]
  /\ cancel = [j \in Job |-> "none"]
  /\ poll = [j \in Job |-> NoPoll]

-----------------------------------------------------------------------------
(* The calls of the screens, on their way.                                 *)
SendGenerate(j) ==
  /\ thread[j].at = "idle"
  /\ thread' = [thread EXCEPT ![j].at = "sent"]
  /\ UNCHANGED <<jobs, cell, work, cancel, poll>>

SendCancel(j) ==
  /\ cancel[j] = "none"
  /\ cancel' = [cancel EXCEPT ![j] = "sent"]
  /\ UNCHANGED <<jobs, cell, thread, work, poll>>

-----------------------------------------------------------------------------
(* The thread of a job.  ProposalJobs::start puts it into the table, or    *)
(* refuses an id that is there already.                                    *)
Goes(j, at, out) == thread' = [thread EXCEPT ![j] = [at |-> at, out |-> out]]

StartJob(j) ==
  /\ thread[j].at = "sent"
  /\ IF j \in jobs
     THEN Goes(j, "answered", "error") /\ UNCHANGED <<jobs, cell>>
     ELSE /\ jobs' = jobs \union {j} /\ cell' = [cell EXCEPT ![j] = NewCell]
          /\ Goes(j, "queued", "none")
  /\ UNCHANGED <<work, cancel, poll>>

(* The skeleton or the paper is not valid.                                 *)
Invalid(j) ==
  /\ thread[j].at = "queued"
  /\ Goes(j, "ending", "failed")
  /\ UNCHANGED <<jobs, cell, work, cancel, poll>>

(* The skeleton is packed in some ways and ProposalProgressCell::start     *)
(* sets the total, unless the job was cancelled; the workers begin.        *)
Started(n) == [done |-> 0, total |-> n, phase |-> "Generating", cancel |-> FALSE]

Pack(j) ==
  /\ thread[j].at = "queued"
  /\ IF cell[j].cancel
     THEN Goes(j, "ending", "cancelled") /\ UNCHANGED <<cell, work>>
     ELSE \E n \in 0 .. Candidates :
            /\ cell' = [cell EXCEPT ![j] = Started(n)]
            /\ work' = [work EXCEPT ![j] = [k \in Worker |-> IF k <= n THEN "ready" ELSE "none"]]
            /\ Goes(j, "working", "none")
  /\ UNCHANGED <<jobs, cancel, poll>>

(* A crease pattern was generated; begin_verifying looks at the            *)
(* cancellation and sets the phase under one lock.                         *)
BeginVerifying(j, k) ==
  /\ thread[j].at = "working" /\ work[j][k] = "ready" /\ ~ cell[j].cancel
  /\ work' = [work EXCEPT ![j][k] = "verifying"]
  /\ cell' = [cell EXCEPT ![j].phase = IF @ \in Terminal THEN @ ELSE "Verifying"]
  /\ UNCHANGED <<jobs, thread, cancel, poll>>

(* Mutant: the last candidate counts as one too many.                      *)
FinishOneStrict(c) ==
  [c EXCEPT !.done = @ + 1,
            !.phase = IF c.done + 1 >= c.total /\ c.phase \notin Terminal THEN "Failed" ELSE @]

(* The ticket of a worker is dropped, whatever became of it.               *)
FinishOne(c) ==
  [c EXCEPT !.done = @ + 1,
            !.phase = IF c.done + 1 > c.total /\ c.phase \notin Terminal THEN "Failed" ELSE @]

(* How a worker may end: a cancellation is seen only if there is one, but  *)
(* one that comes after the last look is not.                              *)
Endings(j, k) ==
  (IF cell[j].cancel THEN {"cancelled"} ELSE {})
    \union (IF work[j][k] = "ready" THEN {"failed", "panicked"}
            ELSE {"made", "expired", "panicked"})

EndWorker(j, k) ==
  /\ thread[j].at = "working" /\ work[j][k] \in {"ready", "verifying"}
  /\ \E how \in Endings(j, k) :
       /\ work' = [work EXCEPT ![j][k] = how]
       /\ cell' = [cell EXCEPT ![j] = FinishOne(cell[j])]
  /\ UNCHANGED <<jobs, thread, cancel, poll>>

(* All workers are joined: a panic goes up, a cancellation drops what was  *)
(* made, and so does the first search that was given up.                   *)
How(j, how) == {k \in Worker : work[j][k] = how}

Gathered(j) ==
  CASE How(j, "panicked") # {} -> "panicked"
    [] How(j, "panicked") = {} /\ cell[j].cancel -> "cancelled"
    [] How(j, "panicked") = {} /\ ~ cell[j].cancel ->
         IF How(j, "expired") # {} \/ How(j, "made") = {} THEN "failed" ELSE "value"

Gather(j) ==
  /\ thread[j].at = "working"
  /\ \A k \in Worker : work[j][k] \notin {"ready", "verifying"}
  /\ Goes(j, "ending", Gathered(j))
  /\ work' = [work EXCEPT ![j] = [k \in Worker |-> "none"]]
  /\ UNCHANGED <<jobs, cell, cancel, poll>>

(* ProposalJobs::finish: a cancellation that came before wins over what    *)
(* the body made of it.                                                    *)
Finished(c, phase) ==
  LET cancelled == c.cancel \/ phase = "Cancelled"
  IN [c EXCEPT !.cancel = cancelled,
               !.phase = IF cancelled THEN "Cancelled" ELSE IF @ \in Terminal THEN @ ELSE phase]

PhaseOf(out) ==
  CASE out = "value" -> "Finished" [] out = "cancelled" -> "Cancelled" [] OTHER -> "Failed"

(* Mutant: the answer is what the body returned.                           *)
AnswerOfBody(out, phase) == IF out = "value" THEN "made" ELSE "error"

Answer(out, phase) == IF out = "value" /\ phase = "Finished" THEN "made" ELSE "error"

Complete(j) ==
  /\ thread[j].at = "ending"
  /\ cell' = [cell EXCEPT ![j] = Finished(cell[j], PhaseOf(thread[j].out))]
  /\ Goes(j, "leaving", Answer(thread[j].out, cell'[j].phase))
  /\ UNCHANGED <<jobs, work, cancel, poll>>

(* The cell goes with the job, unless a call has it.                       *)
Dropped(j) == IF cancel[j] = "found" THEN cell ELSE [cell EXCEPT ![j] = NewCell]

(* Mutant: a job that failed stays in the table.                           *)
PruneIfMade(j) ==
  /\ thread[j].at = "leaving"
  /\ jobs' = IF thread[j].out = "made" THEN jobs \ {j} ELSE jobs
  /\ Goes(j, "answered", thread[j].out)
  /\ cell' = Dropped(j)
  /\ UNCHANGED <<work, cancel, poll>>

Prune(j) ==
  /\ thread[j].at = "leaving"
  /\ jobs' = jobs \ {j}
  /\ Goes(j, "answered", thread[j].out)
  /\ cell' = Dropped(j)
  /\ UNCHANGED <<work, cancel, poll>>

-----------------------------------------------------------------------------
(* The other two calls take the cell out of the table under one lock and   *)
(* look into it under another; the job may have ended in between.          *)
FindForCancel(j) ==
  /\ cancel[j] = "sent"
  /\ cancel' = [cancel EXCEPT ![j] = IF j \in jobs THEN "found" ELSE "none"]
  /\ UNCHANGED <<jobs, cell, thread, work, poll>>

CancelJob(j) ==
  /\ cancel[j] = "found"
  /\ IF cell[j].phase \in {"Finished", "Failed"}
     THEN cancel' = [cancel EXCEPT ![j] = "none"] /\ UNCHANGED cell
     ELSE /\ cancel' = [cancel EXCEPT ![j] = "granted"]
          /\ cell' = [cell EXCEPT ![j].cancel = TRUE, ![j].phase = "Cancelled"]
  /\ UNCHANGED <<jobs, thread, work, poll>>

(* The cell of a job that has left the table does not change any more, so  *)
(* that taking it out and reading it are one step.                         *)
ReadProgress(j) ==
  /\ poll[j].at = "none" /\ j \in jobs
  /\ poll' = [poll EXCEPT ![j] = [at |-> "back", seen |-> [done |-> cell[j].done,
                                  total |-> cell[j].total, phase |-> cell[j].phase]]]
  /\ UNCHANGED <<jobs, cell, thread, work, cancel>>

-----------------------------------------------------------------------------
(* The answers reach the screens.                                          *)
TakeAnswer(j) ==
  /\ thread[j].at = "answered"
  /\ Goes(j, "over", thread[j].out)
  /\ UNCHANGED <<jobs, cell, work, cancel, poll>>

TakeProgress(j) ==
  /\ poll[j].at = "back"
  /\ poll' = [poll EXCEPT ![j] = NoPoll]
  /\ UNCHANGED <<jobs, cell, thread, work, cancel>>

(* What the thread and the workers of a job do, and the other calls.       *)
ThreadStep(j) ==
  \/ StartJob(j) \/ Invalid(j) \/ Pack(j) \/ Gather(j) \/ Complete(j) \/ Prune(j)
  \/ \E k \in Worker : BeginVerifying(j, k) \/ EndWorker(j, k)

CallStep(j) == FindForCancel(j) \/ CancelJob(j)

(* What the screens do to it.                                              *)
TableCall(j) ==
  SendGenerate(j) \/ SendCancel(j) \/ ReadProgress(j) \/ TakeAnswer(j) \/ TakeProgress(j)

TableNext == \E j \in Job : ThreadStep(j) \/ CallStep(j) \/ TableCall(j)

TableSpec == TableInit /\ [][TableNext]_tableVars

-----------------------------------------------------------------------------
(* The table keeps the contract: of the candidates and the cancellation of *)
(* a job only one is ever handed out.                                      *)
TableAnswer ==
  [j \in Job |-> IF thread[j].at \in {"answered", "over"} THEN thread[j].out ELSE "none"]

Granted == {j \in Job : cancel[j] = "granted"}

TableContract == INSTANCE JobContract WITH answer <- TableAnswer, withdrawn <- Granted

(* A job is in the table exactly as long as its thread works on it.        *)
TableHoldsTheLiving ==
  \A j \in Job : j \in jobs <=> thread[j].at \in {"queued", "working", "ending", "leaving"}

(* What was made is handed out unless the job was cancelled or a search    *)
(* was given up or fell over: the count never makes the job look           *)
(* inconsistent (commands.rs:2133-2139).                                   *)
NothingMadeIsLost ==
  [][\A j \in Job : thread[j].at = "ending" /\ thread[j].out = "value" /\ ~ cell[j].cancel
                  /\ thread'[j] # thread[j] => thread'[j].out = "made"]_tableVars
=============================================================================
