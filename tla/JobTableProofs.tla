--------------------------- MODULE JobTableProofs ---------------------------
(***************************************************************************)
(* Proofs about JobTable, for any ids of jobs and any number of candidates.*)
(***************************************************************************)
EXTENDS JobTable, FiniteSetTheorems, TLAPS

-----------------------------------------------------------------------------
(* The inductive invariant.                                                *)

(* What a thread will answer, by how far it is.                            *)
OutIsRight(j) ==
  /\ thread[j].at \in {"idle", "sent", "queued", "working"} => thread[j].out = "none"
  /\ thread[j].at = "ending" => thread[j].out \in {"value", "cancelled", "failed", "panicked"}
  /\ thread[j].at \in {"leaving", "answered", "over"} => thread[j].out \in {"made", "error"}

EndedOf(j) == {k \in Worker : work[j][k] \in Ended}

(* While the workers of a job run, its cell counts those that have ended.  *)
CountIsRight(j) ==
  /\ \A k \in Worker : work[j][k] # "none" => k <= cell[j].total
  /\ cell[j].done = Cardinality(EndedOf(j))

Living(j) == thread[j].at \in {"queued", "working", "ending", "leaving"}

(* The cell of a job, as long as somebody has it, knows its outcome.       *)
CellIsRight(j) ==
  /\ cell[j].cancel <=> cell[j].phase = "Cancelled"
  /\ thread[j].at \in {"queued", "working", "ending"} =>
       cell[j].phase \notin {"Finished", "Failed"}
  /\ thread[j].at = "leaving" \/ (cancel[j] = "found" /\ ~ Living(j)) =>
       /\ cell[j].phase \in Terminal
       /\ thread[j].out = "made" => cell[j].phase = "Finished"

(* A cancellation that was granted, or may yet be.                         *)
CancelIsRight(j) ==
  /\ cancel[j] \in {"found", "granted"} => thread[j].at \notin {"idle", "sent"}
  /\ cancel[j] = "granted" =>
       /\ Living(j) => cell[j].cancel
       /\ thread[j].out # "made"

JobIsRight(j) ==
  /\ OutIsRight(j)
  /\ j \in jobs <=> Living(j)
  /\ thread[j].at = "working" => CountIsRight(j)
  /\ CellIsRight(j)
  /\ CancelIsRight(j)

IInv ==
  /\ Candidates \in Nat
  /\ TableTypeOK
  /\ \A j \in Job : JobIsRight(j)

-----------------------------------------------------------------------------
(* What a step does to the other jobs.                                     *)

(* A step about job j leaves everything about another job i as it was.     *)
Apart(j, i) ==
  /\ i \in jobs' <=> i \in jobs
  /\ cell'[i] = cell[i] /\ thread'[i] = thread[i] /\ work'[i] = work[i]
  /\ cancel'[i] = cancel[i]

LEMMA OthersAreRight ==
  ASSUME NEW i \in Job, NEW j \in Job, JobIsRight(i), Apart(j, i)
  PROVE  JobIsRight(i)'
BY DEF JobIsRight, Apart, OutIsRight, CountIsRight, EndedOf, CellIsRight, CancelIsRight, Living

LEMMA StepsAreApart ==
  ASSUME IInv, NEW j \in Job, NEW i \in Job, i # j,
         ThreadStep(j) \/ CallStep(j) \/ TableCall(j)
  PROVE  Apart(j, i)
<1> USE DEF IInv, TableTypeOK, Apart, Goes
<1>1. CASE StartJob(j)
  BY <1>1 DEF StartJob
<1>6. CASE Invalid(j)
  BY <1>6 DEF Invalid
<1>7. CASE Pack(j)
  BY <1>7 DEF Pack
<1>2. CASE Gather(j) \/ Complete(j) \/ Prune(j)
  BY <1>2 DEF Gather, Complete, Prune, Dropped
<1>3. CASE \E k \in Worker : BeginVerifying(j, k) \/ EndWorker(j, k)
  BY <1>3 DEF BeginVerifying, EndWorker
<1>4. CASE CallStep(j)
  BY <1>4 DEF CallStep, FindForCancel, CancelJob
<1>5. CASE TableCall(j)
  BY <1>5 DEF TableCall, SendGenerate, SendCancel, ReadProgress, TakeAnswer, TakeProgress
<1> QED
  BY <1>1, <1>2, <1>3, <1>4, <1>5, <1>6, <1>7 DEF ThreadStep

-----------------------------------------------------------------------------
(* Types.                                                                  *)

LEMMA WorkerIsFinite ==
  ASSUME Candidates \in Nat
  PROVE  /\ IsFiniteSet(Worker)
         /\ \A S \in SUBSET Worker, n \in 0 .. Candidates :
              S \subseteq 1 .. n => IsFiniteSet(S) /\ Cardinality(S) \in 0 .. n
<1>1. IsFiniteSet(Worker)
  BY FS_Interval DEF Worker
<1>2. ASSUME NEW S \in SUBSET Worker, NEW n \in 0 .. Candidates, S \subseteq 1 .. n
      PROVE  IsFiniteSet(S) /\ Cardinality(S) \in 0 .. n
  <2>1. IsFiniteSet(1 .. n) /\ Cardinality(1 .. n) = n
    BY FS_Interval
  <2>2. IsFiniteSet(S) /\ Cardinality(S) <= n
    BY <1>2, <2>1, FS_Subset
  <2>3. Cardinality(S) \in Nat
    BY <2>2, FS_CardinalityType
  <2> QED
    BY <2>2, <2>3
<1> QED
  BY <1>1, <1>2

(* What a step about job j has to keep.                                    *)
Kept(j) == TableTypeOK' /\ JobIsRight(j)'

LEMMA GoesOn ==
  ASSUME TableTypeOK, NEW j \in Job, NEW at \in At, NEW out \in Out, Goes(j, at, out)
  PROVE  /\ thread' \in [Job -> [at : At, out : Out]]
         /\ thread'[j].at = at /\ thread'[j].out = out
BY DEF TableTypeOK, Goes

(* Steps that leave the cell and the workers alone.                        *)
LEMMA PlacesKept ==
  ASSUME NEW j \in Job, UNCHANGED <<cell, work>>, CountIsRight(j)
  PROVE  CountIsRight(j)'
BY DEF CountIsRight, EndedOf

LEMMA CallsKeep ==
  ASSUME IInv, NEW j \in Job
  PROVE  SendGenerate(j) \/ SendCancel(j) \/ TakeAnswer(j) \/ TakeProgress(j) => Kept(j)
<1>0. JobIsRight(j) /\ TableTypeOK
  BY DEF IInv
<1>1. ASSUME SendGenerate(j) PROVE Kept(j)
  <2>1. thread' \in [Job -> [at : At, out : Out]] /\ thread'[j].at = "sent"
        /\ thread'[j].out = thread[j].out
    BY <1>0, <1>1 DEF SendGenerate, TableTypeOK, At
  <2> QED
    BY <1>0, <1>1, <2>1 DEF SendGenerate, Kept, TableTypeOK, JobIsRight, OutIsRight, Living,
                           CellIsRight, CancelIsRight
<1>2. ASSUME SendCancel(j) PROVE Kept(j)
  BY <1>0, <1>2, PlacesKept DEF SendCancel, Kept, TableTypeOK, JobIsRight, OutIsRight, Living,
                           CellIsRight, CancelIsRight
<1>3. ASSUME TakeAnswer(j) PROVE Kept(j)
  <2>1. thread' \in [Job -> [at : At, out : Out]] /\ thread'[j].at = "over"
        /\ thread'[j].out = thread[j].out
    BY <1>0, <1>3 DEF TakeAnswer, Goes, TableTypeOK, At
  <2> QED
    BY <1>0, <1>3, <2>1 DEF TakeAnswer, Kept, TableTypeOK, JobIsRight, OutIsRight, Living,
                           CellIsRight, CancelIsRight
<1>4. ASSUME TakeProgress(j) PROVE Kept(j)
  <2>1. NoPoll \in [at : {"none", "back"}, seen : Snapshot]
    BY DEF IInv, NoPoll, NoSnapshot, Snapshot, Phase
  <2> QED
    BY <1>0, <1>4, <2>1, PlacesKept DEF TakeProgress, Kept, TableTypeOK, JobIsRight, OutIsRight,
                           Living, CellIsRight, CancelIsRight
<1> QED
  BY <1>1, <1>2, <1>3, <1>4

LEMMA ReadProgressKeeps ==
  ASSUME IInv, NEW j \in Job, ReadProgress(j)
  PROVE  Kept(j)
<1> USE DEF IInv, TableTypeOK, JobIsRight, Kept
<1>1. [done |-> cell[j].done, total |-> cell[j].total, phase |-> cell[j].phase] \in Snapshot
  BY DEF Cell, Snapshot
<1> QED
  BY <1>1, PlacesKept DEF ReadProgress, OutIsRight, Living, CellIsRight, CancelIsRight

LEMMA CancelsKeep ==
  ASSUME IInv, NEW j \in Job, FindForCancel(j) \/ CancelJob(j)
  PROVE  Kept(j)
<1> USE DEF IInv, TableTypeOK, JobIsRight, Kept
<1>1. CASE FindForCancel(j)
  BY <1>1, PlacesKept DEF FindForCancel, OutIsRight, Living, CellIsRight, CancelIsRight
<1>2. CASE CancelJob(j) /\ cell[j].phase \in {"Finished", "Failed"}
  BY <1>2, PlacesKept DEF CancelJob, OutIsRight, Living, CellIsRight, CancelIsRight
<1>3. CASE CancelJob(j) /\ cell[j].phase \notin {"Finished", "Failed"}
  <2>1. /\ cell[j] \in Cell
        /\ cell' = [cell EXCEPT ![j] = [cell[j] EXCEPT !.cancel = TRUE, !.phase = "Cancelled"]]
        /\ cancel' = [cancel EXCEPT ![j] = "granted"] /\ cancel[j] = "found"
        /\ UNCHANGED <<jobs, thread, work, poll>>
    BY <1>3 DEF CancelJob
  <2>2. cell' \in [Job -> Cell]
    BY <2>1 DEF Cell, Phase
  <2>3. /\ cell'[j].cancel /\ cell'[j].phase = "Cancelled"
        /\ cell'[j].done = cell[j].done /\ cell'[j].total = cell[j].total
    BY <2>1 DEF Cell
  <2>4. thread[j].out # "made"
    BY <1>3, <2>1 DEF CellIsRight, Living, OutIsRight
  <2> QED
    BY <2>1, <2>2, <2>3, <2>4 DEF OutIsRight, Living, CountIsRight, EndedOf, CellIsRight, CancelIsRight, Terminal
<1> QED
  BY <1>1, <1>2, <1>3

LEMMA InitIsRight == Candidates \in Nat /\ TableInit => IInv
<1> SUFFICES ASSUME Candidates \in Nat, TableInit PROVE IInv
  OBVIOUS
<1>1. NewCell \in Cell /\ NoPoll \in [at : {"none", "back"}, seen : Snapshot]
  BY DEF NewCell, Cell, Phase, NoPoll, NoSnapshot, Snapshot
<1>2. TableTypeOK
  BY <1>1 DEF TableInit, TableTypeOK, At, Out, Place
<1>3. ASSUME NEW j \in Job PROVE JobIsRight(j)
  BY <1>3 DEF TableInit, JobIsRight, OutIsRight, Living, CellIsRight, CancelIsRight, NewCell
<1> QED
  BY <1>2, <1>3 DEF IInv

LEMMA StartsKeep ==
  ASSUME IInv, NEW j \in Job, StartJob(j) \/ Invalid(j)
  PROVE  Kept(j)
<1> USE DEF IInv, TableTypeOK, JobIsRight, Kept
<1>1. NewCell \in Cell /\ NewCell.phase = "Queued" /\ NewCell.cancel = FALSE
  BY DEF NewCell, Cell, Phase
<1>2. CASE StartJob(j)
  <2>1. j \notin jobs
    BY <1>2 DEF StartJob, Living
  <2>2. cell'[j] = NewCell /\ cell' \in [Job -> Cell] /\ jobs' = jobs \union {j}
        /\ Goes(j, "queued", "none")
    BY <1>1, <1>2, <2>1 DEF StartJob
  <2>3. thread' \in [Job -> [at : At, out : Out]]
        /\ thread'[j].at = "queued" /\ thread'[j].out = "none"
    BY <2>2, GoesOn DEF At, Out
  <2> QED
    BY <1>1, <1>2, <2>2, <2>3 DEF StartJob, OutIsRight, Living, CellIsRight, CancelIsRight
<1>3. CASE Invalid(j)
  <2>1. thread' \in [Job -> [at : At, out : Out]]
        /\ thread'[j].at = "ending" /\ thread'[j].out = "failed"
    BY <1>3, GoesOn DEF Invalid, At, Out
  <2> QED
    BY <1>3, <2>1 DEF Invalid, OutIsRight, Living, CellIsRight, CancelIsRight
<1> QED
  BY <1>2, <1>3

LEMMA PackKeeps ==
  ASSUME IInv, NEW j \in Job, Pack(j)
  PROVE  Kept(j)
<1> USE DEF IInv, TableTypeOK, JobIsRight, Kept
<1>1. CASE cell[j].cancel
  <2>1. thread' \in [Job -> [at : At, out : Out]]
        /\ thread'[j].at = "ending" /\ thread'[j].out = "cancelled"
    BY <1>1, GoesOn DEF Pack, At, Out
  <2> QED
    BY <1>1, <2>1 DEF Pack, OutIsRight, Living, CellIsRight, CancelIsRight
<1>2. CASE ~ cell[j].cancel
  <2>1. PICK n \in 0 .. Candidates :
          /\ cell' = [cell EXCEPT ![j] = Started(n)]
          /\ work' = [work EXCEPT ![j] = [k \in Worker |-> IF k <= n THEN "ready" ELSE "none"]]
          /\ Goes(j, "working", "none")
    BY <1>2 DEF Pack
  <2>2. /\ thread[j].at = "queued" /\ UNCHANGED <<jobs, cancel, poll>>
        /\ thread' \in [Job -> [at : At, out : Out]]
        /\ thread'[j].at = "working" /\ thread'[j].out = "none"
    BY <2>1, GoesOn DEF Pack, At, Out
  <2>3. Started(n) \in Cell /\ Started(n).done = 0 /\ Started(n).total = n
        /\ Started(n).phase = "Generating" /\ Started(n).cancel = FALSE
    BY DEF Started, Cell, Phase
  <2>4. cell' \in [Job -> Cell] /\ cell'[j] = Started(n)
    BY <2>1, <2>3
  <2>5. work' \in [Job -> [Worker -> Place]]
    BY <2>1 DEF Place
  <2>6. CountIsRight(j)'
    <3>1. EndedOf(j)' = {}
      BY <2>1 DEF EndedOf, Ended
    <3> QED
      BY <2>1, <2>3, <2>4, <3>1, FS_EmptySet DEF CountIsRight
  <2> QED
    BY <1>2, <2>2, <2>3, <2>4, <2>5, <2>6 DEF OutIsRight, Living, CellIsRight, CancelIsRight
<1> QED
  BY <1>1, <1>2

LEMMA PhaseIsSet ==
  ASSUME NEW c \in Cell, NEW phase \in Phase
  PROVE  [c EXCEPT !.phase = phase] \in Cell
BY DEF Cell

LEMMA VerifyingKeeps ==
  ASSUME IInv, NEW j \in Job, NEW k \in Worker, BeginVerifying(j, k)
  PROVE  Kept(j)
<1> USE DEF IInv, TableTypeOK, JobIsRight, Kept
<1>1. /\ thread[j].at = "working" /\ work[j][k] = "ready" /\ ~ cell[j].cancel
      /\ work' = [work EXCEPT ![j][k] = "verifying"]
      /\ UNCHANGED <<jobs, thread, cancel, poll>>
  BY DEF BeginVerifying
<1>2. /\ cell' \in [Job -> Cell] /\ cell'[j].done = cell[j].done
      /\ cell'[j].total = cell[j].total /\ cell'[j].cancel = cell[j].cancel
      /\ cell'[j].phase = "Verifying"
  <2>1. cell[j].phase \notin Terminal
    BY <1>1 DEF CellIsRight, Terminal
  <2>2. cell' = [cell EXCEPT ![j].phase = "Verifying"]
    BY <2>1 DEF BeginVerifying
  <2>3. cell[j] \in Cell /\ "Verifying" \in Phase
    BY DEF Phase
  <2>4. [cell[j] EXCEPT !.phase = "Verifying"] \in Cell
    BY <2>3, PhaseIsSet
  <2> QED
    BY <2>2, <2>4 DEF Cell
<1>3. work' \in [Job -> [Worker -> Place]]
  BY <1>1 DEF Place
<1>4. CountIsRight(j)'
  <2>1. EndedOf(j)' = EndedOf(j)
    BY <1>1 DEF EndedOf, Ended
  <2> QED
    BY <1>1, <1>2, <2>1 DEF CountIsRight
<1> QED
  BY <1>1, <1>2, <1>3, <1>4 DEF OutIsRight, Living, CellIsRight, CancelIsRight

LEMMA Counted ==
  ASSUME Candidates \in Nat, NEW c \in Cell, c.done + 1 \in 0 .. c.total
  PROVE  /\ FinishOne(c) \in Cell
         /\ FinishOne(c).done = c.done + 1 /\ FinishOne(c).total = c.total
         /\ FinishOne(c).cancel = c.cancel /\ FinishOne(c).phase = c.phase
<1>1. /\ c.done \in 0 .. Candidates + 1 /\ c.total \in 0 .. Candidates
      /\ c.phase \in Phase /\ c.cancel \in BOOLEAN
  BY DEF Cell
<1>2. ~ (c.done + 1 > c.total) /\ c.done + 1 \in 0 .. Candidates + 1
  BY <1>1
<1>3. FinishOne(c) = [c EXCEPT !.done = c.done + 1, !.phase = c.phase]
  BY <1>2 DEF FinishOne
<1> QED
  BY <1>1, <1>2, <1>3 DEF Cell

(* One more worker ends: n counts those that have, all among the first t.  *)
LEMMA OneMore ==
  ASSUME NEW S, IsFiniteSet(S), NEW k, k \notin S, NEW t \in 0 .. Candidates,
         Candidates \in Nat, S \union {k} \in SUBSET Worker, S \union {k} \subseteq 1 .. t
  PROVE  /\ Cardinality(S \union {k}) = Cardinality(S) + 1
         /\ Cardinality(S) + 1 \in 0 .. t
<1>1. Cardinality(S \union {k}) = Cardinality(S) + 1
  BY FS_AddElement
<1>2. Cardinality(S \union {k}) \in 0 .. t
  BY WorkerIsFinite
<1> QED
  BY <1>1, <1>2

LEMMA EndWorkerKeeps ==
  ASSUME IInv, NEW j \in Job, NEW k \in Worker, EndWorker(j, k)
  PROVE  Kept(j)
<1> USE DEF IInv, TableTypeOK, JobIsRight, Kept
<1>1. PICK how \in Ended : work' = [work EXCEPT ![j][k] = how]
  BY DEF EndWorker, Endings, Ended
<1>2. /\ thread[j].at = "working" /\ work[j][k] \in {"ready", "verifying"}
      /\ cell' = [cell EXCEPT ![j] = FinishOne(cell[j])]
      /\ UNCHANGED <<jobs, thread, cancel, poll>>
  BY DEF EndWorker
<1>3. /\ cell[j] \in Cell /\ cell[j].total \in 0 .. Candidates
      /\ \A w \in Worker : work[j][w] # "none" => w <= cell[j].total
      /\ cell[j].done = Cardinality(EndedOf(j))
  BY <1>2 DEF Cell, CountIsRight
<1>4. k \notin EndedOf(j) /\ EndedOf(j)' = EndedOf(j) \union {k}
  BY <1>1, <1>2 DEF EndedOf, Ended
<1>5. EndedOf(j) \in SUBSET Worker /\ EndedOf(j) \union {k} \subseteq 1 .. cell[j].total
  BY <1>2, <1>3 DEF EndedOf, Ended, Worker
<1>6. IsFiniteSet(EndedOf(j))
  <2>1. IsFiniteSet(Worker)
    BY WorkerIsFinite
  <2> QED
    BY <1>5, <2>1, FS_Subset
<1>7. EndedOf(j) \union {k} \in SUBSET Worker
  BY <1>5
<1>8. /\ Cardinality(EndedOf(j)') = cell[j].done + 1
      /\ cell[j].done + 1 \in 0 .. cell[j].total
  <2>1. /\ Cardinality(EndedOf(j) \union {k}) = Cardinality(EndedOf(j)) + 1
        /\ Cardinality(EndedOf(j)) + 1 \in 0 .. cell[j].total
    BY <1>3, <1>4, <1>5, <1>6, <1>7, OneMore
  <2> QED
    BY <1>3, <1>4, <2>1
<1>9. /\ cell' \in [Job -> Cell] /\ cell'[j].done = cell[j].done + 1
      /\ cell'[j].total = cell[j].total /\ cell'[j].cancel = cell[j].cancel
      /\ cell'[j].phase = cell[j].phase
  BY <1>2, <1>3, <1>8, Counted
<1>10. work' \in [Job -> [Worker -> Place]]
  BY <1>1 DEF Place
<1>11. CountIsRight(j)'
  BY <1>1, <1>2, <1>3, <1>8, <1>9 DEF CountIsRight
<1> QED
  BY <1>2, <1>9, <1>10, <1>11 DEF OutIsRight, Living, CellIsRight, CancelIsRight

LEMMA GatherKeeps ==
  ASSUME IInv, NEW j \in Job, Gather(j)
  PROVE  Kept(j)
<1> USE DEF IInv, TableTypeOK, JobIsRight, Kept
<1>1. /\ thread[j].at = "working" /\ Goes(j, "ending", Gathered(j))
      /\ work' = [work EXCEPT ![j] = [k \in Worker |-> "none"]]
      /\ UNCHANGED <<jobs, cell, cancel, poll>>
  BY DEF Gather
<1>2. Gathered(j) \in {"value", "cancelled", "failed", "panicked"}
  BY DEF Gathered
<1>3. /\ thread' \in [Job -> [at : At, out : Out]]
      /\ thread'[j].at = "ending" /\ thread'[j].out = Gathered(j)
  <2>1. Gathered(j) \in Out
    BY <1>2 DEF Out
  <2> QED
    BY <1>1, <2>1, GoesOn DEF At
<1>4. work' \in [Job -> [Worker -> Place]]
  BY <1>1 DEF Place
<1> QED
  BY <1>1, <1>2, <1>3, <1>4 DEF OutIsRight, Living, CellIsRight, CancelIsRight

(* ProposalJobs::finish, for a job that has not ended.                     *)
LEMMA FinishedCell ==
  ASSUME NEW c \in Cell, NEW out \in {"value", "cancelled", "failed", "panicked"},
         c.cancel <=> c.phase = "Cancelled", c.phase \notin {"Finished", "Failed"}
  PROVE  LET d == Finished(c, PhaseOf(out))
         IN /\ d \in Cell
            /\ d.cancel <=> d.phase = "Cancelled"
            /\ c.cancel => d.cancel
            /\ d.phase \in Terminal
            /\ out = "value" /\ ~ c.cancel => d.phase = "Finished"
<1>1. PhaseOf(out) \in Terminal /\ (out = "value" => PhaseOf(out) = "Finished")
  BY DEF PhaseOf, Terminal
<1>2. c.done \in 0 .. Candidates + 1 /\ c.total \in 0 .. Candidates
      /\ c.phase \in Phase /\ c.cancel \in BOOLEAN
  BY DEF Cell
<1>3. CASE c.cancel
  <2>1. Finished(c, PhaseOf(out)) = [c EXCEPT !.cancel = TRUE, !.phase = "Cancelled"]
    BY <1>2, <1>3 DEF Finished
  <2> QED
    BY <1>2, <1>3, <2>1 DEF Cell, Phase, Terminal
<1>4. CASE ~ c.cancel /\ PhaseOf(out) = "Cancelled"
  <2>1. Finished(c, PhaseOf(out)) = [c EXCEPT !.cancel = TRUE, !.phase = "Cancelled"]
    BY <1>2, <1>4 DEF Finished
  <2> QED
    BY <1>1, <1>2, <1>4, <2>1 DEF Cell, Phase, Terminal
<1>5. CASE ~ c.cancel /\ PhaseOf(out) # "Cancelled"
  <2>1. c.phase \notin Terminal
    BY <1>5 DEF Terminal
  <2>2. Finished(c, PhaseOf(out)) = [c EXCEPT !.cancel = FALSE, !.phase = PhaseOf(out)]
    BY <1>2, <1>5, <2>1 DEF Finished
  <2> QED
    BY <1>1, <1>2, <1>5, <2>2 DEF Cell, Phase, Terminal
<1> QED
  BY <1>3, <1>4, <1>5

LEMMA CompleteKeeps ==
  ASSUME IInv, NEW j \in Job, Complete(j)
  PROVE  Kept(j)
<1> USE DEF IInv, TableTypeOK, JobIsRight, Kept
<1> DEFINE d == Finished(cell[j], PhaseOf(thread[j].out))
           out == Answer(thread[j].out, d.phase)
<1>1. /\ thread[j].at = "ending" /\ cell' = [cell EXCEPT ![j] = d]
      /\ Goes(j, "leaving", out)
      /\ UNCHANGED <<jobs, work, cancel, poll>>
  BY DEF Complete
<1>2. /\ d \in Cell /\ (d.cancel <=> d.phase = "Cancelled") /\ (cell[j].cancel => d.cancel)
      /\ d.phase \in Terminal
  <2>1. /\ thread[j].out \in {"value", "cancelled", "failed", "panicked"} /\ cell[j] \in Cell
        /\ cell[j].phase \notin {"Finished", "Failed"}
        /\ cell[j].cancel <=> cell[j].phase = "Cancelled"
    BY <1>1 DEF OutIsRight, CellIsRight
  <2> QED
    BY <2>1, FinishedCell
<1>3. out \in {"made", "error"} /\ (out = "made" => d.phase = "Finished")
  BY DEF Answer
<1> HIDE DEF d, out
<1>4. /\ thread' \in [Job -> [at : At, out : Out]]
      /\ thread'[j].at = "leaving" /\ thread'[j].out = out
  <2>1. out \in Out
    BY <1>3 DEF Out
  <2> QED
    BY <1>1, <2>1, GoesOn DEF At
<1>5. cell' \in [Job -> Cell] /\ cell'[j] = d
  BY <1>1, <1>2
<1> QED
  BY <1>1, <1>2, <1>3, <1>4, <1>5 DEF OutIsRight, Living, CellIsRight, CancelIsRight, Terminal

LEMMA PruneKeeps ==
  ASSUME IInv, NEW j \in Job, Prune(j)
  PROVE  Kept(j)
<1> USE DEF IInv, TableTypeOK, JobIsRight, Kept
<1>1. /\ thread[j].at = "leaving" /\ Goes(j, "answered", thread[j].out)
      /\ jobs' = jobs \ {j} /\ cell' = Dropped(j)
      /\ UNCHANGED <<work, cancel, poll>>
  BY DEF Prune
<1>2. /\ thread' \in [Job -> [at : At, out : Out]]
      /\ thread'[j].at = "answered" /\ thread'[j].out = thread[j].out
  BY <1>1, GoesOn DEF At
<1>3. NewCell \in Cell /\ NewCell.phase = "Queued" /\ NewCell.cancel = FALSE
  BY DEF NewCell, Cell, Phase
<1>4. CASE cancel[j] = "found"
  BY <1>1, <1>2, <1>4 DEF Dropped, OutIsRight, Living, CellIsRight, CancelIsRight
<1>5. CASE cancel[j] # "found"
  BY <1>1, <1>2, <1>3, <1>5 DEF Dropped, OutIsRight, Living, CellIsRight, CancelIsRight
<1> QED
  BY <1>4, <1>5

LEMMA NextIsRight == IInv /\ [TableNext]_tableVars => IInv'
<1> SUFFICES ASSUME IInv, [TableNext]_tableVars PROVE IInv'
  OBVIOUS
<1>1. ASSUME NEW j \in Job, ThreadStep(j) \/ CallStep(j) \/ TableCall(j)
      PROVE  IInv'
  <2>1. Kept(j)
    <3>1. CASE ThreadStep(j)
      BY <3>1, StartsKeep, PackKeeps, GatherKeeps, CompleteKeeps, PruneKeeps, VerifyingKeeps,
         EndWorkerKeeps DEF ThreadStep
    <3>2. CASE CallStep(j) \/ TableCall(j)
      BY <3>2, CancelsKeep, CallsKeep, ReadProgressKeeps DEF CallStep, TableCall
    <3> QED
      BY <1>1, <3>1, <3>2
  <2>2. ASSUME NEW i \in Job, i # j PROVE JobIsRight(i)'
    <3>1. JobIsRight(i)
      BY DEF IInv
    <3> QED
      BY <1>1, <2>2, <3>1, StepsAreApart, OthersAreRight
  <2> QED
    BY <2>1, <2>2 DEF IInv, Kept
<1>2. ASSUME UNCHANGED tableVars PROVE IInv'
  <2>1. TableTypeOK'
    BY <1>2 DEF tableVars, IInv, TableTypeOK
  <2>2. ASSUME NEW i \in Job PROVE JobIsRight(i)'
    <3>1. JobIsRight(i) /\ Apart(i, i)
      BY <1>2 DEF tableVars, IInv, Apart
    <3> QED
      BY <3>1, OthersAreRight
  <2> QED
    BY <2>1, <2>2 DEF IInv
<1> QED
  BY <1>1, <1>2 DEF TableNext

(* The invariant holds for any number of jobs and candidates.              *)
THEOREM TableInvariance ==
  ASSUME Candidates \in Nat
  PROVE  TableSpec => []IInv
<1>1. TableInit => IInv
  BY InitIsRight
<1>2. IInv /\ [TableNext]_tableVars => IInv'
  BY NextIsRight
<1> QED
  BY <1>1, <1>2, PTL DEF TableSpec

-----------------------------------------------------------------------------
(* TableHoldsTheLiving (commands.rs:1845): a job is in the table exactly as *)
(* long as its thread works on it; no way out leaves an entry behind.      *)
THEOREM TableKeepsNoDead ==
  ASSUME Candidates \in Nat
  PROVE  TableSpec => []TableHoldsTheLiving
<1>1. IInv => TableHoldsTheLiving
  BY DEF IInv, JobIsRight, Living, TableHoldsTheLiving
<1> QED
  BY <1>1, TableInvariance, PTL

(* A cell counts its workers, and there are not more than its total.       *)
CountsStayWithin ==
  \A j \in Job : thread[j].at = "working" => cell[j].done <= cell[j].total

LEMMA CountsWithinTotal == IInv => CountsStayWithin
<1> SUFFICES ASSUME IInv, NEW j \in Job, thread[j].at = "working"
             PROVE  cell[j].done <= cell[j].total
  BY DEF CountsStayWithin
<1>1. /\ CountIsRight(j) /\ cell[j].total \in 0 .. Candidates /\ Candidates \in Nat
      /\ work[j] \in [Worker -> Place]
  BY DEF IInv, JobIsRight, TableTypeOK, Cell
<1>2. EndedOf(j) \subseteq 1 .. cell[j].total /\ EndedOf(j) \subseteq Worker
  BY <1>1 DEF CountIsRight, EndedOf, Worker, Ended
<1>3. Cardinality(EndedOf(j)) \in 0 .. cell[j].total
  BY <1>1, <1>2, WorkerIsFinite
<1> QED
  BY <1>1, <1>3 DEF CountIsRight

(* NothingMadeIsLost (commands.rs:2133-2139): what the body of a job made  *)
(* is handed out unless the job was cancelled before; the count of its     *)
(* workers never makes a job fail.                                         *)
THEOREM WhatIsMadeIsHandedOut ==
  ASSUME Candidates \in Nat
  PROVE  TableSpec => NothingMadeIsLost
<1>1. ASSUME IInv, [TableNext]_tableVars, NEW j \in Job,
             thread[j].at = "ending", thread[j].out = "value", ~ cell[j].cancel,
             thread'[j] # thread[j]
      PROVE  thread'[j].out = "made"
  <2>1. JobIsRight(j) /\ TableTypeOK /\ Candidates \in Nat
    BY <1>1 DEF IInv
  <2>2. Complete(j)
    <3>1. PICK i \in Job : ThreadStep(i) \/ CallStep(i) \/ TableCall(i)
      BY <1>1 DEF TableNext, tableVars
    <3>2. i = j
      BY <1>1, <3>1, StepsAreApart DEF Apart
    <3>3. ~ (CallStep(j) \/ TableCall(j))
      BY <1>1 DEF CallStep, FindForCancel, CancelJob, TableCall, SendGenerate, SendCancel,
                  ReadProgress, TakeAnswer, TakeProgress
    <3> QED
      BY <1>1, <3>1, <3>2, <3>3 DEF ThreadStep, StartJob, Invalid, Pack, Gather, Prune,
                  BeginVerifying, EndWorker
  <2>3. Finished(cell[j], PhaseOf(thread[j].out)).phase = "Finished"
    BY <1>1, <2>1, FinishedCell DEF JobIsRight, CellIsRight, TableTypeOK
  <2>4. cell'[j].phase = "Finished"
    BY <2>1, <2>2, <2>3 DEF Complete, TableTypeOK
  <2> QED
    BY <1>1, <2>1, <2>2, <2>4 DEF Complete, Goes, Answer, TableTypeOK
<1>2. IInv /\ [TableNext]_tableVars =>
        [\A j \in Job : thread[j].at = "ending" /\ thread[j].out = "value" /\ ~ cell[j].cancel
                         /\ thread'[j] # thread[j] => thread'[j].out = "made"]_tableVars
  BY <1>1
<1> QED
  BY <1>2, TableInvariance, PTL DEF TableSpec, NothingMadeIsLost

-----------------------------------------------------------------------------
(* The contract.                                                           *)

LEMMA AnswerIsOf ==
  ASSUME NEW j \in Job
  PROVE  TableAnswer[j] = IF thread[j].at \in {"answered", "over"} THEN thread[j].out ELSE "none"
BY DEF TableAnswer

(* The answer and the cancellation of a job, before and after a step about *)
(* it.                                                                     *)
LEMMA StepKeepsContract ==
  ASSUME IInv, NEW j \in Job, ThreadStep(j) \/ CallStep(j) \/ TableCall(j)
  PROVE  TableContract!Next \/ UNCHANGED TableContract!vars
<1>0. JobIsRight(j) /\ TableTypeOK /\ JobIsRight(j)' /\ TableTypeOK'
  <2>1. IInv'
    BY NextIsRight DEF TableNext
  <2> QED
    BY <2>1 DEF IInv
<1>1. \A i \in Job \ {j} : thread'[i] = thread[i] /\ cancel'[i] = cancel[i]
  BY StepsAreApart DEF Apart
<1>2. CASE thread'[j] = thread[j] /\ cancel'[j] = cancel[j]
  BY <1>1, <1>2 DEF TableContract!vars, TableAnswer, Granted
<1>3. CASE CancelJob(j) /\ cell[j].phase \notin {"Finished", "Failed"}
  <2>1. thread' = thread /\ cancel' = [cancel EXCEPT ![j] = "granted"] /\ cancel[j] = "found"
    BY <1>3 DEF CancelJob
  <2>2. thread[j].out # "made"
    BY <1>0, <1>3, <2>1 DEF JobIsRight, CellIsRight, OutIsRight, Living
  <2>3. TableAnswer' = TableAnswer /\ Granted' = Granted \union {j}
    BY <1>0, <2>1 DEF TableAnswer, Granted, TableTypeOK
  <2>4. TableAnswer[j] # "made"
    BY <2>2, AnswerIsOf
  <2> QED
    BY <2>3, <2>4 DEF TableContract!Next, TableContract!Withdraw
<1>4. CASE Prune(j)
  <2>1. /\ thread' = [thread EXCEPT ![j] = [at |-> "answered", out |-> thread[j].out]]
        /\ thread[j].at = "leaving" /\ thread[j].out \in {"made", "error"}
        /\ cancel' = cancel
    BY <1>0, <1>4 DEF Prune, Goes, JobIsRight, OutIsRight
  <2>2. /\ TableAnswer[j] = "none" /\ Granted' = Granted
        /\ TableAnswer' = [TableAnswer EXCEPT ![j] = thread[j].out]
    BY <1>0, <2>1 DEF TableAnswer, Granted, TableTypeOK
  <2>3. thread[j].out = "made" => j \notin Granted
    BY <1>0, <2>1 DEF JobIsRight, CancelIsRight, Granted
  <2> QED
    BY <2>1, <2>2, <2>3 DEF TableContract!Next, TableContract!Deliver, TableContract!Refuse
<1>5. CASE TakeAnswer(j)
  <2>1. thread' = [thread EXCEPT ![j] = [at |-> "over", out |-> thread[j].out]]
        /\ thread[j].at = "answered" /\ cancel' = cancel
    BY <1>0, <1>5 DEF TakeAnswer, Goes
  <2>2. TableAnswer' = TableAnswer /\ Granted' = Granted
    BY <1>0, <2>1 DEF TableAnswer, Granted, TableTypeOK
  <2> QED
    BY <2>2 DEF TableContract!vars
<1>6. CASE /\ thread'[j].at \notin {"answered", "over"} /\ thread[j].at \notin {"answered", "over"}
           /\ cancel'[j] = cancel[j]
  <2>1. TableAnswer' = TableAnswer /\ Granted' = Granted
    BY <1>0, <1>1, <1>6 DEF TableAnswer, Granted
  <2> QED
    BY <2>1 DEF TableContract!vars
<1>7. CASE StartJob(j)
  <2>1. j \notin jobs
    BY <1>0, <1>7 DEF StartJob, JobIsRight, Living
  <2>2. thread[j].at = "sent" /\ Goes(j, "queued", "none") /\ cancel' = cancel
    BY <1>7, <2>1 DEF StartJob
  <2>3. thread'[j].at = "queued"
    BY <1>0, <2>2, GoesOn DEF At, Out
  <2> QED
    BY <1>6, <2>2, <2>3
<1>8. CASE Invalid(j) \/ Pack(j)
  <2>1. /\ thread[j].at = "queued" /\ cancel' = cancel
        /\ Goes(j, "ending", "failed") \/ Goes(j, "ending", "cancelled") \/ Goes(j, "working", "none")
    BY <1>8 DEF Invalid, Pack
  <2>2. thread'[j].at \in {"ending", "working"}
    BY <1>0, <2>1, GoesOn DEF At, Out
  <2> QED
    BY <1>6, <2>1, <2>2
<1>9. CASE Gather(j) \/ Complete(j)
  <2>1. /\ thread[j].at \in {"working", "ending"} /\ cancel' = cancel
        /\ \E at \in {"ending", "leaving"}, out \in Out : Goes(j, at, out)
    BY <1>9 DEF Gather, Gathered, Complete, Answer, Out
  <2>2. thread'[j].at \in {"ending", "leaving"}
    BY <1>0, <2>1, GoesOn DEF At
  <2> QED
    BY <1>6, <2>1, <2>2
<1>10. CASE \E k \in Worker : BeginVerifying(j, k) \/ EndWorker(j, k)
  BY <1>2, <1>10 DEF BeginVerifying, EndWorker
<1>11. CASE FindForCancel(j) \/ SendCancel(j)
  <2>1. thread' = thread /\ cancel[j] # "granted" /\ cancel'[j] # "granted"
    BY <1>0, <1>11 DEF FindForCancel, SendCancel, TableTypeOK
  <2>2. TableAnswer' = TableAnswer /\ Granted' = Granted
    BY <1>1, <2>1 DEF TableAnswer, Granted
  <2> QED
    BY <2>2 DEF TableContract!vars
<1>12. CASE CancelJob(j) /\ cell[j].phase \in {"Finished", "Failed"}
  <2>1. thread' = thread /\ cancel[j] # "granted" /\ cancel'[j] # "granted"
    BY <1>0, <1>12 DEF CancelJob, TableTypeOK
  <2>2. TableAnswer' = TableAnswer /\ Granted' = Granted
    BY <1>1, <2>1 DEF TableAnswer, Granted
  <2> QED
    BY <2>2 DEF TableContract!vars
<1>13. CASE SendGenerate(j)
  <2>1. thread[j].at = "idle" /\ thread'[j].at = "sent" /\ cancel' = cancel
    BY <1>0, <1>13 DEF SendGenerate, TableTypeOK
  <2> QED
    BY <1>6, <2>1
<1>14. CASE ReadProgress(j) \/ TakeProgress(j)
  BY <1>2, <1>14 DEF ReadProgress, TakeProgress
<1> QED
  BY <1>3, <1>4, <1>5, <1>7, <1>8, <1>9, <1>10, <1>11, <1>12, <1>13, <1>14
  DEF ThreadStep, CallStep, TableCall

(* TableContract (commands.rs:1934-1937, 1786-1821): of the candidates and *)
(* the cancellation of a job only one is ever handed out, and the call of  *)
(* a job is answered once.                                                 *)
THEOREM TableKeepsContract ==
  ASSUME Candidates \in Nat
  PROVE  TableSpec => TableContract!Spec
<1>1. TableInit => TableContract!Init
  BY DEF TableInit, TableContract!Init, TableAnswer, Granted
<1>2. IInv /\ [TableNext]_tableVars => [TableContract!Next]_(TableContract!vars)
  <2>1. ASSUME UNCHANGED tableVars PROVE UNCHANGED TableContract!vars
    BY <2>1 DEF tableVars, TableContract!vars, TableAnswer, Granted
  <2> QED
    BY <2>1, StepKeepsContract DEF TableNext
<1> QED
  BY <1>1, <1>2, TableInvariance, PTL DEF TableSpec, TableContract!Spec
=============================================================================
