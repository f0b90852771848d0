----------------------------- MODULE JobWorkers -----------------------------
(***************************************************************************)
(* The calculations of proposals in the browser: the registry on the main  *)
(* thread (proposalJobRegistry.ts), which keeps one worker per job and     *)
(* answers progress and cancellation by itself, and the worker             *)
(* (proposal.worker.ts), whose messages arrive in the order they were sent.*)
(* A worker that was terminated is not heard any more.                     *)
(***************************************************************************)
EXTENDS Naturals, Sequences

CONSTANTS
  Job,          \* the ids of jobs
  Candidates    \* at most so many candidates per job

VARIABLES
  session,    \* sessions: "none", "starting", "ready", or "gone" after its end
  snapshot,   \* snapshots: the progress last heard, for a job with a session
  reply,      \* how the call of a job was answered
  stopped,    \* the jobs whose cancellation was granted
  worker,     \* how far the worker of each job is
  mail        \* the messages on their way from each worker

workersVars == <<session, snapshot, reply, stopped, worker, mail>>

-----------------------------------------------------------------------------
Rank == [Queued |-> 0, Generating |-> 1, Verifying |-> 2]

Progress(done, total, phase) == [done |-> done, total |-> total, phase |-> phase]

Unheard == Progress(0, 0, "Queued")

(* A message; `progress' is what it says, if it is about progress.         *)
Message(type) == [type |-> type, progress |-> Unheard]

ProgressMessage(w) == [type |-> "progress", progress |-> Progress(w.done, w.total, w.phase)]

NoWorker == [at |-> "none", done |-> 0, total |-> 0, phase |-> "Generating", made |-> FALSE]

WorkersTypeOK ==
  LET Heard == [done : 0 .. Candidates, total : 0 .. Candidates, phase : DOMAIN Rank]
  IN /\ session \in [Job -> {"none", "starting", "ready", "gone"}]
     /\ snapshot \in [Job -> Heard]
     /\ reply \in [Job -> {"none", "made", "error"}]
     /\ stopped \subseteq Job
     /\ worker \in [Job -> [at : {"none", "loading", "idle", "generating",
                                  "verifying", "over"},
                            done : 0 .. Candidates, total : 0 .. Candidates,
                            phase : DOMAIN Rank, made : BOOLEAN]]
     /\ mail \in [Job -> Seq([type : {"ready", "broken", "progress", "made", "error"},
                              progress : Heard])]

WorkersInit ==
  /\ session = [j \in Job |-> "none"]
  /\ snapshot = [j \in Job |-> Unheard]
  /\ reply = [j \in Job |-> "none"]
  /\ stopped = {}
  /\ worker = [j \in Job |-> NoWorker]
  /\ mail = [j \in Job |-> << >>]

Alive(j) == session[j] \in {"starting", "ready"}

-----------------------------------------------------------------------------
(* failSession and completeSession: the worker is terminated, the session  *)
(* and its progress are dropped, and the call is answered.                 *)
End(j, answer) ==
  /\ session' = [session EXCEPT ![j] = "gone"]
  /\ snapshot' = [snapshot EXCEPT ![j] = Unheard]
  /\ reply' = [reply EXCEPT ![j] = answer]
  /\ worker' = [worker EXCEPT ![j] = NoWorker]
  /\ mail' = [mail EXCEPT ![j] = << >>]

Fail(j) == End(j, "error") /\ UNCHANGED stopped

(* proposal_generate, until it waits for the worker to be ready.           *)
OpenSession(j) ==
  /\ session[j] = "none"
  /\ session' = [session EXCEPT ![j] = "starting"]
  /\ worker' = [worker EXCEPT ![j].at = "loading"]
  /\ UNCHANGED <<snapshot, reply, stopped, mail>>

(* Mutant: a cancelled worker works on until it is done.                   *)
CancelSessionLater(j) ==
  /\ Alive(j)
  /\ stopped' = stopped \union {j}
  /\ UNCHANGED <<session, snapshot, reply, worker, mail>>

(* proposal_control: the call itself is answered first, as cancelled.      *)
CancelSession(j) ==
  /\ Alive(j)
  /\ stopped' = stopped \union {j}
  /\ End(j, "error")

(* The worker was not ready in time, or it fell over.                      *)
ReadyTimeout(j) == session[j] = "starting" /\ Fail(j)

WorkerError(j) == Alive(j) /\ Fail(j)

-----------------------------------------------------------------------------
(* receiveMessage, by the type of the message.                             *)
Arrives(j, type) == Alive(j) /\ mail[j] # << >> /\ Head(mail[j]).type = type

(* The worker is ready, and the request is posted to it.                   *)
HearReady(j) ==
  /\ Arrives(j, "ready")
  /\ session' = [session EXCEPT ![j] = "ready"]
  /\ mail' = [mail EXCEPT ![j] = Tail(@)]
  /\ UNCHANGED <<snapshot, reply, stopped, worker>>

HearBroken(j) == Arrives(j, "broken") /\ Fail(j)

(* Mutant: every step of progress must be one more candidate.              *)
FollowsByOne(p, q) ==
  IF p.phase = "Queued" THEN q.done = 0 /\ q.phase = "Generating"
  ELSE q.total = p.total /\ q.done = p.done + 1 /\ Rank[q.phase] >= Rank[p.phase]

(* followsProgress: from p the progress may go on to q.                    *)
Follows(p, q) ==
  /\ q.done \in {p.done, p.done + 1} /\ q.done <= q.total
  /\ Rank[q.phase] >= Rank[p.phase]
  /\ IF p.phase = "Queued"
     THEN p.done = 0 /\ p.total = 0 /\ q.phase = "Generating" /\ q.done = 0
     ELSE q.total = p.total

HearProgress(j) ==
  /\ Arrives(j, "progress")
  /\ IF Follows(snapshot[j], Head(mail[j]).progress)
     THEN /\ snapshot' = [snapshot EXCEPT ![j] = Head(mail[j]).progress]
          /\ mail' = [mail EXCEPT ![j] = Tail(@)]
          /\ UNCHANGED <<session, reply, stopped, worker>>
     ELSE Fail(j)

HearMade(j) == Arrives(j, "made") /\ End(j, "made") /\ UNCHANGED stopped

HearError(j) == Arrives(j, "error") /\ Fail(j)

-----------------------------------------------------------------------------
(* The worker.  It posts its messages w as it goes from one call of the    *)
(* core to the next.                                                       *)
Goes(j, w, messages) ==
  /\ worker' = [worker EXCEPT ![j] = w]
  /\ mail' = [mail EXCEPT ![j] = @ \o messages]
  /\ UNCHANGED <<session, snapshot, reply, stopped>>

GivesUp(j) == Goes(j, [worker[j] EXCEPT !.at = "over"], <<Message("error")>>)

Load(j) ==
  /\ worker[j].at = "loading"
  /\ \/ Goes(j, [worker[j] EXCEPT !.at = "idle"], <<Message("ready")>>)
     \/ Goes(j, [worker[j] EXCEPT !.at = "over"], <<Message("broken")>>)

(* __web_proposal_prepare: the ways to pack the skeleton, or an error.     *)
Prepare(j) ==
  /\ worker[j].at = "idle" /\ session[j] = "ready"
  /\ \/ GivesUp(j)
     \/ \E n \in 0 .. Candidates :
          LET w == [worker[j] EXCEPT !.at = "generating", !.total = n]
          IN Goes(j, w, <<ProgressMessage(w)>>)

(* __web_proposal_generate_candidate: a crease pattern, for which a way to *)
(* fold is looked for next; none, which counts as done; or an error.       *)
GenerateCandidate(j) ==
  /\ worker[j].at = "generating" /\ worker[j].done < worker[j].total
  /\ \/ LET w == [worker[j] EXCEPT !.at = "verifying", !.phase = "Verifying"]
        IN Goes(j, w, IF worker[j].phase = "Generating" THEN <<ProgressMessage(w)>> ELSE << >>)
     \/ LET w == [worker[j] EXCEPT !.done = @ + 1]
        IN Goes(j, w, <<ProgressMessage(w)>>)
     \/ GivesUp(j)

(* __web_proposal_verify_candidate: a candidate, or the time is over.      *)
VerifyCandidate(j) ==
  /\ worker[j].at = "verifying"
  /\ \/ LET w == [worker[j] EXCEPT !.at = "generating", !.done = @ + 1, !.made = TRUE]
        IN Goes(j, w, <<ProgressMessage(w)>>)
     \/ GivesUp(j)

HandOut(j) ==
  /\ worker[j].at = "generating" /\ worker[j].done = worker[j].total
  /\ Goes(j, [worker[j] EXCEPT !.at = "over"],
          <<Message(IF worker[j].made THEN "made" ELSE "error")>>)

Computes(j) == Prepare(j) \/ GenerateCandidate(j) \/ VerifyCandidate(j) \/ HandOut(j)

Hear(j) == HearReady(j) \/ HearBroken(j) \/ HearProgress(j) \/ HearMade(j) \/ HearError(j)

WorkersStep(j) == Load(j) \/ Computes(j) \/ Hear(j) \/ ReadyTimeout(j) \/ WorkerError(j)

WorkersSpec ==
  WorkersInit /\ [][\E j \in Job : OpenSession(j) \/ CancelSession(j) \/ WorkersStep(j)]_workersVars

-----------------------------------------------------------------------------
(* The registry keeps the contract: a job is answered once, and after its  *)
(* cancellation never with candidates.                                     *)
WorkersContract == INSTANCE JobContract WITH answer <- reply, withdrawn <- stopped

(* proposalJobRegistry.ts:246-262: what the worker says of its progress is  *)
(* never taken for the nonsense of a broken one, which would end the job.  *)
ProgressIsAccepted ==
  \A j \in Job : Arrives(j, "progress") => Follows(snapshot[j], Head(mail[j]).progress)
=============================================================================
