-------------------------- MODULE JobWorkersProofs --------------------------
(***************************************************************************)
(* Proofs about JobWorkers, for any ids of jobs and any number of          *)
(* candidates.                                                             *)
(***************************************************************************)
EXTENDS JobWorkers, SequenceTheorems, TLAPS

-----------------------------------------------------------------------------
(* Chains of progress.                                                     *)
Heard == [done : 0 .. Candidates, total : 0 .. Candidates, phase : {"Queued", "Generating", "Verifying"}]
Mail == [type : {"ready", "broken", "progress", "made", "error"}, progress : Heard]
WorkerRecord == [at : {"none", "loading", "idle", "generating", "verifying", "over"},
                 done : 0 .. Candidates, total : 0 .. Candidates,
                 phase : {"Queued", "Generating", "Verifying"}, made : BOOLEAN]

(* What was said before the i-th message of m, if s was heard last.        *)
Before(s, m, i) == IF i = 1 THEN s ELSE m[i - 1].progress

(* The messages on their way follow what was heard last and each other,    *)
(* and what is no progress comes after all that is.                        *)
Chain(s, m) ==
  \A i \in 1 .. Len(m) : m[i].type = "progress" =>
    /\ Follows(Before(s, m, i), m[i].progress)
    /\ i > 1 => m[i - 1].type = "progress"

(* What will have been heard in the end.                                   *)
Reported(s, m) == IF m = << >> THEN s ELSE m[Len(m)].progress

AllProgress(m) == \A i \in 1 .. Len(m) : m[i].type = "progress"

LEMMA Ranks ==
  /\ DOMAIN Rank = {"Queued", "Generating", "Verifying"}
  /\ Rank["Queued"] = 0 /\ Rank["Generating"] = 1 /\ Rank["Verifying"] = 2
BY DEF Rank

LEMMA LenZero == ASSUME NEW t \in Seq(Mail) PROVE t = << >> <=> Len(t) = 0
  OBVIOUS

(* The registry takes the next message; the rest is still a chain.         *)
LEMMA ChainTail ==
  ASSUME NEW s, NEW m \in Seq(Mail), m # << >>, Chain(s, m), Head(m).type = "progress"
  PROVE  /\ Chain(Head(m).progress, Tail(m))
         /\ Reported(Head(m).progress, Tail(m)) = Reported(s, m)
<1> DEFINE t == Tail(m)
<1>1. Head(m) = m[1] /\ Len(t) = Len(m) - 1 /\ Len(m) \in Nat \ {0} /\ t \in Seq(Mail)
  OBVIOUS
<1>2. \A i \in 1 .. Len(t) : t[i] = m[i + 1]
  OBVIOUS
<1> HIDE DEF t
<1>3. ASSUME NEW i \in 1 .. Len(t), t[i].type = "progress"
      PROVE  /\ Follows(Before(Head(m).progress, t, i), t[i].progress)
             /\ i > 1 => t[i - 1].type = "progress"
  <2>1. i + 1 \in 1 .. Len(m) /\ m[i + 1].type = "progress"
    BY <1>1, <1>2, <1>3
  <2>2. Follows(Before(s, m, i + 1), m[i + 1].progress) /\ m[i + 1 - 1].type = "progress"
    BY <2>1 DEF Chain
  <2>3. Before(s, m, i + 1) = Before(Head(m).progress, t, i)
    BY <1>1, <1>2 DEF Before
  <2>4. i > 1 => t[i - 1] = m[i]
    BY <1>1, <1>2
  <2> QED
    BY <1>2, <2>2, <2>3, <2>4
<1>4. Chain(Head(m).progress, t)
  BY <1>3 DEF Chain
<1>5. Reported(Head(m).progress, t) = Reported(s, m)
  <2>1. CASE Len(m) = 1
    <3>1. t = << >>
      BY <1>1, <2>1, LenZero
    <3> QED
      BY <1>1, <2>1, <3>1 DEF Reported
  <2>2. CASE Len(m) # 1
    <3>1. t # << >> /\ Len(t) \in 1 .. Len(t)
      BY <1>1, <2>2, LenZero
    <3>2. t[Len(t)] = m[Len(m)]
      BY <1>1, <1>2, <3>1
    <3> QED
      BY <3>1, <3>2 DEF Reported
  <2> QED
    BY <2>1, <2>2
<1> QED
  BY <1>4, <1>5 DEF t

(* The worker posts progress that follows what it said last.               *)
LEMMA ChainGrows ==
  ASSUME NEW s, NEW m \in Seq(Mail), NEW x \in Mail, Chain(s, m), AllProgress(m),
         x.type = "progress" => Follows(Reported(s, m), x.progress)
  PROVE  /\ Chain(s, m \o <<x>>)
         /\ Reported(s, m \o <<x>>) = x.progress
         /\ x.type = "progress" => AllProgress(m \o <<x>>)
<1> DEFINE n == m \o <<x>>
<1>1. n \in Seq(Mail) /\ Len(n) = Len(m) + 1 /\ n[Len(m) + 1] = x /\ Len(m) \in Nat
  OBVIOUS
<1>2. \A i \in 1 .. Len(m) : n[i] = m[i]
  OBVIOUS
<1> HIDE DEF n
<1>3. ASSUME NEW i \in 1 .. Len(n), n[i].type = "progress"
      PROVE  Follows(Before(s, n, i), n[i].progress) /\ (i > 1 => n[i - 1].type = "progress")
  <2>1. CASE i \in 1 .. Len(m)
    <3>1. Before(s, n, i) = Before(s, m, i)
      BY <1>1, <1>2, <2>1 DEF Before
    <3>2. i > 1 => n[i - 1] = m[i - 1]
      BY <1>1, <1>2, <2>1
    <3> QED
      BY <1>2, <1>3, <2>1, <3>1, <3>2 DEF Chain
  <2>2. CASE i = Len(m) + 1
    <3>1. n[i] = x
      BY <1>1, <2>2
    <3>2. i > 1 => n[i - 1] = m[Len(m)] /\ m[Len(m)].type = "progress"
      BY <1>1, <1>2, <2>2 DEF AllProgress
    <3>3. m = << >> <=> Len(m) = 0
      BY LenZero
    <3>4. Before(s, n, i) = Reported(s, m)
      BY <1>1, <2>2, <3>2, <3>3 DEF Before, Reported
    <3> QED
      BY <1>3, <3>1, <3>2, <3>4
  <2> QED
    BY <1>1, <2>1, <2>2
<1>4. Chain(s, n)
  BY <1>3 DEF Chain
<1>5. Reported(s, n) = x.progress
  BY <1>1 DEF Reported
<1>6. x.type = "progress" => AllProgress(n)
  BY <1>1, <1>2 DEF AllProgress
<1> QED
  BY <1>4, <1>5, <1>6 DEF n

-----------------------------------------------------------------------------
(* The inductive invariant.                                                *)

(* How the session se of a job, the progress sn heard of it, its worker w  *)
(* and the messages m on their way go together.                            *)
Consistent(se, sn, w, m) ==
  /\ w.at = "none" => se \in {"none", "gone"} /\ m = << >> /\ sn = Unheard /\ w = NoWorker
  /\ w.at \in {"loading", "idle"} => sn = Unheard /\ w.done = 0 /\ w.phase = "Generating"
  /\ w.at = "loading" => se = "starting" /\ m = << >>
  /\ w.at = "idle" => \/ se = "starting" /\ m = <<Message("ready")>>
                      \/ se = "ready" /\ m = << >>
  /\ w.at \in {"generating", "verifying"} =>
       /\ se = "ready" /\ w.done <= w.total /\ w.phase \in {"Generating", "Verifying"}
       /\ AllProgress(m) /\ Reported(sn, m) = Progress(w.done, w.total, w.phase)
  /\ w.at = "verifying" => w.done < w.total /\ w.phase = "Verifying"
  /\ w.at = "over" => /\ se \in {"starting", "ready"}
                      /\ \A i \in 1 .. Len(m) : m[i].type # "ready"
  /\ Chain(sn, m)

(* A job is answered as its session ends, and one that was withdrawn with  *)
(* an error.                                                               *)
Answered(se, r, out) ==
  /\ se # "gone" => r = "none" /\ ~ out
  /\ se = "gone" => r # "none" /\ (out => r = "error")

JobIsRight(j) ==
  /\ Consistent(session[j], snapshot[j], worker[j], mail[j])
  /\ Answered(session[j], reply[j], j \in stopped)

IInv ==
  /\ Candidates \in Nat
  /\ WorkersTypeOK
  /\ \A j \in Job : JobIsRight(j)

LEMMA ChainEmpty == ASSUME NEW s PROVE Chain(s, << >>)
BY DEF Chain

LEMMA Types ==
  WorkersTypeOK <=> /\ session \in [Job -> {"none", "starting", "ready", "gone"}]
                    /\ snapshot \in [Job -> Heard]
                    /\ reply \in [Job -> {"none", "made", "error"}]
                    /\ stopped \subseteq Job
                    /\ worker \in [Job -> WorkerRecord]
                    /\ mail \in [Job -> Seq(Mail)]
BY Ranks DEF WorkersTypeOK, Heard, WorkerRecord, Mail

LEMMA InitIsRight == Candidates \in Nat /\ WorkersInit => IInv
<1> SUFFICES ASSUME Candidates \in Nat, WorkersInit PROVE IInv
  OBVIOUS
<1>1. Unheard \in Heard /\ NoWorker \in WorkerRecord
  BY DEF Unheard, Progress, Heard, NoWorker, WorkerRecord
<1>2. WorkersTypeOK
  BY <1>1, Types DEF WorkersInit
<1>3. ASSUME NEW j \in Job PROVE JobIsRight(j)
  BY <1>3, ChainEmpty DEF WorkersInit, JobIsRight, Consistent, Answered, NoWorker
<1> QED
  BY <1>2, <1>3 DEF IInv

(* A step changes the entries of job j to these.                           *)
Becomes(j, se, sn, r, w, m) ==
  /\ session' = [session EXCEPT ![j] = se] /\ snapshot' = [snapshot EXCEPT ![j] = sn]
  /\ reply' = [reply EXCEPT ![j] = r] /\ worker' = [worker EXCEPT ![j] = w]
  /\ mail' = [mail EXCEPT ![j] = m] /\ stopped' \in {stopped, stopped \union {j}}

(* A step is about one job, so that it is enough to look at that one.      *)
LEMMA OneJob ==
  ASSUME IInv, NEW j \in Job,
         NEW se \in {"none", "starting", "ready", "gone"}, NEW sn \in Heard,
         NEW r \in {"none", "made", "error"}, NEW w \in WorkerRecord, NEW m \in Seq(Mail),
         Becomes(j, se, sn, r, w, m),
         Consistent(se, sn, w, m), Answered(se, r, j \in stopped')
  PROVE  IInv'
<1>1. WorkersTypeOK
  BY DEF IInv
<1>2. /\ session' \in [Job -> {"none", "starting", "ready", "gone"}]
      /\ snapshot' \in [Job -> Heard] /\ reply' \in [Job -> {"none", "made", "error"}]
      /\ stopped' \subseteq Job
      /\ worker' \in [Job -> WorkerRecord] /\ mail' \in [Job -> Seq(Mail)]
  BY <1>1, Types DEF Becomes
<1>3. WorkersTypeOK'
  BY <1>2, Ranks DEF WorkersTypeOK, Heard, WorkerRecord, Mail
<1>4. ASSUME NEW i \in Job PROVE JobIsRight(i)'
  <2>1. CASE i = j
    <3>1. /\ session'[j] = se /\ snapshot'[j] = sn /\ reply'[j] = r
          /\ worker'[j] = w /\ mail'[j] = m
      BY <1>1, Types DEF Becomes
    <3> QED
      BY <2>1, <3>1 DEF JobIsRight, Answered, Consistent
  <2>2. CASE i # j
    <3>1. /\ session'[i] = session[i] /\ snapshot'[i] = snapshot[i] /\ reply'[i] = reply[i]
          /\ worker'[i] = worker[i] /\ mail'[i] = mail[i]
          /\ i \in stopped' <=> i \in stopped
      BY <1>1, <2>2, Types DEF Becomes
    <3>2. JobIsRight(i)
      BY DEF IInv
    <3>3. Consistent(session[i], snapshot[i], worker[i], mail[i])'
      BY <3>1, <3>2 DEF JobIsRight
    <3> QED
      BY <3>1, <3>2, <3>3 DEF JobIsRight, Answered
  <2> QED
    BY <2>1, <2>2
<1> QED
  BY <1>3, <1>4 DEF IInv

-----------------------------------------------------------------------------
(* The steps.                                                              *)
LEMMA Known ==
  ASSUME IInv, NEW j \in Job
  PROVE  /\ Candidates \in Nat
         /\ session[j] \in {"none", "starting", "ready", "gone"}
         /\ snapshot[j] \in Heard
         /\ reply[j] \in {"none", "made", "error"}
         /\ worker[j] \in WorkerRecord /\ mail[j] \in Seq(Mail)
         /\ Consistent(session[j], snapshot[j], worker[j], mail[j])
         /\ Answered(session[j], reply[j], j \in stopped)
BY Types DEF IInv, JobIsRight

LEMMA Blank == ASSUME Candidates \in Nat
               PROVE  Unheard \in Heard /\ NoWorker \in WorkerRecord /\ << >> \in Seq(Mail)
BY DEF Unheard, Progress, Heard, NoWorker, WorkerRecord

(* A session ends: worker, progress and messages are gone.                 *)
LEMMA Ends ==
  ASSUME IInv, NEW j \in Job, NEW a \in {"made", "error"}, End(j, a),
         stopped' \in {stopped, stopped \union {j}}, j \in stopped' => a = "error"
  PROVE  IInv'
<1>1. Unheard \in Heard /\ NoWorker \in WorkerRecord /\ << >> \in Seq(Mail)
  BY Known, Blank
<1>2. Consistent("gone", Unheard, NoWorker, << >>)
  BY ChainEmpty DEF Consistent, NoWorker
<1>3. Answered("gone", a, j \in stopped')
  BY DEF Answered
<1> QED
  BY <1>1, <1>2, <1>3, OneJob DEF End, Becomes

LEMMA Fails == ASSUME IInv, NEW j \in Job, Fail(j), j \notin stopped PROVE IInv'
BY Ends DEF Fail

LEMMA LivingNotStopped ==
  ASSUME IInv, NEW j \in Job, Alive(j) PROVE j \notin stopped /\ reply[j] = "none"
BY Known DEF Alive, Answered

(* A worker goes on and posts messages.                                    *)
LEMMA GoesOn ==
  ASSUME IInv, NEW j \in Job, NEW w \in WorkerRecord, NEW ms \in Seq(Mail), Goes(j, w, ms),
         Consistent(session[j], snapshot[j], w, mail[j] \o ms)
  PROVE  IInv'
<1> DEFINE m == mail[j] \o ms
<1>1. Becomes(j, session[j], snapshot[j], reply[j], w, m) /\ stopped' = stopped
  BY Types DEF Goes, IInv, Becomes
<1>2. m \in Seq(Mail)
  BY Known
<1>3. Answered(session[j], reply[j], j \in stopped')
  BY <1>1, Known
<1>4. /\ session[j] \in {"none", "starting", "ready", "gone"} /\ snapshot[j] \in Heard
      /\ reply[j] \in {"none", "made", "error"}
  BY Known
<1> HIDE DEF m
<1> QED
  BY <1>1, <1>2, <1>3, <1>4, OneJob DEF m

LEMMA Opens == ASSUME IInv, NEW j \in Job, OpenSession(j) PROVE IInv'
<1> DEFINE w == [worker[j] EXCEPT !.at = "loading"]
<1>1. session[j] = "none" /\ worker[j].at = "none"
  BY Known DEF OpenSession, Consistent, WorkerRecord
<1>2. worker[j] = NoWorker /\ mail[j] = << >> /\ snapshot[j] = Unheard
  BY <1>1, Known DEF Consistent
<1>3. w \in WorkerRecord
  BY Known DEF WorkerRecord
<1>4. Consistent("starting", Unheard, w, << >>)
  BY <1>2, ChainEmpty DEF Consistent, NoWorker
<1>5. Answered("starting", reply[j], j \in stopped)
  BY <1>1, Known DEF Answered
<1>6. /\ session' = [session EXCEPT ![j] = "starting"]
      /\ snapshot' = [snapshot EXCEPT ![j] = Unheard]
      /\ reply' = [reply EXCEPT ![j] = reply[j]]
      /\ worker' = [worker EXCEPT ![j] = w]
      /\ mail' = [mail EXCEPT ![j] = << >>]
      /\ stopped' = stopped
  BY <1>2, Types DEF OpenSession, IInv
<1> QED
  BY <1>3, <1>4, <1>5, <1>6, Known, Blank, OneJob DEF Becomes

(* Messages of the worker.                                                 *)
LEMMA Messages ==
  ASSUME Candidates \in Nat
  PROVE  /\ \A type \in {"ready", "broken", "made", "error"} :
              Message(type) \in Mail /\ Message(type).type = type
         /\ \A w \in WorkerRecord :
              /\ ProgressMessage(w) \in Mail /\ ProgressMessage(w).type = "progress"
              /\ ProgressMessage(w).progress = Progress(w.done, w.total, w.phase)
BY DEF Message, Mail, ProgressMessage, Progress, Unheard, Heard, WorkerRecord

(* The worker's last word, after which it is over.                         *)
LEMMA LastWord ==
  ASSUME IInv, NEW j \in Job, NEW type \in {"made", "error"},
         Goes(j, [worker[j] EXCEPT !.at = "over"], <<Message(type)>>),
         session[j] = "ready", AllProgress(mail[j])
  PROVE  IInv'
<1> DEFINE w == [worker[j] EXCEPT !.at = "over"]
           x == Message(type)
<1>1. w \in WorkerRecord /\ w.at = "over"
  BY Known DEF WorkerRecord
<1>2. x \in Mail /\ x.type = type
  BY Known, Messages
<1>3. Chain(snapshot[j], mail[j])
  BY Known DEF Consistent
<1>4. Chain(snapshot[j], mail[j] \o <<x>>)
  BY <1>2, <1>3, Known, ChainGrows
<1>5. \A i \in 1 .. Len(mail[j] \o <<x>>) : (mail[j] \o <<x>>)[i].type # "ready"
  BY <1>2, Known DEF AllProgress
<1>6. Consistent("ready", snapshot[j], w, mail[j] \o <<x>>)
  BY <1>1, <1>4, <1>5 DEF Consistent
<1>7. <<x>> \in Seq(Mail)
  BY <1>2
<1> QED
  BY <1>1, <1>6, <1>7, GoesOn

(* The worker's word about its progress, by which it goes on.              *)
LEMMA Says ==
  ASSUME IInv, NEW j \in Job, NEW w \in WorkerRecord, Goes(j, w, <<ProgressMessage(w)>>),
         session[j] = "ready", w.at \in {"generating", "verifying"},
         w.done <= w.total, w.phase \in {"Generating", "Verifying"},
         w.at = "verifying" => w.done < w.total /\ w.phase = "Verifying",
         AllProgress(mail[j]),
         Follows(Reported(snapshot[j], mail[j]), Progress(w.done, w.total, w.phase))
  PROVE  IInv'
<1> DEFINE x == ProgressMessage(w)
<1>1. x \in Mail /\ x.type = "progress" /\ x.progress = Progress(w.done, w.total, w.phase)
  BY Known, Messages
<1>2. Chain(snapshot[j], mail[j])
  BY Known DEF Consistent
<1>3. mail[j] \in Seq(Mail)
  BY Known
<1> DEFINE m == mail[j] \o <<x>>
<1> HIDE DEF x
<1>4. Chain(snapshot[j], m) /\ Reported(snapshot[j], m) = x.progress /\ AllProgress(m)
  BY <1>1, <1>2, <1>3, ChainGrows
<1> HIDE DEF m
<1>5. Consistent("ready", snapshot[j], w, m)
  BY <1>1, <1>4 DEF Consistent
<1>6. <<x>> \in Seq(Mail)
  BY <1>1
<1> QED
  BY <1>5, <1>6, GoesOn DEF m, x

LEMMA Loads == ASSUME IInv, NEW j \in Job, Load(j) PROVE IInv'
<1>1. worker[j].at = "loading" /\ worker[j] \in WorkerRecord
  BY Known DEF Load
<1>2. /\ session[j] = "starting" /\ mail[j] = << >> /\ snapshot[j] = Unheard
      /\ worker[j].done = 0 /\ worker[j].phase = "Generating"
  BY <1>1, Known DEF Consistent
<1>3. ASSUME NEW at \in {"idle", "over"}, NEW x \in Mail, x.type # "progress",
             Goes(j, [worker[j] EXCEPT !.at = at], <<x>>),
             at = "idle" => x = Message("ready"), at = "over" => x.type = "broken"
      PROVE  IInv'
  <2> DEFINE w == [worker[j] EXCEPT !.at = at]
  <2>1. w \in WorkerRecord /\ w.at = at /\ w.done = 0 /\ w.phase = "Generating"
    BY <1>1, <1>2 DEF WorkerRecord
  <2>2. AllProgress(<< >>) /\ << >> \in Seq(Mail)
    BY DEF AllProgress
  <2>3. Chain(Unheard, << >> \o <<x>>)
    BY <1>3, <2>2, ChainEmpty, ChainGrows
  <2>4. << >> \o <<x>> = <<x>> /\ <<x>> \in Seq(Mail)
    OBVIOUS
  <2>5. Consistent("starting", Unheard, w, <<x>>)
    BY <1>3, <2>1, <2>3, <2>4 DEF Consistent
  <2>6. mail[j] \o <<x>> = <<x>>
    BY <1>2
  <2> QED
    BY <1>2, <1>3, <2>1, <2>4, <2>5, <2>6, GoesOn
<1>4. CASE Goes(j, [worker[j] EXCEPT !.at = "idle"], <<Message("ready")>>)
  BY <1>3, <1>4, Known, Messages
<1>5. CASE Goes(j, [worker[j] EXCEPT !.at = "over"], <<Message("broken")>>)
  BY <1>3, <1>5, Known, Messages
<1> QED
  BY <1>4, <1>5 DEF Load

LEMMA Prepares == ASSUME IInv, NEW j \in Job, Prepare(j) PROVE IInv'
<1>1. worker[j].at = "idle" /\ session[j] = "ready" /\ worker[j] \in WorkerRecord
  BY Known DEF Prepare
<1>2. /\ mail[j] = << >> /\ snapshot[j] = Unheard
      /\ worker[j].done = 0 /\ worker[j].phase = "Generating"
  BY <1>1, Known DEF Consistent
<1>3. AllProgress(mail[j])
  BY <1>2 DEF AllProgress
<1>4. CASE GivesUp(j)
  BY <1>1, <1>3, <1>4, LastWord DEF GivesUp
<1>5. ASSUME NEW n \in 0 .. Candidates
      PROVE  LET w == [worker[j] EXCEPT !.at = "generating", !.total = n]
             IN Goes(j, w, <<ProgressMessage(w)>>) => IInv'
  <2> DEFINE w == [worker[j] EXCEPT !.at = "generating", !.total = n]
  <2>1. /\ w \in WorkerRecord /\ w.at = "generating" /\ w.done = 0 /\ w.total = n
        /\ w.phase = "Generating"
    BY <1>1, <1>2 DEF WorkerRecord
  <2>2. Follows(Unheard, Progress(w.done, w.total, w.phase))
    BY <1>5, <2>1, Ranks, Known DEF Follows, Unheard, Progress
  <2>3. Reported(snapshot[j], mail[j]) = Unheard
    BY <1>2 DEF Reported
  <2>4. w.done <= w.total
    BY <1>5, <2>1, Known
  <2> HIDE DEF w
  <2>5. Goes(j, w, <<ProgressMessage(w)>>) => IInv'
    BY <1>1, <1>3, <2>1, <2>2, <2>3, <2>4, Says
  <2> QED
    BY <2>5 DEF w
<1> QED
  BY <1>4, <1>5 DEF Prepare

(* What is known of a worker that computes.                                *)
LEMMA Computing ==
  ASSUME IInv, NEW j \in Job, worker[j].at \in {"generating", "verifying"}
  PROVE  /\ worker[j] \in WorkerRecord /\ session[j] = "ready"
         /\ worker[j].done \in Nat /\ worker[j].total \in Nat /\ Candidates \in Nat
         /\ worker[j].done <= worker[j].total
         /\ worker[j].phase \in {"Generating", "Verifying"}
         /\ AllProgress(mail[j])
         /\ Reported(snapshot[j], mail[j])
              = Progress(worker[j].done, worker[j].total, worker[j].phase)
         /\ worker[j].at = "verifying" =>
              worker[j].done < worker[j].total /\ worker[j].phase = "Verifying"
BY Known DEF Consistent, WorkerRecord

(* One more candidate, or the first that is verified: progress follows.    *)
LEMMA Succeeds ==
  ASSUME NEW d \in Nat, NEW t \in Nat, NEW e \in {d, d + 1}, e <= t,
         NEW p \in {"Generating", "Verifying"}, NEW q \in {p, "Verifying"}
  PROVE  Follows(Progress(d, t, p), Progress(e, t, q))
BY Ranks DEF Follows, Progress

LEMMA Generates == ASSUME IInv, NEW j \in Job, GenerateCandidate(j) PROVE IInv'
<1>1. worker[j].at = "generating" /\ worker[j].done < worker[j].total
  BY DEF GenerateCandidate
<1>2. /\ worker[j] \in WorkerRecord /\ session[j] = "ready"
      /\ worker[j].done \in Nat /\ worker[j].total \in Nat /\ Candidates \in Nat
      /\ worker[j].phase \in {"Generating", "Verifying"} /\ AllProgress(mail[j])
      /\ Reported(snapshot[j], mail[j])
           = Progress(worker[j].done, worker[j].total, worker[j].phase)
  BY <1>1, Computing
<1>3. CASE GivesUp(j)
  BY <1>2, <1>3, LastWord DEF GivesUp
<1> DEFINE v == [worker[j] EXCEPT !.at = "verifying", !.phase = "Verifying"]
           g == [worker[j] EXCEPT !.done = @ + 1]
<1>4. /\ v \in WorkerRecord /\ v.at = "verifying" /\ v.phase = "Verifying"
      /\ v.done = worker[j].done /\ v.total = worker[j].total
  BY <1>2 DEF WorkerRecord
<1>5. /\ g \in WorkerRecord /\ g.at = "generating" /\ g.phase = worker[j].phase
      /\ g.done = worker[j].done + 1 /\ g.total = worker[j].total
  BY <1>1, <1>2 DEF WorkerRecord
<1>6. GenerateCandidate(j) =>
        \/ Goes(j, v, IF worker[j].phase = "Generating" THEN <<ProgressMessage(v)>> ELSE << >>)
        \/ Goes(j, g, <<ProgressMessage(g)>>)
        \/ GivesUp(j)
  BY DEF GenerateCandidate
<1> HIDE DEF v, g
<1>7. CASE worker[j].phase = "Generating" /\ Goes(j, v, <<ProgressMessage(v)>>)
  <2>1. Follows(Reported(snapshot[j], mail[j]), Progress(v.done, v.total, v.phase))
    BY <1>1, <1>2, <1>4, Succeeds
  <2> QED
    BY <1>1, <1>2, <1>4, <1>7, <2>1, Says
<1>8. CASE worker[j].phase # "Generating" /\ Goes(j, v, << >>)
  <2>1. Progress(v.done, v.total, v.phase)
          = Progress(worker[j].done, worker[j].total, worker[j].phase)
    BY <1>2, <1>4, <1>8
  <2>2. Chain(snapshot[j], mail[j]) /\ mail[j] \in Seq(Mail)
    BY Known DEF Consistent
  <2>3. Consistent("ready", snapshot[j], v, mail[j])
    BY <1>1, <1>2, <1>4, <2>1, <2>2 DEF Consistent
  <2>4. mail[j] \o << >> = mail[j] /\ << >> \in Seq(Mail)
    BY <2>2
  <2> QED
    BY <1>2, <1>4, <1>8, <2>3, <2>4, GoesOn
<1>9. CASE Goes(j, g, <<ProgressMessage(g)>>)
  <2>1. Follows(Reported(snapshot[j], mail[j]), Progress(g.done, g.total, g.phase))
    BY <1>1, <1>2, <1>5, Succeeds
  <2> QED
    BY <1>1, <1>2, <1>5, <1>9, <2>1, Says
<1> QED
  BY <1>3, <1>6, <1>7, <1>8, <1>9

LEMMA Verifies == ASSUME IInv, NEW j \in Job, VerifyCandidate(j) PROVE IInv'
<1>1. worker[j].at = "verifying"
  BY DEF VerifyCandidate
<1>2. /\ worker[j] \in WorkerRecord /\ session[j] = "ready"
      /\ worker[j].done \in Nat /\ worker[j].total \in Nat /\ Candidates \in Nat
      /\ worker[j].done < worker[j].total /\ worker[j].phase = "Verifying"
      /\ AllProgress(mail[j])
      /\ Reported(snapshot[j], mail[j])
           = Progress(worker[j].done, worker[j].total, worker[j].phase)
  BY <1>1, Computing
<1>3. CASE GivesUp(j)
  BY <1>2, <1>3, LastWord DEF GivesUp
<1> DEFINE w == [worker[j] EXCEPT !.at = "generating", !.done = @ + 1, !.made = TRUE]
<1>4. /\ w \in WorkerRecord /\ w.at = "generating" /\ w.phase = "Verifying"
      /\ w.done = worker[j].done + 1 /\ w.total = worker[j].total
  <2>1. worker[j].done + 1 \in 0 .. Candidates /\ TRUE \in BOOLEAN
    BY <1>2 DEF WorkerRecord
  <2>2. \A b \in BOOLEAN :
          [worker[j] EXCEPT !.at = "generating", !.done = @ + 1, !.made = b] \in WorkerRecord
    BY <1>2, <2>1 DEF WorkerRecord
  <2>3. w \in WorkerRecord
    BY <2>1, <2>2
  <2> QED
    BY <1>2, <2>3 DEF WorkerRecord
<1>5. Goes(j, w, <<ProgressMessage(w)>>) \/ GivesUp(j)
  BY DEF VerifyCandidate
<1> HIDE DEF w
<1>6. Follows(Reported(snapshot[j], mail[j]), Progress(w.done, w.total, w.phase))
  BY <1>2, <1>4, Succeeds
<1> QED
  BY <1>2, <1>3, <1>4, <1>5, <1>6, Says

LEMMA HandsOut == ASSUME IInv, NEW j \in Job, HandOut(j) PROVE IInv'
<1>1. worker[j].at = "generating" /\ session[j] = "ready" /\ AllProgress(mail[j])
  BY Computing DEF HandOut
<1> QED
  BY <1>1, LastWord DEF HandOut

(* The next message is progress, and it is the one that may come.          *)
LEMMA NextProgress ==
  ASSUME IInv, NEW j \in Job, Arrives(j, "progress")
  PROVE  Follows(snapshot[j], Head(mail[j]).progress)
<1>1. mail[j] \in Seq(Mail) /\ mail[j] # << >> /\ Head(mail[j]).type = "progress"
  BY Known DEF Arrives
<1>2. Head(mail[j]) = mail[j][1] /\ 1 \in 1 .. Len(mail[j])
  BY <1>1
<1>3. Chain(snapshot[j], mail[j])
  BY Known DEF Consistent
<1> QED
  BY <1>1, <1>2, <1>3 DEF Chain, Before

LEMMA HearsProgress == ASSUME IInv, NEW j \in Job, HearProgress(j) PROVE IInv'
<1> DEFINE p == Head(mail[j]).progress
           m == Tail(mail[j])
<1>1. /\ mail[j] \in Seq(Mail) /\ mail[j] # << >> /\ Head(mail[j]).type = "progress"
      /\ Alive(j) /\ Follows(snapshot[j], p)
  BY Known, NextProgress DEF HearProgress, Arrives
<1>2. Head(mail[j]) \in Mail /\ m \in Seq(Mail) /\ Len(m) = Len(mail[j]) - 1
      /\ \A i \in 1 .. Len(m) : i + 1 \in 1 .. Len(mail[j]) /\ m[i] = mail[j][i + 1]
  BY <1>1
<1>3. p \in Heard
  BY <1>2 DEF Mail
<1>4. Chain(p, m) /\ Reported(p, m) = Reported(snapshot[j], mail[j])
  BY <1>1, ChainTail, Known DEF Consistent
<1>5. Becomes(j, session[j], p, reply[j], worker[j], m) /\ stopped' = stopped
  BY <1>1, Types DEF HearProgress, IInv, Becomes
<1>6. Consistent(session[j], snapshot[j], worker[j], mail[j]) /\ worker[j] \in WorkerRecord
  BY Known
<1>7. worker[j].at \in {"generating", "verifying", "over"}
  <2>1. Message("ready").type # "progress" /\ Head(<<Message("ready")>>) = Message("ready")
    BY DEF Message
  <2> QED
    BY <1>1, <1>6, <2>1 DEF Consistent, WorkerRecord
<1>8. AllProgress(mail[j]) => AllProgress(m)
  BY <1>2 DEF AllProgress
<1>9. (\A i \in 1 .. Len(mail[j]) : mail[j][i].type # "ready")
        => \A i \in 1 .. Len(m) : m[i].type # "ready"
  BY <1>2
<1> HIDE DEF p, m
<1>10. Consistent(session[j], p, worker[j], m)
  BY <1>4, <1>6, <1>7, <1>8, <1>9 DEF Consistent
<1>11. Answered(session[j], reply[j], j \in stopped')
  BY <1>5, Known
<1>12. /\ session[j] \in {"none", "starting", "ready", "gone"}
       /\ reply[j] \in {"none", "made", "error"} /\ m \in Seq(Mail)
  BY <1>2, Known DEF m
<1> QED
  BY <1>3, <1>5, <1>6, <1>10, <1>11, <1>12, OneJob

LEMMA HearsReady == ASSUME IInv, NEW j \in Job, HearReady(j) PROVE IInv'
<1>1. /\ mail[j] \in Seq(Mail) /\ mail[j] # << >> /\ Head(mail[j]).type = "ready" /\ Alive(j)
  BY Known DEF HearReady, Arrives
<1>2. 1 \in 1 .. Len(mail[j]) /\ Head(mail[j]) = mail[j][1]
  BY <1>1
<1>3. Consistent(session[j], snapshot[j], worker[j], mail[j]) /\ worker[j] \in WorkerRecord
  BY Known
<1>4. worker[j].at = "idle" /\ mail[j] = <<Message("ready")>>
  BY <1>1, <1>2, <1>3 DEF Consistent, WorkerRecord, AllProgress
<1>5. Tail(mail[j]) = << >>
  BY <1>4
<1>6. Becomes(j, "ready", snapshot[j], reply[j], worker[j], << >>) /\ stopped' = stopped
  BY <1>5, Types DEF HearReady, IInv, Becomes
<1>7. Consistent("ready", snapshot[j], worker[j], << >>)
  BY <1>3, <1>4, ChainEmpty DEF Consistent
<1>8. Answered("ready", reply[j], j \in stopped')
  BY <1>1, <1>6, LivingNotStopped DEF Answered
<1>9. snapshot[j] \in Heard /\ reply[j] \in {"none", "made", "error"} /\ << >> \in Seq(Mail)
  BY Known
<1> QED
  BY <1>3, <1>6, <1>7, <1>8, <1>9, OneJob

LEMMA StepIsRight ==
  ASSUME IInv, NEW j \in Job, OpenSession(j) \/ CancelSession(j) \/ WorkersStep(j)
  PROVE  IInv'
<1>1. CASE CancelSession(j)
  BY <1>1, Ends DEF CancelSession
<1>2. CASE Computes(j)
  BY <1>2, Prepares, Generates, Verifies, HandsOut DEF Computes
<1>3. CASE HearMade(j)
  <2>1. j \notin stopped /\ End(j, "made") /\ stopped' = stopped
    BY <1>3, LivingNotStopped DEF HearMade, Arrives
  <2> QED
    BY <2>1, Ends
<1>4. CASE HearBroken(j) \/ HearError(j) \/ ReadyTimeout(j) \/ WorkerError(j)
  <2>1. Alive(j) /\ Fail(j)
    BY <1>4 DEF HearBroken, HearError, ReadyTimeout, WorkerError, Arrives, Alive
  <2> QED
    BY <2>1, LivingNotStopped, Fails
<1> QED
  BY <1>1, <1>2, <1>3, <1>4, Opens, Loads, HearsProgress, HearsReady DEF WorkersStep, Hear

LEMMA Unmoved == ASSUME IInv, UNCHANGED workersVars PROVE IInv'
<1>1. /\ session' = session /\ snapshot' = snapshot /\ reply' = reply
      /\ stopped' = stopped /\ worker' = worker /\ mail' = mail
  BY DEF workersVars
<1>2. WorkersTypeOK'
  BY <1>1 DEF IInv, WorkersTypeOK
<1>3. ASSUME NEW j \in Job PROVE JobIsRight(j)'
  BY <1>1, <1>3 DEF IInv, JobIsRight
<1> QED
  BY <1>1, <1>2, <1>3 DEF IInv

(* Where a worker stands determines what was heard of it and what is still *)
(* to be heard (proposalJobRegistry.ts:309-358, proposal.worker.ts:184-250).*)
THEOREM WorkersInvariance ==
  ASSUME Candidates \in Nat
  PROVE  WorkersSpec => []IInv
<1>1. WorkersInit => IInv
  BY InitIsRight
<1>2. IInv /\ [\E j \in Job : OpenSession(j) \/ CancelSession(j) \/ WorkersStep(j)]_workersVars => IInv'
  BY Unmoved, StepIsRight
<1> QED
  BY <1>1, <1>2, PTL DEF WorkersSpec

(* proposalJobRegistry.ts:246-262: for any number of candidates and however*)
(* late the messages are heard, no progress of a sound worker is taken for *)
(* that of a broken one.                                                   *)
THEOREM ProgressAlwaysAccepted ==
  ASSUME Candidates \in Nat
  PROVE  WorkersSpec => []ProgressIsAccepted
<1>1. IInv => ProgressIsAccepted
  BY NextProgress DEF ProgressIsAccepted
<1> QED
  BY <1>1, WorkersInvariance, PTL

-----------------------------------------------------------------------------
(* The contract.                                                           *)
LEMMA StepKeepsContract ==
  ASSUME IInv, NEW j \in Job, OpenSession(j) \/ CancelSession(j) \/ WorkersStep(j)
  PROVE  [WorkersContract!Next]_(WorkersContract!vars)
<1>1. reply \in [Job -> {"none", "made", "error"}]
  BY Types DEF IInv
<1>2. CASE UNCHANGED <<reply, stopped>>
  BY <1>2 DEF WorkersContract!vars
<1>3. CASE Alive(j) /\ Fail(j)
  <2>1. WorkersContract!Refuse(j)
    BY <1>3, LivingNotStopped DEF Fail, End, WorkersContract!Refuse
  <2> QED
    BY <2>1 DEF WorkersContract!Next
<1>4. CASE CancelSession(j)
  <2>1. WorkersContract!WithdrawAndRefuse(j)
    BY <1>4, LivingNotStopped DEF CancelSession, End, WorkersContract!WithdrawAndRefuse
  <2> QED
    BY <2>1 DEF WorkersContract!Next
<1>5. CASE HearMade(j)
  <2>1. WorkersContract!Deliver(j)
    BY <1>5, LivingNotStopped DEF HearMade, Arrives, End, WorkersContract!Deliver
  <2> QED
    BY <2>1 DEF WorkersContract!Next
<1>6. CASE OpenSession(j) \/ Load(j) \/ Computes(j) \/ HearReady(j)
  <2>1. UNCHANGED <<reply, stopped>>
    BY <1>6 DEF OpenSession, Load, Computes, Prepare, GenerateCandidate, VerifyCandidate,
                HandOut, GivesUp, Goes, HearReady
  <2> QED
    BY <1>2, <2>1
<1>7. CASE HearProgress(j)
  BY <1>2, <1>3, <1>7 DEF HearProgress, Arrives
<1>8. CASE HearBroken(j) \/ HearError(j) \/ ReadyTimeout(j) \/ WorkerError(j)
  BY <1>3, <1>8 DEF HearBroken, HearError, ReadyTimeout, WorkerError, Arrives, Alive
<1> QED
  BY <1>4, <1>5, <1>6, <1>7, <1>8 DEF WorkersStep, Hear

(* WorkersContract (proposalJobRegistry.ts:279-307, 422-432): a call is    *)
(* answered once, and one that was cancelled never with candidates.        *)
THEOREM WorkersKeepContract ==
  ASSUME Candidates \in Nat
  PROVE  WorkersSpec => WorkersContract!Spec
<1>1. WorkersInit => WorkersContract!Init
  BY DEF WorkersInit, WorkersContract!Init
<1>2. IInv /\ [\E j \in Job : OpenSession(j) \/ CancelSession(j) \/ WorkersStep(j)]_workersVars
        => [WorkersContract!Next]_(WorkersContract!vars)
  <2>1. UNCHANGED workersVars => UNCHANGED WorkersContract!vars
    BY DEF workersVars, WorkersContract!vars
  <2> QED
    BY <2>1, StepKeepsContract
<1> QED
  BY <1>1, <1>2, WorkersInvariance, PTL DEF WorkersSpec, WorkersContract!Spec
=============================================================================
