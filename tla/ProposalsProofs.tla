-------------------------- MODULE ProposalsProofs --------------------------
(***************************************************************************)
(* Proofs about the wizard on either back end, for any bounds.  What is    *)
(* proved of the back ends by themselves, in JobTableProofs and            *)
(* JobWorkersProofs, holds of them here too, since the wizard does nothing *)
(* to them but call them.                                                  *)
(***************************************************************************)
EXTENDS Proposals, SequenceTheorems, TLAPS

OnTable == INSTANCE JobTableProofs
OnWorkers == INSTANCE JobWorkersProofs

-----------------------------------------------------------------------------
(* JobTable and JobWorkers are read twice, here and by their proofs.       *)
LEMMA SameTableInit == Table!TableInit <=> OnTable!TableInit
BY DEF Table!TableInit, OnTable!TableInit, Table!NewCell, OnTable!NewCell, Table!Worker,
       OnTable!Worker, Table!NoPoll, OnTable!NoPoll, Table!NoSnapshot, OnTable!NoSnapshot

LEMMA SameTableTypes == Table!TableTypeOK <=> OnTable!TableTypeOK
BY DEF Table!TableTypeOK, OnTable!TableTypeOK, Table!Cell, OnTable!Cell, Table!Worker,
       OnTable!Worker, Table!Phase, OnTable!Phase, Table!At, OnTable!At, Table!Out, OnTable!Out,
       Table!Place, OnTable!Place, Table!Ended, OnTable!Ended, Table!Snapshot, OnTable!Snapshot

LEMMA SameCalls ==
  ASSUME NEW j \in Job
  PROVE  /\ Table!CallStep(j) => OnTable!CallStep(j)
         /\ Table!SendGenerate(j) \/ Table!SendCancel(j) \/ Table!ReadProgress(j)
              \/ Table!TakeAnswer(j) \/ Table!TakeProgress(j) => OnTable!TableCall(j)
<1>1. Table!CallStep(j) => OnTable!CallStep(j)
  BY DEF Table!CallStep, OnTable!CallStep, Table!FindForCancel, OnTable!FindForCancel,
         Table!CancelJob, OnTable!CancelJob
<1>2. Table!SendGenerate(j) \/ Table!SendCancel(j) \/ Table!ReadProgress(j) => OnTable!TableCall(j)
  BY DEF OnTable!TableCall, Table!SendGenerate, OnTable!SendGenerate, Table!SendCancel,
         OnTable!SendCancel, Table!ReadProgress, OnTable!ReadProgress
<1>3. Table!TakeAnswer(j) \/ Table!TakeProgress(j) => OnTable!TableCall(j)
  BY DEF OnTable!TableCall, Table!TakeAnswer, OnTable!TakeAnswer, Table!TakeProgress,
         OnTable!TakeProgress, Table!Goes, OnTable!Goes, Table!NoPoll, OnTable!NoPoll,
         Table!NoSnapshot, OnTable!NoSnapshot
<1> QED
  BY <1>1, <1>2, <1>3

LEMMA SameThreadStep ==
  ASSUME NEW j \in Job, Table!ThreadStep(j)
  PROVE  OnTable!ThreadStep(j)
<1> USE DEF Table!Goes, OnTable!Goes
<1>1. Table!StartJob(j) \/ Table!Invalid(j) => OnTable!StartJob(j) \/ OnTable!Invalid(j)
  BY DEF Table!StartJob, OnTable!StartJob, Table!Invalid, OnTable!Invalid, Table!NewCell,
         OnTable!NewCell
<1>2. Table!Pack(j) => OnTable!Pack(j)
  BY DEF Table!Pack, OnTable!Pack, Table!Started, OnTable!Started, Table!Worker, OnTable!Worker
<1>3. Table!Gather(j) => OnTable!Gather(j)
  BY DEF Table!Gather, OnTable!Gather, Table!Gathered, OnTable!Gathered, Table!How,
         OnTable!How, Table!Worker, OnTable!Worker
<1>4. Table!Complete(j) => OnTable!Complete(j)
  BY DEF Table!Complete, OnTable!Complete, Table!Answer, OnTable!Answer, Table!Finished,
         OnTable!Finished, Table!Terminal, OnTable!Terminal, Table!PhaseOf, OnTable!PhaseOf
<1>5. Table!Prune(j) => OnTable!Prune(j)
  BY DEF Table!Prune, OnTable!Prune, Table!Dropped, OnTable!Dropped, Table!NewCell,
         OnTable!NewCell
<1>6. ASSUME NEW k \in Table!Worker
      PROVE  /\ Table!BeginVerifying(j, k) => OnTable!BeginVerifying(j, k)
             /\ Table!EndWorker(j, k) => OnTable!EndWorker(j, k)
  BY DEF Table!BeginVerifying, OnTable!BeginVerifying, Table!EndWorker, OnTable!EndWorker,
         Table!Endings, OnTable!Endings, Table!FinishOne, OnTable!FinishOne, Table!Terminal,
         OnTable!Terminal
<1>7. Table!Worker = OnTable!Worker
  BY DEF Table!Worker, OnTable!Worker
<1> QED
  BY <1>1, <1>2, <1>3, <1>4, <1>5, <1>6, <1>7 DEF Table!ThreadStep, OnTable!ThreadStep

LEMMA SameWorkersInit == Workers!WorkersInit <=> OnWorkers!WorkersInit
BY DEF Workers!WorkersInit, OnWorkers!WorkersInit, Workers!Unheard, OnWorkers!Unheard,
       Workers!Progress, OnWorkers!Progress, Workers!NoWorker, OnWorkers!NoWorker

LEMMA SameWorkersTypes == Workers!WorkersTypeOK <=> OnWorkers!WorkersTypeOK
BY DEF Workers!WorkersTypeOK, OnWorkers!WorkersTypeOK, Workers!Rank, OnWorkers!Rank

LEMMA SameAlive == \A j : Workers!Alive(j) <=> OnWorkers!Alive(j)
BY DEF Workers!Alive, OnWorkers!Alive

LEMMA SameFollows == \A p, q : Workers!Follows(p, q) <=> OnWorkers!Follows(p, q)
BY DEF Workers!Follows, OnWorkers!Follows, Workers!Rank, OnWorkers!Rank

LEMMA SameEnd ==
  ASSUME NEW j \in Job
  PROVE  /\ \A a : Workers!End(j, a) <=> OnWorkers!End(j, a)
         /\ Workers!Fail(j) <=> OnWorkers!Fail(j)
BY DEF Workers!End, OnWorkers!End, Workers!Fail, OnWorkers!Fail, Workers!Unheard,
       OnWorkers!Unheard, Workers!Progress, OnWorkers!Progress, Workers!NoWorker, OnWorkers!NoWorker

LEMMA SameSessions ==
  ASSUME NEW j \in Job
  PROVE  /\ Workers!OpenSession(j) <=> OnWorkers!OpenSession(j)
         /\ Workers!CancelSession(j) <=> OnWorkers!CancelSession(j)
BY SameEnd, SameAlive DEF Workers!OpenSession, OnWorkers!OpenSession, Workers!CancelSession,
       OnWorkers!CancelSession

LEMMA SameWorkersStep ==
  ASSUME NEW j \in Job
  PROVE  Workers!WorkersStep(j) <=> OnWorkers!WorkersStep(j)
<1> USE DEF Workers!Goes, OnWorkers!Goes, Workers!Message, OnWorkers!Message, Workers!Unheard,
            OnWorkers!Unheard, Workers!Progress, OnWorkers!Progress
<1>1. Workers!Load(j) <=> OnWorkers!Load(j)
  BY DEF Workers!Load, OnWorkers!Load
<1>2. Workers!GivesUp(j) <=> OnWorkers!GivesUp(j)
  BY DEF Workers!GivesUp, OnWorkers!GivesUp
<1>3. \A w : Workers!ProgressMessage(w) = OnWorkers!ProgressMessage(w)
  BY DEF Workers!ProgressMessage, OnWorkers!ProgressMessage
<1>4. Workers!Prepare(j) <=> OnWorkers!Prepare(j)
  BY <1>2, <1>3 DEF Workers!Prepare, OnWorkers!Prepare
<1>5. Workers!GenerateCandidate(j) <=> OnWorkers!GenerateCandidate(j)
  BY <1>2, <1>3 DEF Workers!GenerateCandidate, OnWorkers!GenerateCandidate
<1>6. Workers!VerifyCandidate(j) <=> OnWorkers!VerifyCandidate(j)
  BY <1>2, <1>3 DEF Workers!VerifyCandidate, OnWorkers!VerifyCandidate
<1>7. Workers!HandOut(j) <=> OnWorkers!HandOut(j)
  BY DEF Workers!HandOut, OnWorkers!HandOut
<1>8. \A t : Workers!Arrives(j, t) <=> OnWorkers!Arrives(j, t)
  BY SameAlive DEF Workers!Arrives, OnWorkers!Arrives
<1>9. Workers!HearProgress(j) <=> OnWorkers!HearProgress(j)
  BY <1>8, SameFollows, SameEnd DEF Workers!HearProgress, OnWorkers!HearProgress
<1>10. Workers!Hear(j) <=> OnWorkers!Hear(j)
  BY <1>8, <1>9, SameEnd DEF Workers!Hear, OnWorkers!Hear, Workers!HearReady,
     OnWorkers!HearReady, Workers!HearBroken, OnWorkers!HearBroken, Workers!HearMade,
     OnWorkers!HearMade, Workers!HearError, OnWorkers!HearError
<1>11. Workers!ReadyTimeout(j) \/ Workers!WorkerError(j)
         <=> OnWorkers!ReadyTimeout(j) \/ OnWorkers!WorkerError(j)
  BY SameEnd, SameAlive DEF Workers!ReadyTimeout, OnWorkers!ReadyTimeout, Workers!WorkerError,
     OnWorkers!WorkerError
<1> QED
  BY <1>1, <1>4, <1>5, <1>6, <1>7, <1>10, <1>11
  DEF Workers!WorkersStep, OnWorkers!WorkersStep, Workers!Computes, OnWorkers!Computes

-----------------------------------------------------------------------------
(* The state of the wizard by itself.                                      *)
Bar == [job : 0 .. MaxJobs, done : 0 .. Candidates + 1, total : 0 .. Candidates,
        phase : OnTable!Phase]

Ui == [open : BOOLEAN, skeleton : Skeleton, candidates : Skeleton, past : Seq(Moment),
       future : Seq(Moment), round : 0 .. MaxRounds, busy : BOOLEAN, job : 0 .. MaxJobs,
       progress : Bar, active : 0 .. MaxJobs, of : Skeleton, held : 0 .. MaxJobs,
       started : 0 .. MaxJobs]

(* m is a moment of the tree t.                                            *)
OfTree(t, m) == m.skeleton.tree = t /\ (m.candidates = NoSkeleton \/ m.candidates.tree = t)

History(s, t) ==
  /\ s \in Seq(Moment) /\ Len(s) <= HistoryLimit
  /\ \A i \in 1 .. Len(s) : OfTree(t, s[i])

(* A wizard that is busy waits for the job it started last on the skeleton *)
(* it shows; one that is not has left nothing.                             *)
Attends(d) ==
  /\ d.busy => d.active # 0 /\ d.job = d.active /\ d.of = d.skeleton /\ d.open
  /\ ~ d.busy => d.active = 0 /\ d.job = 0 /\ d.held = 0 /\ d.progress = NoProgress
  /\ d.held \in {0, d.active}
  /\ d.progress.job \in {0, d.job}
  /\ d.progress.done <= d.progress.total

Right(d) ==
  /\ d \in Ui
  /\ Attends(d)
  /\ OfTree(d.skeleton.tree, Now(d))
  /\ History(d.past, d.skeleton.tree) /\ History(d.future, d.skeleton.tree)

LEMMA Bounds ==
  /\ Candidates \in Nat /\ HistoryLimit \in Nat /\ MaxJobs \in Nat
  /\ MaxTips \in Nat /\ MaxRounds \in Nat
BY ProposalsBounds

LEMMA Nothing ==
  /\ NoSkeleton \in Skeleton /\ NoProgress \in Bar
  /\ NoProgress.job = 0 /\ NoProgress.done = 0 /\ NoProgress.total = 0
  /\ NoSkeleton.tree = 0 /\ NoSkeleton.tips = 0
BY Bounds DEF NoSkeleton, Skeleton, NoProgress, Bar, OnTable!Phase

LEMMA InitUi == Init => Right(ui)
<1> SUFFICES ASSUME Init PROVE Right(ui)
  OBVIOUS
<1>1. << >> \in Seq(Moment) /\ Len(<< >>) = 0
  OBVIOUS
<1> QED
  BY <1>1, Nothing, Bounds DEF Init, Right, Ui, Attends, OfTree, Now, History

-----------------------------------------------------------------------------
(* The history of the wizard.                                              *)
LEMMA PushKeeps ==
  ASSUME NEW t, NEW s, History(s, t), NEW m \in Moment, OfTree(t, m)
  PROVE  History(Push(s, m), t)
<1> DEFINE a == Append(s, m)
<1>1. /\ s \in Seq(Moment) /\ a \in Seq(Moment) /\ Len(a) = Len(s) + 1
      /\ \A i \in 1 .. Len(a) : a[i] = IF i <= Len(s) THEN s[i] ELSE m
  BY DEF History
<1>2. \A i \in 1 .. Len(a) : OfTree(t, a[i])
  BY <1>1 DEF History
<1>3. CASE Len(a) > HistoryLimit
  <2>1. a # << >>
    BY <1>1
  <2>2. /\ Tail(a) \in Seq(Moment) /\ Len(Tail(a)) = Len(a) - 1
        /\ \A i \in 1 .. Len(Tail(a)) : Tail(a)[i] = a[i + 1]
    BY <1>1, <2>1
  <2> QED
    BY <1>1, <1>2, <1>3, <2>2, Bounds DEF History, Push
<1>4. CASE ~ (Len(a) > HistoryLimit)
  BY <1>1, <1>2, <1>4, Bounds DEF History, Push
<1> QED
  BY <1>3, <1>4

LEMMA FrontKeeps ==
  ASSUME NEW t, NEW s, History(s, t), s # << >>
  PROVE  History(Front(s), t) /\ Last(s) \in Moment /\ OfTree(t, Last(s))
<1>1. s \in Seq(Moment) /\ Len(s) \in Nat \ {0}
  BY DEF History
<1> DEFINE n == Len(s)
           f == SubSeq(s, 1, n - 1)
<1>2. /\ Front(s) \in Seq(Moment) /\ Len(Front(s)) = Len(s) - 1
      /\ \A i \in 1 .. Len(Front(s)) : Front(s)[i] = s[i]
  <2>1. \A i \in 1 .. n - 1 : s[i] \in Moment
    BY <1>1, ElementOfSeq
  <2>2. /\ f \in Seq(Moment) /\ Len(f) = IF 1 <= n - 1 THEN (n - 1) - 1 + 1 ELSE 0
        /\ \A i \in 1 .. (n - 1) - 1 + 1 : f[i] = s[1 + i - 1]
    BY <1>1, <2>1, SubSeqProperties
  <2> HIDE DEF f, n
  <2>3. n \in Nat \ {0}
    BY <1>1 DEF n
  <2>4. Len(f) = n - 1
    BY <2>2, <2>3
  <2>5. \A i \in 1 .. n - 1 : f[i] = s[i]
    BY <2>2, <2>3
  <2> QED
    BY <2>2, <2>4, <2>5 DEF Front, f, n
<1> QED
  BY <1>1, <1>2, Bounds DEF History, Last

LEMMA NoHistory == ASSUME NEW t PROVE History(<< >>, t)
BY Bounds DEF History

-----------------------------------------------------------------------------
(* The handlers.                                                           *)
(* What is given up leaves nothing that the next state could trip over.    *)
LEMMA ReleasedIsRight ==
  ASSUME NEW d, Right(d), NEW e \in Ui, ~ e.busy, e.active = 0, e.job = 0, e.held = 0,
         e.progress = NoProgress, e.skeleton = d.skeleton, e.past = d.past,
         e.future = d.future, e.candidates \in {d.candidates, d.skeleton}
  PROVE  Right(e)
<1>1. Attends(e)
  BY Nothing DEF Attends
<1> QED
  BY <1>1 DEF Right, OfTree, Now

LEMMA IdleIsRight ==
  ASSUME NEW d, Right(d)
  PROVE  /\ Right(Invalidate(d))
         /\ Invalidate(d).active = 0 /\ Invalidate(d).held = 0 /\ ~ Invalidate(d).busy
         /\ Invalidate(d).progress = NoProgress /\ Invalidate(d).job = 0
         /\ Invalidate(d).round = d.round /\ Invalidate(d).open = d.open
<1> DEFINE e == Invalidate(d)
<1>1. /\ e = [d EXCEPT !.active = 0, !.of = NoSkeleton, !.held = 0, !.busy = FALSE,
                       !.job = 0, !.progress = NoProgress]
      /\ d \in Ui
  BY DEF Invalidate, Idle, Right, Ui
<1>2. /\ e \in Ui /\ ~ e.busy /\ e.active = 0 /\ e.job = 0 /\ e.held = 0
      /\ e.progress = NoProgress /\ e.skeleton = d.skeleton /\ e.past = d.past
      /\ e.future = d.future /\ e.candidates = d.candidates
      /\ e.round = d.round /\ e.open = d.open
  <2>1. 0 \in 0 .. MaxJobs /\ NoProgress \in Bar /\ NoSkeleton \in Skeleton
    BY Nothing, Bounds
  <2> HIDE DEF e
  <2> QED
    BY <1>1, <2>1 DEF Ui
<1> HIDE DEF e
<1>3. Right(e)
  BY <1>2, ReleasedIsRight
<1> QED
  BY <1>2, <1>3 DEF e

LEMMA ClosedIsRight ==
  ASSUME NEW d, Right(d)
  PROVE  Right(Closed(d)) /\ Closed(d).active = 0 /\ Closed(d).progress = NoProgress
<1> DEFINE e == Invalidate(d)
<1>1. /\ Right(e) /\ e.active = 0 /\ e.held = 0 /\ ~ e.busy /\ e.progress = NoProgress /\ e.job = 0
  BY IdleIsRight
<1>2. Closed(d) = [e EXCEPT !.open = FALSE, !.past = << >>, !.future = << >>]
  BY DEF Closed
<1>3. << >> \in Seq(Moment)
  OBVIOUS
<1> HIDE DEF e
<1> QED
  BY <1>1, <1>2, <1>3, NoHistory DEF Right, Ui, Attends, Now, OfTree

LEMMA NewRoundIsRight ==
  ASSUME NEW d, Right(d), d.round < MaxRounds, NEW o \in BOOLEAN
  PROVE  LET e == [NewRound(Invalidate(d)) EXCEPT !.open = o]
         IN Right(e) /\ e.active = 0 /\ e.progress = NoProgress /\ e.candidates = NoSkeleton
<1> DEFINE c == Invalidate(d)
           e == [NewRound(c) EXCEPT !.open = o]
<1>1. /\ Right(c) /\ c.active = 0 /\ c.held = 0 /\ ~ c.busy /\ c.progress = NoProgress
      /\ c.job = 0 /\ c.round = d.round
  BY IdleIsRight
<1> HIDE DEF c
<1>2. [tree |-> c.round + 1, tips |-> 0] \in Skeleton /\ c.round + 1 \in 0 .. MaxRounds
  <2>1. c \in Ui
    BY <1>1 DEF Right
  <2>2. c.round \in 0 .. MaxRounds /\ c.round < MaxRounds
    BY <1>1, <2>1 DEF Ui
  <2> QED
    BY <2>2, Bounds DEF Skeleton
<1>3. << >> \in Seq(Moment)
  OBVIOUS
<1>4. /\ e \in Ui /\ e.skeleton.tree = c.round + 1 /\ e.candidates = NoSkeleton
      /\ e.past = << >> /\ e.future = << >> /\ e.active = 0 /\ e.held = 0 /\ ~ e.busy
      /\ e.progress = NoProgress /\ e.job = 0
  BY <1>1, <1>2, <1>3, Nothing DEF Right, Ui, NewRound
<1>5. Attends(e)
  BY <1>4, Nothing DEF Attends
<1>6. Right(e)
  BY <1>4, <1>5, NoHistory DEF Right, Now, OfTree
<1> QED
  BY <1>4, <1>6 DEF c

LEMMA SetRoundIsRight ==
  ASSUME NEW d, Right(d), d.round < MaxRounds
  PROVE  LET e == NewRound(Invalidate(d))
         IN Right(e) /\ e.active = 0 /\ e.progress = NoProgress /\ e.candidates = NoSkeleton
<1> DEFINE c == Invalidate(d)
<1>1. NewRound(c) = [NewRound(c) EXCEPT !.open = c.open]
  BY IdleIsRight DEF NewRound, Right, Ui
<1>2. c.open \in BOOLEAN
  BY IdleIsRight DEF Right, Ui
<1> QED
  BY <1>1, <1>2, NewRoundIsRight

LEMMA MovesAreRight ==
  ASSUME NEW d, Right(d), ~ d.busy, NEW m \in Moment, OfTree(d.skeleton.tree, m),
         NEW p, History(p, d.skeleton.tree), NEW f, History(f, d.skeleton.tree)
  PROVE  Right([d EXCEPT !.skeleton = m.skeleton, !.candidates = m.candidates,
                         !.past = p, !.future = f])
<1> DEFINE e == [d EXCEPT !.skeleton = m.skeleton, !.candidates = m.candidates,
                          !.past = p, !.future = f]
<1>1. /\ e \in Ui /\ e.skeleton = m.skeleton /\ e.candidates = m.candidates
      /\ e.past = p /\ e.future = f
      /\ e.busy = d.busy /\ e.active = d.active /\ e.job = d.job /\ e.held = d.held
      /\ e.progress = d.progress
  BY DEF Right, Ui, Moment, History
<1> HIDE DEF e
<1>2. Attends(e)
  BY <1>1 DEF Right, Attends
<1> QED
  BY <1>1, <1>2 DEF Right, OfTree, Now, e

LEMMA ShownIsRight ==
  ASSUME NEW d, Right(d), NEW j \in Job, d.active = j
  PROVE  /\ Right(Show(d, j)) /\ Show(d, j).active = 0 /\ Show(d, j).progress = NoProgress
         /\ Show(d, j).candidates = d.skeleton
<1>1. j # 0 /\ d.busy /\ d.of = d.skeleton /\ d \in Ui
  BY DEF Job, Right, Attends
<1> DEFINE e == Show(d, j)
<1>2. e = [d EXCEPT !.busy = FALSE, !.job = 0, !.progress = NoProgress,
                    !.candidates = d.of, !.open = TRUE, !.held = 0,
                    !.active = 0, !.of = NoSkeleton]
  BY <1>1 DEF Show, Finally, Idle, Ui
<1>3. /\ e \in Ui /\ ~ e.busy /\ e.active = 0 /\ e.job = 0 /\ e.held = 0
      /\ e.progress = NoProgress /\ e.skeleton = d.skeleton /\ e.past = d.past
      /\ e.future = d.future /\ e.candidates = d.skeleton
  <2>1. /\ 0 \in 0 .. MaxJobs /\ NoProgress \in Bar /\ NoSkeleton \in Skeleton
        /\ d.of \in Skeleton
    BY <1>1, Nothing, Bounds DEF Ui
  <2> HIDE DEF e
  <2> QED
    BY <1>1, <1>2, <2>1 DEF Ui
<1> HIDE DEF e
<1>4. Right(e)
  BY <1>3, ReleasedIsRight
<1> QED
  BY <1>3, <1>4 DEF e

LEMMA FailedIsRight ==
  ASSUME NEW d, Right(d), NEW j \in Job, d.held # j
  PROVE  /\ Right(Failed(d, j)) /\ Failed(d, j).candidates = d.candidates
         /\ IF IsCurrent(d, j)
            THEN Failed(d, j).active = 0 /\ Failed(d, j).progress = NoProgress
            ELSE Failed(d, j) = d
<1>1. CASE IsCurrent(d, j)
  <2> DEFINE e == Failed(d, j)
  <2>1. /\ e = [d EXCEPT !.busy = FALSE, !.job = 0, !.progress = NoProgress,
                         !.active = 0, !.of = NoSkeleton]
        /\ d \in Ui /\ d.held = 0
    BY <1>1 DEF Failed, Finally, Idle, Right, Ui, IsCurrent, Attends
  <2>2. /\ e \in Ui /\ ~ e.busy /\ e.active = 0 /\ e.job = 0 /\ e.held = 0
        /\ e.progress = NoProgress /\ e.skeleton = d.skeleton /\ e.past = d.past
        /\ e.future = d.future /\ e.candidates = d.candidates
    BY <2>1, Nothing, Bounds DEF Ui
  <2> HIDE DEF e
  <2>3. Right(e)
    BY <2>2, ReleasedIsRight
  <2> QED
    BY <1>1, <2>2, <2>3 DEF e
<1> QED
  BY <1>1 DEF Failed

-----------------------------------------------------------------------------
(* What the wizard shows of job j is not ahead of what it may yet hear.    *)
BarIsRight(j) ==
  /\ cell[j].done <= cell[j].total
  /\ snapshot[j].done <= snapshot[j].total
  /\ thread[j].at = "queued" => cell[j].phase \in {"Queued", "Cancelled"}
  /\ thread[j].at \in {"idle", "sent"} => poll[j].at = "none"
  /\ poll[j].at = "back" =>
       /\ poll[j].seen.done <= poll[j].seen.total
       /\ j \in jobs => PhaseRank(poll[j].seen.phase) <= PhaseRank(cell[j].phase)
  /\ ui.progress.job = j =>
       /\ runtime = "tauri" => thread[j].at \notin {"idle", "sent"}
       /\ j \in jobs => PhaseRank(ui.progress.phase) <= PhaseRank(cell[j].phase)
       /\ poll[j].at = "back" => PhaseRank(ui.progress.phase) <= PhaseRank(poll[j].seen.phase)
       /\ Workers!Alive(j) => PhaseRank(ui.progress.phase) <= PhaseRank(snapshot[j].phase)

(* The wizard and the back end, of which the other one does nothing.       *)
Joined ==
  /\ runtime \in {"tauri", "web"}
  /\ runtime = "tauri" => \A j \in Job : session[j] = "none"
  /\ runtime = "web" => \A j \in Job : thread[j].at = "idle"
  /\ \A j \in Job : Workers!Alive(j) => ui.active = j
  /\ ui.active # 0 => IF ui.held = 0 THEN Pending(ui.active) ELSE ~ Pending(ui.active)
  /\ \A j \in Job : BarIsRight(j)

IInv == Right(ui) /\ Joined /\ OnTable!IInv /\ OnWorkers!IInv

LEMMA TableTypes ==
  ASSUME OnTable!IInv
  PROVE  /\ jobs \subseteq Job
         /\ cell \in [Job -> OnTable!Cell]
         /\ thread \in [Job -> [at : OnTable!At, out : OnTable!Out]]
         /\ poll \in [Job -> [at : {"none", "back"}, seen : OnTable!Snapshot]]
         /\ \A j \in Job : j \in jobs <=> thread[j].at \in {"queued", "working", "ending", "leaving"}
BY DEF OnTable!IInv, OnTable!TableTypeOK, OnTable!JobIsRight, OnTable!Living

LEMMA WorkersTypes ==
  ASSUME OnWorkers!IInv
  PROVE  /\ session \in [Job -> {"none", "starting", "ready", "gone"}]
         /\ snapshot \in [Job -> OnWorkers!Heard]
         /\ reply \in [Job -> {"none", "made", "error"}]
         /\ worker \in [Job -> OnWorkers!WorkerRecord]
BY OnWorkers!Types DEF OnWorkers!IInv

SnapshotsAreHeard == snapshot \in [Job -> OnWorkers!Heard]

LEMMA WorkersTypesNext == OnWorkers!IInv' => SnapshotsAreHeard'
<1>1. OnWorkers!IInv => SnapshotsAreHeard
  BY WorkersTypes DEF SnapshotsAreHeard
<1> QED
  BY <1>1, PTL

LEMMA Ranks ==
  /\ \A p \in OnTable!Phase : PhaseRank(p) \in 0 .. 3
  /\ PhaseRank("Queued") = 0 /\ PhaseRank("Generating") = 1 /\ PhaseRank("Verifying") = 2
  /\ PhaseRank("Finished") = 3 /\ PhaseRank("Cancelled") = 3 /\ PhaseRank("Failed") = 3
BY DEF PhaseRank, OnTable!Phase

LEMMA BarHasRank == ASSUME NEW d, Right(d) PROVE PhaseRank(d.progress.phase) \in Nat
<1>1. d.progress.phase \in OnTable!Phase
  BY DEF Right, Ui, Bar
<1> QED
  BY <1>1, Ranks

LEMMA InitIsRight == Init => IInv
<1> SUFFICES ASSUME Init PROVE IInv
  OBVIOUS
<1>1. OnTable!IInv /\ OnWorkers!IInv
  BY SameTableInit, SameWorkersInit, Bounds, OnTable!InitIsRight, OnWorkers!InitIsRight DEF Init
<1>2. /\ cell = [j \in Job |-> OnTable!NewCell] /\ thread = [j \in Job |-> [at |-> "idle", out |-> "none"]]
      /\ poll = [j \in Job |-> OnTable!NoPoll] /\ snapshot = [j \in Job |-> OnWorkers!Unheard]
      /\ session = [j \in Job |-> "none"]
  BY SameTableInit, SameWorkersInit DEF Init, OnTable!TableInit, OnWorkers!WorkersInit
<1>3. ui.active = 0 /\ ui.progress.job = 0
  BY Nothing DEF Init
<1>4. ASSUME NEW j \in Job PROVE BarIsRight(j) /\ ~ Workers!Alive(j)
  BY <1>2, <1>3 DEF BarIsRight, OnTable!NewCell, OnTable!NoPoll, OnWorkers!Unheard,
     OnWorkers!Progress, Workers!Alive, Job
<1>5. Joined
  BY <1>2, <1>3, <1>4 DEF Joined, Init
<1> QED
  BY <1>1, <1>5, InitUi DEF IInv

-----------------------------------------------------------------------------
(* The steps of the back ends.                                             *)

(* The step is one of the desktop's table, about one job.                  *)
TableMoves(j) == OnTable!ThreadStep(j) \/ OnTable!CallStep(j) \/ OnTable!TableCall(j)

WorkersMove(j) ==
  OnWorkers!OpenSession(j) \/ OnWorkers!CancelSession(j) \/ OnWorkers!WorkersStep(j)

TableStep == UNCHANGED tableVars \/ \E j \in Job : TableMoves(j)
WorkersTurn == UNCHANGED workersVars \/ \E j \in Job : WorkersMove(j)

LEMMA AbandonIsCalls ==
  ASSUME Right(ui), Abandon
  PROVE  TableStep /\ WorkersTurn
<1>1. ui.active # 0 => ui.active \in Job
  BY Bounds DEF Right, Ui, Job
<1> QED
  BY <1>1, SameCalls, SameSessions DEF Abandon, TableStep, WorkersTurn, TableMoves, WorkersMove

LEMMA StepsOfBackEnds ==
  ASSUME Right(ui), Next
  PROVE  TableStep /\ WorkersTurn
<1>1. CASE OpenWizard \/ SetSkeleton \/ CloseWizard \/ Apply
  BY <1>1, AbandonIsCalls DEF OpenWizard, SetSkeleton, CloseWizard, Apply
<1>2. CASE MoveTip \/ UndoMove \/ RedoMove \/ \E j \in Job : BarWasFull(j)
  BY <1>2 DEF MoveTip, UndoMove, RedoMove, BarWasFull, Quietly, TableStep, WorkersTurn
<1>3. CASE GenerateProposal
  <2>1. ui.started + 1 \in Job
    BY <1>3, Bounds DEF GenerateProposal, Right, Ui, Job
  <2> QED
    BY <1>3, <2>1, SameCalls, SameSessions
    DEF GenerateProposal, TableStep, WorkersTurn, TableMoves, WorkersMove
<1>4. ASSUME NEW j \in Job, PollProgress(j) \/ TakeProgress(j) \/ TakeAnswer(j)
      PROVE  TableStep /\ WorkersTurn
  BY <1>4, SameCalls
  DEF PollProgress, TakeProgress, TakeAnswer, TableStep, WorkersTurn, TableMoves
<1>5. ASSUME NEW j \in Job, ThreadWorks(j) \/ CallWorks(j)
      PROVE  TableStep /\ WorkersTurn
  BY <1>5, SameCalls, SameThreadStep
  DEF ThreadWorks, CallWorks, TableStep, WorkersTurn, TableMoves
<1>6. ASSUME NEW j \in Job, WorkersWork(j)
      PROVE  TableStep /\ WorkersTurn
  BY <1>6, SameWorkersStep DEF WorkersWork, TableStep, WorkersTurn, WorkersMove
<1> QED
  BY <1>1, <1>2, <1>3, <1>4, <1>5, <1>6 DEF Next

LEMMA BackEndsKeep ==
  ASSUME IInv, Next
  PROVE  OnTable!IInv' /\ OnWorkers!IInv'
<1>1. TableStep /\ WorkersTurn
  BY StepsOfBackEnds DEF IInv
<1>2. OnTable!IInv'
  BY <1>1, OnTable!NextIsRight
  DEF IInv, TableStep, TableMoves, OnTable!TableNext, tableVars, OnTable!tableVars
<1>3. OnWorkers!IInv'
  <2>1. CASE UNCHANGED workersVars
    BY <2>1, OnWorkers!Unmoved DEF IInv, workersVars, OnWorkers!workersVars
  <2>2. ASSUME NEW j \in Job, WorkersMove(j) PROVE OnWorkers!IInv'
    BY <2>2, OnWorkers!StepIsRight DEF IInv, WorkersMove
  <2> QED
    BY <1>1, <2>1, <2>2 DEF WorkersTurn
<1> QED
  BY <1>2, <1>3

LEMMA RuntimeStays == ASSUME Next PROVE UNCHANGED runtime
BY DEF Next, OpenWizard, SetSkeleton, CloseWizard, Apply, MoveTip, UndoMove, RedoMove,
       Quietly, GenerateProposal, PollProgress, TakeProgress, BarWasFull, TakeAnswer,
       ThreadWorks, CallWorks, WorkersWork

(* What the thread of job j and the call that cancels it do to the bar.    *)
LEMMA RanksGrow ==
  ASSUME OnTable!IInv, NEW j \in Job, Table!ThreadStep(j) \/ Table!CallStep(j), j \in jobs, j \in jobs',
         thread[j].at = "queued" => cell[j].phase \in {"Queued", "Cancelled"}
  PROVE  PhaseRank(cell[j].phase) <= PhaseRank(cell'[j].phase)
<1>1. /\ cell \in [Job -> OnTable!Cell] /\ cell[j].phase \in OnTable!Phase
      /\ PhaseRank(cell[j].phase) \in 0 .. 3
  BY TableTypes, Ranks DEF OnTable!Cell
<1>2. CASE UNCHANGED cell
  BY <1>1, <1>2
<1>3. CASE cell'[j].phase \in {"Finished", "Cancelled", "Failed"}
  BY <1>1, <1>3, Ranks
<1>4. CASE cell'[j].phase = cell[j].phase
  BY <1>1, <1>4
<1>5. CASE Table!StartJob(j) \/ Table!Invalid(j) \/ Table!Gather(j)
  BY <1>2, <1>5 DEF Table!StartJob, Table!Invalid, Table!Gather
<1>6. CASE Table!Pack(j)
  <2>1. cell[j].cancel <=> cell[j].phase = "Cancelled"
    BY DEF OnTable!IInv, OnTable!JobIsRight, OnTable!CellIsRight
  <2>2. CASE cell[j].cancel
    BY <1>2, <1>6, <2>2 DEF Table!Pack
  <2>3. CASE ~ cell[j].cancel
    <3>1. cell[j].phase = "Queued"
      BY <1>6, <2>1, <2>3 DEF Table!Pack
    <3>2. cell'[j].phase = "Generating"
      BY <1>1, <1>6, <2>3 DEF Table!Pack, Table!Started
    <3> QED
      BY <3>1, <3>2, Ranks
  <2> QED
    BY <2>2, <2>3
<1>7. ASSUME NEW k \in Table!Worker, Table!BeginVerifying(j, k)
      PROVE  PhaseRank(cell[j].phase) <= PhaseRank(cell'[j].phase)
  <2>1. CASE cell[j].phase \in Table!Terminal
    BY <1>1, <1>4, <1>7, <2>1 DEF Table!BeginVerifying, OnTable!Cell
  <2>2. CASE cell[j].phase \notin Table!Terminal
    <3>1. cell'[j].phase = "Verifying" /\ cell[j].phase \in {"Queued", "Generating", "Verifying"}
      BY <1>1, <1>7, <2>2 DEF Table!BeginVerifying, OnTable!Cell, OnTable!Phase, Table!Terminal
    <3> QED
      BY <3>1, Ranks
  <2> QED
    BY <2>1, <2>2
<1>8. ASSUME NEW k \in Table!Worker, Table!EndWorker(j, k)
      PROVE  PhaseRank(cell[j].phase) <= PhaseRank(cell'[j].phase)
  <2>1. cell'[j].phase = "Failed" \/ cell'[j].phase = cell[j].phase
    BY <1>1, <1>8 DEF Table!EndWorker, Table!FinishOne, OnTable!Cell
  <2> QED
    BY <1>3, <1>4, <2>1
<1>9. CASE Table!Complete(j)
  <2>1. cell'[j].phase = "Cancelled" \/ cell'[j].phase = cell[j].phase
          \/ cell'[j].phase = Table!PhaseOf(thread[j].out)
    BY <1>1, <1>9 DEF Table!Complete, Table!Finished, OnTable!Cell
  <2> QED
    BY <1>3, <1>4, <2>1 DEF Table!PhaseOf
<1>10. CASE Table!Prune(j)
  BY <1>10 DEF Table!Prune
<1>11. CASE Table!CallStep(j)
  <2>1. cell' = cell \/ cell'[j].phase = "Cancelled"
    BY <1>1, <1>11 DEF Table!CallStep, Table!FindForCancel, Table!CancelJob, OnTable!Cell
  <2> QED
    BY <1>2, <1>3, <2>1
<1> QED
  BY <1>5, <1>6, <1>7, <1>8, <1>9, <1>10, <1>11 DEF Table!ThreadStep

LEMMA CountsWithinTotalNext == OnTable!IInv' => OnTable!CountsStayWithin'
BY OnTable!CountsWithinTotal, PTL

LEMMA CountsStayWithin ==
  ASSUME OnTable!IInv, OnTable!IInv', NEW j \in Job, Table!ThreadStep(j) \/ Table!CallStep(j),
         cell[j].done <= cell[j].total
  PROVE  cell'[j].done <= cell'[j].total
<1>1. cell \in [Job -> OnTable!Cell] /\ thread \in [Job -> [at : OnTable!At, out : OnTable!Out]]
  BY TableTypes
<1>2. CASE cell'[j].done = cell[j].done /\ cell'[j].total = cell[j].total
  BY <1>2
<1>3. CASE cell'[j] = Table!NewCell
  BY <1>3 DEF Table!NewCell
<1>4. CASE thread'[j].at = "working"
  BY <1>4, CountsWithinTotalNext DEF OnTable!CountsStayWithin
<1>5. CASE Table!StartJob(j) \/ Table!Prune(j)
  <2>1. cell' = cell \/ cell'[j] = Table!NewCell
    BY <1>1, <1>5 DEF Table!StartJob, Table!Prune, Table!Dropped
  <2> QED
    BY <1>2, <1>3, <2>1
<1>6. CASE Table!Invalid(j) \/ Table!Gather(j)
  BY <1>2, <1>6 DEF Table!Invalid, Table!Gather
<1>7. CASE Table!Pack(j)
  BY <1>1, <1>2, <1>4, <1>7 DEF Table!Pack, Table!Goes
<1>8. CASE \E k \in Table!Worker : Table!BeginVerifying(j, k) \/ Table!EndWorker(j, k)
  BY <1>4, <1>8 DEF Table!BeginVerifying, Table!EndWorker
<1>9. CASE Table!Complete(j)
  BY <1>1, <1>2, <1>9 DEF Table!Complete, Table!Finished, OnTable!Cell
<1>10. CASE Table!CallStep(j)
  BY <1>1, <1>2, <1>10 DEF Table!CallStep, Table!FindForCancel, Table!CancelJob, OnTable!Cell
<1> QED
  BY <1>5, <1>6, <1>7, <1>8, <1>9, <1>10 DEF Table!ThreadStep

LEMMA ThreadsGoOn ==
  ASSUME OnTable!IInv, NEW j \in Job, Table!ThreadStep(j) \/ Table!CallStep(j)
  PROVE  /\ UNCHANGED poll
         /\ thread' # thread => /\ thread[j].at \notin {"idle", "answered", "over"}
                                /\ thread'[j].at \notin {"idle", "sent", "over"}
         /\ thread'[j].at = "queued" => thread[j].at = "queued" \/ cell'[j].phase = "Queued"
         /\ cell' # cell /\ thread[j].at = "queued" /\ thread'[j].at = "queued"
              => cell'[j].phase = "Cancelled"
         /\ Table!ThreadStep(j) => thread[j].at # "idle"
         /\ j \in jobs' => j \in jobs \/ thread[j].at = "sent"
<1>1. cell \in [Job -> OnTable!Cell] /\ thread \in [Job -> [at : OnTable!At, out : OnTable!Out]]
  BY TableTypes
<1>2. CASE Table!StartJob(j)
  BY <1>1, <1>2 DEF Table!StartJob, Table!Goes, Table!NewCell
<1>3. CASE Table!Invalid(j) \/ Table!Gather(j)
  BY <1>1, <1>3 DEF Table!Invalid, Table!Gather, Table!Goes
<1>4. CASE Table!Pack(j)
  BY <1>1, <1>4 DEF Table!Pack, Table!Goes
<1>5. CASE Table!Complete(j) \/ Table!Prune(j)
  BY <1>1, <1>5 DEF Table!Complete, Table!Prune, Table!Goes
<1>6. CASE \E k \in Table!Worker : Table!BeginVerifying(j, k) \/ Table!EndWorker(j, k)
  <2>1. thread[j].at = "working" /\ UNCHANGED <<jobs, thread, poll>>
    BY <1>6 DEF Table!BeginVerifying, Table!EndWorker
  <2> QED
    BY <2>1
<1>7. CASE Table!CallStep(j)
  <2>1. /\ UNCHANGED <<jobs, thread, poll>>
        /\ cell' = cell \/ cell'[j].phase = "Cancelled"
    BY <1>1, <1>7 DEF Table!CallStep, Table!FindForCancel, Table!CancelJob, OnTable!Cell
  <2>2. Table!ThreadStep(j) => thread[j].at # "idle"
    BY DEF Table!ThreadStep, Table!StartJob, Table!Invalid, Table!Pack, Table!Gather,
           Table!Complete, Table!Prune, Table!BeginVerifying, Table!EndWorker
  <2> QED
    BY <2>1, <2>2
<1> QED
  BY <1>2, <1>3, <1>4, <1>5, <1>6, <1>7 DEF Table!ThreadStep

(* What a worker and its messages do to the session of job j.              *)
Lives(j) ==
  /\ UNCHANGED reply /\ session'[j] \in {"starting", "ready"}
  /\ PhaseRank(snapshot[j].phase) <= PhaseRank(snapshot'[j].phase)
  /\ snapshot'[j].done <= snapshot'[j].total

Ends(j) ==
  /\ reply'[j] \in {"made", "error"} /\ session'[j] = "gone"
  /\ snapshot'[j].done <= snapshot'[j].total

LEMMA EndEnds ==
  ASSUME OnWorkers!IInv, NEW j \in Job, NEW a \in {"made", "error"}, Workers!End(j, a)
  PROVE  /\ Ends(j) /\ session' = [session EXCEPT ![j] = "gone"]
         /\ snapshot' = [snapshot EXCEPT ![j] = snapshot'[j]]
BY WorkersTypes DEF Workers!End, Ends, Workers!Unheard, Workers!Progress

LEMMA WorkersGoOn ==
  ASSUME OnWorkers!IInv, NEW j \in Job, Workers!WorkersStep(j),
         snapshot[j].done <= snapshot[j].total
  PROVE  /\ Workers!Alive(j) /\ reply[j] = "none"
         /\ Lives(j) \/ Ends(j)
         /\ \A i \in Job : i # j => session'[i] = session[i] /\ snapshot'[i] = snapshot[i]
<1>1. /\ session \in [Job -> {"none", "starting", "ready", "gone"}]
      /\ snapshot \in [Job -> OnWorkers!Heard]
  BY WorkersTypes
<1>2. PhaseRank(snapshot[j].phase) <= PhaseRank(snapshot[j].phase)
  BY <1>1, Ranks DEF OnWorkers!Heard
<1>3. worker[j].at \in {"loading", "idle", "generating", "verifying"} => Workers!Alive(j)
  BY DEF OnWorkers!IInv, OnWorkers!JobIsRight, OnWorkers!Consistent, Workers!Alive
<1>4. Workers!Alive(j) => reply[j] = "none"
  BY DEF OnWorkers!IInv, OnWorkers!JobIsRight, OnWorkers!Answered, Workers!Alive
<1>5. CASE Workers!Load(j) \/ Workers!Computes(j)
  <2>1. /\ worker[j].at \in {"loading", "idle", "generating", "verifying"}
        /\ UNCHANGED <<session, snapshot, reply>>
    BY <1>5 DEF Workers!Load, Workers!Computes, Workers!Prepare, Workers!GenerateCandidate,
       Workers!VerifyCandidate, Workers!HandOut, Workers!GivesUp, Workers!Goes
  <2> QED
    BY <1>2, <1>3, <1>4, <2>1 DEF Lives, Workers!Alive
<1>6. CASE Workers!HearReady(j)
  <2>1. /\ Workers!Alive(j) /\ session'[j] = "ready" /\ UNCHANGED <<snapshot, reply>>
        /\ \A i \in Job : i # j => session'[i] = session[i]
    BY <1>1, <1>6 DEF Workers!HearReady, Workers!Arrives
  <2> QED
    BY <1>2, <1>4, <2>1 DEF Lives
<1>7. ASSUME Workers!Alive(j), NEW a \in {"made", "error"}, Workers!End(j, a)
      PROVE  /\ Workers!Alive(j) /\ reply[j] = "none" /\ Ends(j)
             /\ \A i \in Job : i # j => session'[i] = session[i] /\ snapshot'[i] = snapshot[i]
  BY <1>1, <1>4, <1>7, EndEnds
<1>8. CASE Workers!HearProgress(j) /\ Workers!Follows(snapshot[j], Head(mail[j]).progress)
  <2> DEFINE q == Head(mail[j]).progress
  <2>1. /\ Workers!Alive(j) /\ snapshot' = [snapshot EXCEPT ![j] = q]
        /\ UNCHANGED <<session, reply>>
    BY <1>8 DEF Workers!HearProgress, Workers!Arrives
  <2>2. q \in OnWorkers!Heard
    <3>1. mail[j] \in Seq(OnWorkers!Mail) /\ mail[j] # << >>
      BY <1>8, OnWorkers!Types DEF OnWorkers!IInv, Workers!HearProgress, Workers!Arrives
    <3>2. Head(mail[j]) \in OnWorkers!Mail
      BY <3>1
    <3> QED
      BY <3>2 DEF OnWorkers!Mail
  <2>3. snapshot'[j] = q
    BY <1>1, <2>1
  <2> HIDE DEF q
  <2>4. q.done <= q.total /\ Workers!Rank[q.phase] >= Workers!Rank[snapshot[j].phase]
    BY <1>8 DEF Workers!Follows, q
  <2>5. \A p \in {"Queued", "Generating", "Verifying"} : Workers!Rank[p] = PhaseRank(p)
    BY Ranks DEF Workers!Rank
  <2>6. PhaseRank(snapshot[j].phase) <= PhaseRank(q.phase)
    <3>1. /\ q.phase \in {"Queued", "Generating", "Verifying"}
          /\ snapshot[j].phase \in {"Queued", "Generating", "Verifying"}
      BY <1>1, <2>2 DEF OnWorkers!Heard
    <3>2. PhaseRank(q.phase) >= PhaseRank(snapshot[j].phase)
      BY <2>4, <2>5, <3>1
    <3> QED
      BY <3>1, <3>2, Ranks
  <2> QED
    BY <1>1, <1>4, <2>1, <2>3, <2>4, <2>6 DEF Lives, Workers!Alive
<1>9. CASE \/ Workers!HearBroken(j) \/ Workers!HearError(j) \/ Workers!HearMade(j)
           \/ Workers!ReadyTimeout(j) \/ Workers!WorkerError(j)
           \/ Workers!HearProgress(j) /\ ~ Workers!Follows(snapshot[j], Head(mail[j]).progress)
  <2>1. Workers!Alive(j) /\ (Workers!End(j, "error") \/ Workers!End(j, "made"))
    BY <1>9 DEF Workers!HearBroken, Workers!HearError, Workers!HearMade, Workers!ReadyTimeout,
       Workers!WorkerError, Workers!HearProgress, Workers!Arrives, Workers!Alive, Workers!Fail
  <2> QED
    BY <1>7, <2>1
<1> QED
  BY <1>5, <1>6, <1>8, <1>9 DEF Workers!WorkersStep, Workers!Hear

-----------------------------------------------------------------------------
(* The wizard stays joined to its back end.                                *)

(* A turn that calls nobody leaves the bar of the job it waits for alone.  *)
LEMMA QuietKeeps ==
  ASSUME IInv, Quietly,
         \/ ui.held # 0 /\ ui'.active = 0 /\ ui'.progress = NoProgress
         \/ ui'.active = ui.active /\ ui'.held = ui.held /\ ui'.progress = ui.progress
  PROVE  Joined'
<1> USE DEF Quietly, tableVars, workersVars
<1>1. ASSUME NEW j \in Job PROVE BarIsRight(j)'
  BY Nothing DEF IInv, Joined, BarIsRight, Workers!Alive, Job
<1>2. ASSUME NEW j \in Job, Workers!Alive(j)' PROVE ui'.active = j
  <2>1. ui.active = j /\ j # 0
    BY <1>2 DEF IInv, Joined, Workers!Alive, Job
  <2>2. CASE ui'.active = ui.active
    BY <2>1, <2>2
  <2>3. CASE ui.held # 0
    <3>1. ~ Workers!Alive(j)
      BY <2>1, <2>3 DEF IInv, Joined, Pending, Workers!Alive
    <3> QED
      BY <1>2, <3>1 DEF Workers!Alive
  <2> QED
    BY <2>2, <2>3
<1> QED
  BY <1>1, <1>2 DEF IInv, Joined, Pending, Workers!Alive

(* Whatever abandons a calculation lets go of its bar, and in the browser  *)
(* of its worker.                                                          *)
LEMMA AbandonKeeps ==
  ASSUME IInv, Abandon, UNCHANGED runtime, ui'.active = 0, ui'.progress = NoProgress
  PROVE  Joined'
<1>1. /\ session \in [Job -> {"none", "starting", "ready", "gone"}]
      /\ snapshot \in [Job -> OnWorkers!Heard]
  BY WorkersTypes DEF IInv
<1>2. /\ \A j \in Job : Workers!Alive(j) => ui.active = j
      /\ \A j \in Job : BarIsRight(j)
      /\ runtime \in {"tauri", "web"} /\ ui.active \in Job \union {0}
      /\ runtime = "tauri" => \A j \in Job : session[j] = "none"
      /\ runtime = "web" => \A j \in Job : thread[j].at = "idle"
  BY Bounds DEF IInv, Joined, Right, Ui, Job
<1>3. /\ UNCHANGED <<jobs, cell, thread, poll>>
      /\ \/ UNCHANGED <<session, snapshot>> /\ \A j \in Job : ~ Workers!Alive(j)
         \/ /\ runtime = "web" /\ ui.active \in Job
            /\ session' = [session EXCEPT ![ui.active] = "gone"]
            /\ snapshot' = [snapshot EXCEPT ![ui.active] = Workers!Unheard]
  <2>1. CASE ui.active = 0
    BY <1>2, <2>1 DEF Abandon, tableVars, workersVars, Job
  <2>2. CASE ui.active # 0 /\ runtime = "tauri"
    BY <1>2, <2>2 DEF Abandon, workersVars, Table!SendCancel, Workers!Alive
  <2>3. CASE ui.active # 0 /\ runtime = "web"
    BY <1>2, <2>3 DEF Abandon, tableVars, workersVars, Workers!CancelSession, Workers!End
  <2> QED
    BY <1>2, <2>1, <2>2, <2>3
<1>4. ASSUME NEW j \in Job
      PROVE  /\ BarIsRight(j)' /\ ~ Workers!Alive(j)'
             /\ runtime = "tauri" => session'[j] = "none"
  <2>1. ui'.progress.job # j
    BY Nothing DEF Job
  <2>2. session'[j] \notin {"starting", "ready"} /\ snapshot'[j].done <= snapshot'[j].total
    <3>1. CASE UNCHANGED <<session, snapshot>> /\ ~ Workers!Alive(j)
      BY <1>2, <3>1 DEF Workers!Alive, BarIsRight
    <3>2. CASE /\ session' = [session EXCEPT ![ui.active] = "gone"]
               /\ snapshot' = [snapshot EXCEPT ![ui.active] = Workers!Unheard]
      BY <1>1, <1>2, <3>2 DEF Workers!Alive, BarIsRight, Workers!Unheard, Workers!Progress
    <3> QED
      BY <1>3, <3>1, <3>2
  <2>3. BarIsRight(j)'
    BY <1>2, <1>3, <2>1, <2>2 DEF BarIsRight
  <2> QED
    BY <1>2, <1>3, <2>2, <2>3 DEF Workers!Alive
<1> QED
  BY <1>2, <1>3, <1>4 DEF Joined

(* A new calculation has neither progress nor an answer.                   *)
LEMMA GenerateKeeps ==
  ASSUME IInv, GenerateProposal
  PROVE  Joined' /\ Right(ui)'
<1> DEFINE j == ui.started + 1
<1>1. /\ Right(ui) /\ ui \in Ui /\ ui.open /\ ~ ui.busy /\ j \in Job /\ UNCHANGED runtime
      /\ ui' = StartProposalJob(ui, j) /\ ui.active = 0
      /\ \/ runtime = "tauri" /\ Table!SendGenerate(j) /\ UNCHANGED workersVars
         \/ runtime = "web" /\ Workers!OpenSession(j) /\ UNCHANGED tableVars
  BY Bounds DEF IInv, Right, Ui, Attends, Job, GenerateProposal
<1> HIDE DEF j
<1>2. j # 0 /\ j \in 0 .. MaxJobs
  BY <1>1, Bounds DEF Job
<1>3. /\ ui' \in Ui /\ ui'.active = j /\ ui'.job = j /\ ui'.of = ui.skeleton /\ ui'.busy
      /\ ui'.held = 0 /\ ui'.progress = NoProgress /\ ui'.open /\ ui'.skeleton = ui.skeleton
      /\ ui'.candidates = ui.candidates /\ ui'.past = ui.past /\ ui'.future = ui.future
  BY <1>1, <1>2, Nothing DEF StartProposalJob, Ui, Right, Attends
<1>4. Right(ui)'
  <2>1. Attends(ui')
    BY <1>2, <1>3, Nothing DEF Attends
  <2> QED
    BY <1>1, <1>3, <2>1 DEF Right, Now, OfTree
<1>5. /\ \A i \in Job : ~ Workers!Alive(i) /\ BarIsRight(i)
      /\ runtime \in {"tauri", "web"}
      /\ runtime = "tauri" => \A i \in Job : session[i] = "none"
      /\ runtime = "web" => \A i \in Job : thread[i].at = "idle"
  BY <1>1, Bounds DEF IInv, Joined, Job
<1>6. ASSUME NEW i \in Job PROVE ui'.progress.job # i
  BY <1>3, Nothing DEF Job
<1>7. CASE runtime = "tauri" /\ Table!SendGenerate(j) /\ UNCHANGED workersVars
  <2>1. /\ thread' = [thread EXCEPT ![j].at = "sent"] /\ thread[j].at = "idle"
        /\ UNCHANGED <<jobs, cell, poll, session, snapshot>>
        /\ thread \in [Job -> [at : OnTable!At, out : OnTable!Out]]
    BY <1>7, TableTypes DEF IInv, Table!SendGenerate, workersVars
  <2>2. thread'[j].at = "sent" /\ \A i \in Job : i # j => thread'[i] = thread[i]
    BY <1>1, <2>1
  <2>3. ASSUME NEW i \in Job PROVE BarIsRight(i)'
    BY <1>5, <1>6, <2>1, <2>2 DEF BarIsRight
  <2> QED
    BY <1>1, <1>3, <1>4, <1>5, <1>7, <2>1, <2>2, <2>3 DEF Joined, Workers!Alive, Pending
<1>8. CASE runtime = "web" /\ Workers!OpenSession(j) /\ UNCHANGED tableVars
  <2>1. /\ session' = [session EXCEPT ![j] = "starting"]
        /\ UNCHANGED <<jobs, cell, poll, thread, snapshot>>
        /\ session \in [Job -> {"none", "starting", "ready", "gone"}]
    BY <1>8, WorkersTypes DEF IInv, Workers!OpenSession, tableVars
  <2>2. session'[j] = "starting" /\ \A i \in Job : i # j => session'[i] = session[i]
    BY <1>1, <2>1
  <2>3. ASSUME NEW i \in Job PROVE BarIsRight(i)'
    BY <1>5, <1>6, <2>1, <2>2 DEF BarIsRight
  <2> QED
    BY <1>1, <1>3, <1>4, <1>5, <1>8, <2>1, <2>2, <2>3 DEF Joined, Workers!Alive, Pending
<1> QED
  BY <1>1, <1>7, <1>8

-----------------------------------------------------------------------------
(* What a poll and an answer bring.                                        *)
LEMMA ShowsIsRight ==
  ASSUME NEW d, Right(d), NEW j \in Job, NEW p, p.done \in 0 .. Candidates + 1,
         p.total \in 0 .. Candidates, p.phase \in OnTable!Phase, p.done <= p.total
  PROVE  LET e == Shows(d, j, p)
         IN /\ Right(e) /\ e.active = d.active /\ e.held = d.held
            /\ e.candidates = d.candidates /\ e.open = d.open
            /\ \/ e = d
               \/ /\ IsCurrent(d, j) /\ d.held = 0 /\ e.progress.job = j /\ e.progress.phase = p.phase
                  /\ e.progress.done = p.done
                  /\ d.progress.job = j => d.progress.done <= p.done
<1> DEFINE e == Shows(d, j, p)
           bar == [job |-> j, done |-> p.done, total |-> p.total, phase |-> p.phase]
<1>1. CASE e = d
  BY <1>1
<1>2. CASE e # d
  <2>1. /\ d \in Ui /\ e = [d EXCEPT !.progress = bar] /\ IsCurrent(d, j) /\ d.held = 0
        /\ ~ (d.progress.job = j /\ p.done < d.progress.done)
    BY <1>2 DEF Shows, Showing, Polls, Right
  <2>2. bar \in Bar /\ d.progress \in Bar
    BY <2>1, Bounds DEF Bar, Job, Ui
  <2> HIDE DEF bar, e
  <2>3. /\ e \in Ui /\ e.active = d.active /\ e.held = d.held /\ e.candidates = d.candidates
        /\ e.open = d.open /\ e.job = d.job /\ e.of = d.of /\ e.skeleton = d.skeleton
        /\ e.busy = d.busy /\ e.past = d.past /\ e.future = d.future /\ e.progress = bar
    BY <2>1, <2>2 DEF Ui
  <2>4. d.busy /\ d.job = j /\ j # 0
    BY <2>1 DEF Right, Attends, IsCurrent, Job
  <2>5. Attends(e)
    BY <2>3, <2>4 DEF Right, Attends, bar
  <2>6. Right(e)
    BY <2>3, <2>5 DEF Right, Now, OfTree
  <2>7. d.progress.job = j => d.progress.done <= p.done
    BY <2>1, <2>2, Bounds DEF Bar
  <2> QED
    BY <2>1, <2>3, <2>6, <2>7 DEF e, bar
<1> QED
  BY <1>1, <1>2

LEMMA MadeIsRight ==
  ASSUME NEW d, Right(d), NEW j \in Job, d.held # j
  PROVE  LET e == Made(d, j)
         IN /\ Right(e)
            /\ \/ e = d /\ ~ IsCurrent(d, j)
               \/ /\ IsCurrent(d, j) /\ d.held = 0 /\ e.held = j /\ e.active = j
                  /\ e.candidates = d.candidates
                  /\ e.progress.job = j /\ d.progress.job = j
                  /\ e.progress.phase = d.progress.phase
                  /\ d.progress.done <= e.progress.done
               \/ /\ IsCurrent(d, j) /\ e.active = 0 /\ e.progress = NoProgress
                  /\ e.candidates = d.skeleton /\ d.open
<1> DEFINE e == Made(d, j)
<1>1. CASE ~ IsCurrent(d, j)
  BY <1>1 DEF Made
<1>2. CASE IsCurrent(d, j) /\ ~ HoldsBar(d, j)
  BY <1>2, ShownIsRight DEF Made, IsCurrent, Right, Attends, Job
<1>3. CASE IsCurrent(d, j) /\ HoldsBar(d, j)
  <2> DEFINE bar == [d.progress EXCEPT !.done = d.progress.total]
  <2>1. /\ d \in Ui /\ d.progress \in Bar /\ d.progress.job = j /\ d.held = 0
        /\ d.active = j /\ d.job = j /\ d.busy /\ j # 0 /\ j \in 0 .. MaxJobs
        /\ d.progress.done <= d.progress.total
    BY <1>3, Bounds DEF HoldsBar, IsCurrent, Right, Ui, Attends, Job
  <2>2. /\ bar \in Bar /\ bar.job = j /\ bar.done = d.progress.total
        /\ bar.total = d.progress.total /\ bar.phase = d.progress.phase
    BY <2>1, Bounds DEF Bar
  <2>3. e = [d EXCEPT !.progress = bar, !.held = j]
    BY <1>3, <2>1 DEF Made, FullBar, Ui
  <2> HIDE DEF bar, e
  <2>4. /\ e \in Ui /\ e.active = d.active /\ e.held = j /\ e.candidates = d.candidates
        /\ e.open = d.open /\ e.job = d.job /\ e.of = d.of /\ e.skeleton = d.skeleton
        /\ e.busy = d.busy /\ e.past = d.past /\ e.future = d.future /\ e.progress = bar
    BY <2>1, <2>2, <2>3 DEF Ui
  <2>5. bar.done <= bar.total
    BY <2>2, Bounds DEF Bar
  <2>6. Attends(e)
    BY <2>1, <2>2, <2>4, <2>5 DEF Right, Attends
  <2>7. Right(e)
    BY <2>4, <2>6 DEF Right, Now, OfTree
  <2> QED
    BY <1>3, <2>1, <2>2, <2>4, <2>7 DEF e
<1> QED
  BY <1>1, <1>2, <1>3

LEMMA PollKeeps ==
  ASSUME IInv, NEW j \in Job, PollProgress(j)
  PROVE  Joined' /\ Right(ui)'
<1>1. /\ Right(ui) /\ Polls(ui, j) /\ UNCHANGED runtime /\ BarIsRight(j) /\ ui.active = j
      /\ \A i \in Job : BarIsRight(i)
  BY DEF IInv, Joined, PollProgress, Polls, IsCurrent
<1>2. CASE runtime = "tauri" /\ Table!ReadProgress(j) /\ UNCHANGED <<ui, workersVars>>
  <2>1. /\ j \in jobs
        /\ poll' = [poll EXCEPT ![j] = [at |-> "back", seen |-> [done |-> cell[j].done,
                                        total |-> cell[j].total, phase |-> cell[j].phase]]]
        /\ UNCHANGED <<jobs, cell, thread, ui, session, snapshot>>
        /\ poll \in [Job -> [at : {"none", "back"}, seen : OnTable!Snapshot]]
        /\ cell[j].phase \in OnTable!Phase
        /\ thread[j].at \in {"queued", "working", "ending", "leaving"}
    BY <1>2, TableTypes DEF IInv, Table!ReadProgress, workersVars, OnTable!Cell
  <2>2. PhaseRank(cell[j].phase) \in Nat
    BY <2>1, Ranks
  <2>3. ASSUME NEW i \in Job PROVE BarIsRight(i)'
    <3>1. CASE i = j
      <4>1. poll'[j] = [at |-> "back", seen |-> [done |-> cell[j].done,
                        total |-> cell[j].total, phase |-> cell[j].phase]]
        BY <2>1
      <4> QED
        BY <1>1, <2>1, <2>2, <3>1, <4>1 DEF BarIsRight, Workers!Alive
    <3>2. CASE i # j
      BY <1>1, <2>1, <3>2 DEF BarIsRight, Workers!Alive
    <3> QED
      BY <3>1, <3>2
  <2> QED
    BY <1>1, <1>2, <2>1, <2>3 DEF IInv, Joined, Workers!Alive, Pending
<1>3. CASE /\ runtime = "web" /\ Workers!Alive(j) /\ ui' = Shows(ui, j, snapshot[j])
           /\ UNCHANGED <<tableVars, workersVars>>
  <2>1. /\ UNCHANGED <<jobs, cell, thread, poll, session, snapshot>>
        /\ snapshot[j] \in OnWorkers!Heard /\ snapshot[j].done <= snapshot[j].total
        /\ thread[j].at = "idle" /\ j \notin jobs
    BY <1>1, <1>3, WorkersTypes, TableTypes DEF IInv, Joined, tableVars, workersVars, BarIsRight
  <2>2. /\ snapshot[j].done \in 0 .. Candidates + 1 /\ snapshot[j].total \in 0 .. Candidates
        /\ snapshot[j].phase \in OnTable!Phase
    BY <2>1, Bounds DEF OnWorkers!Heard, OnTable!Phase
  <2>3. /\ Right(ui') /\ ui'.active = ui.active /\ ui'.held = ui.held
        /\ \/ ui' = ui
           \/ ui'.progress.job = j /\ ui'.progress.phase = snapshot[j].phase
    BY <1>1, <1>3, <2>1, <2>2, ShowsIsRight
  <2>4. PhaseRank(snapshot[j].phase) \in Nat
    BY <2>2, Ranks
  <2>5. ASSUME NEW i \in Job PROVE BarIsRight(i)'
    <3>1. CASE ui' = ui
      BY <1>1, <2>1, <3>1 DEF BarIsRight, Workers!Alive
    <3>2. CASE ui'.progress.job = j /\ ui'.progress.phase = snapshot[j].phase
      BY <1>1, <1>3, <2>1, <2>4, <3>2 DEF BarIsRight, Workers!Alive
    <3> QED
      BY <2>3, <3>1, <3>2
  <2> QED
    BY <1>1, <1>3, <2>1, <2>3, <2>5 DEF IInv, Joined, Workers!Alive, Pending
<1> QED
  BY <1>2, <1>3 DEF PollProgress

LEMMA TakeProgressKeeps ==
  ASSUME IInv, NEW j \in Job, TakeProgress(j)
  PROVE  Joined' /\ Right(ui)'
<1>1. /\ Right(ui) /\ \A i \in Job : BarIsRight(i)
      /\ UNCHANGED <<runtime, jobs, cell, thread, session, snapshot>>
      /\ poll[j].at = "back" /\ poll' = [poll EXCEPT ![j] = Table!NoPoll]
      /\ ui' = Shows(ui, j, poll[j].seen)
      /\ poll \in [Job -> [at : {"none", "back"}, seen : OnTable!Snapshot]]
  BY TableTypes DEF IInv, Joined, TakeProgress, Table!TakeProgress, workersVars
<1>2. /\ poll[j].seen.done \in 0 .. Candidates + 1 /\ poll[j].seen.total \in 0 .. Candidates
      /\ poll[j].seen.phase \in OnTable!Phase /\ poll[j].seen.done <= poll[j].seen.total
      /\ thread[j].at \notin {"idle", "sent"}
  BY <1>1 DEF BarIsRight, OnTable!Snapshot
<1>3. /\ Right(ui') /\ ui'.active = ui.active /\ ui'.held = ui.held
      /\ \/ ui' = ui
         \/ ui'.progress.job = j /\ ui'.progress.phase = poll[j].seen.phase
  BY <1>1, <1>2, ShowsIsRight
<1>4. poll'[j].at = "none" /\ \A i \in Job : i # j => poll'[i] = poll[i]
  BY <1>1 DEF Table!NoPoll
<1>5. runtime = "tauri" /\ ~ Workers!Alive(j)
  BY <1>2 DEF IInv, Joined, Workers!Alive
<1>6. ASSUME NEW i \in Job PROVE BarIsRight(i)'
  <2>1. CASE ui' = ui
    BY <1>1, <1>4, <2>1 DEF BarIsRight, Workers!Alive
  <2>2. CASE ui'.progress.job = j /\ ui'.progress.phase = poll[j].seen.phase
    BY <1>1, <1>2, <1>4, <1>5, <2>2 DEF BarIsRight, Workers!Alive
  <2> QED
    BY <1>3, <2>1, <2>2
<1> QED
  BY <1>1, <1>3, <1>6 DEF IInv, Joined, Workers!Alive, Pending

LEMMA TakeAnswerKeeps ==
  ASSUME IInv, NEW j \in Job, TakeAnswer(j)
  PROVE  Joined' /\ Right(ui)'
<1>1. /\ Right(ui) /\ \A i \in Job : BarIsRight(i)
      /\ UNCHANGED <<runtime, jobs, cell, poll, session, snapshot>>
      /\ thread[j].at = "answered" /\ Table!Goes(j, "over", thread[j].out)
      /\ thread \in [Job -> [at : OnTable!At, out : OnTable!Out]]
      /\ ui' = IF thread[j].out = "made" THEN Made(ui, j) ELSE Failed(ui, j)
      /\ runtime = "tauri" /\ \A i \in Job : ~ Workers!Alive(i)
  BY TableTypes DEF IInv, Joined, TakeAnswer, Table!TakeAnswer, workersVars, Workers!Alive
<1>2. thread'[j].at = "over" /\ \A i \in Job : i # j => thread'[i] = thread[i]
  BY <1>1 DEF Table!Goes
<1>3. ui.held # j
  BY <1>1 DEF IInv, Joined, Right, Attends, Pending, Job
<1>4. /\ Right(ui')
      /\ \/ ui' = ui /\ ~ IsCurrent(ui, j)
         \/ /\ ui'.held = j /\ ui'.active = j /\ ui'.progress.job = j /\ ui.progress.job = j
            /\ ui'.progress.phase = ui.progress.phase
         \/ ui'.active = 0 /\ ui'.progress = NoProgress
  BY <1>1, <1>3, MadeIsRight, FailedIsRight
<1>5. CASE ui' = ui /\ ~ IsCurrent(ui, j)
  <2>1. ui.active # j
    BY <1>1, <1>5 DEF Right, Attends, IsCurrent, Job
  <2>2. ASSUME NEW i \in Job PROVE BarIsRight(i)'
    BY <1>1, <1>2, <1>5 DEF BarIsRight, Workers!Alive
  <2> QED
    BY <1>1, <1>2, <1>4, <1>5, <2>1, <2>2, Bounds
    DEF IInv, Joined, Workers!Alive, Pending, Right, Ui, Job
<1>6. CASE /\ ui'.held = j /\ ui'.active = j /\ ui'.progress.job = j /\ ui.progress.job = j
           /\ ui'.progress.phase = ui.progress.phase
  <2>1. ASSUME NEW i \in Job PROVE BarIsRight(i)'
    BY <1>1, <1>2, <1>6 DEF BarIsRight, Workers!Alive
  <2> QED
    BY <1>1, <1>2, <1>4, <1>6, <2>1 DEF IInv, Joined, Workers!Alive, Pending, Job
<1>7. CASE ui'.active = 0 /\ ui'.progress = NoProgress
  <2>1. ASSUME NEW i \in Job PROVE BarIsRight(i)'
    BY <1>1, <1>2, <1>7, Nothing DEF BarIsRight, Workers!Alive, Job
  <2> QED
    BY <1>1, <1>4, <1>7, <2>1 DEF IInv, Joined, Workers!Alive
<1> QED
  BY <1>4, <1>5, <1>6, <1>7

LEMMA TableStepKeeps ==
  ASSUME IInv, IInv => OnTable!IInv', NEW j \in Job, Table!ThreadStep(j) \/ Table!CallStep(j),
         UNCHANGED <<runtime, ui, workersVars>>
  PROVE  Joined'
<1>1. /\ \A i \in Job : BarIsRight(i)
      /\ OnTable!IInv /\ OnTable!IInv'
      /\ UNCHANGED <<runtime, ui, session, snapshot, poll>>
      /\ cell' \in [Job -> OnTable!Cell] /\ cell \in [Job -> OnTable!Cell]
      /\ thread \in [Job -> [at : OnTable!At, out : OnTable!Out]]
      /\ poll \in [Job -> [at : {"none", "back"}, seen : OnTable!Snapshot]]
  BY TableTypes, ThreadsGoOn DEF IInv, Joined, workersVars, OnTable!IInv, OnTable!TableTypeOK
<1>2. ASSUME NEW i \in Job, i # j
      PROVE  /\ i \in jobs' <=> i \in jobs
             /\ cell'[i] = cell[i] /\ thread'[i] = thread[i] /\ poll'[i] = poll[i]
  BY <1>1, <1>2, SameCalls, SameThreadStep, OnTable!StepsAreApart DEF OnTable!Apart
<1>3. /\ thread' # thread => /\ thread[j].at \notin {"idle", "answered", "over"}
                             /\ thread'[j].at \notin {"idle", "sent", "over"}
      /\ thread'[j].at = "queued" => thread[j].at = "queued" \/ cell'[j].phase = "Queued"
      /\ cell' # cell /\ thread[j].at = "queued" /\ thread'[j].at = "queued"
           => cell'[j].phase = "Cancelled"
      /\ j \in jobs' => j \in jobs \/ thread[j].at = "sent"
  BY <1>1, ThreadsGoOn
<1>4. cell'[j].done <= cell'[j].total
  BY <1>1, CountsStayWithin DEF BarIsRight
<1>5. thread[j].at = "queued" => cell[j].phase \in {"Queued", "Cancelled"}
  BY <1>1 DEF BarIsRight
<1>6. j \in jobs' /\ j \in jobs => PhaseRank(cell[j].phase) <= PhaseRank(cell'[j].phase)
  BY <1>1, <1>5, RanksGrow
<1>7. thread'[j].at = "queued" => cell'[j].phase \in {"Queued", "Cancelled"}
  BY <1>3, <1>5
<1>8. thread'[j].at \in {"idle", "sent"} => thread[j].at \in {"idle", "sent"} /\ thread' = thread
  BY <1>3
<1>9. /\ PhaseRank(cell[j].phase) \in Nat /\ PhaseRank(cell'[j].phase) \in Nat
      /\ poll[j].at = "back" => PhaseRank(poll[j].seen.phase) \in Nat
      /\ PhaseRank(ui.progress.phase) \in Nat
  <2>1. /\ cell[j].phase \in OnTable!Phase /\ cell'[j].phase \in OnTable!Phase
        /\ poll[j].seen.phase \in OnTable!Phase
    BY <1>1 DEF OnTable!Cell, OnTable!Snapshot
  <2> QED
    BY <2>1, Ranks, BarHasRank DEF IInv
<1>10. BarIsRight(j)'
  <2>1. poll[j].at = "back" /\ j \in jobs' =>
          PhaseRank(poll[j].seen.phase) <= PhaseRank(cell'[j].phase)
    BY <1>1, <1>3, <1>6, <1>9 DEF BarIsRight
  <2>2. ui.progress.job = j /\ j \in jobs' =>
          PhaseRank(ui.progress.phase) <= PhaseRank(cell'[j].phase)
    <3>1. SUFFICES ASSUME ui.progress.job = j, j \in jobs'
                   PROVE  PhaseRank(ui.progress.phase) <= PhaseRank(cell'[j].phase)
      OBVIOUS
    <3>2. runtime = "tauri"
      <4>1. thread[j].at # "idle"
        <5>1. j \in jobs \/ thread[j].at = "sent"
          BY <1>3, <3>1
        <5> QED
          BY <1>1, <5>1, TableTypes
      <4> QED
        BY <4>1 DEF IInv, Joined
    <3>3. j \in jobs
      BY <1>1, <1>3, <3>1, <3>2 DEF BarIsRight
    <3> QED
      BY <1>1, <1>6, <1>9, <3>1, <3>3 DEF BarIsRight
  <2> QED
    BY <1>1, <1>4, <1>7, <1>8, <2>1, <2>2 DEF BarIsRight, Workers!Alive
<1>11. ASSUME NEW i \in Job, i # j PROVE BarIsRight(i)'
  BY <1>1, <1>2, <1>11 DEF BarIsRight, Workers!Alive
<1>12. runtime = "web" => \A i \in Job : thread'[i].at = "idle"
  BY <1>3 DEF IInv, Joined
<1>13. ui.active # 0 => ui.active \in Job
  BY Bounds DEF IInv, Right, Ui, Job
<1>14. ui.active # 0 => (Pending(ui.active)' <=> Pending(ui.active))
  <2>1. SUFFICES ASSUME ui.active # 0 PROVE Pending(ui.active)' <=> Pending(ui.active)
    OBVIOUS
  <2>2. thread'[ui.active].at \in {"idle", "over"} <=> thread[ui.active].at \in {"idle", "over"}
    BY <1>2, <1>3, <1>13, <2>1
  <2> QED
    BY <1>1, <2>2 DEF Pending, Workers!Alive
<1> QED
  BY <1>1, <1>10, <1>11, <1>12, <1>14 DEF IInv, Joined, Workers!Alive

LEMMA WorkersStepKeeps ==
  ASSUME IInv, NEW j \in Job, WorkersWork(j)
  PROVE  Joined' /\ Right(ui)'
<1>1. /\ Right(ui) /\ \A i \in Job : BarIsRight(i)
      /\ UNCHANGED <<runtime, jobs, cell, poll, thread>>
      /\ Workers!WorkersStep(j) /\ Heard(j)
      /\ snapshot[j].done <= snapshot[j].total
  BY DEF IInv, Joined, BarIsRight, WorkersWork, tableVars
<1>2. /\ Workers!Alive(j) /\ reply[j] = "none"
      /\ Lives(j) \/ Ends(j)
      /\ \A i \in Job : i # j => session'[i] = session[i] /\ snapshot'[i] = snapshot[i]
  BY <1>1, WorkersGoOn DEF IInv
<1>3. /\ runtime = "web" /\ ui.active = j /\ ui.held = 0 /\ j # 0
      /\ \A i \in Job : i # j => ~ Workers!Alive(i)
      /\ \A i \in Job : thread[i].at = "idle"
  BY <1>2 DEF IInv, Joined, Workers!Alive, Pending, Job
<1>4. IsCurrent(ui, j)
  BY <1>1, <1>3 DEF Right, Attends, IsCurrent
<1>5. ASSUME NEW i \in Job, i # j, ui'.progress.job # i \/ ui'.progress = ui.progress
      PROVE  BarIsRight(i)' /\ ~ Workers!Alive(i)'
  BY <1>1, <1>2, <1>3, <1>5 DEF BarIsRight, Workers!Alive
<1>6. /\ PhaseRank(ui.progress.phase) \in Nat /\ PhaseRank(snapshot[j].phase) \in Nat
      /\ PhaseRank(snapshot'[j].phase) \in Nat
  <2>1. snapshot' \in [Job -> OnWorkers!Heard]
    <3>1. OnWorkers!IInv'
      BY <1>1, SameWorkersStep, OnWorkers!StepIsRight DEF IInv
    <3> QED
      BY <3>1, WorkersTypesNext DEF SnapshotsAreHeard
  <2>2. snapshot \in [Job -> OnWorkers!Heard]
    BY WorkersTypes DEF IInv
  <2> QED
    <3>1. snapshot[j].phase \in OnTable!Phase /\ snapshot'[j].phase \in OnTable!Phase
      BY <2>1, <2>2 DEF OnWorkers!Heard, OnTable!Phase
    <3> QED
      BY <1>1, <3>1, Ranks, BarHasRank
<1>7. CASE Lives(j)
  <2>1. ui' = ui /\ Workers!Alive(j)'
    BY <1>1, <1>7 DEF Heard, Lives, Workers!Alive
  <2>2. BarIsRight(j)'
    BY <1>1, <1>2, <1>6, <1>7, <2>1 DEF BarIsRight, Lives
  <2> QED
    BY <1>1, <1>3, <1>5, <2>1, <2>2 DEF Joined, Pending
<1>8. CASE Ends(j)
  <2>1. /\ ~ Workers!Alive(j)' /\ snapshot'[j].done <= snapshot'[j].total
        /\ ui' = Made(ui, j) \/ ui' = Failed(ui, j)
    BY <1>1, <1>2, <1>8 DEF Ends, Heard, Workers!Alive
  <2>2. /\ Right(ui')
        /\ \/ /\ ui'.held = j /\ ui'.active = j /\ ui'.progress.job = j /\ ui.progress.job = j
              /\ ui'.progress.phase = ui.progress.phase
           \/ ui'.active = 0 /\ ui'.progress = NoProgress
    BY <1>1, <1>3, <1>4, <2>1, MadeIsRight, FailedIsRight
  <2>3. ASSUME NEW i \in Job, i # j PROVE BarIsRight(i)' /\ ~ Workers!Alive(i)'
    BY <1>5, <2>2, <2>3, Nothing DEF Job
  <2>4. BarIsRight(j)'
    BY <1>1, <1>3, <2>1, <2>2, Nothing DEF BarIsRight, Job
  <2> QED
    BY <1>1, <1>3, <2>1, <2>2, <2>3, <2>4 DEF Joined, Pending
<1> QED
  BY <1>2, <1>7, <1>8

-----------------------------------------------------------------------------
(* Every turn of the screens, and what it does to the bar (Bars) and to    *)
(* the candidates on the screen (Arrivals).                                *)
Bars ==
  \/ ui'.progress = NoProgress
  \/ ui'.progress = ui.progress
  \/ \E j \in Job :
       /\ ui'.progress.job = j
       /\ ui.progress.job = j =>
            /\ ui.progress.done <= ui'.progress.done
            /\ PhaseRank(ui.progress.phase) <= PhaseRank(ui'.progress.phase)

Arrivals ==
  ui.active # 0 /\ ui'.active = 0 =>
    \/ ui'.candidates \in {ui.candidates, NoSkeleton}
    \/ ui.open /\ ui'.candidates = ui.skeleton

Turned == Right(ui') /\ Joined' /\ Bars /\ Arrivals

LEMMA RoundsTurn ==
  ASSUME IInv, OpenWizard \/ SetSkeleton \/ CloseWizard \/ Apply
  PROVE  Turned
<1>1. Right(ui) /\ Abandon /\ UNCHANGED runtime
  BY DEF IInv, OpenWizard, SetSkeleton, CloseWizard, Apply
<1>2. CASE OpenWizard
  <2>1. /\ Right(ui') /\ ui'.active = 0 /\ ui'.progress = NoProgress
        /\ ui'.candidates = NoSkeleton
    BY <1>1, <1>2, NewRoundIsRight DEF OpenWizard
  <2> QED
    BY <1>1, <2>1, AbandonKeeps DEF Turned, Bars, Arrivals
<1>3. CASE SetSkeleton
  <2>1. /\ Right(ui') /\ ui'.active = 0 /\ ui'.progress = NoProgress
        /\ ui'.candidates = NoSkeleton
    BY <1>1, <1>3, SetRoundIsRight DEF SetSkeleton
  <2> QED
    BY <1>1, <2>1, AbandonKeeps DEF Turned, Bars, Arrivals
<1>4. CASE CloseWizard \/ Apply
  <2>1. ui' = Closed(ui)
    BY <1>4 DEF CloseWizard, Apply
  <2>2. ui'.candidates = ui.candidates
    BY <1>1, <2>1 DEF Closed, Invalidate, Idle, Right, Ui
  <2>3. Right(ui') /\ ui'.active = 0 /\ ui'.progress = NoProgress
    BY <1>1, <2>1, ClosedIsRight
  <2> QED
    BY <1>1, <2>2, <2>3, AbandonKeeps DEF Turned, Bars, Arrivals
<1> QED
  BY <1>2, <1>3, <1>4

LEMMA MovesTurn ==
  ASSUME IInv, MoveTip \/ UndoMove \/ RedoMove
  PROVE  Turned
<1>1. /\ Right(ui) /\ ui \in Ui /\ ~ ui.busy /\ ui.active = 0 /\ Quietly
      /\ Now(ui) \in Moment /\ OfTree(ui.skeleton.tree, Now(ui))
      /\ History(ui.past, ui.skeleton.tree) /\ History(ui.future, ui.skeleton.tree)
  BY DEF IInv, Right, Ui, Attends, MoveTip, UndoMove, RedoMove, Now, Moment
<1>2. ASSUME NEW m \in Moment, OfTree(ui.skeleton.tree, m),
             NEW p, History(p, ui.skeleton.tree), NEW f, History(f, ui.skeleton.tree),
             ui' = [ui EXCEPT !.skeleton = m.skeleton, !.candidates = m.candidates,
                              !.past = p, !.future = f]
      PROVE  Turned
  <2>1. Right(ui')
    BY <1>1, <1>2, MovesAreRight
  <2>2. ui'.active = ui.active /\ ui'.held = ui.held /\ ui'.progress = ui.progress
    BY <1>1, <1>2 DEF Ui
  <2> QED
    BY <1>1, <2>1, <2>2, QuietKeeps DEF Turned, Bars, Arrivals
<1>3. CASE MoveTip
  <2>1. PICK kept \in {NoSkeleton, ui.candidates} :
          ui' = [ui EXCEPT !.skeleton.tips = @ + 1, !.candidates = kept,
                           !.past = Push(@, Now(ui)), !.future = << >>]
    BY <1>3 DEF MoveTip
  <2> DEFINE m == [skeleton |-> [ui.skeleton EXCEPT !.tips = @ + 1], candidates |-> kept]
  <2>2. ui.skeleton \in Skeleton /\ ui.skeleton.tips < MaxTips /\ kept \in Skeleton
    BY <1>1, <1>3, <2>1, Nothing DEF MoveTip, Ui
  <2>3. /\ m \in Moment /\ OfTree(ui.skeleton.tree, m)
    BY <1>1, <2>1, <2>2, Bounds DEF Moment, Skeleton, OfTree, Now
  <2>4. ui' = [ui EXCEPT !.skeleton = m.skeleton, !.candidates = m.candidates,
                         !.past = Push(ui.past, Now(ui)), !.future = << >>]
    BY <1>1, <2>1 DEF Ui
  <2>5. History(Push(ui.past, Now(ui)), ui.skeleton.tree)
    BY <1>1, PushKeeps
  <2> HIDE DEF m
  <2> QED
    BY <1>2, <2>3, <2>4, <2>5, NoHistory
<1>4. CASE UndoMove
  <2> DEFINE m == Last(ui.past)
  <2>1. /\ m \in Moment /\ OfTree(ui.skeleton.tree, m)
        /\ History(Front(ui.past), ui.skeleton.tree)
    BY <1>1, <1>4, FrontKeeps DEF UndoMove
  <2>2. History(Push(ui.future, Now(ui)), ui.skeleton.tree)
    BY <1>1, PushKeeps
  <2>3. ui' = [ui EXCEPT !.skeleton = m.skeleton, !.candidates = m.candidates,
                         !.past = Front(ui.past), !.future = Push(ui.future, Now(ui))]
    BY <1>1, <1>4 DEF UndoMove, Back, Ui
  <2> HIDE DEF m
  <2> QED
    BY <1>2, <2>1, <2>2, <2>3
<1>5. CASE RedoMove
  <2> DEFINE m == Last(ui.future)
  <2>1. /\ m \in Moment /\ OfTree(ui.skeleton.tree, m)
        /\ History(Front(ui.future), ui.skeleton.tree)
    BY <1>1, <1>5, FrontKeeps DEF RedoMove
  <2>2. History(Push(ui.past, Now(ui)), ui.skeleton.tree)
    BY <1>1, PushKeeps
  <2>3. ui' = [ui EXCEPT !.skeleton = m.skeleton, !.candidates = m.candidates,
                         !.past = Push(ui.past, Now(ui)), !.future = Front(ui.future)]
    BY <1>1, <1>5 DEF RedoMove, Back, Ui
  <2> HIDE DEF m
  <2> QED
    BY <1>2, <2>1, <2>2, <2>3
<1> QED
  BY <1>3, <1>4, <1>5

LEMMA AnswersTurn ==
  ASSUME IInv, NEW j \in Job, BarWasFull(j) \/ TakeAnswer(j) \/ WorkersWork(j)
  PROVE  Bars /\ Arrivals
<1>1. Right(ui) /\ j # 0
  BY DEF IInv, Job
<1>2. CASE ui' = ui
  BY <1>2 DEF Bars, Arrivals
<1>3. CASE ui' = Show(ui, j) /\ ui.active = j
  <2>1. ui.open
    BY <1>1, <1>3 DEF Right, Attends
  <2> QED
    BY <1>1, <1>3, <2>1, ShownIsRight DEF Bars, Arrivals
<1>4. CASE BarWasFull(j)
  BY <1>3, <1>4 DEF BarWasFull, IsCurrent
<1>5. CASE ui.held # j /\ ui' = Made(ui, j)
  <2>1. PhaseRank(ui.progress.phase) <= PhaseRank(ui.progress.phase)
    BY <1>1, BarHasRank
  <2> QED
    BY <1>1, <1>5, <2>1, MadeIsRight DEF Bars, Arrivals
<1>6. CASE ui.held # j /\ ui' = Failed(ui, j)
  BY <1>1, <1>6, FailedIsRight DEF Bars, Arrivals
<1>7. CASE TakeAnswer(j)
  <2>1. ui.held # j
    BY <1>1, <1>7 DEF IInv, Joined, Right, Attends, Pending, TakeAnswer, Table!TakeAnswer
  <2> QED
    BY <1>5, <1>6, <1>7, <2>1 DEF TakeAnswer
<1>8. CASE WorkersWork(j)
  <2>1. Workers!Alive(j)
    BY <1>8, WorkersGoOn DEF IInv, Joined, BarIsRight, WorkersWork
  <2>2. ui.held = 0
    BY <1>1, <2>1 DEF IInv, Joined, Workers!Alive, Pending
  <2> QED
    BY <1>1, <1>2, <1>5, <1>6, <1>8, <2>2 DEF WorkersWork, Heard
<1> QED
  BY <1>4, <1>7, <1>8

LEMMA PollsTurn ==
  ASSUME IInv, NEW j \in Job, PollProgress(j) \/ TakeProgress(j)
  PROVE  Bars /\ Arrivals
<1>1. Right(ui) /\ BarIsRight(j) /\ BarIsRight(j) /\ j # 0
  BY DEF IInv, Joined, Job
<1>2. CASE ui' = ui
  BY <1>2 DEF Bars, Arrivals
<1>3. ASSUME NEW p, ui' = Shows(ui, j, p), p.done \in 0 .. Candidates + 1,
             p.total \in 0 .. Candidates, p.phase \in OnTable!Phase, p.done <= p.total,
             ui.progress.job = j => PhaseRank(ui.progress.phase) <= PhaseRank(p.phase)
      PROVE  Bars /\ Arrivals
  BY <1>1, <1>3, ShowsIsRight DEF Bars, Arrivals
<1>4. CASE TakeProgress(j)
  <2>1. /\ poll[j].at = "back" /\ ui' = Shows(ui, j, poll[j].seen)
        /\ poll[j].seen \in OnTable!Snapshot
    BY <1>4, TableTypes DEF IInv, TakeProgress, Table!TakeProgress
  <2> QED
    BY <1>1, <1>3, <2>1 DEF BarIsRight, OnTable!Snapshot
<1>5. CASE PollProgress(j)
  <2>1. \/ ui' = ui
        \/ Workers!Alive(j) /\ ui' = Shows(ui, j, snapshot[j])
    BY <1>5 DEF PollProgress
  <2>2. /\ snapshot[j].done \in 0 .. Candidates + 1 /\ snapshot[j].total \in 0 .. Candidates
        /\ snapshot[j].phase \in OnTable!Phase
    BY WorkersTypes, Bounds DEF IInv, OnWorkers!Heard, OnTable!Phase
  <2> QED
    BY <1>1, <1>2, <1>3, <2>1, <2>2 DEF BarIsRight
<1> QED
  BY <1>4, <1>5

LEMMA NextTurns == ASSUME IInv, Next PROVE Turned
<1>1. CASE OpenWizard \/ SetSkeleton \/ CloseWizard \/ Apply
  BY <1>1, RoundsTurn
<1>2. CASE MoveTip \/ UndoMove \/ RedoMove
  BY <1>2, MovesTurn
<1>3. CASE GenerateProposal
  <2>1. ui'.progress = NoProgress /\ ui.active = 0
    BY <1>3 DEF IInv, Right, Ui, Attends, GenerateProposal, StartProposalJob
  <2> QED
    BY <1>3, <2>1, GenerateKeeps DEF Turned, Bars, Arrivals
<1>4. ASSUME NEW j \in Job, PollProgress(j) \/ TakeProgress(j)
      PROVE  Turned
  BY <1>4, PollsTurn, PollKeeps, TakeProgressKeeps DEF Turned
<1>5. ASSUME NEW j \in Job, BarWasFull(j)
      PROVE  Turned
  <2>1. /\ Right(ui) /\ ui.active = j /\ ui.held = j /\ ui' = Show(ui, j) /\ Quietly /\ j # 0
    BY <1>5 DEF IInv, BarWasFull, IsCurrent, Job
  <2>2. Right(ui') /\ ui'.active = 0 /\ ui'.progress = NoProgress
    BY <2>1, ShownIsRight
  <2> QED
    BY <1>5, <2>1, <2>2, QuietKeeps, AnswersTurn DEF Turned
<1>6. ASSUME NEW j \in Job, TakeAnswer(j) \/ WorkersWork(j)
      PROVE  Turned
  BY <1>6, AnswersTurn, TakeAnswerKeeps, WorkersStepKeeps DEF Turned
<1>7. ASSUME NEW j \in Job, ThreadWorks(j) \/ CallWorks(j)
      PROVE  Turned
  <2>1. /\ Table!ThreadStep(j) \/ Table!CallStep(j)
        /\ UNCHANGED <<runtime, ui, workersVars>>
    BY <1>7 DEF ThreadWorks, CallWorks
  <2>2. OnTable!IInv'
    BY BackEndsKeep
  <2>3. Joined'
    BY <2>1, <2>2, TableStepKeeps
  <2>4. Right(ui')
    BY <2>1 DEF IInv
  <2> QED
    BY <2>1, <2>3, <2>4 DEF Turned, Bars, Arrivals
<1> QED
  BY <1>1, <1>2, <1>3, <1>4, <1>5, <1>6, <1>7 DEF Next

-----------------------------------------------------------------------------
(* The theorems.                                                           *)
LEMMA StutterKeeps == ASSUME IInv, UNCHANGED vars PROVE IInv'
<1>1. UNCHANGED <<runtime, ui>> /\ UNCHANGED tableVars /\ UNCHANGED workersVars
  BY DEF vars
<1>2. OnTable!IInv' /\ OnWorkers!IInv'
  BY <1>1, OnTable!NextIsRight, OnWorkers!Unmoved
  DEF IInv, tableVars, OnTable!tableVars, workersVars, OnWorkers!workersVars
<1>3. ASSUME NEW j \in Job PROVE BarIsRight(j)'
  BY <1>1 DEF IInv, Joined, BarIsRight, Workers!Alive, tableVars, workersVars
<1>4. Joined'
  BY <1>1, <1>3 DEF IInv, Joined, Workers!Alive, Pending, tableVars, workersVars
<1>5. Right(ui')
  BY <1>1 DEF IInv
<1> QED
  BY <1>2, <1>4, <1>5 DEF IInv

(* What the wizard shows and waits for, and what its back end does, go     *)
(* together at every moment (proposalActions.ts, commands.rs:1592-2302,    *)
(* proposalJobRegistry.ts).                                                *)
THEOREM Invariance == Spec => []IInv
<1>1. IInv /\ [Next]_vars => IInv'
  BY StutterKeeps, NextTurns, BackEndsKeep DEF IInv, Turned
<1> QED
  BY <1>1, InitIsRight, PTL DEF Spec

(* TypeOK: every variable keeps its type, and the wizard's history its     *)
(* limit (proposalActions.ts:347-353).                                     *)
THEOREM TypeCorrect == Spec => []TypeOK
<1>1. IInv => TypeOK
  <2> SUFFICES ASSUME IInv PROVE TypeOK
    OBVIOUS
  <2>1. Table!TableTypeOK /\ Workers!WorkersTypeOK
    BY SameTableTypes, SameWorkersTypes DEF IInv, OnTable!IInv, OnWorkers!IInv
  <2>2. ui \in Ui /\ Len(ui.past) <= HistoryLimit /\ Len(ui.future) <= HistoryLimit
    BY DEF IInv, Right, History
  <2>3. runtime \in {"tauri", "web"}
    BY DEF IInv, Joined
  <2> QED
    BY <2>1, <2>2, <2>3 DEF TypeOK, Ui
<1> QED
  BY <1>1, Invariance, PTL

(* CandidatesAreOfThisTree (proposalActions.ts:434-460): no late answer    *)
(* and no undo brings the candidates of another tree on the screen.        *)
THEOREM CandidatesStayOfThisTree == Spec => []CandidatesAreOfThisTree
<1>1. IInv => CandidatesAreOfThisTree
  <2> SUFFICES ASSUME IInv PROVE CandidatesAreOfThisTree
    OBVIOUS
  <2>1. /\ OfTree(ui.skeleton.tree, Now(ui))
        /\ ui.past \in Seq(Moment) /\ ui.future \in Seq(Moment)
        /\ \A i \in 1 .. Len(ui.past) : OfTree(ui.skeleton.tree, ui.past[i])
        /\ \A i \in 1 .. Len(ui.future) : OfTree(ui.skeleton.tree, ui.future[i])
    BY DEF IInv, Right, History
  <2>2. ASSUME NEW m \in {Now(ui)} \union ToSet(ui.past) \union ToSet(ui.future)
        PROVE  OfTree(ui.skeleton.tree, m)
    BY <2>1, <2>2 DEF ToSet
  <2> QED
    BY <2>2 DEF CandidatesAreOfThisTree, OfTree
<1> QED
  BY <1>1, Invariance, PTL

(* WaitsForSomething (proposalActions.ts:84-110): a busy wizard waits for  *)
(* an answer that is to come, an idle one has left nothing behind.         *)
THEOREM AlwaysWaitsForSomething == Spec => []WaitsForSomething
<1>1. IInv => WaitsForSomething
  <2> SUFFICES ASSUME IInv PROVE WaitsForSomething
    OBVIOUS
  <2>1. Attends(ui) /\ Joined
    BY DEF IInv, Right
  <2>2. \A j \in Job : Workers!Alive(j) => IsCurrent(ui, j)
    BY <2>1 DEF Attends, Joined, IsCurrent, Job
  <2> QED
    BY <2>1, <2>2 DEF WaitsForSomething, Attends, Joined, IsCurrent
<1> QED
  BY <1>1, Invariance, PTL

(* ArrivalsFitTheScreen (proposalActions.ts:260-272): candidates arrive on *)
(* an open wizard that still shows the skeleton they were calculated from. *)
THEOREM ArrivalsAlwaysFit == Spec => ArrivalsFitTheScreen
<1>1. IInv /\ [Next]_vars =>
        [\A j \in Job : ui.active = j /\ ui'.active = 0 /\ ui'.candidates # ui.candidates
                          /\ ui'.candidates # NoSkeleton
           => ui.open /\ ui'.candidates = ui.skeleton]_vars
  BY NextTurns DEF Turned, Arrivals, Job
<1> QED
  BY <1>1, Invariance, PTL DEF Spec, ArrivalsFitTheScreen

(* ProgressGrows (commands.rs:1607, proposalActions.ts:150-170): the bar   *)
(* of a job never goes back and never past its end.                        *)
THEOREM ProgressAlwaysGrows == Spec => ProgressGrows
<1>1. IInv /\ [Next]_vars =>
        [/\ ui'.progress.done <= ui'.progress.total
         /\ ui'.progress.job # 0 => ui'.progress.job = ui'.job
         /\ ui'.progress.job # 0 /\ ui'.progress.job = ui.progress.job
              => /\ ui'.progress.done >= ui.progress.done
                 /\ PhaseRank(ui'.progress.phase) >= PhaseRank(ui.progress.phase)]_vars
  <2> SUFFICES ASSUME IInv, Next
               PROVE  /\ ui'.progress.done <= ui'.progress.total
                      /\ ui'.progress.job # 0 => ui'.progress.job = ui'.job
                      /\ ui'.progress.job # 0 /\ ui'.progress.job = ui.progress.job
                           => /\ ui'.progress.done >= ui.progress.done
                              /\ PhaseRank(ui'.progress.phase) >= PhaseRank(ui.progress.phase)
    OBVIOUS
  <2>1. Right(ui) /\ Right(ui') /\ Bars
    BY NextTurns DEF IInv, Turned
  <2>2. /\ ui.progress.done \in Nat /\ ui'.progress.done \in Nat
        /\ PhaseRank(ui.progress.phase) \in Nat /\ PhaseRank(ui'.progress.phase) \in Nat
    <3>1. ui.progress \in Bar /\ ui'.progress \in Bar
      BY <2>1 DEF Right, Ui
    <3>2. ui.progress.done \in Nat /\ ui'.progress.done \in Nat
      BY <3>1, Bounds DEF Bar
    <3>3. PhaseRank(ui.progress.phase) \in Nat
      BY <2>1, BarHasRank
    <3>4. PhaseRank(ui'.progress.phase) \in Nat
      <4> DEFINE d == ui'
      <4>1. Right(d)
        BY <2>1
      <4> HIDE DEF d
      <4>2. PhaseRank(d.progress.phase) \in Nat
        BY <4>1, BarHasRank
      <4> QED
        BY <4>2 DEF d
    <3> QED
      BY <3>2, <3>3, <3>4
  <2>3. /\ ui'.progress.done <= ui'.progress.total
        /\ ui'.progress.job # 0 => ui'.progress.job = ui'.job
    BY <2>1 DEF Right, Attends
  <2>4. ui'.progress.job # 0 /\ ui'.progress.job = ui.progress.job
          => /\ ui.progress.done <= ui'.progress.done
             /\ PhaseRank(ui.progress.phase) <= PhaseRank(ui'.progress.phase)
    BY <2>1, <2>2, Nothing DEF Bars
  <2> QED
    BY <2>2, <2>3, <2>4
<1> QED
  BY <1>1, Invariance, PTL DEF Spec, ProgressGrows

-----------------------------------------------------------------------------
(* What holds of the back ends by themselves holds of them here.           *)
LEMMA BackEndsAreUsedAsSuch == Spec => OnTable!TableSpec /\ OnWorkers!WorkersSpec
<1>1. Init => OnTable!TableInit /\ OnWorkers!WorkersInit
  BY SameTableInit, SameWorkersInit DEF Init
<1>2. IInv /\ [Next]_vars => [OnTable!TableNext]_(OnTable!tableVars)
  BY StepsOfBackEnds
  DEF IInv, vars, TableStep, TableMoves, OnTable!TableNext, tableVars, OnTable!tableVars
<1>3. IInv /\ [Next]_vars =>
        [\E j \in Job : OnWorkers!OpenSession(j) \/ OnWorkers!CancelSession(j)
                          \/ OnWorkers!WorkersStep(j)]_(OnWorkers!workersVars)
  BY StepsOfBackEnds
  DEF IInv, vars, WorkersTurn, WorkersMove, workersVars, OnWorkers!workersVars
<1> QED
  BY <1>1, <1>2, <1>3, Invariance, PTL DEF Spec, OnTable!TableSpec, OnWorkers!WorkersSpec

(* NothingMadeIsLost (commands.rs:2133-2139): what was made is handed out  *)
(* unless the job was cancelled or a search was given up or fell over.     *)
THEOREM WhatIsMadeIsHandedOut == Spec => NothingMadeIsLost
<1>1. OnTable!TableSpec => OnTable!NothingMadeIsLost
  BY OnTable!WhatIsMadeIsHandedOut, Bounds
<1>2. OnTable!NothingMadeIsLost <=> NothingMadeIsLost
  BY PTL DEF OnTable!NothingMadeIsLost, NothingMadeIsLost, Table!NothingMadeIsLost,
             OnTable!tableVars, Table!tableVars
<1> QED
  BY <1>1, <1>2, BackEndsAreUsedAsSuch, PTL

(* ProgressIsAccepted (proposalJobRegistry.ts:246-262): no message of a    *)
(* sound worker, however late it is heard, ends the job.                   *)
THEOREM ProgressIsAlwaysAccepted == Spec => []ProgressIsAccepted
<1>1. OnWorkers!WorkersSpec => []OnWorkers!ProgressIsAccepted
  BY OnWorkers!ProgressAlwaysAccepted, Bounds
<1>2. OnWorkers!ProgressIsAccepted <=> ProgressIsAccepted
  BY SameFollows, SameAlive DEF OnWorkers!ProgressIsAccepted, ProgressIsAccepted,
     Workers!ProgressIsAccepted, OnWorkers!Arrives, Workers!Arrives
<1> QED
  BY <1>1, <1>2, BackEndsAreUsedAsSuch, PTL

(* ContractKept (commands.rs:1786-1821, 1934-1937;                         *)
(* proposalJobRegistry.ts:279-307, 422-432): whichever back end it runs    *)
(* on, a job is answered once, and never with candidates after a           *)
(* cancellation that was granted.                                          *)
THEOREM ContractIsKept == Spec => ContractKept
<1>1. Init => Contract!Init
  <2> SUFFICES ASSUME Init PROVE Contract!Init
    OBVIOUS
  <2>1. /\ Table!TableAnswer = [j \in Job |-> "none"] /\ Table!Granted = {}
        /\ reply = [j \in Job |-> "none"] /\ stopped = {}
    BY SameTableInit, SameWorkersInit
    DEF Init, OnTable!TableInit, OnWorkers!WorkersInit, Table!TableAnswer, Table!Granted
  <2> QED
    BY <2>1 DEF Contract!Init
<1>2. IInv /\ [Next]_vars => [Contract!Next]_(Contract!vars)
  <2> SUFFICES ASSUME IInv, [Next]_vars PROVE Contract!Next \/ UNCHANGED Contract!vars
    OBVIOUS
  <2>1. UNCHANGED runtime /\ TableStep /\ WorkersTurn
    <3>1. CASE Next
      BY <3>1, StepsOfBackEnds, RuntimeStays DEF IInv
    <3>2. CASE UNCHANGED vars
      BY <3>2 DEF vars, TableStep, WorkersTurn
    <3> QED
      BY <3>1, <3>2
  <2>2. CASE runtime = "tauri"
    <3>1. OnTable!TableContract!Next \/ UNCHANGED OnTable!TableContract!vars
      <4>1. CASE UNCHANGED tableVars
        BY <4>1 DEF tableVars, OnTable!TableContract!vars, OnTable!TableAnswer, OnTable!Granted
      <4>2. ASSUME NEW j \in Job, TableMoves(j)
            PROVE  OnTable!TableContract!Next \/ UNCHANGED OnTable!TableContract!vars
        BY <4>2, OnTable!StepKeepsContract DEF IInv, TableMoves
      <4> QED
        BY <2>1, <4>1, <4>2 DEF TableStep
    <3>2. Table!TableAnswer = OnTable!TableAnswer /\ Table!Granted = OnTable!Granted
      BY DEF Table!TableAnswer, OnTable!TableAnswer, Table!Granted, OnTable!Granted
    <3>3. Table!TableAnswer' = OnTable!TableAnswer' /\ Table!Granted' = OnTable!Granted'
      BY DEF Table!TableAnswer, OnTable!TableAnswer, Table!Granted, OnTable!Granted
    <3>4. runtime' = "tauri"
      BY <2>1, <2>2
    <3> QED
      BY <2>2, <3>1, <3>2, <3>3, <3>4
      DEF Contract!Next, Contract!Withdraw, Contract!Deliver, Contract!Refuse,
          Contract!WithdrawAndRefuse, Contract!vars, OnTable!TableContract!Next,
          OnTable!TableContract!Withdraw, OnTable!TableContract!Deliver,
          OnTable!TableContract!Refuse, OnTable!TableContract!WithdrawAndRefuse,
          OnTable!TableContract!vars
  <2>3. CASE runtime # "tauri"
    <3>1. OnWorkers!WorkersContract!Next \/ UNCHANGED OnWorkers!WorkersContract!vars
      <4>1. CASE UNCHANGED workersVars
        BY <4>1 DEF workersVars, OnWorkers!WorkersContract!vars
      <4>2. ASSUME NEW j \in Job, WorkersMove(j)
            PROVE  OnWorkers!WorkersContract!Next \/ UNCHANGED OnWorkers!WorkersContract!vars
        BY <4>2, OnWorkers!StepKeepsContract DEF IInv, WorkersMove
      <4> QED
        BY <2>1, <4>1, <4>2 DEF WorkersTurn
    <3>2. runtime' # "tauri"
      BY <2>1, <2>3
    <3> QED
      BY <2>3, <3>1, <3>2
      DEF Contract!Next, Contract!Withdraw, Contract!Deliver, Contract!Refuse,
          Contract!WithdrawAndRefuse, Contract!vars, OnWorkers!WorkersContract!Next,
          OnWorkers!WorkersContract!Withdraw, OnWorkers!WorkersContract!Deliver,
          OnWorkers!WorkersContract!Refuse, OnWorkers!WorkersContract!WithdrawAndRefuse,
          OnWorkers!WorkersContract!vars
  <2> QED
    BY <2>2, <2>3
<1> QED
  BY <1>1, <1>2, Invariance, PTL DEF Spec, ContractKept, Contract!Spec
=============================================================================
