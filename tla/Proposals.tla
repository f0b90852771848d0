------------------------------ MODULE Proposals ------------------------------
(***************************************************************************)
(* The wizard that asks for proposals (proposalActions.ts), on the back    *)
(* end it found when the program started (runtime.ts:43): the desktop's    *)
(* table of jobs or the browser's workers.  An action is one turn of the   *)
(* event loop of the screens, or one step of the back end.                 *)
(***************************************************************************)
EXTENDS Integers, FiniteSetsExt, SequencesExt

CONSTANTS
  Candidates,    \* at most so many candidates per job
  HistoryLimit,  \* ANGLE_HISTORY_LIMIT: states of the wizard's own history
  MaxJobs,       \* bound: calculations asked for
  MaxWork,       \* bound: candidates of desktop jobs that run at once
  MaxPolls,      \* bound: polls on their way at a time
  MaxTips,       \* bound: moves of the tips of one skeleton
  MaxRounds      \* bound: the wizard is opened, or its skeleton replaced

ASSUME ProposalsBounds ==
  {Candidates, HistoryLimit, MaxJobs, MaxWork, MaxPolls, MaxTips, MaxRounds} \subseteq Nat

Job == 1 .. MaxJobs

VARIABLES
  runtime,                                              \* "tauri" or "web"
  ui,                                                   \* the state of the wizard
  jobs, cell, thread, work, cancel, poll,               \* see JobTable
  session, snapshot, reply, stopped, worker, mail       \* see JobWorkers

Table == INSTANCE JobTable
Workers == INSTANCE JobWorkers

tableVars == <<jobs, cell, thread, work, cancel, poll>>
workersVars == <<session, snapshot, reply, stopped, worker, mail>>
vars == <<runtime, ui, tableVars, workersVars>>

-----------------------------------------------------------------------------
(* The state of the wizard.  A skeleton is the round in which its tree was *)
(* drawn and where its tips are, in the air or on the paper; candidates    *)
(* are known by the skeleton they were calculated from.                    *)
NoSkeleton == [tree |-> 0, tips |-> 0]
NoProgress == [job |-> 0, done |-> 0, total |-> 0, phase |-> "Queued"]

Skeleton == [tree : 0 .. MaxRounds, tips : 0 .. MaxTips]
Moment == [skeleton : Skeleton, candidates : Skeleton]

TypeOK ==
  /\ runtime \in {"tauri", "web"}
  /\ ui.open \in BOOLEAN /\ ui.busy \in BOOLEAN
  /\ ui.skeleton \in Skeleton /\ ui.candidates \in Skeleton
  /\ ui.past \in Seq(Moment) /\ Len(ui.past) <= HistoryLimit
  /\ ui.future \in Seq(Moment) /\ Len(ui.future) <= HistoryLimit
  /\ ui.job \in 0 .. MaxJobs /\ ui.active \in 0 .. MaxJobs /\ ui.held \in 0 .. MaxJobs
  /\ ui.started \in 0 .. MaxJobs /\ ui.round \in 0 .. MaxRounds /\ ui.of \in Skeleton
  /\ Table!TableTypeOK /\ Workers!WorkersTypeOK

Init ==
  /\ runtime \in {"tauri", "web"}
  /\ ui = [open |-> FALSE, skeleton |-> NoSkeleton, candidates |-> NoSkeleton,
           past |-> << >>, future |-> << >>, round |-> 0,
           busy |-> FALSE, job |-> 0, progress |-> NoProgress,
           active |-> 0, of |-> NoSkeleton, held |-> 0, started |-> 0]
  /\ Table!TableInit /\ Workers!WorkersInit

-----------------------------------------------------------------------------
(* Handlers, as operators from the state they find to the state they leave.*)
(* `active' is activeProposalJob and `of' the skeleton it was asked for;   *)
(* proposalGeneration changes only together with it, so it is left out.    *)
IsCurrent(d, j) == d.active = j /\ d.job = j

(* The busy state of the wizard is given up.                               *)
Idle(d) == [d EXCEPT !.busy = FALSE, !.job = 0, !.progress = NoProgress]

(* invalidateProposalJob: timers stop and a full bar is let go.            *)
Invalidate(d) == Idle([d EXCEPT !.active = 0, !.of = NoSkeleton, !.held = 0])

(* The end of runProposalGeneration.                                       *)
Finally(d, j) == IF d.active = j THEN [d EXCEPT !.active = 0, !.of = NoSkeleton] ELSE d

(* The candidates of job j are shown.                                      *)
Show(d, j) ==
  Finally([Idle(d) EXCEPT !.candidates = d.of, !.open = TRUE, !.held = 0], j)

(* holdFullProposalBar: if progress was shown, it is full for a moment.    *)
HoldsBar(d, j) == d.progress.job = j /\ d.progress.total > 0

FullBar(d, j) == [d EXCEPT !.progress.done = d.progress.total, !.held = j]

(* The answer of job j: candidates, or an error.                           *)
Made(d, j) ==
  IF ~ IsCurrent(d, j) THEN d
  ELSE IF HoldsBar(d, j) THEN FullBar(d, j) ELSE Show(d, j)

Failed(d, j) == IF IsCurrent(d, j) THEN Finally(Idle(d), j) ELSE d

(* watchProposalProgress: what a poll of job j brings, if it still counts. *)
Polls(d, j) == IsCurrent(d, j) /\ d.held = 0

Showing(d, j, p) ==
  [d EXCEPT !.progress = [job |-> j, done |-> p.done, total |-> p.total, phase |-> p.phase]]

(* Mutant: what a poll brings is shown for whichever job runs.             *)
ShowsAnyhow(d, j, p) ==
  IF d.busy /\ d.held = 0 /\ p.done >= d.progress.done THEN Showing(d, j, p) ELSE d

Shows(d, j, p) ==
  IF Polls(d, j) /\ ~ (d.progress.job = j /\ p.done < d.progress.done)
  THEN Showing(d, j, p) ELSE d

(* proposalPositionSnapshot and the push that limits the history.          *)
Now(d) == [skeleton |-> d.skeleton, candidates |-> d.candidates]

(* Mutant: the history has no limit.                                       *)
PushUnlimited(s, m) == Append(s, m)

Push(s, m) == LET t == Append(s, m)
              IN IF Len(t) > HistoryLimit THEN Tail(t) ELSE t

-----------------------------------------------------------------------------
(* The user.  What starts something else abandons the calculation that     *)
(* runs, and asks the back end to cancel it; the browser's does so at once.*)
Abandon ==
  IF ui.active = 0 THEN UNCHANGED <<tableVars, workersVars>>
  ELSE IF runtime = "tauri"
       THEN Table!SendCancel(ui.active) /\ UNCHANGED workersVars
       ELSE /\ IF Workers!Alive(ui.active) THEN Workers!CancelSession(ui.active)
               ELSE UNCHANGED workersVars
            /\ UNCHANGED tableVars

NewRound(d) == [d EXCEPT !.round = @ + 1, !.skeleton = [tree |-> d.round + 1, tips |-> 0],
                         !.candidates = NoSkeleton, !.past = << >>, !.future = << >>]

OpenWizard ==
  /\ ui.round < MaxRounds
  /\ ui' = [NewRound(Invalidate(ui)) EXCEPT !.open = TRUE]
  /\ Abandon /\ UNCHANGED runtime

(* Mutants: what was calculated before comes back with an undo; the        *)
(* calculation under way is not abandoned.                                 *)
SetSkeletonKeepsHistory ==
  /\ ui.open /\ ui.round < MaxRounds
  /\ ui' = [NewRound(Invalidate(ui)) EXCEPT !.past = ui.past, !.future = ui.future]
  /\ Abandon /\ UNCHANGED runtime

(* setProposalSkeleton: the tree of the skeleton changes.                  *)
SetSkeleton ==
  /\ ui.open /\ ui.round < MaxRounds
  /\ ui' = NewRound(Invalidate(ui))
  /\ Abandon /\ UNCHANGED runtime

Closed(d) == [Invalidate(d) EXCEPT !.open = FALSE, !.past = << >>, !.future = << >>]

CloseWizard ==
  /\ ui.open
  /\ ui' = Closed(ui)
  /\ Abandon /\ UNCHANGED runtime

(* applyProposalCandidate; the document changes behind the queue of Desk.  *)
Apply ==
  /\ ui.open /\ ui.candidates # NoSkeleton
  /\ ui' = Closed(ui)
  /\ Abandon /\ UNCHANGED runtime

Quietly == UNCHANGED <<runtime, tableVars, workersVars>>

(* A tip is moved in the air, which drops the candidates, or on the paper, *)
(* or is put back, from the page of the paper or of the skeleton.  Moves   *)
(* that follow each other closely are one: they share one moment of the    *)
(* history.                                                                *)
MoveTip ==
  /\ ui.open /\ ~ ui.busy /\ ui.skeleton.tips < MaxTips
  /\ \E kept \in {NoSkeleton, ui.candidates} :
       ui' = [ui EXCEPT !.skeleton.tips = @ + 1, !.candidates = kept,
                        !.past = Push(@, Now(ui)), !.future = << >>]
  /\ Quietly

Back(d, m) == [d EXCEPT !.skeleton = m.skeleton, !.candidates = m.candidates]

(* Mutant: the wizard's undo works while it calculates.                    *)
UndoMoveWhileBusy ==
  /\ ui.open /\ ui.past # << >>
  /\ ui' = [Back(ui, Last(ui.past)) EXCEPT !.past = Front(@), !.future = Push(@, Now(ui))]
  /\ Quietly

UndoMove ==
  /\ ui.open /\ ~ ui.busy /\ ui.past # << >>
  /\ ui' = [Back(ui, Last(ui.past)) EXCEPT !.past = Front(@), !.future = Push(@, Now(ui))]
  /\ Quietly

RedoMove ==
  /\ ui.open /\ ~ ui.busy /\ ui.future # << >>
  /\ ui' = [Back(ui, Last(ui.future)) EXCEPT !.future = Front(@), !.past = Push(@, Now(ui))]
  /\ Quietly

(* startProposalJob and the call that follows in the same turn.            *)
StartProposalJob(d, j) ==
  [d EXCEPT !.started = j, !.active = j, !.of = d.skeleton,
            !.busy = TRUE, !.job = j, !.progress = NoProgress]

GenerateProposal ==
  /\ ui.open /\ ~ ui.busy /\ ui.started < MaxJobs
  /\ LET j == ui.started + 1
     IN /\ ui' = StartProposalJob(ui, j)
        /\ \/ runtime = "tauri" /\ Table!SendGenerate(j) /\ UNCHANGED workersVars
           \/ runtime = "web" /\ Workers!OpenSession(j) /\ UNCHANGED tableVars
  /\ UNCHANGED runtime

-----------------------------------------------------------------------------
(* Timers of the screens, and answers.                                     *)
PollProgress(j) ==
  /\ Polls(ui, j)
  /\ \/ /\ runtime = "tauri" /\ Cardinality({i \in Job : poll[i].at # "none"}) < MaxPolls
        /\ Table!ReadProgress(j) /\ UNCHANGED <<ui, workersVars>>
     \/ /\ runtime = "web" /\ Workers!Alive(j)
        /\ ui' = Shows(ui, j, snapshot[j])
        /\ UNCHANGED <<tableVars, workersVars>>
  /\ UNCHANGED runtime

TakeProgress(j) ==
  /\ Table!TakeProgress(j)
  /\ ui' = Shows(ui, j, poll[j].seen)
  /\ UNCHANGED <<runtime, workersVars>>

(* The moment of the full bar is over.                                     *)
BarWasFull(j) ==
  /\ ui.held = j /\ IsCurrent(ui, j)
  /\ ui' = Show(ui, j)
  /\ Quietly

TakeAnswer(j) ==
  /\ Table!TakeAnswer(j)
  /\ ui' = IF thread[j].out = "made" THEN Made(ui, j) ELSE Failed(ui, j)
  /\ UNCHANGED <<runtime, workersVars>>

(* Bound: jobs that run at once have few workers; a last job that runs     *)
(* alone may use all.                                                      *)
FewWorkers ==
  \/ MapThenSumSet(LAMBDA i : cell'[i].total, Job) <= MaxWork
  \/ \A i \in Job \ {MaxJobs} : thread[i].at = "over"

ThreadWorks(j) ==
  /\ Table!ThreadStep(j) /\ FewWorkers
  /\ UNCHANGED <<runtime, ui, workersVars>>

CallWorks(j) == Table!CallStep(j) /\ UNCHANGED <<runtime, ui, workersVars>>

(* In the browser the answer is there in the turn that ends the session.   *)
Heard(j) ==
  ui' = IF reply'[j] = reply[j] THEN ui
        ELSE IF reply'[j] = "made" THEN Made(ui, j) ELSE Failed(ui, j)

WorkersWork(j) ==
  Workers!WorkersStep(j) /\ Heard(j) /\ UNCHANGED <<runtime, tableVars>>

Next ==
  \/ OpenWizard \/ SetSkeleton \/ CloseWizard \/ Apply
  \/ MoveTip \/ UndoMove \/ RedoMove \/ GenerateProposal
  \/ \E j \in Job : \/ PollProgress(j) \/ TakeProgress(j) \/ BarWasFull(j) \/ TakeAnswer(j)
                    \/ ThreadWorks(j) \/ CallWorks(j) \/ WorkersWork(j)

Spec == Init /\ [][Next]_vars

(* What the program does about a job when left alone.                      *)
GoesOn(j) ==
  \/ ThreadWorks(j) \/ TakeAnswer(j) \/ BarWasFull(j)
  \/ /\ Workers!Computes(j) \/ Workers!Hear(j) \/ Workers!ReadyTimeout(j)
     /\ Heard(j) /\ UNCHANGED <<runtime, tableVars>>

(* Threads run, answers arrive and timers fire.  A search ends by itself or*)
(* by its watchdog; that a worker gets ready is not assumed, nor that a    *)
(* cancellation or a poll arrives, nor that the user does anything.        *)
(* A job has finitely many steps, so fairness to all of them is fairness   *)
(* to each.                                                                *)
FairSpec == Spec /\ WF_vars(\E j \in Job : GoesOn(j))

-----------------------------------------------------------------------------
(* proposalActions.ts:434-460: candidates, shown or a step of the wizard's *)
(* history away, are those of the tree on the screen: no late answer and   *)
(* no undo brings those of another.                                        *)
CandidatesAreOfThisTree ==
  \A m \in {Now(ui)} \union ToSet(ui.past) \union ToSet(ui.future) :
    /\ m.skeleton.tree = ui.skeleton.tree
    /\ m.candidates = NoSkeleton \/ m.candidates.tree = ui.skeleton.tree

(* proposalActions.ts:260-272: when candidates arrive, the skeleton they   *)
(* were calculated from is still the one on the screen, to the last tip,   *)
(* and the wizard is open.                                                 *)
ArrivalsFitTheScreen ==
  [][\A j \in Job : ui.active = j /\ ui'.active = 0 /\ ui'.candidates # ui.candidates
                      /\ ui'.candidates # NoSkeleton
       => ui.open /\ ui'.candidates = ui.skeleton]_vars

Pending(j) ==
  IF runtime = "tauri" THEN thread[j].at \notin {"idle", "over"} ELSE Workers!Alive(j)

(* proposalActions.ts:84-110: a busy wizard waits for a job whose answer   *)
(* is still to come and will count; an idle one has left nothing behind,   *)
(* neither a timer nor, in the browser, a worker.                          *)
WaitsForSomething ==
  /\ ui.busy => /\ ui.job # 0 /\ IsCurrent(ui, ui.job)
                /\ Pending(ui.job) \/ ui.held = ui.job
  /\ ~ ui.busy => ui.active = 0 /\ ui.job = 0 /\ ui.held = 0 /\ ui.progress = NoProgress
  /\ \A j \in Job : Workers!Alive(j) => IsCurrent(ui, j)

PhaseRank(p) ==
  CASE p = "Queued" -> 0 [] p = "Generating" -> 1 [] p = "Verifying" -> 2 [] OTHER -> 3

(* commands.rs:1607 and proposalActions.ts:150-170: the bar of a job never *)
(* goes back, neither in its count nor in its phase, and never past its    *)
(* end, whichever calls overtake each other.                               *)
ProgressGrows ==
  [][/\ ui'.progress.done <= ui'.progress.total
     /\ ui'.progress.job # 0 => ui'.progress.job = ui'.job
     /\ ui'.progress.job # 0 /\ ui'.progress.job = ui.progress.job
          => /\ ui'.progress.done >= ui.progress.done
             /\ PhaseRank(ui'.progress.phase) >= PhaseRank(ui.progress.phase)]_vars

(* Both back ends keep one contract.                                       *)
Contract ==
  INSTANCE JobContract
    WITH answer <- IF runtime = "tauri" THEN Table!TableAnswer ELSE reply,
         withdrawn <- IF runtime = "tauri" THEN Table!Granted ELSE stopped

ContractKept == Contract!Spec

(* commands.rs:2133-2139: candidates that were made are handed out unless  *)
(* the job was cancelled or a search was given up or fell over.            *)
NothingMadeIsLost == Table!NothingMadeIsLost

(* proposalJobRegistry.ts:246-262: in the browser no worker is stopped for  *)
(* what it says of its progress.                                           *)
ProgressIsAccepted == Workers!ProgressIsAccepted

(* ProposalWizard.tsx:867-972 keeps the dialog while it is busy, and       *)
(* commands.rs:1840 promises that every job leaves the table: a job always *)
(* comes to an end and the wizard is released, through errors, panics and  *)
(* workers that never start, and in the browser its worker is terminated.  *)
(* (`[]<> ~ P' says the same as `P ~> ~ P'.)                              *)
Occupies(j) == j \in jobs \/ Workers!Alive(j) \/ (ui.busy /\ ui.job = j)

JobsEnd == \A j \in Job : []<> ~ Occupies(j)
=============================================================================
