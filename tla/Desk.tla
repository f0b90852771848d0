-------------------------------- MODULE Desk --------------------------------
(***************************************************************************)
(* One window of the desktop program: the state of its screens, the queue  *)
(* of calls behind them and the document store that answers               *)
(* (commandService.ts, replayRuntime.ts, poseRuntime.ts,                  *)
(* poseReplayActions.ts, documentActions.ts).  An action is one turn of    *)
(* the JavaScript event loop: an input of the user, a timer, the start of  *)
(* a call, or its answer with all that the handler does before it waits    *)
(* again.                                                                  *)
(***************************************************************************)
EXTENDS IpcQueue, Integers, FiniteSetsExt, SequencesExt

CONSTANTS
  Inputs,     \* what the user does
  MaxInputs   \* how many times

VARIABLES
  queue,   \* the queue of calls
  store,   \* the document store: version, step ids, histories of undo and redo
  ui,      \* the state of the screens (useAppStore) and of the runtimes
  inputs   \* how many inputs there have been

vars == <<queue, store, ui, inputs>>

-----------------------------------------------------------------------------
(* The document store behind the queue, as far as the screens depend on it.*)
(* A version names a document; DocumentStore says what is in it.           *)
(* `adopted' is the version the last adopted proposal made.                *)
NextStepId(ids) == IF ids = <<>> THEN 0 ELSE Max(ToSet(ids)) + 1

Document(ids, past, future) ==
  [ver |-> store.ver + 1, ids |-> ids, past |-> past, future |-> future,
   adopted |-> store.adopted]

Commit(ids) == Document(ids, Append(store.past, store.ids), <<>>)

Opened == {Document(ids, <<>>, <<>>) : ids \in {<<>>, <<0>>}}

(* A pattern that replaces the whole document, and a proposal with steps.  *)
Replaced == {Commit(<<>>)}
Adopted == {[Commit(<<0>>) EXCEPT !.adopted = store.ver + 1]}

(* The steps that are kept when those with an id are removed.              *)
Without(ids, id) ==
  LET kept[i \in 0 .. Len(ids)] ==
        IF i = 0 THEN <<>>
        ELSE IF ids[i] = id THEN kept[i - 1] ELSE Append(kept[i - 1], ids[i])
  IN kept[Len(ids)]

(* Drawing, changing or removing creases, or removing a step.              *)
Edited ==
  {Commit(store.ids)} \union {Commit(Without(store.ids, id)) : id \in ToSet(store.ids)}

(* A fold behind the first upTo steps, and before it the pose on screen.   *)
FoldedAt(t) ==
  LET n     == NextStepId(store.ids)
      added == IF t.posed THEN <<n, n + 1>> ELSE <<n>>
  IN {Commit(SubSeq(store.ids, 1, t.upTo) \o added \o
             SubSeq(store.ids, t.upTo + 1, Len(store.ids))) : u \in {t.upTo} \cap 0 .. Len(store.ids)}

Pushed(t) == {Commit(Append(store.ids, t.id))}

Moved(t) ==
  {Commit(InsertAt(RemoveAt(store.ids, i), t.to, t.id)) :
     i \in {j \in DOMAIN store.ids : /\ store.ids[j] = t.id /\ t.to \in DOMAIN store.ids
                                     /\ IsInjective(store.ids)}}

Undone ==
  {Document(Last(store.past), Front(store.past), Append(store.future, store.ids)) :
     p \in {store.past} \ {<<>>}}

Redone ==
  {Document(Last(store.future), Append(store.past, store.ids), Front(store.future)) :
     f \in {store.future} \ {<<>>}}

(* The documents a call may lead to; none if the call must fail.           *)
Results(t) ==
  CASE t.kind = "edit" -> Edited
    [] t.kind = "new" -> Opened
    [] t.kind = "replace" -> Replaced
    [] t.kind = "adopt" -> Adopted
    [] t.kind = "fold" -> FoldedAt(t)
    [] t.kind = "push" -> Pushed(t)
    [] t.kind = "move" -> Moved(t)
    [] t.kind = "undo" -> Undone
    [] t.kind = "redo" -> Redone
    [] OTHER -> {store}

Changes == {"edit", "new", "replace", "adopt", "fold", "push", "move", "undo", "redo"}

(* isNewDocument: what the screens show starts afresh.                     *)
Fresh == {"new", "replace", "adopt"}

(* The calls that fail only when there is no document they lead to.        *)
Sure == {"push", "move", "undo", "redo"}

-----------------------------------------------------------------------------
(* The screens.  A handler is an operator from the state it finds to the   *)
(* state it leaves; `ask' is the call it makes, if it makes one.           *)
Call(d, t) == [d EXCEPT !.ask = [firm |-> TRUE, task |-> t]]
CallLatest(d, t) == [d EXCEPT !.ask = [firm |-> FALSE, task |-> t]]

Ask(q, a) == IF a = Null THEN q ELSE IF a.firm THEN Run(q, a.task) ELSE RunLatest(q, a.task)

Turn(q, d) == queue' = Ask(q, d.ask) /\ ui' = [d EXCEPT !.ask = Null]

Total(d) == Len(d.shown.ids)
FoldInsertAt(d) == IF d.at = Null THEN Total(d) ELSE Min({d.at, Total(d)})
Position(d) == IF d.at = Null THEN Total(d) ELSE d.at
Whole(d) == d.at = Null \/ d.full

(* The picture the screens want; a picture that reaches them, asked for    *)
(* when version `of' was shown; and one that does not.                     *)
Wanted(d) ==
  [ver |-> d.shown.ver, upTo |-> Min({Position(d), Total(d)}), full |-> Whole(d)]
Draw(d, picture, of) ==
  [d EXCEPT !.frame = picture, !.seen = IF of = d.shown.ver THEN "drawn" ELSE "late"]
Missed(d) == [d EXCEPT !.seen = "missed"]

Fail(d) == [d EXCEPT !.error = TRUE]

(* Mutants: the frame that was asked for still comes; the question of a    *)
(* fold stays on the screen; only a fold still asked about is released.    *)
StopPlaybackKeepsFrame(d) == [d EXCEPT !.playing = FALSE]
InvalidateAskedFold(d) == [d EXCEPT !.asking = 0]
FinishBusyIfAsked(d, token) == [d EXCEPT !.busy = IF @ = token /\ d.asking = token THEN 0 ELSE @]

StopPlayback(d) == [d EXCEPT !.playing = FALSE, !.due = FALSE]
InvalidateFold(d) == [d EXCEPT !.asking = 0, !.pending = Null]
FinishBusy(d, token) == [d EXCEPT !.busy = IF @ = token THEN 0 ELSE @]
ClearAngleHistory(d) == [d EXCEPT !.bent = FALSE, !.unbent = FALSE, !.undone = 0]

(* activateAngleIntent and cancelAngleIntent: what was asked before is old.*)
NewIntent(d) == [d EXCEPT !.generation = @ + 1, !.unfinished = d.generation + 1]
CancelIntent(d) == [d EXCEPT !.generation = @ + 1, !.unfinished = 0]

ReplayTask(d, over) ==
  [kind |-> "replay", upTo |-> Position(d), full |-> Whole(d), gen |-> d.generation,
   of |-> d.shown.ver, over |-> over]
PoseTask(d) ==
  [kind |-> "pose", upTo |-> Position(d), full |-> Whole(d), gen |-> d.generation,
   of |-> d.shown.ver, clears |-> Null]

(* runPoseSolve takes the timer's turn.                                    *)
AskPose(d) == Call([d EXCEPT !.timer = FALSE], PoseTask(d))

(* Mutant: the replay is asked for before the step is made whole.          *)
SyncSequenceHalfway(d) ==
  IF d.at = Null THEN Draw(d, Wanted(d), d.shown.ver)
    ELSE CallLatest([d EXCEPT !.full = TRUE], ReplayTask(d, FALSE))

SyncSequence(d) ==
  IF d.at = Null THEN Draw(d, Wanted(d), d.shown.ver)
    ELSE LET f == [d EXCEPT !.full = TRUE] IN CallLatest(f, ReplayTask(f, FALSE))

SyncPose(d) == AskPose(IF d.posed THEN CancelIntent(d) ELSE d)

ApplyView(d, s) ==
  [d EXCEPT !.shown = [ver |-> s.ver, ids |-> s.ids],
            !.at = IF s.ids = <<>> \/ @ = Null THEN Null ELSE Min({@, Len(s.ids)}),
            !.pending = Null, !.error = FALSE]

(* What a new document resets on top of that.                              *)
Afresh(d) ==
  LET n == ClearAngleHistory(StopPlayback(d))
  IN Draw([n EXCEPT !.epoch = @ + 1, !.generation = @ + 1, !.timer = FALSE, !.posed = FALSE,
                    !.at = Null, !.full = TRUE, !.busy = 0],
          [ver |-> d.shown.ver, upTo |-> Total(d), full |-> TRUE], d.shown.ver)

(* A document arrives: it is shown even if newer calls wait behind it.     *)
ShowResult(d, s, isNew) ==
  LET v == ApplyView(d, s)
      n == IF isNew THEN Afresh(v) ELSE v
  IN IF s.ids # <<>> THEN SyncSequence(n) ELSE IF isNew THEN n ELSE SyncPose(n)

SelectStep(d, step) ==
  LET s == InvalidateFold(StopPlayback(d))
  IN IF Total(d) = 0 THEN [s EXCEPT !.at = Null, !.full = TRUE]
     ELSE IF d.at = step /\ d.full THEN s
     ELSE LET n == [s EXCEPT !.at = step, !.full = TRUE] IN Call(n, ReplayTask(n, FALSE))

(* The shape that a set of angles gives, without waiting for the timer.    *)
ApplyAngleSnapshot(d) ==
  LET c == CancelIntent([d EXCEPT !.timer = FALSE])
  IN IF Total(c) > 0 THEN Call(c, ReplayTask(c, c.posed)) ELSE AskPose(c)

(* A change of the document is asked for; latestDocChange is this one.     *)
Change(d, t) == Call([d EXCEPT !.docChange = NextSeq(queue)], t)

ApplyFold(d, upTo, posed, base, owner) ==
  Change([Missed(d) EXCEPT !.at = IF upTo = Total(d) THEN Null
                                    ELSE upTo + (IF posed THEN 2 ELSE 1)],
         [kind |-> "fold", upTo |-> upTo, posed |-> posed, base |-> base, owner |-> owner,
          epoch |-> d.epoch, steps |-> Total(d)])

-----------------------------------------------------------------------------
(* Answers.  What follows a change of the document once its own picture is *)
(* settled is kept in `after'; what follows at once is ready at once.      *)
Follow(d, c, ok) ==
  [d EXCEPT !.after = @ \union
     {[of |-> c.seq, wait |-> IF d.ask = Null THEN 0 ELSE NextSeq(queue), task |-> c.task, ok |-> ok]}]

(* Mutant: as for a replay, a document behind which others wait is dropped.*)
AnswerChangeIfLatest(c, latest) ==
  /\ c.task.kind \in Changes
  /\ \/ \E s \in Results(c.task) :
          /\ store' = s
          /\ Turn(Finish(queue),
                  Follow(IF latest THEN ShowResult(ui, s, c.task.kind \in Fresh) ELSE ui, c, TRUE))
     \/ UNCHANGED store /\ Turn(Finish(queue), Follow(Fail(ui), c, FALSE))

AnswerChange(c, latest) ==
  /\ c.task.kind \in Changes
  /\ \/ \E s \in Results(c.task) :
          /\ store' = s
          /\ Turn(Finish(queue),
                  Follow(ShowResult(ui, s, c.task.kind \in Fresh), c, TRUE))
     \/ /\ c.task.kind \notin Sure \/ Results(c.task) = {}
        /\ Turn(Finish(queue), Follow(IF latest THEN Fail(ui) ELSE ui, c, FALSE))
        /\ UNCHANGED store

Picture(t) == [ver |-> store.ver, upTo |-> Min({t.upTo, Len(store.ids)}), full |-> t.full]

(* runReplay after its wait: an answer to an older intent, or behind which *)
(* another call waits, is dropped.                                         *)
AnswerReplay(c, latest) ==
  LET t == c.task
      Use(d) == Turn(Finish(queue), d)
  IN /\ t.kind = "replay"
     /\ UNCHANGED store
     /\ \/ t.gen # ui.generation /\ Use(Missed(ui))
        \/ t.gen = ui.generation /\ ~ latest /\ Use(Missed(ui))
        \/ t.gen = ui.generation /\ latest /\ Use(Missed(Fail(StopPlayback(ui))))
        \/ /\ t.gen = ui.generation /\ latest
           /\ Use(IF t.over
                    THEN Call([ui EXCEPT !.timer = FALSE],
                              [kind |-> "pose", upTo |-> t.upTo, full |-> t.full,
                               gen |-> t.gen, of |-> t.of, clears |-> Null])
                    ELSE Draw(ui, Picture(t), t.of))

(* runPoseSolve after its wait, and the finally of clearDriver.            *)
AnswerPose(c, latest) ==
  LET t == c.task
      Use(d) == Turn(Finish(queue), IF t.clears = d.generation THEN CancelIntent(d) ELSE d)
  IN /\ t.kind = "pose"
     /\ UNCHANGED store
     /\ \/ ~ (t.gen = ui.generation /\ latest) /\ Use(Missed(ui))
        \/ t.gen = ui.generation /\ latest /\ (Use(Missed(Fail(ui))) \/ Use(Draw(ui, Picture(t), t.of)))

(* requestFoldThrough after its wait: the fold is proposed, or applied at  *)
(* once, if nothing has happened since it was asked about.                 *)
AnswerPreview(c, latest) ==
  LET t == c.task
      Use(d) == Turn(Finish(queue), d)
      stale == t.epoch # ui.epoch \/ t.steps # Total(ui) \/ t.upTo # FoldInsertAt(ui)
  IN /\ t.kind = "preview"
     /\ UNCHANGED store
     /\ \/ ui.asking # c.seq /\ Use(FinishBusy(ui, c.seq))
        \/ ui.asking = c.seq /\ ~ latest /\ Use(FinishBusy(ui, c.seq))
        \/ ui.asking = c.seq /\ latest /\ Use(Fail(FinishBusy(ui, c.seq)))
        \/ /\ ui.asking = c.seq /\ latest /\ ~ stale
           /\ \/ Use([ui EXCEPT !.busy = 0,
                               !.pending = [upTo |-> t.upTo, posed |-> t.posed, epoch |-> ui.epoch,
                                            steps |-> Total(ui), base |-> store.ver]])
              \/ Use(ApplyFold(ui, t.upTo, t.posed, store.ver, c.seq))

(* A save; an export does the same with an error of its own.               *)
AnswerPlain(c) ==
  /\ c.task.kind = "plain"
  /\ UNCHANGED store
  /\ \E failed \in BOOLEAN : Turn(Finish(queue), [ui EXCEPT !.error = failed])

(* What comes after a change: applyDocChangeResult, applyFoldThrough, undo, *)
(* redo, recordPoseStep and moveStep go on.  same: the crease angles are    *)
(* still those the fold recorded (poseBeforeMatchesDrivers).               *)
Followed(d, k, same) ==
  LET t == k.task
      c == IF k.ok /\ t.kind \notin {"new", "undo", "redo"} THEN ClearAngleHistory(d) ELSE d
  IN CASE t.kind = "fold" ->
            LET f == FinishBusy(c, t.owner)
            IN IF ~ f.error /\ f.epoch = t.epoch /\ Total(f) > t.steps /\ t.posed /\ f.posed /\ same
                 THEN [f EXCEPT !.posed = FALSE, !.generation = @ + 1] ELSE f
       [] t.kind = "undo" -> IF c.error THEN c ELSE [c EXCEPT !.undone = @ + 1]
       [] t.kind = "redo" ->
            IF c.error \/ ~ t.counted \/ c.undone = 0 THEN c ELSE [c EXCEPT !.undone = @ - 1]
       [] t.kind = "push" ->
            IF c.error THEN c
            ELSE IF c.generation = t.gen THEN CancelIntent([c EXCEPT !.posed = FALSE])
            ELSE CallLatest([c EXCEPT !.timer = FALSE], PoseTask(c))
       [] t.kind = "move" -> IF k.ok THEN SelectStep(c, t.to) ELSE c
       [] OTHER -> c

Ready == {k \in ui.after : Settled(queue, k.wait)}

ChangeSettled == Settled(queue, ui.docChange) /\ \A k \in ui.after : k.of # ui.docChange

GoOn ==
  \E k \in Ready, same \in BOOLEAN :
    /\ Turn(queue, Followed([ui EXCEPT !.after = @ \ {k}], k, same))
    /\ UNCHANGED <<store, inputs>>

(* moveStep goes on when no change is under way: the step is looked up in  *)
(* the document that is shown then.                                        *)
MoveOn ==
  /\ ui.moving # Null /\ ChangeSettled
  /\ LET ids  == ui.shown.ids
         from == {i \in DOMAIN ids : ids[i] = ui.moving.id}
         to   == {i + ui.moving.delta : i \in {j \in from : \A k \in from : j <= k}}
                   \cap DOMAIN ids
         d    == [ui EXCEPT !.moving = Null]
     IN Turn(queue, IF to = {} THEN d
                    ELSE Change(InvalidateFold(StopPlayback(d)),
                                [kind |-> "move", id |-> ui.moving.id, to |-> Min(to),
                                 base |-> ui.shown.ver]))
  /\ UNCHANGED <<store, inputs>>

-----------------------------------------------------------------------------
(* Inputs of the user; no two within the animation frame in which playback *)
(* starts.                                                                 *)
Input(name) ==
  /\ Ready = {} /\ ~ ui.due
  /\ name \in Inputs /\ inputs < MaxInputs /\ inputs' = inputs + 1
  /\ UNCHANGED store

Stopped == InvalidateFold(StopPlayback(ui))

(* A change of creases or steps, or of the whole pattern; applyEdit.       *)
Edit ==
  /\ Input("edit")
  /\ \E kind \in {"edit", "replace"} : Turn(queue, Change(Stopped, [kind |-> kind]))

(* newDocument and openDocument.                                           *)
NewDocument == Input("new") /\ Turn(queue, Change(InvalidateFold(ui), [kind |-> "new"]))

(* applyProposalCandidate: the fold dialogue stays as it is.               *)
Adopt == Input("adopt") /\ Turn(queue, Change(ui, [kind |-> "adopt"]))

(* undo takes back a bent crease before it takes back an edit.             *)
Undo ==
  /\ Input("undo")
  /\ Turn(queue,
          IF ui.bent
            THEN ApplyAngleSnapshot([Stopped EXCEPT !.bent = FALSE, !.unbent = TRUE,
                                                    !.posed = FALSE, !.error = FALSE])
            ELSE Change(Stopped, [kind |-> "undo"]))

Redo ==
  /\ Input("redo")
  /\ Turn(queue,
          IF ui.undone = 0 /\ ui.unbent
            THEN ApplyAngleSnapshot([Stopped EXCEPT !.bent = TRUE, !.unbent = FALSE,
                                                    !.posed = TRUE, !.error = FALSE])
            ELSE Change(Stopped, [kind |-> "redo", counted |-> ui.undone > 0]))

Select(step) == Input("select") /\ Turn(queue, SelectStep(ui, step))

(* togglePlay and startPlayback.                                           *)
TogglePlay ==
  /\ Input("play")
  /\ IF ui.playing THEN Turn(queue, StopPlayback(ui))
     ELSE /\ Total(ui) > 0
          /\ LET again == ui.at = Null \/ (ui.at >= Total(ui) /\ ui.full)
                 d == Missed(InvalidateFold([ui EXCEPT !.playing = TRUE, !.due = TRUE]))
             IN Turn(queue, IF again THEN [d EXCEPT !.at = 0, !.full = TRUE] ELSE d)

(* setDriverAngle: the crease is bent, the timer solves the pose.  Of the  *)
(* angle history the model keeps whether there is a bend to take back      *)
(* (bent) or to put back (unbent), not how many.                           *)
SetAngle ==
  /\ Input("bend")
  /\ Turn(queue, NewIntent([InvalidateFold(ui) EXCEPT !.posed = TRUE, !.bent = TRUE,
                                                      !.unbent = FALSE, !.timer = TRUE]))

(* clearDriver; its intent ends with its pose.                             *)
ClearDriver ==
  /\ Input("flatten") /\ ui.posed
  /\ LET d == NewIntent([InvalidateFold(ui) EXCEPT !.posed = FALSE, !.bent = TRUE,
                                                   !.unbent = FALSE, !.timer = FALSE])
     IN Turn(queue, Call(d, [PoseTask(d) EXCEPT !.clears = d.generation]))

PoseSettled == ~ ui.timer /\ \A c \in Open(queue) : c.task.kind # "pose"

(* finishCurrentAngleIntent, once the pose it waits for is settled.        *)
FinishAngle ==
  /\ Input("finish") /\ PoseSettled
  /\ ui.unfinished # 0 /\ ui.unfinished = ui.generation
  /\ Turn(queue, ApplyAngleSnapshot(ui))

(* recordPoseStep: the pose becomes a step, numbered from what is shown.   *)
RecordPoseStep ==
  /\ Input("record") /\ PoseSettled
  /\ ~ ui.playing /\ ui.posed /\ ~ ui.error
  /\ Turn(queue, Change([Missed(Stopped) EXCEPT !.at = Null, !.error = FALSE],
                        [kind |-> "push", id |-> NextStepId(ui.shown.ids), gen |-> ui.generation]))

MoveStep(i, delta) ==
  /\ Input("move") /\ ui.moving = Null /\ i \in DOMAIN ui.shown.ids
  /\ Turn(queue, [ui EXCEPT !.moving = [id |-> ui.shown.ids[i], delta |-> delta]])

(* requestFoldThrough: the back end is asked what the fold would do.       *)
RequestFold ==
  /\ Input("fold") /\ ui.busy = 0 /\ ui.pending = Null
  /\ Turn(queue, Call([StopPlayback(ui) EXCEPT !.asking = NextSeq(queue), !.busy = NextSeq(queue),
                                               !.error = FALSE],
                      [kind |-> "preview", upTo |-> FoldInsertAt(ui), posed |-> ui.posed,
                       epoch |-> ui.epoch, steps |-> Total(ui)]))

(* resolveFoldThroughProposal, with or without the additional crease.      *)
ResolveFold ==
  /\ Input("fold") /\ ui.pending # Null /\ ui.busy = 0
  /\ LET p == ui.pending
         stale == \/ p.epoch # ui.epoch \/ p.steps # Total(ui) \/ p.upTo # FoldInsertAt(ui)
     IN Turn(queue, IF stale THEN Fail([ui EXCEPT !.pending = Null])
                    ELSE ApplyFold([ui EXCEPT !.busy = NextSeq(queue), !.error = FALSE],
                                   p.upTo, p.posed, p.base, NextSeq(queue)))

(* A save or an export: it waits its turn and changes nothing.             *)
Plain == Input("save") /\ Turn(queue, Call(ui, [kind |-> "plain"]))

-----------------------------------------------------------------------------
(* Timers, and the start and the answer of a call.                         *)

(* tick: a frame of the playback, at most one step on.                     *)
Tick ==
  /\ Ready = {} /\ ui.playing
  /\ LET s == Position(ui)
         To(step, full, playing) ==
           LET d == [ui EXCEPT !.at = step, !.full = full, !.playing = playing,
                                  !.due = FALSE]
           IN CallLatest(d, ReplayTask(d, FALSE))
     IN IF s >= Total(ui) THEN Turn(queue, To(Total(ui), TRUE, FALSE))
        ELSE \E full \in BOOLEAN : Turn(queue, To(s + 1, full, ~ full \/ s + 1 < Total(ui)))
  /\ UNCHANGED <<store, inputs>>

PoseTimer ==
  /\ Ready = {} /\ ui.timer
  /\ Turn(queue, CallLatest([ui EXCEPT !.timer = FALSE], PoseTask(ui)))
  /\ UNCHANGED <<store, inputs>>

StartCall ==
  /\ Ready = {} /\ CanStart(queue)
  /\ queue' = Start(queue) /\ UNCHANGED <<store, ui, inputs>>

Answer ==
  /\ Ready = {} /\ queue.running # Null
  /\ LET c == queue.running
         latest == IsLatest(queue)
     IN \/ AnswerChange(c, latest) \/ AnswerReplay(c, latest) \/ AnswerPose(c, latest)
        \/ AnswerPreview(c, latest) \/ AnswerPlain(c)
  /\ UNCHANGED inputs

-----------------------------------------------------------------------------
(* A document has been opened and is on the screen.                        *)
Init ==
  /\ queue = EmptyQueue /\ inputs = 0
  /\ \E ids \in {<<0>>, <<0, 1>>} :
       /\ store = [ver |-> 1, ids |-> ids, past |-> <<>>, future |-> <<>>, adopted |-> 0]
       /\ ui = [shown |-> [ver |-> 1, ids |-> ids],
                frame |-> [ver |-> 1, upTo |-> Len(ids), full |-> TRUE],
                at |-> Null, full |-> TRUE, playing |-> FALSE, due |-> FALSE, generation |-> 0,
                unfinished |-> 0, posed |-> FALSE, bent |-> FALSE, unbent |-> FALSE,
                timer |-> FALSE, epoch |-> 1, undone |-> 0, error |-> FALSE,
                asking |-> 0, busy |-> 0, pending |-> Null,
                docChange |-> 0, moving |-> Null, after |-> {}, ask |-> Null, seen |-> "drawn"]

Next ==
  \/ GoOn \/ MoveOn
  \/ Edit \/ NewDocument \/ Adopt \/ Undo \/ Redo
  \/ Select(Null) \/ (\E n \in 0 .. Total(ui) : Select(n)) \/ TogglePlay
  \/ SetAngle \/ ClearDriver \/ FinishAngle \/ RecordPoseStep
  \/ (\E i \in DOMAIN ui.shown.ids, delta \in {1, 0 - 1} : MoveStep(i, delta))
  \/ RequestFold \/ ResolveFold \/ Plain
  \/ Tick \/ PoseTimer \/ StartCall \/ Answer

Spec == Init /\ [][Next]_vars

(* The event loop runs what is ready, the back end answers every call with *)
(* a result or an error, and a timer that was set fires.                   *)
Fairness ==
  /\ WF_vars(GoOn) /\ WF_vars(MoveOn) /\ WF_vars(StartCall) /\ WF_vars(Answer)
  /\ WF_vars(Tick) /\ WF_vars(PoseTimer)

FairSpec == Spec /\ Fairness

-----------------------------------------------------------------------------
Task ==
  [kind : {"edit", "new", "replace", "adopt", "undo", "plain"}]
    \union [kind : {"redo"}, counted : BOOLEAN]
    \union [kind : {"push"}, id : Nat, gen : Nat]
    \union [kind : {"move"}, id : Nat, to : Nat, base : Nat]
    \union [kind : {"preview"}, upTo : Nat, posed : BOOLEAN, epoch : Nat, steps : Nat]
    \union [kind : {"fold"}, upTo : Nat, posed : BOOLEAN, base : Nat, owner : Nat,
            epoch : Nat, steps : Nat]
    \union [kind : {"replay"}, upTo : Nat, full : BOOLEAN, gen : Nat, of : Nat, over : BOOLEAN]
    \union [kind : {"pose"}, upTo : Nat, full : BOOLEAN, gen : Nat, of : Nat,
            clears : Nat \union {Null}]

(* The screens, between turns and while a handler runs.                    *)
Screens(asks) ==
  [shown : [ver : Nat, ids : Seq(Nat)], frame : [ver : Nat, upTo : Nat, full : BOOLEAN],
   at : Nat \union {Null}, full : BOOLEAN, playing : BOOLEAN, due : BOOLEAN,
   generation : Nat, unfinished : Nat, posed : BOOLEAN, bent : BOOLEAN, unbent : BOOLEAN,
   timer : BOOLEAN, epoch : Nat, undone : Nat, error : BOOLEAN, asking : Nat, busy : Nat,
   pending : [upTo : Nat, posed : BOOLEAN, epoch : Nat, steps : Nat, base : Nat] \union {Null},
   docChange : Nat, moving : [id : Nat, delta : {1, 0 - 1}] \union {Null},
   after : SUBSET [of : Nat, wait : Nat, task : Task, ok : BOOLEAN],
   ask : asks, seen : {"drawn", "late", "missed"}]

Ui == Screens({Null})

(* Null stands for the absence of a position, of a call or of a request.   *)
ASSUME DeskValues ==
  /\ MaxInputs \in Nat
  /\ Null \notin Nat
  /\ Null \notin Cell(Task)
  /\ Null \notin [firm : BOOLEAN, task : Task]

(* Types; playback is only due while it plays, and an intent that waits to *)
(* be finished is not newer than the current one.                          *)
TypeOK ==
  /\ queue \in SerialQueue(Task)
  /\ store \in [ver : Nat, ids : Seq(Nat), past : Seq(Seq(Nat)), future : Seq(Seq(Nat)),
               adopted : Nat]
  /\ ui \in Ui
  /\ ui.due => ui.playing
  /\ ui.unfinished <= ui.generation
  /\ inputs \in 0 .. MaxInputs

(* ipcQueue.ts:56-57: the line stays in order and only a call that may be  *)
(* dropped, with nothing behind it, can be replaced.                       *)
QueueIsSound == QueueSound(queue)

(* ipcQueue.ts:1-14: whatever the screens ask for, and whenever, their     *)
(* calls reach the back end as CallLine says.                              *)
Line == INSTANCE CallLine WITH
  asked <- queue.latestSeq,
  firm <- Waiting(queue, TRUE),
  loose <- Waiting(queue, FALSE)

LineSpec == Line!Spec

(* commandService.ts:261-308: while no change of the document is open the  *)
(* screens show the document of the store, although an answer may come     *)
(* when newer calls wait behind it and a later one may have failed.        *)
ShownIsStored ==
  (\A c \in Open(queue) : c.task.kind \notin Changes) =>
    ui.shown = [ver |-> store.ver, ids |-> store.ids]

Quiet ==
  /\ queue.running = Null /\ queue.waiting = <<>>
  /\ ui.after = {} /\ ui.moving = Null /\ ~ ui.playing /\ ~ ui.timer

(* poseStep.ts:119 says that the screens number a step as the store does:  *)
(* then no two steps have the same id (violated: findings).                *)
StepIdsUnique == IsInjective(store.ids)

(* replayRuntime.ts:69, poseRuntime.ts:350: when everything has settled    *)
(* and the last picture was drawn, asked for when the document was shown   *)
(* that is shown now, it is the one that the position in the sequence and  *)
(* the document call for, whatever was asked, overtaken or dropped before. *)
(* With two steps of one id it need not be: the move of a step stops the   *)
(* playback that has just gone back to the start, and then fails.          *)
PictureIsTheOneWanted ==
  Quiet /\ ui.seen = "drawn" /\ StepIdsUnique => ui.frame = Wanted(ui)

(* documentActions.ts:426, 1362; poseReplayActions.ts:480: a fold or a     *)
(* move of a step runs on the document for which it was made: one that is  *)
(* overtaken by another change is given up, not carried out elsewhere.     *)
(* The adoption of a proposal is the exception: proposalActions.ts:768     *)
(* leaves the question of the fold open.                                   *)
RunsOnWhatItWasMadeFor ==
  (queue.running # Null /\ queue.running.task.kind \in {"fold", "move"}) =>
    queue.running.task.base = store.ver \/ store.adopted > queue.running.task.base

(* documentActions.ts:432: whatever becomes of a fold (an error, a newer   *)
(* call, a new document, a question to the user) the screens are released. *)
BusyEnds == (ui.busy # 0) ~> (ui.busy = 0)

(* ipcQueue.ts:7-8 says that an older document never overwrites a newer    *)
(* one on the screen and that the newest answer always comes: then the     *)
(* picture is the wanted one unless it was dropped (violated: findings).   *)
ScreenFollows == Quiet /\ ui.seen # "missed" => ui.frame = Wanted(ui)
=============================================================================
