---------------------------- MODULE WebRecovery ----------------------------
(***************************************************************************)
(* The recovery area of the browser version: the autosave of one tab       *)
(* (AutosaveScheduler.ts), the storage behind it (WebRecoveryRepository.ts, *)
(* recoveryPorts.ts) and the commands of the user that go through it       *)
(* (WebRecoveryRuntime.ts, browserDocumentInvoker.ts).  An action is one   *)
(* turn of the event loop between two awaits, or one storage transaction.  *)
(* A work is the set of its edits; numbers name candidates, 0 is none.     *)
(***************************************************************************)
EXTENDS Integers, Sequences

CONSTANTS
  Absent,     \* no entry, no command
  MaxId,      \* bound: candidate numbers
  MaxEdit,    \* bound: edits and imported works
  MaxInput,   \* bound: commands of the user
  MaxClose,   \* bound: times the tab is closed
  MaxFault,   \* bound: storage operations that fail
  MaxWaiting  \* bound: operations the timers queue up

ASSUME BoundsAssumption ==
  /\ MaxId \in Nat /\ MaxEdit \in Nat /\ MaxInput \in Nat
  /\ MaxClose \in Nat /\ MaxFault \in Nat /\ MaxWaiting \in Nat
  /\ Absent \notin {"opfs", "indexeddb"} /\ \A w \in SUBSET (1 .. MaxEdit) : w # Absent

Id == 1 .. MaxId
Work == SUBSET (1 .. MaxEdit)
Blank == {}

VARIABLES
  disk,   \* survives the tab: candidates, their payloads, the user's files
  core,   \* the worker: the work and whether it was changed since it was saved
  sch,    \* the fields of AutosaveScheduler; mine is a history of what was
          \* written for the work in hand or is its source
  ops,    \* its queue of promises, the running operation first
  cmd,    \* the command of the user under way, or Absent
  spent   \* what the bounds count

vars == <<disk, core, sch, ops, cmd, spent>>

-----------------------------------------------------------------------------
(* Storage.  Metadata names where the payload is.                          *)
Where(c) == disk.meta[c]

Payload(d, c) == IF d.meta[c] = "opfs" THEN d.opfs[c]
                 ELSE IF d.meta[c] = "indexeddb" THEN d.idb[c] ELSE Absent

Held(c) == Payload(disk, c)

(* A candidate and its payload in IndexedDB go in one transaction; a       *)
(* payload in OPFS is removed after its metadata.                          *)
DropMetadata(c) ==
  [disk EXCEPT !.meta[c] = Absent,
               !.idb[c] = IF Where(c) = "indexeddb" THEN Absent ELSE @]

DropPayload(d, c, where) ==
  [d EXCEPT !.opfs[c] = IF where = "opfs" THEN Absent ELSE @,
            !.idb[c] = IF where = "indexeddb" THEN Absent ELSE @]

(* A storage operation may fail.                                           *)
Storage(fails) ==
  /\ fails => spent.fault < MaxFault
  /\ spent' = [spent EXCEPT !.fault = IF fails THEN @ + 1 ELSE @]

-----------------------------------------------------------------------------
(* The scheduler.                                                          *)
Later(a, b) == IF a < b THEN b ELSE a

MarkChanged(s) == [s EXCEPT !.rev = @ + 1, !.soon = TRUE]

BeginDocumentSessionSaved(s, source) ==
  [gen |-> s.gen + 1, rev |-> 0, saved |-> s.saved, soon |-> FALSE,
   source |-> source, current |-> 0, mine |-> {source} \ {0}]

BeginDocumentSessionCurrent(s, source) ==
  [gen |-> s.gen + 1, rev |-> 0, saved |-> 0, soon |-> FALSE,
   source |-> source, current |-> s.current, mine |-> {source} \ {0}]

BeginDocumentSession(s, source) ==
  [gen |-> s.gen + 1, rev |-> 0, saved |-> 0, soon |-> FALSE,
   source |-> source, current |-> 0, mine |-> {source} \ {0}]

AssociatedCandidateIds == {sch.source, sch.current} \ {0}

Unflushed == sch.rev > sch.saved

(* wake: who waits for the operation.  "any" when flushNow returned the    *)
(* queue, whose errors are caught; "own" when it returned the operation.   *)
Operation(kind, wake) ==
  [kind |-> kind, at |-> "start", gen |-> sch.gen, target |-> sch.rev,
   wake |-> wake, work |-> Blank, late |-> FALSE, id |-> 0, where |-> Absent,
   previous |-> Absent, source |-> sch.source, todo |-> <<>>, failed |-> FALSE]

(* flushNow as a timer calls it.                                           *)
TimerFlush ==
  ops' = IF Unflushed THEN Append(ops, Operation("flush", "none")) ELSE ops

Running(kind, at) == ops # <<>> /\ Head(ops).kind = kind /\ Head(ops).at = at

Op == Head(ops)

Goes(o) == ops' = [ops EXCEPT ![1] = o] /\ UNCHANGED cmd

(* The operation ends, and the command that waits for it goes on unless    *)
(* its own operation failed.                                               *)
Settles(ok) ==
  /\ ops' = Tail(ops)
  /\ cmd' = IF Op.wake = "none" THEN cmd
            ELSE IF ~ ok /\ Op.wake = "own" THEN Absent
            ELSE [cmd EXCEPT !.at = IF @ = "clear" THEN "saved" ELSE "core"]

Timely == Op.gen = sch.gen

FlushStarts ==
  /\ Running("flush", "start")
  /\ IF Timely /\ Op.target > sch.saved
     THEN Goes([Op EXCEPT !.at = "snapped", !.late = cmd # Absent /\ cmd.at = "answer",
                          !.work = IF core.dirty THEN core.work ELSE Absent])
     ELSE Settles(TRUE)
  /\ UNCHANGED <<disk, core, sch, spent>>

(* The worker answers in the order it was asked.                           *)
AnswersInOrder == ~ (Op.late /\ cmd # Absent /\ cmd.at = "answer")

NothingToKeep ==
  /\ Running("flush", "snapped") /\ AnswersInOrder
  /\ ~ Timely \/ Op.work = Absent
  /\ Settles(TRUE)
  /\ sch' = [sch EXCEPT !.saved = IF Timely THEN Later(@, Op.target) ELSE @]
  /\ UNCHANGED <<disk, core, spent>>

(* saveCheckpoint: a candidate that is still there is replaced, otherwise  *)
(* a new number is given out.                                              *)
TakesNumber ==
  /\ Running("flush", "snapped") /\ AnswersInOrder
  /\ Timely /\ Op.work # Absent
  /\ \E fails \in BOOLEAN :
       /\ Storage(fails)
       /\ IF fails THEN Settles(FALSE) /\ UNCHANGED disk
          ELSE IF sch.current # 0 /\ Where(sch.current) # Absent
          THEN /\ Goes([Op EXCEPT !.at = "payload", !.id = sch.current,
                                  !.previous = Where(sch.current)])
               /\ UNCHANGED disk
          ELSE /\ disk.next \in Id
               /\ disk' = [disk EXCEPT !.next = @ + 1]
               /\ Goes([Op EXCEPT !.at = "payload", !.id = disk.next])
  /\ UNCHANGED <<core, sch>>

(* writePayload: into OPFS, or with the metadata if that does not work.    *)
WritesPayload ==
  /\ Running("flush", "payload")
  /\ \E fails \in BOOLEAN :
       /\ Storage(fails)
       /\ disk' = IF fails THEN disk ELSE [disk EXCEPT !.opfs[Op.id] = Op.work]
       /\ Goes([Op EXCEPT !.at = "metadata",
                          !.where = IF fails THEN "indexeddb" ELSE "opfs"])
  /\ UNCHANGED <<core, sch>>

(* The candidate with this operation's payload.                            *)
WithCandidate ==
  [disk EXCEPT !.meta[Op.id] = Op.where,
               !.idb[Op.id] = IF Op.where = "indexeddb" THEN Op.work ELSE @]

WritesMetadataUndo ==
  /\ Running("flush", "metadata")
  /\ \E fails \in BOOLEAN :
       /\ Storage(fails)
       /\ IF fails
          THEN Goes([Op EXCEPT !.at = "undo"]) /\ UNCHANGED <<disk, sch>>
          ELSE /\ disk' = WithCandidate
               /\ sch' = [sch EXCEPT !.mine = IF Timely THEN @ \union {Op.id} ELSE @]
               /\ Goes([Op EXCEPT !.at = IF Op.previous \in {Absent, Op.where}
                                         THEN "answer" ELSE "cleanup"])
  /\ UNCHANGED core

WritesMetadata ==
  /\ Running("flush", "metadata")
  /\ \E fails \in BOOLEAN :
       /\ Storage(fails)
       /\ IF fails
          THEN /\ IF Op.previous = Absent THEN Goes([Op EXCEPT !.at = "undo"])
                  ELSE Settles(FALSE)
               /\ UNCHANGED <<disk, sch>>
          ELSE /\ disk' = WithCandidate
               /\ sch' = [sch EXCEPT !.mine = IF Timely THEN @ \union {Op.id} ELSE @]
               /\ Goes([Op EXCEPT !.at = IF Op.previous \in {Absent, Op.where}
                                         THEN "answer" ELSE "cleanup"])
  /\ UNCHANGED core

(* ignoreDeleteFailure: the payload that no metadata names.                *)
UndoesPayload ==
  /\ Running("flush", "undo")
  /\ \E fails \in BOOLEAN :
       /\ Storage(fails)
       /\ disk' = IF fails THEN disk ELSE DropPayload(disk, Op.id, Op.where)
  /\ Settles(FALSE)
  /\ UNCHANGED <<core, sch>>

RemovesOldPayload ==
  /\ Running("flush", "cleanup")
  /\ \E fails \in BOOLEAN :
       /\ Storage(fails)
       /\ disk' = IF fails THEN disk ELSE DropPayload(disk, Op.id, Op.previous)
  /\ Goes([Op EXCEPT !.at = "answer"])
  /\ UNCHANGED <<core, sch>>

FlushAnswersNow ==
  /\ Running("flush", "answer")
  /\ sch' = IF Timely
            THEN [sch EXCEPT !.current = Op.id, !.saved = Later(@, sch.rev)]
            ELSE sch
  /\ Settles(TRUE)
  /\ UNCHANGED <<disk, core, spent>>

FlushAnswers ==
  /\ Running("flush", "answer")
  /\ sch' = IF Timely
            THEN [sch EXCEPT !.current = Op.id, !.saved = Later(@, Op.target)]
            ELSE sch
  /\ Settles(TRUE)
  /\ UNCHANGED <<disk, core, spent>>

(* markExplicitSaveSucceeded, inside the queue: the source the work had    *)
(* when it was saved, and the candidate it has now.                        *)
ClearIdsOne ==
  IF Op.source # 0 THEN <<Op.source>> ELSE IF sch.current = 0 THEN <<>> ELSE <<sch.current>>

ClearIds ==
  (IF Op.source = 0 THEN <<>> ELSE <<Op.source>>)
    \o (IF sch.current \in {0, Op.source} THEN <<>> ELSE <<sch.current>>)

ClearStarts ==
  /\ Running("clear", "start")
  /\ IF Timely /\ ClearIds # <<>>
     THEN Goes([Op EXCEPT !.at = "metadata", !.todo = ClearIds])
     ELSE Settles(TRUE)
  /\ UNCHANGED <<disk, core, sch, spent>>

Forget(c) ==
  [sch EXCEPT !.source = IF @ = c THEN 0 ELSE @, !.current = IF @ = c THEN 0 ELSE @]

(* On to the next candidate, or the end; a failure is collected.           *)
ClearGoesOn(failed) ==
  IF Tail(Op.todo) = <<>> THEN Settles(~ (failed \/ Op.failed))
  ELSE Goes([Op EXCEPT !.at = "metadata", !.todo = Tail(@), !.failed = @ \/ failed])

ClearsMetadata ==
  /\ Running("clear", "metadata")
  /\ LET c == Head(Op.todo) IN
     \E fails \in BOOLEAN :
       /\ Storage(fails)
       /\ IF fails \/ Where(c) = Absent
          THEN ClearGoesOn(TRUE) /\ UNCHANGED <<disk, sch>>
          ELSE /\ disk' = DropMetadata(c)
               /\ IF Where(c) = "opfs"
                  THEN Goes([Op EXCEPT !.at = "payload"]) /\ UNCHANGED sch
                  ELSE ClearGoesOn(FALSE) /\ sch' = Forget(c)
  /\ UNCHANGED core

ClearsPayload ==
  /\ Running("clear", "payload")
  /\ LET c == Head(Op.todo) IN
     \E fails \in BOOLEAN :
       /\ Storage(fails)
       /\ ClearGoesOn(fails)
       /\ disk' = IF fails THEN disk ELSE DropPayload(disk, c, "opfs")
       /\ sch' = IF fails THEN sch ELSE Forget(c)
  /\ UNCHANGED core

(* The debounce timer and the 30 s checkpoint.                             *)
DebounceFires ==
  /\ sch.soon /\ Len(ops) < MaxWaiting
  /\ sch' = [sch EXCEPT !.soon = FALSE]
  /\ TimerFlush
  /\ UNCHANGED <<disk, core, cmd, spent>>

CheckpointFiresSoon ==
  /\ sch.soon /\ Unflushed /\ Len(ops) < MaxWaiting
  /\ sch' = [sch EXCEPT !.soon = FALSE]
  /\ TimerFlush
  /\ UNCHANGED <<disk, core, cmd, spent>>

CheckpointFires ==
  /\ Unflushed /\ Len(ops) < MaxWaiting
  /\ TimerFlush
  /\ UNCHANGED <<disk, core, sch, cmd, spent>>

-----------------------------------------------------------------------------
(* The commands of the user, one at a time.  The continuation of a write   *)
(* runs before anything that can read what was written.                    *)
Clicks ==
  /\ cmd = Absent /\ spent.input < MaxInput
  /\ ~ Running("flush", "answer")
  /\ spent' = [spent EXCEPT !.input = @ + 1]

Command(kind, at, c) == [kind |-> kind, at |-> at, id |-> c]

(* flushNow as a command awaits it.                                        *)
AwaitsFlush(kind, c) ==
  IF Unflushed
  THEN /\ ops' = Append(ops, Operation("flush", "own"))
       /\ cmd' = Command(kind, "flush", c)
  ELSE IF ops = <<>>
  THEN cmd' = Command(kind, "core", c) /\ UNCHANGED ops
  ELSE /\ ops' = [ops EXCEPT ![Len(ops)].wake = "any"]
       /\ cmd' = Command(kind, "flush", c)

EditOrSave ==
  /\ Clicks
  /\ \E kind \in {"edit", "save"} : cmd' = Command(kind, "core", 0)
  /\ UNCHANGED <<disk, core, sch, ops>>

NewOrOpen ==
  /\ Clicks
  /\ \E kind \in {"new", "open", "import"} : AwaitsFlush(kind, 0)
  /\ UNCHANGED <<disk, core, sch>>

(* The list the user chooses from is made anew when the choice arrives, so *)
(* it does not matter how old the one on the screen is.                    *)
Offered == {c \in Id : Where(c) # Absent} \ AssociatedCandidateIds

Restore ==
  /\ Clicks
  /\ \E c \in Id : Where(c) # Absent /\ AwaitsFlush("restore", c)
  /\ UNCHANGED <<disk, core, sch>>

Discard ==
  /\ Clicks
  /\ \E c \in Offered : cmd' = Command("discard", "metadata", c)
  /\ UNCHANGED <<disk, core, sch, ops>>

In(kind, at) == cmd # Absent /\ cmd.kind = kind /\ cmd.at = at

CoreEdits ==
  /\ In("edit", "core") /\ spent.edit < MaxEdit
  /\ core' = [work |-> core.work \union {spent.edit + 1}, dirty |-> TRUE]
  /\ cmd' = [cmd EXCEPT !.at = "answer"]
  /\ spent' = [spent EXCEPT !.edit = @ + 1]
  /\ UNCHANGED <<disk, sch, ops>>

CoreNew ==
  /\ In("new", "core")
  /\ core' = [work |-> Blank, dirty |-> FALSE]
  /\ cmd' = [cmd EXCEPT !.at = "answer"]
  /\ UNCHANGED <<disk, sch, ops, spent>>

CoreOpens ==
  /\ In("open", "core")
  /\ \E f \in disk.files : core' = [work |-> f, dirty |-> FALSE]
  /\ cmd' = [cmd EXCEPT !.at = "answer"]
  /\ UNCHANGED <<disk, sch, ops, spent>>

(* A FOLD file becomes a work that has no file yet.                        *)
CoreImports ==
  /\ In("import", "core") /\ spent.edit < MaxEdit
  /\ core' = [work |-> {spent.edit + 1}, dirty |-> TRUE]
  /\ cmd' = [cmd EXCEPT !.at = "answer"]
  /\ spent' = [spent EXCEPT !.edit = @ + 1]
  /\ UNCHANGED <<disk, sch, ops>>

CoreRestores ==
  /\ In("restore", "core") /\ cmd.id \in Offered
  /\ \E fails \in BOOLEAN :
       /\ Storage(fails)
       /\ IF fails \/ Held(cmd.id) = Absent
          THEN cmd' = Absent /\ UNCHANGED core
          ELSE /\ core' = [work |-> Held(cmd.id), dirty |-> TRUE]
               /\ cmd' = [cmd EXCEPT !.at = "answer"]
  /\ UNCHANGED <<disk, sch, ops>>

(* No such file, no such candidate, or the bound on edits: nothing is done.*)
CommandFails ==
  /\ \/ In("open", "core") /\ disk.files = {}
     \/ In("restore", "core") /\ cmd.id \notin Offered
     \/ (In("edit", "core") \/ In("import", "core")) /\ spent.edit = MaxEdit
  /\ cmd' = Absent
  /\ UNCHANGED <<disk, core, sch, ops, spent>>

(* The file is written before the worker takes the work for saved.         *)
WritesFile ==
  /\ In("save", "core")
  /\ \E fails \in BOOLEAN :
       /\ Storage(fails)
       /\ disk' = IF fails THEN disk ELSE [disk EXCEPT !.files = @ \union {core.work}]
       /\ cmd' = IF fails THEN Absent ELSE [cmd EXCEPT !.at = "commit"]
  /\ UNCHANGED <<core, sch, ops>>

(* The worker compares the work with the one it prepared; commands come    *)
(* one at a time, so they agree and it does not refuse.                    *)
CoreSaves ==
  /\ In("save", "commit")
  /\ core' = [core EXCEPT !.dirty = FALSE]
  /\ cmd' = [cmd EXCEPT !.at = "answer"]
  /\ UNCHANGED <<disk, sch, ops, spent>>

(* The answer of the worker; a snapshot it made earlier is answered first. *)
Answered(kinds) ==
  /\ cmd # Absent /\ cmd.at = "answer" /\ cmd.kind \in kinds
  /\ ~ (Running("flush", "snapped") /\ ~ Op.late)

NowInOrder(q) == [k \in DOMAIN q |-> [q[k] EXCEPT !.late = FALSE]]

EditAnswered ==
  /\ Answered({"edit"})
  /\ sch' = MarkChanged(sch)
  /\ ops' = NowInOrder(ops)
  /\ cmd' = Absent
  /\ UNCHANGED <<disk, core, spent>>

ReplaceAnswered ==
  /\ Answered({"new", "open", "import"})
  /\ sch' = MarkChanged(BeginDocumentSession(sch, 0))
  /\ ops' = NowInOrder(ops)
  /\ cmd' = Absent
  /\ UNCHANGED <<disk, core, spent>>

RestoreAnswered ==
  /\ Answered({"restore"})
  /\ sch' = BeginDocumentSession(sch, cmd.id)
  /\ ops' = NowInOrder(ops)
  /\ cmd' = Absent
  /\ UNCHANGED <<disk, core, spent>>

(* markExplicitSaveSucceeded: what was changed so far counts as saved, and *)
(* the candidates go when their turn in the queue comes.                   *)
SaveAnswered ==
  /\ Answered({"save"})
  /\ sch' = [sch EXCEPT !.saved = Later(@, sch.rev), !.soon = FALSE]
  /\ ops' = Append(NowInOrder(ops), Operation("clear", "own"))
  /\ cmd' = [cmd EXCEPT !.at = "clear"]
  /\ UNCHANGED <<disk, core, spent>>

SaveReturns ==
  /\ In("save", "saved")
  /\ cmd' = Absent
  /\ UNCHANGED <<disk, core, sch, ops, spent>>

DiscardsMetadata ==
  /\ In("discard", "metadata")
  /\ \E fails \in BOOLEAN :
       /\ Storage(fails)
       /\ IF fails \/ Where(cmd.id) = Absent
          THEN cmd' = Absent /\ UNCHANGED disk
          ELSE /\ disk' = DropMetadata(cmd.id)
               /\ cmd' = IF Where(cmd.id) = "opfs" THEN [cmd EXCEPT !.at = "payload"] ELSE Absent
  /\ UNCHANGED <<core, sch, ops>>

DiscardsPayload ==
  /\ In("discard", "payload")
  /\ \E fails \in BOOLEAN :
       /\ Storage(fails)
       /\ disk' = IF fails THEN disk ELSE DropPayload(disk, cmd.id, "opfs")
  /\ cmd' = Absent
  /\ UNCHANGED <<core, sch, ops>>

-----------------------------------------------------------------------------
(* The tab is closed or reloaded: App.tsx starts with a new document.      *)
Fresh ==
  /\ core' = [work |-> Blank, dirty |-> FALSE]
  /\ sch' = BeginDocumentSession([sch EXCEPT !.gen = 0], 0)
  /\ ops' = <<>>
  /\ cmd' = Command("new", "core", 0)

CloseTab ==
  /\ spent.close < MaxClose
  /\ Fresh
  /\ spent' = [spent EXCEPT !.close = @ + 1]
  /\ UNCHANGED disk

Init ==
  /\ disk = [next |-> 1, meta |-> [c \in Id |-> Absent], opfs |-> [c \in Id |-> Absent],
             idb |-> [c \in Id |-> Absent], files |-> {}]
  /\ core = [work |-> Blank, dirty |-> FALSE]
  /\ sch = [gen |-> 1, rev |-> 0, saved |-> 0, soon |-> FALSE, source |-> 0, current |-> 0,
          mine |-> {}]
  /\ ops = <<>>
  /\ cmd = Command("new", "core", 0)
  /\ spent = [input |-> 0, edit |-> 0, close |-> 0, fault |-> 0]

FlushStep ==
  \/ FlushStarts \/ NothingToKeep \/ TakesNumber \/ WritesPayload \/ WritesMetadata
  \/ UndoesPayload \/ RemovesOldPayload \/ FlushAnswers

ClearStep == ClearStarts \/ ClearsMetadata \/ ClearsPayload

CoreStep ==
  \/ CoreEdits \/ CoreNew \/ CoreOpens \/ CoreImports \/ CoreRestores \/ CommandFails
  \/ WritesFile \/ CoreSaves

AnswerStep == EditAnswered \/ ReplaceAnswered \/ RestoreAnswered \/ SaveAnswered
  \/ SaveReturns

DiscardStep == DiscardsMetadata \/ DiscardsPayload

Input == EditOrSave \/ NewOrOpen \/ Restore \/ Discard

Next ==
  \/ FlushStep \/ ClearStep \/ DebounceFires \/ CheckpointFires
  \/ CoreStep \/ AnswerStep \/ DiscardStep \/ Input \/ CloseTab

Spec == Init /\ [][Next]_vars

(* Promises go on, the worker answers and the timers fire; the user need   *)
(* not do anything.                                                        *)
Fairness ==
  /\ WF_vars(FlushStep) /\ WF_vars(ClearStep) /\ WF_vars(CheckpointFires)
  /\ WF_vars(CoreStep) /\ WF_vars(AnswerStep) /\ WF_vars(DiscardStep)

FairSpec == Spec /\ Fairness

-----------------------------------------------------------------------------
OpType ==
  [kind : {"flush", "clear"},
   at : {"start", "snapped", "payload", "metadata", "undo", "cleanup", "answer"},
   gen : Nat, target : Nat, wake : {"none", "any", "own"},
   work : {Absent} \union Work, late : BOOLEAN, id : Id \union {0},
   where : {"opfs", "indexeddb", Absent}, previous : {"opfs", "indexeddb", Absent},
   source : Id \union {0}, todo : Seq(Id), failed : BOOLEAN]

CmdType ==
  [kind : {"edit", "save", "new", "open", "import", "restore", "discard"},
   at : {"flush", "core", "commit", "answer", "clear", "saved", "metadata", "payload"},
   id : Id \union {0}]

ASSUME AbsentAssumption == Absent \notin CmdType

(* Every variable keeps the types the code gives it, and no more changes   *)
(* count as saved than were made.                                          *)
TypeOK ==
  /\ disk \in [next : 1 .. MaxId + 1, meta : [Id -> {"opfs", "indexeddb", Absent}],
               opfs : [Id -> {Absent} \union Work], idb : [Id -> {Absent} \union Work],
               files : SUBSET Work]
  /\ core \in [work : Work, dirty : BOOLEAN]
  /\ sch \in [gen : Nat, rev : Nat, saved : Nat, soon : BOOLEAN,
              source : Id \union {0}, current : Id \union {0}, mine : SUBSET Id]
  /\ sch.saved <= sch.rev
  /\ ops \in Seq(OpType)
  /\ cmd \in {Absent} \union CmdType
  /\ spent \in [input : Nat, edit : 0 .. MaxEdit, close : Nat, fault : Nat]

(* A candidate that is listed can be read: no interleaving, failure or     *)
(* closing leaves metadata without its payload (comments of                *)
(* discardCandidateLocked and ignoreDeleteFailure).                        *)
ListedIsReadable == \A c \in Id : Where(c) # Absent => Held(c) # Absent

(* A work that differs from its file and counts as flushed can be restored *)
(* as it is now; only a change the scheduler is about to hear of may not.  *)
Unsaved == core.dirty /\ \A c \in Id : Held(c) # core.work

UnsavedIsKept ==
  Unsaved => Unflushed \/ (cmd # Absent /\ cmd.at = "answer")

(* When a save returns without a failure, nothing that was written for this *)
(* work, and not what it was restored from, is left among the candidates.  *)
SavedIsCleared ==
  cmd # Absent /\ cmd.at = "saved" => \A c \in sch.mine : Where(c) = Absent

(* Unsaved work reaches the recovery area or stops being unsaved, although *)
(* a storage operation fails on the way.                                   *)
DirtyEventuallyKept == Unsaved ~> ~ Unsaved

(* The recovery area does what CandidateShelf promises.                    *)
Shelf == INSTANCE CandidateShelf WITH
  last <- disk.next - 1,
  shelf <- [c \in Id |-> Held(c)],
  files <- disk.files,
  refused <- IF cmd # Absent /\ cmd.kind = "discard" THEN {cmd.id} ELSE {}

ShelfSpec == Shelf!Spec
=============================================================================
