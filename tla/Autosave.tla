------------------------------ MODULE Autosave ------------------------------
(***************************************************************************)
(* Crash recovery of the desktop application                               *)
(* (apps/desktop/src-tauri/src/autosave.rs, document_* in commands.rs).    *)
(*                                                                         *)
(* Several processes of the application (sessions) share one app-data      *)
(* directory: an index, one payload of the work in progress (the active    *)
(* payload) and any number of carried candidates, one file each.  Every    *)
(* operation takes the transaction file lock, reads the directory,         *)
(* computes the writes it will do and then does them one file at a time.   *)
(* A write replaces a whole file (write_atomic), and the process may die   *)
(* between two of them; nobody else writes while the lock is held, so an   *)
(* operation is a plan (the sequence of its writes) fixed when it starts.  *)
(*                                                                         *)
(* Abstractions.  A document is the sequence of edits that made it.        *)
(* document_path, step_count and the texts shown to the user are left out. *)
(* saved_at_ms is kept as a stamp: it only tells equal payloads apart.     *)
(* New, open and import are one operation, Replace: the new document is    *)
(* blank; an imported FOLD, which is unsaved at once, is a Change after it.*)
(***************************************************************************)
EXTENDS Naturals, Sequences, FiniteSets

CONSTANTS
  Session,    \* one per run of the program: SESSION_ID is never used twice
  Edit,       \* kinds of edits
  Stamp,      \* values of saved_at_ms
  Legacy,     \* documents a single-slot autosave of an old version may hold
  MaxLen,     \* bound: edits in one document
  MaxId,      \* MAX_SAFE_CANDIDATE_ID
  MaxLive,    \* bound: processes alive at the same time
  MaxCrash,   \* bound: processes killed
  MaxFault,   \* bound: writes that fail
  MaxDamage,  \* bound: files damaged from outside
  MaxRestore, \* bound: candidates restored
  MaxDiscard, \* bound: candidates discarded by the user
  MaxLate,    \* bound: edits and restores of a process already closing
  None,       \* Option::None, a missing file
  Absent,     \* an id the index does not carry
  Corrupt,    \* an index file that does not parse or validate
  Unreadable  \* the content of a payload that does not parse

Id  == 1 .. MaxId
Doc == UNION {[1 .. n -> Edit] : n \in 0 .. MaxLen}

Work    == Doc \union {Unreadable}
Payload == [doc : Work, session : Session \union {None},
            source : Id \union {None}, stamp : Stamp]
Active  == [session : Session \union {None}, source : Id \union {None}]

ASSUME BoundsAssumption ==
  /\ MaxLen \in Nat /\ MaxId \in Nat \ {0}
  /\ MaxLive \in Nat /\ MaxCrash \in Nat /\ MaxFault \in Nat /\ MaxDamage \in Nat
  /\ MaxRestore \in Nat /\ MaxDiscard \in Nat /\ MaxLate \in Nat

Index   == [next    : Nat,
            active  : Active \union {None},
            carried : [Id -> Session \union {None, Absent}]]
Disk    == [index  : Index \union {None, Corrupt},
            active : Payload \union {None},
            cand   : [Id -> Payload \union {None}],
            legacy : Doc \union {None}]

ASSUME ValuesAssumption ==
  /\ Legacy \subseteq Doc
  /\ Stamp # {}
  /\ None \notin Session \union Id \union Doc \union Payload \union Active \union Index
  /\ Corrupt \notin Index
  /\ Absent \notin Session \union {None}
  /\ Unreadable \notin Doc \union {None}

VARIABLES
  disk,     \* the app-data directory
  tx,       \* the operation that holds the transaction lock, or None
  life,     \* life[s]: "new", "up" or "down"; "up" is what is_live_session sees
  closing,  \* processes that found nothing unsaved and now wait for the locks
  mem,      \* mem[s]: the DocumentStore of the process, [doc, dirty]
  opened,   \* history: the candidate the user restored into s and has not left
  mine,     \* history: what s was told is safe; one of these must be on disk
  shelf,    \* history: the same for works no process holds any more
  spent     \* how much of each bound is used up, and whether unsaved work was left

vars == <<disk, tx, life, closing, mem, opened, mine, shelf, spent>>

-----------------------------------------------------------------------------
(* The index.                                                              *)

LeastOf(S) == CHOOSE i \in S : \A j \in S : i <= j

DefaultIndex == [next |-> 1, active |-> None, carried |-> [i \in Id |-> Absent]]

ValidIndex(x) ==
  /\ x.next \in 1 .. MaxId
  /\ \A i \in Id : x.carried[i] # Absent => i < x.next
  /\ x.active # None /\ x.active.source # None => x.carried[x.active.source] # Absent

(* Every payload on disk is in the result: a candidate the index does not  *)
(* know is added, and the active entry follows the active payload.         *)
Reconcile(x, d) ==
  LET held    == {i \in Id : d.cand[i] # None}
      meta    == d.active.doc # Unreadable
      entry   == [session |-> d.active.session, source |-> d.active.source]
  IN [next    |-> LeastOf({n \in x.next .. (x.next + MaxId + 1) : \A i \in held : i < n}),
      active  |-> IF d.active = None THEN None
                  ELSE IF x.active = None THEN entry
                  ELSE IF ~meta THEN x.active
                  ELSE IF entry.source = None
                       THEN [session |-> entry.session, source |-> x.active.source]
                       ELSE entry,
      carried |-> [i \in Id |-> IF x.carried[i] = Absent /\ i \in held
                                THEN d.cand[i].session ELSE x.carried[i]]]

-----------------------------------------------------------------------------
(* Drafts.  An operation under way: the disk as its writes so far leave it,*)
(* the index it holds in memory, the writes, and whether it failed.        *)

PutIndex(x)        == [file |-> "index", id |-> None, val |-> x]
PutActive(p)       == [file |-> "active", id |-> None, val |-> p]
PutCandidate(i, p) == [file |-> "cand", id |-> i, val |-> p]
DropLegacy         == [file |-> "legacy", id |-> None, val |-> None]

Apply(d, w) ==
  CASE w.file = "index"  -> [d EXCEPT !.index = w.val]
    [] w.file = "active" -> [d EXCEPT !.active = w.val]
    [] w.file = "cand"   -> [d EXCEPT !.cand[w.id] = w.val]
    [] w.file = "legacy" -> [d EXCEPT !.legacy = None]

Draft(x) == [ok |-> TRUE, idx |-> x, img |-> disk, plan |-> << >>]

Emit(r, w) == IF r.ok THEN [r EXCEPT !.img = Apply(@, w), !.plan = Append(@, w)] ELSE r

Failed(r) == [r EXCEPT !.ok = FALSE]

CommitIndex(r) == IF ValidIndex(r.idx) THEN Emit(r, PutIndex(r.idx)) ELSE Failed(r)

Unlink(r) == IF r.ok THEN [r EXCEPT !.idx.active = None] ELSE r

(* Mutant: an id is free when the index does not carry it.                 *)
FreeIdsByIndex(r) == {i \in Id : i >= r.idx.next /\ r.idx.carried[i] = Absent}

FreeIds(r) ==
  {i \in Id : i >= r.idx.next /\ r.idx.carried[i] = Absent /\ r.img.cand[i] = None}

Carrying(x, k, session) ==
  [next |-> k + 1, active |-> x.active, carried |-> [x.carried EXCEPT ![k] = session]]

AddCandidate(r, bytes, session) ==
  LET k == LeastOf(FreeIds(r))
  IN IF \E i \in FreeIds(r) : i < MaxId
     THEN Emit([r EXCEPT !.idx = Carrying(@, k, session)], PutCandidate(k, bytes))
     ELSE Failed(r)

(* The active work was restored from a candidate the index still carries,  *)
(* and neither of the two is unreadable: it may go back to that candidate. *)
ReturnsToSource(r) ==
  LET src == r.idx.active.source
  IN /\ src # None
     /\ r.idx.carried[src] # Absent
     /\ \/ r.img.cand[src] = None
        \/ Unreadable \notin {r.img.active.doc, r.img.cand[src].doc}

UpdateSource(r) ==
  LET src == r.idx.active.source
  IN IF r.img.cand[src] # None /\ r.img.cand[src].doc = r.img.active.doc
     THEN r
     ELSE Emit(r, PutCandidate(src, r.img.active))

CarryActive(r) ==
  IF ~r.ok \/ r.idx.active = None THEN r
  ELSE IF r.img.active = None THEN Failed(r)
  ELSE IF ReturnsToSource(r) THEN UpdateSource(r)
  ELSE AddCandidate(r, r.img.active, r.idx.active.session)

(* Mutants: the payload goes before the index is written; the active entry *)
(* keeps its link to the restored candidate.                               *)
SetAsidePayloadFirst(r) == CommitIndex(Unlink(Emit(CarryActive(r), PutActive(None))))

SetAsideLinked(r) == Emit(CommitIndex(CarryActive(r)), PutActive(None))

(* The active work becomes a candidate and the slot is emptied: index      *)
(* first, payload after.                                                   *)
SetAside(r) == Emit(CommitIndex(Unlink(CarryActive(r))), PutActive(None))

TakeSnapshot(r, s, doc, stamp) ==
  LET foreign == r.idx.active # None /\ r.idx.active.session # s
      c       == IF foreign THEN CarryActive(r) ELSE r
      source  == IF c.idx.active = None THEN None ELSE c.idx.active.source
      payload == [doc |-> doc, session |-> s, source |-> source, stamp |-> stamp]
      linked  == [c EXCEPT !.idx.active = [session |-> s, source |-> source]]
  IN IF c.ok THEN CommitIndex(Emit(linked, PutActive(payload))) ELSE c

(* The stamp of unchanged content is kept.                                 *)
StampsFor(doc) ==
  IF disk.active # None /\ disk.active.doc = doc THEN {disk.active.stamp} ELSE Stamp

-----------------------------------------------------------------------------
(* The plan of each operation.                                             *)

CurrentIndex == IF disk.index = None THEN DefaultIndex ELSE disk.index

ImportLegacy(r) ==
  IF disk.legacy = None THEN r
  ELSE AddCandidate(r, [doc |-> disk.legacy, session |-> None, source |-> None,
                        stamp |-> CHOOSE t \in Stamp : TRUE], None)

Live(t) == life[t] = "up"

AlreadyCarried(r) ==
  /\ ~ReturnsToSource(r)
  /\ r.idx.active.session # None
  /\ \E i \in Id : r.idx.carried[i] = r.idx.active.session /\ r.img.cand[i] = r.img.active

(* Mutant: the slot of any earlier session is left alone.                  *)
StartPlanKeepsSlot ==
  LET valid == disk.index \notin {None, Corrupt}
      found == Draft(Reconcile(IF valid THEN disk.index ELSE DefaultIndex, disk))
      r     == IF valid THEN found ELSE ImportLegacy(found)
  IN IF ~r.ok \/ (disk.index = None /\ r.idx = DefaultIndex) THEN r
     ELSE IF r.idx.active = None THEN CommitIndex(r)
     ELSE IF r.idx.active.session # None THEN r
     ELSE SetAside(r)

StartPlan ==
  LET valid == disk.index \notin {None, Corrupt}
      base  == IF valid THEN disk.index ELSE DefaultIndex
      found == Draft(Reconcile(base, disk))
      r     == IF valid THEN found ELSE ImportLegacy(found)
      a     == r.idx.active
  IN IF ~r.ok \/ (disk.index = None /\ r.idx = DefaultIndex) THEN r
     ELSE IF a = None THEN CommitIndex(r)
     ELSE IF a.session # None /\ Live(a.session) THEN r
     ELSE IF AlreadyCarried(r) THEN Emit(CommitIndex(Unlink(r)), PutActive(None))
     ELSE SetAside(r)

SnapshotPlan(s, stamp) == TakeSnapshot(Draft(CurrentIndex), s, mem[s].doc, stamp)

Snapshots(s) == {SnapshotPlan(s, stamp) : stamp \in StampsFor(mem[s].doc)}

(* Mutant: the edits since the last autosave are not written first.        *)
RestorePlanUnsaved(s, c, stamp) ==
  LET put == Emit(SetAside(Draft(CurrentIndex)),
                  PutActive([doc |-> disk.cand[c].doc, session |-> s,
                             source |-> c, stamp |-> stamp]))
  IN IF put.ok THEN CommitIndex([put EXCEPT !.idx.active = [session |-> s, source |-> c]])
               ELSE put

RestorePlan(s, c, stamp) ==
  LET kept == IF mem[s].dirty THEN SnapshotPlan(s, stamp) ELSE Draft(CurrentIndex)
      free == SetAside(kept)
      put  == Emit(free, PutActive([doc |-> disk.cand[c].doc, session |-> s,
                                    source |-> c, stamp |-> stamp]))
  IN IF put.ok THEN CommitIndex([put EXCEPT !.idx.active = [session |-> s, source |-> c]])
               ELSE put

(* Mutants: the payload stays; it goes before the index is written; the    *)
(* slot of another process is emptied too.                                 *)
DiscardPlanIndexOnly(s, withSource) ==
  LET r == Draft(CurrentIndex)
  IN IF disk.index = Corrupt THEN Failed(r)
     ELSE IF r.idx.active = None \/ r.idx.active.session # s THEN r
     ELSE CommitIndex(Unlink(r))

DiscardPlanPayloadFirst(s, withSource) ==
  LET r == Draft(CurrentIndex)
  IN IF disk.index = Corrupt THEN Failed(r)
     ELSE IF r.idx.active = None \/ r.idx.active.session # s THEN r
     ELSE CommitIndex(Unlink(Emit(r, PutActive(None))))

DiscardPlanAnySession(s, withSource) ==
  LET r == Draft(CurrentIndex)
  IN IF disk.index = Corrupt THEN Failed(r)
     ELSE IF r.idx.active = None THEN r
     ELSE Emit(CommitIndex(Unlink(r)), PutActive(None))

(* discard_current_snapshot: after a save with the restored source, on a   *)
(* clean exit without it.                                                  *)
DiscardPlan(s, withSource) ==
  LET r   == Draft(CurrentIndex)
      a   == r.idx.active
      src == IF withSource THEN a.source ELSE None
      gone == IF src = None THEN Unlink(r)
              ELSE [Unlink(r) EXCEPT !.idx.carried[src] = Absent]
      done == Emit(CommitIndex(gone), PutActive(None))
  IN IF disk.index = None THEN Emit(r, DropLegacy)
     ELSE IF disk.index = Corrupt THEN Failed(r)
     ELSE IF a = None THEN r
     ELSE IF a.session # s THEN r
     ELSE IF src = None THEN done
     ELSE Emit(done, PutCandidate(src, None))

DropCandidatePlan(c) ==
  LET x == [CurrentIndex EXCEPT !.carried[c] = Absent]
  IN Emit(CommitIndex(Draft(x)), PutCandidate(c, None))

-----------------------------------------------------------------------------
(* Obligations.  An obligation is a set of versions of one work, at least  *)
(* one of which the program owes the user after a crash.                   *)

Widened(s) == [mine EXCEPT ![s] = IF @ = {} THEN {} ELSE @ \union {mem[s].doc}]

Shelved(s, o) == IF o[s] = {} THEN shelf ELSE shelf \union {o[s]}

Without(o, doc) == [t \in Session |-> IF doc \in o[t] THEN {} ELSE o[t]]

-----------------------------------------------------------------------------
(* Operations.  Begin takes the lock; the store mutex stays locked through *)
(* the operations of StoreHeld.                                            *)

StoreHeld == {"start", "replace", "restore"}

Begin(s, op, c, r) ==
  /\ tx = None
  /\ tx' = [who |-> s, op |-> op, id |-> c, doc |-> mem[s].doc, dirty |-> mem[s].dirty,
            load |-> IF op = "restore" THEN disk.cand[c].doc ELSE None,
            ok |-> r.ok, plan |-> r.plan]

Usable == disk.index # Corrupt

Idle(s) == Live(s) /\ tx = None

(* No operation of the process itself is under way (AUTOSAVE_FILE_IO).     *)
Quiet(s) == Live(s) /\ (tx # None => tx.who # s)

Start(s) ==
  /\ life[s] = "new"
  /\ Cardinality({t \in Session : Live(t)}) < MaxLive
  /\ Begin(s, "start", None, StartPlan)
  /\ life' = [life EXCEPT ![s] = "up"]
  /\ UNCHANGED <<disk, closing, mem, opened, mine, shelf, spent>>

(* An edit or a restore of a process that has already found its work saved *)
(* comes late: its exit will not look at the document again.               *)
CountLate(s, count) ==
  /\ s \in closing => count.late < MaxLate
  /\ spent' = IF s \in closing THEN [count EXCEPT !.late = @ + 1] ELSE count

(* An edit, or an undo, makes the document dirty.                          *)
Change(s) ==
  /\ Live(s)
  /\ tx # None => tx.who # s \/ tx.op \notin StoreHeld
  /\ LET doc == mem[s].doc
     IN \E next \in {Append(doc, e) : e \in Edit} \union
                   (IF doc = << >> THEN {} ELSE {SubSeq(doc, 1, Len(doc) - 1)}) :
          /\ Len(next) <= MaxLen
          /\ mem' = [mem EXCEPT ![s] = [doc |-> next, dirty |-> TRUE]]
  /\ CountLate(s, spent)
  /\ UNCHANGED <<disk, tx, life, closing, opened, mine, shelf>>

Autosave(s) ==
  /\ Idle(s) /\ Usable /\ mem[s].dirty
  /\ \E r \in Snapshots(s) : Begin(s, "autosave", None, r)
  /\ mine' = Widened(s)
  /\ UNCHANGED <<disk, life, closing, mem, opened, shelf, spent>>

(* Unsaved work is set aside before the document is replaced.              *)
Replace(s) ==
  /\ Idle(s) /\ Usable /\ mem[s].dirty
  /\ \E r \in Snapshots(s) : Begin(s, "replace", None, SetAside(r))
  /\ mine' = Widened(s)
  /\ UNCHANGED <<disk, life, closing, mem, opened, shelf, spent>>

Blank == [doc |-> << >>, dirty |-> FALSE]

(* Saved work is replaced without a look at the recovery files, so what a  *)
(* failed removal left of it stays there, opened[s] included.              *)
ReplaceSaved(s) ==
  /\ Quiet(s) /\ ~mem[s].dirty
  /\ mem' = [mem EXCEPT ![s] = Blank]
  /\ UNCHANGED <<disk, tx, life, closing, opened, mine, shelf, spent>>

(* Candidates a recovery dialog may show: it may be stale, so the source   *)
(* of the active work, which check_all hides, can still be in it.          *)
Listed ==
  {c \in Id : /\ disk.index.carried[c] # Absent
              /\ disk.cand[c] # None
              /\ disk.index.carried[c] = None \/ ~Live(disk.index.carried[c])}

Shown ==
  {c \in Listed : disk.index.active # None => disk.index.active.source # c}

Restore(s, c) ==
  /\ Idle(s) /\ disk.index \notin {None, Corrupt}
  /\ c \in Shown
  /\ disk.cand[c].doc # Unreadable
  /\ spent.restore < MaxRestore
  /\ \E stamp \in Stamp : Begin(s, "restore", c, RestorePlan(s, c, stamp))
  /\ mine' = IF mem[s].dirty THEN Widened(s) ELSE mine
  /\ CountLate(s, [spent EXCEPT !.restore = @ + 1])
  /\ UNCHANGED <<disk, life, closing, mem, opened, shelf>>

DiscardCandidate(s, c) ==
  /\ Idle(s) /\ disk.index \notin {None, Corrupt}
  /\ c \in Listed
  /\ spent.discard < MaxDiscard
  /\ Begin(s, "discard", c, DropCandidatePlan(c))
  /\ spent' = [spent EXCEPT !.discard = @ + 1]
  /\ IF DropCandidatePlan(c).ok
     THEN /\ mine' = Without(mine, disk.cand[c].doc)
          /\ shelf' = {o \in shelf : disk.cand[c].doc \notin o}
     ELSE UNCHANGED <<mine, shelf>>
  /\ UNCHANGED <<disk, life, closing, mem, opened>>

(* The user's file is written first; then the recovery files go.           *)
Save(s) ==
  /\ Idle(s)
  /\ Begin(s, "save", opened[s], DiscardPlan(s, TRUE))
  /\ mem' = [mem EXCEPT ![s].dirty = FALSE]
  /\ mine' = [mine EXCEPT ![s] = {}]
  /\ UNCHANGED <<disk, life, closing, opened, shelf, spent>>

(* The end of the program looks at the store, lets go of it and only then  *)
(* takes the locks of the recovery files: other commands, and the autosave *)
(* thread, may come in between, and Exit does not look again.              *)
Close(s) ==
  /\ Live(s) /\ s \notin closing /\ ~mem[s].dirty
  /\ tx # None => tx.who # s \/ tx.op \notin StoreHeld \union {"exit"}
  /\ closing' = closing \union {s}
  /\ UNCHANGED <<disk, tx, life, mem, opened, mine, shelf, spent>>

Exit(s) ==
  /\ Idle(s) /\ s \in closing
  /\ Begin(s, "exit", None, DiscardPlan(s, FALSE))
  /\ closing' = closing \ {s}
  /\ UNCHANGED <<disk, life, mem, opened, mine, shelf, spent>>

(* One file of the plan.                                                   *)
WriteFile ==
  /\ tx # None /\ tx.plan # << >>
  /\ disk' = Apply(disk, Head(tx.plan))
  /\ tx' = [tx EXCEPT !.plan = Tail(@)]
  /\ UNCHANGED <<life, closing, mem, opened, mine, shelf, spent>>

(* The process is gone: what it owed stays owed.                           *)
Gone(s) ==
  /\ life' = [life EXCEPT ![s] = "down"]
  /\ closing' = closing \ {s}
  /\ mem' = [mem EXCEPT ![s] = Blank]
  /\ opened' = [opened EXCEPT ![s] = None]
  /\ shelf' = Shelved(s, mine)
  /\ mine' = [mine EXCEPT ![s] = {}]

(* The operation returns to its caller and releases its locks.             *)
FinishAutosave(s) ==
  /\ tx.op = "autosave" /\ tx.ok
  /\ mine' = [mine EXCEPT ![s] = {tx.doc}]
  /\ UNCHANGED <<life, closing, mem, opened, shelf>>

FinishReplace(s) ==
  /\ tx.op = "replace" /\ tx.ok
  /\ mem' = [mem EXCEPT ![s] = Blank]
  /\ opened' = [opened EXCEPT ![s] = None]
  /\ shelf' = shelf \union {{tx.doc}}
  /\ mine' = [mine EXCEPT ![s] = {}]
  /\ UNCHANGED <<life, closing>>

(* Mutant: the document handed over is the payload as read, unparsed.      *)
FinishRestoreRaw(s) ==
  /\ tx.op = "restore" /\ tx.ok
  /\ mem' = [mem EXCEPT ![s] = [doc |-> disk.active, dirty |-> TRUE]]
  /\ opened' = [opened EXCEPT ![s] = tx.id]
  /\ UNCHANGED <<life, closing, mine, shelf>>

FinishRestore(s) ==
  LET doc == tx.load
  IN /\ tx.op = "restore" /\ tx.ok
     /\ mem' = [mem EXCEPT ![s] = [doc |-> doc, dirty |-> TRUE]]
     /\ opened' = [opened EXCEPT ![s] = tx.id]
     /\ shelf' = {o \in shelf : doc \notin o} \union (IF tx.dirty THEN {{tx.doc}} ELSE {})
     /\ mine' = [Without(mine, doc) EXCEPT ![s] = {doc}]
     /\ UNCHANGED <<life, closing>>

FinishSave(s) ==
  /\ tx.op = "save" /\ tx.ok
  /\ opened' = [opened EXCEPT ![s] = None]
  /\ UNCHANGED <<life, closing, mem, mine, shelf>>

FinishExit(s) == tx.op = "exit" /\ Gone(s)

(* Mutant: an operation that fails never gives its locks back.             *)
FinishOtherDone(s) ==
  /\ tx.op \in {"start", "discard"} /\ tx.ok
  /\ UNCHANGED <<life, closing, mem, opened, mine, shelf>>

FinishOther(s) ==
  /\ tx.op \in {"start", "discard"} \/ (tx.op # "exit" /\ ~tx.ok)
  /\ UNCHANGED <<life, closing, mem, opened, mine, shelf>>

Finish ==
  /\ tx # None /\ tx.plan = << >>
  /\ tx' = None
  /\ LET s == tx.who
     IN \/ FinishAutosave(s) \/ FinishReplace(s) \/ FinishRestore(s)
        \/ FinishSave(s) \/ FinishExit(s) \/ FinishOther(s)
  /\ UNCHANGED <<disk, spent>>

-----------------------------------------------------------------------------
(* What the environment may do.                                            *)

IsRemoval(w) == w.file \in {"active", "cand", "legacy"} /\ w.val = None

(* Writes and the removals after a save or at exit report their error and  *)
(* end the operation; the other removals are best effort (.ok()).          *)
WriteFails ==
  /\ tx # None /\ tx.plan # << >>
  /\ spent.fault < MaxFault
  /\ spent' = [spent EXCEPT !.fault = @ + 1]
  /\ tx' = IF IsRemoval(Head(tx.plan)) /\ tx.op \notin {"save", "exit"}
           THEN [tx EXCEPT !.plan = Tail(@)]
           ELSE [tx EXCEPT !.plan = << >>, !.ok = FALSE]
  /\ UNCHANGED <<disk, life, closing, mem, opened, mine, shelf>>

Crash(s) ==
  /\ Live(s)
  /\ spent.crash < MaxCrash
  /\ spent' = [spent EXCEPT !.crash = @ + 1]
  /\ tx' = IF tx # None /\ tx.who = s THEN None ELSE tx
  /\ Gone(s)
  /\ UNCHANGED disk

(* The window is closed with unsaved work: nothing is cleaned up.  Closed  *)
(* in the middle of an autosave, it is a Crash.                            *)
Leave(s) ==
  /\ Quiet(s) /\ s \notin closing /\ mem[s].dirty
  /\ Gone(s)
  /\ spent' = [spent EXCEPT !.left = 1]
  /\ UNCHANGED <<disk, tx>>

Damaged(p) == [p EXCEPT !.doc = Unreadable, !.session = None, !.source = None]

(* Another program truncates a file.  A payload so lost is owed no more.   *)
Damage ==
  /\ tx = None
  /\ spent.damage < MaxDamage
  /\ spent' = [spent EXCEPT !.damage = @ + 1]
  /\ \/ /\ disk.index \notin {None, Corrupt}
        /\ disk' = [disk EXCEPT !.index = Corrupt]
        /\ UNCHANGED <<mine, shelf>>
     \/ /\ disk.active # None
        /\ disk' = [disk EXCEPT !.active = Damaged(@)]
        /\ mine' = Without(mine, disk.active.doc)
        /\ shelf' = {o \in shelf : disk.active.doc \notin o}
     \/ \E c \in Id :
          /\ disk.cand[c] # None
          /\ disk' = [disk EXCEPT !.cand[c] = Damaged(@)]
          /\ mine' = Without(mine, disk.cand[c].doc)
          /\ shelf' = {o \in shelf : disk.cand[c].doc \notin o}
  /\ UNCHANGED <<tx, life, closing, mem, opened>>

-----------------------------------------------------------------------------
NothingSpent ==
  [crash |-> 0, left |-> 0, fault |-> 0, damage |-> 0, restore |-> 0, discard |-> 0,
   late |-> 0]

Init ==
  /\ \E old \in Legacy \union {None} :
       /\ disk = [index |-> None, active |-> None, cand |-> [i \in Id |-> None], legacy |-> old]
       /\ shelf = IF old = None THEN {} ELSE {{old}}
  /\ tx = None
  /\ life = [s \in Session |-> "new"]
  /\ closing = {}
  /\ mem = [s \in Session |-> Blank]
  /\ opened = [s \in Session |-> None]
  /\ mine = [s \in Session |-> {}]
  /\ spent = NothingSpent

Next ==
  \/ \E s \in Session :
       \/ Start(s) \/ Change(s) \/ Autosave(s) \/ Replace(s) \/ ReplaceSaved(s)
       \/ Save(s) \/ Close(s) \/ Exit(s) \/ Leave(s) \/ Crash(s)
       \/ \E c \in Id : Restore(s, c) \/ DiscardCandidate(s, c)
  \/ WriteFile \/ WriteFails \/ Finish \/ Damage

Spec == Init /\ [][Next]_vars

-----------------------------------------------------------------------------
Operations == {"start", "autosave", "replace", "restore", "discard", "save", "exit"}

Write == [file : {"index"}, id : {None}, val : Index]
           \union [file : {"active"}, id : {None}, val : Payload \union {None}]
           \union [file : {"cand"}, id : Id, val : Payload \union {None}]
           \union [file : {"legacy"}, id : {None}, val : {None}]

Transaction == [who : Session, op : Operations, id : Id \union {None}, doc : Doc,
                dirty : BOOLEAN, load : Doc \union {None}, ok : BOOLEAN, plan : Seq(Write)]

ASSUME TransactionAssumption == None \notin Transaction

(* Every variable has the shape the code gives it.                         *)
TypeOK ==
  /\ disk \in Disk
  /\ tx \in Transaction \union {None}
  /\ tx # None /\ tx.op = "restore" => tx.load # None
  /\ life \in [Session -> {"new", "up", "down"}]
  /\ closing \in SUBSET Session
  /\ mem \in [Session -> [doc : Doc, dirty : BOOLEAN]]
  /\ opened \in [Session -> Id \union {None}]
  /\ mine \in [Session -> SUBSET Doc]
  /\ shelf \in SUBSET (SUBSET Doc)
  /\ spent \in [crash : Nat, left : Nat, fault : Nat, damage : Nat, restore : Nat,
               discard : Nat, late : Nat]

(* The works a startup turns into candidates.                              *)
OnDisk ==
  {disk.cand[i].doc : i \in {j \in Id : disk.cand[j] # None}}
    \union (IF disk.active = None THEN {} ELSE {disk.active.doc})
    \union (IF disk.legacy = None \/ disk.index \notin {None, Corrupt} THEN {}
            ELSE {disk.legacy})

(* The next candidate can still be given an id.                            *)
IdsLeft == \E i \in FreeIds(Draft(CurrentIndex)) : i < MaxId

Owed == shelf \union ({mine[s] : s \in Session} \ {{}})

(* autosave.rs:3-6, 500, 1212: whatever a process was told is safe (its    *)
(* last autosave, the work it set aside, the candidate it restored) is     *)
(* still on disk after any crash, failed write or restart, until the user  *)
(* saves, discards or moves on from it.  Not so for what comes late, after *)
(* an exit has looked at the document: AutosaveExit.cfg.                   *)
NoWorkLost == \A o \in Owed : o \intersect OnDisk # {}

(* autosave.rs:606-607, 839-902, 1108-1120: with one process at a time,    *)
(* work that no process holds is not merely on disk: whatever file the     *)
(* earlier operations were interrupted at, and after a damaged index, it   *)
(* is offered to the user, except what the running process itself set      *)
(* aside, offered after it ends.  No write has failed so far, and nothing  *)
(* came late.                                                              *)
OwedIsOffered ==
  (/\ tx = None /\ disk.index \notin {None, Corrupt} /\ IdsLeft
   /\ spent.fault = 0 /\ spent.late = 0
   /\ \E s \in Session : Live(s) /\ \A t \in Session \ {s} : ~Live(t))
  => \A o \in shelf : \E c \in Id :
       /\ disk.cand[c] # None /\ disk.cand[c].doc \in o
       /\ c \in Shown \/ (disk.index.carried[c] \in Session /\ Live(disk.index.carried[c]))

(* lib.rs:109-118: a recovery is offered only after an abnormal end.  When *)
(* nothing failed, nobody left unsaved work and all of it was saved,       *)
(* nothing is offered.                                                     *)
SavedIsNotOffered ==
  tx = None /\ disk.index \notin {None, Corrupt} /\ spent = NothingSpent /\ Owed = {}
  => Shown = {}

(* autosave.rs:911-913, 1350-1356: at every moment, between two writes     *)
(* included, the index on disk is one read_index accepts, and the active   *)
(* payload it names exists: a payload is written before the index names    *)
(* it and goes after the index has let it go.                              *)
IndexSound ==
  disk.index \notin {None, Corrupt}
  => ValidIndex(disk.index) /\ (disk.index.active # None => disk.active # None)

(* autosave.rs:906-913, 1350-1356: no sequence of crashes and failed       *)
(* writes leaves an index whose active payload is missing, or that no new  *)
(* index may follow: while ids are left the next autosave can be planned.  *)
AutosaveNeverWedged ==
  tx = None /\ disk.index # Corrupt /\ IdsLeft
  => \A s \in Session : Live(s) => \A t \in Stamp : SnapshotPlan(s, t).ok

(* autosave.rs:1363-1365: a candidate's file goes only when the user       *)
(* discards that candidate, or saves the work restored from it.            *)
CandidateLeavesOnlyByUser ==
  [][\A i \in Id : disk.cand[i] # None /\ disk'.cand[i] = None
       => tx.op \in {"discard", "save"} /\ tx.id = i]_disk

(* autosave.rs:660-681, 806-835: a candidate's file is only ever replaced  *)
(* by the active payload of the work restored from it: no new candidate    *)
(* and no import of an old autosave takes the place of another one.        *)
OverwriteOnlyBySource ==
  [][\A i \in Id :
       tx # None /\ disk.cand[i] # None /\ disk'.cand[i] \notin {None, disk.cand[i]}
       => /\ disk.active # None
          /\ disk'.cand[i] = disk.active
          /\ disk.active.source = i]_disk

-----------------------------------------------------------------------------
(* A file operation that holds the lock runs on; the autosave thread wakes *)
(* every 30 s and polls the lock every 10 ms, far more often than a user   *)
(* starts the operations that hold it.                                     *)
Fairness ==
  /\ WF_vars(WriteFile \/ Finish)
  /\ \A s \in Session : SF_vars(Autosave(s))

FairSpec == Spec /\ Fairness

(* autosave.rs:1451-1470: unsaved work reaches the disk, also after writes *)
(* that failed ("it can be written in the next round"), unless the user    *)
(* changes it, saves it or the process ends, while there are ids to give.   *)
DirtyEventuallySafe ==
  \A s \in Session : \A d \in Doc :
    (Live(s) /\ mem[s] = [doc |-> d, dirty |-> TRUE])
    ~> (d \in OnDisk \/ mem[s] # [doc |-> d, dirty |-> TRUE] \/ ~Live(s) \/ ~IdsLeft)
=============================================================================
