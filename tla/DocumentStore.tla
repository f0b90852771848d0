--------------------------- MODULE DocumentStore ---------------------------
(***************************************************************************)
(* The document store of the desktop application                           *)
(* (apps/desktop/src-tauri/src/store.rs) with the files it opens and saves.*)
(*                                                                         *)
(* One process edits one work; other programs, a second ORIGAMI3 among     *)
(* them, write the same files.  Every operation runs under the store mutex *)
(* and is one step; a save also holds the lock file that keeps other       *)
(* ORIGAMI3 processes out between its check and its write                  *)
(* (commands.rs:477).  Operations that return an error change nothing and  *)
(* are no step.                                                            *)
(*                                                                         *)
(* Abstractions.  A crease pattern is a value of Pattern, which also       *)
(* stands for the paper and the display settings; the geometry decides     *)
(* which pattern an operation yields, and here any of them may come out.   *)
(* A step of the folding sequence is its id, whether it is a pose, the     *)
(* number of the operation that made it (0: it came in a file or a         *)
(* proposal) and a revision.  The crease lines a step added are the number *)
(* of the operation that added them.                                       *)
(***************************************************************************)
EXTENDS Naturals, SequencesExt

CONSTANTS
  Pattern,    \* crease patterns
  Unfolded,   \* the pattern of a new document
  Path,       \* names of files
  File,       \* files; two names may lead to one
  Real,       \* Real[p]: the file that path p leads to (canonicalize)
  Foreign,    \* texts other programs write into a file
  Imported,   \* documents a FOLD file may turn into
  Numbering,  \* the ids of the steps of a proposal
  MaxUndo,    \* MAX_UNDO
  MaxId,      \* bound: step ids
  MaxBorn,    \* bound: operations that make a step
  MaxEdit,    \* bound: edits
  MaxOther,   \* bound: writes by other programs
  MaxCrash,   \* bound: crashes of the process
  MaxLag,     \* bound: answers the front end has not yet shown
  MaxLate,    \* bound: requests that take one step for another
  None,       \* Option::None, a missing file
  Absent,     \* no provenance for a step id
  NoLines     \* provenance of a step that added no line

Id   == 0 .. MaxId
Kind == {"fold", "pose"}
Born == 0 .. MaxBorn

Step     == [id : Id, kind : Kind, born : Born, rev : {0, 1}]
Document == [cp : Pattern, steps : Seq(Step)]
Creases  == [Id -> Born \union {NoLines, Absent}]
Snapshot == [doc : Document, creases : Creases]

Exact      == [kind : {"exact"}, at : File, text : Snapshot]
Unreadable == [kind : {"unreadable"}, at : Path, text : {None}]

ASSUME StoreBounds ==
  /\ MaxUndo \in Nat \ {0} /\ MaxId \in Nat /\ MaxBorn \in Nat /\ MaxEdit \in Nat
  /\ MaxOther \in Nat /\ MaxCrash \in Nat /\ MaxLag \in Nat /\ MaxLate \in Nat

ASSUME StoreValues ==
  /\ Unfolded \in Pattern
  /\ Real \in [Path -> File]
  /\ Foreign \subseteq Snapshot
  /\ Imported \subseteq Document
  /\ Numbering \subseteq Seq(Id)
  /\ None \notin Path \union Snapshot \union Exact \union Unreadable
  /\ Absent # NoLines
  /\ Absent \notin Nat /\ NoLines \notin Nat

VARIABLES
  doc, creases,  \* the document and the provenance of its crease lines
  faces,         \* the pattern the cached faces were extracted from
  undo, redo,    \* stacks of snapshots, newest last
  dirty,
  path,          \* where the work is saved, or None
  persisted,     \* what that file is known to hold (PersistedFile), or None
  file,          \* file[f]: the text on disk, or None
  basis,         \* history: the text on disk the work on screen grew from
  crashed,       \* history: the dirty work a crash left, as autosave keeps it
  screen,        \* the document the front end shows, then those of the answers on their way
  spent          \* how much of each bound is used

storeVars == <<doc, creases, faces, undo, redo, dirty, path, persisted>>
vars == <<storeVars, file, basis, crashed, screen, spent>>

Current == [doc |-> doc, creases |-> creases]

Shown == screen[1]

-----------------------------------------------------------------------------
(* Step ids and provenance.                                                *)

LeastOf(S) == CHOOSE i \in S : \A j \in S : i <= j

IdsOf(d) == {d.steps[i].id : i \in 1 .. Len(d.steps)}

UniqueIds(d) == \A i, j \in 1 .. Len(d.steps) : d.steps[i].id = d.steps[j].id => i = j

(* The lines recorded under the id of a step are those that step added: a  *)
(* fold has its own and a pose none, though for a step that came from      *)
(* outside nothing may be known.                                           *)
CreasesOf(s) ==
  \A i \in 1 .. Len(s.doc.steps) :
    LET step == s.doc.steps[i]
        own  == IF step.kind = "pose" THEN NoLines ELSE step.born
    IN \/ s.creases[step.id] = own
       \/ step.born = 0 /\ s.creases[step.id] = Absent

(* What comes from outside numbers its steps apart, as the program's own   *)
(* files do, and shares no line with a step made here.                     *)
ASSUME OutsideTexts ==
  /\ \A text \in Foreign : UniqueIds(text.doc) /\ CreasesOf(text)
  /\ \A d \in Imported : UniqueIds(d) /\ \A i \in 1 .. Len(d.steps) : d.steps[i].born = 0

Above(S) == LeastOf({n \in 0 .. MaxId + 1 : \A i \in S : i < n})

(* One more than any id of a step and of a provenance: a removed step's    *)
(* provenance must not become that of a new step.                          *)
NextStepId(d, c) == Above(IdsOf(d) \union {i \in Id : c[i] # Absent})

(* The front end numbers the pose steps it records by the steps it shows.  *)
FrontNextStepId(d) == Above(IdsOf(d))

(* Mutant: a pose step takes over what is recorded under its id.           *)
RecordFrontendStepKept(c, step) == c

RecordFrontendStep(c, step) ==
  IF step.kind = "pose" THEN [c EXCEPT ![step.id] = NoLines] ELSE c

RetainExistingSteps(d, c) ==
  [i \in Id |-> IF i \in IdsOf(d) THEN c[i] ELSE Absent]

Retained(text) == [text EXCEPT !.creases = RetainExistingSteps(text.doc, @)]

SavedDocument == Retained(Current)

-----------------------------------------------------------------------------
(* Commit: the one place where edits enter the undo history.               *)

(* Mutants: what was undone can still be redone; the history has no limit. *)
ReplaceKeepsRedo(d, c) ==
  IF d = doc /\ c = creases
  THEN UNCHANGED <<doc, creases, faces, undo, redo>>
  ELSE /\ doc' = d /\ creases' = c /\ faces' = d.cp
       /\ undo' = Append(IF Len(undo) >= MaxUndo THEN Tail(undo) ELSE undo, Current)
       /\ UNCHANGED redo

ReplaceUnlimited(d, c) ==
  IF d = doc /\ c = creases
  THEN UNCHANGED <<doc, creases, faces, undo, redo>>
  ELSE /\ doc' = d /\ creases' = c /\ faces' = d.cp
       /\ undo' = Append(undo, Current)
       /\ redo' = << >>

Replace(d, c) ==
  IF d = doc /\ c = creases
  THEN UNCHANGED <<doc, creases, faces, undo, redo>>
  ELSE /\ doc' = d /\ creases' = c /\ faces' = d.cp
       /\ undo' = Append(IF Len(undo) >= MaxUndo THEN Tail(undo) ELSE undo, Current)
       /\ redo' = << >>

Commit(d, c) ==
  Replace(d, c) /\ dirty' = (dirty \/ [doc |-> d, creases |-> c] # Current)

Unfiled == UNCHANGED <<path, persisted, file, basis, crashed>>

(* An edit that makes so many steps.  It is late if the front end meant it *)
(* for a document it still showed, and it meets another step in this one.  *)
EditAsked(d, c, made, late) ==
  /\ spent.edit < MaxEdit /\ spent.born + made <= MaxBorn /\ spent.late + late <= MaxLate
  /\ spent' = [spent EXCEPT !.edit = @ + 1, !.born = @ + made, !.late = @ + late]
  /\ Commit(d, c)
  /\ Unfiled

Edit(d, c, made) == EditAsked(d, c, made, 0)

NewStep(i, kind) == [id |-> i, kind |-> kind, born |-> spent.born + 1, rev |-> 0]

Inserted(d, i, step) == [d EXCEPT !.steps = InsertAt(@, i, step)]

-----------------------------------------------------------------------------
(* Editing.                                                                *)

(* apply_edits: the pattern changes, the sequence does not.                *)
EditPattern(p) == Edit([doc EXCEPT !.cp = p], creases, 0)

ReplaceCreasePattern(p) == Edit([cp |-> p, steps |-> << >>], creases, 0)

(* Steps of a proposal carry the ids the proposal gives them.              *)
ApplyProposal(p, ids) ==
  /\ IsInjective(ids)
  /\ Edit([cp |-> p,
           steps |-> [i \in 1 .. Len(ids) |->
                        [id |-> ids[i], kind |-> "fold", born |-> 0, rev |-> 0]]],
          [i \in Id |-> Absent], 0)

(* PushStep: the front end records the pose on screen as a step, under the *)
(* id it found free in the document it showed.  It is put in as it comes.  *)
PushStep ==
  LET step == NewStep(FrontNextStepId(Shown), "pose")
  IN /\ step.id \in Id
     /\ EditAsked(Inserted(doc, Len(doc.steps) + 1, step), RecordFrontendStep(creases, step),
                  1, IF step.id \in IdsOf(doc) THEN 1 ELSE 0)

(* All steps with the id go, in their order the others stay; so does what  *)
(* is recorded under the id.                                               *)
RemoveStep(id) ==
  LET left == {i \in 1 .. Len(doc.steps) : doc.steps[i].id # id}
  IN /\ id \in IdsOf(doc)
     /\ \E order \in [1 .. Cardinality(left) -> left] :
          /\ \A i, j \in DOMAIN order : i < j => order[i] < order[j]
          /\ Edit([doc EXCEPT !.steps = [i \in DOMAIN order |-> @[order[i]]]], creases, 0)

MoveStep(from, to) ==
  LET step == doc.steps[from]
  IN /\ UniqueIds(doc)
     /\ Edit([doc EXCEPT !.steps = InsertAt(RemoveAt(@, from), to, step)], creases, 0)

(* The front end sends a step it shows with a change in it; it replaces    *)
(* the first step with its id, whichever that now is.                      *)
UpdateStep(i) ==
  LET step == [Shown.steps[i] EXCEPT !.rev = 1 - @]
      same == {j \in 1 .. Len(doc.steps) : doc.steps[j].id = step.id}
      at   == LeastOf(same)
      late == IF [doc.steps[at] EXCEPT !.rev = step.rev] = step THEN 0 ELSE 1
  IN same # {} /\ EditAsked([doc EXCEPT !.steps[at] = step], creases, 0, late)

(* Mutant: both new steps are numbered before either is in the sequence.   *)
FoldNumberedAtOnce(p, at, posed) ==
  LET pose  == NewStep(NextStepId(doc, creases), "pose")
      d     == IF posed THEN Inserted(doc, at, pose) ELSE doc
      c     == IF posed THEN RecordFrontendStep(creases, pose) ELSE creases
      fold  == NewStep(NextStepId(doc, creases), "fold")
      index == IF posed THEN at + 1 ELSE at
  IN /\ pose.id \in Id /\ fold.id \in Id
     /\ Edit([Inserted(d, index, fold) EXCEPT !.cp = p], [c EXCEPT ![fold.id] = fold.born], 1)

(* FoldThrough and CreaseOnlyTop record the pose on screen as a step of    *)
(* its own before the fold; FlatMotion and Technique add the fold alone.   *)
Fold(p, at, posed) ==
  LET pose  == NewStep(NextStepId(doc, creases), "pose")
      d     == IF posed THEN Inserted(doc, at, pose) ELSE doc
      c     == IF posed THEN RecordFrontendStep(creases, pose) ELSE creases
      fold  == NewStep(NextStepId(d, c), "fold")
      index == IF posed THEN at + 1 ELSE at
  IN /\ pose.id \in Id /\ fold.id \in Id
     /\ Edit([Inserted(d, index, fold) EXCEPT !.cp = p], [c EXCEPT ![fold.id] = fold.born], 1)

(* Mutants: the work stays saved after an undo; the cached faces stay those *)
(* of the state left.                                                      *)
UndoClean ==
  /\ undo # << >>
  /\ LET prev == Last(undo)
     IN doc' = prev.doc /\ creases' = prev.creases /\ faces' = prev.doc.cp
  /\ undo' = Front(undo) /\ redo' = Append(redo, Current)
  /\ Unfiled /\ UNCHANGED <<dirty, spent>>

UndoStaleFaces ==
  /\ undo # << >>
  /\ LET prev == Last(undo)
     IN doc' = prev.doc /\ creases' = prev.creases
  /\ undo' = Front(undo) /\ redo' = Append(redo, Current)
  /\ dirty' = TRUE
  /\ Unfiled /\ UNCHANGED <<faces, spent>>

Undo ==
  /\ undo # << >>
  /\ LET prev == Last(undo)
     IN doc' = prev.doc /\ creases' = prev.creases /\ faces' = prev.doc.cp
  /\ undo' = Front(undo) /\ redo' = Append(redo, Current)
  /\ dirty' = TRUE
  /\ Unfiled /\ UNCHANGED spent

(* Mutant: the snapshot is taken for its document.                         *)
RedoSnapshot ==
  /\ redo # << >>
  /\ LET next == Last(redo)
     IN doc' = next /\ creases' = next.creases /\ faces' = next.doc.cp
  /\ redo' = Front(redo) /\ undo' = Append(undo, Current)
  /\ dirty' = TRUE
  /\ Unfiled /\ UNCHANGED spent

Redo ==
  /\ redo # << >>
  /\ LET next == Last(redo)
     IN doc' = next.doc /\ creases' = next.creases /\ faces' = next.doc.cp
  /\ redo' = Front(redo) /\ undo' = Append(undo, Current)
  /\ dirty' = TRUE
  /\ Unfiled /\ UNCHANGED spent

-----------------------------------------------------------------------------
(* Files.                                                                  *)

ExactText(p, text) == [kind |-> "exact", at |-> Real[p], text |-> text]

(* Another work takes the place of this one, without its history.          *)
Become(text) ==
  /\ doc' = text.doc /\ creases' = text.creases /\ faces' = text.doc.cp
  /\ undo' = << >> /\ redo' = << >>

NewText == [doc |-> [cp |-> Unfolded, steps |-> << >>], creases |-> [i \in Id |-> Absent]]

NewDocument ==
  /\ Become(NewText)
  /\ dirty' = FALSE /\ path' = None /\ persisted' = None /\ basis' = None
  /\ UNCHANGED <<file, crashed, spent>>

Open(p) ==
  LET text == file[Real[p]]
  IN /\ text # None
     /\ Become(text)
     /\ dirty' = FALSE /\ path' = p /\ persisted' = ExactText(p, text) /\ basis' = text
     /\ UNCHANGED <<file, crashed, spent>>

(* A FOLD file is one edit of the work on screen: undo brings that back,   *)
(* but not where it was saved.                                             *)
ImportFold(d) ==
  /\ spent.edit < MaxEdit
  /\ spent' = [spent EXCEPT !.edit = @ + 1]
  /\ Replace(d, [i \in Id |-> Absent])
  /\ dirty' = TRUE /\ path' = None /\ persisted' = None /\ basis' = None
  /\ UNCHANGED <<file, crashed>>

(* Mutant: a file is recognised by its remembered name only.               *)
BelongsToByName(p) == p = path

BelongsTo(p) ==
  \/ p = path
  \/ /\ persisted.kind = "exact"
     /\ file[Real[p]] # None
     /\ persisted.at = Real[p]
  \/ persisted.kind = "unreadable" /\ persisted.at = p

VerifyCurrent(p) == persisted.kind = "exact" /\ file[Real[p]] = persisted.text

Save(p) ==
  /\ persisted # None /\ BelongsTo(p) => VerifyCurrent(p)
  /\ file' = [file EXCEPT ![Real[p]] = SavedDocument]
  /\ path' = p /\ persisted' = ExactText(p, SavedDocument) /\ basis' = SavedDocument
  /\ dirty' = FALSE
  /\ UNCHANGED <<doc, creases, faces, undo, redo, crashed, spent>>

(* The work the autosave kept comes back, with the name it had.            *)
Restore ==
  LET p == crashed.path
  IN /\ crashed # None
     /\ Become(crashed.text)
     /\ dirty' = TRUE /\ path' = p /\ basis' = crashed.basis
     /\ persisted' = IF p = None THEN None
                     ELSE IF file[Real[p]] # None THEN ExactText(p, file[Real[p]])
                     ELSE [kind |-> "unreadable", at |-> p, text |-> None]
     /\ crashed' = None
     /\ UNCHANGED <<file, spent>>

-----------------------------------------------------------------------------
(* What happens around the store.                                          *)

(* The process dies with unsaved work and is started again.                *)
Crash ==
  /\ dirty /\ spent.crash < MaxCrash
  /\ spent' = [spent EXCEPT !.crash = @ + 1]
  /\ crashed' = [text |-> SavedDocument, path |-> path, basis |-> basis]
  /\ Become(NewText)
  /\ dirty' = FALSE /\ path' = None /\ persisted' = None /\ basis' = None
  /\ UNCHANGED file

(* Another program writes or deletes a file.                               *)
OtherProgram(f) ==
  /\ spent.other < MaxOther
  /\ spent' = [spent EXCEPT !.other = @ + 1]
  /\ \E text \in Foreign \union {None} : file' = [file EXCEPT ![f] = text]
  /\ UNCHANGED <<storeVars, basis, crashed>>

-----------------------------------------------------------------------------
(* The answers on their way with that of the step being taken; the front   *)
(* end shows some of them, the oldest first, before the next operation.    *)
Answers ==
  LET due == Append(screen, doc')
  IN {SubSeq(due, i, Len(due)) : i \in {j \in 1 .. Len(due) : Len(due) - j <= MaxLag}}

Init ==
  /\ doc = NewText.doc /\ creases = NewText.creases /\ faces = Unfolded
  /\ undo = << >> /\ redo = << >>
  /\ dirty = FALSE /\ path = None /\ persisted = None
  /\ file \in [File -> Foreign \union {None}]
  /\ basis = None /\ crashed = None
  /\ screen = <<doc>>
  /\ spent = [edit |-> 0, born |-> 0, other |-> 0, crash |-> 0, late |-> 0]

Operation ==
  \/ \E p \in Pattern :
       \/ EditPattern(p) \/ ReplaceCreasePattern(p)
       \/ \E ids \in Numbering : ApplyProposal(p, ids)
       \/ \E at \in 1 .. Len(doc.steps) + 1, posed \in BOOLEAN : Fold(p, at, posed)
  \/ PushStep
  \/ \E id \in Id : RemoveStep(id)
  \/ \E i \in 1 .. Len(Shown.steps) : UpdateStep(i)
  \/ \E i, to \in 1 .. Len(doc.steps) : MoveStep(i, to)
  \/ Undo \/ Redo
  \/ NewDocument \/ \E d \in Imported : ImportFold(d)
  \/ \E p \in Path : Open(p) \/ Save(p)
  \/ Restore

Next ==
  \/ Operation /\ screen' \in Answers
  \/ Crash /\ screen' = <<doc'>>
  \/ \E f \in File : OtherProgram(f) /\ UNCHANGED screen

Spec == Init /\ [][Next]_vars

-----------------------------------------------------------------------------
(* Every variable has the shape the code gives it.                         *)
TypeOK ==
  /\ doc \in Document /\ creases \in Creases /\ faces \in Pattern
  /\ undo \in Seq(Snapshot) /\ redo \in Seq(Snapshot)
  /\ dirty \in BOOLEAN
  /\ path \in Path \union {None}
  /\ persisted \in Exact \union Unreadable \union {None}
  /\ file \in [File -> Snapshot \union {None}]
  /\ basis \in Snapshot \union {None}
  /\ crashed \in [text : Snapshot, path : Path \union {None},
                  basis : Snapshot \union {None}] \union {None}
  /\ screen \in Seq(Document) /\ screen # << >>
  /\ spent \in [edit : 0 .. MaxEdit, born : Born, other : 0 .. MaxOther, crash : 0 .. MaxCrash,
                late : 0 .. MaxLate]

(* store.rs:326-329: the cached faces are those of the document on screen, *)
(* after every edit, undo, redo, open, import and restore.                 *)
FacesOfDocument == faces = doc.cp

(* store.rs:34, 1489-1491: all that can be undone and redone together      *)
(* stays within MAX_UNDO, although only a commit looks at the limit.       *)
HistoryBounded == Len(undo) + Len(redo) <= MaxUndo

Reachable ==
  {Current} \union {undo[i] : i \in 1 .. Len(undo)} \union {redo[i] : i \in 1 .. Len(redo)}

(* store.rs:2769-2776, 748-755: no state the user can undo or redo to has  *)
(* two steps with one id, which MoveStep refuses and provenance cannot tell *)
(* apart, as long as no request came late, made for an older screen and    *)
(* taking one step for another; answers may be behind all the same.        *)
StepIdsUnique == \A s \in Reachable : UniqueIds(s.doc)

(* store.rs:322-325, 2766-2768, 2806-2822: in every state the user can     *)
(* undo or redo to, the crease lines recorded under the id of a step are   *)
(* those that step added, never those of a removed step with its id; and a *)
(* fold made here has not lost them.  Again no request came late: a pose   *)
(* numbered for an older screen may take a fold's id (StorePoses.cfg).     *)
CreasesOfTheStep == \A s \in Reachable : CreasesOf(s)

(* store.rs:332, 447-517, 1336: a work that counts as saved is the text    *)
(* that was last read from its file or written there, or a new document.   *)
CleanIsPersisted ==
  ~dirty => IF persisted = None THEN Current = NewText /\ undo = << >>
            ELSE persisted.kind = "exact" /\ Retained(persisted.text) = SavedDocument

(* A save to the work's own file, by whatever name, replaces a text of     *)
(* another program that the work does not descend from.                    *)
SavesOverUnseen(p) ==
  /\ Save(p) /\ path # None /\ Real[p] = Real[path]
  /\ file'[Real[p]] # file[Real[p]] /\ file[Real[p]] \notin {basis, None}

(* store.rs:334-336: no save does.                                         *)
OnlySeenIsOverwritten == [][\A p \in Path : ~ SavesOverUnseen(p)]_vars

(* The same, as long as the program was not restarted.                     *)
OnlySeenUntilRestart ==
  [][spent.crash = 0 => \A p \in Path : ~ SavesOverUnseen(p)]_vars

(* The store implements EditHistory: undo and redo walk along one line of  *)
(* states, and each operation, however many steps it inserts, adds one.    *)
History ==
  INSTANCE EditHistory WITH timeline <- undo \o <<Current>> \o Reverse(redo),
                            at <- Len(undo) + 1

HistoryKept == History!Spec
=============================================================================
