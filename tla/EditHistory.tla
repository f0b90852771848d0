---------------------------- MODULE EditHistory ----------------------------
(***************************************************************************)
(* What undo and redo promise (docs of apply_edits, undo, redo and commit  *)
(* in apps/desktop/src-tauri/src/store.rs): the states of a work form a    *)
(* line, the user stands at one of them, and every operation the user sees *)
(* as one adds one state after it, whatever it consists of inside.         *)
(***************************************************************************)
EXTENDS Naturals, Sequences

CONSTANT MaxUndo  \* MAX_UNDO: states that can be reached backwards

VARIABLES
  timeline,  \* the states, oldest first
  at         \* where the user stands

histVars == <<timeline, at>>

Init == Len(timeline) = 1 /\ at = 1

(* One operation: what could be redone is gone, the oldest state may be,   *)
(* and the new state is a different one.                                   *)
Commit ==
  LET past == SubSeq(timeline, 1, at)
      new  == timeline'[Len(timeline')]
  IN /\ new # timeline[at]
     /\ timeline' = Append(IF at > MaxUndo THEN Tail(past) ELSE past, new)
     /\ at' = Len(timeline')

Undo == at > 1 /\ at' = at - 1 /\ UNCHANGED timeline

Redo == at < Len(timeline) /\ at' = at + 1 /\ UNCHANGED timeline

(* Another work is opened.                                                 *)
Reset == Len(timeline') = 1 /\ at' = 1

Next == Commit \/ Undo \/ Redo \/ Reset

Spec == Init /\ [][Next]_histVars
=============================================================================
