------------------------------- MODULE MCDesk -------------------------------
(* Small instances of Desk for TLC. *)
EXTENDS Desk

AllInputs == {"edit", "new", "undo", "redo", "select", "play", "bend", "flatten", "finish",
              "record", "move", "fold", "save", "adopt"}
=============================================================================
