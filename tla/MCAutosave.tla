----------------------------- MODULE MCAutosave -----------------------------
(* Small instances of Autosave for TLC. *)
EXTENDS Autosave, TLC

CONSTANTS s1, s2, s3, e1

Sessions == Permutations(Session) \union Permutations(Edit)

NoLegacy  == {}
OneLegacy == {<<e1>>}

(* Bound on what befalls one history, beside the bound of each kind: three *)
(* of kills, damaged files, restores and discards, and never a damaged file *)
(* together with a discard.                                                 *)
FewMishaps ==
  /\ spent.damage + spent.discard <= 1
  /\ spent.crash + spent.damage + spent.restore + spent.discard <= 3
=============================================================================
