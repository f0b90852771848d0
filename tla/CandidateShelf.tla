--------------------------- MODULE CandidateShelf ---------------------------
(***************************************************************************)
(* What the recovery area of the browser promises, without saying how      *)
(* (comments of AutosaveScheduler.ts and WebRecoveryRepository.ts): a work *)
(* that was not saved is kept under a number of its own, only a later      *)
(* state of the same work takes its place, and it goes only when the user  *)
(* refuses it or has it in a file.  A work is the set of its edits.        *)
(***************************************************************************)
EXTENDS Naturals

CONSTANT Absent

VARIABLES
  last,     \* the last number given out
  shelf,    \* what can be read back under each number
  files,    \* the works saved to files
  refused   \* the numbers the user has just refused

vars == <<last, shelf, files, refused>>

Saved(w) == \E f \in files : w \subseteq f

Init ==
  /\ last = 0 /\ refused = {}
  /\ \A c \in DOMAIN shelf : shelf[c] = Absent

Number == last' = last + 1 /\ UNCHANGED <<shelf, files, refused>>

(* A work is kept for the first time, under the newest number.             *)
Keep ==
  /\ last \in DOMAIN shelf /\ shelf[last] = Absent
  /\ shelf' = [shelf EXCEPT ![last] = shelf'[last]]
  /\ UNCHANGED <<last, files, refused>>

Renew(c) ==
  /\ shelf[c] # Absent /\ shelf'[c] # Absent
  /\ shelf[c] \subseteq shelf'[c]
  /\ shelf' = [shelf EXCEPT ![c] = shelf'[c]]
  /\ UNCHANGED <<last, files, refused>>

Save ==
  /\ files \subseteq files'
  /\ UNCHANGED <<last, shelf, refused>>

Refuse(c) == refused' = {c} /\ UNCHANGED <<last, shelf, files>>

(* The refusal is over: it was carried out, or could not be.               *)
Settle == refused' = {} /\ UNCHANGED <<last, shelf, files>>

Leave(c) ==
  /\ shelf[c] # Absent
  /\ c \in refused \/ Saved(shelf[c])
  /\ shelf' = [shelf EXCEPT ![c] = Absent]
  /\ refused' \in {refused, {}}
  /\ UNCHANGED <<last, files>>

Next ==
  \/ Number \/ Keep \/ Save \/ Settle
  \/ \E c \in DOMAIN shelf : Renew(c) \/ Refuse(c) \/ Leave(c)

Spec == Init /\ [][Next]_vars
=============================================================================
