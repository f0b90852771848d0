-------------------------- MODULE MCDocumentStore --------------------------
(* Small instances of DocumentStore for TLC. *)
EXTENDS DocumentStore

CONSTANTS p1, p2, f1, f2, n1, n2, n3

NoPath    == << >>
TwoNames  == (n1 :> f1) @@ (n2 :> f1) @@ (n3 :> f2)

Bare(cp) == [doc |-> [cp |-> cp, steps |-> << >>], creases |-> [i \in Id |-> Absent]]

FileStep == [id |-> 0, kind |-> "fold", born |-> 0, rev |-> 0]

(* A text with a step and its provenance, one without provenance (written  *)
(* by an old version) and one without steps.                               *)
OldText == [doc |-> [cp |-> p2, steps |-> <<FileStep>>], creases |-> [i \in Id |-> Absent]]
NewerText == [OldText EXCEPT !.creases[0] = 0]

NoText   == {}
Texts    == {Bare(p2), NewerText}
FoldFile == {[cp |-> p2, steps |-> <<FileStep>>]}
NoFold   == {}

NoProposal  == {}
Proposals   == {<< >>, <<0, 1>>}
=============================================================================
