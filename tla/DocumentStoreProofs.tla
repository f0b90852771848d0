------------------------ MODULE DocumentStoreProofs ------------------------
(***************************************************************************)
(* What TLAPS proves of DocumentStore, for any patterns, files, names and  *)
(* bounds.                                                                 *)
(*                                                                         *)
(* A good text is a snapshot whose step ids are unique and whose recorded  *)
(* lines belong to their steps.  Every operation makes a snapshot of a     *)
(* snapshot, and a good text of a good text unless its request came late;  *)
(* so every text the store, its history, its files or a crash hold is a    *)
(* snapshot, and a good one as long as no request was late.  The rest of   *)
(* the invariant says how the history is bounded and what a work without   *)
(* changes has on disk.                                                    *)
(***************************************************************************)
EXTENDS DocumentStore, SequenceTheorems, FiniteSetTheorems, WellFoundedInduction,
        NaturalsInduction, TLAPS

Good == {s \in Snapshot : UniqueIds(s.doc) /\ CreasesOf(s)}

(* The two kinds of text that operations preserve.                         *)
Texts == {Good, Snapshot}

Spent == [edit : 0 .. MaxEdit, born : Born, other : 0 .. MaxOther, crash : 0 .. MaxCrash,
          late : 0 .. MaxLate]

Crashed(G) == [text : G, path : Path \union {None}, basis : Snapshot \union {None}]

(* The work on screen and its history are of such texts.                   *)
Work(G) ==
  /\ Current \in G
  /\ undo \in Seq(G) /\ redo \in Seq(G)
  /\ FacesOfDocument
  /\ HistoryBounded

(* What the store knows of the files, and the files.                       *)
Filing(G) ==
  /\ dirty \in BOOLEAN
  /\ path \in Path \union {None}
  /\ persisted \in Exact \union Unreadable \union {None}
  /\ file \in [File -> G \union {None}]
  /\ basis \in Snapshot \union {None}
  /\ crashed \in Crashed(G) \union {None}

Holds(G) == Work(G) /\ Filing(G) /\ CleanIsPersisted /\ spent \in Spent

(* The front end shows a document.                                         *)
Screen == screen \in Seq(Document) /\ screen # << >>

IInv == Screen /\ Holds(Snapshot) /\ (spent.late = 0 => Holds(Good))

-----------------------------------------------------------------------------
(* Step ids.                                                               *)

(* A set of naturals that is not empty has a least element.                *)
LEMMA LeastIsLeast ==
  ASSUME NEW S \in SUBSET Nat, S # {}
  PROVE  LeastOf(S) \in S /\ \A n \in S : LeastOf(S) <= n
<1> DEFINE Less == {p \in Nat \X Nat : p[1] < p[2]}
<1>1. IsWellFoundedOn(Less, Nat)
  BY NatLessThanWellFounded DEF OpToRel
<1> HIDE DEF Less
<1>2. PICK m \in S : \A n \in S : ~(<<n, m>> \in Less)
  BY <1>1, WFMin
<1>3. ASSUME NEW n \in S PROVE m <= n
  <2>1. ~(<<n, m>> \in Less) /\ n \in Nat /\ m \in Nat
    BY <1>2
  <2> QED
    BY <2>1 DEF Less
<1> QED
  BY <1>3 DEF LeastOf

(* The number chosen for a new step is above all the ids it must avoid.    *)
LEMMA AboveAll ==
  ASSUME NEW S \in SUBSET Id
  PROVE  Above(S) \in Nat /\ \A i \in S : i < Above(S)
<1> DEFINE T == {n \in 0 .. MaxId + 1 : \A i \in S : i < n}
<1>1. T \in SUBSET Nat
  BY StoreBounds
<1>2. MaxId + 1 \in T
  BY StoreBounds DEF Id
<1>3. LeastOf(T) \in T
  BY <1>1, <1>2, LeastIsLeast
<1> QED
  BY <1>1, <1>3 DEF Above

(* Hence no step of the document has it.                                   *)
LEMMA NextIsFresh ==
  ASSUME NEW d \in Document, NEW c \in Creases
  PROVE  /\ NextStepId(d, c) \notin IdsOf(d)
         /\ FrontNextStepId(d) \notin IdsOf(d)
<1>1. IdsOf(d) \in SUBSET Id
  <2>1. d.steps \in Seq(Step)
    BY DEF Document
  <2>2. \A i \in 1 .. Len(d.steps) : d.steps[i] \in Step
    BY <2>1, ElementOfSeq
  <2> QED
    BY <2>2 DEF IdsOf, Step
<1>2. IdsOf(d) \union {i \in Id : c[i] # Absent} \in SUBSET Id
  BY <1>1
<1>3. \A i \in IdsOf(d) : i \in Nat
  BY <1>1, StoreBounds DEF Id
<1> QED
  BY <1>1, <1>2, <1>3, AboveAll DEF NextStepId, FrontNextStepId

-----------------------------------------------------------------------------
(* Sequences.                                                              *)

(* What a sequence consists of after an insertion.                         *)
LEMMA InsertAtElements ==
  ASSUME NEW S, NEW s \in Seq(S), NEW i \in 1 .. Len(s) + 1, NEW e \in S
  PROVE  /\ InsertAt(s, i, e) \in Seq(S)
         /\ Len(InsertAt(s, i, e)) = Len(s) + 1
         /\ \A j \in 1 .. Len(s) + 1 :
              InsertAt(s, i, e)[j] = IF j < i THEN s[j] ELSE IF j = i THEN e ELSE s[j - 1]
<1> DEFINE before == SubSeq(s, 1, i - 1)
           after  == SubSeq(s, i, Len(s))
<1>1. before \in Seq(S) /\ Len(before) = i - 1 /\ \A j \in 1 .. i - 1 : before[j] = s[j]
  BY SubSeqProperties
<1>2. /\ after \in Seq(S) /\ Len(after) = Len(s) - i + 1
      /\ \A j \in 1 .. Len(s) - i + 1 : after[j] = s[i + j - 1]
  BY SubSeqProperties
<1> HIDE DEF before, after
<1>3. before \o <<e>> \o after \in Seq(S) /\ Len(before \o <<e>> \o after) = Len(s) + 1
  BY <1>1, <1>2
<1>4. \A j \in 1 .. Len(s) + 1 :
        (before \o <<e>> \o after)[j] = IF j < i THEN s[j] ELSE IF j = i THEN e ELSE s[j - 1]
  BY <1>1, <1>2
<1> QED
  BY <1>3, <1>4 DEF InsertAt, before, after

(* The same of steps.                                                     *)
LEMMA InsertedStep ==
  ASSUME NEW s \in Seq(Step), NEW i \in 1 .. Len(s) + 1, NEW e \in Step
  PROVE  \A j \in 1 .. Len(s) + 1 :
           InsertAt(s, i, e)[j] = IF j < i THEN s[j] ELSE IF j = i THEN e ELSE s[j - 1]
  BY InsertAtElements

(* What a sequence consists of after a removal.                            *)
LEMMA RemoveAtElements ==
  ASSUME NEW S, NEW s \in Seq(S), NEW i \in 1 .. Len(s)
  PROVE  /\ RemoveAt(s, i) \in Seq(S)
         /\ Len(RemoveAt(s, i)) = Len(s) - 1
         /\ \A j \in 1 .. Len(s) - 1 :
              RemoveAt(s, i)[j] = IF j < i THEN s[j] ELSE s[j + 1]
<1> DEFINE before == SubSeq(s, 1, i - 1)
           after  == SubSeq(s, i + 1, Len(s))
<1>1. before \in Seq(S) /\ Len(before) = i - 1 /\ \A j \in 1 .. i - 1 : before[j] = s[j]
  BY SubSeqProperties
<1>2. /\ after \in Seq(S) /\ Len(after) = Len(s) - i
      /\ \A j \in 1 .. Len(s) - i : after[j] = s[i + j]
  BY SubSeqProperties
<1> HIDE DEF before, after
<1>3. before \o after \in Seq(S) /\ Len(before \o after) = Len(s) - 1
  BY <1>1, <1>2
<1>4. \A j \in 1 .. Len(s) - 1 : (before \o after)[j] = IF j < i THEN s[j] ELSE s[j + 1]
  BY <1>1, <1>2
<1> QED
  BY <1>3, <1>4 DEF RemoveAt, before, after

-----------------------------------------------------------------------------
(* Texts: each operation makes a good text of a good one.                  *)

Text(d, c) == [doc |-> d, creases |-> c]

LEMMA KindsOfText == \A G \in Texts : Good \subseteq G /\ G \subseteq Snapshot
BY DEF Texts, Good

(* A text of one of the two kinds.                                         *)
LEMMA TextIn ==
  ASSUME NEW G \in Texts, NEW d, NEW c
  PROVE  Text(d, c) \in G <=>
           /\ d \in Document /\ c \in Creases
           /\ G # Snapshot => UniqueIds(d) /\ CreasesOf(Text(d, c))
<1>1. Text(d, c) \in Snapshot <=> d \in Document /\ c \in Creases
  BY DEF Text, Snapshot
<1>2. Text(d, c).doc = d
  BY DEF Text
<1>3. Text(d, c) \in Good <=> /\ Text(d, c) \in Snapshot
                             /\ UniqueIds(d) /\ CreasesOf(Text(d, c))
  BY <1>2 DEF Good
<1>4. G = Good \/ G = Snapshot
  BY DEF Texts
<1> QED
  BY <1>1, <1>3, <1>4

LEMMA TextGood ==
  ASSUME NEW d, NEW c
  PROVE  Text(d, c) \in Good <=>
           d \in Document /\ c \in Creases /\ UniqueIds(d) /\ CreasesOf(Text(d, c))
<1>1. Good \in Texts
  BY DEF Texts
<1>2. Good = Snapshot /\ Text(d, c) \in Good => UniqueIds(d) /\ CreasesOf(Text(d, c))
  BY DEF Good, Text
<1>3. Text(d, c) \in Snapshot /\ UniqueIds(d) /\ CreasesOf(Text(d, c)) => Text(d, c) \in Good
  BY DEF Good, Text
<1>4. Text(d, c) \in Snapshot <=> d \in Document /\ c \in Creases
  BY DEF Text, Snapshot
<1> QED
  BY <1>1, <1>2, <1>3, <1>4, TextIn

LEMMA StepsOf ==
  ASSUME NEW d \in Document
  PROVE  /\ d = [cp |-> d.cp, steps |-> d.steps]
         /\ d.cp \in Pattern /\ d.steps \in Seq(Step) /\ Len(d.steps) \in Nat
         /\ \A i \in 1 .. Len(d.steps) : d.steps[i] \in Step /\ d.steps[i].id \in Id
<1>1. d = [cp |-> d.cp, steps |-> d.steps] /\ d.cp \in Pattern /\ d.steps \in Seq(Step)
  BY DEF Document
<1>2. Len(d.steps) \in Nat /\ \A i \in 1 .. Len(d.steps) : d.steps[i] \in Step
  BY <1>1, ElementOfSeq, LenProperties
<1> QED
  BY <1>1, <1>2 DEF Step

LEMMA ValuesOfCreases ==
  ASSUME NEW c \in Creases, NEW i \in Id, NEW v \in Born \union {NoLines, Absent}
  PROVE  [c EXCEPT ![i] = v] \in Creases
BY DEF Creases

(* A document without steps.                                               *)
LEMMA EmptyGood ==
  ASSUME NEW p \in Pattern, NEW c \in Creases
  PROVE  Text([cp |-> p, steps |-> << >>], c) \in Good
<1> DEFINE d == [cp |-> p, steps |-> << >>]
<1>1. d \in Document
  BY EmptySeq DEF Document
<1>2. Len(d.steps) = 0
  OBVIOUS
<1>3. UniqueIds(d) /\ CreasesOf(Text(d, c))
  BY <1>2 DEF UniqueIds, CreasesOf, Text
<1> QED
  BY <1>1, <1>3, TextGood

(* Another pattern under the same steps.                                   *)
LEMMA RecutIn ==
  ASSUME NEW G \in Texts, NEW d, NEW c, Text(d, c) \in G, NEW p \in Pattern
  PROVE  Text([d EXCEPT !.cp = p], c) \in G
<1> DEFINE e == [d EXCEPT !.cp = p]
<1>1. /\ d \in Document /\ c \in Creases
      /\ G # Snapshot => UniqueIds(d) /\ CreasesOf(Text(d, c))
  BY TextIn
<1>2. e \in Document /\ e.steps = d.steps
  BY <1>1 DEF Document
<1> HIDE DEF e
<1>3. G # Snapshot => UniqueIds(e) /\ CreasesOf(Text(e, c))
  BY <1>1, <1>2 DEF UniqueIds, CreasesOf, Text
<1>4. Text(e, c) \in G
  BY <1>1, <1>2, <1>3, TextIn
<1> QED
  BY <1>4 DEF e

(* What a save drops is of no step of the document.                        *)
LEMMA RetainedIn ==
  ASSUME NEW G \in Texts, NEW s \in G
  PROVE  Retained(s) \in G /\ Retained(Retained(s)) = Retained(s)
<1> DEFINE r == RetainExistingSteps(s.doc, s.creases)
<1>1. s \in Snapshot
  BY KindsOfText
<1>2. s = Text(s.doc, s.creases) /\ s.doc \in Document /\ s.creases \in Creases
  BY <1>1 DEF Snapshot, Text
<1>3. G # Snapshot => UniqueIds(s.doc) /\ CreasesOf(s)
  BY DEF Good, Texts
<1>4. Retained(s) = Text(s.doc, r)
  BY <1>2 DEF Retained, Text
<1>5. r \in Creases
  BY <1>2 DEF RetainExistingSteps, Creases
<1>6. \A i \in 1 .. Len(s.doc.steps) :
        s.doc.steps[i].id \in Id /\ r[s.doc.steps[i].id] = s.creases[s.doc.steps[i].id]
  BY <1>2, StepsOf DEF RetainExistingSteps, IdsOf
<1>7. RetainExistingSteps(s.doc, r) = r
  BY DEF RetainExistingSteps
<1> HIDE DEF r
<1>8. CreasesOf(s) => CreasesOf(Text(s.doc, r))
  BY <1>6 DEF CreasesOf, Text
<1>9. Retained(Text(s.doc, r)) = Text(s.doc, r)
  BY <1>7 DEF Retained, Text
<1>10. Text(s.doc, r) \in G
  BY <1>2, <1>3, <1>5, <1>8, TextIn
<1> QED
  BY <1>4, <1>9, <1>10

(* A new step with an id of its own, recorded with the lines it added.     *)
LEMMA InsertedIn ==
  ASSUME NEW G \in Texts, NEW d, NEW c, Text(d, c) \in G,
         NEW at \in 1 .. Len(d.steps) + 1,
         NEW step \in Step, G # Snapshot => step.id \notin IdsOf(d),
         NEW own, own = IF step.kind = "pose" THEN NoLines ELSE step.born
  PROVE  Text(Inserted(d, at, step), [c EXCEPT ![step.id] = own]) \in G
<1> DEFINE e == Inserted(d, at, step)
           f == [c EXCEPT ![step.id] = own]
           n == Len(d.steps)
<1>1. /\ d \in Document /\ c \in Creases
      /\ G # Snapshot => UniqueIds(d) /\ CreasesOf(Text(d, c))
  BY TextIn
<1>2. /\ n \in Nat /\ d.steps \in Seq(Step)
      /\ \A i \in 1 .. n : d.steps[i] \in Step /\ d.steps[i].id \in Id
  BY <1>1, StepsOf
<1>3. /\ e.steps \in Seq(Step) /\ Len(e.steps) = n + 1 /\ e \in Document
      /\ \A j \in 1 .. n + 1 :
           e.steps[j] = IF j < at THEN d.steps[j] ELSE IF j = at THEN step ELSE d.steps[j - 1]
  <2>1. e.steps = InsertAt(d.steps, at, step) /\ e.cp = d.cp
        /\ e = [cp |-> d.cp, steps |-> e.steps]
    BY <1>1 DEF Inserted, Document
  <2> HIDE DEF e
  <2>2. d.steps \in Seq(Step)
    BY <1>2
  <2>3. InsertAt(d.steps, at, step) \in Seq(Step)
    BY <2>2, InsertAtElements
  <2>4. Len(InsertAt(d.steps, at, step)) = Len(d.steps) + 1
    BY <2>2, InsertAtElements
  <2>5. \A j \in 1 .. Len(d.steps) + 1 :
          InsertAt(d.steps, at, step)[j] =
            IF j < at THEN d.steps[j] ELSE IF j = at THEN step ELSE d.steps[j - 1]
    BY <2>2, InsertedStep
  <2>6. e \in Document
    BY <1>1, <2>1, <2>3 DEF Document
  <2> QED
    BY <2>1, <2>3, <2>4, <2>5, <2>6
<1>4. own \in Born \union {NoLines} /\ step.id \in Id
  BY DEF Step
<1>5. f \in Creases
  BY <1>1, <1>4, ValuesOfCreases
<1>6. G # Snapshot => \A i \in 1 .. n : d.steps[i].id # step.id
  BY DEF IdsOf
<1>7. /\ f[step.id] = own
      /\ G # Snapshot => \A i \in 1 .. n : f[d.steps[i].id] = c[d.steps[i].id]
  BY <1>1, <1>2, <1>4, <1>6 DEF Creases
<1> HIDE DEF e, f
<1>8. ASSUME G # Snapshot PROVE UniqueIds(e)
  <2>0. ASSUME NEW j \in 1 .. n + 1, j # at
        PROVE  \E k \in 1 .. n : /\ e.steps[j] = d.steps[k] /\ d.steps[k].id # step.id
                                 /\ k = (IF j < at THEN j ELSE j - 1)
    <3>1. (IF j < at THEN j ELSE j - 1) \in 1 .. n
      BY <1>2, <2>0
    <3>2. e.steps[j] = d.steps[IF j < at THEN j ELSE j - 1]
      BY <1>3, <2>0
    <3> QED
      BY <1>6, <1>8, <3>1, <3>2
  <2> SUFFICES ASSUME NEW i \in 1 .. n + 1, NEW j \in 1 .. n + 1,
                      e.steps[i].id = e.steps[j].id
               PROVE  i = j
    BY <1>3 DEF UniqueIds
  <2>1. CASE i = at
    <3>1. e.steps[i].id = step.id
      BY <1>3, <2>1
    <3> QED
      BY <2>0, <2>1, <3>1
  <2>2. CASE j = at
    <3>1. e.steps[j].id = step.id
      BY <1>3, <2>2
    <3> QED
      BY <2>0, <2>2, <3>1
  <2>3. CASE i # at /\ j # at
    <3>1. PICK k \in 1 .. n : e.steps[i] = d.steps[k] /\ k = (IF i < at THEN i ELSE i - 1)
      BY <2>0, <2>3
    <3>2. PICK l \in 1 .. n : e.steps[j] = d.steps[l] /\ l = (IF j < at THEN j ELSE j - 1)
      BY <2>0, <2>3
    <3>3. k = l
      BY <1>1, <1>8, <3>1, <3>2 DEF UniqueIds
    <3> QED
      BY <1>2, <2>3, <3>1, <3>2, <3>3
  <2> QED
    BY <2>1, <2>2, <2>3
<1>9. ASSUME G # Snapshot PROVE CreasesOf(Text(e, f))
  <2> DEFINE Fits(g, st) ==
               \/ g[st.id] = IF st.kind = "pose" THEN NoLines ELSE st.born
               \/ st.born = 0 /\ g[st.id] = Absent
  <2>1. \A i \in 1 .. n : Fits(c, d.steps[i])
    BY <1>1, <1>9 DEF CreasesOf, Text
  <2>2. \A i \in 1 .. n : Fits(f, d.steps[i])
    BY <1>7, <1>9, <2>1
  <2>3. Fits(f, step)
    BY <1>7
  <2> HIDE DEF Fits
  <2>4. ASSUME NEW j \in 1 .. n + 1 PROVE Fits(f, e.steps[j])
    <3>1. CASE j = at
      BY <1>3, <2>3, <3>1
    <3>2. CASE j # at
      <4> DEFINE k == IF j < at THEN j ELSE j - 1
      <4>1. k \in 1 .. n /\ e.steps[j] = d.steps[k]
        BY <1>2, <1>3, <3>2
      <4> QED
        BY <2>2, <4>1
    <3> QED
      BY <3>1, <3>2
  <2> QED
    BY <1>3, <2>4 DEF CreasesOf, Text, Fits
<1>10. Text(e, f) \in G
  BY <1>3, <1>5, <1>8, <1>9, TextIn
<1> QED
  BY <1>10 DEF e, f

(* Steps taken from a text, each at most once and with nothing changed     *)
(* but its revision.                                                       *)
LEMMA RearrangedIn ==
  ASSUME NEW G \in Texts, NEW d, NEW c, Text(d, c) \in G, NEW e \in Document,
         NEW p \in [1 .. Len(e.steps) -> 1 .. Len(d.steps)],
         \A i, j \in 1 .. Len(e.steps) : p[i] = p[j] => i = j,
         G # Snapshot =>
           \A i \in 1 .. Len(e.steps) : /\ e.steps[i].id = d.steps[p[i]].id
                                        /\ e.steps[i].kind = d.steps[p[i]].kind
                                        /\ e.steps[i].born = d.steps[p[i]].born
  PROVE  Text(e, c) \in G
<1>1. /\ c \in Creases
      /\ G # Snapshot => UniqueIds(d) /\ CreasesOf(Text(d, c))
  BY TextIn
<1>2. ASSUME G # Snapshot PROVE UniqueIds(e)
  <2> SUFFICES ASSUME NEW i \in 1 .. Len(e.steps), NEW j \in 1 .. Len(e.steps),
                      e.steps[i].id = e.steps[j].id
               PROVE  i = j
    BY DEF UniqueIds
  <2>1. p[i] \in 1 .. Len(d.steps) /\ p[j] \in 1 .. Len(d.steps)
    OBVIOUS
  <2>2. d.steps[p[i]].id = d.steps[p[j]].id
    BY <1>2
  <2>3. p[i] = p[j]
    BY <1>1, <1>2, <2>1, <2>2 DEF UniqueIds
  <2> QED
    BY <2>3
<1>3. ASSUME G # Snapshot PROVE CreasesOf(Text(e, c))
  <2> SUFFICES ASSUME NEW i \in 1 .. Len(e.steps)
               PROVE  LET step == e.steps[i]
                          own  == IF step.kind = "pose" THEN NoLines ELSE step.born
                      IN \/ c[step.id] = own
                         \/ step.born = 0 /\ c[step.id] = Absent
    BY DEF CreasesOf, Text
  <2>1. p[i] \in 1 .. Len(d.steps)
    OBVIOUS
  <2>2. LET step == d.steps[p[i]]
            own  == IF step.kind = "pose" THEN NoLines ELSE step.born
        IN \/ c[step.id] = own
           \/ step.born = 0 /\ c[step.id] = Absent
    BY <1>1, <1>3, <2>1 DEF CreasesOf, Text
  <2> QED
    BY <1>3, <2>2
<1> QED
  BY <1>1, <1>2, <1>3, TextIn

(* Steps dropped, the others in their order.                               *)
LEMMA RemovedIn ==
  ASSUME NEW G \in Texts, NEW d, NEW c, Text(d, c) \in G,
         NEW left \in SUBSET (1 .. Len(d.steps)),
         NEW order \in [1 .. Cardinality(left) -> left],
         \A i, j \in DOMAIN order : i < j => order[i] < order[j]
  PROVE  \A steps : steps = [i \in DOMAIN order |-> d.steps[order[i]]] =>
                    Text([d EXCEPT !.steps = steps], c) \in G
<1> DEFINE st == d.steps
           m == Cardinality(left)
           kept == [i \in DOMAIN order |-> st[order[i]]]
           e == [d EXCEPT !.steps = kept]
<1>1. /\ d \in Document /\ d.cp \in Pattern /\ Len(st) \in Nat
      /\ \A i \in 1 .. Len(st) : st[i] \in Step
  BY TextIn, StepsOf
<1> HIDE DEF st
<1>2. m \in Nat
  <2>1. PICK n \in Int : n = Len(d.steps)
    BY <1>1 DEF st
  <2>2. IsFiniteSet(1 .. n)
    BY FS_Interval
  <2>3. left \in SUBSET (1 .. n)
    BY <2>1
  <2>4. IsFiniteSet(left)
    BY <2>2, <2>3, FS_Subset
  <2> QED
    BY <2>4, FS_CardinalityType
<1> HIDE DEF m
<1>3. DOMAIN order = 1 .. m /\ \A i \in 1 .. m : order[i] \in 1 .. Len(st)
  BY DEF m, st
<1>4. kept \in Seq(Step) /\ Len(kept) = m /\ \A i \in 1 .. m : kept[i] = st[order[i]]
  BY <1>1, <1>2, <1>3, IsASeq
<1> HIDE DEF kept
<1>5. e \in Document /\ e.steps = kept
  BY <1>1, <1>4 DEF Document
<1> HIDE DEF e
<1>6. order \in [1 .. Len(e.steps) -> 1 .. Len(d.steps)]
  BY <1>3, <1>4, <1>5 DEF st
<1>7. ASSUME NEW i \in 1 .. Len(e.steps), NEW j \in 1 .. Len(e.steps), order[i] = order[j]
      PROVE  i = j
  <2>1. i \in DOMAIN order /\ j \in DOMAIN order /\ i \in Int /\ j \in Int
    BY <1>3, <1>4, <1>5
  <2>2. order[i] \in Int /\ order[j] \in Int
    BY <1>1, <1>3, <2>1
  <2>3. ~(i < j) /\ ~(j < i)
    BY <1>7, <2>1, <2>2
  <2> QED
    BY <2>1, <2>3
<1> DEFINE p == [i \in 1 .. Len(e.steps) |-> order[i]]
<1>8. /\ p \in [1 .. Len(e.steps) -> 1 .. Len(d.steps)]
      /\ \A i, j \in 1 .. Len(e.steps) : p[i] = p[j] => i = j
      /\ \A i \in 1 .. Len(e.steps) : e.steps[i] = d.steps[p[i]]
  BY <1>4, <1>5, <1>6, <1>7 DEF st
<1> HIDE DEF p
<1>9. Text(e, c) \in G
  BY <1>5, <1>8, RearrangedIn
<1>10. Text([d EXCEPT !.steps = kept], c) \in G
  BY <1>9, Zenon DEF e
<1>11. kept = [i \in DOMAIN order |-> d.steps[order[i]]]
  BY DEF kept, st
<1> QED
  BY <1>10, <1>11, Zenon

(* One step replaced, by itself but for its revision if the text is to     *)
(* stay good.                                                              *)
LEMMA UpdatedIn ==
  ASSUME NEW G \in Texts, NEW d, NEW c, Text(d, c) \in G, NEW i \in 1 .. Len(d.steps),
         NEW new \in Step,
         G # Snapshot => /\ new.id = d.steps[i].id /\ new.kind = d.steps[i].kind
                     /\ new.born = d.steps[i].born
  PROVE  Text([d EXCEPT !.steps[i] = new], c) \in G
<1> DEFINE e == [d EXCEPT !.steps[i] = new]
           st == d.steps
           n == Len(st)
           p == [j \in 1 .. n |-> j]
<1>1. /\ d \in Document /\ st \in Seq(Step) /\ n \in Nat /\ i \in 1 .. n
      /\ \A j \in 1 .. n : st[j] \in Step
  BY TextIn, StepsOf
<1>2. /\ e.steps = [st EXCEPT ![i] = new]
      /\ e = [cp |-> d.cp, steps |-> e.steps] /\ d.cp \in Pattern
  <2>1. d = [cp |-> d.cp, steps |-> st] /\ d.cp \in Pattern
    BY <1>1, StepsOf
  <2>2. e = [d EXCEPT !.steps = [st EXCEPT ![i] = new]]
    OBVIOUS
  <2> HIDE DEF st, e
  <2> QED
    BY <2>1, <2>2
<1> HIDE DEF e
<1>3. G # Snapshot => new.id = st[i].id /\ new.kind = st[i].kind /\ new.born = st[i].born
  OBVIOUS
<1> HIDE DEF st
<1>4. /\ [st EXCEPT ![i] = new] \in Seq(Step) /\ Len([st EXCEPT ![i] = new]) = n
      /\ \A j \in 1 .. n : [st EXCEPT ![i] = new][j] = IF j = i THEN new ELSE st[j]
  BY <1>1, ExceptSeq
<1>5. e \in Document
  BY <1>2, <1>4 DEF Document
<1>6. p \in [1 .. Len(e.steps) -> 1 .. n]
  BY <1>1, <1>2, <1>4
<1>7. \A j, k \in 1 .. Len(e.steps) : p[j] = p[k] => j = k
  BY <1>1, <1>2, <1>4
<1>8. G # Snapshot => \A j \in 1 .. Len(e.steps) : /\ e.steps[j].id = st[p[j]].id
                                              /\ e.steps[j].kind = st[p[j]].kind
                                              /\ e.steps[j].born = st[p[j]].born
  BY <1>1, <1>2, <1>3, <1>4
<1> HIDE DEF p
<1>9. Text(e, c) \in G
  BY <1>5, <1>6, <1>7, <1>8, RearrangedIn DEF st
<1> QED
  BY <1>9 DEF e

LEMMA MovedIn ==
  ASSUME NEW G \in Texts, NEW d, NEW c, Text(d, c) \in G,
         NEW i \in 1 .. Len(d.steps), NEW to \in 1 .. Len(d.steps)
  PROVE  Text([d EXCEPT !.steps = InsertAt(RemoveAt(@, i), to, d.steps[i])], c) \in G
<1> DEFINE e == [d EXCEPT !.steps = InsertAt(RemoveAt(@, i), to, d.steps[i])]
           st == d.steps
           n == Len(st)
           rest == RemoveAt(st, i)
           q(j) == IF j < i THEN j ELSE j + 1
           p == [j \in 1 .. n |-> IF j < to THEN q(j) ELSE IF j = to THEN i ELSE q(j - 1)]
<1>1. d \in Document /\ st \in Seq(Step) /\ n \in Nat /\ i \in 1 .. n /\ to \in 1 .. n
      /\ st[i] \in Step
  BY TextIn, StepsOf
<1>2. /\ e.steps = InsertAt(rest, to, st[i])
      /\ e = [cp |-> d.cp, steps |-> e.steps] /\ d.cp \in Pattern
  BY <1>1 DEF Document
<1> HIDE DEF st, e
<1>3. /\ rest \in Seq(Step) /\ Len(rest) = n - 1
      /\ \A j \in 1 .. n - 1 : rest[j] = IF j < i THEN st[j] ELSE st[j + 1]
  BY <1>1, RemoveAtElements
<1> HIDE DEF rest
<1>4. to \in 1 .. Len(rest) + 1 /\ Len(rest) + 1 = n
  BY <1>1, <1>3
<1>5. InsertAt(rest, to, st[i]) \in Seq(Step) /\ Len(InsertAt(rest, to, st[i])) = n
  BY <1>1, <1>3, <1>4, InsertAtElements
<1>6. \A j \in 1 .. n : InsertAt(rest, to, st[i])[j] =
                          IF j < to THEN rest[j] ELSE IF j = to THEN st[i] ELSE rest[j - 1]
  BY <1>1, <1>3, <1>4, InsertedStep
<1>7. e \in Document
  BY <1>2, <1>5 DEF Document
<1>8. p \in [1 .. Len(e.steps) -> 1 .. n]
  BY <1>1, <1>2, <1>5
<1>9. \A j, k \in 1 .. Len(e.steps) : p[j] = p[k] => j = k
  BY <1>1, <1>2, <1>5
<1>10. ASSUME NEW j \in 1 .. Len(e.steps) PROVE e.steps[j] = st[p[j]]
  <2>0. j \in 1 .. n /\ e.steps[j] = InsertAt(rest, to, st[i])[j]
    BY <1>2, <1>5
  <2>1. CASE j < to
    <3>1. e.steps[j] = rest[j] /\ j \in 1 .. n - 1
      BY <1>1, <1>6, <2>0, <2>1
    <3>2. p[j] = q(j)
      BY <2>0, <2>1
    <3> QED
      BY <1>3, <3>1, <3>2
  <2>2. CASE j = to
    BY <1>1, <1>6, <2>0, <2>2
  <2>3. CASE j > to
    <3>1. e.steps[j] = rest[j - 1] /\ j - 1 \in 1 .. n - 1
      BY <1>1, <1>6, <2>0, <2>3
    <3>2. p[j] = q(j - 1)
      BY <1>1, <2>0, <2>3
    <3> HIDE DEF p
    <3>3. rest[j - 1] = st[q(j - 1)]
      BY <1>3, <3>1
    <3> QED
      BY <3>1, <3>2, <3>3
  <2> QED
    BY <1>1, <2>0, <2>1, <2>2, <2>3
<1> HIDE DEF p
<1>11. Text(e, c) \in G
  BY <1>7, <1>8, <1>9, <1>10, RearrangedIn DEF st
<1> QED
  BY <1>11 DEF e, st

(* The steps of a proposal have the ids it gives them, and no provenance.  *)
LEMMA ProposedGood ==
  ASSUME NEW p \in Pattern, NEW ids \in Numbering, IsInjective(ids)
  PROVE  Text([cp |-> p,
               steps |-> [i \in 1 .. Len(ids) |->
                            [id |-> ids[i], kind |-> "fold", born |-> 0, rev |-> 0]]],
              [i \in Id |-> Absent]) \in Good
<1> DEFINE st == [i \in 1 .. Len(ids) |-> [id |-> ids[i], kind |-> "fold", born |-> 0, rev |-> 0]]
           d == [cp |-> p, steps |-> st]
           c == [i \in Id |-> Absent]
<1>1. /\ ids \in Seq(Id) /\ Len(ids) \in Nat /\ DOMAIN ids = 1 .. Len(ids)
      /\ \A i \in 1 .. Len(ids) : ids[i] \in Id
  BY StoreValues, ElementOfSeq, LenProperties
<1>2. \A i \in 1 .. Len(ids) : st[i] \in Step
  BY <1>1, StoreBounds DEF Step, Kind, Born
<1>3. st \in Seq(Step) /\ Len(st) = Len(ids)
  BY <1>1, <1>2, IsASeq
<1>4. d \in Document /\ c \in Creases
  BY <1>3 DEF Document, Creases
<1>5. UniqueIds(d)
  BY <1>1, <1>3 DEF UniqueIds, IsInjective
<1>6. \A i \in 1 .. Len(st) : st[i].born = 0 /\ c[st[i].id] = Absent
  BY <1>1, <1>3
<1> HIDE DEF c, st
<1>7. CreasesOf(Text(d, c))
  BY <1>6 DEF CreasesOf, Text
<1> QED
  BY <1>4, <1>5, <1>7, TextGood DEF c, st

LEMMA ImportedGood ==
  ASSUME NEW d \in Imported
  PROVE  Text(d, [i \in Id |-> Absent]) \in Good
<1> DEFINE c == [i \in Id |-> Absent]
<1>1. d \in Document /\ UniqueIds(d) /\ c \in Creases
      /\ \A i \in 1 .. Len(d.steps) : d.steps[i].born = 0
  BY StoreValues, OutsideTexts DEF Creases
<1>2. \A i \in 1 .. Len(d.steps) : c[d.steps[i].id] = Absent
  BY <1>1, StepsOf
<1> HIDE DEF c
<1>3. CreasesOf(Text(d, c))
  BY <1>1, <1>2 DEF CreasesOf, Text
<1> QED
  BY <1>1, <1>3, TextGood DEF c

(* A text another program wrote, and the text of a new document.           *)
LEMMA OutsideGood == Foreign \subseteq Good /\ NewText \in Good
<1>1. Foreign \subseteq Good
  BY StoreValues, OutsideTexts DEF Good
<1>2. [i \in Id |-> Absent] \in Creases
  BY DEF Creases
<1>3. NewText = Text([cp |-> Unfolded, steps |-> << >>], [i \in Id |-> Absent])
  BY DEF NewText, Text
<1> QED
  BY <1>1, <1>2, <1>3, EmptyGood, StoreValues

-----------------------------------------------------------------------------
(* The history.                                                            *)

LEMMA TextIsText == \A d, c : [doc |-> d, creases |-> c] = Text(d, c)
BY DEF Text

LEMMA ReplaceKeeps ==
  ASSUME NEW G \in Texts, Work(G), NEW d, NEW c, Text(d, c) \in G, Replace(d, c)
  PROVE  Work(G)'
<1>1. CASE d = doc /\ c = creases
  BY <1>1 DEF Work, Replace, Current, FacesOfDocument, HistoryBounded
<1>2. CASE ~(d = doc /\ c = creases)
  <2>1. /\ doc' = d /\ creases' = c /\ faces' = d.cp
        /\ undo' = Append(IF Len(undo) >= MaxUndo THEN Tail(undo) ELSE undo, Current)
        /\ redo' = << >>
    BY <1>2 DEF Replace
  <2>2. Current' = Text(d, c)
    BY <2>1 DEF Current, Text
  <2>3. /\ Current \in G /\ undo \in Seq(G) /\ Len(undo) \in Nat /\ Len(redo) \in Nat
        /\ Len(undo) + Len(redo) <= MaxUndo /\ MaxUndo \in Nat \ {0}
    BY StoreBounds, LenProperties DEF Work, HistoryBounded
  <2>4. undo' \in Seq(G) /\ Len(undo') <= MaxUndo
    <3>1. CASE Len(undo) >= MaxUndo
      <4>1. Tail(undo) \in Seq(G) /\ Len(Tail(undo)) = Len(undo) - 1
        BY <2>3, <3>1, HeadTailProperties
      <4> QED
        BY <2>1, <2>3, <3>1, <4>1, AppendProperties
    <3>2. CASE ~(Len(undo) >= MaxUndo)
      BY <2>1, <2>3, <3>2, AppendProperties
    <3> QED
      BY <3>1, <3>2
  <2>5. redo' \in Seq(G) /\ Len(redo') = 0 /\ Len(undo') \in Nat
    BY <2>1, <2>4, EmptySeq, LenProperties
  <2> QED
    BY <2>1, <2>2, <2>3, <2>4, <2>5 DEF Work, FacesOfDocument, HistoryBounded
<1> QED
  BY <1>1, <1>2

LEMMA BecomeKeeps ==
  ASSUME NEW G \in Texts, NEW text \in G, Become(text)
  PROVE  Work(G)' /\ Current' = text /\ undo' = << >>
<1>1. text = [doc |-> text.doc, creases |-> text.creases]
  BY KindsOfText DEF Snapshot
<1>2. Current' = text
  BY <1>1 DEF Become, Current
<1>3. undo' = << >> /\ redo' = << >> /\ faces' = doc'.cp
  BY DEF Become
<1> QED
  BY <1>2, <1>3, EmptySeq, StoreBounds DEF Work, FacesOfDocument, HistoryBounded

(* One walk along the stacks: the top of one becomes the work, which goes  *)
(* on the other.                                                           *)
LEMMA WalkIn ==
  ASSUME NEW G, NEW s \in Seq(G), NEW t \in Seq(G), NEW x \in G, s # << >>,
         Len(s) + Len(t) <= MaxUndo
  PROVE  /\ Last(s) \in G /\ Front(s) \in Seq(G) /\ Append(t, x) \in Seq(G)
         /\ Len(Front(s)) + Len(Append(t, x)) <= MaxUndo
<1>1. Len(s) \in Nat \ {0} /\ Len(t) \in Nat
  BY EmptySeq, LenProperties
<1>2. Last(s) \in G
  BY <1>1, ElementOfSeq DEF Last
<1>3. Front(s) \in Seq(G) /\ Len(Front(s)) = Len(s) - 1
  <2>1. \A i \in 1 .. Len(s) - 1 : s[i] \in G
    BY <1>1, ElementOfSeq
  <2>2. SubSeq(s, 1, Len(s) - 1) \in Seq(G)
    BY <1>1, <2>1, SubSeqProperties
  <2>3. Len(SubSeq(s, 1, Len(s) - 1)) = Len(s) - 1
    <3>1. Len(SubSeq(s, 1, Len(s) - 1)) =
            IF 1 <= Len(s) - 1 THEN (Len(s) - 1) - 1 + 1 ELSE 0
      BY <1>1, <2>1, SubSeqProperties
    <3> DEFINE l == Len(SubSeq(s, 1, Len(s) - 1))
               n == Len(s)
    <3>2. n \in Nat \ {0} /\ l = IF 1 <= n - 1 THEN (n - 1) - 1 + 1 ELSE 0
      BY <1>1, <3>1
    <3> HIDE DEF l, n
    <3>3. l = n - 1
      BY <3>2
    <3> QED
      BY <3>3 DEF l, n
  <2> QED
    BY <2>2, <2>3 DEF Front
<1>4. Append(t, x) \in Seq(G) /\ Len(Append(t, x)) = Len(t) + 1
  BY AppendProperties
<1> QED
  BY <1>1, <1>2, <1>3, <1>4, StoreBounds

LEMMA UndoKeeps ==
  ASSUME NEW G \in Texts, Work(G), Undo
  PROVE  Work(G)'
<1>1. Len(undo) + Len(redo) <= MaxUndo /\ undo \in Seq(G) /\ redo \in Seq(G)
      /\ Current \in G /\ undo # << >>
  BY DEF Work, HistoryBounded, Undo
<1>2. /\ Last(undo) \in G /\ Front(undo) \in Seq(G) /\ Append(redo, Current) \in Seq(G)
      /\ Len(Front(undo)) + Len(Append(redo, Current)) <= MaxUndo
  BY <1>1, WalkIn
<1>3. /\ doc' = Last(undo).doc /\ creases' = Last(undo).creases /\ faces' = doc'.cp
      /\ undo' = Front(undo) /\ redo' = Append(redo, Current)
  BY DEF Undo
<1>4. Current' = Last(undo)
  BY <1>2, <1>3, KindsOfText DEF Current, Snapshot
<1> QED
  BY <1>2, <1>3, <1>4 DEF Work, FacesOfDocument, HistoryBounded

LEMMA RedoKeeps ==
  ASSUME NEW G \in Texts, Work(G), Redo
  PROVE  Work(G)'
<1>1. Len(redo) + Len(undo) <= MaxUndo /\ undo \in Seq(G) /\ redo \in Seq(G)
      /\ Current \in G /\ redo # << >>
  BY LenProperties DEF Work, HistoryBounded, Redo
<1>2. /\ Last(redo) \in G /\ Front(redo) \in Seq(G) /\ Append(undo, Current) \in Seq(G)
      /\ Len(Front(redo)) + Len(Append(undo, Current)) <= MaxUndo
  BY <1>1, WalkIn
<1>3. /\ doc' = Last(redo).doc /\ creases' = Last(redo).creases /\ faces' = doc'.cp
      /\ redo' = Front(redo) /\ undo' = Append(undo, Current)
  BY DEF Redo
<1>4. Current' = Last(redo)
  BY <1>2, <1>3, KindsOfText DEF Current, Snapshot
<1>5. Len(undo') \in Nat /\ Len(redo') \in Nat
  BY <1>2, <1>3, LenProperties
<1> QED
  BY <1>2, <1>3, <1>4, <1>5 DEF Work, FacesOfDocument, HistoryBounded

-----------------------------------------------------------------------------
(* Edits.                                                                  *)

LEMMA EditKeeps ==
  ASSUME NEW G \in Texts, Holds(G), NEW d, NEW c, Text(d, c) \in G,
         NEW made \in {0, 1}, NEW late \in {0, 1}, EditAsked(d, c, made, late)
  PROVE  Holds(G)'
<1>1. /\ Replace(d, c) /\ dirty' = (dirty \/ Text(d, c) # Current) /\ Unfiled
      /\ spent.edit < MaxEdit /\ spent.born + made <= MaxBorn /\ spent.late + late <= MaxLate
      /\ spent' = [spent EXCEPT !.edit = @ + 1, !.born = @ + made, !.late = @ + late]
  BY DEF EditAsked, Commit, Text
<1>2. Work(G)'
  BY <1>1, ReplaceKeeps DEF Holds
<1>3. Filing(G)'
  BY <1>1 DEF Holds, Filing, Unfiled
<1>4. spent' \in Spent
  <2>1. spent \in Spent
    BY DEF Holds
  <2>2. /\ spent.edit + 1 \in 0 .. MaxEdit /\ spent.born + made \in Born
        /\ spent.other \in 0 .. MaxOther /\ spent.crash \in 0 .. MaxCrash
        /\ spent.late + late \in 0 .. MaxLate
    BY <1>1, <2>1, StoreBounds DEF Spent, Born
  <2>3. spent' = [edit |-> spent.edit + 1, born |-> spent.born + made,
                  other |-> spent.other, crash |-> spent.crash, late |-> spent.late + late]
    BY <1>1, <2>1 DEF Spent
  <2> QED
    BY <2>2, <2>3 DEF Spent
<1>5. CleanIsPersisted'
  <2> SUFFICES ASSUME ~dirty' PROVE CleanIsPersisted'
    BY DEF CleanIsPersisted
  <2>1. ~dirty /\ Text(d, c) = Current
    BY <1>1, <1>3 DEF Holds, Filing
  <2>2. d = doc /\ c = creases
    BY <2>1 DEF Text, Current
  <2>3. UNCHANGED <<doc, creases, undo, persisted>>
    BY <1>1, <2>2 DEF Replace, Unfiled
  <2> QED
    BY <2>1, <2>3 DEF Holds, CleanIsPersisted, SavedDocument, Current
<1> QED
  BY <1>2, <1>3, <1>4, <1>5 DEF Holds

(* The work is such a text.                                                *)
LEMMA CurrentIn ==
  ASSUME NEW G \in Texts, Holds(G)
  PROVE  /\ Text(doc, creases) \in G /\ doc \in Document /\ creases \in Creases
         /\ doc.cp \in Pattern /\ doc.steps \in Seq(Step)
<1>1. Text(doc, creases) \in G
  BY DEF Holds, Work, Current, Text
<1> QED
  BY <1>1, TextIn, StepsOf

LEMMA NewStepType ==
  ASSUME NEW G \in Texts, Holds(G), spent.born + 1 <= MaxBorn, NEW i \in Id, NEW kind \in Kind
  PROVE  /\ NewStep(i, kind) \in Step
         /\ NewStep(i, kind).id = i /\ NewStep(i, kind).kind = kind
BY StoreBounds DEF Holds, Spent, NewStep, Step, Born

(* The pose the front end records.  If its id is another step's, only the *)
(* type of the text is kept.                                               *)
LEMMA PushStepKeeps ==
  ASSUME NEW G \in Texts, Holds(G), PushStep, G # Snapshot => spent'.late = spent.late
  PROVE  Holds(G)'
<1> DEFINE step == NewStep(FrontNextStepId(Shown), "pose")
           at == Len(doc.steps) + 1
           d == Inserted(doc, at, step)
           c == RecordFrontendStep(creases, step)
           late == IF step.id \in IdsOf(doc) THEN 1 ELSE 0
<1>1. step.id \in Id /\ EditAsked(d, c, 1, late)
  BY DEF PushStep
<1>2. /\ spent.born + 1 <= MaxBorn /\ FrontNextStepId(Shown) \in Id
      /\ spent' = [spent EXCEPT !.edit = @ + 1, !.born = @ + 1, !.late = @ + late]
  BY <1>1 DEF EditAsked, NewStep
<1>3. step \in Step /\ step.kind = "pose"
  BY <1>2, NewStepType DEF Kind
<1>4. late \in {0, 1}
  OBVIOUS
<1> HIDE DEF step, at
<1>5. G # Snapshot => step.id \notin IdsOf(doc)
  <2>1. spent \in Spent /\ spent.late \in Nat
    BY StoreBounds DEF Holds, Spent
  <2>2. spent'.late = spent.late + late
    BY <1>2, <2>1 DEF Spent
  <2> QED
    BY <2>1, <2>2
<1>6. c = [creases EXCEPT ![step.id] = NoLines]
  BY <1>3 DEF RecordFrontendStep
<1>7. at \in 1 .. Len(doc.steps) + 1
  BY CurrentIn, LenProperties DEF at
<1>8. Text(Inserted(doc, at, step), [creases EXCEPT ![step.id] = NoLines]) \in G
  BY <1>3, <1>5, <1>7, CurrentIn, InsertedIn
<1>9. Text(d, c) \in G
  BY <1>6, <1>8
<1> HIDE DEF d, c, late
<1> QED
  BY <1>1, <1>4, <1>9, EditKeeps

(* The step the front end changed, in the place of the one with its id.    *)
LEMMA UpdateStepKeeps ==
  ASSUME NEW G \in Texts, Holds(G), Screen, NEW i \in 1 .. Len(Shown.steps), UpdateStep(i),
         G # Snapshot => spent'.late = spent.late
  PROVE  Holds(G)'
<1> DEFINE step == [Shown.steps[i] EXCEPT !.rev = 1 - @]
           same == {j \in 1 .. Len(doc.steps) : doc.steps[j].id = step.id}
           at == LeastOf(same)
           late == IF [doc.steps[at] EXCEPT !.rev = step.rev] = step THEN 0 ELSE 1
           d == [doc EXCEPT !.steps[at] = step]
<1>1. same # {} /\ EditAsked(d, creases, 0, late)
  BY DEF UpdateStep
<1>2. step \in Step
  <2>1. Shown \in Document
    BY EmptySeq, ElementOfSeq, LenProperties DEF Screen, Shown
  <2>2. Shown.steps[i] \in Step
    BY <2>1, StepsOf
  <2> QED
    BY <2>2 DEF Step
<1>3. /\ Text(doc, creases) \in G /\ Len(doc.steps) \in Nat
      /\ \A j \in 1 .. Len(doc.steps) : doc.steps[j] \in Step
  BY CurrentIn, StepsOf
<1> HIDE DEF step
<1>4. at \in 1 .. Len(doc.steps) /\ doc.steps[at].id = step.id
  <2>1. same \in SUBSET Nat
    BY <1>3
  <2>2. at \in same
    BY <1>1, <2>1, LeastIsLeast
  <2> QED
    BY <2>2
<1> HIDE DEF same, at
<1>5. late \in {0, 1}
  OBVIOUS
<1>6. ASSUME G # Snapshot
      PROVE  step.kind = doc.steps[at].kind /\ step.born = doc.steps[at].born
  <2>1. spent \in Spent /\ spent.late \in Nat
    BY StoreBounds DEF Holds, Spent
  <2>2. spent'.late = spent.late + late
    BY <1>1, <2>1 DEF EditAsked, Spent
  <2>3. [doc.steps[at] EXCEPT !.rev = step.rev] = step
    BY <1>6, <2>1, <2>2
  <2>4. doc.steps[at] \in Step
    BY <1>3, <1>4
  <2> DEFINE old == doc.steps[at]
  <2> HIDE DEF old
  <2>5. /\ [old EXCEPT !.rev = step.rev].kind = old.kind
        /\ [old EXCEPT !.rev = step.rev].born = old.born
    BY <2>4 DEF Step, old
  <2> QED
    BY <2>3, <2>5 DEF old
<1>7. Text(d, creases) \in G
  BY <1>2, <1>3, <1>4, <1>6, UpdatedIn
<1> HIDE DEF d, late
<1> QED
  BY <1>1, <1>5, <1>7, EditKeeps

(* A fold, with the pose it was made in or without it.                     *)
LEMMA FoldKeeps ==
  ASSUME NEW G \in Texts, Holds(G), NEW p \in Pattern, NEW at \in 1 .. Len(doc.steps) + 1, NEW posed \in BOOLEAN,
         Fold(p, at, posed)
  PROVE  Holds(G)'
<1> DEFINE pose  == NewStep(NextStepId(doc, creases), "pose")
           d     == IF posed THEN Inserted(doc, at, pose) ELSE doc
           c     == IF posed THEN RecordFrontendStep(creases, pose) ELSE creases
           fold  == NewStep(NextStepId(d, c), "fold")
           index == IF posed THEN at + 1 ELSE at
           e     == Inserted(d, index, fold)
           f     == [c EXCEPT ![fold.id] = fold.born]
<1>1. pose.id \in Id /\ fold.id \in Id /\ Edit([e EXCEPT !.cp = p], f, 1)
  BY DEF Fold
<1>2. /\ spent.born + 1 <= MaxBorn
      /\ NextStepId(doc, creases) \in Id /\ NextStepId(d, c) \in Id
  BY <1>1 DEF Edit, EditAsked, NewStep
<1>3. /\ pose \in Step /\ pose.kind = "pose" /\ pose.id = NextStepId(doc, creases)
      /\ fold \in Step /\ fold.kind = "fold" /\ fold.id = NextStepId(d, c)
  BY <1>2, NewStepType DEF Kind
<1> HIDE DEF pose, fold
<1>4. Text(d, c) \in G /\ Len(doc.steps) \in Nat
      /\ Len(d.steps) = IF posed THEN Len(doc.steps) + 1 ELSE Len(doc.steps)
  <2>0. Len(doc.steps) \in Nat
    BY CurrentIn, LenProperties
  <2>1. CASE posed
    <3>1. pose.id \notin IdsOf(doc)
      BY <1>3, CurrentIn, NextIsFresh
    <3>2. c = [creases EXCEPT ![pose.id] = NoLines]
      BY <1>3, <2>1 DEF RecordFrontendStep
    <3>3. Text(Inserted(doc, at, pose), [creases EXCEPT ![pose.id] = NoLines]) \in G
      BY <1>3, <3>1, CurrentIn, InsertedIn
    <3>4. Len(Inserted(doc, at, pose).steps) = Len(doc.steps) + 1
      <4>1. Inserted(doc, at, pose).steps = InsertAt(doc.steps, at, pose)
        BY CurrentIn DEF Inserted, Document
      <4> QED
        BY <1>3, <4>1, CurrentIn, InsertAtElements
    <3> QED
      BY <2>0, <2>1, <3>2, <3>3, <3>4
  <2>2. CASE ~posed
    BY <2>0, <2>2, CurrentIn
  <2> QED
    BY <2>1, <2>2
<1>5. index \in 1 .. Len(d.steps) + 1
  BY <1>4
<1> HIDE DEF d, c, index
<1>6. fold.id \notin IdsOf(d)
  BY <1>3, <1>4, TextIn, NextIsFresh
<1>7. Text(e, f) \in G
  BY <1>3, <1>4, <1>5, <1>6, InsertedIn
<1> HIDE DEF e, f
<1>8. Text([e EXCEPT !.cp = p], f) \in G
  BY <1>7, RecutIn
<1> QED
  BY <1>1, <1>8, EditKeeps DEF Edit

-----------------------------------------------------------------------------
(* Files.                                                                  *)

(* What a save writes.                                                     *)
LEMMA SavedIn ==
  ASSUME NEW G \in Texts, Holds(G)
  PROVE  SavedDocument \in G /\ Retained(SavedDocument) = SavedDocument
BY RetainedIn DEF Holds, Work, SavedDocument

LEMMA ExactType ==
  ASSUME NEW p \in Path, NEW text \in Snapshot
  PROVE  ExactText(p, text) \in Exact /\ ExactText(p, text).kind = "exact"
         /\ ExactText(p, text).text = text /\ ExactText(p, text).at = Real[p]
BY StoreValues DEF ExactText, Exact

LEMMA FileType ==
  ASSUME NEW G \in Texts, Holds(G), NEW p \in Path, file[Real[p]] # None
  PROVE  file[Real[p]] \in G /\ file[Real[p]] \in Snapshot
BY StoreValues, KindsOfText DEF Holds, Filing

(* None is none of the values it stands in for.                            *)
LEMMA NoneIsNone ==
  /\ \A p \in Path : p # None
  /\ \A s \in Snapshot : s # None
  /\ \A x \in Exact \union Unreadable : x # None
BY StoreValues

LEMMA NewDocumentKeeps ==
  ASSUME NEW G \in Texts, Holds(G), NewDocument
  PROVE  Holds(G)'
<1>1. Become(NewText) /\ NewText \in G
  BY OutsideGood, KindsOfText DEF NewDocument
<1>2. Work(G)' /\ Current' = NewText /\ undo' = << >>
  BY <1>1, BecomeKeeps
<1>3. Filing(G)' /\ spent' \in Spent
  BY DEF Holds, Filing, NewDocument
<1>4. CleanIsPersisted'
  BY <1>2 DEF CleanIsPersisted, NewDocument, NewText
<1> QED
  BY <1>2, <1>3, <1>4 DEF Holds

LEMMA OpenKeeps ==
  ASSUME NEW G \in Texts, Holds(G), NEW p \in Path, Open(p)
  PROVE  Holds(G)'
<1> DEFINE text == file[Real[p]]
<1>1. /\ text # None /\ Become(text) /\ dirty' = FALSE /\ path' = p
      /\ persisted' = ExactText(p, text) /\ basis' = text
      /\ UNCHANGED <<file, crashed, spent>>
  BY DEF Open
<1>2. text \in G /\ text \in Snapshot
  BY <1>1, FileType
<1> HIDE DEF text
<1>3. Work(G)' /\ Current' = text
  BY <1>1, <1>2, BecomeKeeps
<1>4. persisted' \in Exact /\ persisted'.kind = "exact" /\ persisted'.text = text
  BY <1>1, <1>2, ExactType
<1>5. Filing(G)' /\ spent' \in Spent
  BY <1>1, <1>2, <1>4 DEF Holds, Filing
<1>6. SavedDocument' = Retained(text)
  BY <1>3 DEF SavedDocument
<1>7. CleanIsPersisted'
  BY <1>1, <1>4, <1>6, NoneIsNone DEF CleanIsPersisted
<1> QED
  BY <1>3, <1>5, <1>7 DEF Holds

LEMMA SaveKeeps ==
  ASSUME NEW G \in Texts, Holds(G), NEW p \in Path, Save(p)
  PROVE  Holds(G)'
<1>1. /\ file' = [file EXCEPT ![Real[p]] = SavedDocument] /\ path' = p
      /\ persisted' = ExactText(p, SavedDocument) /\ basis' = SavedDocument /\ dirty' = FALSE
      /\ UNCHANGED <<doc, creases, faces, undo, redo, crashed, spent>>
  BY DEF Save
<1>2. SavedDocument \in G /\ SavedDocument \in Snapshot
      /\ Retained(SavedDocument) = SavedDocument
  BY SavedIn, KindsOfText
<1>3. Work(G)' /\ Current' = Current /\ spent' \in Spent
  BY <1>1 DEF Holds, Work, Current, FacesOfDocument, HistoryBounded
<1>4. SavedDocument' = SavedDocument
  BY <1>3 DEF SavedDocument
<1>5. /\ persisted' \in Exact /\ persisted'.kind = "exact"
      /\ persisted'.text = SavedDocument
  BY <1>1, <1>2, ExactType
<1>6. file' \in [File -> G \union {None}]
  BY <1>1, <1>2, StoreValues DEF Holds, Filing
<1>7. Filing(G)'
  BY <1>1, <1>2, <1>5, <1>6 DEF Holds, Filing
<1>8. CleanIsPersisted'
  BY <1>2, <1>4, <1>5, NoneIsNone DEF CleanIsPersisted
<1> QED
  BY <1>3, <1>7, <1>8 DEF Holds

LEMMA ImportFoldKeeps ==
  ASSUME NEW G \in Texts, Holds(G), NEW d \in Imported, ImportFold(d)
  PROVE  Holds(G)'
<1>1. /\ Replace(d, [i \in Id |-> Absent]) /\ dirty' = TRUE
      /\ path' = None /\ persisted' = None /\ basis' = None
      /\ spent.edit < MaxEdit /\ spent' = [spent EXCEPT !.edit = @ + 1]
      /\ UNCHANGED <<file, crashed>>
  BY DEF ImportFold
<1>2. Work(G)'
  BY <1>1, ImportedGood, KindsOfText, ReplaceKeeps DEF Holds
<1>3. Filing(G)'
  BY <1>1 DEF Holds, Filing
<1>4. spent' \in Spent
  <2>1. spent \in Spent
    BY DEF Holds
  <2>2. spent.edit + 1 \in 0 .. MaxEdit
    BY <1>1, <2>1, StoreBounds DEF Spent
  <2> QED
    BY <1>1, <2>1, <2>2 DEF Spent
<1>5. CleanIsPersisted'
  BY <1>1 DEF CleanIsPersisted
<1> QED
  BY <1>2, <1>3, <1>4, <1>5 DEF Holds

LEMMA RestoreKeeps ==
  ASSUME NEW G \in Texts, Holds(G), Restore
  PROVE  Holds(G)'
<1> DEFINE p == crashed.path
<1>1. /\ crashed # None /\ Become(crashed.text) /\ dirty' = TRUE /\ path' = p
      /\ basis' = crashed.basis /\ crashed' = None
      /\ persisted' = IF p = None THEN None
                      ELSE IF file[Real[p]] # None THEN ExactText(p, file[Real[p]])
                      ELSE [kind |-> "unreadable", at |-> p, text |-> None]
      /\ UNCHANGED <<file, spent>>
  BY DEF Restore
<1>2. crashed \in Crashed(G)
  BY <1>1 DEF Holds, Filing
<1>3. crashed.text \in G /\ p \in Path \union {None}
      /\ crashed.basis \in Snapshot \union {None}
  BY <1>2 DEF Crashed
<1> HIDE DEF p
<1>4. Work(G)'
  BY <1>1, <1>3, BecomeKeeps
<1>5. persisted' \in Exact \union Unreadable \union {None}
  <2>1. CASE p = None
    BY <1>1, <2>1
  <2>2. CASE p # None /\ file[Real[p]] # None
    BY <1>1, <1>3, <2>2, FileType, ExactType
  <2>3. CASE p # None /\ file[Real[p]] = None
    BY <1>1, <1>3, <2>3 DEF Unreadable
  <2> QED
    BY <2>1, <2>2, <2>3
<1>6. Filing(G)' /\ spent' \in Spent
  BY <1>1, <1>3, <1>5 DEF Holds, Filing
<1>7. CleanIsPersisted'
  BY <1>1 DEF CleanIsPersisted
<1> QED
  BY <1>4, <1>6, <1>7 DEF Holds

LEMMA CrashKeeps ==
  ASSUME NEW G \in Texts, Holds(G), Crash
  PROVE  Holds(G)'
<1>1. /\ crashed' = [text |-> SavedDocument, path |-> path, basis |-> basis]
      /\ Become(NewText) /\ dirty' = FALSE /\ path' = None /\ persisted' = None /\ basis' = None
      /\ spent.crash < MaxCrash /\ spent' = [spent EXCEPT !.crash = @ + 1] /\ UNCHANGED file
  BY DEF Crash
<1>2. Work(G)' /\ Current' = NewText /\ undo' = << >>
  BY <1>1, OutsideGood, KindsOfText, BecomeKeeps
<1>3. crashed' \in Crashed(G)
  BY <1>1, SavedIn DEF Holds, Filing, Crashed
<1>4. Filing(G)'
  BY <1>1, <1>3 DEF Holds, Filing
<1>5. spent' \in Spent
  <2>1. spent \in Spent
    BY DEF Holds
  <2>2. spent.crash + 1 \in 0 .. MaxCrash
    BY <1>1, <2>1, StoreBounds DEF Spent
  <2> QED
    BY <1>1, <2>1, <2>2 DEF Spent
<1>6. CleanIsPersisted'
  BY <1>1, <1>2 DEF CleanIsPersisted, NewText
<1> QED
  BY <1>2, <1>4, <1>5, <1>6 DEF Holds

LEMMA OtherProgramKeeps ==
  ASSUME NEW G \in Texts, Holds(G), NEW f \in File, OtherProgram(f)
  PROVE  Holds(G)'
<1>1. PICK text \in Foreign \union {None} : file' = [file EXCEPT ![f] = text]
  BY DEF OtherProgram
<1>2. /\ spent.other < MaxOther /\ spent' = [spent EXCEPT !.other = @ + 1]
      /\ UNCHANGED <<doc, creases, faces, undo, redo, dirty, path, persisted, basis, crashed>>
  BY DEF OtherProgram, storeVars
<1>3. text \in G \union {None}
  BY OutsideGood, KindsOfText
<1>4. Work(G)' /\ CleanIsPersisted'
  BY <1>2 DEF Holds, Work, Current, FacesOfDocument, HistoryBounded, CleanIsPersisted, SavedDocument
<1>5. Filing(G)'
  BY <1>1, <1>2, <1>3 DEF Holds, Filing
<1>6. spent' \in Spent
  <2>1. spent \in Spent
    BY DEF Holds
  <2>2. spent.other + 1 \in 0 .. MaxOther
    BY <1>2, <2>1, StoreBounds DEF Spent
  <2> QED
    BY <1>2, <2>1, <2>2 DEF Spent
<1> QED
  BY <1>4, <1>5, <1>6 DEF Holds

-----------------------------------------------------------------------------
(* The invariant holds in every reachable state.                           *)

LEMMA InitHolds ==
  ASSUME NEW G \in Texts, Init
  PROVE  Holds(G)
<1>1. Current = NewText /\ undo = << >> /\ redo = << >> /\ faces = doc.cp
  BY DEF Init, Current, NewText
<1>2. Work(G)
  BY <1>1, OutsideGood, KindsOfText, EmptySeq, StoreBounds
  DEF Work, FacesOfDocument, HistoryBounded
<1>3. Filing(G)
  BY OutsideGood, KindsOfText DEF Init, Filing
<1>4. spent \in Spent
  BY StoreBounds DEF Init, Spent, Born
<1>5. CleanIsPersisted
  BY <1>1 DEF Init, CleanIsPersisted
<1> QED
  BY <1>2, <1>3, <1>4, <1>5 DEF Holds

LEMMA InitInvariant == Init => IInv
<1> SUFFICES ASSUME Init PROVE IInv
  OBVIOUS
<1>1. Holds(Snapshot) /\ Holds(Good)
  BY InitHolds DEF Texts
<1>2. screen = <<doc>> /\ doc \in Document
  BY <1>1, CurrentIn DEF Init, Texts
<1>3. Screen
  BY <1>2 DEF Screen
<1> QED
  BY <1>1, <1>3 DEF IInv

LEMMA EditActionsKeep ==
  ASSUME NEW G \in Texts, Holds(G), NEW p \in Pattern
  PROVE  /\ EditPattern(p) => Holds(G)'
         /\ ReplaceCreasePattern(p) => Holds(G)'
         /\ \A ids \in Numbering : ApplyProposal(p, ids) => Holds(G)'
<1>1. ASSUME EditPattern(p) PROVE Holds(G)'
  BY <1>1, CurrentIn, RecutIn, EditKeeps DEF EditPattern, Edit
<1>2. ASSUME ReplaceCreasePattern(p) PROVE Holds(G)'
  BY <1>2, CurrentIn, EmptyGood, KindsOfText, EditKeeps DEF ReplaceCreasePattern, Edit
<1>3. ASSUME NEW ids \in Numbering, ApplyProposal(p, ids) PROVE Holds(G)'
  BY <1>3, ProposedGood, KindsOfText, EditKeeps DEF ApplyProposal, Edit
<1> QED
  BY <1>1, <1>2, <1>3

LEMMA RemoveStepKeeps ==
  ASSUME NEW G \in Texts, Holds(G), NEW id \in Id, RemoveStep(id)
  PROVE  Holds(G)'
<1> DEFINE left == {i \in 1 .. Len(doc.steps) : doc.steps[i].id # id}
           kept(order) == [i \in DOMAIN order |-> doc.steps[order[i]]]
<1>1. PICK order \in [1 .. Cardinality(left) -> left] :
        /\ \A i, j \in DOMAIN order : i < j => order[i] < order[j]
        /\ Edit([doc EXCEPT !.steps = kept(order)], creases, 0)
  BY DEF RemoveStep
<1>2. left \in SUBSET (1 .. Len(doc.steps))
  OBVIOUS
<1> HIDE DEF left
<1>3. Text(doc, creases) \in G
  BY CurrentIn
<1>4. PICK steps : steps = kept(order)
  OBVIOUS
<1>5. Edit([doc EXCEPT !.steps = steps], creases, 0)
  BY <1>1, <1>4
<1>6. Text([doc EXCEPT !.steps = steps], creases) \in G
  BY <1>1, <1>2, <1>3, <1>4, RemovedIn
<1> QED
  BY <1>5, <1>6, EditKeeps DEF Edit

LEMMA MoveStepKeeps ==
  ASSUME NEW G \in Texts, Holds(G),
         NEW i \in 1 .. Len(doc.steps), NEW to \in 1 .. Len(doc.steps), MoveStep(i, to)
  PROVE  Holds(G)'
BY CurrentIn, MovedIn, EditKeeps DEF MoveStep, Edit

LEMMA WalksKeep ==
  ASSUME NEW G \in Texts, Holds(G), Undo \/ Redo
  PROVE  Holds(G)'
<1>1. Work(G)'
  BY UndoKeeps, RedoKeeps DEF Holds
<1>2. dirty' = TRUE /\ Unfiled /\ UNCHANGED spent
  BY DEF Undo, Redo
<1>3. Filing(G)' /\ CleanIsPersisted'
  BY <1>2 DEF Holds, Filing, Unfiled, CleanIsPersisted
<1> QED
  BY <1>1, <1>2, <1>3 DEF Holds

LEMMA StutterKeeps ==
  ASSUME NEW G \in Texts, Holds(G), UNCHANGED vars
  PROVE  Holds(G)'
BY DEF Holds, Work, Filing, CleanIsPersisted, Current, SavedDocument, FacesOfDocument,
       HistoryBounded, vars, storeVars

(* A step keeps good texts good if it does not carry out a late request,   *)
(* and snapshots snapshots.                                                *)
LEMMA StepKeeps ==
  ASSUME NEW G \in Texts, Holds(G), Screen, [Next]_vars, G # Snapshot => spent'.late = spent.late
  PROVE  Holds(G)'
<1>1. ASSUME NEW p \in Pattern,
             \/ EditPattern(p) \/ ReplaceCreasePattern(p)
             \/ \E ids \in Numbering : ApplyProposal(p, ids)
      PROVE  Holds(G)'
  BY <1>1, EditActionsKeep
<1>2. ASSUME NEW p \in Pattern, NEW at \in 1 .. Len(doc.steps) + 1, NEW posed \in BOOLEAN,
             Fold(p, at, posed)
      PROVE  Holds(G)'
  BY <1>2, FoldKeeps
<1>3. CASE \E id \in Id : RemoveStep(id)
  BY <1>3, RemoveStepKeeps
<1>4. CASE PushStep
  BY <1>4, PushStepKeeps
<1>5. CASE \E i \in 1 .. Len(Shown.steps) : UpdateStep(i)
  BY <1>5, UpdateStepKeeps
<1>6. CASE \E i, to \in 1 .. Len(doc.steps) : MoveStep(i, to)
  BY <1>6, MoveStepKeeps
<1>7. CASE Undo \/ Redo
  BY <1>7, WalksKeep
<1>8. CASE NewDocument \/ \E d \in Imported : ImportFold(d)
  BY <1>8, NewDocumentKeeps, ImportFoldKeeps
<1>9. CASE \E p \in Path : Open(p) \/ Save(p)
  BY <1>9, OpenKeeps, SaveKeeps
<1>10. CASE Restore \/ Crash \/ \E f \in File : OtherProgram(f)
  BY <1>10, RestoreKeeps, CrashKeeps, OtherProgramKeeps
<1>11. CASE UNCHANGED vars
  BY <1>11, StutterKeeps
<1> QED
  BY <1>1, <1>2, <1>3, <1>4, <1>5, <1>6, <1>7, <1>8, <1>9, <1>10, <1>11 DEF Next, Operation

(* What the front end shows remains a document.                            *)
LEMMA ScreenStays ==
  ASSUME Screen, doc' \in Document, [Next]_vars
  PROVE  Screen'
<1>1. CASE screen' \in Answers
  <2> DEFINE due == Append(screen, doc')
  <2>1. due \in Seq(Document) /\ Len(due) \in Nat \ {0}
    BY AppendProperties, LenProperties DEF Screen
  <2>2. PICK i \in 1 .. Len(due) : screen' = SubSeq(due, i, Len(due))
    BY <1>1 DEF Answers
  <2> HIDE DEF due
  <2>3. \A j \in i .. Len(due) : due[j] \in Document
    BY <2>1, ElementOfSeq
  <2>4. SubSeq(due, i, Len(due)) \in Seq(Document)
        /\ Len(SubSeq(due, i, Len(due))) = Len(due) - i + 1
    BY <2>1, <2>3, SubSeqProperties
  <2>5. Len(screen') # 0
    BY <2>1, <2>2, <2>4
  <2> QED
    BY <2>2, <2>4, <2>5, EmptySeq DEF Screen
<1>2. CASE screen' = <<doc'>>
  BY <1>2 DEF Screen
<1>3. CASE UNCHANGED screen
  BY <1>3 DEF Screen
<1>4. screen' \in Answers \/ screen' = <<doc'>> \/ UNCHANGED screen
  BY DEF Next, vars
<1> QED
  BY <1>1, <1>2, <1>3, <1>4

(* Late requests are only counted up.                                      *)
LEMMA LateCounts ==
  ASSUME spent \in Spent, [Next]_vars, spent'.late = 0
  PROVE  spent.late = 0
<1>1. spent.late \in Nat
  BY StoreBounds DEF Spent
<1>2. ASSUME NEW d, NEW c, NEW made, NEW late \in {0, 1}, EditAsked(d, c, made, late)
      PROVE  spent.late = 0
  <2>1. spent'.late = spent.late + late
    BY <1>2 DEF EditAsked, Spent
  <2> QED
    BY <1>1, <2>1
<1>3. ASSUME NEW p \in Pattern,
             \/ EditPattern(p) \/ ReplaceCreasePattern(p)
             \/ \E ids \in Numbering : ApplyProposal(p, ids)
             \/ \E at \in 1 .. Len(doc.steps) + 1, posed \in BOOLEAN : Fold(p, at, posed)
      PROVE  spent.late = 0
  BY <1>2, <1>3 DEF EditPattern, ReplaceCreasePattern, ApplyProposal, Fold, Edit
<1>4. CASE \/ \E id \in Id : RemoveStep(id)
           \/ \E i, to \in 1 .. Len(doc.steps) : MoveStep(i, to)
  BY <1>2, <1>4 DEF RemoveStep, MoveStep, Edit
<1>5. CASE PushStep \/ \E i \in 1 .. Len(Shown.steps) : UpdateStep(i)
  BY <1>2, <1>5 DEF PushStep, UpdateStep
<1>6. CASE Undo \/ Redo \/ NewDocument \/ Restore \/ \E p \in Path : Open(p) \/ Save(p)
  BY <1>6 DEF Undo, Redo, NewDocument, Restore, Open, Save
<1>7. CASE (\E d \in Imported : ImportFold(d)) \/ Crash \/ \E f \in File : OtherProgram(f)
  BY <1>7 DEF ImportFold, Crash, OtherProgram, Spent
<1>8. CASE UNCHANGED vars
  BY <1>8 DEF vars
<1> QED
  BY <1>3, <1>4, <1>5, <1>6, <1>7, <1>8 DEF Next, Operation

LEMMA NextInvariant == IInv /\ [Next]_vars => IInv'
<1> SUFFICES ASSUME IInv, [Next]_vars PROVE IInv'
  OBVIOUS
<1>1. Snapshot \in Texts /\ Good \in Texts
  BY DEF Texts
<1>2. spent \in Spent /\ Screen /\ Holds(Snapshot)
  BY DEF IInv, Holds
<1>3. ASSUME spent'.late = 0 PROVE Holds(Good)'
  <2>1. spent.late = 0
    BY <1>2, <1>3, LateCounts
  <2> QED
    BY <1>1, <1>2, <1>3, <2>1, StepKeeps DEF IInv
<1>4. Holds(Snapshot)'
  BY <1>1, <1>2, StepKeeps
<1>5. Screen'
  <2>1. Current' \in Snapshot
    BY <1>4 DEF Holds, Work
  <2>2. doc' \in Document
    BY <2>1 DEF Current, Snapshot
  <2> QED
    BY <1>2, <2>2, ScreenStays
<1> QED
  BY <1>3, <1>4, <1>5 DEF IInv

(* IInv: every text on screen, in the history, on disk and in the autosave *)
(* is a snapshot, and as long as no request came late one with unique ids  *)
(* and the provenance of its own steps (store.rs:322-325, 728-785).        *)
THEOREM Invariance == Spec => []IInv
<1>1. Init => IInv
  BY InitInvariant
<1>2. IInv /\ [Next]_vars => IInv'
  BY NextInvariant
<1> QED
  BY <1>1, <1>2, PTL DEF Spec

(* TypeOK: every variable keeps its type, whatever the constants.          *)
THEOREM TypeCorrect == Spec => []TypeOK
<1>1. IInv => TypeOK
  <2> SUFFICES ASSUME IInv PROVE TypeOK
    OBVIOUS
  <2>1. Holds(Snapshot) /\ Snapshot \in Texts
    BY DEF IInv, Texts
  <2>2. doc \in Document /\ creases \in Creases /\ faces \in Pattern
    BY <2>1, CurrentIn DEF Holds, Work, FacesOfDocument
  <2>3. /\ undo \in Seq(Snapshot) /\ redo \in Seq(Snapshot)
        /\ file \in [File -> Snapshot \union {None}]
        /\ crashed \in [text : Snapshot, path : Path \union {None},
                        basis : Snapshot \union {None}] \union {None}
    BY <2>1 DEF Holds, Work, Filing, Crashed
  <2> QED
    BY <2>1, <2>2, <2>3 DEF IInv, Screen, Holds, Filing, Spent, TypeOK
<1> QED
  BY <1>1, Invariance, PTL

(* StepIdsUnique and CreasesOfTheStep (store.rs:748-755, 2766-2822): as     *)
(* long as no request came late, in every state the user can undo or redo  *)
(* to, step ids are unique and the lines recorded under an id are those    *)
(* its step added.                                                         *)
THEOREM StepsKeepTheirCreases ==
  Spec => [](spent.late = 0 => StepIdsUnique /\ CreasesOfTheStep)
<1>1. IInv => (spent.late = 0 => StepIdsUnique /\ CreasesOfTheStep)
  <2> SUFFICES ASSUME IInv, spent.late = 0, NEW s \in Reachable
               PROVE  UniqueIds(s.doc) /\ CreasesOf(s)
    BY DEF StepIdsUnique, CreasesOfTheStep
  <2>1. s \in Good
    BY ElementOfSeq DEF IInv, Holds, Work, Reachable
  <2> QED
    BY <2>1 DEF Good
<1> QED
  BY <1>1, Invariance, PTL

(* StepIdsUnique (the step list of store.rs:2766-2822): as long as no      *)
(* request came late, no two steps of a state that undo or redo can reach  *)
(* share an id.                                                            *)
THEOREM StepIdsStayUnique == Spec => [](spent.late = 0 => StepIdsUnique)
<1>1. (spent.late = 0 => StepIdsUnique /\ CreasesOfTheStep) => (spent.late = 0 => StepIdsUnique)
  OBVIOUS
<1> QED
  BY <1>1, StepsKeepTheirCreases, PTL

(* FacesOfDocument (store.rs:326-329): the cached faces are never those of  *)
(* a pattern that was left, by whatever way it was left.                   *)
THEOREM FacesFollowDocument == Spec => []FacesOfDocument
<1>1. IInv => FacesOfDocument
  BY DEF IInv, Holds, Work
<1> QED
  BY <1>1, Invariance, PTL

(* HistoryBounded (store.rs:34, 1489-1491): the undo and redo stacks share  *)
(* one limit, which a commit enforces and undo and redo preserve.          *)
THEOREM HistoryIsBounded == Spec => []HistoryBounded
<1>1. IInv => HistoryBounded
  BY DEF IInv, Holds, Work
<1> QED
  BY <1>1, Invariance, PTL

(* CleanIsPersisted (store.rs:332, 447-517, 1336): a work without changes   *)
(* is what its file was last known to hold, or an untouched new document.  *)
THEOREM CleanWorkIsPersisted == Spec => []CleanIsPersisted
<1>1. IInv => CleanIsPersisted
  BY DEF IInv, Holds
<1> QED
  BY <1>1, Invariance, PTL

-----------------------------------------------------------------------------
(* Overwriting.                                                            *)

(* As long as no crash leaves a work to restore, a work with a name knows  *)
(* the text it grew from.                                                  *)
Known ==
  /\ crashed = None
  /\ path # None => /\ persisted \in Exact /\ persisted.kind = "exact"
                    /\ persisted.at = Real[path] /\ persisted.text = basis

LEMMA KnownStays ==
  ASSUME IInv, Known, [Next]_vars, spent'.crash = 0
  PROVE  Known'
<1>1. ASSUME Unfiled PROVE Known'
  BY <1>1 DEF Known, Unfiled
<1>2. ASSUME NEW p \in Pattern,
             \/ EditPattern(p) \/ ReplaceCreasePattern(p)
             \/ \E ids \in Numbering : ApplyProposal(p, ids)
             \/ \E at \in 1 .. Len(doc.steps) + 1, posed \in BOOLEAN : Fold(p, at, posed)
      PROVE  Unfiled
  BY <1>2 DEF EditPattern, ReplaceCreasePattern, ApplyProposal, Fold, Edit, EditAsked
<1>3. ASSUME \/ \E id \in Id : RemoveStep(id)
             \/ \E i \in 1 .. Len(Shown.steps) : UpdateStep(i)
             \/ \E i, to \in 1 .. Len(doc.steps) : MoveStep(i, to)
      PROVE  Unfiled
  BY <1>3 DEF RemoveStep, UpdateStep, MoveStep, Edit, EditAsked
<1>4. PushStep \/ Undo \/ Redo => Unfiled
  BY DEF PushStep, Undo, Redo, EditAsked
<1>5. CASE NewDocument \/ \E d \in Imported : ImportFold(d)
  BY <1>5 DEF NewDocument, ImportFold, Known
<1>6. ASSUME NEW p \in Path, Open(p) PROVE Known'
  <2>1. file[Real[p]] \in Snapshot
    BY <1>6, FileType DEF Open, IInv, Texts
  <2> QED
    BY <1>6, <2>1, ExactType DEF Open, Known
<1>7. ASSUME NEW p \in Path, Save(p) PROVE Known'
  <2>1. SavedDocument \in Snapshot
    BY SavedIn DEF IInv, Texts
  <2> QED
    BY <1>7, <2>1, ExactType DEF Save, Known
<1>8. ~Restore
  BY DEF Restore, Known
<1>9. ~Crash
  BY DEF Crash, IInv, Holds, Spent
<1>10. CASE \E f \in File : OtherProgram(f)
  BY <1>10 DEF OtherProgram, storeVars, Known
<1>11. CASE UNCHANGED vars
  BY <1>11 DEF vars, storeVars, Known
<1> QED
  BY <1>1, <1>2, <1>3, <1>4, <1>5, <1>6, <1>7, <1>8, <1>9, <1>10, <1>11 DEF Next, Operation

(* Restarts are only counted up.                                           *)
LEMMA CrashesCount ==
  ASSUME IInv, [Next]_vars, spent'.crash = 0
  PROVE  spent.crash = 0
<1>1. spent \in Spent
  BY DEF IInv, Holds
<1>2. Born \subseteq Nat /\ Spent = [edit : 0 .. MaxEdit, born : Born, other : 0 .. MaxOther,
                                    crash : 0 .. MaxCrash, late : 0 .. MaxLate]
  BY StoreBounds DEF Spent, Born
<1>3. ASSUME NEW p \in Pattern,
             \/ EditPattern(p) \/ ReplaceCreasePattern(p)
             \/ \E ids \in Numbering : ApplyProposal(p, ids)
             \/ \E at \in 1 .. Len(doc.steps) + 1, posed \in BOOLEAN : Fold(p, at, posed)
      PROVE  spent'.crash = spent.crash
  BY <1>1, <1>2, <1>3 DEF EditPattern, ReplaceCreasePattern, ApplyProposal, Fold, Edit, EditAsked
<1>4. ASSUME \/ \E id \in Id : RemoveStep(id)
             \/ \E i \in 1 .. Len(Shown.steps) : UpdateStep(i)
             \/ \E i, to \in 1 .. Len(doc.steps) : MoveStep(i, to)
      PROVE  spent'.crash = spent.crash
  BY <1>1, <1>2, <1>4 DEF RemoveStep, UpdateStep, MoveStep, Edit, EditAsked
<1>5. PushStep \/ Undo \/ Redo => spent'.crash = spent.crash
  BY <1>1, <1>2 DEF PushStep, Undo, Redo, EditAsked
<1>6. NewDocument \/ (\E d \in Imported : ImportFold(d)) => spent'.crash = spent.crash
  BY <1>1, <1>2 DEF NewDocument, ImportFold
<1>7. Restore \/ (\E p \in Path : Open(p) \/ Save(p)) => spent'.crash = spent.crash
  BY DEF Restore, Open, Save
<1>8. (\E f \in File : OtherProgram(f)) => spent'.crash = spent.crash
  BY <1>1, <1>2 DEF OtherProgram
<1>9. Crash => spent'.crash = spent.crash + 1
  BY <1>1, <1>2 DEF Crash
<1>10. UNCHANGED vars => spent' = spent
  BY DEF vars
<1>11. spent.crash \in Nat
  BY <1>1, StoreBounds DEF Spent
<1> QED
  BY <1>3, <1>4, <1>5, <1>6, <1>7, <1>8, <1>9, <1>10, <1>11 DEF Next, Operation

(* A save by any name that leads to the work's file replaces the text the  *)
(* work grew from, or none.                                                *)
LEMMA SaveReplacesKnown ==
  ASSUME IInv, Known, NEW p \in Path, Save(p), path # None, Real[p] = Real[path]
  PROVE  file[Real[p]] \in {basis, None}
<1>1. persisted # None /\ persisted.kind = "exact" /\ persisted.at = Real[p]
      /\ persisted.text = basis
  BY NoneIsNone DEF Known
<1>2. BelongsTo(p) => VerifyCurrent(p)
  BY <1>1 DEF Save
<1>3. file[Real[p]] # None => BelongsTo(p)
  BY <1>1 DEF BelongsTo
<1> QED
  BY <1>1, <1>2, <1>3 DEF VerifyCurrent

(* OnlySeenUntilRestart (store.rs:334-336): until the program is restarted *)
(* after a crash, a save to the work's own file never replaces a text of   *)
(* another program that the work does not descend from.  After one it may  *)
(* (see restore, store.rs:1392).                                           *)
THEOREM NothingUnseenIsOverwritten == Spec => OnlySeenUntilRestart
<1> DEFINE K == spent.crash = 0 => Known
<1>1. Init => K
  BY DEF Init, Known
<1>2. IInv /\ K /\ [Next]_vars => K'
  BY KnownStays, CrashesCount
<1>3. IInv /\ K /\ [Next]_vars =>
        [spent.crash = 0 => \A p \in Path : ~ SavesOverUnseen(p)]_vars
  BY SaveReplacesKnown DEF SavesOverUnseen
<1>4. Init => IInv
  BY InitInvariant
<1>5. IInv /\ [Next]_vars => IInv'
  BY NextInvariant
<1> QED
  BY <1>1, <1>2, <1>3, <1>4, <1>5, PTL DEF Spec, OnlySeenUntilRestart

-----------------------------------------------------------------------------
(* The line of states that undo and redo walk along.                       *)

Line(u, x, r) == u \o <<x>> \o Reverse(r)

(* What stands where in it.                                                *)
IsLine(l, S, u, x, r) ==
  /\ l \in Seq(S)
  /\ Len(l) = Len(u) + 1 + Len(r)
  /\ \A i \in 1 .. Len(u) : l[i] = u[i]
  /\ l[Len(u) + 1] = x
  /\ \A i \in 1 .. Len(r) : l[Len(u) + 1 + i] = r[Len(r) - i + 1]

LEMMA JoinedElements ==
  ASSUME NEW S, NEW u \in Seq(S), NEW x \in S, NEW b \in Seq(S)
  PROVE  /\ u \o <<x>> \o b \in Seq(S)
         /\ Len(u \o <<x>> \o b) = Len(u) + 1 + Len(b)
         /\ \A i \in 1 .. Len(u) : (u \o <<x>> \o b)[i] = u[i]
         /\ (u \o <<x>> \o b)[Len(u) + 1] = x
         /\ \A i \in 1 .. Len(b) : (u \o <<x>> \o b)[Len(u) + 1 + i] = b[i]
<1>1. u \o <<x>> \o b \in Seq(S) /\ Len(u \o <<x>> \o b) = Len(u) + 1 + Len(b)
  OBVIOUS
<1>2. /\ \A i \in 1 .. Len(u) : (u \o <<x>> \o b)[i] = u[i]
      /\ (u \o <<x>> \o b)[Len(u) + 1] = x
  OBVIOUS
<1>3. \A i \in 1 .. Len(b) : (u \o <<x>> \o b)[Len(u) + 1 + i] = b[i]
  OBVIOUS
<1> QED
  BY <1>1, <1>2, <1>3

LEMMA ReverseElements ==
  ASSUME NEW S, NEW r \in Seq(S)
  PROVE  /\ Reverse(r) \in Seq(S) /\ Len(Reverse(r)) = Len(r)
         /\ \A i \in 1 .. Len(r) : Reverse(r)[i] = r[Len(r) - i + 1]
<1>1. Len(r) \in Nat /\ \A i \in 1 .. Len(r) : r[i] \in S
  BY LenProperties, ElementOfSeq
<1>2. \A i \in 1 .. Len(r) : r[(Len(r) - i) + 1] \in S
  BY <1>1
<1> QED
  BY <1>1, <1>2, IsASeq DEF Reverse

LEMMA LineElements ==
  ASSUME NEW S, NEW u \in Seq(S), NEW x \in S, NEW r \in Seq(S)
  PROVE  IsLine(Line(u, x, r), S, u, x, r)
<1>1. /\ Reverse(r) \in Seq(S) /\ Len(Reverse(r)) = Len(r)
      /\ \A i \in 1 .. Len(r) : Reverse(r)[i] = r[Len(r) - i + 1]
  BY ReverseElements
<1>2. ASSUME NEW b \in Seq(S), b = Reverse(r), Len(b) = Len(r)
      PROVE  /\ Line(u, x, r) \in Seq(S)
             /\ Len(Line(u, x, r)) = Len(u) + 1 + Len(r)
             /\ \A i \in 1 .. Len(u) : Line(u, x, r)[i] = u[i]
             /\ Line(u, x, r)[Len(u) + 1] = x
             /\ \A i \in 1 .. Len(r) : Line(u, x, r)[Len(u) + 1 + i] = b[i]
  <2>1. Line(u, x, r) = u \o <<x>> \o b
    BY <1>2 DEF Line
  <2>2. u \o <<x>> \o b \in Seq(S) /\ Len(u \o <<x>> \o b) = Len(u) + 1 + Len(b)
    BY JoinedElements
  <2>3. \A i \in 1 .. Len(u) : (u \o <<x>> \o b)[i] = u[i]
    BY JoinedElements
  <2>4. (u \o <<x>> \o b)[Len(u) + 1] = x
    BY JoinedElements
  <2>5. \A i \in 1 .. Len(b) : (u \o <<x>> \o b)[Len(u) + 1 + i] = b[i]
    BY JoinedElements
  <2> HIDE DEF Line
  <2> QED
    BY <1>2, <2>1, <2>2, <2>3, <2>4, <2>5
<1> QED
  BY <1>1, <1>2 DEF IsLine

(* A stack with one element more.                                          *)
IsOneMore(a, S, u, y) ==
  /\ a \in Seq(S) /\ Len(u) \in Nat /\ Len(a) = Len(u) + 1
  /\ a[Len(u) + 1] = y /\ \A i \in 1 .. Len(u) : a[i] = u[i]

(* Two lines with the last of one stack moved to the middle are the same.  *)
LEMMA SameLine ==
  ASSUME NEW S, NEW u \in Seq(S), NEW x \in S, NEW y \in S, NEW r \in Seq(S),
         NEW a, NEW b, IsOneMore(a, S, u, y), IsOneMore(b, S, r, x), NEW l, NEW m,
         IsLine(l, S, u, y, b), IsLine(m, S, a, x, r)
  PROVE  l = m
<1>0. /\ Len(u) \in Nat /\ Len(r) \in Nat
      /\ Len(a) = Len(u) + 1 /\ a[Len(u) + 1] = y /\ \A i \in 1 .. Len(u) : a[i] = u[i]
      /\ Len(b) = Len(r) + 1 /\ b[Len(r) + 1] = x /\ \A i \in 1 .. Len(r) : b[i] = r[i]
  BY DEF IsOneMore
<1>1. Len(l) = Len(u) + Len(r) + 2 /\ Len(m) = Len(u) + Len(r) + 2
  BY <1>0 DEF IsLine
<1>2. ASSUME NEW i \in 1 .. Len(l) PROVE l[i] = m[i]
  <2>1. CASE i \in 1 .. Len(u)
    <3>1. l[i] = u[i] /\ i \in 1 .. Len(a)
      BY <1>0, <2>1 DEF IsLine
    <3>2. m[i] = a[i]
      BY <1>0, <3>1 DEF IsLine
    <3> QED
      BY <1>0, <2>1, <3>1, <3>2
  <2>2. CASE i = Len(u) + 1
    <3>1. l[i] = y /\ i \in 1 .. Len(a)
      BY <1>0, <2>2 DEF IsLine
    <3>2. m[i] = a[i]
      BY <1>0, <3>1 DEF IsLine
    <3> QED
      BY <1>0, <2>2, <3>1, <3>2
  <2>3. CASE i = Len(u) + 2
    <3>1. 1 \in 1 .. Len(b) /\ Len(b) - 1 + 1 = Len(r) + 1 /\ Len(u) + 1 + 1 = i
      BY <1>0, <2>3
    <3>2. l[i] = b[Len(r) + 1]
      BY <1>0, <3>1 DEF IsLine
    <3>3. m[i] = x
      BY <1>0, <2>3 DEF IsLine
    <3> QED
      BY <1>0, <3>2, <3>3
  <2>4. CASE i \in Len(u) + 3 .. Len(u) + Len(r) + 2
    <3> DEFINE k == i - Len(u) - 2
    <3>1. /\ k \in 1 .. Len(r) /\ k + 1 \in 1 .. Len(b)
          /\ Len(u) + 1 + (k + 1) = i /\ Len(a) + 1 + k = i
          /\ Len(b) - (k + 1) + 1 = Len(r) - k + 1 /\ Len(r) - k + 1 \in 1 .. Len(r)
      BY <1>0, <2>4
    <3> HIDE DEF k
    <3>2. l[i] = b[Len(r) - k + 1]
      BY <1>0, <3>1 DEF IsLine
    <3>3. m[i] = r[Len(r) - k + 1]
      BY <1>0, <3>1 DEF IsLine
    <3> QED
      BY <1>0, <3>1, <3>2, <3>3
  <2>5. Len(u) \in Nat /\ Len(r) \in Nat /\ i \in 1 .. Len(u) + Len(r) + 2
    BY <1>0, <1>1
  <2>6. \/ i \in 1 .. Len(u) \/ i = Len(u) + 1 \/ i = Len(u) + 2
        \/ i \in Len(u) + 3 .. Len(u) + Len(r) + 2
    BY <2>5
  <2> QED
    BY <2>1, <2>2, <2>3, <2>4, <2>6
<1> QED
  BY <1>1, <1>2, SeqEqual DEF IsLine

(* Moving the newest undo state to the middle does not change the line.    *)
LEMMA LineWalk ==
  ASSUME NEW S, NEW u \in Seq(S), NEW x \in S, NEW y \in S, NEW r \in Seq(S)
  PROVE  Line(u, y, Append(r, x)) = Line(Append(u, y), x, r)
<1> DEFINE a == Append(u, y)
           b == Append(r, x)
           l == Line(u, y, b)
           m == Line(a, x, r)
<1>1. IsOneMore(a, S, u, y) /\ IsOneMore(b, S, r, x)
  BY LenProperties, AppendProperties DEF IsOneMore
<1> HIDE DEF a, b
<1>2. IsLine(l, S, u, y, b) /\ IsLine(m, S, a, x, r)
  <2>1. a \in Seq(S) /\ b \in Seq(S)
    BY <1>1 DEF IsOneMore
  <2> QED
    BY <2>1, LineElements
<1> HIDE DEF l, m
<1>3. l = m
  BY <1>1, <1>2, SameLine
<1> QED
  BY <1>3 DEF l, m, a, b

(* The stacks and the work are such a line, and its end is the last state  *)
(* that can be redone.                                                     *)
LEMMA StacksLine ==
  ASSUME IInv
  PROVE  /\ IsLine(Line(undo, Current, redo), Snapshot, undo, Current, redo)
         /\ Len(undo) \in Nat /\ Len(redo) \in Nat
         /\ undo \in Seq(Snapshot) /\ redo \in Seq(Snapshot) /\ Current \in Snapshot
BY LineElements, LenProperties DEF IInv, Holds, Work

(* A stack with a last element is its front and that element.              *)
LEMMA FrontAndLast ==
  ASSUME NEW S, NEW s \in Seq(S), s # << >>
  PROVE  /\ Front(s) \in Seq(S) /\ Last(s) \in S /\ s = Append(Front(s), Last(s))
         /\ Len(Front(s)) = Len(s) - 1 /\ Len(s) \in Nat \ {0}
<1>1. PICK f \in Seq(S), e \in S : s = Append(f, e)
  BY SequenceEmptyOrAppend
<1>2. Len(s) = Len(f) + 1 /\ Len(f) \in Nat /\ Last(s) = e
  BY <1>1, AppendProperties, LenProperties DEF Last
<1>3. Front(s) = f
  BY <1>1, <1>2, HeadTailAppend DEF Front
<1> QED
  BY <1>1, <1>2, <1>3

LEMMA UndoWalks ==
  ASSUME IInv, IInv', Undo
  PROVE  History!Undo
<1>1. /\ undo # << >> /\ undo' = Front(undo) /\ redo' = Append(redo, Current)
      /\ Current' = Last(undo)
  <2>1. undo # << >> /\ doc' = Last(undo).doc /\ creases' = Last(undo).creases
        /\ undo' = Front(undo) /\ redo' = Append(redo, Current)
    BY DEF Undo
  <2>2. Last(undo) \in Snapshot
    BY <2>1, StacksLine, FrontAndLast
  <2> QED
    BY <2>1, <2>2 DEF Current, Snapshot
<1>2. /\ undo' \in Seq(Snapshot) /\ Current' \in Snapshot /\ undo = Append(undo', Current')
      /\ Len(undo') = Len(undo) - 1 /\ Len(undo) \in Nat \ {0}
  BY <1>1, StacksLine, FrontAndLast
<1>3. Line(undo', Current', redo') = Line(undo, Current, redo)
  <2>1. redo' = Append(redo, Current) /\ redo' \in Seq(Snapshot) /\ redo \in Seq(Snapshot)
        /\ undo \in Seq(Snapshot) /\ Current \in Snapshot
    BY <1>1, StacksLine, AppendProperties
  <2>2. Line(undo', Current', Append(redo, Current)) = Line(Append(undo', Current'), Current, redo)
    BY <1>2, <2>1, LineWalk
  <2> QED
    BY <1>2, <2>1, <2>2, Zenon
<1>4. Len(undo) + 1 > 1 /\ Len(undo') + 1 = (Len(undo) + 1) - 1
  BY <1>2
<1> QED
  BY <1>3, <1>4 DEF History!Undo, Line

LEMMA RedoWalks ==
  ASSUME IInv, IInv', Redo
  PROVE  History!Redo
<1>1. /\ redo # << >> /\ redo' = Front(redo) /\ undo' = Append(undo, Current)
      /\ Current' = Last(redo)
  <2>1. redo # << >> /\ doc' = Last(redo).doc /\ creases' = Last(redo).creases
        /\ redo' = Front(redo) /\ undo' = Append(undo, Current)
    BY DEF Redo
  <2>2. Last(redo) \in Snapshot
    BY <2>1, StacksLine, FrontAndLast
  <2> QED
    BY <2>1, <2>2 DEF Current, Snapshot
<1>2. /\ redo' \in Seq(Snapshot) /\ Current' \in Snapshot /\ redo = Append(redo', Current')
      /\ Len(redo) \in Nat \ {0}
  BY <1>1, StacksLine, FrontAndLast
<1>3. Line(undo', Current', redo') = Line(undo, Current, redo)
  <2>1. undo' = Append(undo, Current) /\ undo' \in Seq(Snapshot) /\ redo \in Seq(Snapshot)
        /\ undo \in Seq(Snapshot) /\ Current \in Snapshot
    BY <1>1, StacksLine, AppendProperties
  <2>2. Line(undo, Current, redo) = Line(undo', Current', redo')
    <3>1. Line(undo, Current, Append(redo', Current')) = Line(Append(undo, Current), Current', redo')
      BY <1>2, <2>1, LineWalk
    <3> QED
      BY <1>2, <2>1, <3>1, Zenon
  <2> QED
    BY <2>2
<1>4. Len(undo') = Len(undo) + 1 /\ Len(undo) \in Nat
  BY <1>1, StacksLine, AppendProperties
<1>5. Len(Line(undo, Current, redo)) = Len(undo) + 1 + Len(redo)
  BY StacksLine DEF IsLine
<1>6. Len(undo) + 1 < Len(Line(undo, Current, redo)) /\ Len(undo') + 1 = (Len(undo) + 1) + 1
  BY <1>2, <1>4, <1>5
<1> QED
  BY <1>3, <1>6 DEF History!Redo, Line

(* With nothing to redo, the line is the undo stack and the work.          *)
LEMMA LineEnd ==
  ASSUME NEW S, NEW u \in Seq(S), NEW x \in S
  PROVE  Line(u, x, << >>) = Append(u, x)
<1>1. << >> \in Seq(S) /\ Len(<< >>) = 0
  BY EmptySeq
<1>2. IsLine(Line(u, x, << >>), S, u, x, << >>)
  BY <1>1, LineElements
<1>3. /\ Append(u, x) \in Seq(S) /\ Len(Append(u, x)) = Len(u) + 1
      /\ Append(u, x)[Len(u) + 1] = x /\ \A i \in 1 .. Len(u) : Append(u, x)[i] = u[i]
  BY AppendProperties
<1> DEFINE l == Line(u, x, << >>)
           m == Append(u, x)
<1> HIDE DEF l, m
<1>4. /\ l \in Seq(S) /\ Len(l) = Len(u) + 1 /\ Len(u) \in Nat
      /\ \A i \in 1 .. Len(u) : l[i] = u[i]
      /\ l[Len(u) + 1] = x
  BY <1>1, <1>2, LenProperties DEF IsLine, l
<1>5. m \in Seq(S) /\ Len(m) = Len(l) /\ \A i \in 1 .. Len(l) : m[i] = l[i]
  BY <1>3, <1>4 DEF m
<1> QED
  BY <1>4, <1>5, SeqEqual DEF l, m

(* The part of the line up to the work.                                    *)
LEMMA Past ==
  ASSUME NEW S, NEW u \in Seq(S), NEW x \in S, NEW r \in Seq(S)
  PROVE  SubSeq(Line(u, x, r), 1, Len(u) + 1) = Append(u, x)
<1> DEFINE l == Line(u, x, r)
           p == SubSeq(l, 1, Len(u) + 1)
           m == Append(u, x)
<1>1. IsLine(l, S, u, x, r)
  BY LineElements
<1>2. m \in Seq(S) /\ Len(m) = Len(u) + 1 /\ Len(u) \in Nat
      /\ m[Len(u) + 1] = x /\ \A i \in 1 .. Len(u) : m[i] = u[i]
  BY AppendProperties, LenProperties
<1> HIDE DEF l, m
<1>3. \A i \in 1 .. Len(u) + 1 : l[i] = m[i] /\ l[i] \in S
  <2>1. \A i \in 1 .. Len(u) + 1 : m[i] \in S
    BY <1>2, ElementOfSeq
  <2>2. ASSUME NEW i \in 1 .. Len(u) + 1 PROVE l[i] = m[i]
    <3>1. (\A j \in 1 .. Len(u) : l[j] = u[j]) /\ l[Len(u) + 1] = x
      BY <1>1 DEF IsLine
    <3>2. CASE i = Len(u) + 1
      BY <1>2, <3>1, <3>2
    <3>3. CASE i \in 1 .. Len(u)
      BY <1>2, <3>1, <3>3
    <3> QED
      BY <1>2, <3>2, <3>3
  <2> QED
    BY <2>1, <2>2
<1>4. p \in Seq(S) /\ Len(p) = Len(u) + 1 /\ \A i \in 1 .. Len(u) + 1 : p[i] = l[i]
  BY <1>2, <1>3, SubSeqProperties
<1> HIDE DEF p
<1>5. p = m
  BY <1>2, <1>3, <1>4, SeqEqual
<1> QED
  BY <1>5 DEF p, m, l

(* What a commit keeps of the past.                                        *)
LEMMA KeptPast ==
  ASSUME NEW S, NEW u \in Seq(S), NEW x \in S
  PROVE  Append(IF Len(u) >= MaxUndo THEN Tail(u) ELSE u, x)
           = IF Len(u) + 1 > MaxUndo THEN Tail(Append(u, x)) ELSE Append(u, x)
<1>1. Len(u) \in Nat /\ MaxUndo \in Nat \ {0}
  BY LenProperties, StoreBounds
<1>2. CASE Len(u) >= MaxUndo
  <2>1. u # << >> /\ Len(u) + 1 > MaxUndo
    BY <1>1, <1>2
  <2>2. Tail(Append(u, x)) = Append(Tail(u), x)
    BY <2>1, HeadTailAppend
  <2> QED
    BY <1>2, <2>1, <2>2
<1>3. CASE ~(Len(u) >= MaxUndo)
  <2>1. ~(Len(u) + 1 > MaxUndo)
    BY <1>1, <1>3
  <2> QED
    BY <1>3, <2>1
<1> QED
  BY <1>2, <1>3

(* An edit adds one state to the line, or nothing at all.                  *)
LEMMA ReplaceWalks ==
  ASSUME IInv, IInv', NEW d, NEW c, Text(d, c) \in Snapshot, Replace(d, c)
  PROVE  History!Commit \/ UNCHANGED History!histVars
<1>1. CASE d = doc /\ c = creases
  BY <1>1 DEF Replace, History!histVars, Current
<1>2. CASE ~(d = doc /\ c = creases)
  <2> DEFINE new == Text(d, c)
             kept == IF Len(undo) >= MaxUndo THEN Tail(undo) ELSE undo
             past == Append(undo, Current)
             line == Line(undo, Current, redo)
             next == Line(undo', Current', redo')
  <2>1. /\ Current' = new /\ new # Current /\ redo' = << >>
        /\ undo' = Append(kept, Current)
    BY <1>2 DEF Replace, Current, Text
  <2>2. undo' \in Seq(Snapshot) /\ undo \in Seq(Snapshot) /\ redo \in Seq(Snapshot) /\ Current \in Snapshot
        /\ Len(undo) \in Nat /\ Len(undo') \in Nat /\ new \in Snapshot
    BY LenProperties DEF IInv, Holds, Work
  <2>3. next = Append(undo', new)
    BY <2>1, <2>2, LineEnd
  <2>4. SubSeq(line, 1, Len(undo) + 1) = past
    BY <2>2, Past
  <2>5. undo' = IF Len(undo) + 1 > MaxUndo THEN Tail(past) ELSE past
    BY <2>1, <2>2, KeptPast
  <2>6. line[Len(undo) + 1] = Current
    BY StacksLine DEF IsLine
  <2> HIDE DEF new, kept, past, line
  <2>7. Len(next) = Len(undo') + 1 /\ next[Len(next)] = new
    BY <2>2, <2>3, AppendProperties
  <2> HIDE DEF next
  <2>8. /\ next[Len(next)] # line[Len(undo) + 1]
        /\ next = Append(IF Len(undo) + 1 > MaxUndo THEN Tail(SubSeq(line, 1, Len(undo) + 1))
                         ELSE SubSeq(line, 1, Len(undo) + 1), next[Len(next)])
        /\ Len(undo') + 1 = Len(next)
    BY <2>1, <2>3, <2>4, <2>5, <2>6, <2>7
  <2> QED
    BY <2>8 DEF History!Commit, next, line, Line
<1> QED
  BY <1>1, <1>2

(* Another work starts a line of its own.                                  *)
LEMMA BecomeWalks ==
  ASSUME NEW text \in Snapshot, Become(text)
  PROVE  History!Reset
<1>1. Current' \in Snapshot /\ undo' = << >> /\ redo' = << >>
  BY BecomeKeeps DEF Become, Texts
<1>2. Line(undo', Current', redo') = Append(<< >>, Current')
  BY <1>1, EmptySeq, LineEnd
<1>3. Len(Append(<< >>, Current')) = 1 /\ Len(undo') + 1 = 1
  BY <1>1
<1> QED
  BY <1>2, <1>3 DEF History!Reset, Line

(* Every edit commits a snapshot.                                          *)
LEMMA EditsAreReplacements ==
  ASSUME IInv, IInv',
         \/ \E p \in Pattern :
              \/ EditPattern(p) \/ ReplaceCreasePattern(p)
              \/ \E ids \in Numbering : ApplyProposal(p, ids)
              \/ \E at \in 1 .. Len(doc.steps) + 1, posed \in BOOLEAN : Fold(p, at, posed)
         \/ PushStep
         \/ \E id \in Id : RemoveStep(id)
         \/ \E i \in 1 .. Len(Shown.steps) : UpdateStep(i)
         \/ \E i, to \in 1 .. Len(doc.steps) : MoveStep(i, to)
         \/ \E d \in Imported : ImportFold(d)
  PROVE  History!Commit \/ UNCHANGED History!histVars
<1>1. PICK d, c : Replace(d, c)
  <2> DEFINE Replaces == \E d, c : Replace(d, c)
  <2>1. /\ \A d, c, made, late : EditAsked(d, c, made, late) => Replaces
        /\ \A d, c, made : Edit(d, c, made) => Replaces
    BY DEF Edit, EditAsked, Commit
  <2>2. \A d \in Imported : ImportFold(d) => Replaces
    BY DEF ImportFold
  <2> HIDE DEF Replaces
  <2>3. ASSUME NEW p \in Pattern
        PROVE  /\ EditPattern(p) \/ ReplaceCreasePattern(p) => Replaces
               /\ \A ids \in Numbering : ApplyProposal(p, ids) => Replaces
    BY <2>1 DEF EditPattern, ReplaceCreasePattern, ApplyProposal
  <2>4. ASSUME NEW p, NEW at, NEW posed, Fold(p, at, posed) PROVE Replaces
    BY <2>1, <2>4 DEF Fold
  <2>5. PushStep => Replaces
    BY <2>1 DEF PushStep
  <2>6. ASSUME NEW i
        PROVE  /\ RemoveStep(i) \/ UpdateStep(i) => Replaces
               /\ \A to : MoveStep(i, to) => Replaces
    BY <2>1 DEF RemoveStep, UpdateStep, MoveStep
  <2>7. Replaces
    BY <2>2, <2>3, <2>4, <2>5, <2>6
  <2> QED
    BY <2>7 DEF Replaces
<1>2. CASE d = doc /\ c = creases
  BY <1>1, <1>2 DEF Replace, History!histVars, Current
<1>3. CASE ~(d = doc /\ c = creases)
  <2>1. Text(d, c) = Current'
    BY <1>1, <1>3 DEF Replace, Text, Current
  <2>2. Text(d, c) \in Snapshot
    BY <2>1 DEF IInv, Holds, Work
  <2> QED
    BY <1>1, <2>2, ReplaceWalks
<1> QED
  BY <1>2, <1>3

LEMMA NextWalks == IInv /\ IInv' /\ [Next]_vars => [History!Next]_History!histVars
<1> SUFFICES ASSUME IInv, IInv', [Next]_vars
             PROVE  History!Next \/ UNCHANGED History!histVars
  OBVIOUS
<1>1. CASE \/ \E p \in Pattern :
                \/ EditPattern(p) \/ ReplaceCreasePattern(p)
                \/ \E ids \in Numbering : ApplyProposal(p, ids)
                \/ \E at \in 1 .. Len(doc.steps) + 1, posed \in BOOLEAN : Fold(p, at, posed)
           \/ PushStep
           \/ \E id \in Id : RemoveStep(id)
           \/ \E i \in 1 .. Len(Shown.steps) : UpdateStep(i)
           \/ \E i, to \in 1 .. Len(doc.steps) : MoveStep(i, to)
           \/ \E d \in Imported : ImportFold(d)
  BY <1>1, EditsAreReplacements DEF History!Next
<1>2. CASE Undo
  BY <1>2, UndoWalks DEF History!Next
<1>3. CASE Redo
  BY <1>3, RedoWalks DEF History!Next
<1>4. CASE NewDocument \/ Crash
  BY <1>4, OutsideGood, KindsOfText, BecomeWalks DEF NewDocument, Crash, History!Next, Texts
<1>5. ASSUME NEW p \in Path, Open(p) PROVE History!Next
  BY <1>5, FileType, BecomeWalks DEF Open, History!Next, IInv, Texts
<1>6. CASE Restore
  <2>1. crashed.text \in Snapshot
    BY <1>6 DEF Restore, IInv, Holds, Filing, Crashed
  <2> QED
    BY <1>6, <2>1, BecomeWalks DEF Restore, History!Next
<1>7. CASE (\E p \in Path : Save(p)) \/ (\E f \in File : OtherProgram(f)) \/ UNCHANGED vars
  BY <1>7 DEF Save, OtherProgram, vars, storeVars, History!histVars, Current
<1> QED
  BY <1>1, <1>2, <1>3, <1>4, <1>5, <1>6, <1>7 DEF Next, Operation

(* HistoryKept (apply_edits, undo, redo and commit in store.rs): for every  *)
(* limit and every kind of operation, the store implements EditHistory:    *)
(* undo and redo walk along one line of states, each operation adds one.   *)
THEOREM StoreKeepsHistory == Spec => HistoryKept
<1>1. Init => History!Init
  <2> SUFFICES ASSUME Init PROVE History!Init
    OBVIOUS
  <2>1. Current \in Snapshot /\ undo = << >> /\ redo = << >>
    BY InitInvariant DEF IInv, Holds, Work, Init
  <2>2. Line(undo, Current, redo) = Append(<< >>, Current)
    BY <2>1, EmptySeq, LineEnd
  <2>3. Len(Append(<< >>, Current)) = 1 /\ Len(undo) + 1 = 1
    BY <2>1
  <2> QED
    BY <2>2, <2>3 DEF History!Init, Line
<1>2. IInv /\ IInv' /\ [Next]_vars => [History!Next]_History!histVars
  BY NextWalks
<1>3. Spec => []IInv
  BY Invariance
<1> QED
  BY <1>1, <1>2, <1>3, PTL DEF Spec, HistoryKept, History!Spec
=============================================================================
