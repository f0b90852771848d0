------------------------ MODULE AutosaveOfferProofs ------------------------
(***************************************************************************)
(* What TLAPS proves of the candidates a user of Autosave is shown, for    *)
(* one process at a time and as long as no write has failed: work that no  *)
(* process holds is offered, work that was saved is not, and a candidate   *)
(* goes only when the user discards or saves it.                           *)
(*                                                                         *)
(* AutosaveProofs knows where each work is; this module adds whether the   *)
(* index lists it.  An index that is lost is built again from the files,   *)
(* and the ids it may give are counted from the first one: the proof needs *)
(* that the ids from there on were given in order (Packed), so that an     *)
(* index that found no id for a work stays without one (Served).           *)
(***************************************************************************)
EXTENDS AutosaveProofs

(* The index an operation on disk d starts from.                           *)
IndexOf(d) == IF d.index = None THEN DefaultIndex ELSE d.index

(* The ids from the next one on were given in order: below a candidate     *)
(* there is no gap.                                                        *)
Packed(d) ==
  d.index # Corrupt
  => \A i, j \in Id : d.cand[i] # None /\ IndexOf(d).next <= j /\ j <= i => d.cand[j] # None

Packs == {d \in Disk : Packed(d)}

(* Writes that remove no candidate but a.                                  *)
Spared(a) == {w \in Write : w.file = "cand" /\ w.val = None => w.id = a}

(* There is an id for one more candidate, in the index of a disk and in    *)
(* that of a draft.                                                        *)
Vacant(d) ==
  \E i \in Id : /\ i < MaxId /\ i >= IndexOf(d).next
                /\ IndexOf(d).carried[i] = Absent /\ d.cand[i] = None

Room(r) == \E i \in FreeIds(r) : i < MaxId

(* The draft's index skips no id that the disk's index might give, and no  *)
(* candidate lies beyond a gap of its own ids.                             *)
Dense(r) ==
  /\ \A i, j \in Id : r.img.cand[i] # None /\ r.idx.next <= j /\ j <= i => r.img.cand[j] # None
  /\ r.img.index # Corrupt
     => /\ IndexOf(r.img).next <= r.idx.next
        /\ \A j \in Id : IndexOf(r.img).next <= j /\ j < r.idx.next => r.img.cand[j] # None

(* A draft under way that removes no candidate but a.                      *)
Tame(r, a) ==
  /\ r \in Drafts /\ r.ok /\ Numbered(r.idx) /\ Dense(r)
  /\ Through(disk, r.plan, r.img, Packs, Spared(a))

(* While there are ids, every candidate is listed.                         *)
Listing(r) == Room(r) => \A i \in Id : r.img.cand[i] # None => r.idx.carried[i] # Absent

-----------------------------------------------------------------------------
LEMMA NumberFacts ==
  /\ MaxId \in Nat \ {0} /\ Id = 1 .. MaxId
  /\ \A x \in Index : x.next \in Nat
BY BoundsAssumption DEF Id, Index

LEMMA TameParts ==
  ASSUME NEW r, NEW a, Tame(r, a)
  PROVE  /\ r \in Drafts /\ r.ok /\ r.idx \in Index /\ r.img \in Disk /\ r.plan \in Seq(Write)
         /\ Numbered(r.idx) /\ Dense(r) /\ Packed(r.img)
         /\ Through(disk, r.plan, r.img, Packs, Spared(a))
<1>1. r \in Drafts /\ r.ok /\ r.idx \in Index /\ r.img \in Disk /\ r.plan \in Seq(Write)
      /\ Numbered(r.idx) /\ Dense(r) /\ Through(disk, r.plan, r.img, Packs, Spared(a))
  BY DEF Tame, Drafts
<1>2. r.img \in Packs
  BY <1>1, ThroughEnds
<1> QED
  BY <1>1, <1>2 DEF Packs

(* An id the disk's index could give, the draft can give too.              *)
LEMMA VacantRoom ==
  ASSUME NEW r, NEW a, Tame(r, a), r.img.index # Corrupt, Vacant(r.img)
  PROVE  Room(r)
<1>1. Numbered(r.idx) /\ Dense(r) /\ r.idx \in Index
  BY TameParts
<1>2. PICK i \in Id : i < MaxId /\ i >= IndexOf(r.img).next /\ r.img.cand[i] = None
  BY DEF Vacant
<1>3. ~(i < r.idx.next)
  BY <1>1, <1>2 DEF Dense
<1>4. i >= r.idx.next
  BY <1>1, <1>3, NumberFacts
<1>5. r.idx.carried[i] = Absent
  BY <1>1, <1>3 DEF Numbered
<1> QED
  BY <1>2, <1>4, <1>5 DEF Room, FreeIds

(* One write of a tame draft.                                              *)
LEMMA EmitTame ==
  ASSUME NEW r, NEW a, Tame(r, a), NEW w \in Write, w.file = "cand" /\ w.val = None => w.id = a,
         Packed(Apply(r.img, w))
  PROVE  LET e == Emit(r, w)
         IN /\ e.ok /\ e.idx = r.idx /\ e.img = Apply(r.img, w)
            /\ Dense(e) => Tame(e, a)
<1>1. /\ r \in Drafts /\ r.ok /\ r.plan \in Seq(Write) /\ r.img \in Disk /\ Numbered(r.idx)
      /\ Through(disk, r.plan, r.img, Packs, Spared(a))
  BY TameParts
<1>2. w \in Spared(a) /\ Apply(r.img, w) \in Packs
  BY <1>1, ApplyType DEF Spared, Packs
<1>3. Through(disk, Append(r.plan, w), Apply(r.img, w), Packs, Spared(a))
  BY <1>1, <1>2, ThroughOn
<1>4. Emit(r, w).img = Apply(r.img, w)
  BY <1>1 DEF Emit, Drafts
<1>5. /\ Emit(r, w) \in Drafts /\ Emit(r, w).ok /\ Emit(r, w).idx = r.idx
      /\ Emit(r, w).plan = Append(r.plan, w)
  BY <1>1, EmitPlan
<1> QED
  BY <1>1, <1>3, <1>4, <1>5 DEF Tame

(* Another index with the same next id.                                    *)
LEMMA ReindexTame ==
  ASSUME NEW r, NEW a, Tame(r, a), NEW x \in Index, Numbered(x), x.next = r.idx.next
  PROVE  LET m == [r EXCEPT !.idx = x]
         IN /\ Tame(m, a) /\ m.idx = x /\ m.img = r.img /\ m.plan = r.plan /\ m.ok
            /\ x.carried = r.idx.carried /\ Listing(r) => Listing(m)
<1> DEFINE m == [r EXCEPT !.idx = x]
<1>1. m \in Drafts /\ m.plan = r.plan /\ m.ok /\ m.idx = x /\ m.img = r.img
  BY TameParts, SameActive
<1> HIDE DEF m
<1>2. Tame(m, a)
  BY <1>1, TameParts DEF Tame, Dense
<1>3. x.carried = r.idx.carried /\ Listing(r) => Listing(m)
  BY <1>1 DEF Listing, Room, FreeIds
<1> QED
  BY <1>1, <1>2, <1>3 DEF m

-----------------------------------------------------------------------------
(* The steps of a draft.                                                   *)

LEMMA DraftTame ==
  ASSUME disk \in Disk, Packed(disk), NEW a, NEW x \in Index, Numbered(x), Dense(Draft(x))
  PROVE  /\ Tame(Draft(x), a)
         /\ Draft(x).idx = x /\ Draft(x).img = disk /\ Draft(x).plan = << >> /\ Draft(x).ok
<1>1. Draft(x) \in Drafts /\ Draft(x).plan = << >> /\ Draft(x).img = disk
      /\ Draft(x).idx = x /\ Draft(x).ok
  BY DraftSound DEF Sound, Draft
<1>2. Through(disk, << >>, disk, Packs, Spared(a))
  BY ThroughStarts DEF Packs
<1> QED
  BY <1>1, <1>2 DEF Tame

(* The draft every operation but a start begins with.                      *)
LEMMA CurrentTame ==
  ASSUME disk \in Disk, IndexSound, disk.index # Corrupt, Packed(disk), NEW a
  PROVE  LET r == Draft(CurrentIndex)
         IN /\ Tame(r, a) /\ r.idx = CurrentIndex /\ CurrentIndex = IndexOf(disk)
            /\ r.img = disk /\ r.plan = << >> /\ r.ok
            /\ Room(r) <=> Vacant(disk)
<1>1. CurrentIndex \in Index /\ Numbered(CurrentIndex)
  BY CurrentParts
<1>2. CurrentIndex = IndexOf(disk)
  BY DEF CurrentIndex, IndexOf
<1>3. Draft(CurrentIndex).idx = CurrentIndex /\ Draft(CurrentIndex).img = disk
  BY DEF Draft
<1>4. CurrentIndex.next \in Nat
  BY <1>1, NumberFacts
<1>5. Dense(Draft(CurrentIndex))
  BY <1>2, <1>3, <1>4, NumberFacts DEF Dense, Packed
<1>6. Room(Draft(CurrentIndex)) <=> Vacant(disk)
  BY <1>2, <1>3 DEF Room, FreeIds, Vacant
<1> QED
  BY <1>1, <1>2, <1>5, <1>6, DraftTame

(* A new candidate gets the first id that is free.                         *)
LEMMA AddTame ==
  ASSUME NEW r, NEW a, Tame(r, a), NEW bytes \in Payload, NEW session \in Session \union {None}
  PROVE  LET e == AddCandidate(r, bytes, session)
         IN \/ e = Failed(r) /\ ~Room(r)
            \/ /\ Tame(e, a) /\ (Listing(r) => Listing(e))
               /\ e.idx.active = r.idx.active /\ e.idx.next # 1
               /\ \A i \in Id : r.idx.carried[i] # Absent => e.idx.carried[i] # Absent
               /\ e.img.index = r.img.index /\ e.img.active = r.img.active
<1>1. /\ r \in Drafts /\ r.ok /\ r.idx \in Index /\ r.img \in Disk /\ Numbered(r.idx)
      /\ Dense(r) /\ Packed(r.img) /\ Through(disk, r.plan, r.img, Packs, Spared(a))
  BY TameParts
<1>2. CASE ~Room(r)
  BY <1>2 DEF AddCandidate, Room
<1>3. CASE Room(r)
  <2> DEFINE k == LeastOf(FreeIds(r))
             x == Carrying(r.idx, k, session)
             m == [r EXCEPT !.idx = x]
             w == PutCandidate(k, bytes)
             e == Emit(m, w)
  <2>1. FreeIds(r) \in SUBSET Nat /\ FreeIds(r) \subseteq Id /\ MaxId \in Nat
    BY BoundsAssumption DEF FreeIds, Id
  <2>2. k \in FreeIds(r) /\ k \in Id /\ k < MaxId /\ \A i \in FreeIds(r) : k <= i
    <3>1. k \in FreeIds(r) /\ \A n \in FreeIds(r) : k <= n
      BY <1>3, <2>1, LeastNat DEF Room
    <3> HIDE DEF k
    <3>2. PICK i \in FreeIds(r) : i < MaxId
      BY <1>3 DEF Room
    <3> QED
      BY <2>1, <3>1, <3>2
  <2> HIDE DEF k
  <2>3. r.img.cand[k] = None /\ r.idx.carried[k] = Absent /\ k >= r.idx.next
    BY <2>2 DEF FreeIds
  <2>4. /\ x \in Index /\ Numbered(x) /\ x.next = k + 1 /\ x.active = r.idx.active
        /\ x.carried = [r.idx.carried EXCEPT ![k] = session]
        /\ \A i \in Id : r.idx.carried[i] # Absent => x.carried[i] # Absent
    BY <1>1, <2>2, <2>3, CarryingType, CarryingNumbered
  <2>5. AddCandidate(r, bytes, session) = e
    BY <1>3 DEF AddCandidate, Room, k
  <2> HIDE DEF x
  <2>6. m \in Drafts /\ m.plan = r.plan /\ m.ok = r.ok /\ m.idx = x /\ m.img = r.img
    BY <1>1, <2>4, SameActive
  <2> HIDE DEF m
  <2>7. /\ w \in Write /\ Apply(r.img, w) \in Disk
        /\ Apply(r.img, w).index = r.img.index /\ Apply(r.img, w).active = r.img.active
        /\ \A c \in Id : Apply(r.img, w).cand[c] = IF c = k THEN bytes ELSE r.img.cand[c]
    BY <1>1, <2>2, CandidateParts
  <2>8. w \in Spared(a)
    BY <2>7, NoIdNone DEF PutCandidate, Spared
  <2> DEFINE d == Apply(r.img, w)
  <2>9. \A c \in Id : d.cand[c] # None <=> c = k \/ r.img.cand[c] # None
    BY <2>7, NoIdNone
  <2> HIDE DEF w
(* Below the new candidate there is no gap.                                *)
  <2>10. ASSUME NEW j \in Id, r.idx.next <= j, j < k PROVE r.img.cand[j] # None
    <3>1. r.idx.carried[j] = Absent
      BY <1>1, <2>10, NumberFacts DEF Numbered
    <3>2. j \notin FreeIds(r)
      BY <2>1, <2>2, <2>10, NumberFacts
    <3> QED
      BY <1>1, <2>10, <3>1, <3>2, NumberFacts DEF FreeIds
  <2>11. IndexOf(d) = IndexOf(r.img)
    BY <2>7 DEF IndexOf
  <2>12. r.idx.next \in Nat /\ (r.img.index # Corrupt => IndexOf(r.img).next \in Nat)
    BY <1>1, NumberFacts, DefaultType DEF IndexOf, Disk
  <2>13. r.img.index # Corrupt
         => /\ IndexOf(r.img).next <= r.idx.next
            /\ \A j \in Id : IndexOf(r.img).next <= j /\ j < r.idx.next => r.img.cand[j] # None
    BY <1>1 DEF Dense
  <2>14. \A i, j \in Id : r.img.cand[i] # None /\ r.idx.next <= j /\ j <= i => r.img.cand[j] # None
    BY <1>1 DEF Dense
  <2> HIDE DEF d
  <2>15. ASSUME d.index # Corrupt, NEW j \in Id, IndexOf(d).next <= j, j <= k PROVE d.cand[j] # None
    <3>1. CASE j < r.idx.next
      BY <2>7, <2>9, <2>11, <2>13, <2>15, <3>1 DEF d
    <3>2. CASE r.idx.next <= j /\ j < k
      BY <2>9, <2>10, <3>2
    <3>3. CASE j = k
      BY <2>9, <3>3
    <3> QED
      BY <2>2, <2>12, <2>15, <3>1, <3>2, <3>3, NumberFacts
  <2>16. Packed(d)
    <3> SUFFICES ASSUME d.index # Corrupt, NEW i \in Id, NEW j \in Id, d.cand[i] # None,
                        IndexOf(d).next <= j, j <= i
                 PROVE  d.cand[j] # None
      BY DEF Packed
    <3>1. CASE i = k
      BY <2>15, <3>1
    <3>2. CASE i # k
      BY <1>1, <2>7, <2>9, <2>11, <3>2 DEF Packed, d
    <3> QED
      BY <3>1, <3>2
  <2>17. Through(disk, m.plan, m.img, Packs, Spared(a)) /\ Numbered(m.idx)
    BY <1>1, <2>4, <2>6
  <2>18. /\ e \in Drafts /\ e.ok /\ e.idx = x /\ e.img = d
         /\ Through(disk, e.plan, e.img, Packs, Spared(a))
    <3>1. m \in Drafts /\ m.ok /\ m.plan \in Seq(Write)
      BY <1>1, <2>6 DEF Drafts
    <3>2. e \in Drafts /\ e.ok /\ e.idx = x /\ e.plan = Append(m.plan, w)
      BY <2>6, <2>7, <3>1, EmitPlan
    <3>3. e.img = d
      BY <2>6, <3>1 DEF Emit, Drafts, d
    <3>4. d \in Packs
      BY <2>7, <2>16 DEF Packs, d
    <3>5. Through(disk, Append(m.plan, w), Apply(m.img, w), Packs, Spared(a))
      BY <2>6, <2>7, <2>8, <2>17, <3>1, <3>4, ThroughOn DEF d
    <3> QED
      BY <2>6, <3>2, <3>3, <3>5 DEF d
  <2> HIDE DEF e
  <2>19. Dense(e)
    <3>1. \A i, j \in Id : d.cand[i] # None /\ k + 1 <= j /\ j <= i => d.cand[j] # None
      BY <2>2, <2>3, <2>9, <2>12, <2>14, NumberFacts
    <3>2. d.index # Corrupt => IndexOf(d).next <= k + 1
      BY <2>2, <2>3, <2>7, <2>11, <2>12, <2>13, NumberFacts DEF d
    <3>3. d.index # Corrupt
          => \A j \in Id : IndexOf(d).next <= j /\ j < k + 1 => d.cand[j] # None
      BY <2>2, <2>15, NumberFacts
    <3> QED
      BY <2>4, <2>18, <3>1, <3>2, <3>3 DEF Dense
  <2>20. Tame(e, a)
    BY <2>4, <2>18, <2>19 DEF Tame
  <2>21. ASSUME Listing(r) PROVE Listing(e)
    <3>1. ASSUME NEW i \in FreeIds(e) PROVE i \in FreeIds(r)
      <4>1. i \in Id /\ i >= k + 1 /\ x.carried[i] = Absent /\ d.cand[i] = None
        BY <2>4, <2>18, <3>1 DEF FreeIds
      <4>2. i >= r.idx.next
        BY <2>2, <2>3, <2>12, <4>1, NumberFacts
      <4>3. r.idx.carried[i] = Absent /\ r.img.cand[i] = None
        BY <2>4, <2>9, <4>1
      <4> QED
        BY <4>1, <4>2, <4>3 DEF FreeIds
    <3>2. Room(e) => Room(r)
      BY <3>1 DEF Room
    <3>3. x.carried[k] # Absent
      BY <1>1, <2>2, <2>4, ValuesAssumption DEF Index
    <3> QED
      BY <2>4, <2>9, <2>18, <2>21, <3>2, <3>3 DEF Listing
  <2>22. e.idx.next # 1
    BY <2>2, <2>4, <2>18, NumberFacts
  <2> QED
    BY <2>4, <2>5, <2>7, <2>18, <2>20, <2>21, <2>22 DEF e, d
<1> QED
  BY <1>2, <1>3

(* The work goes back to its source, whose id the index has given.         *)
LEMMA UpdateTame ==
  ASSUME NEW r, NEW a, Tame(r, a), r.img.active # None, NEW src \in Id,
         src = r.idx.active.source, r.idx.carried[src] # Absent
  PROVE  LET e == UpdateSource(r)
         IN /\ Tame(e, a) /\ (Listing(r) => Listing(e))
            /\ e.idx = r.idx /\ e.img.index = r.img.index /\ e.img.active = r.img.active
<1> DEFINE w == PutCandidate(src, r.img.active)
           e == Emit(r, w)
           d == Apply(r.img, w)
<1>1. /\ r \in Drafts /\ r.idx \in Index /\ r.img \in Disk /\ Numbered(r.idx)
      /\ Dense(r) /\ Packed(r.img)
  BY TameParts
<1>2. CASE UpdateSource(r) = r
  BY <1>2
<1>3. CASE UpdateSource(r) = e
  <2>1. r.img.active \in Payload
    BY <1>1 DEF Disk
  <2>2. /\ w \in Write /\ d \in Disk /\ d.index = r.img.index /\ d.active = r.img.active
        /\ \A c \in Id : d.cand[c] = IF c = src THEN r.img.active ELSE r.img.cand[c]
    BY <1>1, <2>1, CandidateParts
  <2>3. w.file = "cand" /\ w.val = None => w.id = a
    BY DEF PutCandidate
  <2>4. \A c \in Id : d.cand[c] # None <=> c = src \/ r.img.cand[c] # None
    BY <2>2
  <2>5. src < r.idx.next /\ r.idx.next \in Nat
    BY <1>1, NumberFacts DEF Numbered
  <2>6. r.img.index # Corrupt => IndexOf(r.img).next \in Nat
    BY <1>1, NumberFacts, DefaultType DEF IndexOf, Disk
  <2>7. IndexOf(d) = IndexOf(r.img)
    BY <2>2 DEF IndexOf
  <2> HIDE DEF w, d
  <2>8. Packed(d)
    <3> SUFFICES ASSUME d.index # Corrupt, NEW i \in Id, NEW j \in Id, d.cand[i] # None,
                        IndexOf(d).next <= j, j <= i
                 PROVE  d.cand[j] # None
      BY DEF Packed
    <3>1. CASE i = src
      <4>1. j < r.idx.next
        BY <2>5, <3>1, NumberFacts
      <4> QED
        BY <1>1, <2>2, <2>4, <2>7, <4>1 DEF Dense
    <3>2. CASE i # src
      BY <1>1, <2>2, <2>4, <2>7, <3>2 DEF Packed
    <3> QED
      BY <3>1, <3>2
  <2>9. e.ok /\ e.idx = r.idx /\ e.img = d /\ (Dense(e) => Tame(e, a))
    BY <2>2, <2>3, <2>8, EmitTame DEF d
  <2> HIDE DEF e
  <2>10. Dense(e)
    <3>1. \A i, j \in Id : d.cand[i] # None /\ r.idx.next <= j /\ j <= i => d.cand[j] # None
      BY <1>1, <2>4, <2>5, NumberFacts DEF Dense
    <3> QED
      BY <1>1, <2>2, <2>4, <2>7, <2>9, <3>1 DEF Dense
  <2>11. ASSUME Listing(r) PROVE Listing(e)
    <3>1. Room(e) => Room(r)
      BY <2>4, <2>9 DEF Room, FreeIds
    <3> QED
      BY <2>4, <2>9, <2>11, <3>1 DEF Listing
  <2> QED
    BY <1>3, <2>2, <2>9, <2>10, <2>11 DEF e
<1> QED
  BY <1>2, <1>3 DEF UpdateSource

(* The active work becomes a candidate, or there is no id for it.          *)
LEMMA CarryTame ==
  ASSUME NEW r, NEW a, Tame(r, a), r.idx.active # None, r.img.active # None
  PROVE  LET e == CarryActive(r)
         IN \/ e = Failed(r) /\ ~Room(r) /\ ~ReturnsToSource(r)
            \/ /\ Tame(e, a) /\ (Listing(r) => Listing(e))
               /\ e.idx.active = r.idx.active
               /\ \A i \in Id : r.idx.carried[i] # Absent => e.idx.carried[i] # Absent
               /\ e.img.index = r.img.index /\ e.img.active = r.img.active
<1>1. r.ok /\ r.idx \in Index /\ r.img \in Disk
  BY TameParts
<1>2. CASE ReturnsToSource(r)
  <2>1. CarryActive(r) = UpdateSource(r)
    BY <1>1, <1>2 DEF CarryActive
  <2>2. r.idx.active.source \in Id /\ r.idx.carried[r.idx.active.source] # Absent
    BY <1>1, <1>2 DEF ReturnsToSource, Index, Active
  <2> QED
    BY <2>1, <2>2, UpdateTame
<1>3. CASE ~ReturnsToSource(r)
  <2>1. CarryActive(r) = AddCandidate(r, r.img.active, r.idx.active.session)
    BY <1>1, <1>3 DEF CarryActive
  <2>2. r.img.active \in Payload /\ r.idx.active.session \in Session \union {None}
    BY <1>1 DEF Disk, Index, Active
  <2> QED
    BY <1>3, <2>1, <2>2, AddTame
<1> QED
  BY <1>2, <1>3

LEMMA UnlinkTame ==
  ASSUME NEW r, NEW a, Tame(r, a)
  PROVE  LET u == Unlink(r)
         IN /\ Tame(u, a) /\ u.img = r.img /\ u.plan = r.plan /\ (Listing(r) => Listing(u))
            /\ u.idx.active = None /\ u.idx.carried = r.idx.carried /\ u.idx.next = r.idx.next
<1> DEFINE x == [r.idx EXCEPT !.active = None]
<1>1. r.ok /\ r.idx \in Index /\ Numbered(r.idx)
  BY TameParts
<1>2. x \in Index /\ x.active = None /\ x.carried = r.idx.carried /\ x.next = r.idx.next
  BY <1>1 DEF Index
<1>3. Numbered(x)
  BY <1>1, <1>2 DEF Numbered
<1>4. Unlink(r) = [r EXCEPT !.idx = x]
  BY <1>1 DEF Unlink
<1> HIDE DEF x
<1> QED
  BY <1>2, <1>3, <1>4, ReindexTame

(* The index is written: the disk lists what the draft does.               *)
LEMMA CommitTame ==
  ASSUME NEW r, NEW a, Tame(r, a), ValidIndex(r.idx)
  PROVE  LET e == CommitIndex(r)
         IN /\ Tame(e, a) /\ (Listing(r) => Listing(e))
            /\ e.idx = r.idx /\ e.img.index = r.idx /\ e.img.active = r.img.active
            /\ e.img.cand = r.img.cand /\ e.img.legacy = r.img.legacy
<1> DEFINE w == PutIndex(r.idx)
           e == Emit(r, w)
           d == Apply(r.img, w)
<1>1. /\ r.idx \in Index /\ r.img \in Disk /\ Numbered(r.idx) /\ Dense(r)
  BY TameParts
<1>2. /\ w \in Write /\ d \in Disk /\ d.index = r.idx /\ d.active = r.img.active
      /\ d.legacy = r.img.legacy /\ d.cand = r.img.cand
  BY <1>1, IndexParts
<1>3. CommitIndex(r) = e
  BY DEF CommitIndex
<1>4. w.file # "cand"
  BY DEF PutIndex
<1> HIDE DEF w, d
<1>5. IndexOf(d) = r.idx /\ d.index # Corrupt
  BY <1>1, <1>2, ValuesAssumption DEF IndexOf
<1>6. Packed(d)
  BY <1>1, <1>2, <1>5 DEF Packed, Dense
<1>7. e.ok /\ e.idx = r.idx /\ e.img = d /\ (Dense(e) => Tame(e, a))
  BY <1>2, <1>4, <1>6, EmitTame DEF d
<1> HIDE DEF e
<1>8. Dense(e)
  <2>1. r.idx.next \in Nat
    BY <1>1, NumberFacts
  <2> QED
    BY <1>1, <1>2, <1>5, <1>7, <2>1, NumberFacts DEF Dense
<1>9. Listing(r) => Listing(e)
  BY <1>2, <1>7 DEF Listing, Room, FreeIds
<1> QED
  BY <1>2, <1>3, <1>7, <1>8, <1>9 DEF e

(* The active payload is replaced.                                         *)
LEMMA PutTame ==
  ASSUME NEW r, NEW a, Tame(r, a), NEW p \in Payload \union {None}
  PROVE  LET e == Emit(r, PutActive(p))
         IN /\ Tame(e, a) /\ (Listing(r) => Listing(e))
            /\ e.idx = r.idx /\ e.img.index = r.img.index /\ e.img.active = p
            /\ e.img.cand = r.img.cand /\ e.img.legacy = r.img.legacy
<1> DEFINE w == PutActive(p)
           e == Emit(r, w)
           d == Apply(r.img, w)
<1>1. r.img \in Disk /\ Dense(r) /\ Packed(r.img)
  BY TameParts
<1>2. /\ w \in Write /\ d \in Disk /\ d.index = r.img.index /\ d.active = p
      /\ d.legacy = r.img.legacy /\ d.cand = r.img.cand
  BY <1>1, ActiveParts
<1>3. w.file # "cand"
  BY DEF PutActive
<1> HIDE DEF w, d
<1>4. IndexOf(d) = IndexOf(r.img)
  BY <1>2 DEF IndexOf
<1>5. Packed(d)
  BY <1>1, <1>2, <1>4 DEF Packed
<1>6. e.ok /\ e.idx = r.idx /\ e.img = d /\ (Dense(e) => Tame(e, a))
  BY <1>2, <1>3, <1>5, EmitTame DEF d
<1> HIDE DEF e
<1>7. Dense(e)
  BY <1>1, <1>2, <1>4, <1>6 DEF Dense
<1>8. Listing(r) => Listing(e)
  BY <1>2, <1>6 DEF Listing, Room, FreeIds
<1> QED
  BY <1>2, <1>6, <1>7, <1>8 DEF e, w

(* The slot is emptied, index first.                                       *)
LEMMA EmptyTame ==
  ASSUME NEW r, NEW a, Tame(r, a), r.idx.active = None
  PROVE  LET e == Emit(CommitIndex(r), PutActive(None))
         IN /\ Tame(e, a) /\ (Listing(r) => Listing(e))
            /\ e.idx = r.idx /\ e.img.index = r.idx /\ e.img.active = None
            /\ e.img.cand = r.img.cand /\ e.img.legacy = r.img.legacy
<1> DEFINE c == CommitIndex(r)
<1>1. ValidIndex(r.idx)
  BY TameParts, ValidIsNumbered
<1>2. /\ Tame(c, a) /\ (Listing(r) => Listing(c))
      /\ c.idx = r.idx /\ c.img.index = r.idx
      /\ c.img.cand = r.img.cand /\ c.img.legacy = r.img.legacy
  BY <1>1, CommitTame
<1> HIDE DEF c
<1>3. LET e == Emit(c, PutActive(None))
      IN /\ Tame(e, a) /\ (Listing(c) => Listing(e))
         /\ e.idx = c.idx /\ e.img.index = c.img.index /\ e.img.active = None
         /\ e.img.cand = c.img.cand /\ e.img.legacy = c.img.legacy
  BY <1>2, PutTame
<1> QED
  BY <1>2, <1>3 DEF c

(* The active work is set aside, or there is no id for it and nothing more *)
(* is written.                                                             *)
LEMMA SetAsideTame ==
  ASSUME NEW r, NEW a, Tame(r, a), r.idx.active # None => r.img.active # None
  PROVE  LET e == SetAside(r)
         IN \/ /\ ~e.ok /\ e.plan = r.plan /\ e.img = r.img /\ r.idx.active # None
               /\ ~Room(r) /\ ~ReturnsToSource(r)
            \/ /\ Tame(e, a) /\ (Listing(r) => Listing(e))
               /\ e.idx.active = None /\ e.img.index = e.idx /\ e.img.active = None
               /\ \A i \in Id : r.idx.carried[i] # Absent => e.idx.carried[i] # Absent
<1> DEFINE c == CarryActive(r)
           u == Unlink(c)
           e == Emit(CommitIndex(u), PutActive(None))
<1>1. SetAside(r) = e
  BY DEF SetAside
<1>2. r \in Drafts /\ r.ok
  BY TameParts
<1>3. CASE r.idx.active # None /\ c = Failed(r) /\ ~Room(r) /\ ~ReturnsToSource(r)
  <2>1. c \in Drafts /\ ~c.ok /\ c.plan = r.plan /\ c.img = r.img
    BY <1>2, <1>3, FailedParts
  <2> HIDE DEF c
  <2>2. ~e.ok /\ e.plan = r.plan /\ e.img = r.img
    BY <2>1, StoppedParts
  <2> QED
    BY <1>1, <1>3, <2>2
<1>4. CASE ~(r.idx.active # None /\ c = Failed(r) /\ ~Room(r) /\ ~ReturnsToSource(r))
  <2>1. Tame(c, a) /\ (Listing(r) => Listing(c))
        /\ \A i \in Id : r.idx.carried[i] # Absent => c.idx.carried[i] # Absent
    <3>1. CASE r.idx.active = None
      <4>1. c = r
        BY <3>1 DEF CarryActive
      <4> QED
        BY <4>1
    <3>2. CASE r.idx.active # None
      BY <1>4, <3>2, CarryTame
    <3> QED
      BY <3>1, <3>2
  <2> HIDE DEF c
  <2>2. /\ Tame(u, a) /\ u.idx.active = None /\ u.idx.carried = c.idx.carried
        /\ (Listing(c) => Listing(u))
    BY <2>1, UnlinkTame
  <2> HIDE DEF u
  <2>3. /\ Tame(e, a) /\ (Listing(u) => Listing(e))
        /\ e.idx = u.idx /\ e.img.index = u.idx /\ e.img.active = None
    BY <2>2, EmptyTame
  <2> HIDE DEF e
  <2> QED
    BY <1>1, <2>1, <2>2, <2>3
<1> QED
  BY <1>3, <1>4

-----------------------------------------------------------------------------
(* What the only process s finds on disk d, with o the candidate its user  *)
(* restored: while there are ids, everything is listed and the slot is     *)
(* free or its own; the work in its slot is linked to no other candidate.  *)
Served(d, s, o) ==
  d.index # Corrupt
  => /\ Vacant(d) => /\ \A i \in Id : d.cand[i] # None => IndexOf(d).carried[i] # Absent
                     /\ Named(d) => Own(d, s)
     /\ Own(d, s) /\ d.index.active.source # None => o = d.index.active.source

(* Nothing can be offered: there is no candidate, and nothing that a start *)
(* makes one of, but what a process of up has in its slot.                 *)
Clear(d, up) ==
  /\ d.legacy = None /\ \A i \in Id : d.cand[i] = None
  /\ \/ d.active = None /\ ~Named(d)
     \/ \E s \in up : Own(d, s)

(* Between two operations of process s.                                    *)
Calm(s, o) ==
  /\ disk \in Disk /\ IndexSound /\ Packed(disk) /\ Served(disk, s, o)
  /\ Named(disk) /\ ~Own(disk, s) => ~Returns(disk)

LEMMA ListingServes ==
  ASSUME NEW r, NEW a, Tame(r, a), Listing(r), r.img.index = r.idx,
         NEW s, NEW o, Named(r.img) => Own(r.img, s),
         Own(r.img, s) /\ r.img.index.active.source # None => o = r.img.index.active.source
  PROVE  Served(r.img, s, o)
<1>1. r.idx \in Index
  BY TameParts
<1>2. IndexOf(r.img) = r.idx /\ r.img.index # Corrupt
  BY <1>1, ValuesAssumption DEF IndexOf
<1>3. Vacant(r.img) <=> Room(r)
  BY <1>2 DEF Vacant, Room, FreeIds
<1> QED
  BY <1>2, <1>3 DEF Served, Listing

LEMMA CalmListing ==
  ASSUME NEW s, NEW o, Calm(s, o), disk.index # Corrupt, NEW a
  PROVE  LET r == Draft(CurrentIndex)
         IN /\ Tame(r, a) /\ Listing(r) /\ r.idx = CurrentIndex /\ CurrentIndex = IndexOf(disk)
            /\ r.img = disk /\ r.plan = << >> /\ r.ok
            /\ Room(r) <=> Vacant(disk)
            /\ CurrentIndex \in Index /\ ValidIndex(CurrentIndex) /\ Numbered(CurrentIndex)
            /\ Named(disk) => CurrentIndex = disk.index /\ disk.active \in Payload
            /\ ~Named(disk) => CurrentIndex.active = None
<1> DEFINE r == Draft(CurrentIndex)
<1>1. /\ Tame(r, a) /\ r.idx = CurrentIndex /\ CurrentIndex = IndexOf(disk)
      /\ r.img = disk /\ r.plan = << >> /\ r.ok
      /\ Room(r) <=> Vacant(disk)
  BY CurrentTame DEF Calm
<1>2. /\ CurrentIndex \in Index /\ ValidIndex(CurrentIndex) /\ Numbered(CurrentIndex)
      /\ Named(disk) => CurrentIndex = disk.index /\ disk.active \in Payload
      /\ ~Named(disk) => CurrentIndex.active = None
  BY CurrentParts DEF Calm
<1>3. Listing(r)
  BY <1>1 DEF Listing, Calm, Served
<1> QED
  BY <1>1, <1>2, <1>3

(* Process s writes payload p into the slot, with a link to src.           *)
Stored(r, s, src, p) ==
  CommitIndex(Emit([r EXCEPT !.idx.active = [session |-> s, source |-> src]], PutActive(p)))

LEMMA StoreTame ==
  ASSUME NEW r, NEW a, Tame(r, a), Listing(r), NEW s \in Session, NEW src \in Id \union {None},
         src # None => r.idx.carried[src] # Absent,
         NEW p \in Payload, NEW o, src # None => o = src
  PROVE  LET e == Stored(r, s, src, p)
         IN /\ Tame(e, a) /\ Listing(e) /\ Own(e.img, s) /\ Served(e.img, s, o)
            /\ e.idx.active # None /\ e.img.active # None /\ e.img.index = e.idx
            /\ e.idx.carried = r.idx.carried
            /\ e.img.cand = r.img.cand /\ e.img.legacy = r.img.legacy
<1> DEFINE act == [session |-> s, source |-> src]
           x == [r.idx EXCEPT !.active = act]
           m == [r EXCEPT !.idx = x]
           t == Emit(m, PutActive(p))
           e == Stored(r, s, src, p)
<1>1. r.idx \in Index /\ Numbered(r.idx)
  BY TameParts
<1>2. act \in Active /\ act # None /\ act.session = s /\ act.source = src
  <2>1. act \in Active
    BY DEF Active
  <2> QED
    BY <2>1, ValuesAssumption
<1>3. x \in Index /\ x.active = act /\ x.carried = r.idx.carried /\ x.next = r.idx.next
  BY <1>1, <1>2 DEF Index
<1>4. Numbered(x) /\ ValidIndex(x)
  BY <1>1, <1>2, <1>3, ValidIsNumbered DEF Numbered
<1>5. e = CommitIndex(t)
  BY DEF Stored
<1> HIDE DEF x, act, e
<1>6. Tame(m, a) /\ Listing(m) /\ m.idx = x /\ m.img = r.img
  BY <1>3, <1>4, ReindexTame
<1> HIDE DEF m
<1>7. /\ Tame(t, a) /\ Listing(t) /\ t.idx = x /\ t.img.active = p
      /\ t.img.cand = r.img.cand /\ t.img.legacy = r.img.legacy
  BY <1>6, PutTame
<1> HIDE DEF t
<1>8. /\ Tame(e, a) /\ Listing(e) /\ e.idx = x /\ e.img.index = x /\ e.img.active = p
      /\ e.img.cand = r.img.cand /\ e.img.legacy = r.img.legacy
  BY <1>4, <1>5, <1>7, CommitTame
<1>9. Own(e.img, s)
  BY <1>2, <1>3, <1>8, ValuesAssumption DEF Own, Named
<1>10. Served(e.img, s, o)
  <2>1. e.img.index.active.source # None => o = e.img.index.active.source
    BY <1>2, <1>3, <1>8
  <2> QED
    BY <1>8, <1>9, <2>1, ListingServes
<1> QED
  BY <1>2, <1>3, <1>8, <1>9, <1>10, NoIdNone DEF e

(* A snapshot takes a slot that is free or its own; a slot of another      *)
(* process is one for which there is no id, and is left alone.             *)
LEMMA SnapshotServed ==
  ASSUME NEW s \in Session, NEW o, Calm(s, o), disk.index # Corrupt,
         NEW doc \in Doc, NEW stamp \in Stamp, NEW a
  PROVE  LET e == TakeSnapshot(Draft(CurrentIndex), s, doc, stamp)
         IN \/ ~e.ok /\ e.plan = << >> /\ e.img = disk /\ e \in Drafts
            \/ /\ Tame(e, a) /\ Listing(e) /\ Own(e.img, s) /\ Served(e.img, s, o)
               /\ e.idx.active # None /\ e.img.active # None /\ e.img.index = e.idx
               /\ e.idx.carried = CurrentIndex.carried
               /\ e.img.cand = disk.cand /\ e.img.legacy = disk.legacy
<1> DEFINE r == Draft(CurrentIndex)
           c == IF r.idx.active # None /\ r.idx.active.session # s THEN CarryActive(r) ELSE r
           e == TakeSnapshot(r, s, doc, stamp)
<1>1. /\ Tame(r, a) /\ Listing(r) /\ r.idx = CurrentIndex /\ CurrentIndex = IndexOf(disk)
      /\ r.img = disk /\ r.plan = << >> /\ r.ok
      /\ Room(r) <=> Vacant(disk)
      /\ CurrentIndex \in Index /\ ValidIndex(CurrentIndex) /\ Numbered(CurrentIndex)
      /\ Named(disk) => CurrentIndex = disk.index /\ disk.active \in Payload
      /\ ~Named(disk) => CurrentIndex.active = None
  BY CalmListing
<1> HIDE DEF r
<1>2. CASE Named(disk) /\ ~Own(disk, s)
  <2>1. ~Room(r) /\ ~ReturnsToSource(r)
    BY <1>1, <1>2 DEF Calm, Served, Returns, ReturnsToSource
  <2>2. r.idx.active # None /\ r.idx.active.session # s /\ r.img.active # None
    BY <1>1, <1>2, NoIdNone DEF Named, Own
  <2>3. c = AddCandidate(r, r.img.active, r.idx.active.session)
    BY <1>1, <2>1, <2>2 DEF CarryActive
  <2>4. c = Failed(r)
    BY <2>1, <2>3 DEF AddCandidate, Room
  <2> HIDE DEF c
  <2>5. c \in Drafts /\ ~c.ok /\ c.plan = << >> /\ c.img = disk
    BY <1>1, <2>4, FailedParts, TameParts
  <2>6. e = c
    BY <2>2, <2>5 DEF TakeSnapshot, c
  <2> QED
    BY <2>5, <2>6 DEF r
<1>3. CASE ~(Named(disk) /\ ~Own(disk, s))
  <2> DEFINE q == IF CurrentIndex.active = None THEN None ELSE CurrentIndex.active.source
             p == [doc |-> doc, session |-> s, source |-> q, stamp |-> stamp]
  <2>1. c = r
    BY <1>1, <1>3 DEF Own
  <2>2. e = Stored(r, s, q, p)
    BY <1>1, <2>1 DEF TakeSnapshot, Stored
  <2>3. q \in Id \union {None} /\ (q # None => r.idx.carried[q] # Absent)
    BY <1>1 DEF ValidIndex, Index, Active
  <2>4. p \in Payload
    BY <2>3 DEF Payload, Work
  <2>5. q # None => o = q
    BY <1>1, <1>3 DEF Calm, Served, Own
  <2> HIDE DEF q, p, e, c
  <2>6. r.idx.carried = CurrentIndex.carried /\ r.img.cand = disk.cand /\ r.img.legacy = disk.legacy
    BY <1>1
  <2>7. /\ Tame(r, a) /\ Listing(r) /\ q \in Id \union {None}
        /\ q # None => r.idx.carried[q] # Absent
        /\ q # None => o = q
        /\ p \in Payload
    BY <1>1, <2>3, <2>4, <2>5
  <2>8. LET t == Stored(r, s, q, p)
        IN /\ Tame(t, a) /\ Listing(t) /\ Own(t.img, s) /\ Served(t.img, s, o)
           /\ t.idx.active # None /\ t.img.active # None /\ t.img.index = t.idx
           /\ t.idx.carried = r.idx.carried
           /\ t.img.cand = r.img.cand /\ t.img.legacy = r.img.legacy
    BY <2>7, StoreTame
  <2> QED
    BY <2>2, <2>6, <2>8 DEF e, r
<1> QED
  BY <1>2, <1>3

-----------------------------------------------------------------------------
(* Each plan removes no candidate but the one it is about, and leaves the  *)
(* process served.                                                         *)
Path(r, a) == Through(disk, r.plan, r.img, Packs, Spared(a))

LEMMA StillPath ==
  ASSUME disk \in Disk, Packed(disk), NEW r, r.plan = << >>, r.img = disk, NEW a
  PROVE  Path(r, a)
BY ThroughStarts DEF Path, Packs

LEMMA TamePath ==
  ASSUME NEW r, NEW a, Tame(r, a)
  PROVE  Path(r, a)
BY DEF Path, Tame

(* An empty slot serves every process.                                     *)
LEMMA EmptyServes ==
  ASSUME NEW r, NEW a, Tame(r, a), Listing(r), r.img.index = r.idx, r.idx.active = None,
         NEW s, NEW o
  PROVE  Served(r.img, s, o)
<1>1. ~Named(r.img)
  BY DEF Named
<1> QED
  BY <1>1, ListingServes DEF Own

LEMMA AutosaveServed ==
  ASSUME NEW s \in Session, NEW o, Calm(s, o), disk.index # Corrupt,
         NEW doc \in Doc, NEW stamp \in Stamp, NEW a
  PROVE  LET e == TakeSnapshot(Draft(CurrentIndex), s, doc, stamp)
         IN /\ Path(e, a) /\ Served(e.img, s, o)
            /\ Clear(disk, {s}) => Clear(e.img, {s})
<1> DEFINE e == TakeSnapshot(Draft(CurrentIndex), s, doc, stamp)
<1>1. \/ ~e.ok /\ e.plan = << >> /\ e.img = disk
      \/ /\ Tame(e, a) /\ Own(e.img, s) /\ Served(e.img, s, o)
         /\ e.img.cand = disk.cand /\ e.img.legacy = disk.legacy
  BY SnapshotServed
<1> HIDE DEF e
<1>2. CASE e.plan = << >> /\ e.img = disk
  BY <1>2, StillPath DEF e, Calm
<1>3. CASE /\ Tame(e, a) /\ Own(e.img, s) /\ Served(e.img, s, o)
           /\ e.img.cand = disk.cand /\ e.img.legacy = disk.legacy
  BY <1>3, TamePath DEF e, Clear
<1> QED
  BY <1>1, <1>2, <1>3

LEMMA ReplaceServed ==
  ASSUME NEW s \in Session, NEW o, Calm(s, o), disk.index # Corrupt,
         NEW doc \in Doc, NEW stamp \in Stamp, NEW a
  PROVE  LET e == SetAside(TakeSnapshot(Draft(CurrentIndex), s, doc, stamp))
         IN /\ Path(e, a)
            /\ e.ok => \A x : Served(e.img, s, x)
            /\ ~e.ok => Served(e.img, s, o) /\ (Clear(disk, {s}) => Clear(e.img, {s}))
            /\ e.ok => /\ Tame(e, a) /\ Listing(e) /\ e.idx.active = None
                       /\ \A i \in Id : CurrentIndex.carried[i] # Absent
                                        => e.idx.carried[i] # Absent
<1> DEFINE r == TakeSnapshot(Draft(CurrentIndex), s, doc, stamp)
           e == SetAside(r)
<1>1. \/ ~r.ok /\ r.plan = << >> /\ r.img = disk /\ r \in Drafts
      \/ /\ Tame(r, a) /\ Listing(r) /\ Own(r.img, s) /\ Served(r.img, s, o)
         /\ r.idx.active # None /\ r.img.active # None
         /\ r.idx.carried = CurrentIndex.carried
         /\ r.img.cand = disk.cand /\ r.img.legacy = disk.legacy
  BY SnapshotServed
<1> HIDE DEF r
<1>2. CASE ~r.ok /\ r.plan = << >> /\ r.img = disk /\ r \in Drafts
  <2>1. CarryActive(r) = r
    BY <1>2 DEF CarryActive
  <2>2. ~e.ok /\ e.plan = << >> /\ e.img = disk
    BY <1>2, <2>1, StoppedParts DEF SetAside
  <2> HIDE DEF e
  <2> QED
    BY <2>2, StillPath DEF Calm, e, r
<1>3. CASE /\ Tame(r, a) /\ Listing(r) /\ Own(r.img, s) /\ Served(r.img, s, o)
           /\ r.idx.active # None /\ r.img.active # None
           /\ r.idx.carried = CurrentIndex.carried
           /\ r.img.cand = disk.cand /\ r.img.legacy = disk.legacy
  <2>1. \/ ~e.ok /\ e.plan = r.plan /\ e.img = r.img
        \/ /\ Tame(e, a) /\ Listing(e) /\ e.idx.active = None /\ e.img.index = e.idx
           /\ \A i \in Id : r.idx.carried[i] # Absent => e.idx.carried[i] # Absent
    BY <1>3, SetAsideTame
  <2> HIDE DEF e
  <2>2. CASE ~e.ok /\ e.plan = r.plan /\ e.img = r.img
    <3>1. Path(e, a)
      BY <1>3, <2>2, TamePath DEF Path
    <3>2. Clear(disk, {s}) => Clear(e.img, {s})
      BY <1>3, <2>2 DEF Clear
    <3> QED
      BY <1>3, <2>2, <3>1, <3>2 DEF e, r
  <2>3. CASE /\ Tame(e, a) /\ Listing(e) /\ e.idx.active = None /\ e.img.index = e.idx
             /\ \A i \in Id : r.idx.carried[i] # Absent => e.idx.carried[i] # Absent
    <3>1. Path(e, a) /\ e.ok
      BY <2>3, TamePath, TameParts
    <3>2. \A x : Served(e.img, s, x)
      BY <2>3, EmptyServes
    <3> QED
      BY <1>3, <2>3, <3>1, <3>2 DEF e, r
  <2> QED
    BY <2>1, <2>2, <2>3
<1> QED
  BY <1>1, <1>2, <1>3

(* The slot is emptied, or there is no id for what it holds.               *)
LEMMA ClearsSlot ==
  ASSUME NEW s \in Session, NEW o, Calm(s, o), disk.index # Corrupt, NEW a
  PROVE  LET e == SetAside(Draft(CurrentIndex))
         IN \/ ~e.ok /\ e.plan = << >> /\ e.img = disk
            \/ /\ Tame(e, a) /\ Listing(e) /\ e.idx.active = None
               /\ \A i \in Id : CurrentIndex.carried[i] # Absent => e.idx.carried[i] # Absent
<1> DEFINE r == Draft(CurrentIndex)
           e == SetAside(r)
<1>1. /\ Tame(r, a) /\ Listing(r) /\ r.idx = CurrentIndex /\ r.img = disk /\ r.plan = << >>
      /\ Named(disk) => disk.active \in Payload
      /\ ~Named(disk) => CurrentIndex.active = None
  BY CalmListing
<1> HIDE DEF r
<1>2. r.idx.active # None => r.img.active # None
  BY <1>1, NoIdNone
<1>3. \/ ~e.ok /\ e.plan = r.plan /\ e.img = r.img
      \/ /\ Tame(e, a) /\ Listing(e) /\ e.idx.active = None
         /\ \A i \in Id : r.idx.carried[i] # Absent => e.idx.carried[i] # Absent
  BY <1>1, <1>2, SetAsideTame
<1> HIDE DEF e
<1> QED
  BY <1>1, <1>3 DEF e, r

LEMMA RestoreServed ==
  ASSUME NEW s \in Session, NEW o, Calm(s, o), disk.index \notin {None, Corrupt},
         NEW c \in Id, disk.index.carried[c] # Absent, disk.cand[c] # None,
         NEW stamp \in Stamp, mem[s].doc \in Doc, mem[s].dirty \in BOOLEAN, NEW a
  PROVE  LET e == RestorePlan(s, c, stamp)
         IN /\ Path(e, a)
            /\ e.ok => Served(e.img, s, c)
            /\ ~e.ok => Served(e.img, s, o)
<1> DEFINE kept == IF mem[s].dirty THEN SnapshotPlan(s, stamp) ELSE Draft(CurrentIndex)
           free == SetAside(kept)
           p    == [doc |-> disk.cand[c].doc, session |-> s, source |-> c, stamp |-> stamp]
           put  == Emit(free, PutActive(p))
           e    == RestorePlan(s, c, stamp)
<1>1. CurrentIndex.carried[c] # Absent
  BY DEF CurrentIndex
<1>2. \/ ~free.ok /\ Path(free, a) /\ Served(free.img, s, o)
      \/ /\ Tame(free, a) /\ Listing(free) /\ free.idx.active = None
         /\ free.idx.carried[c] # Absent
  <2>1. CASE mem[s].dirty
    <3> DEFINE t == SetAside(TakeSnapshot(Draft(CurrentIndex), s, mem[s].doc, stamp))
    <3>1. free = t
      BY <2>1 DEF SnapshotPlan
    <3>2. /\ Path(t, a)
          /\ ~t.ok => Served(t.img, s, o)
          /\ t.ok => /\ Tame(t, a) /\ Listing(t) /\ t.idx.active = None
                     /\ \A i \in Id : CurrentIndex.carried[i] # Absent
                                      => t.idx.carried[i] # Absent
      BY ReplaceServed
    <3> HIDE DEF free, t
    <3> QED
      BY <1>1, <3>1, <3>2
  <2>2. CASE ~mem[s].dirty
    <3> DEFINE t == SetAside(Draft(CurrentIndex))
    <3>1. free = t
      BY <2>2
    <3>2. \/ ~t.ok /\ t.plan = << >> /\ t.img = disk
          \/ /\ Tame(t, a) /\ Listing(t) /\ t.idx.active = None
             /\ \A i \in Id : CurrentIndex.carried[i] # Absent => t.idx.carried[i] # Absent
      BY ClearsSlot
    <3> HIDE DEF free, t
    <3>3. t.plan = << >> /\ t.img = disk => Path(t, a) /\ Served(t.img, s, o)
      BY StillPath DEF Calm
    <3> QED
      BY <1>1, <3>1, <3>2, <3>3
  <2> QED
    BY <2>1, <2>2
<1>3. e = IF put.ok THEN CommitIndex([put EXCEPT !.idx.active = [session |-> s, source |-> c]])
          ELSE put
  BY DEF RestorePlan
<1> HIDE DEF free, e
<1>4. CASE ~free.ok /\ Path(free, a) /\ Served(free.img, s, o)
  <2>1. put = free
    BY <1>4 DEF Emit
  <2> QED
    BY <1>3, <1>4, <2>1 DEF e
<1>5. CASE /\ Tame(free, a) /\ Listing(free) /\ free.idx.active = None
           /\ free.idx.carried[c] # Absent
  <2>1. free \in Drafts /\ free.ok /\ free.idx \in Index
    BY <1>5, TameParts
  <2>2. p \in Payload
    BY DEF Calm, Disk, Payload
  <2>3. e = Stored(free, s, c, p)
    <3> DEFINE act == [session |-> s, source |-> c]
               w == PutActive(p)
               m == [free EXCEPT !.idx.active = act]
    <3>1. put = [free EXCEPT !.img = Apply(free.img, w), !.plan = Append(free.plan, w)]
      BY <2>1 DEF Emit
    <3>2. m.ok /\ m.img = free.img /\ m.plan = free.plan
      BY <2>1 DEF Drafts
    <3>3. Emit(m, w) = [m EXCEPT !.img = Apply(free.img, w), !.plan = Append(free.plan, w)]
      BY <3>2 DEF Emit
    <3>4. put.ok /\ [put EXCEPT !.idx.active = act] = Emit(m, w)
      BY <2>1, <3>1, <3>3 DEF Drafts
    <3> QED
      BY <1>3, <3>4 DEF Stored
  <2> HIDE DEF p
  <2>4. LET t == Stored(free, s, c, p)
        IN Tame(t, a) /\ Served(t.img, s, c)
    BY <1>5, <2>2, StoreTame
  <2>5. Path(e, a) /\ Served(e.img, s, c) /\ e.ok
    BY <2>3, <2>4, TamePath, TameParts
  <2> QED
    BY <2>5 DEF e
<1> QED
  BY <1>2, <1>4, <1>5


-----------------------------------------------------------------------------
(* A candidate the index has struck out is removed; what is left is listed *)
(* as before.                                                              *)
ListsBut(r, c) == Room(r) => \A i \in Id \ {c} : r.img.cand[i] # None => r.idx.carried[i] # Absent

LEMMA StrikeTame ==
  ASSUME NEW r, NEW c \in Id, Tame(r, c), r.img.index = r.idx, c < r.idx.next, ListsBut(r, c)
  PROVE  LET e == Emit(r, PutCandidate(c, None))
         IN /\ Tame(e, c) /\ Listing(e) /\ (Room(e) => Room(r))
            /\ e.idx = r.idx /\ e.img.index = r.idx /\ e.img.active = r.img.active
            /\ e.img.legacy = r.img.legacy
            /\ \A i \in Id : e.img.cand[i] = IF i = c THEN None ELSE r.img.cand[i]
<1> DEFINE w == PutCandidate(c, None)
           e == Emit(r, w)
           d == Apply(r.img, w)
<1>1. /\ r.img \in Disk /\ r.idx \in Index /\ Dense(r) /\ Numbered(r.idx)
  BY TameParts
<1>2. /\ w \in Write /\ d \in Disk /\ d.index = r.img.index /\ d.active = r.img.active
      /\ \A i \in Id : d.cand[i] = IF i = c THEN None ELSE r.img.cand[i]
  BY <1>1, CandidateParts
<1>3. d.legacy = r.img.legacy
  BY <1>1 DEF Apply, PutCandidate, Disk
<1>4. w.id = c
  BY DEF PutCandidate
<1> HIDE DEF w, d
<1>5. IndexOf(d) = r.idx /\ IndexOf(r.img) = r.idx /\ d.index # Corrupt
  BY <1>1, <1>2, ValuesAssumption DEF IndexOf
<1>6. \A i, j \in Id : d.cand[i] # None /\ r.idx.next <= j /\ j <= i => d.cand[j] # None
  <2>1. \A j \in Id : r.idx.next <= j => j # c
    BY <1>1, NumberFacts
  <2> QED
    BY <1>1, <1>2, <2>1 DEF Dense
<1>7. Packed(d)
  BY <1>5, <1>6 DEF Packed
<1>8. e.ok /\ e.idx = r.idx /\ e.img = d /\ (Dense(e) => Tame(e, c))
  BY <1>2, <1>4, <1>7, EmitTame DEF d
<1> HIDE DEF e
<1>9. Dense(e)
  <2>1. r.idx.next <= r.idx.next /\ \A j \in Id : ~(r.idx.next <= j /\ j < r.idx.next)
    BY <1>1, NumberFacts
  <2> QED
    BY <1>5, <1>6, <1>8, <2>1 DEF Dense
<1>10. Room(e) => Room(r)
  <2>1. \A i \in Id : r.idx.next <= i => i # c
    BY <1>1, NumberFacts
  <2>2. \A i \in Id : i >= r.idx.next => i # c
    BY <2>1, NumberFacts, <1>1
  <2> QED
    BY <1>2, <1>8, <2>2 DEF Room, FreeIds
<1>11. Listing(e)
  BY <1>2, <1>8, <1>10 DEF Listing, ListsBut
<1> QED
  BY <1>2, <1>3, <1>8, <1>9, <1>10, <1>11 DEF e, w

(* After a save, or at the end, nothing of the process is left in the      *)
(* slot.                                                                   *)
LEMMA DiscardServed ==
  ASSUME NEW s \in Session, NEW o, Calm(s, o), NEW withSource \in BOOLEAN
  PROVE  LET e == DiscardPlan(s, withSource)
         IN /\ Path(e, IF withSource THEN o ELSE None)
            /\ \A x : Served(e.img, s, x)
            /\ Clear(disk, {s}) => Clear(e.img, {})
<1> DEFINE r    == Draft(CurrentIndex)
           src  == IF withSource THEN r.idx.active.source ELSE None
           gone == IF src = None THEN Unlink(r)
                   ELSE [Unlink(r) EXCEPT !.idx.carried[src] = Absent]
           done == Emit(CommitIndex(gone), PutActive(None))
           e    == DiscardPlan(s, withSource)
           a    == IF withSource THEN o ELSE None
<1>1. r.idx = CurrentIndex /\ r.img = disk /\ r.plan = << >> /\ r.ok /\ disk \in Disk
      /\ Packed(disk) /\ Served(disk, s, o)
  BY DEF Draft, Calm
<1>2. ASSUME ~Own(disk, s) PROVE Clear(disk, {s}) => Clear(disk, {})
  BY <1>2 DEF Clear
<1>3. ASSUME ~Own(disk, s) PROVE \A x : Served(disk, s, x)
  BY <1>1, <1>3 DEF Served
<1>4. CASE disk.index = None
  <2> DEFINE w == DropLegacy
             d == Apply(disk, w)
  <2>1. /\ w \in Write /\ d \in Disk /\ d.index = disk.index
        /\ d.active = disk.active /\ d.cand = disk.cand
    BY <1>1, LegacyParts
  <2>2. d.legacy = None
    BY <1>1 DEF Apply, DropLegacy, Disk
  <2>3. e.plan = Append(<< >>, w) /\ e.img = d
    <3>1. e = Emit(r, w)
      BY <1>4 DEF DiscardPlan
    <3> QED
      BY <3>1 DEF Emit, Draft
  <2>4. w \in Spared(a)
    <3>1. w.file # "cand"
      BY DEF DropLegacy
    <3> QED
      BY <2>1, <3>1 DEF Spared
  <2>5. ~Own(disk, s) /\ ~Named(disk) /\ ~Own(d, s) /\ ~Named(d) /\ IndexOf(d) = IndexOf(disk)
    BY <1>4, <2>1 DEF Own, Named, IndexOf
  <2> HIDE DEF w, d, a, e
  <2>6. Packed(d) /\ d \in Packs
    BY <1>1, <2>1, <2>5 DEF Packed, Packs
  <2>7. Through(disk, << >>, disk, Packs, Spared(a))
    BY <1>1, ThroughStarts DEF Packs
  <2>8. << >> \in Seq(Write)
    OBVIOUS
  <2>9. Through(disk, Append(<< >>, w), d, Packs, Spared(a))
    BY <2>1, <2>4, <2>6, <2>7, <2>8, ThroughOn DEF d
  <2>10. \A x : Served(d, s, x)
    BY <1>1, <2>1, <2>5 DEF Served, Vacant
  <2>11. Clear(disk, {s}) => Clear(d, {})
    BY <2>1, <2>2, <2>5 DEF Clear
  <2> QED
    BY <2>3, <2>9, <2>10, <2>11 DEF Path, e, a
<1>5. CASE disk.index # None /\ ~Own(disk, s)
  <2>1. e \in {r, Failed(r)}
    BY <1>1, <1>5 DEF DiscardPlan, Own, Named, CurrentIndex
  <2>2. e.plan = << >> /\ e.img = disk
    BY <2>1 DEF Failed, Draft
  <2> HIDE DEF e, a
  <2>3. Path(e, a)
    BY <1>1, <2>2, StillPath
  <2> QED
    BY <1>2, <1>3, <1>5, <2>2, <2>3 DEF e, a
<1>6. CASE Own(disk, s)
  <2>1. /\ disk.index \notin {None, Corrupt} /\ CurrentIndex = disk.index
        /\ CurrentIndex.active # None /\ CurrentIndex.active.session = s
    BY <1>6 DEF Own, Named, CurrentIndex
  <2>2. /\ Tame(r, a) /\ Listing(r)
        /\ CurrentIndex \in Index /\ ValidIndex(CurrentIndex) /\ Numbered(CurrentIndex)
    BY <2>1, CalmListing
  <2>3. src \in Id \union {None} /\ (src # None => CurrentIndex.carried[src] # Absent)
    BY <1>1, <2>1, <2>2 DEF Index, Active, ValidIndex
  <2>4. src # None => a = src
    BY <1>1, <1>6, <2>1 DEF Served
  <2>5. e = IF src = None THEN done ELSE Emit(done, PutCandidate(src, None))
    BY <1>1, <2>1 DEF DiscardPlan
  <2> DEFINE u == Unlink(r)
  <2> HIDE DEF r, e, a
  <2>6. /\ Tame(u, a) /\ Listing(u) /\ u.img = disk
        /\ u.idx.active = None /\ u.idx.carried = CurrentIndex.carried
        /\ u.idx.next = CurrentIndex.next
    BY <1>1, <2>2, UnlinkTame
  <2>7. ASSUME NEW t, Tame(t, a), Listing(t), t.img.index = t.idx, t.idx.active = None,
               t.img.active = None, t.img.legacy = disk.legacy,
               \A i \in Id : t.img.cand[i] # None => disk.cand[i] # None
        PROVE  Path(t, a) /\ (\A x : Served(t.img, s, x))
               /\ (Clear(disk, {s}) => Clear(t.img, {}))
    <3>1. Path(t, a) /\ \A x : Served(t.img, s, x)
      BY <2>7, EmptyServes, TamePath
    <3>2. Clear(disk, {s}) => Clear(t.img, {})
      BY <2>7 DEF Clear, Named
    <3> QED
      BY <3>1, <3>2
  <2>8. CASE src = None
    <3>1. gone = u
      BY <2>8
    <3> HIDE DEF u, src, gone
    <3>2. LET f == Emit(CommitIndex(u), PutActive(None))
          IN /\ Tame(f, a) /\ Listing(f)
             /\ f.idx = u.idx /\ f.img.index = u.idx /\ f.img.active = None
             /\ f.img.cand = u.img.cand /\ f.img.legacy = u.img.legacy
      BY <2>6, EmptyTame
    <3>3. /\ Tame(done, a) /\ Listing(done)
          /\ done.idx = u.idx /\ done.img.index = u.idx /\ done.img.active = None
          /\ done.img.cand = disk.cand /\ done.img.legacy = disk.legacy
      BY <2>6, <3>1, <3>2
    <3> HIDE DEF done
    <3>4. e = done
      BY <2>5, <2>8
    <3> QED
      BY <2>6, <2>7, <3>3, <3>4 DEF e, a
  <2>9. CASE src # None
    <3> DEFINE x == [u.idx EXCEPT !.carried[src] = Absent]
               g == [u EXCEPT !.idx = x]
    <3>1. gone = g
      BY <2>9
    <3>2. u.idx \in Index /\ Numbered(u.idx)
      BY <2>6, TameParts
    <3> HIDE DEF u, src, gone
    <3>3. /\ x \in Index /\ x.active = None /\ x.next = CurrentIndex.next
          /\ \A i \in Id : x.carried[i] = IF i = src THEN Absent ELSE CurrentIndex.carried[i]
      BY <2>3, <2>6, <2>9, <3>2 DEF Index
    <3> HIDE DEF x
    <3>4. Numbered(x)
      BY <2>6, <3>2, <3>3 DEF Numbered
    <3>5. Tame(g, a) /\ g.idx = x /\ g.img = u.img
      BY <2>6, <3>3, <3>4, ReindexTame
    <3> HIDE DEF g
    <3>6. LET f == Emit(CommitIndex(g), PutActive(None))
          IN /\ Tame(f, a)
             /\ f.idx = g.idx /\ f.img.index = g.idx /\ f.img.active = None
             /\ f.img.cand = g.img.cand /\ f.img.legacy = g.img.legacy
      BY <3>3, <3>5, EmptyTame
    <3>7. /\ Tame(done, a)
          /\ done.idx = x /\ done.img.index = x /\ done.img.active = None
          /\ done.img.cand = disk.cand /\ done.img.legacy = disk.legacy
      BY <2>6, <3>1, <3>5, <3>6
    <3> HIDE DEF done
    <3>8. src \in Id /\ src < x.next
      BY <2>2, <2>3, <2>9, <3>3 DEF Numbered
    <3>9. ListsBut(done, src)
      <4>1. Room(done) => Room(r)
        <5>1. \A i \in Id : i >= x.next => i # src
          BY <3>3, <3>8, NumberFacts
        <5> QED
          BY <1>1, <3>3, <3>7, <5>1 DEF Room, FreeIds
      <4> QED
        BY <1>1, <2>2, <3>3, <3>7, <4>1 DEF ListsBut, Listing
    <3>10. LET f == Emit(done, PutCandidate(src, None))
           IN /\ Tame(f, src) /\ Listing(f)
              /\ f.idx = done.idx /\ f.img.index = done.idx /\ f.img.active = done.img.active
              /\ f.img.legacy = done.img.legacy
              /\ \A i \in Id : f.img.cand[i] = IF i = src THEN None ELSE done.img.cand[i]
      BY <2>4, <2>9, <3>7, <3>8, <3>9, StrikeTame
    <3>11. e = Emit(done, PutCandidate(src, None))
      BY <2>5, <2>9
    <3>12. /\ Tame(e, a) /\ Listing(e) /\ e.idx = x /\ e.img.index = x /\ e.img.active = None
           /\ e.img.legacy = disk.legacy
           /\ \A i \in Id : e.img.cand[i] # None => disk.cand[i] # None
      BY <2>4, <2>9, <3>7, <3>10, <3>11
    <3>13. Path(e, a) /\ (\A z : Served(e.img, s, z)) /\ (Clear(disk, {s}) => Clear(e.img, {}))
      BY <2>7, <3>3, <3>12
    <3> QED
      BY <3>13 DEF e, a
  <2> QED
    BY <2>8, <2>9
<1> QED
  BY <1>4, <1>5, <1>6 DEF Own, Named

LEMMA DropServed ==
  ASSUME NEW s \in Session, NEW o, Calm(s, o), disk.index \notin {None, Corrupt},
         NEW c \in Id, disk.index.carried[c] # Absent
  PROVE  LET e == DropCandidatePlan(c)
         IN Path(e, c) /\ Served(e.img, s, o)
<1> DEFINE r == Draft(CurrentIndex)
           x == [CurrentIndex EXCEPT !.carried[c] = Absent]
           f == Draft(x)
           g == CommitIndex(f)
           e == DropCandidatePlan(c)
<1>1. /\ Tame(r, c) /\ Listing(r) /\ r.idx = CurrentIndex /\ r.img = disk
      /\ Room(r) <=> Vacant(disk)
      /\ CurrentIndex \in Index /\ Numbered(CurrentIndex) /\ CurrentIndex = disk.index
  BY CalmListing DEF CurrentIndex
<1>2. /\ x \in Index /\ x.active = disk.index.active /\ x.next = disk.index.next
      /\ \A i \in Id : x.carried[i] = IF i = c THEN Absent ELSE disk.index.carried[i]
  BY <1>1 DEF Index
<1>3. Numbered(x) /\ c < x.next
  BY <1>1, <1>2 DEF Numbered
<1>4. e = Emit(g, PutCandidate(c, None))
  BY DEF DropCandidatePlan
<1> HIDE DEF x, e
<1>5. f.idx = x /\ f.img = disk
  BY DEF Draft
<1> HIDE DEF r
<1>6. Tame(f, c) /\ f.idx = x /\ f.img = disk
  <2>1. Dense(r)
    BY <1>1, TameParts
  <2>2. Dense(f)
    BY <1>1, <1>2, <1>5, <2>1 DEF Dense
  <2> QED
    BY <1>2, <1>3, <1>5, <2>2, DraftTame DEF Calm
<1> HIDE DEF f
<1>7. CASE ~ValidIndex(x)
  <2>1. g = Failed(f)
    BY <1>6, <1>7 DEF CommitIndex
  <2>2. f.plan = << >>
    BY DEF f, Draft
  <2>3. f \in Drafts
    BY <1>6, TameParts
  <2>4. ~g.ok /\ g.plan = << >> /\ g.img = disk
    BY <1>6, <2>1, <2>2, <2>3, FailedParts
  <2>5. e = g
    BY <1>4, <2>4 DEF Emit
  <2>6. Path(e, c) /\ Served(e.img, s, o)
    BY <2>4, <2>5, StillPath DEF Calm
  <2> QED
    BY <2>6 DEF e
<1>8. CASE ValidIndex(x)
  <2>1. /\ Tame(g, c) /\ g.idx = x /\ g.img.index = x
        /\ g.img.cand = disk.cand
    BY <1>6, <1>8, CommitTame
  <2> HIDE DEF g
  <2>2. Room(g) => Room(r)
    <3>1. \A i \in Id : i >= x.next => i # c
      BY <1>1, <1>2, <1>3, NumberFacts
    <3> QED
      BY <1>1, <1>2, <2>1, <3>1 DEF Room, FreeIds
  <2>3. ListsBut(g, c)
    BY <1>1, <1>2, <2>1, <2>2 DEF ListsBut, Listing
  <2>4. /\ Tame(e, c) /\ Listing(e) /\ (Room(e) => Room(g)) /\ e.idx = x /\ e.img.index = x
    BY <1>3, <1>4, <2>1, <2>3, StrikeTame
  <2>5. x \notin {None, Corrupt}
    BY <1>2, ValuesAssumption
  <2>6. IndexOf(e.img) = x /\ (Vacant(e.img) <=> Room(e))
    <3>1. IndexOf(e.img) = x
      BY <2>4, <2>5 DEF IndexOf
    <3> QED
      BY <2>4, <3>1 DEF Vacant, Room, FreeIds
  <2>7. (Named(e.img) <=> Named(disk)) /\ (Own(e.img, s) <=> Own(disk, s))
    BY <1>2, <2>4, <2>5 DEF Named, Own
  <2>8. Vacant(e.img) => Vacant(disk)
    BY <1>1, <2>2, <2>4, <2>6
  <2>9. Served(e.img, s, o)
    <3>1. Vacant(e.img) => \A i \in Id : e.img.cand[i] # None => x.carried[i] # Absent
      BY <2>4, <2>6 DEF Listing
    <3>2. Vacant(e.img) => (Named(e.img) => Own(e.img, s))
      BY <2>7, <2>8 DEF Calm, Served
    <3>3. Own(e.img, s) /\ e.img.index.active.source # None => o = e.img.index.active.source
      BY <1>2, <2>4, <2>7 DEF Calm, Served
    <3> QED
      BY <2>6, <3>1, <3>2, <3>3 DEF Served
  <2>10. Path(e, c)
    BY <2>4, TamePath
  <2> QED
    BY <2>9, <2>10 DEF e
<1> QED
  BY <1>7, <1>8

-----------------------------------------------------------------------------
(* The start.  What a start finds on disk it lists, and the next id comes  *)
(* right after what it finds.                                              *)
LEMMA ReconcileTame ==
  ASSUME disk \in Disk, Packed(disk), disk.cand[MaxId] = None, NEW N, Tied(disk, N),
         NEW x \in Index, Numbered(x), Named(disk) => x = disk.index,
         ~Named(disk) => x.active = None, disk.index # Corrupt => x = IndexOf(disk), NEW a
  PROVE  LET f == Draft(Reconcile(x, disk))
         IN /\ Tame(f, a) /\ Listing(f) /\ f.img = disk /\ f.plan = << >> /\ f.ok
            /\ f.idx \in Index /\ (disk.active = None <=> f.idx.active = None)
<1> DEFINE held == {i \in Id : disk.cand[i] # None}
           S    == {n \in x.next .. (x.next + MaxId + 1) : \A i \in held : i < n}
           y    == Reconcile(x, disk)
           f    == Draft(y)
<1>1. MaxId \in Nat \ {0} /\ x.next \in 1 .. MaxId
  BY BoundsAssumption DEF Numbered
<1>2. MaxId \in S
  <2>1. \A i \in held : i < MaxId
    BY <1>1 DEF Id
  <2>2. MaxId \in x.next .. (x.next + MaxId + 1)
    BY <1>1
  <2> QED
    BY <2>1, <2>2
<1>3. LeastOf(S) \in S /\ \A n \in S : LeastOf(S) <= n
  <2>1. S \in SUBSET Nat
    BY <1>1
  <2> HIDE DEF S
  <2> QED
    BY <1>2, <2>1, LeastNat
<1>4. y.next = LeastOf(S) /\ \A i \in Id : y.carried[i] =
        IF x.carried[i] = Absent /\ disk.cand[i] # None THEN disk.cand[i].session
        ELSE x.carried[i]
  BY DEF Reconcile
<1>5. y \in Index /\ Numbered(y) /\ (disk.active = None <=> y.active = None)
  BY ReconcileParts
<1>6. f.idx = y /\ f.img = disk
  BY DEF Draft
<1> HIDE DEF y, f
<1>7. /\ y.next \in x.next .. (x.next + MaxId + 1)
      /\ \A i \in Id : disk.cand[i] # None => i < y.next
      /\ \A n \in x.next .. (x.next + MaxId + 1) :
           n < y.next => \E i \in Id : disk.cand[i] # None /\ ~(i < n)
  <2>1. LeastOf(S) \in x.next .. (x.next + MaxId + 1)
    BY <1>3
  <2>2. \A i \in Id : disk.cand[i] # None => i < LeastOf(S)
    BY <1>3
  <2>3. ASSUME NEW n \in x.next .. (x.next + MaxId + 1), n < LeastOf(S)
        PROVE  \E i \in Id : disk.cand[i] # None /\ ~(i < n)
    <3>1. n \notin S
      BY <1>1, <1>3, <2>1, <2>3
    <3> QED
      BY <2>3, <3>1
  <2> QED
    BY <1>4, <2>1, <2>2, <2>3
<1>8. Dense(f)
  <2>1. ASSUME NEW i \in Id, NEW j \in Id, disk.cand[i] # None, y.next <= j, j <= i
        PROVE  FALSE
    BY <1>1, <1>7, <2>1, NumberFacts
  <2>2. ASSUME disk.index # Corrupt, NEW j \in Id, x.next <= j, j < y.next
        PROVE  disk.cand[j] # None
    <3>1. j \in x.next .. (x.next + MaxId + 1)
      BY <1>1, <2>2, NumberFacts
    <3>2. PICK i \in Id : disk.cand[i] # None /\ ~(i < j)
      BY <1>7, <2>2, <3>1
    <3>3. j <= i
      BY <3>2, NumberFacts
    <3> QED
      BY <2>2, <3>2, <3>3 DEF Packed
  <2>3. x.next <= y.next
    BY <1>1, <1>7
  <2> QED
    BY <1>6, <2>1, <2>2, <2>3 DEF Dense
<1>9. Listing(f)
  <2>1. ASSUME NEW i \in Id, disk.cand[i] # None PROVE y.carried[i] # Absent
    <3>1. disk.cand[i].session \in Session \union {None}
      BY <2>1 DEF Disk, Payload
    <3> QED
      BY <1>4, <2>1, <3>1, ValuesAssumption
  <2> QED
    BY <1>6, <2>1 DEF Listing
<1>10. Tame(f, a) /\ f.plan = << >> /\ f.ok
  BY <1>5, <1>8, DraftTame DEF f
<1> QED
  BY <1>5, <1>6, <1>9, <1>10 DEF f, y

(* The old autosave becomes a candidate, unless there is no id for it.     *)
LEMMA ImportTame ==
  ASSUME NEW r, NEW a, Tame(r, a), Listing(r), r.plan = << >>, r.img = disk
  PROVE  LET e == ImportLegacy(r)
         IN \/ ~e.ok /\ e.plan = << >> /\ e.img = disk /\ ~Room(r) /\ disk.legacy # None
            \/ /\ Tame(e, a) /\ Listing(e) /\ e.idx.active = r.idx.active
               /\ e.img.index = disk.index /\ e.img.active = disk.active
               /\ e = r \/ e.idx.next # 1
               /\ disk.legacy = None => e = r
<1> DEFINE p == [doc |-> disk.legacy, session |-> None, source |-> None,
                 stamp |-> CHOOSE t \in Stamp : TRUE]
           e == ImportLegacy(r)
<1>1. CASE disk.legacy = None
  <2>1. e = r
    BY <1>1 DEF ImportLegacy
  <2> QED
    BY <2>1
<1>2. CASE disk.legacy # None
  <2>1. r \in Drafts /\ r.img \in Disk
    BY TameParts
  <2>2. p \in Payload
    <3>1. (CHOOSE t \in Stamp : TRUE) \in Stamp
      BY ValuesAssumption
    <3> QED
      BY <1>2, <2>1, <3>1 DEF Disk, Payload, Work
  <2>3. e = AddCandidate(r, p, None)
    BY <1>2 DEF ImportLegacy
  <2> HIDE DEF p, e
  <2>4. LET t == AddCandidate(r, p, None)
        IN \/ t = Failed(r) /\ ~Room(r)
           \/ /\ Tame(t, a) /\ (Listing(r) => Listing(t))
              /\ t.idx.active = r.idx.active /\ t.idx.next # 1
              /\ t.img.index = r.img.index /\ t.img.active = r.img.active
    BY <2>2, AddTame
  <2>5. CASE e = Failed(r) /\ ~Room(r)
    <3>1. ~e.ok /\ e.plan = << >> /\ e.img = disk
      BY <2>1, <2>5, FailedParts
    <3> QED
      BY <1>2, <2>5, <3>1 DEF e
  <2> QED
    BY <1>2, <2>3, <2>4, <2>5 DEF e
<1> QED
  BY <1>1, <1>2

LEMMA StartServed ==
  ASSUME disk \in Disk, IndexSound, Packed(disk), disk.cand[MaxId] = None,
         NEW N, Tied(disk, N), NEW s \in N, NEW o, \A t \in Session : ~Live(t), NEW a
  PROVE  LET e == StartPlan
         IN /\ Path(e, a) /\ Served(e.img, s, o)
            /\ Clear(disk, {}) => Clear(e.img, {s})
<1> DEFINE valid == disk.index \notin {None, Corrupt}
           base  == IF valid THEN disk.index ELSE DefaultIndex
           y     == Reconcile(base, disk)
           found == Draft(y)
           r     == IF valid THEN found ELSE ImportLegacy(found)
           e     == StartPlan
<1>1. /\ base \in Index /\ Numbered(base)
      /\ Named(disk) => base = disk.index
      /\ ~Named(disk) => base.active = None
      /\ disk.index # Corrupt => base = IndexOf(disk)
  <2>1. CASE valid
    BY <2>1, ValidIsNumbered DEF Disk, IndexSound, Named, IndexOf
  <2>2. CASE ~valid
    BY <2>2, DefaultType, ValidIsNumbered DEF Named, DefaultIndex, IndexOf
  <2> QED
    BY <2>1, <2>2
<1>2. e = IF ~r.ok \/ (disk.index = None /\ r.idx = DefaultIndex) THEN r
          ELSE IF r.idx.active = None THEN CommitIndex(r)
          ELSE IF r.idx.active.session # None /\ Live(r.idx.active.session) THEN r
          ELSE IF AlreadyCarried(r) THEN Emit(CommitIndex(Unlink(r)), PutActive(None))
          ELSE SetAside(r)
  BY DEF StartPlan
<1> HIDE DEF base, e
<1>3. LET f == Draft(Reconcile(base, disk))
      IN /\ Tame(f, a) /\ Listing(f) /\ f.img = disk /\ f.plan = << >> /\ f.ok
         /\ f.idx \in Index /\ (disk.active = None <=> f.idx.active = None)
  BY <1>1, ReconcileTame
<1>4. /\ Tame(found, a) /\ Listing(found) /\ found.img = disk /\ found.plan = << >> /\ found.ok
      /\ found.idx \in Index /\ (disk.active = None <=> found.idx.active = None)
  BY <1>3
<1> HIDE DEF found
<1>5. \/ /\ ~r.ok /\ r.plan = << >> /\ r.img = disk /\ ~Room(found) /\ disk.legacy # None
         /\ ~Named(disk)
      \/ /\ Tame(r, a) /\ Listing(r) /\ r.idx.active = found.idx.active
         /\ r.img.index = disk.index /\ r.img.active = disk.active
         /\ r = found \/ r.idx.next # 1
         /\ disk.legacy = None => r = found
  <2>1. CASE valid
    BY <1>4, <2>1
  <2>2. CASE ~valid
    <3> DEFINE t == ImportLegacy(found)
    <3>1. r = t
      BY <2>2
    <3> HIDE DEF r
    <3>2. ~Named(disk)
      BY <2>2 DEF Named
    <3>3. \/ ~t.ok /\ t.plan = << >> /\ t.img = disk /\ ~Room(found) /\ disk.legacy # None
          \/ /\ Tame(t, a) /\ Listing(t) /\ t.idx.active = found.idx.active
             /\ t.img.index = disk.index /\ t.img.active = disk.active
             /\ t = found \/ t.idx.next # 1
             /\ disk.legacy = None => t = found
      BY <1>4, ImportTame
    <3> HIDE DEF t
    <3> QED
      BY <3>1, <3>2, <3>3
  <2> QED
    BY <2>1, <2>2
<1> HIDE DEF r
<1>6. CASE /\ ~r.ok /\ r.plan = << >> /\ r.img = disk /\ ~Room(found) /\ disk.legacy # None
           /\ ~Named(disk)
  <2>1. e = r
    BY <1>2, <1>6
  <2>2. disk.index # Corrupt => ~Vacant(disk)
    BY <1>4, <1>6, VacantRoom
  <2>3. Served(disk, s, o)
    BY <1>6, <2>2 DEF Served, Own
  <2>4. Path(e, a)
    BY <1>6, <2>1, StillPath
  <2>5. ~Clear(disk, {})
    BY <1>6 DEF Clear
  <2> QED
    BY <1>6, <2>1, <2>3, <2>4, <2>5 DEF e
<1>7. CASE /\ Tame(r, a) /\ Listing(r) /\ r.idx.active = found.idx.active
           /\ r.img.index = disk.index /\ r.img.active = disk.active
           /\ r = found \/ r.idx.next # 1
           /\ disk.legacy = None => r = found
  <2>1. r.ok /\ r.idx \in Index /\ r.img \in Disk /\ Numbered(r.idx)
    BY <1>7, TameParts
  <2>2. CASE disk.index = None /\ r.idx = DefaultIndex
    <3>1. r = found
      BY <1>7, <2>2 DEF DefaultIndex
    <3>2. e = r /\ e.img = disk
      BY <1>2, <1>4, <2>2, <3>1
    <3>3. IndexOf(disk) = r.idx
      BY <2>2 DEF IndexOf
    <3>4. Vacant(disk) <=> Room(r)
      BY <3>2, <3>3 DEF Vacant, Room, FreeIds
    <3>5. ~Named(disk)
      BY <2>2 DEF Named
    <3>6. Served(disk, s, o)
      BY <1>7, <3>2, <3>3, <3>4, <3>5 DEF Served, Own, Listing
    <3>7. Path(e, a)
      BY <1>7, <3>2, TamePath
    <3>8. Clear(disk, {}) => Clear(disk, {s})
      BY DEF Clear
    <3> QED
      BY <3>2, <3>6, <3>7, <3>8 DEF e
  <2>3. CASE ~(disk.index = None /\ r.idx = DefaultIndex)
    <3>1. r.idx.active # None /\ r.idx.active.session # None => ~Live(r.idx.active.session)
      BY <2>1 DEF Index, Active
    <3>2. ASSUME NEW t, Tame(t, a), Listing(t), t.img.index = t.idx, t.idx.active = None
          PROVE  Path(t, a) /\ Served(t.img, s, o)
      BY <3>2, EmptyServes, TamePath
    <3>3. CASE r.idx.active = None
      <4> DEFINE t == CommitIndex(r)
      <4>1. e = t
        BY <1>2, <2>1, <2>3, <3>3
      <4>2. ValidIndex(r.idx)
        BY <2>1, <3>3, ValidIsNumbered
      <4>3. /\ Tame(t, a) /\ Listing(t) /\ t.idx = r.idx /\ t.img.index = r.idx
            /\ t.img.active = r.img.active /\ t.img.cand = r.img.cand
            /\ t.img.legacy = r.img.legacy
        BY <1>7, <4>2, CommitTame
      <4> HIDE DEF t
      <4>4. Clear(disk, {}) => Clear(t.img, {s})
        BY <1>4, <1>7, <3>3, <4>3 DEF Clear, Named
      <4> QED
        BY <3>2, <3>3, <4>1, <4>3, <4>4 DEF e
    <3>4. CASE r.idx.active # None
      <4>1. ~Clear(disk, {})
        BY <1>4, <1>7, <3>4 DEF Clear
      <4>2. CASE AlreadyCarried(r)
        <5> DEFINE u == Unlink(r)
                   t == Emit(CommitIndex(u), PutActive(None))
        <5>1. e = t
          BY <1>2, <2>1, <2>3, <3>1, <3>4, <4>2
        <5>2. Tame(u, a) /\ Listing(u) /\ u.idx.active = None
          BY <1>7, UnlinkTame
        <5> HIDE DEF u
        <5>3. Tame(t, a) /\ Listing(t) /\ t.idx = u.idx /\ t.img.index = u.idx
          BY <5>2, EmptyTame
        <5> HIDE DEF t
        <5> QED
          BY <3>2, <4>1, <5>1, <5>2, <5>3 DEF e
      <4>3. CASE ~AlreadyCarried(r)
        <5> DEFINE t == SetAside(r)
        <5>1. e = t
          BY <1>2, <2>1, <2>3, <3>1, <3>4, <4>3
        <5>2. r.img.active # None
          BY <1>4, <1>7, <3>4
        <5>3. \/ ~t.ok /\ t.plan = r.plan /\ t.img = r.img /\ ~Room(r)
              \/ Tame(t, a) /\ Listing(t) /\ t.idx.active = None /\ t.img.index = t.idx
          BY <1>7, <5>2, SetAsideTame
        <5> HIDE DEF t
        <5>4. CASE ~t.ok /\ t.plan = r.plan /\ t.img = r.img /\ ~Room(r)
          <6>1. r.img.index # Corrupt => ~Vacant(r.img)
            BY <1>7, <5>4, VacantRoom
          <6>2. ~Own(r.img, s)
            BY <1>7 DEF Own, Named, Tied
          <6>3. Served(r.img, s, o)
            BY <6>1, <6>2 DEF Served
          <6>4. Path(t, a)
            BY <1>7, <5>4, TamePath DEF Path
          <6> QED
            BY <4>1, <5>1, <5>4, <6>3, <6>4 DEF e
        <5> QED
          BY <3>2, <4>1, <5>1, <5>3, <5>4 DEF e
      <4> QED
        BY <4>2, <4>3
    <3> QED
      BY <3>3, <3>4
  <2> QED
    BY <2>2, <2>3
<1> QED
  BY <1>5, <1>6, <1>7

-----------------------------------------------------------------------------
(* The state between two steps, while no write has failed and there is one *)
(* process at a time.                                                      *)

(* What the user has restored once operation t returns, o before it; the   *)
(* candidate it may remove; nothing befell the history so far and all of   *)
(* its work was saved.                                                     *)
After(t, o) ==
  IF t.ok /\ t.op \in {"replace", "save"} THEN None
  ELSE IF t.ok /\ t.op = "restore" THEN t.id ELSE o

Removable(t) == IF t.op \in {"discard", "save"} THEN t.id ELSE None

NoUpset == spent = NothingSpent /\ shelf = {}

(* Operation t ends on disk e.  A work that was set aside makes the shelf. *)
Leaves(e, t, o, quiet) ==
  /\ Served(e, t.who, After(t, o))
  /\ quiet => \/ t.ok /\ t.op = "replace"
              \/ Clear(e, IF t.op = "exit" THEN {} ELSE {t.who})

Forgotten == \A s \in Session : ~Live(s) => opened[s] = None

Rested ==
  tx = None => /\ \A s \in Session : Live(s) => Served(disk, s, opened[s])
               /\ NoUpset => Clear(disk, {s \in Session : Live(s)})

Passing ==
  tx # None => /\ \E e \in Packs : /\ Through(disk, tx.plan, e, Packs, Spared(Removable(tx)))
                                   /\ Leaves(e, tx, opened[tx.who], NoUpset)
               /\ tx.op = "restore" => spent # NothingSpent

Laid == Packed(disk) /\ Forgotten /\ Rested /\ Passing

LEMMA LeavesParts ==
  ASSUME NEW e, NEW t, NEW u, NEW o, NEW quiet, Leaves(e, t, o, quiet),
         u.ok = t.ok, u.op = t.op, u.who = t.who, u.id = t.id
  PROVE  Leaves(e, u, o, quiet) /\ Removable(u) = Removable(t)
BY DEF Leaves, After, Removable

LEMMA IdleCalm ==
  ASSUME IInv, Secure, Laid, NEW s \in Session, Idle(s)
  PROVE  /\ Calm(s, opened[s]) /\ tx = None /\ Live(s)
         /\ mem[s].doc \in Doc /\ mem[s].dirty \in BOOLEAN
         /\ NoUpset => Clear(disk, {s})
<1>1. /\ Live(s) /\ tx = None /\ Settled(disk, s, mine[s], shelf)
      /\ disk \in Disk /\ IndexSound /\ mem[s].doc \in Doc /\ mem[s].dirty \in BOOLEAN
  BY IdleParts
<1>2. Packed(disk) /\ Served(disk, s, opened[s])
  BY <1>1 DEF Laid, Rested
<1>3. Calm(s, opened[s])
  BY <1>1, <1>2 DEF Calm, Settled
<1>4. {t \in Session : Live(t)} = {s}
  BY <1>1 DEF Secure, AtMostOne
<1> QED
  BY <1>1, <1>3, <1>4 DEF Laid, Rested

(* A process ends an operation on another disk.                            *)
LEMMA MoreClear ==
  ASSUME NEW d, Clear(d, {}), NEW up
  PROVE  Clear(d, up)
BY DEF Clear

(* An operation takes the lock.                                            *)
LEMMA BeginLaid ==
  ASSUME IInv, Laid, NEW s \in Session, NEW op \in Operations,
         NEW c \in Id \union {None}, NEW r, Ready(r), Begin(s, op, c, r),
         op = "restore" => c \in Id /\ disk.cand[c] # None /\ disk.cand[c].doc # Unreadable,
         disk' = disk, opened' = opened, \A t \in Session : Live(t) => Live(t)',
         Path(r, IF op \in {"discard", "save"} THEN c ELSE None),
         Served(r.img, s, IF r.ok /\ op \in {"replace", "save"} THEN None
                          ELSE IF r.ok /\ op = "restore" THEN c ELSE opened[s]),
         NoUpset' => \/ r.ok /\ op = "replace"
                     \/ Clear(r.img, IF op = "exit" THEN {} ELSE {s}),
         op = "restore" => spent' # NothingSpent
  PROVE  Laid'
<1>1. tx' \in Transaction /\ tx' # None
  BY Parts, BeginOK, TransactionAssumption
<1>2. tx'.who = s /\ tx'.op = op /\ tx'.plan = r.plan /\ tx'.ok = r.ok /\ tx'.id = c
  BY DEF Begin
<1>3. Removable(tx') = IF op \in {"discard", "save"} THEN c ELSE None
  BY <1>2 DEF Removable
<1>4. Through(disk, r.plan, r.img, Packs, Spared(Removable(tx')))
  BY <1>3 DEF Path
<1>5. r.img \in Packs
  BY <1>4, ThroughEnds DEF Ready
<1>6. Leaves(r.img, tx', opened[s], NoUpset')
  <2>1. After(tx', opened[s]) = IF r.ok /\ op \in {"replace", "save"} THEN None
                                ELSE IF r.ok /\ op = "restore" THEN c ELSE opened[s]
    BY <1>2 DEF After
  <2> QED
    BY <1>2, <2>1 DEF Leaves
<1>7. Passing'
  <2> DEFINE q == NoUpset'
             z == spent' # NothingSpent
  <2>1. /\ \E e \in Packs : /\ Through(disk, r.plan, e, Packs, Spared(Removable(tx')))
                            /\ Leaves(e, tx', opened[s], q)
        /\ op = "restore" => z
    BY <1>4, <1>5, <1>6
  <2> QED
    BY <1>2, <2>1 DEF Passing
<1>8. Rested'
  BY <1>1 DEF Rested
<1>9. Forgotten'
  BY DEF Laid, Forgotten
<1>10. Packed(disk)'
  BY DEF Laid
<1> QED
  BY <1>7, <1>8, <1>9, <1>10 DEF Laid

LEMMA AutosaveLaid ==
  ASSUME IInv, Secure, Laid, NEW s \in Session, Autosave(s)
  PROVE  Laid'
<1>1. PICK r \in Snapshots(s) : Begin(s, "autosave", None, r)
  BY DEF Autosave
<1>2. PICK stamp \in Stamp : r = TakeSnapshot(Draft(CurrentIndex), s, mem[s].doc, stamp)
  BY Parts, StampType DEF Snapshots, SnapshotPlan
<1>3. /\ Idle(s) /\ Usable /\ disk' = disk /\ life' = life /\ opened' = opened
      /\ shelf' = shelf /\ spent' = spent
  BY DEF Autosave
<1>4. Ready(r)
  BY <1>3, SnapshotsSound, SoundIsReady
<1>5. /\ Calm(s, opened[s]) /\ mem[s].doc \in Doc /\ disk.index # Corrupt
      /\ NoUpset => Clear(disk, {s})
  BY <1>3, IdleCalm DEF Usable
<1>6. LET e == TakeSnapshot(Draft(CurrentIndex), s, mem[s].doc, stamp)
      IN /\ Path(e, None) /\ Served(e.img, s, opened[s])
         /\ Clear(disk, {s}) => Clear(e.img, {s})
  BY <1>5, AutosaveServed
<1>7. Path(r, None) /\ Served(r.img, s, opened[s]) /\ (NoUpset' => Clear(r.img, {s}))
  BY <1>2, <1>3, <1>5, <1>6 DEF NoUpset
<1>8. \A t \in Session : Live(t) => Live(t)'
  BY <1>3 DEF Live
<1> QED
  BY <1>1, <1>3, <1>4, <1>7, <1>8, BeginLaid DEF Operations

LEMMA ReplaceLaid ==
  ASSUME IInv, Secure, Laid, NEW s \in Session, Replace(s)
  PROVE  Laid'
<1>1. PICK t \in Snapshots(s) : Begin(s, "replace", None, SetAside(t))
  BY DEF Replace
<1>2. PICK stamp \in Stamp : t = TakeSnapshot(Draft(CurrentIndex), s, mem[s].doc, stamp)
  BY Parts, StampType DEF Snapshots, SnapshotPlan
<1> DEFINE r == SetAside(t)
<1>3. /\ Idle(s) /\ Usable /\ disk' = disk /\ life' = life /\ opened' = opened
      /\ shelf' = shelf /\ spent' = spent
  BY DEF Replace
<1>4. Ready(r)
  BY <1>3, SnapshotsSound, SetAsideSound, SoundIsReady
<1>5. /\ Calm(s, opened[s]) /\ mem[s].doc \in Doc /\ disk.index # Corrupt
      /\ NoUpset => Clear(disk, {s})
  BY <1>3, IdleCalm DEF Usable
<1>6. LET e == SetAside(TakeSnapshot(Draft(CurrentIndex), s, mem[s].doc, stamp))
      IN /\ Path(e, None)
         /\ e.ok => \A x : Served(e.img, s, x)
         /\ ~e.ok => Served(e.img, s, opened[s]) /\ (Clear(disk, {s}) => Clear(e.img, {s}))
  BY <1>5, ReplaceServed
<1>7. Begin(s, "replace", None, r)
  BY <1>1
<1>8. /\ Path(r, None) /\ Served(r.img, s, IF r.ok THEN None ELSE opened[s])
      /\ NoUpset' => r.ok \/ Clear(r.img, {s})
  BY <1>2, <1>3, <1>5, <1>6 DEF NoUpset
<1>9. \A u \in Session : Live(u) => Live(u)'
  BY <1>3 DEF Live
<1> HIDE DEF r
<1> QED
  BY <1>3, <1>4, <1>7, <1>8, <1>9, BeginLaid DEF Operations

LEMMA RestoreLaid ==
  ASSUME IInv, Secure, Laid, NEW s \in Session, NEW c \in Id, Restore(s, c)
  PROVE  Laid'
<1>1. PICK stamp \in Stamp : Begin(s, "restore", c, RestorePlan(s, c, stamp))
  BY DEF Restore
<1> DEFINE r == RestorePlan(s, c, stamp)
<1>2. /\ Idle(s) /\ disk.index \notin {None, Corrupt} /\ disk' = disk /\ life' = life
      /\ opened' = opened /\ CountLate(s, [spent EXCEPT !.restore = @ + 1])
      /\ disk.index.carried[c] # Absent /\ disk.cand[c] # None
      /\ disk.cand[c].doc # Unreadable
  BY DEF Restore, Shown, Listed
<1>3. Ready(r)
  BY <1>2, Parts, RestoreReady DEF StoreOK, Usable
<1>4. Calm(s, opened[s]) /\ mem[s].doc \in Doc /\ mem[s].dirty \in BOOLEAN
  BY <1>2, IdleCalm
<1>5. /\ Path(r, None)
      /\ r.ok => Served(r.img, s, c)
      /\ ~r.ok => Served(r.img, s, opened[s])
  BY <1>2, <1>4, RestoreServed
<1>6. Begin(s, "restore", c, r)
  BY <1>1
<1> HIDE DEF r
<1>7. spent' # NothingSpent
  <2> DEFINE u == [spent EXCEPT !.restore = @ + 1]
  <2>1. u \in Spending /\ u.restore = spent.restore + 1 /\ spent.restore \in Nat
    BY Parts DEF SpentOK, Spending
  <2>2. CountLate(s, u)
    BY <1>2
  <2> HIDE DEF u
  <2>3. spent'.restore = spent.restore + 1
    BY <2>1, <2>2, LateParts
  <2> QED
    BY <2>1, <2>3 DEF NothingSpent
<1>8. \A t \in Session : Live(t) => Live(t)'
  BY <1>2 DEF Live
<1>9. Served(r.img, s, IF r.ok THEN c ELSE opened[s])
  BY <1>5
<1> QED
  BY <1>2, <1>3, <1>5, <1>6, <1>7, <1>8, <1>9, BeginLaid DEF Operations, NoUpset

LEMMA DiscardCandidateLaid ==
  ASSUME IInv, Secure, Laid, NEW s \in Session, NEW c \in Id, DiscardCandidate(s, c)
  PROVE  Laid'
<1> DEFINE r == DropCandidatePlan(c)
<1>1. /\ Idle(s) /\ disk.index \notin {None, Corrupt} /\ disk' = disk /\ life' = life
      /\ opened' = opened /\ spent' = [spent EXCEPT !.discard = @ + 1]
      /\ Begin(s, "discard", c, r)
      /\ disk.index.carried[c] # Absent /\ disk.cand[c] # None
  BY DEF DiscardCandidate, Listed
<1>2. Ready(r)
  BY <1>1, Parts, DropReady
<1>3. Calm(s, opened[s])
  BY <1>1, IdleCalm
<1>4. Path(r, c) /\ Served(r.img, s, opened[s])
  BY <1>1, <1>3, DropServed
<1> HIDE DEF r
<1>5. spent' # NothingSpent
  <2>1. spent'.discard = spent.discard + 1 /\ spent.discard \in Nat
    BY <1>1, Parts DEF SpentOK, Spending
  <2> QED
    BY <2>1 DEF NothingSpent
<1>6. \A t \in Session : Live(t) => Live(t)'
  BY <1>1 DEF Live
<1> QED
  BY <1>1, <1>2, <1>4, <1>5, <1>6, BeginLaid DEF Operations, NoUpset

LEMMA SaveLaid ==
  ASSUME IInv, Secure, Laid, NEW s \in Session, Save(s)
  PROVE  Laid'
<1> DEFINE r == DiscardPlan(s, TRUE)
<1>1. /\ Idle(s) /\ disk' = disk /\ life' = life /\ opened' = opened
      /\ shelf' = shelf /\ spent' = spent /\ Begin(s, "save", opened[s], r)
  BY DEF Save
<1>2. Ready(r) /\ opened[s] \in Id \union {None}
  BY Parts, DiscardReady DEF StoreOK
<1>3. Calm(s, opened[s]) /\ (NoUpset => Clear(disk, {s}))
  BY <1>1, IdleCalm
<1>4. /\ Path(r, opened[s]) /\ \A x : Served(r.img, s, x)
      /\ Clear(disk, {s}) => Clear(r.img, {})
  <2>1. LET e == DiscardPlan(s, TRUE)
        IN /\ Path(e, IF TRUE THEN opened[s] ELSE None)
           /\ \A x : Served(e.img, s, x)
           /\ Clear(disk, {s}) => Clear(e.img, {})
    BY <1>3, DiscardServed
  <2> QED
    BY <2>1
<1> HIDE DEF r
<1>5. NoUpset' => Clear(r.img, {s})
  BY <1>1, <1>3, <1>4, MoreClear DEF NoUpset
<1>6. \A t \in Session : Live(t) => Live(t)'
  BY <1>1 DEF Live
<1> QED
  BY <1>1, <1>2, <1>4, <1>5, <1>6, BeginLaid DEF Operations

LEMMA ExitLaid ==
  ASSUME IInv, Secure, Laid, NEW s \in Session, Exit(s)
  PROVE  Laid'
<1> DEFINE r == DiscardPlan(s, FALSE)
<1>1. /\ Idle(s) /\ disk' = disk /\ life' = life /\ opened' = opened
      /\ shelf' = shelf /\ spent' = spent /\ Begin(s, "exit", None, r)
  BY DEF Exit
<1>2. Ready(r)
  BY Parts, DiscardReady
<1>3. Calm(s, opened[s]) /\ (NoUpset => Clear(disk, {s}))
  BY <1>1, IdleCalm
<1>4. /\ Path(r, None) /\ \A x : Served(r.img, s, x)
      /\ Clear(disk, {s}) => Clear(r.img, {})
  <2>1. LET e == DiscardPlan(s, FALSE)
        IN /\ Path(e, IF FALSE THEN opened[s] ELSE None)
           /\ \A x : Served(e.img, s, x)
           /\ Clear(disk, {s}) => Clear(e.img, {})
    BY <1>3, DiscardServed
  <2> QED
    BY <2>1
<1> HIDE DEF r
<1>5. NoUpset' => Clear(r.img, {})
  BY <1>1, <1>3, <1>4 DEF NoUpset
<1>6. \A t \in Session : Live(t) => Live(t)'
  BY <1>1 DEF Live
<1> QED
  BY <1>1, <1>2, <1>4, <1>5, <1>6, BeginLaid DEF Operations

LEMMA StartLaid ==
  ASSUME IInv, Secure, Laid, MaxLive <= 1, NEW s \in Session, Start(s)
  PROVE  Laid'
<1> DEFINE r == StartPlan
<1>1. /\ disk' = disk /\ Begin(s, "start", None, r) /\ Ready(r) /\ opened' = opened
      /\ shelf' = shelf /\ spent' = spent /\ life' = [life EXCEPT ![s] = "up"] /\ life[s] = "new"
  BY Parts, StartReady DEF Start
<1>2. \A t \in Session : ~Live(t)
  <2> DEFINE L == {t \in Session : Live(t)}
  <2>1. Cardinality(L) < MaxLive
    BY DEF Start
  <2>2. ASSUME NEW u \in Session, Live(u) PROVE FALSE
    <3>1. L = {u}
      BY <2>2 DEF Secure, AtMostOne
    <3>2. Cardinality(L) = 1
      BY <3>1, FS_Singleton
    <3> QED
      BY <2>1, <3>2, BoundsAssumption
  <2> QED
    BY <2>2
<1>3. /\ tx = None /\ disk \in Disk /\ IndexSound /\ Packed(disk)
      /\ disk.cand[MaxId] = None /\ Tied(disk, Unborn) /\ s \in Unborn
  BY <1>1, <1>2, Parts DEF Begin, Secure, AtRest, Sure, Laid, Unborn
<1>4. /\ Path(r, None) /\ Served(r.img, s, opened[s])
      /\ Clear(disk, {}) => Clear(r.img, {s})
  BY <1>2, <1>3, StartServed
<1> HIDE DEF r
<1>5. NoUpset => Clear(disk, {})
  <2>1. {t \in Session : Live(t)} = {}
    BY <1>2
  <2> QED
    BY <1>3, <2>1 DEF Laid, Rested
<1>6. NoUpset' => Clear(r.img, {s})
  BY <1>1, <1>4, <1>5 DEF NoUpset
<1>7. \A t \in Session : Live(t) => Live(t)'
  BY <1>2
<1> QED
  BY <1>1, <1>4, <1>6, <1>7, BeginLaid DEF Operations

(* One file of the plan.                                                   *)
LEMMA WriteFileLaid ==
  ASSUME IInv, Secure, Laid, WriteFile
  PROVE  /\ Laid'
         /\ \A i \in Id : disk.cand[i] # None /\ disk'.cand[i] = None
                          => tx.op \in {"discard", "save"} /\ tx.id = i
<1> DEFINE p == tx.plan
<1>1. tx \in Transaction /\ tx # None /\ p \in Seq(Write) /\ p # << >> /\ disk \in Disk
  BY Parts DEF WriteFile, TxOK, Transaction
<1>2. Head(p) = p[1] /\ Tail(p) \in Seq(Write) /\ p[1] \in Write
  BY <1>1, TailFacts
<1>3. /\ disk' = Apply(disk, p[1]) /\ tx' = [tx EXCEPT !.plan = Tail(p)]
      /\ life' = life /\ opened' = opened /\ shelf' = shelf /\ spent' = spent
  BY <1>2 DEF WriteFile
<1>4. /\ tx' \in Transaction /\ tx' # None /\ tx'.plan = Tail(p) /\ tx'.who = tx.who
      /\ tx'.ok = tx.ok /\ tx'.op = tx.op /\ tx'.id = tx.id
  BY <1>1, <1>2, <1>3, TransactionAssumption DEF Transaction
<1> DEFINE a == Removable(tx)
           o == opened[tx.who]
<1>5. PICK e \in Packs : /\ Through(disk, p, e, Packs, Spared(a))
                         /\ Leaves(e, tx, o, NoUpset)
  BY <1>1 DEF Laid, Passing
<1>6. p[1] \in Spared(a) /\ Through(disk', Tail(p), e, Packs, Spared(a))
  BY <1>1, <1>3, <1>5, ThroughTail
<1>7. disk' \in Packs
  BY <1>2, <1>6, ThroughEnds
<1>8. Leaves(e, tx', o, NoUpset) /\ Removable(tx') = a
  BY <1>4, <1>5, LeavesParts
<1>9. Passing'
  <2>1. opened'[tx'.who] = o /\ NoUpset' = NoUpset
    BY <1>3, <1>4 DEF NoUpset
  <2>2. tx'.op = "restore" => spent' # NothingSpent
    BY <1>1, <1>3, <1>4 DEF Laid, Passing
  <2> DEFINE q == NoUpset'
             b == Removable(tx')
             z == opened'[tx'.who]
  <2>3. Through(disk', Tail(p), e, Packs, Spared(b)) /\ Leaves(e, tx', z, q)
    BY <1>6, <1>8, <2>1
  <2> HIDE DEF q, b, z
  <2>4. \E x \in Packs : /\ Through(disk', Tail(p), x, Packs, Spared(b))
                         /\ Leaves(x, tx', z, q)
    BY <2>3
  <2> QED
    BY <1>4, <2>2, <2>4 DEF Passing, q, b, z
<1>10. Forgotten' /\ Rested' /\ Packed(disk')
  BY <1>3, <1>4, <1>7 DEF Laid, Forgotten, Rested, Live, Packs
<1>11. ASSUME NEW i \in Id, disk.cand[i] # None, disk'.cand[i] = None
       PROVE  tx.op \in {"discard", "save"} /\ tx.id = i
  <2> DEFINE w == p[1]
  <2>1. w \in Write /\ disk' = Apply(disk, w) /\ w \in Spared(a)
    BY <1>2, <1>3, <1>6
  <2> HIDE DEF w
  <2>2. w.file = "cand" /\ w.id = i /\ w.val = None
    <3>1. w.file = "cand" /\ w.id \in Id
      BY <1>1, <1>11, <2>1 DEF Apply, Disk, Write
    <3>2. \A c \in Id : disk'.cand[c] = IF c = w.id THEN w.val ELSE disk.cand[c]
      BY <1>1, <2>1, <3>1 DEF Apply, Disk
    <3> QED
      BY <1>11, <3>1, <3>2
  <2>3. a = i
    BY <2>1, <2>2 DEF Spared
  <2> QED
    BY <1>11, <2>3, NoIdNone DEF Removable
<1> QED
  BY <1>9, <1>10, <1>11 DEF Laid

(* The process is gone.                                                    *)
LEMMA GoneLaid ==
  ASSUME IInv, Secure, Laid, NEW s \in Session, Live(s), Gone(s), disk' = disk, tx' = None,
         NoUpset' => Clear(disk, {})
  PROVE  Laid'
<1>1. /\ life \in [Session -> {"new", "up", "down"}] /\ opened \in [Session -> Id \union {None}]
      /\ life' = [life EXCEPT ![s] = "down"] /\ opened' = [opened EXCEPT ![s] = None]
  BY Parts DEF StoreOK, Gone
<1>2. \A t \in Session : ~Live(t)'
  BY <1>1 DEF Live, Secure, AtMostOne
<1>3. Forgotten'
  <2>1. \A t \in Session \ {s} : opened[t] = None
    BY DEF Laid, Forgotten, Secure, AtMostOne
  <2> QED
    BY <1>1, <2>1 DEF Forgotten
<1>4. Rested'
  <2>1. {t \in Session : Live(t)'} = {}
    BY <1>2
  <2> QED
    BY <1>2, <2>1 DEF Rested
<1>5. Passing' /\ Packed(disk')
  BY DEF Passing, Laid
<1> QED
  BY <1>3, <1>4, <1>5 DEF Laid

LEMMA CrashLaid ==
  ASSUME IInv, Secure, Laid, NEW s \in Session, Crash(s)
  PROVE  Laid'
<1>1. /\ Live(s) /\ Gone(s) /\ disk' = disk /\ tx' = IF tx # None /\ tx.who = s THEN None ELSE tx
      /\ spent' = [spent EXCEPT !.crash = @ + 1]
  BY DEF Crash
<1>2. tx' = None
  <2>1. tx # None => tx.who \in Session
    BY Parts DEF TxOK, Transaction
  <2> QED
    BY <1>1, <2>1 DEF Secure, UnderWay, AtMostOne
<1>3. spent' # NothingSpent
  <2>1. spent'.crash = spent.crash + 1 /\ spent.crash \in Nat
    BY <1>1, Parts DEF SpentOK, Spending
  <2> QED
    BY <2>1 DEF NothingSpent
<1> QED
  BY <1>1, <1>2, <1>3, GoneLaid DEF NoUpset

LEMMA LeaveLaid ==
  ASSUME IInv, Secure, Laid, NEW s \in Session, Leave(s)
  PROVE  Laid'
<1>1. /\ Live(s) /\ Gone(s) /\ disk' = disk /\ tx' = tx /\ (tx # None => tx.who # s)
      /\ spent' = [spent EXCEPT !.left = 1]
  BY DEF Leave, Quiet
<1>2. tx = None
  <2>1. tx # None => tx.who \in Session
    BY Parts DEF TxOK, Transaction
  <2> QED
    BY <1>1, <2>1 DEF Secure, UnderWay, AtMostOne
<1>3. spent' # NothingSpent
  <2>1. spent'.left = 1
    BY <1>1, Parts DEF SpentOK, Spending
  <2> QED
    BY <2>1 DEF NothingSpent
<1> QED
  BY <1>1, <1>2, <1>3, GoneLaid DEF NoUpset

(* The operation returns.                                                  *)
LEMMA FinishLaid ==
  ASSUME IInv, Secure, Laid, Finish
  PROVE  Laid'
<1>0. PICK s \in Session : s = tx.who
  BY Parts DEF Finish, TxOK, Transaction
<1>1. /\ tx \in Transaction /\ tx # None /\ tx.plan = << >>
      /\ tx.op \in Operations /\ tx.ok \in BOOLEAN
  BY Parts DEF Finish, TxOK, Transaction
<1>2. disk' = disk /\ tx' = None /\ spent' = spent
  BY DEF Finish
<1>3. Leaves(disk, tx, opened[s], NoUpset) /\ (tx.op = "restore" => spent # NothingSpent)
  <2> DEFINE W == Spared(Removable(tx))
             p == tx.plan
  <2>1. PICK e \in Packs : Through(disk, p, e, Packs, W) /\ Leaves(e, tx, opened[s], NoUpset)
    BY <1>0, <1>1 DEF Laid, Passing
  <2>2. p \in Seq(Write)
    BY <1>1 DEF Transaction
  <2> HIDE DEF p, W
  <2>3. disk \in Packs /\ e \in Packs /\ (p = << >> => e = disk)
    BY <2>1, <2>2, ThroughEnds
  <2>4. e = disk
    BY <1>1, <2>3 DEF p
  <2> QED
    BY <1>1, <2>1, <2>4 DEF Laid, Passing
<1>4. Live(s) /\ \A t \in Session : Live(t) => t = s
  BY <1>0, <1>1 DEF Secure, UnderWay, AtMostOne
<1>5. opened \in [Session -> Id \union {None}]
  BY Parts DEF StoreOK
<1>6. ASSUME life' = life, \A t \in Session \ {s} : opened'[t] = opened[t],
             opened'[s] = After(tx, opened[s]), tx.op # "exit",
             NoUpset' => NoUpset /\ ~(tx.ok /\ tx.op = "replace")
      PROVE  Laid'
  <2>1. \A t : Live(t)' <=> Live(t)
    BY <1>6 DEF Live
  <2>2. Forgotten'
    BY <1>4, <1>6, <2>1 DEF Laid, Forgotten
  <2>3. Served(disk, s, opened'[s])
    BY <1>0, <1>3, <1>6 DEF Leaves
  <2>4. NoUpset' => Clear(disk, {s})
    BY <1>0, <1>3, <1>6 DEF Leaves
  <2>5. {t \in Session : Live(t)'} = {s}
    BY <1>4, <2>1
  <2>6. Rested'
    BY <1>2, <1>4, <2>1, <2>3, <2>4, <2>5 DEF Rested
  <2>7. Passing' /\ Packed(disk')
    BY <1>2 DEF Passing, Laid
  <2> QED
    BY <2>2, <2>6, <2>7 DEF Laid
<1>7. \/ FinishAutosave(s) \/ FinishReplace(s) \/ FinishRestore(s)
      \/ FinishSave(s) \/ FinishExit(s) \/ FinishOther(s)
  BY <1>0 DEF Finish
<1>8. CASE FinishAutosave(s)
  BY <1>2, <1>6, <1>8 DEF FinishAutosave, After, NoUpset
<1>9. CASE FinishReplace(s)
  <2>1. shelf' # {} /\ opened'[s] = None /\ \A t \in Session \ {s} : opened'[t] = opened[t]
    BY <1>5, <1>9 DEF FinishReplace
  <2> QED
    BY <1>6, <1>9, <2>1 DEF FinishReplace, After, NoUpset
<1>10. CASE FinishRestore(s)
  <2>1. opened'[s] = tx.id /\ \A t \in Session \ {s} : opened'[t] = opened[t]
    BY <1>5, <1>10 DEF FinishRestore
  <2>2. tx.op = "restore" /\ tx.ok /\ life' = life
    BY <1>10 DEF FinishRestore
  <2>3. After(tx, opened[s]) = tx.id
    BY <2>2 DEF After
  <2>4. ~NoUpset'
    BY <1>2, <1>3, <2>2 DEF NoUpset
  <2> QED
    BY <1>6, <2>1, <2>2, <2>3, <2>4
<1>11. CASE FinishSave(s)
  <2>1. opened'[s] = None /\ \A t \in Session \ {s} : opened'[t] = opened[t]
    BY <1>5, <1>11 DEF FinishSave
  <2> QED
    BY <1>2, <1>6, <1>11, <2>1 DEF FinishSave, After, NoUpset
<1>12. CASE FinishOther(s)
  <2>1. /\ life' = life /\ opened' = opened /\ shelf' = shelf
        /\ tx.op \in {"start", "discard"} \/ (tx.op # "exit" /\ ~tx.ok)
    BY <1>12 DEF FinishOther
  <2>2. After(tx, opened[s]) = opened[s] /\ tx.op # "exit" /\ ~(tx.ok /\ tx.op = "replace")
    BY <2>1 DEF After
  <2> QED
    BY <1>2, <1>6, <2>1, <2>2 DEF NoUpset
<1>13. CASE FinishExit(s)
  <2>1. Gone(s) /\ tx.op = "exit"
    BY <1>13 DEF FinishExit
  <2>2. NoUpset' => NoUpset
    BY <1>2, <2>1 DEF Gone, Shelved, NoUpset
  <2>3. NoUpset => Clear(disk, {})
    BY <1>0, <1>3, <2>1 DEF Leaves
  <2> QED
    BY <1>2, <1>4, <2>1, <2>2, <2>3, GoneLaid
<1> QED
  BY <1>7, <1>8, <1>9, <1>10, <1>11, <1>12, <1>13

(* What is asked of a disk is in the index and in which files there are.   *)
LEMMA SameFiles ==
  ASSUME NEW d, NEW e,
         e.index = d.index, \A i \in Id : e.cand[i] = None <=> d.cand[i] = None
  PROVE  /\ Packed(d) => Packed(e)
         /\ \A s, o : Served(d, s, o) => Served(e, s, o)
<1>1. IndexOf(e) = IndexOf(d)
  BY DEF IndexOf
<1>2. Vacant(e) => Vacant(d)
  BY <1>1 DEF Vacant
<1>3. \A s : (Own(e, s) <=> Own(d, s)) /\ (Named(e) <=> Named(d))
  BY DEF Own, Named
<1>4. Packed(d) => Packed(e)
  BY <1>1 DEF Packed
<1>5. ASSUME NEW s, NEW o, Served(d, s, o) PROVE Served(e, s, o)
  BY <1>1, <1>2, <1>3, <1>5 DEF Served
<1> QED
  BY <1>4, <1>5

LEMMA DamageLaid ==
  ASSUME IInv, Laid, Damage
  PROVE  /\ Laid'
         /\ \A i \in Id : disk'.cand[i] = None <=> disk.cand[i] = None
<1>1. /\ tx = None /\ tx' = None /\ life' = life /\ opened' = opened
      /\ spent' = [spent EXCEPT !.damage = @ + 1]
  BY DEF Damage
<1>2. disk \in Disk
  BY Parts
<1>3. ~NoUpset'
  <2>1. spent'.damage = spent.damage + 1 /\ spent.damage \in Nat
    BY <1>1, Parts DEF SpentOK, Spending
  <2> QED
    BY <2>1 DEF NothingSpent, NoUpset
<1>4. ASSUME Packed(disk'), \A s, o : Served(disk, s, o) => Served(disk', s, o)
      PROVE  Laid'
  <2>1. Rested'
    BY <1>1, <1>3, <1>4 DEF Laid, Rested, Live
  <2>2. Forgotten' /\ Passing'
    BY <1>1 DEF Laid, Forgotten, Passing, Live
  <2> QED
    BY <1>4, <2>1, <2>2 DEF Laid
<1>5. ASSUME disk' = [disk EXCEPT !.index = Corrupt]
      PROVE  Laid' /\ \A i \in Id : disk'.cand[i] = None <=> disk.cand[i] = None
  <2>1. disk'.index = Corrupt /\ disk'.cand = disk.cand
    BY <1>2, <1>5 DEF Disk
  <2> QED
    BY <1>4, <2>1 DEF Packed, Served
<1>6. ASSUME disk'.index = disk.index, \A i \in Id : disk'.cand[i] = None <=> disk.cand[i] = None
      PROVE  Laid'
  BY <1>4, <1>6, SameFiles DEF Laid
<1>7. ASSUME disk' = [disk EXCEPT !.active = Damaged(@)]
      PROVE  Laid' /\ \A i \in Id : disk'.cand[i] = None <=> disk.cand[i] = None
  <2>1. disk'.index = disk.index /\ disk'.cand = disk.cand
    BY <1>2, <1>7 DEF Disk
  <2> QED
    BY <1>6, <2>1
<1>8. ASSUME NEW c \in Id, disk.cand[c] # None, disk' = [disk EXCEPT !.cand[c] = Damaged(@)]
      PROVE  Laid' /\ \A i \in Id : disk'.cand[i] = None <=> disk.cand[i] = None
  <2>1. /\ disk'.index = disk.index /\ disk'.cand[c] = Damaged(disk.cand[c])
        /\ disk.cand[c] \in Payload
        /\ \A i \in Id \ {c} : disk'.cand[i] = disk.cand[i]
    BY <1>2, <1>8 DEF Disk
  <2>2. Damaged(disk.cand[c]) \in Payload
    BY <2>1 DEF Damaged, Payload, Work
  <2>3. \A i \in Id : disk'.cand[i] = None <=> disk.cand[i] = None
    BY <1>8, <2>1, <2>2, NoIdNone
  <2> QED
    BY <1>6, <2>1, <2>3
<1> QED
  BY <1>5, <1>7, <1>8 DEF Damage

LEMMA InitLaid ==
  ASSUME Init
  PROVE  Laid
<1>1. PICK old \in Legacy \union {None} :
        /\ disk = [index |-> None, active |-> None, cand |-> [i \in Id |-> None], legacy |-> old]
        /\ shelf = IF old = None THEN {} ELSE {{old}}
  BY DEF Init
<1>2. \A s \in Session : ~Live(s) /\ opened[s] = None
  BY DEF Init, Live
<1>3. Packed(disk)
  BY <1>1 DEF Packed
<1>4. NoUpset => \A up : Clear(disk, up)
  BY <1>1 DEF NoUpset, Clear, Named
<1> QED
  BY <1>2, <1>3, <1>4 DEF Laid, Forgotten, Rested, Passing, Init

LEMMA StepLaid ==
  ASSUME MaxLive <= 1, MaxId > 1, IInv, Undisturbed => Secure /\ Laid, [Next]_vars
  PROVE  Undisturbed' => Laid'
<1> SUFFICES ASSUME Undisturbed' PROVE Laid'
  OBVIOUS
<1>1. /\ Undisturbed /\ Secure /\ Laid /\ ~WriteFails
      /\ \A s \in Session : Change(s) => spent' = spent
  BY UndisturbedBefore
<1>2. ASSUME disk' = disk, tx' = tx, life' = life, opened' = opened, shelf' = shelf,
             spent' = spent
      PROVE  Laid'
  BY <1>1, <1>2 DEF Laid, Forgotten, Rested, Passing, NoUpset, Live
<1>3. ASSUME NEW s \in Session, Change(s) \/ ReplaceSaved(s) \/ Close(s) PROVE Laid'
  BY <1>1, <1>2, <1>3 DEF Change, ReplaceSaved, Close
<1>4. ASSUME NEW s \in Session,
             \/ Start(s) \/ Autosave(s) \/ Replace(s) \/ Save(s) \/ Exit(s)
             \/ Leave(s) \/ Crash(s)
      PROVE  Laid'
  BY <1>1, <1>4, StartLaid, AutosaveLaid, ReplaceLaid, SaveLaid, ExitLaid, LeaveLaid,
     CrashLaid
<1>5. ASSUME NEW s \in Session, NEW c \in Id, Restore(s, c) \/ DiscardCandidate(s, c)
      PROVE  Laid'
  BY <1>1, <1>5, RestoreLaid, DiscardCandidateLaid
<1>6. CASE WriteFile \/ Finish \/ Damage
  BY <1>1, <1>6, WriteFileLaid, FinishLaid, DamageLaid
<1>7. CASE UNCHANGED vars
  BY <1>2, <1>7 DEF vars
<1> QED
  BY <1>1, <1>3, <1>4, <1>5, <1>6, <1>7 DEF Next

-----------------------------------------------------------------------------
(* What the user sees.                                                     *)
Trusted == IInv /\ (NoneLate => ClosingClean) /\ (Undisturbed => Secure /\ Laid)

LEMMA InitTrusted == Init => Trusted
BY InitOK, InitClean, InitSecure, InitLaid DEF Trusted

LEMMA StepTrusted ==
  ASSUME MaxLive <= 1, MaxId > 1
  PROVE  Trusted /\ [Next]_vars => Trusted'
BY StepOK, StepClean, StepSecure, StepLaid DEF Trusted

LEMMA LaidOffers ==
  ASSUME IInv, Secure, Laid, tx = None, disk.index \notin {None, Corrupt}, IdsLeft,
         NEW s \in Session, Live(s), NEW o \in shelf
  PROVE  \E c \in Id :
           /\ disk.cand[c] # None /\ disk.cand[c].doc \in o
           /\ c \in Shown \/ (disk.index.carried[c] \in Session /\ Live(disk.index.carried[c]))
<1>1. disk \in Disk /\ IndexSound
  BY Parts
<1>2. Settled(disk, s, mine[s], shelf) /\ Served(disk, s, opened[s])
  BY RestIsSure DEF Secure, Laid, Rested
<1>3. CurrentIndex = disk.index /\ IndexOf(disk) = disk.index /\ disk.index \in Index
  BY <1>1 DEF CurrentIndex, IndexOf, Disk
<1>4. Vacant(disk)
  BY <1>3 DEF IdsLeft, Vacant, FreeIds, Draft
<1>5. /\ \A i \in Id : disk.cand[i] # None => disk.index.carried[i] # Absent
      /\ Named(disk) => Own(disk, s)
  BY <1>2, <1>3, <1>4 DEF Served
<1>6. ASSUME NEW c \in Id, Holds(disk, c, o), Named(disk) => disk.index.active.source # c
      PROVE  /\ disk.cand[c] # None /\ disk.cand[c].doc \in o
             /\ \/ c \in Shown
                \/ disk.index.carried[c] \in Session /\ Live(disk.index.carried[c])
  <2>1. disk.index.carried[c] \in Session \union {None}
    BY <1>3, <1>5, <1>6 DEF Index, Holds
  <2>2. c \in Listed
        \/ (disk.index.carried[c] \in Session /\ Live(disk.index.carried[c]))
    BY <1>5, <1>6, <2>1 DEF Listed, Holds
  <2> QED
    BY <1>6, <2>2 DEF Shown, Named, Holds
<1>7. CASE Own(disk, s)
  <2>1. PICK c \in Id : c # LinkOf(disk) /\ Holds(disk, c, o)
    BY <1>2, <1>7 DEF Settled, Beside
  <2>2. disk.index.active.source # c
    BY <1>1, <1>7, <2>1 DEF LinkOf, Own, Named, IndexSound
  <2> QED
    BY <1>6, <2>1, <2>2
<1>8. CASE ~Own(disk, s)
  <2>1. ~Named(disk)
    BY <1>5, <1>8
  <2>2. PICK c \in Id : Holds(disk, c, o)
    BY <1>2, <1>8, <2>1 DEF Settled, Kept, InSlot, Rests
  <2> QED
    BY <1>6, <2>1, <2>2
<1> QED
  BY <1>7, <1>8

(* With one process at a time and more than one id: whatever file the      *)
(* earlier operations were interrupted at, after damaged files, restores   *)
(* and discards, and for every number of sessions, edits and ids, work     *)
(* that no process holds is offered to the user, or was set aside by the   *)
(* running process and is offered after it ends (autosave.rs:606-607,      *)
(* 839-902, 1108-1120), while no write has failed, nothing came after an   *)
(* exit's look at the work, and ids are left.                              *)
THEOREM OwedIsAlwaysOffered ==
  ASSUME MaxLive <= 1, MaxId > 1
  PROVE  Spec => []OwedIsOffered
<1>1. Trusted => OwedIsOffered
  BY LaidOffers DEF Trusted, Undisturbed, OwedIsOffered
<1> QED
  BY <1>1, InitTrusted, StepTrusted, PTL DEF Spec

(* With one process at a time and more than one id: when nobody crashed or *)
(* left unsaved work, no file was damaged, and no work is owed, nothing is *)
(* offered, whatever was edited, saved and replaced before                 *)
(* (lib.rs:109-118).                                                       *)
THEOREM SavedIsNeverOffered ==
  ASSUME MaxLive <= 1, MaxId > 1
  PROVE  Spec => []SavedIsNotOffered
<1>1. Trusted => SavedIsNotOffered
  <2> SUFFICES ASSUME Trusted, tx = None, spent = NothingSpent, Owed = {} PROVE Shown = {}
    BY DEF SavedIsNotOffered
  <2>1. Undisturbed /\ shelf = {}
    BY DEF Undisturbed, NothingSpent, Owed
  <2>2. Clear(disk, {s \in Session : Live(s)})
    BY <2>1 DEF Trusted, Laid, Rested, NoUpset
  <2> QED
    BY <2>2 DEF Clear, Shown, Listed
<1> QED
  BY <1>1, InitTrusted, StepTrusted, PTL DEF Spec

LEMMA StepSpares ==
  ASSUME Trusted, Undisturbed, [Next]_vars
  PROVE  [\A i \in Id : disk.cand[i] # None /\ disk'.cand[i] = None
            => tx.op \in {"discard", "save"} /\ tx.id = i]_disk
<1>1. IInv /\ Secure /\ Laid
  BY DEF Trusted
<1>2. CASE WriteFile
  BY <1>1, <1>2, WriteFileLaid
<1>3. CASE Damage
  BY <1>1, <1>3, DamageLaid
<1>4. ASSUME NEW s \in Session,
             \/ Start(s) \/ Change(s) \/ Autosave(s) \/ Replace(s) \/ ReplaceSaved(s)
             \/ Save(s) \/ Close(s) \/ Exit(s) \/ Leave(s) \/ Crash(s)
             \/ \E c \in Id : Restore(s, c) \/ DiscardCandidate(s, c)
      PROVE  disk' = disk
  BY <1>4 DEF Start, Change, Autosave, Replace, ReplaceSaved, Save, Close, Exit, Leave,
              Crash, Restore, DiscardCandidate
<1>5. WriteFails \/ Finish \/ UNCHANGED vars => disk' = disk
  BY DEF WriteFails, Finish, vars
<1> QED
  BY <1>2, <1>3, <1>4, <1>5 DEF Next

(* With one process at a time, more than one id, no failed write and no    *)
(* change between an exit's look at the work and its removals: at every    *)
(* step of every plan, cut off anywhere, the file of a candidate goes only *)
(* when the user discards that candidate or saves the work       *)
(* restored from it (autosave.rs:1363-1365).  No startup, autosave,        *)
(* replacement, restore or exit removes one.                               *)
THEOREM CandidateStays ==
  ASSUME MaxLive <= 1, MaxId > 1, MaxFault = 0, MaxLate = 0
  PROVE  Spec => CandidateLeavesOnlyByUser
<1> DEFINE Faultless == Trusted /\ Undisturbed
           Kind == \A i \in Id : disk.cand[i] # None /\ disk'.cand[i] = None
                     => tx.op \in {"discard", "save"} /\ tx.id = i
<1>1. Init => Faultless
  BY InitTrusted, InitSecure
<1>2. Faultless /\ [Next]_vars => Faultless'
  <2> SUFFICES ASSUME Faultless, [Next]_vars PROVE Faultless'
    OBVIOUS
  <2>1. Undisturbed'
    BY UndisturbedStays DEF Trusted
  <2> QED
    BY <2>1, StepTrusted
<1>3. Faultless /\ [Next]_vars => [Kind]_disk
  BY StepSpares
<1> HIDE DEF Faultless
<1> QED
  BY <1>1, <1>2, <1>3, PTL DEF Spec, CandidateLeavesOnlyByUser
=============================================================================
