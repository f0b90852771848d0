--------------------------- MODULE AutosaveProofs ---------------------------
(***************************************************************************)
(* What TLAPS proves of Autosave, for any number of sessions, edits, ids,  *)
(* crashes, failed writes and damaged files; that no work is lost, for one *)
(* process at a time as long as no write has failed, and for any number of *)
(* them as long as nothing was restored, while nothing is changed between  *)
(* an exit's look at the work and its removals.                            *)
(*                                                                         *)
(* Every operation is a plan built from a draft.  The first lemmas say     *)
(* what each step of a draft does to its types and to the order of its     *)
(* writes (Ordered); the plans inherit both.  The inductive invariant then *)
(* relates the rest of the plan under way to the disk (Aligned): wherever  *)
(* the operation is cut off, the index is sound.                           *)
(*                                                                         *)
(* The second part (Orderly) adds what a plan replaces, and where ids and  *)
(* the link to a source come from.  The third (Secure) follows every work  *)
(* owed to the user: each plan is a course of disks that all support it.   *)
(* The fourth (Shared) does so while several processes share the directory *)
(* and removals may fail: nothing is linked to a candidate then, and what  *)
(* is left to follow is whose the slot is.                                 *)
(***************************************************************************)
EXTENDS Autosave, FiniteSetTheorems, WellFoundedInduction, NaturalsInduction, TLAPS

(* A write that lets the active entry go.                                  *)
LetsGo(w) == w.file = "index" /\ w.val.active = None

(* A write of the active payload.                                          *)
Stores(w) == w.file = "active" /\ w.val # None

(* What write n of plan p needs of the write before it; n = 1 has no such  *)
(* write, and needs what First says.                                       *)
InOrder(p, n, first, stored) ==
  /\ p[n].file = "index" => ValidIndex(p[n].val)
  /\ p[n].file = "active" /\ p[n].val = None
     => IF n = 1 THEN first ELSE LetsGo(p[n-1])
  /\ p[n].file = "index" /\ p[n].val.active # None
     => IF n = 1 THEN stored ELSE Stores(p[n-1])

(* A plan that is safe to start on any disk, and one that is safe to go on *)
(* with on disk d.                                                         *)
Ordered(p) == \A n \in 1 .. Len(p) : InOrder(p, n, FALSE, FALSE)

Aligned(d, p) ==
  \A n \in 1 .. Len(p) :
    InOrder(p, n, d.index \in {None, Corrupt} \/ d.index.active = None, d.active # None)

Drafts == [ok : BOOLEAN, idx : Index, img : Disk, plan : Seq(Write)]

Sound(r) == r \in Drafts /\ Ordered(r.plan)

(* The part of a finished draft that Begin uses.                           *)
Ready(r) == r.ok \in BOOLEAN /\ r.plan \in Seq(Write) /\ Aligned(disk, r.plan)

IInv == TypeOK /\ IndexSound /\ (tx # None => Aligned(disk, tx.plan))

-----------------------------------------------------------------------------
(* Numbers and documents.                                                  *)

(* Every set of naturals that is not empty has a least element: the ids    *)
(* fresh_candidate_id looks for.                                           *)
LEMMA LeastNat ==
  ASSUME NEW S \in SUBSET Nat, S # {}
  PROVE  LeastOf(S) \in S /\ \A n \in S : LeastOf(S) <= n
<1> DEFINE R == {p \in Nat \X Nat : p[1] < p[2]}
<1>1. IsWellFoundedOn(OpToRel(<, Nat), Nat)
  BY NatLessThanWellFounded
<1>2. OpToRel(<, Nat) = R
  BY DEF OpToRel
<1>3. IsWellFoundedOn(R, Nat)
  BY <1>1, <1>2
<1> HIDE DEF R
<1>4. PICK m \in S : \A n \in S : ~(<<n, m>> \in R)
  BY <1>3, WFMin
<1>5. ASSUME NEW n \in S PROVE m <= n
  <2>1. n \in Nat /\ m \in Nat
    OBVIOUS
  <2>2. ~(<<n, m>> \in R)
    BY <1>4
  <2>3. ~(n < m)
    BY <2>1, <2>2 DEF R
  <2> QED
    BY <2>1, <2>3
<1> QED
  BY <1>5 DEF LeastOf

(* A document is a sequence of at most MaxLen edits.                       *)
LEMMA DocIsSeq ==
  \A d : d \in Doc <=> d \in Seq(Edit) /\ Len(d) <= MaxLen
<1>1. ASSUME NEW d \in Doc PROVE d \in Seq(Edit) /\ Len(d) <= MaxLen
  <2>1. PICK n \in 0 .. MaxLen : d \in [1 .. n -> Edit]
    BY DEF Doc
  <2>2. d \in Seq(Edit) /\ Len(d) = n
    BY <2>1, BoundsAssumption
  <2> QED
    BY <2>2, BoundsAssumption
<1>2. ASSUME NEW d \in Seq(Edit), Len(d) <= MaxLen PROVE d \in Doc
  <2>1. Len(d) \in 0 .. MaxLen /\ d \in [1 .. Len(d) -> Edit]
    BY <1>2, BoundsAssumption
  <2> QED
    BY <2>1 DEF Doc
<1> QED
  BY <1>1, <1>2

LEMMA EmptyDoc == << >> \in Doc
<1>1. << >> \in Seq(Edit) /\ Len(<< >>) = 0
  OBVIOUS
<1>2. Len(<< >>) <= MaxLen
  BY <1>1, BoundsAssumption
<1> QED
  BY <1>1, <1>2, DocIsSeq, Zenon

-----------------------------------------------------------------------------
(* Writes.                                                                 *)

(* The four kinds of write are what Write says.                            *)
LEMMA WriteKinds ==
  /\ \A x \in Index : PutIndex(x) \in Write
  /\ \A p \in Payload \union {None} : PutActive(p) \in Write
  /\ \A i \in Id, p \in Payload \union {None} : PutCandidate(i, p) \in Write
  /\ DropLegacy \in Write
BY DEF Write, PutIndex, PutActive, PutCandidate, DropLegacy

(* A write leaves a disk a disk.                                           *)
LEMMA ApplyType ==
  ASSUME NEW d \in Disk, NEW w \in Write
  PROVE  Apply(d, w) \in Disk
<1>1. CASE w.file = "index"
  BY <1>1 DEF Apply, Write, Disk
<1>2. CASE w.file = "active"
  BY <1>2 DEF Apply, Write, Disk
<1>3. CASE w.file = "cand"
  BY <1>3 DEF Apply, Write, Disk
<1>4. CASE w.file = "legacy"
  BY <1>4 DEF Apply, Write, Disk
<1> QED
  BY <1>1, <1>2, <1>3, <1>4 DEF Write

(* What a new last write must satisfy for the plan to stay ordered.        *)
Fits(p, w) ==
  /\ w.file = "index" => ValidIndex(w.val)
  /\ w.file = "active" /\ w.val = None => p # << >> /\ LetsGo(p[Len(p)])
  /\ w.file = "index" /\ w.val.active # None => p # << >> /\ Stores(p[Len(p)])

LEMMA AppendFacts ==
  ASSUME NEW p \in Seq(Write), NEW w \in Write
  PROVE  LET q == Append(p, w)
         IN /\ q \in Seq(Write) /\ q # << >> /\ Len(p) \in Nat
            /\ Len(q) = Len(p) + 1 /\ q[Len(p) + 1] = w
            /\ \A n \in 1 .. Len(p) : q[n] = p[n]
OBVIOUS

LEMMA OrderedAppend ==
  ASSUME NEW p \in Seq(Write), NEW w \in Write, Ordered(p), Fits(p, w)
  PROVE  Ordered(Append(p, w))
<1> DEFINE q == Append(p, w)
<1>1. Len(q) = Len(p) + 1 /\ q[Len(p) + 1] = w /\ Len(p) \in Nat
  BY AppendFacts
<1>2. \A n \in 1 .. Len(p) : q[n] = p[n]
  BY AppendFacts
<1>3. ASSUME NEW n \in 1 .. Len(p) PROVE InOrder(q, n, FALSE, FALSE)
  <2>1. InOrder(p, n, FALSE, FALSE) /\ q[n] = p[n]
    BY <1>2 DEF Ordered
  <2>2. n # 1 => q[n-1] = p[n-1]
    BY <1>1, <1>2
  <2> QED
    BY <2>1, <2>2 DEF InOrder
<1>4. InOrder(q, Len(p) + 1, FALSE, FALSE)
  <2> DEFINE k == Len(p) + 1
  <2>1. q[k] = w
    BY <1>1
  <2>2. p # << >> => k # 1 /\ q[k-1] = p[Len(p)]
    BY <1>1, <1>2
  <2> HIDE DEF k, q
  <2>3. InOrder(q, k, FALSE, FALSE)
    BY <2>1, <2>2 DEF InOrder, Fits
  <2> QED
    BY <2>3 DEF k, q
<1>5. \A n \in 1 .. Len(q) : n \in 1 .. Len(p) \/ n = Len(p) + 1
  BY <1>1
<1> QED
  BY <1>3, <1>4, <1>5 DEF Ordered

LEMMA TwoWrites ==
  ASSUME NEW v \in Write, NEW w \in Write
  PROVE  LET p == Append(Append(<< >>, v), w)
         IN p \in Seq(Write) /\ Len(p) = 2 /\ p[1] = v /\ p[2] = w
<1> DEFINE q == Append(<< >>, v)
<1>1. q \in Seq(Write) /\ Len(q) = 1 /\ q[1] = v
  OBVIOUS
<1> HIDE DEF q
<1> DEFINE p == Append(q, w)
<1>2. /\ p \in Seq(Write) /\ Len(p) = Len(q) + 1 /\ p[Len(q) + 1] = w
      /\ \A n \in 1 .. Len(q) : p[n] = q[n]
  BY <1>1, AppendFacts, Zenon
<1> HIDE DEF p
<1>3. p \in Seq(Write) /\ Len(p) = 2 /\ p[1] = v /\ p[2] = w
  BY <1>1, <1>2
<1> QED
  BY <1>3 DEF p, q

LEMMA EmptyIsOrdered == Ordered(<< >>)
BY DEF Ordered

-----------------------------------------------------------------------------
(* Drafts.                                                                 *)

LEMMA EmitPlan ==
  ASSUME NEW r \in Drafts, NEW w \in Write, r.ok
  PROVE  LET e == Emit(r, w)
         IN e \in Drafts /\ e.ok /\ e.idx = r.idx /\ e.plan = Append(r.plan, w)
<1>1. Apply(r.img, w) \in Disk /\ Append(r.plan, w) \in Seq(Write)
  BY ApplyType DEF Drafts
<1>2. Emit(r, w) = [r EXCEPT !.img = Apply(r.img, w), !.plan = Append(r.plan, w)]
  BY DEF Emit
<1> QED
  BY <1>1, <1>2 DEF Drafts

LEMMA EmitSound ==
  ASSUME NEW r, Sound(r), NEW w \in Write, r.ok => Fits(r.plan, w)
  PROVE  Sound(Emit(r, w))
<1>1. CASE ~r.ok
  BY <1>1 DEF Emit
<1>2. CASE r.ok
  <2>1. r \in Drafts /\ r.plan \in Seq(Write) /\ Ordered(r.plan)
    BY DEF Sound, Drafts
  <2>2. Emit(r, w) \in Drafts /\ Emit(r, w).plan = Append(r.plan, w)
    BY <1>2, <2>1, EmitPlan
  <2>3. Ordered(Append(r.plan, w))
    BY <1>2, <2>1, OrderedAppend
  <2> QED
    BY <2>2, <2>3 DEF Sound
<1> QED
  BY <1>1, <1>2

(* A draft that is still going ends with the write just emitted.           *)
LEMMA EmitLast ==
  ASSUME NEW r, Sound(r), NEW w \in Write, r.ok
  PROVE  LET e == Emit(r, w)
         IN /\ e.ok /\ e.idx = r.idx
            /\ e.plan # << >> /\ e.plan[Len(e.plan)] = w
<1>1. r \in Drafts /\ r.plan \in Seq(Write)
  BY DEF Sound, Drafts
<1>2. LET q == Append(r.plan, w) IN q # << >> /\ q[Len(q)] = w
  BY <1>1
<1> QED
  BY <1>1, <1>2, EmitPlan

LEMMA FailedSound ==
  ASSUME NEW r, Sound(r)
  PROVE  Sound(Failed(r)) /\ ~Failed(r).ok
<1>1. r \in Drafts
  BY DEF Sound
<1>2. Failed(r) \in Drafts /\ Failed(r).plan = r.plan /\ ~Failed(r).ok
  BY <1>1 DEF Failed, Drafts
<1> QED
  BY <1>2 DEF Sound

(* The index may be written once nothing, or the payload just stored, is   *)
(* its active entry.                                                       *)
LEMMA CommitSound ==
  ASSUME NEW r, Sound(r),
         r.ok /\ r.idx.active # None => r.plan # << >> /\ Stores(r.plan[Len(r.plan)])
  PROVE  /\ Sound(CommitIndex(r))
         /\ CommitIndex(r).ok
            => /\ r.ok /\ CommitIndex(r).idx = r.idx
               /\ LET p == CommitIndex(r).plan IN p # << >> /\ p[Len(p)] = PutIndex(r.idx)
<1>1. r.idx \in Index /\ PutIndex(r.idx) \in Write
  BY WriteKinds DEF Sound, Drafts
<1>2. CASE ~ValidIndex(r.idx)
  BY <1>2, FailedSound DEF CommitIndex
<1>3. CASE ValidIndex(r.idx) /\ r.ok
  <2>1. Fits(r.plan, PutIndex(r.idx))
    BY <1>3 DEF Fits, PutIndex
  <2> QED
    BY <1>1, <1>3, <2>1, EmitSound, EmitLast DEF CommitIndex
<1>4. CASE ValidIndex(r.idx) /\ ~r.ok
  BY <1>4 DEF CommitIndex, Emit
<1> QED
  BY <1>2, <1>3, <1>4

LEMMA UnlinkSound ==
  ASSUME NEW r, Sound(r)
  PROVE  Sound(Unlink(r)) /\ (r.ok => Unlink(r).ok /\ Unlink(r).idx.active = None)
<1>1. r \in Drafts /\ r.idx \in Index
  BY DEF Sound, Drafts
<1>2. CASE r.ok
  <2>1. [r.idx EXCEPT !.active = None] \in Index
    BY <1>1 DEF Index
  <2>2. Unlink(r) \in Drafts /\ Unlink(r).plan = r.plan /\ Unlink(r).ok = r.ok
    BY <1>1, <1>2, <2>1 DEF Unlink, Drafts
  <2>3. Unlink(r).idx.active = None
    BY <1>1, <1>2 DEF Unlink, Drafts, Index
  <2> QED
    BY <1>2, <2>2, <2>3 DEF Sound
<1> QED
  BY <1>2 DEF Unlink

LEMMA CarryingType ==
  ASSUME NEW x \in Index, NEW k \in Id, NEW session \in Session \union {None}
  PROVE  /\ Carrying(x, k, session) \in Index
         /\ Carrying(x, k, session).next = k + 1
         /\ Carrying(x, k, session).active = x.active
         /\ Carrying(x, k, session).carried = [x.carried EXCEPT ![k] = session]
<1>1. k + 1 \in Nat
  BY BoundsAssumption DEF Id
<1>2. [x.carried EXCEPT ![k] = session] \in [Id -> Session \union {None, Absent}]
  BY DEF Index
<1> QED
  BY <1>1, <1>2 DEF Carrying, Index

(* fresh_candidate_id finds an id as long as there is one.                 *)
LEMMA AddCandidateSound ==
  ASSUME NEW r, Sound(r), NEW bytes \in Payload, NEW session \in Session \union {None}
  PROVE  /\ Sound(AddCandidate(r, bytes, session))
         /\ r.ok /\ (\E i \in FreeIds(r) : i < MaxId)
            => LET e == AddCandidate(r, bytes, session)
               IN /\ e.ok
                  /\ \E k \in FreeIds(r) :
                       /\ k < MaxId
                       /\ e.idx = Carrying(r.idx, k, session)
<1>1. r \in Drafts /\ r.idx \in Index
  BY DEF Sound, Drafts
<1>2. CASE ~ \E i \in FreeIds(r) : i < MaxId
  BY <1>2, FailedSound DEF AddCandidate
<1>3. CASE \E i \in FreeIds(r) : i < MaxId
  <2> DEFINE k == LeastOf(FreeIds(r))
             x == Carrying(r.idx, k, session)
             m == [r EXCEPT !.idx = x]
  <2>1. FreeIds(r) \in SUBSET Nat /\ FreeIds(r) \subseteq Id /\ MaxId \in Nat
    BY BoundsAssumption DEF FreeIds, Id
  <2>2. k \in FreeIds(r) /\ k \in Id /\ k \in Nat /\ k < MaxId
    <3>1. k \in FreeIds(r) /\ \A n \in FreeIds(r) : k <= n
      BY <1>3, <2>1, LeastNat
    <3> QED
      BY <1>3, <2>1, <3>1
  <2> HIDE DEF k
  <2>3. x \in Index
    BY <1>1, <2>2, CarryingType
  <2> HIDE DEF x
  <2>4. m \in Drafts /\ m.plan = r.plan /\ m.ok = r.ok /\ m.idx = x
    BY <1>1, <2>3 DEF Drafts
  <2>5. Sound(m)
    BY <2>4 DEF Sound
  <2>6. PutCandidate(k, bytes) \in Write /\ Fits(m.plan, PutCandidate(k, bytes))
    BY <2>2, WriteKinds DEF Fits, PutCandidate
  <2>7. AddCandidate(r, bytes, session) = Emit(m, PutCandidate(k, bytes))
    BY <1>3 DEF AddCandidate, k, x
  <2> HIDE DEF m
  <2>8. Sound(AddCandidate(r, bytes, session))
    BY <2>5, <2>6, <2>7, EmitSound
  <2>9. m.ok => AddCandidate(r, bytes, session).ok /\ AddCandidate(r, bytes, session).idx = x
    BY <2>4, <2>5, <2>6, <2>7, EmitLast
  <2> QED
    BY <2>2, <2>4, <2>8, <2>9 DEF x
<1> QED
  BY <1>2, <1>3

LEMMA UpdateSourceSound ==
  ASSUME NEW r, Sound(r), r.idx.active # None, r.img.active # None, ReturnsToSource(r)
  PROVE  Sound(UpdateSource(r)) /\ (r.ok => UpdateSource(r).ok /\ UpdateSource(r).idx = r.idx)
<1> DEFINE src == r.idx.active.source
           w   == PutCandidate(src, r.img.active)
<1>1. r.idx \in Index /\ r.img \in Disk
  BY DEF Sound, Drafts
<1>2. src \in Id /\ r.img.active \in Payload
  BY <1>1 DEF ReturnsToSource, Index, Active, Disk
<1>3. w \in Write /\ Fits(r.plan, w)
  BY <1>2, WriteKinds DEF Fits, PutCandidate
<1>4. UpdateSource(r) = r \/ UpdateSource(r) = Emit(r, w)
  BY DEF UpdateSource
<1> HIDE DEF w
<1> QED
  BY <1>3, <1>4, EmitSound, EmitLast

(* The active entry stays what it is, and is carried when its payload is   *)
(* there and an id is left.                                                *)
LEMMA CarrySound ==
  ASSUME NEW r, Sound(r)
  PROVE  /\ Sound(CarryActive(r))
         /\ /\ r.ok /\ r.idx.active # None /\ r.img.active # None
            /\ \E i \in FreeIds(r) : i < MaxId
            => /\ CarryActive(r).ok
               /\ \/ CarryActive(r).idx = r.idx
                  \/ \E k \in FreeIds(r), t \in Session \union {None} :
                       /\ k < MaxId
                       /\ CarryActive(r).idx = Carrying(r.idx, k, t)
<1>1. r.idx \in Index /\ r.img \in Disk
  BY DEF Sound, Drafts
<1>2. CASE ~r.ok \/ r.idx.active = None
  BY <1>2 DEF CarryActive
<1>3. CASE r.ok /\ r.idx.active # None /\ r.img.active = None
  BY <1>3, FailedSound DEF CarryActive
<1>4. CASE r.ok /\ r.idx.active # None /\ r.img.active # None /\ ReturnsToSource(r)
  BY <1>4, UpdateSourceSound DEF CarryActive
<1>5. CASE r.ok /\ r.idx.active # None /\ r.img.active # None /\ ~ReturnsToSource(r)
  <2>1. r.img.active \in Payload /\ r.idx.active.session \in Session \union {None}
    BY <1>1, <1>5 DEF Disk, Index, Active
  <2>2. CarryActive(r) = AddCandidate(r, r.img.active, r.idx.active.session)
    BY <1>5 DEF CarryActive
  <2>3. Sound(CarryActive(r))
    BY <2>1, <2>2, AddCandidateSound
  <2>4. (\E i \in FreeIds(r) : i < MaxId)
        => CarryActive(r).ok /\ \E k \in FreeIds(r) :
             k < MaxId /\ CarryActive(r).idx = Carrying(r.idx, k, r.idx.active.session)
    BY <1>5, <2>1, <2>2, AddCandidateSound
  <2> QED
    BY <2>1, <2>3, <2>4
<1> QED
  BY <1>2, <1>3, <1>4, <1>5

(* The index lets the entry go, then the payload goes.                     *)
LEMMA RemoveSound ==
  ASSUME NEW r, Sound(r), r.ok => r.idx.active = None
  PROVE  Sound(Emit(CommitIndex(r), PutActive(None)))
<1> DEFINE c == CommitIndex(r)
<1>1. Sound(c) /\ (c.ok => r.ok /\ c.plan # << >> /\ c.plan[Len(c.plan)] = PutIndex(r.idx))
  BY CommitSound
<1>2. c.ok => Fits(c.plan, PutActive(None))
  BY <1>1 DEF Fits, PutActive, PutIndex, LetsGo
<1>3. PutActive(None) \in Write
  BY WriteKinds
<1> HIDE DEF c
<1> QED
  BY <1>1, <1>2, <1>3, EmitSound DEF c

LEMMA SetAsideSound ==
  ASSUME NEW r, Sound(r)
  PROVE  Sound(SetAside(r))
<1>1. Sound(CarryActive(r))
  BY CarrySound
<1>2. Sound(Unlink(CarryActive(r)))
      /\ (CarryActive(r).ok => Unlink(CarryActive(r)).idx.active = None)
  BY <1>1, UnlinkSound
<1>3. ~CarryActive(r).ok => ~Unlink(CarryActive(r)).ok
  BY DEF Unlink
<1> QED
  BY <1>2, <1>3, RemoveSound DEF SetAside

(* The entry written names the payload written just before.                *)
LEMMA PutAndLinkSound ==
  ASSUME NEW r, Sound(r), NEW p \in Payload,
         NEW s \in Session, NEW source \in Id \union {None}
  PROVE  LET e == Emit(r, PutActive(p))
             m == [e EXCEPT !.idx.active = [session |-> s, source |-> source]]
         IN Sound(CommitIndex(m))
<1> DEFINE e == Emit(r, PutActive(p))
           a == [session |-> s, source |-> source]
           m == [e EXCEPT !.idx.active = a]
<1>1. Sound(e) /\ (r.ok => e.plan # << >> /\ Stores(e.plan[Len(e.plan)])) /\ (e.ok => r.ok)
  <2>1. PutActive(p) \in Write /\ Fits(r.plan, PutActive(p)) /\ Stores(PutActive(p))
    BY WriteKinds, ValuesAssumption DEF Fits, PutActive, Stores
  <2>2. e.ok => r.ok
    BY DEF Emit
  <2> QED
    BY <2>1, <2>2, EmitSound, EmitLast
<1>2. e \in Drafts /\ e.idx \in Index /\ a \in Active
  BY <1>1 DEF Sound, Drafts, Active
<1> HIDE DEF e, a
<1>3. m \in Drafts /\ m.plan = e.plan /\ m.ok = e.ok
  <2>1. [e.idx EXCEPT !.active = a] \in Index
    BY <1>2 DEF Index
  <2> QED
    BY <1>2, <2>1 DEF Drafts
<1>4. Sound(m) /\ (m.ok => m.plan # << >> /\ Stores(m.plan[Len(m.plan)]))
  BY <1>1, <1>3 DEF Sound
<1> HIDE DEF m
<1>5. Sound(CommitIndex(m))
  BY <1>4, CommitSound
<1> QED
  BY <1>5 DEF m, e, a

LEMMA TakeSnapshotSound ==
  ASSUME NEW r, Sound(r), NEW s \in Session, NEW doc \in Doc, NEW stamp \in Stamp
  PROVE  Sound(TakeSnapshot(r, s, doc, stamp))
<1> DEFINE foreign == r.idx.active # None /\ r.idx.active.session # s
           c       == IF foreign THEN CarryActive(r) ELSE r
           source  == IF c.idx.active = None THEN None ELSE c.idx.active.source
           payload == [doc |-> doc, session |-> s, source |-> source, stamp |-> stamp]
           linked  == [c EXCEPT !.idx.active = [session |-> s, source |-> source]]
<1>1. Sound(c) /\ c \in Drafts /\ c.idx \in Index
  BY CarrySound DEF Sound, Drafts
<1> HIDE DEF c
<1>2. source \in Id \union {None}
  BY <1>1 DEF Index, Active
<1> HIDE DEF source
<1>3. payload \in Payload
  BY <1>2 DEF Payload, Work
<1> HIDE DEF payload
<1>4. Emit(linked, PutActive(payload))
      = [Emit(c, PutActive(payload)) EXCEPT !.idx.active = [session |-> s, source |-> source]]
  BY <1>1 DEF Emit, Drafts
<1>5. Sound(CommitIndex(Emit(linked, PutActive(payload))))
  BY <1>1, <1>2, <1>3, <1>4, PutAndLinkSound
<1>6. TakeSnapshot(r, s, doc, stamp)
      = IF c.ok THEN CommitIndex(Emit(linked, PutActive(payload))) ELSE c
  BY DEF TakeSnapshot, c, source, payload
<1> QED
  BY <1>1, <1>5, <1>6

-----------------------------------------------------------------------------
(* Plans.                                                                  *)

LEMMA OrderedIsAligned ==
  ASSUME NEW p, Ordered(p), NEW d
  PROVE  Aligned(d, p)
BY DEF Ordered, Aligned, InOrder

LEMMA SoundIsReady ==
  ASSUME NEW r, Sound(r)
  PROVE  Ready(r)
BY OrderedIsAligned DEF Sound, Ready, Drafts

LEMMA DefaultType == DefaultIndex \in Index /\ ValidIndex(DefaultIndex)
BY BoundsAssumption DEF DefaultIndex, Index, ValidIndex, Id

LEMMA DraftSound ==
  ASSUME NEW x \in Index, disk \in Disk
  PROVE  Sound(Draft(x))
<1>1. Draft(x) \in Drafts /\ Draft(x).plan = << >>
  BY DEF Draft, Drafts
<1> QED
  BY <1>1, EmptyIsOrdered DEF Sound

LEMMA CurrentIndexType ==
  ASSUME disk \in Disk, disk.index # Corrupt
  PROVE  CurrentIndex \in Index
BY DefaultType DEF CurrentIndex, Disk

LEMMA ReconcileType ==
  ASSUME NEW x \in Index, disk \in Disk
  PROVE  Reconcile(x, disk) \in Index
<1> DEFINE held == {i \in Id : disk.cand[i] # None}
           over == {n \in x.next .. (x.next + MaxId + 1) : \A i \in held : i < n}
           rec  == Reconcile(x, disk)
<1>1. over \in SUBSET Nat /\ over # {}
  <2>1. x.next \in Nat /\ MaxId \in Nat
    BY BoundsAssumption DEF Index
  <2>2. x.next + MaxId + 1 \in over
    BY <2>1 DEF Id
  <2> QED
    BY <2>1, <2>2
<1>2. LeastOf(over) \in Nat
  BY <1>1, LeastNat
<1>3. rec.active \in Active \union {None}
  <2>1. disk.active \in Payload \union {None} /\ x.active \in Active \union {None}
    BY DEF Disk, Index
  <2> QED
    BY <2>1 DEF Reconcile, Payload, Active
<1>4. rec.carried \in [Id -> Session \union {None, Absent}]
  BY DEF Reconcile, Disk, Index, Payload
<1> HIDE DEF over
<1>5. rec = [next |-> rec.next, active |-> rec.active, carried |-> rec.carried]
  BY DEF Reconcile
<1>6. rec.next = LeastOf(over)
  BY DEF Reconcile, over
<1> QED
  BY <1>2, <1>3, <1>4, <1>5, <1>6 DEF Index

LEMMA ImportSound ==
  ASSUME NEW r, Sound(r), disk \in Disk
  PROVE  Sound(ImportLegacy(r))
<1>1. CASE disk.legacy = None
  BY <1>1 DEF ImportLegacy
<1>2. CASE disk.legacy # None
  <2> DEFINE p == [doc |-> disk.legacy, session |-> None, source |-> None,
                   stamp |-> CHOOSE t \in Stamp : TRUE]
  <2>1. p \in Payload
    <3>1. (CHOOSE t \in Stamp : TRUE) \in Stamp
      BY ValuesAssumption
    <3> QED
      BY <1>2, <3>1 DEF Disk, Payload, Work
  <2>2. ImportLegacy(r) = AddCandidate(r, p, None)
    BY <1>2 DEF ImportLegacy
  <2> QED
    BY <2>1, <2>2, AddCandidateSound
<1> QED
  BY <1>1, <1>2

LEMMA StartReady ==
  ASSUME disk \in Disk
  PROVE  Ready(StartPlan)
<1> DEFINE valid == disk.index \notin {None, Corrupt}
           base  == IF valid THEN disk.index ELSE DefaultIndex
           found == Draft(Reconcile(base, disk))
           r     == IF valid THEN found ELSE ImportLegacy(found)
<1>1. base \in Index
  BY DefaultType DEF Disk
<1> HIDE DEF base
<1>2. Sound(found)
  BY <1>1, ReconcileType, DraftSound
<1> HIDE DEF found
<1>3. Sound(r)
  BY <1>2, ImportSound
<1>4. StartPlan =
        IF ~r.ok \/ (disk.index = None /\ r.idx = DefaultIndex) THEN r
        ELSE IF r.idx.active = None THEN CommitIndex(r)
        ELSE IF r.idx.active.session # None /\ Live(r.idx.active.session) THEN r
        ELSE IF AlreadyCarried(r) THEN Emit(CommitIndex(Unlink(r)), PutActive(None))
        ELSE SetAside(r)
  BY DEF StartPlan, base, found
<1> HIDE DEF r, valid
<1>5. r.idx.active = None => Sound(CommitIndex(r))
  BY <1>3, CommitSound
<1>6. r.ok => Sound(Emit(CommitIndex(Unlink(r)), PutActive(None)))
  BY <1>3, UnlinkSound, RemoveSound
<1>7. Sound(SetAside(r))
  BY <1>3, SetAsideSound
<1>8. Sound(StartPlan)
  BY <1>3, <1>4, <1>5, <1>6, <1>7
<1> QED
  BY <1>8, SoundIsReady

LEMMA SnapshotSound ==
  ASSUME disk \in Disk, mem \in [Session -> [doc : Doc, dirty : BOOLEAN]],
         Usable, NEW s \in Session, NEW stamp \in Stamp
  PROVE  Sound(SnapshotPlan(s, stamp))
<1>1. Sound(Draft(CurrentIndex)) /\ mem[s].doc \in Doc
  BY CurrentIndexType, DraftSound DEF Usable
<1> QED
  BY <1>1, TakeSnapshotSound DEF SnapshotPlan

LEMMA RestoreReady ==
  ASSUME disk \in Disk, mem \in [Session -> [doc : Doc, dirty : BOOLEAN]], Usable,
         NEW s \in Session, NEW stamp \in Stamp, NEW c \in Id, disk.cand[c] # None
  PROVE  Ready(RestorePlan(s, c, stamp))
<1> DEFINE kept == IF mem[s].dirty THEN SnapshotPlan(s, stamp) ELSE Draft(CurrentIndex)
           free == SetAside(kept)
           p    == [doc |-> disk.cand[c].doc, session |-> s, source |-> c, stamp |-> stamp]
           put  == Emit(free, PutActive(p))
           last == CommitIndex([put EXCEPT !.idx.active = [session |-> s, source |-> c]])
<1>1. Sound(kept)
  BY SnapshotSound, CurrentIndexType, DraftSound DEF Usable
<1> HIDE DEF kept
<1>2. Sound(free)
  BY <1>1, SetAsideSound
<1> HIDE DEF free
<1>3. p \in Payload
  BY DEF Disk, Payload
<1> HIDE DEF p
<1>4. Sound(put)
  BY <1>2, <1>3, EmitSound, WriteKinds, ValuesAssumption DEF Fits, PutActive
<1>5. Sound(last)
  BY <1>2, <1>3, PutAndLinkSound
<1>6. RestorePlan(s, c, stamp) = IF put.ok THEN last ELSE put
  BY DEF RestorePlan, kept, free, p
<1> QED
  BY <1>4, <1>5, <1>6, SoundIsReady

LEMMA DiscardReady ==
  ASSUME disk \in Disk, NEW s \in Session, NEW withSource \in BOOLEAN
  PROVE  Ready(DiscardPlan(s, withSource))
<1> DEFINE r    == Draft(CurrentIndex)
           src  == IF withSource THEN r.idx.active.source ELSE None
           gone == IF src = None THEN Unlink(r)
                   ELSE [Unlink(r) EXCEPT !.idx.carried[src] = Absent]
           done == Emit(CommitIndex(gone), PutActive(None))
<1>1. DiscardPlan(s, withSource) =
        IF disk.index = None THEN Emit(r, DropLegacy)
        ELSE IF disk.index = Corrupt THEN Failed(r)
        ELSE IF r.idx.active = None THEN r
        ELSE IF r.idx.active.session # s THEN r
        ELSE IF src = None THEN done
        ELSE Emit(done, PutCandidate(src, None))
  BY DEF DiscardPlan
<1>2. CASE disk.index = Corrupt
  <2>1. Failed(r).plan = << >> /\ Failed(r).ok = FALSE
    BY DEF Failed, Draft
  <2>2. DiscardPlan(s, withSource) = Failed(r) \/ disk.index = None
    BY <1>1, <1>2
  <2>3. Ready(Failed(r))
    <3> HIDE DEF r
    <3>1. << >> \in Seq(Write)
      OBVIOUS
    <3> QED
      BY <2>1, <3>1, EmptyIsOrdered, OrderedIsAligned DEF Ready
  <2>4. disk.index = None => Sound(Emit(r, DropLegacy))
    <3>1. disk.index = None => Sound(r)
      BY DraftSound, DefaultType DEF CurrentIndex
    <3> QED
      BY <3>1, EmitSound, WriteKinds DEF Fits, DropLegacy
  <2> QED
    BY <1>1, <2>2, <2>3, <2>4, SoundIsReady
<1>3. CASE disk.index # Corrupt
  <2>1. Sound(r) /\ r.ok
    BY <1>3, CurrentIndexType, DraftSound DEF Draft
  <2>2. Sound(Emit(r, DropLegacy))
    BY <2>1, EmitSound, WriteKinds DEF Fits, DropLegacy
  <2> HIDE DEF r
  <2>3. Sound(Unlink(r)) /\ Unlink(r).idx.active = None
    BY <2>1, UnlinkSound
  <2>4. ASSUME r.idx.active # None PROVE src \in Id \union {None}
    BY <2>1, <2>4 DEF Sound, Drafts, Index, Active
  <2> HIDE DEF src
  <2>5. ASSUME r.idx.active # None PROVE Sound(gone) /\ gone.idx.active = None
    <3>1. CASE src = None
      BY <2>3, <3>1
    <3>2. CASE src # None
      <4> DEFINE u == Unlink(r)
      <4>1. u \in Drafts /\ u.idx \in Index /\ u.idx.active = None /\ src \in Id
        BY <2>3, <2>4, <2>5, <3>2 DEF Sound, Drafts
      <4> HIDE DEF u
      <4>2. [u.idx.carried EXCEPT ![src] = Absent] \in [Id -> Session \union {None, Absent}]
        BY <4>1 DEF Index
      <4> DEFINE x == [u.idx EXCEPT !.carried = [u.idx.carried EXCEPT ![src] = Absent]]
      <4>3. x \in Index /\ x.active = None
        BY <4>1, <4>2 DEF Index
      <4>4. gone = [u EXCEPT !.idx = x]
        BY <3>2 DEF u
      <4> HIDE DEF x
      <4>5. gone \in Drafts /\ gone.plan = u.plan /\ gone.idx = x
        BY <4>1, <4>3, <4>4 DEF Drafts
      <4> QED
        BY <2>3, <4>3, <4>5 DEF Sound, u
    <3> QED
      BY <3>1, <3>2
  <2> HIDE DEF gone
  <2>6. ASSUME r.idx.active # None PROVE Sound(done)
    BY <2>5, <2>6, RemoveSound
  <2> HIDE DEF done
  <2>7. ASSUME r.idx.active # None, src # None
        PROVE  Sound(Emit(done, PutCandidate(src, None)))
    BY <2>4, <2>6, <2>7, EmitSound, WriteKinds DEF Fits, PutCandidate
  <2> QED
    BY <1>1, <1>3, <2>1, <2>2, <2>6, <2>7, SoundIsReady
<1> QED
  BY <1>2, <1>3

(* The index is written with the active entry it had, whose payload exists *)
(* already.                                                                *)
LEMMA DropReady ==
  ASSUME disk \in Disk, disk.index \notin {None, Corrupt}, IndexSound, NEW c \in Id
  PROVE  Ready(DropCandidatePlan(c))
<1> DEFINE x == [CurrentIndex EXCEPT !.carried[c] = Absent]
           w == PutCandidate(c, None)
<1>1. CurrentIndex = disk.index /\ CurrentIndex \in Index
  BY CurrentIndexType DEF CurrentIndex
<1>2. x \in Index /\ x.active = disk.index.active
  <2>1. [CurrentIndex.carried EXCEPT ![c] = Absent] \in [Id -> Session \union {None, Absent}]
    BY <1>1 DEF Index
  <2> QED
    BY <1>1, <2>1 DEF Index
<1>4. Draft(x) \in Drafts /\ Draft(x).plan = << >> /\ Draft(x).ok = TRUE /\ Draft(x).idx = x
  BY <1>2, DraftSound DEF Sound, Draft
<1>5. w \in Write /\ w.file = "cand"
  BY WriteKinds DEF PutCandidate
<1>6. PutIndex(x) \in Write /\ PutIndex(x).file = "index" /\ PutIndex(x).val = x
  BY <1>2, WriteKinds DEF PutIndex
<1>7. DropCandidatePlan(c) = Emit(CommitIndex(Draft(x)), w)
  BY DEF DropCandidatePlan
<1> HIDE DEF x, w
<1>8. CASE ValidIndex(x)
  <2> DEFINE p == Append(Append(<< >>, PutIndex(x)), w)
  <2>1. DropCandidatePlan(c).plan = p /\ DropCandidatePlan(c).ok
    <3>1. CommitIndex(Draft(x)) = Emit(Draft(x), PutIndex(x))
      BY <1>4, <1>8 DEF CommitIndex
    <3> QED
      BY <1>4, <1>5, <1>6, <1>7, <3>1, EmitPlan
  <2>2. p \in Seq(Write) /\ Len(p) = 2 /\ p[1] = PutIndex(x) /\ p[2] = w
    BY <1>5, <1>6, TwoWrites
  <2>3. x.active # None => disk.active # None
    BY <1>2 DEF IndexSound
  <2> HIDE DEF p
  <2>4. Aligned(disk, p)
    BY <1>5, <1>6, <1>8, <2>2, <2>3 DEF Aligned, InOrder
  <2> QED
    BY <2>1, <2>2, <2>4 DEF Ready
<1>9. CASE ~ValidIndex(x)
  <2>1. DropCandidatePlan(c).plan = << >> /\ DropCandidatePlan(c).ok = FALSE
    BY <1>4, <1>7, <1>9 DEF CommitIndex, Emit, Failed, Draft
  <2>2. << >> \in Seq(Write)
    OBVIOUS
  <2> QED
    BY <2>1, <2>2, EmptyIsOrdered, OrderedIsAligned DEF Ready
<1> QED
  BY <1>8, <1>9

-----------------------------------------------------------------------------
(* The state, part by part.                                                *)

TxOK ==
  /\ tx \in Transaction \union {None}
  /\ tx # None /\ tx.op = "restore" => tx.load # None
  /\ tx # None => Aligned(disk, tx.plan)

StoreOK ==
  /\ life \in [Session -> {"new", "up", "down"}]
  /\ closing \in SUBSET Session
  /\ mem \in [Session -> [doc : Doc, dirty : BOOLEAN]]
  /\ opened \in [Session -> Id \union {None}]

OwedOK ==
  /\ mine \in [Session -> SUBSET Doc]
  /\ shelf \in SUBSET (SUBSET Doc)

Spending ==
  [crash : Nat, left : Nat, fault : Nat, damage : Nat, restore : Nat, discard : Nat,
   late : Nat]

SpentOK == spent \in Spending

LEMMA Parts ==
  IInv <=> disk \in Disk /\ IndexSound /\ TxOK /\ StoreOK /\ OwedOK /\ SpentOK
BY DEF IInv, TypeOK, TxOK, StoreOK, OwedOK, SpentOK, Spending

LEMMA PartsPrimed ==
  IInv' <=> disk' \in Disk /\ IndexSound' /\ TxOK' /\ StoreOK' /\ OwedOK' /\ SpentOK'
BY DEF IInv, TypeOK, TxOK, StoreOK, OwedOK, SpentOK, Spending

(* An operation takes the lock with a plan that may run on this disk.      *)
LEMMA BeginOK ==
  ASSUME disk \in Disk, StoreOK,
         NEW s \in Session, NEW op \in Operations, NEW c \in Id \union {None},
         NEW r, Ready(r), Begin(s, op, c, r), disk' = disk,
         op = "restore" => c \in Id /\ disk.cand[c] # None /\ disk.cand[c].doc # Unreadable
  PROVE  TxOK' /\ tx' \in Transaction
<1> DEFINE load == IF op = "restore" THEN disk.cand[c].doc ELSE None
           new == [who |-> s, op |-> op, id |-> c, doc |-> mem[s].doc, dirty |-> mem[s].dirty,
                   load |-> load, ok |-> r.ok, plan |-> r.plan]
<1>1. tx' = new
  BY DEF Begin
<1>2. mem[s].doc \in Doc /\ mem[s].dirty \in BOOLEAN
  BY DEF StoreOK
<1>3. load \in Doc \union {None} /\ (op = "restore" => load # None)
  <2>1. CASE op = "restore"
    <3>1. disk.cand[c] \in Payload
      BY <2>1 DEF Disk
    <3>2. disk.cand[c].doc \in Doc
      BY <2>1, <3>1 DEF Payload, Work
    <3> QED
      BY <2>1, <3>2, ValuesAssumption
  <2>2. CASE op # "restore"
    BY <2>2
  <2> QED
    BY <2>1, <2>2
<1> HIDE DEF load
<1>4. r.ok \in BOOLEAN /\ r.plan \in Seq(Write) /\ Aligned(disk, r.plan)
  BY DEF Ready
<1>5. new \in Transaction
  BY <1>2, <1>3, <1>4 DEF Transaction
<1>6. new.op = op /\ new.load = load /\ new.plan = r.plan
  OBVIOUS
<1> HIDE DEF new
<1> QED
  BY <1>1, <1>3, <1>4, <1>5, <1>6 DEF TxOK

LEMMA GoneOK ==
  ASSUME StoreOK, OwedOK, NEW s \in Session, Gone(s)
  PROVE  StoreOK' /\ OwedOK'
<1>1. Blank \in [doc : Doc, dirty : BOOLEAN]
  BY EmptyDoc DEF Blank
<1>2. StoreOK'
  BY <1>1 DEF StoreOK, Gone
<1>3. Shelved(s, mine) \in SUBSET (SUBSET Doc)
  BY DEF OwedOK, Shelved
<1> QED
  BY <1>2, <1>3 DEF OwedOK, Gone

LEMMA OwedOps ==
  ASSUME StoreOK, OwedOK
  PROVE  /\ \A s \in Session : Widened(s) \in [Session -> SUBSET Doc]
         /\ \A d : Without(mine, d) \in [Session -> SUBSET Doc]
<1>1. \A s \in Session : mem[s].doc \in Doc
  BY DEF StoreOK
<1> QED
  BY <1>1 DEF OwedOK, Widened, Without

LEMMA StampType ==
  ASSUME disk \in Disk, NEW doc
  PROVE  StampsFor(doc) \subseteq Stamp
BY DEF StampsFor, Disk, Payload

-----------------------------------------------------------------------------
(* Steps.                                                                  *)

LEMMA InitOK == Init => IInv
<1> SUFFICES ASSUME Init PROVE IInv
  OBVIOUS
<1>1. PICK old \in Legacy \union {None} :
        /\ disk = [index |-> None, active |-> None, cand |-> [i \in Id |-> None],
                   legacy |-> old]
        /\ shelf = IF old = None THEN {} ELSE {{old}}
  BY DEF Init
<1>2. disk \in Disk /\ disk.index = None
  BY <1>1, ValuesAssumption DEF Disk
<1>3. IndexSound
  BY <1>2 DEF IndexSound
<1>4. TxOK
  BY DEF Init, TxOK
<1>5. StoreOK
  BY EmptyDoc DEF Init, StoreOK, Blank
<1>6. OwedOK
  BY <1>1, ValuesAssumption DEF Init, OwedOK
<1>7. SpentOK
  BY DEF Init, SpentOK, Spending, NothingSpent
<1> QED
  BY <1>2, <1>3, <1>4, <1>5, <1>6, <1>7, Parts

(* What stays when the disk, and the operation under way, stay.            *)
LEMMA SameDisk ==
  ASSUME disk' = disk
  PROVE  /\ disk \in Disk => disk' \in Disk
         /\ IndexSound => IndexSound'
         /\ TxOK /\ tx' \in {tx, None} => TxOK'
BY DEF IndexSound, TxOK

LEMMA SpentType ==
  ASSUME NEW u \in Spending
  PROVE  /\ [u EXCEPT !.crash = @ + 1] \in Spending
         /\ [u EXCEPT !.left = 1] \in Spending
         /\ [u EXCEPT !.fault = @ + 1] \in Spending
         /\ [u EXCEPT !.damage = @ + 1] \in Spending
         /\ [u EXCEPT !.restore = @ + 1] \in Spending
         /\ [u EXCEPT !.discard = @ + 1] \in Spending
BY DEF Spending

(* What comes late is counted, and nothing else; without it, nothing is.   *)
LEMMA LateParts ==
  ASSUME NEW s, NEW u \in Spending, CountLate(s, u)
  PROVE  /\ spent' \in Spending
         /\ spent'.crash = u.crash /\ spent'.left = u.left /\ spent'.fault = u.fault
         /\ spent'.damage = u.damage /\ spent'.restore = u.restore
         /\ spent'.discard = u.discard
         /\ s \in closing => spent'.late = u.late + 1 /\ spent'.late # 0
         /\ s \notin closing => spent' = u
BY DEF CountLate, Spending

LEMMA StartOK ==
  ASSUME IInv, NEW s \in Session, Start(s)
  PROVE  IInv'
<1>1. disk' = disk /\ Begin(s, "start", None, StartPlan)
  BY DEF Start
<1>2. TxOK'
  BY <1>1, Parts, StartReady, BeginOK DEF Operations
<1>3. StoreOK' /\ OwedOK' /\ SpentOK'
  BY Parts DEF Start, StoreOK, OwedOK, SpentOK
<1> QED
  BY <1>1, <1>2, <1>3, Parts, PartsPrimed, SameDisk

LEMMA ChangeOK ==
  ASSUME IInv, NEW s \in Session, Change(s)
  PROVE  IInv'
<1>1. disk' = disk /\ tx' = tx
  BY DEF Change
<1>2. mem[s].doc \in Doc
  BY Parts DEF StoreOK
<1>3. PICK next \in {Append(mem[s].doc, e) : e \in Edit} \union
                    (IF mem[s].doc = << >> THEN {}
                     ELSE {SubSeq(mem[s].doc, 1, Len(mem[s].doc) - 1)}) :
        /\ Len(next) <= MaxLen
        /\ mem' = [mem EXCEPT ![s] = [doc |-> next, dirty |-> TRUE]]
  BY DEF Change
<1>4. mem[s].doc \in Seq(Edit)
  BY <1>2, DocIsSeq, Zenon
<1>5. next \in Seq(Edit)
  <2>1. \A d \in Seq(Edit), e \in Edit : Append(d, e) \in Seq(Edit)
    OBVIOUS
  <2>2. \A d \in Seq(Edit) : d # << >> => SubSeq(d, 1, Len(d) - 1) \in Seq(Edit)
    OBVIOUS
  <2> QED
    BY <1>3, <1>4, <2>1, <2>2
<1>6. next \in Doc
  BY <1>3, <1>5, DocIsSeq, Zenon
<1>7. StoreOK'
  BY <1>3, <1>6, Parts DEF Change, StoreOK
<1>8. OwedOK' /\ SpentOK'
  BY Parts, LateParts DEF Change, OwedOK, SpentOK
<1> QED
  BY <1>1, <1>7, <1>8, Parts, PartsPrimed, SameDisk

LEMMA SnapshotsSound ==
  ASSUME IInv, Usable, NEW s \in Session, NEW r \in Snapshots(s)
  PROVE  Sound(r)
<1>1. PICK stamp \in StampsFor(mem[s].doc) : r = SnapshotPlan(s, stamp)
  BY DEF Snapshots
<1>2. stamp \in Stamp
  BY Parts, StampType
<1> QED
  BY <1>1, <1>2, Parts, SnapshotSound DEF StoreOK

LEMMA AutosaveOK ==
  ASSUME IInv, NEW s \in Session, Autosave(s)
  PROVE  IInv'
<1>1. PICK r \in Snapshots(s) : Begin(s, "autosave", None, r)
  BY DEF Autosave
<1>2. Ready(r) /\ disk' = disk
  BY SnapshotsSound, SoundIsReady DEF Autosave
<1>3. TxOK'
  BY <1>1, <1>2, Parts, BeginOK DEF Operations
<1>4. StoreOK' /\ SpentOK'
  BY Parts DEF Autosave, StoreOK, SpentOK
<1>5. OwedOK'
  BY Parts, OwedOps DEF Autosave, OwedOK
<1> QED
  BY <1>2, <1>3, <1>4, <1>5, Parts, PartsPrimed, SameDisk

LEMMA ReplaceOK ==
  ASSUME IInv, NEW s \in Session, Replace(s)
  PROVE  IInv'
<1>1. PICK r \in Snapshots(s) : Begin(s, "replace", None, SetAside(r))
  BY DEF Replace
<1>2. Ready(SetAside(r)) /\ disk' = disk
  BY SnapshotsSound, SetAsideSound, SoundIsReady DEF Replace
<1>3. TxOK'
  BY <1>1, <1>2, Parts, BeginOK DEF Operations
<1>4. StoreOK' /\ SpentOK'
  BY Parts DEF Replace, StoreOK, SpentOK
<1>5. OwedOK'
  BY Parts, OwedOps DEF Replace, OwedOK
<1> QED
  BY <1>2, <1>3, <1>4, <1>5, Parts, PartsPrimed, SameDisk

LEMMA ReplaceSavedOK ==
  ASSUME IInv, NEW s \in Session, ReplaceSaved(s)
  PROVE  IInv'
<1>1. disk' = disk /\ tx' = tx
  BY DEF ReplaceSaved
<1>2. Blank \in [doc : Doc, dirty : BOOLEAN]
  BY EmptyDoc DEF Blank
<1>3. StoreOK' /\ OwedOK' /\ SpentOK'
  BY <1>2, Parts DEF ReplaceSaved, StoreOK, OwedOK, SpentOK
<1> QED
  BY <1>1, <1>3, Parts, PartsPrimed, SameDisk

LEMMA RestoreOK ==
  ASSUME IInv, NEW s \in Session, NEW c \in Id, Restore(s, c)
  PROVE  IInv'
<1>1. PICK stamp \in Stamp : Begin(s, "restore", c, RestorePlan(s, c, stamp))
  BY DEF Restore
<1>2. disk.cand[c] # None /\ disk.cand[c].doc # Unreadable
  BY DEF Restore, Shown, Listed
<1>3. Ready(RestorePlan(s, c, stamp))
  BY <1>2, Parts, RestoreReady DEF Restore, StoreOK, Usable
<1>4. disk' = disk
  BY DEF Restore
<1>5. TxOK'
  BY <1>1, <1>2, <1>3, <1>4, Parts, BeginOK DEF Operations
<1>6. StoreOK'
  BY Parts DEF Restore, StoreOK
<1>7. SpentOK'
  <2>1. [spent EXCEPT !.restore = @ + 1] \in Spending
    BY Parts, SpentType DEF SpentOK
  <2> QED
    BY <2>1, LateParts DEF Restore, SpentOK
<1>8. OwedOK'
  BY Parts, OwedOps DEF Restore, OwedOK
<1> QED
  BY <1>4, <1>5, <1>6, <1>7, <1>8, Parts, PartsPrimed, SameDisk

LEMMA DiscardCandidateOK ==
  ASSUME IInv, NEW s \in Session, NEW c \in Id, DiscardCandidate(s, c)
  PROVE  IInv'
<1>1. Begin(s, "discard", c, DropCandidatePlan(c)) /\ disk' = disk
  BY DEF DiscardCandidate
<1>2. Ready(DropCandidatePlan(c))
  BY Parts, DropReady DEF DiscardCandidate
<1>3. TxOK'
  BY <1>1, <1>2, Parts, BeginOK DEF Operations
<1>4. StoreOK'
  BY Parts DEF DiscardCandidate, StoreOK
<1>5. SpentOK'
  BY Parts, SpentType DEF DiscardCandidate, SpentOK
<1>6. OwedOK'
  BY Parts, OwedOps DEF DiscardCandidate, OwedOK
<1> QED
  BY <1>1, <1>3, <1>4, <1>5, <1>6, Parts, PartsPrimed, SameDisk

LEMMA SaveOK ==
  ASSUME IInv, NEW s \in Session, Save(s)
  PROVE  IInv'
<1>1. Begin(s, "save", opened[s], DiscardPlan(s, TRUE)) /\ disk' = disk
  BY DEF Save
<1>2. Ready(DiscardPlan(s, TRUE)) /\ opened[s] \in Id \union {None}
  BY Parts, DiscardReady DEF StoreOK
<1>3. TxOK'
  BY <1>1, <1>2, Parts, BeginOK DEF Operations
<1>4. StoreOK'
  BY Parts DEF Save, StoreOK
<1>5. OwedOK' /\ SpentOK'
  BY Parts DEF Save, OwedOK, SpentOK
<1> QED
  BY <1>1, <1>3, <1>4, <1>5, Parts, PartsPrimed, SameDisk

LEMMA CloseOK ==
  ASSUME IInv, NEW s \in Session, Close(s)
  PROVE  IInv'
<1>1. disk' = disk /\ tx' = tx
  BY DEF Close
<1>2. StoreOK' /\ OwedOK' /\ SpentOK'
  BY Parts DEF Close, StoreOK, OwedOK, SpentOK
<1> QED
  BY <1>1, <1>2, Parts, PartsPrimed, SameDisk

LEMMA ExitOK ==
  ASSUME IInv, NEW s \in Session, Exit(s)
  PROVE  IInv'
<1>1. Begin(s, "exit", None, DiscardPlan(s, FALSE)) /\ disk' = disk
  BY DEF Exit
<1>2. Ready(DiscardPlan(s, FALSE))
  BY Parts, DiscardReady
<1>3. TxOK'
  BY <1>1, <1>2, Parts, BeginOK DEF Operations
<1>4. StoreOK' /\ OwedOK' /\ SpentOK'
  BY Parts DEF Exit, StoreOK, OwedOK, SpentOK
<1> QED
  BY <1>1, <1>3, <1>4, Parts, PartsPrimed, SameDisk

LEMMA TailFacts ==
  ASSUME NEW p \in Seq(Write), p # << >>
  PROVE  /\ Len(p) \in Nat \ {0} /\ Head(p) = p[1] /\ p[1] \in Write
         /\ Tail(p) \in Seq(Write) /\ Len(Tail(p)) = Len(p) - 1
         /\ \A n \in 1 .. Len(p) - 1 : Tail(p)[n] = p[n + 1]
OBVIOUS

(* What the rest of a plan needs, but for its first write, does not depend *)
(* on the disk.                                                            *)
LEMMA TailAligned ==
  ASSUME NEW p \in Seq(Write), p # << >>, NEW d, Aligned(d, p), NEW e,
         LetsGo(p[1]) => e.index.active = None,
         Stores(p[1]) => e.active # None
  PROVE  Aligned(e, Tail(p))
<1> DEFINE q     == Tail(p)
           first == e.index \in {None, Corrupt} \/ e.index.active = None
<1>1. /\ Len(p) \in Nat \ {0} /\ Len(q) = Len(p) - 1
      /\ \A n \in 1 .. Len(p) - 1 : q[n] = p[n + 1]
  BY TailFacts
<1> HIDE DEF q
<1>2. ASSUME NEW n \in 1 .. Len(q) PROVE InOrder(q, n, first, e.active # None)
  <2>1. n \in Nat /\ n + 1 \in 1 .. Len(p) /\ n + 1 # 1 /\ (n + 1) - 1 = n
    BY <1>1
  <2>2. q[n] = p[n + 1] /\ (n # 1 => q[n - 1] = p[n])
    BY <1>1
  <2>3. /\ q[n].file = "index" => ValidIndex(q[n].val)
        /\ q[n].file = "active" /\ q[n].val = None => LetsGo(p[n])
        /\ q[n].file = "index" /\ q[n].val.active # None => Stores(p[n])
    BY <2>1, <2>2 DEF Aligned, InOrder
  <2>4. n = 1 => (LetsGo(p[n]) => first) /\ (Stores(p[n]) => e.active # None)
    OBVIOUS
  <2> HIDE DEF first
  <2> QED
    BY <2>2, <2>3, <2>4 DEF InOrder
<1> QED
  BY <1>2 DEF Aligned, q

LEMMA WriteFileOK ==
  ASSUME IInv, WriteFile
  PROVE  IInv'
<1> DEFINE p == tx.plan
           w == p[1]
<1>1. tx \in Transaction /\ p \in Seq(Write) /\ p # << >> /\ Aligned(disk, p)
  BY Parts DEF WriteFile, TxOK, Transaction
<1>2. w \in Write /\ disk' = Apply(disk, w) /\ tx' = [tx EXCEPT !.plan = Tail(p)]
      /\ Tail(p) \in Seq(Write) /\ 1 \in 1 .. Len(p)
  BY <1>1, TailFacts DEF WriteFile
<1>3. InOrder(p, 1, disk.index \in {None, Corrupt} \/ disk.index.active = None,
              disk.active # None)
  BY <1>1, <1>2 DEF Aligned
<1>4. /\ w.file = "index" => ValidIndex(w.val)
      /\ w.file = "active" /\ w.val = None
         => disk.index \in {None, Corrupt} \/ disk.index.active = None
      /\ w.file = "index" /\ w.val.active # None => disk.active # None
  BY <1>3 DEF InOrder
<1> HIDE DEF p, w
<1>5. disk' \in Disk
  BY <1>2, Parts, ApplyType
<1>6. /\ w.file = "index" => disk'.index = w.val /\ disk'.active = disk.active
      /\ w.file = "active" => disk'.index = disk.index /\ disk'.active = w.val
      /\ w.file \in {"cand", "legacy"}
         => disk'.index = disk.index /\ disk'.active = disk.active
  BY <1>2, Parts DEF Apply, Disk
<1>7. w.file \in {"index", "active", "cand", "legacy"}
  BY <1>2 DEF Write
<1>8. IndexSound'
  BY <1>4, <1>6, <1>7, Parts DEF IndexSound
<1>9. Aligned(disk', Tail(p))
  <2>1. LetsGo(w) => disk'.index.active = None
    BY <1>6 DEF LetsGo
  <2>2. Stores(w) => disk'.active # None
    BY <1>6 DEF Stores
  <2> QED
    BY <1>1, <2>1, <2>2, TailAligned DEF w
<1>10. TxOK'
  <2>1. tx' \in Transaction /\ tx'.op = tx.op /\ tx'.load = tx.load /\ tx'.plan = Tail(p)
    BY <1>1, <1>2 DEF Transaction
  <2>2. tx # None
    BY DEF WriteFile
  <2> QED
    BY <1>9, <2>1, <2>2, Parts DEF TxOK
<1>11. StoreOK' /\ OwedOK' /\ SpentOK'
  BY Parts DEF WriteFile, StoreOK, OwedOK, SpentOK
<1> QED
  BY <1>5, <1>8, <1>10, <1>11, PartsPrimed

(* A write that failed ends the plan, or was a removal, which no later     *)
(* write of the plan needs.                                                *)
LEMMA WriteFailsOK ==
  ASSUME IInv, WriteFails
  PROVE  IInv'
<1> DEFINE p == tx.plan
<1>1. tx \in Transaction /\ tx # None /\ p \in Seq(Write) /\ p # << >> /\ Aligned(disk, p)
  BY Parts DEF WriteFails, TxOK, Transaction
<1>2. disk' = disk
  BY DEF WriteFails
<1>3. ASSUME tx' = [tx EXCEPT !.plan = << >>, !.ok = FALSE] PROVE TxOK'
  <2>1. << >> \in Seq(Write)
    OBVIOUS
  <2>2. tx' \in Transaction /\ tx'.op = tx.op /\ tx'.load = tx.load /\ tx'.plan = << >>
    BY <1>1, <1>3, <2>1 DEF Transaction
  <2>3. Aligned(disk', << >>)
    BY EmptyIsOrdered, OrderedIsAligned
  <2> QED
    BY <1>1, <2>2, <2>3, Parts DEF TxOK
<1>4. ASSUME tx' = [tx EXCEPT !.plan = Tail(@)], IsRemoval(Head(p)) PROVE TxOK'
  <2>1. ~LetsGo(p[1]) /\ ~Stores(p[1]) /\ Tail(p) \in Seq(Write)
    BY <1>1, <1>4, TailFacts DEF IsRemoval, LetsGo, Stores
  <2>2. Aligned(disk', Tail(p))
    BY <1>1, <2>1, TailAligned
  <2>3. tx' \in Transaction /\ tx'.op = tx.op /\ tx'.load = tx.load /\ tx'.plan = Tail(p)
    BY <1>1, <1>4, <2>1 DEF Transaction
  <2> QED
    BY <1>1, <2>2, <2>3, Parts DEF TxOK
<1>5. TxOK'
  BY <1>3, <1>4 DEF WriteFails
<1>6. StoreOK' /\ OwedOK'
  BY Parts DEF WriteFails, StoreOK, OwedOK
<1>7. SpentOK'
  BY Parts, SpentType DEF WriteFails, SpentOK
<1> QED
  BY <1>2, <1>5, <1>6, <1>7, Parts, PartsPrimed, SameDisk

LEMMA FinishOK ==
  ASSUME IInv, Finish
  PROVE  IInv'
<1> DEFINE s == tx.who
<1>1. disk' = disk /\ tx' = None /\ spent' = spent
  BY DEF Finish
<1>2. tx \in Transaction /\ (tx.op = "restore" => tx.load # None)
  BY Parts DEF Finish, TxOK
<1>3. s \in Session /\ tx.doc \in Doc /\ tx.id \in Id \union {None}
      /\ (tx.op = "restore" => tx.load \in Doc)
  BY <1>2 DEF Transaction
<1>4. \/ FinishAutosave(s) \/ FinishReplace(s) \/ FinishRestore(s)
      \/ FinishSave(s) \/ FinishExit(s) \/ FinishOther(s)
  BY DEF Finish
<1> HIDE DEF s
<1>5. StoreOK /\ OwedOK /\ Blank \in [doc : Doc, dirty : BOOLEAN]
  BY Parts, EmptyDoc DEF Blank
<1>6. ASSUME FinishAutosave(s) PROVE StoreOK' /\ OwedOK'
  <2>1. StoreOK'
    BY <1>5, <1>6 DEF FinishAutosave, StoreOK
  <2>2. OwedOK'
    BY <1>3, <1>5, <1>6 DEF FinishAutosave, OwedOK
  <2> QED
    BY <2>1, <2>2
<1>7. ASSUME FinishReplace(s) PROVE StoreOK' /\ OwedOK'
  <2>1. StoreOK'
    BY <1>5, <1>7 DEF FinishReplace, StoreOK
  <2>2. OwedOK'
    BY <1>3, <1>5, <1>7 DEF FinishReplace, OwedOK
  <2> QED
    BY <2>1, <2>2
<1>8. ASSUME FinishRestore(s) PROVE StoreOK' /\ OwedOK'
  <2>1. tx.load \in Doc /\ tx.id \in Id \union {None}
    BY <1>3, <1>8 DEF FinishRestore
  <2>2. StoreOK'
    BY <1>5, <1>8, <2>1 DEF FinishRestore, StoreOK
  <2>3. Without(mine, tx.load) \in [Session -> SUBSET Doc]
    BY <1>5, OwedOps
  <2>4. OwedOK'
    BY <1>3, <1>5, <1>8, <2>1, <2>3 DEF FinishRestore, OwedOK
  <2> QED
    BY <2>2, <2>4
<1>9. ASSUME FinishSave(s) PROVE StoreOK' /\ OwedOK'
  BY <1>5, <1>9 DEF FinishSave, StoreOK, OwedOK
<1>10. ASSUME FinishExit(s) PROVE StoreOK' /\ OwedOK'
  BY <1>3, <1>5, <1>10, GoneOK DEF FinishExit
<1>11. ASSUME FinishOther(s) PROVE StoreOK' /\ OwedOK'
  BY <1>5, <1>11 DEF FinishOther, StoreOK, OwedOK
<1>12. StoreOK' /\ OwedOK'
  BY <1>4, <1>6, <1>7, <1>8, <1>9, <1>10, <1>11
<1>13. SpentOK'
  BY <1>1, Parts DEF SpentOK
<1> QED
  BY <1>1, <1>12, <1>13, Parts, PartsPrimed, SameDisk

LEMMA CrashOK ==
  ASSUME IInv, NEW s \in Session, Crash(s)
  PROVE  IInv'
<1>1. disk' = disk /\ tx' \in {tx, None} /\ Gone(s)
  BY DEF Crash
<1>2. StoreOK' /\ OwedOK'
  BY <1>1, Parts, GoneOK
<1>3. SpentOK'
  BY Parts, SpentType DEF Crash, SpentOK
<1> QED
  BY <1>1, <1>2, <1>3, Parts, PartsPrimed, SameDisk

LEMMA LeaveOK ==
  ASSUME IInv, NEW s \in Session, Leave(s)
  PROVE  IInv'
<1>1. disk' = disk /\ tx' = tx /\ Gone(s)
  BY DEF Leave
<1>2. StoreOK' /\ OwedOK'
  BY <1>1, Parts, GoneOK
<1>3. SpentOK'
  BY Parts, SpentType DEF Leave, SpentOK
<1> QED
  BY <1>1, <1>2, <1>3, Parts, PartsPrimed, SameDisk

LEMMA DamageOK ==
  ASSUME IInv, Damage
  PROVE  IInv'
<1>1. tx = None /\ tx' = tx
  BY DEF Damage
<1>2. SpentOK'
  BY Parts, SpentType DEF Damage, SpentOK
<1>3. StoreOK'
  BY Parts DEF Damage, StoreOK
<1>4. \A d : {o \in shelf : d \notin o} \in SUBSET (SUBSET Doc)
  BY Parts DEF OwedOK
<1>5. OwedOK'
  BY <1>4, Parts, OwedOps DEF Damage, OwedOK
<1>6. \A p \in Payload : Damaged(p) \in Payload
  BY DEF Damaged, Payload, Work
<1>7. disk' \in Disk /\ IndexSound'
  <2>1. disk \in Disk /\ IndexSound
    BY Parts
  <2>2. ASSUME disk' = [disk EXCEPT !.index = Corrupt] PROVE disk' \in Disk /\ IndexSound'
    BY <2>1, <2>2 DEF Disk, IndexSound
  <2>3. ASSUME disk.active # None, disk' = [disk EXCEPT !.active = Damaged(@)]
        PROVE  disk' \in Disk /\ IndexSound'
    <3>1. disk.active \in Payload /\ Damaged(disk.active) \in Payload
      BY <1>6, <2>1, <2>3 DEF Disk
    <3>2. disk' \in Disk /\ disk'.index = disk.index /\ disk'.active \in Payload
      BY <2>1, <2>3, <3>1 DEF Disk
    <3> QED
      BY <2>1, <3>2, ValuesAssumption DEF IndexSound
  <2>4. ASSUME NEW c \in Id, disk.cand[c] # None, disk' = [disk EXCEPT !.cand[c] = Damaged(@)]
        PROVE  disk' \in Disk /\ IndexSound'
    <3>1. disk.cand[c] \in Payload /\ Damaged(disk.cand[c]) \in Payload
      BY <1>6, <2>1, <2>4 DEF Disk
    <3>2. disk' \in Disk /\ disk'.index = disk.index /\ disk'.active = disk.active
      BY <2>1, <2>4, <3>1 DEF Disk
    <3> QED
      BY <2>1, <3>2 DEF IndexSound
  <2> QED
    BY <2>2, <2>3, <2>4 DEF Damage
<1>8. TxOK'
  BY <1>1 DEF TxOK
<1> QED
  BY <1>2, <1>3, <1>5, <1>7, <1>8, PartsPrimed

LEMMA StepOK == IInv /\ [Next]_vars => IInv'
<1> SUFFICES ASSUME IInv, [Next]_vars PROVE IInv'
  OBVIOUS
<1>1. ASSUME NEW s \in Session, Start(s) PROVE IInv'
  BY <1>1, StartOK
<1>2. ASSUME NEW s \in Session, Change(s) PROVE IInv'
  BY <1>2, ChangeOK
<1>3. ASSUME NEW s \in Session, Autosave(s) PROVE IInv'
  BY <1>3, AutosaveOK
<1>4. ASSUME NEW s \in Session, Replace(s) PROVE IInv'
  BY <1>4, ReplaceOK
<1>5. ASSUME NEW s \in Session, ReplaceSaved(s) PROVE IInv'
  BY <1>5, ReplaceSavedOK
<1>6. ASSUME NEW s \in Session, Save(s) PROVE IInv'
  BY <1>6, SaveOK
<1>7. ASSUME NEW s \in Session, Exit(s) PROVE IInv'
  BY <1>7, ExitOK
<1>8. ASSUME NEW s \in Session, Leave(s) PROVE IInv'
  BY <1>8, LeaveOK
<1>9. ASSUME NEW s \in Session, Crash(s) PROVE IInv'
  BY <1>9, CrashOK
<1>10. ASSUME NEW s \in Session, NEW c \in Id, Restore(s, c) PROVE IInv'
  BY <1>10, RestoreOK
<1>11. ASSUME NEW s \in Session, NEW c \in Id, DiscardCandidate(s, c) PROVE IInv'
  BY <1>11, DiscardCandidateOK
<1>12. CASE UNCHANGED vars
  BY <1>12, Parts, PartsPrimed DEF vars, IndexSound, TxOK, StoreOK, OwedOK, SpentOK
<1>13. ASSUME NEW s \in Session, Close(s) PROVE IInv'
  BY <1>13, CloseOK
<1> QED
  BY <1>1, <1>2, <1>3, <1>4, <1>5, <1>6, <1>7, <1>8, <1>9, <1>10, <1>11, <1>12, <1>13,
     WriteFileOK, WriteFailsOK, FinishOK, DamageOK DEF Next

-----------------------------------------------------------------------------
(* Theorems.                                                               *)

(* The inductive invariant: beside the types and the sound index, the rest *)
(* of the plan under way fits the disk as it stands, so that the operation *)
(* may be cut off at any of its writes (autosave.rs:904-936, 1053-1095,    *)
(* 1337-1361).                                                             *)
THEOREM Invariance == Spec => []IInv
BY InitOK, StepOK, PTL DEF Spec

(* Every variable keeps the shape the code gives it, whatever is edited,   *)
(* interrupted, damaged or restored.                                       *)
THEOREM TypeCorrect == Spec => []TypeOK
<1>1. IInv => TypeOK
  BY DEF IInv
<1> QED
  BY <1>1, Invariance, PTL

(* At every moment, between two writes of an operation included, the index *)
(* on disk is one read_index accepts (autosave.rs:356-384) and the payload *)
(* it names exists (autosave.rs:911-913, 1350-1356), for any number of     *)
(* processes, crashes, failed writes and damaged files.                    *)
THEOREM IndexAlwaysSound == Spec => []IndexSound
<1>1. IInv => IndexSound
  BY DEF IInv
<1> QED
  BY <1>1, Invariance, PTL

LEMMA CarryingValid ==
  ASSUME NEW x \in Index, ValidIndex(x), NEW k \in Id, k >= x.next, k < MaxId,
         NEW t \in Session \union {None}
  PROVE  ValidIndex(Carrying(x, k, t))
<1> DEFINE y == Carrying(x, k, t)
<1>1. y.next = k + 1 /\ y.active = x.active /\ y.carried = [x.carried EXCEPT ![k] = t]
  BY CarryingType
<1> HIDE DEF y
<1>2. MaxId \in Nat /\ k \in 1 .. MaxId /\ x.next \in 1 .. MaxId
  BY BoundsAssumption DEF ValidIndex, Id
<1>3. y.next \in 1 .. MaxId
  BY <1>1, <1>2
<1>4. ASSUME NEW i \in Id PROVE y.carried[i] = IF i = k THEN t ELSE x.carried[i]
  BY <1>1 DEF Index
<1>5. ASSUME NEW i \in Id, y.carried[i] # Absent PROVE i < y.next
  <2>1. CASE i = k
    BY <1>1, <1>2, <2>1
  <2>2. CASE i # k
    <3>1. i < x.next
      BY <1>4, <1>5, <2>2 DEF ValidIndex
    <3> QED
      BY <1>1, <1>2, <3>1 DEF Id
  <2> QED
    BY <2>1, <2>2
<1>6. ASSUME y.active # None, y.active.source # None
      PROVE  y.carried[y.active.source] # Absent
  <2>1. x.active.source \in Id /\ x.carried[x.active.source] # Absent
    BY <1>1, <1>6 DEF ValidIndex, Index, Active
  <2> QED
    BY <1>1, <1>4, <2>1, ValuesAssumption
<1> QED
  BY <1>3, <1>5, <1>6 DEF ValidIndex, y

LEMMA LinkValid ==
  ASSUME NEW x \in Index, ValidIndex(x), NEW s \in Session
  PROVE  ValidIndex([x EXCEPT !.active =
           [session |-> s, source |-> IF x.active = None THEN None ELSE x.active.source]])
<1> DEFINE a == [session |-> s, source |-> IF x.active = None THEN None ELSE x.active.source]
           y == [x EXCEPT !.active = a]
<1>1. y.next = x.next /\ y.carried = x.carried /\ y.active = a
  BY DEF Index
<1>2. a.source # None => x.active # None /\ a.source = x.active.source
  OBVIOUS
<1> HIDE DEF a, y
<1>3. ValidIndex(y)
  BY <1>1, <1>2 DEF ValidIndex
<1> QED
  BY <1>3 DEF y, a

(* The autosave: when the slot holds another process's work, that work is  *)
(* carried, and either way the index it ends with is valid.                *)
LEMMA SnapshotWorks ==
  ASSUME IInv, disk.index # Corrupt, IdsLeft, NEW s \in Session, NEW stamp \in Stamp
  PROVE  SnapshotPlan(s, stamp).ok
<1> DEFINE r       == Draft(CurrentIndex)
           foreign == r.idx.active # None /\ r.idx.active.session # s
           c       == IF foreign THEN CarryActive(r) ELSE r
           source  == IF c.idx.active = None THEN None ELSE c.idx.active.source
           payload == [doc |-> mem[s].doc, session |-> s, source |-> source, stamp |-> stamp]
           linked  == [c EXCEPT !.idx.active = [session |-> s, source |-> source]]
<1>1. disk \in Disk /\ IndexSound /\ CurrentIndex \in Index /\ Sound(r)
  BY Parts, CurrentIndexType, DraftSound
<1>2. r.ok /\ r.idx = CurrentIndex /\ r.img = disk
  BY DEF Draft
<1>3. ValidIndex(CurrentIndex) /\ (CurrentIndex.active # None => disk.active # None)
  <2>1. CASE disk.index = None
    BY <2>1, DefaultType DEF CurrentIndex, DefaultIndex
  <2>2. CASE disk.index # None
    BY <1>1, <2>2 DEF CurrentIndex, IndexSound
  <2> QED
    BY <2>1, <2>2
<1>4. \E i \in FreeIds(r) : i < MaxId
  BY DEF IdsLeft
<1> HIDE DEF r
<1>5. c.ok /\ c \in Drafts /\ c.idx \in Index /\ ValidIndex(c.idx)
  <2>1. CASE ~foreign
    BY <1>1, <1>2, <1>3, <2>1 DEF Sound
  <2>2. CASE foreign
    <3>1. Sound(CarryActive(r)) /\ CarryActive(r).ok
          /\ \/ CarryActive(r).idx = r.idx
             \/ \E k \in FreeIds(r), t \in Session \union {None} :
                  k < MaxId /\ CarryActive(r).idx = Carrying(r.idx, k, t)
      BY <1>1, <1>2, <1>3, <1>4, <2>2, CarrySound
    <3>2. ASSUME NEW k \in FreeIds(r), NEW t \in Session \union {None}, k < MaxId
          PROVE  ValidIndex(Carrying(r.idx, k, t))
      BY <1>1, <1>2, <1>3, <3>2, CarryingValid DEF FreeIds
    <3>3. ValidIndex(CarryActive(r).idx)
      BY <1>2, <1>3, <3>1, <3>2
    <3> QED
      BY <2>2, <3>1, <3>3 DEF Sound, Drafts
  <2> QED
    BY <2>1, <2>2
<1>6. SnapshotPlan(s, stamp) = IF c.ok THEN CommitIndex(Emit(linked, PutActive(payload))) ELSE c
  BY DEF SnapshotPlan, TakeSnapshot, r
<1> HIDE DEF c
<1>7. linked.ok /\ linked.idx = [c.idx EXCEPT !.active = [session |-> s, source |-> source]]
  BY <1>5 DEF Drafts
<1>8. ValidIndex(linked.idx)
  BY <1>5, <1>7, LinkValid
<1>9. linked \in [ok : BOOLEAN, idx : {linked.idx}, img : Disk, plan : Seq(Write)]
  BY <1>5 DEF Drafts
<1> HIDE DEF linked, payload
<1> DEFINE e == Emit(linked, PutActive(payload))
<1>10. e.ok /\ e.idx = linked.idx
  BY <1>7, <1>9 DEF Emit
<1>11. \A w : e.ok => Emit(e, w).ok
  BY <1>7, <1>9 DEF Emit
<1> HIDE DEF e
<1>12. CommitIndex(e).ok
  BY <1>8, <1>10, <1>11 DEF CommitIndex
<1> QED
  BY <1>5, <1>6, <1>12 DEF e

(* No sequence of crashes and failed writes leaves a state in which an     *)
(* autosave cannot be planned, as long as the index can be read and ids    *)
(* are left (autosave.rs:906-913, 1037-1095).                              *)
THEOREM NeverWedged == Spec => []AutosaveNeverWedged
<1>1. IInv => AutosaveNeverWedged
  BY SnapshotWorks DEF AutosaveNeverWedged
<1> QED
  BY <1>1, Invariance, PTL
-----------------------------------------------------------------------------
(* Candidates are only replaced by the work restored from them.  What an   *)
(* operation may leave on the disk between its writes is a set of disks:   *)
(* a removal that fails is passed over by most operations.                 *)

(* The active payload, when it can be read, says of its source what the    *)
(* active entry of x says.                                                 *)
Traced(x, d) ==
  x.active # None /\ d.active # None /\ d.active.doc # Unreadable
  => d.active.source = x.active.source

Tidy == {d \in Disk : d.index \notin {None, Corrupt} => Traced(d.index, d)}

(* A write that replaces no candidate but by the active payload restored   *)
(* from it.                                                                *)
Polite(d, w) ==
  w.file = "cand" /\ w.val # None /\ d.cand[w.id] # None
  => d.active = w.val /\ d.active.source = w.id

(* From disk d, whatever removals of plan p fail, every write of it is     *)
(* polite, every disk between two of them tidy, and the last one is in S.  *)
Leads(d, p, S) ==
  \E h \in [1 .. Len(p) + 1 -> SUBSET Tidy] :
    /\ d \in h[1] /\ h[Len(p) + 1] = S
    /\ \A n \in 1 .. Len(p) : \A e \in h[n] :
         /\ Polite(e, p[n])
         /\ Apply(e, p[n]) \in h[n + 1]
         /\ IsRemoval(p[n]) => e \in h[n + 1]

Careful(d, p) == \E S \in SUBSET Tidy : Leads(d, p, S)

LEMMA NothingLeads ==
  ASSUME NEW d \in Tidy
  PROVE  Leads(d, << >>, {d}) /\ Careful(d, << >>)
<1>1. Leads(d, << >>, {d})
  <2> DEFINE h == [n \in 1 .. Len(<< >>) + 1 |-> {d}]
  <2>1. Len(<< >>) = 0
    OBVIOUS
  <2>2. h \in [1 .. Len(<< >>) + 1 -> SUBSET Tidy] /\ h[1] = {d} /\ h[Len(<< >>) + 1] = {d}
    BY <2>1
  <2>3. \A n \in 1 .. Len(<< >>) : FALSE
    BY <2>1
  <2> HIDE DEF h
  <2> QED
    BY <2>2, <2>3 DEF Leads
<1> QED
  BY <1>1 DEF Careful

(* One more write.                                                         *)
LEMMA LeadsOn ==
  ASSUME NEW d, NEW p \in Seq(Write), NEW S \in SUBSET Tidy, Leads(d, p, S),
         NEW w \in Write, NEW T \in SUBSET Tidy,
         \A e \in S : Polite(e, w) /\ Apply(e, w) \in T /\ (IsRemoval(w) => e \in T)
  PROVE  Leads(d, Append(p, w), T) /\ Careful(d, Append(p, w))
<1> DEFINE q == Append(p, w)
           k == Len(p) + 1
<1>1. /\ Len(p) \in Nat /\ Len(q) = k /\ q[k] = w
      /\ \A n \in 1 .. Len(p) : q[n] = p[n]
  BY AppendFacts
<1>2. PICK h \in [1 .. k -> SUBSET Tidy] :
        /\ d \in h[1] /\ h[k] = S
        /\ \A n \in 1 .. Len(p) : \A e \in h[n] :
             Polite(e, p[n]) /\ Apply(e, p[n]) \in h[n + 1] /\ (IsRemoval(p[n]) => e \in h[n + 1])
  BY DEF Leads
<1> HIDE DEF q
<1> DEFINE g == [n \in 1 .. Len(q) + 1 |-> IF n \in 1 .. k THEN h[n] ELSE T]
<1>3. g \in [1 .. Len(q) + 1 -> SUBSET Tidy] /\ g[1] = h[1] /\ g[Len(q) + 1] = T
  <2>1. Len(q) + 1 \notin 1 .. k /\ 1 \in 1 .. k /\ 1 \in 1 .. Len(q) + 1
        /\ Len(q) + 1 \in 1 .. Len(q) + 1
    BY <1>1
  <2>2. \A n \in 1 .. k : h[n] \in SUBSET Tidy
    OBVIOUS
  <2> QED
    BY <2>1, <2>2
<1>4. ASSUME NEW n \in 1 .. Len(q), NEW e \in g[n]
      PROVE  /\ Polite(e, q[n]) /\ Apply(e, q[n]) \in g[n + 1]
             /\ IsRemoval(q[n]) => e \in g[n + 1]
  <2>1. CASE n \in 1 .. Len(p)
    <3>1. n \in 1 .. k /\ n + 1 \in 1 .. k /\ n \in 1 .. Len(q) + 1 /\ n + 1 \in 1 .. Len(q) + 1
      BY <1>1, <2>1
    <3>2. g[n] = h[n] /\ g[n + 1] = h[n + 1] /\ q[n] = p[n]
      BY <1>1, <2>1, <3>1
    <3> HIDE DEF g, k
    <3> QED
      BY <1>2, <2>1, <3>2
  <2>2. CASE n = k
    <3>1. n \in 1 .. k /\ n + 1 \notin 1 .. k /\ n \in 1 .. Len(q) + 1 /\ n + 1 \in 1 .. Len(q) + 1
      BY <1>1, <2>2
    <3>2. g[n] = S /\ g[n + 1] = T /\ q[n] = w
      BY <1>1, <1>2, <2>2, <3>1
    <3> HIDE DEF g, k
    <3> QED
      BY <3>2
  <2> QED
    BY <1>1, <2>1, <2>2
<1> HIDE DEF g
<1>5. Leads(d, q, T)
  BY <1>2, <1>3, <1>4 DEF Leads
<1> QED
  BY <1>5 DEF Careful, q

(* The rest of a plan, once its first write is done or passed over.        *)
LEMMA CarefulTail ==
  ASSUME NEW d, NEW p \in Seq(Write), p # << >>, Careful(d, p)
  PROVE  /\ Polite(d, p[1])
         /\ Careful(Apply(d, p[1]), Tail(p)) /\ Apply(d, p[1]) \in Tidy
         /\ IsRemoval(p[1]) => Careful(d, Tail(p))
<1> DEFINE q == Tail(p)
<1>1. /\ Len(p) \in Nat \ {0} /\ Len(q) = Len(p) - 1
      /\ \A n \in 1 .. Len(p) - 1 : q[n] = p[n + 1]
  BY TailFacts
<1>2. PICK S \in SUBSET Tidy, h \in [1 .. Len(p) + 1 -> SUBSET Tidy] :
        /\ d \in h[1] /\ h[Len(p) + 1] = S
        /\ \A n \in 1 .. Len(p) : \A e \in h[n] :
             Polite(e, p[n]) /\ Apply(e, p[n]) \in h[n + 1] /\ (IsRemoval(p[n]) => e \in h[n + 1])
  BY DEF Careful, Leads
<1> HIDE DEF q
<1> DEFINE g == [n \in 1 .. Len(q) + 1 |-> h[n + 1]]
<1>3. g \in [1 .. Len(q) + 1 -> SUBSET Tidy] /\ g[1] = h[2] /\ g[Len(q) + 1] = S
  <2>1. \A n \in 1 .. Len(q) + 1 : n + 1 \in 1 .. Len(p) + 1
    BY <1>1
  <2>2. 1 \in 1 .. Len(q) + 1 /\ Len(q) + 1 \in 1 .. Len(q) + 1 /\ 1 + 1 = 2
        /\ (Len(q) + 1) + 1 = Len(p) + 1
    BY <1>1
  <2> QED
    BY <1>2, <2>1, <2>2
<1>4. ASSUME NEW n \in 1 .. Len(q), NEW e \in g[n]
      PROVE  /\ Polite(e, q[n]) /\ Apply(e, q[n]) \in g[n + 1]
             /\ IsRemoval(q[n]) => e \in g[n + 1]
  <2>1. n + 1 \in 1 .. Len(p) /\ n \in 1 .. Len(q) + 1 /\ n + 1 \in 1 .. Len(q) + 1
    BY <1>1
  <2>2. g[n] = h[n + 1] /\ g[n + 1] = h[(n + 1) + 1] /\ q[n] = p[n + 1]
    BY <1>1, <2>1
  <2> HIDE DEF g
  <2> QED
    BY <1>2, <2>1, <2>2
<1> HIDE DEF g
<1>5. ASSUME NEW e \in h[2] PROVE Careful(e, q)
  BY <1>3, <1>4, <1>5 DEF Careful, Leads
<1>6. 1 \in 1 .. Len(p) /\ 2 \in 1 .. Len(p) + 1 /\ 1 + 1 = 2
  BY <1>1
<1>7. Polite(d, p[1]) /\ Apply(d, p[1]) \in h[2] /\ (IsRemoval(p[1]) => d \in h[2])
  BY <1>2, <1>6
<1>8. h[2] \in SUBSET Tidy
  BY <1>6
<1> QED
  BY <1>5, <1>7, <1>8 DEF q

(* What a write does to the parts of a disk.                               *)
LEMMA ApplyParts ==
  ASSUME NEW d \in Disk, NEW w \in Write
  PROVE  LET e == Apply(d, w)
         IN /\ e \in Disk
            /\ e.index = IF w.file = "index" THEN w.val ELSE d.index
            /\ e.active = IF w.file = "active" THEN w.val ELSE d.active
            /\ w.file # "cand" => e.cand = d.cand
            /\ w.file = "active" => e = [d EXCEPT !.active = w.val]
<1>1. w.file \in {"index", "active", "cand", "legacy"}
  BY DEF Write
<1> QED
  BY <1>1, ApplyType DEF Apply, Disk

(* A draft that goes on: the disk its writes so far lead to is the one it  *)
(* holds, and so is what its index says of the active payload.             *)
Exact(r) == r \in Drafts /\ r.ok /\ Leads(disk, r.plan, {r.img}) /\ Traced(r.idx, r.img)

Fine(r) == r \in Drafts /\ Careful(disk, r.plan) /\ (r.ok => Exact(r))

(* The active entry is still the one of the index on disk.                 *)
Follows(r) ==
  r.img.index \notin {None, Corrupt} /\ r.img.index.active # None
  => r.idx.active # None /\ r.idx.active.source = r.img.index.active.source

(* The draft after the slot was emptied: the removal may have failed.      *)
Emptied(r) ==
  /\ r \in Drafts /\ r.ok
  /\ \E S \in SUBSET Tidy :
       /\ Leads(disk, r.plan, S) /\ r.img \in S
       /\ \A d \in S : /\ d.index \in Index /\ d.index.active = None
                       /\ [d EXCEPT !.active = None] = r.img

LEMMA FailedFine ==
  ASSUME NEW r, r \in Drafts, Careful(disk, r.plan)
  PROVE  Fine(Failed(r)) /\ ~Failed(r).ok
<1>1. Failed(r) \in Drafts /\ Failed(r).plan = r.plan /\ ~Failed(r).ok
  BY DEF Failed, Drafts
<1> QED
  BY <1>1 DEF Fine

(* A polite write, no removal, after which the disk is tidy.               *)
LEMMA EmitLeads ==
  ASSUME NEW r \in Drafts, r.ok, Leads(disk, r.plan, {r.img}), r.img \in Tidy,
         NEW w \in Write, Polite(r.img, w), ~IsRemoval(w), Apply(r.img, w) \in Tidy
  PROVE  LET e == Emit(r, w)
         IN /\ e \in Drafts /\ e.ok /\ e.idx = r.idx /\ e.img = Apply(r.img, w)
            /\ Leads(disk, e.plan, {e.img}) /\ Careful(disk, e.plan)
<1>1. r.plan \in Seq(Write)
  BY DEF Drafts
<1>2. /\ Leads(disk, Append(r.plan, w), {Apply(r.img, w)})
      /\ Careful(disk, Append(r.plan, w))
  <2> DEFINE S == {r.img}
             T == {Apply(r.img, w)}
  <2>1. S \in SUBSET Tidy /\ T \in SUBSET Tidy /\ Leads(disk, r.plan, S)
    OBVIOUS
  <2>2. \A e \in S : Polite(e, w) /\ Apply(e, w) \in T /\ (IsRemoval(w) => e \in T)
    OBVIOUS
  <2> HIDE DEF S, T
  <2>3. Leads(disk, Append(r.plan, w), T) /\ Careful(disk, Append(r.plan, w))
    BY <1>1, <2>1, <2>2, LeadsOn
  <2> QED
    BY <2>3 DEF T
<1>3. Emit(r, w).img = Apply(r.img, w)
  BY DEF Emit, Drafts
<1> QED
  BY <1>2, <1>3, EmitPlan

(* The last disk of a plan is tidy.                                        *)
LEMMA ExactTidy ==
  ASSUME NEW r, Exact(r)
  PROVE  r.img \in Tidy /\ r.img \in Disk /\ r.idx \in Index /\ r.plan \in Seq(Write)
<1>1. r \in Drafts /\ r.img \in Disk /\ r.plan \in Seq(Write)
  BY DEF Exact, Drafts
<1>2. PICK h \in [1 .. Len(r.plan) + 1 -> SUBSET Tidy] : h[Len(r.plan) + 1] = {r.img}
  BY DEF Exact, Leads
<1>3. Len(r.plan) + 1 \in 1 .. Len(r.plan) + 1
  BY <1>1
<1> QED
  BY <1>1, <1>2, <1>3 DEF Drafts

LEMMA DraftFine ==
  ASSUME disk \in Tidy, NEW x \in Index, Traced(x, disk)
  PROVE  Fine(Draft(x)) /\ Exact(Draft(x))
<1>1. disk \in Disk
  BY DEF Tidy
<1>2. Draft(x) \in Drafts /\ Draft(x).plan = << >> /\ Draft(x).img = disk
      /\ Draft(x).idx = x /\ Draft(x).ok
  BY <1>1, DraftSound DEF Sound, Draft
<1> QED
  BY <1>2, NothingLeads DEF Exact, Fine

(* The draft with another index that says the same of the active entry.    *)
LEMMA SameActive ==
  ASSUME NEW r \in Drafts, NEW x \in Index
  PROVE  LET m == [r EXCEPT !.idx = x]
         IN m \in Drafts /\ m.plan = r.plan /\ m.ok = r.ok /\ m.idx = x /\ m.img = r.img
BY DEF Drafts

(* A candidate with a new id replaces none.                                *)
LEMMA AddCandidateFine ==
  ASSUME NEW r, Exact(r), NEW bytes \in Payload, NEW session \in Session \union {None}
  PROVE  LET e == AddCandidate(r, bytes, session)
         IN /\ Fine(e)
            /\ e.ok => /\ e.idx.active = r.idx.active
                       /\ e.img.active = r.img.active /\ e.img.index = r.img.index
<1>1. r \in Drafts /\ r.idx \in Index /\ r.img \in Disk /\ r.img \in Tidy /\ r.ok
      /\ Leads(disk, r.plan, {r.img}) /\ Traced(r.idx, r.img) /\ r.plan \in Seq(Write)
  BY ExactTidy DEF Exact
<1>2. Careful(disk, r.plan)
  BY <1>1 DEF Careful
<1>3. CASE ~ \E i \in FreeIds(r) : i < MaxId
  BY <1>1, <1>2, <1>3, FailedFine DEF AddCandidate
<1>4. CASE \E i \in FreeIds(r) : i < MaxId
  <2> DEFINE k == LeastOf(FreeIds(r))
             x == Carrying(r.idx, k, session)
             m == [r EXCEPT !.idx = x]
             w == PutCandidate(k, bytes)
  <2>1. FreeIds(r) \in SUBSET Nat /\ FreeIds(r) \subseteq Id
    BY DEF FreeIds, Id
  <2>2. k \in FreeIds(r) /\ k \in Id
    BY <1>4, <2>1, LeastNat
  <2>3. r.img.cand[k] = None
    BY <2>2 DEF FreeIds
  <2> HIDE DEF k
  <2>4. x \in Index /\ x.active = r.idx.active
    BY <1>1, <2>2, CarryingType
  <2> HIDE DEF x
  <2>5. m \in Drafts /\ m.plan = r.plan /\ m.ok /\ m.idx = x /\ m.img = r.img
    BY <1>1, <2>4, SameActive
  <2>6. AddCandidate(r, bytes, session) = Emit(m, w)
    BY <1>4 DEF AddCandidate, k, x
  <2> HIDE DEF m
  <2>7. w \in Write /\ w.file = "cand" /\ w.id = k /\ w.val = bytes
    BY <2>2, WriteKinds DEF PutCandidate
  <2>8. ~IsRemoval(w) /\ Polite(m.img, w)
    BY <2>3, <2>5, <2>7, ValuesAssumption DEF IsRemoval, Polite
  <2> DEFINE d == Apply(r.img, w)
  <2>9. d \in Disk /\ d.index = r.img.index /\ d.active = r.img.active
    BY <1>1, <2>7, ApplyParts
  <2> HIDE DEF d, w
  <2>10. d \in Tidy
    BY <1>1, <2>9 DEF Tidy, Traced
  <2>11. /\ Emit(m, w) \in Drafts /\ Emit(m, w).ok /\ Emit(m, w).idx = x /\ Emit(m, w).img = d
         /\ Leads(disk, Emit(m, w).plan, {Emit(m, w).img}) /\ Careful(disk, Emit(m, w).plan)
    BY <1>1, <2>5, <2>7, <2>8, <2>10, EmitLeads DEF d
  <2>12. Traced(Emit(m, w).idx, Emit(m, w).img)
    BY <1>1, <2>4, <2>9, <2>11 DEF Traced
  <2> QED
    BY <2>4, <2>6, <2>9, <2>11, <2>12 DEF Fine, Exact
<1> QED
  BY <1>3, <1>4

(* The work goes back to its source, which it replaces.                    *)
LEMMA UpdateSourceFine ==
  ASSUME NEW r, Exact(r), r.idx.active # None, r.img.active # None, ReturnsToSource(r)
  PROVE  LET e == UpdateSource(r)
         IN /\ Fine(e) /\ e.ok /\ e.idx.active = r.idx.active
            /\ e.img.active = r.img.active /\ e.img.index = r.img.index
<1> DEFINE src == r.idx.active.source
           w   == PutCandidate(src, r.img.active)
           d   == Apply(r.img, w)
<1>1. r \in Drafts /\ r.idx \in Index /\ r.img \in Disk /\ r.img \in Tidy /\ r.ok
      /\ Leads(disk, r.plan, {r.img}) /\ Traced(r.idx, r.img) /\ r.plan \in Seq(Write)
  BY ExactTidy DEF Exact
<1>2. src \in Id /\ r.img.active \in Payload
  BY <1>1 DEF ReturnsToSource, Index, Active, Disk
<1>3. Fine(r)
  BY <1>1 DEF Fine, Exact, Careful
<1>4. w \in Write /\ w.file = "cand" /\ w.id = src /\ w.val = r.img.active
  BY <1>2, WriteKinds DEF PutCandidate
<1>5. ~IsRemoval(w)
  BY <1>4 DEF IsRemoval
<1>6. r.img.cand[src] # None => r.img.active.source = src
  BY <1>1 DEF ReturnsToSource, Traced
<1>7. Polite(r.img, w)
  BY <1>4, <1>6 DEF Polite
<1>8. UpdateSource(r) = r \/ UpdateSource(r) = Emit(r, w)
  BY DEF UpdateSource
<1>9. d \in Disk /\ d.index = r.img.index /\ d.active = r.img.active
  BY <1>1, <1>4, ApplyParts
<1> HIDE DEF d, w
<1>10. d \in Tidy
  BY <1>1, <1>9 DEF Tidy, Traced
<1>11. /\ Emit(r, w) \in Drafts /\ Emit(r, w).ok /\ Emit(r, w).idx = r.idx
       /\ Emit(r, w).img = d
       /\ Leads(disk, Emit(r, w).plan, {Emit(r, w).img}) /\ Careful(disk, Emit(r, w).plan)
  BY <1>1, <1>4, <1>5, <1>7, <1>10, EmitLeads DEF d
<1>12. Traced(Emit(r, w).idx, Emit(r, w).img)
  BY <1>1, <1>9, <1>11 DEF Traced
<1> QED
  BY <1>1, <1>3, <1>8, <1>9, <1>11, <1>12 DEF Fine, Exact

LEMMA CarryFine ==
  ASSUME NEW r, Fine(r)
  PROVE  LET e == CarryActive(r)
         IN /\ Fine(e)
            /\ e.ok => /\ r.ok /\ e.idx.active = r.idx.active
                       /\ e.img.active = r.img.active /\ e.img.index = r.img.index
<1>1. CASE ~r.ok \/ r.idx.active = None
  BY <1>1 DEF CarryActive
<1>2. CASE r.ok /\ r.idx.active # None /\ r.img.active = None
  BY <1>2, FailedFine DEF CarryActive, Fine
<1>3. CASE r.ok /\ r.idx.active # None /\ r.img.active # None /\ ReturnsToSource(r)
  BY <1>3, UpdateSourceFine DEF CarryActive, Fine
<1>4. CASE r.ok /\ r.idx.active # None /\ r.img.active # None /\ ~ReturnsToSource(r)
  <2>1. r.img.active \in Payload /\ r.idx.active.session \in Session \union {None}
    BY <1>4 DEF Fine, Drafts, Disk, Index, Active
  <2>2. CarryActive(r) = AddCandidate(r, r.img.active, r.idx.active.session)
    BY <1>4 DEF CarryActive
  <2>3. Exact(r)
    BY <1>4 DEF Fine
  <2> QED
    BY <1>4, <2>1, <2>2, <2>3, AddCandidateFine
<1> QED
  BY <1>1, <1>2, <1>3, <1>4

(* The index a draft holds may always be written.                          *)
LEMMA CommitFine ==
  ASSUME NEW r, Fine(r)
  PROVE  LET e == CommitIndex(r)
         IN /\ Fine(e)
            /\ e.ok => /\ r.ok /\ e.idx = r.idx /\ e.img.index = r.idx
                       /\ e.img = Apply(r.img, PutIndex(r.idx))
<1>1. CASE ~ValidIndex(r.idx)
  BY <1>1, FailedFine DEF CommitIndex, Fine
<1>2. CASE ValidIndex(r.idx) /\ ~r.ok
  BY <1>2 DEF CommitIndex, Emit
<1>3. CASE ValidIndex(r.idx) /\ r.ok
  <2> DEFINE w == PutIndex(r.idx)
             d == Apply(r.img, w)
  <2>1. Exact(r)
    BY <1>3 DEF Fine
  <2>2. r \in Drafts /\ r.idx \in Index /\ r.img \in Disk /\ r.img \in Tidy /\ r.ok
        /\ Leads(disk, r.plan, {r.img}) /\ Traced(r.idx, r.img) /\ r.plan \in Seq(Write)
    BY <2>1, ExactTidy DEF Exact
  <2>3. w \in Write /\ w.file = "index" /\ w.val = r.idx
    BY <2>2, WriteKinds DEF PutIndex
  <2>4. ~IsRemoval(w) /\ Polite(r.img, w)
    BY <2>3 DEF IsRemoval, Polite
  <2>5. d \in Disk /\ d.index = r.idx /\ d.active = r.img.active
    BY <2>2, <2>3, ApplyParts
  <2>6. CommitIndex(r) = Emit(r, w)
    BY <1>3 DEF CommitIndex
  <2> HIDE DEF d, w
  <2>7. d \in Tidy /\ Traced(r.idx, d)
    BY <2>2, <2>5 DEF Tidy, Traced
  <2>8. /\ Emit(r, w) \in Drafts /\ Emit(r, w).ok /\ Emit(r, w).idx = r.idx
        /\ Emit(r, w).img = d
        /\ Leads(disk, Emit(r, w).plan, {Emit(r, w).img}) /\ Careful(disk, Emit(r, w).plan)
    BY <2>2, <2>3, <2>4, <2>7, EmitLeads DEF d
  <2> QED
    BY <2>2, <2>5, <2>6, <2>7, <2>8 DEF Fine, Exact, d, w
<1> QED
  BY <1>1, <1>2, <1>3

LEMMA UnlinkFine ==
  ASSUME NEW r, Fine(r)
  PROVE  /\ Fine(Unlink(r)) /\ Unlink(r).ok = r.ok
         /\ r.ok => Unlink(r).idx.active = None
                    /\ Unlink(r).idx = [r.idx EXCEPT !.active = None]
<1>1. CASE ~r.ok
  BY <1>1 DEF Unlink
<1>2. CASE r.ok
  <2> DEFINE x == [r.idx EXCEPT !.active = None]
  <2>1. r \in Drafts /\ r.idx \in Index /\ Exact(r)
    BY <1>2 DEF Fine, Drafts
  <2>2. x \in Index /\ x.active = None
    BY <2>1 DEF Index
  <2>3. Unlink(r) = [r EXCEPT !.idx = x]
    BY <1>2 DEF Unlink
  <2> HIDE DEF x
  <2>4. /\ Unlink(r) \in Drafts /\ Unlink(r).plan = r.plan /\ Unlink(r).ok /\ Unlink(r).idx = x
        /\ Unlink(r).img = r.img
    BY <1>2, <2>1, <2>2, <2>3, SameActive
  <2>5. Traced(x, r.img)
    BY <2>2 DEF Traced
  <2> QED
    BY <1>2, <2>1, <2>2, <2>4, <2>5 DEF Fine, Exact, x
<1> QED
  BY <1>1, <1>2

(* The index is written without an active entry; the payload goes, or is   *)
(* left there.                                                             *)
LEMMA RemoveFine ==
  ASSUME NEW r, Fine(r), r.ok => r.idx.active = None
  PROVE  LET e == Emit(CommitIndex(r), PutActive(None))
         IN /\ e \in Drafts /\ Careful(disk, e.plan)
            /\ e.ok => Emptied(e)
<1> DEFINE c == CommitIndex(r)
           w == PutActive(None)
           e == Emit(c, w)
           T == {c.img, Apply(c.img, w)}
<1>1. Fine(c) /\ (c.ok => c.img.index = r.idx /\ r.idx.active = None)
  BY CommitFine
<1>2. r.idx \in Index
  BY DEF Fine, Drafts
<1> HIDE DEF c
<1>3. CASE ~c.ok
  BY <1>1, <1>3 DEF Emit, Fine, c
<1>4. CASE c.ok
  <2>1. c \in Drafts /\ c.img \in Disk /\ c.img \in Tidy /\ Leads(disk, c.plan, {c.img})
        /\ c.plan \in Seq(Write)
    BY <1>1, <1>4, ExactTidy DEF Exact, Fine
  <2>2. w \in Write /\ w.file = "active" /\ w.val = None
    BY WriteKinds DEF PutActive
  <2>3. Polite(c.img, w)
    BY <2>2 DEF Polite
  <2> DEFINE d == Apply(c.img, w)
  <2>4. d \in Disk /\ d.index = r.idx /\ d.active = None /\ d = [c.img EXCEPT !.active = None]
    BY <1>1, <1>4, <2>1, <2>2, ApplyParts
  <2> HIDE DEF d
  <2>5. d \in Tidy
    BY <1>1, <1>4, <2>4 DEF Tidy, Traced
  <2>6. T \in SUBSET Tidy /\ T = {c.img, d} /\ d \in T
    BY <2>1, <2>5 DEF d
  <2>7. Leads(disk, Append(c.plan, w), T) /\ Careful(disk, Append(c.plan, w))
    <3> DEFINE S == {c.img}
    <3>1. S \in SUBSET Tidy /\ Leads(disk, c.plan, S)
      BY <2>1
    <3>2. \A b \in S : Polite(b, w) /\ Apply(b, w) \in T /\ (IsRemoval(w) => b \in T)
      BY <2>3
    <3> HIDE DEF S, T, w
    <3> QED
      BY <2>1, <2>2, <2>6, <3>1, <3>2, LeadsOn
  <2>8. e \in Drafts /\ e.ok /\ e.plan = Append(c.plan, w)
    BY <1>4, <2>1, <2>2, EmitPlan
  <2>9. e.img = d
    BY <1>4, <2>1 DEF Emit, Drafts, d
  <2>10. ASSUME NEW b \in T
         PROVE  b.index \in Index /\ b.index.active = None /\ [b EXCEPT !.active = None] = d
    <3>1. CASE b = c.img
      BY <1>1, <1>2, <1>4, <2>4, <3>1
    <3>2. CASE b = d
      <4>1. [d EXCEPT !.active = None] = d
        BY <2>4 DEF Disk
      <4> QED
        BY <1>1, <1>2, <1>4, <2>4, <3>2, <4>1
    <3> QED
      BY <2>6, <2>10, <3>1, <3>2
  <2> HIDE DEF T, e, w
  <2> QED
    BY <2>6, <2>7, <2>8, <2>9, <2>10 DEF Emptied, e, c, w
<1> QED
  BY <1>3, <1>4 DEF c

LEMMA SetAsideFine ==
  ASSUME NEW r, Fine(r)
  PROVE  LET e == SetAside(r)
         IN e \in Drafts /\ Careful(disk, e.plan) /\ (e.ok => Emptied(e))
<1>1. Fine(CarryActive(r))
  BY CarryFine
<1>2. Fine(Unlink(CarryActive(r)))
      /\ (Unlink(CarryActive(r)).ok => Unlink(CarryActive(r)).idx.active = None)
  BY <1>1, UnlinkFine
<1> QED
  BY <1>2, RemoveFine DEF SetAside

(* A payload is written on each of the disks it may meet, then the index   *)
(* that names it with the same source.                                     *)
LEMMA PutAndLinkFine ==
  ASSUME NEW r \in Drafts, r.ok, NEW S \in SUBSET Tidy, Leads(disk, r.plan, S),
         NEW p \in Payload, NEW s \in Session, NEW source \in Id \union {None},
         p.source = source,
         \A d \in S : [d EXCEPT !.active = p] = [r.img EXCEPT !.active = p],
         [r.img EXCEPT !.active = p] \in Tidy
  PROVE  LET e == Emit(r, PutActive(p))
             m == [e EXCEPT !.idx.active = [session |-> s, source |-> source]]
         IN Careful(disk, e.plan) /\ Fine(CommitIndex(m)) /\ Fine(m)
<1> DEFINE w == PutActive(p)
           e == Emit(r, w)
           a == [session |-> s, source |-> source]
           x == [e.idx EXCEPT !.active = a]
           m == [e EXCEPT !.idx.active = a]
           b == [r.img EXCEPT !.active = p]
           T == {b}
<1>1. r.img \in Disk /\ r.idx \in Index /\ r.plan \in Seq(Write)
  BY DEF Drafts
<1>2. w \in Write /\ w.file = "active" /\ w.val = p
  BY WriteKinds DEF PutActive
<1>3. Apply(r.img, w) = b
  <2> HIDE DEF w
  <2>1. Apply(r.img, w) = [r.img EXCEPT !.active = w.val]
    BY <1>1, <1>2, ApplyParts
  <2> QED
    BY <1>2, <2>1
<1>4. ASSUME NEW d \in S PROVE Polite(d, w) /\ Apply(d, w) = b
  <2>1. d \in Disk
    BY DEF Tidy
  <2>2. Apply(d, w) = [d EXCEPT !.active = p]
    BY <1>2, <2>1, ApplyParts
  <2> QED
    BY <1>2, <2>2 DEF Polite
<1>5. ~IsRemoval(w)
  BY <1>2, ValuesAssumption DEF IsRemoval
<1>6. b.active = p /\ b \in Disk
  BY <1>1 DEF Disk
<1>7. e \in Drafts /\ e.ok /\ e.idx = r.idx /\ e.plan = Append(r.plan, w)
  BY <1>2, EmitPlan
<1>8. e.img = b
  BY <1>3 DEF Emit, Drafts
<1>9. a \in Active /\ a.source = source
  BY DEF Active
<1> HIDE DEF w, e, a, b
<1>10. x \in Index /\ x.active = a
  BY <1>1, <1>7, <1>9 DEF Index
<1>11. m = [e EXCEPT !.idx = x]
  OBVIOUS
<1> HIDE DEF x, m
<1>12. m \in Drafts /\ m.plan = e.plan /\ m.ok /\ m.idx = x /\ m.img = b
  BY <1>7, <1>8, <1>10, <1>11, SameActive
<1>13. T \in SUBSET Tidy
  BY DEF b
<1>14. \A d \in S : Polite(d, w) /\ Apply(d, w) \in T /\ (IsRemoval(w) => d \in T)
  BY <1>4, <1>5
<1>15. Leads(disk, m.plan, {m.img}) /\ Careful(disk, e.plan)
  <2> HIDE DEF T
  <2>1. Leads(disk, Append(r.plan, w), T) /\ Careful(disk, Append(r.plan, w))
    BY <1>1, <1>2, <1>13, <1>14, LeadsOn
  <2> QED
    BY <1>7, <1>12, <2>1 DEF T
<1>16. Traced(m.idx, m.img)
  BY <1>6, <1>9, <1>10, <1>12 DEF Traced
<1>17. Fine(m)
  BY <1>12, <1>15, <1>16 DEF Fine, Exact
<1>18. Fine(CommitIndex(m))
  BY <1>17, CommitFine
<1> QED
  BY <1>15, <1>17, <1>18 DEF m, e, a, w

(* The new payload keeps the source of the active entry, the work of       *)
(* another process included.                                               *)
LEMMA TakeSnapshotFine ==
  ASSUME NEW r, Fine(r), r.ok => Follows(r),
         NEW s \in Session, NEW doc \in Doc, NEW stamp \in Stamp
  PROVE  Fine(TakeSnapshot(r, s, doc, stamp))
<1> DEFINE foreign == r.idx.active # None /\ r.idx.active.session # s
           c       == IF foreign THEN CarryActive(r) ELSE r
           source  == IF c.idx.active = None THEN None ELSE c.idx.active.source
           payload == [doc |-> doc, session |-> s, source |-> source, stamp |-> stamp]
           linked  == [c EXCEPT !.idx.active = [session |-> s, source |-> source]]
           made    == Emit(linked, PutActive(payload))
<1>1. Fine(c) /\ (c.ok => r.ok /\ c.idx.active = r.idx.active /\ c.img.index = r.img.index)
  BY CarryFine
<1>2. c.ok => Follows(c)
  BY <1>1 DEF Follows
<1> HIDE DEF c
<1>3. c \in Drafts /\ c.idx \in Index /\ c.img \in Disk
  BY <1>1 DEF Fine, Drafts
<1>4. source \in Id \union {None}
  BY <1>3 DEF Index, Active
<1>5. c.idx.active # None => source = c.idx.active.source
  OBVIOUS
<1> HIDE DEF source
<1>6. payload \in Payload /\ payload.source = source
  BY <1>4 DEF Payload, Work
<1> HIDE DEF payload
<1>7. made = [Emit(c, PutActive(payload)) EXCEPT
                !.idx.active = [session |-> s, source |-> source]]
  BY <1>3 DEF Emit, Drafts
<1>8. TakeSnapshot(r, s, doc, stamp) = IF c.ok THEN CommitIndex(made) ELSE c
  BY DEF TakeSnapshot, c, source, payload
<1> HIDE DEF made
<1>9. ASSUME c.ok PROVE Fine(CommitIndex(made))
  <2> DEFINE S == {c.img}
             b == [c.img EXCEPT !.active = payload]
  <2>1. Leads(disk, c.plan, S) /\ S \in SUBSET Tidy /\ c.img \in Tidy
    BY <1>1, <1>9, ExactTidy DEF Fine, Exact
  <2>2. \A d \in S : [d EXCEPT !.active = payload] = b
    OBVIOUS
  <2>3. b \in Disk /\ b.index = c.img.index /\ b.active = payload
    BY <1>3, <1>6 DEF Disk
  <2> HIDE DEF b, S
  <2>4. b \in Tidy
    BY <1>2, <1>5, <1>6, <1>9, <2>3 DEF Tidy, Traced, Follows
  <2> QED
    BY <1>3, <1>4, <1>6, <1>7, <1>9, <2>1, <2>2, <2>4, PutAndLinkFine DEF b
<1> QED
  BY <1>1, <1>8, <1>9

-----------------------------------------------------------------------------
(* Every plan is careful.                                                  *)

LEMMA CurrentFine ==
  ASSUME disk \in Tidy, Usable
  PROVE  LET r == Draft(CurrentIndex) IN Fine(r) /\ Follows(r) /\ r.ok
<1>1. disk \in Disk
  BY DEF Tidy
<1>2. CurrentIndex \in Index
  BY <1>1, CurrentIndexType DEF Usable
<1>3. CASE disk.index = None
  <2>1. CurrentIndex.active = None
    BY <1>3 DEF CurrentIndex, DefaultIndex
  <2> QED
    BY <1>2, <1>3, <2>1, DraftFine DEF Traced, Follows, Draft
<1>4. CASE disk.index # None
  <2>1. CurrentIndex = disk.index
    BY <1>4 DEF CurrentIndex
  <2>2. Traced(CurrentIndex, disk)
    BY <1>4, <2>1 DEF Tidy, Usable
  <2> QED
    BY <1>2, <2>1, <2>2, DraftFine DEF Follows, Draft
<1> QED
  BY <1>3, <1>4

LEMMA SnapshotFine ==
  ASSUME disk \in Tidy, Usable, StoreOK, NEW s \in Session, NEW stamp \in Stamp
  PROVE  Fine(SnapshotPlan(s, stamp))
<1>1. mem[s].doc \in Doc
  BY DEF StoreOK
<1> QED
  BY <1>1, CurrentFine, TakeSnapshotFine DEF SnapshotPlan

LEMMA RestoreCareful ==
  ASSUME disk \in Tidy, Usable, StoreOK, NEW s \in Session, NEW stamp \in Stamp,
         NEW c \in Id, disk.cand[c] # None
  PROVE  Careful(disk, RestorePlan(s, c, stamp).plan)
<1> DEFINE kept == IF mem[s].dirty THEN SnapshotPlan(s, stamp) ELSE Draft(CurrentIndex)
           free == SetAside(kept)
           p    == [doc |-> disk.cand[c].doc, session |-> s, source |-> c, stamp |-> stamp]
           put  == Emit(free, PutActive(p))
           link == [put EXCEPT !.idx.active = [session |-> s, source |-> c]]
<1>1. Fine(kept)
  BY SnapshotFine, CurrentFine
<1> HIDE DEF kept
<1>2. free \in Drafts /\ Careful(disk, free.plan) /\ (free.ok => Emptied(free))
  BY <1>1, SetAsideFine
<1> HIDE DEF free
<1>3. p \in Payload /\ p.source = c
  BY DEF Tidy, Disk, Payload
<1> HIDE DEF p
<1>4. RestorePlan(s, c, stamp) = IF put.ok THEN CommitIndex(link) ELSE put
  BY DEF RestorePlan, kept, free, p
<1>5. CASE ~free.ok
  BY <1>2, <1>4, <1>5 DEF Emit
<1>6. CASE free.ok
  <2>1. PICK S \in SUBSET Tidy :
          /\ Leads(disk, free.plan, S) /\ free.img \in S
          /\ \A d \in S : /\ d.index \in Index /\ d.index.active = None
                          /\ [d EXCEPT !.active = None] = free.img
    BY <1>2, <1>6 DEF Emptied
  <2>2. ASSUME NEW d \in S
        PROVE  [d EXCEPT !.active = p] = [free.img EXCEPT !.active = p]
    <3>1. d \in Disk /\ free.img = [d EXCEPT !.active = None]
      BY <2>1 DEF Tidy
    <3> QED
      BY <3>1 DEF Disk
  <2>3. [free.img EXCEPT !.active = p] \in Tidy
    <3> DEFINE b == [free.img EXCEPT !.active = p]
    <3>1. free.img \in Disk /\ free.img.index.active = None
      BY <2>1 DEF Tidy
    <3>2. b \in Disk /\ b.index.active = None
      BY <1>3, <3>1 DEF Disk
    <3> HIDE DEF b
    <3>3. b \in Tidy
      BY <3>2 DEF Tidy, Traced
    <3> QED
      BY <3>3 DEF b
  <2>4. Fine(CommitIndex(link)) /\ Careful(disk, put.plan)
    BY <1>2, <1>3, <1>6, <2>1, <2>2, <2>3, PutAndLinkFine
  <2> QED
    BY <1>4, <2>4 DEF Fine
<1> QED
  BY <1>5, <1>6

(* A file that is neither the index nor the active payload is removed: the *)
(* plan may end so.                                                        *)
LEMMA RemovalCareful ==
  ASSUME NEW p \in Seq(Write), Careful(disk, p), NEW w \in Write,
         w.file \in {"cand", "legacy"}, w.val = None
  PROVE  Careful(disk, Append(p, w))
<1>1. PICK S \in SUBSET Tidy : Leads(disk, p, S)
  BY DEF Careful
<1> DEFINE T == S \union {Apply(d, w) : d \in S}
<1>2. ASSUME NEW d \in S PROVE Polite(d, w) /\ Apply(d, w) \in Tidy
  <2>1. d \in Disk
    BY DEF Tidy
  <2> DEFINE e == Apply(d, w)
  <2>2. e \in Disk /\ e.index = d.index /\ e.active = d.active
    BY <2>1, ApplyParts
  <2> HIDE DEF e
  <2>3. e \in Tidy
    BY <2>2 DEF Tidy, Traced
  <2> QED
    BY <2>3 DEF Polite, e
<1>3. T \in SUBSET Tidy
  BY <1>2
<1>4. \A d \in S : Polite(d, w) /\ Apply(d, w) \in T /\ (IsRemoval(w) => d \in T)
  BY <1>2
<1> HIDE DEF T
<1> QED
  BY <1>1, <1>3, <1>4, LeadsOn

LEMMA StartCareful ==
  ASSUME disk \in Tidy
  PROVE  Careful(disk, StartPlan.plan)
<1> DEFINE valid == disk.index \notin {None, Corrupt}
           base  == IF valid THEN disk.index ELSE DefaultIndex
           x     == Reconcile(base, disk)
           found == Draft(x)
           r     == IF valid THEN found ELSE ImportLegacy(found)
           gone  == Emit(CommitIndex(Unlink(r)), PutActive(None))
<1>1. disk \in Disk /\ base \in Index /\ (valid => Traced(base, disk))
      /\ (~valid => base.active = None)
  BY DefaultType DEF Tidy, Disk, DefaultIndex
<1>2. StartPlan =
        IF ~r.ok \/ (disk.index = None /\ r.idx = DefaultIndex) THEN r
        ELSE IF r.idx.active = None THEN CommitIndex(r)
        ELSE IF r.idx.active.session # None /\ Live(r.idx.active.session) THEN r
        ELSE IF AlreadyCarried(r) THEN gone
        ELSE SetAside(r)
  BY DEF StartPlan
<1> HIDE DEF base, valid
<1>3. x \in Index
  BY <1>1, ReconcileType
<1>4. Traced(x, disk)
  <2>1. x.active = IF disk.active = None THEN None
                   ELSE IF base.active = None
                        THEN [session |-> disk.active.session, source |-> disk.active.source]
                   ELSE IF ~(disk.active.doc # Unreadable) THEN base.active
                   ELSE IF disk.active.source = None
                        THEN [session |-> disk.active.session, source |-> base.active.source]
                   ELSE [session |-> disk.active.session, source |-> disk.active.source]
    BY DEF Reconcile
  <2>2. base.active # None /\ disk.active # None /\ disk.active.doc # Unreadable
        => disk.active.source = base.active.source
    BY <1>1 DEF Traced
  <2> HIDE DEF x
  <2> QED
    BY <2>1, <2>2 DEF Traced
<1> HIDE DEF x
<1>5. Fine(found) /\ Exact(found)
  BY <1>3, <1>4, DraftFine
<1> HIDE DEF found
<1>6. Fine(r)
  <2>1. CASE valid \/ disk.legacy = None
    BY <1>5, <2>1 DEF ImportLegacy
  <2>2. CASE ~valid /\ disk.legacy # None
    <3> DEFINE p == [doc |-> disk.legacy, session |-> None, source |-> None,
                     stamp |-> CHOOSE t \in Stamp : TRUE]
    <3>1. p \in Payload
      <4>1. (CHOOSE t \in Stamp : TRUE) \in Stamp
        BY ValuesAssumption
      <4> QED
        BY <1>1, <2>2, <4>1 DEF Disk, Payload, Work
    <3>2. r = AddCandidate(found, p, None)
      BY <2>2 DEF ImportLegacy
    <3> HIDE DEF p, r
    <3> QED
      BY <1>5, <3>1, <3>2, AddCandidateFine
  <2> QED
    BY <2>1, <2>2
<1> HIDE DEF r
<1>7. Careful(disk, r.plan) /\ Careful(disk, CommitIndex(r).plan)
  BY <1>6, CommitFine DEF Fine
<1>8. r.ok => Careful(disk, gone.plan)
  BY <1>6, UnlinkFine, RemoveFine
<1>9. Careful(disk, SetAside(r).plan)
  BY <1>6, SetAsideFine
<1> QED
  BY <1>2, <1>7, <1>8, <1>9

LEMMA DiscardCareful ==
  ASSUME disk \in Tidy, NEW s \in Session, NEW withSource \in BOOLEAN
  PROVE  Careful(disk, DiscardPlan(s, withSource).plan)
<1> DEFINE r    == Draft(CurrentIndex)
           src  == IF withSource THEN r.idx.active.source ELSE None
           gone == IF src = None THEN Unlink(r)
                   ELSE [Unlink(r) EXCEPT !.idx.carried[src] = Absent]
           done == Emit(CommitIndex(gone), PutActive(None))
<1>1. DiscardPlan(s, withSource) =
        IF disk.index = None THEN Emit(r, DropLegacy)
        ELSE IF disk.index = Corrupt THEN Failed(r)
        ELSE IF r.idx.active = None THEN r
        ELSE IF r.idx.active.session # s THEN r
        ELSE IF src = None THEN done
        ELSE Emit(done, PutCandidate(src, None))
  BY DEF DiscardPlan
<1>2. CASE disk.index = Corrupt /\ disk.index # None
  <2>1. Failed(r).plan = << >>
    BY DEF Failed, Draft
  <2> QED
    BY <1>1, <1>2, <2>1, NothingLeads
<1>3. CASE Usable
  <2>1. Fine(r) /\ r.ok /\ r.plan = << >>
    BY <1>3, CurrentFine DEF Draft
  <2>2. r \in Drafts /\ r.plan \in Seq(Write) /\ Careful(disk, r.plan)
    BY <2>1 DEF Fine, Drafts
  <2>3. Careful(disk, Emit(r, DropLegacy).plan)
    <3>1. DropLegacy \in Write /\ DropLegacy.file = "legacy" /\ DropLegacy.val = None
      BY WriteKinds DEF DropLegacy
    <3>2. Emit(r, DropLegacy).plan = Append(r.plan, DropLegacy)
      BY <2>1, <2>2, <3>1, EmitPlan
    <3> HIDE DEF r
    <3> QED
      BY <2>2, <3>1, <3>2, RemovalCareful
  <2> HIDE DEF r
  <2>4. Fine(Unlink(r)) /\ Unlink(r).idx.active = None /\ Unlink(r).ok
    BY <2>1, UnlinkFine
  <2>5. ASSUME r.idx.active # None PROVE src \in Id \union {None}
    BY <2>2, <2>5 DEF Drafts, Index, Active
  <2> HIDE DEF src
  <2>6. ASSUME r.idx.active # None PROVE Fine(gone) /\ gone.idx.active = None
    <3>1. CASE src = None
      BY <2>4, <3>1
    <3>2. CASE src # None
      <4> DEFINE u == Unlink(r)
      <4>1. Exact(u) /\ u \in Drafts /\ u.idx \in Index /\ u.idx.active = None /\ src \in Id
        BY <2>4, <2>5, <2>6, <3>2 DEF Fine, Drafts
      <4> HIDE DEF u
      <4>2. [u.idx.carried EXCEPT ![src] = Absent] \in [Id -> Session \union {None, Absent}]
        BY <4>1 DEF Index
      <4> DEFINE x == [u.idx EXCEPT !.carried = [u.idx.carried EXCEPT ![src] = Absent]]
      <4>3. x \in Index /\ x.active = None
        BY <4>1, <4>2 DEF Index
      <4>4. gone = [u EXCEPT !.idx = x]
        BY <3>2 DEF u
      <4> HIDE DEF x, gone
      <4>5. gone \in Drafts /\ gone.plan = u.plan /\ gone.ok = u.ok /\ gone.idx = x
            /\ gone.img = u.img
        BY <4>1, <4>3, <4>4, SameActive
      <4>6. Traced(x, u.img)
        BY <4>3 DEF Traced
      <4> QED
        BY <2>4, <4>1, <4>3, <4>5, <4>6 DEF Fine, Exact, u
    <3> QED
      BY <3>1, <3>2
  <2> HIDE DEF gone
  <2>7. ASSUME r.idx.active # None PROVE done \in Drafts /\ Careful(disk, done.plan)
    BY <2>6, <2>7, RemoveFine
  <2> HIDE DEF done
  <2>8. ASSUME r.idx.active # None, src # None
        PROVE  Careful(disk, Emit(done, PutCandidate(src, None)).plan)
    <3> DEFINE w == PutCandidate(src, None)
    <3>1. w \in Write /\ w.file = "cand" /\ w.val = None
      BY <2>5, <2>8, WriteKinds DEF PutCandidate
    <3>2. done \in Drafts /\ done.plan \in Seq(Write) /\ Careful(disk, done.plan)
      BY <2>7, <2>8 DEF Drafts
    <3> HIDE DEF w
    <3>3. done.ok => Emit(done, w).plan = Append(done.plan, w)
      BY <3>1, <3>2, EmitPlan
    <3>4. ~done.ok => Emit(done, w) = done
      BY DEF Emit
    <3>5. Careful(disk, Append(done.plan, w))
      BY <3>1, <3>2, RemovalCareful
    <3>6. Careful(disk, Emit(done, w).plan)
      BY <3>2, <3>3, <3>4, <3>5
    <3> QED
      BY <3>6 DEF w
  <2> QED
    BY <1>1, <1>3, <2>2, <2>3, <2>7, <2>8 DEF Usable
<1>4. disk.index = None => Usable \/ disk.index = Corrupt
  BY DEF Usable
<1>5. CASE disk.index = Corrupt /\ disk.index = None
  <2>1. CurrentIndex = DefaultIndex
    BY <1>5 DEF CurrentIndex
  <2>2. Traced(DefaultIndex, disk)
    BY DEF Traced, DefaultIndex
  <2>3. Fine(r) /\ r.ok
    BY <2>1, <2>2, DefaultType, DraftFine DEF Draft
  <2>4. r \in Drafts /\ r.plan \in Seq(Write) /\ Careful(disk, r.plan)
    BY <2>3 DEF Fine, Drafts
  <2>5. DropLegacy \in Write /\ DropLegacy.file = "legacy" /\ DropLegacy.val = None
    BY WriteKinds DEF DropLegacy
  <2>6. Emit(r, DropLegacy).plan = Append(r.plan, DropLegacy)
    BY <2>3, <2>4, <2>5, EmitPlan
  <2>7. Careful(disk, Append(r.plan, DropLegacy))
    BY <2>4, <2>5, RemovalCareful
  <2> QED
    BY <1>1, <1>5, <2>6, <2>7
<1> QED
  BY <1>2, <1>3, <1>5 DEF Usable

LEMMA DropCareful ==
  ASSUME disk \in Tidy, disk.index \notin {None, Corrupt}, NEW c \in Id
  PROVE  Careful(disk, DropCandidatePlan(c).plan)
<1> DEFINE x == [CurrentIndex EXCEPT !.carried[c] = Absent]
           w == PutCandidate(c, None)
           e == CommitIndex(Draft(x))
<1>1. disk \in Disk
  BY DEF Tidy
<1>2. CurrentIndex = disk.index /\ CurrentIndex \in Index /\ Traced(CurrentIndex, disk)
  BY <1>1, CurrentIndexType DEF CurrentIndex, Tidy
<1>3. x \in Index /\ x.active = CurrentIndex.active
  <2>1. [CurrentIndex.carried EXCEPT ![c] = Absent] \in [Id -> Session \union {None, Absent}]
    BY <1>2 DEF Index
  <2> QED
    BY <1>2, <2>1 DEF Index
<1>4. w \in Write /\ w.file = "cand" /\ w.val = None
  BY WriteKinds DEF PutCandidate
<1>5. DropCandidatePlan(c) = Emit(e, w)
  BY DEF DropCandidatePlan
<1> HIDE DEF x, w
<1>6. Traced(x, disk)
  BY <1>2, <1>3 DEF Traced
<1>7. Fine(e)
  BY <1>3, <1>6, DraftFine, CommitFine
<1> HIDE DEF e
<1>8. e \in Drafts /\ e.plan \in Seq(Write) /\ Careful(disk, e.plan)
  BY <1>7 DEF Fine, Drafts
<1>9. e.ok => Emit(e, w).plan = Append(e.plan, w)
  BY <1>4, <1>8, EmitPlan
<1>10. ~e.ok => Emit(e, w) = e
  BY DEF Emit
<1>11. Careful(disk, Append(e.plan, w))
  BY <1>4, <1>8, RemovalCareful
<1> QED
  BY <1>5, <1>8, <1>9, <1>10, <1>11

-----------------------------------------------------------------------------
(* Steps.                                                                  *)

Orderly == disk \in Tidy /\ (tx # None => Careful(disk, tx.plan))

(* One step replaces a candidate as OverwriteOnlyBySource allows.          *)
Respects ==
  \A i \in Id :
    tx # None /\ disk.cand[i] # None /\ disk'.cand[i] \notin {None, disk.cand[i]}
    => disk.active # None /\ disk'.cand[i] = disk.active /\ disk.active.source = i

LEMMA BeginOrderly ==
  ASSUME Orderly, NEW s, NEW op, NEW c, NEW r, Begin(s, op, c, r), disk' = disk,
         Careful(disk, r.plan)
  PROVE  Orderly'
<1>1. tx'.plan = r.plan
  BY DEF Begin
<1> QED
  BY <1>1 DEF Orderly

LEMMA OperationOrderly ==
  ASSUME IInv, Orderly, NEW s \in Session,
         \/ Start(s) \/ Autosave(s) \/ Replace(s) \/ Save(s) \/ Exit(s)
         \/ \E c \in Id : Restore(s, c) \/ DiscardCandidate(s, c)
  PROVE  Orderly' /\ disk' = disk
<1>1. disk \in Tidy /\ StoreOK /\ disk \in Disk
  BY Parts DEF Orderly
<1>2. CASE Start(s)
  BY <1>1, <1>2, StartCareful, BeginOrderly DEF Start
<1>3. ASSUME Usable, NEW r \in Snapshots(s)
      PROVE  Careful(disk, r.plan) /\ Careful(disk, SetAside(r).plan)
  <2>1. PICK stamp \in StampsFor(mem[s].doc) : r = SnapshotPlan(s, stamp)
    BY DEF Snapshots
  <2>2. stamp \in Stamp
    BY <1>1, StampType
  <2>3. Fine(r)
    BY <1>1, <1>3, <2>1, <2>2, SnapshotFine
  <2> QED
    BY <2>3, SetAsideFine DEF Fine
<1>4. CASE Autosave(s)
  BY <1>3, <1>4, BeginOrderly DEF Autosave
<1>5. CASE Replace(s)
  BY <1>3, <1>5, BeginOrderly DEF Replace
<1>6. CASE Save(s)
  BY <1>1, <1>6, DiscardCareful, BeginOrderly DEF Save
<1>7. CASE Exit(s)
  BY <1>1, <1>7, DiscardCareful, BeginOrderly DEF Exit
<1>8. ASSUME NEW c \in Id, Restore(s, c) PROVE Orderly' /\ disk' = disk
  <2>1. PICK stamp \in Stamp : Begin(s, "restore", c, RestorePlan(s, c, stamp))
    BY <1>8 DEF Restore
  <2>2. disk.cand[c] # None /\ Usable /\ disk' = disk
    BY <1>8 DEF Restore, Shown, Listed, Usable
  <2>3. Careful(disk, RestorePlan(s, c, stamp).plan)
    BY <1>1, <2>2, RestoreCareful
  <2> QED
    BY <2>1, <2>2, <2>3, BeginOrderly
<1>9. ASSUME NEW c \in Id, DiscardCandidate(s, c) PROVE Orderly' /\ disk' = disk
  BY <1>1, <1>9, DropCareful, BeginOrderly DEF DiscardCandidate
<1> QED
  BY <1>2, <1>4, <1>5, <1>6, <1>7, <1>8, <1>9

(* A write is done: the rest of the plan goes on from the new disk.        *)
LEMMA WriteFileOrderly ==
  ASSUME IInv, Orderly, WriteFile
  PROVE  Orderly' /\ Respects
<1> DEFINE p == tx.plan
           w == p[1]
<1>1. tx \in Transaction /\ p \in Seq(Write) /\ p # << >> /\ Careful(disk, p)
  BY Parts DEF WriteFile, TxOK, Transaction, Orderly
<1>2. w \in Write /\ disk' = Apply(disk, w) /\ tx' = [tx EXCEPT !.plan = Tail(p)]
  BY <1>1, TailFacts DEF WriteFile
<1>3. tx'.plan = Tail(p)
  BY <1>1, <1>2 DEF Transaction
<1>4. Polite(disk, w) /\ Careful(disk', Tail(p)) /\ disk' \in Tidy
  BY <1>1, <1>2, CarefulTail
<1> HIDE DEF w, p
<1>5. Orderly'
  BY <1>3, <1>4 DEF Orderly
<1>6. ASSUME NEW i \in Id, disk.cand[i] # None, disk'.cand[i] \notin {None, disk.cand[i]}
      PROVE  disk.active # None /\ disk'.cand[i] = disk.active /\ disk.active.source = i
  <2>1. disk \in Disk
    BY Parts
  <2>2. w.file = "cand"
    BY <1>2, <1>6, <2>1, ApplyParts
  <2>3. disk' = [disk EXCEPT !.cand[w.id] = w.val]
    BY <1>2, <2>2 DEF Apply
  <2>4. w.id = i /\ disk'.cand[i] = w.val
    BY <1>6, <2>1, <2>3 DEF Disk
  <2>5. disk.active = w.val /\ disk.active.source = i
    BY <1>4, <1>6, <2>2, <2>4 DEF Polite
  <2> QED
    BY <1>6, <2>4, <2>5
<1> QED
  BY <1>5, <1>6 DEF Respects

LEMMA WriteFailsOrderly ==
  ASSUME IInv, Orderly, WriteFails
  PROVE  Orderly' /\ disk' = disk
<1> DEFINE p == tx.plan
<1>1. tx \in Transaction /\ p \in Seq(Write) /\ p # << >> /\ Careful(disk, p)
  BY Parts DEF WriteFails, TxOK, Transaction, Orderly
<1>2. disk' = disk /\ disk \in Tidy
  BY DEF WriteFails, Orderly
<1>3. ASSUME tx' = [tx EXCEPT !.plan = << >>, !.ok = FALSE] PROVE Orderly'
  <2>1. tx'.plan = << >>
    BY <1>1, <1>3 DEF Transaction
  <2> QED
    BY <1>2, <2>1, NothingLeads DEF Orderly
<1>4. ASSUME tx' = [tx EXCEPT !.plan = Tail(@)], IsRemoval(Head(p)) PROVE Orderly'
  <2>1. tx'.plan = Tail(p)
    BY <1>1, <1>4 DEF Transaction
  <2>2. IsRemoval(p[1])
    BY <1>1, <1>4, TailFacts
  <2>3. Careful(disk, Tail(p))
    BY <1>1, <2>2, CarefulTail
  <2> QED
    BY <1>2, <2>1, <2>3 DEF Orderly
<1> QED
  BY <1>2, <1>3, <1>4 DEF WriteFails

(* A damaged index says nothing, and a damaged payload cannot be read.     *)
LEMMA DamageOrderly ==
  ASSUME IInv, Orderly, Damage
  PROVE  Orderly' /\ tx = None
<1>1. tx = None /\ tx' = None
  BY DEF Damage
<1>2. disk \in Disk /\ disk \in Tidy
  BY Parts DEF Orderly
<1>3. disk' \in Disk
  BY DamageOK, PartsPrimed
<1>4. ASSUME disk' = [disk EXCEPT !.index = Corrupt] PROVE disk' \in Tidy
  <2>1. disk'.index = Corrupt
    BY <1>2, <1>4 DEF Disk
  <2> QED
    BY <1>3, <2>1 DEF Tidy
<1>5. ASSUME disk.active # None, disk' = [disk EXCEPT !.active = Damaged(@)]
      PROVE  disk' \in Tidy
  <2>1. disk'.active.doc = Unreadable
    <3>1. disk.active \in Payload
      BY <1>2, <1>5 DEF Disk
    <3>2. disk'.active = Damaged(disk.active)
      BY <1>2, <1>5 DEF Disk
    <3> QED
      BY <3>1, <3>2 DEF Damaged, Payload
  <2> QED
    BY <1>3, <2>1 DEF Tidy, Traced
<1>6. ASSUME NEW c \in Id, disk' = [disk EXCEPT !.cand[c] = Damaged(@)] PROVE disk' \in Tidy
  <2>1. disk'.index = disk.index /\ disk'.active = disk.active
    BY <1>2, <1>6 DEF Disk
  <2> QED
    BY <1>2, <1>3, <2>1 DEF Tidy, Traced
<1>7. disk' \in Tidy
  BY <1>4, <1>5, <1>6 DEF Damage
<1> QED
  BY <1>1, <1>7 DEF Orderly

LEMMA StepOrderly == IInv /\ Orderly /\ [Next]_vars => Orderly' /\ Respects
<1> SUFFICES ASSUME IInv, Orderly, [Next]_vars PROVE Orderly' /\ Respects
  OBVIOUS
<1>1. disk' = disk => Respects
  BY DEF Respects
<1>2. ASSUME NEW s \in Session,
             \/ Start(s) \/ Autosave(s) \/ Replace(s) \/ Save(s) \/ Exit(s)
             \/ \E c \in Id : Restore(s, c) \/ DiscardCandidate(s, c)
      PROVE  Orderly' /\ Respects
  BY <1>1, <1>2, OperationOrderly
<1>3. ASSUME disk' = disk, tx' \in {tx, None} PROVE Orderly' /\ Respects
  BY <1>1, <1>3 DEF Orderly
<1>4. ASSUME NEW s \in Session,
             Change(s) \/ ReplaceSaved(s) \/ Close(s) \/ Leave(s) \/ Crash(s)
      PROVE  Orderly' /\ Respects
  BY <1>3, <1>4 DEF Change, ReplaceSaved, Close, Leave, Crash
<1>5. CASE WriteFile
  BY <1>5, WriteFileOrderly
<1>6. CASE WriteFails
  BY <1>1, <1>6, WriteFailsOrderly
<1>7. CASE Finish
  BY <1>3, <1>7 DEF Finish
<1>8. CASE Damage
  BY <1>8, DamageOrderly DEF Respects
<1>9. CASE UNCHANGED vars
  BY <1>3, <1>9 DEF vars
<1> QED
  BY <1>2, <1>4, <1>5, <1>6, <1>7, <1>8, <1>9 DEF Next

LEMMA InitOrderly == Init => Orderly
<1> SUFFICES ASSUME Init PROVE Orderly
  OBVIOUS
<1>1. disk \in Disk
  BY InitOK, Parts
<1>2. disk.index = None /\ tx = None
  BY DEF Init
<1> QED
  BY <1>1, <1>2 DEF Orderly, Tidy

(* Whatever the processes do, and wherever they are interrupted, a         *)
(* candidate's file is only ever replaced by the active payload of the     *)
(* work restored from it (autosave.rs:660-681, 806-835): the ids given to  *)
(* new candidates and to an old autosave take no other candidate's place,  *)
(* and the active payload, while it can be read, names the source the      *)
(* index names.                                                            *)
THEOREM OverwrittenOnlyBySource == Spec => OverwriteOnlyBySource
<1>1. Init => IInv /\ Orderly
  BY InitOK, InitOrderly
<1>2. IInv /\ Orderly /\ [Next]_vars => (IInv /\ Orderly)' /\ [Respects]_disk
  BY StepOK, StepOrderly
<1>3. [Respects]_disk => [\A i \in Id :
        tx # None /\ disk.cand[i] # None /\ disk'.cand[i] \notin {None, disk.cand[i]}
        => /\ disk.active # None
           /\ disk'.cand[i] = disk.active
           /\ disk.active.source = i]_disk
  BY DEF Respects
<1> QED
  BY <1>1, <1>2, <1>3, PTL DEF Spec, OverwriteOnlyBySource

-----------------------------------------------------------------------------
(* No work is lost.  The obligations are compared with the disk alone: what *)
(* a process that starts on it would find, and would not replace.          *)

(* The index names the active payload; the candidate the active work is to *)
(* go back to.                                                             *)
Named(d) == d.index \notin {None, Corrupt} /\ d.index.active # None

LinkOf(d) ==
  IF d.active = None THEN None
  ELSE IF Named(d) THEN d.index.active.source ELSE d.active.source

(* Where a version of the work o may be: in a candidate, in one that is not *)
(* about to be replaced, in one that is replaced by the same at most, and  *)
(* in the active payload, where the next start will look for it.           *)
Holds(d, c, o) == d.cand[c] # None /\ d.cand[c].doc \in o

Beside(d, o) == \E c \in Id : c # LinkOf(d) /\ Holds(d, c, o)

Rests(d, o) ==
  \E c \in Id : Holds(d, c, o) /\ (c # LinkOf(d) \/ d.cand[c].doc = d.active.doc)

InSlot(d, o) ==
  (Named(d) \/ d.index = Corrupt) /\ d.active # None /\ d.active.doc \in o

Kept(d, o) == InSlot(d, o) \/ Rests(d, o)

(* The autosave of an old version, before the first start imports it.      *)
Unimported(d, o) ==
  /\ d.index = None /\ d.active = None
  /\ d.legacy # None /\ d.legacy \in o
  /\ \A c \in Id : d.cand[c] = None

Stands(d, o) == Kept(d, o) \/ Unimported(d, o)

(* The payload names no other source than the index, and the index no      *)
(* process that has not started; the last id is never given away.          *)
Tied(d, N) ==
  Named(d) => /\ d.active # None => d.active.source \in {None, d.index.active.source}
              /\ d.index.active.session \notin N

Sure(d, O, N) ==
  d \in Disk /\ d.cand[MaxId] = None /\ Tied(d, N) /\ \A o \in O : Stands(d, o)

(* The slot is that of process s; the active work would go back to its     *)
(* source.                                                                 *)
Own(d, s) == Named(d) /\ d.index.active.session = s

Returns(d) ==
  LET q == d.index.active.source
  IN /\ q # None /\ d.index.carried[q] # Absent
     /\ d.cand[q] = None \/ Unreadable \notin {d.active.doc, d.cand[q].doc}

(* Between two operations of the only process s, which owes m itself.  If  *)
(* the slot is its own, no work of the shelf depends on it; if the slot    *)
(* could not be taken over at startup, it is not linked to a candidate.    *)
Settled(d, s, m, sh) ==
  /\ Own(d, s) => /\ \A o \in sh : Beside(d, o)
                  /\ m # {} => d.active # None /\ d.active.doc \in m
  /\ ~Own(d, s) => /\ \A o \in sh : Kept(d, o)
                   /\ Named(d) => ~Returns(d)
                   /\ m # {} => d.index = Corrupt /\ InSlot(d, m)

(* Plan p leads from disk d to disk e by writes of W, and wherever it is    *)
(* cut off, the disk is one of S.                                          *)
Through(d, p, e, S, W) ==
  \E h \in [0 .. Len(p) -> S] :
    /\ h[0] = d /\ h[Len(p)] = e
    /\ \A n \in 1 .. Len(p) : p[n] \in W /\ h[n] = Apply(h[n - 1], p[n])

(* On a course every obligation stands all the way.                        *)
Course(d, p, e, O, N) == Through(d, p, e, {x \in Disk : Sure(x, O, N)}, Write)

LEMMA NoIdNone == None \notin Id /\ None \notin Payload
BY ValuesAssumption

(* The empty plan, one more write, and the rest of a plan.                 *)
LEMMA ThroughStarts ==
  ASSUME NEW S, NEW W, NEW d \in S
  PROVE  Through(d, << >>, d, S, W)
<1> DEFINE h == [n \in 0 .. Len(<< >>) |-> d]
<1>1. Len(<< >>) = 0
  OBVIOUS
<1>2. h \in [0 .. Len(<< >>) -> S] /\ h[0] = d /\ h[Len(<< >>)] = d
  BY <1>1
<1>3. \A n \in 1 .. Len(<< >>) : FALSE
  BY <1>1
<1> HIDE DEF h
<1> QED
  BY <1>2, <1>3 DEF Through

LEMMA ThroughOn ==
  ASSUME NEW S, NEW W, NEW d, NEW p \in Seq(Write), NEW e, Through(d, p, e, S, W),
         NEW w \in Write, w \in W, Apply(e, w) \in S
  PROVE  Through(d, Append(p, w), Apply(e, w), S, W)
<1> DEFINE q == Append(p, w)
           k == Len(p) + 1
<1>1. /\ Len(p) \in Nat /\ Len(q) = k /\ q[k] = w
      /\ \A n \in 1 .. Len(p) : q[n] = p[n]
  BY AppendFacts
<1>2. PICK h \in [0 .. Len(p) -> S] :
        /\ h[0] = d /\ h[Len(p)] = e
        /\ \A n \in 1 .. Len(p) : p[n] \in W /\ h[n] = Apply(h[n - 1], p[n])
  BY DEF Through
<1> HIDE DEF q
<1> DEFINE g == [n \in 0 .. Len(q) |-> IF n \in 0 .. Len(p) THEN h[n] ELSE Apply(e, w)]
<1>3. g \in [0 .. Len(q) -> S] /\ g[0] = d /\ g[Len(q)] = Apply(e, w)
  <2>1. k \notin 0 .. Len(p) /\ 0 \in 0 .. Len(p) /\ 0 \in 0 .. Len(q) /\ k \in 0 .. Len(q)
    BY <1>1
  <2>2. \A n \in 0 .. Len(p) : h[n] \in S
    OBVIOUS
  <2> QED
    BY <1>1, <1>2, <2>1, <2>2
<1>4. ASSUME NEW n \in 1 .. Len(q) PROVE q[n] \in W /\ g[n] = Apply(g[n - 1], q[n])
  <2>1. CASE n \in 1 .. Len(p)
    <3>1. n \in 0 .. Len(p) /\ n - 1 \in 0 .. Len(p) /\ n \in 0 .. Len(q) /\ n - 1 \in 0 .. Len(q)
      BY <1>1, <2>1
    <3>2. g[n] = h[n] /\ g[n - 1] = h[n - 1] /\ q[n] = p[n]
      BY <1>1, <2>1, <3>1
    <3> HIDE DEF g, k
    <3> QED
      BY <1>2, <2>1, <3>2
  <2>2. CASE n = k
    <3>1. n \notin 0 .. Len(p) /\ n - 1 \in 0 .. Len(p) /\ n \in 0 .. Len(q) /\ n - 1 \in 0 .. Len(q)
          /\ n - 1 = Len(p)
      BY <1>1, <2>2
    <3>2. g[n] = Apply(e, w) /\ g[n - 1] = e /\ q[n] = w
      BY <1>1, <1>2, <2>2, <3>1
    <3> HIDE DEF g, k
    <3> QED
      BY <3>2
  <2> QED
    BY <1>1, <2>1, <2>2
<1> HIDE DEF g
<1>5. Through(d, q, Apply(e, w), S, W)
  BY <1>3, <1>4 DEF Through
<1> QED
  BY <1>5 DEF q

LEMMA ThroughTail ==
  ASSUME NEW S, NEW W, NEW d, NEW p \in Seq(Write), p # << >>, NEW e, Through(d, p, e, S, W)
  PROVE  p[1] \in W /\ Through(Apply(d, p[1]), Tail(p), e, S, W)
<1> DEFINE q == Tail(p)
<1>1. /\ Len(p) \in Nat \ {0} /\ Len(q) = Len(p) - 1
      /\ \A n \in 1 .. Len(p) - 1 : q[n] = p[n + 1]
  BY TailFacts
<1>2. PICK h \in [0 .. Len(p) -> S] :
        /\ h[0] = d /\ h[Len(p)] = e
        /\ \A n \in 1 .. Len(p) : p[n] \in W /\ h[n] = Apply(h[n - 1], p[n])
  BY DEF Through
<1> HIDE DEF q
<1> DEFINE g == [n \in 0 .. Len(q) |-> h[n + 1]]
<1>3. 1 \in 1 .. Len(p) /\ 1 - 1 = 0 /\ p[1] \in W /\ h[1] = Apply(d, p[1])
  <2>1. 1 \in 1 .. Len(p) /\ 1 - 1 = 0
    BY <1>1
  <2> QED
    BY <1>2, <2>1
<1>4. g \in [0 .. Len(q) -> S] /\ g[0] = h[1] /\ g[Len(q)] = e
  <2>1. \A n \in 0 .. Len(q) : n + 1 \in 0 .. Len(p)
    BY <1>1
  <2>2. 0 \in 0 .. Len(q) /\ Len(q) \in 0 .. Len(q) /\ 0 + 1 = 1 /\ Len(q) + 1 = Len(p)
    BY <1>1
  <2> QED
    BY <1>2, <2>1, <2>2
<1>5. ASSUME NEW n \in 1 .. Len(q) PROVE q[n] \in W /\ g[n] = Apply(g[n - 1], q[n])
  <2>1. n + 1 \in 1 .. Len(p) /\ n \in 0 .. Len(q) /\ n - 1 \in 0 .. Len(q)
        /\ (n - 1) + 1 = n /\ (n + 1) - 1 = n /\ n \in 1 .. Len(p) - 1
    BY <1>1
  <2>2. g[n] = h[n + 1] /\ g[n - 1] = h[n] /\ q[n] = p[n + 1]
    BY <1>1, <2>1
  <2>3. p[n + 1] \in W /\ h[n + 1] = Apply(h[n], p[n + 1])
    BY <1>2, <2>1
  <2> HIDE DEF g
  <2> QED
    BY <2>2, <2>3
<1> HIDE DEF g
<1> QED
  BY <1>3, <1>4, <1>5 DEF Through, q

(* The first disk and the last one.                                        *)
LEMMA ThroughEnds ==
  ASSUME NEW S, NEW W, NEW d, NEW p \in Seq(Write), NEW e, Through(d, p, e, S, W)
  PROVE  d \in S /\ e \in S /\ (p = << >> => e = d)
<1>1. PICK h \in [0 .. Len(p) -> S] : h[0] = d /\ h[Len(p)] = e
  BY DEF Through
<1>2. Len(p) \in Nat /\ 0 \in 0 .. Len(p) /\ Len(p) \in 0 .. Len(p)
  OBVIOUS
<1>3. p = << >> => Len(p) = 0
  OBVIOUS
<1> QED
  BY <1>1, <1>2, <1>3

(* More disks and writes may be passed through than are.                   *)
LEMMA ThroughMore ==
  ASSUME NEW S, NEW W, NEW d, NEW p \in Seq(Write), NEW e, Through(d, p, e, S, W),
         NEW T, S \subseteq T, NEW V, W \subseteq V
  PROVE  Through(d, p, e, T, V)
BY DEF Through

LEMMA CourseStarts ==
  ASSUME NEW d, NEW O, NEW N, Sure(d, O, N)
  PROVE  Course(d, << >>, d, O, N)
BY ThroughStarts DEF Course, Sure

LEMMA CourseOn ==
  ASSUME NEW d, NEW p \in Seq(Write), NEW e, NEW O, NEW N, Course(d, p, e, O, N),
         NEW w \in Write, Sure(Apply(e, w), O, N)
  PROVE  Course(d, Append(p, w), Apply(e, w), O, N)
<1>1. Apply(e, w) \in {x \in Disk : Sure(x, O, N)}
  BY DEF Sure
<1> QED
  BY <1>1, ThroughOn DEF Course

LEMMA CourseTail ==
  ASSUME NEW d, NEW p \in Seq(Write), p # << >>, NEW e, NEW O, NEW N, Course(d, p, e, O, N)
  PROVE  Course(Apply(d, p[1]), Tail(p), e, O, N)
BY ThroughTail DEF Course

LEMMA CourseEnds ==
  ASSUME NEW d, NEW p \in Seq(Write), NEW e, NEW O, NEW N, Course(d, p, e, O, N)
  PROVE  Sure(d, O, N) /\ Sure(e, O, N) /\ (p = << >> => e = d)
<1>1. LET S == {x \in Disk : Sure(x, O, N)}
      IN d \in S /\ e \in S /\ (p = << >> => e = d)
  BY ThroughEnds DEF Course
<1> QED
  BY <1>1

(* What each kind of write leaves of a disk.                               *)
LEMMA CandidateParts ==
  ASSUME NEW d \in Disk, NEW k \in Id, NEW p \in Payload \union {None}
  PROVE  LET e == Apply(d, PutCandidate(k, p))
         IN /\ PutCandidate(k, p) \in Write
            /\ e \in Disk /\ e.index = d.index /\ e.active = d.active /\ e.legacy = d.legacy
            /\ \A c \in Id : e.cand[c] = IF c = k THEN p ELSE d.cand[c]
BY WriteKinds, ApplyType DEF Apply, PutCandidate, Disk

LEMMA IndexParts ==
  ASSUME NEW d \in Disk, NEW x \in Index
  PROVE  LET e == Apply(d, PutIndex(x))
         IN /\ PutIndex(x) \in Write
            /\ e \in Disk /\ e.index = x /\ e.active = d.active /\ e.legacy = d.legacy
            /\ e.cand = d.cand
BY WriteKinds, ApplyType DEF Apply, PutIndex, Disk

LEMMA ActiveParts ==
  ASSUME NEW d \in Disk, NEW p \in Payload \union {None}
  PROVE  LET e == Apply(d, PutActive(p))
         IN /\ PutActive(p) \in Write
            /\ e \in Disk /\ e.index = d.index /\ e.active = p /\ e.legacy = d.legacy
            /\ e.cand = d.cand
BY WriteKinds, ApplyType DEF Apply, PutActive, Disk

LEMMA LegacyParts ==
  ASSUME NEW d \in Disk
  PROVE  LET e == Apply(d, DropLegacy)
         IN /\ DropLegacy \in Write
            /\ e \in Disk /\ e.index = d.index /\ e.active = d.active /\ e.cand = d.cand
BY WriteKinds, ApplyType DEF Apply, DropLegacy, Disk


(* The link depends on the index and the slot only.                        *)
LEMMA SameLink ==
  ASSUME NEW d, NEW e, e.index = d.index, e.active = d.active
  PROVE  /\ Named(e) <=> Named(d)
         /\ LinkOf(e) = LinkOf(d)
         /\ \A N : Tied(e, N) <=> Tied(d, N)
         /\ \A o : InSlot(e, o) <=> InSlot(d, o)
         /\ \A s : Own(e, s) <=> Own(d, s)
BY DEF Named, LinkOf, Tied, InSlot, Own

(* A new candidate takes nothing away, and holds what was not imported.    *)
LEMMA NewCandidate ==
  ASSUME NEW d, NEW O, NEW N, Sure(d, O, N), NEW k \in Id, k # MaxId, d.cand[k] = None,
         NEW p \in Payload, \A o \in O : Kept(d, o) \/ p.doc \in o
  PROVE  LET e == Apply(d, PutCandidate(k, p))
         IN Sure(e, O, N) /\ \A o \in O : Kept(e, o)
<1> DEFINE e == Apply(d, PutCandidate(k, p))
<1>1. d \in Disk /\ d.cand[MaxId] = None /\ Tied(d, N) /\ MaxId \in Id
  BY BoundsAssumption DEF Sure, Id
<1>2. /\ e \in Disk /\ e.index = d.index /\ e.active = d.active
      /\ \A c \in Id : e.cand[c] = IF c = k THEN p ELSE d.cand[c]
  BY <1>1, CandidateParts
<1> HIDE DEF e
<1>3. LinkOf(e) = LinkOf(d) /\ Tied(e, N) /\ \A o : InSlot(e, o) <=> InSlot(d, o)
  BY <1>1, <1>2, SameLink
<1>4. ASSUME NEW o \in O PROVE Kept(e, o)
  <2>1. CASE InSlot(d, o)
    BY <1>3, <2>1 DEF Kept
  <2>2. CASE Rests(d, o)
    <3>1. PICK c \in Id : Holds(d, c, o) /\ (c # LinkOf(d) \/ d.cand[c].doc = d.active.doc)
      BY <2>2 DEF Rests
    <3>2. c # k
      BY <3>1 DEF Holds
    <3> QED
      BY <1>2, <1>3, <3>1, <3>2 DEF Kept, Rests, Holds
  <2>3. CASE ~Kept(d, o)
    <3>1. p.doc \in o /\ d.active = None
      BY <2>3 DEF Sure, Stands, Unimported
    <3>2. LinkOf(e) = None
      BY <1>2, <3>1 DEF LinkOf
    <3>3. Holds(e, k, o)
      BY <1>2, <3>1, NoIdNone DEF Holds
    <3> QED
      BY <3>2, <3>3, NoIdNone DEF Kept, Rests
  <2> QED
    BY <2>1, <2>2, <2>3 DEF Kept
<1>5. e.cand[MaxId] = None
  BY <1>1, <1>2
<1> QED
  BY <1>2, <1>3, <1>4, <1>5 DEF Sure, Stands, e

(* Nor does the active work, going back to its source.                     *)
LEMMA BackToSource ==
  ASSUME NEW d, NEW O, NEW N, Sure(d, O, N), NEW k \in Id, k # MaxId, k = LinkOf(d),
         d.active # None, \A o \in O : Kept(d, o)
  PROVE  LET e == Apply(d, PutCandidate(k, d.active))
         IN Sure(e, O, N) /\ \A o \in O : Kept(e, o)
<1> DEFINE e == Apply(d, PutCandidate(k, d.active))
<1>1. d \in Disk /\ d.cand[MaxId] = None /\ Tied(d, N) /\ MaxId \in Id /\ d.active \in Payload
  BY BoundsAssumption DEF Sure, Id, Disk
<1>2. /\ e \in Disk /\ e.index = d.index /\ e.active = d.active
      /\ \A c \in Id : e.cand[c] = IF c = k THEN d.active ELSE d.cand[c]
  BY <1>1, CandidateParts
<1> HIDE DEF e
<1>3. LinkOf(e) = LinkOf(d) /\ Tied(e, N) /\ \A o : InSlot(e, o) <=> InSlot(d, o)
  BY <1>1, <1>2, SameLink
<1>4. ASSUME NEW o \in O PROVE Kept(e, o)
  <2>1. CASE InSlot(d, o)
    BY <1>3, <2>1 DEF Kept
  <2>2. CASE Rests(d, o)
    <3>1. PICK c \in Id : Holds(d, c, o) /\ (c # LinkOf(d) \/ d.cand[c].doc = d.active.doc)
      BY <2>2 DEF Rests
    <3>2. CASE c # k
      BY <1>2, <1>3, <3>1, <3>2 DEF Kept, Rests, Holds
    <3>3. CASE c = k
      BY <1>2, <3>1, <3>3 DEF Kept, Rests, Holds
    <3> QED
      BY <3>2, <3>3
  <2> QED
    BY <2>1, <2>2 DEF Kept
<1>5. e.cand[MaxId] = None
  BY <1>1, <1>2
<1> QED
  BY <1>2, <1>3, <1>4, <1>5 DEF Sure, Stands, e

-----------------------------------------------------------------------------
(* Drafts of a course.                                                     *)

(* The numbers of an index are in order, whatever its active entry says.   *)
Numbered(x) ==
  /\ x.next \in 1 .. MaxId
  /\ \A i \in Id : x.carried[i] # Absent => i < x.next

Going(r, O, N) == r \in Drafts /\ r.ok /\ Numbered(r.idx) /\ Course(disk, r.plan, r.img, O, N)

LEMMA GoingParts ==
  ASSUME NEW r, NEW O, NEW N, Going(r, O, N)
  PROVE  /\ r \in Drafts /\ r.ok /\ r.idx \in Index /\ r.img \in Disk /\ r.plan \in Seq(Write)
         /\ Numbered(r.idx) /\ Course(disk, r.plan, r.img, O, N) /\ Sure(r.img, O, N)
         /\ disk \in Disk
<1>1. r \in Drafts /\ r.ok /\ r.idx \in Index /\ r.img \in Disk /\ r.plan \in Seq(Write)
      /\ Numbered(r.idx) /\ Course(disk, r.plan, r.img, O, N)
  BY DEF Going, Drafts
<1>2. Sure(r.img, O, N) /\ Sure(disk, O, N)
  BY <1>1, CourseEnds
<1> QED
  BY <1>1, <1>2 DEF Sure

LEMMA DraftGoing ==
  ASSUME NEW O, NEW N, Sure(disk, O, N), NEW x \in Index, Numbered(x)
  PROVE  /\ Going(Draft(x), O, N)
         /\ Draft(x).idx = x /\ Draft(x).img = disk /\ Draft(x).plan = << >> /\ Draft(x).ok
<1>1. disk \in Disk
  BY DEF Sure
<1>2. Draft(x) \in Drafts /\ Draft(x).plan = << >> /\ Draft(x).img = disk
      /\ Draft(x).idx = x /\ Draft(x).ok
  BY <1>1, DraftSound DEF Sound, Draft
<1> QED
  BY <1>2, CourseStarts DEF Going

(* A draft with other numbers or another active entry.                     *)
LEMMA RenumberGoing ==
  ASSUME NEW r, NEW O, NEW N, Going(r, O, N), NEW x \in Index, Numbered(x)
  PROVE  LET m == [r EXCEPT !.idx = x]
         IN Going(m, O, N) /\ m.plan = r.plan /\ m.ok /\ m.idx = x /\ m.img = r.img
<1>1. LET m == [r EXCEPT !.idx = x]
      IN m \in Drafts /\ m.plan = r.plan /\ m.ok = r.ok /\ m.idx = x /\ m.img = r.img
  BY GoingParts, SameActive
<1> QED
  BY <1>1, GoingParts DEF Going

LEMMA EmitGoing ==
  ASSUME NEW r, NEW O, NEW N, Going(r, O, N), NEW w \in Write, Sure(Apply(r.img, w), O, N)
  PROVE  LET e == Emit(r, w)
         IN Going(e, O, N) /\ e.ok /\ e.idx = r.idx /\ e.img = Apply(r.img, w)
<1>1. /\ r \in Drafts /\ r.ok /\ r.plan \in Seq(Write) /\ Numbered(r.idx)
      /\ Course(disk, r.plan, r.img, O, N)
  BY GoingParts
<1>2. Course(disk, Append(r.plan, w), Apply(r.img, w), O, N)
  BY <1>1, CourseOn
<1>3. Emit(r, w).img = Apply(r.img, w)
  BY <1>1 DEF Emit, Drafts
<1>4. /\ Emit(r, w) \in Drafts /\ Emit(r, w).ok /\ Emit(r, w).idx = r.idx
      /\ Emit(r, w).plan = Append(r.plan, w)
  BY <1>1, EmitPlan
<1> QED
  BY <1>1, <1>2, <1>3, <1>4 DEF Going

LEMMA FailedParts ==
  ASSUME NEW r \in Drafts
  PROVE  LET f == Failed(r)
         IN f \in Drafts /\ ~f.ok /\ f.plan = r.plan /\ f.img = r.img /\ f.idx = r.idx
BY DEF Failed, Drafts

(* Numbers stay in order when a new id is carried or one is struck out.    *)
LEMMA CarryingNumbered ==
  ASSUME NEW x \in Index, Numbered(x), NEW k \in Id, k >= x.next, k < MaxId,
         NEW t \in Session \union {None}
  PROVE  /\ Numbered(Carrying(x, k, t))
         /\ \A i \in Id : x.carried[i] # Absent => Carrying(x, k, t).carried[i] # Absent
<1> DEFINE y == Carrying(x, k, t)
<1>1. y.next = k + 1 /\ y.carried = [x.carried EXCEPT ![k] = t]
  BY CarryingType
<1> HIDE DEF y
<1>2. MaxId \in Nat /\ k \in 1 .. MaxId /\ x.next \in 1 .. MaxId
  BY BoundsAssumption DEF Numbered, Id
<1>3. y.next \in 1 .. MaxId
  BY <1>1, <1>2
<1>4. ASSUME NEW i \in Id PROVE y.carried[i] = IF i = k THEN t ELSE x.carried[i]
  BY <1>1 DEF Index
<1>5. ASSUME NEW i \in Id, y.carried[i] # Absent PROVE i < y.next
  <2>1. CASE i = k
    BY <1>1, <1>2, <2>1
  <2>2. CASE i # k
    <3>1. i < x.next
      BY <1>4, <1>5, <2>2 DEF Numbered
    <3> QED
      BY <1>1, <1>2, <3>1 DEF Id
  <2> QED
    BY <2>1, <2>2
<1> QED
  BY <1>3, <1>4, <1>5, ValuesAssumption DEF Numbered, y

LEMMA ValidIsNumbered ==
  \A x : ValidIndex(x)
         <=> Numbered(x) /\ (x.active # None /\ x.active.source # None
                             => x.carried[x.active.source] # Absent)
BY DEF ValidIndex, Numbered

(* A candidate with a new id, or no id is left.                            *)
LEMMA FreshCandidate ==
  ASSUME NEW r, NEW O, NEW N, Going(r, O, N), NEW bytes \in Payload,
         NEW session \in Session \union {None},
         \A o \in O : Kept(r.img, o) \/ bytes.doc \in o
  PROVE  LET e == AddCandidate(r, bytes, session)
         IN \/ e = Failed(r) /\ ~ \E i \in FreeIds(r) : i < MaxId
            \/ /\ Going(e, O, N) /\ \A o \in O : Kept(e.img, o)
               /\ \E k \in Id :
                    /\ r.img.cand[k] = None /\ r.idx.carried[k] = Absent
                    /\ k >= r.idx.next /\ k < MaxId
                    /\ e.img = Apply(r.img, PutCandidate(k, bytes))
                    /\ e.idx = Carrying(r.idx, k, session)
<1>1. /\ r \in Drafts /\ r.ok /\ r.idx \in Index /\ r.img \in Disk /\ Numbered(r.idx)
      /\ Sure(r.img, O, N)
  BY GoingParts
<1>2. CASE ~ \E i \in FreeIds(r) : i < MaxId
  BY <1>2 DEF AddCandidate
<1>3. CASE \E i \in FreeIds(r) : i < MaxId
  <2> DEFINE k == LeastOf(FreeIds(r))
             x == Carrying(r.idx, k, session)
             m == [r EXCEPT !.idx = x]
             w == PutCandidate(k, bytes)
  <2>1. FreeIds(r) \in SUBSET Nat /\ FreeIds(r) \subseteq Id /\ MaxId \in Nat
    BY BoundsAssumption DEF FreeIds, Id
  <2>2. k \in FreeIds(r) /\ k \in Id /\ k < MaxId
    <3>1. k \in FreeIds(r) /\ \A n \in FreeIds(r) : k <= n
      BY <1>3, <2>1, LeastNat
    <3> HIDE DEF k
    <3>2. PICK i \in FreeIds(r) : i < MaxId
      BY <1>3
    <3> QED
      BY <2>1, <3>1, <3>2
  <2> HIDE DEF k
  <2>3. r.img.cand[k] = None /\ r.idx.carried[k] = Absent /\ k >= r.idx.next /\ k # MaxId
    BY <2>1, <2>2 DEF FreeIds, Id
  <2>4. x \in Index /\ Numbered(x)
    BY <1>1, <2>2, <2>3, CarryingType, CarryingNumbered
  <2> HIDE DEF x
  <2>5. Going(m, O, N) /\ m.plan = r.plan /\ m.ok /\ m.idx = x /\ m.img = r.img
    BY <2>4, RenumberGoing
  <2>6. AddCandidate(r, bytes, session) = Emit(m, w)
    BY <1>3 DEF AddCandidate, k, x
  <2> HIDE DEF m
  <2>7. w \in Write
    BY <2>2, WriteKinds
  <2>8. Sure(Apply(r.img, w), O, N) /\ \A o \in O : Kept(Apply(r.img, w), o)
    BY <1>1, <2>2, <2>3, NewCandidate
  <2> HIDE DEF w
  <2>9. LET e == Emit(m, w) IN Going(e, O, N) /\ e.idx = x /\ e.img = Apply(r.img, w)
    BY <2>5, <2>7, <2>8, EmitGoing
  <2> QED
    BY <2>2, <2>3, <2>6, <2>8, <2>9 DEF w, x
<1> QED
  BY <1>2, <1>3

(* What carrying the active work makes of draft r, e, with k the candidate *)
(* that now holds it.                                                      *)
Took(r, e, k) ==
  /\ e.idx.active = r.idx.active
  /\ e.img.index = r.img.index /\ e.img.active = r.img.active
  /\ \A i \in Id : r.idx.carried[i] # Absent => e.idx.carried[i] # Absent
  /\ \A c \in Id \ {k} : e.img.cand[c] = r.img.cand[c]
  /\ e.img.cand[k] # None /\ e.img.cand[k].doc = r.img.active.doc
  /\ \/ k = LinkOf(r.img)
     \/ r.img.cand[k] = None /\ r.idx.carried[k] = Absent

LEMMA Carries ==
  ASSUME NEW r, NEW O, NEW N, Going(r, O, N), r.idx.active # None, r.img.active # None,
         r.idx.active.source = LinkOf(r.img), \A o \in O : Kept(r.img, o)
  PROVE  LET e == CarryActive(r)
         IN \/ e = Failed(r) /\ ~ReturnsToSource(r)
            \/ /\ Going(e, O, N) /\ \A o \in O : Kept(e.img, o)
               /\ \E k \in Id : /\ Took(r, e, k)
                                /\ ~ReturnsToSource(r) => r.idx.carried[k] = Absent
<1> DEFINE src == r.idx.active.source
           p   == r.img.active
<1>1. /\ r \in Drafts /\ r.ok /\ r.idx \in Index /\ r.img \in Disk /\ Numbered(r.idx)
      /\ Sure(r.img, O, N) /\ p \in Payload
  <2>1. /\ r \in Drafts /\ r.ok /\ r.idx \in Index /\ r.img \in Disk /\ Numbered(r.idx)
        /\ Sure(r.img, O, N)
    BY GoingParts
  <2> QED
    BY <2>1 DEF Disk
<1>2. CASE ReturnsToSource(r)
  <2>1. src \in Id /\ r.idx.carried[src] # Absent
    BY <1>1, <1>2 DEF ReturnsToSource, Index, Active
  <2>2. src # MaxId
    <3>1. src < r.idx.next /\ r.idx.next \in 1 .. MaxId /\ MaxId \in Nat
      BY <1>1, <2>1, BoundsAssumption DEF Numbered
    <3> QED
      BY <2>1, <3>1 DEF Id
  <2>3. CarryActive(r) = UpdateSource(r)
    BY <1>1, <1>2 DEF CarryActive
  <2>4. CASE r.img.cand[src] # None /\ r.img.cand[src].doc = p.doc
    <3>1. CarryActive(r) = r
      BY <2>3, <2>4 DEF UpdateSource
    <3>2. Took(r, r, src)
      BY <2>4 DEF Took
    <3> QED
      BY <1>2, <2>1, <3>1, <3>2
  <2>5. CASE ~(r.img.cand[src] # None /\ r.img.cand[src].doc = p.doc)
    <3> DEFINE w == PutCandidate(src, p)
               d == Apply(r.img, w)
    <3>1. CarryActive(r) = Emit(r, w)
      BY <2>3, <2>5 DEF UpdateSource
    <3>2. /\ w \in Write /\ d.index = r.img.index /\ d.active = r.img.active
          /\ \A c \in Id : d.cand[c] = IF c = src THEN p ELSE r.img.cand[c]
      BY <1>1, <2>1, CandidateParts
    <3>3. Sure(d, O, N) /\ \A o \in O : Kept(d, o)
      BY <1>1, <2>1, <2>2, BackToSource
    <3> HIDE DEF w, d
    <3>4. LET e == Emit(r, w) IN Going(e, O, N) /\ e.idx = r.idx /\ e.img = d
      BY <3>2, <3>3, EmitGoing DEF d
    <3> DEFINE e == Emit(r, w)
    <3>5. Took(r, e, src)
      <4> HIDE DEF e
      <4>1. e.idx = r.idx /\ e.img = d
        BY <3>4 DEF e
      <4>2. \A c \in Id \ {src} : d.cand[c] = r.img.cand[c]
        BY <3>2
      <4>3. d.cand[src] = p /\ p # None
        BY <2>1, <3>2
      <4> QED
        BY <3>2, <4>1, <4>2, <4>3 DEF Took
    <3> QED
      BY <1>2, <2>1, <3>1, <3>3, <3>4, <3>5
  <2> QED
    BY <2>4, <2>5
<1>3. CASE ~ReturnsToSource(r)
  <2> DEFINE t == r.idx.active.session
             e == CarryActive(r)
  <2>1. t \in Session \union {None}
    BY <1>1 DEF Index, Active
  <2>2. e = AddCandidate(r, p, t)
    BY <1>1, <1>3 DEF CarryActive
  <2>3. CASE e = Failed(r)
    BY <1>3, <2>3
  <2>4. CASE e # Failed(r)
    <3>1. PICK k \in Id :
            /\ Going(e, O, N) /\ \A o \in O : Kept(e.img, o)
            /\ r.img.cand[k] = None /\ r.idx.carried[k] = Absent
            /\ k >= r.idx.next /\ k < MaxId
            /\ e.img = Apply(r.img, PutCandidate(k, p))
            /\ e.idx = Carrying(r.idx, k, t)
      <4>1. AddCandidate(r, p, t) # Failed(r)
        BY <2>2, <2>4
      <4> HIDE DEF e, p, t
      <4> QED
        BY <1>1, <2>1, <2>2, <4>1, FreshCandidate
    <3> HIDE DEF e, t
    <3>2. /\ e.img.index = r.img.index /\ e.img.active = r.img.active
          /\ \A c \in Id : e.img.cand[c] = IF c = k THEN p ELSE r.img.cand[c]
      BY <1>1, <3>1, CandidateParts
    <3>3. e.idx.active = r.idx.active
      BY <3>1 DEF Carrying
    <3>4. \A i \in Id : r.idx.carried[i] # Absent => e.idx.carried[i] # Absent
      BY <1>1, <2>1, <3>1, CarryingNumbered
    <3>5. e.img.cand[k] = p /\ p # None /\ \A c \in Id \ {k} : e.img.cand[c] = r.img.cand[c]
      BY <3>2
    <3>6. Took(r, e, k)
      BY <3>1, <3>2, <3>3, <3>4, <3>5 DEF Took
    <3> QED
      BY <3>1, <3>6 DEF e
  <2> QED
    BY <2>3, <2>4
<1> QED
  BY <1>2, <1>3

(* The slot is emptied, index first.  What rests in a candidate rests      *)
(* there still, since a slot the index does not name is linked to no other *)
(* candidate than before.                                                  *)
LEMMA EmptySlot ==
  ASSUME NEW r, NEW O, NEW N, Going(r, O, N), r.idx.active = None, \A o \in O : Rests(r.img, o)
  PROVE  LET e == Emit(CommitIndex(r), PutActive(None))
         IN /\ Going(e, O, N) /\ e.idx = r.idx /\ e.img.index = r.idx /\ e.img.active = None
            /\ e.img.cand = r.img.cand /\ \A o \in O : Rests(e.img, o)
<1> DEFINE d1 == Apply(r.img, PutIndex(r.idx))
           d2 == Apply(d1, PutActive(None))
<1>1. /\ r.idx \in Index /\ r.img \in Disk /\ Numbered(r.idx) /\ Sure(r.img, O, N)
  BY GoingParts
<1>2. /\ d1 \in Disk /\ d1.index = r.idx /\ d1.active = r.img.active /\ d1.cand = r.img.cand
      /\ PutIndex(r.idx) \in Write
  BY <1>1, IndexParts
<1> HIDE DEF d1
<1>3. /\ d2 \in Disk /\ d2.index = r.idx /\ d2.active = None /\ d2.cand = r.img.cand
      /\ PutActive(None) \in Write
  BY <1>2, ActiveParts
<1> HIDE DEF d2
<1>4. ~Named(d1) /\ ~Named(d2)
  BY <1>2, <1>3 DEF Named
<1>5. LinkOf(d1) \in {None, LinkOf(r.img)} /\ LinkOf(d2) = None
  BY <1>1, <1>2, <1>3, <1>4 DEF LinkOf, Sure, Tied
<1>6. ASSUME NEW o \in O PROVE Rests(d1, o) /\ Rests(d2, o)
  <2>1. PICK c \in Id : Holds(r.img, c, o) /\ (c # LinkOf(r.img) \/ r.img.cand[c].doc = r.img.active.doc)
    BY DEF Rests
  <2>2. Holds(d1, c, o) /\ Holds(d2, c, o)
    BY <1>2, <1>3, <2>1 DEF Holds
  <2>3. c # LinkOf(d1) \/ d1.cand[c].doc = d1.active.doc
    BY <1>2, <1>5, <2>1, NoIdNone
  <2>4. c # LinkOf(d2)
    BY <1>5, NoIdNone
  <2> QED
    BY <2>2, <2>3, <2>4 DEF Rests
<1>7. Sure(d1, O, N) /\ Sure(d2, O, N)
  BY <1>1, <1>2, <1>3, <1>4, <1>6 DEF Sure, Tied, Stands, Kept
<1>8. ValidIndex(r.idx)
  BY <1>1, ValidIsNumbered
<1> DEFINE e1 == Emit(r, PutIndex(r.idx))
<1>9. CommitIndex(r) = e1
  BY <1>8 DEF CommitIndex
<1>10. Going(e1, O, N) /\ e1.idx = r.idx /\ e1.img = d1
  BY <1>2, <1>7, EmitGoing DEF d1
<1> HIDE DEF e1
<1> DEFINE e2 == Emit(e1, PutActive(None))
<1>11. Going(e2, O, N) /\ e2.idx = r.idx /\ e2.img = d2
  BY <1>3, <1>7, <1>10, EmitGoing DEF d2
<1> QED
  BY <1>3, <1>6, <1>9, <1>11

LEMMA UnlinkGoing ==
  ASSUME NEW r, NEW O, NEW N, Going(r, O, N)
  PROVE  LET u == Unlink(r)
         IN /\ Going(u, O, N) /\ u.img = r.img /\ u.plan = r.plan
            /\ u.idx.active = None /\ u.idx.carried = r.idx.carried /\ u.idx.next = r.idx.next
<1>1. r.ok /\ r.idx \in Index /\ Numbered(r.idx)
  BY GoingParts
<1> DEFINE x == [r.idx EXCEPT !.active = None]
<1>2. x \in Index /\ x.active = None /\ x.carried = r.idx.carried /\ x.next = r.idx.next
  BY <1>1 DEF Index
<1>3. Numbered(x)
  BY <1>1, <1>2 DEF Numbered
<1>4. Unlink(r) = [r EXCEPT !.idx = x]
  BY <1>1 DEF Unlink
<1> HIDE DEF x
<1> QED
  BY <1>2, <1>3, <1>4, RenumberGoing

(* Once an operation has failed it writes no more.                         *)
LEMMA StoppedParts ==
  ASSUME NEW r \in Drafts, ~r.ok
  PROVE  LET e == Emit(CommitIndex(Unlink(r)), PutActive(None))
         IN ~e.ok /\ e.plan = r.plan /\ e.img = r.img
<1>1. Unlink(r) = r
  BY DEF Unlink
<1>2. Emit(r, PutIndex(r.idx)) = r
  BY DEF Emit
<1>3. CommitIndex(r) \in {r, Failed(r)}
  BY <1>2 DEF CommitIndex
<1>4. LET f == Failed(r) IN ~f.ok /\ f.plan = r.plan /\ f.img = r.img
  BY FailedParts
<1>5. Emit(CommitIndex(r), PutActive(None)) = CommitIndex(r)
  BY <1>3, <1>4 DEF Emit
<1> QED
  BY <1>1, <1>3, <1>4, <1>5

(* The active work becomes a candidate and the slot is empty, or there is  *)
(* no id for it and nothing is written.                                    *)
LEMMA SetsAside ==
  ASSUME NEW r, NEW O, NEW N, Going(r, O, N), r.idx.active # None, r.img.active # None,
         r.idx.active.source = LinkOf(r.img), \A o \in O : Kept(r.img, o)
  PROVE  LET e == SetAside(r)
         IN \/ ~e.ok /\ e.plan = r.plan /\ e.img = r.img /\ ~ReturnsToSource(r)
            \/ /\ Going(e, O, N) /\ e.idx.active = None
               /\ e.img.index = e.idx /\ e.img.active = None
               /\ \A o \in O : Rests(e.img, o)
               /\ \A i \in Id : r.idx.carried[i] # Absent => e.idx.carried[i] # Absent
               /\ \E k \in Id :
                    /\ \A c \in Id \ {k} : e.img.cand[c] = r.img.cand[c]
                    /\ e.img.cand[k] # None /\ e.img.cand[k].doc = r.img.active.doc
                    /\ k = LinkOf(r.img) \/ r.img.cand[k] = None
<1> DEFINE c1 == CarryActive(r)
           u  == Unlink(c1)
           e  == Emit(CommitIndex(u), PutActive(None))
<1>1. SetAside(r) = e
  BY DEF SetAside
<1>2. r \in Drafts /\ r.ok /\ r.img \in Disk
  BY GoingParts
<1>3. CASE c1 = Failed(r) /\ ~ReturnsToSource(r)
  <2>1. c1 \in Drafts /\ ~c1.ok /\ c1.plan = r.plan /\ c1.img = r.img
    BY <1>2, <1>3, FailedParts
  <2> HIDE DEF c1
  <2>2. ~e.ok /\ e.plan = r.plan /\ e.img = r.img
    BY <2>1, StoppedParts
  <2> QED
    BY <1>1, <1>3, <2>2
<1>4. CASE ~(c1 = Failed(r) /\ ~ReturnsToSource(r))
  <2>1. PICK k \in Id : Going(c1, O, N) /\ (\A o \in O : Kept(c1.img, o)) /\ Took(r, c1, k)
    BY <1>4, Carries
  <2> HIDE DEF c1
  <2>2. /\ c1.img.active = r.img.active /\ c1.img.index = r.img.index
        /\ \A i \in Id : r.idx.carried[i] # Absent => c1.idx.carried[i] # Absent
        /\ \A c \in Id \ {k} : c1.img.cand[c] = r.img.cand[c]
        /\ c1.img.cand[k] # None /\ c1.img.cand[k].doc = r.img.active.doc
        /\ k = LinkOf(r.img) \/ r.img.cand[k] = None
    BY <2>1 DEF Took
  <2>3. /\ Going(u, O, N) /\ u.img = c1.img /\ u.idx.active = None /\ u.idx.carried = c1.idx.carried
    BY <2>1, UnlinkGoing
  <2> HIDE DEF u
  <2>4. ASSUME NEW o \in O PROVE Rests(u.img, o)
    <3>1. CASE Rests(c1.img, o)
      BY <2>3, <3>1
    <3>2. CASE InSlot(c1.img, o)
      BY <2>2, <2>3, <3>2 DEF InSlot, Rests, Holds
    <3> QED
      BY <2>1, <3>1, <3>2 DEF Kept
  <2>5. /\ Going(e, O, N) /\ e.idx = u.idx /\ e.img.index = u.idx /\ e.img.active = None
        /\ e.img.cand = u.img.cand /\ \A o \in O : Rests(e.img, o)
    BY <2>3, <2>4, EmptySlot
  <2> HIDE DEF e
  <2> QED
    BY <1>1, <2>2, <2>3, <2>5
<1> QED
  BY <1>3, <1>4

-----------------------------------------------------------------------------
(* The plans.                                                              *)

(* The index an operation starts from.                                     *)
LEMMA CurrentParts ==
  ASSUME disk \in Disk, IndexSound, disk.index # Corrupt
  PROVE  /\ CurrentIndex \in Index /\ ValidIndex(CurrentIndex) /\ Numbered(CurrentIndex)
         /\ disk.index # None => CurrentIndex = disk.index
         /\ Named(disk) => CurrentIndex = disk.index /\ disk.active \in Payload
         /\ ~Named(disk) => CurrentIndex.active = None
<1>1. CurrentIndex \in Index
  BY CurrentIndexType
<1>2. ValidIndex(CurrentIndex)
  BY DefaultType DEF CurrentIndex, IndexSound
<1>3. Named(disk) => CurrentIndex = disk.index /\ disk.active \in Payload
  BY DEF Named, CurrentIndex, IndexSound, Disk
<1>4. ~Named(disk) => CurrentIndex.active = None
  BY DEF Named, CurrentIndex, DefaultIndex
<1> QED
  BY <1>1, <1>2, <1>3, <1>4, ValidIsNumbered DEF CurrentIndex

(* The active payload is written and then named.  What does not depend on  *)
(* the slot must lie in a candidate that is not its source.                *)
LEMMA TakesSlot ==
  ASSUME NEW c, NEW O, NEW N, Going(c, O, N), ValidIndex(c.idx),
         NEW s \in Session, s \notin N,
         NEW doc \in Doc, NEW stamp \in Stamp,
         NEW q, q = IF c.idx.active = None THEN None ELSE c.idx.active.source,
         q = IF Named(c.img) THEN c.img.index.active.source ELSE None,
         \A o \in O : \/ \E k \in Id : k # q /\ Holds(c.img, k, o)
                      \/ doc \in o /\ Named(c.img)
  PROVE  LET a == [session |-> s, source |-> q]
             p == [doc |-> doc, session |-> s, source |-> q, stamp |-> stamp]
             e == CommitIndex(Emit([c EXCEPT !.idx.active = a], PutActive(p)))
         IN /\ Going(e, O, N) /\ e.idx.active = a /\ e.idx.carried = c.idx.carried
            /\ ValidIndex(e.idx)
            /\ e.img.index = e.idx /\ e.img.active = p /\ e.img.cand = c.img.cand
            /\ Named(e.img) /\ LinkOf(e.img) = q
<1> DEFINE a  == [session |-> s, source |-> q]
           p  == [doc |-> doc, session |-> s, source |-> q, stamp |-> stamp]
           x  == [c.idx EXCEPT !.active = a]
           m  == [c EXCEPT !.idx = x]
           d1 == Apply(c.img, PutActive(p))
           d2 == Apply(d1, PutIndex(x))
<1>1. c.idx \in Index /\ c.img \in Disk /\ Numbered(c.idx) /\ Sure(c.img, O, N)
  BY GoingParts
<1>2. q \in Id \union {None} /\ p \in Payload /\ a \in Active
  <2>1. q \in Id \union {None}
    BY <1>1 DEF Index, Active
  <2> QED
    BY <2>1 DEF Payload, Active, Work
<1>3. x \in Index /\ x.active = a /\ x.carried = c.idx.carried /\ x.next = c.idx.next
  BY <1>1, <1>2 DEF Index
<1>4. a.source = q /\ a.session = s /\ p.doc = doc /\ p.source = q /\ p # None /\ a # None
  BY <1>2, ValuesAssumption
<1> HIDE DEF a, p, x
<1>5. Numbered(x) /\ ValidIndex(x)
  BY <1>1, <1>3, <1>4, ValidIsNumbered DEF Numbered
<1>6. /\ d1 \in Disk /\ d1.index = c.img.index /\ d1.active = p /\ d1.cand = c.img.cand
      /\ PutActive(p) \in Write
  BY <1>1, <1>2, ActiveParts
<1> HIDE DEF d1
<1>7. /\ d2 \in Disk /\ d2.index = x /\ d2.active = p /\ d2.cand = c.img.cand
      /\ PutIndex(x) \in Write
  BY <1>3, <1>6, IndexParts
<1> HIDE DEF d2
<1>8. (Named(d1) <=> Named(c.img)) /\ Named(d2)
  BY <1>3, <1>4, <1>6, <1>7, ValuesAssumption DEF Named
<1>9. LinkOf(d1) = q /\ LinkOf(d2) = q
  BY <1>3, <1>4, <1>6, <1>7, <1>8 DEF LinkOf
<1>10. ASSUME NEW o \in O PROVE Kept(d1, o) /\ Kept(d2, o)
  <2>1. CASE \E k \in Id : k # q /\ Holds(c.img, k, o)
    BY <1>6, <1>7, <1>9, <2>1 DEF Kept, Rests, Holds
  <2>2. CASE doc \in o /\ Named(c.img)
    BY <1>4, <1>6, <1>7, <1>8, <2>2 DEF Kept, InSlot
  <2> QED
    BY <2>1, <2>2
<1>11. Sure(d1, O, N) /\ Sure(d2, O, N)
  BY <1>1, <1>3, <1>4, <1>6, <1>7, <1>8, <1>10 DEF Sure, Tied, Stands
<1>12. Going(m, O, N) /\ m.idx = x /\ m.img = c.img
  BY <1>3, <1>5, RenumberGoing
<1>13. m = [c EXCEPT !.idx.active = a]
  BY DEF x
<1> HIDE DEF m
<1> DEFINE e1 == Emit(m, PutActive(p))
           e2 == Emit(e1, PutIndex(x))
<1>14. Going(e1, O, N) /\ e1.idx = x /\ e1.img = d1
  BY <1>6, <1>11, <1>12, EmitGoing DEF d1
<1> HIDE DEF e1
<1>15. Going(e2, O, N) /\ e2.idx = x /\ e2.img = d2
  BY <1>7, <1>11, <1>14, EmitGoing DEF d2
<1>16. CommitIndex(e1) = e2
  BY <1>5, <1>14 DEF CommitIndex
<1> HIDE DEF e2
<1> QED
  BY <1>3, <1>5, <1>7, <1>8, <1>9, <1>13, <1>15, <1>16 DEF e1, a, p

(* After a snapshot the slot is the process's own, and the shelf does not  *)
(* depend on it.                                                           *)
Snapped(e, s, doc, O, N, sh) ==
  /\ Going(e, O, N) /\ ValidIndex(e.idx) /\ e.img.index = e.idx
  /\ Own(e.img, s) /\ e.img.active \in Payload /\ e.img.active.doc = doc
  /\ LinkOf(e.img) = IF Named(disk) THEN disk.index.active.source ELSE None
  /\ \A o \in sh : Beside(e.img, o)
  /\ \A i \in Id : CurrentIndex.carried[i] # Absent => e.idx.carried[i] # Absent
  /\ \A i \in Id : disk.cand[i] # None => e.img.cand[i] = disk.cand[i]

(* A foreign slot may have no id to go to.                                 *)
LEMMA TakesSnapshot ==
  ASSUME NEW O, NEW N, Sure(disk, O, N), IndexSound, disk.index # Corrupt,
         NEW s \in Session, s \notin N, NEW doc \in Doc, NEW stamp \in Stamp,
         NEW sh \in SUBSET O,
         Own(disk, s) => /\ \A o \in sh : Beside(disk, o)
                         /\ \A o \in O \ sh : doc \in o,
         ~Own(disk, s) => O = sh /\ (\A o \in O : Kept(disk, o))
                          /\ (Named(disk) => ~Returns(disk))
  PROVE  LET e == TakeSnapshot(Draft(CurrentIndex), s, doc, stamp)
         IN \/ ~e.ok /\ e.plan = << >> /\ e.img = disk /\ ~Own(disk, s)
            \/ Snapped(e, s, doc, O, N, sh)
<1> USE DEF Snapped
<1> DEFINE x == CurrentIndex
           r == Draft(x)
           q == IF Named(disk) THEN disk.index.active.source ELSE None
           c == IF r.idx.active # None /\ r.idx.active.session # s THEN CarryActive(r) ELSE r
           a == [session |-> s, source |-> q]
           p == [doc |-> doc, session |-> s, source |-> q, stamp |-> stamp]
           e == TakeSnapshot(r, s, doc, stamp)
<1>1. /\ disk \in Disk /\ x \in Index /\ ValidIndex(x) /\ Numbered(x)
      /\ Named(disk) => x = disk.index /\ disk.active \in Payload
      /\ ~Named(disk) => x.active = None
  BY CurrentParts DEF Sure
<1>2. Going(r, O, N) /\ r.idx = x /\ r.img = disk /\ r.plan = << >> /\ r.ok
  BY <1>1, DraftGoing
<1> HIDE DEF r, x
<1>3. Named(disk) => x.active # None /\ disk.active # None /\ LinkOf(disk) = q
  BY <1>1, NoIdNone DEF Named, LinkOf
<1>4. CASE c = Failed(r) /\ ~Own(disk, s)
  <2>1. ~c.ok /\ c.plan = << >> /\ c.img = disk
    BY <1>2, <1>4, FailedParts, GoingParts
  <2>2. e = c
    BY <2>1 DEF TakeSnapshot
  <2> QED
    BY <1>4, <2>1, <2>2 DEF r, x
<1>5. ASSUME /\ Going(c, O, N) /\ ValidIndex(c.idx)
             /\ q = IF c.idx.active = None THEN None ELSE c.idx.active.source
             /\ q = IF Named(c.img) THEN c.img.index.active.source ELSE None
             /\ \A o \in O : \/ \E k \in Id : k # q /\ Holds(c.img, k, o)
                             \/ doc \in o /\ Named(c.img)
             /\ \A o \in sh : \E k \in Id : k # q /\ Holds(c.img, k, o)
             /\ \A i \in Id : x.carried[i] # Absent => c.idx.carried[i] # Absent
             /\ \A i \in Id : disk.cand[i] # None => c.img.cand[i] = disk.cand[i]
      PROVE  /\ Going(e, O, N) /\ ValidIndex(e.idx) /\ e.img.index = e.idx
             /\ Own(e.img, s) /\ e.img.active \in Payload /\ e.img.active.doc = doc
             /\ LinkOf(e.img) = q
             /\ \A o \in sh : Beside(e.img, o)
             /\ \A i \in Id : x.carried[i] # Absent => e.idx.carried[i] # Absent
             /\ \A i \in Id : disk.cand[i] # None => e.img.cand[i] = disk.cand[i]
  <2>1. c.ok
    BY <1>5, GoingParts
  <2>2. e = CommitIndex(Emit([c EXCEPT !.idx.active = a], PutActive(p)))
    BY <1>5, <2>1 DEF TakeSnapshot
  <2> HIDE DEF q, c, e
  <2>3. /\ Going(e, O, N) /\ e.idx.active = a /\ e.idx.carried = c.idx.carried
        /\ ValidIndex(e.idx)
        /\ e.img.index = e.idx /\ e.img.active = p /\ e.img.cand = c.img.cand
        /\ Named(e.img) /\ LinkOf(e.img) = q
    BY <1>5, <2>2, TakesSlot
  <2>4. Own(e.img, s) /\ e.img.active.doc = doc
    BY <2>3 DEF Own
  <2>5. e.img.active \in Payload
    <3>1. e.img \in Disk
      BY <2>3, GoingParts
    <3>2. e.img.active # None
      <4>1. e.img.active.source = q /\ q \in Id \union {None}
        <5>1. q \in Id \union {None}
          BY <1>5, GoingParts DEF Index, Active
        <5> QED
          BY <2>3, <5>1
      <4>2. p \in Payload
        BY <4>1 DEF Payload, Work
      <4> QED
        BY <2>3, <4>2, NoIdNone
    <3> QED
      BY <3>1, <3>2 DEF Disk
  <2>6. \A o \in sh : Beside(e.img, o)
    BY <1>5, <2>3 DEF Beside, Holds
  <2> QED
    BY <1>5, <2>3, <2>4, <2>5, <2>6
<1>6. CASE ~Named(disk)
  <2>1. c = r /\ ~Own(disk, s) /\ O = sh /\ \A o \in O : Kept(disk, o)
    BY <1>1, <1>2, <1>6 DEF Own
  <2>2. ASSUME NEW o \in O PROVE \E k \in Id : k # q /\ Holds(c.img, k, o)
    <3>1. ~InSlot(disk, o)
      BY <1>6 DEF InSlot
    <3> QED
      BY <1>2, <1>6, <2>1, <3>1, NoIdNone DEF Kept, Rests
  <2> HIDE DEF c
  <2>3. /\ q = IF c.idx.active = None THEN None ELSE c.idx.active.source
        /\ q = IF Named(c.img) THEN c.img.index.active.source ELSE None
    BY <1>1, <1>2, <1>6, <2>1
  <2> HIDE DEF q
  <2> QED
    BY <1>1, <1>2, <1>5, <2>1, <2>2, <2>3 DEF q, r, x
<1>7. CASE Own(disk, s)
  <2>1. Named(disk) /\ x = disk.index /\ x.active.session = s
    BY <1>1, <1>7 DEF Own
  <2>2. c = r
    BY <1>2, <2>1
  <2> HIDE DEF c
  <2>3. /\ q = IF c.idx.active = None THEN None ELSE c.idx.active.source
        /\ q = IF Named(c.img) THEN c.img.index.active.source ELSE None
        /\ LinkOf(disk) = q
    BY <1>2, <1>3, <2>1, <2>2
  <2> HIDE DEF q
  <2>4. /\ \A o \in sh : \E k \in Id : k # q /\ Holds(c.img, k, o)
        /\ \A o \in O \ sh : doc \in o
    BY <1>2, <1>7, <2>2, <2>3 DEF Beside
  <2>5. \A o \in O : \/ \E k \in Id : k # q /\ Holds(c.img, k, o)
                     \/ doc \in o /\ Named(c.img)
    BY <1>2, <2>1, <2>2, <2>4
  <2> QED
    BY <1>1, <1>2, <1>5, <2>2, <2>3, <2>4, <2>5 DEF q, r, x
<1>8. CASE Named(disk) /\ ~Own(disk, s)
  <2>1. x = disk.index /\ x.active # None /\ x.active.session # s /\ disk.active # None
    BY <1>1, <1>3, <1>8 DEF Own
  <2>2. c = CarryActive(r)
    BY <1>2, <2>1
  <2>3. ~ReturnsToSource(r)
    BY <1>2, <1>8, <2>1 DEF Returns, ReturnsToSource
  <2>4. r.idx.active # None /\ r.img.active # None /\ r.idx.active.source = LinkOf(r.img)
        /\ \A o \in O : Kept(r.img, o)
    BY <1>2, <1>3, <1>8, <2>1
  <2>5. CASE c = Failed(r)
    BY <1>4, <1>8, <2>5
  <2>6. CASE c # Failed(r)
    <3> HIDE DEF c
    <3>1. PICK k \in Id : /\ Going(c, O, N) /\ Took(r, c, k) /\ r.idx.carried[k] = Absent
      <4> DEFINE t == CarryActive(r)
      <4>1. \/ t = Failed(r)
            \/ Going(t, O, N) /\ \E k \in Id : Took(r, t, k) /\ r.idx.carried[k] = Absent
        BY <1>2, <2>3, <2>4, Carries
      <4> QED
        BY <2>2, <2>6, <4>1
    <3>2. x.active.source = q /\ (q # None => q \in Id /\ x.carried[q] # Absent) /\ LinkOf(disk) = q
      BY <1>1, <1>3, <1>8, <2>1 DEF ValidIndex, Index, Active
    <3> HIDE DEF q
    <3>3. k # q
      BY <1>2, <3>1, <3>2, NoIdNone
    <3>4. /\ c.idx.active = x.active
          /\ c.img.index = disk.index /\ c.img.active = disk.active
          /\ \A i \in Id : x.carried[i] # Absent => c.idx.carried[i] # Absent
          /\ \A i \in Id \ {k} : c.img.cand[i] = disk.cand[i]
          /\ c.img.cand[k] # None /\ c.img.cand[k].doc = disk.active.doc
          /\ disk.cand[k] = None
      BY <1>2, <3>1, <3>2, <3>3 DEF Took
    <3>5. ValidIndex(c.idx)
      <4>1. Numbered(c.idx)
        BY <3>1, GoingParts
      <4> QED
        BY <3>2, <3>4, <4>1, ValidIsNumbered
    <3>6. /\ q = IF c.idx.active = None THEN None ELSE c.idx.active.source
          /\ q = IF Named(c.img) THEN c.img.index.active.source ELSE None
      BY <1>8, <2>1, <3>2, <3>4 DEF Named
    <3>7. ASSUME NEW o \in O PROVE \E j \in Id : j # q /\ Holds(c.img, j, o)
      <4>1. CASE disk.active.doc \in o
        BY <3>3, <3>4, <4>1 DEF Holds
      <4>2. CASE disk.active.doc \notin o
        <5>1. PICK j \in Id : Holds(disk, j, o) /\ j # q
          BY <1>8, <3>2, <4>2 DEF Kept, InSlot, Rests, Holds
        <5>2. j # k
          BY <3>4, <5>1 DEF Holds
        <5> QED
          BY <3>4, <5>1, <5>2 DEF Holds
      <4> QED
        BY <4>1, <4>2
    <3>8. \A i \in Id : disk.cand[i] # None => c.img.cand[i] = disk.cand[i]
      BY <3>4
    <3> QED
      BY <1>5, <1>8, <3>1, <3>4, <3>5, <3>6, <3>7, <3>8 DEF q, r, x
  <2> QED
    BY <2>5, <2>6
<1> QED
  BY <1>6, <1>7, <1>8

-----------------------------------------------------------------------------
(* Each plan keeps what was owed when it was made, and what it promises.   *)

(* The works owed, when one process owes m besides the shelf.              *)
Debts(sh, m) == sh \union ({m} \ {{}})

Base(d, N) == d \in Disk /\ d.cand[MaxId] = None /\ Tied(d, N)

LEMMA NothingOwed == \A sh : Debts(sh, {}) = sh
BY DEF Debts

LEMMA SettledKept ==
  ASSUME NEW d, NEW s, NEW m, NEW sh, Settled(d, s, m, sh),
         NEW n, m \subseteq n, m = {} => n = {}
  PROVE  \A o \in Debts(sh, n) : Kept(d, o)
<1>1. ASSUME NEW o \in sh PROVE Kept(d, o)
  <2>1. CASE Own(d, s)
    BY <2>1 DEF Settled, Beside, Kept, Rests
  <2>2. CASE ~Own(d, s)
    BY <2>2 DEF Settled
  <2> QED
    BY <2>1, <2>2
<1>2. ASSUME n # {} PROVE InSlot(d, n)
  <2>1. m # {}
    BY <1>2
  <2>2. CASE Own(d, s)
    BY <2>1, <2>2 DEF Settled, Own, InSlot
  <2>3. CASE ~Own(d, s)
    BY <2>1, <2>3 DEF Settled, InSlot
  <2> QED
    BY <2>2, <2>3
<1> QED
  BY <1>1, <1>2 DEF Debts, Kept

LEMMA SettledSure ==
  ASSUME NEW d, NEW N, Base(d, N), NEW s, NEW m, NEW sh, Settled(d, s, m, sh),
         NEW n, m \subseteq n, m = {} => n = {}
  PROVE  Sure(d, Debts(sh, n), N)
BY SettledKept DEF Base, Sure, Stands

(* A process that owes less is settled too.                                *)
LEMMA SettledLess ==
  ASSUME NEW d, NEW s, NEW m, NEW sh, Settled(d, s, m, sh)
  PROVE  /\ Settled(d, s, {}, sh)
         /\ \A n : m \subseteq n /\ (m = {} => n = {}) => Settled(d, s, n, sh)
BY DEF Settled, InSlot

(* A slot that is empty and not named depends on nothing.                  *)
LEMMA SettledEmpty ==
  ASSUME NEW d, NEW s, NEW sh, ~Named(d), \A o \in sh : Rests(d, o)
  PROVE  Settled(d, s, {}, sh)
BY DEF Settled, Own, Kept

(* What the process owes with the work it holds now.                       *)
More(m, doc) == IF m = {} THEN {} ELSE m \union {doc}

LEMMA SnapshotHyps ==
  ASSUME NEW s, NEW m, NEW sh, NEW N, Base(disk, N), disk.index # Corrupt, Settled(disk, s, m, sh),
         NEW doc
  PROVE  LET n == More(m, doc)
             O == Debts(sh, n)
         IN /\ Sure(disk, O, N) /\ sh \in SUBSET O
            /\ Own(disk, s) => /\ \A o \in sh : Beside(disk, o)
                               /\ \A o \in O \ sh : doc \in o
            /\ ~Own(disk, s) => O = sh /\ (\A o \in O : Kept(disk, o))
                                /\ (Named(disk) => ~Returns(disk))
            /\ ~Own(disk, s) => m = {} /\ n = {}
<1> DEFINE n == More(m, doc)
<1>1. m \subseteq n /\ (m = {} => n = {}) /\ (n # {} => doc \in n)
  BY DEF More
<1>2. Sure(disk, Debts(sh, n), N) /\ \A o \in Debts(sh, n) : Kept(disk, o)
  BY <1>1, SettledSure, SettledKept
<1>3. ~Own(disk, s) => m = {} /\ n = {}
  BY <1>1 DEF Settled
<1>4. \A o \in Debts(sh, n) \ sh : doc \in o
  BY <1>1 DEF Debts
<1> HIDE DEF n
<1> QED
  BY <1>2, <1>3, <1>4 DEF Settled, Debts, n

(* An autosave.                                                            *)
LEMMA AutosaveKept ==
  ASSUME NEW N, NEW s \in Session, s \notin N, NEW m, NEW sh, Base(disk, N), IndexSound,
         disk.index # Corrupt, Settled(disk, s, m, sh), NEW doc \in Doc, NEW stamp \in Stamp
  PROVE  LET e == TakeSnapshot(Draft(CurrentIndex), s, doc, stamp)
         IN /\ Course(disk, e.plan, e.img, Debts(sh, More(m, doc)), N)
            /\ e.ok => Settled(e.img, s, {doc}, sh)
            /\ ~e.ok => Settled(e.img, s, More(m, doc), sh)
<1> DEFINE O == Debts(sh, More(m, doc))
           e == TakeSnapshot(Draft(CurrentIndex), s, doc, stamp)
<1>1. /\ Sure(disk, O, N) /\ sh \in SUBSET O
      /\ Own(disk, s) => /\ \A o \in sh : Beside(disk, o)
                         /\ \A o \in O \ sh : doc \in o
      /\ ~Own(disk, s) => O = sh /\ (\A o \in O : Kept(disk, o))
                          /\ (Named(disk) => ~Returns(disk))
      /\ ~Own(disk, s) => m = {} /\ More(m, doc) = {}
  BY SnapshotHyps
<1> HIDE DEF O
<1>2. \/ ~e.ok /\ e.plan = << >> /\ e.img = disk /\ ~Own(disk, s)
      \/ Snapped(e, s, doc, O, N, sh)
  BY <1>1, TakesSnapshot
<1> HIDE DEF e
<1>3. CASE ~e.ok /\ e.plan = << >> /\ e.img = disk /\ ~Own(disk, s)
  <2>1. Settled(disk, s, More(m, doc), sh)
    BY <1>1, <1>3
  <2>2. Course(disk, << >>, disk, O, N)
    BY <1>1, CourseStarts
  <2> QED
    BY <1>3, <2>1, <2>2 DEF O, e
<1>4. CASE Snapped(e, s, doc, O, N, sh)
  <2>1. Settled(e.img, s, {doc}, sh)
    BY <1>4, NoIdNone DEF Settled, Snapped
  <2> QED
    BY <1>4, <2>1, GoingParts DEF O, e, Snapped
<1> QED
  BY <1>2, <1>3, <1>4

-----------------------------------------------------------------------------
(* The document on screen makes room: its changes are written, and what is *)
(* in the slot is set aside.                                               *)

(* The candidates that the active work is not linked to.                   *)
Apart(d, c) == d.cand[c] # None /\ (Named(d) => d.index.active.source # c)

(* The slot is free, and what was owed, and the candidates apart from it,  *)
(* are where they were; the document that was in it has a copy elsewhere.  *)
Freed(e, O, N) ==
  /\ Going(e, O, N) /\ e.idx.active = None
  /\ e.img.index = e.idx /\ e.img.active = None
  /\ \A o \in O : Rests(e.img, o)
  /\ \A i \in Id : CurrentIndex.carried[i] # Absent => e.idx.carried[i] # Absent
  /\ \A i \in Id : Apart(disk, i) => e.img.cand[i] = disk.cand[i]

Copied(e, doc) ==
  /\ Rests(e.img, {doc})
  /\ \A i \in Id : Apart(disk, i) => \E k \in Id \ {i} : Holds(e.img, k, {doc})

Stopped(e, s, n, sh, N) ==
  ~e.ok /\ Course(disk, e.plan, e.img, Debts(sh, n), N) /\ Settled(e.img, s, n, sh)

(* The same whether the slot held the document on screen or something else. *)
LEMMA FreesSlot ==
  ASSUME NEW N, NEW O, NEW s, NEW n, NEW sh, O = Debts(sh, n), NEW kept, Going(kept, O, N),
         kept.idx.active # None, kept.img.active # None,
         kept.idx.active.source = LinkOf(kept.img),
         LinkOf(kept.img) = IF Named(disk) THEN disk.index.active.source ELSE None,
         Settled(kept.img, s, n, sh),
         \A i \in Id : CurrentIndex.carried[i] # Absent => kept.idx.carried[i] # Absent,
         \A i \in Id : disk.cand[i] # None => kept.img.cand[i] = disk.cand[i]
  PROVE  LET e == SetAside(kept)
         IN \/ Stopped(e, s, n, sh, N)
            \/ Freed(e, O, N) /\ Copied(e, kept.img.active.doc)
<1> DEFINE e   == SetAside(kept)
           q   == IF Named(disk) THEN disk.index.active.source ELSE None
           doc == kept.img.active.doc
<1>1. \A i \in Id : Apart(disk, i) => disk.cand[i] # None /\ i # q
  BY NoIdNone DEF Apart
<1>2. \A o \in O : Kept(kept.img, o)
  <2>1. \A o \in Debts(sh, n) : Kept(kept.img, o)
    BY SettledKept
  <2> QED
    BY <2>1
<1> HIDE DEF q, doc
<1>3. CASE ~e.ok /\ e.plan = kept.plan /\ e.img = kept.img
  BY <1>3, GoingParts DEF Stopped
<1>4. CASE ~(~e.ok /\ e.plan = kept.plan /\ e.img = kept.img)
  <2>1. /\ Going(e, O, N) /\ e.idx.active = None
        /\ e.img.index = e.idx /\ e.img.active = None
        /\ \A o \in O : Rests(e.img, o)
        /\ \A i \in Id : kept.idx.carried[i] # Absent => e.idx.carried[i] # Absent
        /\ \E k \in Id :
             /\ \A c \in Id \ {k} : e.img.cand[c] = kept.img.cand[c]
             /\ e.img.cand[k] # None /\ e.img.cand[k].doc = kept.img.active.doc
             /\ k = LinkOf(kept.img) \/ kept.img.cand[k] = None
    BY <1>2, <1>4, SetsAside
  <2> HIDE DEF e
  <2>2. PICK k \in Id :
             /\ \A c \in Id \ {k} : e.img.cand[c] = kept.img.cand[c]
             /\ e.img.cand[k] # None /\ e.img.cand[k].doc = kept.img.active.doc
             /\ k = LinkOf(kept.img) \/ kept.img.cand[k] = None
    BY <2>1
  <2>3. \A i \in Id : Apart(disk, i) => i # k /\ e.img.cand[i] = disk.cand[i]
    BY <1>1, <2>2 DEF q
  <2>4. Holds(e.img, k, {doc})
    BY <2>2 DEF Holds, doc
  <2>5. LinkOf(e.img) = None
    BY <2>1 DEF LinkOf
  <2>6. Rests(e.img, {doc})
    BY <2>4, <2>5, NoIdNone DEF Rests
  <2>7. Copied(e, doc)
    BY <2>3, <2>4, <2>6 DEF Copied
  <2>8. Freed(e, O, N)
    BY <2>1, <2>3 DEF Freed
  <2> QED
    BY <2>7, <2>8 DEF e, doc
<1> QED
  BY <1>3, <1>4

LEMMA FreesDirty ==
  ASSUME NEW N, NEW s \in Session, s \notin N, NEW m, NEW sh, Base(disk, N), IndexSound,
         disk.index # Corrupt, Settled(disk, s, m, sh), NEW doc \in Doc, NEW stamp \in Stamp
  PROVE  LET e == SetAside(TakeSnapshot(Draft(CurrentIndex), s, doc, stamp))
             n == More(m, doc)
         IN Stopped(e, s, n, sh, N) \/ (Freed(e, Debts(sh, n), N) /\ Copied(e, doc))
<1> DEFINE n == More(m, doc)
           O == Debts(sh, n)
           r == TakeSnapshot(Draft(CurrentIndex), s, doc, stamp)
           e == SetAside(r)
<1>1. m \subseteq n /\ (m = {} => n = {}) /\ (n # {} => doc \in n)
  BY DEF More
<1>2. Settled(disk, s, n, sh)
  BY <1>1, SettledLess
<1>3. /\ Sure(disk, O, N) /\ sh \in SUBSET O
      /\ Own(disk, s) => /\ \A o \in sh : Beside(disk, o)
                         /\ \A o \in O \ sh : doc \in o
      /\ ~Own(disk, s) => O = sh /\ (\A o \in O : Kept(disk, o))
                          /\ (Named(disk) => ~Returns(disk))
  BY SnapshotHyps
<1>4. Sound(r)
  <2>1. CurrentIndex \in Index /\ ValidIndex(CurrentIndex) /\ disk \in Disk
    BY CurrentParts DEF Base
  <2> QED
    BY <2>1, DraftSound, TakeSnapshotSound
<1> HIDE DEF n, O
<1>5. \/ ~r.ok /\ r.plan = << >> /\ r.img = disk /\ ~Own(disk, s)
      \/ Snapped(r, s, doc, O, N, sh)
  BY <1>3, TakesSnapshot
<1> HIDE DEF r
<1>6. CASE ~r.ok /\ r.plan = << >> /\ r.img = disk
  <2>1. CarryActive(r) = r /\ r \in Drafts
    BY <1>4, <1>6 DEF CarryActive, Sound
  <2>2. ~e.ok /\ e.plan = << >> /\ e.img = disk
    BY <1>6, <2>1, StoppedParts DEF SetAside
  <2> HIDE DEF e
  <2>3. Course(disk, << >>, disk, O, N)
    BY <1>3, CourseStarts
  <2>4. Stopped(e, s, n, sh, N)
    BY <1>2, <2>2, <2>3 DEF Stopped, O
  <2> QED
    BY <2>4 DEF e, n, r
<1>7. CASE Snapped(r, s, doc, O, N, sh)
  <2> USE DEF Snapped
  <2>1. r.idx.active # None /\ r.img.active # None /\ r.idx.active.source = LinkOf(r.img)
    BY <1>7, NoIdNone DEF Own, Named, LinkOf
  <2>2. Settled(r.img, s, n, sh)
    BY <1>1, <1>7, <2>1 DEF Settled
  <2>3. LinkOf(r.img) = IF Named(disk) THEN disk.index.active.source ELSE None
    BY <1>7
  <2>4. Stopped(e, s, n, sh, N) \/ (Freed(e, O, N) /\ Copied(e, r.img.active.doc))
    BY <1>7, <2>1, <2>2, <2>3, FreesSlot DEF O
  <2>5. r.img.active.doc = doc
    BY <1>7
  <2> HIDE DEF e
  <2> QED
    BY <2>4, <2>5 DEF e, n, r, O
<1> QED
  BY <1>5, <1>6, <1>7

LEMMA FreesClean ==
  ASSUME NEW N, NEW s \in Session, NEW m, NEW sh, Base(disk, N), IndexSound,
         disk.index # Corrupt, Settled(disk, s, m, sh)
  PROVE  LET e == SetAside(Draft(CurrentIndex))
         IN Stopped(e, s, m, sh, N) \/ Freed(e, Debts(sh, m), N)
<1> DEFINE O == Debts(sh, m)
           r == Draft(CurrentIndex)
           e == SetAside(r)
<1>1. /\ CurrentIndex \in Index /\ Numbered(CurrentIndex)
      /\ Named(disk) => CurrentIndex = disk.index /\ disk.active \in Payload
      /\ ~Named(disk) => CurrentIndex.active = None
  BY CurrentParts DEF Base
<1>2. Sure(disk, O, N) /\ \A o \in O : Kept(disk, o)
  BY SettledSure, SettledKept
<1>3. Going(r, O, N) /\ r.idx = CurrentIndex /\ r.img = disk /\ r.plan = << >> /\ r.ok
  BY <1>1, <1>2, DraftGoing
<1> HIDE DEF r
<1>4. CASE Named(disk)
  <2>1. r.idx.active # None /\ r.img.active # None /\ r.idx.active.source = LinkOf(r.img)
    BY <1>1, <1>3, <1>4, NoIdNone DEF Named, LinkOf
  <2>2. LinkOf(r.img) = IF Named(disk) THEN disk.index.active.source ELSE None
    BY <1>3, <1>4, <2>1 DEF LinkOf
  <2>3. Stopped(e, s, m, sh, N) \/ Freed(e, O, N)
    BY <1>3, <2>1, <2>2, FreesSlot
  <2> QED
    BY <2>3 DEF r
<1>5. CASE ~Named(disk)
  <2> DEFINE u == Unlink(r)
  <2>1. CarryActive(r) = r
    BY <1>1, <1>3, <1>5 DEF CarryActive
  <2>2. Going(u, O, N) /\ u.img = disk /\ u.idx.active = None /\ u.idx.carried = CurrentIndex.carried
    BY <1>3, UnlinkGoing
  <2>3. \A o \in O : Rests(u.img, o)
    BY <1>2, <1>5, <2>2 DEF Kept, InSlot
  <2>4. e = Emit(CommitIndex(u), PutActive(None))
    BY <2>1 DEF SetAside
  <2> HIDE DEF u, e
  <2>5. /\ Going(e, O, N) /\ e.idx = u.idx /\ e.img.index = u.idx /\ e.img.active = None
        /\ e.img.cand = u.img.cand /\ \A o \in O : Rests(e.img, o)
    BY <2>2, <2>3, <2>4, EmptySlot
  <2>6. Freed(e, O, N)
    BY <2>2, <2>5 DEF Freed
  <2> QED
    BY <2>6 DEF e, r
<1> QED
  BY <1>4, <1>5

(* What an operation t of the only process, which owes m, promises for the *)
(* moment it has done all its writes and the disk is e.                    *)
Ends(e, t, m, sh) ==
  /\ t.ok /\ t.op = "autosave" => Settled(e, t.who, {t.doc}, sh)
  /\ t.ok /\ t.op = "replace" => Settled(e, t.who, {}, sh \union {{t.doc}})
  /\ t.ok /\ t.op = "restore"
     => Settled(e, t.who, {t.load},
                {o \in sh : t.load \notin o} \union (IF t.dirty THEN {{t.doc}} ELSE {}))
  /\ ~t.ok \/ t.op \in {"start", "discard", "save", "exit"} => Settled(e, t.who, m, sh)

(* The document is replaced.                                               *)
LEMMA ReplaceKept ==
  ASSUME NEW N, NEW s \in Session, s \notin N, NEW m, NEW sh, Base(disk, N), IndexSound,
         disk.index # Corrupt, Settled(disk, s, m, sh), NEW doc \in Doc, NEW stamp \in Stamp
  PROVE  LET e == SetAside(TakeSnapshot(Draft(CurrentIndex), s, doc, stamp))
         IN /\ Course(disk, e.plan, e.img, Debts(sh, More(m, doc)), N)
            /\ e.ok => Settled(e.img, s, {}, sh \union {{doc}})
            /\ ~e.ok => Settled(e.img, s, More(m, doc), sh)
<1> DEFINE n == More(m, doc)
           O == Debts(sh, n)
           e == SetAside(TakeSnapshot(Draft(CurrentIndex), s, doc, stamp))
<1>1. Stopped(e, s, n, sh, N) \/ (Freed(e, O, N) /\ Copied(e, doc))
  BY FreesDirty
<1> HIDE DEF e
<1>2. ASSUME Freed(e, O, N), Copied(e, doc)
      PROVE  /\ Course(disk, e.plan, e.img, O, N) /\ e.ok
             /\ Settled(e.img, s, {}, sh \union {{doc}})
  <2>1. sh \subseteq O
    BY DEF Debts
  <2> HIDE DEF O
  <2>2. ~Named(e.img)
    BY <1>2 DEF Named, Freed
  <2>3. \A o \in sh \union {{doc}} : Rests(e.img, o)
    BY <1>2, <2>1 DEF Freed, Copied
  <2> QED
    BY <1>2, <2>2, <2>3, GoingParts, SettledEmpty DEF Freed
<1> QED
  BY <1>1, <1>2 DEF e, Stopped

(* A candidate is restored.                                                *)
LEMMA RestoreKept ==
  ASSUME NEW N, NEW s \in Session, s \notin N, NEW m, NEW sh, Base(disk, N), IndexSound,
         disk.index \notin {None, Corrupt}, Settled(disk, s, m, sh),
         NEW c \in Id, disk.index.carried[c] # Absent, Apart(disk, c),
         disk.cand[c].doc # Unreadable, NEW stamp \in Stamp,
         mem[s].doc \in Doc, mem[s].dirty \in BOOLEAN
  PROVE  LET e    == RestorePlan(s, c, stamp)
             doc  == mem[s].doc
             load == disk.cand[c].doc
             n    == IF mem[s].dirty THEN More(m, doc) ELSE m
         IN /\ Course(disk, e.plan, e.img, Debts(sh, n), N)
            /\ e.ok => Settled(e.img, s, {load},
                               {o \in sh : load \notin o}
                                 \union (IF mem[s].dirty THEN {{doc}} ELSE {}))
            /\ ~e.ok => Settled(e.img, s, n, sh)
<1> DEFINE doc   == mem[s].doc
           dirty == mem[s].dirty
           load  == disk.cand[c].doc
           n     == IF dirty THEN More(m, doc) ELSE m
           O     == Debts(sh, n)
           kept  == IF dirty THEN TakeSnapshot(Draft(CurrentIndex), s, doc, stamp)
                    ELSE Draft(CurrentIndex)
           e     == SetAside(kept)
           p     == [doc |-> load, session |-> s, source |-> c, stamp |-> stamp]
           a     == [session |-> s, source |-> c]
           put   == Emit(e, PutActive(p))
           fin   == CommitIndex([put EXCEPT !.idx.active = a])
           later == {o \in sh : load \notin o} \union (IF dirty THEN {{doc}} ELSE {})
<1>1. Stopped(e, s, n, sh, N) \/ (Freed(e, O, N) /\ (dirty => Copied(e, doc)))
  <2>1. CASE dirty
    <3> DEFINE r == SetAside(TakeSnapshot(Draft(CurrentIndex), s, doc, stamp))
               k == More(m, doc)
    <3>1. Stopped(r, s, k, sh, N) \/ (Freed(r, Debts(sh, k), N) /\ Copied(r, doc))
      BY FreesDirty
    <3>2. e = r /\ n = k
      BY <2>1
    <3> HIDE DEF e, r, n, k
    <3> QED
      BY <3>1, <3>2
  <2>2. CASE ~dirty
    <3> DEFINE r == SetAside(Draft(CurrentIndex))
    <3>1. Stopped(r, s, m, sh, N) \/ Freed(r, Debts(sh, m), N)
      BY FreesClean
    <3>2. e = r /\ n = m
      BY <2>2
    <3> HIDE DEF e, r, n
    <3> QED
      BY <2>2, <3>1, <3>2
  <2> QED
    BY <2>1, <2>2
<1>2. RestorePlan(s, c, stamp) = IF put.ok THEN fin ELSE put
  BY DEF RestorePlan, SnapshotPlan
<1>3. p \in Payload /\ a \in Active /\ load \in Doc /\ disk.cand[c] # None
  <2>1. disk.cand[c] \in Payload
    BY DEF Apart, Base, Disk
  <2>2. load \in Doc
    BY <2>1 DEF Payload, Work
  <2> QED
    BY <2>2 DEF Payload, Active, Work, Apart
<1>4. CurrentIndex.carried[c] # Absent
  BY DEF CurrentIndex
<1>5. p.doc = load /\ p.source = c /\ a.source = c /\ a.session = s /\ p # None /\ a # None
  BY <1>3, NoIdNone, ValuesAssumption
<1>6. \A o \in sh : o \in O
  BY DEF Debts
<1> HIDE DEF e, kept, p, a, O, n, load, doc, dirty
<1>7. CASE Stopped(e, s, n, sh, N)
  <2>1. put = e
    BY <1>7 DEF Emit, Stopped
  <2>2. RestorePlan(s, c, stamp) = e
    BY <1>2, <1>7, <2>1 DEF Stopped
  <2> QED
    BY <1>7, <2>2 DEF n, O, doc, dirty, Stopped
<1>8. CASE Freed(e, O, N) /\ (dirty => Copied(e, doc))
  <2> USE DEF Freed
  <2> DEFINE x  == [e.idx EXCEPT !.active = a]
             d1 == Apply(e.img, PutActive(p))
             d2 == Apply(d1, PutIndex(x))
             m1 == [put EXCEPT !.idx = x]
             e2 == Emit(m1, PutIndex(x))
  <2>1. e.idx \in Index /\ e.img \in Disk /\ Numbered(e.idx) /\ Sure(e.img, O, N)
    BY <1>8, GoingParts
  <2>2. x \in Index /\ x.active = a /\ x.carried = e.idx.carried /\ x.next = e.idx.next
    BY <1>3, <2>1 DEF Index
  <2>3. Numbered(x) /\ ValidIndex(x)
    BY <1>4, <1>5, <1>8, <2>1, <2>2, ValidIsNumbered DEF Numbered
  <2>4. /\ d1 \in Disk /\ d1.index = e.idx /\ d1.active = p /\ d1.cand = e.img.cand
        /\ PutActive(p) \in Write
    BY <1>3, <1>8, <2>1, ActiveParts
  <2> HIDE DEF x, d1
  <2>5. /\ d2 \in Disk /\ d2.index = x /\ d2.active = p /\ d2.cand = e.img.cand
        /\ PutIndex(x) \in Write
    BY <2>2, <2>4, IndexParts
  <2> HIDE DEF d2
  <2>6. ~Named(d1) /\ Named(d2) /\ LinkOf(d1) = c /\ LinkOf(d2) = c
    BY <1>5, <1>8, <2>2, <2>4, <2>5, ValuesAssumption DEF Named, LinkOf
  <2>7. e.img.cand[c] = disk.cand[c]
    BY <1>8
  <2>8. ASSUME NEW o \in O PROVE Rests(d1, o) /\ Rests(d2, o)
    <3>1. PICK k \in Id : Holds(e.img, k, o)
      BY <1>8 DEF Rests
    <3>2. Holds(d1, k, o) /\ Holds(d2, k, o)
      BY <2>4, <2>5, <3>1 DEF Holds
    <3>3. k = c => d1.cand[k].doc = d1.active.doc /\ d2.cand[k].doc = d2.active.doc
      BY <1>5, <2>4, <2>5, <2>7 DEF load
    <3> QED
      BY <2>6, <3>2, <3>3 DEF Rests
  <2>9. Sure(d1, O, N) /\ Sure(d2, O, N)
    BY <1>5, <2>1, <2>2, <2>4, <2>5, <2>6, <2>8 DEF Sure, Tied, Stands, Kept
  <2>10. Going(put, O, N) /\ put.idx = e.idx /\ put.img = d1 /\ put.ok
    BY <1>8, <2>4, <2>9, EmitGoing DEF d1
  <2> HIDE DEF put
  <2>11. Going(m1, O, N) /\ m1.idx = x /\ m1.img = d1
    BY <2>2, <2>3, <2>10, RenumberGoing
  <2>12. m1 = [put EXCEPT !.idx.active = a]
    BY <2>10 DEF x
  <2> HIDE DEF m1
  <2>13. Going(e2, O, N) /\ e2.idx = x /\ e2.img = d2 /\ e2.ok
    BY <2>5, <2>9, <2>11, EmitGoing DEF d2
  <2>14. fin = e2
    BY <2>3, <2>11, <2>12 DEF CommitIndex
  <2> HIDE DEF e2
  <2>15. Settled(d2, s, {load}, later)
    <3>1. Own(d2, s) /\ d2.active # None /\ d2.active.doc \in {load}
      BY <1>5, <2>2, <2>5, <2>6 DEF Own
    <3>2. ASSUME NEW o \in sh, load \notin o PROVE Beside(d2, o)
      <4>1. PICK k \in Id : Holds(e.img, k, o)
        BY <1>6, <1>8 DEF Rests
      <4>2. k # c
        BY <2>7, <3>2, <4>1 DEF Holds, load
      <4> QED
        BY <2>5, <2>6, <4>1, <4>2 DEF Beside, Holds
    <3>3. ASSUME dirty PROVE Beside(d2, {doc})
      <4>1. PICK k \in Id \ {c} : Holds(e.img, k, {doc})
        BY <1>8, <3>3 DEF Copied
      <4> QED
        BY <2>5, <2>6, <4>1 DEF Beside, Holds
    <3> QED
      BY <3>1, <3>2, <3>3 DEF Settled
  <2>16. RestorePlan(s, c, stamp) = e2
    BY <1>2, <2>10, <2>14
  <2>17. Course(disk, e2.plan, e2.img, O, N)
    BY <2>13, GoingParts
  <2> QED
    BY <2>13, <2>15, <2>16, <2>17 DEF n, O, doc, dirty, load
<1> QED
  BY <1>1, <1>7, <1>8

(* The recovery files of the process go: after a save, or at its exit.     *)
LEMMA DiscardKept ==
  ASSUME NEW N, NEW s \in Session, NEW sh, Base(disk, N), IndexSound,
         Settled(disk, s, {}, sh), NEW withSource \in BOOLEAN
  PROVE  LET r == DiscardPlan(s, withSource)
         IN \E e \in Disk : Course(disk, r.plan, e, sh, N) /\ Settled(e, s, {}, sh)
<1> DEFINE r    == Draft(CurrentIndex)
           a    == r.idx.active
           src  == IF withSource THEN a.source ELSE None
           gone == IF src = None THEN Unlink(r)
                   ELSE [Unlink(r) EXCEPT !.idx.carried[src] = Absent]
           done == Emit(CommitIndex(gone), PutActive(None))
           all  == DiscardPlan(s, withSource)
<1>1. disk \in Disk
  BY DEF Base
<1>2. Sure(disk, sh, N) /\ \A o \in sh : Kept(disk, o)
  BY SettledSure, SettledKept, NothingOwed
<1>3. Course(disk, << >>, disk, sh, N)
  BY <1>2, CourseStarts
<1>4. CASE all.plan = << >>
  BY <1>1, <1>3, <1>4
<1>5. r.plan = << >> /\ r.idx = CurrentIndex /\ r.img = disk /\ r.ok
  BY DEF Draft
<1>6. CASE disk.index = None
  <2> DEFINE e == Apply(disk, DropLegacy)
             t == Emit(r, DropLegacy)
  <2>1. /\ DropLegacy \in Write /\ e \in Disk /\ e.index = disk.index
        /\ e.active = disk.active /\ e.cand = disk.cand
    BY <1>1, LegacyParts
  <2>2. all = t
    BY <1>6 DEF DiscardPlan
  <2> HIDE DEF e
  <2>3. (Tied(e, N) <=> Tied(disk, N)) /\ LinkOf(e) = LinkOf(disk) /\ (Own(e, s) <=> Own(disk, s))
        /\ (\A o : InSlot(e, o) <=> InSlot(disk, o)) /\ ~Named(e)
    BY <1>6, <2>1, SameLink DEF Named
  <2>4. \A o \in sh : Kept(e, o)
    BY <1>2, <2>1, <2>3 DEF Kept, Rests, Holds
  <2>5. Sure(e, sh, N)
    BY <2>1, <2>3, <2>4 DEF Sure, Base, Stands
  <2>6. Course(disk, Append(<< >>, DropLegacy), e, sh, N)
    <3>1. << >> \in Seq(Write)
      OBVIOUS
    <3> QED
      BY <1>3, <2>1, <2>5, <3>1, CourseOn DEF e
  <2>7. t.plan = Append(<< >>, DropLegacy)
    BY DEF Draft, Emit
  <2>8. Settled(e, s, {}, sh)
    BY <2>3, <2>4 DEF Settled, Own
  <2> QED
    BY <2>1, <2>2, <2>6, <2>7, <2>8
<1>7. CASE disk.index # None /\ disk.index = Corrupt
  <2>1. all = Failed(r)
    BY <1>7 DEF DiscardPlan
  <2>2. Failed(r).plan = << >>
    BY DEF Draft, Failed
  <2> QED
    BY <1>4, <2>1, <2>2
<1>8. CASE disk.index \notin {None, Corrupt} /\ ~Own(disk, s)
  BY <1>4, <1>5, <1>8 DEF DiscardPlan, Own, Named, CurrentIndex
<1>9. CASE Own(disk, s)
  <2>1. /\ disk.index \notin {None, Corrupt} /\ CurrentIndex = disk.index
        /\ CurrentIndex \in Index /\ Numbered(CurrentIndex) /\ disk.active \in Payload
        /\ a # None /\ a.session = s /\ a = disk.index.active
    BY <1>1, <1>5, <1>9, CurrentParts DEF Own, Named
  <2>2. Going(r, sh, N)
    BY <1>2, <2>1, DraftGoing
  <2>3. src \in Id \union {None} /\ LinkOf(disk) = a.source
    BY <1>9, <2>1, NoIdNone DEF Index, Active, LinkOf, Own
  <2>4. all = IF src = None THEN done ELSE Emit(done, PutCandidate(src, None))
    BY <2>1 DEF DiscardPlan
  <2> HIDE DEF all, r
  <2>5. /\ Going(gone, sh, N) /\ gone.img = disk /\ gone.idx.active = None
    <3> DEFINE u == Unlink(r)
    <3>1. Going(u, sh, N) /\ u.img = disk /\ u.idx.active = None
      BY <1>5, <2>2, UnlinkGoing
    <3>2. CASE src = None
      BY <3>1, <3>2
    <3>3. CASE src # None
      <4> HIDE DEF u, src
      <4> DEFINE x == [u.idx EXCEPT !.carried[src] = Absent]
                 g == [u EXCEPT !.idx = x]
      <4>1. u.idx \in Index /\ Numbered(u.idx)
        BY <3>1, GoingParts
      <4>2. x \in Index /\ x.active = None /\ Numbered(x)
        BY <2>3, <3>1, <3>3, <4>1 DEF Index, Numbered
      <4>3. gone = g
        BY <3>3 DEF u
      <4> HIDE DEF x
      <4>4. Going(g, sh, N) /\ g.idx = x /\ g.img = u.img
        BY <3>1, <4>2, RenumberGoing
      <4> HIDE DEF g
      <4> QED
        BY <3>1, <4>2, <4>3, <4>4
    <3> QED
      BY <3>2, <3>3
  <2> HIDE DEF gone
  <2>6. ASSUME NEW o \in sh PROVE \E k \in Id : k # a.source /\ Holds(disk, k, o)
    BY <1>9, <2>3 DEF Settled, Beside
  <2>7. \A o \in sh : Rests(gone.img, o)
    BY <2>3, <2>5, <2>6 DEF Rests
  <2>8. /\ Going(done, sh, N) /\ done.idx = gone.idx /\ done.img.index = gone.idx
        /\ done.img.active = None /\ done.img.cand = disk.cand
        /\ \A o \in sh : Rests(done.img, o)
    BY <2>5, <2>7, EmptySlot
  <2> HIDE DEF done
  <2>9. done.img \in Disk /\ Course(disk, done.plan, done.img, sh, N) /\ Sure(done.img, sh, N)
    BY <2>8, GoingParts
  <2>10. CASE src = None
    <3>1. ~Named(done.img)
      BY <2>5, <2>8 DEF Named
    <3>2. Settled(done.img, s, {}, sh)
      BY <2>8, <3>1, SettledEmpty
    <3> QED
      BY <2>4, <2>9, <2>10, <3>2 DEF all
  <2>11. CASE src # None
    <3> DEFINE w == PutCandidate(src, None)
               e == Apply(done.img, w)
               t == Emit(done, w)
    <3>1. src \in Id /\ src = a.source
      BY <2>3, <2>11
    <3>2. /\ w \in Write /\ e \in Disk /\ e.index = done.img.index /\ e.active = None
          /\ \A c \in Id : e.cand[c] = IF c = src THEN None ELSE disk.cand[c]
      BY <2>8, <2>9, <3>1, CandidateParts
    <3> HIDE DEF w, e
    <3>3. ~Named(e) /\ LinkOf(e) = None
      BY <2>5, <2>8, <3>2 DEF Named, LinkOf
    <3>4. \A o \in sh : Rests(e, o)
      <4>1. ASSUME NEW o \in sh PROVE Rests(e, o)
        <5>1. PICK k \in Id : k # src /\ Holds(disk, k, o)
          BY <2>6, <3>1
        <5> QED
          BY <3>2, <3>3, <5>1, NoIdNone DEF Rests, Holds
      <4> QED
        BY <4>1
    <3>5. e.cand[MaxId] = None
      BY <3>2, BoundsAssumption DEF Base, Id
    <3>6. Sure(e, sh, N)
      BY <3>2, <3>3, <3>4, <3>5 DEF Sure, Tied, Stands, Kept
    <3>7. Going(t, sh, N) /\ t.img = e
      BY <2>8, <3>2, <3>6, EmitGoing DEF e
    <3>8. all = t
      BY <2>4, <2>11 DEF w
    <3> HIDE DEF t
    <3>9. Settled(e, s, {}, sh)
      BY <3>3, <3>4, SettledEmpty
    <3>10. Course(disk, t.plan, e, sh, N)
      BY <3>7, GoingParts
    <3> QED
      BY <3>2, <3>8, <3>9, <3>10 DEF all
  <2> QED
    BY <2>10, <2>11
<1> QED
  BY <1>6, <1>7, <1>8, <1>9

(* A candidate is discarded: what it held is owed no more.                 *)
LEMMA DropKept ==
  ASSUME NEW N, NEW s \in Session, NEW m, NEW sh, Base(disk, N), IndexSound,
         disk.index \notin {None, Corrupt}, Settled(disk, s, m, sh),
         NEW c \in Id, disk.cand[c] # None
  PROVE  LET r    == DropCandidatePlan(c)
             lost == disk.cand[c].doc
             n    == IF ~r.ok THEN m ELSE IF lost \in m THEN {} ELSE m
             left == IF ~r.ok THEN sh ELSE {o \in sh : lost \notin o}
         IN \E e \in Disk :
              Course(disk, r.plan, e, Debts(left, n), N) /\ Settled(e, s, n, left)
<1> DEFINE x    == [CurrentIndex EXCEPT !.carried[c] = Absent]
           f    == Draft(x)
           w    == PutCandidate(c, None)
           r    == DropCandidatePlan(c)
           lost == disk.cand[c].doc
<1>1. disk \in Disk /\ disk.cand[MaxId] = None /\ Tied(disk, N) /\ MaxId \in Id
  BY BoundsAssumption DEF Base, Id
<1>2. CurrentIndex = disk.index /\ CurrentIndex \in Index /\ Numbered(CurrentIndex)
  BY <1>1, CurrentParts
<1>3. /\ x \in Index /\ x.active = disk.index.active /\ x.next = disk.index.next
      /\ \A i \in Id : x.carried[i] = IF i = c THEN Absent ELSE disk.index.carried[i]
  BY <1>2 DEF Index
<1>4. Numbered(x)
  BY <1>2, <1>3 DEF Numbered
<1>5. r = Emit(CommitIndex(f), w)
  BY DEF DropCandidatePlan
<1> HIDE DEF r, x, lost
<1>6. CASE ~ValidIndex(x)
  <2>1. f.plan = << >> /\ f.idx = x /\ f.ok
    BY DEF Draft
  <2>2. CommitIndex(f) = Failed(f)
    BY <1>6, <2>1 DEF CommitIndex
  <2>3. ~r.ok /\ r.plan = << >>
    BY <1>5, <2>1, <2>2 DEF Failed, Emit, Draft
  <2>4. Sure(disk, Debts(sh, m), N)
    BY SettledSure
  <2>5. Course(disk, << >>, disk, Debts(sh, m), N)
    BY <2>4, CourseStarts
  <2> QED
    BY <1>1, <2>3, <2>5 DEF r
<1>7. CASE ValidIndex(x)
  <2> DEFINE n    == IF lost \in m THEN {} ELSE m
             left == {o \in sh : lost \notin o}
             O    == Debts(left, n)
             d1   == Apply(disk, PutIndex(x))
             d2   == Apply(d1, w)
             e1   == Emit(f, PutIndex(x))
             e2   == Emit(e1, w)
  <2>1. n \subseteq m /\ left \subseteq sh /\ \A o \in O : lost \notin o
    BY DEF Debts
  <2>2. \A o \in O : o \in Debts(sh, m)
    BY DEF Debts
  <2>3. Sure(disk, O, N) /\ \A o \in O : Kept(disk, o)
    <3>1. \A o \in O : Kept(disk, o)
      BY <2>2, SettledKept
    <3> QED
      BY <3>1 DEF Sure, Base, Stands
  <2> HIDE DEF O, n, left
  <2>4. Going(f, O, N) /\ f.idx = x /\ f.img = disk /\ f.ok
    BY <1>3, <1>4, <2>3, DraftGoing
  <2> HIDE DEF f
  <2>5. /\ d1 \in Disk /\ d1.index = x /\ d1.active = disk.active /\ d1.cand = disk.cand
        /\ PutIndex(x) \in Write
    BY <1>1, <1>3, IndexParts
  <2> HIDE DEF d1
  <2>6. /\ w \in Write /\ d2 \in Disk /\ d2.index = x /\ d2.active = disk.active
        /\ \A i \in Id : d2.cand[i] = IF i = c THEN None ELSE disk.cand[i]
    BY <2>5, CandidateParts
  <2> HIDE DEF d2, w
  <2>7. x \notin {None, Corrupt}
    BY <1>3, ValuesAssumption
  <2>8. /\ (Named(d1) <=> Named(disk)) /\ (Named(d2) <=> Named(disk))
        /\ LinkOf(d1) = LinkOf(disk) /\ LinkOf(d2) = LinkOf(disk)
        /\ Tied(d1, N) /\ Tied(d2, N) /\ (Own(d2, s) <=> Own(disk, s))
    BY <1>1, <1>3, <2>5, <2>6, <2>7 DEF Named, LinkOf, Tied, Own
  <2>9. ASSUME NEW o \in O PROVE Kept(d1, o) /\ Kept(d2, o)
    <3>1. CASE InSlot(disk, o)
      BY <2>5, <2>6, <2>8, <3>1 DEF Kept, InSlot
    <3>2. CASE Rests(disk, o)
      <4>1. PICK k \in Id : Holds(disk, k, o)
                            /\ (k # LinkOf(disk) \/ disk.cand[k].doc = disk.active.doc)
        BY <3>2 DEF Rests
      <4>2. k # c
        BY <2>1, <4>1 DEF Holds, lost
      <4>3. d1.cand[k] = disk.cand[k] /\ d2.cand[k] = disk.cand[k]
        BY <2>5, <2>6, <4>2
      <4> QED
        BY <2>5, <2>6, <2>8, <4>1, <4>3 DEF Kept, Rests, Holds
    <3> QED
      BY <2>3, <3>1, <3>2 DEF Kept
  <2>10. d1.cand[MaxId] = None /\ d2.cand[MaxId] = None
    BY <1>1, <2>5, <2>6
  <2>11. Sure(d1, O, N) /\ Sure(d2, O, N)
    BY <2>5, <2>6, <2>8, <2>9, <2>10 DEF Sure, Stands
  <2>12. Going(e1, O, N) /\ e1.idx = x /\ e1.img = d1
    BY <2>4, <2>5, <2>11, EmitGoing DEF d1
  <2> HIDE DEF e1
  <2>13. Going(e2, O, N) /\ e2.img = d2 /\ e2.ok
    BY <2>6, <2>11, <2>12, EmitGoing DEF d2
  <2>14. r = e2
    BY <1>5, <1>7, <2>4 DEF CommitIndex, e1
  <2> HIDE DEF e2
  <2>15. Settled(d2, s, n, left)
    <3>1. \A o \in left : o \in O
      BY DEF O, Debts
    <3>2. CASE Own(disk, s)
      <4>1. ASSUME NEW o \in left PROVE Beside(d2, o)
        <5>1. PICK k \in Id : k # LinkOf(disk) /\ Holds(disk, k, o)
          BY <2>1, <3>2 DEF Settled, Beside
        <5>2. k # c
          BY <2>1, <3>1, <5>1 DEF Holds, lost
        <5> QED
          BY <2>6, <2>8, <5>1, <5>2 DEF Beside, Holds
      <4>2. n # {} => d2.active # None /\ d2.active.doc \in n
        BY <2>6, <3>2 DEF Settled, n
      <4> QED
        BY <2>8, <3>2, <4>1, <4>2 DEF Settled
    <3>3. CASE ~Own(disk, s)
      <4>1. n = {}
        BY <3>3 DEF Settled, n
      <4>2. Named(d2) => ~Returns(d2)
        BY <1>3, <2>6, <2>8, <3>3, NoIdNone DEF Settled, Returns, Named, Index, Active
      <4> QED
        BY <2>8, <2>9, <3>1, <3>3, <4>1, <4>2 DEF Settled
    <3> QED
      BY <3>2, <3>3
  <2>16. Course(disk, e2.plan, d2, O, N)
    BY <2>13, GoingParts
  <2> QED
    BY <2>6, <2>13, <2>14, <2>15, <2>16 DEF r, O, n, left, lost
<1> QED
  BY <1>6, <1>7

-----------------------------------------------------------------------------
(* The start of the only process.                                          *)

(* The index a start repairs numbers every candidate it finds, and its     *)
(* active entry is that of the active payload.                             *)
LEMMA ReconcileParts ==
  ASSUME disk \in Disk, disk.cand[MaxId] = None, NEW N, Tied(disk, N),
         NEW x \in Index, Numbered(x), Named(disk) => x = disk.index,
         ~Named(disk) => x.active = None
  PROVE  LET y == Reconcile(x, disk)
         IN /\ y \in Index /\ Numbered(y)
            /\ disk.active = None <=> y.active = None
            /\ disk.active # None => y.active.source = LinkOf(disk)
            /\ \A i \in Id : x.carried[i] # Absent => y.carried[i] # Absent
            /\ \A i \in Id : y.carried[i] # Absent
                             => x.carried[i] # Absent \/ disk.cand[i] # None
<1> DEFINE held == {i \in Id : disk.cand[i] # None}
           S    == {n \in x.next .. (x.next + MaxId + 1) : \A i \in held : i < n}
           y    == Reconcile(x, disk)
<1>1. MaxId \in Nat \ {0} /\ x.next \in 1 .. MaxId
  BY BoundsAssumption DEF Numbered
<1>2. MaxId \in S
  <2>1. \A i \in held : i < MaxId
    BY <1>1 DEF Id
  <2>2. MaxId \in x.next .. (x.next + MaxId + 1)
    BY <1>1
  <2> QED
    BY <2>1, <2>2
<1>3. LeastOf(S) \in S /\ LeastOf(S) <= MaxId
  <2>1. S \in SUBSET Nat
    BY <1>1
  <2> HIDE DEF S
  <2> QED
    BY <1>2, <2>1, LeastNat
<1>4. y.next = LeastOf(S) /\ \A i \in Id : y.carried[i] =
        IF x.carried[i] = Absent /\ disk.cand[i] # None THEN disk.cand[i].session
        ELSE x.carried[i]
  BY DEF Reconcile
<1>5. y \in Index
  BY ReconcileType
<1>6. Numbered(y)
  <2>1. y.next \in 1 .. MaxId /\ y.next >= x.next
    BY <1>1, <1>3, <1>4
  <2>2. ASSUME NEW i \in Id, y.carried[i] # Absent PROVE i < y.next
    <3>1. CASE x.carried[i] # Absent
      BY <1>1, <2>1, <3>1 DEF Numbered, Id
    <3>2. CASE x.carried[i] = Absent
      <4>1. i \in held
        BY <1>4, <2>2, <3>2
      <4> QED
        BY <1>3, <1>4, <4>1
    <3> QED
      BY <3>1, <3>2
  <2> QED
    BY <2>1, <2>2 DEF Numbered
<1>7. \A i \in Id : x.carried[i] # Absent => y.carried[i] # Absent
  BY <1>4
<1>8. \A i \in Id : y.carried[i] # Absent => x.carried[i] # Absent \/ disk.cand[i] # None
  BY <1>4
<1>9. /\ disk.active = None <=> y.active = None
      /\ disk.active # None => y.active.source = LinkOf(disk)
  <2> DEFINE d == disk
             entry == [session |-> d.active.session, source |-> d.active.source]
  <2>1. y.active = IF d.active = None THEN None
                   ELSE IF x.active = None THEN entry
                   ELSE IF d.active.doc = Unreadable THEN x.active
                   ELSE IF d.active.source = None
                        THEN [session |-> d.active.session, source |-> x.active.source]
                        ELSE entry
    BY DEF Reconcile
  <2>2. CASE d.active = None
    BY <2>1, <2>2
  <2>3. CASE d.active # None
    <3>1. d.active \in Payload
      BY <2>3 DEF Disk
    <3>2. entry \in Active
      BY <3>1 DEF Payload, Active
    <3>3. entry # None /\ entry.source = d.active.source
      BY <3>2, ValuesAssumption
    <3>4. CASE x.active = None
      <4>1. ~Named(d)
        BY <3>4 DEF Named
      <4> QED
        BY <2>1, <2>3, <3>3, <3>4, <4>1 DEF LinkOf
    <3>5. CASE x.active # None
      <4>1. Named(d) /\ x = d.index /\ LinkOf(d) = x.active.source
        BY <2>3, <3>5 DEF LinkOf
      <4>2. d.active.source \in {None, x.active.source}
        BY <2>3, <4>1 DEF Tied
      <4>3. x.active \in Active
        BY <3>5 DEF Index
      <4>4. [session |-> d.active.session, source |-> x.active.source] \in Active
        BY <3>1, <4>3 DEF Payload, Active
      <4>5. [session |-> d.active.session, source |-> x.active.source] # None
        BY <4>4, ValuesAssumption
      <4> QED
        BY <2>1, <2>3, <3>3, <3>5, <4>1, <4>2, <4>5
    <3> QED
      BY <3>4, <3>5
  <2> QED
    BY <2>2, <2>3
<1> HIDE DEF y
<1> QED
  BY <1>5, <1>6, <1>7, <1>8, <1>9 DEF y

(* What a start makes of a draft in which everything owed is kept.         *)
LEMMA StartEnds ==
  ASSUME NEW N, NEW s \in N, NEW O, NEW r, Going(r, O, N), \A o \in O : Kept(r.img, o),
         r.idx.active = None <=> r.img.active = None,
         r.img.active # None => r.idx.active.source = LinkOf(r.img),
         Named(r.img) => /\ r.img.active # None
                         /\ \A i \in Id : r.img.index.carried[i] # Absent
                                          => r.idx.carried[i] # Absent
  PROVE  LET e == IF r.idx.active = None THEN CommitIndex(r)
                  ELSE IF AlreadyCarried(r) THEN Emit(CommitIndex(Unlink(r)), PutActive(None))
                  ELSE SetAside(r)
         IN Course(disk, e.plan, e.img, O, N) /\ Settled(e.img, s, {}, O)
<1> DEFINE e == IF r.idx.active = None THEN CommitIndex(r)
                ELSE IF AlreadyCarried(r) THEN Emit(CommitIndex(Unlink(r)), PutActive(None))
                ELSE SetAside(r)
<1>1. /\ r \in Drafts /\ r.ok /\ r.idx \in Index /\ r.img \in Disk /\ Numbered(r.idx)
      /\ Course(disk, r.plan, r.img, O, N) /\ Sure(r.img, O, N)
  BY GoingParts
<1>2. CASE r.idx.active = None
  <2> DEFINE d == Apply(r.img, PutIndex(r.idx))
             t == Emit(r, PutIndex(r.idx))
  <2>1. /\ d \in Disk /\ d.index = r.idx /\ d.active = None /\ d.cand = r.img.cand
        /\ PutIndex(r.idx) \in Write
    BY <1>1, <1>2, IndexParts
  <2> HIDE DEF d
  <2>2. ~Named(d) /\ LinkOf(d) = None
    BY <1>2, <2>1 DEF Named, LinkOf
  <2>3. ASSUME NEW o \in O PROVE Rests(d, o)
    <3>1. PICK k \in Id : Holds(r.img, k, o)
      BY <1>2 DEF Kept, InSlot, Rests
    <3> QED
      BY <2>1, <2>2, <3>1, NoIdNone DEF Rests, Holds
  <2>4. Sure(d, O, N)
    BY <1>1, <2>1, <2>2, <2>3 DEF Sure, Tied, Stands, Kept
  <2>5. Going(t, O, N) /\ t.img = d
    BY <2>1, <2>4, EmitGoing DEF d
  <2>6. e = t
    BY <1>1, <1>2, ValidIsNumbered DEF CommitIndex
  <2> HIDE DEF e, t
  <2>7. Settled(d, s, {}, O)
    BY <2>2, <2>3, SettledEmpty
  <2>8. Course(disk, t.plan, t.img, O, N)
    BY <2>5, GoingParts
  <2> QED
    BY <2>5, <2>6, <2>7, <2>8 DEF e
<1>3. CASE r.idx.active # None /\ AlreadyCarried(r)
  <2> DEFINE u == Unlink(r)
             t == Emit(CommitIndex(u), PutActive(None))
  <2>1. Going(u, O, N) /\ u.img = r.img /\ u.idx.active = None
    BY UnlinkGoing
  <2>2. PICK i \in Id : r.img.cand[i] = r.img.active
    BY <1>3 DEF AlreadyCarried
  <2>3. ASSUME NEW o \in O PROVE Rests(u.img, o)
    <3>1. CASE InSlot(r.img, o)
      BY <2>1, <2>2, <3>1 DEF InSlot, Rests, Holds
    <3>2. CASE Rests(r.img, o)
      BY <2>1, <3>2
    <3> QED
      BY <3>1, <3>2 DEF Kept
  <2>4. e = t
    BY <1>3
  <2> HIDE DEF u
  <2>5. /\ Going(t, O, N) /\ t.idx = u.idx /\ t.img.index = u.idx
        /\ \A o \in O : Rests(t.img, o)
    BY <2>1, <2>3, EmptySlot
  <2> HIDE DEF e, t
  <2>6. ~Named(t.img)
    BY <2>1, <2>5 DEF Named
  <2>7. Settled(t.img, s, {}, O)
    BY <2>5, <2>6, SettledEmpty
  <2>8. Course(disk, t.plan, t.img, O, N)
    BY <2>5, GoingParts
  <2> QED
    BY <2>4, <2>7, <2>8 DEF e
<1>4. CASE r.idx.active # None /\ ~AlreadyCarried(r)
  <2> DEFINE t == SetAside(r)
  <2>1. e = t
    BY <1>4
  <2>2. \/ ~t.ok /\ t.plan = r.plan /\ t.img = r.img /\ ~ReturnsToSource(r)
        \/ /\ Going(t, O, N) /\ t.idx.active = None
           /\ t.img.index = t.idx /\ t.img.active = None
           /\ \A o \in O : Rests(t.img, o)
    BY <1>4, SetsAside
  <2> HIDE DEF e, t
  <2>3. CASE ~t.ok /\ t.plan = r.plan /\ t.img = r.img /\ ~ReturnsToSource(r)
    <3>1. ~Own(r.img, s)
      BY <1>1 DEF Own, Sure, Tied
    <3>2. Named(r.img) => ~Returns(r.img)
      <4>1. ASSUME Named(r.img), Returns(r.img) PROVE FALSE
        <5>1. r.idx.active.source = r.img.index.active.source
          BY <4>1 DEF LinkOf
        <5>2. r.img.index.active.source \in Id
          BY <1>1, <4>1, NoIdNone DEF Named, Returns, Disk, Index, Active
        <5> QED
          BY <2>3, <4>1, <5>1, <5>2 DEF Returns, ReturnsToSource
      <4> QED
        BY <4>1
    <3>3. Settled(r.img, s, {}, O)
      BY <3>1, <3>2 DEF Settled
    <3> QED
      BY <1>1, <2>1, <2>3, <3>3 DEF e
  <2>4. CASE /\ Going(t, O, N) /\ t.idx.active = None
             /\ t.img.index = t.idx /\ \A o \in O : Rests(t.img, o)
    <3>1. ~Named(t.img)
      BY <2>4 DEF Named
    <3>2. Settled(t.img, s, {}, O)
      BY <2>4, <3>1, SettledEmpty
    <3>3. Course(disk, t.plan, t.img, O, N)
      BY <2>4, GoingParts
    <3> QED
      BY <2>1, <3>2, <3>3 DEF e
  <2> QED
    BY <2>2, <2>3, <2>4
<1> QED
  BY <1>2, <1>3, <1>4

(* The old autosave is imported, or there is none, or everything owed is   *)
(* elsewhere: the first id is free on a disk that holds nothing else.      *)
LEMMA ImportKept ==
  ASSUME NEW N, NEW O, NEW r, Going(r, O, N), r.plan = << >>, r.img = disk, ~Named(disk),
         MaxId > 1,
         (\E o \in O : ~Kept(disk, o)) => FreeIds(r) = Id
  PROVE  LET e == ImportLegacy(r)
         IN \/ ~e.ok /\ e.plan = << >> /\ \A o \in O : Kept(disk, o)
            \/ /\ Going(e, O, N) /\ \A o \in O : Kept(e.img, o)
               /\ e.img.index = disk.index /\ e.img.active = disk.active
               /\ e.idx.active = r.idx.active
<1> DEFINE e == ImportLegacy(r)
           p == [doc |-> disk.legacy, session |-> None, source |-> None,
                 stamp |-> CHOOSE t \in Stamp : TRUE]
<1>1. Sure(disk, O, N) /\ disk \in Disk /\ r \in Drafts
  BY GoingParts
<1>2. CASE disk.legacy = None
  <2>1. e = r
    BY <1>2 DEF ImportLegacy
  <2>2. \A o \in O : Kept(disk, o)
    BY <1>1, <1>2 DEF Sure, Stands, Unimported
  <2> QED
    BY <2>1, <2>2
<1>3. CASE disk.legacy # None
  <2>1. p \in Payload
    <3>1. (CHOOSE t \in Stamp : TRUE) \in Stamp
      BY ValuesAssumption
    <3> QED
      BY <1>1, <1>3, <3>1 DEF Disk, Payload, Work
  <2>2. p.doc = disk.legacy
    OBVIOUS
  <2>3. e = AddCandidate(r, p, None)
    BY <1>3 DEF ImportLegacy
  <2> HIDE DEF p, e
  <2>4. \A o \in O : Kept(r.img, o) \/ p.doc \in o
    BY <1>1, <2>2 DEF Sure, Stands, Unimported
  <2>5. \/ e = Failed(r) /\ ~ \E i \in FreeIds(r) : i < MaxId
        \/ /\ Going(e, O, N) /\ \A o \in O : Kept(e.img, o)
           /\ \E k \in Id :
                /\ r.img.cand[k] = None /\ r.idx.carried[k] = Absent
                /\ k >= r.idx.next /\ k < MaxId
                /\ e.img = Apply(r.img, PutCandidate(k, p))
                /\ e.idx = Carrying(r.idx, k, None)
    BY <2>1, <2>3, <2>4, FreshCandidate
  <2>6. CASE e = Failed(r) /\ ~ \E i \in FreeIds(r) : i < MaxId
    <3>1. ~e.ok /\ e.plan = << >>
      BY <1>1, <2>6, FailedParts
    <3>2. 1 \in Id /\ 1 < MaxId
      BY BoundsAssumption DEF Id
    <3> QED
      BY <2>6, <3>1, <3>2 DEF e
  <2>7. CASE /\ Going(e, O, N) /\ \A o \in O : Kept(e.img, o)
             /\ \E k \in Id : /\ e.img = Apply(r.img, PutCandidate(k, p))
                              /\ e.idx = Carrying(r.idx, k, None)
    <3>1. PICK k \in Id : /\ e.img = Apply(r.img, PutCandidate(k, p))
                          /\ e.idx = Carrying(r.idx, k, None)
      BY <2>7
    <3>2. e.img.index = disk.index /\ e.img.active = disk.active
      BY <1>1, <2>1, <3>1, CandidateParts
    <3>3. e.idx.active = r.idx.active
      BY <3>1 DEF Carrying
    <3> QED
      BY <2>7, <3>2, <3>3 DEF e
  <2> QED
    BY <2>5, <2>6, <2>7
<1> QED
  BY <1>2, <1>3

LEMMA StartKept ==
  ASSUME NEW N, NEW s \in N, NEW O, Sure(disk, O, N), IndexSound,
         \A t \in Session : ~Live(t), MaxId > 1
  PROVE  LET r == StartPlan
         IN \E e \in Disk : Course(disk, r.plan, e, O, N) /\ Settled(e, s, {}, O)
<1> DEFINE valid == disk.index \notin {None, Corrupt}
           base  == IF valid THEN disk.index ELSE DefaultIndex
           y     == Reconcile(base, disk)
           found == Draft(y)
           r     == IF valid THEN found ELSE ImportLegacy(found)
           fin   == IF r.idx.active = None THEN CommitIndex(r)
                    ELSE IF AlreadyCarried(r) THEN Emit(CommitIndex(Unlink(r)), PutActive(None))
                    ELSE SetAside(r)
<1>1. disk \in Disk /\ disk.cand[MaxId] = None /\ Tied(disk, N)
  BY DEF Sure
<1>2. /\ base \in Index /\ Numbered(base)
      /\ Named(disk) => base = disk.index
      /\ ~Named(disk) => base.active = None
  <2>1. CASE valid
    BY <1>1, <2>1, ValidIsNumbered DEF Disk, IndexSound, Named
  <2>2. CASE ~valid
    BY <2>2, DefaultType, ValidIsNumbered DEF Named, DefaultIndex
  <2> QED
    BY <2>1, <2>2
<1>3. ~valid => base = DefaultIndex
  OBVIOUS
<1>4. valid => base = disk.index
  OBVIOUS
<1> HIDE DEF base
<1>5. /\ y \in Index /\ Numbered(y)
      /\ disk.active = None <=> y.active = None
      /\ disk.active # None => y.active.source = LinkOf(disk)
      /\ \A i \in Id : base.carried[i] # Absent => y.carried[i] # Absent
      /\ \A i \in Id : y.carried[i] # Absent => base.carried[i] # Absent \/ disk.cand[i] # None
  BY <1>1, <1>2, ReconcileParts
<1>6. Going(found, O, N) /\ found.idx = y /\ found.img = disk /\ found.plan = << >> /\ found.ok
  BY <1>5, DraftGoing
<1>7. StartPlan =
        IF ~r.ok \/ (disk.index = None /\ r.idx = DefaultIndex) THEN r
        ELSE IF r.idx.active # None /\ r.idx.active.session # None /\ Live(r.idx.active.session)
             THEN r ELSE fin
  BY DEF StartPlan, base
<1> HIDE DEF found
<1>8. \/ ~r.ok /\ r.plan = << >> /\ ~valid /\ \A o \in O : Kept(disk, o)
      \/ /\ Going(r, O, N) /\ \A o \in O : Kept(r.img, o)
         /\ r.img.index = disk.index /\ r.img.active = disk.active
         /\ r.idx.active = y.active
         /\ valid => r = found
  <2>1. CASE valid
    <3>1. \A o \in O : Kept(disk, o)
      BY <2>1 DEF Sure, Stands, Unimported
    <3> QED
      BY <1>6, <2>1, <3>1
  <2>2. CASE ~valid
    <3>1. ~Named(disk)
      BY <2>2 DEF Named
    <3>2. ASSUME NEW o \in O, ~Kept(disk, o) PROVE FreeIds(found) = Id
      <4>1. Unimported(disk, o)
        BY <3>2 DEF Sure, Stands
      <4>2. \A i \in Id : disk.cand[i] = None /\ y.carried[i] = Absent
        BY <1>3, <1>5, <2>2, <4>1 DEF Unimported, DefaultIndex
      <4>3. y.next = 1
        <5> DEFINE held == {i \in Id : disk.cand[i] # None}
                   S    == {n \in 1 .. (1 + MaxId + 1) : \A i \in held : i < n}
        <5>1. base.next = 1
          BY <1>3, <2>2 DEF DefaultIndex
        <5>2. y.next = LeastOf(S)
          BY <5>1 DEF Reconcile
        <5>3. 1 \in S /\ S \in SUBSET Nat /\ \A n \in S : n >= 1
          BY <4>2, BoundsAssumption
        <5> HIDE DEF S
        <5>4. LeastOf(S) \in S /\ LeastOf(S) <= 1
          BY <5>3, LeastNat
        <5>5. LeastOf(S) \in Nat /\ LeastOf(S) >= 1
          BY <5>3, <5>4
        <5>6. LeastOf(S) = 1
          BY <5>4, <5>5
        <5> QED
          BY <5>2, <5>6
      <4> QED
        BY <1>6, <4>2, <4>3, BoundsAssumption DEF FreeIds, Id
    <3> DEFINE e == ImportLegacy(found)
    <3>3. r = e
      BY <2>2
    <3>4. (\E o \in O : ~Kept(disk, o)) => FreeIds(found) = Id
      BY <3>2
    <3>5. \/ ~e.ok /\ e.plan = << >> /\ \A o \in O : Kept(disk, o)
          \/ /\ Going(e, O, N) /\ \A o \in O : Kept(e.img, o)
             /\ e.img.index = disk.index /\ e.img.active = disk.active
             /\ e.idx.active = found.idx.active
      BY <1>6, <3>1, <3>4, ImportKept
    <3> HIDE DEF r, e, y
    <3> QED
      BY <1>6, <2>2, <3>3, <3>5
  <2> QED
    BY <2>1, <2>2
<1> HIDE DEF r
<1>9. CASE ~r.ok /\ r.plan = << >> /\ ~valid /\ \A o \in O : Kept(disk, o)
  <2>1. ~Named(disk)
    BY <1>9 DEF Named
  <2>2. Settled(disk, s, {}, O)
    BY <1>9, <2>1 DEF Settled, Own
  <2>3. Course(disk, << >>, disk, O, N)
    BY CourseStarts
  <2> QED
    BY <1>1, <1>7, <1>9, <2>2, <2>3
<1>10. CASE /\ Going(r, O, N) /\ \A o \in O : Kept(r.img, o)
            /\ r.img.index = disk.index /\ r.img.active = disk.active
            /\ r.idx.active = y.active
            /\ valid => r = found
  <2> HIDE DEF y
  <2>1. r.ok /\ r.img \in Disk /\ Course(disk, r.plan, r.img, O, N) /\ r.idx \in Index
    BY <1>10, GoingParts
  <2>2. CASE disk.index = None /\ r.idx = DefaultIndex
    <3>1. ~Named(r.img)
      BY <1>10, <2>2 DEF Named
    <3>2. Settled(r.img, s, {}, O)
      BY <1>10, <3>1 DEF Settled, Own
    <3> QED
      BY <1>7, <2>1, <2>2, <3>2
  <2>3. CASE ~(disk.index = None /\ r.idx = DefaultIndex)
    <3>1. r.idx.active # None /\ r.idx.active.session # None => r.idx.active.session \in Session
      BY <2>1 DEF Index, Active
    <3>2. StartPlan = fin
      BY <1>7, <2>1, <2>3, <3>1
    <3>3. LinkOf(r.img) = LinkOf(disk) /\ (Named(r.img) <=> Named(disk))
      BY <1>10, SameLink
    <3>4. r.idx.active = None <=> r.img.active = None
      BY <1>5, <1>10
    <3>5. r.img.active # None => r.idx.active.source = LinkOf(r.img)
      BY <1>5, <1>10, <3>3
    <3>6. Named(r.img) => /\ r.img.active # None
                          /\ \A i \in Id : r.img.index.carried[i] # Absent
                                           => r.idx.carried[i] # Absent
      <4>1. CASE Named(disk)
        <5>1. valid /\ disk.active # None /\ base = disk.index
          BY <1>4, <4>1 DEF Named, IndexSound
        <5>2. r.idx = y
          BY <1>6, <1>10, <5>1
        <5> QED
          BY <1>5, <1>10, <5>1, <5>2
      <4> QED
        BY <3>3, <4>1
    <3>7. Course(disk, fin.plan, fin.img, O, N) /\ Settled(fin.img, s, {}, O)
      BY <1>10, <3>4, <3>5, <3>6, StartEnds
    <3> HIDE DEF fin
    <3>8. fin.img \in Disk
      <4>1. StartPlan.plan \in Seq(Write)
        BY <1>1, StartReady DEF Ready
      <4>2. Sure(fin.img, O, N)
        BY <3>2, <3>7, <4>1, CourseEnds
      <4> QED
        BY <4>2 DEF Sure
    <3> QED
      BY <3>2, <3>7, <3>8
  <2> QED
    BY <2>2, <2>3
<1> QED
  BY <1>8, <1>9, <1>10

-----------------------------------------------------------------------------
(* The state between two steps, while no write has failed and there is one *)
(* process at a time.                                                      *)

Unborn == {t \in Session : life[t] = "new"}

AtMostOne == \A t, u \in Session : Live(t) /\ Live(u) => t = u

OnlyDirty == \A t \in Session : ~Live(t) \/ ~mem[t].dirty => mine[t] = {}

AtRest ==
  tx = None => /\ \A s \in Session :
                    Live(s) => Base(disk, Unborn) /\ Settled(disk, s, mine[s], shelf)
               /\ (\A s \in Session : ~Live(s)) => Sure(disk, shelf, Unborn)

UnderWay ==
  tx # None => /\ Live(tx.who)
               /\ tx.op = "autosave" => mem[tx.who].dirty
               /\ \E e \in Disk :
                    /\ Course(disk, tx.plan, e, Debts(shelf, mine[tx.who]), Unborn)
                    /\ Ends(e, tx, mine[tx.who], shelf)

Secure == AtMostOne /\ OnlyDirty /\ AtRest /\ UnderWay

(* A process that starts is one less that has not.                         *)
LEMMA CourseFewer ==
  ASSUME NEW d, NEW p \in Seq(Write), NEW e, NEW O, NEW N, Course(d, p, e, O, N),
         NEW M, M \subseteq N
  PROVE  Course(d, p, e, O, M)
<1>1. \A x : Sure(x, O, N) => Sure(x, O, M)
  BY DEF Sure, Tied
<1> QED
  BY <1>1, ThroughMore DEF Course

LEMMA CourseDisk ==
  ASSUME NEW d, NEW p \in Seq(Write), NEW e, NEW O, NEW N, Course(d, p, e, O, N)
  PROVE  e \in Disk
BY CourseEnds DEF Sure

LEMMA EndsParts ==
  ASSUME NEW e, NEW t, NEW u, NEW m, NEW sh, Ends(e, t, m, sh),
         u.ok = t.ok, u.op = t.op, u.who = t.who, u.doc = t.doc, u.load = t.load,
         u.dirty = t.dirty
  PROVE  Ends(e, u, m, sh)
BY DEF Ends

(* Between two operations, what any process is owed is certain.            *)
LEMMA RestIsSure ==
  ASSUME AtRest, OnlyDirty, AtMostOne, tx = None, NEW s \in Session, Live(s)
  PROVE  /\ Base(disk, Unborn) /\ Settled(disk, s, mine[s], shelf) /\ s \notin Unborn
         /\ Sure(disk, Debts(shelf, mine[s]), Unborn)
<1>1. Base(disk, Unborn) /\ Settled(disk, s, mine[s], shelf)
  BY DEF AtRest
<1>2. s \notin Unborn
  BY DEF Unborn, Live
<1> QED
  BY <1>1, <1>2, SettledSure

(* An operation of the only process begins.                                *)
LEMMA BeginSecure ==
  ASSUME IInv, Secure, NEW s \in Session, NEW op \in Operations,
         NEW c \in Id \union {None}, NEW r, Ready(r), Begin(s, op, c, r),
         op = "restore" => c \in Id /\ disk.cand[c] # None /\ disk.cand[c].doc # Unreadable,
         life' = life, Live(s), OnlyDirty', op = "autosave" => mem'[s].dirty,
         \E e \in Disk : /\ Course(disk, r.plan, e, Debts(shelf', mine'[s]), Unborn)
                         /\ Ends(e, tx', mine'[s], shelf'),
         disk' = disk
  PROVE  Secure'
<1>1. tx' \in Transaction
  BY Parts, BeginOK
<1>2. tx'.who = s /\ tx'.op = op /\ tx'.plan = r.plan
  BY DEF Begin
<1>3. tx' # None
  BY <1>1, TransactionAssumption
<1>4. AtMostOne'
  BY DEF Secure, AtMostOne, Live
<1>5. AtRest'
  BY <1>3 DEF AtRest
<1>6. Unborn' = Unborn /\ Live(s)'
  BY DEF Unborn, Live
<1>7. UnderWay'
  BY <1>2, <1>6 DEF UnderWay
<1> QED
  BY <1>4, <1>5, <1>7 DEF Secure

LEMMA StartSecure ==
  ASSUME IInv, Secure, MaxLive <= 1, MaxId > 1, NEW s \in Session, Start(s)
  PROVE  Secure'
<1>1. disk' = disk /\ Begin(s, "start", None, StartPlan) /\ Ready(StartPlan)
  BY Parts, StartReady DEF Start
<1>2. \A t \in Session : ~Live(t)
  <2> DEFINE L == {t \in Session : Live(t)}
  <2>1. Cardinality(L) < MaxLive
    BY DEF Start
  <2>2. ASSUME NEW u \in Session, Live(u) PROVE FALSE
    <3>1. L = {u}
      BY <2>2 DEF Secure, AtMostOne
    <3>2. Cardinality(L) = 1
      BY <3>1, FS_Singleton
    <3> QED
      BY <2>1, <3>2, BoundsAssumption
  <2> QED
    BY <2>2
<1>3. tx = None /\ Sure(disk, shelf, Unborn)
  BY <1>1, <1>2 DEF Begin, Secure, AtRest
<1>4. s \in Unborn /\ life \in [Session -> {"new", "up", "down"}] /\ life' = [life EXCEPT ![s] = "up"]
  BY Parts DEF Start, Unborn, StoreOK
<1>5. PICK e \in Disk :
        Course(disk, StartPlan.plan, e, shelf, Unborn) /\ Settled(e, s, {}, shelf)
  BY <1>2, <1>3, <1>4, Parts, StartKept
<1>6. Unborn' \subseteq Unborn /\ Live(s)' /\ \A t \in Session : Live(t)' => t = s
  BY <1>2, <1>4 DEF Unborn, Live
<1>7. StartPlan.plan \in Seq(Write)
  BY <1>1 DEF Ready
<1>8. Course(disk, StartPlan.plan, e, shelf, Unborn')
  <2> DEFINE M == Unborn'
  <2>1. M \subseteq Unborn
    BY <1>6
  <2> HIDE DEF M
  <2>2. Course(disk, StartPlan.plan, e, shelf, M)
    BY <1>5, <1>7, <2>1, CourseFewer
  <2> QED
    BY <2>2 DEF M
<1>9. tx' \in Transaction /\ tx' # None
  BY <1>1, Parts, BeginOK, TransactionAssumption DEF Operations
<1>10. tx'.who = s /\ tx'.op = "start" /\ tx'.plan = StartPlan.plan
  BY <1>1 DEF Begin
<1>11. mine' = mine /\ shelf' = shelf /\ mem' = mem /\ mine[s] = {}
  BY <1>2 DEF Start, Secure, OnlyDirty
<1>12. Debts(shelf', mine'[s]) = shelf
  BY <1>11, NothingOwed
<1>13. Ends(e, tx', mine'[s], shelf')
  BY <1>5, <1>10, <1>11 DEF Ends
<1>14. UnderWay'
  BY <1>1, <1>6, <1>8, <1>10, <1>12, <1>13 DEF UnderWay
<1>15. AtMostOne'
  BY <1>6 DEF AtMostOne
<1>16. OnlyDirty'
  BY <1>2, <1>11 DEF OnlyDirty, Secure
<1>17. AtRest'
  BY <1>9 DEF AtRest
<1> QED
  BY <1>14, <1>15, <1>16, <1>17 DEF Secure

LEMMA IdleParts ==
  ASSUME IInv, Secure, NEW s \in Session, Idle(s)
  PROVE  /\ Live(s) /\ tx = None /\ s \notin Unborn
         /\ Base(disk, Unborn) /\ Settled(disk, s, mine[s], shelf)
         /\ disk \in Disk /\ IndexSound
         /\ mem[s].doc \in Doc /\ mem[s].dirty \in BOOLEAN
         /\ mine \in [Session -> SUBSET Doc]
BY Parts, RestIsSure DEF Idle, Secure, StoreOK, OwedOK

LEMMA WidenedParts ==
  ASSUME IInv, NEW s \in Session
  PROVE  /\ Widened(s)[s] = More(mine[s], mem[s].doc)
         /\ \A t \in Session \ {s} : Widened(s)[t] = mine[t]
BY Parts DEF OwedOK, Widened, More

LEMMA AutosaveSecure ==
  ASSUME IInv, Secure, NEW s \in Session, Autosave(s)
  PROVE  Secure'
<1>1. PICK r \in Snapshots(s) : Begin(s, "autosave", None, r)
  BY DEF Autosave
<1>2. PICK stamp \in Stamp : r = TakeSnapshot(Draft(CurrentIndex), s, mem[s].doc, stamp)
  BY Parts, StampType DEF Snapshots, SnapshotPlan
<1>3. /\ Idle(s) /\ Usable /\ mem[s].dirty /\ disk' = disk /\ life' = life /\ mem' = mem
      /\ shelf' = shelf /\ mine' = Widened(s)
  BY DEF Autosave
<1>4. Ready(r) /\ r.plan \in Seq(Write)
  BY <1>3, SnapshotsSound, SoundIsReady DEF Ready
<1>5. /\ s \notin Unborn /\ Base(disk, Unborn) /\ Settled(disk, s, mine[s], shelf)
      /\ IndexSound /\ disk.index # Corrupt /\ mem[s].doc \in Doc /\ Live(s)
  BY <1>3, IdleParts DEF Usable
<1> DEFINE n == More(mine[s], mem[s].doc)
<1>6. /\ Course(disk, r.plan, r.img, Debts(shelf, n), Unborn)
      /\ r.ok => Settled(r.img, s, {mem[s].doc}, shelf)
      /\ ~r.ok => Settled(r.img, s, n, shelf)
  BY <1>2, <1>5, AutosaveKept
<1>7. r.img \in Disk
  BY <1>4, <1>6, CourseDisk
<1>8. mine'[s] = n /\ \A t \in Session \ {s} : mine'[t] = mine[t]
  BY <1>3, WidenedParts
<1> HIDE DEF n
<1>9. Ends(r.img, tx', n, shelf)
  BY <1>1, <1>6 DEF Begin, Ends
<1>10. OnlyDirty'
  BY <1>3, <1>5, <1>8 DEF OnlyDirty, Secure, Live
<1>11. \E e \in Disk : /\ Course(disk, r.plan, e, Debts(shelf', mine'[s]), Unborn)
                       /\ Ends(e, tx', mine'[s], shelf')
  BY <1>3, <1>6, <1>7, <1>8, <1>9
<1> QED
  BY <1>1, <1>3, <1>4, <1>5, <1>10, <1>11, BeginSecure DEF Operations

LEMMA ReplaceSecure ==
  ASSUME IInv, Secure, NEW s \in Session, Replace(s)
  PROVE  Secure'
<1>1. PICK t \in Snapshots(s) : Begin(s, "replace", None, SetAside(t))
  BY DEF Replace
<1>2. PICK stamp \in Stamp : t = TakeSnapshot(Draft(CurrentIndex), s, mem[s].doc, stamp)
  BY Parts, StampType DEF Snapshots, SnapshotPlan
<1> DEFINE r == SetAside(t)
           n == More(mine[s], mem[s].doc)
<1>3. /\ Idle(s) /\ Usable /\ mem[s].dirty /\ disk' = disk /\ life' = life /\ mem' = mem
      /\ shelf' = shelf /\ mine' = Widened(s)
  BY DEF Replace
<1>4. Ready(r) /\ r.plan \in Seq(Write)
  BY <1>3, SnapshotsSound, SetAsideSound, SoundIsReady DEF Ready
<1>5. /\ s \notin Unborn /\ Base(disk, Unborn) /\ Settled(disk, s, mine[s], shelf)
      /\ IndexSound /\ disk.index # Corrupt /\ mem[s].doc \in Doc /\ Live(s)
  BY <1>3, IdleParts DEF Usable
<1>6. /\ Course(disk, r.plan, r.img, Debts(shelf, n), Unborn)
      /\ r.ok => Settled(r.img, s, {}, shelf \union {{mem[s].doc}})
      /\ ~r.ok => Settled(r.img, s, n, shelf)
  BY <1>2, <1>5, ReplaceKept
<1> HIDE DEF r
<1>7. r.img \in Disk
  BY <1>4, <1>6, CourseDisk
<1>8. mine'[s] = n /\ \A u \in Session \ {s} : mine'[u] = mine[u]
  BY <1>3, WidenedParts
<1> HIDE DEF n
<1>9. Begin(s, "replace", None, r)
  BY <1>1 DEF r
<1>10. Ends(r.img, tx', n, shelf)
  BY <1>6, <1>9 DEF Begin, Ends
<1>11. OnlyDirty'
  BY <1>3, <1>5, <1>8 DEF OnlyDirty, Secure, Live
<1>12. \E e \in Disk : /\ Course(disk, r.plan, e, Debts(shelf', mine'[s]), Unborn)
                       /\ Ends(e, tx', mine'[s], shelf')
  BY <1>3, <1>6, <1>7, <1>8, <1>10
<1> QED
  BY <1>3, <1>4, <1>5, <1>9, <1>11, <1>12, BeginSecure DEF Operations

LEMMA RestoreSecure ==
  ASSUME IInv, Secure, NEW s \in Session, NEW c \in Id, Restore(s, c)
  PROVE  Secure'
<1>1. PICK stamp \in Stamp : Begin(s, "restore", c, RestorePlan(s, c, stamp))
  BY DEF Restore
<1> DEFINE r    == RestorePlan(s, c, stamp)
           doc  == mem[s].doc
           load == disk.cand[c].doc
           n    == IF mem[s].dirty THEN More(mine[s], doc) ELSE mine[s]
           later == {o \in shelf : load \notin o}
                      \union (IF mem[s].dirty THEN {{doc}} ELSE {})
<1>2. /\ Idle(s) /\ disk.index \notin {None, Corrupt} /\ disk' = disk /\ life' = life
      /\ mem' = mem /\ shelf' = shelf
      /\ mine' = IF mem[s].dirty THEN Widened(s) ELSE mine
      /\ load # Unreadable
  BY DEF Restore
<1>3. disk.index.carried[c] # Absent /\ disk.cand[c] # None /\ Apart(disk, c)
  BY DEF Restore, Shown, Listed, Apart, Named
<1>4. Ready(r) /\ r.plan \in Seq(Write)
  BY <1>2, <1>3, Parts, RestoreReady DEF StoreOK, Usable, Ready
<1>5. /\ s \notin Unborn /\ Base(disk, Unborn) /\ Settled(disk, s, mine[s], shelf)
      /\ IndexSound /\ mem[s].doc \in Doc /\ mem[s].dirty \in BOOLEAN /\ Live(s)
  BY <1>2, IdleParts
<1>6. /\ Course(disk, r.plan, r.img, Debts(shelf, n), Unborn)
      /\ r.ok => Settled(r.img, s, {load}, later)
      /\ ~r.ok => Settled(r.img, s, n, shelf)
  BY <1>2, <1>3, <1>5, RestoreKept
<1>7. /\ tx'.op = "restore" /\ tx'.who = s /\ tx'.ok = r.ok /\ tx'.load = load
      /\ tx'.doc = doc /\ tx'.dirty = mem[s].dirty
  BY <1>1 DEF Begin
<1>8. Begin(s, "restore", c, r)
  BY <1>1
<1> HIDE DEF r
<1>9. r.img \in Disk
  BY <1>4, <1>6, CourseDisk
<1>10. mine'[s] = n /\ \A t \in Session \ {s} : mine'[t] = mine[t]
  BY <1>2, WidenedParts
<1> HIDE DEF n
<1>11. Ends(r.img, tx', n, shelf)
  BY <1>6, <1>7 DEF Ends
<1>12. OnlyDirty'
  <2>1. ~mem[s].dirty => n = {}
    BY <1>5 DEF n, OnlyDirty, Secure
  <2> QED
    BY <1>2, <1>5, <1>10, <2>1 DEF OnlyDirty, Secure, Live
<1>13. \E e \in Disk : /\ Course(disk, r.plan, e, Debts(shelf', mine'[s]), Unborn)
                       /\ Ends(e, tx', mine'[s], shelf')
  BY <1>2, <1>6, <1>9, <1>10, <1>11
<1> HIDE DEF load, later, doc
<1> QED
  BY <1>2, <1>3, <1>4, <1>5, <1>8, <1>12, <1>13, BeginSecure DEF Operations, load

LEMMA DiscardCandidateSecure ==
  ASSUME IInv, Secure, NEW s \in Session, NEW c \in Id, DiscardCandidate(s, c)
  PROVE  Secure'
<1> DEFINE r    == DropCandidatePlan(c)
           lost == disk.cand[c].doc
           n    == IF ~r.ok THEN mine[s] ELSE IF lost \in mine[s] THEN {} ELSE mine[s]
           left == IF ~r.ok THEN shelf ELSE {o \in shelf : lost \notin o}
<1>1. /\ Idle(s) /\ disk.index \notin {None, Corrupt} /\ disk' = disk /\ life' = life
      /\ mem' = mem /\ Begin(s, "discard", c, r) /\ disk.cand[c] # None
  BY DEF DiscardCandidate, Listed
<1>2. Ready(r) /\ r.plan \in Seq(Write)
  BY <1>1, Parts, DropReady DEF Ready
<1>3. /\ s \notin Unborn /\ Base(disk, Unborn) /\ Settled(disk, s, mine[s], shelf)
      /\ IndexSound /\ Live(s) /\ mine \in [Session -> SUBSET Doc]
  BY <1>1, IdleParts
<1>4. PICK e \in Disk :
        Course(disk, r.plan, e, Debts(left, n), Unborn) /\ Settled(e, s, n, left)
  BY <1>1, <1>3, DropKept
<1>5. shelf' = left
  BY DEF DiscardCandidate
<1>6. mine'[s] = n /\ \A t \in Session : mine'[t] \in {mine[t], {}}
  BY <1>3 DEF DiscardCandidate, Without
<1> HIDE DEF r, n, left
<1>7. Ends(e, tx', n, left)
  BY <1>1, <1>4 DEF Begin, Ends
<1>8. OnlyDirty'
  BY <1>1, <1>6 DEF OnlyDirty, Secure, Live
<1>9. \E d \in Disk : /\ Course(disk, r.plan, d, Debts(shelf', mine'[s]), Unborn)
                      /\ Ends(d, tx', mine'[s], shelf')
  BY <1>4, <1>5, <1>6, <1>7
<1> QED
  BY <1>1, <1>2, <1>3, <1>8, <1>9, BeginSecure DEF Operations

LEMMA SaveSecure ==
  ASSUME IInv, Secure, NEW s \in Session, Save(s)
  PROVE  Secure'
<1> DEFINE r == DiscardPlan(s, TRUE)
<1>1. /\ Idle(s) /\ disk' = disk /\ life' = life /\ shelf' = shelf
      /\ Begin(s, "save", opened[s], r) /\ mem' = [mem EXCEPT ![s].dirty = FALSE]
      /\ mine' = [mine EXCEPT ![s] = {}]
  BY DEF Save
<1>2. Ready(r) /\ opened[s] \in Id \union {None}
  BY Parts, DiscardReady DEF StoreOK
<1>3. /\ s \notin Unborn /\ Base(disk, Unborn) /\ Settled(disk, s, mine[s], shelf)
      /\ IndexSound /\ Live(s) /\ mine \in [Session -> SUBSET Doc]
  BY <1>1, IdleParts
<1>4. Settled(disk, s, {}, shelf)
  BY <1>3, SettledLess
<1>5. PICK e \in Disk : Course(disk, r.plan, e, shelf, Unborn) /\ Settled(e, s, {}, shelf)
  <2>1. TRUE \in BOOLEAN
    OBVIOUS
  <2> QED
    BY <1>3, <1>4, <2>1, DiscardKept
<1> HIDE DEF r
<1>6. mine'[s] = {} /\ \A t \in Session \ {s} : mine'[t] = mine[t]
  BY <1>1, <1>3
<1>7. Ends(e, tx', {}, shelf)
  BY <1>1, <1>5 DEF Begin, Ends
<1>8. \A t \in Session \ {s} : mem'[t] = mem[t]
  BY <1>1, Parts DEF StoreOK
<1>9. OnlyDirty'
  BY <1>1, <1>6, <1>8 DEF OnlyDirty, Secure, Live
<1>10. \E d \in Disk : /\ Course(disk, r.plan, d, Debts(shelf', mine'[s]), Unborn)
                       /\ Ends(d, tx', mine'[s], shelf')
  BY <1>1, <1>5, <1>6, <1>7, NothingOwed
<1> QED
  BY <1>1, <1>2, <1>3, <1>9, <1>10, BeginSecure DEF Operations

LEMMA ExitSecure ==
  ASSUME IInv, Secure, NEW s \in Session, Exit(s), ~mem[s].dirty
  PROVE  Secure'
<1> DEFINE r == DiscardPlan(s, FALSE)
<1>1. /\ Idle(s) /\ disk' = disk /\ life' = life /\ shelf' = shelf /\ mem' = mem
      /\ Begin(s, "exit", None, r) /\ mine' = mine
  BY DEF Exit
<1>2. Ready(r)
  BY Parts, DiscardReady
<1>3. /\ s \notin Unborn /\ Base(disk, Unborn) /\ Settled(disk, s, mine[s], shelf)
      /\ IndexSound /\ Live(s)
  BY <1>1, IdleParts
<1>4. mine[s] = {}
  BY <1>1 DEF Secure, OnlyDirty
<1>5. PICK e \in Disk : Course(disk, r.plan, e, shelf, Unborn) /\ Settled(e, s, {}, shelf)
  <2>1. FALSE \in BOOLEAN /\ Settled(disk, s, {}, shelf)
    BY <1>3, <1>4
  <2> QED
    BY <1>3, <2>1, DiscardKept
<1> HIDE DEF r
<1>6. Ends(e, tx', {}, shelf)
  BY <1>1, <1>5 DEF Begin, Ends
<1>7. OnlyDirty'
  BY <1>1 DEF OnlyDirty, Secure, Live
<1>8. \E d \in Disk : /\ Course(disk, r.plan, d, Debts(shelf', mine'[s]), Unborn)
                      /\ Ends(d, tx', mine'[s], shelf')
  BY <1>1, <1>4, <1>5, <1>6, NothingOwed
<1> QED
  BY <1>1, <1>2, <1>3, <1>7, <1>8, BeginSecure DEF Operations

LEMMA ChangeSecure ==
  ASSUME IInv, Secure, NEW s \in Session, Change(s)
  PROVE  Secure'
<1>1. /\ disk' = disk /\ tx' = tx /\ life' = life /\ mine' = mine /\ shelf' = shelf
      /\ Live(s) /\ mem'[s].dirty /\ \A t \in Session \ {s} : mem'[t] = mem[t]
  <2>1. mem \in [Session -> [doc : Doc, dirty : BOOLEAN]]
    BY Parts DEF StoreOK
  <2> QED
    BY <2>1 DEF Change
<1>2. Unborn' = Unborn /\ AtMostOne' /\ \A t : Live(t)' <=> Live(t)
  BY <1>1 DEF Unborn, Live, AtMostOne, Secure
<1>3. OnlyDirty'
  BY <1>1, <1>2 DEF OnlyDirty, Secure
<1>4. AtRest'
  BY <1>1, <1>2 DEF AtRest, Secure
<1>5. UnderWay'
  <2>1. tx # None => tx.who \in Session
    BY Parts DEF TxOK, Transaction
  <2> QED
    BY <1>1, <1>2, <2>1 DEF UnderWay, Secure
<1> QED
  BY <1>2, <1>3, <1>4, <1>5 DEF Secure

LEMMA ReplaceSavedSecure ==
  ASSUME IInv, Secure, NEW s \in Session, ReplaceSaved(s)
  PROVE  Secure'
<1>1. /\ disk' = disk /\ tx' = tx /\ life' = life /\ mine' = mine /\ shelf' = shelf
      /\ Live(s) /\ ~mem[s].dirty /\ (tx # None => tx.who # s)
      /\ \A t \in Session \ {s} : mem'[t] = mem[t]
  <2>1. mem \in [Session -> [doc : Doc, dirty : BOOLEAN]]
    BY Parts DEF StoreOK
  <2> QED
    BY <2>1 DEF ReplaceSaved, Quiet
<1>2. Unborn' = Unborn /\ AtMostOne' /\ \A t : Live(t)' <=> Live(t)
  BY <1>1 DEF Unborn, Live, AtMostOne, Secure
<1>3. OnlyDirty'
  BY <1>1, <1>2 DEF OnlyDirty, Secure
<1>4. AtRest'
  BY <1>1, <1>2 DEF AtRest, Secure
<1>5. UnderWay'
  <2>1. tx # None => tx.who \in Session
    BY Parts DEF TxOK, Transaction
  <2> QED
    BY <1>1, <1>2, <2>1 DEF UnderWay, Secure
<1> QED
  BY <1>2, <1>3, <1>4, <1>5 DEF Secure

(* The process is gone; nobody runs.                                       *)
LEMMA GoneSecure ==
  ASSUME IInv, Secure, NEW s \in Session, Live(s), Gone(s), disk' = disk, tx' = None,
         Sure(disk, Debts(shelf, mine[s]), Unborn)
  PROVE  Secure'
<1>1. /\ life \in [Session -> {"new", "up", "down"}] /\ mine \in [Session -> SUBSET Doc]
      /\ life' = [life EXCEPT ![s] = "down"] /\ mine' = [mine EXCEPT ![s] = {}]
  BY Parts DEF StoreOK, OwedOK, Gone
<1>2. \A t \in Session : ~Live(t)'
  BY <1>1 DEF Live, Secure, AtMostOne
<1>3. Unborn' = Unborn
  BY <1>1 DEF Unborn, Live
<1>4. AtMostOne'
  BY <1>2 DEF AtMostOne
<1>5. OnlyDirty'
  <2>1. \A t \in Session \ {s} : mine[t] = {}
    BY DEF Secure, AtMostOne, OnlyDirty
  <2> QED
    BY <1>1, <2>1 DEF OnlyDirty
<1>6. shelf' = Debts(shelf, mine[s])
  BY DEF Gone, Shelved, Debts
<1>7. AtRest'
  BY <1>2, <1>3, <1>6 DEF AtRest
<1>8. UnderWay'
  BY DEF UnderWay
<1> QED
  BY <1>4, <1>5, <1>7, <1>8 DEF Secure

LEMMA CrashSecure ==
  ASSUME IInv, Secure, NEW s \in Session, Crash(s)
  PROVE  Secure'
<1>1. Live(s) /\ Gone(s) /\ disk' = disk /\ tx' = IF tx # None /\ tx.who = s THEN None ELSE tx
  BY DEF Crash
<1>2. CASE tx = None
  BY <1>1, <1>2, RestIsSure, GoneSecure DEF Secure
<1>3. CASE tx # None
  <2>1. tx \in Transaction /\ tx.who \in Session /\ tx.plan \in Seq(Write)
    BY <1>3, Parts DEF TxOK, Transaction
  <2>2. tx.who = s
    BY <1>1, <1>3, <2>1 DEF Secure, UnderWay, AtMostOne
  <2>3. PICK e \in Disk : Course(disk, tx.plan, e, Debts(shelf, mine[s]), Unborn)
    BY <1>3, <2>2 DEF Secure, UnderWay
  <2>4. Sure(disk, Debts(shelf, mine[s]), Unborn)
    BY <2>1, <2>3, CourseEnds
  <2> QED
    BY <1>1, <1>3, <2>2, <2>4, GoneSecure
<1> QED
  BY <1>2, <1>3

LEMMA LeaveSecure ==
  ASSUME IInv, Secure, NEW s \in Session, Leave(s)
  PROVE  Secure'
<1>1. Live(s) /\ Gone(s) /\ disk' = disk /\ tx' = tx /\ (tx # None => tx.who # s)
  BY DEF Leave, Quiet
<1>2. tx = None
  <2>1. tx # None => tx.who \in Session
    BY Parts DEF TxOK, Transaction
  <2> QED
    BY <1>1, <2>1 DEF Secure, UnderWay, AtMostOne
<1> QED
  BY <1>1, <1>2, RestIsSure, GoneSecure DEF Secure

LEMMA WriteFileSecure ==
  ASSUME IInv, Secure, WriteFile
  PROVE  Secure'
<1> DEFINE p == tx.plan
           O == Debts(shelf, mine[tx.who])
<1>1. tx \in Transaction /\ tx # None /\ p \in Seq(Write) /\ p # << >> /\ tx.who \in Session
  BY Parts DEF WriteFile, TxOK, Transaction
<1>2. Head(p) = p[1] /\ Tail(p) \in Seq(Write)
  BY <1>1, TailFacts
<1>3. /\ disk' = Apply(disk, p[1]) /\ tx' = [tx EXCEPT !.plan = Tail(p)]
      /\ life' = life /\ mem' = mem /\ mine' = mine /\ shelf' = shelf
  BY <1>2 DEF WriteFile
<1>4. /\ tx' \in Transaction /\ tx'.plan = Tail(p) /\ tx'.who = tx.who /\ tx'.ok = tx.ok
      /\ tx'.op = tx.op /\ tx'.doc = tx.doc /\ tx'.load = tx.load /\ tx'.dirty = tx.dirty
  BY <1>1, <1>2, <1>3 DEF Transaction
<1>5. PICK e \in Disk : Course(disk, p, e, O, Unborn) /\ Ends(e, tx, mine[tx.who], shelf)
  BY <1>1 DEF Secure, UnderWay
<1>6. Course(Apply(disk, p[1]), Tail(p), e, O, Unborn)
  BY <1>1, <1>5, CourseTail
<1>7. Ends(e, tx', mine[tx.who], shelf)
  BY <1>4, <1>5, EndsParts
<1>8. Unborn' = Unborn /\ AtMostOne' /\ OnlyDirty' /\ \A t : Live(t)' <=> Live(t)
  BY <1>3 DEF Unborn, Live, AtMostOne, OnlyDirty, Secure
<1>9. AtRest'
  BY <1>4, TransactionAssumption DEF AtRest
<1>10. Live(tx.who) /\ (tx.op = "autosave" => mem[tx.who].dirty)
  BY <1>1 DEF Secure, UnderWay
<1>11. UnderWay'
  BY <1>3, <1>4, <1>6, <1>7, <1>8, <1>10 DEF UnderWay
<1> QED
  BY <1>8, <1>9, <1>11 DEF Secure

(* The operation of the only process returns.                              *)
LEMMA ReturnSecure ==
  ASSUME Secure, NEW s \in Session, Live(s), life' = life, disk' = disk, tx' = None,
         OnlyDirty', Sure(disk, shelf, Unborn), Settled(disk, s, mine'[s], shelf')
  PROVE  Secure'
<1>1. Unborn' = Unborn /\ AtMostOne' /\ \A t : Live(t)' <=> Live(t)
  BY DEF Unborn, Live, AtMostOne, Secure
<1>2. Base(disk, Unborn)
  BY DEF Base, Sure
<1>3. \A t \in Session : Live(t) => t = s
  BY DEF Secure, AtMostOne
<1>4. AtRest'
  BY <1>1, <1>2, <1>3 DEF AtRest
<1>5. UnderWay'
  BY DEF UnderWay
<1> QED
  BY <1>1, <1>4, <1>5 DEF Secure

LEMMA FinishSecure ==
  ASSUME IInv, Secure, Finish
  PROVE  Secure'
<1>0. PICK s \in Session : s = tx.who
  BY Parts DEF Finish, TxOK, Transaction
<1>1. /\ tx \in Transaction /\ tx # None /\ tx.plan = << >>
      /\ tx.op \in Operations /\ tx.ok \in BOOLEAN
  BY Parts DEF Finish, TxOK, Transaction
<1>2. disk' = disk /\ tx' = None
  BY DEF Finish
<1>3. PICK e \in Disk : /\ Course(disk, tx.plan, e, Debts(shelf, mine[s]), Unborn)
                        /\ Ends(e, tx, mine[s], shelf)
  BY <1>0, <1>1 DEF Secure, UnderWay
<1>4. Sure(disk, Debts(shelf, mine[s]), Unborn) /\ e = disk
  <2>1. tx.plan \in Seq(Write)
    BY <1>0, <1>1 DEF Transaction
  <2>2. Sure(disk, Debts(shelf, mine[s]), Unborn) /\ (tx.plan = << >> => e = disk)
    BY <1>0, <1>3, <2>1, CourseEnds
  <2> QED
    BY <1>0, <1>1, <2>2
<1>5. Sure(disk, shelf, Unborn) /\ Ends(disk, tx, mine[s], shelf)
  BY <1>3, <1>4 DEF Sure, Debts
<1>6. Live(s) /\ (tx.op = "autosave" => mem[s].dirty)
  BY <1>0, <1>1 DEF Secure, UnderWay
<1>7. \A t \in Session \ {s} : ~Live(t) /\ mine[t] = {}
  BY <1>0, <1>1, <1>6 DEF Secure, AtMostOne, OnlyDirty
<1>8. mine \in [Session -> SUBSET Doc] /\ mem \in [Session -> [doc : Doc, dirty : BOOLEAN]]
  BY Parts DEF OwedOK, StoreOK
<1>9. \/ FinishAutosave(s) \/ FinishReplace(s) \/ FinishRestore(s)
      \/ FinishSave(s) \/ FinishExit(s) \/ FinishOther(s)
  BY <1>0 DEF Finish
<1>10. ASSUME life' = life, \A t \in Session \ {s} : mine'[t] = {},
              ~mem'[s].dirty => mine'[s] = {}, Settled(disk, s, mine'[s], shelf')
       PROVE  Secure'
  <2>1. (Live(s)' /\ mem'[s].dirty) \/ mine'[s] = {}
    BY <1>0, <1>6, <1>10 DEF Live
  <2>2. OnlyDirty'
    BY <1>0, <1>10, <2>1 DEF OnlyDirty
  <2> QED
    BY <1>0, <1>1, <1>2, <1>5, <1>6, <1>10, <2>2, ReturnSecure
<1>11. CASE FinishAutosave(s)
  <2>1. /\ life' = life /\ mine' = [mine EXCEPT ![s] = {tx.doc}] /\ mem' = mem /\ shelf' = shelf
        /\ tx.op = "autosave" /\ tx.ok
    BY <1>0, <1>11 DEF FinishAutosave
  <2>2. Settled(disk, s, {tx.doc}, shelf)
    BY <1>0, <1>5, <2>1 DEF Ends
  <2>3. mine'[s] = {tx.doc} /\ \A t \in Session \ {s} : mine'[t] = {}
    BY <1>0, <1>1, <1>7, <1>8, <2>1
  <2> QED
    BY <1>0, <1>6, <1>10, <2>1, <2>2, <2>3
<1>12. CASE FinishReplace(s)
  <2>1. /\ life' = life /\ mine' = [mine EXCEPT ![s] = {}] /\ shelf' = shelf \union {{tx.doc}}
        /\ tx.op = "replace" /\ tx.ok
    BY <1>0, <1>12 DEF FinishReplace
  <2>2. Settled(disk, s, {}, shelf')
    BY <1>0, <1>5, <2>1 DEF Ends
  <2>3. mine'[s] = {} /\ \A t \in Session \ {s} : mine'[t] = {}
    BY <1>0, <1>1, <1>7, <1>8, <2>1
  <2> QED
    BY <1>0, <1>10, <2>1, <2>2, <2>3
<1>13. CASE FinishRestore(s)
  <2>1. /\ life' = life /\ mine' = [Without(mine, tx.load) EXCEPT ![s] = {tx.load}]
        /\ mem' = [mem EXCEPT ![s] = [doc |-> tx.load, dirty |-> TRUE]]
        /\ shelf' = {o \in shelf : tx.load \notin o}
                      \union (IF tx.dirty THEN {{tx.doc}} ELSE {})
        /\ tx.op = "restore" /\ tx.ok
    BY <1>0, <1>13 DEF FinishRestore
  <2>2. Settled(disk, s, {tx.load}, shelf')
    BY <1>0, <1>5, <2>1 DEF Ends
  <2>3. mine'[s] = {tx.load} /\ \A t \in Session \ {s} : mine'[t] = {}
    BY <1>0, <1>1, <1>7, <2>1 DEF Without
  <2>4. mem'[s].dirty
    BY <1>0, <1>1, <1>8, <2>1
  <2> QED
    BY <1>0, <1>10, <2>1, <2>2, <2>3, <2>4
<1>14. CASE FinishSave(s) \/ FinishOther(s)
  <2>1. /\ life' = life /\ mine' = mine /\ mem' = mem /\ shelf' = shelf
        /\ ~tx.ok \/ tx.op \in {"start", "discard", "save", "exit"}
    BY <1>0, <1>14 DEF FinishSave, FinishOther
  <2>2. Settled(disk, s, mine[s], shelf)
    BY <1>0, <1>5, <2>1 DEF Ends
  <2>3. ~mem[s].dirty => mine[s] = {}
    BY <1>0, <1>1 DEF Secure, OnlyDirty
  <2> QED
    BY <1>0, <1>7, <1>10, <2>1, <2>2, <2>3
<1>15. CASE FinishExit(s)
  <2>1. Gone(s)
    BY <1>0, <1>15 DEF FinishExit
  <2> QED
    BY <1>0, <1>1, <1>2, <1>4, <1>6, <2>1, GoneSecure
<1> QED
  BY <1>0, <1>9, <1>11, <1>12, <1>13, <1>14, <1>15

-----------------------------------------------------------------------------
(* A file is damaged between two operations.  The index: nobody's slot is  *)
(* known any more, but each work is found where it was.                    *)
LEMMA IndexLost ==
  ASSUME NEW N, NEW d, Base(d, N), NEW e \in Disk, d.index \notin {None, Corrupt},
         e.index = Corrupt, e.active = d.active, e.cand = d.cand
  PROVE  /\ Base(e, N)
         /\ \A s, m, sh : Settled(d, s, m, sh) => Settled(e, s, m, sh)
         /\ \A O : Sure(d, O, N) => Sure(e, O, N)
<1>1. ~Named(e) /\ Base(e, N)
  BY DEF Named, Base, Tied
<1>2. LinkOf(e) \in {None, LinkOf(d)}
  BY <1>1 DEF LinkOf, Base, Tied
<1>3. ASSUME NEW o, NEW c \in Id, Holds(d, c, o), c # LinkOf(d) PROVE Rests(e, o)
  BY <1>2, <1>3, NoIdNone DEF Holds, Rests
<1>4. ASSUME NEW o, Kept(d, o) PROVE Kept(e, o)
  <2>1. CASE InSlot(d, o)
    BY <2>1 DEF InSlot, Kept
  <2>2. CASE Rests(d, o)
    <3>1. PICK c \in Id : Holds(d, c, o) /\ (c # LinkOf(d) \/ d.cand[c].doc = d.active.doc)
      BY <2>2 DEF Rests
    <3> QED
      BY <1>3, <3>1 DEF Kept, Rests, Holds
  <2> QED
    BY <1>4, <2>1, <2>2 DEF Kept
<1>5. ASSUME NEW s, NEW m, NEW sh, Settled(d, s, m, sh) PROVE Settled(e, s, m, sh)
  <2>1. ~Own(e, s)
    BY <1>1 DEF Own
  <2>2. ASSUME NEW o \in sh PROVE Kept(e, o)
    BY <1>3, <1>4, <1>5 DEF Settled, Beside, Kept
  <2>3. m # {} => InSlot(e, m)
    BY <1>5 DEF Settled, InSlot
  <2> QED
    BY <1>1, <2>1, <2>2, <2>3 DEF Settled
<1>6. ASSUME NEW O, Sure(d, O, N) PROVE Sure(e, O, N)
  BY <1>1, <1>4, <1>6 DEF Sure, Base, Stands, Unimported
<1> QED
  BY <1>1, <1>5, <1>6

(* The active payload: what it held is owed no more, and no other work     *)
(* leaned on it.                                                           *)
LEMMA SlotLost ==
  ASSUME NEW N, NEW d, Base(d, N), NEW e \in Disk, d.active # None, e.active # None,
         e.active.doc = Unreadable, e.active.source = None,
         e.index = d.index, e.cand = d.cand
  PROVE  /\ Base(e, N)
         /\ \A s, m, n, sh : Settled(d, s, m, sh) /\ (n = {} \/ (n = m /\ d.active.doc \notin n))
              => Settled(e, s, n, {o \in sh : d.active.doc \notin o})
         /\ \A O : Sure(d, O, N) => Sure(e, {o \in O : d.active.doc \notin o}, N)
<1>1. Named(e) <=> Named(d)
  BY DEF Named
<1>2. Base(e, N)
  BY <1>1 DEF Base, Tied
<1>3. LinkOf(e) \in {None, LinkOf(d)}
  BY <1>1 DEF LinkOf
<1>4. ASSUME NEW o, Beside(d, o) PROVE Beside(e, o)
  BY <1>3, <1>4, NoIdNone DEF Beside, Holds
<1>5. ASSUME NEW o, Kept(d, o), d.active.doc \notin o PROVE Beside(e, o) /\ Kept(e, o)
  <2>1. Beside(d, o)
    BY <1>5 DEF Kept, InSlot, Rests, Beside, Holds
  <2>2. Beside(e, o)
    BY <1>4, <2>1
  <2> QED
    BY <2>2 DEF Beside, Kept, Rests
<1>6. ASSUME NEW s, NEW m, NEW n, NEW sh, Settled(d, s, m, sh),
             n = {} \/ (n = m /\ d.active.doc \notin n)
      PROVE  Settled(e, s, n, {o \in sh : d.active.doc \notin o})
  <2>1. Own(e, s) <=> Own(d, s)
    BY <1>1 DEF Own
  <2>2. CASE Own(d, s)
    <3>1. \A o \in sh : Beside(e, o)
      BY <1>4, <1>6, <2>2 DEF Settled
    <3>2. n = {}
      BY <1>6, <2>2 DEF Settled
    <3> QED
      BY <2>1, <2>2, <3>1, <3>2 DEF Settled
  <2>3. CASE ~Own(d, s)
    <3>1. \A o \in sh : d.active.doc \notin o => Kept(e, o)
      BY <1>5, <1>6, <2>3 DEF Settled
    <3>2. n = {}
      BY <1>6, <2>3 DEF Settled, InSlot
    <3>3. Named(d) => ~Returns(e)
      BY <1>6, <2>3 DEF Settled, Returns
    <3> QED
      BY <1>1, <2>1, <2>3, <3>1, <3>2, <3>3 DEF Settled
  <2> QED
    BY <2>2, <2>3
<1>7. ASSUME NEW O, Sure(d, O, N) PROVE Sure(e, {o \in O : d.active.doc \notin o}, N)
  <2>1. \A o \in O : Kept(d, o)
    BY <1>7 DEF Sure, Stands, Unimported
  <2> QED
    BY <1>2, <1>5, <2>1 DEF Sure, Base, Stands
<1> QED
  BY <1>2, <1>6, <1>7

(* A candidate: the others, and the slot, are as they were.                *)
LEMMA CandidateLost ==
  ASSUME NEW N, NEW d, Base(d, N), NEW e \in Disk, NEW c \in Id, d.cand[c] # None,
         e.cand[c] # None, e.cand[c].doc = Unreadable,
         \A i \in Id \ {c} : e.cand[i] = d.cand[i],
         e.index = d.index, e.active = d.active
  PROVE  /\ Base(e, N)
         /\ \A s, m, n, sh : Settled(d, s, m, sh) /\ (n = {} \/ (n = m /\ d.cand[c].doc \notin n))
              => Settled(e, s, n, {o \in sh : d.cand[c].doc \notin o})
         /\ \A O : Sure(d, O, N) => Sure(e, {o \in O : d.cand[c].doc \notin o}, N)
<1>1. /\ Named(e) <=> Named(d)
      /\ LinkOf(e) = LinkOf(d)
      /\ Tied(e, N) <=> Tied(d, N)
      /\ \A o : InSlot(e, o) <=> InSlot(d, o)
      /\ \A s : Own(e, s) <=> Own(d, s)
  BY SameLink
<1>2. Base(e, N)
  <2>1. MaxId \in Id
    BY BoundsAssumption DEF Id
  <2> QED
    BY <1>1, <2>1 DEF Base
<1>3. ASSUME NEW o, d.cand[c].doc \notin o, NEW i \in Id, Holds(d, i, o)
      PROVE  Holds(e, i, o) /\ e.cand[i] = d.cand[i]
  BY <1>3 DEF Holds
<1>4. ASSUME NEW o, d.cand[c].doc \notin o
      PROVE  (Beside(d, o) => Beside(e, o)) /\ (Kept(d, o) => Kept(e, o))
  <2>1. Beside(d, o) => Beside(e, o)
    BY <1>1, <1>3, <1>4 DEF Beside
  <2>2. Rests(d, o) => Rests(e, o)
    BY <1>1, <1>3, <1>4 DEF Rests
  <2> QED
    BY <1>1, <2>1, <2>2 DEF Kept
<1>5. Named(d) /\ Returns(e) => Returns(d)
  <2> DEFINE q == d.index.active.source
  <2>1. ASSUME Named(d), Returns(e) PROVE Returns(d)
    <3>1. q \in Id
      BY <2>1 DEF Named, Returns, Base, Disk, Index, Active
    <3>2. q # c
      BY <2>1 DEF Returns
    <3> QED
      BY <2>1, <3>1, <3>2 DEF Returns
  <2> QED
    BY <2>1
<1>6. ASSUME NEW s, NEW m, NEW n, NEW sh, Settled(d, s, m, sh),
             n = {} \/ (n = m /\ d.cand[c].doc \notin n)
      PROVE  Settled(e, s, n, {o \in sh : d.cand[c].doc \notin o})
  <2>1. CASE Own(d, s)
    <3>1. \A o \in sh : d.cand[c].doc \notin o => Beside(e, o)
      BY <1>4, <1>6, <2>1 DEF Settled
    <3> QED
      BY <1>1, <1>6, <2>1, <3>1 DEF Settled
  <2>2. CASE ~Own(d, s)
    <3>1. \A o \in sh : d.cand[c].doc \notin o => Kept(e, o)
      BY <1>4, <1>6, <2>2 DEF Settled
    <3> QED
      BY <1>1, <1>5, <1>6, <2>2, <3>1 DEF Settled
  <2> QED
    BY <2>1, <2>2
<1>7. ASSUME NEW O, Sure(d, O, N) PROVE Sure(e, {o \in O : d.cand[c].doc \notin o}, N)
  <2>1. \A o \in O : Kept(d, o)
    BY <1>7 DEF Sure, Stands, Unimported
  <2> QED
    BY <1>2, <1>4, <2>1 DEF Sure, Base, Stands
<1> QED
  BY <1>2, <1>6, <1>7

LEMMA DamageSecure ==
  ASSUME IInv, Secure, Damage
  PROVE  Secure'
<1>1. /\ tx = None /\ tx' = None /\ life' = life /\ mem' = mem
  BY DEF Damage
<1>2. Unborn' = Unborn /\ AtMostOne' /\ \A t : Live(t)' <=> Live(t)
  BY <1>1 DEF Unborn, Live, AtMostOne, Secure
<1>3. Base(disk, Unborn)
  BY <1>1 DEF Secure, AtRest, Sure, Base
<1>4. disk \in Disk /\ disk' \in Disk /\ mine \in [Session -> SUBSET Doc]
  BY DamageOK, Parts, PartsPrimed DEF OwedOK
<1>5. \A p \in Payload : Damaged(p) \in Payload /\ Damaged(p) # None
                         /\ Damaged(p).doc = Unreadable /\ Damaged(p).source = None
  <2>1. ASSUME NEW p \in Payload
        PROVE  Damaged(p) \in Payload /\ Damaged(p).doc = Unreadable /\ Damaged(p).source = None
    BY DEF Damaged, Payload, Work
  <2> QED
    BY <2>1, NoIdNone
(* In each case the disk supports what is left of the obligations.         *)
<1> DEFINE Less(m, n) == m = n \/ n = {}
<1>6. ASSUME Base(disk', Unborn),
             \A t \in Session : Less(mine[t], mine'[t]),
             \A s \in Session : Settled(disk, s, mine[s], shelf)
                                => Settled(disk', s, mine'[s], shelf'),
             Sure(disk, shelf, Unborn) => Sure(disk', shelf', Unborn)
      PROVE  Secure'
  <2>1. OnlyDirty'
    BY <1>1, <1>2, <1>6 DEF OnlyDirty, Secure
  <2>2. AtRest'
    BY <1>1, <1>2, <1>6 DEF AtRest, Secure
  <2>3. UnderWay'
    BY <1>1 DEF UnderWay
  <2> QED
    BY <1>2, <2>1, <2>2, <2>3 DEF Secure
<1>7. ASSUME NEW doc,
             mine' = Without(mine, doc), shelf' = {o \in shelf : doc \notin o},
             Base(disk', Unborn),
             \A s, m, n, sh : Settled(disk, s, m, sh) /\ (n = {} \/ (n = m /\ doc \notin n))
               => Settled(disk', s, n, {o \in sh : doc \notin o}),
             \A O : Sure(disk, O, Unborn) => Sure(disk', {o \in O : doc \notin o}, Unborn)
      PROVE  Secure'
  <2>1. ASSUME NEW t \in Session
        PROVE  mine'[t] = {} \/ (mine'[t] = mine[t] /\ doc \notin mine'[t])
    BY <1>7, <2>1 DEF Without
  <2>2. ASSUME NEW t \in Session, Settled(disk, t, mine[t], shelf)
        PROVE  Settled(disk', t, mine'[t], shelf')
    BY <1>7, <2>1, <2>2
  <2>3. Sure(disk, shelf, Unborn) => Sure(disk', shelf', Unborn)
    BY <1>7
  <2> QED
    BY <1>6, <1>7, <2>1, <2>2, <2>3
<1>8. ASSUME disk.index \notin {None, Corrupt}, disk' = [disk EXCEPT !.index = Corrupt],
             mine' = mine, shelf' = shelf
      PROVE  Secure'
  <2>1. disk'.index = Corrupt /\ disk'.active = disk.active /\ disk'.cand = disk.cand
    BY <1>4, <1>8 DEF Disk
  <2> QED
    BY <1>3, <1>4, <1>6, <1>8, <2>1, IndexLost
<1>9. ASSUME disk.active # None, disk' = [disk EXCEPT !.active = Damaged(@)],
             mine' = Without(mine, disk.active.doc),
             shelf' = {o \in shelf : disk.active.doc \notin o}
      PROVE  Secure'
  <2>1. /\ disk'.index = disk.index /\ disk'.cand = disk.cand
        /\ disk'.active = Damaged(disk.active) /\ disk.active \in Payload
    BY <1>4, <1>9 DEF Disk
  <2>2. /\ disk'.active # None /\ disk'.active.doc = Unreadable
        /\ disk'.active.source = None
    BY <1>5, <2>1
  <2>3. PICK doc : doc = disk.active.doc
    OBVIOUS
  <2> QED
    BY <1>3, <1>4, <1>7, <1>9, <2>1, <2>2, <2>3, SlotLost
<1>10. ASSUME NEW c \in Id, disk.cand[c] # None,
              disk' = [disk EXCEPT !.cand[c] = Damaged(@)],
              mine' = Without(mine, disk.cand[c].doc),
              shelf' = {o \in shelf : disk.cand[c].doc \notin o}
       PROVE  Secure'
  <2>1. /\ disk'.index = disk.index /\ disk'.active = disk.active
        /\ disk'.cand[c] = Damaged(disk.cand[c]) /\ disk.cand[c] \in Payload
        /\ \A i \in Id \ {c} : disk'.cand[i] = disk.cand[i]
    BY <1>4, <1>10 DEF Disk
  <2>2. disk'.cand[c] # None /\ disk'.cand[c].doc = Unreadable
    BY <1>5, <2>1
  <2>3. PICK doc : doc = disk.cand[c].doc
    OBVIOUS
  <2>4. /\ Base(disk', Unborn)
        /\ \A s, m, n, sh :
             Settled(disk, s, m, sh) /\ (n = {} \/ (n = m /\ disk.cand[c].doc \notin n))
             => Settled(disk', s, n, {o \in sh : disk.cand[c].doc \notin o})
        /\ \A O : Sure(disk, O, Unborn)
                   => Sure(disk', {o \in O : disk.cand[c].doc \notin o}, Unborn)
    <3> HIDE DEF Less
    <3> QED
      BY <1>3, <1>4, <1>10, <2>1, <2>2, CandidateLost
  <2>5. mine' = Without(mine, doc) /\ shelf' = {o \in shelf : doc \notin o}
    BY <1>10, <2>3
  <2> QED
    BY <1>7, <2>3, <2>4, <2>5
<1> QED
  BY <1>8, <1>9, <1>10 DEF Damage

-----------------------------------------------------------------------------
(* While no change has come late, a process that waits to leave has nothing *)
(* unsaved, and no restore that would make it so.                          *)
NoneLate == spent.late = 0

ClosingClean ==
  /\ \A s \in closing : ~mem[s].dirty
  /\ tx # None /\ tx.op = "restore" => tx.who \notin closing

(* An operation begins, and the store and the closing processes stay.      *)
LEMMA BeginClean ==
  ASSUME ClosingClean, NEW s, NEW op, NEW c, NEW r, Begin(s, op, c, r),
         \A t \in closing' : t \in closing /\ ~mem'[t].dirty,
         op = "restore" => s \notin closing'
  PROVE  ClosingClean'
<1>1. tx'.op = op /\ tx'.who = s
  BY DEF Begin
<1> QED
  BY <1>1 DEF ClosingClean

LEMMA GoneClean ==
  ASSUME IInv, ClosingClean, NEW s, Gone(s), tx' \in {tx, None}
  PROVE  ClosingClean'
<1>1. mem \in [Session -> [doc : Doc, dirty : BOOLEAN]] /\ closing \subseteq Session
  BY Parts DEF StoreOK
<1>2. closing' = closing \ {s} /\ mem' = [mem EXCEPT ![s] = Blank]
  BY DEF Gone
<1> QED
  BY <1>1, <1>2 DEF ClosingClean

LEMMA FinishClean ==
  ASSUME IInv, ClosingClean, Finish
  PROVE  ClosingClean'
<1> DEFINE s == tx.who
<1>1. tx # None /\ tx' = None
  BY DEF Finish
<1>2. mem \in [Session -> [doc : Doc, dirty : BOOLEAN]] /\ closing \subseteq Session
  BY Parts DEF StoreOK
<1>3. CASE FinishReplace(s)
  BY <1>1, <1>2, <1>3 DEF FinishReplace, ClosingClean, Blank
<1>4. CASE FinishRestore(s)
  BY <1>1, <1>2, <1>4 DEF FinishRestore, ClosingClean
<1>5. CASE FinishExit(s)
  BY <1>1, <1>5, GoneClean DEF FinishExit
<1>6. CASE FinishAutosave(s) \/ FinishSave(s) \/ FinishOther(s)
  BY <1>1, <1>6 DEF FinishAutosave, FinishSave, FinishOther, ClosingClean
<1> QED
  BY <1>3, <1>4, <1>5, <1>6 DEF Finish

LEMMA InitClean ==
  ASSUME Init
  PROVE  NoneLate /\ ClosingClean
BY DEF Init, NoneLate, NothingSpent, ClosingClean

LEMMA StepClean ==
  ASSUME IInv, NoneLate => ClosingClean, [Next]_vars
  PROVE  NoneLate' => ClosingClean'
<1>1. spent \in Spending /\ mem \in [Session -> [doc : Doc, dirty : BOOLEAN]]
      /\ closing \subseteq Session
  BY Parts DEF SpentOK, StoreOK
<1>2. ASSUME NEW s \in Session, Change(s) PROVE NoneLate' => ClosingClean'
  <2>1. CASE s \in closing
    BY <1>1, <1>2, <2>1, LateParts DEF Change, NoneLate
  <2>2. CASE s \notin closing
    <3>1. spent' = spent /\ tx' = tx /\ closing' = closing
          /\ \A t \in Session \ {s} : mem'[t] = mem[t]
      BY <1>1, <1>2, <2>2, LateParts DEF Change
    <3> QED
      BY <1>1, <2>2, <3>1 DEF NoneLate, ClosingClean
  <2> QED
    BY <2>1, <2>2
<1>3. ASSUME NEW s \in Session, NEW c \in Id, Restore(s, c) PROVE NoneLate' => ClosingClean'
  <2> DEFINE u == [spent EXCEPT !.restore = @ + 1]
  <2>1. u \in Spending /\ u.late = spent.late
    BY <1>1, SpentType DEF Spending
  <2>2. CountLate(s, u)
    BY <1>3 DEF Restore
  <2> HIDE DEF u
  <2>3. CASE s \in closing
    BY <2>1, <2>2, <2>3, LateParts DEF NoneLate
  <2>4. CASE s \notin closing
    <3>1. spent'.late = spent.late /\ closing' = closing /\ mem' = mem
      BY <1>3, <2>1, <2>2, <2>4, LateParts DEF Restore
    <3>2. PICK r : Begin(s, "restore", c, r)
      BY <1>3 DEF Restore
    <3> QED
      BY <2>4, <3>1, <3>2, BeginClean DEF NoneLate, ClosingClean
  <2> QED
    BY <2>3, <2>4
<1>4. ASSUME spent'.late = spent.late, ClosingClean => ClosingClean'
      PROVE  NoneLate' => ClosingClean'
  BY <1>4 DEF NoneLate
<1>5. ASSUME NEW s \in Session, Start(s) \/ Autosave(s) \/ Replace(s)
      PROVE  NoneLate' => ClosingClean'
  <2>1. \E op \in Operations \ {"restore"} : \E r : Begin(s, op, None, r)
    BY <1>5 DEF Start, Autosave, Replace, Operations
  <2>2. spent' = spent /\ closing' = closing /\ mem' = mem
    BY <1>5 DEF Start, Autosave, Replace
  <2> QED
    BY <1>4, <2>1, <2>2, BeginClean DEF ClosingClean
<1>6. ASSUME NEW s \in Session, ReplaceSaved(s) PROVE NoneLate' => ClosingClean'
  <2>1. spent' = spent /\ closing' = closing /\ tx' = tx /\ mem' = [mem EXCEPT ![s] = Blank]
    BY <1>6 DEF ReplaceSaved
  <2> QED
    BY <1>1, <1>4, <2>1 DEF ClosingClean, Blank
<1>7. ASSUME NEW s \in Session, Save(s) PROVE NoneLate' => ClosingClean'
  <2>1. spent' = spent /\ closing' = closing /\ mem' = [mem EXCEPT ![s].dirty = FALSE]
        /\ Begin(s, "save", opened[s], DiscardPlan(s, TRUE))
    BY <1>7 DEF Save
  <2>2. ClosingClean => \A t \in closing' : t \in closing /\ ~mem'[t].dirty
    BY <1>1, <2>1 DEF ClosingClean
  <2> QED
    BY <1>4, <2>1, <2>2, BeginClean
<1>8. ASSUME NEW s \in Session, Close(s) PROVE NoneLate' => ClosingClean'
  BY <1>4, <1>8 DEF Close, ClosingClean, StoreHeld
<1>9. ASSUME NEW s \in Session, Exit(s) PROVE NoneLate' => ClosingClean'
  <2>1. spent' = spent /\ closing' = closing \ {s} /\ mem' = mem
        /\ Begin(s, "exit", None, DiscardPlan(s, FALSE))
    BY <1>9 DEF Exit
  <2> QED
    BY <1>4, <2>1, BeginClean DEF ClosingClean
<1>10. ASSUME NEW s \in Session, NEW c \in Id, DiscardCandidate(s, c)
       PROVE  NoneLate' => ClosingClean'
  <2>1. spent'.late = spent.late /\ closing' = closing /\ mem' = mem
        /\ Begin(s, "discard", c, DropCandidatePlan(c))
    BY <1>1, <1>10 DEF DiscardCandidate, Spending
  <2> QED
    BY <1>4, <2>1, BeginClean DEF ClosingClean
<1>11. ASSUME NEW s \in Session, Leave(s) \/ Crash(s) PROVE NoneLate' => ClosingClean'
  <2>1. spent'.late = spent.late /\ Gone(s) /\ tx' \in {tx, None}
    BY <1>1, <1>11 DEF Leave, Crash, Spending
  <2> QED
    BY <1>4, <2>1, GoneClean
<1>12. CASE Finish
  BY <1>4, <1>12, FinishClean DEF Finish
<1>13. CASE WriteFile \/ WriteFails
  <2>1. spent'.late = spent.late /\ closing' = closing /\ mem' = mem /\ tx # None
    BY <1>1, <1>13 DEF WriteFile, WriteFails, Spending
  <2>2. tx'.op = tx.op /\ tx'.who = tx.who
    <3>1. tx \in Transaction
      BY <2>1, Parts DEF TxOK
    <3> QED
      BY <1>13, <3>1 DEF WriteFile, WriteFails, Transaction
  <2> QED
    BY <1>4, <2>1, <2>2 DEF ClosingClean
<1>14. CASE Damage
  BY <1>1, <1>4, <1>14 DEF Damage, Spending, ClosingClean
<1>15. CASE UNCHANGED vars
  BY <1>4, <1>15 DEF vars, ClosingClean
<1> QED
  BY <1>2, <1>3, <1>5, <1>6, <1>7, <1>8, <1>9, <1>10, <1>11, <1>12, <1>13, <1>14, <1>15
     DEF Next

-----------------------------------------------------------------------------
(* No write has failed, and no change came late: what the theorem assumes  *)
(* of the run so far.                                                      *)
Undisturbed == spent.fault = 0 /\ spent.late = 0

LEMMA InitSecure ==
  ASSUME Init
  PROVE  Secure /\ Undisturbed
<1>1. PICK old \in Legacy \union {None} :
        /\ disk = [index |-> None, active |-> None, cand |-> [i \in Id |-> None], legacy |-> old]
        /\ shelf = IF old = None THEN {} ELSE {{old}}
  BY DEF Init
<1>2. \A s \in Session : ~Live(s) /\ mine[s] = {}
  BY DEF Init, Live
<1>3. disk \in Disk /\ MaxId \in Id
  BY InitOK, Parts, BoundsAssumption DEF Id
<1>4. ~Named(disk)
  BY <1>1 DEF Named
<1>5. \A o \in shelf : Unimported(disk, o)
  BY <1>1 DEF Unimported
<1>6. Sure(disk, shelf, Unborn)
  BY <1>1, <1>3, <1>4, <1>5 DEF Sure, Tied, Stands
<1>7. AtMostOne /\ OnlyDirty /\ AtRest
  BY <1>2, <1>6 DEF AtMostOne, OnlyDirty, AtRest
<1>8. UnderWay /\ Undisturbed
  BY DEF Init, UnderWay, Undisturbed, NothingSpent
<1> QED
  BY <1>7, <1>8 DEF Secure

LEMMA StepSecure ==
  ASSUME MaxLive <= 1, MaxId > 1, IInv, NoneLate => ClosingClean, Undisturbed => Secure,
         [Next]_vars
  PROVE  Undisturbed' => Secure'
<1>1. ASSUME spent'.fault = spent.fault, spent'.late = spent.late, Secure => Secure'
      PROVE  Undisturbed' => Secure'
  BY <1>1 DEF Undisturbed
<1>2. spent \in [crash : Nat, left : Nat, fault : Nat, damage : Nat, restore : Nat,
                 discard : Nat, late : Nat]
  BY Parts DEF SpentOK, Spending
<1>3. ASSUME NEW s \in Session, Start(s) PROVE Undisturbed' => Secure'
  BY <1>1, <1>3, StartSecure DEF Start
<1>4. ASSUME NEW s \in Session, Change(s) PROVE Undisturbed' => Secure'
  <2>1. CASE s \in closing
    BY <1>2, <1>4, <2>1, LateParts DEF Change, Undisturbed, Spending
  <2>2. CASE s \notin closing
    <3>1. spent' = spent
      BY <1>2, <1>4, <2>2, LateParts DEF Change, Spending
    <3> QED
      BY <1>1, <1>4, <3>1, ChangeSecure
  <2> QED
    BY <2>1, <2>2
<1>5. ASSUME NEW s \in Session, Autosave(s) PROVE Undisturbed' => Secure'
  BY <1>1, <1>5, AutosaveSecure DEF Autosave
<1>6. ASSUME NEW s \in Session, Replace(s) PROVE Undisturbed' => Secure'
  BY <1>1, <1>6, ReplaceSecure DEF Replace
<1>7. ASSUME NEW s \in Session, ReplaceSaved(s) PROVE Undisturbed' => Secure'
  BY <1>1, <1>7, ReplaceSavedSecure DEF ReplaceSaved
<1>8. ASSUME NEW s \in Session, Save(s) PROVE Undisturbed' => Secure'
  BY <1>1, <1>8, SaveSecure DEF Save
<1>9. ASSUME NEW s \in Session, Exit(s) PROVE Undisturbed' => Secure'
  <2>1. Undisturbed' => ~mem[s].dirty
    BY <1>9 DEF Exit, Undisturbed, NoneLate, ClosingClean
  <2>2. spent' = spent
    BY <1>9 DEF Exit
  <2> QED
    BY <1>9, <2>1, <2>2, ExitSecure DEF Undisturbed
<1>10. ASSUME NEW s \in Session, Leave(s) PROVE Undisturbed' => Secure'
  BY <1>1, <1>2, <1>10, LeaveSecure DEF Leave
<1>11. ASSUME NEW s \in Session, Crash(s) PROVE Undisturbed' => Secure'
  BY <1>1, <1>2, <1>11, CrashSecure DEF Crash
<1>12. ASSUME NEW s \in Session, NEW c \in Id, Restore(s, c) PROVE Undisturbed' => Secure'
  <2> DEFINE u == [spent EXCEPT !.restore = @ + 1]
  <2>1. u \in Spending /\ u.fault = spent.fault /\ u.late = spent.late
    BY <1>2 DEF Spending
  <2>2. CountLate(s, u)
    BY <1>12 DEF Restore
  <2> HIDE DEF u
  <2>3. spent'.fault = u.fault /\ (spent'.late = 0 => spent'.late = u.late)
    BY <2>1, <2>2, LateParts
  <2> QED
    BY <1>12, <2>1, <2>3, RestoreSecure DEF Undisturbed
<1>13. ASSUME NEW s \in Session, NEW c \in Id, DiscardCandidate(s, c)
       PROVE  Undisturbed' => Secure'
  BY <1>1, <1>2, <1>13, DiscardCandidateSecure DEF DiscardCandidate
<1>14. CASE WriteFile
  BY <1>1, <1>14, WriteFileSecure DEF WriteFile
<1>15. CASE WriteFails
  <2>1. spent'.fault = spent.fault + 1
    BY <1>2, <1>15 DEF WriteFails
  <2> QED
    BY <1>2, <2>1 DEF Undisturbed
<1>16. CASE Finish
  BY <1>1, <1>16, FinishSecure DEF Finish
<1>17. CASE Damage
  BY <1>1, <1>2, <1>17, DamageSecure DEF Damage
<1>18. CASE UNCHANGED <<disk, tx, life, mem, mine, shelf, spent>>
  <2>1. Secure => Secure'
    BY <1>18 DEF Secure, AtMostOne, OnlyDirty, AtRest, UnderWay, Unborn, Live
  <2> QED
    BY <1>1, <1>18, <2>1
<1>19. UNCHANGED vars \/ (\E s \in Session : Close(s)) => (Undisturbed' => Secure')
  BY <1>18 DEF vars, Close
<1> QED
  BY <1>3, <1>4, <1>5, <1>6, <1>7, <1>8, <1>9, <1>10, <1>11, <1>12, <1>13, <1>14, <1>15,
     <1>16, <1>17, <1>19 DEF Next

(* What fails or comes late is counted for good.                           *)
LEMMA UndisturbedBefore ==
  ASSUME IInv, [Next]_vars, Undisturbed'
  PROVE  /\ Undisturbed /\ ~WriteFails
         /\ \A s \in Session : Change(s) => spent' = spent
<1>1. spent \in [crash : Nat, left : Nat, fault : Nat, damage : Nat, restore : Nat,
                 discard : Nat, late : Nat] /\ spent \in Spending
  BY Parts DEF SpentOK, Spending
<1>2. ~WriteFails
  BY <1>1 DEF WriteFails, Undisturbed
<1>3. \A s \in Session : Change(s) => spent' = spent
  BY <1>1, LateParts DEF Change, Undisturbed
<1>4. CASE spent'.fault = spent.fault /\ spent'.late = spent.late
  BY <1>2, <1>3, <1>4 DEF Undisturbed
<1>5. ASSUME NEW s \in Session, Leave(s) \/ Crash(s) \/ \E c \in Id : DiscardCandidate(s, c)
      PROVE  spent'.fault = spent.fault /\ spent'.late = spent.late
  BY <1>1, <1>5 DEF Leave, Crash, DiscardCandidate
<1>6. ASSUME NEW s \in Session, NEW c \in Id, Restore(s, c)
      PROVE  spent'.fault = spent.fault /\ spent'.late = spent.late
  <2> DEFINE u == [spent EXCEPT !.restore = @ + 1]
  <2>1. u \in Spending /\ u.fault = spent.fault /\ u.late = spent.late
    BY <1>1 DEF Spending
  <2>2. CountLate(s, u)
    BY <1>6 DEF Restore
  <2> HIDE DEF u
  <2> QED
    BY <2>1, <2>2, LateParts DEF Undisturbed
<1>7. CASE Damage
  BY <1>1, <1>4, <1>7 DEF Damage
<1>8. ASSUME NEW s \in Session,
             \/ Start(s) \/ Autosave(s) \/ Replace(s) \/ ReplaceSaved(s)
             \/ Save(s) \/ Close(s) \/ Exit(s)
      PROVE  spent' = spent
  BY <1>8 DEF Start, Autosave, Replace, ReplaceSaved, Save, Close, Exit
<1>9. WriteFile \/ Finish \/ UNCHANGED vars => spent' = spent
  BY DEF WriteFile, Finish, vars
<1> QED
  BY <1>2, <1>3, <1>4, <1>5, <1>6, <1>7, <1>8, <1>9 DEF Next

(* Only a failed write counts as one, and only a late change as late.      *)
LEMMA UndisturbedStays ==
  ASSUME IInv, Undisturbed, MaxFault = 0, MaxLate = 0, [Next]_vars
  PROVE  Undisturbed'
<1>1. spent \in [crash : Nat, left : Nat, fault : Nat, damage : Nat, restore : Nat,
                 discard : Nat, late : Nat] /\ spent \in Spending
  BY Parts DEF SpentOK, Spending
<1>2. CASE spent' = spent
  BY <1>2 DEF Undisturbed
<1>3. CASE WriteFails
  BY <1>3 DEF WriteFails, Undisturbed
<1>4. ASSUME NEW s \in Session,
             Leave(s) \/ Crash(s) \/ \E c \in Id : DiscardCandidate(s, c)
      PROVE  Undisturbed'
  BY <1>1, <1>4 DEF Leave, Crash, DiscardCandidate, Undisturbed
<1>5. CASE Damage
  BY <1>1, <1>5 DEF Damage, Undisturbed
<1>6. ASSUME NEW s \in Session,
             \/ Start(s) \/ Autosave(s) \/ Replace(s) \/ ReplaceSaved(s)
             \/ Save(s) \/ Close(s) \/ Exit(s)
      PROVE  spent' = spent
  BY <1>6 DEF Start, Autosave, Replace, ReplaceSaved, Save, Close, Exit
<1>7. WriteFile \/ Finish \/ UNCHANGED vars => spent' = spent
  BY DEF WriteFile, Finish, vars
<1>8. ASSUME NEW s \in Session, NEW u \in Spending, u.fault = 0, u.late = 0, CountLate(s, u)
      PROVE  Undisturbed'
  BY <1>8, LateParts DEF CountLate, Undisturbed
<1>9. ASSUME NEW s \in Session, Change(s) PROVE Undisturbed'
  BY <1>1, <1>8, <1>9 DEF Change, Undisturbed
<1>10. ASSUME NEW s \in Session, NEW c \in Id, Restore(s, c) PROVE Undisturbed'
  <2> DEFINE u == [spent EXCEPT !.restore = @ + 1]
  <2>1. u \in Spending /\ u.fault = 0 /\ u.late = 0
    BY <1>1 DEF Spending, Undisturbed
  <2>2. CountLate(s, u)
    BY <1>10 DEF Restore
  <2> HIDE DEF u
  <2> QED
    BY <1>8, <2>1, <2>2
<1> QED
  BY <1>2, <1>3, <1>4, <1>5, <1>6, <1>7, <1>9, <1>10 DEF Next

(* What stands is on the disk.                                             *)
LEMMA SecureIsSafe ==
  ASSUME IInv, Secure
  PROVE  NoWorkLost
<1>1. \A t \in Session : ~Live(t) => mine[t] = {}
  BY DEF Secure, OnlyDirty
<1>2. ASSUME NEW o, Stands(disk, o) PROVE o \intersect OnDisk # {}
  <2>1. CASE InSlot(disk, o)
    <3>1. disk.active.doc \in o /\ disk.active.doc \in OnDisk
      BY <2>1 DEF InSlot, OnDisk
    <3> QED
      BY <3>1
  <2>2. CASE Rests(disk, o)
    <3>1. PICK c \in Id : disk.cand[c] # None /\ disk.cand[c].doc \in o
      BY <2>2 DEF Rests, Holds
    <3>2. disk.cand[c].doc \in OnDisk
      BY <3>1 DEF OnDisk
    <3> QED
      BY <3>1, <3>2
  <2>3. CASE Unimported(disk, o)
    <3>1. disk.legacy \in o /\ disk.legacy \in OnDisk
      BY <2>3 DEF Unimported, OnDisk
    <3> QED
      BY <3>1
  <2> QED
    BY <1>2, <2>1, <2>2, <2>3 DEF Stands, Kept
<1>3. ASSUME NEW s \in Session, Live(s) PROVE Sure(disk, Debts(shelf, mine[s]), Unborn)
  <2>1. CASE tx = None
    BY <1>3, <2>1, RestIsSure DEF Secure
  <2>2. CASE tx # None
    <3>1. tx.who = s /\ tx.plan \in Seq(Write)
      <4>1. tx \in Transaction /\ tx.who \in Session
        BY <2>2, Parts DEF TxOK, Transaction
      <4> QED
        BY <1>3, <2>2, <4>1 DEF Secure, UnderWay, AtMostOne, Transaction
    <3>2. PICK e \in Disk : Course(disk, tx.plan, e, Debts(shelf, mine[s]), Unborn)
      BY <2>2, <3>1 DEF Secure, UnderWay
    <3> QED
      BY <3>1, <3>2, CourseEnds
  <2> QED
    BY <2>1, <2>2
<1>4. CASE \A s \in Session : ~Live(s)
  <2>1. Sure(disk, shelf, Unborn)
    <3>1. tx # None => tx.who \in Session
      BY Parts DEF TxOK, Transaction
    <3> QED
      BY <1>4, <3>1 DEF Secure, UnderWay, AtRest
  <2>2. Owed = shelf
    BY <1>1, <1>4 DEF Owed
  <2> QED
    BY <1>2, <2>1, <2>2 DEF NoWorkLost, Sure
<1>5. ASSUME NEW s \in Session, Live(s) PROVE NoWorkLost
  <2>1. \A t \in Session \ {s} : mine[t] = {}
    BY <1>1, <1>5 DEF Secure, AtMostOne
  <2>2. \A o \in Owed : o \in Debts(shelf, mine[s])
    BY <2>1 DEF Owed, Debts
  <2> QED
    BY <1>2, <1>3, <1>5, <2>2 DEF NoWorkLost, Sure
<1> QED
  BY <1>4, <1>5

(* Nothing a process was told is safe is ever missing from the disk, as    *)
(* long as no write has failed and nothing was edited or restored after    *)
(* the exit found the work saved: after any edits, autosaves, replacements,*)
(* restores, saves, exits, crashes between two writes, damaged files and   *)
(* restarts, for every number of sessions and ids (autosave.rs:3-6, 500,   *)
(* 1212).  One process runs at a time (of two, one may take over the link  *)
(* to the candidate the other restored: see AutosaveInherit.cfg; what comes*)
(* late may be removed: AutosaveExit.cfg), and there is an id to give away *)
(* besides the last one, which is never given.                             *)
THEOREM NoWorkIsLost ==
  ASSUME MaxLive <= 1, MaxId > 1
  PROVE  Spec => [](spent.fault = 0 /\ spent.late = 0 => NoWorkLost)
<1> DEFINE Holding == IInv /\ (NoneLate => ClosingClean) /\ (Undisturbed => Secure)
<1>1. Init => Holding
  BY InitOK, InitClean, InitSecure
<1>2. Holding /\ [Next]_vars => Holding'
  BY StepOK, StepClean, StepSecure
<1>3. Holding => (spent.fault = 0 /\ spent.late = 0 => NoWorkLost)
  BY SecureIsSafe DEF Undisturbed
<1> QED
  BY <1>1, <1>2, <1>3, PTL DEF Spec

(* The property of the runs: where no write fails and nothing comes after  *)
(* the exit's look at the work, no work is lost.                           *)
THEOREM NoWorkIsEverLost ==
  ASSUME MaxLive <= 1, MaxId > 1, MaxFault = 0, MaxLate = 0
  PROVE  Spec => []NoWorkLost
<1> DEFINE Holding == IInv /\ Undisturbed
<1>1. Init => Holding
  BY InitOK, InitSecure
<1>2. Holding /\ [Next]_vars => Holding'
  BY StepOK, UndisturbedStays
<1>3. Holding => spent.fault = 0 /\ spent.late = 0
  BY DEF Undisturbed
<1> QED
  BY <1>1, <1>2, <1>3, NoWorkIsLost, PTL DEF Spec

-----------------------------------------------------------------------------
(* Several processes at once.  As long as no candidate was restored, no    *)
(* payload has a source, and no candidate is ever replaced.  What is left  *)
(* to fear is the one slot, which a process may take, empty or leave       *)
(* behind while others run.                                                *)

Plain(d) ==
  /\ d.active # None => d.active.source = None
  /\ Named(d) => d.index.active.source = None

Backed(d, o) == \E c \in Id : Holds(d, c, o)

Fills(d, o) == d.active # None /\ d.active.doc \in o

(* Who takes the slot next sets the payload aside, unless it is process t  *)
(* itself: nobody knows whose slot it is, or its process is gone, or it is *)
(* that of t.                                                              *)
Guards(d, t, up) ==
  \/ d.index = Corrupt
  \/ Named(d) /\ (d.index.active.session \notin up \/ d.index.active.session = t)

(* The obligations, each with the process that holds the work, if any.     *)
Dues(sh, m) ==
  {[work |-> o, by |-> None] : o \in sh}
    \union {[work |-> m[t], by |-> t] : t \in {u \in Session : m[u] # {}}}

Firm(d, x, up) == Backed(d, x.work) \/ (Fills(d, x.work) /\ Guards(d, x.by, up))

(* Disk d supports obligations D while processes up run and N have not     *)
(* started.                                                                *)
Bears(d, D, up, N) ==
  /\ d \in Disk /\ d.cand[MaxId] = None /\ Plain(d)
  /\ Named(d) => d.index.active.session \notin N
  /\ \A x \in D : Firm(d, x, up)

Bearing(D, up, N) == {d \in Disk : Bears(d, D, up, N)}

(* Writes that put something in place; a removal is always the last write, *)
(* as it may fail and be passed over.                                      *)
Puts == {w \in Write : ~IsRemoval(w)}

(* Plan p leads from disk d over disks of S to one of G, and to one of G   *)
(* without a removal at its end.                                           *)
Reaches(d, p, S, G) ==
  \/ \E e \in S \intersect G : Through(d, p, e, S, Puts)
  \/ \E q \in Seq(Write), w \in Write, e \in S \intersect G :
       p = Append(q, w) /\ Through(d, q, e, S, Puts) /\ Apply(e, w) \in S \intersect G

(* A draft under way.                                                      *)
Steady(r, D, up, N) ==
  /\ r \in Drafts /\ r.ok /\ Numbered(r.idx)
  /\ r.idx.active # None => r.idx.active.source = None
  /\ Through(disk, r.plan, r.img, Bearing(D, up, N), Puts)

LEMMA SteadyParts ==
  ASSUME NEW r, NEW D, NEW up, NEW N, Steady(r, D, up, N)
  PROVE  /\ r \in Drafts /\ r.ok /\ r.idx \in Index /\ r.img \in Disk /\ r.plan \in Seq(Write)
         /\ Numbered(r.idx) /\ ValidIndex(r.idx)
         /\ r.idx.active # None => r.idx.active.source = None
         /\ Through(disk, r.plan, r.img, Bearing(D, up, N), Puts)
         /\ Bears(r.img, D, up, N)
<1>1. /\ r \in Drafts /\ r.ok /\ r.idx \in Index /\ r.img \in Disk /\ r.plan \in Seq(Write)
      /\ Numbered(r.idx) /\ Through(disk, r.plan, r.img, Bearing(D, up, N), Puts)
      /\ r.idx.active # None => r.idx.active.source = None
  BY DEF Steady, Drafts
<1>2. r.img \in Bearing(D, up, N)
  BY <1>1, ThroughEnds
<1> QED
  BY <1>1, <1>2, ValidIsNumbered DEF Bearing

LEMMA DraftSteady ==
  ASSUME NEW D, NEW up, NEW N, Bears(disk, D, up, N), NEW x \in Index, Numbered(x),
         x.active # None => x.active.source = None
  PROVE  /\ Steady(Draft(x), D, up, N)
         /\ Draft(x).idx = x /\ Draft(x).img = disk /\ Draft(x).plan = << >> /\ Draft(x).ok
<1>1. disk \in Disk /\ disk \in Bearing(D, up, N)
  BY DEF Bears, Bearing
<1>2. Draft(x) \in Drafts /\ Draft(x).plan = << >> /\ Draft(x).img = disk
      /\ Draft(x).idx = x /\ Draft(x).ok
  BY <1>1, DraftSound DEF Sound, Draft
<1>3. Through(disk, << >>, disk, Bearing(D, up, N), Puts)
  BY <1>1, ThroughStarts
<1> QED
  BY <1>2, <1>3 DEF Steady

LEMMA ReindexSteady ==
  ASSUME NEW r, NEW D, NEW up, NEW N, Steady(r, D, up, N), NEW x \in Index, Numbered(x),
         x.active # None => x.active.source = None
  PROVE  LET m == [r EXCEPT !.idx = x]
         IN Steady(m, D, up, N) /\ m.plan = r.plan /\ m.ok /\ m.idx = x /\ m.img = r.img
<1>1. LET m == [r EXCEPT !.idx = x]
      IN m \in Drafts /\ m.plan = r.plan /\ m.ok = r.ok /\ m.idx = x /\ m.img = r.img
  BY SteadyParts, SameActive
<1> QED
  BY <1>1, SteadyParts DEF Steady

LEMMA EmitSteady ==
  ASSUME NEW r, NEW D, NEW up, NEW N, Steady(r, D, up, N), NEW w \in Puts,
         Bears(Apply(r.img, w), D, up, N)
  PROVE  LET e == Emit(r, w)
         IN Steady(e, D, up, N) /\ e.ok /\ e.idx = r.idx /\ e.img = Apply(r.img, w)
<1>1. /\ r \in Drafts /\ r.ok /\ r.plan \in Seq(Write) /\ Numbered(r.idx)
      /\ r.idx.active # None => r.idx.active.source = None
      /\ Through(disk, r.plan, r.img, Bearing(D, up, N), Puts)
  BY SteadyParts
<1>2. w \in Write /\ Apply(r.img, w) \in Bearing(D, up, N)
  BY DEF Puts, Bears, Bearing
<1>3. Through(disk, Append(r.plan, w), Apply(r.img, w), Bearing(D, up, N), Puts)
  BY <1>1, <1>2, ThroughOn
<1>4. Emit(r, w).img = Apply(r.img, w)
  BY <1>1 DEF Emit, Drafts
<1>5. /\ Emit(r, w) \in Drafts /\ Emit(r, w).ok /\ Emit(r, w).idx = r.idx
      /\ Emit(r, w).plan = Append(r.plan, w)
  BY <1>1, <1>2, EmitPlan
<1> QED
  BY <1>1, <1>3, <1>4, <1>5 DEF Steady

(* A steady draft, as a plan, and with a removal at its end.               *)
LEMMA SteadyReaches ==
  ASSUME NEW r, NEW D, NEW up, NEW N, Steady(r, D, up, N), NEW G, r.img \in G
  PROVE  Reaches(disk, r.plan, Bearing(D, up, N), G)
<1>1. Through(disk, r.plan, r.img, Bearing(D, up, N), Puts) /\ r.plan \in Seq(Write)
  BY SteadyParts
<1>2. r.img \in Bearing(D, up, N)
  BY <1>1, ThroughEnds
<1> QED
  BY <1>1, <1>2 DEF Reaches

LEMMA RemovalReaches ==
  ASSUME NEW r, NEW D, NEW up, NEW N, Steady(r, D, up, N), NEW w \in Write,
         Bears(Apply(r.img, w), D, up, N), NEW G, r.img \in G, Apply(r.img, w) \in G
  PROVE  Reaches(disk, Emit(r, w).plan, Bearing(D, up, N), G) /\ Emit(r, w).ok
<1>1. /\ r \in Drafts /\ r.ok /\ r.plan \in Seq(Write)
      /\ Through(disk, r.plan, r.img, Bearing(D, up, N), Puts)
  BY SteadyParts
<1>2. r.img \in Bearing(D, up, N) /\ Apply(r.img, w) \in Bearing(D, up, N)
  BY <1>1, ThroughEnds DEF Bears, Bearing
<1>3. Emit(r, w).plan = Append(r.plan, w) /\ Emit(r, w).ok
  BY <1>1, EmitPlan
<1> QED
  BY <1>1, <1>2, <1>3 DEF Reaches

(* Nothing is written.                                                     *)
LEMMA NothingReaches ==
  ASSUME NEW S, NEW G, disk \in S, disk \in G
  PROVE  Reaches(disk, << >>, S, G)
BY ThroughStarts DEF Reaches

-----------------------------------------------------------------------------
(* Writes.                                                                 *)

LEMMA PutKinds ==
  /\ \A x \in Index : PutIndex(x) \in Puts
  /\ \A p \in Payload : PutActive(p) \in Puts
  /\ \A i \in Id, p \in Payload : PutCandidate(i, p) \in Puts
BY WriteKinds, NoIdNone DEF Puts, IsRemoval, PutIndex, PutActive, PutCandidate

(* A new candidate takes nothing away.                                     *)
LEMMA CandidateBears ==
  ASSUME NEW d, NEW D, NEW up, NEW N, Bears(d, D, up, N),
         NEW k \in Id, k # MaxId, d.cand[k] = None, NEW p \in Payload
  PROVE  LET e == Apply(d, PutCandidate(k, p))
         IN /\ Bears(e, D, up, N) /\ e.index = d.index /\ e.active = d.active
            /\ \A o : Backed(d, o) \/ p.doc \in o => Backed(e, o)
<1> DEFINE e == Apply(d, PutCandidate(k, p))
<1>1. d \in Disk /\ d.cand[MaxId] = None /\ MaxId \in Id
  BY BoundsAssumption DEF Bears, Id
<1>2. /\ e \in Disk /\ e.index = d.index /\ e.active = d.active
      /\ \A c \in Id : e.cand[c] = IF c = k THEN p ELSE d.cand[c]
  BY <1>1, CandidateParts
<1> HIDE DEF e
<1>3. ASSUME NEW o, Backed(d, o) \/ p.doc \in o PROVE Backed(e, o)
  <2>1. CASE Backed(d, o)
    <3>1. PICK c \in Id : Holds(d, c, o)
      BY <2>1 DEF Backed
    <3> QED
      BY <1>2, <3>1 DEF Backed, Holds
  <2>2. CASE p.doc \in o
    BY <1>2, <2>2, NoIdNone DEF Backed, Holds
  <2> QED
    BY <1>3, <2>1, <2>2
<1>4. \A x \in D : Firm(e, x, up)
  BY <1>2, <1>3 DEF Bears, Firm, Fills, Guards, Named
<1> QED
  BY <1>1, <1>2, <1>3, <1>4 DEF e, Bears, Plain, Named

(* Writing the index: it lets the slot go once everything is backed, or    *)
(* names a process for whose work the payload is good.                     *)
LEMMA IndexBears ==
  ASSUME NEW d, NEW D, NEW up, NEW N, Bears(d, D, up, N), NEW x \in Index,
         x.active # None => x.active.source = None /\ x.active.session \notin N,
         \A y \in D : \/ Backed(d, y.work)
                      \/ /\ Fills(d, y.work) /\ x.active # None
                         /\ x.active.session \notin up \/ x.active.session = y.by
  PROVE  LET e == Apply(d, PutIndex(x))
         IN /\ Bears(e, D, up, N) /\ e.index = x /\ e.active = d.active /\ e.cand = d.cand
            /\ \A o : Backed(e, o) <=> Backed(d, o)
<1> DEFINE e == Apply(d, PutIndex(x))
<1>1. d \in Disk
  BY DEF Bears
<1>2. /\ e \in Disk /\ e.index = x /\ e.active = d.active /\ e.cand = d.cand
  BY <1>1, IndexParts
<1> HIDE DEF e
<1>3. \A o : Backed(e, o) <=> Backed(d, o)
  BY <1>2 DEF Backed, Holds
<1>4. x # None /\ x # Corrupt
  BY ValuesAssumption
<1>5. \A y \in D : Firm(e, y, up)
  BY <1>2, <1>3, <1>4 DEF Firm, Fills, Guards, Named
<1> QED
  BY <1>2, <1>3, <1>4, <1>5 DEF e, Bears, Plain, Named

(* Writing the slot: everything that was not backed is in the new payload. *)
LEMMA ActiveBears ==
  ASSUME NEW d, NEW D, NEW up, NEW N, Bears(d, D, up, N), NEW p \in Payload \union {None},
         p # None => p.source = None,
         \A y \in D : \/ Backed(d, y.work)
                      \/ p # None /\ p.doc \in y.work /\ Guards(d, y.by, up)
  PROVE  LET e == Apply(d, PutActive(p))
         IN /\ Bears(e, D, up, N) /\ e.index = d.index /\ e.active = p /\ e.cand = d.cand
            /\ \A o : Backed(e, o) <=> Backed(d, o)
<1> DEFINE e == Apply(d, PutActive(p))
<1>1. d \in Disk
  BY DEF Bears
<1>2. /\ e \in Disk /\ e.index = d.index /\ e.active = p /\ e.cand = d.cand
  BY <1>1, ActiveParts
<1> HIDE DEF e
<1>3. \A o : Backed(e, o) <=> Backed(d, o)
  BY <1>2 DEF Backed, Holds
<1>4. \A y \in D : Firm(e, y, up)
  BY <1>2, <1>3 DEF Firm, Fills, Guards, Named
<1> QED
  BY <1>2, <1>3, <1>4 DEF e, Bears, Plain, Named

-----------------------------------------------------------------------------
(* The steps of a draft.                                                   *)

LEMMA CarryingParts ==
  ASSUME NEW x \in Index, Numbered(x), NEW k \in Id, k >= x.next, k < MaxId,
         NEW t \in Session \union {None}
  PROVE  LET y == Carrying(x, k, t)
         IN y \in Index /\ Numbered(y) /\ y.active = x.active
BY CarryingType, CarryingNumbered

LEMMA AddSteady ==
  ASSUME NEW r, NEW D, NEW up, NEW N, Steady(r, D, up, N), NEW bytes \in Payload,
         NEW session \in Session \union {None}
  PROVE  LET e == AddCandidate(r, bytes, session)
         IN \/ e = Failed(r) /\ ~ \E i \in FreeIds(r) : i < MaxId
            \/ /\ Steady(e, D, up, N) /\ e.idx.active = r.idx.active
               /\ e.img.index = r.img.index /\ e.img.active = r.img.active
               /\ \A o : Backed(r.img, o) \/ bytes.doc \in o => Backed(e.img, o)
<1>1. /\ r \in Drafts /\ r.ok /\ r.idx \in Index /\ r.img \in Disk /\ Numbered(r.idx)
      /\ Bears(r.img, D, up, N) /\ (r.idx.active # None => r.idx.active.source = None)
  BY SteadyParts
<1>2. CASE ~ \E i \in FreeIds(r) : i < MaxId
  BY <1>2 DEF AddCandidate
<1>3. CASE \E i \in FreeIds(r) : i < MaxId
  <2>1. FreeIds(r) \in SUBSET Nat /\ FreeIds(r) \subseteq Id /\ MaxId \in Nat
    BY BoundsAssumption DEF FreeIds, Id
  <2>2. PICK k \in Id : k \in FreeIds(r) /\ k < MaxId /\ k = LeastOf(FreeIds(r))
    <3>1. LeastOf(FreeIds(r)) \in FreeIds(r) /\ \A n \in FreeIds(r) : LeastOf(FreeIds(r)) <= n
      BY <1>3, <2>1, LeastNat
    <3>2. PICK i \in FreeIds(r) : i < MaxId
      BY <1>3
    <3>3. LeastOf(FreeIds(r)) \in Id /\ LeastOf(FreeIds(r)) \in Nat /\ i \in Nat
          /\ LeastOf(FreeIds(r)) <= i
      BY <2>1, <3>1, <3>2
    <3>4. LeastOf(FreeIds(r)) < MaxId
      BY <2>1, <3>2, <3>3
    <3> QED
      BY <3>1, <3>3, <3>4
  <2> DEFINE x == Carrying(r.idx, k, session)
             m == [r EXCEPT !.idx = x]
             w == PutCandidate(k, bytes)
             e == Emit(m, w)
  <2>3. r.img.cand[k] = None /\ k >= r.idx.next /\ k # MaxId
    <3>1. k \in FreeIds(r) /\ k < MaxId /\ k \in Nat /\ MaxId \in Nat
      BY <2>1, <2>2
    <3> QED
      BY <3>1 DEF FreeIds
  <2>4. x \in Index /\ Numbered(x) /\ x.active = r.idx.active
    BY <1>1, <2>2, <2>3, CarryingParts
  <2> HIDE DEF x
  <2>5. Steady(m, D, up, N) /\ m.idx = x /\ m.img = r.img
    BY <1>1, <2>4, ReindexSteady
  <2>6. AddCandidate(r, bytes, session) = e
    BY <1>3, <2>2 DEF AddCandidate, x
  <2> HIDE DEF m
  <2>7. w \in Puts
    BY <2>2, PutKinds
  <2>8. LET d == Apply(r.img, w)
        IN /\ Bears(d, D, up, N) /\ d.index = r.img.index /\ d.active = r.img.active
           /\ \A o : Backed(r.img, o) \/ bytes.doc \in o => Backed(d, o)
    BY <1>1, <2>2, <2>3, CandidateBears
  <2> HIDE DEF w
  <2>9. Steady(e, D, up, N) /\ e.idx = x /\ e.img = Apply(r.img, w)
    BY <2>5, <2>7, <2>8, EmitSteady
  <2> HIDE DEF e
  <2> QED
    BY <2>4, <2>6, <2>8, <2>9
<1> QED
  BY <1>2, <1>3

(* The active work becomes a new candidate: it has no source to go back to.*)
LEMMA CarrySteady ==
  ASSUME NEW r, NEW D, NEW up, NEW N, Steady(r, D, up, N), r.idx.active # None,
         r.img.active # None
  PROVE  LET e == CarryActive(r)
         IN \/ e = Failed(r)
            \/ /\ Steady(e, D, up, N) /\ e.idx.active = r.idx.active
               /\ e.img.index = r.img.index /\ e.img.active = r.img.active
               /\ \A o : Backed(r.img, o) \/ Fills(r.img, o) => Backed(e.img, o)
<1>1. r.ok /\ r.idx \in Index /\ r.img \in Disk /\ r.idx.active.source = None
  BY SteadyParts
<1>2. ~ReturnsToSource(r)
  BY <1>1 DEF ReturnsToSource
<1>3. r.img.active \in Payload /\ r.idx.active.session \in Session \union {None}
  BY <1>1 DEF Disk, Index, Active
<1>4. CarryActive(r) = AddCandidate(r, r.img.active, r.idx.active.session)
  BY <1>1, <1>2 DEF CarryActive
<1> DEFINE p == r.img.active
           t == r.idx.active.session
           e == AddCandidate(r, p, t)
<1>5. \/ e = Failed(r)
      \/ /\ Steady(e, D, up, N) /\ e.idx.active = r.idx.active
         /\ e.img.index = r.img.index /\ e.img.active = r.img.active
         /\ \A o : Backed(r.img, o) \/ p.doc \in o => Backed(e.img, o)
  BY <1>3, AddSteady
<1> QED
  BY <1>4, <1>5 DEF Fills

LEMMA CommitSteady ==
  ASSUME NEW r, NEW D, NEW up, NEW N, Steady(r, D, up, N), r.idx.active = None,
         \A y \in D : Backed(r.img, y.work)
  PROVE  LET e == CommitIndex(r)
         IN /\ Steady(e, D, up, N) /\ e.idx = r.idx /\ e.img.index = r.idx
            /\ e.img.active = r.img.active /\ \A o : Backed(e.img, o) <=> Backed(r.img, o)
<1>1. r.idx \in Index /\ ValidIndex(r.idx) /\ Bears(r.img, D, up, N)
  BY SteadyParts
<1>2. CommitIndex(r) = Emit(r, PutIndex(r.idx)) /\ PutIndex(r.idx) \in Puts
  BY <1>1, PutKinds DEF CommitIndex
<1>3. LET d == Apply(r.img, PutIndex(r.idx))
      IN /\ Bears(d, D, up, N) /\ d.index = r.idx /\ d.active = r.img.active
         /\ \A o : Backed(d, o) <=> Backed(r.img, o)
  BY <1>1, IndexBears
<1>4. LET e == Emit(r, PutIndex(r.idx))
      IN Steady(e, D, up, N) /\ e.idx = r.idx /\ e.img = Apply(r.img, PutIndex(r.idx))
  BY <1>2, <1>3, EmitSteady
<1> QED
  BY <1>2, <1>3, <1>4

LEMMA UnlinkSteady ==
  ASSUME NEW r, NEW D, NEW up, NEW N, Steady(r, D, up, N)
  PROVE  LET u == Unlink(r)
         IN Steady(u, D, up, N) /\ u.img = r.img /\ u.plan = r.plan /\ u.idx.active = None
<1>1. r.ok /\ r.idx \in Index /\ Numbered(r.idx)
  BY SteadyParts
<1> DEFINE x == [r.idx EXCEPT !.active = None]
<1>2. x \in Index /\ x.active = None /\ x.carried = r.idx.carried /\ x.next = r.idx.next
  BY <1>1 DEF Index
<1>3. Numbered(x)
  BY <1>1, <1>2 DEF Numbered
<1>4. Unlink(r) = [r EXCEPT !.idx = x]
  BY <1>1 DEF Unlink
<1> HIDE DEF x
<1> QED
  BY <1>2, <1>3, <1>4, ReindexSteady

(* The slot is emptied, index first, once everything is backed.            *)
LEMMA EmptyReaches ==
  ASSUME NEW r, NEW D, NEW up, NEW N, Steady(r, D, up, N),
         \A y \in D : Backed(r.img, y.work),
         NEW G, \A e \in Disk : (\A o : Backed(r.img, o) => Backed(e, o)) => e \in G
  PROVE  LET e == Emit(CommitIndex(Unlink(r)), PutActive(None))
         IN e.ok /\ Reaches(disk, e.plan, Bearing(D, up, N), G)
<1> DEFINE u == Unlink(r)
           f == CommitIndex(u)
           w == PutActive(None)
           d == Apply(f.img, w)
<1>1. Steady(u, D, up, N) /\ u.img = r.img /\ u.idx.active = None
  BY UnlinkSteady
<1> HIDE DEF u
<1>2. Steady(f, D, up, N) /\ \A o : Backed(f.img, o) <=> Backed(r.img, o)
  BY <1>1, CommitSteady
<1> HIDE DEF f
<1>3. Bears(f.img, D, up, N)
  BY <1>2, SteadyParts
<1>4. Bears(d, D, up, N) /\ \A o : Backed(d, o) <=> Backed(f.img, o)
  BY <1>2, <1>3, ActiveBears
<1>5. w \in Write /\ f.img \in Disk /\ d \in Disk
  BY <1>3, <1>4, WriteKinds DEF Bears
<1>6. f.img \in G /\ d \in G
  BY <1>2, <1>4, <1>5
<1>7. Reaches(disk, Emit(f, w).plan, Bearing(D, up, N), G) /\ Emit(f, w).ok
  <2> HIDE DEF w
  <2> QED
    BY <1>2, <1>4, <1>5, <1>6, RemovalReaches
<1> QED
  BY <1>7 DEF u, f

(* The active work becomes a candidate and the slot is emptied, or there   *)
(* is no id for it and nothing more is written.                            *)
LEMMA SetAsideReaches ==
  ASSUME NEW r, NEW D, NEW up, NEW N, Steady(r, D, up, N), r.idx.active # None,
         r.img.active # None, NEW G,
         \A e \in Disk : (\A o : Backed(r.img, o) \/ Fills(r.img, o) => Backed(e, o)) => e \in G
  PROVE  LET e == SetAside(r)
         IN IF e.ok THEN Reaches(disk, e.plan, Bearing(D, up, N), G) ELSE e.plan = r.plan
<1> DEFINE c == CarryActive(r)
           e == Emit(CommitIndex(Unlink(c)), PutActive(None))
<1>1. SetAside(r) = e
  BY DEF SetAside
<1>2. r \in Drafts /\ Bears(r.img, D, up, N)
  BY SteadyParts
<1>3. CASE c = Failed(r)
  <2>1. c \in Drafts /\ ~c.ok /\ c.plan = r.plan
    BY <1>2, <1>3, FailedParts
  <2> HIDE DEF c
  <2> QED
    BY <1>1, <2>1, StoppedParts
<1>4. CASE c # Failed(r)
  <2>1. /\ Steady(c, D, up, N)
        /\ \A o : Backed(r.img, o) \/ Fills(r.img, o) => Backed(c.img, o)
    BY <1>4, CarrySteady
  <2> HIDE DEF c
  <2>2. \A y \in D : Backed(c.img, y.work)
    BY <1>2, <2>1 DEF Bears, Firm
  <2>3. \A f \in Disk : (\A o : Backed(c.img, o) => Backed(f, o)) => f \in G
    BY <2>1
  <2>4. e.ok /\ Reaches(disk, e.plan, Bearing(D, up, N), G)
    BY <2>1, <2>2, <2>3, EmptyReaches
  <2> QED
    BY <1>1, <2>4
<1> QED
  BY <1>3, <1>4

-----------------------------------------------------------------------------
(* Fewer or wider obligations, and processes that go.                      *)

Covers(D, E, few) ==
  \A y \in E : \E x \in D : x.work \subseteq y.work /\ (x.by = y.by \/ x.by \notin few)

LEMMA FirmCovers ==
  ASSUME NEW d, NEW x, NEW y, NEW up, NEW few, few \subseteq up, Firm(d, x, up),
         x.work \subseteq y.work, x.by = y.by \/ x.by \notin few
  PROVE  Firm(d, y, few)
<1>1. Backed(d, x.work) => Backed(d, y.work)
  BY DEF Backed, Holds
<1>2. Fills(d, x.work) => Fills(d, y.work)
  BY DEF Fills
<1>3. Guards(d, x.by, up) => Guards(d, y.by, few)
  BY DEF Guards
<1> QED
  BY <1>1, <1>2, <1>3 DEF Firm

LEMMA BearsLess ==
  ASSUME NEW d, NEW D, NEW up, NEW N, Bears(d, D, up, N),
         NEW few, few \subseteq up, NEW M, M \subseteq N, NEW E, Covers(D, E, few)
  PROVE  Bears(d, E, few, M)
<1>1. ASSUME NEW y \in E PROVE Firm(d, y, few)
  <2>1. PICK x \in D : x.work \subseteq y.work /\ (x.by = y.by \/ x.by \notin few)
    BY DEF Covers
  <2>2. Firm(d, x, up)
    BY DEF Bears
  <2> QED
    BY <2>1, <2>2, FirmCovers
<1> QED
  BY <1>1 DEF Bears

LEMMA ReachesLess ==
  ASSUME NEW d, NEW p \in Seq(Write), NEW S, NEW G, Reaches(d, p, S, G),
         NEW T, S \subseteq T, NEW H, G \subseteq H
  PROVE  Reaches(d, p, T, H)
<1>1. CASE \E e \in S \intersect G : Through(d, p, e, S, Puts)
  <2>1. PICK e \in S \intersect G : Through(d, p, e, S, Puts)
    BY <1>1
  <2>2. Through(d, p, e, T, Puts)
    BY <2>1, ThroughMore
  <2> QED
    BY <2>2 DEF Reaches
<1>2. CASE \E q \in Seq(Write), w \in Write, e \in S \intersect G :
             p = Append(q, w) /\ Through(d, q, e, S, Puts) /\ Apply(e, w) \in S \intersect G
  <2>1. PICK q \in Seq(Write), w \in Write, e \in S \intersect G :
          p = Append(q, w) /\ Through(d, q, e, S, Puts) /\ Apply(e, w) \in S \intersect G
    BY <1>2
  <2>2. Through(d, q, e, T, Puts)
    BY <2>1, ThroughMore
  <2>3. e \in T \intersect H /\ Apply(e, w) \in T \intersect H
    BY <2>1
  <2> QED
    BY <2>1, <2>2, <2>3 DEF Reaches
<1> QED
  BY <1>1, <1>2 DEF Reaches

LEMMA ReachesStarts ==
  ASSUME NEW d, NEW p \in Seq(Write), NEW S, NEW G, Reaches(d, p, S, G)
  PROVE  d \in S
BY ThroughEnds DEF Reaches

LEMMA ReachesEnds ==
  ASSUME NEW d, NEW p \in Seq(Write), p = << >>, NEW S, NEW G, Reaches(d, p, S, G)
  PROVE  d \in S /\ d \in G
<1>1. ASSUME NEW q \in Seq(Write), NEW w \in Write PROVE Append(q, w) # << >>
  BY AppendFacts
<1>2. PICK e \in S \intersect G : Through(d, p, e, S, Puts)
  BY <1>1 DEF Reaches
<1>3. e = d
  BY <1>2, ThroughEnds
<1> QED
  BY <1>2, <1>3

LEMMA AppendTail ==
  ASSUME NEW q \in Seq(Write), NEW w \in Write
  PROVE  /\ Tail(Append(q, w)) = IF q = << >> THEN << >> ELSE Append(Tail(q), w)
         /\ Append(q, w)[1] = IF q = << >> THEN w ELSE q[1]
         /\ q # << >> => Tail(q) \in Seq(Write)
OBVIOUS

(* One write of the plan is done, or, if it is a removal, passed over.     *)
LEMMA ReachesTail ==
  ASSUME NEW d, NEW p \in Seq(Write), p # << >>, NEW S, NEW G, Reaches(d, p, S, G)
  PROVE  /\ Reaches(Apply(d, p[1]), Tail(p), S, G)
         /\ IsRemoval(p[1]) => Tail(p) = << >> /\ d \in G
<1>1. CASE \E e \in S \intersect G : Through(d, p, e, S, Puts)
  <2>1. PICK e \in S \intersect G : Through(d, p, e, S, Puts)
    BY <1>1
  <2>2. p[1] \in Puts /\ Through(Apply(d, p[1]), Tail(p), e, S, Puts)
    BY <2>1, ThroughTail
  <2> QED
    BY <2>2 DEF Reaches, Puts
<1>2. CASE \E q \in Seq(Write), w \in Write, e \in S \intersect G :
             p = Append(q, w) /\ Through(d, q, e, S, Puts) /\ Apply(e, w) \in S \intersect G
  <2>1. PICK q \in Seq(Write), w \in Write, e \in S \intersect G :
          p = Append(q, w) /\ Through(d, q, e, S, Puts) /\ Apply(e, w) \in S \intersect G
    BY <1>2
  <2>2. CASE q = << >>
    <3>1. p[1] = w /\ Tail(p) = << >> /\ e = d
      <4>1. p[1] = w /\ Tail(p) = << >>
        BY <2>1, <2>2, AppendTail
      <4>2. e = d
        BY <2>1, <2>2, ThroughEnds
      <4> QED
        BY <4>1, <4>2
    <3>2. Through(Apply(d, w), << >>, Apply(d, w), S, Puts)
      BY <2>1, <3>1, ThroughStarts
    <3> QED
      BY <2>1, <3>1, <3>2 DEF Reaches
  <2>3. CASE q # << >>
    <3>1. p[1] = q[1] /\ Tail(p) = Append(Tail(q), w) /\ Tail(q) \in Seq(Write)
      BY <2>1, <2>3, AppendTail
    <3>2. q[1] \in Puts /\ Through(Apply(d, q[1]), Tail(q), e, S, Puts)
      BY <2>1, <2>3, ThroughTail
    <3> QED
      BY <2>1, <3>1, <3>2 DEF Reaches, Puts
  <2> QED
    BY <2>2, <2>3
<1> QED
  BY <1>1, <1>2 DEF Reaches

-----------------------------------------------------------------------------
(* Snapshots.                                                              *)

LEMMA StoreSteady ==
  ASSUME NEW c, NEW D, NEW up, NEW N, Steady(c, D, up, N),
         NEW s \in Session, s \notin N, NEW doc \in Doc, NEW stamp \in Stamp,
         \A y \in D : \/ Backed(c.img, y.work)
                      \/ doc \in y.work /\ y.by = s /\ Own(c.img, s)
  PROVE  LET a == [session |-> s, source |-> None]
             p == [doc |-> doc, session |-> s, source |-> None, stamp |-> stamp]
             e == CommitIndex(Emit([c EXCEPT !.idx.active = a], PutActive(p)))
         IN /\ Steady(e, D, up, N) /\ e.idx.active = a /\ a # None
            /\ e.img.active # None /\ Fills(e.img, {doc}) /\ Own(e.img, s)
<1> DEFINE a  == [session |-> s, source |-> None]
           p  == [doc |-> doc, session |-> s, source |-> None, stamp |-> stamp]
           x  == [c.idx EXCEPT !.active = a]
           m  == [c EXCEPT !.idx = x]
           d1 == Apply(c.img, PutActive(p))
           d2 == Apply(d1, PutIndex(x))
<1>1. c.idx \in Index /\ c.img \in Disk /\ Numbered(c.idx) /\ Bears(c.img, D, up, N)
  BY SteadyParts
<1>2. p \in Payload /\ a \in Active
  BY DEF Payload, Active, Work
<1>3. x \in Index /\ x.active = a /\ x.carried = c.idx.carried /\ x.next = c.idx.next
  BY <1>1, <1>2 DEF Index
<1>4. a.source = None /\ a.session = s /\ p.doc = doc /\ p.source = None /\ p # None /\ a # None
  BY <1>2, ValuesAssumption
<1>5. m = [c EXCEPT !.idx.active = a]
  OBVIOUS
<1> HIDE DEF a, p, x
<1>6. Numbered(x) /\ ValidIndex(x) /\ PutActive(p) \in Puts /\ PutIndex(x) \in Puts
  BY <1>1, <1>2, <1>3, <1>4, ValidIsNumbered, PutKinds DEF Numbered
<1>7. Steady(m, D, up, N) /\ m.idx = x /\ m.img = c.img
  BY <1>3, <1>4, <1>6, ReindexSteady
<1>8. \A y \in D : Backed(c.img, y.work) \/ (p.doc \in y.work /\ Guards(c.img, y.by, up))
  BY <1>4 DEF Guards, Own
<1>9. /\ Bears(d1, D, up, N) /\ d1.index = c.img.index /\ d1.active = p
      /\ \A o : Backed(d1, o) <=> Backed(c.img, o)
  BY <1>1, <1>2, <1>4, <1>8, ActiveBears
<1> HIDE DEF d1, m
<1>10. \A y \in D : \/ Backed(d1, y.work)
                    \/ Fills(d1, y.work) /\ x.active # None /\ x.active.session = y.by
  BY <1>3, <1>4, <1>9 DEF Fills
<1>11. /\ Bears(d2, D, up, N) /\ d2.index = x /\ d2.active = p
  BY <1>3, <1>4, <1>9, <1>10, IndexBears
<1> HIDE DEF d2
<1> DEFINE e1 == Emit(m, PutActive(p))
           e2 == Emit(e1, PutIndex(x))
<1>12. Steady(e1, D, up, N) /\ e1.idx = x /\ e1.img = d1
  BY <1>6, <1>7, <1>9, EmitSteady DEF d1
<1> HIDE DEF e1
<1>13. Steady(e2, D, up, N) /\ e2.idx = x /\ e2.img = d2
  BY <1>6, <1>11, <1>12, EmitSteady DEF d2
<1>14. CommitIndex(e1) = e2
  BY <1>6, <1>12 DEF CommitIndex
<1> HIDE DEF e2
<1>15. Fills(d2, {doc}) /\ Own(d2, s) /\ d2.active # None
  BY <1>3, <1>4, <1>11, ValuesAssumption DEF Fills, Own, Named
<1> QED
  BY <1>3, <1>4, <1>5, <1>13, <1>14, <1>15 DEF e1, a, p

(* A foreign slot may have no id to go to.                                 *)
LEMMA SnapshotSteady ==
  ASSUME NEW D, NEW up, NEW N, Bears(disk, D, up, N), IndexSound, disk.index # Corrupt,
         NEW s \in Session, s \notin N, s \in up, NEW doc \in Doc, NEW stamp \in Stamp,
         \A y \in D : y.by = s => doc \in y.work
  PROVE  LET e == TakeSnapshot(Draft(CurrentIndex), s, doc, stamp)
         IN \/ e \in Drafts /\ ~e.ok /\ e.plan = << >>
            \/ /\ Steady(e, D, up, N) /\ e.idx.active # None
               /\ e.img.active # None /\ Fills(e.img, {doc}) /\ Own(e.img, s)
<1> DEFINE x == CurrentIndex
           r == Draft(x)
           c == IF r.idx.active # None /\ r.idx.active.session # s THEN CarryActive(r) ELSE r
           a == [session |-> s, source |-> None]
           p == [doc |-> doc, session |-> s, source |-> None, stamp |-> stamp]
           e == TakeSnapshot(r, s, doc, stamp)
<1>1. /\ disk \in Disk /\ x \in Index /\ ValidIndex(x) /\ Numbered(x)
      /\ Named(disk) => x = disk.index /\ disk.active \in Payload
      /\ ~Named(disk) => x.active = None
  BY CurrentParts DEF Bears
<1>2. x.active # None => x.active.source = None
  BY <1>1 DEF Bears, Plain
<1>3. Steady(r, D, up, N) /\ r.idx = x /\ r.img = disk /\ r.plan = << >> /\ r.ok
  BY <1>1, <1>2, DraftSteady
<1> HIDE DEF r, x
<1>4. Named(disk) => x.active # None /\ disk.active # None
  BY <1>1, NoIdNone DEF Named
<1>5. ASSUME Steady(c, D, up, N),
             \A y \in D : \/ Backed(c.img, y.work)
                          \/ doc \in y.work /\ y.by = s /\ Own(c.img, s)
      PROVE  /\ Steady(e, D, up, N) /\ e.idx.active # None
             /\ e.img.active # None /\ Fills(e.img, {doc}) /\ Own(e.img, s)
  <2>1. c.ok /\ (c.idx.active # None => c.idx.active.source = None)
    BY <1>5, SteadyParts
  <2>2. e = CommitIndex(Emit([c EXCEPT !.idx.active = a], PutActive(p)))
    BY <2>1 DEF TakeSnapshot
  <2> DEFINE f == CommitIndex(Emit([c EXCEPT !.idx.active = a], PutActive(p)))
  <2> HIDE DEF c, e
  <2>3. /\ Steady(f, D, up, N) /\ f.idx.active = a /\ a # None
        /\ f.img.active # None /\ Fills(f.img, {doc}) /\ Own(f.img, s)
    BY <1>5, StoreSteady
  <2> HIDE DEF f, a
  <2>4. e = f
    BY <2>2 DEF f, a
  <2> QED
    BY <2>3, <2>4
<1>6. CASE ~Named(disk)
  <2>1. c = r
    BY <1>1, <1>3, <1>6
  <2>2. \A y \in D : Backed(disk, y.work)
    BY <1>6 DEF Bears, Firm, Guards
  <2> HIDE DEF c, e
  <2> QED
    BY <1>3, <1>5, <2>1, <2>2 DEF e, r, x
<1>7. CASE Own(disk, s)
  <2>1. c = r /\ Named(disk)
    BY <1>1, <1>3, <1>7 DEF Own
  <2>2. ASSUME NEW y \in D, ~Backed(disk, y.work)
        PROVE  doc \in y.work /\ y.by = s
    <3>1. Guards(disk, y.by, up)
      BY <2>2 DEF Bears, Firm
    <3> QED
      BY <1>7, <3>1 DEF Guards, Own, Named
  <2> HIDE DEF c, e
  <2> QED
    BY <1>3, <1>5, <1>7, <2>1, <2>2 DEF e, r, x
<1>8. CASE Named(disk) /\ ~Own(disk, s)
  <2>1. x = disk.index /\ x.active # None /\ x.active.session # s /\ disk.active # None
    BY <1>1, <1>4, <1>8 DEF Own
  <2> DEFINE t == CarryActive(r)
  <2>2. c = t
    BY <1>3, <2>1
  <2>3. \/ t = Failed(r)
        \/ /\ Steady(t, D, up, N)
           /\ \A o : Backed(r.img, o) \/ Fills(r.img, o) => Backed(t.img, o)
    BY <1>3, <2>1, CarrySteady
  <2>4. CASE t = Failed(r)
    <3>1. t \in Drafts /\ ~t.ok /\ t.plan = << >>
      BY <1>3, <2>4, FailedParts, SteadyParts
    <3>2. e = t
      BY <2>2, <3>1 DEF TakeSnapshot
    <3> HIDE DEF t, e
    <3> QED
      BY <3>1, <3>2 DEF e, r, x
  <2>5. CASE /\ Steady(t, D, up, N)
             /\ \A o : Backed(r.img, o) \/ Fills(r.img, o) => Backed(t.img, o)
    <3>1. \A y \in D : Backed(t.img, y.work)
      BY <1>3, <2>5 DEF Bears, Firm
    <3> HIDE DEF c, t, e
    <3> QED
      BY <1>5, <2>2, <2>5, <3>1 DEF e, r, x
  <2> QED
    BY <2>3, <2>4, <2>5
<1> QED
  BY <1>6, <1>7, <1>8

-----------------------------------------------------------------------------
(* The plans.                                                              *)

LEMMA AutosaveReaches ==
  ASSUME NEW D, NEW up, NEW N, Bears(disk, D, up, N), IndexSound, disk.index # Corrupt,
         NEW s \in Session, s \notin N, s \in up, NEW doc \in Doc, NEW stamp \in Stamp,
         \A y \in D : y.by = s => doc \in y.work
  PROVE  LET e == TakeSnapshot(Draft(CurrentIndex), s, doc, stamp)
             G == IF e.ok THEN {d \in Disk : Fills(d, {doc}) /\ Own(d, s)} ELSE Disk
         IN Reaches(disk, e.plan, Bearing(D, up, N), G)
<1> DEFINE e == TakeSnapshot(Draft(CurrentIndex), s, doc, stamp)
<1>1. \/ ~e.ok /\ e.plan = << >>
      \/ Steady(e, D, up, N) /\ Fills(e.img, {doc}) /\ Own(e.img, s)
  BY SnapshotSteady
<1> HIDE DEF e
<1>2. disk \in Disk /\ disk \in Bearing(D, up, N)
  BY DEF Bears, Bearing
<1>3. CASE ~e.ok /\ e.plan = << >>
  <2>1. Reaches(disk, << >>, Bearing(D, up, N), Disk)
    BY <1>2, NothingReaches
  <2> QED
    BY <1>3, <2>1 DEF e
<1>4. CASE Steady(e, D, up, N) /\ Fills(e.img, {doc}) /\ Own(e.img, s)
  <2> DEFINE G == {d \in Disk : Fills(d, {doc}) /\ Own(d, s)}
  <2>1. e.ok /\ e.img \in G
    BY <1>4, SteadyParts
  <2> HIDE DEF G
  <2>2. Reaches(disk, e.plan, Bearing(D, up, N), G)
    BY <1>4, <2>1, SteadyReaches
  <2> QED
    BY <2>1, <2>2 DEF e, G
<1> QED
  BY <1>1, <1>3, <1>4

LEMMA ReplaceReaches ==
  ASSUME NEW D, NEW up, NEW N, Bears(disk, D, up, N), IndexSound, disk.index # Corrupt,
         NEW s \in Session, s \notin N, s \in up, NEW doc \in Doc, NEW stamp \in Stamp,
         \A y \in D : y.by = s => doc \in y.work
  PROVE  LET e == SetAside(TakeSnapshot(Draft(CurrentIndex), s, doc, stamp))
             G == IF e.ok THEN {d \in Disk : Backed(d, {doc})} ELSE Disk
         IN Reaches(disk, e.plan, Bearing(D, up, N), G)
<1> DEFINE r == TakeSnapshot(Draft(CurrentIndex), s, doc, stamp)
           e == SetAside(r)
           G == {d \in Disk : Backed(d, {doc})}
<1>1. \/ r \in Drafts /\ ~r.ok /\ r.plan = << >>
      \/ /\ Steady(r, D, up, N) /\ r.idx.active # None
         /\ r.img.active # None /\ Fills(r.img, {doc})
  BY SnapshotSteady
<1> HIDE DEF r
<1>2. disk \in Disk /\ disk \in Bearing(D, up, N)
  BY DEF Bears, Bearing
<1>3. CASE r \in Drafts /\ ~r.ok /\ r.plan = << >>
  <2>1. CarryActive(r) = r
    BY <1>3 DEF CarryActive
  <2>2. ~e.ok /\ e.plan = << >>
    BY <1>3, <2>1, StoppedParts DEF SetAside
  <2>3. Reaches(disk, << >>, Bearing(D, up, N), Disk)
    BY <1>2, NothingReaches
  <2> HIDE DEF e
  <2> QED
    BY <2>2, <2>3 DEF e, r
<1>4. CASE /\ Steady(r, D, up, N) /\ r.idx.active # None
           /\ r.img.active # None /\ Fills(r.img, {doc})
  <2>1. \A d \in Disk : (\A o : Backed(r.img, o) \/ Fills(r.img, o) => Backed(d, o)) => d \in G
    BY <1>4
  <2> HIDE DEF G
  <2>2. IF e.ok THEN Reaches(disk, e.plan, Bearing(D, up, N), G) ELSE e.plan = r.plan
    BY <1>4, <2>1, SetAsideReaches
  <2>3. r.img \in Disk
    BY <1>4, SteadyParts
  <2>4. Reaches(disk, r.plan, Bearing(D, up, N), Disk)
    BY <1>4, <2>3, SteadyReaches
  <2> HIDE DEF e
  <2> QED
    BY <2>2, <2>4 DEF e, G, r
<1> QED
  BY <1>1, <1>3, <1>4

(* What is in a slot of its own is not the process's to keep.              *)
LEMMA DiscardReaches ==
  ASSUME NEW D, NEW up, NEW N, Bears(disk, D, up, N), IndexSound,
         NEW s \in Session, s \in up, \A y \in D : y.by # s, NEW withSource \in BOOLEAN
  PROVE  Reaches(disk, DiscardPlan(s, withSource).plan, Bearing(D, up, N), Disk)
<1> DEFINE r    == Draft(CurrentIndex)
           a    == r.idx.active
           src  == IF withSource THEN a.source ELSE None
           gone == IF src = None THEN Unlink(r)
                   ELSE [Unlink(r) EXCEPT !.idx.carried[src] = Absent]
           done == Emit(CommitIndex(gone), PutActive(None))
           all  == DiscardPlan(s, withSource)
           B    == Bearing(D, up, N)
<1>1. disk \in Disk /\ disk \in B
  BY DEF Bears, Bearing
<1>2. r.plan = << >> /\ r.idx = CurrentIndex /\ r.img = disk /\ r.ok
  BY DEF Draft
<1>3. Reaches(disk, << >>, B, Disk)
  BY <1>1, NothingReaches
<1>4. CASE all.plan = << >>
  BY <1>3, <1>4
<1>5. CASE disk.index = None
  <2> DEFINE e == Apply(disk, DropLegacy)
             t == Emit(r, DropLegacy)
  <2>1. CurrentIndex = DefaultIndex /\ DefaultIndex \in Index /\ Numbered(DefaultIndex)
        /\ DefaultIndex.active = None
    BY <1>5, DefaultType, ValidIsNumbered DEF CurrentIndex, DefaultIndex
  <2>2. Steady(r, D, up, N)
    BY <2>1, DraftSteady
  <2>3. /\ DropLegacy \in Write /\ e \in Disk /\ e.index = disk.index
        /\ e.active = disk.active /\ e.cand = disk.cand
    BY <1>1, LegacyParts
  <2> HIDE DEF e
  <2>4. Bears(e, D, up, N)
    BY <2>3 DEF Bears, Plain, Named, Firm, Backed, Holds, Fills, Guards
  <2>5. Reaches(disk, t.plan, B, Disk)
    <3> HIDE DEF r
    <3> QED
      BY <1>1, <1>2, <2>2, <2>3, <2>4, RemovalReaches DEF e
  <2>6. all = t
    BY <1>5 DEF DiscardPlan
  <2> QED
    BY <2>5, <2>6
<1>6. CASE disk.index # None /\ disk.index = Corrupt
  <2>1. all = Failed(r)
    BY <1>6 DEF DiscardPlan
  <2>2. Failed(r).plan = << >>
    BY DEF Draft, Failed
  <2> QED
    BY <1>4, <2>1, <2>2
<1>7. CASE disk.index \notin {None, Corrupt} /\ ~Own(disk, s)
  BY <1>2, <1>4, <1>7 DEF DiscardPlan, Own, Named, CurrentIndex
<1>8. CASE Own(disk, s)
  <2>1. /\ disk.index \notin {None, Corrupt} /\ CurrentIndex = disk.index
        /\ CurrentIndex \in Index /\ Numbered(CurrentIndex)
        /\ a # None /\ a.session = s /\ a = disk.index.active /\ a.source = None
    BY <1>1, <1>2, <1>8, CurrentParts DEF Own, Named, Bears, Plain
  <2>2. Steady(r, D, up, N)
    BY <2>1, DraftSteady
  <2>3. src = None /\ all = done
    BY <2>1 DEF DiscardPlan
  <2>4. gone = Unlink(r)
    BY <2>3
  <2>5. \A y \in D : Backed(r.img, y.work)
    <3>1. ASSUME NEW y \in D PROVE ~Guards(disk, y.by, up)
      BY <2>1 DEF Guards, Named
    <3> QED
      BY <1>2, <3>1 DEF Bears, Firm
  <2> DEFINE t == Emit(CommitIndex(Unlink(r)), PutActive(None))
  <2>6. Reaches(disk, t.plan, B, Disk)
    <3> HIDE DEF r
    <3>1. \A e \in Disk : (\A o : Backed(r.img, o) => Backed(e, o)) => e \in Disk
      OBVIOUS
    <3> QED
      BY <2>2, <2>5, <3>1, EmptyReaches
  <2>7. all = t
    BY <2>3, <2>4
  <2> QED
    BY <2>6, <2>7
<1> QED
  BY <1>5, <1>6, <1>7, <1>8

(* A discarded candidate supports nothing that is left.                    *)
LEMMA DropReaches ==
  ASSUME NEW D, NEW up, NEW N, Bears(disk, D, up, N), IndexSound,
         disk.index \notin {None, Corrupt}, NEW c \in Id,
         DropCandidatePlan(c).ok => \A y \in D : ~Holds(disk, c, y.work)
  PROVE  Reaches(disk, DropCandidatePlan(c).plan, Bearing(D, up, N), Disk)
<1> DEFINE x  == [CurrentIndex EXCEPT !.carried[c] = Absent]
           f  == Draft(x)
           w  == PutCandidate(c, None)
           r  == DropCandidatePlan(c)
           d1 == Apply(disk, PutIndex(x))
           d2 == Apply(d1, w)
           e1 == Emit(f, PutIndex(x))
           e2 == Emit(e1, w)
<1>1. disk \in Disk /\ disk.cand[MaxId] = None /\ MaxId \in Id /\ Plain(disk)
  BY BoundsAssumption DEF Bears, Id
<1>2. CurrentIndex = disk.index /\ CurrentIndex \in Index /\ Numbered(CurrentIndex)
  BY <1>1, CurrentParts
<1>3. /\ x \in Index /\ x.active = disk.index.active /\ x.next = disk.index.next
      /\ \A i \in Id : x.carried[i] = IF i = c THEN Absent ELSE disk.index.carried[i]
  BY <1>2 DEF Index
<1>4. x.active # None => x.active.source = None /\ x.active.session \notin N /\ Named(disk)
  BY <1>1, <1>3 DEF Bears, Plain, Named
<1>5. Numbered(x)
  BY <1>2, <1>3 DEF Numbered
<1>6. r = Emit(CommitIndex(f), w)
  BY DEF DropCandidatePlan
<1> HIDE DEF r, x
<1>7. ValidIndex(x) /\ PutIndex(x) \in Puts
  BY <1>3, <1>4, <1>5, ValidIsNumbered, PutKinds
<1>8. Steady(f, D, up, N) /\ f.idx = x /\ f.img = disk /\ f.ok
  BY <1>3, <1>4, <1>5, DraftSteady
<1> HIDE DEF f
<1>9. \A y \in D : \/ Backed(disk, y.work)
                   \/ /\ Fills(disk, y.work) /\ x.active # None
                      /\ x.active.session \notin up \/ x.active.session = y.by
  BY <1>3 DEF Bears, Firm, Guards, Named
<1>10. /\ Bears(d1, D, up, N) /\ d1.index = x /\ d1.active = disk.active
       /\ d1.cand = disk.cand /\ d1 \in Disk
  <2>1. /\ Bears(d1, D, up, N) /\ d1.index = x /\ d1.active = disk.active
        /\ d1.cand = disk.cand
    BY <1>3, <1>4, <1>9, IndexBears
  <2> QED
    BY <2>1 DEF Bears
<1> HIDE DEF d1
<1>11. Steady(e1, D, up, N) /\ e1.img = d1
  BY <1>7, <1>8, <1>10, EmitSteady DEF d1
<1> HIDE DEF e1
<1>12. e2.ok /\ r = e2
  <2>1. r = e2
    BY <1>6, <1>7, <1>8 DEF CommitIndex, e1
  <2>2. e2.ok
    BY <1>11 DEF Steady, Emit
  <2> QED
    BY <2>1, <2>2
<1>13. \A y \in D : ~Holds(disk, c, y.work)
  BY <1>12 DEF r
<1>14. /\ w \in Write /\ d2 \in Disk /\ d2.index = x /\ d2.active = disk.active
       /\ \A i \in Id : d2.cand[i] = IF i = c THEN None ELSE disk.cand[i]
  BY <1>10, CandidateParts
<1> HIDE DEF d2, w
<1>15. ASSUME NEW y \in D PROVE Firm(d2, y, up)
  <2>1. CASE Backed(d1, y.work)
    <3>1. PICK k \in Id : Holds(d1, k, y.work)
      BY <2>1 DEF Backed
    <3>2. k # c
      BY <1>10, <1>13, <3>1 DEF Holds
    <3> QED
      BY <1>10, <1>14, <3>1, <3>2 DEF Firm, Backed, Holds
  <2>2. CASE Fills(d1, y.work) /\ Guards(d1, y.by, up)
    BY <1>10, <1>14, <2>2 DEF Firm, Fills, Guards, Named
  <2> QED
    BY <1>10, <2>1, <2>2 DEF Bears, Firm
<1>16. Bears(d2, D, up, N)
  <2>1. Plain(d2) /\ (Named(d2) => d2.index.active.session \notin N)
    BY <1>1, <1>3, <1>4, <1>14 DEF Plain, Named
  <2>2. d2.cand[MaxId] = None
    BY <1>1, <1>14
  <2> QED
    BY <1>14, <1>15, <2>1, <2>2 DEF Bears
<1>17. Reaches(disk, e2.plan, Bearing(D, up, N), Disk)
  BY <1>10, <1>11, <1>14, <1>16, RemovalReaches DEF d2
<1> QED
  BY <1>12, <1>17 DEF r

-----------------------------------------------------------------------------
(* A start.                                                                *)

LEMMA ImportSteady ==
  ASSUME NEW r, NEW D, NEW up, NEW N, Steady(r, D, up, N), r.img = disk
  PROVE  LET e == ImportLegacy(r)
         IN \/ e = Failed(r)
            \/ /\ Steady(e, D, up, N) /\ e.idx.active = r.idx.active
               /\ e.img.index = disk.index /\ e.img.active = disk.active
               /\ \A o : Backed(disk, o) => Backed(e.img, o)
<1> DEFINE e == ImportLegacy(r)
           p == [doc |-> disk.legacy, session |-> None, source |-> None,
                 stamp |-> CHOOSE t \in Stamp : TRUE]
<1>1. disk \in Disk
  BY SteadyParts
<1>2. CASE disk.legacy = None
  BY <1>2 DEF ImportLegacy
<1>3. CASE disk.legacy # None
  <2>1. p \in Payload
    <3>1. (CHOOSE t \in Stamp : TRUE) \in Stamp
      BY ValuesAssumption
    <3> QED
      BY <1>1, <1>3, <3>1 DEF Disk, Payload, Work
  <2> DEFINE f == AddCandidate(r, p, None)
  <2>2. e = f
    BY <1>3 DEF ImportLegacy
  <2> HIDE DEF p
  <2>3. \/ f = Failed(r)
        \/ /\ Steady(f, D, up, N) /\ f.idx.active = r.idx.active
           /\ f.img.index = r.img.index /\ f.img.active = r.img.active
           /\ \A o : Backed(r.img, o) \/ p.doc \in o => Backed(f.img, o)
    BY <2>1, AddSteady
  <2> HIDE DEF f, e
  <2> QED
    BY <2>2, <2>3 DEF e
<1> QED
  BY <1>2, <1>3

LEMMA StartReaches ==
  ASSUME NEW D, NEW up, NEW N, Bears(disk, D, up, N), IndexSound
  PROVE  Reaches(disk, StartPlan.plan, Bearing(D, up, N), Disk)
<1> DEFINE valid == disk.index \notin {None, Corrupt}
           base  == IF valid THEN disk.index ELSE DefaultIndex
           y     == Reconcile(base, disk)
           found == Draft(y)
           r     == IF valid THEN found ELSE ImportLegacy(found)
           none  == CommitIndex(r)
           clear == Emit(CommitIndex(Unlink(r)), PutActive(None))
           aside == SetAside(r)
           B     == Bearing(D, up, N)
<1>1. disk \in Disk /\ disk.cand[MaxId] = None /\ Tied(disk, N) /\ LinkOf(disk) = None
      /\ disk \in B
  BY DEF Bears, Bearing, Plain, Tied, LinkOf
<1>2. /\ base \in Index /\ Numbered(base)
      /\ Named(disk) => base = disk.index
      /\ ~Named(disk) => base.active = None
  <2>1. CASE valid
    BY <1>1, <2>1, ValidIsNumbered DEF Disk, IndexSound, Named
  <2>2. CASE ~valid
    BY <2>2, DefaultType, ValidIsNumbered DEF Named, DefaultIndex
  <2> QED
    BY <2>1, <2>2
<1>3. StartPlan =
        IF ~r.ok \/ (disk.index = None /\ r.idx = DefaultIndex) THEN r
        ELSE IF r.idx.active = None THEN none
        ELSE IF r.idx.active.session # None /\ Live(r.idx.active.session) THEN r
        ELSE IF AlreadyCarried(r) THEN clear ELSE aside
  BY DEF StartPlan
<1> HIDE DEF base
<1>4. /\ y \in Index /\ Numbered(y)
      /\ disk.active = None <=> y.active = None
      /\ disk.active # None => y.active.source = None
  BY <1>1, <1>2, ReconcileParts
<1>5. Steady(found, D, up, N) /\ found.idx = y /\ found.img = disk /\ found.plan = << >>
  BY <1>4, DraftSteady
<1> HIDE DEF found, y
<1>6. \/ ~r.ok /\ r.plan = << >>
      \/ /\ Steady(r, D, up, N) /\ r.idx.active = y.active
         /\ r.img.active = disk.active
         /\ \A o : Backed(disk, o) => Backed(r.img, o)
  <2>1. CASE valid
    BY <1>5, <2>1
  <2>2. CASE ~valid
    <3> DEFINE e == ImportLegacy(found)
    <3>1. r = e
      BY <2>2
    <3>2. \/ e = Failed(found)
          \/ /\ Steady(e, D, up, N) /\ e.idx.active = found.idx.active
             /\ e.img.index = disk.index /\ e.img.active = disk.active
             /\ \A o : Backed(disk, o) => Backed(e.img, o)
      BY <1>5, ImportSteady
    <3>3. e = Failed(found) => ~e.ok /\ e.plan = << >>
      BY <1>5, SteadyParts, FailedParts
    <3> HIDE DEF r, e
    <3> QED
      BY <1>5, <3>1, <3>2, <3>3
  <2> QED
    BY <2>1, <2>2
<1> HIDE DEF r
<1>7. Reaches(disk, << >>, B, Disk)
  BY <1>1, NothingReaches
<1>8. CASE ~r.ok /\ r.plan = << >>
  BY <1>3, <1>7, <1>8
<1>9. CASE /\ Steady(r, D, up, N) /\ r.idx.active = y.active
           /\ r.img.active = disk.active
           /\ \A o : Backed(disk, o) => Backed(r.img, o)
  <2>1. r.img \in Disk /\ Bears(r.img, D, up, N) /\ r.ok
    BY <1>9, SteadyParts
  <2>2. Reaches(disk, r.plan, B, Disk)
    BY <1>9, <2>1, SteadyReaches
  <2>3. CASE r.idx.active = None
    <3>1. \A o \in D : Backed(r.img, o.work)
      BY <1>4, <1>9, <2>1, <2>3 DEF Bears, Firm, Fills
    <3>2. Steady(none, D, up, N)
      BY <1>9, <2>3, <3>1, CommitSteady
    <3> HIDE DEF none
    <3>3. none.img \in Disk
      BY <3>2, SteadyParts
    <3>4. Reaches(disk, none.plan, B, Disk)
      BY <3>2, <3>3, SteadyReaches
    <3> QED
      BY <1>3, <2>2, <2>3, <3>4
  <2>4. CASE r.idx.active # None /\ AlreadyCarried(r)
    <3>1. PICK i \in Id : r.img.cand[i] = r.img.active
      BY <2>4 DEF AlreadyCarried
    <3>2. r.img.active # None
      BY <1>4, <1>9, <2>4
    <3>3. \A o \in D : Backed(r.img, o.work)
      BY <2>1, <3>1, <3>2 DEF Bears, Firm, Fills, Backed, Holds
    <3>4. \A e \in Disk : (\A o : Backed(r.img, o) => Backed(e, o)) => e \in Disk
      OBVIOUS
    <3>5. Reaches(disk, clear.plan, B, Disk)
      BY <1>9, <3>3, <3>4, EmptyReaches
    <3> HIDE DEF clear
    <3> QED
      BY <1>3, <2>2, <2>4, <3>5
  <2>5. CASE r.idx.active # None /\ ~AlreadyCarried(r)
    <3>1. r.img.active # None
      BY <1>4, <1>9, <2>5
    <3>2. \A e \in Disk : (\A o : Backed(r.img, o) \/ Fills(r.img, o) => Backed(e, o))
                          => e \in Disk
      OBVIOUS
    <3>3. IF aside.ok THEN Reaches(disk, aside.plan, B, Disk) ELSE aside.plan = r.plan
      BY <1>9, <2>5, <3>1, <3>2, SetAsideReaches
    <3> HIDE DEF aside
    <3> QED
      BY <1>3, <2>2, <2>5, <3>3
  <2> QED
    BY <2>3, <2>4, <2>5
<1> QED
  BY <1>6, <1>8, <1>9

(* A slot is not that of a process that has not started.                   *)
LEMMA BearsBorn ==
  ASSUME NEW d, NEW D, NEW up, NEW N, Bears(d, D, up, N), NEW s \in N
  PROVE  Bears(d, D, up \union {s}, N \ {s})
BY DEF Bears, Firm, Guards

(* The first start of all, on the autosave of an old version: it gets the  *)
(* first id, and the index after it.                                       *)
Untouched(d) ==
  /\ d.index = None /\ d.active = None /\ d.legacy # None
  /\ \A i \in Id : d.cand[i] = None

LEMMA FirstStart ==
  ASSUME disk \in Disk, Untouched(disk), MaxId > 1, NEW D, NEW up, NEW N,
         \A y \in D : disk.legacy \in y.work
  PROVE  LET r == StartPlan
         IN /\ r.ok /\ r.plan # << >> /\ r.plan \in Seq(Write)
            /\ Reaches(Apply(disk, r.plan[1]), Tail(r.plan), Bearing(D, up, N), Disk)
<1> DEFINE y     == Reconcile(DefaultIndex, disk)
           found == Draft(y)
           p     == [doc |-> disk.legacy, session |-> None, source |-> None,
                     stamp |-> CHOOSE t \in Stamp : TRUE]
           k     == LeastOf(FreeIds(found))
           x     == Carrying(y, k, None)
           w1    == PutCandidate(k, p)
           m     == [found EXCEPT !.idx = x]
           w2    == PutIndex(x)
           d1    == Apply(disk, w1)
           d2    == Apply(d1, w2)
           e1    == Emit(m, w1)
           e2    == Emit(e1, w2)
<1>1. /\ DefaultIndex \in Index /\ DefaultIndex.active = None /\ DefaultIndex.next = 1
      /\ Numbered(DefaultIndex) /\ \A i \in Id : DefaultIndex.carried[i] = Absent
  BY DefaultType, ValidIsNumbered DEF DefaultIndex
<1>2. MaxId \in Id /\ MaxId \in Nat /\ 1 \in Id /\ disk.cand[MaxId] = None
  BY BoundsAssumption DEF Id, Untouched
<1>3. ~Named(disk) /\ \A M : Tied(disk, M)
  BY DEF Untouched, Named, Tied
<1>4. /\ y \in Index /\ Numbered(y) /\ y.active = None
      /\ \A i \in Id : y.carried[i] = Absent
  BY <1>1, <1>2, <1>3, ReconcileParts DEF Untouched
<1>5. y.next = 1
  <2> DEFINE held == {i \in Id : disk.cand[i] # None}
             S    == {n \in 1 .. (1 + MaxId + 1) : \A i \in held : i < n}
  <2>1. y.next = LeastOf(S)
    BY <1>1 DEF Reconcile
  <2>2. 1 \in S /\ S \in SUBSET Nat /\ \A n \in S : n >= 1
    BY <1>2 DEF Untouched
  <2> HIDE DEF S
  <2>3. LeastOf(S) \in S /\ LeastOf(S) <= 1
    BY <2>2, LeastNat
  <2>4. LeastOf(S) \in Nat /\ LeastOf(S) >= 1
    BY <2>2, <2>3
  <2>5. LeastOf(S) = 1
    BY <2>3, <2>4
  <2> QED
    BY <2>1, <2>5
<1> HIDE DEF y
<1>6. found \in Drafts /\ found.idx = y /\ found.img = disk /\ found.plan = << >> /\ found.ok
  BY <1>4, DraftSound DEF Sound, Draft
<1> HIDE DEF found
<1>7. FreeIds(found) = Id
  BY <1>4, <1>5, <1>6, BoundsAssumption DEF FreeIds, Id, Untouched
<1>8. k \in Id /\ k < MaxId /\ k \in Nat /\ k # MaxId
  <2>1. Id \in SUBSET Nat /\ Id # {}
    BY <1>2 DEF Id
  <2>2. LeastOf(Id) \in Id /\ LeastOf(Id) <= 1
    BY <1>2, <2>1, LeastNat
  <2>3. k = LeastOf(Id)
    BY <1>7
  <2> HIDE DEF k
  <2>4. k \in Id /\ k \in Nat /\ k <= 1
    BY <2>1, <2>2, <2>3
  <2> QED
    BY <1>2, <2>4
<1>9. \E i \in FreeIds(found) : i < MaxId
  BY <1>2, <1>7
<1>10. p \in Payload /\ p.doc = disk.legacy
  <2>1. (CHOOSE t \in Stamp : TRUE) \in Stamp
    BY ValuesAssumption
  <2> QED
    BY <2>1 DEF Disk, Payload, Work, Untouched
<1>11. ImportLegacy(found) = e1
  BY <1>6, <1>9 DEF ImportLegacy, AddCandidate, Untouched
<1> HIDE DEF k, p
<1>12. k >= y.next
  BY <1>5, <1>8, BoundsAssumption DEF Id
<1>13. x \in Index /\ Numbered(x) /\ x.active = None
  BY <1>4, <1>8, <1>12, CarryingParts
<1>14. x.next = k + 1 /\ x.next # DefaultIndex.next
  <2>1. x.next = k + 1
    BY DEF Carrying
  <2> HIDE DEF x
  <2>2. k >= 1
    BY <1>8 DEF Id
  <2> QED
    BY <1>1, <1>8, <2>1, <2>2
<1> HIDE DEF x
<1>15. ValidIndex(x) /\ w1 \in Write /\ w2 \in Write /\ w2 \in Puts
  BY <1>8, <1>10, <1>13, ValidIsNumbered, WriteKinds, PutKinds
<1>16. /\ d1 \in Disk /\ d1.index = None /\ d1.active = None
       /\ \A c \in Id : d1.cand[c] = IF c = k THEN p ELSE disk.cand[c]
  BY <1>8, <1>10, CandidateParts DEF Untouched
<1>17. m \in Drafts /\ m.plan = << >> /\ m.ok /\ m.idx = x /\ m.img = disk
  BY <1>6, <1>13 DEF Drafts
<1> HIDE DEF m, w1, d1
<1>18. e1 \in Drafts /\ e1.ok /\ e1.idx = x /\ e1.plan = Append(<< >>, w1)
  BY <1>15, <1>17, EmitPlan
<1> HIDE DEF e1
<1> HIDE DEF w2
<1>19. e2.ok /\ e2.plan = Append(Append(<< >>, w1), w2)
  BY <1>15, <1>18, EmitPlan
<1>20. StartPlan = e2
  <2>1. StartPlan = CommitIndex(e1)
    <3>1. ~(~e1.ok \/ (disk.index = None /\ e1.idx = DefaultIndex)) /\ e1.idx.active = None
      BY <1>13, <1>14, <1>18
    <3> QED
      BY <1>11, <3>1 DEF StartPlan, Untouched, found, y
  <2> QED
    BY <1>15, <1>18, <2>1 DEF CommitIndex, w2
<1> HIDE DEF e2
<1>21. ASSUME NEW z \in D PROVE Backed(d1, z.work)
  BY <1>8, <1>10, <1>16, NoIdNone DEF Backed, Holds
<1>22. Bears(d1, D, up, N)
  BY <1>2, <1>8, <1>16, <1>21 DEF Bears, Plain, Named, Firm
<1>23. Bears(d2, D, up, N)
  BY <1>13, <1>21, <1>22, IndexBears DEF w2
<1>24. d1 \in Bearing(D, up, N) /\ d2 \in Bearing(D, up, N) /\ d2 \in Disk
  BY <1>22, <1>23 DEF Bears, Bearing
<1> HIDE DEF d2
<1> DEFINE q == Append(<< >>, w2)
<1>25. /\ e2.plan \in Seq(Write) /\ e2.plan # << >> /\ e2.plan[1] = w1
       /\ Tail(e2.plan) = q
  <2> DEFINE v == << >>
             q1 == Append(v, w1)
  <2>1. v \in Seq(Write)
    OBVIOUS
  <2>2. v = << >>
    OBVIOUS
  <2> HIDE DEF v
  <2>3. q1 \in Seq(Write) /\ q1 # << >> /\ q1[1] = w1 /\ Tail(q1) = << >>
    BY <1>15, <2>1, <2>2, AppendFacts, AppendTail
  <2>4. e2.plan = Append(q1, w2)
    BY <1>19, <2>2
  <2> HIDE DEF q1
  <2>5. /\ Append(q1, w2) \in Seq(Write) /\ Append(q1, w2) # << >>
        /\ Append(q1, w2)[1] = q1[1] /\ Tail(Append(q1, w2)) = Append(Tail(q1), w2)
    BY <1>15, <2>3, AppendFacts, AppendTail
  <2> QED
    BY <2>3, <2>4, <2>5
<1>26. Through(d1, q, d2, Bearing(D, up, N), Puts)
  <2>1. Through(d1, << >>, d1, Bearing(D, up, N), Puts) /\ << >> \in Seq(Write)
    BY <1>24, ThroughStarts
  <2> QED
    BY <1>15, <1>24, <2>1, ThroughOn DEF d2
<1>27. Reaches(d1, q, Bearing(D, up, N), Disk)
  BY <1>24, <1>26 DEF Reaches
<1> QED
  BY <1>19, <1>20, <1>25, <1>27 DEF d1

-----------------------------------------------------------------------------
(* The invariant.                                                          *)

Alive == {t \in Session : Live(t)}

(* What operation t leaves when it returns.                                *)
Promised(t) ==
  {d \in Disk :
     t.ok => /\ t.op = "autosave"
                => Backed(d, {t.doc}) \/ (Fills(d, {t.doc}) /\ Own(d, t.who))
             /\ t.op = "replace" => Backed(d, {t.doc})}

Working ==
  tx # None => /\ Live(tx.who) /\ tx.op # "restore"
               /\ tx.op = "autosave" => mem[tx.who].dirty

Resting == tx = None => Bears(disk, Dues(shelf, mine), Alive, Unborn)

Running ==
  tx # None
  => Reaches(disk, tx.plan, Bearing(Dues(shelf, mine), Alive, Unborn), Promised(tx))

(* Nothing has happened yet, or the first start is about to write.         *)
Pristine ==
  /\ Untouched(disk) /\ Legacy # {} /\ MaxId > 1
  /\ shelf = {{disk.legacy}} /\ \A t \in Session : mine[t] = {}
  /\ tx = None => \A t \in Session : ~Live(t)
  /\ tx # None
     => /\ tx.op = "start" /\ tx.plan # << >>
        /\ \A t \in Session : Live(t) => t = tx.who
        /\ Reaches(Apply(disk, tx.plan[1]), Tail(tx.plan),
                   Bearing(Dues(shelf, mine), Alive, Unborn), Promised(tx))

Shared == OnlyDirty /\ Working /\ (Pristine \/ (Resting /\ Running))

LEMMA DueKinds ==
  ASSUME NEW sh, NEW m, NEW y \in Dues(sh, m)
  PROVE  \/ y.work \in sh /\ y.by = None
         \/ y.by \in Session /\ m[y.by] # {} /\ y.work = m[y.by]
BY DEF Dues

LEMMA DueOf ==
  ASSUME NEW sh, NEW m
  PROVE  /\ \A o \in sh : \E x \in Dues(sh, m) : x.work = o /\ x.by = None
         /\ \A t \in Session : m[t] # {} => \E x \in Dues(sh, m) : x.work = m[t] /\ x.by = t
<1>1. ASSUME NEW o \in sh PROVE \E x \in Dues(sh, m) : x.work = o /\ x.by = None
  <2>1. [work |-> o, by |-> None] \in Dues(sh, m)
    BY DEF Dues
  <2> QED
    BY <2>1
<1>2. ASSUME NEW t \in Session, m[t] # {}
      PROVE  \E x \in Dues(sh, m) : x.work = m[t] /\ x.by = t
  <2>1. [work |-> m[t], by |-> t] \in Dues(sh, m)
    BY <1>2 DEF Dues
  <2> QED
    BY <2>1
<1> QED
  BY <1>1, <1>2

LEMMA LessCovers ==
  ASSUME NEW sh, NEW m, NEW left \in SUBSET sh, NEW n,
         \A t \in Session : (m[t] \subseteq n[t] /\ (m[t] = {} => n[t] = {})) \/ n[t] = {},
         NEW few
  PROVE  Covers(Dues(sh, m), Dues(left, n), few)
<1>1. ASSUME NEW y \in Dues(left, n)
      PROVE  \E x \in Dues(sh, m) : x.work \subseteq y.work /\ x.by = y.by
  <2>1. CASE y.work \in left /\ y.by = None
    BY <2>1, DueOf
  <2>2. CASE y.by \in Session /\ n[y.by] # {} /\ y.work = n[y.by]
    <3>1. m[y.by] \subseteq n[y.by] /\ m[y.by] # {}
      BY <2>2
    <3> QED
      BY <2>2, <3>1, DueOf
  <2> QED
    BY <2>1, <2>2, DueKinds
<1> QED
  BY <1>1 DEF Covers

LEMMA GoneCovers ==
  ASSUME IInv, NEW s \in Session, Gone(s)
  PROVE  /\ Alive' = Alive \ {s} /\ Unborn' \subseteq Unborn
         /\ Covers(Dues(shelf, mine), Dues(shelf', mine'), Alive')
<1>1. /\ life \in [Session -> {"new", "up", "down"}] /\ mine \in [Session -> SUBSET Doc]
      /\ life' = [life EXCEPT ![s] = "down"] /\ mine' = [mine EXCEPT ![s] = {}]
  BY Parts DEF StoreOK, OwedOK, Gone
<1>2. Alive' = Alive \ {s} /\ Unborn' \subseteq Unborn
  BY <1>1 DEF Alive, Unborn, Live
<1>3. \A o \in shelf' : o \in shelf \/ (o = mine[s] /\ mine[s] # {})
  BY DEF Gone, Shelved
<1>4. ASSUME NEW y \in Dues(shelf', mine')
      PROVE  \E x \in Dues(shelf, mine) :
               x.work \subseteq y.work /\ (x.by = y.by \/ x.by \notin Alive')
  <2>1. CASE y.work \in shelf' /\ y.by = None
    <3>1. CASE y.work \in shelf
      BY <2>1, <3>1, DueOf
    <3>2. CASE y.work = mine[s] /\ mine[s] # {}
      BY <1>2, <3>2, DueOf
    <3> QED
      BY <1>3, <2>1, <3>1, <3>2
  <2>2. CASE y.by \in Session /\ mine'[y.by] # {} /\ y.work = mine'[y.by]
    <3>1. mine'[y.by] = mine[y.by]
      BY <1>1, <2>2
    <3> QED
      BY <2>2, <3>1, DueOf
  <2> QED
    BY <2>1, <2>2, DueKinds
<1> QED
  BY <1>2, <1>4 DEF Covers

LEMMA BearingLess ==
  ASSUME NEW D, NEW up, NEW N, NEW few, few \subseteq up, NEW M, M \subseteq N,
         NEW E, Covers(D, E, few)
  PROVE  Bearing(D, up, N) \subseteq Bearing(E, few, M)
BY BearsLess DEF Bearing

-----------------------------------------------------------------------------
(* Nobody but the first process is there while nothing has happened.       *)
LEMMA BusyRests ==
  ASSUME Shared, NEW s \in Session, Live(s), tx # None => tx.who # s
  PROVE  Resting /\ Running
BY DEF Shared, Pristine

LEMMA IdleBears ==
  ASSUME IInv, Shared, NEW s \in Session, Idle(s)
  PROVE  /\ Live(s) /\ tx = None /\ s \notin Unborn /\ s \in Alive
         /\ Bears(disk, Dues(shelf, mine), Alive, Unborn)
         /\ disk \in Disk /\ IndexSound
         /\ mem[s].doc \in Doc /\ mem[s].dirty \in BOOLEAN
         /\ mine \in [Session -> SUBSET Doc]
<1>1. Live(s) /\ tx = None
  BY DEF Idle
<1>2. Bears(disk, Dues(shelf, mine), Alive, Unborn)
  BY <1>1, BusyRests DEF Resting
<1>3. disk \in Disk /\ IndexSound /\ mine \in [Session -> SUBSET Doc]
      /\ mem[s].doc \in Doc /\ mem[s].dirty \in BOOLEAN
  BY Parts DEF StoreOK, OwedOK
<1> QED
  BY <1>1, <1>2, <1>3 DEF Alive, Unborn, Live

LEMMA BeginShared ==
  ASSUME IInv, NEW s \in Session, NEW op \in Operations, op # "restore",
         NEW c \in Id \union {None}, NEW r, Ready(r), Begin(s, op, c, r), disk' = disk,
         Live(s)', OnlyDirty', op = "autosave" => mem'[s].dirty,
         NEW G, Reaches(disk, r.plan, Bearing(Dues(shelf', mine'), Alive', Unborn'), G),
         G \subseteq Promised(tx')
  PROVE  Shared'
<1>1. tx' \in Transaction
  BY Parts, BeginOK
<1>2. tx'.who = s /\ tx'.op = op /\ tx'.plan = r.plan /\ r.plan \in Seq(Write)
  BY DEF Begin, Ready
<1>3. tx' # None
  BY <1>1, TransactionAssumption
<1>4. Resting'
  BY <1>3 DEF Resting
<1>5. Working'
  BY <1>2 DEF Working
<1>6. Running'
  <2> DEFINE H == Promised(tx')
             S == Bearing(Dues(shelf', mine'), Alive', Unborn')
  <2>1. G \subseteq H /\ Reaches(disk, r.plan, S, G)
    OBVIOUS
  <2> HIDE DEF H, S
  <2>2. Reaches(disk, r.plan, S, H)
    BY <1>2, <2>1, ReachesLess
  <2> QED
    BY <1>2, <2>2 DEF Running, H, S
<1> QED
  BY <1>4, <1>5, <1>6 DEF Shared

(* An autosave or a replacement widens what the process owes.              *)
LEMMA WidenedDues ==
  ASSUME IInv, NEW s \in Session
  PROVE  /\ \A few : Covers(Dues(shelf, mine), Dues(shelf, Widened(s)), few)
         /\ \A y \in Dues(shelf, Widened(s)) : y.by = s => mem[s].doc \in y.work
<1>1. /\ Widened(s)[s] = More(mine[s], mem[s].doc)
      /\ \A t \in Session \ {s} : Widened(s)[t] = mine[t]
  BY WidenedParts
<1>2. \A t \in Session : mine[t] \subseteq Widened(s)[t] /\ (mine[t] = {} => Widened(s)[t] = {})
  BY <1>1 DEF More
<1>3. \A few : Covers(Dues(shelf, mine), Dues(shelf, Widened(s)), few)
  <2> DEFINE n == Widened(s)
  <2>1. shelf \in SUBSET shelf /\ \A t \in Session : mine[t] \subseteq n[t] /\ (mine[t] = {} => n[t] = {})
    BY <1>2
  <2> HIDE DEF n
  <2>2. \A few : Covers(Dues(shelf, mine), Dues(shelf, n), few)
    BY <2>1, LessCovers
  <2> QED
    BY <2>2 DEF n
<1>4. ASSUME NEW y \in Dues(shelf, Widened(s)), y.by = s PROVE mem[s].doc \in y.work
  <2>1. Widened(s)[s] # {} /\ y.work = Widened(s)[s]
    BY <1>4, DueKinds, ValuesAssumption
  <2> QED
    BY <1>1, <2>1 DEF More
<1> QED
  BY <1>3, <1>4

LEMMA AutosaveShared ==
  ASSUME IInv, Shared, NEW s \in Session, Autosave(s)
  PROVE  Shared'
<1>1. PICK r \in Snapshots(s) : Begin(s, "autosave", None, r)
  BY DEF Autosave
<1>2. PICK stamp \in Stamp : r = TakeSnapshot(Draft(CurrentIndex), s, mem[s].doc, stamp)
  BY Parts, StampType DEF Snapshots, SnapshotPlan
<1>3. /\ Idle(s) /\ Usable /\ mem[s].dirty /\ disk' = disk /\ life' = life /\ mem' = mem
      /\ shelf' = shelf /\ mine' = Widened(s)
  BY DEF Autosave
<1>4. Ready(r)
  BY <1>3, SnapshotsSound, SoundIsReady
<1>5. /\ s \notin Unborn /\ s \in Alive /\ Bears(disk, Dues(shelf, mine), Alive, Unborn)
      /\ IndexSound /\ disk.index # Corrupt /\ mem[s].doc \in Doc /\ Live(s)
  BY <1>3, IdleBears DEF Usable
<1> DEFINE E == Dues(shelf, Widened(s))
           G == IF r.ok THEN {d \in Disk : Fills(d, {mem[s].doc}) /\ Own(d, s)} ELSE Disk
<1>6. Covers(Dues(shelf, mine), E, Alive) /\ \A y \in E : y.by = s => mem[s].doc \in y.work
  BY WidenedDues
<1> HIDE DEF E
<1>7. Bears(disk, E, Alive, Unborn)
  BY <1>5, <1>6, BearsLess
<1>8. Reaches(disk, r.plan, Bearing(E, Alive, Unborn), G)
  BY <1>2, <1>5, <1>6, <1>7, AutosaveReaches
<1>9. Alive' = Alive /\ Unborn' = Unborn /\ Live(s)' /\ E = Dues(shelf', mine')
  BY <1>3, <1>5 DEF Alive, Unborn, Live, E
<1>10. G \subseteq Promised(tx')
  BY <1>1 DEF Begin, Promised
<1>11. OnlyDirty'
  <2>1. \A t \in Session \ {s} : mine'[t] = mine[t]
    BY <1>3, WidenedParts
  <2> QED
    BY <1>3, <1>5, <2>1 DEF OnlyDirty, Shared, Live
<1> HIDE DEF G
<1>12. Reaches(disk, r.plan, Bearing(Dues(shelf', mine'), Alive', Unborn'), G)
  BY <1>8, <1>9
<1> QED
  BY <1>1, <1>3, <1>4, <1>9, <1>10, <1>11, <1>12, BeginShared DEF Operations

LEMMA ReplaceShared ==
  ASSUME IInv, Shared, NEW s \in Session, Replace(s)
  PROVE  Shared'
<1>1. PICK t \in Snapshots(s) : Begin(s, "replace", None, SetAside(t))
  BY DEF Replace
<1>2. PICK stamp \in Stamp : t = TakeSnapshot(Draft(CurrentIndex), s, mem[s].doc, stamp)
  BY Parts, StampType DEF Snapshots, SnapshotPlan
<1>3. /\ Idle(s) /\ Usable /\ mem[s].dirty /\ disk' = disk /\ life' = life /\ mem' = mem
      /\ shelf' = shelf /\ mine' = Widened(s)
  BY DEF Replace
<1> DEFINE r == SetAside(t)
           E == Dues(shelf, Widened(s))
           G == IF r.ok THEN {d \in Disk : Backed(d, {mem[s].doc})} ELSE Disk
<1>4. Ready(r)
  BY <1>3, SnapshotsSound, SetAsideSound, SoundIsReady
<1>5. /\ s \notin Unborn /\ s \in Alive /\ Bears(disk, Dues(shelf, mine), Alive, Unborn)
      /\ IndexSound /\ disk.index # Corrupt /\ mem[s].doc \in Doc /\ Live(s)
  BY <1>3, IdleBears DEF Usable
<1>6. Covers(Dues(shelf, mine), E, Alive) /\ \A y \in E : y.by = s => mem[s].doc \in y.work
  BY WidenedDues
<1> HIDE DEF E
<1>7. Bears(disk, E, Alive, Unborn)
  BY <1>5, <1>6, BearsLess
<1>8. Reaches(disk, r.plan, Bearing(E, Alive, Unborn), G)
  BY <1>2, <1>5, <1>6, <1>7, ReplaceReaches
<1> HIDE DEF r
<1>9. Alive' = Alive /\ Unborn' = Unborn /\ Live(s)' /\ E = Dues(shelf', mine')
  BY <1>3, <1>5 DEF Alive, Unborn, Live, E
<1>10. Begin(s, "replace", None, r)
  BY <1>1 DEF r
<1>11. G \subseteq Promised(tx')
  BY <1>10 DEF Begin, Promised
<1>12. OnlyDirty'
  <2>1. \A u \in Session \ {s} : mine'[u] = mine[u]
    BY <1>3, WidenedParts
  <2> QED
    BY <1>3, <1>5, <2>1 DEF OnlyDirty, Shared, Live
<1> HIDE DEF G
<1>13. Reaches(disk, r.plan, Bearing(Dues(shelf', mine'), Alive', Unborn'), G)
  BY <1>8, <1>9
<1> QED
  BY <1>3, <1>4, <1>9, <1>10, <1>11, <1>12, <1>13, BeginShared DEF Operations

LEMMA SaveShared ==
  ASSUME IInv, Shared, NEW s \in Session, Save(s)
  PROVE  Shared'
<1> DEFINE r == DiscardPlan(s, TRUE)
           n == [mine EXCEPT ![s] = {}]
           E == Dues(shelf, n)
<1>1. /\ Idle(s) /\ disk' = disk /\ life' = life /\ shelf' = shelf
      /\ Begin(s, "save", opened[s], r) /\ mem' = [mem EXCEPT ![s].dirty = FALSE]
      /\ mine' = n
  BY DEF Save
<1>2. Ready(r) /\ opened[s] \in Id \union {None}
  BY Parts, DiscardReady DEF StoreOK
<1>3. /\ s \in Alive /\ Bears(disk, Dues(shelf, mine), Alive, Unborn)
      /\ IndexSound /\ Live(s) /\ mine \in [Session -> SUBSET Doc]
  BY <1>1, IdleBears
<1>4. n[s] = {} /\ \A t \in Session \ {s} : n[t] = mine[t]
  BY <1>3
<1> HIDE DEF n
<1>5. Covers(Dues(shelf, mine), E, Alive)
  BY <1>4, LessCovers
<1>6. \A y \in E : y.by # s
  BY <1>4, DueKinds, ValuesAssumption
<1> HIDE DEF E
<1>7. Bears(disk, E, Alive, Unborn)
  BY <1>3, <1>5, BearsLess
<1>8. Reaches(disk, r.plan, Bearing(E, Alive, Unborn), Disk)
  BY <1>3, <1>6, <1>7, DiscardReaches
<1> HIDE DEF r
<1>9. Alive' = Alive /\ Unborn' = Unborn /\ Live(s)' /\ E = Dues(shelf', mine')
  BY <1>1, <1>3 DEF Alive, Unborn, Live, E
<1>10. Disk \subseteq Promised(tx')
  BY <1>1 DEF Begin, Promised
<1>11. OnlyDirty'
  <2>1. \A t \in Session \ {s} : mem'[t] = mem[t]
    BY <1>1, Parts DEF StoreOK
  <2> QED
    BY <1>1, <1>4, <2>1 DEF OnlyDirty, Shared, Live
<1>12. Reaches(disk, r.plan, Bearing(Dues(shelf', mine'), Alive', Unborn'), Disk)
  BY <1>8, <1>9
<1> QED
  BY <1>1, <1>2, <1>9, <1>10, <1>11, <1>12, BeginShared DEF Operations

LEMMA ExitShared ==
  ASSUME IInv, Shared, NEW s \in Session, Exit(s), ~mem[s].dirty
  PROVE  Shared'
<1> DEFINE r == DiscardPlan(s, FALSE)
           E == Dues(shelf, mine)
<1>1. /\ Idle(s) /\ disk' = disk /\ life' = life /\ shelf' = shelf /\ mem' = mem
      /\ Begin(s, "exit", None, r) /\ mine' = mine
  BY DEF Exit
<1>2. Ready(r)
  BY Parts, DiscardReady
<1>3. /\ s \in Alive /\ Bears(disk, E, Alive, Unborn) /\ IndexSound /\ Live(s)
  BY <1>1, IdleBears
<1>4. mine[s] = {}
  BY <1>1 DEF Shared, OnlyDirty
<1>5. \A y \in E : y.by # s
  BY <1>4, DueKinds, ValuesAssumption
<1> HIDE DEF E
<1>6. Reaches(disk, r.plan, Bearing(E, Alive, Unborn), Disk)
  BY <1>3, <1>5, DiscardReaches
<1> HIDE DEF r
<1>7. Alive' = Alive /\ Unborn' = Unborn /\ Live(s)' /\ E = Dues(shelf', mine')
  BY <1>1, <1>3 DEF Alive, Unborn, Live, E
<1>8. Disk \subseteq Promised(tx')
  BY <1>1 DEF Begin, Promised
<1>9. OnlyDirty'
  BY <1>1 DEF OnlyDirty, Shared, Live
<1>10. Reaches(disk, r.plan, Bearing(Dues(shelf', mine'), Alive', Unborn'), Disk)
  BY <1>6, <1>7
<1> QED
  BY <1>1, <1>2, <1>7, <1>8, <1>9, <1>10, BeginShared DEF Operations

LEMMA DiscardCandidateShared ==
  ASSUME IInv, Shared, NEW s \in Session, NEW c \in Id, DiscardCandidate(s, c)
  PROVE  Shared'
<1> DEFINE r    == DropCandidatePlan(c)
           lost == disk.cand[c].doc
           n    == IF ~r.ok THEN mine ELSE Without(mine, lost)
           left == IF ~r.ok THEN shelf ELSE {o \in shelf : lost \notin o}
           E    == Dues(left, n)
<1>1. /\ Idle(s) /\ disk.index \notin {None, Corrupt} /\ disk' = disk /\ life' = life
      /\ mem' = mem /\ Begin(s, "discard", c, r) /\ disk.cand[c] # None
  BY DEF DiscardCandidate, Listed
<1>2. Ready(r)
  BY <1>1, Parts, DropReady
<1>3. /\ s \in Alive /\ Bears(disk, Dues(shelf, mine), Alive, Unborn)
      /\ IndexSound /\ Live(s) /\ mine \in [Session -> SUBSET Doc]
  BY <1>1, IdleBears
<1>4. shelf' = left /\ mine' = n
  BY DEF DiscardCandidate
<1>5. /\ left \in SUBSET shelf /\ \A t \in Session : n[t] \in {mine[t], {}}
      /\ r.ok => /\ \A o \in left : lost \notin o
                 /\ \A t \in Session : lost \notin n[t]
  BY DEF Without
<1> HIDE DEF left, n
<1>6. Covers(Dues(shelf, mine), E, Alive)
  BY <1>5, LessCovers
<1>7. r.ok => \A y \in E : ~Holds(disk, c, y.work)
  <2>1. ASSUME r.ok, NEW y \in E PROVE lost \notin y.work
    <3>1. \/ y.work \in left /\ y.by = None
          \/ y.by \in Session /\ n[y.by] # {} /\ y.work = n[y.by]
      BY <2>1, DueKinds
    <3> QED
      BY <1>5, <2>1, <3>1
  <2> QED
    BY <2>1 DEF Holds
<1> HIDE DEF E
<1>8. Bears(disk, E, Alive, Unborn)
  BY <1>3, <1>6, BearsLess
<1>9. Reaches(disk, r.plan, Bearing(E, Alive, Unborn), Disk)
  BY <1>1, <1>3, <1>7, <1>8, DropReaches
<1> HIDE DEF r
<1>10. Alive' = Alive /\ Unborn' = Unborn /\ Live(s)' /\ E = Dues(shelf', mine')
  BY <1>1, <1>3, <1>4 DEF Alive, Unborn, Live, E
<1>11. Disk \subseteq Promised(tx')
  BY <1>1 DEF Begin, Promised
<1>12. OnlyDirty'
  BY <1>1, <1>4, <1>5 DEF OnlyDirty, Shared, Live
<1>13. Reaches(disk, r.plan, Bearing(Dues(shelf', mine'), Alive', Unborn'), Disk)
  BY <1>9, <1>10
<1> QED
  BY <1>1, <1>2, <1>10, <1>11, <1>12, <1>13, BeginShared DEF Operations

LEMMA SameLives ==
  ASSUME life' = life
  PROVE  Alive' = Alive /\ Unborn' = Unborn /\ \A t : Live(t)' <=> Live(t)
BY DEF Alive, Unborn, Live

LEMMA SamePromise ==
  ASSUME NEW t, NEW u, u.ok = t.ok, u.op = t.op, u.who = t.who, u.doc = t.doc
  PROVE  Promised(u) = Promised(t)
BY DEF Promised

LEMMA RestShared ==
  ASSUME OnlyDirty', tx' = None, Bears(disk', Dues(shelf', mine'), Alive', Unborn')
  PROVE  Shared'
BY DEF Shared, Working, Resting, Running

LEMMA HolderParts ==
  ASSUME IInv, tx # None
  PROVE  /\ tx \in Transaction /\ tx.who \in Session /\ tx.plan \in Seq(Write)
         /\ tx.op \in Operations /\ tx.ok \in BOOLEAN
BY Parts DEF TxOK, Transaction

LEMMA StartShared ==
  ASSUME IInv, Shared, NEW s \in Session, Start(s)
  PROVE  Shared'
<1> DEFINE D  == Dues(shelf, mine)
           up == Alive'
           N  == Unborn'
           r  == StartPlan
<1>1. /\ disk' = disk /\ Begin(s, "start", None, r) /\ Ready(r) /\ tx = None
      /\ mine' = mine /\ shelf' = shelf /\ mem' = mem
  BY Parts, StartReady DEF Start, Begin
<1>2. s \in Unborn /\ life \in [Session -> {"new", "up", "down"}] /\ life' = [life EXCEPT ![s] = "up"]
  BY Parts DEF Start, Unborn, StoreOK
<1>3. /\ up = Alive \union {s} /\ N = Unborn \ {s} /\ Live(s)' /\ ~Live(s)
      /\ \A t \in Session \ {s} : Live(t)' <=> Live(t)
  BY <1>2 DEF Alive, Unborn, Live
<1>4. mine[s] = {}
  BY <1>3 DEF Shared, OnlyDirty
<1>5. OnlyDirty'
  BY <1>1, <1>3, <1>4 DEF Shared, OnlyDirty
<1>6. /\ tx' \in Transaction /\ tx' # None /\ tx'.who = s /\ tx'.op = "start"
      /\ tx'.plan = r.plan /\ r.plan \in Seq(Write)
  BY <1>1, Parts, BeginOK, TransactionAssumption DEF Operations, Begin, Ready
<1>7. Disk \subseteq Promised(tx')
  BY <1>6 DEF Promised
<1>8. Dues(shelf', mine') = D /\ disk \in Disk /\ IndexSound
  BY <1>1, Parts
<1> HIDE DEF D, up, N
<1>9. CASE Resting
  <2>1. Bears(disk, D, Alive, Unborn)
    BY <1>1, <1>9 DEF Resting, D
  <2>2. Bears(disk, D, up, N)
    BY <1>2, <1>3, <2>1, BearsBorn
  <2>3. Reaches(disk, r.plan, Bearing(D, up, N), Disk)
    BY <1>8, <2>2, StartReaches
  <2> HIDE DEF r
  <2>4. Reaches(disk, r.plan, Bearing(Dues(shelf', mine'), Alive', Unborn'), Disk)
    BY <1>8, <2>3 DEF up, N
  <2> QED
    BY <1>1, <1>3, <1>5, <1>7, <2>4, BeginShared DEF Operations
<1>10. CASE Pristine
  <2>1. \A y \in D : disk.legacy \in y.work
    BY <1>10, DueKinds DEF Pristine, D
  <2>2. /\ r.plan # << >>
        /\ Reaches(Apply(disk, r.plan[1]), Tail(r.plan), Bearing(D, up, N), Disk)
    BY <1>8, <1>10, <2>1, FirstStart DEF Pristine
  <2>3. Tail(r.plan) \in Seq(Write)
    BY <1>6, <2>2, TailFacts
  <2> HIDE DEF r
  <2> DEFINE H == Promised(tx')
             p == Tail(r.plan)
             d == Apply(disk, r.plan[1])
  <2>4. Disk \subseteq H
    BY <1>7
  <2>5. p \in Seq(Write) /\ Reaches(d, p, Bearing(D, up, N), Disk)
    BY <2>2, <2>3
  <2> HIDE DEF H, p, d
  <2>6. Reaches(d, p, Bearing(D, up, N), H)
    BY <2>4, <2>5, ReachesLess
  <2>7. Reaches(Apply(disk', tx'.plan[1]), Tail(tx'.plan),
                Bearing(Dues(shelf', mine'), Alive', Unborn'), Promised(tx'))
    BY <1>1, <1>6, <1>8, <2>6 DEF H, p, d, up, N
  <2>8. \A t \in Session : ~Live(t)
    BY <1>1, <1>10 DEF Pristine
  <2>9. Pristine'
    BY <1>1, <1>3, <1>6, <1>10, <2>2, <2>7, <2>8 DEF Pristine
  <2>10. Working'
    BY <1>3, <1>6 DEF Working
  <2> QED
    BY <1>5, <2>9, <2>10 DEF Shared
<1> QED
  BY <1>9, <1>10 DEF Shared

(* The documents in memory change, and nothing else.                       *)
LEMMA MemoryShared ==
  ASSUME IInv, Shared, NEW s \in Session, Live(s), Resting, Running,
         disk' = disk, tx' = tx, life' = life, mine' = mine, shelf' = shelf,
         \A t \in Session \ {s} : mem'[t] = mem[t],
         mem'[s].dirty \/ (~mem[s].dirty /\ (tx # None => tx.who # s))
  PROVE  Shared'
<1>1. Alive' = Alive /\ Unborn' = Unborn /\ \A t : Live(t)' <=> Live(t)
  BY SameLives
<1>2. OnlyDirty'
  BY <1>1 DEF Shared, OnlyDirty
<1>3. Working'
  BY <1>1, HolderParts DEF Shared, Working
<1>4. Resting' /\ Running'
  BY <1>1 DEF Resting, Running
<1> QED
  BY <1>2, <1>3, <1>4 DEF Shared

LEMMA ChangeShared ==
  ASSUME IInv, Shared, NEW s \in Session, Change(s)
  PROVE  Shared'
<1>1. /\ disk' = disk /\ tx' = tx /\ life' = life /\ mine' = mine /\ shelf' = shelf
      /\ Live(s) /\ mem'[s].dirty /\ \A t \in Session \ {s} : mem'[t] = mem[t]
      /\ tx # None => tx.who # s \/ tx.op \notin StoreHeld
  <2>1. mem \in [Session -> [doc : Doc, dirty : BOOLEAN]]
    BY Parts DEF StoreOK
  <2> QED
    BY <2>1 DEF Change
<1>2. Resting /\ Running
  BY <1>1 DEF Shared, Pristine, StoreHeld
<1> QED
  BY <1>1, <1>2, MemoryShared

LEMMA ReplaceSavedShared ==
  ASSUME IInv, Shared, NEW s \in Session, ReplaceSaved(s)
  PROVE  Shared'
<1>1. /\ disk' = disk /\ tx' = tx /\ life' = life /\ mine' = mine /\ shelf' = shelf
      /\ Live(s) /\ ~mem[s].dirty /\ (tx # None => tx.who # s)
      /\ \A t \in Session \ {s} : mem'[t] = mem[t]
  <2>1. mem \in [Session -> [doc : Doc, dirty : BOOLEAN]]
    BY Parts DEF StoreOK
  <2> QED
    BY <2>1 DEF ReplaceSaved, Quiet
<1> QED
  BY <1>1, BusyRests, MemoryShared

-----------------------------------------------------------------------------
(* A process is gone: what it owed, the disk still supports.               *)
LEMMA GoneParts ==
  ASSUME IInv, Shared, NEW s \in Session, Gone(s)
  PROVE  /\ OnlyDirty' /\ ~Live(s)' /\ mine'[s] = {}
         /\ \A t \in Session \ {s} : (Live(t)' <=> Live(t)) /\ mem'[t] = mem[t] /\ mine'[t] = mine[t]
         /\ mine[s] = {} => shelf' = shelf
<1>1. /\ life \in [Session -> {"new", "up", "down"}] /\ mine \in [Session -> SUBSET Doc]
      /\ mem \in [Session -> [doc : Doc, dirty : BOOLEAN]]
      /\ life' = [life EXCEPT ![s] = "down"] /\ mine' = [mine EXCEPT ![s] = {}]
      /\ mem' = [mem EXCEPT ![s] = Blank]
  BY Parts DEF StoreOK, OwedOK, Gone
<1>2. /\ ~Live(s)' /\ mine'[s] = {}
      /\ \A t \in Session \ {s} : (Live(t)' <=> Live(t)) /\ mem'[t] = mem[t] /\ mine'[t] = mine[t]
  BY <1>1 DEF Live
<1>3. OnlyDirty'
  BY <1>2 DEF Shared, OnlyDirty
<1>4. mine[s] = {} => shelf' = shelf
  BY DEF Gone, Shelved
<1> QED
  BY <1>2, <1>3, <1>4

LEMMA GoneBearing ==
  ASSUME IInv, NEW s \in Session, Gone(s)
  PROVE  Bearing(Dues(shelf, mine), Alive, Unborn)
           \subseteq Bearing(Dues(shelf', mine'), Alive', Unborn')
<1> DEFINE D == Dues(shelf, mine)
           E == Dues(shelf', mine')
           few == Alive'
           M == Unborn'
<1>1. few \subseteq Alive /\ M \subseteq Unborn /\ Covers(D, E, few)
  BY GoneCovers
<1> HIDE DEF D, E, few, M
<1>2. Bearing(D, Alive, Unborn) \subseteq Bearing(E, few, M)
  BY <1>1, BearingLess
<1> QED
  BY <1>2 DEF D, E, few, M

LEMMA GoneShared ==
  ASSUME IInv, Shared, NEW s \in Session, Gone(s), disk' = disk, tx' = None,
         Bears(disk, Dues(shelf, mine), Alive, Unborn)
  PROVE  Shared'
<1>1. disk \in Bearing(Dues(shelf, mine), Alive, Unborn)
  BY DEF Bears, Bearing
<1>2. disk' \in Bearing(Dues(shelf', mine'), Alive', Unborn')
  BY <1>1, GoneBearing
<1> QED
  BY <1>2, GoneParts, RestShared DEF Bearing

LEMMA OtherGoneShared ==
  ASSUME IInv, Shared, NEW s \in Session, Live(s), Gone(s), disk' = disk, tx' = tx,
         tx # None => tx.who # s
  PROVE  Shared'
<1>1. Resting /\ Running
  BY BusyRests
<1>2. CASE tx = None
  BY <1>1, <1>2, GoneShared DEF Resting
<1>3. CASE tx # None
  <2>1. tx.who \in Session /\ tx.plan \in Seq(Write)
    BY <1>3, HolderParts
  <2>2. Working'
    BY <2>1, GoneParts DEF Shared, Working
  <2>3. Resting'
    BY <1>3 DEF Resting
  <2> DEFINE S == Bearing(Dues(shelf, mine), Alive, Unborn)
             T == Bearing(Dues(shelf', mine'), Alive', Unborn')
             p == tx.plan
             G == Promised(tx)
  <2>4. S \subseteq T /\ G \subseteq G
    BY GoneBearing
  <2>5. Reaches(disk, p, S, G) /\ p \in Seq(Write)
    BY <1>1, <1>3, <2>1 DEF Running
  <2> HIDE DEF S, T, p, G
  <2>6. Reaches(disk, p, T, G)
    BY <2>4, <2>5, ReachesLess
  <2>7. Running'
    BY <2>6 DEF Running, T, p, G
  <2> QED
    BY <2>2, <2>3, <2>7, GoneParts DEF Shared
<1> QED
  BY <1>2, <1>3

(* What the disk bears while an operation runs.                            *)
LEMMA RunningBears ==
  ASSUME IInv, Running, tx # None
  PROVE  Bears(disk, Dues(shelf, mine), Alive, Unborn)
<1> DEFINE S == Bearing(Dues(shelf, mine), Alive, Unborn)
           p == tx.plan
           G == Promised(tx)
<1>1. Reaches(disk, p, S, G) /\ p \in Seq(Write)
  BY HolderParts DEF Running
<1> HIDE DEF S, p, G
<1>2. disk \in S
  BY <1>1, ReachesStarts
<1> QED
  BY <1>2 DEF S, Bearing

LEMMA LeaveShared ==
  ASSUME IInv, Shared, NEW s \in Session, Leave(s)
  PROVE  Shared'
<1>1. Live(s) /\ Gone(s) /\ disk' = disk /\ tx' = tx /\ (tx # None => tx.who # s)
  BY DEF Leave, Quiet
<1> QED
  BY <1>1, OtherGoneShared

LEMMA CrashShared ==
  ASSUME IInv, Shared, NEW s \in Session, Crash(s)
  PROVE  Shared'
<1>1. Live(s) /\ Gone(s) /\ disk' = disk /\ tx' = IF tx # None /\ tx.who = s THEN None ELSE tx
  BY DEF Crash
<1>2. CASE tx # None => tx.who # s
  BY <1>1, <1>2, OtherGoneShared
<1>3. CASE tx # None /\ tx.who = s /\ Running
  BY <1>1, <1>3, RunningBears, GoneShared
<1>4. CASE tx # None /\ tx.who = s /\ Pristine
  <2>1. \A t \in Session : ~Live(t)' /\ mine'[t] = {}
    BY <1>4, GoneParts, <1>1 DEF Pristine
  <2>2. shelf' = shelf /\ tx' = None
    BY <1>1, <1>4, GoneParts DEF Pristine
  <2>3. Pristine'
    BY <1>1, <1>4, <2>1, <2>2 DEF Pristine
  <2> QED
    BY <1>1, <2>2, <2>3, GoneParts DEF Shared, Working
<1> QED
  BY <1>2, <1>3, <1>4 DEF Shared

-----------------------------------------------------------------------------
(* The writes, and the return of the operation.                            *)
LEMMA WriteFileShared ==
  ASSUME IInv, Shared, WriteFile
  PROVE  Shared'
<1> DEFINE p == tx.plan
<1>1. tx \in Transaction /\ tx # None /\ p \in Seq(Write) /\ p # << >> /\ tx.who \in Session
  BY HolderParts DEF WriteFile
<1>2. Head(p) = p[1] /\ Tail(p) \in Seq(Write)
  BY <1>1, TailFacts
<1>3. /\ disk' = Apply(disk, p[1]) /\ tx' = [tx EXCEPT !.plan = Tail(p)]
      /\ life' = life /\ mem' = mem /\ mine' = mine /\ shelf' = shelf
  BY <1>2 DEF WriteFile
<1>4. /\ tx' \in Transaction /\ tx'.plan = Tail(p) /\ tx'.who = tx.who /\ tx'.ok = tx.ok
      /\ tx'.op = tx.op /\ tx'.doc = tx.doc
  BY <1>1, <1>2, <1>3 DEF Transaction
<1>5. Alive' = Alive /\ Unborn' = Unborn /\ \A t : Live(t)' <=> Live(t)
  BY <1>3, SameLives
<1>6. Promised(tx') = Promised(tx)
  BY <1>4, SamePromise
<1> DEFINE S == Bearing(Dues(shelf, mine), Alive, Unborn)
           G == Promised(tx)
<1>7. Reaches(Apply(disk, p[1]), Tail(p), S, G)
  <2>1. CASE Running
    <3>1. Reaches(disk, p, S, G)
      BY <1>1, <2>1 DEF Running
    <3> HIDE DEF S, G, p
    <3> QED
      BY <1>1, <3>1, ReachesTail
  <2>2. CASE Pristine
    BY <1>1, <2>2 DEF Pristine
  <2> QED
    BY <2>1, <2>2 DEF Shared
<1>8. Running'
  BY <1>3, <1>4, <1>5, <1>6, <1>7 DEF Running
<1>9. Resting'
  BY <1>4, TransactionAssumption DEF Resting
<1>10. OnlyDirty' /\ Working'
  BY <1>1, <1>3, <1>4, <1>5 DEF Shared, OnlyDirty, Working
<1> QED
  BY <1>8, <1>9, <1>10 DEF Shared

(* A failed write ends the plan, or the plan ends with the removal passed  *)
(* over: either way the disk stays as it is.                               *)
LEMMA WriteFailsShared ==
  ASSUME IInv, Shared, Legacy = {}, WriteFails
  PROVE  Shared'
<1> DEFINE p == tx.plan
           S == Bearing(Dues(shelf, mine), Alive, Unborn)
           G == Promised(tx)
<1>1. tx \in Transaction /\ tx # None /\ p \in Seq(Write) /\ p # << >> /\ tx.who \in Session
  BY HolderParts DEF WriteFails
<1>2. Head(p) = p[1] /\ Tail(p) \in Seq(Write)
  BY <1>1, TailFacts
<1>3. /\ disk' = disk /\ life' = life /\ mem' = mem /\ mine' = mine /\ shelf' = shelf
      /\ tx' = IF IsRemoval(p[1]) /\ tx.op \notin {"save", "exit"}
               THEN [tx EXCEPT !.plan = Tail(p)]
               ELSE [tx EXCEPT !.plan = << >>, !.ok = FALSE]
  BY <1>2 DEF WriteFails
<1>4. Alive' = Alive /\ Unborn' = Unborn /\ \A t : Live(t)' <=> Live(t)
  BY <1>3, SameLives
<1>5. Reaches(disk, p, S, G)
  BY <1>1 DEF Shared, Pristine, Running
<1>6. disk \in S /\ (IsRemoval(p[1]) => Tail(p) = << >> /\ disk \in G)
  <2> HIDE DEF p, S, G
  <2> QED
    BY <1>1, <1>5, ReachesStarts, ReachesTail
<1>7. disk \in Disk
  BY Parts
<1>8. /\ tx' \in Transaction /\ tx'.plan = << >> /\ tx'.who = tx.who /\ tx'.op = tx.op
      /\ disk \in Promised(tx')
  <2>1. CASE IsRemoval(p[1]) /\ tx.op \notin {"save", "exit"}
    <3>1. tx' = [tx EXCEPT !.plan = Tail(p)]
      BY <1>3, <2>1
    <3>2. /\ tx' \in Transaction /\ tx'.plan = << >> /\ tx'.who = tx.who /\ tx'.ok = tx.ok
          /\ tx'.op = tx.op /\ tx'.doc = tx.doc
      BY <1>1, <1>2, <1>6, <2>1, <3>1 DEF Transaction
    <3>3. Promised(tx') = Promised(tx)
      BY <3>2, SamePromise
    <3> QED
      BY <1>6, <2>1, <3>2, <3>3
  <2>2. CASE ~(IsRemoval(p[1]) /\ tx.op \notin {"save", "exit"})
    <3>1. tx' = [tx EXCEPT !.plan = << >>, !.ok = FALSE]
      BY <1>3, <2>2
    <3>2. << >> \in Seq(Write)
      OBVIOUS
    <3>3. tx' \in Transaction /\ tx'.plan = << >> /\ tx'.who = tx.who /\ tx'.op = tx.op /\ ~tx'.ok
      BY <1>1, <3>1, <3>2 DEF Transaction
    <3> QED
      BY <1>7, <3>3 DEF Promised
  <2> QED
    BY <2>1, <2>2
<1>9. Running'
  <2> DEFINE H == Promised(tx')
  <2>1. disk \in H
    BY <1>8
  <2> HIDE DEF H, S
  <2>2. Reaches(disk, << >>, S, H)
    BY <1>6, <2>1, NothingReaches
  <2> QED
    BY <1>3, <1>4, <1>8, <2>2 DEF Running, H, S
<1>10. Resting'
  BY <1>8, TransactionAssumption DEF Resting
<1>11. OnlyDirty' /\ Working'
  BY <1>1, <1>3, <1>4, <1>8 DEF Shared, OnlyDirty, Working
<1> QED
  BY <1>9, <1>10, <1>11 DEF Shared

LEMMA FinishShared ==
  ASSUME IInv, Shared, Finish
  PROVE  Shared'
<1> DEFINE D == Dues(shelf, mine)
<1>0. PICK s \in Session : s = tx.who
  BY HolderParts DEF Finish
<1>1. /\ tx \in Transaction /\ tx # None /\ tx.plan = << >> /\ tx.plan \in Seq(Write)
      /\ tx.op \in Operations /\ tx.ok \in BOOLEAN
  BY HolderParts DEF Finish
<1>2. disk' = disk /\ tx' = None
  BY DEF Finish
<1>3. Running
  BY <1>1 DEF Shared, Pristine
<1>4. Bears(disk, D, Alive, Unborn)
  BY <1>1, <1>3, RunningBears
<1>5. disk \in Promised(tx)
  <2> DEFINE S == Bearing(Dues(shelf, mine), Alive, Unborn)
             p == tx.plan
             G == Promised(tx)
  <2>1. Reaches(disk, p, S, G) /\ p \in Seq(Write) /\ p = << >>
    BY <1>1, <1>3 DEF Running
  <2> HIDE DEF S, p, G
  <2>2. disk \in G
    BY <2>1, ReachesEnds
  <2> QED
    BY <2>2 DEF G
<1>6. Live(s) /\ tx.op # "restore" /\ (tx.op = "autosave" => mem[s].dirty)
  BY <1>0, <1>1 DEF Shared, Working
<1>7. mine \in [Session -> SUBSET Doc] /\ mem \in [Session -> [doc : Doc, dirty : BOOLEAN]]
  BY Parts DEF OwedOK, StoreOK
<1>8. \/ FinishAutosave(s) \/ FinishReplace(s) \/ FinishRestore(s)
      \/ FinishSave(s) \/ FinishExit(s) \/ FinishOther(s)
  BY <1>0 DEF Finish
<1>9. OnlyDirty
  BY DEF Shared
<1> HIDE DEF D
<1>10. ASSUME life' = life, OnlyDirty',
              \A y \in Dues(shelf', mine') : Firm(disk, y, Alive)
       PROVE  Shared'
  <2>1. Alive' = Alive /\ Unborn' = Unborn
    BY <1>10, SameLives
  <2>2. Bears(disk, Dues(shelf', mine'), Alive, Unborn)
    BY <1>4, <1>10 DEF Bears
  <2> QED
    BY <1>2, <1>10, <2>1, <2>2, RestShared
<1>11. CASE FinishAutosave(s)
  <2>1. /\ life' = life /\ mine' = [mine EXCEPT ![s] = {tx.doc}] /\ mem' = mem /\ shelf' = shelf
        /\ tx.op = "autosave" /\ tx.ok
    BY <1>11 DEF FinishAutosave
  <2>2. Backed(disk, {tx.doc}) \/ (Fills(disk, {tx.doc}) /\ Own(disk, s))
    BY <1>0, <1>5, <2>1 DEF Promised
  <2>3. mine'[s] = {tx.doc} /\ \A t \in Session \ {s} : mine'[t] = mine[t]
    BY <1>7, <2>1
  <2>4. OnlyDirty'
    BY <1>6, <1>9, <2>1, <2>3 DEF OnlyDirty, Live
  <2>5. ASSUME NEW y \in Dues(shelf', mine') PROVE Firm(disk, y, Alive)
    <3>1. CASE y.work \in shelf' /\ y.by = None
      <4>1. PICK x \in D : x.work = y.work /\ x.by = None
        BY <2>1, <3>1, DueOf DEF D
      <4> QED
        BY <1>4, <3>1, <4>1 DEF Bears, Firm
    <3>2. CASE y.by \in Session \ {s} /\ mine'[y.by] # {} /\ y.work = mine'[y.by]
      <4>1. PICK x \in D : x.work = y.work /\ x.by = y.by
        BY <2>3, <3>2, DueOf DEF D
      <4> QED
        BY <1>4, <4>1 DEF Bears, Firm
    <3>3. CASE y.by = s /\ y.work = {tx.doc}
      BY <2>2, <3>3 DEF Firm, Guards, Own
    <3> QED
      BY <2>3, <2>5, <3>1, <3>2, <3>3, DueKinds
  <2> QED
    BY <1>10, <2>1, <2>4, <2>5
<1>12. CASE FinishReplace(s)
  <2>1. /\ life' = life /\ mine' = [mine EXCEPT ![s] = {}] /\ shelf' = shelf \union {{tx.doc}}
        /\ mem' = [mem EXCEPT ![s] = Blank] /\ tx.op = "replace" /\ tx.ok
    BY <1>12 DEF FinishReplace
  <2>2. Backed(disk, {tx.doc})
    BY <1>5, <2>1 DEF Promised
  <2>3. mine'[s] = {} /\ \A t \in Session \ {s} : mine'[t] = mine[t] /\ mem'[t] = mem[t]
    BY <1>7, <2>1
  <2>4. OnlyDirty'
    BY <1>9, <2>1, <2>3 DEF OnlyDirty, Live
  <2>5. ASSUME NEW y \in Dues(shelf', mine') PROVE Firm(disk, y, Alive)
    <3>1. CASE y.work \in shelf /\ y.by = None
      <4>1. PICK x \in D : x.work = y.work /\ x.by = None
        BY <3>1, DueOf DEF D
      <4> QED
        BY <1>4, <3>1, <4>1 DEF Bears, Firm
    <3>2. CASE y.by \in Session \ {s} /\ mine'[y.by] # {} /\ y.work = mine'[y.by]
      <4>1. PICK x \in D : x.work = y.work /\ x.by = y.by
        BY <2>3, <3>2, DueOf DEF D
      <4> QED
        BY <1>4, <4>1 DEF Bears, Firm
    <3>3. CASE y.work = {tx.doc}
      BY <2>2, <3>3 DEF Firm
    <3>4. \/ y.work \in shelf' /\ y.by = None
          \/ y.by \in Session /\ mine'[y.by] # {} /\ y.work = mine'[y.by]
      BY <2>5, DueKinds
    <3>5. y.work \in shelf' => y.work \in shelf \/ y.work = {tx.doc}
      BY <2>1
    <3>6. y.by \in Session /\ mine'[y.by] # {} => y.by \in Session \ {s}
      BY <2>3
    <3> QED
      BY <3>1, <3>2, <3>3, <3>4, <3>5, <3>6
  <2> QED
    BY <1>10, <2>1, <2>4, <2>5
<1>13. CASE FinishRestore(s)
  BY <1>6, <1>13 DEF FinishRestore
<1>14. CASE FinishSave(s) \/ FinishOther(s)
  <2>1. life' = life /\ mine' = mine /\ mem' = mem /\ shelf' = shelf
    BY <1>14 DEF FinishSave, FinishOther
  <2>2. OnlyDirty'
    BY <1>9, <2>1 DEF OnlyDirty, Live
  <2>3. \A y \in Dues(shelf', mine') : Firm(disk, y, Alive)
    BY <1>4, <2>1 DEF Bears, D
  <2> QED
    BY <1>10, <2>1, <2>2, <2>3
<1>15. CASE FinishExit(s)
  BY <1>2, <1>4, <1>15, GoneShared DEF FinishExit, D
<1> QED
  BY <1>8, <1>11, <1>12, <1>13, <1>14, <1>15

-----------------------------------------------------------------------------
(* A file is damaged.                                                      *)
LEMMA DamageShared ==
  ASSUME IInv, Shared, Damage
  PROVE  Shared'
<1> DEFINE D == Dues(shelf, mine)
           E == Dues(shelf', mine')
<1>1. tx = None /\ tx' = None /\ life' = life /\ mem' = mem
  BY DEF Damage
<1>2. Alive' = Alive /\ Unborn' = Unborn /\ \A t : Live(t)' <=> Live(t)
  BY <1>1, SameLives
<1>3. disk \in Disk /\ disk' \in Disk
  BY DamageOK, Parts, PartsPrimed
<1>4. ~Pristine
  BY DEF Damage, Pristine, Untouched
<1>5. Bears(disk, D, Alive, Unborn) /\ OnlyDirty
  BY <1>1, <1>4 DEF Shared, Resting
<1>6. \A p \in Payload : Damaged(p) \in Payload /\ Damaged(p) # None /\ Damaged(p).source = None
  <2>1. \A p \in Payload : Damaged(p) \in Payload /\ Damaged(p).source = None
    BY DEF Damaged, Payload, Work
  <2> QED
    BY <2>1, NoIdNone
<1> HIDE DEF D, E
<1>7. ASSUME OnlyDirty', disk'.cand[MaxId] = None, Plain(disk'),
             Named(disk') => disk'.index.active.session \notin Unborn,
             \A y \in E : Firm(disk', y, Alive)
      PROVE  Shared'
  <2>1. Bears(disk', E, Alive, Unborn)
    BY <1>3, <1>7 DEF Bears
  <2> QED
    BY <1>1, <1>2, <1>7, <2>1, RestShared DEF E
(* What is still owed was owed, and is not the lost document.              *)
<1>8. ASSUME NEW doc, mine' = Without(mine, doc), shelf' = {o \in shelf : doc \notin o}
      PROVE  OnlyDirty' /\ \A y \in E : y \in D /\ doc \notin y.work
  <2>1. \A t \in Session : mine'[t] = {} \/ (mine'[t] = mine[t] /\ doc \notin mine'[t])
    BY <1>8 DEF Without
  <2>2. OnlyDirty'
    BY <1>1, <1>2, <1>5, <2>1 DEF OnlyDirty
  <2>3. ASSUME NEW y \in E PROVE y \in D /\ doc \notin y.work
    <3>1. CASE \E o \in shelf' : y = [work |-> o, by |-> None]
      BY <1>8, <3>1 DEF D, Dues
    <3>2. CASE \E t \in Session : mine'[t] # {} /\ y = [work |-> mine'[t], by |-> t]
      <4>1. PICK t \in Session : mine'[t] # {} /\ y = [work |-> mine'[t], by |-> t]
        BY <3>2
      <4>2. mine'[t] = mine[t] /\ doc \notin mine'[t]
        BY <2>1, <4>1
      <4> QED
        BY <4>1, <4>2 DEF D, Dues
    <3> QED
      BY <2>3, <3>1, <3>2 DEF E, Dues
  <2> QED
    BY <2>2, <2>3
<1>9. ASSUME disk.index \notin {None, Corrupt}, disk' = [disk EXCEPT !.index = Corrupt],
             mine' = mine, shelf' = shelf
      PROVE  Shared'
  <2>1. disk'.index = Corrupt /\ disk'.active = disk.active /\ disk'.cand = disk.cand
    BY <1>3, <1>9 DEF Disk
  <2>2. ~Named(disk') /\ Plain(disk') /\ disk'.cand[MaxId] = None
    BY <1>5, <2>1 DEF Named, Plain, Bears
  <2>3. E = D
    BY <1>9 DEF D, E
  <2>4. ASSUME NEW y \in E PROVE Firm(disk', y, Alive)
    BY <1>5, <2>1, <2>3 DEF Bears, Firm, Backed, Fills, Holds, Guards
  <2>5. OnlyDirty'
    BY <1>1, <1>2, <1>5, <1>9 DEF OnlyDirty
  <2> QED
    BY <1>7, <2>2, <2>4, <2>5
<1>10. ASSUME disk.active # None, disk' = [disk EXCEPT !.active = Damaged(@)],
              mine' = Without(mine, disk.active.doc),
              shelf' = {o \in shelf : disk.active.doc \notin o}
       PROVE  Shared'
  <2>1. /\ disk'.index = disk.index /\ disk'.cand = disk.cand
        /\ disk'.active = Damaged(disk.active) /\ disk.active \in Payload
    BY <1>3, <1>10 DEF Disk
  <2>2. /\ Plain(disk') /\ disk'.cand[MaxId] = None
        /\ Named(disk') => disk'.index.active.session \notin Unborn
    BY <1>5, <1>6, <2>1 DEF Named, Plain, Bears
  <2>3. OnlyDirty' /\ \A y \in E : y \in D /\ disk.active.doc \notin y.work
    BY <1>8, <1>10
  <2>4. ASSUME NEW y \in E PROVE Firm(disk', y, Alive)
    <3>1. Backed(disk, y.work)
      BY <1>5, <2>3 DEF Bears, Firm, Fills
    <3> QED
      BY <2>1, <3>1 DEF Firm, Backed, Holds
  <2> QED
    BY <1>7, <2>2, <2>3, <2>4
<1>11. ASSUME NEW c \in Id, disk.cand[c] # None,
              disk' = [disk EXCEPT !.cand[c] = Damaged(@)],
              mine' = Without(mine, disk.cand[c].doc),
              shelf' = {o \in shelf : disk.cand[c].doc \notin o}
       PROVE  Shared'
  <2>1. /\ disk'.index = disk.index /\ disk'.active = disk.active
        /\ \A i \in Id \ {c} : disk'.cand[i] = disk.cand[i]
    BY <1>3, <1>11 DEF Disk
  <2>2. MaxId \in Id
    BY BoundsAssumption DEF Id
  <2>3. /\ Plain(disk') /\ disk'.cand[MaxId] = None
        /\ Named(disk') => disk'.index.active.session \notin Unborn
    BY <1>5, <1>11, <2>1, <2>2 DEF Named, Plain, Bears
  <2>4. OnlyDirty' /\ \A y \in E : y \in D /\ disk.cand[c].doc \notin y.work
    BY <1>8, <1>11
  <2>5. ASSUME NEW y \in E PROVE Firm(disk', y, Alive)
    <3>1. CASE Backed(disk, y.work)
      <4>1. PICK i \in Id : Holds(disk, i, y.work)
        BY <3>1 DEF Backed
      <4>2. i # c
        BY <2>4, <2>5, <4>1 DEF Holds
      <4> QED
        BY <2>1, <4>1, <4>2 DEF Firm, Backed, Holds
    <3>2. CASE Fills(disk, y.work) /\ Guards(disk, y.by, Alive)
      BY <2>1, <3>2 DEF Firm, Fills, Guards, Named
    <3> QED
      BY <1>5, <2>4, <2>5, <3>1, <3>2 DEF Bears, Firm
  <2> QED
    BY <1>7, <2>3, <2>4, <2>5
<1> QED
  BY <1>9, <1>10, <1>11 DEF Damage

-----------------------------------------------------------------------------
(* Nothing was restored; and an old version left nothing, or no write has  *)
(* failed yet.                                                             *)
Regime ==
  /\ spent.restore = 0 /\ spent.late = 0
  /\ Legacy = {} \/ (spent.fault = 0 /\ MaxId > 1)

LEMMA InitShared ==
  ASSUME Init
  PROVE  Regime => Shared
<1> SUFFICES ASSUME Regime PROVE Shared
  OBVIOUS
<1>1. PICK old \in Legacy \union {None} :
        /\ disk = [index |-> None, active |-> None, cand |-> [i \in Id |-> None], legacy |-> old]
        /\ shelf = IF old = None THEN {} ELSE {{old}}
  BY DEF Init
<1>2. tx = None /\ \A t \in Session : ~Live(t) /\ mine[t] = {}
  BY DEF Init, Live
<1>3. OnlyDirty /\ Working
  BY <1>2 DEF OnlyDirty, Working
<1>4. disk \in Disk /\ MaxId \in Id
  BY InitOK, Parts, BoundsAssumption DEF Id
<1>5. CASE old = None
  <2>1. Dues(shelf, mine) = {}
    BY <1>1, <1>2, <1>5 DEF Dues
  <2>2. Bears(disk, Dues(shelf, mine), Alive, Unborn)
    BY <1>1, <1>4, <2>1 DEF Bears, Plain, Named
  <2> QED
    BY <1>2, <1>3, <2>2 DEF Shared, Resting, Running
<1>6. CASE old # None
  <2>1. Legacy # {} /\ MaxId > 1 /\ shelf = {{disk.legacy}} /\ Untouched(disk)
    BY <1>1, <1>6 DEF Regime, Untouched
  <2> QED
    BY <1>2, <1>3, <2>1 DEF Shared, Pristine
<1> QED
  BY <1>5, <1>6

LEMMA StepShared ==
  ASSUME IInv, NoneLate => ClosingClean, Regime => Shared, [Next]_vars
  PROVE  Regime' => Shared'
<1>1. ASSUME spent'.fault = spent.fault, spent'.restore = spent.restore,
             spent'.late = spent.late, Shared => Shared'
      PROVE  Regime' => Shared'
  BY <1>1 DEF Regime
<1>2. spent \in [crash : Nat, left : Nat, fault : Nat, damage : Nat, restore : Nat,
                 discard : Nat, late : Nat]
  BY Parts DEF SpentOK, Spending
<1>3. ASSUME NEW s \in Session, Start(s) PROVE Regime' => Shared'
  BY <1>1, <1>3, StartShared DEF Start
<1>4. ASSUME NEW s \in Session, Change(s) PROVE Regime' => Shared'
  <2>1. CASE s \in closing
    BY <1>2, <1>4, <2>1, LateParts DEF Change, Regime, Spending
  <2>2. CASE s \notin closing
    <3>1. spent' = spent
      BY <1>2, <1>4, <2>2, LateParts DEF Change, Spending
    <3> QED
      BY <1>1, <1>4, <3>1, ChangeShared
  <2> QED
    BY <2>1, <2>2
<1>5. ASSUME NEW s \in Session, Autosave(s) PROVE Regime' => Shared'
  BY <1>1, <1>5, AutosaveShared DEF Autosave
<1>6. ASSUME NEW s \in Session, Replace(s) PROVE Regime' => Shared'
  BY <1>1, <1>6, ReplaceShared DEF Replace
<1>7. ASSUME NEW s \in Session, ReplaceSaved(s) PROVE Regime' => Shared'
  BY <1>1, <1>7, ReplaceSavedShared DEF ReplaceSaved
<1>8. ASSUME NEW s \in Session, Save(s) PROVE Regime' => Shared'
  BY <1>1, <1>8, SaveShared DEF Save
<1>9. ASSUME NEW s \in Session, Exit(s) PROVE Regime' => Shared'
  <2>1. Regime' => ~mem[s].dirty
    BY <1>9 DEF Exit, Regime, NoneLate, ClosingClean
  <2>2. spent' = spent
    BY <1>9 DEF Exit
  <2> QED
    BY <1>9, <2>1, <2>2, ExitShared DEF Regime
<1>10. ASSUME NEW s \in Session, Leave(s) PROVE Regime' => Shared'
  BY <1>1, <1>2, <1>10, LeaveShared DEF Leave
<1>11. ASSUME NEW s \in Session, Crash(s) PROVE Regime' => Shared'
  BY <1>1, <1>2, <1>11, CrashShared DEF Crash
<1>12. ASSUME NEW s \in Session, NEW c \in Id, Restore(s, c) PROVE Regime' => Shared'
  <2> DEFINE u == [spent EXCEPT !.restore = @ + 1]
  <2>1. u \in Spending /\ u.restore = spent.restore + 1
    BY <1>2 DEF Spending
  <2>2. CountLate(s, u)
    BY <1>12 DEF Restore
  <2> HIDE DEF u
  <2>3. spent'.restore = spent.restore + 1
    BY <2>1, <2>2, LateParts
  <2> QED
    BY <1>2, <2>3 DEF Regime
<1>13. ASSUME NEW s \in Session, NEW c \in Id, DiscardCandidate(s, c)
       PROVE  Regime' => Shared'
  BY <1>1, <1>2, <1>13, DiscardCandidateShared DEF DiscardCandidate
<1>14. CASE WriteFile
  BY <1>1, <1>14, WriteFileShared DEF WriteFile
<1>15. CASE WriteFails
  <2>1. spent'.fault = spent.fault + 1 /\ spent'.restore = spent.restore
        /\ spent'.late = spent.late
    BY <1>2, <1>15 DEF WriteFails
  <2>2. Regime' => Legacy = {} /\ Regime
    BY <1>2, <2>1 DEF Regime
  <2> QED
    BY <1>15, <2>2, WriteFailsShared
<1>16. CASE Finish
  BY <1>1, <1>16, FinishShared DEF Finish
<1>17. CASE Damage
  BY <1>1, <1>2, <1>17, DamageShared DEF Damage
<1>18. CASE UNCHANGED <<disk, tx, life, mem, mine, shelf, spent>>
  <2>1. Shared => Shared'
    BY <1>18 DEF Shared, OnlyDirty, Working, Pristine, Resting, Running, Alive,
                 Unborn, Live
  <2> QED
    BY <1>1, <1>18, <2>1
<1>19. UNCHANGED vars \/ (\E s \in Session : Close(s)) => (Regime' => Shared')
  BY <1>18 DEF vars, Close
<1> QED
  BY <1>3, <1>4, <1>5, <1>6, <1>7, <1>8, <1>9, <1>10, <1>11, <1>12, <1>13, <1>14, <1>15,
     <1>16, <1>17, <1>19 DEF Next

LEMMA SharedIsSafe ==
  ASSUME IInv, Shared
  PROVE  NoWorkLost
<1>1. CASE Pristine
  <2>1. Owed = {{disk.legacy}}
    BY <1>1 DEF Pristine, Owed
  <2>2. disk.legacy \in OnDisk
    BY <1>1 DEF Pristine, Untouched, OnDisk
  <2> QED
    BY <2>1, <2>2 DEF NoWorkLost
<1>2. CASE Resting /\ Running
  <2>1. Bears(disk, Dues(shelf, mine), Alive, Unborn)
    BY <1>2, RunningBears DEF Resting
  <2>2. ASSUME NEW o \in Owed PROVE o \intersect OnDisk # {}
    <3>1. PICK x \in Dues(shelf, mine) : x.work = o
      BY <2>2, DueOf DEF Owed
    <3>2. Firm(disk, x, Alive)
      BY <2>1 DEF Bears
    <3>3. CASE Backed(disk, o)
      <4>1. PICK c \in Id : disk.cand[c] # None /\ disk.cand[c].doc \in o
        BY <3>3 DEF Backed, Holds
      <4>2. disk.cand[c].doc \in OnDisk
        BY <4>1 DEF OnDisk
      <4> QED
        BY <4>1, <4>2
    <3>4. CASE Fills(disk, o)
      <4>1. disk.active.doc \in o /\ disk.active.doc \in OnDisk
        BY <3>4 DEF Fills, OnDisk
      <4> QED
        BY <4>1
    <3> QED
      BY <3>1, <3>2, <3>3, <3>4 DEF Firm
  <2> QED
    BY <2>2 DEF NoWorkLost
<1> QED
  BY <1>1, <1>2 DEF Shared

(* Any number of processes at once: whatever they autosave, set aside,     *)
(* save, discard or leave behind, in whatever order they take the lock and *)
(* exit, wherever one is killed and whichever write fails, no work is      *)
(* missing from the disk as long as nobody has restored a candidate or     *)
(* edited after its own exit found the work saved (autosave.rs: 3-6, 500,  *)
(* 1212).  No autosave of an old version waits to be imported: its import  *)
(* is not retried once the index is there.                                 *)
THEOREM NoSharedWorkIsLost ==
  ASSUME Legacy = {}
  PROVE  Spec => [](spent.restore = 0 /\ spent.late = 0 => NoWorkLost)
<1> DEFINE Holding == IInv /\ (NoneLate => ClosingClean) /\ (Regime => Shared)
<1>1. Init => Holding
  BY InitOK, InitClean, InitShared
<1>2. Holding /\ [Next]_vars => Holding'
  BY StepOK, StepClean, StepShared
<1>3. Holding => (spent.restore = 0 /\ spent.late = 0 => NoWorkLost)
  BY SharedIsSafe DEF Regime
<1> QED
  BY <1>1, <1>2, <1>3, PTL DEF Spec

(* The same with an autosave of an old version to import, as long as no    *)
(* write has failed either, and there is an id to give it.                 *)
THEOREM NoImportedWorkIsLost ==
  ASSUME MaxId > 1
  PROVE  Spec => [](spent.restore = 0 /\ spent.fault = 0 /\ spent.late = 0 => NoWorkLost)
<1> DEFINE Holding == IInv /\ (NoneLate => ClosingClean) /\ (Regime => Shared)
<1>1. Init => Holding
  BY InitOK, InitClean, InitShared
<1>2. Holding /\ [Next]_vars => Holding'
  BY StepOK, StepClean, StepShared
<1>3. Holding => (spent.restore = 0 /\ spent.fault = 0 /\ spent.late = 0 => NoWorkLost)
  BY SharedIsSafe DEF Regime
<1> QED
  BY <1>1, <1>2, <1>3, PTL DEF Spec

=============================================================================
