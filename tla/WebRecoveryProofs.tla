------------------------- MODULE WebRecoveryProofs -------------------------
(***************************************************************************)
(* The recovery area of the browser, for any bounds.  The invariant says   *)
(* what an operation between two awaits may rely on: how it stands in the  *)
(* queue, what the command that waits for it does meanwhile, and which     *)
(* candidates hold the work in hand.                                       *)
(***************************************************************************)
EXTENDS WebRecovery, TLAPS

Step(at) == cmd # Absent /\ cmd.at = at

Replacing == cmd # Absent /\ cmd.kind \in {"new", "open", "import", "restore"}

Flushing(steps) == ops # <<>> /\ Op.kind = "flush" /\ Op.at \in steps

Active == Flushing({"snapped", "payload", "metadata", "undo", "cleanup", "answer"})

Numbered == Flushing({"payload", "metadata", "undo", "cleanup", "answer"})

Clearing == ops # <<>> /\ Op.kind = "clear" /\ Op.at # "start"

Associated == {sch.source, sch.current} \ {0}

DiskType ==
  [next : 1 .. MaxId + 1, meta : [Id -> {"opfs", "indexeddb", Absent}],
   opfs : [Id -> {Absent} \union Work], idb : [Id -> {Absent} \union Work],
   files : SUBSET Work]

SchType ==
  [gen : Nat, rev : Nat, saved : Nat, soon : BOOLEAN,
   source : Id \union {0}, current : Id \union {0}, mine : SUBSET Id]

SpentType == [input : Nat, edit : 0 .. MaxEdit, close : Nat, fault : Nat]

(* Numbers are given out in order.                                         *)
Numbers ==
  /\ sch.source < disk.next /\ sch.current < disk.next
  /\ cmd # Absent => cmd.id < disk.next
  /\ \A c \in Id : Where(c) # Absent => c < disk.next
  /\ Numbered => Op.id < disk.next

(* Only the first operation has started, and it is not out of date.        *)
Queued(k) ==
  /\ k > 1 => ops[k].at = "start"
  /\ ops[k].gen <= sch.gen
  /\ ops[k].gen = sch.gen => ops[k].target <= sch.rev
  /\ ops[k].gen # sch.gen => ops[k].at = "start"
  /\ ops[k].at \in {"start", "snapped"} => ops[k].previous = Absent
  /\ ops[k].kind = "clear" =>
       /\ ops[k].at \in {"start", "metadata", "payload"}
       /\ ops[k].wake = "own" /\ ops[k].gen = sch.gen
       /\ ops[k].at = "start" => ops[k].source = sch.source

(* The command that waits, and for what.                                   *)
Awaited(k) ==
  ops[k].wake # "none" =>
    /\ cmd # Absent
    /\ cmd.at = IF ops[k].kind = "clear" THEN "clear" ELSE "flush"
    /\ ops[k].kind = "flush" /\ ops[k].wake = "any" => ~ Unflushed
    /\ ops[k].kind = "flush" /\ ops[k].wake = "own" =>
         ops[k].gen = sch.gen /\ ops[k].target = sch.rev

Line ==
  /\ \A k \in 1 .. Len(ops) : Queued(k) /\ Awaited(k)
  /\ \A j, k \in 1 .. Len(ops) : ops[j].wake # "none" /\ ops[k].wake # "none" => j = k

Commands ==
  cmd # Absent =>
    /\ cmd.kind = "edit" => cmd.at \in {"core", "answer"}
    /\ cmd.kind = "save" => cmd.at \in {"core", "commit", "answer", "clear", "saved"}
    /\ cmd.kind = "discard" => cmd.at \in {"metadata", "payload"}
    /\ Replacing => cmd.at \in {"flush", "core", "answer"}

(* Nothing in the queue will touch the storage.                            *)
Calm ==
  /\ ~ Unflushed
  /\ \A k \in 1 .. Len(ops) :
       /\ ops[k].kind = "flush" /\ ops[k].at = "start"
       /\ ops[k].gen = sch.gen => ops[k].target <= sch.saved

Quiet ==
  /\ Replacing /\ cmd.at # "flush" => Calm
  /\ Step("saved") => Calm
  /\ Step("clear") => ~ Unflushed
  /\ cmd # Absent /\ cmd.kind = "save" /\ cmd.at # "core" => core.work \in disk.files
  /\ cmd # Absent /\ cmd.kind = "save" /\ cmd.at \notin {"core", "commit"} => ~ core.dirty

(* A checkpoint under way: where its payload is and where the list says.   *)
Checkpoint ==
  /\ Active => Op.target > sch.saved \/ Step("clear")
  /\ Numbered =>
       /\ Op.work # Absent /\ Op.id # 0
       /\ Op.previous # Absent => Op.id = sch.current
       /\ Op.id = sch.current \/ sch.current = 0 \/ Where(sch.current) = Absent
  /\ Flushing({"payload", "metadata", "undo"}) =>
       /\ Op.previous = Where(Op.id)
       /\ Op.previous = Absent => Op.id = disk.next - 1
  /\ Flushing({"metadata", "undo", "cleanup", "answer"}) => Op.where # Absent
  /\ Flushing({"undo"}) => Op.previous = Absent
  /\ Flushing({"metadata"}) /\ Op.where = "opfs" => disk.opfs[Op.id] = Op.work
  /\ Flushing({"cleanup", "answer"}) => Where(Op.id) = Op.where /\ Held(Op.id) = Op.work
  /\ Flushing({"cleanup"}) => Op.previous \notin {Op.where, Absent}

(* A removal under way.                                                    *)
Removal ==
  /\ cmd # Absent /\ cmd.kind = "discard" =>
       /\ cmd.id # 0 /\ cmd.id \notin Associated
       /\ Numbered => cmd.id # Op.id
       /\ cmd.at = "payload" => Where(cmd.id) = Absent
  /\ Clearing =>
       /\ Op.todo # <<>>
       /\ Op.at = "payload" => Where(Head(Op.todo)) = Absent

(* Which candidates hold the work in hand.                                 *)
Kept ==
  /\ core.dirty /\ ~ Unflushed /\ ~ Step("answer") =>
       \E c \in Associated : Held(c) = core.work
  /\ Active /\ Op.target = sch.rev /\ core.dirty /\ ~ Step("answer") => Op.work = core.work
  /\ Step("answer") /\ cmd.kind = "restore" => cmd.id # 0 /\ Held(cmd.id) = core.work

(* What was written for the work is where a save finds it.                 *)
Mine ==
  /\ \A c \in sch.mine :
       Where(c) # Absent =>
         c \in Associated \/ (Flushing({"cleanup", "answer"}) /\ Op.id = c)
  /\ Clearing /\ ~ Op.failed => \A c \in Associated : \E k \in 1 .. Len(Op.todo) : Op.todo[k] = c
  /\ SavedIsCleared

(* They hold earlier states of it, never another work.                     *)
Past ==
  /\ ~ (Replacing /\ cmd.at = "answer") =>
       \A c \in Associated : Where(c) # Absent => Held(c) \subseteq core.work
  /\ Active /\ Op.work # Absent =>
       /\ Op.work \subseteq core.work
       /\ Flushing({"snapped"}) /\ sch.current # 0 /\ Where(sch.current) # Absent =>
            Held(sch.current) \subseteq Op.work
  /\ Numbered /\ Where(Op.id) # Absent => Held(Op.id) \subseteq Op.work
  /\ Clearing => \A k \in 1 .. Len(Op.todo) :
       Where(Op.todo[k]) # Absent => Held(Op.todo[k]) \subseteq core.work

IInv ==
  /\ TypeOK /\ Numbers /\ Line /\ Commands /\ Quiet
  /\ Checkpoint /\ Removal /\ ListedIsReadable /\ Kept /\ Mine /\ Past

-----------------------------------------------------------------------------
(* The queue of promises: its head moves on, is settled, or one is added.  *)
LEMMA HeadOfLine ==
  ASSUME TypeOK, ops # <<>>
  PROVE  /\ Len(ops) \in Nat \ {0} /\ 1 \in 1 .. Len(ops)
         /\ Op = ops[1] /\ Op \in OpType
         /\ Tail(ops) \in Seq(OpType) /\ Len(Tail(ops)) = Len(ops) - 1
         /\ \A k \in 1 .. Len(ops) - 1 : Tail(ops)[k] = ops[k + 1]
<1>1. ops \in Seq(OpType)
  BY DEF TypeOK
<1> QED
  BY <1>1 DEF Op

LEMMA Elements ==
  ASSUME TypeOK
  PROVE  Len(ops) \in Nat /\ \A k \in 1 .. Len(ops) : ops[k] \in OpType
BY DEF TypeOK

(* The running operation goes on as o (every await of flush and clear).    *)
LEMMA GoesOn ==
  ASSUME TypeOK, ops # <<>>, NEW o \in OpType, Goes(o)
  PROVE  /\ ops' \in Seq(OpType) /\ ops' # <<>> /\ cmd' = cmd
         /\ Len(ops') = Len(ops) /\ Op' = o /\ ops'[1] = o
         /\ \A k \in 2 .. Len(ops) : ops'[k] = ops[k]
<1>1. ops \in Seq(OpType) /\ ops' = [ops EXCEPT ![1] = o] /\ cmd' = cmd
  BY DEF TypeOK, Goes
<1>2. Len(ops) \in Nat \ {0}
  BY <1>1
<1>3. ops' \in Seq(OpType) /\ Len(ops') = Len(ops) /\ ops'[1] = o
  BY <1>1, <1>2
<1>4. \A k \in 2 .. Len(ops) : ops'[k] = ops[k]
  BY <1>1, <1>2
<1>5. ops' # <<>> /\ Op' = ops'[1]
  BY <1>2, <1>3 DEF Op
<1> QED
  BY <1>1, <1>3, <1>4, <1>5

LEMMA SettlesOne ==
  ASSUME TypeOK, ops # <<>>, NEW ok, Settles(ok)
  PROVE  /\ ops' \in Seq(OpType) /\ Len(ops') = Len(ops) - 1
         /\ \A k \in 1 .. Len(ops') : ops'[k] = ops[k + 1] /\ k + 1 \in 2 .. Len(ops)
         /\ ops' # <<>> => Op' = ops[2] /\ 2 \in 1 .. Len(ops)
<1>1. ops' = Tail(ops) /\ ops \in Seq(OpType) /\ Len(ops) \in Nat \ {0}
  BY HeadOfLine DEF Settles, TypeOK
<1>2. /\ ops' \in Seq(OpType) /\ Len(ops') = Len(ops) - 1
      /\ \A k \in 1 .. Len(ops') : ops'[k] = ops[k + 1] /\ k + 1 \in 2 .. Len(ops)
  BY <1>1
<1>3. ASSUME ops' # <<>> PROVE Op' = ops[2] /\ 2 \in 1 .. Len(ops)
  <2>1. 1 \in 1 .. Len(ops')
    BY <1>2, <1>3
  <2> QED
    BY <1>2, <1>3, <2>1 DEF Op
<1> QED
  BY <1>2, <1>3

LEMMA AddsOne ==
  ASSUME TypeOK, NEW o \in OpType, ops' = Append(ops, o)
  PROVE  /\ ops' \in Seq(OpType) /\ ops' # <<>> /\ Len(ops') = Len(ops) + 1
         /\ Len(ops) \in Nat /\ Len(ops') \in 1 .. Len(ops')
         /\ ops'[Len(ops')] = o
         /\ \A k \in 1 .. Len(ops) : ops'[k] = ops[k]
         /\ ops # <<>> => Op' = Op
         /\ ops = <<>> => Op' = o
<1>1. ops \in Seq(OpType)
  BY DEF TypeOK
<1>2. /\ ops' \in Seq(OpType) /\ Len(ops') = Len(ops) + 1 /\ Len(ops) \in Nat
      /\ ops'[Len(ops')] = o /\ \A k \in 1 .. Len(ops) : ops'[k] = ops[k]
  BY <1>1
<1>3. ops' # <<>> /\ Len(ops') \in 1 .. Len(ops')
  BY <1>2
<1>4. Op' = ops'[1]
  BY <1>2, <1>3 DEF Op
<1>5. ops # <<>> => Op = ops[1] /\ 1 \in 1 .. Len(ops)
  BY <1>1 DEF Op
<1>6. ops = <<>> => Len(ops') = 1
  BY <1>1, <1>2
<1> QED
  BY <1>2, <1>3, <1>4, <1>5, <1>6

(* An answer of the worker puts the snapshots in order again.              *)
LEMMA InOrder ==
  ASSUME TypeOK, ops' = NowInOrder(ops)
  PROVE  /\ ops' \in Seq(OpType) /\ Len(ops') = Len(ops) /\ Len(ops) \in Nat
         /\ \A k \in 1 .. Len(ops) : ops'[k] = [ops[k] EXCEPT !.late = FALSE]
         /\ ops # <<>> => Op' = [Op EXCEPT !.late = FALSE]
         /\ ops = <<>> => ops' = <<>>
<1>1. ops \in Seq(OpType) /\ Len(ops) \in Nat /\ DOMAIN ops = 1 .. Len(ops)
  BY DEF TypeOK
<1>2. \A k \in 1 .. Len(ops) : ops[k] \in OpType /\ [ops[k] EXCEPT !.late = FALSE] \in OpType
  <2>1. \A k \in 1 .. Len(ops) : ops[k] \in OpType
    BY <1>1
  <2>2. \A o \in OpType : [o EXCEPT !.late = FALSE] \in OpType
    BY DEF OpType
  <2> QED
    BY <2>1, <2>2
<1>3. /\ ops' \in Seq(OpType) /\ Len(ops') = Len(ops)
      /\ \A k \in 1 .. Len(ops) : ops'[k] = [ops[k] EXCEPT !.late = FALSE]
  <2>1. ops' = [k \in 1 .. Len(ops) |-> [ops[k] EXCEPT !.late = FALSE]]
    BY <1>1 DEF NowInOrder
  <2>2. ops' \in [1 .. Len(ops) -> OpType]
    BY <1>2, <2>1
  <2> QED
    BY <1>1, <2>1, <2>2
<1>4. ops = <<>> => ops' = <<>>
  BY <1>1, <1>3
<1>5. ops # <<>> => ops' # <<>> /\ Op = ops[1] /\ Op' = ops'[1] /\ 1 \in 1 .. Len(ops)
  BY <1>1, <1>3 DEF Op
<1> QED
  BY <1>1, <1>3, <1>4, <1>5

-----------------------------------------------------------------------------
(* The place of the operations in the queue, and of those who wait.        *)
Steady ==
  /\ sch'.gen = sch.gen /\ sch'.rev = sch.rev /\ sch'.saved >= sch.saved
  /\ sch' \in SchType

LEMMA LineGoesOn ==
  ASSUME TypeOK, Line, ops # <<>>, NEW o \in OpType, Goes(o), Steady,
         o.at # "start", Timely,
         o.gen = Op.gen, o.kind = Op.kind, o.target = Op.target, o.wake = Op.wake,
         o.kind = "clear" => o.at \in {"metadata", "payload"},
         o.at = "snapped" => o.previous = Absent,
         sch'.source = sch.source \/ o.kind = "clear"
  PROVE  Line'
<1>1. /\ Op = ops[1] /\ Op \in OpType /\ 1 \in 1 .. Len(ops) /\ Len(ops) \in Nat
      /\ \A k \in 1 .. Len(ops) : ops[k] \in OpType
  BY HeadOfLine, Elements
<1>2. /\ cmd' = cmd /\ Len(ops') = Len(ops) /\ ops'[1] = o
      /\ \A k \in 2 .. Len(ops) : ops'[k] = ops[k]
  BY GoesOn
<1>3. \A k \in 1 .. Len(ops) : Queued(k) /\ Awaited(k)
  BY DEF Line
<1>4. ASSUME NEW k \in 2 .. Len(ops) PROVE Queued(k)' /\ Awaited(k)'
  <2>1. Queued(k) /\ Awaited(k) /\ ops'[k] = ops[k] /\ k \in 1 .. Len(ops) /\ ops[k] \in OpType
    BY <1>1, <1>2, <1>3
  <2>2. ops[k].kind = "clear" => sch'.source = sch.source
    <3>1. ops[k].kind = "clear" /\ Op.kind = "clear" =>
            ops[k].wake = "own" /\ ops[1].wake = "own"
      BY <1>1, <1>3, <2>1 DEF Queued
    <3> QED
      BY <1>1, <2>1, <3>1 DEF Line
  <2>3. Queued(k)'
    BY <2>1, <2>2 DEF Queued, Steady, SchType
  <2>4. Awaited(k)'
    BY <1>2, <2>1 DEF Awaited, Steady, SchType, Unflushed, TypeOK
  <2> QED
    BY <2>3, <2>4
<1>5. Queued(1)' /\ Awaited(1)'
  <2>1. Queued(1) /\ Awaited(1)
    BY <1>1, <1>3
  <2>2. Queued(1)'
    BY <1>1, <1>2, <2>1 DEF Queued, Steady, SchType, Timely
  <2>3. Awaited(1)'
    BY <1>1, <1>2, <2>1 DEF Awaited, Steady, SchType, Unflushed, TypeOK
  <2> QED
    BY <2>2, <2>3
<1>6. \A j, k \in 1 .. Len(ops') : ops'[j].wake # "none" /\ ops'[k].wake # "none" => j = k
  <2>1. \A k \in 1 .. Len(ops) : ops'[k].wake = ops[k].wake
    BY <1>1, <1>2
  <2> QED
    BY <1>2, <2>1 DEF Line
<1>7. \A k \in 1 .. Len(ops') : Queued(k)' /\ Awaited(k)'
  BY <1>1, <1>2, <1>4, <1>5
<1> QED
  BY <1>6, <1>7 DEF Line

LEMMA LineSettles ==
  ASSUME TypeOK, Line, ops # <<>>, NEW ok, Settles(ok), Steady,
         sch'.source = sch.source \/ Op.kind = "clear"
  PROVE  Line'
<1>1. /\ Op = ops[1] /\ Op \in OpType /\ 1 \in 1 .. Len(ops) /\ Len(ops) \in Nat
      /\ \A k \in 1 .. Len(ops) : ops[k] \in OpType
  BY HeadOfLine, Elements
<1>2. /\ Len(ops') = Len(ops) - 1
      /\ \A k \in 1 .. Len(ops') : ops'[k] = ops[k + 1] /\ k + 1 \in 2 .. Len(ops)
  BY SettlesOne
<1>3. \A k \in 1 .. Len(ops) : Queued(k) /\ Awaited(k)
  BY DEF Line
<1>4. ASSUME NEW k \in 1 .. Len(ops') PROVE Queued(k)' /\ Awaited(k)'
  <2>1. /\ Queued(k + 1) /\ Awaited(k + 1) /\ ops'[k] = ops[k + 1]
        /\ k + 1 \in 1 .. Len(ops) /\ ops[k + 1] \in OpType /\ k + 1 > 1 /\ k + 1 # 1
    BY <1>1, <1>2, <1>3
  <2>2. ops[k + 1].kind = "clear" => sch'.source = sch.source
    <3>1. ops[k + 1].kind = "clear" /\ Op.kind = "clear" =>
            ops[k + 1].wake = "own" /\ ops[1].wake = "own"
      BY <1>1, <1>3, <2>1 DEF Queued
    <3> QED
      BY <1>1, <2>1, <3>1 DEF Line
  <2>3. Queued(k)'
    BY <2>1, <2>2 DEF Queued, Steady, SchType
  <2>4. ops[k + 1].wake # "none" => cmd' = cmd
    <3>1. ops[k + 1].wake # "none" => Op.wake = "none"
      BY <1>1, <2>1 DEF Line
    <3> QED
      BY <3>1 DEF Settles
  <2>5. Awaited(k)'
    BY <2>1, <2>4 DEF Awaited, Steady, SchType, Unflushed, TypeOK
  <2> QED
    BY <2>3, <2>5
<1>5. \A j, k \in 1 .. Len(ops') : ops'[j].wake # "none" /\ ops'[k].wake # "none" => j = k
  <2> SUFFICES ASSUME NEW j \in 1 .. Len(ops'), NEW k \in 1 .. Len(ops'),
                      ops'[j].wake # "none", ops'[k].wake # "none"
               PROVE  j = k
    OBVIOUS
  <2>1. j + 1 \in 1 .. Len(ops) /\ k + 1 \in 1 .. Len(ops)
    BY <1>2
  <2>2. j + 1 = k + 1
    BY <1>2, <2>1 DEF Line
  <2> QED
    BY <2>2
<1> QED
  BY <1>4, <1>5 DEF Line

LEMMA LineStays ==
  ASSUME TypeOK, Line, Steady, UNCHANGED <<ops, cmd>>, sch'.source = sch.source
  PROVE  Line'
<1>1. Len(ops) \in Nat /\ \A k \in 1 .. Len(ops) : ops[k] \in OpType
  BY Elements
<1>2. ASSUME NEW k \in 1 .. Len(ops) PROVE Queued(k)' /\ Awaited(k)'
  <2>1. Queued(k) /\ Awaited(k) /\ ops[k] \in OpType
    BY <1>1 DEF Line
  <2>2. Queued(k)'
    BY <2>1 DEF Queued, Steady, SchType
  <2>3. Awaited(k)'
    BY <2>1 DEF Awaited, Steady, SchType, Unflushed, TypeOK
  <2> QED
    BY <2>2, <2>3
<1> QED
  BY <1>2 DEF Line

(* A command that does not wait for the queue leaves nobody waiting.       *)
Idle == cmd = Absent \/ cmd.at \notin {"flush", "clear"}

LEMMA NobodyWaits ==
  ASSUME TypeOK, Line, Idle
  PROVE  \A k \in 1 .. Len(ops) : ops[k].wake = "none" /\ ops[k].kind = "flush"
<1> SUFFICES ASSUME NEW k \in 1 .. Len(ops)
             PROVE  ops[k].wake = "none" /\ ops[k].kind = "flush"
  OBVIOUS
<1>1. Queued(k) /\ Awaited(k) /\ ops[k] \in OpType
  BY Elements DEF Line
<1>2. ops[k].wake = "none"
  BY <1>1 DEF Awaited, Idle
<1>3. ops[k].kind # "clear"
  BY <1>1, <1>2 DEF Queued
<1> QED
  BY <1>1, <1>2, <1>3 DEF OpType

SameOp(p, o) ==
  /\ p.kind = o.kind /\ p.at = o.at /\ p.gen = o.gen
  /\ p.target = o.target /\ p.wake = o.wake /\ p.source = o.source
  /\ p.previous = o.previous

LEMMA LineOfIdle ==
  ASSUME TypeOK, Line, Idle, Len(ops') = Len(ops),
         sch'.gen \in Nat, sch'.rev \in Nat,
         \A k \in 1 .. Len(ops) : SameOp(ops'[k], ops[k]),
         \/ sch'.gen = sch.gen /\ sch'.rev >= sch.rev
         \/ sch'.gen > sch.gen /\ \A k \in 1 .. Len(ops) : ops[k].at = "start"
  PROVE  Line'
<1>1. sch.gen \in Nat /\ sch.rev \in Nat
  BY DEF TypeOK
<1>2. ASSUME NEW k \in 1 .. Len(ops) PROVE Queued(k)' /\ Awaited(k)' /\ ops'[k].wake = "none"
  <2>1. /\ Queued(k) /\ ops[k] \in OpType /\ SameOp(ops'[k], ops[k])
        /\ ops[k].wake = "none" /\ ops[k].kind = "flush"
    BY Elements, NobodyWaits DEF Line
  <2>2. ops[k].gen \in Nat /\ ops[k].target \in Nat
    BY <2>1 DEF OpType
  <2>3. Queued(k)'
    BY <1>1, <2>1, <2>2 DEF Queued, SameOp
  <2>4. Awaited(k)' /\ ops'[k].wake = "none"
    BY <2>1 DEF Awaited, SameOp
  <2> QED
    BY <2>3, <2>4
<1> QED
  BY <1>2 DEF Line

LEMMA LineGrows ==
  ASSUME TypeOK, Line, NEW o \in OpType, Steady,
         Len(ops') = Len(ops) + 1, ops'[Len(ops')] = o,
         \A k \in 1 .. Len(ops) : SameOp(ops'[k], ops[k]),
         o.at = "start", o.gen = sch.gen, o.target = sch.rev, o.source = sch.source,
         o.previous = Absent,
         sch'.source = sch.source,
         \/ o.wake = "none" /\ o.kind = "flush" /\ cmd' = cmd
         \/ /\ Idle /\ o.wake = "own" /\ cmd' # Absent
            /\ cmd'.at = IF o.kind = "clear" THEN "clear" ELSE "flush"
  PROVE  Line'
<1>1. Len(ops) \in Nat /\ \A k \in 1 .. Len(ops) : ops[k] \in OpType
  BY Elements
<1>2. PICK n \in Nat : n = Len(ops) + 1
  BY <1>1
<1>3. /\ sch.gen \in Nat /\ sch.rev \in Nat /\ sch.saved \in Nat
      /\ sch'.gen = sch.gen /\ sch'.rev = sch.rev /\ sch'.saved \in Nat
      /\ sch'.saved >= sch.saved /\ sch.saved <= sch.rev
  BY DEF Steady, SchType, TypeOK
<1>4. ASSUME NEW k \in 1 .. Len(ops) PROVE Queued(k)' /\ Awaited(k)'
  <2>1. Queued(k) /\ Awaited(k) /\ ops[k] \in OpType /\ SameOp(ops'[k], ops[k])
    BY <1>1 DEF Line
  <2>2. ops[k].gen \in Nat /\ ops[k].target \in Nat
    BY <2>1 DEF OpType
  <2>3. Queued(k)'
    BY <1>3, <2>1, <2>2 DEF Queued, SameOp
  <2>4. CASE cmd' = cmd
    BY <1>3, <2>1, <2>3, <2>4 DEF Awaited, Unflushed, SameOp
  <2>5. CASE Idle
    <3>1. ops[k].wake = "none"
      BY <2>5, NobodyWaits
    <3> QED
      BY <2>1, <2>3, <3>1 DEF Awaited, SameOp
  <2> QED
    BY <2>4, <2>5
<1>5. Queued(n)' /\ Awaited(n)'
  <2>1. ops'[n] = o
    BY <1>2
  <2>2. o.kind = "clear" => o.wake = "own"
    OBVIOUS
  <2>3. Queued(n)'
    BY <1>3, <2>1, <2>2 DEF Queued
  <2>4. Awaited(n)'
    BY <1>3, <2>1 DEF Awaited
  <2> QED
    BY <2>3, <2>4
<1>6. \A j, k \in 1 .. Len(ops') : ops'[j].wake # "none" /\ ops'[k].wake # "none" => j = k
  <2> SUFFICES ASSUME NEW j \in 1 .. Len(ops'), NEW k \in 1 .. Len(ops'),
                      ops'[j].wake # "none", ops'[k].wake # "none"
               PROVE  j = k
    OBVIOUS
  <2>1. CASE o.wake = "none"
    <3>1. j # Len(ops') /\ k # Len(ops')
      BY <2>1
    <3>2. j \in 1 .. Len(ops) /\ k \in 1 .. Len(ops)
      BY <1>1, <3>1
    <3> QED
      BY <3>2 DEF Line, SameOp
  <2>2. CASE Idle
    <3>1. \A i \in 1 .. Len(ops) : ops'[i].wake = "none"
      BY <2>2, NobodyWaits DEF SameOp
    <3> QED
      BY <1>1, <3>1
  <2> QED
    BY <2>1, <2>2
<1>7. \A k \in 1 .. Len(ops') : Queued(k)' /\ Awaited(k)'
  <2> SUFFICES ASSUME NEW k \in 1 .. Len(ops') PROVE Queued(k)' /\ Awaited(k)'
    OBVIOUS
  <2>1. k \in 1 .. Len(ops) \/ k = n
    BY <1>1, <1>2
  <2> QED
    BY <1>4, <1>5, <2>1
<1> QED
  BY <1>6, <1>7 DEF Line

(* flushNow returned the queue (AutosaveScheduler.ts flushNow).            *)
LEMMA LineMarked ==
  ASSUME TypeOK, Line, Idle, ops # <<>>, ~ Unflushed, sch' = sch,
         ops' = [ops EXCEPT ![Len(ops)].wake = "any"], cmd' # Absent, cmd'.at = "flush"
  PROVE  /\ Line' /\ ops' \in Seq(OpType) /\ Len(ops') = Len(ops) /\ ops' # <<>>
         /\ \A k \in 1 .. Len(ops) :
              ops'[k] = IF k = Len(ops) THEN [ops[k] EXCEPT !.wake = "any"] ELSE ops[k]
<1>1. /\ Len(ops) \in Nat \ {0} /\ Len(ops) \in 1 .. Len(ops)
      /\ \A k \in 1 .. Len(ops) : ops[k] \in OpType
  BY HeadOfLine, Elements
<1>2. \A o \in OpType : [o EXCEPT !.wake = "any"] \in OpType
  BY DEF OpType
<1>3. /\ ops' \in Seq(OpType) /\ Len(ops') = Len(ops) /\ ops' # <<>>
      /\ \A k \in 1 .. Len(ops) :
           ops'[k] = IF k = Len(ops) THEN [ops[k] EXCEPT !.wake = "any"] ELSE ops[k]
  <2>1. ops \in Seq(OpType)
    BY DEF TypeOK
  <2>2. ops' = [ops EXCEPT ![Len(ops)] = [ops[Len(ops)] EXCEPT !.wake = "any"]]
    OBVIOUS
  <2> QED
    BY <1>1, <1>2, <2>1, <2>2
<1>4. ASSUME NEW k \in 1 .. Len(ops) PROVE Queued(k)' /\ Awaited(k)'
  <2>1. Queued(k) /\ ops[k] \in OpType /\ ops[k].wake = "none" /\ ops[k].kind = "flush"
    BY <1>1, NobodyWaits DEF Line
  <2>2. ops'[k] = [ops[k] EXCEPT !.wake = "any"] \/ ops'[k] = ops[k]
    BY <1>3
  <2>3. /\ ops'[k].kind = "flush" /\ ops'[k].at = ops[k].at /\ ops'[k].gen = ops[k].gen
        /\ ops'[k].target = ops[k].target /\ ops'[k].wake \in {"any", "none"}
        /\ ops'[k].previous = ops[k].previous
    BY <2>1, <2>2 DEF OpType
  <2>4. Queued(k)'
    BY <2>1, <2>3 DEF Queued
  <2>5. Awaited(k)'
    BY <2>3 DEF Awaited, Unflushed
  <2> QED
    BY <2>4, <2>5
<1>5. \A k \in 1 .. Len(ops) : ops'[k].wake # "none" => k = Len(ops)
  BY <1>3, NobodyWaits
<1>6. \A j, k \in 1 .. Len(ops') : ops'[j].wake # "none" /\ ops'[k].wake # "none" => j = k
  <2>1. Len(ops') = Len(ops)
    BY <1>3
  <2> QED
    BY <1>5, <2>1
<1>7. \A k \in 1 .. Len(ops') : Queued(k)' /\ Awaited(k)'
  BY <1>3, <1>4
<1>8. Line'
  BY <1>6, <1>7 DEF Line
<1> QED
  BY <1>3, <1>8

-----------------------------------------------------------------------------
(* What the running operation may rely on.                                 *)
LEMMA RunningFacts ==
  ASSUME TypeOK, Line, ops # <<>>
  PROVE  /\ Op \in OpType
         /\ Op.gen <= sch.gen
         /\ Timely => Op.target <= sch.rev
         /\ Op.at # "start" => Timely
         /\ Op.at \in {"start", "snapped"} => Op.previous = Absent
         /\ Op.kind = "clear" =>
              /\ Timely /\ Op.wake = "own" /\ Op.at \in {"start", "metadata", "payload"}
              /\ Op.at = "start" => Op.source = sch.source
              /\ Step("clear")
         /\ Op.kind = "flush" /\ Op.wake # "none" => Step("flush")
         /\ Op.kind = "flush" /\ Op.wake = "any" => ~ Unflushed
         /\ Op.kind = "flush" /\ Op.wake = "own" => Timely /\ Op.target = sch.rev
<1>1. Op = ops[1] /\ Op \in OpType /\ 1 \in 1 .. Len(ops)
  BY HeadOfLine
<1>2. Queued(1) /\ Awaited(1)
  BY <1>1 DEF Line
<1> QED
  BY <1>1, <1>2 DEF Queued, Awaited, Timely, Step

(* Calm is only where no operation has work to do.                         *)
LEMMA NotCalm ==
  ASSUME TypeOK, Line, Quiet, ops # <<>>,
         Op.at # "start" \/ Op.kind = "clear" \/ (Timely /\ Op.target > sch.saved)
  PROVE  /\ ~ (Replacing /\ cmd.at # "flush") /\ ~ Step("saved")
<1>1. Op = ops[1] /\ Op \in OpType /\ 1 \in 1 .. Len(ops)
  BY HeadOfLine
<1>2. ~ Calm
  <2> SUFFICES ASSUME Calm PROVE FALSE
    OBVIOUS
  <2>1. Op.kind = "flush" /\ Op.at = "start" /\ (Op.gen = sch.gen => Op.target <= sch.saved)
    BY <1>1 DEF Calm
  <2>2. Op.target \in Nat /\ sch.saved \in Nat
    BY <1>1 DEF OpType, TypeOK
  <2> QED
    BY <2>1, <2>2 DEF Timely
<1> QED
  BY <1>2 DEF Quiet

(* The command after an operation that somebody may have waited for.       *)
LEMMA CommandAfter ==
  ASSUME TypeOK, Line, Commands, ops # <<>>, NEW ok, Settles(ok)
  PROVE  /\ cmd' \in {Absent} \union CmdType
         /\ \/ cmd' = cmd
            \/ cmd' = Absent /\ cmd # Absent /\ cmd.at \in {"flush", "clear"}
            \/ /\ ok /\ Op.kind = "clear" /\ Step("clear") /\ cmd.kind = "save"
               /\ cmd' # Absent /\ cmd' = [cmd EXCEPT !.at = "saved"]
            \/ /\ Op.kind = "flush" /\ Step("flush") /\ Replacing
               /\ cmd' # Absent /\ cmd' = [cmd EXCEPT !.at = "core"]
               /\ \/ Op.wake = "any" /\ ~ Unflushed
                  \/ Op.wake = "own" /\ ok /\ Timely /\ Op.target = sch.rev
<1>1. /\ Op \in OpType
      /\ Op.kind = "clear" => Op.wake = "own" /\ Step("clear")
      /\ Op.kind = "flush" /\ Op.wake # "none" => Step("flush")
      /\ Op.kind = "flush" /\ Op.wake = "any" => ~ Unflushed
      /\ Op.kind = "flush" /\ Op.wake = "own" => Timely /\ Op.target = sch.rev
  BY RunningFacts
<1>2. Op.kind \in {"flush", "clear"} /\ Op.wake \in {"none", "any", "own"}
  BY <1>1 DEF OpType
<1>3. cmd # Absent => cmd \in CmdType
  BY DEF TypeOK
<1>4. CASE Op.wake = "none"
  BY <1>3, <1>4 DEF Settles
<1>5. CASE Op.wake # "none" /\ ~ ok /\ Op.wake = "own"
  <2>1. cmd' = Absent /\ cmd # Absent /\ cmd.at \in {"flush", "clear"}
    BY <1>1, <1>2, <1>5 DEF Settles, Step
  <2> QED
    BY <2>1
<1>6. CASE Op.wake # "none" /\ ~ (~ ok /\ Op.wake = "own")
  <2>1. cmd' = [cmd EXCEPT !.at = IF @ = "clear" THEN "saved" ELSE "core"]
    BY <1>6 DEF Settles
  <2>2. CASE Op.kind = "clear"
    <3>1. cmd # Absent /\ cmd.at = "clear" /\ cmd \in CmdType /\ ok
      BY <1>1, <1>3, <1>6, <2>2 DEF Step
    <3>2. cmd' = [cmd EXCEPT !.at = "saved"]
      BY <2>1, <3>1
    <3>3. cmd' \in CmdType /\ cmd.kind = "save"
      BY <3>1, <3>2 DEF CmdType, Commands, Replacing
    <3> QED
      BY <2>2, <3>1, <3>2, <3>3, AbsentAssumption DEF Step
  <2>3. CASE Op.kind = "flush"
    <3>1. cmd # Absent /\ cmd.at = "flush" /\ cmd \in CmdType
      BY <1>1, <1>3, <1>6, <2>3 DEF Step
    <3>2. cmd' = [cmd EXCEPT !.at = "core"]
      BY <2>1, <3>1
    <3>3. cmd' \in CmdType /\ Replacing
      BY <3>1, <3>2 DEF CmdType, Commands, Replacing
    <3>4. \/ Op.wake = "any" /\ ~ Unflushed
          \/ Op.wake = "own" /\ ok /\ Timely /\ Op.target = sch.rev
      BY <1>1, <1>2, <1>6, <2>3
    <3> QED
      BY <2>3, <3>1, <3>2, <3>3, <3>4, AbsentAssumption DEF Step
  <2> QED
    BY <1>2, <2>2, <2>3
<1> QED
  BY <1>4, <1>5, <1>6

LEMMA RestWaits ==
  ASSUME TypeOK, Line, ops # <<>>, NEW ok, Settles(ok)
  PROVE  /\ ops' # <<>> => Op'.at = "start"
         /\ \A k \in 1 .. Len(ops') : ops'[k].at = "start" /\ k + 1 \in 1 .. Len(ops) /\ k + 1 # 1
<1>1. \A k \in 1 .. Len(ops') : ops'[k] = ops[k + 1] /\ k + 1 \in 2 .. Len(ops)
  BY SettlesOne
<1>2. \A k \in 2 .. Len(ops) : k > 1 /\ k # 1 /\ k \in 1 .. Len(ops) /\ ops[k].at = "start"
  <2> SUFFICES ASSUME NEW k \in 2 .. Len(ops)
               PROVE  k > 1 /\ k # 1 /\ k \in 1 .. Len(ops) /\ ops[k].at = "start"
    OBVIOUS
  <2>1. k > 1 /\ k # 1 /\ k \in 1 .. Len(ops)
    BY HeadOfLine
  <2> QED
    BY <2>1 DEF Line, Queued
<1>3. ops' # <<>> => Op' = ops[2] /\ 2 \in 2 .. Len(ops)
  BY SettlesOne
<1> QED
  BY <1>1, <1>2, <1>3

LEMMA CommandsAfter ==
  ASSUME TypeOK, Line, Commands, ops # <<>>, NEW ok, Settles(ok)
  PROVE  Commands'
<1>1. CASE cmd' = cmd
  BY <1>1 DEF Commands, Replacing
<1>2. CASE cmd' = Absent
  BY <1>2 DEF Commands
<1>3. CASE cmd # Absent /\ cmd.kind = "save" /\ cmd' = [cmd EXCEPT !.at = "saved"]
  <2>1. cmd \in CmdType
    BY <1>3 DEF TypeOK
  <2>2. cmd'.kind = "save" /\ cmd'.at = "saved"
    BY <1>3, <2>1 DEF CmdType
  <2> QED
    BY <2>2 DEF Commands, Replacing
<1>4. CASE cmd # Absent /\ Replacing /\ cmd' = [cmd EXCEPT !.at = "core"]
  <2>1. cmd \in CmdType
    BY <1>4 DEF TypeOK
  <2>2. cmd'.kind = cmd.kind /\ cmd'.at = "core"
    BY <1>4, <2>1 DEF CmdType
  <2> QED
    BY <1>4, <2>2 DEF Commands, Replacing
<1> QED
  BY <1>1, <1>2, <1>3, <1>4, CommandAfter DEF Step

LEMMA QuietAfter ==
  ASSUME TypeOK, Line, Commands, Quiet, ops # <<>>, NEW ok, Settles(ok), Steady,
         ok /\ Op.kind = "flush" /\ Timely => Op.target <= sch'.saved,
         core' = core, disk'.files = disk.files
  PROVE  Quiet'
<1>1. /\ sch.gen \in Nat /\ sch.rev \in Nat /\ sch.saved \in Nat
      /\ sch'.gen = sch.gen /\ sch'.rev = sch.rev /\ sch'.saved \in Nat
      /\ sch'.saved >= sch.saved /\ sch.saved <= sch.rev
  BY DEF Steady, SchType, TypeOK
<1>2. Op \in OpType /\ Op.target \in Nat
  BY HeadOfLine DEF OpType
<1>3. \A k \in 1 .. Len(ops') :
        /\ ops'[k] = ops[k + 1] /\ k + 1 \in 1 .. Len(ops) /\ k + 1 # 1
        /\ ops'[k] \in OpType /\ ops'[k].at = "start"
  BY SettlesOne, RestWaits, Elements
<1>4. ASSUME Calm PROVE Calm'
  <2>1. ~ Unflushed'
    BY <1>1, <1>4 DEF Calm, Unflushed
  <2>2. ASSUME NEW k \in 1 .. Len(ops')
        PROVE  /\ ops'[k].kind = "flush" /\ ops'[k].at = "start"
               /\ ops'[k].gen = sch'.gen => ops'[k].target <= sch'.saved
    <3>1. ops'[k].target \in Nat
      BY <1>3 DEF OpType
    <3>2. /\ ops[k + 1].kind = "flush"
          /\ ops[k + 1].gen = sch.gen => ops[k + 1].target <= sch.saved
      BY <1>3, <1>4 DEF Calm
    <3> QED
      BY <1>1, <1>3, <3>1, <3>2
  <2> QED
    BY <2>1, <2>2 DEF Calm
<1>5. ASSUME Op.wake # "none", sch'.rev <= sch'.saved PROVE Calm'
  <2>1. ~ Unflushed'
    BY <1>1, <1>5 DEF Unflushed
  <2>2. ASSUME NEW k \in 1 .. Len(ops')
        PROVE  /\ ops'[k].kind = "flush" /\ ops'[k].at = "start"
               /\ ops'[k].gen = sch'.gen => ops'[k].target <= sch'.saved
    <3>1. Queued(k + 1) /\ ops'[k] = ops[k + 1] /\ ops'[k] \in OpType
      BY <1>3 DEF Line
    <3>2. ops[k + 1].wake = "none"
      <4>1. Op = ops[1] /\ 1 \in 1 .. Len(ops)
        BY HeadOfLine
      <4> QED
        BY <1>3, <1>5, <4>1 DEF Line
    <3>3. ops'[k].kind = "flush" /\ ops'[k].target \in Nat
      BY <3>1, <3>2 DEF Queued, OpType
    <3>4. ops'[k].gen = sch'.gen => ops'[k].target <= sch'.rev
      BY <1>1, <3>1 DEF Queued
    <3> QED
      BY <1>1, <1>3, <1>5, <3>3, <3>4
  <2> QED
    BY <2>1, <2>2 DEF Calm
<1>6. CASE cmd' = cmd
  BY <1>1, <1>4, <1>6 DEF Quiet, Replacing, Step, Unflushed
<1>7. CASE cmd' = Absent
  BY <1>7 DEF Quiet, Replacing, Step
<1>8. CASE /\ Op.kind = "clear" /\ Step("clear") /\ cmd.kind = "save"
           /\ cmd' # Absent /\ cmd' = [cmd EXCEPT !.at = "saved"]
  <2>1. cmd \in CmdType
    BY <1>8 DEF TypeOK, Step
  <2>2. cmd'.kind = "save" /\ cmd'.at = "saved"
    BY <1>8, <2>1 DEF CmdType
  <2>3. Calm'
    <3>1. Op.wake = "own" /\ ~ Unflushed
      BY <1>8, RunningFacts DEF Quiet
    <3>2. sch'.rev <= sch'.saved
      BY <1>1, <3>1 DEF Unflushed
    <3> QED
      BY <1>5, <3>1, <3>2
  <2>4. core.work \in disk.files /\ ~ core.dirty
    BY <1>8 DEF Quiet, Step
  <2> QED
    BY <2>2, <2>3, <2>4 DEF Quiet, Replacing, Step
<1>9. CASE /\ Op.kind = "flush" /\ Step("flush") /\ Replacing
           /\ cmd' # Absent /\ cmd' = [cmd EXCEPT !.at = "core"]
           /\ \/ Op.wake = "any" /\ ~ Unflushed
              \/ Op.wake = "own" /\ ok /\ Timely /\ Op.target = sch.rev
  <2>1. cmd \in CmdType
    BY <1>9 DEF TypeOK, Step
  <2>2. cmd'.kind = cmd.kind /\ cmd'.at = "core"
    BY <1>9, <2>1 DEF CmdType
  <2>3. Calm'
    <3>1. Op.wake # "none" /\ sch'.rev <= sch'.saved
      BY <1>1, <1>9 DEF Unflushed
    <3> QED
      BY <1>5, <3>1
  <2> QED
    BY <1>9, <2>2, <2>3 DEF Quiet, Replacing, Step
<1> QED
  BY <1>6, <1>7, <1>8, <1>9, CommandAfter

(* The part of a step that touches neither the list nor what is listed.    *)
SameShelf ==
  /\ disk' \in DiskType /\ disk'.next = disk.next /\ disk'.files = disk.files
  /\ \A c \in Id : disk'.meta[c] = disk.meta[c] /\ Payload(disk', c) = Payload(disk, c)

LEMMA Types ==
  ASSUME TypeOK
  PROVE  /\ disk \in DiskType /\ core \in [work : Work, dirty : BOOLEAN] /\ sch \in SchType
         /\ sch.saved <= sch.rev /\ ops \in Seq(OpType) /\ cmd \in {Absent} \union CmdType
         /\ spent \in SpentType
         /\ disk.next \in Nat \ {0} /\ disk.meta \in [Id -> {"opfs", "indexeddb", Absent}]
         /\ disk.opfs \in [Id -> {Absent} \union Work]
         /\ disk.idb \in [Id -> {Absent} \union Work]
         /\ disk.files \subseteq Work /\ core.work \in Work /\ core.dirty \in BOOLEAN
         /\ sch.gen \in Nat /\ sch.rev \in Nat /\ sch.saved \in Nat
         /\ sch.source \in Id \union {0} /\ sch.current \in Id \union {0}
         /\ sch.mine \subseteq Id /\ Associated \subseteq Id
BY BoundsAssumption DEF TypeOK, DiskType, SchType, SpentType, Associated, Id

LEMMA TypesThen ==
  ASSUME disk' \in DiskType, core' \in [work : Work, dirty : BOOLEAN], sch' \in SchType,
         sch'.saved <= sch'.rev, ops' \in Seq(OpType), cmd' \in {Absent} \union CmdType,
         spent' \in SpentType
  PROVE  TypeOK'
BY DEF TypeOK, DiskType, SchType, SpentType

LEMMA StorageCounts ==
  ASSUME TypeOK, NEW fails, Storage(fails)
  PROVE  spent' \in SpentType
<1>1. spent \in SpentType
  BY Types
<1> QED
  BY <1>1 DEF Storage, SpentType

(* A checkpoint ends and leaves the list as it is.                         *)
LEMMA CheckpointEnds ==
  ASSUME IInv, ops # <<>>, Op.kind = "flush", Op.at \notin {"cleanup", "answer"},
         NEW ok, Settles(ok), Steady, sch'.saved <= sch'.rev,
         ok /\ Timely => Op.target <= sch'.saved,
         core.dirty /\ ~ Step("answer") /\ ~ Unflushed' => ~ Unflushed,
         core' = core, sch'.source = sch.source, sch'.current = sch.current,
         sch'.mine = sch.mine, SameShelf, spent' \in SpentType
  PROVE  IInv'
<1> USE DEF IInv
<1>1. /\ disk' \in DiskType /\ disk'.next = disk.next /\ disk'.files = disk.files
      /\ \A c \in Id : disk'.meta[c] = disk.meta[c] /\ Payload(disk', c) = Payload(disk, c)
  BY DEF SameShelf
<1>2. /\ sch'.gen = sch.gen /\ sch'.rev = sch.rev /\ sch'.saved \in Nat
      /\ Associated' = Associated /\ Associated \subseteq Id
      /\ sch.source \in Id \union {0} /\ sch.current \in Id \union {0} /\ sch.mine \subseteq Id
  BY Types DEF Steady, SchType, Associated
<1>3. /\ ~ Active' /\ ~ Numbered' /\ ~ Clearing'
      /\ ops' # <<>> => Op'.at = "start"
  BY RestWaits DEF Active, Numbered, Clearing, Flushing
<1>4. /\ cmd' \in {Absent} \union CmdType
      /\ \/ cmd' = cmd
         \/ cmd' = Absent /\ ~ Step("answer")
         \/ /\ ~ Step("answer") /\ cmd' # Absent /\ cmd'.at = "core" /\ cmd'.id = cmd.id
            /\ cmd'.kind = cmd.kind /\ Replacing /\ cmd # Absent
  <2>1. cmd # Absent => cmd \in CmdType
    BY DEF TypeOK
  <2> QED
    BY <2>1, CommandAfter DEF Step, CmdType
<1>5. TypeOK'
  BY <1>1, <1>4, Types, TypesThen, SettlesOne DEF Steady
<1>6. Numbers'
  BY <1>1, <1>2, <1>3, <1>4 DEF Numbers, Where
<1>7. Line' /\ Commands' /\ Quiet'
  BY <1>1, LineSettles, CommandsAfter, QuietAfter
<1>8. Checkpoint'
  BY <1>3 DEF Checkpoint, Flushing
<1>9. Removal'
  BY <1>1, <1>2, <1>3, <1>4 DEF Removal, Where, Replacing, CmdType, Id
<1>10. ListedIsReadable'
  BY <1>1 DEF ListedIsReadable, Where, Held
<1>11. Kept'
  BY <1>1, <1>2, <1>3, <1>4 DEF Kept, Held, Step, CmdType
<1>12. Mine'
  BY <1>1, <1>2, <1>3, <1>4 DEF Mine, SavedIsCleared, Where, Flushing
<1>13. Past'
  BY <1>1, <1>2, <1>3, <1>4 DEF Past, Where, Held, Step, Flushing, Replacing
<1> QED
  BY <1>5, <1>6, <1>7, <1>8, <1>9, <1>10, <1>11, <1>12, <1>13

(* A checkpoint goes on: no command has reached the worker's answer to a   *)
(* new work, and the edits that came meanwhile are not counted as saved.   *)
LEMMA CheckpointGoes ==
  ASSUME IInv, ops # <<>>, Op.kind = "flush", NEW o \in OpType, Goes(o),
         o.at # "start", o.at = "snapped" => o.previous = Absent,
         Timely, Op.at # "start" \/ Op.target > sch.saved,
         o.gen = Op.gen, o.kind = Op.kind, o.target = Op.target, o.wake = Op.wake,
         Steady, sch'.saved = sch.saved, sch'.source = sch.source,
         core' = core, disk'.files = disk.files
  PROVE  /\ Line' /\ Commands' /\ Quiet'
         /\ ops' # <<>> /\ Op' = o /\ cmd' = cmd /\ ops' \in Seq(OpType)
         /\ Op \in OpType /\ Op.target \in Nat /\ Op.target <= sch.rev
         /\ Op.target > sch.saved \/ Step("clear")
         /\ ~ (Replacing /\ cmd.at # "flush") /\ ~ Step("saved")
         /\ core.dirty => Op.target > sch.saved /\ Unflushed
         /\ ~ Clearing'
<1> USE DEF IInv
<1>1. /\ ops' # <<>> /\ Op' = o /\ cmd' = cmd /\ ops' \in Seq(OpType)
  BY GoesOn
<1>2. Op \in OpType /\ Op.target \in Nat /\ Op.target <= sch.rev
  BY RunningFacts DEF OpType
<1>3. ~ (Replacing /\ cmd.at # "flush") /\ ~ Step("saved")
  BY NotCalm
<1>4. Line'
  BY LineGoesOn
<1>5. Commands'
  BY <1>1 DEF Commands, Replacing
<1>6. Quiet'
  BY <1>1, <1>3 DEF Quiet, Replacing, Step, Steady, Unflushed
<1>7. Op.target > sch.saved \/ Step("clear")
  <2>1. Op.at # "start" => Active
    BY <1>2 DEF Active, Flushing, OpType
  <2> QED
    BY <2>1 DEF Checkpoint
<1>8. core.dirty => Op.target > sch.saved /\ Unflushed
  <2>1. Step("clear") => ~ core.dirty
    BY DEF Quiet, Step, Commands, Replacing, TypeOK, CmdType
  <2> QED
    BY <1>2, <1>7, <2>1, Types DEF Unflushed
<1> QED
  BY <1>1, <1>2, <1>3, <1>4, <1>5, <1>6, <1>7, <1>8 DEF Clearing

-----------------------------------------------------------------------------
(* The steps of a checkpoint.                                              *)
LEMMA FlushStartsKeeps == ASSUME IInv, FlushStarts PROVE IInv'
<1> USE DEF IInv
<1>1. /\ ops # <<>> /\ Op.kind = "flush" /\ Op.at = "start" /\ Op \in OpType
      /\ UNCHANGED <<disk, core, sch, spent>>
  BY HeadOfLine DEF FlushStarts, Running, Op
<1>2. Steady /\ SameShelf /\ spent' \in SpentType /\ sch'.saved <= sch'.rev
      /\ sch' \in SchType /\ disk' \in DiskType /\ core' \in [work : Work, dirty : BOOLEAN]
  BY <1>1, Types DEF Steady, SameShelf
<1>3. CASE ~ (Timely /\ Op.target > sch.saved)
  <2>1. Settles(TRUE)
    BY <1>3 DEF FlushStarts
  <2>2. Timely => Op.target <= sch'.saved
    <3>1. Op.target \in Nat
      BY <1>1 DEF OpType
    <3> QED
      BY <1>1, <1>3, <3>1, Types
  <2> QED
    BY <1>1, <1>2, <2>1, <2>2, CheckpointEnds DEF Unflushed
<1>4. CASE Timely /\ Op.target > sch.saved
  <2> DEFINE o == [Op EXCEPT !.at = "snapped", !.late = cmd # Absent /\ cmd.at = "answer",
                             !.work = IF core.dirty THEN core.work ELSE Absent]
  <2>1. Goes(o)
    BY <1>4 DEF FlushStarts
  <2>2. /\ o \in OpType /\ o.at = "snapped" /\ o.kind = "flush" /\ o.target = Op.target
        /\ o.gen = Op.gen /\ o.wake = Op.wake
        /\ o.work = IF core.dirty THEN core.work ELSE Absent
        /\ o.previous = Absent
    BY <1>1, Types, RunningFacts DEF OpType
  <2> HIDE DEF o
  <2>3. /\ Line' /\ Commands' /\ Quiet'
        /\ ops' # <<>> /\ Op' = o /\ cmd' = cmd /\ ops' \in Seq(OpType)
        /\ ~ (Replacing /\ cmd.at # "flush") /\ ~ Step("saved")
        /\ core.dirty => Op.target > sch.saved /\ Unflushed
        /\ ~ Clearing' /\ ~ Numbered'
    BY <1>1, <1>2, <1>4, <2>1, <2>2, CheckpointGoes DEF Numbered, Flushing
  <2>4. TypeOK'
    BY <1>2, <2>3, Types, TypesThen, <1>1
  <2>5. Numbers'
    BY <1>1, <2>3 DEF Numbers, Where
  <2>6. Checkpoint'
    BY <1>1, <1>4, <2>2, <2>3 DEF Checkpoint, Flushing, Active
  <2>7. Removal'
    BY <1>1, <2>2, <2>3 DEF Removal, Where, Associated
  <2>8. ListedIsReadable'
    BY <1>1 DEF ListedIsReadable, Where, Held
  <2>9. Kept'
    BY <1>1, <2>2, <2>3 DEF Kept, Held, Step, Unflushed, Associated
  <2>10. Mine'
    BY <1>1, <2>2, <2>3 DEF Mine, SavedIsCleared, Where, Flushing, Associated, Step
  <2>11. Past'
    <3>1. Associated' = Associated /\ sch.current # 0 => sch.current \in Associated
      BY <1>1 DEF Associated
    <3> QED
      BY <1>1, <2>2, <2>3, <3>1 DEF Past, Where, Held, Step, Flushing, Replacing, Associated
  <2> QED
    BY <2>3, <2>4, <2>5, <2>6, <2>7, <2>8, <2>9, <2>10, <2>11
<1> QED
  BY <1>3, <1>4

LEMMA NothingToKeepKeeps == ASSUME IInv, NothingToKeep PROVE IInv'
<1> USE DEF IInv
<1>1. /\ ops # <<>> /\ Op.kind = "flush" /\ Op.at = "snapped" /\ Op \in OpType
      /\ UNCHANGED <<disk, core, spent>> /\ Settles(TRUE)
      /\ sch' = [sch EXCEPT !.saved = IF Timely THEN Later(@, Op.target) ELSE @]
  BY HeadOfLine DEF NothingToKeep, Running, Op
<1>2. Timely /\ Op.target <= sch.rev /\ Op.target \in Nat
  BY <1>1, RunningFacts DEF OpType
<1>3. Op.work = Absent
  BY <1>2 DEF NothingToKeep
<1>4. /\ sch' \in SchType /\ sch'.saved = (IF sch.saved < Op.target THEN Op.target ELSE sch.saved)
      /\ sch'.gen = sch.gen /\ sch'.rev = sch.rev /\ sch'.source = sch.source
      /\ sch'.current = sch.current /\ sch'.mine = sch.mine
  BY <1>1, <1>2, Types DEF SchType, Later
<1>5. Steady /\ SameShelf /\ spent' \in SpentType /\ sch'.saved <= sch'.rev
      /\ Op.target <= sch'.saved
  BY <1>1, <1>2, <1>4, Types DEF Steady, SameShelf
<1>6. core.dirty /\ ~ Step("answer") /\ ~ Unflushed' => ~ Unflushed
  <2> SUFFICES ASSUME core.dirty, ~ Step("answer"), ~ Unflushed', Unflushed PROVE FALSE
    OBVIOUS
  <2>1. Op.target = sch.rev
    BY <1>2, <1>4, Types DEF Unflushed
  <2>2. Op.work = core.work
    BY <1>1, <2>1 DEF Kept, Active, Flushing
  <2>3. core.work # Absent
    BY Types, BoundsAssumption DEF Work
  <2> QED
    BY <1>3, <2>2, <2>3
<1> QED
  BY <1>1, <1>4, <1>5, <1>6, CheckpointEnds

LEMMA TakesNumberKeeps == ASSUME IInv, TakesNumber PROVE IInv'
<1> USE DEF IInv
<1>1. /\ ops # <<>> /\ Op.kind = "flush" /\ Op.at = "snapped" /\ Op \in OpType
      /\ UNCHANGED <<core, sch>> /\ Timely /\ Op.work # Absent /\ Active
  BY HeadOfLine DEF TakesNumber, Running, Op, Active, Flushing
<1>2. PICK fails \in BOOLEAN :
        /\ Storage(fails)
        /\ IF fails THEN Settles(FALSE) /\ UNCHANGED disk
           ELSE IF sch.current # 0 /\ Where(sch.current) # Absent
           THEN /\ Goes([Op EXCEPT !.at = "payload", !.id = sch.current,
                                   !.previous = Where(sch.current)])
                /\ UNCHANGED disk
           ELSE /\ disk.next \in Id
                /\ disk' = [disk EXCEPT !.next = @ + 1]
                /\ Goes([Op EXCEPT !.at = "payload", !.id = disk.next])
  BY DEF TakesNumber
<1>3. Steady /\ spent' \in SpentType /\ sch'.saved <= sch'.rev
      /\ sch' \in SchType /\ core' \in [work : Work, dirty : BOOLEAN]
  BY <1>1, <1>2, StorageCounts, Types DEF Steady
<1>4. CASE fails
  <2>1. SameShelf
    BY <1>2, <1>4, Types DEF SameShelf
  <2> QED
    BY <1>1, <1>2, <1>3, <1>4, <2>1, CheckpointEnds DEF Unflushed
<1>5. CASE ~ fails
  <2> DEFINE renewed == sch.current # 0 /\ Where(sch.current) # Absent
             o == IF renewed
                  THEN [Op EXCEPT !.at = "payload", !.id = sch.current,
                                  !.previous = Where(sch.current)]
                  ELSE [Op EXCEPT !.at = "payload", !.id = disk.next]
  <2>1. Goes(o) /\ (~ renewed => disk.next \in Id)
        /\ disk' = IF renewed THEN disk ELSE [disk EXCEPT !.next = @ + 1]
    BY <1>2, <1>5
  <2>2. /\ o \in OpType /\ o.at = "payload" /\ o.kind = "flush" /\ o.target = Op.target
        /\ o.gen = Op.gen /\ o.wake = Op.wake /\ o.work = Op.work
    <3>1. CASE renewed
      <4>1. sch.current \in Id /\ Where(sch.current) \in {"opfs", "indexeddb", Absent}
        BY <3>1, Types DEF Where
      <4> QED
        BY <1>1, <3>1, <4>1 DEF OpType
    <3>2. CASE ~ renewed
      BY <1>1, <2>1, <3>2 DEF OpType
    <3> QED
      BY <3>1, <3>2
  <2>3. \/ /\ o.id = sch.current /\ sch.current # 0 /\ o.previous = disk.meta[sch.current]
           /\ disk.meta[sch.current] # Absent /\ disk'.next = disk.next
        \/ /\ o.id = disk.next /\ o.previous = Absent /\ disk.next \in Id
           /\ disk.meta[disk.next] = Absent /\ disk'.next = disk.next + 1
           /\ sch.current = 0 \/ disk.meta[sch.current] = Absent
    <3>1. CASE renewed
      BY <1>1, <2>1, <3>1 DEF OpType, Where
    <3>2. CASE ~ renewed
      <4>1. o.id = disk.next /\ o.previous = Op.previous /\ Op.previous = Absent
        BY <1>1, <3>2, RunningFacts DEF OpType
      <4>2. disk'.next = disk.next + 1 /\ disk.next \in Id
        BY <2>1, <3>2, Types DEF DiskType
      <4>3. disk.meta[disk.next] = Absent
        BY <4>2, Types DEF Numbers, Where
      <4> QED
        BY <3>2, <4>1, <4>2, <4>3 DEF Where
    <3> QED
      BY <3>1, <3>2
  <2>4. /\ disk' \in DiskType /\ disk'.meta = disk.meta /\ disk'.files = disk.files
        /\ \A c : Payload(disk', c) = Payload(disk, c)
    <3>1. CASE renewed
      BY <2>1, <3>1, Types
    <3>2. CASE ~ renewed
      <4>1. disk' = [disk EXCEPT !.next = @ + 1] /\ disk.next + 1 \in 1 .. MaxId + 1
        BY <2>1, <3>2, BoundsAssumption DEF Id
      <4>2. /\ disk' \in DiskType /\ disk'.meta = disk.meta /\ disk'.files = disk.files
            /\ disk'.opfs = disk.opfs /\ disk'.idb = disk.idb
        BY <4>1, Types DEF DiskType
      <4> QED
        BY <4>2 DEF Payload
    <3> QED
      BY <3>1, <3>2
  <2> HIDE DEF o, renewed
  <2>5. /\ Line' /\ Commands' /\ Quiet'
        /\ ops' # <<>> /\ Op' = o /\ cmd' = cmd /\ ops' \in Seq(OpType)
        /\ Op.target > sch.saved \/ Step("clear")
        /\ ~ (Replacing /\ cmd.at # "flush") /\ ~ Step("saved")
        /\ core.dirty => Op.target > sch.saved /\ Unflushed
        /\ ~ Clearing'
    BY <1>1, <1>3, <2>1, <2>2, <2>4, CheckpointGoes
  <2>6. TypeOK'
    BY <1>3, <2>4, <2>5, Types, TypesThen
  <2>7. Numbers'
    BY <1>1, <2>3, <2>4, <2>5, Types DEF Numbers, Where, Id, CmdType
  <2>8. Checkpoint'
    <3>1. o.id # 0
      BY <2>3, Types DEF Id
    <3>2. o.target > sch'.saved \/ Step("clear")'
      BY <1>1, <2>2, <2>5 DEF Step
    <3>3. o.previous = Absent => o.id = disk'.next - 1
      BY <2>3, Types
    <3>4. o.previous = disk'.meta[o.id] /\ (o.previous # Absent => o.id = sch.current)
      BY <2>3, <2>4
    <3>5. o.id = sch.current \/ sch.current = 0 \/ disk'.meta[sch.current] = Absent
      BY <2>3, <2>4
    <3> QED
      BY <1>1, <2>2, <2>5, <3>1, <3>2, <3>3, <3>4, <3>5
      DEF Checkpoint, Flushing, Active, Numbered, Where
  <2>9. Removal'
    BY <1>1, <2>2, <2>3, <2>4, <2>5, Types DEF Removal, Where, Associated, Numbers
  <2>10. ListedIsReadable'
    BY <2>4 DEF ListedIsReadable, Where, Held
  <2>11. Kept'
    BY <1>1, <2>2, <2>4, <2>5 DEF Kept, Held, Step, Unflushed, Associated
  <2>12. Mine'
    <3>1. \A c \in sch.mine : disk.meta[c] # Absent => c \in Associated
      BY <1>1 DEF Mine, Flushing, Where
    <3> QED
      BY <1>1, <2>4, <2>5, <3>1 DEF Mine, SavedIsCleared, Where, Associated, Step
  <2>13. Past'
    <3>1. /\ Associated' = Associated
          /\ \A c \in Associated : disk.meta[c] # Absent => Payload(disk, c) \subseteq core.work
      BY <1>1, <2>5 DEF Associated, Past, Replacing, Held, Where
    <3>2. /\ Op.work \subseteq core.work
          /\ sch.current # 0 /\ disk.meta[sch.current] # Absent =>
               Payload(disk, sch.current) \subseteq Op.work
      BY <1>1 DEF Past, Flushing, Held, Where
    <3>3. disk.meta[o.id] # Absent => Payload(disk, o.id) \subseteq Op.work
      BY <2>3, <3>2
    <3> QED
      BY <1>1, <2>2, <2>4, <2>5, <3>1, <3>2, <3>3 DEF Past, Where, Held, Flushing
  <2> QED
    BY <2>5, <2>6, <2>7, <2>8, <2>9, <2>10, <2>11, <2>12, <2>13
<1> QED
  BY <1>4, <1>5

LEMMA WritesPayloadKeeps == ASSUME IInv, WritesPayload PROVE IInv'
<1> USE DEF IInv
<1>1. /\ ops # <<>> /\ Op.kind = "flush" /\ Op.at = "payload" /\ Op \in OpType
      /\ UNCHANGED <<core, sch>> /\ Timely /\ Active /\ Numbered
  BY HeadOfLine, RunningFacts DEF WritesPayload, Running, Op, Active, Numbered, Flushing
<1>2. PICK fails \in BOOLEAN :
        /\ Storage(fails)
        /\ disk' = IF fails THEN disk ELSE [disk EXCEPT !.opfs[Op.id] = Op.work]
        /\ Goes([Op EXCEPT !.at = "metadata", !.where = IF fails THEN "indexeddb" ELSE "opfs"])
  BY DEF WritesPayload
<1> DEFINE o == [Op EXCEPT !.at = "metadata", !.where = IF fails THEN "indexeddb" ELSE "opfs"]
<1>3. /\ o \in OpType /\ o.at = "metadata" /\ o.kind = "flush" /\ o.target = Op.target
      /\ o.gen = Op.gen /\ o.wake = Op.wake /\ o.work = Op.work /\ o.id = Op.id
      /\ o.previous = Op.previous /\ o.where \in {"indexeddb", "opfs"}
      /\ o.where = (IF fails THEN "indexeddb" ELSE "opfs") /\ o.where # Absent
  BY <1>1, BoundsAssumption DEF OpType
<1> HIDE DEF o
<1>4. Steady /\ spent' \in SpentType /\ sch'.saved <= sch'.rev
      /\ sch' \in SchType /\ core' \in [work : Work, dirty : BOOLEAN]
  BY <1>1, <1>2, StorageCounts, Types DEF Steady
<1>5. /\ Op.id \in Id /\ Op.id # 0 /\ Op.work # Absent /\ Op.work \in Work
      /\ Op.previous = disk.meta[Op.id]
      /\ Op.previous # Absent => Op.id = sch.current
      /\ Op.previous = Absent => Op.id = disk.next - 1
      /\ Op.id = sch.current \/ sch.current = 0 \/ disk.meta[sch.current] = Absent
  BY <1>1 DEF OpType, Checkpoint, Flushing, Where
<1>6. /\ disk' \in DiskType /\ disk'.meta = disk.meta /\ disk'.files = disk.files
      /\ disk'.next = disk.next
      /\ \A c \in Id : c # Op.id => Payload(disk', c) = Payload(disk, c)
      /\ Payload(disk', Op.id) = Op.work \/ Payload(disk', Op.id) = Payload(disk, Op.id)
      /\ o.where = "opfs" => disk'.opfs[Op.id] = Op.work
  <2>1. CASE fails
    BY <1>2, <1>3, <2>1, Types
  <2>2. CASE ~ fails
    <3>1. disk' = [disk EXCEPT !.opfs[Op.id] = Op.work]
      BY <1>2, <2>2
    <3>2. /\ disk' \in DiskType /\ disk'.meta = disk.meta /\ disk'.files = disk.files
          /\ disk'.next = disk.next /\ disk'.idb = disk.idb
          /\ disk'.opfs = [disk.opfs EXCEPT ![Op.id] = Op.work]
      BY <1>5, <3>1, Types DEF DiskType
    <3>3. disk'.opfs[Op.id] = Op.work /\ \A c \in Id : c # Op.id => disk'.opfs[c] = disk.opfs[c]
      BY <1>5, <3>2, Types
    <3> QED
      BY <3>2, <3>3 DEF Payload
  <2> QED
    BY <2>1, <2>2
<1>7. /\ Line' /\ Commands' /\ Quiet'
      /\ ops' # <<>> /\ Op' = o /\ cmd' = cmd /\ ops' \in Seq(OpType)
      /\ Op.target > sch.saved \/ Step("clear")
      /\ ~ (Replacing /\ cmd.at # "flush") /\ ~ Step("saved")
      /\ core.dirty => Op.target > sch.saved /\ Unflushed
      /\ ~ Clearing'
  <2>1. Goes(o)
    BY <1>2 DEF o
  <2> QED
    BY <1>1, <1>3, <1>4, <1>6, <2>1, CheckpointGoes
<1>8. TypeOK'
  BY <1>4, <1>6, <1>7, Types, TypesThen
<1>9. Numbers'
  BY <1>1, <1>3, <1>6, <1>7 DEF Numbers, Where
<1>10. Checkpoint'
  <2>1. o.target > sch'.saved \/ Step("clear")'
    BY <1>1, <1>3, <1>7 DEF Step
  <2> QED
    BY <1>1, <1>3, <1>5, <1>6, <1>7, <2>1
    DEF Checkpoint, Flushing, Active, Numbered, Where
<1>11. Removal'
  BY <1>1, <1>3, <1>6, <1>7 DEF Removal, Where, Associated
<1>12. ListedIsReadable'
  <2>1. \A c \in Id : disk.meta[c] # Absent => Payload(disk, c) # Absent
    BY DEF ListedIsReadable, Where, Held
  <2> QED
    BY <1>5, <1>6, <2>1 DEF ListedIsReadable, Where, Held
<1>13. Kept'
  BY <1>1, <1>3, <1>7 DEF Kept, Held, Step, Unflushed, Replacing
<1>14. Mine'
  <2>1. \A c \in sch.mine : disk.meta[c] # Absent => c \in Associated
    BY <1>1 DEF Mine, Flushing, Where
  <2> QED
    BY <1>1, <1>6, <1>7, <2>1 DEF Mine, SavedIsCleared, Where, Associated, Step
<1>15. Past'
  <2>1. /\ Associated' = Associated /\ Associated \subseteq Id
        /\ \A c \in Associated : disk.meta[c] # Absent => Payload(disk, c) \subseteq core.work
    BY <1>1, <1>7, Types DEF Associated, Past, Replacing, Held, Where
  <2>2. /\ Op.work \subseteq core.work
        /\ disk.meta[Op.id] # Absent => Payload(disk, Op.id) \subseteq Op.work
    BY <1>1, <1>5 DEF Past, Held, Where
  <2>3. \A c \in Associated : disk'.meta[c] # Absent => Payload(disk', c) \subseteq core.work
    BY <1>6, <2>1, <2>2
  <2>4. disk'.meta[o.id] # Absent => Payload(disk', o.id) \subseteq Op.work
    BY <1>3, <1>6, <2>2
  <2> QED
    BY <1>1, <1>3, <1>7, <2>1, <2>2, <2>3, <2>4 DEF Past, Where, Held, Flushing
<1> QED
  BY <1>7, <1>8, <1>9, <1>10, <1>11, <1>12, <1>13, <1>14, <1>15

LEMMA WritesMetadataKeeps == ASSUME IInv, WritesMetadata PROVE IInv'
<1> USE DEF IInv
<1>1. /\ ops # <<>> /\ Op.kind = "flush" /\ Op.at = "metadata" /\ Op \in OpType
      /\ core' = core /\ Timely /\ Active /\ Numbered
  BY HeadOfLine, RunningFacts DEF WritesMetadata, Running, Op, Active, Numbered, Flushing
<1>2. PICK fails \in BOOLEAN :
        /\ Storage(fails)
        /\ IF fails
           THEN /\ IF Op.previous = Absent THEN Goes([Op EXCEPT !.at = "undo"])
                   ELSE Settles(FALSE)
                /\ UNCHANGED <<disk, sch>>
           ELSE /\ disk' = WithCandidate
                /\ sch' = [sch EXCEPT !.mine = IF Timely THEN @ \union {Op.id} ELSE @]
                /\ Goes([Op EXCEPT !.at = IF Op.previous \in {Absent, Op.where}
                                          THEN "answer" ELSE "cleanup"])
  BY DEF WritesMetadata
<1>3. /\ Op.id \in Id /\ Op.id # 0 /\ Op.work # Absent /\ Op.work \in Work
      /\ Op.previous = disk.meta[Op.id]
      /\ Op.previous # Absent => Op.id = sch.current
      /\ Op.previous = Absent => Op.id = disk.next - 1
      /\ Op.id = sch.current \/ sch.current = 0 \/ disk.meta[sch.current] = Absent
      /\ Op.where # Absent /\ Op.where \in {"opfs", "indexeddb"}
      /\ Op.where = "opfs" => disk.opfs[Op.id] = Op.work
  BY <1>1 DEF OpType, Checkpoint, Flushing, Where
<1>4. spent' \in SpentType /\ core' \in [work : Work, dirty : BOOLEAN]
  BY <1>1, <1>2, StorageCounts, Types
<1>5. CASE fails /\ Op.previous # Absent
  <2>1. UNCHANGED <<disk, sch>> /\ Settles(FALSE)
    BY <1>2, <1>5
  <2>2. SameShelf /\ Steady /\ sch'.saved <= sch'.rev
    BY <2>1, Types DEF SameShelf, Steady
  <2> QED
    BY <1>1, <1>4, <2>1, <2>2, CheckpointEnds DEF Unflushed
<1>6. CASE fails /\ Op.previous = Absent
  <2> DEFINE o == [Op EXCEPT !.at = "undo"]
  <2>1. /\ o \in OpType /\ o.at = "undo" /\ o.kind = "flush" /\ o.target = Op.target
        /\ o.gen = Op.gen /\ o.wake = Op.wake /\ o.work = Op.work /\ o.id = Op.id
        /\ o.previous = Op.previous /\ o.where = Op.where /\ Goes(o)
    BY <1>1, <1>2, <1>6 DEF OpType
  <2> HIDE DEF o
  <2>2. /\ Steady /\ UNCHANGED <<disk, core, sch>> /\ sch'.saved <= sch'.rev
        /\ sch' \in SchType /\ disk' \in DiskType
    BY <1>1, <1>2, <1>6, Types DEF Steady
  <2>3. /\ Line' /\ Commands' /\ Quiet'
        /\ ops' # <<>> /\ Op' = o /\ cmd' = cmd /\ ops' \in Seq(OpType)
        /\ Op.target > sch.saved \/ Step("clear")
        /\ ~ (Replacing /\ cmd.at # "flush") /\ ~ Step("saved")
        /\ core.dirty => Op.target > sch.saved /\ Unflushed
        /\ ~ Clearing'
    BY <1>1, <2>1, <2>2, CheckpointGoes
  <2>4. TypeOK'
    BY <1>4, <2>2, <2>3, Types, TypesThen
  <2>5. Numbers'
    BY <1>1, <2>1, <2>2, <2>3 DEF Numbers, Where
  <2>6. Checkpoint'
    <3>1. o.target > sch'.saved \/ Step("clear")'
      BY <2>1, <2>2, <2>3 DEF Step
    <3> QED
      BY <1>3, <1>6, <2>1, <2>2, <2>3, <3>1 DEF Checkpoint, Flushing, Active, Numbered, Where
  <2>7. Removal'
    BY <1>1, <2>1, <2>2, <2>3 DEF Removal, Where, Associated
  <2>8. ListedIsReadable'
    BY <2>2 DEF ListedIsReadable, Where, Held
  <2>9. Kept'
    BY <1>1, <2>1, <2>2, <2>3 DEF Kept, Held, Step, Unflushed, Replacing
  <2>10. Mine'
    <3>1. \A c \in sch.mine : disk.meta[c] # Absent => c \in Associated
      BY <1>1 DEF Mine, Flushing, Where
    <3> QED
      BY <2>2, <2>3, <3>1 DEF Mine, SavedIsCleared, Where, Associated, Step
  <2>11. Past'
    BY <1>1, <2>1, <2>2, <2>3 DEF Past, Where, Held, Flushing, Replacing, Associated
  <2> QED
    BY <2>3, <2>4, <2>5, <2>6, <2>7, <2>8, <2>9, <2>10, <2>11
<1>7. CASE ~ fails
  <2> DEFINE o == [Op EXCEPT !.at = IF Op.previous \in {Absent, Op.where}
                                    THEN "answer" ELSE "cleanup"]
  <2>1. /\ o \in OpType /\ o.kind = "flush" /\ o.target = Op.target
        /\ o.gen = Op.gen /\ o.wake = Op.wake /\ o.work = Op.work /\ o.id = Op.id
        /\ o.previous = Op.previous /\ o.where = Op.where /\ Goes(o)
        /\ o.at = (IF Op.previous \in {Absent, Op.where} THEN "answer" ELSE "cleanup")
    BY <1>1, <1>2, <1>7 DEF OpType
  <2> HIDE DEF o
  <2>2. o.at \in {"answer", "cleanup"} /\ (o.at = "cleanup" => Op.previous \notin {Absent, Op.where})
    BY <2>1
  <2>3. /\ disk' \in DiskType /\ disk'.files = disk.files /\ disk'.next = disk.next
        /\ disk'.meta[Op.id] = Op.where /\ Payload(disk', Op.id) = Op.work
        /\ \A c \in Id : c # Op.id =>
             disk'.meta[c] = disk.meta[c] /\ Payload(disk', c) = Payload(disk, c)
    <3>1. disk' = [disk EXCEPT !.meta[Op.id] = Op.where,
                               !.idb[Op.id] = IF Op.where = "indexeddb" THEN Op.work ELSE @]
      BY <1>2, <1>7 DEF WithCandidate
    <3>2. /\ disk' \in DiskType /\ disk'.opfs = disk.opfs /\ disk'.files = disk.files
          /\ disk'.next = disk.next
          /\ disk'.meta = [disk.meta EXCEPT ![Op.id] = Op.where]
          /\ disk'.idb = [disk.idb EXCEPT ![Op.id] =
                            IF Op.where = "indexeddb" THEN Op.work ELSE @]
      BY <1>3, <3>1, Types DEF DiskType
    <3>3. /\ disk'.meta[Op.id] = Op.where
          /\ Op.where = "indexeddb" => disk'.idb[Op.id] = Op.work
          /\ \A c \in Id : c # Op.id =>
               disk'.meta[c] = disk.meta[c] /\ disk'.idb[c] = disk.idb[c]
      BY <1>3, <3>2, Types
    <3> QED
      BY <1>3, <3>2, <3>3 DEF Payload
  <2>4. /\ sch' \in SchType /\ sch'.gen = sch.gen /\ sch'.rev = sch.rev /\ sch'.saved = sch.saved
        /\ sch'.source = sch.source /\ sch'.current = sch.current
        /\ sch'.mine = sch.mine \union {Op.id}
    BY <1>1, <1>2, <1>3, <1>7, Types DEF SchType
  <2>5. Steady /\ sch'.saved <= sch'.rev /\ Associated' = Associated /\ Associated \subseteq Id
    BY <2>4, Types DEF Steady, Associated
  <2>6. /\ Line' /\ Commands' /\ Quiet'
        /\ ops' # <<>> /\ Op' = o /\ cmd' = cmd /\ ops' \in Seq(OpType)
        /\ Op.target > sch.saved \/ Step("clear")
        /\ ~ (Replacing /\ cmd.at # "flush") /\ ~ Step("saved")
        /\ core.dirty => Op.target > sch.saved /\ Unflushed
        /\ ~ Clearing'
    BY <1>1, <2>1, <2>2, <2>3, <2>4, <2>5, CheckpointGoes
  <2>7. TypeOK'
    BY <1>4, <2>3, <2>4, <2>5, <2>6, Types, TypesThen
  <2>8. Numbers'
    BY <1>1, <1>3, <2>1, <2>3, <2>4, <2>6 DEF Numbers, Where
  <2>9. Checkpoint'
    <3>1. o.target > sch'.saved \/ Step("clear")'
      BY <2>1, <2>4, <2>6 DEF Step
    <3>2. o.id = sch'.current \/ sch'.current = 0 \/ disk'.meta[sch'.current] = Absent
      BY <1>3, <2>1, <2>3, <2>4, Types
    <3> QED
      BY <1>3, <2>1, <2>2, <2>3, <2>4, <2>6, <3>1, <3>2
      DEF Checkpoint, Flushing, Active, Numbered, Where, Held
  <2>10. Removal'
    BY <1>1, <1>3, <2>1, <2>3, <2>5, <2>6, Types DEF Removal, Where, CmdType
  <2>11. ListedIsReadable'
    <3>1. \A c \in Id : disk.meta[c] # Absent => Payload(disk, c) # Absent
      BY DEF ListedIsReadable, Where, Held
    <3> QED
      BY <1>3, <2>3, <3>1 DEF ListedIsReadable, Where, Held
  <2>12. Kept'
    BY <1>1, <2>1, <2>4, <2>6 DEF Kept, Step, Unflushed, Replacing
  <2>13. Mine'
    <3>1. \A c \in sch.mine : disk.meta[c] # Absent => c \in Associated
      BY <1>1 DEF Mine, Flushing, Where
    <3>2. Flushing({"cleanup", "answer"})' /\ Op'.id = Op.id
      BY <2>1, <2>2, <2>6 DEF Flushing
    <3>3. \A c \in sch'.mine : disk'.meta[c] # Absent => c \in Associated' \/ c = Op.id
      BY <2>3, <2>4, <2>5, <3>1, Types
    <3> QED
      BY <2>6, <3>2, <3>3 DEF Mine, SavedIsCleared, Where, Step
  <2>14. Past'
    <3>1. \A c \in Associated : disk.meta[c] # Absent => Payload(disk, c) \subseteq core.work
      BY <1>1, <2>6 DEF Past, Replacing, Held, Where
    <3>2. Op.work \subseteq core.work
      BY <1>1, <1>3 DEF Past
    <3>3. \A c \in Associated : disk'.meta[c] # Absent => Payload(disk', c) \subseteq core.work
      BY <2>3, <2>5, <3>1, <3>2
    <3> QED
      BY <1>1, <2>1, <2>2, <2>3, <2>5, <2>6, <3>2, <3>3 DEF Past, Where, Held, Flushing
  <2> QED
    BY <2>6, <2>7, <2>8, <2>9, <2>10, <2>11, <2>12, <2>13, <2>14
<1> QED
  BY <1>5, <1>6, <1>7

(* A payload that the list does not name may be removed at any time.       *)
LEMMA UnnamedGoes ==
  ASSUME TypeOK, NEW c \in Id, NEW where \in {"opfs", "indexeddb"}, disk.meta[c] # where,
         disk' = DropPayload(disk, c, where) \/ disk' = disk
  PROVE  SameShelf
<1>1. CASE disk' = disk
  BY <1>1, Types DEF SameShelf
<1>2. CASE disk' = DropPayload(disk, c, where)
  <2>1. /\ disk' \in DiskType /\ disk'.meta = disk.meta /\ disk'.files = disk.files
        /\ disk'.next = disk.next
        /\ disk'.opfs = [disk.opfs EXCEPT ![c] = IF where = "opfs" THEN Absent ELSE @]
        /\ disk'.idb = [disk.idb EXCEPT ![c] = IF where = "indexeddb" THEN Absent ELSE @]
    BY <1>2, Types DEF DiskType, DropPayload
  <2>2. \A b \in Id : b # c => disk'.opfs[b] = disk.opfs[b] /\ disk'.idb[b] = disk.idb[b]
    BY <2>1, Types
  <2>3. /\ where # "opfs" => disk'.opfs[c] = disk.opfs[c]
        /\ where # "indexeddb" => disk'.idb[c] = disk.idb[c]
    BY <2>1, Types
  <2>4. \A b \in Id : Payload(disk', b) = Payload(disk, b)
    BY <2>1, <2>2, <2>3 DEF Payload
  <2> QED
    BY <2>1, <2>4 DEF SameShelf
<1> QED
  BY <1>1, <1>2

LEMMA UndoesPayloadKeeps == ASSUME IInv, UndoesPayload PROVE IInv'
<1> USE DEF IInv
<1>1. /\ ops # <<>> /\ Op.kind = "flush" /\ Op.at = "undo" /\ Op \in OpType
      /\ UNCHANGED <<core, sch>> /\ Settles(FALSE)
  BY HeadOfLine DEF UndoesPayload, Running, Op
<1>2. PICK fails \in BOOLEAN :
        /\ Storage(fails)
        /\ disk' = IF fails THEN disk ELSE DropPayload(disk, Op.id, Op.where)
  BY DEF UndoesPayload
<1>3. /\ Op.id \in Id /\ Op.where \in {"opfs", "indexeddb"} /\ disk.meta[Op.id] # Op.where
  BY <1>1 DEF OpType, Checkpoint, Flushing, Where, Numbered
<1>4. SameShelf
  BY <1>2, <1>3, UnnamedGoes
<1>5. Steady /\ sch'.saved <= sch'.rev /\ spent' \in SpentType
  BY <1>1, <1>2, StorageCounts, Types DEF Steady
<1> QED
  BY <1>1, <1>4, <1>5, CheckpointEnds DEF Unflushed

LEMMA RemovesOldPayloadKeeps == ASSUME IInv, RemovesOldPayload PROVE IInv'
<1> USE DEF IInv
<1>1. /\ ops # <<>> /\ Op.kind = "flush" /\ Op.at = "cleanup" /\ Op \in OpType
      /\ UNCHANGED <<core, sch>> /\ Timely /\ Active /\ Numbered
      /\ Goes([Op EXCEPT !.at = "answer"])
  BY HeadOfLine, RunningFacts DEF RemovesOldPayload, Running, Op, Active, Numbered, Flushing
<1>2. PICK fails \in BOOLEAN :
        /\ Storage(fails)
        /\ disk' = IF fails THEN disk ELSE DropPayload(disk, Op.id, Op.previous)
  BY DEF RemovesOldPayload
<1> DEFINE o == [Op EXCEPT !.at = "answer"]
<1>3. /\ o \in OpType /\ o.at = "answer" /\ o.kind = "flush" /\ o.target = Op.target
      /\ o.gen = Op.gen /\ o.wake = Op.wake /\ o.work = Op.work /\ o.id = Op.id
      /\ o.previous = Op.previous /\ o.where = Op.where /\ Goes(o)
  BY <1>1 DEF OpType
<1> HIDE DEF o
<1>4. Steady /\ spent' \in SpentType /\ sch'.saved <= sch'.rev
      /\ sch' \in SchType /\ core' \in [work : Work, dirty : BOOLEAN]
  BY <1>1, <1>2, StorageCounts, Types DEF Steady
<1>5. /\ Op.id \in Id /\ Op.id # 0 /\ Op.work # Absent
      /\ Op.previous # Absent => Op.id = sch.current
      /\ Op.id = sch.current \/ sch.current = 0 \/ disk.meta[sch.current] = Absent
      /\ Op.where # Absent /\ Op.previous \in {"opfs", "indexeddb"} /\ Op.previous # Op.where
      /\ disk.meta[Op.id] = Op.where /\ Payload(disk, Op.id) = Op.work
  BY <1>1 DEF OpType, Checkpoint, Flushing, Where, Held
<1>6. SameShelf
  BY <1>2, <1>5, UnnamedGoes
<1>7. /\ disk' \in DiskType /\ disk'.next = disk.next /\ disk'.files = disk.files
      /\ \A c \in Id : disk'.meta[c] = disk.meta[c] /\ Payload(disk', c) = Payload(disk, c)
  BY <1>6 DEF SameShelf
<1>8. /\ Line' /\ Commands' /\ Quiet'
      /\ ops' # <<>> /\ Op' = o /\ cmd' = cmd /\ ops' \in Seq(OpType)
      /\ Op.target > sch.saved \/ Step("clear")
      /\ ~ (Replacing /\ cmd.at # "flush") /\ ~ Step("saved")
      /\ core.dirty => Op.target > sch.saved /\ Unflushed
      /\ ~ Clearing'
  BY <1>1, <1>3, <1>4, <1>7, CheckpointGoes
<1>9. TypeOK'
  BY <1>4, <1>7, <1>8, Types, TypesThen
<1>10. Associated' = Associated /\ Associated \subseteq Id /\ sch.mine \subseteq Id
       /\ sch.current \in Id \union {0} /\ sch.source \in Id \union {0}
  BY <1>1, Types DEF Associated
<1>11. Numbers'
  BY <1>1, <1>3, <1>7, <1>8 DEF Numbers, Where
<1>12. Checkpoint'
  <2>1. o.target > sch'.saved \/ Step("clear")'
    BY <1>1, <1>3, <1>8 DEF Step
  <2>2. o.id = sch'.current \/ sch'.current = 0 \/ disk'.meta[sch'.current] = Absent
    BY <1>1, <1>3, <1>5, <1>7, <1>10
  <2> QED
    BY <1>1, <1>3, <1>5, <1>7, <1>8, <2>1, <2>2
    DEF Checkpoint, Flushing, Active, Numbered, Where, Held
<1>13. Removal'
  BY <1>1, <1>3, <1>7, <1>8, <1>10, Types DEF Removal, Where, CmdType
<1>14. ListedIsReadable'
  BY <1>7 DEF ListedIsReadable, Where, Held
<1>15. Kept'
  BY <1>1, <1>3, <1>8 DEF Kept, Step, Unflushed, Replacing
<1>16. Mine'
  <2>1. \A c \in sch.mine : disk.meta[c] # Absent => c \in Associated \/ Op.id = c
    BY <1>1 DEF Mine, Where
  <2>2. Flushing({"cleanup", "answer"})' /\ Op'.id = Op.id
    BY <1>3, <1>8 DEF Flushing
  <2> QED
    BY <1>1, <1>7, <1>8, <1>10, <2>1, <2>2 DEF Mine, SavedIsCleared, Where, Step
<1>17. Past'
  <2>1. \A c \in Associated : disk.meta[c] # Absent => Payload(disk, c) \subseteq core.work
    BY <1>1, <1>8 DEF Past, Replacing, Held, Where
  <2>2. Op.work \subseteq core.work
    BY <1>1, <1>5 DEF Past
  <2>3. \A c \in Associated : disk'.meta[c] # Absent => Payload(disk', c) \subseteq core.work
    BY <1>7, <1>10, <2>1
  <2> QED
    BY <1>1, <1>3, <1>5, <1>7, <1>8, <1>10, <2>2, <2>3 DEF Past, Where, Held, Flushing
<1> QED
  BY <1>8, <1>9, <1>11, <1>12, <1>13, <1>14, <1>15, <1>16, <1>17

LEMMA FlushAnswersKeeps == ASSUME IInv, FlushAnswers PROVE IInv'
<1> USE DEF IInv
<1>1. /\ ops # <<>> /\ Op.kind = "flush" /\ Op.at = "answer" /\ Op \in OpType
      /\ UNCHANGED <<disk, core, spent>> /\ Timely /\ Active /\ Numbered /\ Settles(TRUE)
      /\ Flushing({"cleanup", "answer"})
  BY HeadOfLine, RunningFacts DEF FlushAnswers, Running, Op, Active, Numbered, Flushing
<1>2. Op.target \in Nat /\ Op.target <= sch.rev
  BY <1>1, RunningFacts DEF OpType
<1>3. /\ Op.id \in Id /\ Op.id # 0 /\ Op.work # Absent
      /\ Op.id = sch.current \/ sch.current = 0 \/ disk.meta[sch.current] = Absent
      /\ Op.where # Absent /\ disk.meta[Op.id] = Op.where /\ Payload(disk, Op.id) = Op.work
      /\ Op.target > sch.saved \/ Step("clear")
  BY <1>1 DEF OpType, Checkpoint, Flushing, Where, Held
<1>4. /\ sch' \in SchType /\ sch'.gen = sch.gen /\ sch'.rev = sch.rev
      /\ sch'.saved = (IF sch.saved < Op.target THEN Op.target ELSE sch.saved)
      /\ sch'.source = sch.source /\ sch'.current = Op.id /\ sch'.mine = sch.mine
  <2>1. sch' = [sch EXCEPT !.current = Op.id, !.saved = Later(@, Op.target)]
    BY <1>1 DEF FlushAnswers
  <2> QED
    BY <1>2, <1>3, <2>1, Types DEF SchType, Later
<1>5. Steady /\ sch'.saved <= sch'.rev /\ Op.target <= sch'.saved
  BY <1>2, <1>4, Types DEF Steady
<1>6. /\ ~ Active' /\ ~ Numbered' /\ ~ Clearing'
      /\ ops' # <<>> => Op'.at = "start"
  BY <1>1, RestWaits DEF Active, Numbered, Clearing, Flushing
<1>7. /\ cmd' \in {Absent} \union CmdType
      /\ \/ cmd' = cmd
         \/ cmd' = Absent /\ ~ Step("answer")
         \/ /\ ~ Step("answer") /\ cmd' # Absent /\ cmd'.at = "core" /\ cmd'.id = cmd.id
            /\ cmd'.kind = cmd.kind /\ Replacing /\ cmd # Absent
  <2>1. cmd # Absent => cmd \in CmdType
    BY DEF TypeOK
  <2> QED
    BY <1>1, <2>1, CommandAfter DEF Step, CmdType
<1>8. ~ (Replacing /\ cmd.at # "flush") /\ ~ Step("saved")
  BY <1>1, NotCalm
<1>9. Line' /\ Commands' /\ Quiet'
  BY <1>1, <1>4, <1>5, LineSettles, CommandsAfter, QuietAfter
<1>10. TypeOK'
  BY <1>1, <1>4, <1>5, <1>7, Types, TypesThen, SettlesOne
<1>11. Numbers'
  BY <1>1, <1>4, <1>6, <1>7 DEF Numbers, Where
<1>12. Checkpoint'
  BY <1>6 DEF Checkpoint, Flushing
<1>13. Removal'
  BY <1>1, <1>4, <1>6, <1>7 DEF Removal, Where, Replacing, CmdType, Associated
<1>14. ListedIsReadable'
  BY <1>1 DEF ListedIsReadable, Where, Held
<1>15. Kept'
  <2>1. ASSUME core.dirty, ~ Unflushed', ~ Step("answer") PROVE Payload(disk, Op.id) = core.work
    <3>1. ~ Step("clear")
      BY <2>1 DEF Quiet, Step, Commands, Replacing, TypeOK, CmdType
    <3>2. Op.target = sch.rev
      BY <1>2, <1>3, <1>4, <2>1, <3>1, Types DEF Unflushed
    <3> QED
      BY <1>1, <1>3, <2>1, <3>2 DEF Kept
  <2>2. Op.id \in Associated'
    BY <1>3, <1>4 DEF Associated
  <2>3. Step("answer")' => cmd' = cmd /\ Step("answer")
    BY <1>7 DEF Step
  <2>4. Step("answer") => cmd' = cmd
    BY <1>7
  <2> QED
    BY <1>1, <1>6, <1>8, <2>1, <2>2, <2>3, <2>4 DEF Kept, Held, Step, Replacing
<1>16. Mine'
  <2>1. \A c \in sch.mine : disk.meta[c] # Absent => c \in Associated \/ Op.id = c
    BY <1>1 DEF Mine, Where
  <2>2. \A c \in Associated : disk.meta[c] # Absent => c \in Associated'
    BY <1>3, <1>4 DEF Associated
  <2>3. ~ Step("saved")'
    BY <1>7, <1>8 DEF Step
  <2>4. Op.id \in Associated'
    BY <1>3, <1>4 DEF Associated
  <2> QED
    BY <1>1, <1>4, <1>6, <2>1, <2>2, <2>3, <2>4 DEF Mine, SavedIsCleared, Where, Step
<1>17. Past'
  <2>1. \A c \in Associated : disk.meta[c] # Absent => Payload(disk, c) \subseteq core.work
    BY <1>1, <1>8 DEF Past, Replacing, Held, Where
  <2>2. Op.work \subseteq core.work
    BY <1>1, <1>3 DEF Past
  <2>3. \A c \in Associated' : c \in Associated \/ c = Op.id
    BY <1>4 DEF Associated
  <2> QED
    BY <1>1, <1>3, <1>6, <2>1, <2>2, <2>3 DEF Past, Where, Held, Flushing
<1> QED
  BY <1>9, <1>10, <1>11, <1>12, <1>13, <1>14, <1>15, <1>16, <1>17

-----------------------------------------------------------------------------
(* The removal of the candidates of a work that was saved: meanwhile the   *)
(* command waits, and the work is neither changed nor out of its file.     *)
LEMMA ClearFacts ==
  ASSUME IInv, ops # <<>>, Op.kind = "clear"
  PROVE  /\ Op \in OpType /\ Timely /\ Op.wake = "own" /\ Op.at \in {"start", "metadata", "payload"}
         /\ Op.at = "start" => Op.source = sch.source
         /\ cmd # Absent /\ cmd.at = "clear" /\ cmd.kind = "save" /\ cmd \in CmdType
         /\ ~ core.dirty /\ core.work \in disk.files /\ ~ Unflushed
         /\ ~ Active /\ ~ Numbered /\ ~ Replacing
<1> USE DEF IInv
<1>1. /\ Op \in OpType /\ Timely /\ Op.wake = "own" /\ Op.at \in {"start", "metadata", "payload"}
      /\ Op.at = "start" => Op.source = sch.source
      /\ cmd # Absent /\ cmd.at = "clear"
  BY RunningFacts DEF Step
<1>2. cmd \in CmdType /\ cmd.kind = "save"
  BY <1>1 DEF TypeOK, CmdType, Commands, Replacing
<1>3. ~ core.dirty /\ core.work \in disk.files /\ ~ Unflushed
  BY <1>1, <1>2 DEF Quiet, Step
<1> QED
  BY <1>1, <1>2, <1>3 DEF Active, Numbered, Flushing, Replacing

LEMMA ClearGoes ==
  ASSUME IInv, ops # <<>>, Op.kind = "clear", NEW o \in OpType, Goes(o),
         o.at \in {"metadata", "payload"},
         o.gen = Op.gen, o.kind = Op.kind, o.target = Op.target, o.wake = Op.wake,
         Steady, sch'.saved = sch.saved, core' = core, disk'.files = disk.files
  PROVE  /\ Line' /\ Commands' /\ Quiet'
         /\ ops' # <<>> /\ Op' = o /\ cmd' = cmd /\ ops' \in Seq(OpType)
         /\ ~ Active' /\ ~ Numbered'
<1> USE DEF IInv
<1>1. ops' # <<>> /\ Op' = o /\ cmd' = cmd /\ ops' \in Seq(OpType)
  BY GoesOn
<1>2. /\ Timely /\ cmd # Absent /\ cmd.at = "clear" /\ cmd.kind = "save"
  BY ClearFacts
<1>3. Line'
  BY <1>2, LineGoesOn
<1>4. Commands'
  BY <1>1 DEF Commands, Replacing
<1>5. Quiet'
  BY <1>1, <1>2 DEF Quiet, Replacing, Step, Steady, Unflushed
<1> QED
  BY <1>1, <1>3, <1>4, <1>5 DEF Active, Numbered, Flushing

(* A candidate leaves the list; everything else stays where it is.         *)
Leaves(c) ==
  /\ disk' \in DiskType /\ disk'.next = disk.next /\ disk'.files = disk.files
  /\ \A b \in Id : b # c =>
       disk'.meta[b] = disk.meta[b] /\ Payload(disk', b) = Payload(disk, b)
  /\ disk'.meta[c] # Absent =>
       disk'.meta[c] = disk.meta[c] /\ Payload(disk', c) = Payload(disk, c)

LEMMA DropLeaves ==
  ASSUME TypeOK, NEW c \in Id, disk' = DropMetadata(c)
  PROVE  Leaves(c) /\ disk'.meta[c] = Absent
<1>1. /\ disk' \in DiskType /\ disk'.next = disk.next /\ disk'.files = disk.files
      /\ disk'.opfs = disk.opfs
      /\ disk'.meta = [disk.meta EXCEPT ![c] = Absent]
      /\ disk'.idb = [disk.idb EXCEPT ![c] = IF Where(c) = "indexeddb" THEN Absent ELSE @]
  BY Types DEF DropMetadata, DiskType
<1>2. /\ disk'.meta[c] = Absent
      /\ \A b \in Id : b # c => disk'.meta[b] = disk.meta[b] /\ disk'.idb[b] = disk.idb[b]
  BY <1>1, Types
<1> QED
  BY <1>1, <1>2 DEF Leaves, Payload

LEMMA SameLeaves ==
  ASSUME TypeOK, SameShelf, NEW c \in Id
  PROVE  Leaves(c)
BY DEF SameShelf, Leaves

LEMMA LenOfEmpty == Len(<<>>) = 0
OBVIOUS

(* What is left after a candidate has been removed, or could not be.       *)
LEMMA ClearProceeds ==
  ASSUME IInv, ops # <<>>, Op.kind = "clear", Op.at # "start", NEW failed \in BOOLEAN,
         ClearGoesOn(failed), core' = core, spent' \in SpentType,
         Leaves(Head(Op.todo)),
         IF failed THEN sch' = sch
         ELSE sch' = Forget(Head(Op.todo)) /\ disk'.meta[Head(Op.todo)] = Absent
  PROVE  IInv'
<1> USE DEF IInv
<1> DEFINE c == Head(Op.todo)
<1>1. /\ Op \in OpType /\ Timely /\ Op.wake = "own" /\ Op.at \in {"metadata", "payload"}
      /\ cmd # Absent /\ cmd.at = "clear" /\ cmd.kind = "save" /\ cmd \in CmdType
      /\ ~ core.dirty /\ core.work \in disk.files /\ ~ Unflushed
      /\ ~ Active /\ ~ Numbered /\ ~ Replacing /\ Clearing
  BY ClearFacts DEF Clearing
<1>2. /\ Op.todo \in Seq(Id) /\ Op.todo # <<>> /\ c = Op.todo[1] /\ c \in Id
      /\ Len(Op.todo) \in Nat \ {0} /\ 1 \in 1 .. Len(Op.todo)
      /\ Tail(Op.todo) \in Seq(Id) /\ Len(Tail(Op.todo)) = Len(Op.todo) - 1
      /\ \A k \in 1 .. Len(Op.todo) - 1 : Tail(Op.todo)[k] = Op.todo[k + 1]
  <2>1. Op.todo \in Seq(Id) /\ Op.todo # <<>>
    BY <1>1 DEF OpType, Removal
  <2> QED
    BY <2>1
<1> HIDE DEF c
<1>3. /\ disk' \in DiskType /\ disk'.next = disk.next /\ disk'.files = disk.files
      /\ \A b \in Id : b # c =>
           disk'.meta[b] = disk.meta[b] /\ Payload(disk', b) = Payload(disk, b)
      /\ disk'.meta[c] # Absent =>
           disk'.meta[c] = disk.meta[c] /\ Payload(disk', c) = Payload(disk, c)
  BY DEF Leaves, c
<1>4. /\ sch' \in SchType /\ sch'.gen = sch.gen /\ sch'.rev = sch.rev /\ sch'.saved = sch.saved
      /\ sch'.mine = sch.mine /\ sch'.source \in {sch.source, 0} /\ sch'.current \in {sch.current, 0}
      /\ Associated' \subseteq Associated /\ Associated \subseteq Id
      /\ ~ failed => c \notin Associated' /\ disk'.meta[c] = Absent
      /\ \A b \in Associated : b \in Associated' \/ (~ failed /\ b = c)
  <2>1. CASE failed
    BY <2>1, Types DEF Associated
  <2>2. CASE ~ failed
    <3>1. sch' = [sch EXCEPT !.source = IF @ = c THEN 0 ELSE @, !.current = IF @ = c THEN 0 ELSE @]
      BY <2>2 DEF Forget, c
    <3>2. /\ sch' \in SchType /\ sch'.gen = sch.gen /\ sch'.rev = sch.rev /\ sch'.saved = sch.saved
          /\ sch'.mine = sch.mine
          /\ sch'.source = (IF sch.source = c THEN 0 ELSE sch.source)
          /\ sch'.current = (IF sch.current = c THEN 0 ELSE sch.current)
      BY <3>1, Types DEF SchType
    <3>3. disk'.meta[c] = Absent /\ c # 0
      BY <1>2, <2>2 DEF c, Id
    <3> QED
      BY <2>2, <3>2, <3>3, Types DEF Associated
  <2> QED
    BY <2>1, <2>2
<1>5. Steady /\ sch'.saved <= sch'.rev
  BY <1>4, Types DEF Steady
<1>6. ListedIsReadable'
  BY <1>3, <1>4 DEF ListedIsReadable, Where, Held
<1>7. \A b \in Associated' : disk'.meta[b] # Absent => Payload(disk', b) \subseteq core.work
  BY <1>1, <1>3, <1>4 DEF Past, Where, Held
<1>8. \A b \in sch.mine : disk'.meta[b] # Absent => b \in Associated'
  <2>1. \A b \in sch.mine : disk.meta[b] # Absent => b \in Associated
    BY <1>1 DEF Mine, Where, Flushing
  <2> QED
    BY <1>3, <1>4, <2>1, Types
<1>9. CASE Tail(Op.todo) = <<>>
  <2>1. Settles(~ (failed \/ Op.failed))
    BY <1>9 DEF ClearGoesOn
  <2>2. /\ ~ Active' /\ ~ Numbered' /\ ~ Clearing'
        /\ ops' # <<>> => Op'.at = "start"
    BY <2>1, RestWaits DEF Active, Numbered, Clearing, Flushing
  <2>3. /\ cmd' \in {Absent} \union CmdType
        /\ \/ cmd' = Absent
           \/ /\ ~ (failed \/ Op.failed) /\ cmd' # Absent /\ cmd'.at = "saved"
              /\ cmd'.kind = "save" /\ cmd'.id = cmd.id
    <3>1. cmd' = IF failed \/ Op.failed THEN Absent ELSE [cmd EXCEPT !.at = "saved"]
      BY <1>1, <2>1 DEF Settles
    <3> QED
      BY <1>1, <2>1, <3>1, AbsentAssumption DEF CmdType
  <2>4. Line' /\ Commands' /\ Quiet'
    BY <1>1, <1>3, <1>5, <2>1, LineSettles, CommandsAfter, QuietAfter
  <2>5. TypeOK'
    BY <1>3, <1>4, <1>5, <2>1, <2>3, Types, TypesThen, SettlesOne
  <2>6. Numbers'
    BY <1>3, <1>4, <2>2, <2>3, <1>1, Types DEF Numbers, Where
  <2>7. Checkpoint' /\ Removal'
    BY <2>2, <2>3 DEF Checkpoint, Removal, Flushing
  <2>8. Kept'
    BY <1>1, <2>2, <2>3 DEF Kept, Step
  <2>9. Mine'
    <3>1. ASSUME ~ (failed \/ Op.failed) PROVE Associated' = {}
      <4>1. Len(Op.todo) = 1
        <5>1. Len(Tail(Op.todo)) = 0
          BY <1>9, LenOfEmpty
        <5> QED
          BY <1>2, <5>1
      <4>2. \A b \in Associated : b = c
        BY <1>1, <1>2, <3>1, <4>1 DEF Mine
      <4> QED
        BY <1>4, <3>1, <4>2
    <3> QED
      BY <1>4, <1>8, <2>2, <2>3, <3>1 DEF Mine, SavedIsCleared, Where, Step
  <2>10. Past'
    BY <1>7, <2>2 DEF Past, Where, Held, Flushing
  <2> QED
    BY <1>6, <2>4, <2>5, <2>6, <2>7, <2>8, <2>9, <2>10
<1>10. CASE Tail(Op.todo) # <<>>
  <2> DEFINE o == [Op EXCEPT !.at = "metadata", !.todo = Tail(@), !.failed = @ \/ failed]
  <2>1. /\ o \in OpType /\ o.at = "metadata" /\ o.kind = "clear" /\ o.target = Op.target
        /\ o.gen = Op.gen /\ o.wake = Op.wake /\ o.todo = Tail(Op.todo)
        /\ o.failed = (Op.failed \/ failed) /\ Goes(o)
    <3>1. Goes(o)
      BY <1>10 DEF ClearGoesOn
    <3>2. Tail(Op.todo) \in Seq(Id) /\ (Op.failed \/ failed) \in BOOLEAN
      BY <1>2
    <3> QED
      BY <1>1, <3>1, <3>2 DEF OpType
  <2> HIDE DEF o
  <2>2. /\ Line' /\ Commands' /\ Quiet'
        /\ ops' # <<>> /\ Op' = o /\ cmd' = cmd /\ ops' \in Seq(OpType)
        /\ ~ Active' /\ ~ Numbered'
    BY <1>1, <1>3, <1>4, <1>5, <2>1, ClearGoes
  <2>3. TypeOK'
    BY <1>3, <1>4, <1>5, <2>2, Types, TypesThen
  <2>4. Numbers'
    BY <1>1, <1>3, <1>4, <2>2, Types DEF Numbers, Where
  <2>5. Checkpoint'
    BY <2>1, <2>2 DEF Checkpoint, Flushing
  <2>6. Removal'
    BY <1>1, <1>10, <2>1, <2>2 DEF Removal, Where
  <2>7. Kept'
    BY <1>1, <2>2 DEF Kept, Step
  <2>8. Mine'
    <3>1. ASSUME ~ Op'.failed, NEW b \in Associated'
          PROVE  \E k \in 1 .. Len(Op'.todo) : Op'.todo[k] = b
      <4>1. ~ Op.failed /\ ~ failed
        BY <2>1, <2>2, <3>1
      <4>2. PICK k \in 1 .. Len(Op.todo) : Op.todo[k] = b
        BY <1>1, <1>4, <4>1 DEF Mine
      <4>3. b # c
        BY <1>4, <4>1
      <4>4. k - 1 \in 1 .. Len(Op.todo) - 1
        BY <1>2, <4>2, <4>3
      <4>5. Tail(Op.todo)[k - 1] = b /\ k - 1 \in 1 .. Len(Tail(Op.todo))
        BY <1>2, <4>2, <4>4
      <4> QED
        BY <2>1, <2>2, <4>5
    <3> QED
      BY <1>1, <1>4, <1>8, <2>2, <3>1 DEF Mine, SavedIsCleared, Where, Step
  <2>9. Past'
    <3>1. \A k \in 1 .. Len(Op.todo) : disk.meta[Op.todo[k]] # Absent =>
            Payload(disk, Op.todo[k]) \subseteq core.work
      BY <1>1 DEF Past, Where, Held
    <3>2. \A k \in 1 .. Len(Tail(Op.todo)) :
            /\ Tail(Op.todo)[k] \in Id
            /\ disk'.meta[Tail(Op.todo)[k]] # Absent =>
                 Payload(disk', Tail(Op.todo)[k]) \subseteq core.work
      <4> SUFFICES ASSUME NEW k \in 1 .. Len(Tail(Op.todo))
                   PROVE /\ Tail(Op.todo)[k] \in Id
                         /\ disk'.meta[Tail(Op.todo)[k]] # Absent =>
                              Payload(disk', Tail(Op.todo)[k]) \subseteq core.work
        OBVIOUS
      <4>1. k + 1 \in 1 .. Len(Op.todo) /\ Tail(Op.todo)[k] = Op.todo[k + 1]
            /\ Op.todo[k + 1] \in Id
        BY <1>2
      <4> QED
        BY <1>3, <3>1, <4>1
    <3> QED
      BY <1>7, <2>1, <2>2, <3>2 DEF Past, Where, Held, Flushing
  <2> QED
    BY <1>6, <2>2, <2>3, <2>4, <2>5, <2>6, <2>7, <2>8, <2>9
<1> QED
  BY <1>9, <1>10

LEMMA ClearIdsFacts ==
  ASSUME TypeOK, ops # <<>>, Op.source = sch.source
  PROVE  /\ ClearIds \in Seq(Id)
         /\ \A c \in Associated : \E k \in 1 .. Len(ClearIds) : ClearIds[k] = c
         /\ \A k \in 1 .. Len(ClearIds) : ClearIds[k] \in Associated
<1>1. sch.source \in Id \union {0} /\ sch.current \in Id \union {0}
  BY Types
<1>2. CASE sch.source = 0 /\ sch.current = 0
  <2>1. ClearIds = <<>> /\ Associated = {}
    BY <1>2 DEF ClearIds, Associated
  <2> QED
    BY <2>1
<1>3. CASE sch.source = 0 /\ sch.current # 0
  <2>1. ClearIds = <<sch.current>> /\ Associated = {sch.current} /\ sch.current \in Id
    BY <1>1, <1>3 DEF ClearIds, Associated
  <2> QED
    BY <2>1
<1>4. CASE sch.source # 0 /\ sch.current \in {0, sch.source}
  <2>1. ClearIds = <<sch.source>> /\ Associated = {sch.source} /\ sch.source \in Id
    BY <1>1, <1>4 DEF ClearIds, Associated
  <2> QED
    BY <2>1
<1>5. CASE sch.source # 0 /\ sch.current \notin {0, sch.source}
  <2>1. Op.source # 0 /\ sch.current \notin {0, Op.source}
    BY <1>5
  <2>2. ClearIds = <<sch.source>> \o <<sch.current>> /\ sch.source \in Id /\ sch.current \in Id
    BY <1>1, <1>5, <2>1 DEF ClearIds
  <2>3. <<sch.source>> \in Seq(Id) /\ <<sch.current>> \in Seq(Id)
    BY <2>2
  <2>4. /\ ClearIds \in Seq(Id) /\ Len(ClearIds) = 2
        /\ ClearIds[1] = sch.source /\ ClearIds[2] = sch.current
    BY <2>2, <2>3
  <2>5. Associated = {sch.source, sch.current}
    BY <1>5 DEF Associated
  <2>6. \A k \in 1 .. Len(ClearIds) : k = 1 \/ k = 2
    BY <2>4
  <2>7. 1 \in 1 .. Len(ClearIds) /\ 2 \in 1 .. Len(ClearIds)
    BY <2>4
  <2> QED
    BY <2>4, <2>5, <2>6, <2>7
<1> QED
  BY <1>2, <1>3, <1>4, <1>5

LEMMA ClearStartsKeeps == ASSUME IInv, ClearStarts PROVE IInv'
<1> USE DEF IInv
<1>1. /\ ops # <<>> /\ Op.kind = "clear" /\ Op.at = "start" /\ Op \in OpType
      /\ UNCHANGED <<disk, core, sch, spent>>
  BY HeadOfLine DEF ClearStarts, Running, Op
<1>2. /\ Timely /\ Op.wake = "own" /\ Op.source = sch.source
      /\ cmd # Absent /\ cmd.at = "clear" /\ cmd.kind = "save" /\ cmd \in CmdType
      /\ ~ core.dirty /\ core.work \in disk.files /\ ~ Unflushed
      /\ ~ Active /\ ~ Numbered /\ ~ Replacing
  BY <1>1, ClearFacts
<1>3. /\ ClearIds \in Seq(Id)
      /\ \A c \in Associated : \E k \in 1 .. Len(ClearIds) : ClearIds[k] = c
      /\ \A k \in 1 .. Len(ClearIds) : ClearIds[k] \in Associated
  BY <1>1, <1>2, ClearIdsFacts
<1>4. Steady /\ sch'.saved <= sch'.rev /\ Associated' = Associated
      /\ sch' \in SchType /\ disk' \in DiskType /\ core' \in [work : Work, dirty : BOOLEAN]
      /\ spent' \in SpentType
  BY <1>1, Types DEF Steady, Associated
<1>5. /\ \A b \in sch.mine : disk.meta[b] # Absent => b \in Associated
      /\ \A b \in Associated : disk.meta[b] # Absent => Payload(disk, b) \subseteq core.work
  BY <1>1, <1>2 DEF Mine, Past, Where, Held, Flushing
<1>6. ListedIsReadable'
  BY <1>1 DEF ListedIsReadable, Where, Held
<1>7. CASE ClearIds = <<>>
  <2>1. Settles(TRUE)
    BY <1>7 DEF ClearStarts
  <2>2. /\ ~ Active' /\ ~ Numbered' /\ ~ Clearing'
        /\ ops' # <<>> => Op'.at = "start"
    BY <1>1, <2>1, RestWaits DEF Active, Numbered, Clearing, Flushing
  <2>3. /\ cmd' \in {Absent} \union CmdType /\ cmd' # Absent
        /\ cmd'.at = "saved" /\ cmd'.kind = "save" /\ cmd'.id = cmd.id
    <3>1. cmd' = [cmd EXCEPT !.at = "saved"]
      BY <1>2, <2>1 DEF Settles
    <3> QED
      BY <1>2, <3>1, AbsentAssumption DEF CmdType
  <2>4. Line' /\ Commands' /\ Quiet'
    BY <1>1, <1>4, <2>1, LineSettles, CommandsAfter, QuietAfter
  <2>5. TypeOK'
    BY <1>1, <1>4, <2>1, <2>3, Types, TypesThen, SettlesOne
  <2>6. Numbers'
    BY <1>1, <1>2, <2>2, <2>3 DEF Numbers, Where
  <2>7. Checkpoint' /\ Removal'
    BY <2>2, <2>3 DEF Checkpoint, Removal, Flushing
  <2>8. Kept'
    BY <1>1, <1>2, <2>2, <2>3 DEF Kept, Step
  <2>9. Mine'
    <3>1. Associated = {}
      BY <1>3, <1>7, LenOfEmpty
    <3> QED
      BY <1>1, <1>5, <2>2, <2>3, <3>1 DEF Mine, SavedIsCleared, Where, Step
  <2>10. Past'
    BY <1>1, <1>4, <1>5, <2>2 DEF Past, Where, Held, Flushing
  <2> QED
    BY <1>6, <2>4, <2>5, <2>6, <2>7, <2>8, <2>9, <2>10
<1>8. CASE ClearIds # <<>>
  <2> DEFINE o == [Op EXCEPT !.at = "metadata", !.todo = ClearIds]
  <2>1. /\ o \in OpType /\ o.at = "metadata" /\ o.kind = "clear" /\ o.target = Op.target
        /\ o.gen = Op.gen /\ o.wake = Op.wake /\ o.todo = ClearIds /\ Goes(o)
    <3>1. Goes(o)
      BY <1>2, <1>8 DEF ClearStarts
    <3> QED
      BY <1>1, <1>3, <3>1 DEF OpType
  <2> HIDE DEF o
  <2>2. /\ Line' /\ Commands' /\ Quiet'
        /\ ops' # <<>> /\ Op' = o /\ cmd' = cmd /\ ops' \in Seq(OpType)
        /\ ~ Active' /\ ~ Numbered'
    BY <1>1, <1>4, <2>1, ClearGoes
  <2>3. TypeOK'
    BY <1>1, <1>4, <2>2, Types, TypesThen
  <2>4. Numbers'
    BY <1>1, <1>2, <2>2 DEF Numbers, Where
  <2>5. Checkpoint'
    BY <2>1, <2>2 DEF Checkpoint, Flushing
  <2>6. Removal'
    BY <1>2, <1>8, <2>1, <2>2 DEF Removal, Where
  <2>7. Kept'
    BY <1>1, <1>2, <2>2 DEF Kept, Step
  <2>8. Mine'
    BY <1>1, <1>2, <1>3, <1>4, <1>5, <2>1, <2>2 DEF Mine, SavedIsCleared, Where, Step
  <2>9. Past'
    BY <1>1, <1>3, <1>4, <1>5, <2>1, <2>2 DEF Past, Where, Held, Flushing
  <2> QED
    BY <1>6, <2>2, <2>3, <2>4, <2>5, <2>6, <2>7, <2>8, <2>9
<1> QED
  BY <1>7, <1>8

LEMMA ClearsMetadataKeeps == ASSUME IInv, ClearsMetadata PROVE IInv'
<1> USE DEF IInv
<1> DEFINE c == Head(Op.todo)
<1>1. /\ ops # <<>> /\ Op.kind = "clear" /\ Op.at = "metadata" /\ Op \in OpType /\ core' = core
  BY HeadOfLine DEF ClearsMetadata, Running, Op
<1>2. PICK fails \in BOOLEAN :
        /\ Storage(fails)
        /\ IF fails \/ Where(c) = Absent
           THEN ClearGoesOn(TRUE) /\ UNCHANGED <<disk, sch>>
           ELSE /\ disk' = DropMetadata(c)
                /\ IF Where(c) = "opfs"
                   THEN Goes([Op EXCEPT !.at = "payload"]) /\ UNCHANGED sch
                   ELSE ClearGoesOn(FALSE) /\ sch' = Forget(c)
  BY DEF ClearsMetadata
<1>3. /\ Timely /\ Op.wake = "own"
      /\ cmd # Absent /\ cmd.at = "clear" /\ cmd.kind = "save" /\ cmd \in CmdType
      /\ ~ core.dirty /\ core.work \in disk.files /\ ~ Unflushed
      /\ ~ Active /\ ~ Numbered /\ ~ Replacing /\ Clearing
  BY <1>1, ClearFacts DEF Clearing
<1>4. Op.todo \in Seq(Id) /\ Op.todo # <<>> /\ c \in Id
      /\ \A k \in 1 .. Len(Op.todo) : Op.todo[k] \in Id
  <2>1. Op.todo \in Seq(Id) /\ Op.todo # <<>>
    BY <1>1, <1>3 DEF OpType, Removal
  <2> QED
    BY <2>1
<1>5. spent' \in SpentType /\ core' \in [work : Work, dirty : BOOLEAN]
  BY <1>1, <1>2, StorageCounts, Types
<1> HIDE DEF c
<1>6. CASE fails \/ Where(c) = Absent
  <2>1. ClearGoesOn(TRUE) /\ UNCHANGED <<disk, sch>>
    BY <1>2, <1>6
  <2>2. SameShelf
    BY <2>1, Types DEF SameShelf
  <2>3. Leaves(Head(Op.todo))
    BY <1>4, <2>2, SameLeaves DEF c
  <2> QED
    BY <1>1, <1>5, <2>1, <2>3, ClearProceeds
<1>7. CASE ~ fails /\ Where(c) # Absent /\ Where(c) # "opfs"
  <2>1. disk' = DropMetadata(c) /\ ClearGoesOn(FALSE) /\ sch' = Forget(c)
    BY <1>2, <1>7
  <2>2. Leaves(c) /\ disk'.meta[c] = Absent
    BY <1>4, <2>1, DropLeaves
  <2> QED
    BY <1>1, <1>5, <2>1, <2>2, ClearProceeds DEF c
<1>8. CASE ~ fails /\ Where(c) = "opfs"
  <2> DEFINE o == [Op EXCEPT !.at = "payload"]
  <2>1. disk' = DropMetadata(c) /\ Goes(o) /\ sch' = sch
    BY <1>2, <1>8, BoundsAssumption
  <2>2. /\ o \in OpType /\ o.at = "payload" /\ o.kind = "clear" /\ o.target = Op.target
        /\ o.gen = Op.gen /\ o.wake = Op.wake /\ o.todo = Op.todo /\ o.failed = Op.failed
    BY <1>1 DEF OpType
  <2> HIDE DEF o
  <2>3. Leaves(c) /\ disk'.meta[c] = Absent
    BY <1>4, <2>1, DropLeaves
  <2>4. /\ disk' \in DiskType /\ disk'.next = disk.next /\ disk'.files = disk.files
        /\ \A b \in Id : b # c =>
             disk'.meta[b] = disk.meta[b] /\ Payload(disk', b) = Payload(disk, b)
    BY <2>3 DEF Leaves
  <2>5. Steady /\ sch'.saved <= sch'.rev /\ Associated' = Associated /\ Associated \subseteq Id
        /\ sch' \in SchType /\ sch.mine \subseteq Id
    BY <2>1, Types DEF Steady, Associated
  <2>6. /\ \A b \in sch.mine : disk.meta[b] # Absent => b \in Associated
        /\ \A b \in Associated : disk.meta[b] # Absent => Payload(disk, b) \subseteq core.work
        /\ \A k \in 1 .. Len(Op.todo) : disk.meta[Op.todo[k]] # Absent =>
             Payload(disk, Op.todo[k]) \subseteq core.work
    <3>1. \A b \in sch.mine : disk.meta[b] # Absent => b \in Associated
      BY <1>1, <1>3 DEF Mine, Where, Flushing
    <3>2. \A b \in Associated : disk.meta[b] # Absent => Payload(disk, b) \subseteq core.work
      BY <1>3 DEF Past, Where, Held
    <3>3. \A k \in 1 .. Len(Op.todo) : disk.meta[Op.todo[k]] # Absent =>
             Payload(disk, Op.todo[k]) \subseteq core.work
      BY <1>3 DEF Past, Where, Held
    <3> QED
      BY <3>1, <3>2, <3>3
  <2>7. /\ Line' /\ Commands' /\ Quiet'
        /\ ops' # <<>> /\ Op' = o /\ cmd' = cmd /\ ops' \in Seq(OpType)
        /\ ~ Active' /\ ~ Numbered'
    BY <1>1, <2>1, <2>2, <2>4, <2>5, ClearGoes
  <2>8. TypeOK'
    BY <1>5, <2>4, <2>5, <2>7, Types, TypesThen
  <2>9. Numbers'
    BY <1>3, <2>1, <2>3, <2>4, <2>7 DEF Numbers, Where
  <2>10. Checkpoint'
    BY <2>2, <2>7 DEF Checkpoint, Flushing
  <2>11. Removal'
    BY <1>3, <1>4, <2>2, <2>3, <2>7 DEF Removal, Where, c
  <2>12. ListedIsReadable'
    BY <2>3, <2>4 DEF ListedIsReadable, Where, Held
  <2>13. Kept'
    BY <1>1, <1>3, <2>7 DEF Kept, Step
  <2>14. Mine'
    BY <1>3, <2>1, <2>2, <2>3, <2>4, <2>5, <2>6, <2>7 DEF Mine, SavedIsCleared, Where, Step
  <2>15. Past'
    BY <1>1, <1>4, <2>2, <2>3, <2>4, <2>5, <2>6, <2>7 DEF Past, Where, Held, Flushing
  <2> QED
    BY <2>7, <2>8, <2>9, <2>10, <2>11, <2>12, <2>13, <2>14, <2>15
<1> QED
  BY <1>6, <1>7, <1>8

LEMMA ClearsPayloadKeeps == ASSUME IInv, ClearsPayload PROVE IInv'
<1> USE DEF IInv
<1> DEFINE c == Head(Op.todo)
<1>1. /\ ops # <<>> /\ Op.kind = "clear" /\ Op.at = "payload" /\ Op \in OpType /\ core' = core
  BY HeadOfLine DEF ClearsPayload, Running, Op
<1>2. PICK fails \in BOOLEAN :
        /\ Storage(fails)
        /\ ClearGoesOn(fails)
        /\ disk' = IF fails THEN disk ELSE DropPayload(disk, c, "opfs")
        /\ sch' = IF fails THEN sch ELSE Forget(c)
  BY DEF ClearsPayload
<1>3. c \in Id /\ disk.meta[c] = Absent
  <2>1. Op.todo \in Seq(Id) /\ Op.todo # <<>> /\ disk.meta[Head(Op.todo)] = Absent
    BY <1>1 DEF OpType, Removal, Clearing, Where
  <2> QED
    BY <2>1
<1>4. spent' \in SpentType
  BY <1>2, StorageCounts
<1> HIDE DEF c
<1>5. SameShelf
  BY <1>2, <1>3, UnnamedGoes, BoundsAssumption
<1>6. Leaves(c) /\ disk'.meta[c] = Absent
  BY <1>3, <1>5, SameLeaves DEF SameShelf
<1>7. IF fails THEN sch' = sch
      ELSE sch' = Forget(c) /\ disk'.meta[c] = Absent
  BY <1>2, <1>6
<1> QED
  BY <1>1, <1>2, <1>4, <1>6, <1>7, ClearProceeds DEF c

-----------------------------------------------------------------------------
(* Steps that leave the running operation alone.                           *)
HeadStays ==
  \/ (ops = <<>> \/ Op.at = "start") /\ (ops' = <<>> \/ Op'.at = "start")
  \/ /\ ops # <<>> /\ ops' # <<>>
     /\ Op'.kind = Op.kind /\ Op'.at = Op.at /\ Op'.work = Op.work /\ Op'.id = Op.id
     /\ Op'.where = Op.where /\ Op'.previous = Op.previous /\ Op'.target = Op.target
     /\ Op'.todo = Op.todo /\ Op'.failed = Op.failed

LEMMA HeadStaysFacts ==
  ASSUME HeadStays
  PROVE  /\ Active' <=> Active
         /\ Numbered' <=> Numbered
         /\ Clearing' <=> Clearing
         /\ Flushing({"snapped"})' <=> Flushing({"snapped"})
         /\ Flushing({"payload", "metadata", "undo"})' <=> Flushing({"payload", "metadata", "undo"})
         /\ Flushing({"metadata", "undo", "cleanup", "answer"})' <=>
              Flushing({"metadata", "undo", "cleanup", "answer"})
         /\ Flushing({"undo"})' <=> Flushing({"undo"})
         /\ Flushing({"metadata"})' <=> Flushing({"metadata"})
         /\ Flushing({"cleanup", "answer"})' <=> Flushing({"cleanup", "answer"})
         /\ Flushing({"cleanup"})' <=> Flushing({"cleanup"})
         /\ Active \/ Clearing =>
              /\ Op'.at = Op.at /\ Op'.work = Op.work /\ Op'.id = Op.id
              /\ Op'.where = Op.where /\ Op'.previous = Op.previous /\ Op'.target = Op.target
              /\ Op'.todo = Op.todo /\ Op'.failed = Op.failed
BY DEF HeadStays, Active, Numbered, Clearing, Flushing

(* The command after an action of the user that the queue does not hear of.*)
CommandTurns ==
  /\ ~ Step("answer") /\ ~ Step("clear")
  /\ cmd' # Absent =>
       /\ cmd'.at \notin {"answer", "saved"} /\ cmd'.id < disk.next
       /\ cmd'.kind = "discard" =>
            /\ cmd'.id # 0 /\ cmd'.id \notin Associated
            /\ Numbered => cmd'.id # Op.id
            /\ cmd'.at # "payload"

SameWork ==
  /\ sch'.rev = sch.rev /\ sch'.saved = sch.saved /\ sch'.gen = sch.gen
  /\ sch'.source = sch.source /\ sch'.current = sch.current /\ sch'.mine = sch.mine

LEMMA ShelfStays ==
  ASSUME IInv, HeadStays, SameWork, core' = core,
         disk' = [disk EXCEPT !.files = disk'.files],
         cmd' = cmd \/ CommandTurns
  PROVE  /\ Numbers' /\ Checkpoint' /\ Removal' /\ ListedIsReadable' /\ Kept' /\ Mine' /\ Past'
<1> USE DEF IInv
<1>1. /\ disk'.next = disk.next /\ disk'.meta = disk.meta /\ disk'.opfs = disk.opfs
      /\ disk'.idb = disk.idb /\ \A c : Payload(disk', c) = Payload(disk, c)
  <2>1. /\ disk'.next = disk.next /\ disk'.meta = disk.meta /\ disk'.opfs = disk.opfs
        /\ disk'.idb = disk.idb
    BY Types DEF DiskType
  <2> QED
    BY <2>1 DEF Payload
<1>2. Associated' = Associated /\ (Unflushed' <=> Unflushed)
  BY DEF SameWork, Associated, Unflushed
<1>3. Numbered => Active
  BY DEF Numbered, Active, Flushing
<1>4. /\ cmd' # Absent /\ cmd' # cmd => cmd'.id < disk.next
      /\ Step("answer")' => cmd' = cmd /\ Step("answer")
      /\ Step("answer") => cmd' = cmd
      /\ Step("saved")' => cmd' = cmd /\ Step("saved")
      /\ Step("clear") => cmd' = cmd
  BY DEF CommandTurns, Step
<1>5. Numbers'
  BY <1>1, <1>3, <1>4, HeadStaysFacts DEF Numbers, Where, SameWork
<1>6. Checkpoint'
  <2>1. Step("clear") => Step("clear")'
    BY <1>4 DEF Step
  <2>2. /\ Flushing({"payload", "metadata", "undo"}) => Numbered
        /\ Flushing({"metadata", "undo", "cleanup", "answer"}) => Numbered
        /\ Flushing({"undo"}) => Numbered
        /\ Flushing({"metadata"}) => Numbered
        /\ Flushing({"cleanup", "answer"}) => Numbered
        /\ Flushing({"cleanup"}) => Numbered
    BY DEF Flushing, Numbered
  <2>3. Active => Op'.target > sch'.saved \/ Step("clear")'
    BY <2>1, HeadStaysFacts DEF Checkpoint, SameWork
  <2>4. Numbered =>
          /\ Op'.work # Absent /\ Op'.id # 0
          /\ Op'.previous # Absent => Op'.id = sch'.current
          /\ Op'.id = sch'.current \/ sch'.current = 0 \/ disk'.meta[sch'.current] = Absent
    BY <1>1, <1>3, HeadStaysFacts DEF Checkpoint, SameWork, Where
  <2>5. /\ Flushing({"payload", "metadata", "undo"}) =>
             /\ Op'.previous = disk'.meta[Op'.id]
             /\ Op'.previous = Absent => Op'.id = disk'.next - 1
        /\ Flushing({"metadata", "undo", "cleanup", "answer"}) => Op'.where # Absent
        /\ Flushing({"undo"}) => Op'.previous = Absent
        /\ Flushing({"metadata"}) /\ Op'.where = "opfs" => disk'.opfs[Op'.id] = Op'.work
    BY <1>1, <1>3, <2>2, HeadStaysFacts DEF Checkpoint, Where
  <2>6. /\ Flushing({"cleanup", "answer"}) =>
             disk'.meta[Op'.id] = Op'.where /\ Payload(disk', Op'.id) = Op'.work
        /\ Flushing({"cleanup"}) => Op'.previous \notin {Op'.where, Absent}
    BY <1>1, <1>3, <2>2, HeadStaysFacts DEF Checkpoint, Where, Held
  <2> QED
    BY <2>3, <2>4, <2>5, <2>6, HeadStaysFacts DEF Checkpoint, Where, Held
<1>7. Removal'
  BY <1>1, <1>2, <1>3, <1>4, HeadStaysFacts DEF Removal, Where, CommandTurns
<1>8. ListedIsReadable'
  BY <1>1 DEF ListedIsReadable, Where, Held
<1>9. Kept'
  <2>1. Step("answer")' <=> Step("answer")
    BY <1>4 DEF Step
  <2>2. core'.dirty /\ ~ Unflushed' /\ ~ Step("answer")' =>
          \E c \in Associated' : Payload(disk', c) = core'.work
    BY <1>1, <1>2, <2>1 DEF Kept, Held
  <2>3. Active' /\ Op'.target = sch'.rev /\ core'.dirty /\ ~ Step("answer")' =>
          Op'.work = core'.work
    BY <2>1, HeadStaysFacts DEF Kept, SameWork
  <2>4. Step("answer")' /\ cmd'.kind = "restore" =>
          cmd'.id # 0 /\ Payload(disk', cmd'.id) = core'.work
    BY <1>1, <1>4, <2>1 DEF Kept, Held
  <2> QED
    BY <2>2, <2>3, <2>4 DEF Kept, Held
<1>10. Mine'
  <2>1. Flushing({"cleanup", "answer"}) => Active
    BY DEF Flushing, Active
  <2> QED
    BY <1>1, <1>2, <1>4, <2>1, HeadStaysFacts DEF Mine, SavedIsCleared, Where, SameWork, Step
<1>11. Past'
  <2>1. Replacing' /\ cmd'.at = "answer" <=> Replacing /\ cmd.at = "answer"
    BY <1>4 DEF Replacing, Step
  <2> QED
    BY <1>1, <1>2, <1>3, <2>1, HeadStaysFacts DEF Past, Where, Held, SameWork
<1> QED
  BY <1>5, <1>6, <1>7, <1>8, <1>9, <1>10, <1>11

LEMMA OperationType ==
  ASSUME TypeOK, NEW kind \in {"flush", "clear"}, NEW wake \in {"none", "own"}
  PROVE  /\ Operation(kind, wake) \in OpType
         /\ Operation(kind, wake).kind = kind /\ Operation(kind, wake).wake = wake
         /\ Operation(kind, wake).at = "start" /\ Operation(kind, wake).gen = sch.gen
         /\ Operation(kind, wake).target = sch.rev /\ Operation(kind, wake).source = sch.source
         /\ Operation(kind, wake).previous = Absent
<1>1. <<>> \in Seq(Id)
  OBVIOUS
<1> QED
  BY <1>1, Types DEF Operation, OpType, Work, Blank

(* The debounce timer and the checkpoint of every 30 s.                    *)
LEMMA TimerKeeps ==
  ASSUME IInv, TimerFlush, UNCHANGED <<disk, core, cmd, spent>>,
         sch' = sch \/ sch' = [sch EXCEPT !.soon = FALSE]
  PROVE  IInv'
<1> USE DEF IInv
<1>1. sch' \in SchType /\ SameWork
  BY Types DEF SchType, SameWork
<1>2. Steady /\ sch'.saved <= sch'.rev
  BY <1>1, Types DEF Steady, SameWork
<1>3. disk' = [disk EXCEPT !.files = disk'.files]
  BY Types DEF DiskType
<1>4. CASE ~ Unflushed
  <2>1. ops' = ops
    BY <1>4 DEF TimerFlush
  <2>2. HeadStays
    BY <2>1 DEF HeadStays, Op
  <2>3. Line'
    BY <1>1, <1>2, <2>1, LineStays DEF SameWork
  <2>4. Commands'
    BY DEF Commands, Replacing
  <2>5. Quiet'
    BY <1>1, <2>1 DEF Quiet, Replacing, Step, Calm, Unflushed, SameWork
  <2>6. TypeOK'
    BY <1>1, <1>2, <2>1, Types, TypesThen
  <2> QED
    BY <1>1, <1>3, <2>2, <2>3, <2>4, <2>5, <2>6, ShelfStays
<1>5. CASE Unflushed
  <2> DEFINE o == Operation("flush", "none")
  <2>1. /\ o \in OpType /\ o.kind = "flush" /\ o.wake = "none" /\ o.at = "start"
        /\ o.gen = sch.gen /\ o.target = sch.rev /\ o.source = sch.source /\ o.previous = Absent
    BY OperationType
  <2>2. ops' = Append(ops, o)
    BY <1>5 DEF TimerFlush
  <2> HIDE DEF o
  <2>3. /\ ops' \in Seq(OpType) /\ Len(ops') = Len(ops) + 1 /\ ops'[Len(ops')] = o
        /\ \A k \in 1 .. Len(ops) : SameOp(ops'[k], ops[k])
        /\ ops # <<>> => Op' = Op
        /\ ops = <<>> => Op' = o
        /\ ops' # <<>>
    BY <2>1, <2>2, AddsOne DEF SameOp
  <2>4. HeadStays
    BY <2>1, <2>3 DEF HeadStays
  <2>5. Line'
    BY <1>1, <1>2, <2>1, <2>3, LineGrows DEF SameWork
  <2>6. Commands'
    BY DEF Commands, Replacing
  <2>7. Quiet'
    BY <1>5 DEF Quiet, Replacing, Step, Calm
  <2>8. TypeOK'
    BY <1>1, <1>2, <2>3, Types, TypesThen
  <2> QED
    BY <1>1, <1>3, <2>4, <2>5, <2>6, <2>7, <2>8, ShelfStays
<1> QED
  BY <1>4, <1>5

LEMMA TimersKeep == ASSUME IInv, DebounceFires \/ CheckpointFires PROVE IInv'
<1>1. CASE DebounceFires
  BY <1>1, TimerKeeps DEF DebounceFires
<1>2. CASE CheckpointFires
  BY <1>2, TimerKeeps DEF CheckpointFires
<1> QED
  BY <1>1, <1>2

-----------------------------------------------------------------------------
(* The commands of the user.                                               *)
LEMMA CommandType ==
  ASSUME NEW kind \in {"edit", "save", "new", "open", "import", "restore", "discard"},
         NEW at \in {"flush", "core", "commit", "answer", "clear", "saved", "metadata", "payload"},
         NEW c \in Id \union {0}
  PROVE  /\ Command(kind, at, c) \in CmdType /\ Command(kind, at, c) # Absent
         /\ Command(kind, at, c).kind = kind /\ Command(kind, at, c).at = at
         /\ Command(kind, at, c).id = c
BY AbsentAssumption DEF Command, CmdType

LEMMA EditOrSaveKeeps == ASSUME IInv, EditOrSave PROVE IInv'
<1> USE DEF IInv
<1>1. PICK kind \in {"edit", "save"} : cmd' = Command(kind, "core", 0)
  BY DEF EditOrSave
<1>2. cmd = Absent /\ UNCHANGED <<disk, core, sch, ops>> /\ spent' \in SpentType
  BY Types DEF EditOrSave, Clicks, SpentType
<1>3. cmd' \in CmdType /\ cmd' # Absent /\ cmd'.kind = kind /\ cmd'.at = "core" /\ cmd'.id = 0
  BY <1>1, CommandType
<1>4. HeadStays /\ SameWork /\ disk' = [disk EXCEPT !.files = disk'.files]
  BY <1>2, Types DEF HeadStays, Op, SameWork, DiskType
<1>5. CommandTurns
  BY <1>2, <1>3, Types DEF CommandTurns, Step
<1>6. Line'
  BY <1>2, Types, LineOfIdle DEF Idle, SameOp
<1>7. Commands' /\ Quiet'
  BY <1>3 DEF Commands, Quiet, Replacing, Step
<1>8. TypeOK'
  BY <1>2, <1>3, Types, TypesThen
<1> QED
  BY <1>2, <1>4, <1>5, <1>6, <1>7, <1>8, ShelfStays

LEMMA AwaitsFlushKeeps ==
  ASSUME IInv, cmd = Absent, NEW kind \in {"new", "open", "import", "restore"},
         NEW c \in Id \union {0}, c < disk.next, AwaitsFlush(kind, c),
         UNCHANGED <<disk, core, sch>>, spent' \in SpentType
  PROVE  IInv'
<1> USE DEF IInv
<1>1. SameWork /\ disk' = [disk EXCEPT !.files = disk'.files] /\ Steady /\ Idle
      /\ sch' \in SchType /\ sch'.saved <= sch'.rev
  BY Types DEF SameWork, DiskType, Steady, Idle
<1>2. PICK at \in {"flush", "core"} :
        /\ cmd' = Command(kind, at, c)
        /\ at = "core" => ~ Unflushed /\ ops = <<>> /\ ops' = ops
        /\ at = "flush" => Unflushed \/ ops # <<>>
        /\ at = "flush" /\ Unflushed => ops' = Append(ops, Operation("flush", "own"))
        /\ at = "flush" /\ ~ Unflushed => ops' = [ops EXCEPT ![Len(ops)].wake = "any"]
  <2>1. CASE Unflushed
    BY <2>1 DEF AwaitsFlush
  <2>2. CASE ~ Unflushed /\ ops = <<>>
    BY <2>2 DEF AwaitsFlush
  <2>3. CASE ~ Unflushed /\ ops # <<>>
    BY <2>3 DEF AwaitsFlush
  <2> QED
    BY <2>1, <2>2, <2>3
<1>3. cmd' \in CmdType /\ cmd' # Absent /\ cmd'.kind = kind /\ cmd'.at = at /\ cmd'.id = c
  BY <1>2, CommandType
<1>4. CommandTurns
  BY <1>3 DEF CommandTurns, Step
<1>5. Commands'
  BY <1>3 DEF Commands, Replacing
<1>6. Line' /\ HeadStays /\ ops' \in Seq(OpType)
  <2>1. CASE at = "core"
    BY <1>1, <1>2, <2>1, Types, LineOfIdle DEF HeadStays, Op, SameOp
  <2>2. CASE at = "flush" /\ Unflushed
    <3> DEFINE o == Operation("flush", "own")
    <3>1. /\ o \in OpType /\ o.kind = "flush" /\ o.wake = "own" /\ o.at = "start"
          /\ o.gen = sch.gen /\ o.target = sch.rev /\ o.source = sch.source
          /\ o.previous = Absent
      BY OperationType
    <3>2. ops' = Append(ops, o)
      BY <1>2, <2>2
    <3> HIDE DEF o
    <3>3. /\ ops' \in Seq(OpType) /\ Len(ops') = Len(ops) + 1 /\ ops'[Len(ops')] = o
          /\ \A k \in 1 .. Len(ops) : SameOp(ops'[k], ops[k])
          /\ ops # <<>> => Op' = Op
          /\ ops = <<>> => Op' = o
          /\ ops' # <<>>
      BY <3>1, <3>2, AddsOne DEF SameOp
    <3>4. HeadStays
      BY <3>1, <3>3 DEF HeadStays
    <3>5. Line'
      BY <1>1, <1>3, <2>2, <3>1, <3>3, LineGrows
    <3> QED
      BY <3>3, <3>4, <3>5
  <2>3. CASE at = "flush" /\ ~ Unflushed
    <3>1. ops # <<>> /\ ops' = [ops EXCEPT ![Len(ops)].wake = "any"]
      BY <1>2, <2>3
    <3>2. /\ Line' /\ ops' \in Seq(OpType) /\ Len(ops') = Len(ops) /\ ops' # <<>>
          /\ \A k \in 1 .. Len(ops) :
               ops'[k] = IF k = Len(ops) THEN [ops[k] EXCEPT !.wake = "any"] ELSE ops[k]
      BY <1>1, <1>3, <2>3, <3>1, LineMarked
    <3>3. Op = ops[1] /\ Op \in OpType /\ 1 \in 1 .. Len(ops)
      BY <3>1, HeadOfLine
    <3>4. Op' = ops'[1]
      BY <3>2 DEF Op
    <3>5. Op' = [Op EXCEPT !.wake = "any"] \/ Op' = Op
      BY <3>2, <3>3, <3>4
    <3>6. HeadStays
      BY <3>1, <3>2, <3>3, <3>5 DEF HeadStays, OpType
    <3> QED
      BY <3>2, <3>6
  <2> QED
    BY <2>1, <2>2, <2>3
<1>7. Quiet'
  <2>1. at = "core" => Calm'
    <3> SUFFICES ASSUME at = "core" PROVE Calm'
      OBVIOUS
    <3>1. Len(ops') = 0
      BY <1>2, LenOfEmpty
    <3>2. ~ Unflushed'
      BY <1>2 DEF Unflushed
    <3> QED
      BY <3>1, <3>2 DEF Calm
  <2> QED
    BY <1>3, <2>1 DEF Quiet, Replacing, Step
<1>8. TypeOK'
  BY <1>1, <1>3, <1>6, Types, TypesThen
<1> QED
  BY <1>1, <1>4, <1>5, <1>6, <1>7, <1>8, ShelfStays

LEMMA NewOrOpenKeeps == ASSUME IInv, NewOrOpen PROVE IInv'
<1> USE DEF IInv
<1>1. PICK kind \in {"new", "open", "import"} : AwaitsFlush(kind, 0)
  BY DEF NewOrOpen
<1>2. cmd = Absent /\ UNCHANGED <<disk, core, sch>> /\ spent' \in SpentType /\ 0 < disk.next
  BY Types DEF NewOrOpen, Clicks, SpentType
<1> QED
  BY <1>1, <1>2, AwaitsFlushKeeps

LEMMA RestoreKeeps == ASSUME IInv, Restore PROVE IInv'
<1> USE DEF IInv
<1>1. PICK c \in Id : Where(c) # Absent /\ AwaitsFlush("restore", c)
  BY DEF Restore
<1>2. cmd = Absent /\ UNCHANGED <<disk, core, sch>> /\ spent' \in SpentType
  BY Types DEF Restore, Clicks, SpentType
<1>3. c < disk.next
  BY <1>1 DEF Numbers
<1> QED
  BY <1>1, <1>2, <1>3, AwaitsFlushKeeps

LEMMA DiscardKeeps == ASSUME IInv, Discard PROVE IInv'
<1> USE DEF IInv
<1>1. PICK c \in Offered : cmd' = Command("discard", "metadata", c)
  BY DEF Discard
<1>2. /\ cmd = Absent /\ UNCHANGED <<disk, core, sch, ops>> /\ spent' \in SpentType
      /\ ~ Running("flush", "answer")
  BY Types DEF Discard, Clicks, SpentType
<1>3. c \in Id /\ disk.meta[c] # Absent /\ c \notin Associated /\ c # 0 /\ c < disk.next
  BY <1>1 DEF Offered, AssociatedCandidateIds, Associated, Where, Id, Numbers
<1>4. /\ cmd' \in CmdType /\ cmd' # Absent /\ cmd'.kind = "discard" /\ cmd'.at = "metadata"
      /\ cmd'.id = c
  BY <1>1, <1>3, CommandType
<1>5. HeadStays /\ SameWork /\ disk' = [disk EXCEPT !.files = disk'.files]
  BY <1>2, Types DEF HeadStays, Op, SameWork, DiskType
<1>6. Numbered => c # Op.id
  <2> SUFFICES ASSUME Numbered, c = Op.id PROVE FALSE
    OBVIOUS
  <2>1. Op.id # sch.current /\ Op.previous = Absent
    BY <1>3 DEF Checkpoint, Associated
  <2>2. Flushing({"payload", "metadata", "undo"}) \/ Flushing({"cleanup"})
    BY <1>2 DEF Numbered, Flushing, Running, Op
  <2>3. CASE Flushing({"payload", "metadata", "undo"})
    BY <1>3, <2>1, <2>3 DEF Checkpoint, Where
  <2>4. CASE Flushing({"cleanup"})
    BY <2>1, <2>4 DEF Checkpoint
  <2> QED
    BY <2>2, <2>3, <2>4
<1>7. CommandTurns
  BY <1>2, <1>3, <1>4, <1>6 DEF CommandTurns, Step
<1>8. Line'
  BY <1>2, Types, LineOfIdle DEF Idle, SameOp
<1>9. Commands' /\ Quiet'
  BY <1>4 DEF Commands, Quiet, Replacing, Step
<1>10. TypeOK'
  BY <1>2, <1>4, Types, TypesThen
<1> QED
  BY <1>2, <1>5, <1>7, <1>8, <1>9, <1>10, ShelfStays

LEMMA CommandEnds ==
  ASSUME IInv, cmd' = Absent, Idle, ~ Step("answer"),
         UNCHANGED <<disk, core, sch, ops>>, spent' \in SpentType
  PROVE  IInv'
<1> USE DEF IInv
<1>1. HeadStays /\ SameWork /\ disk' = [disk EXCEPT !.files = disk'.files]
  BY Types DEF HeadStays, Op, SameWork, DiskType
<1>2. CommandTurns
  BY DEF CommandTurns, Idle, Step
<1>3. Line'
  BY Types, LineOfIdle DEF SameOp
<1>4. Commands' /\ Quiet'
  BY DEF Commands, Quiet, Replacing, Step
<1>5. TypeOK'
  BY Types, TypesThen
<1> QED
  BY <1>1, <1>2, <1>3, <1>4, <1>5, ShelfStays

(* The worker does what it is asked; the scheduler hears of it later.      *)
LEMMA CoreChanges ==
  ASSUME IInv, cmd # Absent, cmd.at \in {"core", "commit"}, cmd' = [cmd EXCEPT !.at = "answer"],
         UNCHANGED <<disk, sch, ops>>, spent' \in SpentType,
         core' \in [work : Work, dirty : BOOLEAN],
         Replacing \/ core.work \subseteq core'.work,
         cmd.kind = "restore" => cmd.id # 0 /\ Payload(disk, cmd.id) = core'.work,
         cmd.kind = "save" => cmd.at = "commit" /\ core'.work = core.work /\ ~ core'.dirty
  PROVE  IInv'
<1> USE DEF IInv
<1>1. cmd \in CmdType /\ cmd' \in CmdType /\ cmd'.kind = cmd.kind /\ cmd'.id = cmd.id
      /\ cmd'.at = "answer" /\ cmd' # Absent
  BY AbsentAssumption DEF TypeOK, CmdType
<1>2. /\ Op' = Op /\ Associated' = Associated /\ Associated \subseteq Id
      /\ Active' <=> Active
      /\ Numbered' <=> Numbered
      /\ Clearing' <=> Clearing
  BY Types DEF Op, Associated, Active, Numbered, Clearing, Flushing
<1>3. cmd.kind # "discard" /\ (Replacing' <=> Replacing)
  BY <1>1 DEF Commands, Replacing
<1>4. Replacing => Calm
  BY DEF Quiet
<1>5. Replacing => ~ Active /\ ~ Clearing
  <2> SUFFICES ASSUME Replacing, ops # <<>> PROVE Op.at = "start"
    BY DEF Active, Clearing, Flushing
  <2>1. Op = ops[1] /\ 1 \in 1 .. Len(ops)
    BY HeadOfLine
  <2> QED
    BY <1>4, <2>1 DEF Calm
<1>6. ~ Clearing
  <2> SUFFICES ASSUME Clearing PROVE FALSE
    OBVIOUS
  <2>1. ops # <<>> /\ Op.kind = "clear"
    BY DEF Clearing
  <2> QED
    BY <2>1, ClearFacts
<1>7. TypeOK'
  BY <1>1, Types, TypesThen
<1>8. Numbers'
  BY <1>1, <1>2 DEF Numbers, Where
<1>9. Line'
  BY Types, LineOfIdle DEF Idle, SameOp
<1>10. Commands'
  BY <1>1, <1>3 DEF Commands, Replacing
<1>11. Quiet'
  <2>1. Replacing => Calm'
    BY <1>4 DEF Calm, Unflushed
  <2>2. cmd.kind = "save" => core'.work \in disk.files /\ ~ core'.dirty
    BY DEF Quiet
  <2> QED
    BY <1>1, <1>3, <2>1, <2>2 DEF Quiet, Step
<1>12. Checkpoint'
  <2>1. ~ Step("clear")
    BY DEF Step
  <2> QED
    BY <1>2, <2>1 DEF Checkpoint, Flushing, Where, Held
<1>13. Removal'
  BY <1>1, <1>2, <1>3, <1>6 DEF Removal
<1>14. ListedIsReadable'
  BY DEF ListedIsReadable, Where, Held
<1>15. Kept'
  BY <1>1 DEF Kept, Step, Held
<1>16. Mine'
  BY <1>1, <1>2, <1>6 DEF Mine, SavedIsCleared, Where, Flushing, Step
<1>17. Past'
  <2>1. CASE Replacing
    BY <1>1, <1>2, <1>3, <1>5, <2>1 DEF Past, Numbered, Active, Flushing
  <2>2. CASE ~ Replacing
    <3>1. core.work \subseteq core'.work
      BY <2>2
    <3>2. \A c \in Associated : disk.meta[c] # Absent => Payload(disk, c) \subseteq core'.work
      BY <2>2, <3>1 DEF Past, Where, Held
    <3>3. Active /\ Op.work # Absent => Op.work \subseteq core'.work
      BY <3>1 DEF Past
    <3> QED
      BY <1>2, <1>6, <3>2, <3>3 DEF Past, Where, Held, Flushing
  <2> QED
    BY <2>1, <2>2
<1> QED
  BY <1>7, <1>8, <1>9, <1>10, <1>11, <1>12, <1>13, <1>14, <1>15, <1>16, <1>17

LEMMA WorkGrows ==
  ASSUME TypeOK, spent.edit < MaxEdit
  PROVE  /\ core.work \union {spent.edit + 1} \in Work /\ {spent.edit + 1} \in Work
         /\ [spent EXCEPT !.edit = @ + 1] \in SpentType
<1>1. spent.edit \in 0 .. MaxEdit /\ spent \in SpentType /\ MaxEdit \in Nat
  BY BoundsAssumption DEF TypeOK, SpentType
<1>2. spent.edit + 1 \in 1 .. MaxEdit
  BY <1>1
<1>3. [spent EXCEPT !.edit = @ + 1] \in SpentType
  BY <1>1, <1>2 DEF SpentType
<1> QED
  BY <1>2, <1>3, Types DEF Work

LEMMA CoreStepsKeep == ASSUME IInv, CoreStep PROVE IInv'
<1> USE DEF IInv
<1>1. CASE CoreEdits
  <2>1. /\ cmd # Absent /\ cmd.kind = "edit" /\ cmd.at = "core" /\ spent.edit < MaxEdit
        /\ core' = [work |-> core.work \union {spent.edit + 1}, dirty |-> TRUE]
        /\ cmd' = [cmd EXCEPT !.at = "answer"] /\ UNCHANGED <<disk, sch, ops>>
        /\ spent' = [spent EXCEPT !.edit = @ + 1]
    BY <1>1 DEF CoreEdits, In
  <2> QED
    BY <2>1, WorkGrows, CoreChanges
<1>2. CASE CoreNew
  <2>1. /\ cmd # Absent /\ cmd.kind = "new" /\ cmd.at = "core"
        /\ core' = [work |-> Blank, dirty |-> FALSE]
        /\ cmd' = [cmd EXCEPT !.at = "answer"] /\ UNCHANGED <<disk, sch, ops, spent>>
    BY <1>2 DEF CoreNew, In
  <2>2. core' \in [work : Work, dirty : BOOLEAN] /\ Replacing
    BY <2>1 DEF Work, Blank, Replacing
  <2> QED
    BY <2>1, <2>2, Types, CoreChanges
<1>3. CASE CoreOpens
  <2>1. /\ cmd # Absent /\ cmd.kind = "open" /\ cmd.at = "core"
        /\ \E f \in disk.files : core' = [work |-> f, dirty |-> FALSE]
        /\ cmd' = [cmd EXCEPT !.at = "answer"] /\ UNCHANGED <<disk, sch, ops, spent>>
    BY <1>3 DEF CoreOpens, In
  <2>2. core' \in [work : Work, dirty : BOOLEAN] /\ Replacing
    BY <2>1, Types DEF Replacing
  <2> QED
    BY <2>1, <2>2, Types, CoreChanges
<1>4. CASE CoreImports
  <2>1. /\ cmd # Absent /\ cmd.kind = "import" /\ cmd.at = "core" /\ spent.edit < MaxEdit
        /\ core' = [work |-> {spent.edit + 1}, dirty |-> TRUE]
        /\ cmd' = [cmd EXCEPT !.at = "answer"] /\ UNCHANGED <<disk, sch, ops>>
        /\ spent' = [spent EXCEPT !.edit = @ + 1]
    BY <1>4 DEF CoreImports, In
  <2>2. Replacing
    BY <2>1 DEF Replacing
  <2> QED
    BY <2>1, <2>2, WorkGrows, CoreChanges
<1>5. CASE CoreRestores
  <2>1. /\ cmd # Absent /\ cmd.kind = "restore" /\ cmd.at = "core" /\ cmd.id \in Offered
        /\ UNCHANGED <<disk, sch, ops>>
    BY <1>5 DEF CoreRestores, In
  <2>2. PICK fails \in BOOLEAN :
          /\ Storage(fails)
          /\ IF fails \/ Held(cmd.id) = Absent
             THEN cmd' = Absent /\ UNCHANGED core
             ELSE /\ core' = [work |-> Held(cmd.id), dirty |-> TRUE]
                  /\ cmd' = [cmd EXCEPT !.at = "answer"]
    BY <1>5 DEF CoreRestores
  <2>3. spent' \in SpentType
    BY <2>2, StorageCounts
  <2>4. CASE cmd' = Absent /\ UNCHANGED core
    BY <2>1, <2>3, <2>4, CommandEnds DEF Idle, Step
  <2>5. CASE /\ Held(cmd.id) # Absent /\ core' = [work |-> Held(cmd.id), dirty |-> TRUE]
             /\ cmd' = [cmd EXCEPT !.at = "answer"]
    <3>1. cmd.id \in Id /\ cmd.id # 0
      BY <2>1 DEF Offered, Id
    <3>2. Payload(disk, cmd.id) \in Work
      BY <2>5, <3>1, Types DEF Held, Payload
    <3>3. core' \in [work : Work, dirty : BOOLEAN] /\ Replacing /\ core'.work = Payload(disk, cmd.id)
      BY <2>1, <2>5, <3>2 DEF Replacing, Held
    <3> QED
      BY <2>1, <2>3, <2>5, <3>1, <3>3, CoreChanges
  <2> QED
    BY <2>2, <2>4, <2>5
<1>6. CASE CommandFails
  <2>1. cmd # Absent /\ cmd.at = "core"
    BY <1>6 DEF CommandFails, In
  <2>2. cmd' = Absent /\ UNCHANGED <<disk, core, sch, ops, spent>>
    BY <1>6 DEF CommandFails
  <2> QED
    BY <2>1, <2>2, Types, CommandEnds DEF Idle, Step
<1>7. CASE WritesFile
  <2>1. cmd # Absent /\ cmd.kind = "save" /\ cmd.at = "core" /\ UNCHANGED <<core, sch, ops>>
    BY <1>7 DEF WritesFile, In
  <2>2. PICK fails \in BOOLEAN :
          /\ Storage(fails)
          /\ disk' = IF fails THEN disk ELSE [disk EXCEPT !.files = @ \union {core.work}]
          /\ cmd' = IF fails THEN Absent ELSE [cmd EXCEPT !.at = "commit"]
    BY <1>7 DEF WritesFile
  <2>3. spent' \in SpentType
    BY <2>2, StorageCounts
  <2>4. CASE fails
    BY <2>1, <2>2, <2>3, <2>4, CommandEnds DEF Idle, Step
  <2>5. CASE ~ fails
    <3>1. /\ disk' = [disk EXCEPT !.files = @ \union {core.work}]
          /\ cmd' = [cmd EXCEPT !.at = "commit"]
      BY <2>2, <2>5
    <3>2. /\ disk' \in DiskType /\ disk'.files = disk.files \union {core.work}
          /\ disk' = [disk EXCEPT !.files = disk'.files]
      BY <3>1, Types DEF DiskType
    <3>3. /\ cmd \in CmdType /\ cmd' \in CmdType /\ cmd' # Absent /\ cmd'.kind = "save"
          /\ cmd'.at = "commit" /\ cmd'.id = cmd.id
      BY <2>1, <3>1, AbsentAssumption DEF TypeOK, CmdType
    <3>4. HeadStays /\ SameWork
      BY <2>1 DEF HeadStays, Op, SameWork
    <3>5. CommandTurns
      BY <2>1, <3>3 DEF CommandTurns, Step, Numbers
    <3>6. Line'
      BY <2>1, Types, LineOfIdle DEF Idle, SameOp
    <3>7. Commands' /\ Quiet'
      BY <2>1, <3>2, <3>3 DEF Commands, Quiet, Replacing, Step
    <3>8. TypeOK'
      BY <2>1, <2>3, <3>2, <3>3, Types, TypesThen
    <3> QED
      BY <2>1, <3>2, <3>4, <3>5, <3>6, <3>7, <3>8, ShelfStays
  <2> QED
    BY <2>4, <2>5
<1>8. CASE CoreSaves
  <2>1. /\ cmd # Absent /\ cmd.kind = "save" /\ cmd.at = "commit"
        /\ core' = [core EXCEPT !.dirty = FALSE]
        /\ cmd' = [cmd EXCEPT !.at = "answer"] /\ UNCHANGED <<disk, sch, ops, spent>>
    BY <1>8 DEF CoreSaves, In
  <2>2. core' \in [work : Work, dirty : BOOLEAN] /\ core'.work = core.work /\ ~ core'.dirty
    BY <2>1, Types
  <2> QED
    BY <2>1, <2>2, Types, CoreChanges
<1> QED
  BY <1>1, <1>2, <1>3, <1>4, <1>5, <1>6, <1>7, <1>8 DEF CoreStep

-----------------------------------------------------------------------------
(* The answers of the worker.                                              *)
LEMMA InOrderStays ==
  ASSUME TypeOK, ops' = NowInOrder(ops)
  PROVE  /\ HeadStays /\ ops' \in Seq(OpType) /\ Len(ops') = Len(ops) /\ Len(ops) \in Nat
         /\ \A k \in 1 .. Len(ops) : SameOp(ops'[k], ops[k])
<1>1. /\ ops' \in Seq(OpType) /\ Len(ops') = Len(ops) /\ Len(ops) \in Nat
      /\ \A k \in 1 .. Len(ops) : ops'[k] = [ops[k] EXCEPT !.late = FALSE]
      /\ ops # <<>> => Op' = [Op EXCEPT !.late = FALSE]
      /\ ops = <<>> => ops' = <<>>
  BY InOrder
<1>2. \A k \in 1 .. Len(ops) : SameOp(ops'[k], ops[k])
  <2> SUFFICES ASSUME NEW k \in 1 .. Len(ops) PROVE SameOp(ops'[k], ops[k])
    OBVIOUS
  <2>1. ops[k] \in OpType /\ ops'[k] = [ops[k] EXCEPT !.late = FALSE]
    BY <1>1, Elements
  <2> QED
    BY <2>1 DEF SameOp, OpType
<1>3. HeadStays
  <2>1. CASE ops = <<>>
    BY <1>1, <2>1 DEF HeadStays
  <2>2. CASE ops # <<>>
    <3>1. ops' # <<>>
      BY <1>1, <2>2, HeadOfLine, LenOfEmpty
    <3>2. Op \in OpType /\ Op' = [Op EXCEPT !.late = FALSE]
      BY <1>1, <2>2, HeadOfLine
    <3> QED
      BY <2>2, <3>1, <3>2 DEF HeadStays, OpType
  <2> QED
    BY <2>1, <2>2
<1> QED
  BY <1>1, <1>2, <1>3

LEMMA EditAnsweredKeeps == ASSUME IInv, EditAnswered PROVE IInv'
<1> USE DEF IInv
<1>1. /\ cmd # Absent /\ cmd.kind = "edit" /\ cmd.at = "answer" /\ cmd' = Absent
      /\ ops' = NowInOrder(ops) /\ UNCHANGED <<disk, core, spent>> /\ ~ Replacing
  BY DEF EditAnswered, Answered, Replacing
<1>2. /\ sch' \in SchType /\ sch'.rev = sch.rev + 1 /\ sch'.saved = sch.saved
      /\ sch'.gen = sch.gen /\ sch'.source = sch.source /\ sch'.current = sch.current
      /\ sch'.mine = sch.mine /\ Associated' = Associated
  <2>1. sch' = [sch EXCEPT !.rev = @ + 1, !.soon = TRUE]
    BY DEF EditAnswered, MarkChanged
  <2>2. sch \in SchType /\ sch.rev + 1 \in Nat
    BY Types DEF SchType
  <2>3. /\ sch' \in SchType /\ sch'.rev = sch.rev + 1 /\ sch'.saved = sch.saved
        /\ sch'.gen = sch.gen /\ sch'.source = sch.source /\ sch'.current = sch.current
        /\ sch'.mine = sch.mine
    BY <2>1, <2>2 DEF SchType
  <2> QED
    BY <2>3 DEF Associated
<1>3. /\ HeadStays /\ ops' \in Seq(OpType) /\ Len(ops') = Len(ops)
      /\ \A k \in 1 .. Len(ops) : SameOp(ops'[k], ops[k])
  BY <1>1, InOrderStays
<1>4. /\ Active' <=> Active
      /\ Numbered' <=> Numbered
      /\ ~ Clearing'
  <2>1. ~ Clearing
    <3> SUFFICES ASSUME Clearing PROVE FALSE
      OBVIOUS
    <3>1. ops # <<>> /\ Op.kind = "clear"
      BY DEF Clearing
    <3> QED
      BY <1>1, <3>1, ClearFacts
  <2> QED
    BY <1>3, <2>1, HeadStaysFacts
<1>5. TypeOK'
  <2>1. sch'.saved <= sch'.rev
    BY <1>2, Types
  <2> QED
    BY <1>1, <1>2, <1>3, <2>1, Types, TypesThen
<1>6. Line'
  <2>1. sch'.gen \in Nat /\ sch'.rev \in Nat /\ sch'.rev >= sch.rev
    BY <1>2, Types
  <2> QED
    BY <1>1, <1>2, <1>3, <2>1, LineOfIdle DEF Idle
<1>7. Unflushed'
  BY <1>2, Types DEF Unflushed
<1>8. Numbered => Active
  BY DEF Numbered, Active, Flushing
<1>9. Numbers'
  BY <1>1, <1>2, <1>3, <1>4, <1>8, HeadStaysFacts DEF Numbers, Where
<1>10. Commands' /\ Quiet'
  BY <1>1 DEF Commands, Quiet, Replacing, Step
<1>11. Checkpoint'
  <2>1. /\ Flushing({"payload", "metadata", "undo"}) => Numbered
        /\ Flushing({"metadata", "undo", "cleanup", "answer"}) => Numbered
        /\ Flushing({"undo"}) => Numbered
        /\ Flushing({"metadata"}) => Numbered
        /\ Flushing({"cleanup", "answer"}) => Numbered
        /\ Flushing({"cleanup"}) => Numbered
    BY DEF Flushing, Numbered
  <2>2. Active' => Op'.target > sch'.saved \/ Step("clear")'
    <3>1. ~ Step("clear")
      BY <1>1 DEF Step
    <3> QED
      BY <1>2, <1>3, <1>4, <3>1, HeadStaysFacts DEF Checkpoint
  <2>3. Numbered =>
          /\ Op'.work # Absent /\ Op'.id # 0
          /\ Op'.previous # Absent => Op'.id = sch'.current
          /\ Op'.id = sch'.current \/ sch'.current = 0 \/ disk'.meta[sch'.current] = Absent
    BY <1>1, <1>2, <1>3, <1>8, HeadStaysFacts DEF Checkpoint, Where
  <2>4. /\ Flushing({"payload", "metadata", "undo"}) =>
             /\ Op'.previous = disk'.meta[Op'.id]
             /\ Op'.previous = Absent => Op'.id = disk'.next - 1
        /\ Flushing({"metadata", "undo", "cleanup", "answer"}) => Op'.where # Absent
        /\ Flushing({"undo"}) => Op'.previous = Absent
        /\ Flushing({"metadata"}) /\ Op'.where = "opfs" => disk'.opfs[Op'.id] = Op'.work
    BY <1>1, <1>3, <1>8, <2>1, HeadStaysFacts DEF Checkpoint, Where
  <2>5. /\ Flushing({"cleanup", "answer"}) =>
             disk'.meta[Op'.id] = Op'.where /\ Payload(disk', Op'.id) = Op'.work
        /\ Flushing({"cleanup"}) => Op'.previous \notin {Op'.where, Absent}
    BY <1>1, <1>3, <1>8, <2>1, HeadStaysFacts DEF Checkpoint, Where, Held
  <2> QED
    BY <1>3, <2>2, <2>3, <2>4, <2>5, HeadStaysFacts DEF Checkpoint, Where, Held
<1>12. Removal'
  BY <1>1, <1>4 DEF Removal
<1>13. ListedIsReadable'
  BY <1>1 DEF ListedIsReadable, Where, Held
<1>14. Kept'
  <2>1. Active => Op'.target < sch'.rev /\ Op'.target # sch'.rev
    <3> SUFFICES ASSUME Active PROVE Op'.target < sch'.rev /\ Op'.target # sch'.rev
      OBVIOUS
    <3>1. ops # <<>> /\ Op.at # "start"
      BY DEF Active, Flushing
    <3>2. Op.target <= sch.rev /\ Op.target \in Nat /\ Op'.target = Op.target
      BY <1>3, <3>1, RunningFacts, HeadStaysFacts DEF OpType
    <3> QED
      BY <1>2, <3>2, Types
  <2> QED
    BY <1>1, <1>4, <1>7, <2>1 DEF Kept, Step
<1>15. Mine'
  <2>1. Flushing({"cleanup", "answer"}) => Active
    BY DEF Flushing, Active
  <2> QED
    BY <1>1, <1>2, <1>3, <1>4, <2>1, HeadStaysFacts DEF Mine, SavedIsCleared, Where, Step
<1>16. Past'
  BY <1>1, <1>2, <1>3, <1>4, <1>8, HeadStaysFacts DEF Past, Where, Held, Replacing
<1> QED
  BY <1>5, <1>6, <1>9, <1>10, <1>11, <1>12, <1>13, <1>14, <1>15, <1>16

(* Another work: the scheduler forgets the candidates of the one before,   *)
(* and no checkpoint of it is under way.                                   *)
LEMMA NewSession ==
  ASSUME IInv, Replacing, cmd.at = "answer", cmd' = Absent, ops' = NowInOrder(ops),
         UNCHANGED <<disk, core, spent>>, sch' \in SchType,
         sch'.gen = sch.gen + 1, sch'.saved <= sch'.rev, sch'.current = 0,
         sch'.mine = {sch'.source} \ {0}, sch'.source < disk.next,
         sch'.source # 0 => Payload(disk, sch'.source) = core.work,
         sch'.source = 0 => ~ core.dirty \/ sch'.rev > sch'.saved
  PROVE  IInv'
<1> USE DEF IInv
<1>1. Calm
  BY DEF Quiet
<1>2. /\ HeadStays /\ ops' \in Seq(OpType) /\ Len(ops') = Len(ops) /\ Len(ops) \in Nat
      /\ \A k \in 1 .. Len(ops) : SameOp(ops'[k], ops[k])
  BY InOrderStays
<1>3. ~ Active /\ ~ Numbered /\ ~ Clearing
  <2> SUFFICES ASSUME ops # <<>> PROVE Op.at = "start"
    BY DEF Active, Numbered, Clearing, Flushing
  <2>1. Op = ops[1] /\ 1 \in 1 .. Len(ops)
    BY HeadOfLine
  <2> QED
    BY <1>1, <2>1 DEF Calm
<1>4. ~ Active' /\ ~ Numbered' /\ ~ Clearing'
  BY <1>2, <1>3, HeadStaysFacts
<1>5. /\ ~ Flushing({"payload", "metadata", "undo"})'
      /\ ~ Flushing({"metadata", "undo", "cleanup", "answer"})'
      /\ ~ Flushing({"undo"})' /\ ~ Flushing({"metadata"})'
      /\ ~ Flushing({"cleanup", "answer"})' /\ ~ Flushing({"cleanup"})'
  BY <1>4 DEF Flushing, Numbered
<1>6. Associated' = {sch'.source} \ {0} /\ Associated' \subseteq Id
  BY DEF Associated, SchType
<1>7. TypeOK'
  BY <1>2, Types, TypesThen
<1>8. Numbers'
  BY <1>4, Types DEF Numbers, Where
<1>9. Line'
  <2>1. sch'.gen \in Nat /\ sch'.rev \in Nat /\ sch'.gen > sch.gen
    BY Types DEF SchType
  <2> QED
    BY <1>1, <1>2, <2>1, LineOfIdle DEF Idle, Calm
<1>10. Commands' /\ Quiet' /\ Removal'
  BY <1>4 DEF Commands, Quiet, Removal, Replacing, Step
<1>11. Checkpoint'
  BY <1>4, <1>5 DEF Checkpoint
<1>12. ListedIsReadable'
  BY DEF ListedIsReadable, Where, Held
<1>13. Kept'
  BY <1>4, <1>6 DEF Kept, Step, Held, Unflushed
<1>14. Mine'
  BY <1>4, <1>6 DEF Mine, SavedIsCleared, Step
<1>15. Past'
  BY <1>4, <1>6 DEF Past, Where, Held
<1> QED
  BY <1>7, <1>8, <1>9, <1>10, <1>11, <1>12, <1>13, <1>14, <1>15

LEMMA ReplaceAnsweredKeeps == ASSUME IInv, ReplaceAnswered PROVE IInv'
<1> USE DEF IInv
<1>1. /\ cmd # Absent /\ cmd.kind \in {"new", "open", "import"} /\ cmd.at = "answer"
      /\ cmd' = Absent /\ ops' = NowInOrder(ops) /\ UNCHANGED <<disk, core, spent>>
      /\ sch' = MarkChanged(BeginDocumentSession(sch, 0))
  BY DEF ReplaceAnswered, Answered
<1>2. /\ sch' \in SchType /\ sch'.gen = sch.gen + 1 /\ sch'.rev = 1 /\ sch'.saved = 0
      /\ sch'.source = 0 /\ sch'.current = 0 /\ sch'.mine = {}
  <2>1. PICK s : s = BeginDocumentSession(sch, 0)
    OBVIOUS
  <2>2. /\ s \in SchType /\ s.gen = sch.gen + 1 /\ s.rev = 0 /\ s.saved = 0
        /\ s.source = 0 /\ s.current = 0 /\ s.mine = {0} \ {0}
    BY <2>1, Types DEF BeginDocumentSession, SchType
  <2>3. sch' = [s EXCEPT !.rev = @ + 1, !.soon = TRUE]
    BY <1>1, <2>1 DEF MarkChanged
  <2>4. s.rev + 1 \in Nat /\ s.rev + 1 = 1
    BY <2>2
  <2> QED
    BY <2>2, <2>3, <2>4 DEF SchType
<1> QED
  BY <1>1, <1>2, Types, NewSession DEF Replacing

LEMMA RestoreAnsweredKeeps == ASSUME IInv, RestoreAnswered PROVE IInv'
<1> USE DEF IInv
<1>1. /\ cmd # Absent /\ cmd.kind = "restore" /\ cmd.at = "answer"
      /\ cmd' = Absent /\ ops' = NowInOrder(ops) /\ UNCHANGED <<disk, core, spent>>
      /\ sch' = BeginDocumentSession(sch, cmd.id)
  BY DEF RestoreAnswered, Answered
<1>2. cmd.id \in Id /\ cmd.id # 0 /\ cmd.id < disk.next /\ Payload(disk, cmd.id) = core.work
  BY <1>1 DEF TypeOK, CmdType, Kept, Step, Held, Numbers
<1>3. /\ sch' \in SchType /\ sch'.gen = sch.gen + 1 /\ sch'.rev = 0 /\ sch'.saved = 0
      /\ sch'.source = cmd.id /\ sch'.current = 0 /\ sch'.mine = {cmd.id} \ {0}
  BY <1>1, <1>2, Types DEF BeginDocumentSession, SchType
<1> QED
  BY <1>1, <1>2, <1>3, NewSession DEF Replacing

LEMMA SaveAnsweredKeeps == ASSUME IInv, SaveAnswered PROVE IInv'
<1> USE DEF IInv
<1>1. /\ cmd # Absent /\ cmd.kind = "save" /\ cmd.at = "answer" /\ UNCHANGED <<disk, core, spent>>
      /\ cmd \in CmdType /\ cmd' = [cmd EXCEPT !.at = "clear"]
  BY DEF SaveAnswered, Answered, TypeOK
<1>2. /\ cmd' \in CmdType /\ cmd' # Absent /\ cmd'.kind = "save" /\ cmd'.at = "clear"
      /\ cmd'.id = cmd.id
  BY <1>1, AbsentAssumption DEF CmdType
<1>3. /\ sch' \in SchType /\ sch'.gen = sch.gen /\ sch'.rev = sch.rev /\ sch'.saved = sch.rev
      /\ sch'.source = sch.source /\ sch'.current = sch.current /\ sch'.mine = sch.mine
      /\ Associated' = Associated /\ Associated \subseteq Id
  <2>1. sch' = [sch EXCEPT !.saved = Later(@, sch.rev), !.soon = FALSE]
    BY DEF SaveAnswered
  <2>2. Later(sch.saved, sch.rev) = sch.rev
    BY Types DEF Later
  <2> QED
    BY <2>1, <2>2, Types DEF SchType, Associated
<1>4. Steady /\ ~ Unflushed' /\ sch'.saved <= sch'.rev
  BY <1>3, Types DEF Steady, Unflushed
<1> DEFINE o == Operation("clear", "own")
           q == NowInOrder(ops)
<1>5. /\ o \in OpType /\ o.kind = "clear" /\ o.wake = "own" /\ o.at = "start"
      /\ o.gen = sch.gen /\ o.target = sch.rev /\ o.source = sch.source /\ o.previous = Absent
  BY OperationType
<1>6. /\ q \in Seq(OpType) /\ Len(q) = Len(ops) /\ Len(ops) \in Nat
      /\ \A k \in 1 .. Len(ops) : q[k] = [ops[k] EXCEPT !.late = FALSE]
  <2>1. ops \in Seq(OpType) /\ Len(ops) \in Nat /\ DOMAIN ops = 1 .. Len(ops)
    BY DEF TypeOK
  <2>2. \A p \in OpType : [p EXCEPT !.late = FALSE] \in OpType
    BY DEF OpType
  <2>3. q = [k \in 1 .. Len(ops) |-> [ops[k] EXCEPT !.late = FALSE]]
    BY <2>1 DEF NowInOrder
  <2>4. q \in [1 .. Len(ops) -> OpType]
    BY <2>1, <2>2, <2>3, Elements
  <2> QED
    BY <2>1, <2>3, <2>4
<1>7. ops' = Append(q, o)
  BY DEF SaveAnswered
<1> HIDE DEF o, q
<1>8. /\ ops' \in Seq(OpType) /\ Len(ops') = Len(ops) + 1 /\ ops'[Len(ops')] = o
      /\ \A k \in 1 .. Len(ops) : ops'[k] = [ops[k] EXCEPT !.late = FALSE]
  BY <1>5, <1>6, <1>7
<1>9. \A k \in 1 .. Len(ops) : SameOp(ops'[k], ops[k])
  <2> SUFFICES ASSUME NEW k \in 1 .. Len(ops) PROVE SameOp(ops'[k], ops[k])
    OBVIOUS
  <2>1. ops[k] \in OpType /\ ops'[k] = [ops[k] EXCEPT !.late = FALSE]
    BY <1>8, Elements
  <2> QED
    BY <2>1 DEF SameOp, OpType
<1>10. ops' # <<>> /\ Op' = ops'[1]
  <2>1. ops' # <<>>
    BY <1>6, <1>8, LenOfEmpty
  <2> QED
    BY <1>8, <2>1 DEF Op
<1>11. HeadStays
  <2>1. CASE ops = <<>>
    <3>1. Op'.at = "start"
      BY <1>5, <1>8, <1>10, <2>1, LenOfEmpty
    <3> QED
      BY <2>1, <3>1 DEF HeadStays
  <2>2. CASE ops # <<>>
    <3>1. Op = ops[1] /\ Op \in OpType /\ 1 \in 1 .. Len(ops)
      BY <2>2, HeadOfLine
    <3>2. Op' = [Op EXCEPT !.late = FALSE]
      BY <1>8, <1>10, <3>1
    <3> QED
      BY <1>10, <2>2, <3>1, <3>2 DEF HeadStays, OpType
  <2> QED
    BY <2>1, <2>2
<1>12. Line'
  BY <1>1, <1>2, <1>3, <1>4, <1>5, <1>8, <1>9, LineGrows DEF Idle
<1>13. /\ Active' <=> Active
       /\ Numbered' <=> Numbered
       /\ ~ Clearing /\ ~ Clearing'
  <2>1. ~ Clearing
    <3> SUFFICES ASSUME Clearing PROVE FALSE
      OBVIOUS
    <3>1. ops # <<>> /\ Op.kind = "clear"
      BY DEF Clearing
    <3> QED
      BY <1>1, <3>1, ClearFacts
  <2> QED
    BY <1>11, <2>1, HeadStaysFacts
<1>14. Numbered => Active
  BY DEF Numbered, Active, Flushing
<1>15. TypeOK'
  BY <1>1, <1>2, <1>3, <1>4, <1>8, Types, TypesThen
<1>16. Numbers'
  BY <1>1, <1>2, <1>3, <1>11, <1>13, <1>14, HeadStaysFacts DEF Numbers, Where
<1>17. Commands'
  BY <1>2 DEF Commands, Replacing
<1>18. Quiet' /\ ~ core.dirty
  BY <1>1, <1>2, <1>4 DEF Quiet, Replacing, Step
<1>19. Checkpoint'
  <2>1. /\ Flushing({"payload", "metadata", "undo"}) => Numbered
        /\ Flushing({"metadata", "undo", "cleanup", "answer"}) => Numbered
        /\ Flushing({"undo"}) => Numbered
        /\ Flushing({"metadata"}) => Numbered
        /\ Flushing({"cleanup", "answer"}) => Numbered
        /\ Flushing({"cleanup"}) => Numbered
    BY DEF Flushing, Numbered
  <2>2. Step("clear")'
    BY <1>2 DEF Step
  <2>3. Numbered =>
          /\ Op'.work # Absent /\ Op'.id # 0
          /\ Op'.previous # Absent => Op'.id = sch'.current
          /\ Op'.id = sch'.current \/ sch'.current = 0 \/ disk'.meta[sch'.current] = Absent
    BY <1>1, <1>3, <1>11, <1>14, HeadStaysFacts DEF Checkpoint, Where
  <2>4. /\ Flushing({"payload", "metadata", "undo"}) =>
             /\ Op'.previous = disk'.meta[Op'.id]
             /\ Op'.previous = Absent => Op'.id = disk'.next - 1
        /\ Flushing({"metadata", "undo", "cleanup", "answer"}) => Op'.where # Absent
        /\ Flushing({"undo"}) => Op'.previous = Absent
        /\ Flushing({"metadata"}) /\ Op'.where = "opfs" => disk'.opfs[Op'.id] = Op'.work
    BY <1>1, <1>11, <1>14, <2>1, HeadStaysFacts DEF Checkpoint, Where
  <2>5. /\ Flushing({"cleanup", "answer"}) =>
             disk'.meta[Op'.id] = Op'.where /\ Payload(disk', Op'.id) = Op'.work
        /\ Flushing({"cleanup"}) => Op'.previous \notin {Op'.where, Absent}
    BY <1>1, <1>11, <1>14, <2>1, HeadStaysFacts DEF Checkpoint, Where, Held
  <2> QED
    BY <1>11, <2>2, <2>3, <2>4, <2>5, HeadStaysFacts DEF Checkpoint, Where, Held
<1>20. Removal'
  BY <1>2, <1>13 DEF Removal
<1>21. ListedIsReadable'
  BY <1>1 DEF ListedIsReadable, Where, Held
<1>22. Kept'
  BY <1>1, <1>2, <1>18 DEF Kept, Step
<1>23. Mine'
  <2>1. Flushing({"cleanup", "answer"}) => Active
    BY DEF Flushing, Active
  <2> QED
    BY <1>1, <1>2, <1>3, <1>11, <1>13, <2>1, HeadStaysFacts DEF Mine, SavedIsCleared, Where, Step
<1>24. Past'
  <2>1. ~ Replacing /\ ~ Replacing'
    BY <1>1, <1>2 DEF Replacing
  <2> QED
    BY <1>1, <1>3, <1>11, <1>13, <1>14, <2>1, HeadStaysFacts DEF Past, Where, Held
<1> QED
  BY <1>12, <1>15, <1>16, <1>17, <1>18, <1>19, <1>20, <1>21, <1>22, <1>23, <1>24

LEMMA SaveReturnsKeeps == ASSUME IInv, SaveReturns PROVE IInv'
<1> USE DEF IInv
<1>1. /\ cmd # Absent /\ cmd.at = "saved" /\ cmd' = Absent
      /\ UNCHANGED <<disk, core, sch, ops, spent>>
  BY DEF SaveReturns, In
<1> QED
  BY <1>1, Types, CommandEnds DEF Idle, Step

-----------------------------------------------------------------------------
(* A candidate the user refuses is not one of the work in hand.            *)
LEMMA RefusedGoes ==
  ASSUME IInv, cmd # Absent, cmd.kind = "discard",
         cmd' = Absent \/ cmd' = [cmd EXCEPT !.at = "payload"],
         Leaves(cmd.id), disk'.meta[cmd.id] = Absent,
         \A b \in Id : b # cmd.id => disk'.opfs[b] = disk.opfs[b],
         UNCHANGED <<core, sch, ops>>, spent' \in SpentType
  PROVE  IInv'
<1> USE DEF IInv
<1> DEFINE c == cmd.id
<1>1. /\ cmd \in CmdType /\ cmd.at \in {"metadata", "payload"} /\ c # 0 /\ c \in Id
      /\ c \notin Associated /\ (Numbered => c # Op.id)
  BY DEF TypeOK, CmdType, Commands, Removal
<1>2. /\ cmd' \in {Absent} \union CmdType
      /\ cmd' # Absent => cmd'.at = "payload" /\ cmd'.kind = "discard" /\ cmd'.id = c
  BY <1>1 DEF CmdType
<1>3. /\ disk' \in DiskType /\ disk'.next = disk.next /\ disk'.files = disk.files
      /\ \A b \in Id : b # c =>
           disk'.meta[b] = disk.meta[b] /\ Payload(disk', b) = Payload(disk, b)
      /\ disk'.meta[c] = Absent
  BY DEF Leaves
<1> HIDE DEF c
<1>4. /\ Op' = Op /\ Associated' = Associated /\ Associated \subseteq Id
      /\ Active' <=> Active
      /\ Numbered' <=> Numbered
      /\ Clearing' <=> Clearing
  BY Types DEF Op, Associated, Active, Numbered, Clearing, Flushing
<1>5. ~ Clearing
  <2> SUFFICES ASSUME Clearing PROVE FALSE
    OBVIOUS
  <2>1. ops # <<>> /\ Op.kind = "clear"
    BY DEF Clearing
  <2> QED
    BY <1>1, <2>1, ClearFacts
<1>6. \A b \in Associated : disk'.meta[b] = disk.meta[b] /\ Payload(disk', b) = Payload(disk, b)
  BY <1>1, <1>3, <1>4
<1>7. Numbered =>
        /\ Op.id \in Id /\ Op.id # c
        /\ disk'.meta[Op.id] = disk.meta[Op.id] /\ disk'.opfs[Op.id] = disk.opfs[Op.id]
        /\ Payload(disk', Op.id) = Payload(disk, Op.id)
  <2> SUFFICES ASSUME Numbered PROVE Op.id \in Id /\ Op.id # c
    BY <1>3 DEF c
  <2>1. ops # <<>>
    BY DEF Numbered, Flushing
  <2> QED
    BY <1>1, <2>1, HeadOfLine DEF OpType, Checkpoint
<1>8. sch.current # 0 => sch.current \in Associated
  BY DEF Associated
<1>9. TypeOK'
  BY <1>2, <1>3, Types, TypesThen
<1>10. Numbers'
  <2>1. disk.next \in Nat
    BY Types
  <2> QED
    BY <1>1, <1>2, <1>3, <1>4, <2>1 DEF Numbers, Where, c
<1>11. Line'
  BY <1>1, Types, LineOfIdle DEF Idle, SameOp
<1>12. Commands' /\ Quiet'
  BY <1>2 DEF Commands, Quiet, Replacing, Step
<1>13. Checkpoint'
  <2>1. /\ Flushing({"payload", "metadata", "undo"}) => Numbered
        /\ Flushing({"metadata", "undo", "cleanup", "answer"}) => Numbered
        /\ Flushing({"undo"}) => Numbered
        /\ Flushing({"metadata"}) => Numbered
        /\ Flushing({"cleanup", "answer"}) => Numbered
        /\ Flushing({"cleanup"}) => Numbered
    BY DEF Flushing, Numbered
  <2>2. Active => Op.target > sch.saved
    BY <1>1 DEF Checkpoint, Step
  <2>3. Numbered =>
          /\ Op.work # Absent /\ Op.id # 0
          /\ Op.previous # Absent => Op.id = sch.current
          /\ Op.id = sch.current \/ sch.current = 0 \/ disk'.meta[sch.current] = Absent
    BY <1>6, <1>8 DEF Checkpoint, Where
  <2>4. /\ Flushing({"payload", "metadata", "undo"}) =>
             /\ Op.previous = disk'.meta[Op.id]
             /\ Op.previous = Absent => Op.id = disk'.next - 1
        /\ Flushing({"metadata"}) /\ Op.where = "opfs" => disk'.opfs[Op.id] = Op.work
        /\ Flushing({"cleanup", "answer"}) =>
             disk'.meta[Op.id] = Op.where /\ Payload(disk', Op.id) = Op.work
    BY <1>3, <1>7, <2>1 DEF Checkpoint, Where, Held
  <2> QED
    BY <1>4, <2>2, <2>3, <2>4 DEF Checkpoint, Where, Held, Flushing
<1>14. Removal'
  BY <1>1, <1>2, <1>3, <1>4, <1>5 DEF Removal, Where, c
<1>15. ListedIsReadable'
  BY <1>3 DEF ListedIsReadable, Where, Held
<1>16. Kept'
  <2>1. ~ Step("answer") /\ ~ Step("answer")'
    BY <1>1, <1>2 DEF Step
  <2> QED
    BY <1>4, <1>6, <2>1 DEF Kept, Held, Unflushed
<1>17. Mine'
  <2>1. \A b \in sch.mine : disk'.meta[b] # Absent => disk.meta[b] # Absent
    BY <1>3, Types
  <2>2. SavedIsCleared'
    BY <1>2 DEF SavedIsCleared
  <2> QED
    BY <1>4, <1>5, <2>1, <2>2 DEF Mine, Where, Flushing
<1>18. Past'
  <2>1. ~ (Replacing /\ cmd.at = "answer") /\ ~ (Replacing /\ cmd.at = "answer")'
    BY <1>1, <1>2 DEF Replacing
  <2> QED
    BY <1>4, <1>5, <1>6, <1>7, <1>8, <2>1 DEF Past, Where, Held, Flushing
<1> QED
  BY <1>9, <1>10, <1>11, <1>12, <1>13, <1>14, <1>15, <1>16, <1>17, <1>18

LEMMA DiscardsMetadataKeeps == ASSUME IInv, DiscardsMetadata PROVE IInv'
<1> USE DEF IInv
<1>1. /\ cmd # Absent /\ cmd.kind = "discard" /\ cmd.at = "metadata"
      /\ UNCHANGED <<core, sch, ops>>
  BY DEF DiscardsMetadata, In
<1>2. PICK fails \in BOOLEAN :
        /\ Storage(fails)
        /\ IF fails \/ Where(cmd.id) = Absent
           THEN cmd' = Absent /\ UNCHANGED disk
           ELSE /\ disk' = DropMetadata(cmd.id)
                /\ cmd' = IF Where(cmd.id) = "opfs" THEN [cmd EXCEPT !.at = "payload"] ELSE Absent
  BY DEF DiscardsMetadata
<1>3. spent' \in SpentType
  BY <1>2, StorageCounts
<1>4. CASE cmd' = Absent /\ UNCHANGED disk
  BY <1>1, <1>3, <1>4, CommandEnds DEF Idle, Step
<1>5. CASE /\ disk' = DropMetadata(cmd.id)
           /\ cmd' = Absent \/ cmd' = [cmd EXCEPT !.at = "payload"]
  <2>1. cmd.id \in Id
    BY <1>1 DEF TypeOK, CmdType, Removal
  <2>2. Leaves(cmd.id) /\ disk'.meta[cmd.id] = Absent
    BY <1>5, <2>1, DropLeaves
  <2>3. disk'.opfs = disk.opfs
    BY <1>5, Types DEF DropMetadata, DiskType
  <2> QED
    BY <1>1, <1>3, <1>5, <2>2, <2>3, RefusedGoes
<1> QED
  BY <1>2, <1>4, <1>5

LEMMA DiscardsPayloadKeeps == ASSUME IInv, DiscardsPayload PROVE IInv'
<1> USE DEF IInv
<1>1. /\ cmd # Absent /\ cmd.kind = "discard" /\ cmd.at = "payload" /\ cmd' = Absent
      /\ UNCHANGED <<core, sch, ops>>
  BY DEF DiscardsPayload, In
<1>2. PICK fails \in BOOLEAN :
        /\ Storage(fails)
        /\ disk' = IF fails THEN disk ELSE DropPayload(disk, cmd.id, "opfs")
  BY DEF DiscardsPayload
<1>3. cmd.id \in Id /\ disk.meta[cmd.id] = Absent
  BY <1>1 DEF TypeOK, CmdType, Removal, Where
<1>4. SameShelf
  BY <1>2, <1>3, UnnamedGoes, BoundsAssumption
<1>5. Leaves(cmd.id) /\ disk'.meta[cmd.id] = Absent
  BY <1>3, <1>4, SameLeaves DEF SameShelf
<1>6. \A b \in Id : b # cmd.id => disk'.opfs[b] = disk.opfs[b]
  <2>1. CASE disk' = disk
    BY <2>1
  <2>2. CASE disk' = DropPayload(disk, cmd.id, "opfs")
    <3>1. disk'.opfs = [disk.opfs EXCEPT ![cmd.id] = Absent]
      BY <2>2, Types DEF DropPayload, DiskType
    <3> QED
      BY <3>1, Types
  <2> QED
    BY <1>2, <2>1, <2>2
<1>7. spent' \in SpentType
  BY <1>2, StorageCounts
<1> QED
  BY <1>1, <1>5, <1>6, <1>7, RefusedGoes

-----------------------------------------------------------------------------
(* A tab that starts knows of no work and waits for nothing.               *)
LEMMA StartsAnew ==
  ASSUME disk' \in DiskType, ListedIsReadable', spent' \in SpentType,
         \A c \in Id : disk'.meta[c] # Absent => c < disk'.next,
         core' = [work |-> Blank, dirty |-> FALSE],
         sch'.gen = 1, sch'.rev = 0, sch'.saved = 0, sch'.source = 0, sch'.current = 0,
         sch'.mine = {}, sch' \in SchType, ops' = <<>>, cmd' = Command("new", "core", 0)
  PROVE  IInv'
<1>1. /\ cmd' \in CmdType /\ cmd' # Absent /\ cmd'.kind = "new" /\ cmd'.at = "core"
      /\ cmd'.id = 0
  BY CommandType
<1>2. /\ ~ Active' /\ ~ Numbered' /\ ~ Clearing' /\ Len(ops') = 0 /\ ops' \in Seq(OpType)
      /\ \A steps : ~ Flushing(steps)'
  BY LenOfEmpty DEF Active, Numbered, Clearing, Flushing
<1>3. Associated' = {} /\ disk'.next \in Nat /\ 0 < disk'.next
  BY BoundsAssumption DEF Associated, DiskType
<1>4. /\ ~ Flushing({"payload", "metadata", "undo"})'
      /\ ~ Flushing({"metadata", "undo", "cleanup", "answer"})'
      /\ ~ Flushing({"undo"})' /\ ~ Flushing({"metadata"})'
      /\ ~ Flushing({"cleanup", "answer"})' /\ ~ Flushing({"cleanup"})'
  BY DEF Flushing
<1>5. TypeOK'
  BY <1>1, <1>2, TypesThen DEF Work, Blank
<1>6. Numbers'
  BY <1>1, <1>2, <1>3 DEF Numbers, Where
<1>7. Line'
  BY <1>2 DEF Line
<1>8. Commands' /\ Removal'
  BY <1>1, <1>2 DEF Commands, Removal, Replacing
<1>9. Quiet'
  <2>1. Calm'
    BY <1>2 DEF Calm, Unflushed
  <2> QED
    BY <1>1, <2>1 DEF Quiet, Step
<1>10. Checkpoint'
  BY <1>2, <1>4 DEF Checkpoint
<1>11. Kept'
  BY <1>1, <1>2 DEF Kept, Step
<1>12. Mine'
  BY <1>1, <1>2 DEF Mine, SavedIsCleared
<1>13. Past'
  BY <1>2, <1>3 DEF Past
<1> QED
  BY <1>5, <1>6, <1>7, <1>8, <1>9, <1>10, <1>11, <1>12, <1>13 DEF IInv

LEMMA CloseTabKeeps == ASSUME IInv, CloseTab PROVE IInv'
<1>1. TypeOK /\ Numbers /\ ListedIsReadable
  BY DEF IInv
<1>2. UNCHANGED disk /\ core' = [work |-> Blank, dirty |-> FALSE] /\ ops' = <<>>
      /\ cmd' = Command("new", "core", 0)
  BY DEF CloseTab, Fresh
<1>3. sch' = [gen |-> 1, rev |-> 0, saved |-> 0, soon |-> FALSE, source |-> 0, current |-> 0,
              mine |-> {0} \ {0}]
  <2>1. [sch EXCEPT !.gen = 0].gen + 1 = 1
    BY <1>1, Types DEF SchType
  <2> QED
    BY <2>1 DEF CloseTab, Fresh, BeginDocumentSession
<1>4. /\ sch' \in SchType /\ sch'.gen = 1 /\ sch'.rev = 0 /\ sch'.saved = 0 /\ sch'.source = 0
      /\ sch'.current = 0 /\ sch'.mine = {}
  BY <1>3 DEF SchType
<1>5. spent' \in SpentType
  <2>1. spent \in SpentType /\ spent' = [spent EXCEPT !.close = @ + 1]
    BY <1>1, Types DEF CloseTab
  <2> QED
    BY <2>1 DEF SpentType
<1>6. /\ disk' \in DiskType /\ ListedIsReadable'
      /\ \A c \in Id : disk'.meta[c] # Absent => c < disk'.next
  BY <1>1, <1>2, Types DEF ListedIsReadable, Numbers, Where, Held
<1> QED
  BY <1>2, <1>4, <1>5, <1>6, StartsAnew

LEMMA InitInvariant == Init => IInv
<1> SUFFICES ASSUME Init PROVE IInv
  OBVIOUS
<1>1. /\ disk = [next |-> 1, meta |-> [c \in Id |-> Absent], opfs |-> [c \in Id |-> Absent],
                 idb |-> [c \in Id |-> Absent], files |-> {}]
      /\ core = [work |-> Blank, dirty |-> FALSE] /\ ops = <<>>
      /\ sch = [gen |-> 1, rev |-> 0, saved |-> 0, soon |-> FALSE, source |-> 0,
                current |-> 0, mine |-> {}]
      /\ cmd = Command("new", "core", 0)
      /\ spent = [input |-> 0, edit |-> 0, close |-> 0, fault |-> 0]
  BY DEF Init
<1>2. /\ cmd \in CmdType /\ cmd # Absent /\ cmd.kind = "new" /\ cmd.at = "core" /\ cmd.id = 0
  BY <1>1, CommandType
<1>3. /\ ~ Active /\ ~ Numbered /\ ~ Clearing /\ Len(ops) = 0 /\ ops \in Seq(OpType)
      /\ ~ Flushing({"payload", "metadata", "undo"})
      /\ ~ Flushing({"metadata", "undo", "cleanup", "answer"})
      /\ ~ Flushing({"undo"}) /\ ~ Flushing({"metadata"})
      /\ ~ Flushing({"cleanup", "answer"}) /\ ~ Flushing({"cleanup"})
  BY <1>1, LenOfEmpty DEF Active, Numbered, Clearing, Flushing
<1>4. Associated = {} /\ disk.next = 1 /\ \A c \in Id : disk.meta[c] = Absent
  BY <1>1 DEF Associated
<1>5. TypeOK
  <2>1. /\ 1 \in 1 .. MaxId + 1 /\ 0 \in 0 .. MaxEdit /\ {} \in SUBSET Work /\ {} \in SUBSET Id
        /\ Blank \in Work
    BY BoundsAssumption DEF Work, Blank
  <2>2. /\ [c \in Id |-> Absent] \in [Id -> {"opfs", "indexeddb", Absent}]
        /\ [c \in Id |-> Absent] \in [Id -> {Absent} \union Work]
    OBVIOUS
  <2>3. disk \in [next : 1 .. MaxId + 1, meta : [Id -> {"opfs", "indexeddb", Absent}],
                  opfs : [Id -> {Absent} \union Work], idb : [Id -> {Absent} \union Work],
                  files : SUBSET Work]
    BY <1>1, <2>1, <2>2
  <2>4. core \in [work : Work, dirty : BOOLEAN]
    BY <1>1, <2>1
  <2>5. sch \in [gen : Nat, rev : Nat, saved : Nat, soon : BOOLEAN,
                 source : Id \union {0}, current : Id \union {0}, mine : SUBSET Id]
        /\ sch.saved <= sch.rev
    BY <1>1, <2>1
  <2>6. spent \in [input : Nat, edit : 0 .. MaxEdit, close : Nat, fault : Nat]
    BY <1>1, <2>1
  <2> QED
    BY <1>2, <1>3, <2>3, <2>4, <2>5, <2>6 DEF TypeOK
<1>6. Numbers
  BY <1>1, <1>2, <1>3, <1>4 DEF Numbers, Where
<1>7. Line
  BY <1>3 DEF Line
<1>8. Commands /\ Removal
  BY <1>2, <1>3 DEF Commands, Removal, Replacing
<1>9. Quiet
  <2>1. Calm
    BY <1>1, <1>3 DEF Calm, Unflushed
  <2> QED
    BY <1>2, <2>1 DEF Quiet, Step
<1>10. Checkpoint
  BY <1>3 DEF Checkpoint
<1>11. Kept
  BY <1>1, <1>2, <1>3 DEF Kept, Step
<1>12. Mine
  BY <1>1, <1>2, <1>3 DEF Mine, SavedIsCleared
<1>13. Past
  BY <1>3, <1>4 DEF Past
<1>14. ListedIsReadable
  BY <1>4 DEF ListedIsReadable, Where
<1> QED
  BY <1>5, <1>6, <1>7, <1>8, <1>9, <1>10, <1>11, <1>12, <1>13, <1>14 DEF IInv

-----------------------------------------------------------------------------
LEMMA StepInvariant == IInv /\ [Next]_vars => IInv'
<1> SUFFICES ASSUME IInv, [Next]_vars PROVE IInv'
  OBVIOUS
<1>1. CASE FlushStep
  BY <1>1, FlushStartsKeeps, NothingToKeepKeeps, TakesNumberKeeps, WritesPayloadKeeps,
     WritesMetadataKeeps, UndoesPayloadKeeps, RemovesOldPayloadKeeps, FlushAnswersKeeps
     DEF FlushStep
<1>2. CASE ClearStep
  BY <1>2, ClearStartsKeeps, ClearsMetadataKeeps, ClearsPayloadKeeps DEF ClearStep
<1>3. CASE DebounceFires \/ CheckpointFires
  BY <1>3, TimersKeep
<1>4. CASE CoreStep
  BY <1>4, CoreStepsKeep
<1>5. CASE AnswerStep
  BY <1>5, EditAnsweredKeeps, ReplaceAnsweredKeeps, RestoreAnsweredKeeps, SaveAnsweredKeeps,
     SaveReturnsKeeps DEF AnswerStep
<1>6. CASE DiscardStep
  BY <1>6, DiscardsMetadataKeeps, DiscardsPayloadKeeps DEF DiscardStep
<1>7. CASE Input
  BY <1>7, EditOrSaveKeeps, NewOrOpenKeeps, RestoreKeeps, DiscardKeeps DEF Input
<1>8. CASE CloseTab
  BY <1>8, CloseTabKeeps
<1>9. CASE UNCHANGED vars
  <2>1. UNCHANGED <<disk, core, sch, ops, cmd, spent>>
    BY <1>9 DEF vars
  <2>2. /\ HeadStays /\ SameWork /\ disk' = [disk EXCEPT !.files = disk'.files]
    BY <2>1, Types DEF HeadStays, Op, SameWork, DiskType, IInv
  <2>3. /\ Numbers' /\ Checkpoint' /\ Removal' /\ ListedIsReadable' /\ Kept' /\ Mine' /\ Past'
    BY <2>1, <2>2, ShelfStays
  <2>4. TypeOK' /\ Line' /\ Commands' /\ Quiet'
    BY <2>1 DEF IInv, TypeOK, Line, Queued, Awaited, Unflushed, Commands, Replacing, Quiet,
                Calm, Step
  <2> QED
    BY <2>3, <2>4 DEF IInv
<1> QED
  BY <1>1, <1>2, <1>3, <1>4, <1>5, <1>6, <1>7, <1>8, <1>9 DEF Next

LEMMA Invariance == Spec => []IInv
BY InitInvariant, StepInvariant, PTL DEF Spec

-----------------------------------------------------------------------------
(* What the shelf of CandidateShelf shows of a step.                       *)
Refused == IF cmd # Absent /\ cmd.kind = "discard" THEN {cmd.id} ELSE {}

Contents == [c \in Id |-> Held(c)]

ShelfStep == Shelf!Next \/ UNCHANGED Shelf!vars

LEMMA NothingSeen ==
  ASSUME SameShelf, Refused' = Refused
  PROVE  ShelfStep
<1>1. Contents' = Contents
  BY DEF SameShelf, Contents, Held
<1> QED
  BY <1>1 DEF SameShelf, Contents, Refused, ShelfStep, Shelf!vars

LEMMA RefusalEnds ==
  ASSUME SameShelf, Refused' = {}
  PROVE  ShelfStep
<1>1. Contents' = Contents
  BY DEF SameShelf, Contents, Held
<1> QED
  BY <1>1 DEF SameShelf, Contents, Refused, ShelfStep, Shelf!Next, Shelf!Settle

LEMMA OnlyOneChanges ==
  ASSUME NEW c \in Id, \A b \in Id : b # c => Payload(disk', b) = Payload(disk, b)
  PROVE  /\ Contents' = [Contents EXCEPT ![c] = Contents'[c]]
         /\ Contents[c] = Payload(disk, c) /\ Contents'[c] = Payload(disk', c)
         /\ DOMAIN Contents = Id
BY DEF Contents, Held

(* The candidate c is replaced by a later state of its work.               *)
LEMMA LaterStateIsRenewal ==
  ASSUME NEW c \in Id, \A b \in Id : b # c => Payload(disk', b) = Payload(disk, b),
         disk'.next = disk.next, disk'.files = disk.files, Refused' = Refused,
         Payload(disk, c) # Absent, Payload(disk', c) # Absent,
         Payload(disk, c) \subseteq Payload(disk', c)
  PROVE  ShelfStep
<1>1. Shelf!Renew(c)
  BY OnlyOneChanges DEF Shelf!Renew, Contents, Refused
<1> QED
  BY <1>1, OnlyOneChanges DEF ShelfStep, Shelf!Next, Contents

(* It leaves: the user refused it or has its work in a file.               *)
LEMMA GoneIsLeaving ==
  ASSUME NEW c \in Id, Leaves(c), disk'.meta[c] = Absent, Payload(disk, c) # Absent,
         c \in Refused \/ \E f \in disk.files : Payload(disk, c) \subseteq f,
         Refused' \in {Refused, {}}
  PROVE  ShelfStep
<1>1. Payload(disk', c) = Absent
  BY BoundsAssumption DEF Payload
<1>2. Contents' = [Contents EXCEPT ![c] = Absent] /\ Contents[c] = Payload(disk, c)
  BY <1>1, OnlyOneChanges DEF Leaves
<1>3. Shelf!Leave(c)
  BY <1>2 DEF Shelf!Leave, Shelf!Saved, Contents, Refused, Leaves
<1> QED
  BY <1>3, OnlyOneChanges DEF ShelfStep, Shelf!Next, Contents, Leaves

LEMMA SettlingRefusesNothing ==
  ASSUME IInv, ops # <<>>, NEW ok, Settles(ok)
  PROVE  Refused' = Refused
<1>1. \/ cmd' = cmd
      \/ cmd' = Absent /\ cmd # Absent /\ cmd.at \in {"flush", "clear"}
      \/ /\ cmd # Absent /\ cmd' # Absent /\ cmd.at \in {"flush", "clear"}
         /\ cmd' = [cmd EXCEPT !.at = "saved"] \/ cmd' = [cmd EXCEPT !.at = "core"]
  BY CommandAfter DEF IInv, Step
<1>2. cmd # Absent => cmd \in CmdType
  BY DEF IInv, TypeOK
<1>3. cmd # Absent /\ cmd.at \in {"flush", "clear"} => cmd.kind # "discard"
  BY DEF IInv, Commands
<1> QED
  BY <1>1, <1>2, <1>3 DEF Refused, CmdType

(* Every step of a checkpoint is one of the shelf, or is not seen there.   *)
LEMMA FlushStepsOnShelf == ASSUME IInv, FlushStep PROVE ShelfStep
<1> USE DEF IInv
<1>1. CASE FlushStarts \/ NothingToKeep \/ FlushAnswers
  <2>1. ops # <<>> /\ UNCHANGED disk
    BY <1>1 DEF FlushStarts, NothingToKeep, FlushAnswers, Running
  <2>2. cmd' = cmd \/ Settles(TRUE)
    BY <1>1 DEF FlushStarts, NothingToKeep, FlushAnswers, Goes
  <2>3. Refused' = Refused
    BY <2>1, <2>2, SettlingRefusesNothing DEF Refused
  <2> QED
    BY <2>1, <2>3, Types, NothingSeen DEF SameShelf
<1>2. CASE TakesNumber
  <2>1. ops # <<>>
    BY <1>2 DEF TakesNumber, Running
  <2>2. /\ cmd' = cmd \/ Settles(FALSE)
        /\ UNCHANGED disk \/ (disk' = [disk EXCEPT !.next = @ + 1] /\ cmd' = cmd)
    BY <1>2 DEF TakesNumber, Goes
  <2>3. Refused' = Refused
    BY <2>1, <2>2, SettlingRefusesNothing DEF Refused
  <2>4. CASE UNCHANGED disk
    BY <2>3, <2>4, Types, NothingSeen DEF SameShelf
  <2>5. CASE disk' = [disk EXCEPT !.next = @ + 1]
    <3>1. /\ disk'.next = disk.next + 1 /\ disk'.meta = disk.meta /\ disk'.opfs = disk.opfs
          /\ disk'.idb = disk.idb /\ disk'.files = disk.files
      BY <2>5, Types DEF DiskType
    <3>2. Contents' = Contents
      BY <3>1 DEF Contents, Held, Payload
    <3>3. disk'.next - 1 = (disk.next - 1) + 1
      BY <3>1, Types
    <3>4. Shelf!Number
      BY <2>3, <3>1, <3>2, <3>3 DEF Shelf!Number, Contents, Refused
    <3> QED
      BY <3>4 DEF ShelfStep, Shelf!Next
  <2> QED
    BY <2>2, <2>4, <2>5
<1>3. CASE WritesPayload
  <2>1. ops # <<>> /\ Op.kind = "flush" /\ Op.at = "payload" /\ Op \in OpType /\ Numbered
    BY <1>3, HeadOfLine DEF WritesPayload, Running, Op, Numbered, Flushing
  <2>2. cmd' = cmd /\ (UNCHANGED disk \/ disk' = [disk EXCEPT !.opfs[Op.id] = Op.work])
    BY <1>3 DEF WritesPayload, Goes
  <2>3. Op.id \in Id /\ Op.work # Absent
    BY <2>1 DEF Checkpoint, OpType
  <2>4. CASE UNCHANGED disk
    BY <2>2, <2>4, Types, NothingSeen DEF SameShelf, Refused
  <2>5. CASE disk' = [disk EXCEPT !.opfs[Op.id] = Op.work]
    <3>1. /\ disk' \in DiskType /\ disk'.next = disk.next /\ disk'.meta = disk.meta
          /\ disk'.idb = disk.idb /\ disk'.files = disk.files
          /\ disk'.opfs = [disk.opfs EXCEPT ![Op.id] = Op.work]
      BY <2>1, <2>3, <2>5, Types DEF DiskType, OpType
    <3>2. /\ \A b \in Id : b # Op.id => Payload(disk', b) = Payload(disk, b)
          /\ disk'.opfs[Op.id] = Op.work
      BY <2>3, <3>1, Types DEF Payload
    <3>3. CASE disk.meta[Op.id] = "opfs"
      <4>1. /\ Payload(disk', Op.id) = Op.work /\ Payload(disk, Op.id) # Absent
            /\ Payload(disk, Op.id) \subseteq Op.work
        BY <2>1, <2>3, <3>1, <3>2, <3>3, BoundsAssumption
           DEF Payload, ListedIsReadable, Where, Held, Past
      <4> QED
        BY <2>2, <2>3, <3>1, <3>2, <4>1, LaterStateIsRenewal DEF Refused
    <3>4. CASE disk.meta[Op.id] # "opfs"
      <4>1. Payload(disk', Op.id) = Payload(disk, Op.id)
        BY <3>1, <3>4 DEF Payload
      <4>2. SameShelf
        BY <3>1, <3>2, <4>1 DEF SameShelf
      <4> QED
        BY <2>2, <4>2, NothingSeen DEF Refused
    <3> QED
      BY <3>3, <3>4
  <2> QED
    BY <2>2, <2>4, <2>5
<1>4. CASE WritesMetadata
  <2>1. ops # <<>> /\ Op.kind = "flush" /\ Op.at = "metadata" /\ Op \in OpType /\ Numbered
    BY <1>4, HeadOfLine DEF WritesMetadata, Running, Op, Numbered, Flushing
  <2>2. \/ UNCHANGED disk /\ (cmd' = cmd \/ Settles(FALSE))
        \/ disk' = WithCandidate /\ cmd' = cmd
    BY <1>4 DEF WritesMetadata, Goes
  <2>3. Refused' = Refused
    BY <2>1, <2>2, SettlingRefusesNothing DEF Refused
  <2>4. /\ Op.id \in Id /\ Op.work # Absent /\ Op.work \in Work
        /\ Op.previous = disk.meta[Op.id]
        /\ Op.previous = Absent => Op.id = disk.next - 1
        /\ Op.where \in {"opfs", "indexeddb"}
        /\ Op.where = "opfs" => disk.opfs[Op.id] = Op.work
    BY <2>1 DEF OpType, Checkpoint, Flushing, Where
  <2>5. CASE UNCHANGED disk
    BY <2>3, <2>5, Types, NothingSeen DEF SameShelf
  <2>6. CASE disk' = WithCandidate
    <3>1. /\ disk'.next = disk.next /\ disk'.files = disk.files /\ disk'.opfs = disk.opfs
          /\ disk'.meta = [disk.meta EXCEPT ![Op.id] = Op.where]
          /\ disk'.idb = [disk.idb EXCEPT ![Op.id] = IF Op.where = "indexeddb" THEN Op.work ELSE @]
      BY <2>6, Types DEF WithCandidate, DiskType
    <3>2. /\ disk'.meta[Op.id] = Op.where
          /\ Op.where = "indexeddb" => disk'.idb[Op.id] = Op.work
          /\ \A b \in Id : b # Op.id => disk'.meta[b] = disk.meta[b] /\ disk'.idb[b] = disk.idb[b]
      BY <2>4, <3>1, Types
    <3>3. /\ \A b \in Id : b # Op.id => Payload(disk', b) = Payload(disk, b)
          /\ Payload(disk', Op.id) = Op.work
      BY <2>4, <3>1, <3>2 DEF Payload
    <3>4. CASE Op.previous = Absent
      <4>1. Payload(disk, Op.id) = Absent /\ Op.id = disk.next - 1
        BY <2>4, <3>4, BoundsAssumption DEF Payload
      <4>2. Shelf!Keep
        BY <2>3, <2>4, <3>1, <3>3, <4>1, OnlyOneChanges DEF Shelf!Keep, Contents, Refused
      <4> QED
        BY <4>2 DEF ShelfStep, Shelf!Next
    <3>5. CASE Op.previous # Absent
      <4>1. Payload(disk, Op.id) # Absent /\ Payload(disk, Op.id) \subseteq Op.work
        BY <2>1, <2>4, <3>5 DEF ListedIsReadable, Where, Held, Past
      <4> QED
        BY <2>3, <2>4, <3>1, <3>3, <4>1, LaterStateIsRenewal
    <3> QED
      BY <3>4, <3>5
  <2> QED
    BY <2>2, <2>5, <2>6
<1>5. CASE UndoesPayload
  <2>1. /\ ops # <<>> /\ Op.kind = "flush" /\ Op.at = "undo" /\ Op \in OpType /\ Settles(FALSE)
        /\ disk' = disk \/ disk' = DropPayload(disk, Op.id, Op.where)
    BY <1>5, HeadOfLine DEF UndoesPayload, Running, Op
  <2>2. /\ Op.id \in Id /\ Op.where \in {"opfs", "indexeddb"} /\ disk.meta[Op.id] # Op.where
    BY <2>1 DEF OpType, Checkpoint, Flushing, Where, Numbered
  <2> QED
    BY <2>1, <2>2, UnnamedGoes, SettlingRefusesNothing, NothingSeen
<1>6. CASE RemovesOldPayload
  <2>1. /\ ops # <<>> /\ Op.kind = "flush" /\ Op.at = "cleanup" /\ Op \in OpType /\ cmd' = cmd
        /\ disk' = disk \/ disk' = DropPayload(disk, Op.id, Op.previous)
    BY <1>6, HeadOfLine DEF RemovesOldPayload, Running, Op, Goes
  <2>2. /\ Op.id \in Id /\ Op.previous \in {"opfs", "indexeddb"} /\ disk.meta[Op.id] # Op.previous
    BY <2>1 DEF OpType, Checkpoint, Flushing, Where, Numbered
  <2> QED
    BY <2>1, <2>2, UnnamedGoes, NothingSeen DEF Refused
<1> QED
  BY <1>1, <1>2, <1>3, <1>4, <1>5, <1>6 DEF FlushStep

(* A save takes away what is in the file it wrote.                         *)
LEMMA ClearStepsOnShelf == ASSUME IInv, ClearStep PROVE ShelfStep
<1> USE DEF IInv
<1>1. CASE ClearStarts
  <2>1. ops # <<>> /\ UNCHANGED disk /\ (cmd' = cmd \/ Settles(TRUE))
    BY <1>1 DEF ClearStarts, Running, Goes
  <2>2. Refused' = Refused
    BY <2>1, SettlingRefusesNothing DEF Refused
  <2> QED
    BY <2>1, <2>2, Types, NothingSeen DEF SameShelf
<1>2. ASSUME ops # <<>>, NEW failed, ClearGoesOn(failed) PROVE Refused' = Refused
  <2>1. cmd' = cmd \/ Settles(~ (failed \/ Op.failed))
    BY <1>2 DEF ClearGoesOn, Goes
  <2> QED
    BY <1>2, <2>1, SettlingRefusesNothing DEF Refused
<1>3. CASE ClearsMetadata
  <2> DEFINE c == Head(Op.todo)
  <2>1. ops # <<>> /\ Op.kind = "clear" /\ Op.at = "metadata" /\ Op \in OpType
    BY <1>3, HeadOfLine DEF ClearsMetadata, Running, Op
  <2>2. \/ UNCHANGED disk /\ ClearGoesOn(TRUE)
        \/ /\ disk' = DropMetadata(c) /\ Where(c) # Absent
           /\ cmd' = cmd \/ ClearGoesOn(FALSE)
    BY <1>3 DEF ClearsMetadata, Goes
  <2>3. Refused' = Refused
    BY <1>2, <2>1, <2>2 DEF Refused
  <2>4. CASE UNCHANGED disk
    BY <2>3, <2>4, Types, NothingSeen DEF SameShelf
  <2>5. CASE disk' = DropMetadata(c) /\ Where(c) # Absent
    <3>1. Op.todo \in Seq(Id) /\ Op.todo # <<>>
      BY <2>1 DEF OpType, Removal, Clearing
    <3>2. c \in Id /\ 1 \in 1 .. Len(Op.todo) /\ c = Op.todo[1]
      BY <3>1
    <3>3. Payload(disk, c) # Absent
      BY <2>5, <3>2 DEF ListedIsReadable, Held, Where
    <3>4. core.work \in disk.files
      BY <2>1, ClearFacts
    <3>5. Payload(disk, c) \subseteq core.work
      BY <2>1, <2>5, <3>2 DEF Past, Clearing, Held
    <3>6. Leaves(c) /\ disk'.meta[c] = Absent
      BY <2>5, <3>2, DropLeaves
    <3> HIDE DEF c
    <3> QED
      BY <2>3, <3>2, <3>3, <3>4, <3>5, <3>6, GoneIsLeaving
  <2> QED
    BY <2>2, <2>4, <2>5
<1>4. CASE ClearsPayload
  <2> DEFINE c == Head(Op.todo)
  <2>1. ops # <<>> /\ Op.kind = "clear" /\ Op.at = "payload" /\ Op \in OpType
    BY <1>4, HeadOfLine DEF ClearsPayload, Running, Op
  <2>2. PICK fails \in BOOLEAN :
          /\ ClearGoesOn(fails)
          /\ disk' = IF fails THEN disk ELSE DropPayload(disk, c, "opfs")
    BY <1>4 DEF ClearsPayload
  <2>3. Refused' = Refused
    BY <1>2, <2>1, <2>2
  <2>4. c \in Id /\ disk.meta[c] = Absent
    <3>1. Op.todo \in Seq(Id) /\ Op.todo # <<>> /\ disk.meta[Head(Op.todo)] = Absent
      BY <2>1 DEF OpType, Removal, Clearing, Where
    <3> QED
      BY <3>1
  <2> HIDE DEF c
  <2> QED
    BY <2>2, <2>3, <2>4, UnnamedGoes, BoundsAssumption, NothingSeen
<1> QED
  BY <1>1, <1>3, <1>4 DEF ClearStep

(* The worker writes files; what the user refuses is taken away.           *)
LEMMA CommandStepsOnShelf ==
  ASSUME IInv, CoreStep \/ AnswerStep \/ DiscardStep
  PROVE  ShelfStep
<1> USE DEF IInv
<1>1. cmd # Absent => cmd \in CmdType
  BY DEF TypeOK
<1>2. CASE \/ CoreEdits \/ CoreNew \/ CoreOpens \/ CoreImports \/ CoreRestores \/ CommandFails
           \/ CoreSaves \/ AnswerStep
  <2>1. UNCHANGED disk /\ cmd # Absent
    BY <1>2 DEF CoreEdits, CoreNew, CoreOpens, CoreImports, CoreRestores, CommandFails, CoreSaves,
                AnswerStep, EditAnswered, ReplaceAnswered, RestoreAnswered, SaveAnswered,
                SaveReturns, Answered, In
  <2>2. cmd.kind # "discard"
    BY <1>2 DEF CoreEdits, CoreNew, CoreOpens, CoreImports, CoreRestores, CommandFails, CoreSaves,
                AnswerStep, EditAnswered, ReplaceAnswered, RestoreAnswered, SaveAnswered,
                SaveReturns, Answered, In
  <2>3. \/ cmd' = Absent \/ cmd' = [cmd EXCEPT !.at = "answer"]
        \/ cmd' = [cmd EXCEPT !.at = "clear"]
    BY <1>2 DEF CoreEdits, CoreNew, CoreOpens, CoreImports, CoreRestores, CommandFails, CoreSaves,
                AnswerStep, EditAnswered, ReplaceAnswered, RestoreAnswered, SaveAnswered,
                SaveReturns
  <2>4. Refused' = Refused
    BY <1>1, <2>1, <2>2, <2>3 DEF Refused, CmdType
  <2> QED
    BY <2>1, <2>4, Types, NothingSeen DEF SameShelf
<1>3. CASE WritesFile
  <2>1. /\ cmd # Absent /\ cmd.kind = "save"
        /\ cmd' = Absent \/ cmd' = [cmd EXCEPT !.at = "commit"]
        /\ disk' = disk \/ disk' = [disk EXCEPT !.files = @ \union {core.work}]
    BY <1>3 DEF WritesFile, In
  <2>2. Refused' = Refused
    BY <1>1, <2>1 DEF Refused, CmdType
  <2>3. /\ disk'.next = disk.next /\ disk'.meta = disk.meta /\ disk'.opfs = disk.opfs
        /\ disk'.idb = disk.idb /\ disk.files \subseteq disk'.files
    BY <2>1, Types DEF DiskType
  <2>4. Contents' = Contents
    BY <2>3 DEF Contents, Held, Payload
  <2>5. Shelf!Save
    BY <2>2, <2>3, <2>4 DEF Shelf!Save, Contents, Refused
  <2> QED
    BY <2>5 DEF ShelfStep, Shelf!Next
<1>4. CASE DiscardsMetadata
  <2>1. /\ cmd # Absent /\ cmd.kind = "discard"
        /\ cmd' = Absent \/ cmd' = [cmd EXCEPT !.at = "payload"]
        /\ \/ cmd' = Absent /\ UNCHANGED disk
           \/ disk' = DropMetadata(cmd.id) /\ Where(cmd.id) # Absent
    BY <1>4 DEF DiscardsMetadata, In
  <2>2. Refused = {cmd.id} /\ Refused' \in {Refused, {}}
    BY <1>1, <2>1 DEF Refused, CmdType
  <2>3. CASE cmd' = Absent /\ UNCHANGED disk
    BY <2>3, Types, RefusalEnds DEF SameShelf, Refused
  <2>4. CASE disk' = DropMetadata(cmd.id) /\ Where(cmd.id) # Absent
    <3>1. cmd.id \in Id
      BY <1>1, <2>1 DEF CmdType, Removal
    <3>2. Payload(disk, cmd.id) # Absent
      BY <2>4, <3>1 DEF ListedIsReadable, Held, Where
    <3>3. Leaves(cmd.id) /\ disk'.meta[cmd.id] = Absent
      BY <2>4, <3>1, DropLeaves
    <3> QED
      BY <2>2, <3>1, <3>2, <3>3, GoneIsLeaving
  <2> QED
    BY <2>1, <2>3, <2>4
<1>5. CASE DiscardsPayload
  <2>1. /\ cmd # Absent /\ cmd.kind = "discard" /\ cmd.at = "payload" /\ cmd' = Absent
        /\ disk' = disk \/ disk' = DropPayload(disk, cmd.id, "opfs")
    BY <1>5 DEF DiscardsPayload, In
  <2>2. cmd.id \in Id /\ disk.meta[cmd.id] = Absent
    BY <1>1, <2>1 DEF CmdType, Removal, Where
  <2>3. SameShelf
    BY <2>1, <2>2, UnnamedGoes, BoundsAssumption
  <2> QED
    BY <2>1, <2>3, RefusalEnds DEF Refused
<1> QED
  BY <1>2, <1>3, <1>4, <1>5 DEF CoreStep, DiscardStep

(* The user refuses a candidate; nothing else he clicks is seen.           *)
LEMMA InputOnShelf == ASSUME IInv, Input PROVE ShelfStep
<1> USE DEF IInv
<1>1. cmd = Absent /\ UNCHANGED disk
  BY DEF Input, EditOrSave, NewOrOpen, Restore, Discard, Clicks
<1>2. SameShelf /\ Refused = {}
  BY <1>1, Types DEF SameShelf, Refused
<1>3. CASE EditOrSave \/ NewOrOpen \/ Restore
  <2>1. \E kind \in {"edit", "save", "new", "open", "import", "restore"}, c \in Id \union {0},
           at \in {"core", "flush"} : cmd' = Command(kind, at, c)
    <3>1. CASE EditOrSave
      BY <3>1 DEF EditOrSave
    <3>2. CASE NewOrOpen
      BY <3>2 DEF NewOrOpen, AwaitsFlush
    <3>3. CASE Restore
      BY <3>3 DEF Restore, AwaitsFlush
    <3> QED
      BY <1>3, <3>1, <3>2, <3>3
  <2>2. Refused' = {}
    BY <2>1, CommandType DEF Refused
  <2> QED
    BY <1>2, <2>2, RefusalEnds
<1>4. CASE Discard
  <2>1. PICK c \in Offered : cmd' = Command("discard", "metadata", c)
    BY <1>4 DEF Discard
  <2>2. c \in Id
    BY <2>1 DEF Offered
  <2>3. Refused' = {c}
    BY <2>1, <2>2, CommandType DEF Refused
  <2>4. Contents' = Contents /\ DOMAIN Contents = Id
    BY <1>1 DEF Contents, Held, Payload
  <2>5. Shelf!Refuse(c)
    BY <1>1, <2>3, <2>4 DEF Shelf!Refuse, Contents, Refused
  <2> QED
    BY <2>2, <2>4, <2>5 DEF ShelfStep, Shelf!Next, Contents
<1> QED
  BY <1>3, <1>4 DEF Input

LEMMA StepsOnShelf == IInv /\ [Next]_vars => [Shelf!Next]_Shelf!vars
<1> SUFFICES ASSUME IInv, [Next]_vars PROVE ShelfStep
  BY DEF ShelfStep
<1> USE DEF IInv
<1>1. CASE FlushStep \/ ClearStep
  BY <1>1, FlushStepsOnShelf, ClearStepsOnShelf
<1>2. CASE CoreStep \/ AnswerStep \/ DiscardStep
  BY <1>2, CommandStepsOnShelf
<1>3. CASE Input
  BY <1>3, InputOnShelf
<1>4. CASE DebounceFires \/ CheckpointFires \/ UNCHANGED vars
  <2>1. UNCHANGED <<disk, cmd>>
    BY <1>4 DEF DebounceFires, CheckpointFires, vars
  <2> QED
    BY <2>1, Types, NothingSeen DEF SameShelf, Refused
<1>5. CASE CloseTab
  <2>1. UNCHANGED disk /\ cmd' = Command("new", "core", 0)
    BY <1>5 DEF CloseTab, Fresh
  <2>2. Refused' = {}
    BY <2>1, CommandType DEF Refused
  <2> QED
    BY <2>1, <2>2, Types, RefusalEnds DEF SameShelf
<1> QED
  BY <1>1, <1>2, <1>3, <1>4, <1>5 DEF Next

-----------------------------------------------------------------------------
(* The fields of the scheduler, the queue and the storage keep the types   *)
(* the code gives them, and no more changes count as saved than were made. *)
THEOREM TypeCorrect == Spec => []TypeOK
<1>1. IInv => TypeOK
  BY DEF IInv
<1> QED
  BY <1>1, Invariance, PTL

(* A candidate that is listed can be read, whatever fails or is cut off    *)
(* between the two storages (writePayload, discardCandidateLocked).        *)
THEOREM ListedIsAlwaysReadable == Spec => []ListedIsReadable
<1>1. IInv => ListedIsReadable
  BY DEF IInv
<1> QED
  BY <1>1, Invariance, PTL

(* A work that differs from its file and counts as flushed can be restored *)
(* as it is now (flushNow and its checkpoints, behind every command).      *)
THEOREM UnsavedIsAlwaysKept == Spec => []UnsavedIsKept
<1>1. IInv => UnsavedIsKept
  <2> SUFFICES ASSUME IInv, Unsaved, ~ Unflushed, ~ Step("answer") PROVE FALSE
    BY DEF UnsavedIsKept, Step
  <2>1. \E c \in Associated : Held(c) = core.work
    BY DEF IInv, Kept, Unsaved
  <2>2. Associated \subseteq Id
    BY Types DEF IInv
  <2> QED
    BY <2>1, <2>2 DEF Unsaved
<1> QED
  BY <1>1, Invariance, PTL

(* When a save returns without a failure, nothing written for the work is  *)
(* left among the candidates (markExplicitSaveSucceeded).                  *)
THEOREM SavedIsAlwaysCleared == Spec => []SavedIsCleared
<1>1. IInv => SavedIsCleared
  BY DEF IInv, Mine
<1> QED
  BY <1>1, Invariance, PTL

(* The recovery area does what CandidateShelf promises: a candidate is     *)
(* replaced only by a later state of the same work and goes only when the  *)
(* user refused it or has its work in a file.                              *)
THEOREM ImplementsShelf == Spec => ShelfSpec
<1>1. Init => Shelf!Init
  <2> SUFFICES ASSUME Init PROVE Shelf!Init
    OBVIOUS
  <2>1. /\ disk.next = 1 /\ \A c \in Id : disk.meta[c] = Absent
        /\ cmd = Command("new", "core", 0)
    BY DEF Init
  <2>2. Refused = {}
    BY <2>1, CommandType DEF Refused
  <2>3. \A c \in Id : Held(c) = Absent
    BY <2>1, BoundsAssumption DEF Held, Payload
  <2> QED
    BY <2>1, <2>2, <2>3 DEF Shelf!Init, Refused
<1>2. IInv /\ [Next]_vars => [Shelf!Next]_Shelf!vars
  BY StepsOnShelf
<1> QED
  BY <1>1, <1>2, Invariance, PTL DEF Spec, ShelfSpec, Shelf!Spec
=============================================================================
