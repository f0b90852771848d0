------------------------------ MODULE IpcQueue ------------------------------
(***************************************************************************)
(* The queue through which the front end calls the back end               *)
(* (apps/desktop/src/store/ipcQueue.ts), as operators on its value.  One   *)
(* call runs at a time.  run appends a call; runLatest appends a call that *)
(* the next runLatest may replace for as long as it has not started and    *)
(* nothing was appended behind it.                                         *)
(*                                                                         *)
(* A cell is a place in the line; its slot (seq and task) may be replaced. *)
(* `cell' is the number of the call that opened the place, which stands    *)
(* for the identity of the object.                                         *)
(***************************************************************************)
EXTENDS Naturals, Sequences

CONSTANT Null

Cell(Task) == [cell : Nat, seq : Nat, task : Task, firm : BOOLEAN]

SerialQueue(Task) ==
  [waiting : Seq(Cell(Task)), running : Cell(Task) \union {Null},
   latestSeq : Nat, replaceable : Nat]

EmptyQueue == [waiting |-> <<>>, running |-> Null, latestSeq |-> 0, replaceable |-> 0]

NextSeq(q) == q.latestSeq + 1

NewCell(q, t, firm) == [cell |-> NextSeq(q), seq |-> NextSeq(q), task |-> t, firm |-> firm]

(* Mutant: run leaves an earlier call of runLatest replaceable.            *)
RunKeepsReplaceable(q, t) ==
  [waiting |-> Append(q.waiting, NewCell(q, t, TRUE)), running |-> q.running,
   latestSeq |-> NextSeq(q), replaceable |-> q.replaceable]

(* run: nothing that comes later may go before it, so nothing is replaceable.*)
Run(q, t) ==
  [waiting |-> Append(q.waiting, NewCell(q, t, TRUE)), running |-> q.running,
   latestSeq |-> NextSeq(q), replaceable |-> 0]

Replaces(q) == q.replaceable # 0

(* The place runLatest replaces; `replaceable === cell' in the code.        *)
Replaceable(q) == CHOOSE i \in 1 .. Len(q.waiting) : q.waiting[i].cell = q.replaceable

(* The slot of place i is taken by a newer call; the old one is superseded. *)
Replace(q, i, t) ==
  [waiting |-> [q.waiting EXCEPT ![i] = [cell |-> @.cell, seq |-> NextSeq(q), task |-> t,
                                         firm |-> @.firm]],
   running |-> q.running, latestSeq |-> NextSeq(q), replaceable |-> q.replaceable]

QueueLatest(q, t) ==
  [waiting |-> Append(q.waiting, NewCell(q, t, FALSE)), running |-> q.running,
   latestSeq |-> NextSeq(q), replaceable |-> NextSeq(q)]

(* Mutant: runLatest replaces whatever is last in the line.                *)
RunLatestOverLast(q, t) ==
  IF q.waiting # <<>> THEN Replace(q, Len(q.waiting), t) ELSE QueueLatest(q, t)

RunLatest(q, t) ==
  IF Replaces(q) THEN Replace(q, Replaceable(q), t) ELSE QueueLatest(q, t)

CanStart(q) == q.running = Null /\ q.waiting # <<>>

(* The turn of the first in the line: from here on it cannot be replaced.  *)
Start(q) ==
  [waiting |-> Tail(q.waiting), running |-> Head(q.waiting), latestSeq |-> q.latestSeq,
   replaceable |-> IF q.replaceable = Head(q.waiting).cell THEN 0 ELSE q.replaceable]

(* The answer, or the error, of the call that runs.                        *)
Finish(q) ==
  [waiting |-> q.waiting, running |-> Null, latestSeq |-> q.latestSeq,
   replaceable |-> q.replaceable]

IsLatest(q) == q.running # Null /\ q.running.seq = q.latestSeq

(* Every call that is neither answered nor superseded.                     *)
Open(q) == {q.waiting[i] : i \in 1 .. Len(q.waiting)}
             \union (IF q.running = Null THEN {} ELSE {q.running})

(* The numbers of the waiting calls that must be made, and of the others.  *)
Waiting(q, isFirm) ==
  {q.waiting[i].seq : i \in {j \in 1 .. Len(q.waiting) : q.waiting[j].firm = isFirm}}

Settled(q, n) == \A c \in Open(q) : c.seq # n

-----------------------------------------------------------------------------
(* What the two variables of ipcQueue.ts:56-57 mean: a place that may be   *)
(* replaced is the last one and not one of run's, the line is in the order *)
(* in which the calls were made, and none is newer than latestSeq.         *)
QueueSound(q) ==
  /\ q.replaceable # 0 =>
       /\ q.waiting # <<>>
       /\ q.waiting[Len(q.waiting)].cell = q.replaceable
       /\ ~ q.waiting[Len(q.waiting)].firm
  /\ \A i \in 1 .. Len(q.waiting) :
       /\ q.waiting[i].cell <= q.waiting[i].seq
       /\ q.waiting[i].seq <= q.latestSeq
       /\ q.waiting[i].cell >= 1
       /\ \A j \in 1 .. i - 1 : q.waiting[j].seq < q.waiting[i].cell
  /\ q.running # Null =>
       /\ q.running.seq <= q.latestSeq
       /\ \A i \in 1 .. Len(q.waiting) : q.running.seq < q.waiting[i].cell
=============================================================================
