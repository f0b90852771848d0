----------------------------- MODULE DeskProofs -----------------------------
(***************************************************************************)
(* Whatever the screens do, for any inputs and however many, their calls   *)
(* reach the back end as CallLine says.  First the operations of the queue *)
(* of IpcQueue, for any tasks; then the desk: that its calls implement     *)
(* CallLine needs no property of it, as every action takes one turn with   *)
(* the queue.  Last what its screens show: the types, the document of the  *)
(* store, the document a fold or a move runs on, and the picture that      *)
(* remains when everything is settled.                                     *)
(***************************************************************************)
EXTENDS Desk, TLAPS, NaturalsInduction, SequenceTheorems, WellFoundedInduction

(* The types do not depend on which tasks there are.                       *)
IsQueue(q) == \E T : q \in SerialQueue(T)

Good(q) == IsQueue(q) /\ QueueSound(q)

(* The queue starts empty and sound (ipcQueue.ts:54-58).                   *)
LEMMA EmptyIsGood == Good(EmptyQueue)
<1>1. EmptyQueue \in SerialQueue({})
  BY DEF EmptyQueue, SerialQueue
<1>2. QueueSound(EmptyQueue)
  BY DEF EmptyQueue, QueueSound
<1> QED BY <1>1, <1>2 DEF Good, IsQueue

(* Cells in front have smaller numbers than cells behind.                  *)
LEMMA CellsIncrease ==
  ASSUME NEW q, Good(q), NEW i \in 1 .. Len(q.waiting), NEW j \in 1 .. Len(q.waiting), j < i
  PROVE  q.waiting[j].cell < q.waiting[i].cell /\ q.waiting[j].seq < q.waiting[i].seq
<1>1. PICK T : q \in SerialQueue(T)
  BY DEF Good, IsQueue
<1>2. q.waiting \in Seq(Cell(T))
  BY <1>1 DEF SerialQueue
<1>3. q.waiting[i] \in Cell(T) /\ q.waiting[j] \in Cell(T)
  BY <1>2
<1>4. j \in 1 .. i - 1
  OBVIOUS
<1>5. /\ q.waiting[j].seq < q.waiting[i].cell
      /\ q.waiting[j].cell <= q.waiting[j].seq
      /\ q.waiting[i].cell <= q.waiting[i].seq
  BY <1>4 DEF Good, QueueSound
<1> QED BY <1>3, <1>5 DEF Cell

(* The place that may be replaced is the last (ipcQueue.ts:87).            *)
LEMMA ReplaceableIsLast ==
  ASSUME NEW q, Good(q), Replaces(q)
  PROVE  /\ Len(q.waiting) \in Nat \ {0}
         /\ Replaceable(q) = Len(q.waiting)
         /\ ~ q.waiting[Len(q.waiting)].firm
<1>1. PICK T : q \in SerialQueue(T)
  BY DEF Good, IsQueue
<1>2. q.waiting \in Seq(Cell(T))
  BY <1>1 DEF SerialQueue
<1> DEFINE n == Len(q.waiting)
<1>3. q.waiting # <<>> /\ q.waiting[n].cell = q.replaceable /\ ~ q.waiting[n].firm
  BY DEF Good, QueueSound, Replaces
<1>4. n \in Nat \ {0}
  BY <1>2, <1>3
<1>5. \A i \in 1 .. n : q.waiting[i].cell = q.replaceable => i = n
  <2> SUFFICES ASSUME NEW i \in 1 .. n, q.waiting[i].cell = q.replaceable, i # n PROVE FALSE
    OBVIOUS
  <2>1. i < n /\ n \in 1 .. n
    BY <1>4
  <2>2. q.waiting[i].cell < q.waiting[n].cell
    BY <2>1, CellsIncrease
  <2>3. q.waiting[i] \in Cell(T)
    BY <1>2, i \in 1 .. Len(q.waiting)
  <2>4. q.waiting[i].cell \in Nat
    BY <2>3 DEF Cell
  <2> QED BY <1>3, <2>2, <2>4
<1>6. Replaceable(q) = n
  BY <1>3, <1>4, <1>5 DEF Replaceable
<1> QED BY <1>3, <1>4, <1>6

LEMMA SeqWiden ==
  ASSUME NEW A, NEW B, A \subseteq B, NEW s \in Seq(A) PROVE s \in Seq(B)
<1>1. Len(s) \in Nat /\ s \in [1 .. Len(s) -> A]
  OBVIOUS
<1>2. s \in [1 .. Len(s) -> B]
  BY <1>1
<1> QED BY <1>1, <1>2

(* Any line of calls stays one when a task is added to the tasks there are. *)
LEMMA Widen ==
  ASSUME NEW T, NEW q \in SerialQueue(T), NEW t
  PROVE  q \in SerialQueue(T \union {t})
<1>1. Cell(T) \subseteq Cell(T \union {t})
  BY DEF Cell
<1>2. q.waiting \in Seq(Cell(T \union {t}))
  BY <1>1, SeqWiden DEF SerialQueue
<1>3. q.running \in Cell(T \union {t}) \union {Null}
  BY <1>1 DEF SerialQueue
<1> QED BY <1>2, <1>3 DEF SerialQueue

(* A call is put at the end of the line: by run, or by runLatest when no    *)
(* call can be replaced (ipcQueue.ts:72-80, 94-101).                        *)
Join(q, t, firm, rep) ==
  [waiting |-> Append(q.waiting, NewCell(q, t, firm)), running |-> q.running,
   latestSeq |-> NextSeq(q), replaceable |-> rep]

LEMMA Joined ==
  ASSUME NEW q, Good(q), NEW t, NEW firm \in BOOLEAN, NEW rep \in Nat,
         rep = 0 \/ (~ firm /\ rep = q.latestSeq + 1)
  PROVE  /\ Good(Join(q, t, firm, rep))
         /\ Join(q, t, firm, rep).latestSeq = q.latestSeq + 1
         /\ Waiting(Join(q, t, firm, rep), firm) = Waiting(q, firm) \union {q.latestSeq + 1}
         /\ \A f \in BOOLEAN \ {firm} : Waiting(Join(q, t, firm, rep), f) = Waiting(q, f)
<1>1. PICK T : q \in SerialQueue(T)
  BY DEF Good, IsQueue
<1> DEFINE U == T \union {t}
           s == q.latestSeq + 1
           c == [cell |-> s, seq |-> s, task |-> t, firm |-> firm]
           w == Append(q.waiting, c)
           r == Join(q, t, firm, rep)
<1>2. q \in SerialQueue(U)
  BY <1>1, Widen
<1>3. c \in Cell(U) /\ s \in Nat /\ q.waiting \in Seq(Cell(U))
  BY <1>2 DEF SerialQueue, Cell
<1>4. r = [waiting |-> w, running |-> q.running, latestSeq |-> s, replaceable |-> rep]
  BY DEF Join, NextSeq, NewCell
<1>5. w \in Seq(Cell(U)) /\ Len(w) = Len(q.waiting) + 1 /\ Len(q.waiting) \in Nat
  BY <1>3
<1>6. \A i \in 1 .. Len(q.waiting) : w[i] = q.waiting[i]
  BY <1>3
<1>7. w[Len(w)] = c
  BY <1>3
<1>8. r \in SerialQueue(U)
  BY <1>2, <1>3, <1>4, <1>5 DEF SerialQueue
<1>9. QueueSound(r)
  <2>1. ASSUME NEW i \in 1 .. Len(w)
        PROVE  /\ w[i].cell <= w[i].seq
               /\ w[i].seq <= s
               /\ w[i].cell >= 1
               /\ \A j \in 1 .. i - 1 : w[j].seq < w[i].cell
    <3>1. CASE i = Len(w)
      <4>1. w[i].cell = s /\ w[i].seq = s
        BY <3>1, <1>7
      <4>2. ASSUME NEW j \in 1 .. i - 1 PROVE w[j].seq < s
        <5>1. j \in 1 .. Len(q.waiting) /\ w[j] = q.waiting[j]
          BY <3>1, <1>5, <1>6
        <5>2. q.waiting[j].seq <= q.latestSeq
          BY <5>1 DEF Good, QueueSound
        <5>3. q.waiting[j] \in Cell(U) /\ q.latestSeq \in Nat
          BY <5>1, <1>2, <1>3 DEF SerialQueue
        <5> QED BY <5>1, <5>2, <5>3 DEF Cell
      <4>3. s >= 1
        BY <1>2 DEF SerialQueue
      <4>4. s \in Nat
        BY <1>3
      <4> HIDE DEF s, w
      <4> QED BY <4>1, <4>2, <4>3, <4>4
    <3>2. CASE i # Len(w)
      <4>1. i \in 1 .. Len(q.waiting) /\ w[i] = q.waiting[i]
        BY <3>2, <1>5, <1>6
      <4>2. /\ q.waiting[i].cell <= q.waiting[i].seq
            /\ q.waiting[i].seq <= q.latestSeq
            /\ q.waiting[i].cell >= 1
            /\ \A j \in 1 .. i - 1 : q.waiting[j].seq < q.waiting[i].cell
        BY <4>1 DEF Good, QueueSound
      <4>3. q.waiting[i] \in Cell(U) /\ q.latestSeq \in Nat
        BY <4>1, <1>2, <1>3 DEF SerialQueue
      <4>4. \A j \in 1 .. i - 1 : w[j] = q.waiting[j]
        BY <4>1, <1>5, <1>6
      <4> QED BY <4>1, <4>2, <4>3, <4>4 DEF Cell
    <3> QED BY <3>1, <3>2
  <2>2. q.running # Null =>
          /\ q.running.seq <= s
          /\ \A i \in 1 .. Len(w) : q.running.seq < w[i].cell
    <3> SUFFICES ASSUME q.running # Null
                 PROVE  q.running.seq <= s /\ \A i \in 1 .. Len(w) : q.running.seq < w[i].cell
      OBVIOUS
    <3>1. q.running \in Cell(U) /\ q.latestSeq \in Nat
      BY <1>2 DEF SerialQueue
    <3>2. q.running.seq <= q.latestSeq
      BY DEF Good, QueueSound
    <3>3. q.running.seq < s
      BY <3>1, <3>2 DEF Cell
    <3>4. ASSUME NEW i \in 1 .. Len(w) PROVE q.running.seq < w[i].cell
      <4>1. CASE i = Len(w)
        BY <4>1, <1>7, <3>3
      <4>2. CASE i # Len(w)
        <5>1. i \in 1 .. Len(q.waiting) /\ w[i] = q.waiting[i]
          BY <4>2, <1>5, <1>6
        <5> QED BY <5>1 DEF Good, QueueSound
      <4> QED BY <4>1, <4>2
    <3>5. q.running.seq \in Nat
      BY <3>1 DEF Cell
    <3> QED BY <3>3, <3>4, <3>5, <1>3
  <2>3. /\ r.replaceable = rep /\ r.waiting = w /\ r.latestSeq = s /\ r.running = q.running
    BY <1>4
  <2>4. rep # 0 => w # <<>> /\ w[Len(w)].cell = rep /\ ~ w[Len(w)].firm
    BY <1>5, <1>7
  <2> QED BY <2>1, <2>2, <2>3, <2>4 DEF QueueSound
<1>10. Waiting(r, firm) = Waiting(q, firm) \union {s}
  <2>1. r.waiting = w
    BY <1>4
  <2> QED BY <2>1, <1>5, <1>6, <1>7 DEF Waiting
<1>11. ASSUME NEW f \in BOOLEAN \ {firm} PROVE Waiting(r, f) = Waiting(q, f)
  <2>1. r.waiting = w
    BY <1>4
  <2> QED BY <2>1, <1>5, <1>6, <1>7 DEF Waiting
<1>12. r.latestSeq = s
  BY <1>4
<1> QED BY <1>8, <1>9, <1>10, <1>11, <1>12 DEF Good, IsQueue

(* run (ipcQueue.ts:72-80) asks for a call that must be made.              *)
LEMMA RunIsGood ==
  ASSUME NEW q, Good(q), NEW t
  PROVE  /\ Good(Run(q, t))
         /\ Run(q, t).latestSeq = q.latestSeq + 1
         /\ Waiting(Run(q, t), TRUE) = Waiting(q, TRUE) \union {q.latestSeq + 1}
         /\ Waiting(Run(q, t), FALSE) = Waiting(q, FALSE)
<1>1. PICK z \in Nat : z = 0
  OBVIOUS
<1>2. \A f \in BOOLEAN :
        /\ Good(Join(q, t, f, z)) /\ Join(q, t, f, z).latestSeq = q.latestSeq + 1
        /\ Waiting(Join(q, t, f, z), f) = Waiting(q, f) \union {q.latestSeq + 1}
        /\ \A g \in BOOLEAN \ {f} : Waiting(Join(q, t, f, z), g) = Waiting(q, g)
  BY <1>1, Joined
<1>3. Run(q, t) = Join(q, t, TRUE, z)
  BY <1>1, Zenon DEF Run, Join
<1>4. FALSE \in BOOLEAN \ {TRUE} /\ TRUE \in BOOLEAN
  OBVIOUS
<1> QED BY <1>2, <1>3, <1>4, Zenon

(* runLatest without a call it may replace (ipcQueue.ts:94-101).           *)
LEMMA QueueLatestIsGood ==
  ASSUME NEW q, Good(q), NEW t
  PROVE  /\ Good(QueueLatest(q, t))
         /\ QueueLatest(q, t).latestSeq = q.latestSeq + 1
         /\ Waiting(QueueLatest(q, t), FALSE) = Waiting(q, FALSE) \union {q.latestSeq + 1}
         /\ Waiting(QueueLatest(q, t), TRUE) = Waiting(q, TRUE)
<1> DEFINE n == q.latestSeq + 1
<1>1. n \in Nat
  BY DEF Good, IsQueue, SerialQueue
<1>2. \A f \in BOOLEAN : f = FALSE =>
        /\ Good(Join(q, t, f, n)) /\ Join(q, t, f, n).latestSeq = n
        /\ Waiting(Join(q, t, f, n), f) = Waiting(q, f) \union {n}
        /\ \A g \in BOOLEAN \ {f} : Waiting(Join(q, t, f, n), g) = Waiting(q, g)
  BY <1>1, Joined
<1>3. QueueLatest(q, t) = Join(q, t, FALSE, n)
  BY Zenon DEF QueueLatest, NextSeq, Join
<1>4. TRUE \in BOOLEAN \ {FALSE} /\ FALSE \in BOOLEAN
  OBVIOUS
<1> QED BY <1>2, <1>3, <1>4, Zenon

(* Finish lets the next call have its turn (ipcQueue.ts:62-69).            *)
LEMMA FinishIsGood ==
  ASSUME NEW q, Good(q)
  PROVE  /\ Good(Finish(q))
         /\ Finish(q).latestSeq = q.latestSeq
         /\ \A f \in BOOLEAN : Waiting(Finish(q), f) = Waiting(q, f)
<1>1. PICK T : q \in SerialQueue(T)
  BY DEF Good, IsQueue
<1>2. Finish(q) \in SerialQueue(T)
  BY <1>1 DEF Finish, SerialQueue
<1>3. QueueSound(Finish(q))
  BY DEF Finish, QueueSound, Good
<1> QED BY <1>2, <1>3 DEF Good, IsQueue, Finish, Waiting

(* A call of the line has the types of a call and respects its order.      *)
LEMMA InLine ==
  ASSUME NEW q, Good(q), NEW i \in 1 .. Len(q.waiting)
  PROVE  /\ q.waiting[i].cell \in Nat /\ q.waiting[i].seq \in Nat
         /\ q.waiting[i].firm \in BOOLEAN
         /\ 1 <= q.waiting[i].cell /\ q.waiting[i].cell <= q.waiting[i].seq
         /\ q.waiting[i].seq <= q.latestSeq /\ q.latestSeq \in Nat
         /\ q.running # Null => q.running.seq < q.waiting[i].cell
         /\ \A j \in 1 .. i - 1 : q.waiting[j].seq < q.waiting[i].cell
<1>1. PICK T : q \in SerialQueue(T)
  BY DEF Good, IsQueue
<1>2. q.waiting[i] \in Cell(T) /\ q.latestSeq \in Nat
  BY <1>1 DEF SerialQueue
<1> QED BY <1>2 DEF Cell, Good, QueueSound

(* runLatest takes the place of the newest call, which is not one of run's *)
(* (ipcQueue.ts:86-92).                                                    *)
LEMMA ReplaceIsGood ==
  ASSUME NEW q, Good(q), Replaces(q), NEW t
  PROVE  LET r == Replace(q, Replaceable(q), t)
             old == q.waiting[Len(q.waiting)].seq
         IN /\ Good(r)
            /\ r.latestSeq = q.latestSeq + 1
            /\ old \in Waiting(q, FALSE)
            /\ \A k \in Waiting(q, TRUE) \union Waiting(q, FALSE) : k <= old
            /\ Waiting(r, FALSE) = (Waiting(q, FALSE) \ {old}) \union {q.latestSeq + 1}
            /\ Waiting(r, TRUE) = Waiting(q, TRUE)
<1>1. PICK T : q \in SerialQueue(T)
  BY DEF Good, IsQueue
<1> DEFINE n == Len(q.waiting)
           U == T \union {t}
           s == q.latestSeq + 1
           r == Replace(q, n, t)
           w == r.waiting
           old == q.waiting[n].seq
<1>2. n \in Nat \ {0} /\ Replaceable(q) = n /\ q.waiting[n].firm = FALSE /\ n \in 1 .. n
  <2>1. n \in Nat \ {0} /\ Replaceable(q) = n /\ ~ q.waiting[n].firm
    BY ReplaceableIsLast
  <2>2. n \in 1 .. n
    BY <2>1
  <2>3. q.waiting[n].firm \in BOOLEAN
    BY <2>2, InLine
  <2>4. q.waiting[n].firm = FALSE
    BY <2>1, <2>3, Zenon
  <2> QED BY <2>1, <2>2, <2>4
<1>3. q \in SerialQueue(U) /\ s \in Nat
  <2>1. q \in SerialQueue(T \union {t})
    BY <1>1, Widen
  <2>2. q.latestSeq \in Nat
    BY <1>1 DEF SerialQueue
  <2> QED BY <2>1, <2>2
<1>4. q.waiting \in Seq(Cell(U))
  BY <1>3 DEF SerialQueue
<1> DEFINE c == [cell |-> q.waiting[n].cell, seq |-> s, task |-> t, firm |-> q.waiting[n].firm]
<1>5. c \in Cell(U)
  BY <1>2, <1>3, InLine DEF Cell
<1>6. w = [q.waiting EXCEPT ![n] = c]
  BY DEF Replace, NextSeq
<1>7. w \in Seq(Cell(U)) /\ Len(w) = n /\ w[n] = c /\ \A i \in 1 .. n - 1 : w[i] = q.waiting[i]
  BY <1>2, <1>4, <1>5, <1>6
<1>8. /\ r.running = q.running /\ r.latestSeq = s /\ r.replaceable = q.replaceable
      /\ r = [waiting |-> w, running |-> q.running, latestSeq |-> s, replaceable |-> q.replaceable]
  BY DEF Replace, NextSeq
<1>9. r \in SerialQueue(U)
  BY <1>3, <1>7, <1>8 DEF SerialQueue
<1>10. q.latestSeq \in Nat /\ \A i \in 1 .. n : q.waiting[i].seq < s
  <2>1. q.latestSeq \in Nat
    BY <1>3 DEF SerialQueue
  <2>2. ASSUME NEW i \in 1 .. n PROVE q.waiting[i].seq < s
    BY <2>1, InLine
  <2> QED BY <2>1, <2>2
<1>11. ASSUME NEW i \in 1 .. n
       PROVE  /\ w[i].cell <= w[i].seq /\ w[i].seq <= s /\ w[i].cell >= 1
              /\ q.running # Null => q.running.seq < w[i].cell
              /\ \A j \in 1 .. i - 1 : w[j].seq < w[i].cell
  <2>1. \A j \in 1 .. i - 1 : w[j] = q.waiting[j]
    BY <1>7
  <2>2. w[i].cell = q.waiting[i].cell /\ w[i].seq \in {q.waiting[i].seq, s}
        /\ (w[i].seq = q.waiting[i].seq \/ w[i].seq = s)
    <3>1. CASE i = n
      BY <3>1, <1>7
    <3>2. CASE i # n
      <4>1. w[i] = q.waiting[i]
        BY <3>2, <1>2, <1>7
      <4> QED BY <4>1
    <3> QED BY <3>1, <3>2
  <2>3. /\ q.waiting[i].cell \in Nat /\ q.waiting[i].seq \in Nat /\ 1 <= q.waiting[i].cell
        /\ q.waiting[i].cell <= q.waiting[i].seq /\ q.waiting[i].seq < s
        /\ q.running # Null => q.running.seq < q.waiting[i].cell
        /\ \A j \in 1 .. i - 1 : q.waiting[j].seq < q.waiting[i].cell
    BY InLine, <1>10
  <2> QED BY <2>1, <2>2, <2>3, <1>3
<1>12. QueueSound(r)
  <2>1. q.waiting[n].cell = q.replaceable
    BY DEF Good, QueueSound, Replaces
  <2>2. w # <<>> /\ w[Len(w)].cell = q.replaceable /\ ~ w[Len(w)].firm
    BY <2>1, <1>2, <1>7
  <2>3. q.running # Null => q.running.seq <= s
    <3> SUFFICES ASSUME q.running # Null PROVE q.running.seq <= s
      OBVIOUS
    <3>1. q.running \in Cell(U)
      BY <1>3 DEF SerialQueue
    <3>2. q.running.seq <= q.latestSeq /\ q.running.seq \in Nat
      BY <3>1 DEF Good, QueueSound, Cell
    <3> QED BY <3>2, <1>10
  <2> QED BY <2>2, <2>3, <1>7, <1>8, <1>11 DEF QueueSound
<1>13. old \in Waiting(q, FALSE)
  BY <1>2 DEF Waiting
<1>14. \A i \in 1 .. n - 1 : q.waiting[i].seq < old /\ q.waiting[i].seq \in Nat
  <2> SUFFICES ASSUME NEW i \in 1 .. n - 1 PROVE q.waiting[i].seq < old /\ q.waiting[i].seq \in Nat
    OBVIOUS
  <2>1. i \in 1 .. n /\ i < n
    BY <1>2
  <2> QED BY <2>1, <1>2, CellsIncrease, InLine
<1>15. \A k \in Waiting(q, TRUE) \union Waiting(q, FALSE) : k <= old
  <2> SUFFICES ASSUME NEW i \in 1 .. n PROVE q.waiting[i].seq <= old
    BY DEF Waiting
  <2>1. old \in Nat
    BY <1>2, InLine
  <2> QED BY <2>1, <1>2, <1>14
<1>16. Waiting(r, FALSE) = (Waiting(q, FALSE) \ {old}) \union {s}
  <2>1. w[n].seq = s /\ w[n].firm = FALSE
    BY <1>2, <1>7
  <2>2. ASSUME NEW k PROVE k \in Waiting(r, FALSE) => k \in (Waiting(q, FALSE) \ {old}) \union {s}
    <3> SUFFICES ASSUME NEW i \in 1 .. n, w[i].firm = FALSE, k = w[i].seq
                 PROVE  k \in (Waiting(q, FALSE) \ {old}) \union {s}
      BY <1>7 DEF Waiting
    <3>1. CASE i = n
      BY <3>1, <2>1
    <3>2. CASE i # n
      <4>1. i \in 1 .. n - 1 /\ w[i] = q.waiting[i]
        BY <3>2, <1>2, <1>7
      <4>2. k # old /\ k \in Waiting(q, FALSE)
        BY <4>1, <1>2, <1>14, InLine DEF Waiting
      <4> QED BY <4>2
    <3> QED BY <3>1, <3>2
  <2>3. ASSUME NEW k PROVE k \in Waiting(q, FALSE) \ {old} => k \in Waiting(r, FALSE)
    <3> SUFFICES ASSUME NEW i \in 1 .. n, q.waiting[i].firm = FALSE, k = q.waiting[i].seq, k # old
                 PROVE  k \in Waiting(r, FALSE)
      BY DEF Waiting
    <3>1. i \in 1 .. n - 1
      BY <1>2
    <3>2. w[i] = q.waiting[i]
      BY <3>1, <1>7
    <3> QED BY <3>2, <1>7 DEF Waiting
  <2>4. s \in Waiting(r, FALSE)
    BY <2>1, <1>2, <1>7 DEF Waiting
  <2> QED BY <2>2, <2>3, <2>4
<1>17. Waiting(r, TRUE) = Waiting(q, TRUE)
  BY <1>2, <1>7 DEF Waiting
<1> QED BY <1>2, <1>8, <1>9, <1>12, <1>13, <1>15, <1>16, <1>17 DEF Good, IsQueue

(* The oldest call has its turn (ipcQueue.ts:77, 96-99).                   *)
LEMMA StartIsGood ==
  ASSUME NEW q, Good(q), CanStart(q)
  PROVE  LET n == Head(q.waiting).seq
         IN /\ Good(Start(q))
            /\ Start(q).latestSeq = q.latestSeq
            /\ n \in Waiting(q, TRUE) \union Waiting(q, FALSE)
            /\ \A k \in Waiting(q, TRUE) \union Waiting(q, FALSE) : n <= k
            /\ \A f \in BOOLEAN : Waiting(Start(q), f) = Waiting(q, f) \ {n}
<1>1. PICK T : q \in SerialQueue(T)
  BY DEF Good, IsQueue
<1> DEFINE m == Len(q.waiting)
           h == Head(q.waiting)
           w == Tail(q.waiting)
           r == Start(q)
<1>2. /\ q.waiting \in Seq(Cell(T)) /\ q.waiting # <<>> /\ m \in Nat \ {0} /\ 1 \in 1 .. m
      /\ h = q.waiting[1]
  BY <1>1 DEF SerialQueue, CanStart
<1>3. w \in Seq(Cell(T)) /\ Len(w) = m - 1 /\ \A i \in 1 .. m - 1 : w[i] = q.waiting[i + 1]
  BY <1>2
<1>4. h \in Cell(T)
  BY <1>2
<1>5. r.waiting = w /\ r.running = h /\ r.latestSeq = q.latestSeq
      /\ r.replaceable = IF q.replaceable = h.cell THEN 0 ELSE q.replaceable
  BY DEF Start
<1>6. r \in SerialQueue(T)
  BY <1>1, <1>3, <1>4 DEF Start, SerialQueue
<1>7. ASSUME NEW i \in 1 .. m - 1
      PROVE  /\ w[i].cell <= w[i].seq /\ w[i].seq <= q.latestSeq /\ w[i].cell >= 1
             /\ h.seq < w[i].cell /\ h.cell < w[i].cell /\ h.seq < w[i].seq
             /\ \A j \in 1 .. i - 1 : w[j].seq < w[i].cell
  <2>1. i + 1 \in 1 .. m /\ w[i] = q.waiting[i + 1] /\ 1 \in 1 .. i + 1 - 1
    BY <1>2, <1>3
  <2>2. \A j \in 1 .. i - 1 : w[j] = q.waiting[j + 1] /\ j + 1 \in 1 .. i + 1 - 1
    BY <1>2, <1>3
  <2> QED BY <1>2, <2>1, <2>2, InLine
<1>8. QueueSound(r)
  <2>1. r.replaceable # 0 =>
          /\ w # <<>> /\ w[Len(w)].cell = r.replaceable /\ ~ w[Len(w)].firm
    <3> SUFFICES ASSUME r.replaceable # 0
                 PROVE  w # <<>> /\ w[Len(w)].cell = r.replaceable /\ ~ w[Len(w)].firm
      OBVIOUS
    <3>1. q.replaceable # 0 /\ q.replaceable # h.cell /\ r.replaceable = q.replaceable
      BY <1>5
    <3>2. q.waiting[m].cell = q.replaceable /\ ~ q.waiting[m].firm
      BY <3>1 DEF Good, QueueSound
    <3>3. m # 1
      BY <1>2, <3>1, <3>2
    <3>4. m - 1 \in 1 .. m - 1 /\ m - 1 + 1 = m /\ m - 1 # 0
      <4>1. m \in Nat /\ m # 0
        BY <1>2
      <4> HIDE DEF m
      <4> QED BY <4>1, <3>3
    <3>5. w[m - 1] = q.waiting[m]
      <4>1. w[m - 1] = q.waiting[m - 1 + 1]
        BY <1>3, <3>4
      <4> QED BY <4>1, <3>4
    <3>6. Len(w) = m - 1
      BY <1>3
    <3>7. w[Len(w)] = q.waiting[m]
      BY <3>5, <3>6
    <3>8. w # <<>>
      <4>1. w \in Seq(Cell(T)) /\ m - 1 # 0
        BY <1>3, <3>4
      <4> SUFFICES ASSUME w = <<>> PROVE FALSE
        OBVIOUS
      <4>2. Len(<<>>) = 0
        OBVIOUS
      <4> HIDE DEF w, m
      <4> QED BY <4>1, <4>2, <3>6
    <3> QED BY <3>1, <3>2, <3>7, <3>8
  <2>2. h.seq <= q.latestSeq
    BY <1>2, InLine
  <2> QED BY <2>1, <2>2, <1>3, <1>5, <1>7 DEF QueueSound
<1>9. h.seq \in Waiting(q, TRUE) \union Waiting(q, FALSE)
  BY <1>2, InLine DEF Waiting
<1>10. \A k \in Waiting(q, TRUE) \union Waiting(q, FALSE) : h.seq <= k
  <2> SUFFICES ASSUME NEW i \in 1 .. m PROVE h.seq <= q.waiting[i].seq
    BY DEF Waiting
  <2>1. h.seq \in Nat
    BY <1>2, InLine
  <2>2. CASE i = 1
    BY <2>1, <2>2, <1>2
  <2>3. CASE i # 1
    <3>1. 1 < i
      BY <2>3
    <3>2. h.seq < q.waiting[i].seq /\ q.waiting[i].seq \in Nat
      BY <3>1, <1>2, CellsIncrease, InLine
    <3> QED BY <2>1, <3>2
  <2> QED BY <2>2, <2>3
<1>11. ASSUME NEW f \in BOOLEAN PROVE Waiting(r, f) = Waiting(q, f) \ {h.seq}
  <2>1. \A i \in 1 .. m - 1 : w[i].seq # h.seq
    <3> SUFFICES ASSUME NEW i \in 1 .. m - 1 PROVE w[i].seq # h.seq
      OBVIOUS
    <3>1. h.seq \in Nat /\ h.seq < w[i].seq
      BY <1>2, <1>7, InLine
    <3> QED BY <3>1
  <2>2. ASSUME NEW k PROVE k \in Waiting(r, f) => k \in Waiting(q, f) \ {h.seq}
    <3> SUFFICES ASSUME NEW i \in 1 .. m - 1, w[i].firm = f, k = w[i].seq
                 PROVE  k \in Waiting(q, f) \ {h.seq}
      BY <1>3, <1>5 DEF Waiting
    <3>1. i + 1 \in 1 .. m /\ w[i] = q.waiting[i + 1]
      BY <1>2, <1>3
    <3> QED BY <2>1, <3>1 DEF Waiting
  <2>3. ASSUME NEW k PROVE k \in Waiting(q, f) \ {h.seq} => k \in Waiting(r, f)
    <3> SUFFICES ASSUME NEW i \in 1 .. m, q.waiting[i].firm = f, k = q.waiting[i].seq, k # h.seq
                 PROVE  k \in Waiting(r, f)
      BY DEF Waiting
    <3>1. i # 1
      BY <1>2
    <3>2. i - 1 \in 1 .. m - 1 /\ w[i - 1] = q.waiting[i - 1 + 1] /\ i - 1 + 1 = i
      BY <1>2, <1>3, <3>1
    <3> QED BY <3>2, <1>3, <1>5 DEF Waiting
  <2> QED BY <2>2, <2>3
<1> QED BY <1>5, <1>6, <1>8, <1>9, <1>10, <1>11 DEF Good, IsQueue

-----------------------------------------------------------------------------
(* A turn asks the queue for one call or for none.                         *)
AsksOf(q) == \E a : queue' = Ask(q, a)

LEMMA TurnAsks ==
  ASSUME NEW q, NEW d, Turn(q, d) PROVE AsksOf(q)
  BY DEF Turn, AsksOf

LEMMA EveryAnswerAsks ==
  ASSUME Answer PROVE AsksOf(Finish(queue))
<1> DEFINE c == queue.running
           latest == IsLatest(queue)
<1>1. CASE AnswerChange(c, latest)
  BY <1>1, TurnAsks, Zenon DEF AnswerChange
<1>2. CASE AnswerReplay(c, latest)
  BY <1>2, TurnAsks, Zenon DEF AnswerReplay
<1>3. CASE AnswerPose(c, latest)
  BY <1>3, TurnAsks, Zenon DEF AnswerPose
<1>4. CASE AnswerPreview(c, latest)
  BY <1>4, TurnAsks, Zenon DEF AnswerPreview
<1>5. CASE AnswerPlain(c)
  BY <1>5, TurnAsks, Zenon DEF AnswerPlain
<1> QED BY <1>1, <1>2, <1>3, <1>4, <1>5 DEF Answer

(* Every action asks for at most one call, after the answer it brings if   *)
(* it brings one, or starts the first call in the line.                    *)
LEMMA EveryStep ==
  ASSUME Next
  PROVE  \/ AsksOf(queue)
         \/ AsksOf(Finish(queue))
         \/ CanStart(queue) /\ queue' = Start(queue)
<1>1. CASE GoOn
  BY <1>1, TurnAsks, Zenon DEF GoOn
<1>2. CASE MoveOn
  BY <1>2, TurnAsks, Zenon DEF MoveOn
<1>3. CASE Edit
  BY <1>3, TurnAsks, Zenon DEF Edit
<1>4. CASE NewDocument
  BY <1>4, TurnAsks, Zenon DEF NewDocument
<1>5. CASE Adopt
  BY <1>5, TurnAsks, Zenon DEF Adopt
<1>6. CASE Undo
  BY <1>6, TurnAsks, Zenon DEF Undo
<1>7. CASE Redo
  BY <1>7, TurnAsks, Zenon DEF Redo
<1>8. ASSUME NEW n, Select(n) PROVE AsksOf(queue)
  BY <1>8, TurnAsks, Zenon DEF Select
<1>9. CASE TogglePlay
  BY <1>9, TurnAsks, Zenon DEF TogglePlay
<1>10. CASE SetAngle
  BY <1>10, TurnAsks, Zenon DEF SetAngle
<1>11. CASE ClearDriver
  BY <1>11, TurnAsks, Zenon DEF ClearDriver
<1>12. CASE FinishAngle
  BY <1>12, TurnAsks, Zenon DEF FinishAngle
<1>13. CASE RecordPoseStep
  BY <1>13, TurnAsks, Zenon DEF RecordPoseStep
<1>14. ASSUME NEW i, NEW delta, MoveStep(i, delta) PROVE AsksOf(queue)
  BY <1>14, TurnAsks, Zenon DEF MoveStep
<1>15. CASE RequestFold
  BY <1>15, TurnAsks, Zenon DEF RequestFold
<1>16. CASE ResolveFold
  BY <1>16, TurnAsks, Zenon DEF ResolveFold
<1>17. CASE Plain
  BY <1>17, TurnAsks, Zenon DEF Plain
<1>18. CASE Tick
  BY <1>18, TurnAsks, Zenon DEF Tick
<1>19. CASE PoseTimer
  BY <1>19, TurnAsks, Zenon DEF PoseTimer
<1>20. CASE StartCall
  BY <1>20 DEF StartCall
<1>21. CASE Answer
  BY <1>21, EveryAnswerAsks
<1> QED
  BY <1>1, <1>2, <1>3, <1>4, <1>5, <1>6, <1>7, <1>8, <1>9, <1>10, <1>11, <1>12, <1>13, <1>14,
     <1>15, <1>16, <1>17, <1>18, <1>19, <1>20, <1>21, Zenon DEF Next

(* One step of the line: at most one call is asked for, or the first made. *)
LineStep ==
  \/ /\ queue'.latestSeq = queue.latestSeq
     /\ Waiting(queue', TRUE) = Waiting(queue, TRUE)
     /\ Waiting(queue', FALSE) = Waiting(queue, FALSE)
  \/ Line!Next

(* A turn keeps the queue sound and is a step of the line.                 *)
LEMMA TurnKeeps ==
  ASSUME NEW q, Good(q), q.latestSeq = queue.latestSeq,
         \A f \in BOOLEAN : Waiting(q, f) = Waiting(queue, f), AsksOf(q)
  PROVE  Good(queue') /\ LineStep
<1>1. PICK a : queue' = Ask(q, a)
  BY DEF AsksOf
<1>2. CASE a = Null
  <2>1. queue' = q
    BY <1>1, <1>2 DEF Ask
  <2> QED BY <2>1 DEF LineStep
<1>3. CASE a # Null /\ queue' = Run(q, a.task)
  <2>1. Line!AskFirm
    BY <1>3, RunIsGood DEF Line!AskFirm
  <2> QED BY <2>1, <1>3, RunIsGood DEF LineStep, Line!Next
<1>4. CASE a # Null /\ queue' = RunLatest(q, a.task) /\ ~ Replaces(q)
  <2>1. queue' = QueueLatest(q, a.task)
    BY <1>4 DEF RunLatest
  <2>2. Line!AskLoose
    BY <2>1, QueueLatestIsGood DEF Line!AskLoose
  <2> QED BY <2>1, <2>2, QueueLatestIsGood DEF LineStep, Line!Next
<1>5. CASE a # Null /\ queue' = RunLatest(q, a.task) /\ Replaces(q)
  <2>1. queue' = Replace(q, Replaceable(q), a.task)
    BY <1>5 DEF RunLatest
  <2> DEFINE old == q.waiting[Len(q.waiting)].seq
  <2>2. /\ Good(queue')
        /\ queue'.latestSeq = q.latestSeq + 1
        /\ old \in Waiting(q, FALSE)
        /\ \A k \in Waiting(q, TRUE) \union Waiting(q, FALSE) : k <= old
        /\ Waiting(queue', FALSE) = (Waiting(q, FALSE) \ {old}) \union {q.latestSeq + 1}
        /\ Waiting(queue', TRUE) = Waiting(q, TRUE)
    <3> DEFINE r == Replace(q, Replaceable(q), a.task)
    <3>1. /\ Good(r)
          /\ r.latestSeq = q.latestSeq + 1
          /\ old \in Waiting(q, FALSE)
          /\ \A k \in Waiting(q, TRUE) \union Waiting(q, FALSE) : k <= old
          /\ Waiting(r, FALSE) = (Waiting(q, FALSE) \ {old}) \union {q.latestSeq + 1}
          /\ Waiting(r, TRUE) = Waiting(q, TRUE)
      BY <1>5, ReplaceIsGood, Zenon
    <3> QED BY <2>1, <3>1, Zenon
  <2>3. Line!AskInstead
    BY <2>2 DEF Line!AskInstead
  <2> QED BY <2>2, <2>3 DEF LineStep, Line!Next
<1> QED BY <1>1, <1>2, <1>3, <1>4, <1>5 DEF Ask

LEMMA StartKeeps ==
  ASSUME Good(queue), CanStart(queue), queue' = Start(queue)
  PROVE  Good(queue') /\ LineStep
<1>1. Line!Make
  BY StartIsGood DEF Line!Make
<1> QED BY <1>1, StartIsGood DEF LineStep, Line!Next

LEMMA StepKeeps ==
  ASSUME Good(queue), [Next]_vars
  PROVE  Good(queue') /\ LineStep
<1>1. CASE AsksOf(queue)
  BY <1>1, TurnKeeps
<1>2. CASE AsksOf(Finish(queue))
  BY <1>2, TurnKeeps, FinishIsGood
<1>3. CASE CanStart(queue) /\ queue' = Start(queue)
  BY <1>3, StartKeeps
<1>4. CASE UNCHANGED vars
  BY <1>4 DEF vars, LineStep
<1> QED BY <1>1, <1>2, <1>3, <1>4, EveryStep

LEMMA AlwaysGood == Spec => []Good(queue)
<1>1. Init => Good(queue)
  BY EmptyIsGood DEF Init
<1>2. Good(queue) /\ [Next]_vars => Good(queue)'
  BY StepKeeps
<1> QED BY <1>1, <1>2, PTL DEF Spec

(* ipcQueue.ts:56-57: in every reachable state, for any inputs and any     *)
(* number of them, the line is in order and only its last call, when it    *)
(* may be dropped, is replaceable.                                         *)
THEOREM QueueAlwaysSound == Spec => []QueueIsSound
<1>1. Good(queue) => QueueIsSound
  BY DEF Good, QueueIsSound
<1> QED BY <1>1, AlwaysGood, PTL

(* ipcQueue.ts:1-14: the desk implements the promise of the queue: calls   *)
(* are made one at a time in the order of asking, and one is only given up *)
(* for a newer one that no call of run separates from it.                  *)
THEOREM CallsAreMadeInLine == Spec => LineSpec
<1>1. Init => Line!Init
  BY DEF Init, Line!Init, EmptyQueue, Waiting
<1>2. Good(queue) /\ [Next]_vars => [Line!Next]_Line!vars
  BY StepKeeps DEF LineStep, Line!vars
<1> QED BY <1>1, <1>2, AlwaysGood, PTL DEF Spec, LineSpec, Line!Spec

-----------------------------------------------------------------------------
(* What the screens show.                                                  *)

(* Counting from zero reaches every number of a sequence's positions.      *)
LEMMA Counting ==
  ASSUME NEW S, NEW L \in Nat, 0 \in S, \A n \in 1 .. L : n - 1 \in S => n \in S
  PROVE  \A n \in 0 .. L : n \in S
<1> DEFINE R == {p \in Nat \X Nat : p[1] < p[2]}
           Left == {n \in 0 .. L : n \notin S}
<1> SUFFICES ASSUME Left # {} PROVE FALSE
  OBVIOUS
<1>1. IsWellFoundedOn(OpToRel(<, Nat), Nat)
  BY NatLessThanWellFounded
<1>2. IsWellFoundedOn(R, Nat)
  BY <1>1 DEF OpToRel
<1>3. Left \in SUBSET Nat
  OBVIOUS
<1> HIDE DEF R, Left
<1>4. PICK m \in Left : \A n \in Left : ~(<<n, m>> \in R)
  BY <1>2, <1>3, WFMin
<1>5. m \in 0 .. L /\ m # 0 /\ m \notin S
  BY <1>4 DEF Left
<1>6. m - 1 \in 0 .. L /\ m \in 1 .. L
  BY <1>5
<1>7. m - 1 \in Left
  BY <1>5, <1>6 DEF Left
<1>8. <<m - 1, m>> \in R
  BY <1>6 DEF R
<1> QED BY <1>4, <1>7, <1>8

(* Removing steps leaves a sequence of step ids (store.rs:739-747).        *)
LEMMA WithoutIsSeq ==
  ASSUME NEW ids \in Seq(Nat), NEW id PROVE Without(ids, id) \in Seq(Nat)
<1> DEFINE L == Len(ids)
           From(s, i) == IF ids[i] = id THEN s ELSE Append(s, ids[i])
           Kept(n, f) == /\ f \in [0 .. n -> Seq(Nat)] /\ f[0] = <<>>
                         /\ \A i \in 1 .. n : f[i] = From(f[i - 1], i)
           K == {n \in 0 .. L : \E f : Kept(n, f)}
<1>1. L \in Nat /\ \A i \in 1 .. L, s \in Seq(Nat) : From(s, i) \in Seq(Nat)
  OBVIOUS
<1>2. 0 \in K
  <2>1. Kept(0, [i \in 0 .. 0 |-> <<>>])
    OBVIOUS
  <2> HIDE DEF Kept
  <2> QED BY <2>1, <1>1
<1>3. ASSUME NEW n \in 1 .. L, n - 1 \in K PROVE n \in K
  <2>1. n - 1 \in 0 .. L /\ n \in 0 .. L
    BY <1>1
  <2>2. PICK f : Kept(n - 1, f)
    BY <1>3, Zenon
  <2> DEFINE g == [i \in 0 .. n |-> IF i = n THEN From(f[n - 1], n) ELSE f[i]]
  <2> HIDE DEF From
  <2>3. g \in [0 .. n -> Seq(Nat)]
    <3>1. \A i \in 0 .. n : i # n => i \in 0 .. n - 1
      BY <2>1
    <3>2. f[n - 1] \in Seq(Nat)
      BY <2>1, <2>2
    <3> QED BY <1>1, <3>1, <3>2, <2>2
  <2>4. g[0] = <<>>
    BY <2>1, <2>2
  <2>5. ASSUME NEW i \in 1 .. n PROVE g[i] = From(g[i - 1], i)
    <3>1. i \in 0 .. n /\ i - 1 \in 0 .. n /\ i - 1 # n
      BY <2>1
    <3>2. g[i - 1] = f[i - 1] /\ g[i] = IF i = n THEN From(f[n - 1], n) ELSE f[i]
      BY <3>1
    <3>3. i # n => i \in 1 .. n - 1
      OBVIOUS
    <3> QED BY <3>2, <3>3, <2>2
  <2>6. Kept(n, g)
    BY <2>3, <2>4, <2>5
  <2> HIDE DEF Kept, g
  <2> QED BY <2>1, <2>6
<1>4. PICK f : Kept(L, f)
  <2>1. \A n \in 1 .. L : n - 1 \in K => n \in K
    BY <1>3
  <2> HIDE DEF K
  <2>2. \A n \in 0 .. L : n \in K
    BY <1>1, <1>2, <2>1, Counting
  <2>3. L \in K
    BY <1>1, <2>2
  <2> QED BY <2>3, Zenon DEF K
<1> DEFINE kept == CHOOSE k : k = [i \in 0 .. L |->
                     IF i = 0 THEN <<>> ELSE IF ids[i] = id THEN k[i - 1] ELSE Append(k[i - 1], ids[i])]
<1>5. f = [i \in 0 .. L |->
             IF i = 0 THEN <<>> ELSE IF ids[i] = id THEN f[i - 1] ELSE Append(f[i - 1], ids[i])]
  <2>1. ASSUME NEW i \in 0 .. L
        PROVE  f[i] = IF i = 0 THEN <<>>
                      ELSE IF ids[i] = id THEN f[i - 1] ELSE Append(f[i - 1], ids[i])
    <3>1. i # 0 => i \in 1 .. L
      OBVIOUS
    <3> QED BY <3>1, <1>4
  <2>2. f = [i \in 0 .. L |-> f[i]]
    BY <1>4
  <2> QED BY <2>1, <2>2
<1>6. kept = [i \in 0 .. L |->
             IF i = 0 THEN <<>> ELSE IF ids[i] = id THEN kept[i - 1] ELSE Append(kept[i - 1], ids[i])]
  BY <1>5, Zenon
<1>7. Without(ids, id) = kept[L]
  BY DEF Without
<1> HIDE DEF kept
<1> DEFINE S == {i \in 0 .. L : kept[i] \in Seq(Nat)}
<1>8. 0 \in S
  BY <1>1, <1>6
<1>9. ASSUME NEW n \in 1 .. L, n - 1 \in S PROVE n \in S
  <2>1. n \in 0 .. L /\ n # 0 /\ kept[n - 1] \in Seq(Nat)
    BY <1>1, <1>9
  <2>2. kept[n] = From(kept[n - 1], n)
    BY <1>6, <2>1
  <2> QED BY <2>1, <2>2, <1>1
<1>10. L \in S
  <2>1. \A n \in 1 .. L : n - 1 \in S => n \in S
    BY <1>9
  <2> HIDE DEF S
  <2>2. \A n \in 0 .. L : n \in S
    BY <1>1, <1>8, <2>1, Counting
  <2> QED BY <1>1, <2>2
<1> QED BY <1>7, <1>10

(* The number of a new step is a natural number (poseStep.ts:119).         *)
LEMMA NextStepIdIsNat ==
  ASSUME NEW ids \in Seq(Nat) PROVE NextStepId(ids) \in Nat
<1> DEFINE L == Len(ids)
           S == {n \in 0 .. L : n = 0 \/ \E k \in 1 .. n : \A i \in 1 .. n : ids[i] <= ids[k]}
<1>1. CASE ids = <<>>
  BY <1>1 DEF NextStepId
<1>2. CASE ids # <<>>
  <2>1. L \in Nat \ {0} /\ \A i \in 1 .. L : ids[i] \in Nat
    BY <1>2
  <2>2. ToSet(ids) = {ids[i] : i \in 1 .. L}
    BY DEF ToSet
  <2>3. ASSUME NEW n \in 1 .. L, n - 1 \in S PROVE n \in S
    <3>1. n \in 0 .. L
      BY <2>1
    <3>2. CASE n - 1 = 0
      <4>1. \A i \in 1 .. n : i = n
        BY <3>2
      <4>2. n \in 1 .. n /\ ids[n] <= ids[n]
        BY <2>1
      <4>3. \A i \in 1 .. n : ids[i] <= ids[n]
        BY <4>1, <4>2
      <4> QED BY <3>1, <4>2, <4>3
    <3>3. CASE n - 1 # 0
      <4>1. PICK k \in 1 .. n - 1 : \A i \in 1 .. n - 1 : ids[i] <= ids[k]
        BY <2>3, <3>3
      <4> DEFINE b == IF ids[n] <= ids[k] THEN k ELSE n
      <4>2. b \in 1 .. n /\ ids[k] <= ids[b] /\ ids[n] <= ids[b] /\ k \in 1 .. L
        BY <2>1
      <4>3. ASSUME NEW i \in 1 .. n PROVE ids[i] <= ids[b]
        <5>1. CASE i = n
          BY <4>2, <5>1
        <5>2. CASE i # n
          <6>1. i \in 1 .. n - 1 /\ i \in 1 .. L /\ b \in 1 .. L
            BY <5>2, <4>2
          <6>2. ids[i] <= ids[k] /\ ids[i] \in Nat /\ ids[k] \in Nat /\ ids[b] \in Nat
            BY <6>1, <4>1, <4>2, <2>1
          <6> HIDE DEF b
          <6> QED BY <6>2, <4>2
        <5> QED BY <5>1, <5>2
      <4> HIDE DEF b
      <4> QED BY <3>1, <4>2, <4>3
    <3> QED BY <3>2, <3>3
  <2>4. L \in S
    <3>1. 0 \in S
      BY <2>1
    <3>2. \A n \in 1 .. L : n - 1 \in S => n \in S
      BY <2>3
    <3> HIDE DEF S
    <3>3. \A n \in 0 .. L : n \in S
      BY <2>1, <3>1, <3>2, Counting
    <3> QED BY <2>1, <3>3
  <2>5. PICK k \in 1 .. L : \A i \in 1 .. L : ids[i] <= ids[k]
    BY <2>1, <2>4
  <2>6. ids[k] \in ToSet(ids) /\ \A x \in ToSet(ids) : ids[k] >= x
    BY <2>1, <2>2, <2>5
  <2>7. Max(ToSet(ids)) \in ToSet(ids)
    BY <2>6 DEF Max
  <2>8. Max(ToSet(ids)) \in Nat
    BY <2>1, <2>2, <2>7
  <2> QED BY <1>2, <2>8 DEF NextStepId
<1> QED BY <1>1, <1>2

-----------------------------------------------------------------------------
(* The document store behind the queue.                                    *)

Stores ==
  [ver : Nat, ids : Seq(Nat), past : Seq(Seq(Nat)), future : Seq(Seq(Nat)), adopted : Nat]

(* The arguments a call takes with it.                                     *)
LEMMA Arguments ==
  ASSUME NEW t \in Task
  PROVE  /\ t.kind \in Changes \union {"preview", "replay", "pose", "plain"}
         /\ t.kind = "push" => t.id \in Nat /\ t.gen \in Nat
         /\ t.kind = "move" => t.id \in Nat /\ t.to \in Nat /\ t.base \in Nat
         /\ t.kind = "preview" =>
              t.upTo \in Nat /\ t.posed \in BOOLEAN /\ t.epoch \in Nat /\ t.steps \in Nat
         /\ t.kind = "fold" =>
              /\ t.upTo \in Nat /\ t.posed \in BOOLEAN /\ t.epoch \in Nat /\ t.steps \in Nat
              /\ t.base \in Nat /\ t.owner \in Nat
         /\ t.kind = "replay" =>
              /\ t.upTo \in Nat /\ t.full \in BOOLEAN /\ t.gen \in Nat /\ t.of \in Nat
              /\ t.over \in BOOLEAN
         /\ t.kind = "pose" =>
              /\ t.upTo \in Nat /\ t.full \in BOOLEAN /\ t.gen \in Nat /\ t.of \in Nat
              /\ t.clears \in Nat \union {Null}
BY DEF Task, Changes

LEMMA Committed ==
  ASSUME store \in Stores, NEW ids \in Seq(Nat)
  PROVE  /\ Commit(ids) \in Stores
         /\ Commit(ids).ver = store.ver + 1 /\ Commit(ids).adopted = store.adopted
         /\ Commit(ids).ids = ids
BY DEF Stores, Commit, Document

(* A part of a sequence.                                                   *)
LEMMA PartIsSeq ==
  ASSUME NEW q \in Seq(Nat), NEW a \in Int, NEW b \in Int, 1 <= a, b <= Len(q)
  PROVE  /\ SubSeq(q, a, b) \in Seq(Nat)
         /\ Len(SubSeq(q, a, b)) = IF a <= b THEN b - a + 1 ELSE 0
<1>1. \A k \in a .. b : q[k] \in Nat
  <2>1. Len(q) \in Nat /\ \A k \in 1 .. Len(q) : q[k] \in Nat
    OBVIOUS
  <2>2. \A k \in a .. b : k \in 1 .. Len(q)
    BY <2>1
  <2> QED BY <2>1, <2>2
<1> QED BY <1>1, SubSeqProperties

(* A step that moves from one place to another, store.rs:748-778.          *)
LEMMA MovedIsSeq ==
  ASSUME NEW ids \in Seq(Nat), NEW i \in 1 .. Len(ids), NEW to \in 1 .. Len(ids), NEW id \in Nat
  PROVE  InsertAt(RemoveAt(ids, i), to, id) \in Seq(Nat)
<1> DEFINE r == RemoveAt(ids, i)
           before == SubSeq(ids, 1, i - 1)
           behind == SubSeq(ids, i + 1, Len(ids))
<1>1. before \in Seq(Nat) /\ behind \in Seq(Nat)
      /\ Len(before) = i - 1 /\ Len(behind) = Len(ids) - i
  <2>1. /\ Len(ids) \in Nat /\ i - 1 \in Int /\ i + 1 \in Int /\ 1 \in Int
        /\ i - 1 <= Len(ids) /\ 1 <= i + 1 /\ 1 <= i /\ i <= Len(ids)
    OBVIOUS
  <2>2. before \in Seq(Nat) /\ Len(before) = IF 1 <= i - 1 THEN i - 1 - 1 + 1 ELSE 0
    BY <2>1, PartIsSeq
  <2>3. /\ behind \in Seq(Nat)
        /\ Len(behind) = IF i + 1 <= Len(ids) THEN Len(ids) - (i + 1) + 1 ELSE 0
    BY <2>1, PartIsSeq
  <2> HIDE DEF before, behind
  <2> QED BY <2>1, <2>2, <2>3
<1> HIDE DEF before, behind
<1>2. before \o behind \in Seq(Nat) /\ Len(before \o behind) = Len(ids) - 1
  BY <1>1
<1>3. r \in Seq(Nat) /\ Len(r) = Len(ids) - 1
  BY <1>2 DEF RemoveAt, before, behind
<1> HIDE DEF r
<1>4. SubSeq(r, 1, to - 1) \in Seq(Nat) /\ SubSeq(r, to, Len(r)) \in Seq(Nat)
  <2>1. Len(ids) \in Nat
    OBVIOUS
  <2>2. /\ to - 1 \in Int /\ to \in Int /\ Len(r) \in Int /\ 1 <= to /\ to - 1 <= Len(r)
    BY <1>3, <2>1
  <2>3. SubSeq(r, 1, to - 1) \in Seq(Nat)
    BY <1>3, <2>2, PartIsSeq, SMTT(30)
  <2>4. SubSeq(r, to, Len(r)) \in Seq(Nat)
    BY <1>3, <2>2, PartIsSeq, SMTT(30)
  <2> QED BY <2>3, <2>4
<1>5. SubSeq(r, 1, to - 1) \o <<id>> \o SubSeq(r, to, Len(r)) \in Seq(Nat)
  BY <1>4
<1> QED BY <1>5 DEF InsertAt, r

(* Every document a call leads to is a document; a change makes the next   *)
(* version of it and only the adoption of a proposal is noted.             *)
LEMMA ResultsAre ==
  ASSUME store \in Stores, NEW t \in Task, t.kind \in Changes, NEW s \in Results(t)
  PROVE  /\ s \in Stores
         /\ s.ver = store.ver + 1
         /\ s.adopted = IF t.kind = "adopt" THEN store.ver + 1 ELSE store.adopted
<1>1. /\ store.ids \in Seq(Nat) /\ store.past \in Seq(Seq(Nat)) /\ store.future \in Seq(Seq(Nat))
      /\ store.ver \in Nat /\ store.adopted \in Nat
  BY DEF Stores
<1>2. CASE t.kind = "edit"
  <2>1. s \in Edited
    BY <1>2 DEF Results
  <2>2. PICK ids \in Seq(Nat) : s = Commit(ids)
    BY <1>1, <2>1, WithoutIsSeq DEF Edited
  <2> QED BY <1>2, <2>2, Committed
<1>3. CASE t.kind = "new"
  <2>1. PICK ids \in {<<>>, <<0>>} : s = Document(ids, <<>>, <<>>)
    BY <1>3 DEF Results, Opened
  <2>2. ids \in Seq(Nat) /\ <<>> \in Seq(Seq(Nat))
    <3>1. <<>> \in Seq(Nat) /\ <<0>> \in Seq(Nat) /\ <<>> \in Seq(Seq(Nat))
      OBVIOUS
    <3> QED BY <2>1, <3>1, Zenon
  <2>3. /\ s = [ver |-> store.ver + 1, ids |-> ids, past |-> <<>>, future |-> <<>>,
                adopted |-> store.adopted]
        /\ store.ver + 1 \in Nat
    BY <1>1, <2>1 DEF Document
  <2> QED BY <1>1, <1>3, <2>2, <2>3 DEF Stores
<1>4. CASE t.kind = "replace"
  <2>1. s = Commit(<<>>) /\ <<>> \in Seq(Nat)
    BY <1>4 DEF Results, Replaced
  <2> QED BY <1>4, <2>1, Committed
<1>5. CASE t.kind = "adopt"
  <2>1. s = [Commit(<<0>>) EXCEPT !.adopted = store.ver + 1] /\ <<0>> \in Seq(Nat)
    BY <1>5 DEF Results, Adopted
  <2>2. Commit(<<0>>) \in Stores /\ Commit(<<0>>).ver = store.ver + 1
    BY <2>1, Committed
  <2> QED BY <1>1, <1>5, <2>1, <2>2 DEF Stores
<1>6. CASE t.kind = "fold"
  <2>1. s \in FoldedAt(t)
    BY <1>6 DEF Results
  <2> DEFINE n == NextStepId(store.ids)
             added == IF t.posed THEN <<n, n + 1>> ELSE <<n>>
  <2>2. n \in Nat /\ added \in Seq(Nat)
    <3>1. n \in Nat
      BY <1>1, NextStepIdIsNat
    <3> HIDE DEF n
    <3> QED BY <3>1
  <2>3. t.upTo \in 0 .. Len(store.ids)
        /\ s = Commit(SubSeq(store.ids, 1, t.upTo) \o added \o
                      SubSeq(store.ids, t.upTo + 1, Len(store.ids)))
    BY <2>1 DEF FoldedAt
  <2> HIDE DEF added
  <2>4. SubSeq(store.ids, 1, t.upTo) \o added \o
                      SubSeq(store.ids, t.upTo + 1, Len(store.ids)) \in Seq(Nat)
    <3>1. SubSeq(store.ids, 1, t.upTo) \in Seq(Nat)
          /\ SubSeq(store.ids, t.upTo + 1, Len(store.ids)) \in Seq(Nat)
      <4>1. /\ Len(store.ids) \in Nat /\ t.upTo \in Int /\ t.upTo + 1 \in Int
            /\ t.upTo <= Len(store.ids) /\ 1 <= t.upTo + 1
        BY <1>1, <2>3
      <4>2. SubSeq(store.ids, 1, t.upTo) \in Seq(Nat)
        BY <1>1, <4>1, PartIsSeq, SMTT(30)
      <4>3. SubSeq(store.ids, t.upTo + 1, Len(store.ids)) \in Seq(Nat)
        BY <1>1, <4>1, PartIsSeq, SMTT(30)
      <4> QED BY <4>2, <4>3
    <3> QED BY <2>2, <3>1
  <2> QED BY <1>6, <2>3, <2>4, Committed
<1>7. CASE t.kind = "push"
  <2>1. s = Commit(Append(store.ids, t.id)) /\ t.id \in Nat
    BY <1>7, Arguments DEF Results, Pushed
  <2>2. Append(store.ids, t.id) \in Seq(Nat)
    BY <1>1, <2>1
  <2> QED BY <1>7, <2>1, <2>2, Committed
<1>8. CASE t.kind = "move"
  <2>1. s \in Moved(t) /\ t.id \in Nat
    BY <1>8, Arguments DEF Results
  <2>2. PICK i \in DOMAIN store.ids :
          /\ t.to \in DOMAIN store.ids
          /\ s = Commit(InsertAt(RemoveAt(store.ids, i), t.to, t.id))
    BY <2>1 DEF Moved
  <2>3. InsertAt(RemoveAt(store.ids, i), t.to, t.id) \in Seq(Nat)
    <3>1. i \in 1 .. Len(store.ids) /\ t.to \in 1 .. Len(store.ids)
      BY <1>1, <2>2
    <3> QED BY <1>1, <2>1, <3>1, MovedIsSeq
  <2> QED BY <1>8, <2>2, <2>3, Committed
<1>9. CASE t.kind = "undo"
  <2>1. /\ s = Document(Last(store.past), Front(store.past), Append(store.future, store.ids))
        /\ store.past # <<>>
    BY <1>9 DEF Results, Undone
  <2>2. Last(store.past) \in Seq(Nat) /\ Front(store.past) \in Seq(Seq(Nat))
        /\ Append(store.future, store.ids) \in Seq(Seq(Nat))
    BY <1>1, <2>1 DEF Last, Front
  <2> QED BY <1>1, <1>9, <2>1, <2>2 DEF Document, Stores
<1>10. CASE t.kind = "redo"
  <2>1. /\ s = Document(Last(store.future), Append(store.past, store.ids), Front(store.future))
        /\ store.future # <<>>
    BY <1>10 DEF Results, Redone
  <2>2. Last(store.future) \in Seq(Nat) /\ Front(store.future) \in Seq(Seq(Nat))
        /\ Append(store.past, store.ids) \in Seq(Seq(Nat))
    BY <1>1, <2>1 DEF Last, Front
  <2> QED BY <1>1, <1>10, <2>1, <2>2 DEF Document, Stores
<1> QED BY <1>2, <1>3, <1>4, <1>5, <1>6, <1>7, <1>8, <1>9, <1>10 DEF Changes

-----------------------------------------------------------------------------
(* The handlers of the screens: what each leaves alone.  A draft is the    *)
(* state of the screens within a turn; the fields that say which calls are *)
(* under way are kept apart from those that say what is to be seen.        *)

Draft == Screens({Null} \union [firm : BOOLEAN, task : Task])

Sane(d) == d \in Draft /\ (d.due => d.playing) /\ d.unfinished <= d.generation

SameCalls(d, e) ==
  /\ e.shown = d.shown /\ e.docChange = d.docChange /\ e.moving = d.moving /\ e.after = d.after

SameFold(d, e) ==
  /\ SameCalls(d, e)
  /\ e.asking = d.asking /\ e.pending = d.pending /\ e.busy = d.busy

SameView(d, e) ==
  /\ e.shown = d.shown /\ e.at = d.at /\ e.full = d.full /\ e.frame = d.frame /\ e.seen = d.seen

SamePlay(d, e) == e.due = d.due /\ e.playing = d.playing

LEMMA DraftFields ==
  ASSUME NEW d \in Draft
  PROVE  /\ d.shown.ver \in Nat /\ d.shown.ids \in Seq(Nat) /\ d.at \in Nat \union {Null}
         /\ d.full \in BOOLEAN /\ d.playing \in BOOLEAN /\ d.due \in BOOLEAN
         /\ d.generation \in Nat /\ d.unfinished \in Nat /\ d.posed \in BOOLEAN
         /\ d.epoch \in Nat /\ d.undone \in Nat /\ d.asking \in Nat /\ d.busy \in Nat
         /\ d.docChange \in Nat /\ d.error \in BOOLEAN
         /\ d.pending # Null =>
              /\ d.pending.upTo \in Nat /\ d.pending.posed \in BOOLEAN /\ d.pending.base \in Nat
         /\ d.moving # Null => d.moving.id \in Nat
         /\ \A k \in d.after : /\ k.of \in Nat /\ k.wait \in Nat /\ k.task \in Task
                               /\ k.ok \in BOOLEAN
BY DEF Draft, Screens

LEMMA StopPlaybackIs ==
  ASSUME NEW d, Sane(d)
  PROVE  LET e == StopPlayback(d)
         IN /\ Sane(e) /\ SameFold(d, e) /\ SameView(d, e)
            /\ e.generation = d.generation /\ ~ e.due /\ e.ask = d.ask
<1> DEFINE e == StopPlayback(d)
<1>1. e \in Draft
  BY ZenonT(40) DEF Sane, Draft, Screens, StopPlayback
<1>2. SameCalls(d, e) /\ e.ask = d.ask
  BY DEF Sane, Draft, Screens, SameCalls, StopPlayback
<1>3. /\ SameView(d, e) /\ e.asking = d.asking /\ e.pending = d.pending /\ e.busy = d.busy
      /\ e.generation = d.generation /\ e.unfinished = d.unfinished /\ ~ e.due
  BY DEF Sane, Draft, Screens, SameView, StopPlayback
<1> QED BY <1>1, <1>2, <1>3 DEF Sane, SameFold

LEMMA InvalidateFoldIs ==
  ASSUME NEW d, Sane(d)
  PROVE  LET e == InvalidateFold(d)
         IN /\ Sane(e) /\ SameCalls(d, e) /\ SameView(d, e) /\ SamePlay(d, e)
            /\ e.asking = 0 /\ e.pending = Null /\ e.busy = d.busy
            /\ e.generation = d.generation /\ e.ask = d.ask
BY ZenonT(40) DEF Sane, Draft, Screens, SameCalls, SameView, SamePlay, InvalidateFold

LEMMA FinishBusyIs ==
  ASSUME NEW d, Sane(d), NEW token
  PROVE  LET e == FinishBusy(d, token)
         IN /\ Sane(e) /\ SameCalls(d, e) /\ SameView(d, e) /\ SamePlay(d, e)
            /\ e.asking = d.asking /\ e.pending = d.pending
            /\ e.busy = IF d.busy = token THEN 0 ELSE d.busy
            /\ e.generation = d.generation /\ e.ask = d.ask
<1> DEFINE e == FinishBusy(d, token)
<1>1. e \in Draft
  <2>1. \A b \in Nat : [d EXCEPT !.busy = b] \in Draft
    BY DEF Sane, Draft, Screens
  <2>2. PICK b : b = IF d.busy = token THEN 0 ELSE d.busy
    OBVIOUS
  <2>3. b \in Nat /\ e = [d EXCEPT !.busy = b]
    BY <2>2 DEF Sane, Draft, Screens, FinishBusy
  <2> QED BY <2>1, <2>3
<1>2. SameCalls(d, e) /\ e.ask = d.ask
  BY DEF Sane, Draft, Screens, SameCalls, FinishBusy
<1>3. /\ SameView(d, e) /\ SamePlay(d, e) /\ e.asking = d.asking /\ e.pending = d.pending
      /\ e.generation = d.generation /\ e.unfinished = d.unfinished
  BY DEF Sane, Draft, Screens, SameView, SamePlay, FinishBusy
<1>4. e.busy = IF d.busy = token THEN 0 ELSE d.busy
  BY DEF Sane, Draft, Screens, FinishBusy
<1> QED BY <1>1, <1>2, <1>3, <1>4 DEF Sane, SamePlay

LEMMA ClearAngleHistoryIs ==
  ASSUME NEW d, Sane(d)
  PROVE  LET e == ClearAngleHistory(d)
         IN /\ Sane(e) /\ SameFold(d, e) /\ SameView(d, e) /\ SamePlay(d, e)
            /\ e.generation = d.generation /\ e.ask = d.ask /\ e.error = d.error
            /\ e.posed = d.posed /\ e.epoch = d.epoch
<1> DEFINE e == ClearAngleHistory(d)
<1>1. e \in Draft
  BY ZenonT(40) DEF Sane, Draft, Screens, ClearAngleHistory
<1>2. SameCalls(d, e) /\ e.ask = d.ask
  BY DEF Sane, Draft, Screens, SameCalls, ClearAngleHistory
<1>3. /\ SameView(d, e) /\ SamePlay(d, e) /\ e.asking = d.asking /\ e.pending = d.pending
      /\ e.busy = d.busy /\ e.generation = d.generation /\ e.unfinished = d.unfinished
  BY DEF Sane, Draft, Screens, SameView, SamePlay, ClearAngleHistory
<1>4. e.error = d.error /\ e.posed = d.posed /\ e.epoch = d.epoch
  BY DEF Sane, Draft, Screens, ClearAngleHistory
<1> QED BY <1>1, <1>2, <1>3, <1>4 DEF Sane, SamePlay, SameFold

LEMMA CancelIntentIs ==
  ASSUME NEW d, Sane(d)
  PROVE  LET e == CancelIntent(d)
         IN /\ Sane(e) /\ SameFold(d, e) /\ SameView(d, e) /\ SamePlay(d, e)
            /\ e.generation = d.generation + 1 /\ e.ask = d.ask
<1>1. d.generation + 1 \in Nat /\ 0 <= d.generation + 1
  BY DEF Sane, Draft, Screens
<1> QED BY <1>1, ZenonT(40) DEF Sane, Draft, Screens, SameFold, SameCalls, SameView, SamePlay, CancelIntent

LEMMA NewIntentIs ==
  ASSUME NEW d, Sane(d)
  PROVE  LET e == NewIntent(d)
         IN /\ Sane(e) /\ SameFold(d, e) /\ SameView(d, e) /\ SamePlay(d, e)
            /\ e.generation = d.generation + 1 /\ e.ask = d.ask
<1> DEFINE e == NewIntent(d)
<1>1. d.generation + 1 \in Nat
  BY DEF Sane, Draft, Screens
<1>2. e \in Draft
  BY <1>1 DEF Sane, Draft, Screens, NewIntent
<1>3. SameFold(d, e) /\ e.ask = d.ask
  BY DEF Sane, Draft, Screens, SameFold, SameCalls, NewIntent
<1>4. SameView(d, e) /\ SamePlay(d, e) /\ e.generation = d.generation + 1
      /\ e.unfinished = d.generation + 1
  BY DEF Sane, Draft, Screens, SameView, SamePlay, NewIntent
<1>5. e.unfinished <= e.generation
  BY <1>1, <1>4
<1> QED BY <1>2, <1>3, <1>4, <1>5 DEF Sane, SamePlay

(* Only what the screens say of the last picture, or of an error, changes. *)
LEMMA MissedIs ==
  ASSUME NEW d, Sane(d)
  PROVE  LET e == Missed(d)
         IN /\ Sane(e) /\ SameFold(d, e) /\ SamePlay(d, e)
            /\ e.at = d.at /\ e.full = d.full /\ e.seen = "missed"
            /\ e.generation = d.generation /\ e.ask = d.ask
BY SMTT(30) DEF Sane, Draft, Screens, SameFold, SameCalls, SamePlay, Missed

LEMMA FailIs ==
  ASSUME NEW d, Sane(d)
  PROVE  LET e == Fail(d)
         IN /\ Sane(e) /\ SameFold(d, e) /\ SameView(d, e) /\ SamePlay(d, e)
            /\ e.generation = d.generation /\ e.ask = d.ask
BY ZenonT(40) DEF Sane, Draft, Screens, SameFold, SameCalls, SameView, SamePlay, Fail

Pictured == [ver : Nat, upTo : Nat, full : BOOLEAN]

LEMMA DrawIs ==
  ASSUME NEW d, Sane(d), NEW picture \in Pictured, NEW of
  PROVE  LET e == Draw(d, picture, of)
         IN /\ Sane(e) /\ SameFold(d, e) /\ SamePlay(d, e)
            /\ e.at = d.at /\ e.full = d.full /\ e.frame = picture
            /\ e.seen = IF of = d.shown.ver THEN "drawn" ELSE "late"
            /\ e.generation = d.generation /\ e.ask = d.ask
<1> DEFINE e == Draw(d, picture, of)
<1>1. e \in Draft
  <2>1. \A s \in {"drawn", "late", "missed"} : [d EXCEPT !.frame = picture, !.seen = s] \in Draft
    BY ZenonT(40) DEF Sane, Draft, Screens, Pictured
  <2>2. PICK s : s = IF of = d.shown.ver THEN "drawn" ELSE "late"
    OBVIOUS
  <2>3. s \in {"drawn", "late", "missed"} /\ e = [d EXCEPT !.frame = picture, !.seen = s]
    BY <2>2 DEF Draw
  <2> QED BY <2>1, <2>3
<1>2. SameFold(d, e) /\ e.ask = d.ask
  BY DEF Sane, Draft, Screens, SameFold, SameCalls, Draw
<1>3. /\ SamePlay(d, e) /\ e.at = d.at /\ e.full = d.full /\ e.frame = picture
      /\ e.generation = d.generation /\ e.unfinished = d.unfinished
  BY DEF Sane, Draft, Screens, SamePlay, Draw
<1>4. e.seen = IF of = d.shown.ver THEN "drawn" ELSE "late"
  BY DEF Sane, Draft, Screens, Draw
<1> QED BY <1>1, <1>2, <1>3, <1>4 DEF Sane, SamePlay
(* The smaller of two numbers.                                             *)
LEMMA MinIs ==
  ASSUME NEW a \in Nat, NEW b \in Nat
  PROVE  Min({a, b}) \in Nat /\ Min({a, b}) = IF a <= b THEN a ELSE b
BY DEF Min

LEMMA PlaceIs ==
  ASSUME NEW d, Sane(d)
  PROVE  /\ Total(d) \in Nat /\ Position(d) \in Nat /\ Whole(d) \in BOOLEAN
         /\ FoldInsertAt(d) \in Nat /\ Wanted(d) \in Pictured
<1>1. Total(d) \in Nat /\ Position(d) \in Nat /\ Whole(d) \in BOOLEAN /\ d.shown.ver \in Nat
  BY DraftFields DEF Sane, Total, Position, Whole
<1>2. Min({Position(d), Total(d)}) \in Nat
  BY <1>1, MinIs
<1>3. FoldInsertAt(d) \in Nat
  BY <1>1, <1>2 DEF FoldInsertAt, Position
<1> QED BY <1>1, <1>2, <1>3 DEF Wanted, Pictured

(* What is wanted depends on the document, the position and the step only. *)
LEMMA SamePlace ==
  ASSUME NEW d, NEW e, e.shown = d.shown, e.at = d.at, e.full = d.full
  PROVE  /\ Total(e) = Total(d) /\ Position(e) = Position(d) /\ Whole(e) = Whole(d)
         /\ Wanted(e) = Wanted(d)
BY DEF Total, Position, Whole, Wanted

(* A call for the picture that is wanted now.                              *)
PictureOf(d, t) ==
  /\ t \in Task /\ t.kind \in {"replay", "pose"}
  /\ t.upTo = Position(d) /\ t.full = Whole(d) /\ t.gen = d.generation /\ t.of = d.shown.ver

AsksPicture(d) == d.ask # Null /\ PictureOf(d, d.ask.task)

LEMMA SamePicture ==
  ASSUME NEW d, NEW e, SameView(d, e), e.generation = d.generation, NEW t, PictureOf(d, t)
  PROVE  PictureOf(e, t)
BY SamePlace DEF SameView, PictureOf

LEMMA TasksArePictures ==
  ASSUME NEW d, Sane(d)
  PROVE  /\ \A over \in BOOLEAN : PictureOf(d, ReplayTask(d, over))
         /\ PictureOf(d, PoseTask(d))
         /\ PictureOf(d, [PoseTask(d) EXCEPT !.clears = d.generation])
<1>1. Position(d) \in Nat /\ Whole(d) \in BOOLEAN /\ d.generation \in Nat /\ d.shown.ver \in Nat
  BY PlaceIs, DraftFields DEF Sane
<1>2. ASSUME NEW over \in BOOLEAN PROVE PictureOf(d, ReplayTask(d, over))
  BY <1>1 DEF PictureOf, ReplayTask, Task
<1>3. PictureOf(d, PoseTask(d))
  BY <1>1 DEF PictureOf, PoseTask, Task
<1>4. PictureOf(d, [PoseTask(d) EXCEPT !.clears = d.generation])
  BY <1>1 DEF PictureOf, PoseTask, Task
<1> QED BY <1>2, <1>3, <1>4

LEMMA CallIs ==
  ASSUME NEW d, Sane(d), NEW t \in Task
  PROVE  LET e == Call(d, t)
         IN /\ Sane(e) /\ SameFold(d, e) /\ SameView(d, e) /\ SamePlay(d, e)
            /\ e.generation = d.generation
            /\ e.ask = [firm |-> TRUE, task |-> t] /\ e.ask # Null
<1> DEFINE e == Call(d, t)
<1>1. e \in Draft
  BY ZenonT(40) DEF Sane, Draft, Screens, Call
<1>2. SameFold(d, e) /\ e.ask = [firm |-> TRUE, task |-> t]
  BY DEF Sane, Draft, Screens, SameFold, SameCalls, Call
<1>3. SameView(d, e) /\ SamePlay(d, e) /\ e.generation = d.generation /\ e.unfinished = d.unfinished
  BY DEF Sane, Draft, Screens, SameView, SamePlay, Call
<1>4. e.ask # Null
  <2>1. e.ask \in [firm : BOOLEAN, task : Task]
    BY <1>2
  <2> HIDE DEF e
  <2> QED BY <2>1, DeskValues, Zenon
<1> QED BY <1>1, <1>2, <1>3, <1>4 DEF Sane, SamePlay

LEMMA CallLatestIs ==
  ASSUME NEW d, Sane(d), NEW t \in Task
  PROVE  LET e == CallLatest(d, t)
         IN /\ Sane(e) /\ SameFold(d, e) /\ SameView(d, e) /\ SamePlay(d, e)
            /\ e.generation = d.generation
            /\ e.ask = [firm |-> FALSE, task |-> t] /\ e.ask # Null
<1> DEFINE e == CallLatest(d, t)
<1>1. e \in Draft
  BY ZenonT(40) DEF Sane, Draft, Screens, CallLatest
<1>2. SameFold(d, e) /\ e.ask = [firm |-> FALSE, task |-> t]
  BY DEF Sane, Draft, Screens, SameFold, SameCalls, CallLatest
<1>3. SameView(d, e) /\ SamePlay(d, e) /\ e.generation = d.generation /\ e.unfinished = d.unfinished
  BY DEF Sane, Draft, Screens, SameView, SamePlay, CallLatest
<1>4. e.ask # Null
  <2>1. e.ask \in [firm : BOOLEAN, task : Task]
    BY <1>2
  <2> HIDE DEF e
  <2> QED BY <2>1, DeskValues, Zenon
<1> QED BY <1>1, <1>2, <1>3, <1>4 DEF Sane, SamePlay

(* The timer, and the marks of bent creases, say nothing of the picture.   *)
LEMMA TimerOffIs ==
  ASSUME NEW d, Sane(d)
  PROVE  LET e == [d EXCEPT !.timer = FALSE]
         IN /\ Sane(e) /\ SameFold(d, e) /\ SameView(d, e) /\ SamePlay(d, e)
            /\ e.generation = d.generation /\ e.ask = d.ask
<1> DEFINE e == [d EXCEPT !.timer = FALSE]
<1>1. e \in Draft
  BY ZenonT(40) DEF Sane, Draft, Screens
<1>2. SameFold(d, e) /\ e.ask = d.ask
  BY DEF Sane, Draft, Screens, SameFold, SameCalls
<1>3. SameView(d, e) /\ SamePlay(d, e) /\ e.generation = d.generation /\ e.unfinished = d.unfinished
  BY DEF Sane, Draft, Screens, SameView, SamePlay
<1> QED BY <1>1, <1>2, <1>3 DEF Sane, SamePlay

LEMMA AskPoseIs ==
  ASSUME NEW d, Sane(d)
  PROVE  LET e == AskPose(d)
         IN /\ Sane(e) /\ SameFold(d, e) /\ SameView(d, e) /\ SamePlay(d, e)
            /\ e.generation = d.generation /\ AsksPicture(e) /\ e.ask.firm
<1> DEFINE f == [d EXCEPT !.timer = FALSE]
           t == PoseTask(d)
           e == Call(f, t)
<1>1. Sane(f) /\ SameFold(d, f) /\ SameView(d, f) /\ SamePlay(d, f) /\ f.generation = d.generation
  BY TimerOffIs
<1>2. PictureOf(d, t) /\ t \in Task
  BY TasksArePictures DEF PictureOf
<1>3. PictureOf(f, t)
  <2> HIDE DEF f, t
  <2> QED BY <1>1, <1>2, SamePicture
<1> HIDE DEF f, t
<1>4. /\ Sane(e) /\ SameFold(f, e) /\ SameView(f, e) /\ SamePlay(f, e)
      /\ e.generation = f.generation /\ e.ask = [firm |-> TRUE, task |-> t] /\ e.ask # Null
  BY <1>1, <1>2, CallIs
<1> HIDE DEF e
<1>5. PictureOf(e, t)
  BY <1>3, <1>4, SamePicture
<1>6. SameFold(d, e) /\ SameView(d, e) /\ SamePlay(d, e) /\ AsksPicture(e) /\ e.ask.firm
  BY <1>1, <1>4, <1>5 DEF SameFold, SameCalls, SameView, SamePlay, AsksPicture
<1> QED BY <1>1, <1>4, <1>6 DEF AskPose, e, f, t

(* The picture is right, or the right one is asked for.                    *)
Shows(d) == (d.frame = Wanted(d) /\ d.seen = "drawn") \/ AsksPicture(d)

(* Where there are no steps the position is the end of the sequence.       *)
Placed(d) == Total(d) = 0 => Position(d) = 0 /\ Whole(d)

LEMMA SameShows ==
  ASSUME NEW d, NEW e, SameView(d, e), e.generation = d.generation
  PROVE  /\ Placed(d) => Placed(e)
         /\ e.ask = d.ask /\ AsksPicture(d) => AsksPicture(e)
         /\ e.ask = d.ask /\ Shows(d) => Shows(e)
BY SamePlace, SamePicture DEF SameView, Placed, Shows, AsksPicture

LEMMA FullIs ==
  ASSUME NEW d, Sane(d)
  PROVE  LET e == [d EXCEPT !.full = TRUE]
         IN /\ Sane(e) /\ SameFold(d, e) /\ SamePlay(d, e) /\ e.ask = d.ask
            /\ e.at = d.at /\ e.full /\ e.frame = d.frame /\ e.seen = d.seen
            /\ e.generation = d.generation
<1> DEFINE e == [d EXCEPT !.full = TRUE]
<1>1. e \in Draft
  BY DEF Sane, Draft, Screens
<1>2. SameFold(d, e) /\ e.ask = d.ask
  BY DEF Sane, Draft, Screens, SameFold, SameCalls
<1>3. /\ e.at = d.at /\ e.full /\ e.frame = d.frame /\ e.seen = d.seen /\ SamePlay(d, e)
      /\ e.generation = d.generation /\ e.unfinished = d.unfinished
  BY DEF Sane, Draft, Screens, SamePlay
<1> QED BY <1>1, <1>2, <1>3 DEF Sane, SamePlay

(* replayRuntime.ts:213-260: drawn at the end of the sequence, else asked. *)
LEMMA SyncSequenceIs ==
  ASSUME NEW d, Sane(d)
  PROVE  LET e == SyncSequence(d)
         IN /\ Sane(e) /\ SameFold(d, e) /\ SamePlay(d, e) /\ e.at = d.at
            /\ e.generation = d.generation /\ Shows(e)
            /\ e.ask = d.ask \/ AsksPicture(e)
<1>1. CASE d.at = Null
  <2> DEFINE e == Draw(d, Wanted(d), d.shown.ver)
  <2>1. /\ Sane(e) /\ SameFold(d, e) /\ SamePlay(d, e) /\ e.at = d.at /\ e.full = d.full
        /\ e.frame = Wanted(d) /\ e.seen = "drawn" /\ e.generation = d.generation
        /\ e.ask = d.ask
    BY PlaceIs, DrawIs
  <2> HIDE DEF e
  <2>2. Wanted(e) = Wanted(d)
    BY <2>1, SamePlace DEF SameFold, SameCalls
  <2>3. SyncSequence(d) = e
    BY <1>1 DEF SyncSequence, e
  <2> QED BY <2>1, <2>2, <2>3 DEF Shows
<1>2. CASE d.at # Null
  <2> DEFINE f == [d EXCEPT !.full = TRUE]
             t == ReplayTask(f, FALSE)
             e == CallLatest(f, t)
  <2>1. Sane(f) /\ SameFold(d, f) /\ SamePlay(d, f) /\ f.at = d.at /\ f.generation = d.generation
    BY FullIs
  <2> HIDE DEF f
  <2>2. PictureOf(f, t) /\ t \in Task
    BY <2>1, TasksArePictures DEF PictureOf
  <2> HIDE DEF t
  <2>3. /\ Sane(e) /\ SameFold(f, e) /\ SameView(f, e) /\ SamePlay(f, e)
        /\ e.generation = f.generation
        /\ e.ask = [firm |-> FALSE, task |-> t] /\ e.ask # Null
    BY <2>1, <2>2, CallLatestIs
  <2> HIDE DEF e
  <2>4. PictureOf(e, t)
    BY <2>2, <2>3, SamePicture
  <2>5. AsksPicture(e) /\ Shows(e)
    BY <2>3, <2>4 DEF AsksPicture, Shows
  <2>6. SameFold(d, e) /\ SamePlay(d, e) /\ e.at = d.at
    BY <2>1, <2>3 DEF SameFold, SameCalls, SamePlay, SameView
  <2>7. SyncSequence(d) = e
    BY <1>2 DEF SyncSequence, e, t, f
  <2> QED BY <2>1, <2>3, <2>5, <2>6, <2>7
<1> QED BY <1>1, <1>2

(* poseRuntime.ts:591-612.                                                 *)
LEMMA SyncPoseIs ==
  ASSUME NEW d, Sane(d)
  PROVE  LET e == SyncPose(d)
         IN /\ Sane(e) /\ SameFold(d, e) /\ SameView(d, e) /\ SamePlay(d, e)
            /\ e.generation \in {d.generation, d.generation + 1}
            /\ AsksPicture(e)
<1> DEFINE f == IF d.posed THEN CancelIntent(d) ELSE d
           e == AskPose(f)
<1>1. /\ Sane(f) /\ SameFold(d, f) /\ SameView(d, f) /\ SamePlay(d, f)
      /\ f.generation \in {d.generation, d.generation + 1}
  <2>1. CASE d.posed
    BY <2>1, CancelIntentIs
  <2>2. CASE ~ d.posed
    BY <2>2 DEF SameFold, SameCalls, SameView, SamePlay
  <2> QED BY <2>1, <2>2
<1> HIDE DEF f
<1>2. /\ Sane(e) /\ SameFold(f, e) /\ SameView(f, e) /\ SamePlay(f, e)
      /\ e.generation = f.generation /\ AsksPicture(e)
  BY <1>1, AskPoseIs
<1> HIDE DEF e
<1>3. SameFold(d, e) /\ SameView(d, e) /\ SamePlay(d, e)
  BY <1>1, <1>2 DEF SameFold, SameCalls, SameView, SamePlay
<1>4. e = SyncPose(d)
  BY DEF SyncPose, e, f
<1> QED BY <1>1, <1>2, <1>3, <1>4

(* commandService.ts:164-246.                                              *)
LEMMA ApplyViewIs ==
  ASSUME NEW d, Sane(d), NEW s \in Stores
  PROVE  LET e == ApplyView(d, s)
         IN /\ Sane(e) /\ SamePlay(d, e)
            /\ e.shown = [ver |-> s.ver, ids |-> s.ids]
            /\ e.docChange = d.docChange /\ e.moving = d.moving /\ e.after = d.after
            /\ e.asking = d.asking /\ e.busy = d.busy /\ e.pending = Null
            /\ e.generation = d.generation /\ e.ask = d.ask
            /\ Placed(e)
<1> DEFINE a == IF s.ids = <<>> \/ d.at = Null THEN Null ELSE Min({d.at, Len(s.ids)})
           v == [ver |-> s.ver, ids |-> s.ids]
           e == [d EXCEPT !.shown = v, !.at = a, !.pending = Null, !.error = FALSE]
<1>1. a \in Nat \union {Null} /\ (s.ids = <<>> => a = Null)
  <2>1. d.at \in Nat \union {Null} /\ Len(s.ids) \in Nat
    BY DraftFields DEF Sane, Stores
  <2>2. d.at # Null => Min({d.at, Len(s.ids)}) \in Nat
    BY <2>1, MinIs
  <2> QED BY <2>1, <2>2
<1>2. v \in [ver : Nat, ids : Seq(Nat)]
  BY DEF Stores
<1>3. e = ApplyView(d, s)
  BY DEF ApplyView
<1> HIDE DEF a, v
<1>4. e \in Draft
  BY <1>1, <1>2, ZenonT(40) DEF Sane, Draft, Screens
<1>5. /\ e.shown = v /\ e.at = a /\ e.docChange = d.docChange /\ e.moving = d.moving
      /\ e.after = d.after /\ e.asking = d.asking /\ e.busy = d.busy /\ e.pending = Null
  BY DEF Sane, Draft, Screens
<1>6. /\ SamePlay(d, e) /\ e.ask = d.ask
      /\ e.generation = d.generation /\ e.unfinished = d.unfinished
  BY DEF Sane, Draft, Screens, SamePlay
<1>7. Placed(e)
  <2> SUFFICES ASSUME Total(e) = 0 PROVE Position(e) = 0 /\ Whole(e)
    BY DEF Placed
  <2>1. Len(s.ids) = 0 /\ s.ids \in Seq(Nat)
    BY <1>5 DEF Total, v, Stores
  <2>2. s.ids = <<>>
    BY <2>1
  <2> QED BY <1>1, <1>5, <2>2 DEF Position, Whole
<1> QED BY <1>3, <1>4, <1>5, <1>6, <1>7 DEF Sane, SamePlay, v

(* What a new document resets: commandService.ts:268-302.                  *)
LEMMA AfreshIs ==
  ASSUME NEW d, Sane(d)
  PROVE  LET e == Afresh(d)
         IN /\ Sane(e) /\ SameCalls(d, e)
            /\ e.asking = d.asking /\ e.busy = 0 /\ e.pending = d.pending
            /\ e.generation = d.generation + 1 /\ e.ask = d.ask
            /\ ~ e.due /\ e.frame = Wanted(e) /\ e.seen = "drawn" /\ Placed(e)
<1> DEFINE n == ClearAngleHistory(StopPlayback(d))
           f == [n EXCEPT !.epoch = @ + 1, !.generation = @ + 1, !.timer = FALSE,
                          !.posed = FALSE, !.at = Null, !.full = TRUE, !.busy = 0]
           p == [ver |-> d.shown.ver, upTo |-> Total(d), full |-> TRUE]
           e == Draw(f, p, d.shown.ver)
<1>1. /\ Sane(n) /\ SameFold(d, n) /\ n.generation = d.generation /\ n.ask = d.ask /\ ~ n.due
  <2> DEFINE m == StopPlayback(d)
  <2>1. /\ Sane(m) /\ SameFold(d, m) /\ m.generation = d.generation /\ ~ m.due /\ m.ask = d.ask
    BY StopPlaybackIs
  <2> HIDE DEF m
  <2> DEFINE k == ClearAngleHistory(m)
  <2>2. /\ Sane(k) /\ SameFold(m, k) /\ SamePlay(m, k) /\ k.generation = m.generation
        /\ k.ask = m.ask
    BY <2>1, ClearAngleHistoryIs
  <2> HIDE DEF k
  <2>3. k = n
    BY DEF k, m
  <2> QED BY <2>1, <2>2, <2>3 DEF SameFold, SameCalls, SamePlay
<1> HIDE DEF n
<1>2. n.epoch + 1 \in Nat /\ n.generation + 1 \in Nat /\ n.unfinished <= n.generation + 1
  BY <1>1, DraftFields DEF Sane
<1>3. f \in Draft
  <2> DEFINE m == [n EXCEPT !.epoch = @ + 1, !.generation = @ + 1, !.timer = FALSE,
                            !.posed = FALSE]
             k == [m EXCEPT !.at = Null, !.full = TRUE, !.busy = 0]
  <2>1. m \in Draft
    <3>1. PICK g \in Nat, h \in Nat : g = n.epoch + 1 /\ h = n.generation + 1
      BY <1>2
    <3>2. m = [n EXCEPT !.epoch = g, !.generation = h, !.timer = FALSE, !.posed = FALSE]
      BY <3>1
    <3>3. n \in Draft
      BY <1>1 DEF Sane
    <3>4. [n EXCEPT !.epoch = g, !.generation = h, !.timer = FALSE, !.posed = FALSE] \in Draft
      BY <3>3, ZenonT(40) DEF Draft, Screens
    <3> QED BY <3>2, <3>4
  <2>2. f = k
    BY <1>1 DEF Sane, Draft, Screens
  <2> HIDE DEF m
  <2>3. k \in Draft
    BY <2>1 DEF Draft, Screens
  <2> QED BY <2>2, <2>3
<1>4. /\ SameCalls(n, f) /\ f.asking = n.asking /\ f.pending = n.pending /\ f.busy = 0
      /\ f.ask = n.ask
  BY <1>1 DEF Sane, Draft, Screens, SameCalls
<1>5. /\ SamePlay(n, f) /\ f.at = Null /\ f.full /\ f.generation = n.generation + 1
      /\ f.unfinished = n.unfinished
  BY <1>1 DEF Sane, Draft, Screens, SamePlay
<1>6. Sane(f)
  BY <1>1, <1>2, <1>3, <1>5 DEF Sane, SamePlay
<1> HIDE DEF f
<1>7. Total(d) \in Nat /\ d.shown.ver \in Nat /\ p \in Pictured
  BY PlaceIs, DraftFields DEF Sane, Pictured
<1>8. /\ Sane(e) /\ SameFold(f, e) /\ SamePlay(f, e) /\ e.at = Null /\ e.full /\ e.frame = p
      /\ e.seen = IF d.shown.ver = f.shown.ver THEN "drawn" ELSE "late"
      /\ e.generation = f.generation /\ e.ask = f.ask
  BY <1>5, <1>6, <1>7, DrawIs
<1> HIDE DEF e
<1>9. SameCalls(d, e) /\ e.seen = "drawn"
  BY <1>1, <1>4, <1>8 DEF SameFold, SameCalls
<1>10. Position(e) = Total(d) /\ Whole(e) /\ Total(e) = Total(d)
  BY <1>8, <1>9 DEF SameCalls, Position, Whole, Total
<1>11. Wanted(e) = p /\ Placed(e)
  <2>1. Min({Total(d), Total(d)}) = Total(d)
    BY <1>7, MinIs
  <2>2. Whole(e) = TRUE
    BY <1>8 DEF Whole
  <2> QED BY <1>9, <1>10, <2>1, <2>2 DEF Wanted, SameCalls, Placed
<1>12. e = Afresh(d)
  BY DEF Afresh, e, f, n
<1> QED BY <1>1, <1>4, <1>5, <1>8, <1>9, <1>11, <1>12 DEF SameFold, SamePlay

(* The document of an answer is shown, and its picture drawn or asked for. *)
LEMMA ShowResultIs ==
  ASSUME NEW d, Sane(d), d.ask = Null, NEW s \in Stores, NEW isNew \in BOOLEAN
  PROVE  LET e == ShowResult(d, s, isNew)
         IN /\ Sane(e)
            /\ e.shown = [ver |-> s.ver, ids |-> s.ids]
            /\ e.docChange = d.docChange /\ e.moving = d.moving /\ e.after = d.after
            /\ e.asking = d.asking /\ e.busy \in {d.busy, 0} /\ e.pending = Null
            /\ d.generation <= e.generation
            /\ e.ask = Null \/ AsksPicture(e)
            /\ Shows(e) /\ Placed(e)
<1> DEFINE v == ApplyView(d, s)
           n == IF isNew THEN Afresh(v) ELSE v
           Arrived(e) == /\ Sane(e)
                         /\ e.shown = [ver |-> s.ver, ids |-> s.ids]
                         /\ e.docChange = d.docChange /\ e.moving = d.moving /\ e.after = d.after
                         /\ e.asking = d.asking /\ e.busy \in {d.busy, 0} /\ e.pending = Null
                         /\ d.generation <= e.generation
                         /\ Placed(e)
<1>1. Arrived(v) /\ v.ask = Null
  <2>1. d.generation \in Nat
    BY DraftFields DEF Sane
  <2> QED BY <2>1, ApplyViewIs
<1> HIDE DEF v
<1>2. Arrived(n) /\ n.ask = Null /\ (isNew => n.frame = Wanted(n) /\ n.seen = "drawn")
  <2>1. CASE isNew
    <3> DEFINE f == Afresh(v)
    <3>1. /\ Sane(f) /\ SameCalls(v, f)
          /\ f.asking = v.asking /\ f.busy = 0 /\ f.pending = v.pending
          /\ f.generation = v.generation + 1 /\ f.ask = v.ask
          /\ f.frame = Wanted(f) /\ f.seen = "drawn" /\ Placed(f)
      BY <1>1, AfreshIs
    <3> HIDE DEF f
    <3>2. n = f
      BY <2>1 DEF f
    <3>3. d.generation \in Nat /\ v.generation \in Nat
      BY <1>1, DraftFields DEF Sane
    <3> QED BY <1>1, <3>1, <3>2, <3>3 DEF SameCalls
  <2>2. CASE ~ isNew
    BY <1>1, <2>2
  <2> QED BY <2>1, <2>2
<1> HIDE DEF n
<1>3. CASE s.ids # <<>>
  <2> DEFINE e == SyncSequence(n)
  <2>1. /\ Sane(e) /\ SameFold(n, e) /\ e.at = n.at
        /\ e.generation = n.generation /\ Shows(e)
        /\ e.ask = n.ask \/ AsksPicture(e)
    BY <1>2, SyncSequenceIs
  <2> HIDE DEF e
  <2>2. Placed(e)
    <3>1. Total(e) # 0
      BY <1>2, <1>3, <2>1 DEF SameFold, SameCalls, Total, Stores
    <3> QED BY <3>1 DEF Placed
  <2>3. ShowResult(d, s, isNew) = e
    BY <1>3 DEF ShowResult, e, n, v
  <2> QED BY <1>2, <2>1, <2>2, <2>3 DEF SameFold, SameCalls
<1>4. CASE s.ids = <<>> /\ isNew
  <2>1. ShowResult(d, s, isNew) = n
    BY <1>4 DEF ShowResult, n, v
  <2> QED BY <1>2, <1>4, <2>1 DEF Shows
<1>5. CASE s.ids = <<>> /\ ~ isNew
  <2> DEFINE e == SyncPose(n)
  <2>1. /\ Sane(e) /\ SameFold(n, e) /\ SameView(n, e)
        /\ e.generation \in {n.generation, n.generation + 1} /\ AsksPicture(e)
    BY <1>2, SyncPoseIs
  <2> HIDE DEF e
  <2>2. Placed(e)
    BY <1>2, <2>1, SamePlace DEF SameView, Placed
  <2>3. ShowResult(d, s, isNew) = e
    BY <1>5 DEF ShowResult, e, n, v
  <2>4. d.generation \in Nat /\ n.generation \in Nat
    BY <1>2, DraftFields DEF Sane
  <2> QED BY <1>2, <2>1, <2>2, <2>3, <2>4 DEF SameFold, SameCalls, Shows
<1> QED BY <1>3, <1>4, <1>5

Jump(d) == d.due /\ d.at = 0 /\ Total(d) # 0

(* What is to be seen is as it was, or asked for again.                    *)
Keeps(d, e) ==
  \/ AsksPicture(e)
  \/ /\ e.ask = d.ask /\ Wanted(e) = Wanted(d) /\ e.frame = d.frame /\ e.seen = d.seen
     /\ Jump(d) => Jump(e)

(* replayRuntime.ts:184-211.                                               *)
LEMMA SelectStepIs ==
  ASSUME NEW d, Sane(d), NEW step \in Nat \union {Null}, Placed(d),
         step = 0 => ~ d.due
  PROVE  LET e == SelectStep(d, step)
         IN /\ Sane(e) /\ SameCalls(d, e) /\ e.asking = 0 /\ e.pending = Null
            /\ e.busy = d.busy /\ e.generation = d.generation
            /\ Placed(e) /\ Keeps(d, e)
<1> DEFINE s == InvalidateFold(StopPlayback(d))
<1>1. /\ Sane(s) /\ SameCalls(d, s) /\ s.asking = 0 /\ s.pending = Null /\ s.busy = d.busy
      /\ s.generation = d.generation /\ SameView(d, s) /\ ~ s.due /\ s.ask = d.ask
  <2> DEFINE m == StopPlayback(d)
  <2>1. /\ Sane(m) /\ SameFold(d, m) /\ SameView(d, m) /\ m.generation = d.generation
        /\ ~ m.due /\ m.ask = d.ask
    BY StopPlaybackIs
  <2> HIDE DEF m
  <2> DEFINE k == InvalidateFold(m)
  <2>2. /\ Sane(k) /\ SameCalls(m, k) /\ SameView(m, k) /\ SamePlay(m, k)
        /\ k.asking = 0 /\ k.pending = Null /\ k.busy = m.busy
        /\ k.generation = m.generation /\ k.ask = m.ask
    BY <2>1, InvalidateFoldIs
  <2> HIDE DEF k
  <2>3. k = s
    BY DEF k, m
  <2> QED BY <2>1, <2>2, <2>3 DEF SameFold, SameCalls, SamePlay, SameView
<1> HIDE DEF s
<1>2. \A a \in Nat \union {Null} :
        LET n == [s EXCEPT !.at = a, !.full = TRUE]
        IN /\ Sane(n) /\ SameFold(s, n) /\ n.at = a /\ n.full
           /\ n.generation = s.generation /\ n.ask = s.ask /\ n.frame = s.frame
           /\ n.seen = s.seen
  <2> TAKE a \in Nat \union {Null}
  <2> DEFINE n == [s EXCEPT !.at = a, !.full = TRUE]
  <2>1. n \in Draft
    <3>1. s \in Draft
      BY <1>1 DEF Sane
    <3> QED BY <3>1, ZenonT(40) DEF Draft, Screens
  <2>2. SameFold(s, n) /\ n.ask = s.ask /\ n.frame = s.frame /\ n.seen = s.seen
    BY <1>1 DEF Sane, Draft, Screens, SameFold, SameCalls
  <2>3. /\ n.at = a /\ n.full /\ n.generation = s.generation /\ n.unfinished = s.unfinished
        /\ n.due = s.due /\ n.playing = s.playing
    BY <1>1 DEF Sane, Draft, Screens
  <2> QED BY <1>1, <2>1, <2>2, <2>3 DEF Sane
<1>3. CASE Total(d) = 0
  <2> DEFINE n == [s EXCEPT !.at = Null, !.full = TRUE]
  <2>1. /\ Sane(n) /\ SameFold(s, n) /\ n.at = Null /\ n.full
        /\ n.generation = s.generation /\ n.ask = s.ask /\ n.frame = s.frame
        /\ n.seen = s.seen
    BY <1>2
  <2>2. SelectStep(d, step) = n
    BY <1>3 DEF SelectStep, s
  <2> HIDE DEF n
  <2>3. n.shown = d.shown /\ Total(n) = 0 /\ Position(n) = 0 /\ Whole(n) = TRUE
    BY <1>1, <1>3, <2>1 DEF SameFold, SameCalls, Total, Position, Whole
  <2>4. Position(d) = 0 /\ Whole(d) /\ Whole(d) \in BOOLEAN
    BY <1>3, PlaceIs DEF Placed
  <2>5. Wanted(n) = Wanted(d)
    BY <1>3, <2>3, <2>4 DEF Wanted
  <2> QED BY <1>1, <1>3, <2>1, <2>2, <2>3, <2>5
          DEF SameFold, SameCalls, SameView, Placed, Keeps, Jump
<1>4. CASE Total(d) # 0 /\ d.at = step /\ d.full
  <2>1. SelectStep(d, step) = s
    BY <1>4 DEF SelectStep, s
  <2>2. Wanted(s) = Wanted(d) /\ Placed(s) /\ ~ Jump(d)
    BY <1>1, <1>4, SamePlace DEF SameView, Placed, Jump
  <2> QED BY <1>1, <2>1, <2>2 DEF SameView, Keeps
<1>5. CASE Total(d) # 0 /\ ~ (d.at = step /\ d.full)
  <2> DEFINE n == [s EXCEPT !.at = step, !.full = TRUE]
             t == ReplayTask(n, FALSE)
             e == Call(n, t)
  <2>1. /\ Sane(n) /\ SameFold(s, n) /\ n.generation = s.generation
    BY <1>2
  <2> HIDE DEF n
  <2>2. PictureOf(n, t) /\ t \in Task
    BY <2>1, TasksArePictures DEF PictureOf
  <2> HIDE DEF t
  <2>3. /\ Sane(e) /\ SameFold(n, e) /\ SameView(n, e) /\ e.generation = n.generation
        /\ e.ask = [firm |-> TRUE, task |-> t] /\ e.ask # Null
    BY <2>1, <2>2, CallIs
  <2> HIDE DEF e
  <2>4. PictureOf(e, t)
    BY <2>2, <2>3, SamePicture
  <2>5. AsksPicture(e)
    BY <2>3, <2>4 DEF AsksPicture
  <2>6. Total(e) # 0
    BY <1>1, <1>5, <2>1, <2>3 DEF SameFold, SameCalls, Total
  <2>7. SelectStep(d, step) = e
    BY <1>5 DEF SelectStep, e, t, n, s
  <2> QED BY <1>1, <2>1, <2>3, <2>5, <2>6, <2>7 DEF SameFold, SameCalls, Placed, Keeps
<1> QED BY <1>3, <1>4, <1>5

(* poseRuntime.ts:618-654.                                                 *)
LEMMA ApplyAngleSnapshotIs ==
  ASSUME NEW d, Sane(d)
  PROVE  LET e == ApplyAngleSnapshot(d)
         IN /\ Sane(e) /\ SameFold(d, e) /\ SameView(d, e) /\ SamePlay(d, e)
            /\ e.generation = d.generation + 1
            /\ AsksPicture(e) /\ e.ask.firm
<1> DEFINE f == [d EXCEPT !.timer = FALSE]
           c == CancelIntent(f)
           t == ReplayTask(c, c.posed)
           a == Call(c, t)
           b == AskPose(c)
<1>1. Sane(f) /\ SameFold(d, f) /\ SameView(d, f) /\ SamePlay(d, f) /\ f.generation = d.generation
  BY TimerOffIs
<1> HIDE DEF f
<1>2. Sane(c) /\ SameFold(f, c) /\ SameView(f, c) /\ SamePlay(f, c)
      /\ c.generation = f.generation + 1
  BY <1>1, CancelIntentIs
<1> HIDE DEF c
<1>3. PictureOf(c, t) /\ t \in Task
  <2>1. c.posed \in BOOLEAN
    BY <1>2, DraftFields DEF Sane
  <2>2. PictureOf(c, t)
    BY <1>2, <2>1, TasksArePictures
  <2> QED BY <2>2 DEF PictureOf
<1> HIDE DEF t
<1>4. /\ Sane(a) /\ SameFold(c, a) /\ SameView(c, a) /\ SamePlay(c, a)
      /\ a.generation = c.generation /\ a.ask = [firm |-> TRUE, task |-> t] /\ a.ask # Null
  BY <1>2, <1>3, CallIs
<1> HIDE DEF a
<1>5. AsksPicture(a) /\ a.ask.firm
  BY <1>3, <1>4, SamePicture DEF AsksPicture
<1>6. /\ Sane(b) /\ SameFold(c, b) /\ SameView(c, b) /\ SamePlay(c, b)
      /\ b.generation = c.generation /\ AsksPicture(b) /\ b.ask.firm
  BY <1>2, AskPoseIs
<1> HIDE DEF b
<1>7. ApplyAngleSnapshot(d) \in {a, b}
  BY DEF ApplyAngleSnapshot, a, b, t, c, f
<1> QED BY <1>1, <1>2, <1>4, <1>5, <1>6, <1>7 DEF SameFold, SameCalls, SameView, SamePlay

(* A change that is asked for is the last one asked for.                   *)
LEMMA ChangeIs ==
  ASSUME NEW d, Sane(d), NEW t \in Task, queue.latestSeq \in Nat
  PROVE  LET e == Change(d, t)
         IN /\ Sane(e) /\ SameView(d, e) /\ SamePlay(d, e)
            /\ e.docChange = queue.latestSeq + 1 /\ e.moving = d.moving /\ e.after = d.after
            /\ e.asking = d.asking /\ e.pending = d.pending /\ e.busy = d.busy
            /\ e.generation = d.generation
            /\ e.ask = [firm |-> TRUE, task |-> t] /\ e.ask # Null
<1> DEFINE n == queue.latestSeq + 1
           f == [d EXCEPT !.docChange = n]
           e == Call(f, t)
<1>1. n \in Nat /\ d \in Draft
  BY DEF Sane
<1> HIDE DEF n
<1>2. f \in Draft
  BY <1>1 DEF Draft, Screens
<1>3. /\ SameView(d, f) /\ SamePlay(d, f) /\ f.docChange = n /\ f.moving = d.moving
      /\ f.after = d.after /\ f.unfinished = d.unfinished
      /\ f.asking = d.asking /\ f.pending = d.pending /\ f.busy = d.busy
      /\ f.generation = d.generation
  BY <1>1 DEF Draft, Screens, SameView, SamePlay
<1>4. Sane(f)
  BY <1>2, <1>3 DEF Sane, SamePlay
<1> HIDE DEF f
<1>5. /\ Sane(e) /\ SameFold(f, e) /\ SameView(f, e) /\ SamePlay(f, e)
      /\ e.generation = f.generation
      /\ e.ask = [firm |-> TRUE, task |-> t] /\ e.ask # Null
  BY <1>4, CallIs
<1> HIDE DEF e
<1>6. e = Change(d, t)
  BY DEF Change, NextSeq, e, f, n
<1> QED BY <1>3, <1>5, <1>6 DEF n, SameFold, SameCalls, SameView, SamePlay

FoldTask(d, upTo, posed, base, owner) ==
  [kind |-> "fold", upTo |-> upTo, posed |-> posed, base |-> base, owner |-> owner,
   epoch |-> d.epoch, steps |-> Total(d)]

(* documentActions.ts:645-672.                                             *)
LEMMA ApplyFoldIs ==
  ASSUME NEW d, Sane(d), NEW upTo, upTo = FoldInsertAt(d), NEW posed \in BOOLEAN,
         NEW base \in Nat, NEW owner \in Nat, queue.latestSeq \in Nat
  PROVE  LET e == ApplyFold(d, upTo, posed, base, owner)
             t == FoldTask(d, upTo, posed, base, owner)
         IN /\ Sane(e) /\ SamePlay(d, e) /\ e.shown = d.shown
            /\ e.docChange = queue.latestSeq + 1 /\ e.moving = d.moving /\ e.after = d.after
            /\ e.asking = d.asking /\ e.pending = d.pending /\ e.busy = d.busy
            /\ e.generation = d.generation
            /\ t \in Task /\ e.ask = [firm |-> TRUE, task |-> t] /\ e.ask # Null
            /\ e.seen = "missed" /\ (Placed(d) => Placed(e))
<1> DEFINE a == IF upTo = Total(d) THEN Null ELSE upTo + (IF posed THEN 2 ELSE 1)
           m == Missed(d)
           f == [m EXCEPT !.at = a]
           t == FoldTask(d, upTo, posed, base, owner)
           e == Change(f, t)
<1>1. Total(d) \in Nat /\ upTo \in Nat /\ d.epoch \in Nat /\ a \in Nat \union {Null}
  BY PlaceIs, DraftFields DEF Sane
<1>2. Total(d) = 0 => a = Null
  <2>1. \A x \in Nat : Min({x, 0}) = 0
    <3> TAKE x \in Nat
    <3>1. Min({x, 0}) = IF x <= 0 THEN x ELSE 0
      BY MinIs
    <3> QED BY <3>1
  <2>2. d.at \in Nat \union {Null}
    BY DraftFields DEF Sane
  <2> QED BY <2>1, <2>2 DEF FoldInsertAt
<1> HIDE DEF a
<1>3. /\ Sane(m) /\ SameFold(d, m) /\ SamePlay(d, m) /\ m.seen = "missed"
      /\ m.generation = d.generation
  BY MissedIs
<1> HIDE DEF m
<1>4. m \in Draft
  BY <1>3 DEF Sane
<1>5. f \in Draft
  BY <1>1, <1>4, ZenonT(40) DEF Draft, Screens
<1>6. /\ SameFold(m, f) /\ SamePlay(m, f) /\ f.at = a /\ f.seen = m.seen
      /\ f.generation = m.generation /\ f.unfinished = m.unfinished
  BY <1>4 DEF Draft, Screens, SameFold, SameCalls, SamePlay
<1>7. Sane(f)
  BY <1>3, <1>5, <1>6 DEF Sane, SamePlay
<1> HIDE DEF f
<1>8. t \in Task
  BY <1>1 DEF FoldTask, Task
<1>9. e = ApplyFold(d, upTo, posed, base, owner)
  BY DEF ApplyFold, FoldTask, e, t, f, m, a
<1> HIDE DEF t
<1>10. /\ Sane(e) /\ SameView(f, e) /\ SamePlay(f, e)
       /\ e.docChange = queue.latestSeq + 1 /\ e.moving = f.moving /\ e.after = f.after
       /\ e.asking = f.asking /\ e.pending = f.pending /\ e.busy = f.busy
       /\ e.generation = f.generation
       /\ e.ask = [firm |-> TRUE, task |-> t] /\ e.ask # Null
  BY <1>7, <1>8, ChangeIs
<1> HIDE DEF e
<1>11. e.shown = d.shown /\ e.at = a /\ e.seen = "missed"
  BY <1>3, <1>6, <1>10 DEF SameFold, SameCalls, SameView
<1>12. Placed(e)
  <2> SUFFICES ASSUME Total(e) = 0 PROVE Position(e) = 0 /\ Whole(e)
    BY DEF Placed
  <2>1. Total(d) = 0 /\ e.at = Null
    BY <1>2, <1>11 DEF Total
  <2> QED BY <2>1 DEF Position, Whole
<1> QED BY <1>3, <1>6, <1>8, <1>9, <1>10, <1>11, <1>12 DEF t, SameFold, SameCalls, SamePlay

LEMMA StoppedIs ==
  ASSUME NEW d, Sane(d)
  PROVE  LET e == InvalidateFold(StopPlayback(d))
         IN /\ Sane(e) /\ SameCalls(d, e) /\ SameView(d, e) /\ ~ e.due
            /\ e.asking = 0 /\ e.pending = Null /\ e.busy = d.busy
            /\ e.generation = d.generation /\ e.ask = d.ask
<1> DEFINE m == StopPlayback(d)
           e == InvalidateFold(m)
<1>1. /\ Sane(m) /\ SameFold(d, m) /\ SameView(d, m) /\ m.generation = d.generation
      /\ ~ m.due /\ m.ask = d.ask
  BY StopPlaybackIs
<1> HIDE DEF m
<1>2. /\ Sane(e) /\ SameCalls(m, e) /\ SameView(m, e) /\ SamePlay(m, e)
      /\ e.asking = 0 /\ e.pending = Null /\ e.busy = m.busy
      /\ e.generation = m.generation /\ e.ask = m.ask
  BY <1>1, InvalidateFoldIs
<1> HIDE DEF e
<1>3. e = InvalidateFold(StopPlayback(d))
  BY DEF e, m
<1> QED BY <1>1, <1>2, <1>3 DEF SameFold, SameCalls, SameView, SamePlay

(* A turn leaves the screens as the handler leaves them, its call asked.   *)
LEMMA TurnIs ==
  ASSUME NEW q, NEW d, Sane(d), Turn(q, d)
  PROVE  /\ ui' \in Ui /\ Sane(ui') /\ SameFold(d, ui') /\ SameView(d, ui') /\ SamePlay(d, ui')
         /\ ui'.generation = d.generation
         /\ queue' = Ask(q, d.ask)
<1>1. d \in Draft /\ ui' = [d EXCEPT !.ask = Null]
  BY DEF Turn, Sane
<1>2. ui' \in Ui /\ ui' \in Draft
  BY <1>1, ZenonT(40) DEF Ui, Draft, Screens
<1>3. SameFold(d, ui') /\ ui'.generation = d.generation /\ ui'.unfinished = d.unfinished
  BY <1>1 DEF Draft, Screens, SameFold, SameCalls
<1>4. SameView(d, ui') /\ SamePlay(d, ui')
  BY <1>1 DEF Draft, Screens, SameView, SamePlay
<1> QED BY <1>2, <1>3, <1>4 DEF Sane, SamePlay, Turn

(* What follows a change: the fold tools are released, the picture is as   *)
(* it was or is asked for again.                                           *)
Went(d, e, busy) ==
  /\ Sane(e) /\ SameCalls(d, e) /\ e.busy = busy
  /\ (e.asking = d.asking /\ e.pending = d.pending) \/ (e.asking = 0 /\ e.pending = Null)
  /\ d.generation <= e.generation
  /\ e.ask = Null \/ AsksPicture(e)
  /\ Placed(e) /\ Keeps(d, e)

Angles(d, u, p, g) == [d EXCEPT !.undone = u, !.posed = p, !.generation = g]

LEMMA AnglesIs ==
  ASSUME NEW d, Sane(d), NEW u \in Nat, NEW p \in BOOLEAN, NEW g \in Nat, d.generation <= g
  PROVE  LET e == Angles(d, u, p, g)
         IN /\ Sane(e) /\ SameFold(d, e) /\ SameView(d, e) /\ SamePlay(d, e)
            /\ e.generation = g /\ e.ask = d.ask
<1> DEFINE e == [d EXCEPT !.undone = u, !.posed = p, !.generation = g]
<1>1. d \in Draft
  BY DEF Sane
<1>2. e \in Draft
  BY <1>1, ZenonT(40) DEF Draft, Screens
<1>3. SameFold(d, e) /\ e.ask = d.ask
  BY <1>1 DEF Draft, Screens, SameFold, SameCalls
<1>4. SameView(d, e) /\ SamePlay(d, e) /\ e.generation = g /\ e.unfinished = d.unfinished
  BY <1>1 DEF Draft, Screens, SameView, SamePlay
<1>5. e.unfinished <= e.generation
  BY <1>1, <1>4, DraftFields DEF Sane
<1> QED BY <1>2, <1>3, <1>4, <1>5 DEF Sane, SamePlay, Angles

(* The same without one of the three.                                      *)
LEMMA AnglesWithout ==
  ASSUME NEW d, Sane(d)
  PROVE  /\ \A u \in Nat : [d EXCEPT !.undone = u] =
              Angles(d, u, d.posed, d.generation)
         /\ \A p \in BOOLEAN, g \in Nat : [d EXCEPT !.posed = p, !.generation = g] =
              Angles(d, d.undone, p, g)
         /\ \A p \in BOOLEAN : [d EXCEPT !.posed = p] =
              Angles(d, d.undone, p, d.generation)
<1>1. d \in Draft
  BY DEF Sane
<1> QED BY <1>1 DEF Draft, Screens, Angles

LEMMA WentWithout ==
  ASSUME NEW d, Sane(d), d.ask = Null, Placed(d), NEW e, Sane(e),
         SameCalls(d, e), SameView(d, e), SamePlay(d, e), e.asking = d.asking,
         e.pending = d.pending, d.generation <= e.generation, e.ask = Null
  PROVE  Went(d, e, e.busy)
<1>1. Placed(e) /\ Wanted(e) = Wanted(d) /\ (Jump(d) => Jump(e))
  BY SamePlace DEF SameView, SamePlay, Placed, Jump
<1> QED BY <1>1 DEF Went, Keeps, SameView

LEMMA FollowedIs ==
  ASSUME NEW d, Sane(d), d.ask = Null, Placed(d),
         NEW k, k.task \in Task, k.ok \in BOOLEAN, k.task.kind = "move" => k.task.to # 0,
         NEW same \in BOOLEAN
  PROVE  Went(d, Followed(d, k, same),
              IF k.task.kind = "fold" /\ d.busy = k.task.owner THEN 0 ELSE d.busy)
<1> DEFINE t == k.task
           c == IF k.ok /\ t.kind \notin {"new", "undo", "redo"} THEN ClearAngleHistory(d) ELSE d
           e == Followed(d, k, same)
<1>1. /\ Sane(c) /\ SameFold(d, c) /\ SameView(d, c) /\ SamePlay(d, c)
      /\ c.generation = d.generation /\ c.ask = Null
  <2>1. CASE k.ok /\ t.kind \notin {"new", "undo", "redo"}
    BY <2>1, ClearAngleHistoryIs
  <2>2. CASE ~ (k.ok /\ t.kind \notin {"new", "undo", "redo"})
    BY <2>2 DEF SameFold, SameCalls, SameView, SamePlay
  <2> QED BY <2>1, <2>2
<1>2. c.generation \in Nat /\ c.undone \in Nat /\ c.posed \in BOOLEAN /\ FALSE \in BOOLEAN
  BY <1>1, DraftFields DEF Sane
<1>no. PICK no \in BOOLEAN : no = FALSE
  OBVIOUS
<1> HIDE DEF c
<1>3. ASSUME NEW n, Sane(n), SameFold(c, n), SameView(c, n), SamePlay(c, n),
             c.generation <= n.generation, n.ask = Null
      PROVE  Went(d, n, d.busy)
  <2>1. /\ SameCalls(d, n) /\ SameView(d, n) /\ SamePlay(d, n) /\ n.asking = d.asking
        /\ n.pending = d.pending /\ d.generation <= n.generation /\ n.busy = d.busy
    BY <1>1, <1>3 DEF SameFold, SameCalls, SameView, SamePlay
  <2>2. Went(d, n, n.busy)
    BY <1>3, <2>1, WentWithout
  <2> QED BY <2>1, <2>2
<1>4. Went(d, c, d.busy)
  <2>1. SameFold(c, c) /\ SameView(c, c) /\ SamePlay(c, c) /\ c.generation <= c.generation
    BY <1>2 DEF SameFold, SameCalls, SameView, SamePlay
  <2> QED BY <1>1, <1>3, <2>1
<1>5. ASSUME NEW u \in Nat PROVE Went(d, [c EXCEPT !.undone = u], d.busy)
  <2> DEFINE n == Angles(c, u, c.posed, c.generation)
  <2>1. c.generation <= c.generation
    BY <1>2
  <2>2. /\ Sane(n) /\ SameFold(c, n) /\ SameView(c, n) /\ SamePlay(c, n)
        /\ n.generation = c.generation /\ n.ask = c.ask
    BY <1>1, <1>2, <2>1, AnglesIs
  <2>3. [c EXCEPT !.undone = u] = n
    BY <1>1, AnglesWithout
  <2> HIDE DEF n
  <2>4. Went(d, n, d.busy)
    BY <1>1, <1>3, <2>1, <2>2
  <2> QED BY <2>3, <2>4
<1>6. CASE t.kind = "undo"
  <2>1. e \in {c, [c EXCEPT !.undone = c.undone + 1]}
    BY <1>6 DEF Followed, c
  <2>2. c.undone + 1 \in Nat
    BY <1>2
  <2> QED BY <1>4, <1>5, <1>6, <2>1, <2>2
<1>7. CASE t.kind = "redo"
  <2>1. e = c \/ (c.undone # 0 /\ e = [c EXCEPT !.undone = c.undone - 1])
    BY <1>7 DEF Followed, c
  <2>2. c.undone # 0 => c.undone - 1 \in Nat
    BY <1>2
  <2> QED BY <1>4, <1>5, <1>7, <2>1, <2>2
<1>8. CASE t.kind = "fold"
  <2> DEFINE f == FinishBusy(c, t.owner)
             g == Angles(f, f.undone, no, f.generation + 1)
             busy == IF d.busy = t.owner THEN 0 ELSE d.busy
  <2>1. /\ Sane(f) /\ SameCalls(c, f) /\ SameView(c, f) /\ SamePlay(c, f)
        /\ f.asking = c.asking /\ f.pending = c.pending
        /\ f.busy = IF c.busy = t.owner THEN 0 ELSE c.busy
        /\ f.generation = c.generation /\ f.ask = c.ask
    BY <1>1, FinishBusyIs
  <2>2. e \in {f, [f EXCEPT !.posed = FALSE, !.generation = f.generation + 1]}
    BY <1>8 DEF Followed, c
  <2> HIDE DEF f
  <2>3. f.undone \in Nat /\ f.generation + 1 \in Nat /\ f.generation <= f.generation + 1
        /\ f.generation \in Nat
    BY <2>1, DraftFields DEF Sane
  <2>4. /\ Sane(g) /\ SameFold(f, g) /\ SameView(f, g) /\ SamePlay(f, g)
        /\ g.generation = f.generation + 1 /\ g.ask = f.ask
    BY <1>no, <2>1, <2>3, AnglesIs
  <2>5. [f EXCEPT !.posed = FALSE, !.generation = f.generation + 1] = g
    <3>1. [f EXCEPT !.posed = no, !.generation = f.generation + 1] = g
      <4>1. \A p \in BOOLEAN, h \in Nat :
              [f EXCEPT !.posed = p, !.generation = h] = Angles(f, f.undone, p, h)
        BY <2>1, AnglesWithout
      <4>2. PICK h \in Nat : h = f.generation + 1
        BY <2>3
      <4>3. [f EXCEPT !.posed = no, !.generation = h] = Angles(f, f.undone, no, h)
        BY <4>1
      <4> QED BY <4>2, <4>3 DEF g
    <3> QED BY <1>no, <3>1
  <2> HIDE DEF g
  <2>6. /\ SameCalls(d, f) /\ SameView(d, f) /\ SamePlay(d, f) /\ f.asking = d.asking
        /\ f.pending = d.pending /\ d.generation <= f.generation /\ f.busy = busy
        /\ f.ask = Null
    BY <1>1, <2>1, <2>3 DEF SameFold, SameCalls, SameView, SamePlay
  <2>7. /\ SameCalls(d, g) /\ SameView(d, g) /\ SamePlay(d, g) /\ g.asking = d.asking
        /\ g.pending = d.pending /\ d.generation <= g.generation /\ g.busy = busy
        /\ g.ask = Null
    <3>1. d.generation \in Nat
      BY DraftFields DEF Sane
    <3>2. d.generation <= g.generation
      BY <2>3, <2>4, <2>6, <3>1
    <3> QED BY <2>4, <2>6, <3>2 DEF SameFold, SameCalls, SameView, SamePlay
  <2>8. Went(d, f, f.busy) /\ Went(d, g, g.busy)
    BY <2>1, <2>4, <2>6, <2>7, WentWithout
  <2> QED BY <1>8, <2>2, <2>5, <2>6, <2>7, <2>8
<1>9. CASE t.kind = "push"
  <2>1. CASE e = c
    BY <1>4, <1>9, <2>1
  <2>2. CASE e = CancelIntent([c EXCEPT !.posed = FALSE])
    <3> DEFINE f == Angles(c, c.undone, no, c.generation)
               g == CancelIntent(f)
    <3>1. c.generation <= c.generation
      BY <1>2
    <3>2. /\ Sane(f) /\ SameFold(c, f) /\ SameView(c, f) /\ SamePlay(c, f)
          /\ f.generation = c.generation /\ f.ask = c.ask
      BY <1>1, <1>2, <3>1, AnglesIs
    <3>3. [c EXCEPT !.posed = FALSE] = f
      <4>1. [c EXCEPT !.posed = no] = f
        BY <1>1, <1>2, AnglesWithout
      <4> QED BY <1>no, <4>1
    <3> HIDE DEF f
    <3>4. /\ Sane(g) /\ SameFold(f, g) /\ SameView(f, g) /\ SamePlay(f, g)
          /\ g.generation = f.generation + 1 /\ g.ask = f.ask
      BY <3>2, CancelIntentIs
    <3>5. e = g
      BY <2>2, <3>3
    <3> HIDE DEF g
    <3>6. /\ SameFold(c, g) /\ SameView(c, g) /\ SamePlay(c, g) /\ g.ask = Null
          /\ c.generation <= g.generation
      BY <1>1, <1>2, <3>2, <3>4 DEF SameFold, SameCalls, SameView, SamePlay
    <3>7. Went(d, g, d.busy)
      BY <1>3, <3>4, <3>6
    <3> QED BY <1>9, <3>5, <3>7
  <2>3. CASE e = CallLatest([c EXCEPT !.timer = FALSE], PoseTask(c))
    <3> DEFINE f == [c EXCEPT !.timer = FALSE]
               p == PoseTask(c)
               g == CallLatest(f, p)
    <3>1. Sane(f) /\ SameFold(c, f) /\ SameView(c, f) /\ SamePlay(c, f)
          /\ f.generation = c.generation
      BY <1>1, TimerOffIs
    <3>2. PictureOf(c, p) /\ p \in Task
      BY <1>1, TasksArePictures DEF PictureOf
    <3> HIDE DEF f, p
    <3>3. PictureOf(f, p)
      BY <3>1, <3>2, SamePicture
    <3>4. /\ Sane(g) /\ SameFold(f, g) /\ SameView(f, g) /\ SamePlay(f, g)
          /\ g.generation = f.generation
          /\ g.ask = [firm |-> FALSE, task |-> p] /\ g.ask # Null
      BY <3>1, <3>2, CallLatestIs
    <3>5. e = g
      BY <2>3 DEF f, p
    <3> HIDE DEF g
    <3>6. PictureOf(g, p)
      BY <3>3, <3>4, SamePicture
    <3>7. AsksPicture(g) /\ SameFold(d, g) /\ SameView(d, g) /\ d.generation <= g.generation
      BY <1>1, <1>2, <3>1, <3>4, <3>6 DEF AsksPicture, SameFold, SameCalls, SameView
    <3>8. Placed(g)
      BY <3>7, SamePlace DEF SameView, Placed
    <3> QED BY <1>9, <3>4, <3>5, <3>7, <3>8 DEF Went, Keeps, SameFold
  <2> QED BY <1>9, <2>1, <2>2, <2>3 DEF Followed, c
<1>10. CASE t.kind = "move"
  <2>1. CASE k.ok
    <3> DEFINE n == SelectStep(c, t.to)
    <3>1. e = n
      BY <1>10, <2>1 DEF Followed, c
    <3>2. t.to \in Nat \union {Null} /\ t.to # 0
      BY <1>10, Arguments
    <3>3. Placed(c)
      BY <1>1, SamePlace DEF SameView, Placed
    <3>4. /\ Sane(n) /\ SameCalls(c, n) /\ n.asking = 0 /\ n.pending = Null
          /\ n.busy = c.busy /\ n.generation = c.generation
          /\ Placed(n) /\ Keeps(c, n)
      BY <1>1, <3>2, <3>3, SelectStepIs
    <3> HIDE DEF n
    <3>5. Keeps(d, n)
      <4>1. Wanted(c) = Wanted(d) /\ (Jump(d) => Jump(c))
        BY <1>1, SamePlace DEF SameView, SamePlay, Jump
      <4> QED BY <1>1, <3>4, <4>1 DEF Keeps, SameView
    <3>6. n.ask = Null \/ AsksPicture(n)
      BY <1>1, <3>4 DEF Keeps
    <3>7. SameCalls(d, n) /\ n.busy = d.busy /\ d.generation <= n.generation
      BY <1>1, <1>2, <3>4 DEF SameFold, SameCalls
    <3> QED BY <1>10, <3>1, <3>4, <3>5, <3>6, <3>7 DEF Went
  <2>2. CASE ~ k.ok
    <3>1. e = c
      BY <1>10, <2>2 DEF Followed, c
    <3> QED BY <1>4, <1>10, <3>1
  <2> QED BY <2>1, <2>2
<1>11. CASE t.kind \notin {"fold", "undo", "redo", "push", "move"}
  <2>1. e = c
    BY <1>11 DEF Followed, c
  <2> QED BY <1>4, <1>11, <2>1
<1> QED BY <1>6, <1>7, <1>8, <1>9, <1>10, <1>11

-----------------------------------------------------------------------------
(* The queue, seen as the set of its open calls.                           *)

Calls == {Null} \union [firm : BOOLEAN, task : Task]

InOrder(q) ==
  q \in SerialQueue(Task) /\ Good(q) /\ (q.running # Null => 1 <= q.running.seq)

(* Open calls have different numbers, none above the last one given.       *)
OpenSound(O, n) ==
  /\ n \in Nat
  /\ \A c \in O : c \in Cell(Task) /\ c.seq \in 1 .. n
  /\ \A c, e \in O : c.seq = e.seq => c = e

(* What a turn does to the open calls.                                     *)
Asked(O, n, P, m, a) ==
  \/ a = Null /\ P = O /\ m = n
  \/ /\ a # Null /\ m = n + 1
     /\ \E c \in P : /\ c.seq = n + 1 /\ c.task = a.task /\ c.firm = a.firm
                     /\ P \subseteq O \union {c}
                     /\ \A e \in O : e.firm \/ a.firm => e \in P

LEMMA OpenIsSound ==
  ASSUME NEW q, InOrder(q)
  PROVE  OpenSound(Open(q), q.latestSeq)
<1> USE DEF InOrder
<1>1. q.latestSeq \in Nat /\ q.waiting \in Seq(Cell(Task)) /\ q.running \in Cell(Task) \union {Null}
  BY DEF SerialQueue
<1>2. \A i \in 1 .. Len(q.waiting) : /\ q.waiting[i] \in Cell(Task)
                                     /\ q.waiting[i].seq \in 1 .. q.latestSeq
  <2> TAKE i \in 1 .. Len(q.waiting)
  <2>1. q.waiting[i] \in Cell(Task)
    BY <1>1
  <2>2. 1 <= q.waiting[i].cell /\ q.waiting[i].cell <= q.waiting[i].seq
        /\ q.waiting[i].seq <= q.latestSeq /\ q.waiting[i].cell \in Nat
        /\ q.waiting[i].seq \in Nat
    BY InLine
  <2> QED BY <1>1, <2>1, <2>2
<1>3. \A i, j \in 1 .. Len(q.waiting) : q.waiting[i].seq = q.waiting[j].seq => i = j
  <2> SUFFICES ASSUME NEW i \in 1 .. Len(q.waiting), NEW j \in 1 .. Len(q.waiting),
                      q.waiting[i].seq = q.waiting[j].seq, i # j
               PROVE  FALSE
    OBVIOUS
  <2>1. q.waiting[i].seq \in Nat
    BY <1>2
  <2>2. i < j \/ j < i
    OBVIOUS
  <2> QED BY <2>1, <2>2, CellsIncrease
<1>4. ASSUME q.running # Null
      PROVE  /\ q.running \in Cell(Task) /\ q.running.seq \in 1 .. q.latestSeq
             /\ \A i \in 1 .. Len(q.waiting) : q.running.seq < q.waiting[i].seq
  <2>1. q.running \in Cell(Task)
    BY <1>1, <1>4
  <2>2. q.running.seq <= q.latestSeq /\ 1 <= q.running.seq
    BY <1>4 DEF Good, QueueSound
  <2>3. \A i \in 1 .. Len(q.waiting) : q.running.seq < q.waiting[i].seq
    <3> TAKE i \in 1 .. Len(q.waiting)
    <3>1. q.running.seq < q.waiting[i].cell /\ q.waiting[i].cell <= q.waiting[i].seq
          /\ q.waiting[i].cell \in Nat /\ q.waiting[i].seq \in Nat
      BY <1>4, InLine
    <3>2. q.running.seq \in Nat
      BY <2>1 DEF Cell
    <3> QED BY <3>1, <3>2
  <2>4. q.running.seq \in Nat
    BY <2>1 DEF Cell
  <2> QED BY <1>1, <2>1, <2>2, <2>3, <2>4
<1> QED BY <1>1, <1>2, <1>3, <1>4 DEF OpenSound, Open

(* A turn makes at most one new call, and only drops one that may be       *)
(* dropped for another such call.                                          *)
LEMMA AskIs ==
  ASSUME NEW q, InOrder(q), NEW a \in Calls
  PROVE  /\ InOrder(Ask(q, a)) /\ Ask(q, a).running = q.running
         /\ Asked(Open(q), q.latestSeq, Open(Ask(q, a)), Ask(q, a).latestSeq, a)
<1> DEFINE t == a.task
           n == q.latestSeq + 1
<1>1. /\ q \in SerialQueue(Task) /\ Good(q) /\ q.latestSeq \in Nat
      /\ q.waiting \in Seq(Cell(Task)) /\ (q.running # Null => 1 <= q.running.seq)
  BY DEF InOrder, SerialQueue
<1>2. CASE a = Null
  BY <1>2 DEF Ask, Asked
<1>3. ASSUME NEW f \in BOOLEAN, NEW rep \in Nat, NEW r, a # Null, a.firm = f,
             r = Join(q, t, f, rep), Good(r)
      PROVE  /\ InOrder(r) /\ r.running = q.running
             /\ Asked(Open(q), q.latestSeq, Open(r), r.latestSeq, a)
  <2> DEFINE c == [cell |-> n, seq |-> n, task |-> t, firm |-> f]
             L == Len(q.waiting)
  <2>1. t \in Task
    BY <1>3 DEF Calls
  <2>2. c \in Cell(Task) /\ L \in Nat
    BY <1>1, <2>1 DEF Cell
  <2>3. /\ r = [waiting |-> Append(q.waiting, c), running |-> q.running, latestSeq |-> n,
                replaceable |-> rep]
    BY <1>3 DEF Join, NextSeq, NewCell
  <2> HIDE DEF c
  <2>4. r \in SerialQueue(Task)
    BY <1>1, <2>2, <2>3 DEF SerialQueue
  <2>5. /\ Len(r.waiting) = L + 1 /\ r.waiting[L + 1] = c
        /\ \A i \in 1 .. L : r.waiting[i] = q.waiting[i]
    BY <1>1, <2>2, <2>3
  <2>6. Open(r) = Open(q) \union {c}
    <3>1. {r.waiting[i] : i \in 1 .. Len(r.waiting)} =
            {q.waiting[i] : i \in 1 .. L} \union {c}
      <4>1. \A i \in 1 .. L + 1 : i \in 1 .. L \/ i = L + 1
        BY <2>2
      <4>2. L + 1 \in 1 .. L + 1 /\ \A i \in 1 .. L : i \in 1 .. L + 1
        BY <2>2
      <4> QED BY <2>5, <4>1, <4>2
    <3>2. r.running = q.running
      BY <2>3
    <3> QED BY <3>1, <3>2 DEF Open
  <2>7. c \in Open(r) /\ c.seq = q.latestSeq + 1 /\ c.task = a.task /\ c.firm = a.firm
    BY <1>3, <2>6 DEF c
  <2>8. r.running = q.running /\ r.latestSeq = q.latestSeq + 1
    BY <2>3
  <2>9. InOrder(r)
    BY <1>1, <1>3, <2>4, <2>8 DEF InOrder
  <2>10. Asked(Open(q), q.latestSeq, Open(r), r.latestSeq, a)
    BY <1>3, <2>6, <2>7, <2>8 DEF Asked
  <2> QED BY <2>8, <2>9, <2>10
<1>4. CASE a # Null /\ a.firm
  <2>1. PICK z \in Nat : z = 0
    OBVIOUS
  <2>2. Ask(q, a) = Run(q, t) /\ a.firm = TRUE
    BY <1>4 DEF Ask, Calls
  <2>3. PICK yes \in BOOLEAN : yes = TRUE
    OBVIOUS
  <2>4. Run(q, t) = Join(q, t, yes, z)
    BY <2>1, <2>3, Zenon DEF Run, Join
  <2>5. Good(Run(q, t))
    BY <1>1, RunIsGood
  <2>6. a.firm = yes
    BY <2>2, <2>3
  <2> QED BY <1>3, <1>4, <2>2, <2>4, <2>5, <2>6
<1>5. CASE a # Null /\ ~ a.firm /\ ~ Replaces(q)
  <2>1. Ask(q, a) = QueueLatest(q, t) /\ a.firm = FALSE
    BY <1>5 DEF Ask, RunLatest, Calls
  <2>2. PICK no \in BOOLEAN : no = FALSE
    OBVIOUS
  <2>3. QueueLatest(q, t) = Join(q, t, no, n) /\ n \in Nat
    <3>1. QueueLatest(q, t) = Join(q, t, no, n)
      BY <2>2, Zenon DEF QueueLatest, NextSeq, Join
    <3> QED BY <1>1, <3>1
  <2>4. Good(QueueLatest(q, t))
    BY <1>1, QueueLatestIsGood
  <2>5. a.firm = no
    BY <2>1, <2>2
  <2> QED BY <1>3, <1>5, <2>1, <2>3, <2>4, <2>5
<1>6. CASE a # Null /\ ~ a.firm /\ Replaces(q)
  <2> DEFINE L == Len(q.waiting)
             old == q.waiting[L]
             c == [cell |-> old.cell, seq |-> n, task |-> t, firm |-> old.firm]
             r == Replace(q, L, t)
  <2>1. L \in Nat \ {0} /\ Replaceable(q) = L /\ ~ old.firm
    BY <1>1, <1>6, ReplaceableIsLast
  <2>2. Ask(q, a) = r
    BY <1>6, <2>1 DEF Ask, RunLatest
  <2>3. Good(r)
    <3>1. Good(Replace(q, Replaceable(q), t))
      BY <1>1, <1>6, ReplaceIsGood, Zenon
    <3> QED BY <2>1, <3>1
  <2>4. t \in Task /\ old \in Cell(Task) /\ a.firm \in BOOLEAN
    BY <1>1, <1>6, <2>1 DEF Calls
  <2>5. c \in Cell(Task) /\ c.firm = a.firm /\ c.seq = q.latestSeq + 1 /\ c.task = a.task
    BY <1>1, <1>6, <2>1, <2>4 DEF Cell
  <2>6. /\ r.waiting = [q.waiting EXCEPT ![L] = c] /\ r.running = q.running
        /\ r.latestSeq = q.latestSeq + 1 /\ r.replaceable = q.replaceable
        /\ r = [waiting |-> r.waiting, running |-> q.running, latestSeq |-> q.latestSeq + 1,
                replaceable |-> q.replaceable]
    BY DEF Replace, NextSeq
  <2> HIDE DEF c, r, old
  <2>7. /\ r.waiting \in Seq(Cell(Task)) /\ Len(r.waiting) = L /\ r.waiting[L] = c
        /\ \A i \in 1 .. L - 1 : r.waiting[i] = q.waiting[i]
    BY <1>1, <2>1, <2>5, <2>6
  <2>8. r \in SerialQueue(Task)
    <3>1. q.running \in Cell(Task) \union {Null} /\ q.replaceable \in Nat
          /\ q.latestSeq + 1 \in Nat
      BY <1>1 DEF SerialQueue
    <3>2. \A w \in Seq(Cell(Task)) :
            [waiting |-> w, running |-> q.running, latestSeq |-> q.latestSeq + 1,
             replaceable |-> q.replaceable] \in SerialQueue(Task)
      BY <3>1 DEF SerialQueue
    <3> QED BY <2>6, <2>7, <3>2
  <2>9. InOrder(r)
    BY <1>1, <2>3, <2>6, <2>8 DEF InOrder
  <2>10. \A i \in 1 .. L : i \in 1 .. L - 1 \/ i = L
    BY <2>1
  <2>11. c \in Open(r)
    BY <2>1, <2>7 DEF Open
  <2>12. Open(r) \subseteq Open(q) \union {c}
    BY <2>6, <2>7, <2>10 DEF Open
  <2>13. \A e \in Open(q) : e.firm \/ a.firm => e \in Open(r)
    <3> SUFFICES ASSUME NEW e \in Open(q), e.firm PROVE e \in Open(r)
      BY <1>6
    <3>1. CASE q.running # Null /\ e = q.running
      BY <2>6, <3>1 DEF Open
    <3>2. ASSUME NEW i \in 1 .. L, e = q.waiting[i] PROVE e \in Open(r)
      <4>1. i # L
        BY <2>1, <3>2 DEF old
      <4>2. r.waiting[i] = e /\ i \in 1 .. Len(r.waiting)
        BY <2>7, <2>10, <3>2, <4>1
      <4> QED BY <4>2 DEF Open
    <3> QED BY <3>1, <3>2 DEF Open
  <2>14. Asked(Open(q), q.latestSeq, Open(r), r.latestSeq, a)
    BY <1>6, <2>5, <2>6, <2>11, <2>12, <2>13 DEF Asked
  <2> QED BY <2>2, <2>6, <2>9, <2>14
<1> QED BY <1>2, <1>4, <1>5, <1>6

LEMMA EmptyInOrder == InOrder(EmptyQueue) /\ Open(EmptyQueue) = {} /\ EmptyQueue.latestSeq = 0
<1>1. EmptyQueue \in SerialQueue(Task)
  BY DEF EmptyQueue, SerialQueue
<1>2. EmptyQueue.running = Null /\ EmptyQueue.waiting = <<>> /\ EmptyQueue.latestSeq = 0
  BY DEF EmptyQueue
<1> QED BY <1>1, <1>2, EmptyIsGood DEF InOrder, Open

(* The call that starts stays open; no call is made or dropped.            *)
LEMMA StartIs ==
  ASSUME NEW q, InOrder(q), CanStart(q)
  PROVE  /\ InOrder(Start(q)) /\ Open(Start(q)) = Open(q) /\ Start(q).latestSeq = q.latestSeq
<1> DEFINE m == Len(q.waiting)
           h == Head(q.waiting)
           w == Tail(q.waiting)
           r == Start(q)
<1>1. /\ q \in SerialQueue(Task) /\ Good(q) /\ q.waiting \in Seq(Cell(Task)) /\ q.waiting # <<>>
      /\ q.running = Null /\ q.latestSeq \in Nat /\ q.replaceable \in Nat
  BY DEF InOrder, SerialQueue, CanStart
<1>2. /\ m \in Nat \ {0} /\ h = q.waiting[1] /\ h \in Cell(Task) /\ w \in Seq(Cell(Task))
      /\ Len(w) = m - 1 /\ \A i \in 1 .. m - 1 : w[i] = q.waiting[i + 1]
  BY <1>1
<1>3. 1 <= h.cell /\ h.cell <= h.seq /\ h.cell \in Nat /\ h.seq \in Nat
  <2>1. 1 \in 1 .. Len(q.waiting)
    BY <1>2
  <2> QED BY <1>1, <1>2, <2>1, InLine
<1>4. /\ r.waiting = w /\ r.running = h /\ r.latestSeq = q.latestSeq
  BY DEF Start
<1>5. r \in SerialQueue(Task)
  <2>1. \A k \in Nat : [waiting |-> w, running |-> h, latestSeq |-> q.latestSeq,
                        replaceable |-> k] \in SerialQueue(Task)
    BY <1>1, <1>2 DEF SerialQueue
  <2>2. PICK k : k = IF q.replaceable = h.cell THEN 0 ELSE q.replaceable
    OBVIOUS
  <2>3. k \in Nat
    BY <1>1, <2>2
  <2>4. r = [waiting |-> w, running |-> h, latestSeq |-> q.latestSeq, replaceable |-> k]
    BY <2>2 DEF Start
  <2> QED BY <2>1, <2>3, <2>4
<1>6. InOrder(r)
  <2>1. Good(r)
    BY <1>1, StartIsGood
  <2>2. 1 <= r.running.seq
    BY <1>3, <1>4
  <2> QED BY <1>5, <2>1, <2>2 DEF InOrder
<1>7. h # Null
  <2> HIDE DEF h
  <2> QED BY <1>2, DeskValues, Zenon
<1>8. Open(r) = Open(q)
  <2> HIDE DEF h, w, r
  <2>1. Open(r) = {w[i] : i \in 1 .. m - 1} \union {h}
    BY <1>2, <1>4, <1>7 DEF Open
  <2>2. Open(q) = {q.waiting[i] : i \in 1 .. m}
    BY <1>1 DEF Open
  <2>3. \A i \in 1 .. m : i = 1 \/ (i - 1 \in 1 .. m - 1 /\ w[i - 1] = q.waiting[i])
    BY <1>2
  <2>4. \A i \in 1 .. m - 1 : i + 1 \in 1 .. m /\ w[i] = q.waiting[i + 1]
    BY <1>2
  <2>5. 1 \in 1 .. m
    BY <1>2
  <2>6. {w[i] : i \in 1 .. m - 1} \union {h} \subseteq {q.waiting[i] : i \in 1 .. m}
    BY <1>2, <2>4, <2>5
  <2>7. {q.waiting[i] : i \in 1 .. m} \subseteq {w[i] : i \in 1 .. m - 1} \union {h}
    <3>1. \A i \in 1 .. m : i = 1 => q.waiting[i] = h
      BY <1>2
    <3>2. \A i \in 1 .. m : q.waiting[i] = h \/ \E j \in 1 .. m - 1 : w[j] = q.waiting[i]
      BY <2>3, <3>1
    <3> QED BY <3>2
  <2> QED BY <2>1, <2>2, <2>6, <2>7
<1> QED BY <1>4, <1>6, <1>8

(* The call that runs is the first of the open ones; its answer closes it, *)
(* and no call is open any more if it was the latest.                      *)
LEMMA FinishIs ==
  ASSUME NEW q, InOrder(q), q.running # Null
  PROVE  /\ InOrder(Finish(q)) /\ Finish(q).latestSeq = q.latestSeq
         /\ q.running \in Open(q) /\ q.running.task \in Task
         /\ Open(Finish(q)) = Open(q) \ {q.running}
         /\ \A e \in Open(q) \ {q.running} : q.running.seq < e.seq
         /\ IsLatest(q) => Open(Finish(q)) = {}
<1> DEFINE r == Finish(q)
           c == q.running
<1>1. /\ q \in SerialQueue(Task) /\ Good(q) /\ q.waiting \in Seq(Cell(Task))
      /\ c \in Cell(Task) /\ q.latestSeq \in Nat /\ q.replaceable \in Nat
  BY DEF InOrder, SerialQueue
<1>2. /\ r.waiting = q.waiting /\ r.running = Null /\ r.latestSeq = q.latestSeq
  BY DEF Finish
<1>3. InOrder(r)
  <2>1. r \in SerialQueue(Task)
    BY <1>1 DEF Finish, SerialQueue
  <2>2. Good(r)
    BY <1>1, FinishIsGood
  <2> QED BY <1>2, <2>1, <2>2 DEF InOrder
<1>4. \A i \in 1 .. Len(q.waiting) : c.seq < q.waiting[i].seq /\ q.waiting[i].seq <= q.latestSeq
  <2> TAKE i \in 1 .. Len(q.waiting)
  <2>1. c.seq < q.waiting[i].cell /\ q.waiting[i].seq <= q.latestSeq
    BY <1>1 DEF Good, QueueSound
  <2>2. q.waiting[i].cell <= q.waiting[i].seq
        /\ q.waiting[i].cell \in Nat /\ q.waiting[i].seq \in Nat
    BY <1>1, InLine
  <2>3. c.seq \in Nat
    BY <1>1 DEF Cell
  <2> QED BY <2>1, <2>2, <2>3
<1>5. c.seq \in Nat /\ c.task \in Task
  BY <1>1 DEF Cell
<1>6. Open(r) = {q.waiting[i] : i \in 1 .. Len(q.waiting)}
  BY <1>2 DEF Open
<1>7. Open(q) = {q.waiting[i] : i \in 1 .. Len(q.waiting)} \union {c}
  BY DEF Open
<1>8. \A e \in Open(r) : c.seq < e.seq /\ e # c
  BY <1>4, <1>5, <1>6
<1>9. Open(r) = Open(q) \ {c} /\ c \in Open(q)
  BY <1>6, <1>7, <1>8
<1>10. ASSUME IsLatest(q) PROVE Open(r) = {}
  <2>1. c.seq = q.latestSeq
    BY <1>10 DEF IsLatest
  <2>2. \A i \in 1 .. Len(q.waiting) : q.waiting[i].seq \in Nat
    BY <1>1, InLine
  <2>3. \A i \in 1 .. Len(q.waiting) : FALSE
    BY <1>1, <1>4, <2>1, <2>2
  <2> QED BY <1>6, <2>3
<1> QED BY <1>2, <1>3, <1>5, <1>8, <1>9, <1>10

-----------------------------------------------------------------------------
(* What the open calls, the screens and the store have to do with each     *)
(* other: O is the set of open calls, n the number of the last call made,  *)
(* u the state of the screens and s the store.                             *)

Pictures == {"replay", "pose"}

(* The document that base names is the one of the store, and the calls     *)
(* change nothing before they have adopted a proposal.                     *)
Fits(s, base, calls) ==
  /\ base <= s.ver
  /\ \/ s.adopted > base
     \/ base = s.ver /\ \A e \in calls : e.task.kind \in Changes => e.task.kind = "adopt"

(* A fold that ends the wait of the fold tools.                            *)
Serves(c, u) == c.task.kind = "fold" /\ c.task.owner = u.busy /\ u.busy # 0

(* Only a picture may be dropped; latestDocChange is the last open change. *)
FirmCalls(O) == \A c \in O : c.firm \/ c.task.kind \in Pictures

LastChange(O, n, u) ==
  /\ u.docChange <= n
  /\ \A c \in O : c.task.kind \in Changes =>
       /\ c.seq <= u.docChange
       /\ \E e \in O : e.seq = u.docChange /\ e.task.kind \in Changes

(* A fold, a move and the question of a fold are about the document that   *)
(* will be the one of the store when it is their turn.                     *)
FoldsFit(O, s) ==
  \A c \in O : c.task.kind = "fold" => Fits(s, c.task.base, {e \in O : e.seq < c.seq})

MovesFit(O, s) ==
  \A c \in O : c.task.kind = "move" =>
    /\ c.task.base = s.ver
    /\ \A e \in O : e.task.kind \in Changes => c.seq <= e.seq
    /\ c.task.to \in DOMAIN s.ids
    /\ \E i \in DOMAIN s.ids : s.ids[i] = c.task.id

QuestionFits(O, u, s) ==
  u.pending # Null => Fits(s, u.pending.base, {c \in O : ~ Serves(c, u)})

(* While the back end is asked what a fold would do there is no question.  *)
Asking(O, u) ==
  \A c \in O : c.task.kind = "preview" /\ c.seq = u.asking => u.pending = Null

(* No two folds end the same wait, nor does one end that of a question.    *)
Owners(O, n, u) ==
  /\ \A c \in O : c.task.kind = "fold" =>
       /\ c.task.owner \in 1 .. n
       /\ \A e \in O : /\ e.task.kind = "fold" /\ e.task.owner = c.task.owner => e = c
                       /\ e.task.kind = "preview" => c.task.owner # e.seq
       /\ \A k \in u.after : k.task.kind = "fold" => k.task.owner # c.task.owner
  /\ \A k \in u.after : k.task.kind = "fold" =>
       /\ k.task.owner <= n
       /\ \A e \in O : e.task.kind = "preview" => k.task.owner # e.seq

LineSound(O, n, u, s) ==
  /\ FirmCalls(O) /\ LastChange(O, n, u) /\ FoldsFit(O, s) /\ MovesFit(O, s)
  /\ QuestionFits(O, u, s) /\ Asking(O, u) /\ Owners(O, n, u)
  /\ s.adopted <= s.ver

(* What a handler does to that: it finds u and the calls O and leaves d,   *)
(* with the call a, if it makes one.                                       *)
Makes(a, kinds) == a # Null /\ a.task.kind \in kinds

Proceeds(O, n, u, s, d, a) ==
  /\ a # Null => a.firm \/ Makes(a, Pictures)
  /\ d.after \subseteq u.after
  /\ IF Makes(a, Changes) THEN d.docChange = n + 1 ELSE d.docChange = u.docChange
  /\ Makes(a, {"move"}) =>
       /\ a.task.base = s.ver
       /\ \A e \in O : e.task.kind \notin Changes
       /\ a.task.to \in DOMAIN s.ids
       /\ \E i \in DOMAIN s.ids : s.ids[i] = a.task.id
  /\ Makes(a, {"fold"}) =>
       /\ Fits(s, a.task.base, O)
       /\ a.task.owner \in 1 .. n + 1
       /\ \A e \in O : /\ e.task.kind = "fold" => e.task.owner # a.task.owner
                       /\ e.task.kind = "preview" => e.seq # a.task.owner
       /\ \A k \in d.after : k.task.kind = "fold" => k.task.owner # a.task.owner
  /\ \/ d.pending = Null
     \/ O = {} /\ a = Null /\ d.pending.base = s.ver
     \/ /\ d.pending = u.pending /\ ~ Makes(a, {"preview"}) /\ d.asking \in {u.asking, 0}
        /\ \A c \in O : Serves(c, u) => Serves(c, d)
        /\ Makes(a, Changes \ {"adopt"}) => Serves(a, d)

(* The calls that are open after a turn.                                   *)
LEMMA AskedIs ==
  ASSUME NEW O, NEW n, OpenSound(O, n), FirmCalls(O), NEW P, NEW m, NEW a, Asked(O, n, P, m, a),
         a # Null => a.firm \/ Makes(a, Pictures)
  PROVE  /\ m \in Nat /\ n <= m /\ n \in Nat
         /\ a # Null => m = n + 1
         /\ a = Null => P = O /\ m = n
         /\ \A e \in P : e \in O \/ (a # Null /\ e.seq = n + 1 /\ e.task = a.task /\ e.firm = a.firm)
         /\ \A e \in O : e.task.kind \notin Pictures \/ (a # Null /\ a.firm) => e \in P
         /\ a # Null => \E c \in P : c.seq = n + 1 /\ c.task = a.task
         /\ \A e \in O : e.seq \in 1 .. n
<1>1. n \in Nat /\ \A e \in O : e.seq \in 1 .. n
  BY DEF OpenSound
<1>2. CASE a = Null
  BY <1>1, <1>2 DEF Asked
<1>3. CASE a # Null
  <2>1. m = n + 1 /\ \E c \in P : /\ c.seq = n + 1 /\ c.task = a.task /\ c.firm = a.firm
                                  /\ P \subseteq O \union {c}
                                  /\ \A e \in O : e.firm \/ a.firm => e \in P
    BY <1>3, Zenon DEF Asked
  <2>2. \A e \in O : e.task.kind \notin Pictures => e.firm
    BY DEF FirmCalls
  <2>3. m \in Nat /\ n <= m
    BY <1>1, <2>1
  <2>4. PICK c \in P : /\ c.seq = n + 1 /\ c.task = a.task /\ c.firm = a.firm
                       /\ P \subseteq O \union {c}
                       /\ \A e \in O : e.firm \/ a.firm => e \in P
    BY <2>1
  <2>5. \A e \in P : e \in O \/ e = c
    BY <2>4
  <2> QED BY <1>1, <1>3, <2>1, <2>2, <2>3, <2>4, <2>5
<1> QED BY <1>2, <1>3

(* A turn keeps all of it.                                                 *)
LEMMA LineTurn ==
  ASSUME NEW O, NEW n, OpenSound(O, n), NEW P, NEW m, OpenSound(P, m), NEW u, NEW s, NEW d, NEW a,
         LineSound(O, n, u, s), Asked(O, n, P, m, a), Proceeds(O, n, u, s, d, a),
         s.ver \in Nat, u.docChange \in Nat, d.asking \in Nat, \A k \in d.after : k.task \in Task
  PROVE  LineSound(P, m, d, s)
<1>1. FirmCalls(O) /\ (a # Null => a.firm \/ Makes(a, Pictures))
  BY DEF LineSound, Proceeds
<1>2. /\ m \in Nat /\ n <= m /\ n \in Nat
      /\ a # Null => m = n + 1
      /\ a = Null => P = O /\ m = n
      /\ \A e \in P : e \in O \/ (a # Null /\ e.seq = n + 1 /\ e.task = a.task /\ e.firm = a.firm)
      /\ \A e \in O : e.task.kind \notin Pictures => e \in P
      /\ a # Null => \E c \in P : c.seq = n + 1 /\ c.task = a.task
      /\ \A e \in O : e.seq \in 1 .. n
  BY <1>1, AskedIs
<1>3. \A c, e \in P : c.seq = e.seq => c = e
  BY DEF OpenSound
<1>4. Changes \cap Pictures = {} /\ "preview" \notin Pictures /\ "fold" \in Changes
      /\ "move" \in Changes /\ "adopt" \in Changes /\ "preview" \notin Changes
  BY DEF Changes, Pictures
<1>5. FirmCalls(P)
  BY <1>1, <1>2, Zenon DEF FirmCalls, Makes
<1>6. LastChange(P, m, d)
  <2>1. CASE Makes(a, Changes)
    <3>1. d.docChange = n + 1 /\ m = n + 1
      BY <1>2, <2>1 DEF Proceeds, Makes
    <3>2. PICK e \in P : e.seq = n + 1 /\ e.task.kind \in Changes
      BY <1>2, <2>1 DEF Makes
    <3>3. \A c \in P : c.seq <= n + 1
      BY <1>2
    <3> QED BY <1>2, <3>1, <3>2, <3>3 DEF LastChange
  <2>2. CASE ~ Makes(a, Changes)
    <3>1. d.docChange = u.docChange /\ u.docChange <= n
      BY <2>2 DEF Proceeds, LineSound, LastChange
    <3>2. ASSUME NEW c \in P, c.task.kind \in Changes
          PROVE  c.seq <= d.docChange /\ \E e \in P : e.seq = d.docChange /\ e.task.kind \in Changes
      <4>1. c \in O
        BY <1>2, <2>2, <3>2 DEF Makes
      <4>2. PICK e \in O : e.seq = u.docChange /\ e.task.kind \in Changes
        BY <3>2, <4>1 DEF LineSound, LastChange
      <4>3. e \in P
        BY <1>2, <1>4, <4>2
      <4>4. c.seq <= u.docChange
        BY <3>2, <4>1 DEF LineSound, LastChange
      <4> QED BY <3>1, <4>2, <4>3, <4>4
    <3>3. d.docChange <= m
      BY <1>2, <3>1
    <3> QED BY <3>2, <3>3 DEF LastChange
  <2> QED BY <2>1, <2>2
<1>7. ASSUME NEW base, NEW A, NEW B, A \subseteq B, Fits(s, base, B) PROVE Fits(s, base, A)
  BY <1>7 DEF Fits
<1>8. FoldsFit(P, s)
  <2> SUFFICES ASSUME NEW c \in P, c.task.kind = "fold"
               PROVE  Fits(s, c.task.base, {e \in P : e.seq < c.seq})
    BY DEF FoldsFit
  <2>1. CASE c \in O
    <3>1. Fits(s, c.task.base, {e \in O : e.seq < c.seq})
      BY <2>1 DEF LineSound, FoldsFit
    <3>2. {e \in P : e.seq < c.seq} \subseteq {e \in O : e.seq < c.seq}
      <4> SUFFICES ASSUME NEW e \in P, e.seq < c.seq, e \notin O PROVE FALSE
        OBVIOUS
      <4>1. e.seq = n + 1 /\ c.seq \in 1 .. n
        BY <1>2, <2>1
      <4> QED BY <1>2, <4>1
    <3> QED BY <1>7, <3>1, <3>2
  <2>2. CASE c \notin O
    <3>1. a # Null /\ c.seq = n + 1 /\ c.task = a.task
      BY <1>2, <2>2
    <3>2. Fits(s, c.task.base, O)
      BY <3>1 DEF Proceeds, Makes
    <3>3. {e \in P : e.seq < c.seq} \subseteq O
      <4> SUFFICES ASSUME NEW e \in P, e.seq < c.seq, e \notin O PROVE FALSE
        OBVIOUS
      <4>1. e.seq = n + 1
        BY <1>2
      <4> QED BY <1>2, <3>1, <4>1
    <3> QED BY <1>7, <3>2, <3>3
  <2> QED BY <2>1, <2>2
<1>9. MovesFit(P, s)
  <2> SUFFICES ASSUME NEW c \in P, c.task.kind = "move"
               PROVE  /\ c.task.base = s.ver
                      /\ \A e \in P : e.task.kind \in Changes => c.seq <= e.seq
                      /\ c.task.to \in DOMAIN s.ids
                      /\ \E i \in DOMAIN s.ids : s.ids[i] = c.task.id
    BY DEF MovesFit
  <2>1. CASE c \in O
    <3>1. /\ c.task.base = s.ver
          /\ \A e \in O : e.task.kind \in Changes => c.seq <= e.seq
          /\ c.task.to \in DOMAIN s.ids
          /\ \E i \in DOMAIN s.ids : s.ids[i] = c.task.id
      BY <2>1 DEF LineSound, MovesFit
    <3>2. \A e \in P : e \in O \/ c.seq <= e.seq
      BY <1>2, <2>1
    <3> QED BY <3>1, <3>2
  <2>2. CASE c \notin O
    <3>1. a # Null /\ c.seq = n + 1 /\ c.task = a.task
      BY <1>2, <2>2
    <3>2. /\ c.task.base = s.ver
          /\ \A e \in O : e.task.kind \notin Changes
          /\ c.task.to \in DOMAIN s.ids
          /\ \E i \in DOMAIN s.ids : s.ids[i] = c.task.id
      BY <3>1 DEF Proceeds, Makes
    <3>3. \A e \in P : e.task.kind \in Changes => c.seq <= e.seq
      <4> SUFFICES ASSUME NEW e \in P, e.task.kind \in Changes PROVE c.seq <= e.seq
        OBVIOUS
      <4>1. e.seq = n + 1
        BY <1>2, <3>2
      <4> QED BY <1>2, <3>1, <4>1
    <3> QED BY <3>2, <3>3
  <2> QED BY <2>1, <2>2
<1>10. QuestionFits(P, d, s) /\ Asking(P, d)
  <2>1. CASE d.pending = Null
    BY <2>1 DEF QuestionFits, Asking
  <2>2. CASE O = {} /\ a = Null /\ d.pending.base = s.ver
    <3>1. P = {}
      BY <1>2, <2>2
    <3> QED BY <2>2, <3>1 DEF QuestionFits, Asking, Fits
  <2>3. CASE /\ d.pending # Null
             /\ d.pending = u.pending /\ ~ Makes(a, {"preview"}) /\ d.asking \in {u.asking, 0}
             /\ \A c \in O : Serves(c, u) => Serves(c, d)
             /\ Makes(a, Changes \ {"adopt"}) => Serves(a, d)
    <3>1. ASSUME NEW c \in P, ~ Serves(c, d), c.task.kind \in Changes, c.task.kind # "adopt"
          PROVE  c \in O /\ ~ Serves(c, u)
      <4>1. CASE c \in O
        BY <2>3, <3>1, <4>1
      <4>2. CASE c \notin O
        <5>1. a # Null /\ c.task = a.task
          BY <1>2, <4>2
        <5>2. Serves(a, d)
          BY <2>3, <3>1, <5>1 DEF Makes
        <5> QED BY <3>1, <5>1, <5>2 DEF Serves
      <4> QED BY <4>1, <4>2
    <3>2. Fits(s, d.pending.base, {c \in O : ~ Serves(c, u)})
      BY <2>3 DEF LineSound, QuestionFits
    <3>3. QuestionFits(P, d, s)
      BY <3>1, <3>2 DEF QuestionFits, Fits
    <3>4. Asking(P, d)
      <4> SUFFICES ASSUME NEW c \in P, c.task.kind = "preview", c.seq = d.asking PROVE FALSE
        BY DEF Asking
      <4>1. c \in O
        BY <1>2, <2>3 DEF Makes
      <4>2. c.seq \in 1 .. n
        BY <1>2, <4>1
      <4>3. d.asking = u.asking
        BY <2>3, <4>2
      <4> QED BY <2>3, <4>1, <4>3 DEF LineSound, Asking
    <3> QED BY <3>3, <3>4
  <2> QED BY <2>1, <2>2, <2>3 DEF Proceeds
<1>11. Owners(P, m, d)
  <2>1. /\ \A c \in O : c.task.kind = "fold" =>
             /\ c.task.owner \in 1 .. n
             /\ \A e \in O : /\ e.task.kind = "fold" /\ e.task.owner = c.task.owner => e = c
                             /\ e.task.kind = "preview" => c.task.owner # e.seq
             /\ \A k \in d.after : k.task.kind = "fold" => k.task.owner # c.task.owner
        /\ \A k \in d.after : k.task.kind = "fold" =>
             /\ k.task.owner <= n
             /\ \A e \in O : e.task.kind = "preview" => k.task.owner # e.seq
    BY DEF LineSound, Owners, Proceeds
  <2>2. Makes(a, {"fold"}) =>
          /\ a.task.owner \in 1 .. n + 1
          /\ \A e \in O : /\ e.task.kind = "fold" => e.task.owner # a.task.owner
                          /\ e.task.kind = "preview" => e.seq # a.task.owner
          /\ \A k \in d.after : k.task.kind = "fold" => k.task.owner # a.task.owner
    BY DEF Proceeds
  <2>3. ASSUME NEW c \in P, c.task.kind = "fold"
        PROVE  /\ c.task.owner \in 1 .. m
               /\ \A e \in P : /\ e.task.kind = "fold" /\ e.task.owner = c.task.owner => e = c
                               /\ e.task.kind = "preview" => c.task.owner # e.seq
               /\ \A k \in d.after : k.task.kind = "fold" => k.task.owner # c.task.owner
    <3>1. CASE c \in O
      <4>1. c.task.owner \in 1 .. n
        BY <2>1, <2>3, <3>1
      <4>2. ASSUME NEW e \in P, e.task.kind = "fold", e.task.owner = c.task.owner PROVE e = c
        <5>1. CASE e \in O
          BY <2>1, <2>3, <3>1, <4>2, <5>1
        <5>2. CASE e \notin O
          <6>1. a # Null /\ e.task = a.task
            BY <1>2, <5>2
          <6> QED BY <2>2, <2>3, <3>1, <4>2, <6>1 DEF Makes
        <5> QED BY <5>1, <5>2
      <4>3. ASSUME NEW e \in P, e.task.kind = "preview" PROVE c.task.owner # e.seq
        <5>1. CASE e \in O
          BY <2>1, <2>3, <3>1, <4>3, <5>1
        <5>2. CASE e \notin O
          <6>1. e.seq = n + 1
            BY <1>2, <5>2
          <6> QED BY <1>2, <4>1, <6>1
        <5> QED BY <5>1, <5>2
      <4>4. c.task.owner \in 1 .. m
        BY <1>2, <4>1
      <4> QED BY <2>1, <2>3, <3>1, <4>2, <4>3, <4>4
    <3>2. CASE c \notin O
      <4>1. a # Null /\ c.seq = n + 1 /\ c.task = a.task /\ m = n + 1
        BY <1>2, <3>2
      <4>2. /\ c.task.owner \in 1 .. n + 1
            /\ \A e \in O : /\ e.task.kind = "fold" => e.task.owner # c.task.owner
                            /\ e.task.kind = "preview" => e.seq # c.task.owner
            /\ \A k \in d.after : k.task.kind = "fold" => k.task.owner # c.task.owner
        BY <2>2, <2>3, <4>1 DEF Makes
      <4>3. \A e \in P : e \in O \/ e = c
        BY <1>2, <1>3, <4>1
      <4> QED BY <2>3, <4>1, <4>2, <4>3
    <3> QED BY <3>1, <3>2
  <2>4. ASSUME NEW k \in d.after, k.task.kind = "fold"
        PROVE  k.task.owner <= m /\ \A e \in P : e.task.kind = "preview" => k.task.owner # e.seq
    <3>1. k.task.owner <= n
      BY <2>1, <2>4
    <3>2. k.task.owner \in Nat
      BY <2>4, Arguments
    <3>3. \A e \in P : e \in O \/ e.seq = n + 1
      BY <1>2
    <3>4. \A e \in P : e.task.kind = "preview" => k.task.owner # e.seq
      <4> SUFFICES ASSUME NEW e \in P, e.task.kind = "preview" PROVE k.task.owner # e.seq
        OBVIOUS
      <4>1. CASE e \in O
        BY <2>1, <2>4, <4>1
      <4>2. CASE e.seq = n + 1
        BY <1>2, <3>1, <3>2, <4>2
      <4> QED BY <3>3, <4>1, <4>2
    <3> QED BY <1>2, <3>1, <3>2, <3>4
  <2> QED BY <2>3, <2>4 DEF Owners
<1>12. s.adopted <= s.ver
  BY DEF LineSound
<1> QED BY <1>5, <1>6, <1>8, <1>9, <1>10, <1>11, <1>12 DEF LineSound

(* The answer of the first open call r: after a change of the document,    *)
(* which r's continuation follows, or without one.                         *)
LEMMA LineAnswered ==
  ASSUME NEW O, NEW n, OpenSound(O, n), NEW u, NEW s, LineSound(O, n, u, s), s \in Stores,
         NEW r \in O, NEW R, R = O \ {r}, \A e \in R : r.seq < e.seq, NEW t, NEW d,
         d.docChange = u.docChange, d.asking = u.asking, u.docChange \in Nat,
         \A k \in d.after : k \in u.after \/ k.task = r.task,
         \/ t = s /\ d.pending = u.pending /\ d.busy = u.busy
         \/ /\ d.pending = Null /\ r.task.kind \in Changes
            /\ t.ver = s.ver + 1
            /\ t.adopted = IF r.task.kind = "adopt" THEN s.ver + 1 ELSE s.adopted
  PROVE  LineSound(R, n, d, t)
<1>1. n \in Nat /\ \A e \in O : e.seq \in 1 .. n /\ e \in Cell(Task)
  BY DEF OpenSound
<1>2. \A c, e \in O : c.seq = e.seq => c = e
  BY DEF OpenSound
<1>3. \A e \in R : e \in O /\ r.seq < e.seq /\ e # r
  OBVIOUS
<1>4. "fold" \in Changes /\ "move" \in Changes
  BY DEF Changes
<1>5. FirmCalls(R)
  BY <1>3 DEF LineSound, FirmCalls
<1>6. LastChange(R, n, d)
  <2>1. ASSUME NEW c \in R, c.task.kind \in Changes
        PROVE  c.seq <= d.docChange /\ \E e \in R : e.seq = d.docChange /\ e.task.kind \in Changes
    <3>1. c.seq <= u.docChange /\ \E e \in O : e.seq = u.docChange /\ e.task.kind \in Changes
      BY <1>3, <2>1 DEF LineSound, LastChange
    <3>2. PICK e \in O : e.seq = u.docChange /\ e.task.kind \in Changes
      BY <3>1
    <3>3. r.seq < c.seq /\ r.seq \in Nat /\ c.seq \in Nat
      BY <1>1, <1>3
    <3>4. e # r
      BY <3>1, <3>2, <3>3
    <3> QED BY <3>1, <3>2, <3>4
  <2>2. d.docChange <= n
    BY DEF LineSound, LastChange
  <2> QED BY <2>1, <2>2 DEF LastChange
<1>7. s.ver \in Nat /\ s.adopted \in Nat /\ s.adopted <= s.ver
  BY DEF Stores, LineSound
<1>8. FoldsFit(R, t)
  <2> SUFFICES ASSUME NEW c \in R, c.task.kind = "fold"
               PROVE  Fits(t, c.task.base, {e \in R : e.seq < c.seq})
    BY DEF FoldsFit
  <2>1. Fits(s, c.task.base, {e \in O : e.seq < c.seq})
    BY <1>3 DEF LineSound, FoldsFit
  <2>2. CASE t = s
    BY <1>3, <2>1, <2>2 DEF Fits
  <2>3. CASE /\ r.task.kind \in Changes /\ t.ver = s.ver + 1
             /\ t.adopted = IF r.task.kind = "adopt" THEN s.ver + 1 ELSE s.adopted
    <3>1. c.task.base \in Nat
      <4>1. c.task \in Task
        BY <1>1, <1>3 DEF Cell
      <4> QED BY <4>1, Arguments
    <3>2. r \in {e \in O : e.seq < c.seq}
      BY <1>3
    <3>3. c.task.base <= s.ver /\ (s.adopted > c.task.base \/ r.task.kind = "adopt")
      BY <2>1, <2>3, <3>2 DEF Fits
    <3>4. t.adopted > c.task.base
      BY <1>7, <2>3, <3>1, <3>3
    <3>5. c.task.base <= t.ver
      BY <1>7, <2>3, <3>1, <3>3
    <3> QED BY <3>4, <3>5 DEF Fits
  <2> QED BY <2>2, <2>3
<1>9. MovesFit(R, t)
  <2> SUFFICES ASSUME NEW c \in R, c.task.kind = "move"
               PROVE  /\ c.task.base = t.ver
                      /\ \A e \in R : e.task.kind \in Changes => c.seq <= e.seq
                      /\ c.task.to \in DOMAIN t.ids
                      /\ \E i \in DOMAIN t.ids : t.ids[i] = c.task.id
    BY DEF MovesFit
  <2>1. /\ c.task.base = s.ver
        /\ \A e \in O : e.task.kind \in Changes => c.seq <= e.seq
        /\ c.task.to \in DOMAIN s.ids
        /\ \E i \in DOMAIN s.ids : s.ids[i] = c.task.id
    BY <1>3 DEF LineSound, MovesFit
  <2>2. r.task.kind \notin Changes
    <3>1. r.seq < c.seq /\ r.seq \in Nat /\ c.seq \in Nat
      BY <1>1, <1>3
    <3> QED BY <2>1, <3>1
  <2> QED BY <1>3, <2>1, <2>2
<1>10. QuestionFits(R, d, t) /\ Asking(R, d)
  <2>1. CASE d.pending = Null
    BY <2>1 DEF QuestionFits, Asking
  <2>2. CASE t = s /\ d.pending = u.pending /\ d.busy = u.busy
    <3>1. {c \in R : ~ Serves(c, d)} \subseteq {c \in O : ~ Serves(c, u)}
      BY <1>3, <2>2 DEF Serves
    <3>2. QuestionFits(R, d, t)
      BY <2>2, <3>1 DEF LineSound, QuestionFits, Fits
    <3>3. Asking(R, d)
      BY <1>3, <2>2 DEF LineSound, Asking
    <3> QED BY <3>2, <3>3
  <2> QED BY <2>1, <2>2
<1>11. Owners(R, n, d)
  <2>1. /\ \A c \in O : c.task.kind = "fold" =>
             /\ c.task.owner \in 1 .. n
             /\ \A e \in O : /\ e.task.kind = "fold" /\ e.task.owner = c.task.owner => e = c
                             /\ e.task.kind = "preview" => c.task.owner # e.seq
             /\ \A k \in u.after : k.task.kind = "fold" => k.task.owner # c.task.owner
        /\ \A k \in u.after : k.task.kind = "fold" =>
             /\ k.task.owner <= n
             /\ \A e \in O : e.task.kind = "preview" => k.task.owner # e.seq
    BY DEF LineSound, Owners
  <2>2. ASSUME NEW c \in R, c.task.kind = "fold"
        PROVE  /\ c.task.owner \in 1 .. n
               /\ \A e \in R : /\ e.task.kind = "fold" /\ e.task.owner = c.task.owner => e = c
                               /\ e.task.kind = "preview" => c.task.owner # e.seq
               /\ \A k \in d.after : k.task.kind = "fold" => k.task.owner # c.task.owner
    <3>1. \A k \in d.after : k.task.kind = "fold" => k.task.owner # c.task.owner
      <4> SUFFICES ASSUME NEW k \in d.after, k.task.kind = "fold", k.task.owner = c.task.owner
                   PROVE  FALSE
        OBVIOUS
      <4>1. CASE k \in u.after
        BY <1>3, <2>1, <2>2, <4>1
      <4>2. CASE k.task = r.task
        BY <1>3, <2>1, <2>2, <4>2
      <4> QED BY <4>1, <4>2
    <3> QED BY <1>3, <2>1, <2>2, <3>1
  <2>3. ASSUME NEW k \in d.after, k.task.kind = "fold"
        PROVE  k.task.owner <= n /\ \A e \in R : e.task.kind = "preview" => k.task.owner # e.seq
    <3>1. CASE k \in u.after
      BY <1>3, <2>1, <2>3, <3>1
    <3>2. CASE k.task = r.task
      BY <1>1, <1>3, <2>1, <2>3, <3>2
    <3> QED BY <3>1, <3>2
  <2> QED BY <2>2, <2>3 DEF Owners
<1>12. t.adopted <= t.ver
  BY <1>7
<1> QED BY <1>5, <1>6, <1>8, <1>9, <1>10, <1>11, <1>12 DEF LineSound

-----------------------------------------------------------------------------
(* The pictures that are asked for.                                        *)

(* A call for a picture is not newer than the screens; if it is as new, it *)
(* asks for what they want, unless playback has just jumped to the start   *)
(* and will ask again.                                                     *)
Right(u, t) ==
  /\ t.gen <= u.generation /\ t.of <= u.shown.ver
  /\ t.gen = u.generation /\ t.of = u.shown.ver =>
       Jump(u) \/ (Min({t.upTo, Total(u)}) = Wanted(u).upTo /\ t.full = Wanted(u).full)

Older(u, t) == t.gen <= u.generation /\ t.of <= u.shown.ver

(* The latest call, when it is for a picture, asks for the right one.      *)
PicturesRight(O, n, u) ==
  \A c \in O : c.task.kind \in Pictures =>
    Older(u, c.task) /\ (c.seq = n => Right(u, c.task))

(* A picture that is not the one wanted is followed by another one.        *)
Coming == {"replay", "pose", "move"}

Comes(O, u, s) ==
  u.seen = "drawn" /\ u.frame # Wanted(u) =>
    \/ Jump(u) \/ ~ IsInjective(s.ids)
    \/ \E c \in O : c.task.kind \in Coming

(* What a handler does to the pictures: u before, d after.                 *)
SameWanted(u, d) == d.shown = u.shown /\ Wanted(d) = Wanted(u) /\ (Jump(u) => Jump(d))

Looks(O, u, s, d, a) ==
  /\ u.generation <= d.generation /\ u.shown.ver <= d.shown.ver
  /\ Makes(a, Pictures) => Right(d, a.task)
  /\ a = Null => \/ Jump(d) \/ u.generation < d.generation \/ u.shown.ver < d.shown.ver
                 \/ SameWanted(u, d) \/ O = {}
  /\ d.seen = "drawn" /\ d.frame # Wanted(d) =>
       \/ Jump(d) \/ ~ IsInjective(s.ids) \/ Makes(a, Coming)
       \/ \E c \in O : c.task.kind \in Coming

LEMMA PictureIsRight ==
  ASSUME NEW d, Sane(d), NEW t, PictureOf(d, t)
  PROVE  Right(d, t)
<1>1. d.generation \in Nat /\ d.shown.ver \in Nat
  BY DraftFields DEF Sane
<1> QED BY <1>1 DEF PictureOf, Right, Wanted

LEMMA PictureTurn ==
  ASSUME NEW O, NEW n, OpenSound(O, n), FirmCalls(O), NEW P, NEW m, NEW a, Asked(O, n, P, m, a),
         a # Null => a.firm \/ Makes(a, Pictures),
         NEW u, NEW d, NEW s, Sane(u), Sane(d), PicturesRight(O, n, u), Looks(O, u, s, d, a)
  PROVE  PicturesRight(P, m, d) /\ Comes(P, d, s)
<1>1. /\ m \in Nat /\ n <= m /\ n \in Nat
      /\ a # Null => m = n + 1
      /\ a = Null => P = O /\ m = n
      /\ \A e \in P : e \in O \/ (a # Null /\ e.seq = n + 1 /\ e.task = a.task /\ e.firm = a.firm)
      /\ \A e \in O : e.task.kind \notin Pictures \/ (a # Null /\ a.firm) => e \in P
      /\ a # Null => \E c \in P : c.seq = n + 1 /\ c.task = a.task
      /\ \A e \in O : e.seq \in 1 .. n
  BY AskedIs
<1>2. /\ u.generation \in Nat /\ d.generation \in Nat
      /\ u.shown.ver \in Nat /\ d.shown.ver \in Nat
      /\ u.generation <= d.generation /\ u.shown.ver <= d.shown.ver
  BY DraftFields DEF Sane, Looks
<1>3. \A c \in O : c.task \in Task
  BY DEF OpenSound, Cell
<1>4. Pictures \subseteq Coming
  BY DEF Pictures, Coming
<1>5. ASSUME NEW c \in P, c.task.kind \in Pictures
      PROVE  Older(d, c.task) /\ (c.seq = m => Right(d, c.task))
  <2>1. CASE c \notin O
    <3>1. a # Null /\ c.task = a.task
      BY <1>1, <2>1
    <3>2. Right(d, c.task)
      BY <1>5, <3>1 DEF Looks, Makes
    <3> QED BY <3>2 DEF Right, Older
  <2>2. CASE c \in O
    <3>1. c.task.gen \in Nat /\ c.task.of \in Nat
      BY <1>3, <1>5, <2>2, Arguments DEF Pictures
    <3>2. c.task.gen <= u.generation /\ c.task.of <= u.shown.ver
      BY <1>5, <2>2 DEF PicturesRight, Older
    <3>3. Older(d, c.task)
      BY <1>2, <3>1, <3>2 DEF Older
    <3>4. ASSUME c.seq = m PROVE Right(d, c.task)
      <4>1. a = Null /\ m = n
        BY <1>1, <2>2, <3>4
      <4>2. Right(u, c.task)
        BY <1>5, <2>2, <3>4, <4>1 DEF PicturesRight
      <4>3. CASE Jump(d)
        BY <3>3, <4>3 DEF Right, Older
      <4>4. CASE u.generation < d.generation
        BY <1>2, <3>1, <3>2, <3>3, <4>4 DEF Right, Older
      <4>5. CASE u.shown.ver < d.shown.ver
        BY <1>2, <3>1, <3>2, <3>3, <4>5 DEF Right, Older
      <4>6. CASE SameWanted(u, d) /\ d.generation = u.generation
        BY <3>3, <4>2, <4>6 DEF SameWanted, Right, Older, Total
      <4>7. SameWanted(u, d) => u.generation < d.generation \/ d.generation = u.generation
        BY <1>2
      <4> QED BY <2>2, <4>1, <4>3, <4>4, <4>5, <4>6, <4>7 DEF Looks
    <3> QED BY <3>3, <3>4
  <2> QED BY <2>1, <2>2
<1>6. Comes(P, d, s)
  <2> SUFFICES ASSUME d.seen = "drawn", d.frame # Wanted(d), ~ Jump(d), IsInjective(s.ids)
               PROVE  \E c \in P : c.task.kind \in Coming
    BY DEF Comes
  <2>1. Makes(a, Coming) \/ \E c \in O : c.task.kind \in Coming
    BY DEF Looks
  <2>2. CASE Makes(a, Coming)
    BY <1>1, <2>2 DEF Makes
  <2>3. ASSUME NEW c \in O, c.task.kind \in Coming, ~ Makes(a, Coming)
        PROVE  c \in P
    <3>1. a = Null \/ a.firm
      BY <1>4, <2>3 DEF Makes
    <3> QED BY <1>1, <3>1
  <2> QED BY <2>1, <2>2, <2>3
<1> QED BY <1>5, <1>6 DEF PicturesRight

-----------------------------------------------------------------------------
(* All of it together; what it says of the pictures and of the line does   *)
(* not depend on what else the screens hold.                               *)

StepsMove(u) == \A k \in u.after : k.task.kind = "move" => k.task.to # 0

DeskSound ==
  /\ InOrder(queue) /\ store \in Stores /\ ui \in Ui /\ Sane(ui)
  /\ ui.shown = [ver |-> store.ver, ids |-> store.ids]
  /\ Placed(ui) /\ StepsMove(ui)
  /\ LineSound(Open(queue), queue.latestSeq, ui, store)
  /\ PicturesRight(Open(queue), queue.latestSeq, ui)
  /\ Comes(Open(queue), ui, store)

LEMMA SameLine ==
  ASSUME NEW O, NEW n, NEW d, NEW e, SameFold(d, e), NEW s, LineSound(O, n, d, s)
  PROVE  LineSound(O, n, e, s)
<1>1. /\ e.docChange = d.docChange /\ e.after = d.after
      /\ e.asking = d.asking /\ e.pending = d.pending /\ e.busy = d.busy
  BY DEF SameFold, SameCalls
<1>2. LastChange(O, n, e) /\ Asking(O, e) /\ Owners(O, n, e)
  BY <1>1 DEF LineSound, LastChange, Asking, Owners
<1>3. QuestionFits(O, e, s)
  BY <1>1 DEF LineSound, QuestionFits, Serves
<1> QED BY <1>2, <1>3 DEF LineSound

LEMMA SameRight ==
  ASSUME NEW d, NEW e, SameView(d, e), SamePlay(d, e), e.generation = d.generation, NEW t
  PROVE  Right(d, t) => Right(e, t)
<1>1. Total(e) = Total(d) /\ Wanted(e) = Wanted(d)
  BY SamePlace DEF SameView
<1> QED BY <1>1 DEF SameView, SamePlay, Right, Jump

LEMMA SamePictures ==
  ASSUME NEW O, NEW n, NEW d, NEW e, SameView(d, e), SamePlay(d, e),
         e.generation = d.generation, NEW s, PicturesRight(O, n, d), Comes(O, d, s)
  PROVE  PicturesRight(O, n, e) /\ Comes(O, e, s)
<1>1. Total(e) = Total(d) /\ Wanted(e) = Wanted(d)
  BY SamePlace DEF SameView
<1>2. PicturesRight(O, n, e)
  BY SameRight DEF PicturesRight, Older, SameView
<1>3. Comes(O, e, s)
  BY <1>1 DEF SameView, SamePlay, Comes, Jump
<1> QED BY <1>2, <1>3

(* A turn: q is the queue it finds, u the screens once the answered call   *)
(* is accounted for, d what its handler leaves.                            *)
LEMMA TurnGoesOn ==
  ASSUME DeskSound, NEW q, InOrder(q), q.latestSeq = queue.latestSeq,
         Open(q) \subseteq Open(queue), store' \in Stores,
         NEW u, u.docChange \in Nat, LineSound(Open(q), q.latestSeq, u, store'),
         NEW d, Sane(d), Turn(q, d), Placed(d), StepsMove(d),
         d.shown = [ver |-> store'.ver, ids |-> store'.ids],
         Proceeds(Open(q), q.latestSeq, u, store', d, d.ask),
         Looks(Open(q), ui, store', d, d.ask)
  PROVE  DeskSound'
<1> DEFINE O == Open(q)
           n == q.latestSeq
           P == Open(queue')
           m == queue'.latestSeq
<1>1. /\ ui' \in Ui /\ Sane(ui') /\ SameFold(d, ui') /\ SameView(d, ui') /\ SamePlay(d, ui')
      /\ ui'.generation = d.generation
      /\ queue' = Ask(q, d.ask)
  BY TurnIs
<1>2. d.ask \in Calls
  BY DEF Sane, Draft, Screens, Calls
<1>3. InOrder(queue') /\ Asked(O, n, P, m, d.ask)
  BY <1>1, <1>2, AskIs
<1>4. OpenSound(O, n) /\ OpenSound(P, m)
  BY <1>3, OpenIsSound
<1>5. /\ store'.ver \in Nat /\ d.asking \in Nat /\ \A k \in d.after : k.task \in Task
  BY DraftFields DEF Stores, Sane
<1>6. LineSound(P, m, d, store')
  <2> HIDE DEF O, n, P, m
  <2> QED BY <1>3, <1>4, <1>5, LineTurn DEF O, n
<1>7. PicturesRight(O, n, ui) /\ FirmCalls(O)
  <2>1. PicturesRight(O, n, ui)
    BY DEF DeskSound, PicturesRight
  <2> QED BY <2>1 DEF LineSound
<1>8. d.ask # Null => d.ask.firm \/ Makes(d.ask, Pictures)
  BY DEF Proceeds
<1>9. PicturesRight(P, m, d) /\ Comes(P, d, store')
  <2>1. Sane(ui)
    BY DEF DeskSound
  <2>2. Looks(O, ui, store', d, d.ask)
    OBVIOUS
  <2> HIDE DEF O, n, P, m
  <2> QED BY <1>3, <1>4, <1>7, <1>8, <2>1, <2>2, PictureTurn
<1>10. LineSound(P, m, ui', store')
  BY <1>1, <1>6, SameLine
<1>11. PicturesRight(P, m, ui') /\ Comes(P, ui', store')
  BY <1>1, <1>9, SamePictures
<1>12. Placed(ui') /\ StepsMove(ui') /\ ui'.shown = [ver |-> store'.ver, ids |-> store'.ids]
  BY <1>1, SamePlace DEF SameView, SameFold, SameCalls, Placed, StepsMove
<1> QED BY <1>1, <1>3, <1>10, <1>11, <1>12 DEF DeskSound

(* The usual ways in which a handler proceeds: it makes no call or one that *)
(* changes nothing; it asks for a change of the document.                  *)
LEMMA CalmProceeds ==
  ASSUME NEW O, NEW n, NEW u, NEW s, NEW d, NEW a,
         a = Null \/ Makes(a, Pictures) \/ (a.firm /\ Makes(a, {"plain"})),
         d.docChange = u.docChange, d.after \subseteq u.after,
         d.pending \in {u.pending, Null}, d.asking \in {u.asking, 0},
         d.pending = Null \/ d.busy = u.busy \/ \A c \in O : ~ Serves(c, u)
  PROVE  Proceeds(O, n, u, s, d, a)
<1>1. \A kinds : Makes(a, kinds) => a.task.kind \in kinds
  BY DEF Makes
<1>2. ~ Makes(a, Changes) /\ ~ Makes(a, {"move"}) /\ ~ Makes(a, {"fold"})
      /\ ~ Makes(a, {"preview"}) /\ ~ Makes(a, Changes \ {"adopt"})
  BY DEF Makes, Pictures, Changes
<1>3. a # Null => a.firm \/ Makes(a, Pictures)
  OBVIOUS
<1>4. d.busy = u.busy => \A c \in O : Serves(c, u) => Serves(c, d)
  BY DEF Serves
<1> QED BY <1>2, <1>3, <1>4 DEF Proceeds

LEMMA ChangeProceeds ==
  ASSUME NEW O, NEW n, NEW u, NEW s, NEW d, NEW a, NEW t \in Task, t.kind \in Changes \ {"fold", "move"},
         a = [firm |-> TRUE, task |-> t], a # Null,
         d.docChange = n + 1, d.after = u.after, d.busy = u.busy,
         \/ d.pending = Null
         \/ d.pending = u.pending /\ d.asking = u.asking /\ t.kind = "adopt"
  PROVE  Proceeds(O, n, u, s, d, a)
<1>1. a.firm /\ a.task = t
  OBVIOUS
<1>2. Makes(a, Changes) /\ ~ Makes(a, {"move"}) /\ ~ Makes(a, {"fold"}) /\ ~ Makes(a, {"preview"})
      /\ (t.kind = "adopt" => ~ Makes(a, Changes \ {"adopt"}))
  BY <1>1 DEF Makes, Changes
<1>3. \A c \in O : Serves(c, u) => Serves(c, d)
  BY DEF Serves
<1> QED BY <1>1, <1>2, <1>3 DEF Proceeds

(* The usual ways in which it leaves the pictures: it asks for the right   *)
(* one; all is as it was; a picture is known to be missed.                 *)
LEMMA AskedLooks ==
  ASSUME NEW O, NEW u, NEW s, NEW d, Sane(d), AsksPicture(d),
         u.generation <= d.generation, u.shown.ver <= d.shown.ver
  PROVE  Looks(O, u, s, d, d.ask)
<1>1. Right(d, d.ask.task)
  BY PictureIsRight DEF AsksPicture
<1>2. d.ask # Null /\ Makes(d.ask, Coming)
  BY DEF AsksPicture, PictureOf, Makes, Coming
<1> QED BY <1>1, <1>2 DEF Looks

LEMMA KeptLooks ==
  ASSUME NEW O, NEW u, NEW s, NEW d, NEW a, ~ Makes(a, Pictures),
         u.generation <= d.generation, d.shown = u.shown, u.shown.ver \in Nat,
         Wanted(d) = Wanted(u), d.frame = u.frame, d.seen = u.seen,
         Jump(u) => Jump(d) \/ Makes(a, Coming), Comes(O, u, s)
  PROVE  Looks(O, u, s, d, a)
<1>1. a = Null => ~ Makes(a, Coming)
  BY DEF Makes
<1> QED BY <1>1 DEF Looks, Comes, SameWanted

LEMMA MissedLooks ==
  ASSUME NEW O, NEW u, NEW s, NEW d, NEW a, ~ Makes(a, Pictures), d.seen = "missed",
         u.generation <= d.generation, d.shown = u.shown, u.shown.ver \in Nat,
         a # Null \/ Jump(d) \/ SameWanted(u, d) \/ O = {}
  PROVE  Looks(O, u, s, d, a)
BY DEF Looks

(* What Keeps says of a handler that makes no call but for a picture.      *)
LEMMA KeepsLooks ==
  ASSUME NEW O, NEW u, NEW s, NEW d, Sane(d), Keeps(u, d), u.ask = Null,
         u.generation <= d.generation, d.shown = u.shown, u.shown.ver \in Nat, Comes(O, u, s)
  PROVE  Looks(O, u, s, d, d.ask)
<1>1. CASE AsksPicture(d)
  BY <1>1, AskedLooks
<1>2. CASE ~ AsksPicture(d)
  <2>1. /\ d.ask = Null /\ Wanted(d) = Wanted(u) /\ d.frame = u.frame /\ d.seen = u.seen
        /\ Jump(u) => Jump(d)
    BY <1>2 DEF Keeps
  <2>2. ~ Makes(d.ask, Pictures)
    BY <2>1 DEF Makes
  <2> QED BY <2>1, <2>2, KeptLooks
<1> QED BY <1>1, <1>2

(* What is known between turns.                                            *)
LEMMA Between ==
  ASSUME DeskSound
  PROVE  /\ Sane(ui) /\ ui.ask = Null /\ InOrder(queue) /\ queue.latestSeq \in Nat /\ store \in Stores
         /\ Placed(ui) /\ StepsMove(ui) /\ ui.shown = [ver |-> store.ver, ids |-> store.ids]
         /\ LineSound(Open(queue), queue.latestSeq, ui, store)
         /\ Comes(Open(queue), ui, store) /\ ui.shown.ver \in Nat /\ ui.generation \in Nat
         /\ ui.docChange \in Nat
<1>1. ui.ask = Null
  BY DEF DeskSound, Ui, Screens
<1>2. queue.latestSeq \in Nat
  BY DEF DeskSound, InOrder, SerialQueue
<1>3. ui.shown.ver \in Nat /\ ui.generation \in Nat /\ ui.docChange \in Nat
  BY DraftFields DEF DeskSound, Sane
<1> QED BY <1>1, <1>2, <1>3 DEF DeskSound

(* A turn that does not answer a call, and leaves the store alone.         *)
LEMMA QuietTurn ==
  ASSUME DeskSound, UNCHANGED store, NEW d, Sane(d), Turn(queue, d), Placed(d),
         d.shown = ui.shown, d.after \subseteq ui.after,
         Proceeds(Open(queue), queue.latestSeq, ui, store, d, d.ask),
         Looks(Open(queue), ui, store, d, d.ask)
  PROVE  DeskSound'
<1>1. StepsMove(d)
  BY Between DEF StepsMove
<1>2. store' = store
  OBVIOUS
<1>3. /\ InOrder(queue) /\ store' \in Stores /\ ui.docChange \in Nat
      /\ LineSound(Open(queue), queue.latestSeq, ui, store')
      /\ d.shown = [ver |-> store'.ver, ids |-> store'.ids]
      /\ Proceeds(Open(queue), queue.latestSeq, ui, store', d, d.ask)
      /\ Looks(Open(queue), ui, store', d, d.ask)
  BY <1>2, Between
<1> QED BY <1>1, <1>3, TurnGoesOn

(* The inputs leave everything as it is, ask for a picture or a plain call. *)
LEMMA CalmTurn ==
  ASSUME DeskSound, UNCHANGED store, NEW d, Sane(d), Turn(queue, d), SameCalls(ui, d), Placed(d),
         d.pending \in {ui.pending, Null}, d.asking \in {ui.asking, 0}, d.busy = ui.busy,
         ui.generation <= d.generation,
         \/ AsksPicture(d)
         \/ /\ d.ask = Null \/ (d.ask.firm /\ Makes(d.ask, {"plain"}))
            /\ Wanted(d) = Wanted(ui) /\ d.frame = ui.frame /\ d.seen = ui.seen
            /\ Jump(ui) => Jump(d)
  PROVE  DeskSound'
<1>1. d.shown = ui.shown /\ d.docChange = ui.docChange /\ d.after = ui.after
  BY DEF SameCalls
<1>2. AsksPicture(d) => Makes(d.ask, Pictures)
  BY DEF AsksPicture, PictureOf, Makes, Pictures
<1>3. Makes(d.ask, {"plain"}) \/ d.ask = Null => ~ Makes(d.ask, Pictures)
  BY DEF Makes, Pictures
<1>4. Proceeds(Open(queue), queue.latestSeq, ui, store, d, d.ask)
  BY <1>1, <1>2, CalmProceeds
<1>5. ui.shown.ver <= d.shown.ver
  BY <1>1, Between
<1>6. Looks(Open(queue), ui, store, d, d.ask)
  <2>1. CASE AsksPicture(d)
    BY <1>5, <2>1, AskedLooks
  <2>2. CASE ~ AsksPicture(d)
    BY <1>1, <1>3, <2>2, KeptLooks, Between
  <2> QED BY <2>1, <2>2
<1> QED BY <1>1, <1>4, <1>6, QuietTurn

(* A change of the document is asked for; the pictures stay as they are,   *)
(* or one is known to be missed.                                           *)
LEMMA ChangeTurn ==
  ASSUME DeskSound, UNCHANGED store, NEW d, Sane(d), Turn(queue, d), NEW t \in Task,
         t.kind \in Changes \ {"fold", "move"},
         d.ask = [firm |-> TRUE, task |-> t], d.ask # Null, Placed(d),
         d.shown = ui.shown, d.docChange = queue.latestSeq + 1, d.after = ui.after,
         d.busy = ui.busy, ui.generation <= d.generation,
         \/ d.pending = Null
         \/ d.pending = ui.pending /\ d.asking = ui.asking /\ t.kind = "adopt",
         \/ d.seen = "missed"
         \/ /\ Wanted(d) = Wanted(ui) /\ d.frame = ui.frame /\ d.seen = ui.seen
            /\ Jump(ui) => Jump(d)
  PROVE  DeskSound'
<1>1. ~ Makes(d.ask, Pictures)
  BY DEF Makes, Pictures, Changes
<1>2. Proceeds(Open(queue), queue.latestSeq, ui, store, d, d.ask)
  BY ChangeProceeds
<1>3. Looks(Open(queue), ui, store, d, d.ask)
  BY <1>1, KeptLooks, MissedLooks, Between
<1> QED BY <1>2, <1>3, QuietTurn

-----------------------------------------------------------------------------
(* The inputs of the user, one by one.                                     *)

LEMMA InputIs ==
  ASSUME NEW name, Input(name), DeskSound
  PROVE  UNCHANGED store /\ ~ ui.due /\ ~ Jump(ui)
BY DEF Input, Jump

LEMMA UiStopped ==
  ASSUME DeskSound
  PROVE  /\ Sane(Stopped) /\ SameCalls(ui, Stopped) /\ SameView(ui, Stopped) /\ ~ Stopped.due
         /\ Stopped.asking = 0 /\ Stopped.pending = Null /\ Stopped.busy = ui.busy
         /\ Stopped.generation = ui.generation /\ Stopped.ask = Null
         /\ Placed(Stopped) /\ Wanted(Stopped) = Wanted(ui)
<1>1. Sane(ui) /\ Placed(ui) /\ ui.ask = Null
  BY Between
<1>2. /\ Sane(Stopped) /\ SameCalls(ui, Stopped) /\ SameView(ui, Stopped) /\ ~ Stopped.due
      /\ Stopped.asking = 0 /\ Stopped.pending = Null /\ Stopped.busy = ui.busy
      /\ Stopped.generation = ui.generation /\ Stopped.ask = Null
  BY <1>1, StoppedIs DEF Stopped
<1> QED BY <1>1, <1>2, SamePlace DEF SameView, Placed

(* A change from screens d that show what was shown before.                *)
LEMMA AskChange ==
  ASSUME DeskSound, UNCHANGED store, ~ Jump(ui), NEW d, Sane(d), NEW t \in Task, Turn(queue, Change(d, t)),
         t.kind \in Changes \ {"fold", "move"}, Placed(d),
         SameCalls(ui, d), d.busy = ui.busy, ui.generation <= d.generation,
         \/ d.pending = Null
         \/ d.pending = ui.pending /\ d.asking = ui.asking /\ t.kind = "adopt",
         \/ d.seen = "missed"
         \/ d.at = ui.at /\ d.full = ui.full /\ d.frame = ui.frame /\ d.seen = ui.seen
  PROVE  DeskSound'
<1> DEFINE e == Change(d, t)
<1>1. /\ Sane(e) /\ SameView(d, e)
      /\ e.docChange = queue.latestSeq + 1 /\ e.after = d.after
      /\ e.asking = d.asking /\ e.pending = d.pending /\ e.busy = d.busy
      /\ e.generation = d.generation
      /\ e.ask = [firm |-> TRUE, task |-> t] /\ e.ask # Null
  BY ChangeIs, Between
<1>2. Placed(e) /\ (d.at = ui.at /\ d.full = ui.full => Wanted(e) = Wanted(ui))
  BY <1>1, SamePlace DEF SameView, SameCalls, Placed
<1>3. Turn(queue, e)
  OBVIOUS
<1> HIDE DEF e
<1>4. /\ e.shown = ui.shown /\ e.after = ui.after /\ e.busy = ui.busy
      /\ ui.generation <= e.generation
      /\ \/ e.pending = Null
         \/ e.pending = ui.pending /\ e.asking = ui.asking /\ t.kind = "adopt"
      /\ \/ e.seen = "missed"
         \/ /\ Wanted(e) = Wanted(ui) /\ e.frame = ui.frame /\ e.seen = ui.seen
            /\ Jump(ui) => Jump(e)
  BY <1>1, <1>2 DEF SameCalls, SameView
<1> QED BY <1>1, <1>2, <1>3, <1>4, ChangeTurn

LEMMA EditGoesOn ==
  ASSUME DeskSound, Edit PROVE DeskSound'
<1>1. UNCHANGED store /\ ~ Jump(ui)
  BY InputIs DEF Edit
<1>2. PICK kind \in {"edit", "replace"} : Turn(queue, Change(Stopped, [kind |-> kind]))
  BY DEF Edit
<1> DEFINE t == [kind |-> kind]
<1>3. t \in Task /\ t.kind \in Changes \ {"fold", "move"}
  BY DEF Task, Changes
<1>4. /\ Sane(Stopped) /\ Placed(Stopped) /\ SameCalls(ui, Stopped) /\ Stopped.busy = ui.busy
      /\ ui.generation <= Stopped.generation /\ Stopped.pending = Null
      /\ Stopped.at = ui.at /\ Stopped.full = ui.full /\ Stopped.frame = ui.frame
      /\ Stopped.seen = ui.seen
  BY UiStopped, Between DEF SameView
<1>5. Turn(queue, Change(Stopped, t))
  BY <1>2
<1> HIDE DEF t
<1> QED BY <1>1, <1>3, <1>4, <1>5, AskChange

LEMMA NewDocumentGoesOn ==
  ASSUME DeskSound, NewDocument PROVE DeskSound'
<1> DEFINE t == [kind |-> "new"]
           d == InvalidateFold(ui)
<1>1. UNCHANGED store /\ ~ Jump(ui) /\ Turn(queue, Change(d, t))
  BY InputIs DEF NewDocument
<1>2. t \in Task /\ t.kind \in Changes \ {"fold", "move"}
  BY DEF Task, Changes
<1>3. /\ Sane(d) /\ SameCalls(ui, d) /\ SameView(ui, d) /\ d.pending = Null /\ d.busy = ui.busy
      /\ d.generation = ui.generation
  BY InvalidateFoldIs, Between
<1> HIDE DEF t, d
<1>4. Placed(d) /\ ui.generation <= d.generation
  BY <1>3, SamePlace, Between DEF SameView, Placed
<1> QED BY <1>1, <1>2, <1>3, <1>4, AskChange DEF SameView

LEMMA AdoptGoesOn ==
  ASSUME DeskSound, Adopt PROVE DeskSound'
<1> DEFINE t == [kind |-> "adopt"]
<1>1. UNCHANGED store /\ ~ Jump(ui) /\ Turn(queue, Change(ui, t))
  BY InputIs DEF Adopt
<1>2. t \in Task /\ t.kind \in Changes \ {"fold", "move"} /\ t.kind = "adopt"
  BY DEF Task, Changes
<1> HIDE DEF t
<1>3. Sane(ui) /\ Placed(ui) /\ SameCalls(ui, ui) /\ ui.generation <= ui.generation
  BY Between DEF SameCalls
<1> QED BY <1>1, <1>2, <1>3, AskChange

(* The marks of bent creases.                                              *)
Bends(d, b, f, p) == [d EXCEPT !.bent = b, !.unbent = f, !.posed = p, !.error = FALSE]

LEMMA BendsIs ==
  ASSUME NEW d, Sane(d), NEW b \in BOOLEAN, NEW f \in BOOLEAN, NEW p \in BOOLEAN
  PROVE  LET e == Bends(d, b, f, p)
         IN /\ Sane(e) /\ SameFold(d, e) /\ SameView(d, e) /\ SamePlay(d, e)
            /\ e.generation = d.generation /\ e.ask = d.ask
<1> DEFINE e == Bends(d, b, f, p)
<1>0. d \in Draft
  BY DEF Sane
<1>1. e \in Draft
  <2> DEFINE x == [d EXCEPT !.bent = b, !.unbent = f]
  <2>1. x \in Draft
    BY <1>0, ZenonT(40) DEF Draft, Screens
  <2> DEFINE y == [x EXCEPT !.posed = p, !.error = FALSE]
  <2>2. e = y
    BY <1>0 DEF Bends, Draft, Screens
  <2> HIDE DEF x
  <2>3. y \in Draft
    BY <2>1, ZenonT(40) DEF Draft, Screens
  <2> QED BY <2>2, <2>3
<1>2. SameFold(d, e) /\ e.ask = d.ask
  BY <1>0 DEF Draft, Screens, SameFold, SameCalls, Bends
<1>3. SameView(d, e) /\ SamePlay(d, e) /\ e.generation = d.generation
      /\ e.unfinished = d.unfinished
  BY <1>0 DEF Draft, Screens, SameView, SamePlay, Bends
<1> QED BY <1>1, <1>2, <1>3 DEF Sane, SamePlay

(* An earlier or later set of angles comes back with its own picture.      *)
LEMMA SnapshotGoesOn ==
  ASSUME DeskSound, UNCHANGED store, NEW d, Sane(d), SameFold(Stopped, d) \/ SameFold(ui, d),
         SameView(ui, d), d.generation = ui.generation, Turn(queue, ApplyAngleSnapshot(d))
  PROVE  DeskSound'
<1> DEFINE e == ApplyAngleSnapshot(d)
<1>1. /\ Sane(e) /\ SameFold(d, e) /\ SameView(d, e)
      /\ e.generation = d.generation + 1 /\ AsksPicture(e)
  BY ApplyAngleSnapshotIs
<1>2. Turn(queue, e)
  OBVIOUS
<1> HIDE DEF e
<1>3. /\ SameCalls(ui, e) /\ e.pending \in {ui.pending, Null} /\ e.asking \in {ui.asking, 0}
      /\ e.busy = ui.busy
  BY <1>1, UiStopped DEF SameFold, SameCalls
<1>4. Placed(e)
  BY <1>1, SamePlace, Between DEF SameView, Placed
<1>5. ui.generation <= e.generation
  BY <1>1, Between
<1> QED BY <1>1, <1>2, <1>3, <1>4, <1>5, CalmTurn

LEMMA UndoGoesOn ==
  ASSUME DeskSound, Undo PROVE DeskSound'
<1>1. UNCHANGED store /\ ~ Jump(ui)
  BY InputIs DEF Undo
<1>2. CASE ui.bent
  <2>1. PICK no \in BOOLEAN, yes \in BOOLEAN : no = FALSE /\ yes = TRUE
    OBVIOUS
  <2> DEFINE d == Bends(Stopped, no, yes, no)
  <2>2. Turn(queue, ApplyAngleSnapshot(d))
    BY <1>2, <2>1 DEF Undo, Bends
  <2>3. /\ Sane(d) /\ SameFold(Stopped, d) /\ SameView(Stopped, d)
        /\ d.generation = Stopped.generation
    BY UiStopped, BendsIs
  <2> HIDE DEF d
  <2>4. SameView(ui, d) /\ d.generation = ui.generation
    BY <2>3, UiStopped DEF SameView
  <2> QED BY <1>1, <2>2, <2>3, <2>4, SnapshotGoesOn
<1>3. CASE ~ ui.bent
  <2> DEFINE t == [kind |-> "undo"]
  <2>1. t \in Task /\ t.kind \in Changes \ {"fold", "move"}
    BY DEF Task, Changes
  <2>2. /\ Sane(Stopped) /\ Placed(Stopped) /\ SameCalls(ui, Stopped) /\ Stopped.busy = ui.busy
        /\ ui.generation <= Stopped.generation /\ Stopped.pending = Null
        /\ Stopped.at = ui.at /\ Stopped.full = ui.full /\ Stopped.frame = ui.frame
        /\ Stopped.seen = ui.seen
    BY UiStopped, Between DEF SameView
  <2>3. Turn(queue, Change(Stopped, t))
    BY <1>3 DEF Undo
  <2> HIDE DEF t
  <2> QED BY <1>1, <2>1, <2>2, <2>3, AskChange
<1> QED BY <1>2, <1>3

LEMMA RedoGoesOn ==
  ASSUME DeskSound, Redo PROVE DeskSound'
<1>1. UNCHANGED store /\ ~ Jump(ui)
  BY InputIs DEF Redo
<1>2. CASE ui.undone = 0 /\ ui.unbent
  <2>1. PICK no \in BOOLEAN, yes \in BOOLEAN : no = FALSE /\ yes = TRUE
    OBVIOUS
  <2> DEFINE d == Bends(Stopped, yes, no, yes)
  <2>2. Turn(queue, ApplyAngleSnapshot(d))
    BY <1>2, <2>1 DEF Redo, Bends
  <2>3. /\ Sane(d) /\ SameFold(Stopped, d) /\ SameView(Stopped, d)
        /\ d.generation = Stopped.generation
    BY UiStopped, BendsIs
  <2> HIDE DEF d
  <2>4. SameView(ui, d) /\ d.generation = ui.generation
    BY <2>3, UiStopped DEF SameView
  <2> QED BY <1>1, <2>2, <2>3, <2>4, SnapshotGoesOn
<1>3. CASE ~ (ui.undone = 0 /\ ui.unbent)
  <2> DEFINE t == [kind |-> "redo", counted |-> ui.undone > 0]
  <2>1. t \in Task /\ t.kind \in Changes \ {"fold", "move"}
    <3>1. (ui.undone > 0) \in BOOLEAN
      OBVIOUS
    <3>2. \A b \in BOOLEAN : [kind |-> "redo", counted |-> b] \in Task
      BY DEF Task
    <3>3. t \in Task
      BY <3>1, <3>2
    <3> QED BY <3>3 DEF Changes
  <2>2. /\ Sane(Stopped) /\ Placed(Stopped) /\ SameCalls(ui, Stopped) /\ Stopped.busy = ui.busy
        /\ ui.generation <= Stopped.generation /\ Stopped.pending = Null
        /\ Stopped.at = ui.at /\ Stopped.full = ui.full /\ Stopped.frame = ui.frame
        /\ Stopped.seen = ui.seen
    BY UiStopped, Between DEF SameView
  <2>3. Turn(queue, Change(Stopped, t))
    BY <1>3 DEF Redo
  <2> HIDE DEF t
  <2> QED BY <1>1, <2>1, <2>2, <2>3, AskChange
<1> QED BY <1>2, <1>3

LEMMA SelectGoesOn ==
  ASSUME DeskSound, NEW step \in Nat \union {Null}, Select(step) PROVE DeskSound'
<1> DEFINE d == SelectStep(ui, step)
<1>1. UNCHANGED store /\ ~ ui.due /\ Turn(queue, d)
  BY InputIs DEF Select
<1>2. /\ Sane(d) /\ SameCalls(ui, d) /\ d.asking = 0 /\ d.pending = Null
      /\ d.busy = ui.busy /\ d.generation = ui.generation
      /\ Placed(d) /\ Keeps(ui, d)
  BY <1>1, SelectStepIs, Between
<1> HIDE DEF d
<1>3. \/ AsksPicture(d)
      \/ /\ d.ask = Null /\ Wanted(d) = Wanted(ui) /\ d.frame = ui.frame /\ d.seen = ui.seen
         /\ Jump(ui) => Jump(d)
  BY <1>2, Between DEF Keeps
<1>4. ui.generation <= d.generation
  BY <1>2, Between
<1> QED BY <1>1, <1>2, <1>3, <1>4, CalmTurn

Starts(d) == [d EXCEPT !.playing = TRUE, !.due = TRUE]

LEMMA StartsIs ==
  ASSUME NEW d, Sane(d)
  PROVE  LET e == Starts(d)
         IN /\ Sane(e) /\ SameFold(d, e) /\ SameView(d, e) /\ e.due
            /\ e.generation = d.generation /\ e.ask = d.ask
<1> DEFINE e == Starts(d)
<1>0. d \in Draft
  BY DEF Sane
<1>1. e \in Draft
  BY <1>0, ZenonT(40) DEF Draft, Screens, Starts
<1>2. SameFold(d, e) /\ e.ask = d.ask
  BY <1>0 DEF Draft, Screens, SameFold, SameCalls, Starts
<1>3. SameView(d, e) /\ e.due /\ e.playing /\ e.generation = d.generation
      /\ e.unfinished = d.unfinished
  BY <1>0 DEF Draft, Screens, SameView, Starts
<1> QED BY <1>1, <1>2, <1>3 DEF Sane

LEMMA FromStartIs ==
  ASSUME NEW d, Sane(d)
  PROVE  LET e == [d EXCEPT !.at = 0, !.full = TRUE]
         IN /\ Sane(e) /\ SameFold(d, e) /\ e.due = d.due /\ e.at = 0 /\ e.seen = d.seen
            /\ e.generation = d.generation /\ e.ask = d.ask
<1> DEFINE e == [d EXCEPT !.at = 0, !.full = TRUE]
<1>0. d \in Draft
  BY DEF Sane
<1>1. e \in Draft
  BY <1>0, ZenonT(40) DEF Draft, Screens
<1>2. SameFold(d, e) /\ e.ask = d.ask
  BY <1>0 DEF Draft, Screens, SameFold, SameCalls
<1>3. e.due = d.due /\ e.playing = d.playing /\ e.at = 0 /\ e.seen = d.seen
      /\ e.generation = d.generation /\ e.unfinished = d.unfinished
  BY <1>0 DEF Draft, Screens
<1> QED BY <1>1, <1>2, <1>3 DEF Sane

(* Playback starts or stops; the first frame comes with its first tick.    *)
LEMMA TogglePlayGoesOn ==
  ASSUME DeskSound, TogglePlay PROVE DeskSound'
<1>1. UNCHANGED store /\ ~ Jump(ui) /\ Sane(ui) /\ Placed(ui) /\ ui.ask = Null
  BY InputIs, Between DEF TogglePlay
<1>2. CASE ui.playing
  <2> DEFINE d == StopPlayback(ui)
  <2>1. Turn(queue, d)
    BY <1>2 DEF TogglePlay
  <2>2. Sane(d) /\ SameFold(ui, d) /\ SameView(ui, d) /\ d.generation = ui.generation
        /\ d.ask = Null
    BY <1>1, StopPlaybackIs
  <2> HIDE DEF d
  <2>3. Placed(d) /\ Wanted(d) = Wanted(ui) /\ ui.generation <= d.generation
    BY <1>1, <2>2, SamePlace, Between DEF SameView, Placed
  <2> QED BY <1>1, <2>1, <2>2, <2>3, CalmTurn DEF SameFold, SameView
<1>3. CASE ~ ui.playing
  <2> DEFINE g == Starts(ui)
             h == InvalidateFold(g)
             d == Missed(h)
             e == [d EXCEPT !.at = 0, !.full = TRUE]
             again == ui.at = Null \/ (ui.at >= Total(ui) /\ ui.full)
  <2>1. Total(ui) > 0 /\ Turn(queue, IF again THEN e ELSE d)
    BY <1>3 DEF TogglePlay, Starts
  <2>2. Sane(g) /\ SameFold(ui, g) /\ SameView(ui, g) /\ g.due /\ g.generation = ui.generation
        /\ g.ask = Null
    BY <1>1, StartsIs
  <2> HIDE DEF g
  <2>3. /\ Sane(h) /\ SameCalls(g, h) /\ SameView(g, h) /\ SamePlay(g, h) /\ h.pending = Null
        /\ h.asking = 0 /\ h.busy = g.busy /\ h.generation = g.generation /\ h.ask = g.ask
    BY <2>2, InvalidateFoldIs
  <2> HIDE DEF h
  <2>4. /\ Sane(d) /\ SameFold(h, d) /\ SamePlay(h, d) /\ d.at = h.at /\ d.full = h.full
        /\ d.seen = "missed" /\ d.generation = h.generation /\ d.ask = h.ask
    BY <2>3, MissedIs
  <2> HIDE DEF d
  <2>5. /\ SameCalls(ui, d) /\ d.pending = Null /\ d.asking = 0 /\ d.busy = ui.busy
        /\ d.generation = ui.generation /\ d.ask = Null /\ d.due
        /\ d.at = ui.at /\ d.full = ui.full
    BY <2>2, <2>3, <2>4 DEF SameFold, SameCalls, SameView, SamePlay
  <2>6. ASSUME NEW x, Sane(x), SameCalls(ui, x), x.pending = Null, x.asking = 0, x.busy = ui.busy,
               x.generation = ui.generation, x.ask = Null, x.seen = "missed", Placed(x),
               Turn(queue, x), Jump(x) \/ SameWanted(ui, x)
        PROVE  DeskSound'
    <3>1. ~ Makes(x.ask, Pictures)
      BY <2>6 DEF Makes
    <3>2. x.shown = ui.shown /\ x.after = ui.after /\ x.docChange = ui.docChange
          /\ ui.generation <= x.generation
      BY <2>6, Between DEF SameCalls
    <3>3. Proceeds(Open(queue), queue.latestSeq, ui, store, x, x.ask)
      BY <2>6, <3>2, CalmProceeds
    <3>4. Looks(Open(queue), ui, store, x, x.ask)
      BY <2>6, <3>1, <3>2, MissedLooks, Between
    <3> QED BY <1>1, <2>6, <3>2, <3>3, <3>4, QuietTurn
  <2>7. CASE again
    <3>1. /\ Sane(e) /\ SameFold(d, e) /\ e.due = d.due /\ e.at = 0 /\ e.seen = d.seen
          /\ e.generation = d.generation /\ e.ask = d.ask
      BY <2>4, FromStartIs
    <3>2. Turn(queue, e)
      BY <2>1, <2>7
    <3> HIDE DEF e
    <3>3. Total(e) = Total(ui) /\ Total(ui) # 0
      BY <2>1, <2>5, <3>1 DEF SameFold, SameCalls, Total
    <3>4. Placed(e) /\ Jump(e)
      BY <2>5, <3>1, <3>3 DEF Placed, Jump
    <3>5. /\ SameCalls(ui, e) /\ e.pending = Null /\ e.asking = 0 /\ e.busy = ui.busy
          /\ e.generation = ui.generation /\ e.ask = Null /\ e.seen = "missed"
      BY <2>4, <2>5, <3>1 DEF SameFold, SameCalls
    <3> QED BY <2>6, <3>1, <3>2, <3>4, <3>5
  <2>8. CASE ~ again
    <3>1. Turn(queue, d)
      BY <2>1, <2>8
    <3>2. Placed(d) /\ SameWanted(ui, d)
      BY <1>1, <2>5, SamePlace DEF SameCalls, Placed, SameWanted
    <3> QED BY <2>4, <2>5, <2>6, <3>1, <3>2
  <2> QED BY <2>7, <2>8
<1> QED BY <1>2, <1>3

(* A crease is bent or made flat.                                          *)
Angled(d, p, w) ==
  [d EXCEPT !.posed = p, !.bent = TRUE, !.unbent = FALSE, !.timer = w]

LEMMA AngledIs ==
  ASSUME NEW d, Sane(d), NEW p \in BOOLEAN, NEW w \in BOOLEAN
  PROVE  LET e == Angled(d, p, w)
         IN /\ Sane(e) /\ SameFold(d, e) /\ SameView(d, e) /\ SamePlay(d, e)
            /\ e.generation = d.generation /\ e.ask = d.ask
<1> DEFINE e == Angled(d, p, w)
<1>0. d \in Draft
  BY DEF Sane
<1>1. e \in Draft
  BY <1>0, ZenonT(40) DEF Draft, Screens, Angled
<1>2. SameFold(d, e) /\ e.ask = d.ask
  BY <1>0 DEF Draft, Screens, SameFold, SameCalls, Angled
<1>3. SameView(d, e) /\ SamePlay(d, e) /\ e.generation = d.generation
      /\ e.unfinished = d.unfinished
  BY <1>0 DEF Draft, Screens, SameView, SamePlay, Angled
<1> QED BY <1>1, <1>2, <1>3 DEF Sane, SamePlay

LEMMA BentIs ==
  ASSUME DeskSound, NEW p \in BOOLEAN, NEW w \in BOOLEAN
  PROVE  LET d == NewIntent(Angled(InvalidateFold(ui), p, w))
         IN /\ Sane(d) /\ SameCalls(ui, d) /\ SameView(ui, d)
            /\ d.asking = 0 /\ d.pending = Null /\ d.busy = ui.busy
            /\ d.generation = ui.generation + 1 /\ d.ask = Null
<1> DEFINE g == InvalidateFold(ui)
           h == Angled(g, p, w)
           d == NewIntent(h)
<1>1. /\ Sane(g) /\ SameCalls(ui, g) /\ SameView(ui, g)
      /\ g.asking = 0 /\ g.pending = Null /\ g.busy = ui.busy
      /\ g.generation = ui.generation /\ g.ask = ui.ask
  BY InvalidateFoldIs, Between
<1> HIDE DEF g
<1>2. /\ Sane(h) /\ SameFold(g, h) /\ SameView(g, h) /\ h.generation = g.generation
      /\ h.ask = g.ask
  BY <1>1, AngledIs
<1> HIDE DEF h
<1>3. /\ Sane(d) /\ SameFold(h, d) /\ SameView(h, d) /\ d.generation = h.generation + 1
      /\ d.ask = h.ask
  BY <1>2, NewIntentIs
<1> HIDE DEF d
<1>4. ui.ask = Null
  BY Between
<1>5. /\ Sane(d) /\ SameCalls(ui, d) /\ SameView(ui, d)
      /\ d.asking = 0 /\ d.pending = Null /\ d.busy = ui.busy
      /\ d.generation = ui.generation + 1 /\ d.ask = Null
  BY <1>1, <1>2, <1>3, <1>4 DEF SameFold, SameCalls, SameView
<1> QED BY <1>5 DEF d, h, g

LEMMA SetAngleGoesOn ==
  ASSUME DeskSound, SetAngle PROVE DeskSound'
<1>1. PICK yes \in BOOLEAN : yes = TRUE
  OBVIOUS
<1> DEFINE d == NewIntent(Angled(InvalidateFold(ui), yes, yes))
<1>2. UNCHANGED store /\ ~ Jump(ui) /\ Turn(queue, d)
  BY <1>1, InputIs DEF SetAngle, Angled
<1>3. /\ Sane(d) /\ SameCalls(ui, d) /\ SameView(ui, d)
      /\ d.asking = 0 /\ d.pending = Null /\ d.busy = ui.busy
      /\ d.generation = ui.generation + 1 /\ d.ask = Null
  BY BentIs
<1> HIDE DEF d
<1>4. Placed(d) /\ Wanted(d) = Wanted(ui) /\ ui.generation <= d.generation
  BY <1>3, SamePlace, Between DEF SameView, Placed
<1> QED BY <1>2, <1>3, <1>4, CalmTurn DEF SameView

LEMMA ClearDriverGoesOn ==
  ASSUME DeskSound, ClearDriver PROVE DeskSound'
<1>1. PICK no \in BOOLEAN : no = FALSE
  OBVIOUS
<1> DEFINE d == NewIntent(Angled(InvalidateFold(ui), no, no))
           t == [PoseTask(d) EXCEPT !.clears = d.generation]
           e == Call(d, t)
<1>2. UNCHANGED store /\ Turn(queue, e)
  BY <1>1, InputIs DEF ClearDriver, Angled
<1>3. /\ Sane(d) /\ SameCalls(ui, d) /\ SameView(ui, d)
      /\ d.asking = 0 /\ d.pending = Null /\ d.busy = ui.busy
      /\ d.generation = ui.generation + 1 /\ d.ask = Null
  BY BentIs
<1> HIDE DEF d
<1>4. PictureOf(d, t) /\ t \in Task
  BY <1>3, TasksArePictures DEF PictureOf
<1> HIDE DEF t
<1>5. /\ Sane(e) /\ SameFold(d, e) /\ SameView(d, e)
      /\ e.generation = d.generation
      /\ e.ask = [firm |-> TRUE, task |-> t] /\ e.ask # Null
  BY <1>3, <1>4, CallIs
<1> HIDE DEF e
<1>6. AsksPicture(e)
  BY <1>4, <1>5, SamePicture DEF AsksPicture
<1>7. Placed(e) /\ SameCalls(ui, e) /\ ui.generation <= e.generation
      /\ e.pending = Null /\ e.asking = 0 /\ e.busy = ui.busy
  BY <1>3, <1>5, SamePlace, Between DEF SameView, SameFold, SameCalls, Placed
<1> QED BY <1>2, <1>5, <1>6, <1>7, CalmTurn

LEMMA FinishAngleGoesOn ==
  ASSUME DeskSound, FinishAngle PROVE DeskSound'
<1>1. UNCHANGED store /\ Turn(queue, ApplyAngleSnapshot(ui))
  BY InputIs DEF FinishAngle
<1>2. SameFold(ui, ui) /\ SameView(ui, ui) /\ Sane(ui)
  BY Between DEF SameFold, SameCalls, SameView
<1> QED BY <1>1, <1>2, SnapshotGoesOn

LEMMA AtEndIs ==
  ASSUME NEW d, Sane(d)
  PROVE  LET e == [d EXCEPT !.at = Null, !.error = FALSE]
         IN /\ Sane(e) /\ SameFold(d, e) /\ e.seen = d.seen /\ Placed(e)
            /\ e.generation = d.generation /\ e.ask = d.ask
<1> DEFINE e == [d EXCEPT !.at = Null, !.error = FALSE]
<1>0. d \in Draft
  BY DEF Sane
<1>1. e \in Draft
  BY <1>0, ZenonT(40) DEF Draft, Screens
<1>2. SameFold(d, e) /\ e.ask = d.ask
  BY <1>0 DEF Draft, Screens, SameFold, SameCalls
<1>3. e.seen = d.seen /\ e.at = Null /\ e.due = d.due /\ e.playing = d.playing
      /\ e.generation = d.generation /\ e.unfinished = d.unfinished
  BY <1>0 DEF Draft, Screens
<1>4. Placed(e)
  BY <1>3 DEF Placed, Position, Whole
<1> QED BY <1>1, <1>2, <1>3, <1>4 DEF Sane

LEMMA RecordPoseStepGoesOn ==
  ASSUME DeskSound, RecordPoseStep PROVE DeskSound'
<1> DEFINE m == Missed(Stopped)
           d == [m EXCEPT !.at = Null, !.error = FALSE]
           t == [kind |-> "push", id |-> NextStepId(ui.shown.ids), gen |-> ui.generation]
<1>1. UNCHANGED store /\ ~ Jump(ui) /\ Turn(queue, Change(d, t))
  BY InputIs DEF RecordPoseStep
<1>2. t \in Task /\ t.kind \in Changes \ {"fold", "move"}
  <2>1. NextStepId(ui.shown.ids) \in Nat
    BY DraftFields, NextStepIdIsNat, Between DEF Sane
  <2>2. ui.generation \in Nat
    BY Between
  <2>3. \A i, g \in Nat : [kind |-> "push", id |-> i, gen |-> g] \in Task
    BY DEF Task
  <2>4. t \in Task
    BY <2>1, <2>2, <2>3
  <2> QED BY <2>4 DEF Changes
<1> HIDE DEF t
<1>3. /\ Sane(m) /\ SameFold(Stopped, m) /\ m.seen = "missed"
      /\ m.generation = Stopped.generation
  BY MissedIs, UiStopped
<1> HIDE DEF m
<1>4. /\ Sane(d) /\ SameFold(m, d) /\ d.seen = m.seen /\ Placed(d) /\ d.generation = m.generation
  BY <1>3, AtEndIs
<1> HIDE DEF d
<1>5. SameCalls(ui, d) /\ d.pending = Null /\ d.busy = ui.busy /\ ui.generation <= d.generation
  BY <1>3, <1>4, UiStopped, Between DEF SameFold, SameCalls
<1> QED BY <1>1, <1>2, <1>3, <1>4, <1>5, AskChange

LEMMA MovingIs ==
  ASSUME NEW d, Sane(d), NEW w \in [id : Nat, delta : {1, 0 - 1}] \union {Null}
  PROVE  LET e == [d EXCEPT !.moving = w]
         IN /\ Sane(e) /\ SameView(d, e) /\ SamePlay(d, e)
            /\ e.docChange = d.docChange /\ e.after = d.after /\ e.asking = d.asking
            /\ e.pending = d.pending /\ e.busy = d.busy
            /\ e.generation = d.generation /\ e.ask = d.ask
<1> DEFINE e == [d EXCEPT !.moving = w]
<1>0. d \in Draft
  BY DEF Sane
<1>1. e \in Draft
  BY <1>0, SMTT(30) DEF Draft, Screens
<1>2. /\ e.docChange = d.docChange /\ e.after = d.after /\ e.asking = d.asking
      /\ e.pending = d.pending /\ e.busy = d.busy /\ e.ask = d.ask
  BY <1>0 DEF Draft, Screens
<1>3. SameView(d, e) /\ SamePlay(d, e) /\ e.generation = d.generation
      /\ e.unfinished = d.unfinished
  BY <1>0 DEF Draft, Screens, SameView, SamePlay
<1> QED BY <1>1, <1>2, <1>3 DEF Sane, SamePlay

LEMMA MoveStepGoesOn ==
  ASSUME DeskSound, NEW i \in DOMAIN ui.shown.ids, NEW delta \in {1, 0 - 1}, MoveStep(i, delta)
  PROVE  DeskSound'
<1> DEFINE w == [id |-> ui.shown.ids[i], delta |-> delta]
           d == [ui EXCEPT !.moving = w]
<1>1. UNCHANGED store /\ Turn(queue, d)
  BY InputIs DEF MoveStep
<1>2. w \in [id : Nat, delta : {1, 0 - 1}]
  <2>1. ui.shown.ids \in Seq(Nat)
    BY DraftFields, Between DEF Sane
  <2>2. ui.shown.ids[i] \in Nat
    BY <2>1
  <2> QED BY <2>2
<1> HIDE DEF w
<1>3. /\ Sane(d) /\ SameView(ui, d) /\ SamePlay(ui, d)
      /\ d.docChange = ui.docChange /\ d.after = ui.after /\ d.asking = ui.asking
      /\ d.pending = ui.pending /\ d.busy = ui.busy
      /\ d.generation = ui.generation /\ d.ask = Null
  BY <1>2, MovingIs, Between
<1> HIDE DEF d
<1>4. /\ Placed(d) /\ Wanted(d) = Wanted(ui) /\ ui.generation <= d.generation
      /\ (Jump(ui) => Jump(d)) /\ ~ Makes(d.ask, Pictures)
      /\ d.shown = ui.shown /\ d.frame = ui.frame /\ d.seen = ui.seen
  BY <1>3, SamePlace, Between DEF SameView, SamePlay, Placed, Jump, Makes
<1>5. Proceeds(Open(queue), queue.latestSeq, ui, store, d, d.ask)
  BY <1>3, CalmProceeds
<1>6. Looks(Open(queue), ui, store, d, d.ask)
  BY <1>4, KeptLooks, Between
<1> QED BY <1>1, <1>3, <1>4, <1>5, <1>6, QuietTurn

LEMMA PlainGoesOn ==
  ASSUME DeskSound, Plain PROVE DeskSound'
<1> DEFINE t == [kind |-> "plain"]
           d == Call(ui, t)
<1>1. UNCHANGED store /\ Turn(queue, d)
  BY InputIs DEF Plain
<1>2. t \in Task /\ t.kind = "plain"
  BY DEF Task
<1> HIDE DEF t
<1>3. /\ Sane(d) /\ SameFold(ui, d) /\ SameView(ui, d) /\ SamePlay(ui, d)
      /\ d.generation = ui.generation
      /\ d.ask = [firm |-> TRUE, task |-> t] /\ d.ask # Null
  BY <1>2, CallIs, Between
<1> HIDE DEF d
<1>4. d.ask.firm /\ Makes(d.ask, {"plain"})
  BY <1>2, <1>3 DEF Makes
<1>5. Placed(d) /\ Wanted(d) = Wanted(ui) /\ ui.generation <= d.generation
      /\ (Jump(ui) => Jump(d))
  BY <1>3, SamePlace, Between DEF SameView, SamePlay, Placed, Jump
<1> QED BY <1>1, <1>3, <1>4, <1>5, CalmTurn DEF SameFold, SameView

(* The state in which the fold tools wait for the call that is made now.   *)
Waits(d, asks, n) == [d EXCEPT !.asking = asks, !.busy = n, !.error = FALSE]

LEMMA WaitsIs ==
  ASSUME NEW d, Sane(d), NEW asks \in Nat, NEW n \in Nat
  PROVE  LET e == Waits(d, asks, n)
         IN /\ Sane(e) /\ SameCalls(d, e) /\ SameView(d, e) /\ SamePlay(d, e)
            /\ e.asking = asks /\ e.busy = n /\ e.pending = d.pending
            /\ e.generation = d.generation /\ e.ask = d.ask /\ e.epoch = d.epoch
<1> DEFINE e == Waits(d, asks, n)
<1>0. d \in Draft
  BY DEF Sane
<1>1. e \in Draft
  BY <1>0, ZenonT(40) DEF Draft, Screens, Waits
<1>2. SameCalls(d, e) /\ e.ask = d.ask /\ e.asking = asks /\ e.busy = n /\ e.pending = d.pending
  BY <1>0 DEF Draft, Screens, SameCalls, Waits
<1>3. SameView(d, e) /\ SamePlay(d, e) /\ e.generation = d.generation /\ e.epoch = d.epoch
      /\ e.unfinished = d.unfinished
  BY <1>0 DEF Draft, Screens, SameView, SamePlay, Waits
<1> QED BY <1>1, <1>2, <1>3 DEF Sane, SamePlay

LEMMA RequestFoldGoesOn ==
  ASSUME DeskSound, RequestFold PROVE DeskSound'
<1> DEFINE n == queue.latestSeq + 1
           g == StopPlayback(ui)
           h == Waits(g, n, n)
           t == [kind |-> "preview", upTo |-> FoldInsertAt(ui), posed |-> ui.posed,
                 epoch |-> ui.epoch, steps |-> Total(ui)]
           d == Call(h, t)
<1>1. UNCHANGED store /\ ~ Jump(ui) /\ ui.pending = Null /\ Turn(queue, d)
  BY InputIs DEF RequestFold, NextSeq, Waits
<1>2. n \in Nat
  BY Between
<1>3. t \in Task /\ t.kind = "preview"
  <2>1. FoldInsertAt(ui) \in Nat /\ Total(ui) \in Nat /\ ui.posed \in BOOLEAN /\ ui.epoch \in Nat
    BY PlaceIs, DraftFields, Between DEF Sane
  <2> QED BY <2>1 DEF Task
<1> HIDE DEF t
<1>4. Sane(g) /\ SameFold(ui, g) /\ SameView(ui, g) /\ g.generation = ui.generation
  BY StopPlaybackIs, Between
<1> HIDE DEF g
<1>5. /\ Sane(h) /\ SameCalls(g, h) /\ SameView(g, h) /\ h.pending = g.pending
      /\ h.generation = g.generation
  BY <1>2, <1>4, WaitsIs
<1> HIDE DEF h
<1>6. /\ Sane(d) /\ SameFold(h, d) /\ SameView(h, d) /\ d.generation = h.generation
      /\ d.ask = [firm |-> TRUE, task |-> t] /\ d.ask # Null
  BY <1>3, <1>5, CallIs
<1> HIDE DEF d
<1>7. /\ d.pending = Null /\ d.shown = ui.shown /\ d.after = ui.after
      /\ d.docChange = ui.docChange /\ d.frame = ui.frame /\ d.seen = ui.seen
      /\ d.generation = ui.generation /\ d.at = ui.at /\ d.full = ui.full
  BY <1>1, <1>4, <1>5, <1>6 DEF SameFold, SameCalls, SameView
<1>8. Placed(d) /\ Wanted(d) = Wanted(ui) /\ ui.generation <= d.generation
  BY <1>7, SamePlace, Between DEF Placed
<1>9. /\ ~ Makes(d.ask, Changes) /\ ~ Makes(d.ask, {"move"}) /\ ~ Makes(d.ask, {"fold"})
      /\ ~ Makes(d.ask, Pictures) /\ d.ask.firm
  BY <1>3, <1>6 DEF Makes, Changes, Pictures
<1>10. Proceeds(Open(queue), queue.latestSeq, ui, store, d, d.ask)
  BY <1>7, <1>9 DEF Proceeds
<1>11. Looks(Open(queue), ui, store, d, d.ask)
  BY <1>1, <1>7, <1>8, <1>9, KeptLooks, Between
<1> QED BY <1>1, <1>6, <1>7, <1>8, <1>10, <1>11, QuietTurn

LEMMA BusyIs ==
  ASSUME NEW d, Sane(d), NEW n \in Nat
  PROVE  LET e == [d EXCEPT !.busy = n, !.error = FALSE]
         IN /\ Sane(e) /\ SameCalls(d, e) /\ SameView(d, e) /\ SamePlay(d, e)
            /\ e.asking = d.asking /\ e.busy = n /\ e.pending = d.pending
            /\ e.generation = d.generation /\ e.ask = d.ask
<1> DEFINE e == [d EXCEPT !.busy = n, !.error = FALSE]
<1>0. d \in Draft
  BY DEF Sane
<1>1. e \in Draft
  BY <1>0, ZenonT(40) DEF Draft, Screens
<1>2. SameCalls(d, e) /\ e.ask = d.ask /\ e.asking = d.asking /\ e.busy = n /\ e.pending = d.pending
  BY <1>0 DEF Draft, Screens, SameCalls
<1>3. SameView(d, e) /\ SamePlay(d, e) /\ e.generation = d.generation
      /\ e.unfinished = d.unfinished
  BY <1>0 DEF Draft, Screens, SameView, SamePlay
<1> QED BY <1>1, <1>2, <1>3 DEF Sane, SamePlay

LEMMA NoQuestionIs ==
  ASSUME NEW d, Sane(d)
  PROVE  LET e == [d EXCEPT !.pending = Null]
         IN /\ Sane(e) /\ SameCalls(d, e) /\ SameView(d, e) /\ SamePlay(d, e)
            /\ e.asking = d.asking /\ e.busy = d.busy /\ e.pending = Null
            /\ e.generation = d.generation /\ e.ask = d.ask
BY ZenonT(40) DEF Sane, Draft, Screens, SameCalls, SameView, SamePlay

(* A fold that the user has answered for: it is about the document that    *)
(* the question was about, and ends the wait that begins now.              *)
LEMMA ResolveFoldGoesOn ==
  ASSUME DeskSound, ResolveFold PROVE DeskSound'
<1> DEFINE p == ui.pending
           n == queue.latestSeq + 1
           stale == \/ p.epoch # ui.epoch \/ p.steps # Total(ui) \/ p.upTo # FoldInsertAt(ui)
           g == [ui EXCEPT !.pending = Null]
           h == [ui EXCEPT !.busy = n, !.error = FALSE]
<1>1. /\ UNCHANGED store /\ ~ Jump(ui) /\ ui.pending # Null /\ ui.busy = 0
      /\ Turn(queue, IF stale THEN Fail(g) ELSE ApplyFold(h, p.upTo, p.posed, p.base, n))
  BY InputIs DEF ResolveFold, NextSeq
<1>2. p.upTo \in Nat /\ p.posed \in BOOLEAN /\ p.base \in Nat
  BY <1>1, DraftFields, Between DEF Sane
<1>3. CASE stale
  <2> DEFINE d == Fail(g)
  <2>1. /\ Sane(g) /\ SameCalls(ui, g) /\ SameView(ui, g) /\ SamePlay(ui, g)
        /\ g.asking = ui.asking /\ g.busy = ui.busy /\ g.pending = Null
        /\ g.generation = ui.generation /\ g.ask = ui.ask
    BY NoQuestionIs, Between
  <2>2. Turn(queue, d)
    BY <1>1, <1>3
  <2> HIDE DEF g
  <2>3. /\ Sane(d) /\ SameFold(g, d) /\ SameView(g, d) /\ SamePlay(g, d)
        /\ d.generation = g.generation /\ d.ask = g.ask
    BY <2>1, FailIs
  <2> HIDE DEF d
  <2>4. /\ SameCalls(ui, d) /\ d.asking = ui.asking /\ d.busy = ui.busy /\ d.pending = Null
        /\ d.generation = ui.generation /\ d.ask = Null /\ SameView(ui, d)
    BY <2>1, <2>3, Between DEF SameFold, SameCalls, SameView
  <2>5. Placed(d) /\ Wanted(d) = Wanted(ui) /\ ui.generation <= d.generation
    BY <2>4, SamePlace, Between DEF SameView, Placed
  <2> QED BY <1>1, <2>2, <2>3, <2>4, <2>5, CalmTurn DEF SameView
<1>4. CASE ~ stale
  <2> DEFINE d == ApplyFold(h, p.upTo, p.posed, p.base, n)
             t == FoldTask(h, p.upTo, p.posed, p.base, n)
             O == Open(queue)
  <2>1. n \in Nat /\ n # 0 /\ n - 1 = queue.latestSeq
    BY Between
  <2>2. /\ Sane(h) /\ SameCalls(ui, h) /\ SameView(ui, h)
        /\ h.asking = ui.asking /\ h.busy = n /\ h.pending = ui.pending
        /\ h.generation = ui.generation
    BY <2>1, BusyIs, Between
  <2>3. Turn(queue, d)
    BY <1>1, <1>4
  <2> HIDE DEF h
  <2>4. p.upTo = FoldInsertAt(h)
    BY <1>4, <2>2, SamePlace DEF SameView, FoldInsertAt
  <2>5. /\ Sane(d) /\ d.shown = h.shown /\ d.docChange = queue.latestSeq + 1 /\ d.after = h.after
        /\ d.asking = h.asking /\ d.pending = h.pending /\ d.busy = h.busy
        /\ d.generation = h.generation
        /\ t \in Task /\ d.ask = [firm |-> TRUE, task |-> t] /\ d.ask # Null
        /\ d.seen = "missed" /\ (Placed(h) => Placed(d))
    BY <1>2, <2>1, <2>2, <2>4, ApplyFoldIs, Between
  <2>6. t.kind = "fold" /\ t.base = p.base /\ t.owner = n
    BY DEF FoldTask
  <2> HIDE DEF d, t
  <2>7. /\ d.shown = ui.shown /\ d.after = ui.after /\ d.asking = ui.asking
        /\ d.pending = ui.pending /\ d.busy = n /\ ui.generation <= d.generation /\ Placed(d)
    BY <2>2, <2>5, SamePlace, Between DEF SameCalls, SameView, Placed
  <2>8. /\ Makes(d.ask, Changes) /\ ~ Makes(d.ask, {"move"}) /\ ~ Makes(d.ask, {"preview"})
        /\ ~ Makes(d.ask, Pictures) /\ d.ask.firm /\ d.ask.task = t
    BY <2>5, <2>6 DEF Makes, Changes, Pictures
  <2>9. Fits(store, t.base, O)
    <3>1. Fits(store, p.base, {c \in O : ~ Serves(c, ui)})
      BY <1>1, Between DEF LineSound, QuestionFits
    <3>2. {c \in O : ~ Serves(c, ui)} = O
      BY <1>1 DEF Serves
    <3> QED BY <2>6, <3>1, <3>2
  <2>10. /\ \A e \in O : /\ e.task.kind = "fold" => e.task.owner # n
                         /\ e.task.kind = "preview" => e.seq # n
         /\ \A k \in ui.after : k.task.kind = "fold" => k.task.owner # n
    <3>1. /\ \A e \in O : e.task.kind = "fold" => e.task.owner \in 1 .. queue.latestSeq
          /\ \A k \in ui.after : k.task.kind = "fold" => k.task.owner <= queue.latestSeq
      BY Between DEF LineSound, Owners
    <3>2. \A e \in O : e.seq \in 1 .. queue.latestSeq
      BY OpenIsSound, Between DEF OpenSound
    <3>3. queue.latestSeq \in Nat
      BY Between
    <3> HIDE DEF O
    <3> QED BY <3>1, <3>2, <3>3
  <2>11. Proceeds(O, queue.latestSeq, ui, store, d, d.ask)
    <3>1. t.owner \in 1 .. queue.latestSeq + 1
      BY <2>1, <2>6, Between
    <3>3. \A c \in O : Serves(c, ui) => Serves(c, d)
      BY <1>1 DEF Serves
    <3>4. Serves(d.ask, d)
      BY <2>1, <2>6, <2>7, <2>8 DEF Serves
    <3>5. d.docChange = queue.latestSeq + 1
      BY <2>5
    <3> HIDE DEF O, n
    <3> QED BY <2>6, <2>7, <2>8, <2>9, <2>10, <3>1, <3>3, <3>4, <3>5 DEF Proceeds
  <2>12. Looks(O, ui, store, d, d.ask)
    BY <2>5, <2>7, <2>8, MissedLooks, Between
  <2> QED BY <1>1, <2>3, <2>5, <2>7, <2>11, <2>12, QuietTurn
<1> QED BY <1>3, <1>4

-----------------------------------------------------------------------------
(* What goes on by itself: continuations, timers and the start of a call.  *)

Continuation == [of : Nat, wait : Nat, task : Task, ok : BOOLEAN]

LEMMA AfterIs ==
  ASSUME NEW d, Sane(d), NEW A \in SUBSET Continuation
  PROVE  LET e == [d EXCEPT !.after = A]
         IN /\ Sane(e) /\ SameView(d, e) /\ SamePlay(d, e)
            /\ e.docChange = d.docChange /\ e.after = A /\ e.asking = d.asking
            /\ e.pending = d.pending /\ e.busy = d.busy /\ e.moving = d.moving
            /\ e.generation = d.generation /\ e.ask = d.ask
<1> DEFINE e == [d EXCEPT !.after = A]
<1>0. d \in Draft
  BY DEF Sane
<1>1. e \in Draft
  BY <1>0 DEF Draft, Screens, Continuation
<1>2. /\ e.docChange = d.docChange /\ e.after = A /\ e.asking = d.asking
      /\ e.pending = d.pending /\ e.busy = d.busy /\ e.ask = d.ask /\ e.moving = d.moving
  BY <1>0 DEF Draft, Screens
<1>3. SameView(d, e) /\ SamePlay(d, e) /\ e.generation = d.generation
      /\ e.unfinished = d.unfinished
  BY <1>0 DEF Draft, Screens, SameView, SamePlay
<1> QED BY <1>1, <1>2, <1>3 DEF Sane, SamePlay

LEMMA GoOnGoesOn ==
  ASSUME DeskSound, GoOn PROVE DeskSound'
<1>1. PICK k \in Ready, same \in BOOLEAN :
        Turn(queue, Followed([ui EXCEPT !.after = @ \ {k}], k, same))
  BY DEF GoOn
<1> DEFINE A == ui.after \ {k}
           g == [ui EXCEPT !.after = A]
           d == Followed(g, k, same)
           O == Open(queue)
           busy == IF k.task.kind = "fold" /\ g.busy = k.task.owner THEN 0 ELSE g.busy
<1>2. UNCHANGED store /\ k \in ui.after /\ Turn(queue, d)
  BY <1>1 DEF GoOn, Ready
<1>3. A \in SUBSET Continuation /\ k.task \in Task /\ k.ok \in BOOLEAN
  BY <1>2, Between DEF Sane, Draft, Screens, Continuation
<1> HIDE DEF A
<1>4. /\ Sane(g) /\ SameView(ui, g) /\ SamePlay(ui, g)
      /\ g.docChange = ui.docChange /\ g.after = A /\ g.asking = ui.asking
      /\ g.pending = ui.pending /\ g.busy = ui.busy
      /\ g.generation = ui.generation /\ g.ask = Null
  BY <1>3, AfterIs, Between
<1> HIDE DEF g
<1>5. Placed(g) /\ (k.task.kind = "move" => k.task.to # 0)
  BY <1>2, <1>4, SamePlace, Between DEF SameView, Placed, StepsMove
<1>6. Went(g, d, busy)
  BY <1>3, <1>4, <1>5, FollowedIs
<1> HIDE DEF d
<1>7. /\ Sane(d) /\ d.shown = ui.shown /\ d.docChange = ui.docChange /\ d.after = A
      /\ d.busy = busy /\ d.pending \in {ui.pending, Null} /\ d.asking \in {ui.asking, 0}
      /\ ui.generation <= d.generation /\ Placed(d) /\ (d.ask = Null \/ AsksPicture(d))
  BY <1>4, <1>6 DEF Went, SameCalls, SameView
<1>8. Keeps(ui, d)
  <2>1. Wanted(g) = Wanted(ui) /\ (Jump(ui) => Jump(g)) /\ g.frame = ui.frame /\ g.seen = ui.seen
        /\ g.ask = ui.ask
    BY <1>4, SamePlace, Between DEF SameView, SamePlay, Jump
  <2> QED BY <1>6, <2>1 DEF Went, Keeps
<1>9. d.busy = ui.busy \/ \A c \in O : ~ Serves(c, ui)
  <2> SUFFICES ASSUME k.task.kind = "fold", ui.busy = k.task.owner, NEW c \in O, Serves(c, ui)
               PROVE  FALSE
    BY <1>4, <1>7
  <2> QED BY <1>2, Between DEF LineSound, Owners, Serves
<1>10. d.after \subseteq ui.after
  BY <1>7 DEF A
<1>11. Proceeds(O, queue.latestSeq, ui, store, d, d.ask)
  <2>1. d.ask = Null \/ Makes(d.ask, Pictures)
    BY <1>7 DEF AsksPicture, PictureOf, Makes, Pictures
  <2> HIDE DEF O
  <2> QED BY <1>7, <1>9, <1>10, <2>1, CalmProceeds
<1>12. Looks(O, ui, store, d, d.ask)
  BY <1>7, <1>8, KeepsLooks, Between
<1> QED BY <1>2, <1>7, <1>10, <1>11, <1>12, QuietTurn

(* The step is looked up when no change is open, so the screens show what  *)
(* the store holds and nothing changes it before the move.                 *)
LEMMA MoveOnGoesOn ==
  ASSUME DeskSound, MoveOn PROVE DeskSound'
<1> DEFINE ids == ui.shown.ids
           from == {i \in DOMAIN ids : ids[i] = ui.moving.id}
           to == {i + ui.moving.delta : i \in {j \in from : \A k \in from : j <= k}} \cap DOMAIN ids
           g == [ui EXCEPT !.moving = Null]
           h == InvalidateFold(StopPlayback(g))
           t == [kind |-> "move", id |-> ui.moving.id, to |-> Min(to), base |-> ui.shown.ver]
           O == Open(queue)
<1>1. /\ UNCHANGED store /\ ui.moving # Null /\ Settled(queue, ui.docChange)
      /\ Turn(queue, IF to = {} THEN g ELSE Change(h, t))
  BY DEF MoveOn, ChangeSettled
<1>2. /\ Sane(g) /\ SameView(ui, g) /\ SamePlay(ui, g)
      /\ g.docChange = ui.docChange /\ g.after = ui.after /\ g.asking = ui.asking
      /\ g.pending = ui.pending /\ g.busy = ui.busy
      /\ g.generation = ui.generation /\ g.ask = Null
  <2>1. PICK w : w = Null
    OBVIOUS
  <2>2. w \in [id : Nat, delta : {1, 0 - 1}] \union {Null}
    BY <2>1
  <2> QED BY <2>1, <2>2, MovingIs, Between
<1>3. ui.moving.id \in Nat /\ ui.moving.delta \in Int /\ ids \in Seq(Nat) /\ ui.shown.ver \in Nat
  BY <1>1, DraftFields, Between DEF Sane, Draft, Screens
<1>4. CASE to = {}
  <2>1. Turn(queue, g)
    BY <1>1, <1>4
  <2> HIDE DEF g
  <2>2. /\ Placed(g) /\ Wanted(g) = Wanted(ui) /\ ui.generation <= g.generation
        /\ (Jump(ui) => Jump(g)) /\ ~ Makes(g.ask, Pictures)
        /\ g.shown = ui.shown /\ g.frame = ui.frame /\ g.seen = ui.seen
    BY <1>2, SamePlace, Between DEF SameView, SamePlay, Placed, Jump, Makes
  <2>3. Proceeds(O, queue.latestSeq, ui, store, g, g.ask)
    BY <1>2, CalmProceeds
  <2>4. Looks(O, ui, store, g, g.ask)
    BY <2>2, KeptLooks, Between
  <2> QED BY <1>1, <1>2, <2>1, <2>2, <2>3, <2>4, QuietTurn
<1>5. CASE to # {}
  <2>1. Min(to) \in to
    <3>1. PICK x : x \in to
      BY <1>5
    <3>2. \A y \in to : y = x
      BY <1>3, <3>1
    <3>3. x <= x
      BY <1>3, <3>1
    <3>4. x \in to /\ \A y \in to : x <= y
      BY <3>1, <3>2, <3>3
    <3> HIDE DEF to
    <3> QED BY <3>4 DEF Min
  <2>2. Min(to) \in DOMAIN ids /\ \E i \in DOMAIN ids : ids[i] = ui.moving.id
    BY <2>1
  <2>3. Min(to) \in Nat
    BY <1>3, <2>2
  <2>4. Turn(queue, Change(h, t))
    BY <1>1, <1>5
  <2> HIDE DEF to
  <2>5. t \in Task /\ t.kind = "move" /\ t.to = Min(to) /\ t.id = ui.moving.id /\ t.base = ui.shown.ver
    BY <1>3, <2>3 DEF Task
  <2> HIDE DEF t, g
  <2>6. /\ Sane(h) /\ SameCalls(g, h) /\ SameView(g, h)
        /\ h.asking = 0 /\ h.pending = Null /\ h.busy = g.busy
        /\ h.generation = g.generation
    BY <1>2, StoppedIs
  <2> DEFINE d == Change(h, t)
  <2> HIDE DEF h
  <2>7. /\ Sane(d) /\ SameView(h, d) /\ d.docChange = queue.latestSeq + 1 /\ d.after = h.after
        /\ d.pending = h.pending /\ d.generation = h.generation
        /\ d.ask = [firm |-> TRUE, task |-> t] /\ d.ask # Null
    BY <2>5, <2>6, ChangeIs, Between
  <2>8. Turn(queue, d)
    BY <2>4
  <2> HIDE DEF d
  <2>9. /\ d.shown = ui.shown /\ d.after = ui.after /\ d.pending = Null /\ Placed(d)
        /\ Wanted(d) = Wanted(ui) /\ d.frame = ui.frame /\ d.seen = ui.seen
        /\ ui.generation <= d.generation
    BY <1>2, <2>6, <2>7, SamePlace, Between DEF SameCalls, SameView, Placed
  <2>10. /\ Makes(d.ask, Changes) /\ ~ Makes(d.ask, {"fold"}) /\ ~ Makes(d.ask, Pictures)
         /\ Makes(d.ask, Coming) /\ d.ask.firm /\ d.ask.task = t
    BY <2>5, <2>7 DEF Makes, Changes, Pictures, Coming
  <2>11. \A e \in O : e.task.kind \notin Changes
    <3>1. \A e \in O : e.seq # ui.docChange
      BY <1>1 DEF Settled
    <3>2. LastChange(O, queue.latestSeq, ui)
      BY Between DEF LineSound
    <3> QED BY <3>1, <3>2 DEF LastChange
  <2>12. ids = store.ids /\ ui.shown.ver = store.ver
    BY Between
  <2>13. /\ t.base = store.ver /\ t.to \in DOMAIN store.ids
         /\ \E i \in DOMAIN store.ids : store.ids[i] = t.id
    BY <2>2, <2>5, <2>12
  <2>14. Proceeds(O, queue.latestSeq, ui, store, d, d.ask)
    <3> HIDE DEF O
    <3> QED BY <2>7, <2>9, <2>10, <2>11, <2>13 DEF Proceeds
  <2>15. Looks(O, ui, store, d, d.ask)
    BY <2>9, <2>10, KeptLooks, Between
  <2> QED BY <1>1, <2>7, <2>8, <2>9, <2>14, <2>15, QuietTurn
<1> QED BY <1>4, <1>5

Played(d, step, full, playing) ==
  [d EXCEPT !.at = step, !.full = full, !.playing = playing, !.due = FALSE]

LEMMA PlayedIs ==
  ASSUME NEW d, Sane(d), NEW step \in Nat, NEW full \in BOOLEAN, NEW playing \in BOOLEAN
  PROVE  LET e == Played(d, step, full, playing)
         IN /\ Sane(e) /\ SameFold(d, e) /\ e.at = step /\ e.full = full
            /\ e.generation = d.generation /\ e.ask = d.ask
<1> DEFINE e == Played(d, step, full, playing)
<1>0. d \in Draft
  BY DEF Sane
<1>1. e \in Draft
  BY <1>0, ZenonT(40) DEF Draft, Screens, Played
<1>2. SameFold(d, e) /\ e.ask = d.ask
  BY <1>0 DEF Draft, Screens, SameFold, SameCalls, Played
<1>3. e.at = step /\ e.full = full /\ ~ e.due /\ e.generation = d.generation
      /\ e.unfinished = d.unfinished
  BY <1>0 DEF Draft, Screens, Played
<1> QED BY <1>1, <1>2, <1>3 DEF Sane

(* A picture of where the screens are, that may be dropped, is asked for.  *)
LEMMA AskLatestGoesOn ==
  ASSUME DeskSound, UNCHANGED store, NEW d, Sane(d), SameFold(ui, d), Placed(d),
         d.generation = ui.generation, NEW t, PictureOf(d, t), Turn(queue, CallLatest(d, t))
  PROVE  DeskSound'
<1> DEFINE e == CallLatest(d, t)
<1>1. Turn(queue, e) /\ t \in Task
  BY DEF PictureOf
<1>2. /\ Sane(e) /\ SameFold(d, e) /\ SameView(d, e)
      /\ e.generation = d.generation
      /\ e.ask = [firm |-> FALSE, task |-> t] /\ e.ask # Null
  BY <1>1, CallLatestIs
<1> HIDE DEF e
<1>3. AsksPicture(e)
  BY <1>2, SamePicture DEF AsksPicture
<1>4. Placed(e)
  BY <1>2, SamePlace DEF SameView, Placed
<1>5. SameCalls(ui, e) /\ e.pending = ui.pending /\ e.asking = ui.asking /\ e.busy = ui.busy
  BY <1>2 DEF SameFold, SameCalls
<1>6. ui.generation <= e.generation
  BY <1>2, Between
<1> QED BY <1>1, <1>2, <1>3, <1>4, <1>5, <1>6, CalmTurn

LEMMA TickGoesOn ==
  ASSUME DeskSound, Tick PROVE DeskSound'
<1>1. ASSUME NEW step \in Nat, NEW full \in BOOLEAN, NEW playing \in BOOLEAN,
             Total(ui) = 0 => step = 0 /\ full,
             Turn(queue, CallLatest(Played(ui, step, full, playing),
                                    ReplayTask(Played(ui, step, full, playing), FALSE)))
      PROVE  DeskSound'
  <2> DEFINE d == Played(ui, step, full, playing)
  <2>1. /\ Sane(d) /\ SameFold(ui, d) /\ d.at = step /\ d.full = full
        /\ d.generation = ui.generation
    BY PlayedIs, Between, SMTT(30)
  <2>2. UNCHANGED store
    BY DEF Tick
  <2>3. PICK no \in BOOLEAN : no = FALSE
    OBVIOUS
  <2>4. Turn(queue, CallLatest(d, ReplayTask(d, no)))
    BY <1>1, <2>3
  <2> HIDE DEF d
  <2>5. PictureOf(d, ReplayTask(d, no))
    BY <2>1, TasksArePictures
  <2>6. Placed(d)
    <3>1. Total(d) = Total(ui)
      BY <2>1 DEF SameFold, SameCalls, Total
    <3>2. step # Null
      BY DeskValues
    <3> QED BY <1>1, <2>1, <3>1, <3>2 DEF Placed, Position, Whole
  <2> QED BY <2>1, <2>2, <2>4, <2>5, <2>6, AskLatestGoesOn
<1>2. Total(ui) \in Nat /\ Position(ui) \in Nat
  BY PlaceIs, Between
<1>3. CASE Position(ui) >= Total(ui)
  <2>1. PICK no \in BOOLEAN, yes \in BOOLEAN : no = FALSE /\ yes = TRUE
    OBVIOUS
  <2>2. Turn(queue, CallLatest(Played(ui, Total(ui), yes, no),
                               ReplayTask(Played(ui, Total(ui), yes, no), FALSE)))
    BY <1>3, <2>1 DEF Tick, Played
  <2> QED BY <1>1, <1>2, <2>1, <2>2
<1>4. CASE ~ (Position(ui) >= Total(ui))
  <2> DEFINE step == Position(ui) + 1
  <2>1. PICK full \in BOOLEAN :
          Turn(queue, CallLatest(Played(ui, step, full, ~ full \/ step < Total(ui)),
                                 ReplayTask(Played(ui, step, full, ~ full \/ step < Total(ui)), FALSE)))
    BY <1>4 DEF Tick, Played
  <2>2. PICK playing \in BOOLEAN : playing = (~ full \/ step < Total(ui))
    OBVIOUS
  <2>3. Turn(queue, CallLatest(Played(ui, step, full, playing),
                               ReplayTask(Played(ui, step, full, playing), FALSE)))
    BY <2>1, <2>2
  <2>4. step \in Nat /\ Total(ui) # 0
    BY <1>2, <1>4
  <2> HIDE DEF step
  <2> QED BY <1>1, <2>3, <2>4
<1> QED BY <1>3, <1>4

LEMMA PoseTimerGoesOn ==
  ASSUME DeskSound, PoseTimer PROVE DeskSound'
<1> DEFINE d == [ui EXCEPT !.timer = FALSE]
           t == PoseTask(ui)
<1>1. UNCHANGED store /\ Turn(queue, CallLatest(d, t))
  BY DEF PoseTimer
<1>2. /\ Sane(d) /\ SameFold(ui, d) /\ SameView(ui, d) /\ d.generation = ui.generation
  BY TimerOffIs, Between
<1>3. PictureOf(ui, t)
  BY TasksArePictures, Between
<1> HIDE DEF d, t
<1>4. PictureOf(d, t) /\ Placed(d)
  BY <1>2, <1>3, SamePicture, SamePlace, Between DEF SameView, Placed
<1> QED BY <1>1, <1>2, <1>4, AskLatestGoesOn

LEMMA StartCallGoesOn ==
  ASSUME DeskSound, StartCall PROVE DeskSound'
<1>1. /\ InOrder(queue') /\ Open(queue') = Open(queue) /\ queue'.latestSeq = queue.latestSeq
  BY StartIs, Between DEF StartCall
<1>2. UNCHANGED <<store, ui>>
  BY DEF StartCall
<1> QED BY <1>1, <1>2 DEF DeskSound

-----------------------------------------------------------------------------
(* The answers.                                                            *)

LEMMA Finished ==
  ASSUME DeskSound, queue.running # Null
  PROVE  LET c == queue.running
             q == Finish(queue)
         IN /\ InOrder(q) /\ q.latestSeq = queue.latestSeq /\ Open(q) = Open(queue) \ {c}
            /\ c \in Open(queue) /\ c.task \in Task /\ c.seq \in 1 .. queue.latestSeq
            /\ \A e \in Open(q) : c.seq < e.seq
            /\ IsLatest(queue) => Open(q) = {}
            /\ OpenSound(Open(queue), queue.latestSeq)
            /\ LineSound(Open(q), queue.latestSeq, ui, store)
            /\ c.task.kind \in Pictures =>
                 Older(ui, c.task) /\ (IsLatest(queue) => Right(ui, c.task))
            /\ c.task.kind \notin Coming => Comes(Open(q), ui, store)
<1> DEFINE c == queue.running
           q == Finish(queue)
           O == Open(queue)
           R == Open(q)
<1>1. /\ InOrder(q) /\ q.latestSeq = queue.latestSeq /\ R = O \ {c}
      /\ c \in O /\ c.task \in Task /\ \A e \in O \ {c} : c.seq < e.seq
      /\ IsLatest(queue) => R = {}
  BY FinishIs, Between
<1>2. OpenSound(O, queue.latestSeq)
  BY OpenIsSound, Between
<1>3. c.seq \in 1 .. queue.latestSeq
  BY <1>1, <1>2 DEF OpenSound
<1>4. LineSound(R, queue.latestSeq, ui, store)
  <2>1. LineSound(O, queue.latestSeq, ui, store) /\ store \in Stores /\ ui.docChange \in Nat
    BY Between
  <2> HIDE DEF O, R, c, q
  <2> QED BY <1>1, <1>2, <2>1, LineAnswered
<1>5. PicturesRight(O, queue.latestSeq, ui)
  BY DEF DeskSound
<1>6. c.task.kind \in Pictures => Older(ui, c.task) /\ (IsLatest(queue) => Right(ui, c.task))
  BY <1>1, <1>5 DEF PicturesRight, IsLatest
<1>7. ASSUME c.task.kind \notin Coming PROVE Comes(R, ui, store)
  <2>1. Comes(O, ui, store)
    BY Between
  <2> HIDE DEF O, R, c
  <2> QED BY <1>1, <1>7, <2>1 DEF Comes
<1> QED BY <1>1, <1>2, <1>3, <1>4, <1>6, <1>7

(* An answer that leaves the store alone.                                  *)
LEMMA AnswerTurn ==
  ASSUME DeskSound, queue.running # Null, UNCHANGED store, NEW d, Sane(d), Turn(Finish(queue), d),
         Placed(d), d.shown = ui.shown, d.after \subseteq ui.after,
         Proceeds(Open(Finish(queue)), queue.latestSeq, ui, store, d, d.ask),
         Looks(Open(Finish(queue)), ui, store, d, d.ask)
  PROVE  DeskSound'
<1>1. StepsMove(d)
  BY Between DEF StepsMove
<1>2. store' = store
  OBVIOUS
<1> DEFINE q == Finish(queue)
<1>3. /\ InOrder(q) /\ q.latestSeq = queue.latestSeq /\ Open(q) \subseteq Open(queue)
      /\ LineSound(Open(q), queue.latestSeq, ui, store)
  BY Finished
<1>4. Turn(q, d) /\ Looks(Open(q), ui, store, d, d.ask)
      /\ Proceeds(Open(q), queue.latestSeq, ui, store, d, d.ask)
  OBVIOUS
<1> HIDE DEF q
<1>5. store' \in Stores /\ ui.docChange \in Nat
      /\ d.shown = [ver |-> store'.ver, ids |-> store'.ids]
  BY <1>2, Between
<1>6. /\ LineSound(Open(q), q.latestSeq, ui, store')
      /\ Proceeds(Open(q), q.latestSeq, ui, store', d, d.ask)
      /\ Looks(Open(q), ui, store', d, d.ask)
  BY <1>2, <1>3, <1>4
<1> QED BY <1>1, <1>3, <1>4, <1>5, <1>6, TurnGoesOn

(* A picture comes, or is known not to come; nothing else changes.         *)
LEMMA PictureTurns ==
  ASSUME DeskSound, queue.running # Null, UNCHANGED store, NEW d, Sane(d), Turn(Finish(queue), d),
         SameFold(ui, d), d.at = ui.at, d.full = ui.full, d.ask = Null,
         ui.generation <= d.generation,
         d.seen = "drawn" /\ d.frame # Wanted(ui) => Jump(d),
         (Jump(ui) => Jump(d)) \/ Open(Finish(queue)) = {}
  PROVE  DeskSound'
<1>1. d.shown = ui.shown /\ d.after = ui.after /\ d.docChange = ui.docChange
      /\ d.pending = ui.pending /\ d.asking = ui.asking /\ d.busy = ui.busy
  BY DEF SameFold, SameCalls
<1>2. Placed(d) /\ Wanted(d) = Wanted(ui)
  BY <1>1, SamePlace, Between DEF Placed
<1>3. Proceeds(Open(Finish(queue)), queue.latestSeq, ui, store, d, d.ask)
  BY <1>1, CalmProceeds
<1>4. Looks(Open(Finish(queue)), ui, store, d, d.ask)
  <2>1. ui.shown.ver <= d.shown.ver /\ ~ Makes(d.ask, Pictures)
    BY <1>1, Between DEF Makes
  <2> QED BY <1>1, <1>2, <2>1 DEF Looks, SameWanted
<1> QED BY <1>1, <1>2, <1>3, <1>4, AnswerTurn

(* The picture of the call that was asked for last is the one wanted.      *)
LEMMA PictureComes ==
  ASSUME DeskSound, NEW t \in Task, t.kind \in Pictures, Right(ui, t), t.gen = ui.generation
  PROVE  LET d == Draw(ui, Picture(t), t.of)
         IN /\ Sane(d) /\ SameFold(ui, d) /\ SamePlay(ui, d) /\ d.at = ui.at /\ d.full = ui.full
            /\ d.ask = Null /\ d.generation = ui.generation
            /\ d.seen = "drawn" /\ d.frame # Wanted(ui) => Jump(d)
            /\ Jump(ui) => Jump(d)
<1> DEFINE d == Draw(ui, Picture(t), t.of)
<1>1. Picture(t) \in Pictured
  <2>1. t.upTo \in Nat /\ t.full \in BOOLEAN
    BY Arguments DEF Pictures
  <2>2. store.ver \in Nat /\ Len(store.ids) \in Nat
    BY Between DEF Stores
  <2>3. Min({t.upTo, Len(store.ids)}) \in Nat
    BY <2>1, <2>2, MinIs
  <2> QED BY <2>1, <2>2, <2>3 DEF Picture, Pictured
<1>2. /\ Sane(d) /\ SameFold(ui, d) /\ SamePlay(ui, d)
      /\ d.at = ui.at /\ d.full = ui.full /\ d.frame = Picture(t)
      /\ d.seen = IF t.of = ui.shown.ver THEN "drawn" ELSE "late"
      /\ d.generation = ui.generation /\ d.ask = Null
  BY <1>1, DrawIs, Between
<1> HIDE DEF d
<1>3. Jump(ui) => Jump(d)
  BY <1>2 DEF SameFold, SameCalls, SamePlay, Jump, Total
<1>4. ASSUME d.seen = "drawn", d.frame # Wanted(ui) PROVE Jump(d)
  <2>1. t.of = ui.shown.ver
    BY <1>2, <1>4
  <2>2. Jump(ui) \/ (Min({t.upTo, Total(ui)}) = Wanted(ui).upTo /\ t.full = Wanted(ui).full)
    BY <2>1 DEF Right
  <2>3. Total(ui) = Len(store.ids) /\ ui.shown.ver = store.ver
    BY Between DEF Total
  <2>4. Wanted(ui) = [ver |-> ui.shown.ver, upTo |-> Wanted(ui).upTo, full |-> Wanted(ui).full]
    BY DEF Wanted
  <2>5. ~ Jump(ui) => Picture(t) = Wanted(ui)
    BY <2>2, <2>3, <2>4 DEF Picture
  <2> QED BY <1>2, <1>3, <1>4, <2>5
<1> QED BY <1>2, <1>3, <1>4 DEF d

LEMMA MissedComes ==
  ASSUME DeskSound
  PROVE  LET d == Missed(ui)
             e == Missed(Fail(ui))
             f == Missed(Fail(StopPlayback(ui)))
         IN /\ \A x \in {d, e, f} :
                 /\ Sane(x) /\ SameFold(ui, x) /\ x.at = ui.at /\ x.full = ui.full
                 /\ x.ask = Null /\ x.generation = ui.generation /\ x.seen = "missed"
            /\ \A x \in {d, e} : Jump(ui) => Jump(x)
<1> DEFINE d == Missed(ui)
           fu == Fail(ui)
           e == Missed(fu)
           su == StopPlayback(ui)
           fs == Fail(su)
           f == Missed(fs)
<1>1. Sane(ui) /\ ui.ask = Null
  BY Between
<1>2. /\ Sane(d) /\ SameFold(ui, d) /\ SamePlay(ui, d)
      /\ d.at = ui.at /\ d.full = ui.full /\ d.seen = "missed"
      /\ d.generation = ui.generation /\ d.ask = ui.ask
  BY <1>1, MissedIs
<1>3. /\ Sane(fu) /\ SameFold(ui, fu) /\ SameView(ui, fu) /\ SamePlay(ui, fu)
      /\ fu.generation = ui.generation /\ fu.ask = ui.ask
  BY <1>1, FailIs
<1> HIDE DEF d, fu
<1>4. /\ Sane(e) /\ SameFold(fu, e) /\ SamePlay(fu, e)
      /\ e.at = fu.at /\ e.full = fu.full /\ e.seen = "missed"
      /\ e.generation = fu.generation /\ e.ask = fu.ask
  BY <1>3, MissedIs
<1> HIDE DEF e
<1>5. /\ Sane(su) /\ SameFold(ui, su) /\ SameView(ui, su)
      /\ su.generation = ui.generation /\ su.ask = ui.ask
  BY <1>1, StopPlaybackIs
<1> HIDE DEF su
<1>6. /\ Sane(fs) /\ SameFold(su, fs) /\ SameView(su, fs)
      /\ fs.generation = su.generation /\ fs.ask = su.ask
  BY <1>5, FailIs
<1> HIDE DEF fs
<1>7. /\ Sane(f) /\ SameFold(fs, f) /\ f.at = fs.at /\ f.full = fs.full /\ f.seen = "missed"
      /\ f.generation = fs.generation /\ f.ask = fs.ask
  BY <1>6, MissedIs
<1> HIDE DEF f
<1>8. SameFold(ui, e) /\ SamePlay(ui, e) /\ e.at = ui.at /\ e.full = ui.full
      /\ e.ask = Null /\ e.generation = ui.generation
  BY <1>1, <1>3, <1>4 DEF SameFold, SameCalls, SameView, SamePlay
<1>9. SameFold(ui, f) /\ f.at = ui.at /\ f.full = ui.full
      /\ f.ask = Null /\ f.generation = ui.generation
  BY <1>1, <1>5, <1>6, <1>7 DEF SameFold, SameCalls, SameView
<1>10. (Jump(ui) => Jump(d)) /\ (Jump(ui) => Jump(e))
  BY <1>2, <1>4, <1>8 DEF SameFold, SameCalls, SamePlay, Jump, Total
<1>11. \A x \in {d, e, f} :
         /\ Sane(x) /\ SameFold(ui, x) /\ x.at = ui.at /\ x.full = ui.full
         /\ x.ask = Null /\ x.generation = ui.generation /\ x.seen = "missed"
  BY <1>1, <1>2, <1>4, <1>7, <1>8, <1>9
<1> QED BY <1>10, <1>11 DEF d, e, f, fu, su, fs

LEMMA AnswerReplayGoesOn ==
  ASSUME DeskSound, queue.running # Null, AnswerReplay(queue.running, IsLatest(queue))
  PROVE  DeskSound'
<1> DEFINE c == queue.running
           t == c.task
           q == Finish(queue)
           latest == IsLatest(queue)
<1>1. UNCHANGED store /\ t.kind = "replay"
  BY DEF AnswerReplay
<1>2. t \in Task /\ t.kind \in Pictures
  BY <1>1, Finished DEF Pictures
<1>3. latest => Right(ui, t) /\ Open(q) = {}
  BY <1>2, Finished
<1>4. CASE Turn(q, Missed(ui)) \/ (latest /\ Turn(q, Missed(Fail(StopPlayback(ui)))))
  <2>1. PICK d : /\ d = Missed(ui) \/ (latest /\ d = Missed(Fail(StopPlayback(ui))))
                 /\ Turn(q, d)
    BY <1>4
  <2>2. /\ Sane(d) /\ SameFold(ui, d) /\ d.at = ui.at /\ d.full = ui.full
        /\ d.ask = Null /\ d.generation = ui.generation /\ d.seen = "missed"
        /\ (Jump(ui) => Jump(d)) \/ Open(q) = {}
    BY <1>3, <2>1, MissedComes
  <2>3. ui.generation <= d.generation
    BY <2>2, Between
  <2> QED BY <1>1, <2>1, <2>2, <2>3, PictureTurns
<1>5. CASE /\ t.gen = ui.generation /\ latest /\ ~ t.over /\ Turn(q, Draw(ui, Picture(t), t.of))
  <2> DEFINE d == Draw(ui, Picture(t), t.of)
  <2>1. /\ Sane(d) /\ SameFold(ui, d) /\ d.at = ui.at /\ d.full = ui.full
        /\ d.ask = Null /\ d.generation = ui.generation
        /\ d.seen = "drawn" /\ d.frame # Wanted(ui) => Jump(d)
        /\ Jump(ui) => Jump(d)
    BY <1>2, <1>3, <1>5, PictureComes
  <2>2. Turn(q, d)
    BY <1>5
  <2> HIDE DEF d
  <2>3. ui.generation <= d.generation
    BY <2>1, Between
  <2> QED BY <1>1, <2>1, <2>2, <2>3, PictureTurns
<1>6. CASE /\ t.gen = ui.generation /\ latest
           /\ Turn(q, Call([ui EXCEPT !.timer = FALSE],
                           [kind |-> "pose", upTo |-> t.upTo, full |-> t.full,
                            gen |-> t.gen, of |-> t.of, clears |-> Null]))
  <2> DEFINE f == [ui EXCEPT !.timer = FALSE]
             p == [kind |-> "pose", upTo |-> t.upTo, full |-> t.full,
                   gen |-> t.gen, of |-> t.of, clears |-> Null]
             d == Call(f, p)
  <2>1. Turn(q, d)
    BY <1>6
  <2>2. p \in Task /\ p.kind \in Pictures \cap Coming
    <3>1. t.upTo \in Nat /\ t.full \in BOOLEAN /\ t.gen \in Nat /\ t.of \in Nat
      BY <1>1, <1>2, Arguments
    <3> QED BY <3>1 DEF Task, Pictures, Coming
  <2>3. Right(ui, p)
    <3>1. Right(ui, t)
      BY <1>3, <1>6
    <3> QED BY <3>1 DEF Right
  <2> HIDE DEF p
  <2>4. /\ Sane(f) /\ SameFold(ui, f) /\ SameView(ui, f) /\ SamePlay(ui, f)
        /\ f.generation = ui.generation
    BY TimerOffIs, Between
  <2> HIDE DEF f
  <2>5. /\ Sane(d) /\ SameFold(f, d) /\ SameView(f, d) /\ SamePlay(f, d)
        /\ d.generation = f.generation
        /\ d.ask = [firm |-> TRUE, task |-> p] /\ d.ask # Null
    BY <2>2, <2>4, CallIs
  <2> HIDE DEF d
  <2>6. /\ SameFold(ui, d) /\ SameView(ui, d) /\ SamePlay(ui, d) /\ d.generation = ui.generation
    BY <2>4, <2>5 DEF SameFold, SameCalls, SameView, SamePlay
  <2>7. Right(d, p)
    BY <2>3, <2>6, SameRight
  <2>8. /\ d.shown = ui.shown /\ d.after = ui.after /\ d.docChange = ui.docChange
        /\ d.pending = ui.pending /\ d.asking = ui.asking /\ d.busy = ui.busy
    BY <2>6 DEF SameFold, SameCalls
  <2>9. Placed(d) /\ ui.generation <= d.generation /\ ui.shown.ver <= d.shown.ver
    BY <2>6, <2>8, SamePlace, Between DEF SameView, Placed
  <2>10. Makes(d.ask, Pictures) /\ Makes(d.ask, Coming) /\ d.ask.task = p
    BY <2>2, <2>5 DEF Makes
  <2>11. Proceeds(Open(q), queue.latestSeq, ui, store, d, d.ask)
    BY <2>8, <2>10, CalmProceeds
  <2>12. Looks(Open(q), ui, store, d, d.ask)
    BY <2>5, <2>7, <2>9, <2>10 DEF Looks
  <2> QED BY <1>1, <2>1, <2>5, <2>8, <2>9, <2>11, <2>12, AnswerTurn
<1> QED BY <1>4, <1>5, <1>6, Zenon DEF AnswerReplay

LEMMA AnswerPoseGoesOn ==
  ASSUME DeskSound, queue.running # Null, AnswerPose(queue.running, IsLatest(queue))
  PROVE  DeskSound'
<1> DEFINE c == queue.running
           t == c.task
           q == Finish(queue)
           latest == IsLatest(queue)
           Use(d) == Turn(q, IF t.clears = d.generation THEN CancelIntent(d) ELSE d)
<1>1. UNCHANGED store /\ t.kind = "pose"
  BY DEF AnswerPose
<1>2. t \in Task /\ t.kind \in Pictures
  BY <1>1, Finished DEF Pictures
<1>3. latest => Right(ui, t)
  BY <1>2, Finished
<1>4. ASSUME NEW d, Use(d), Sane(d), SameFold(ui, d), d.at = ui.at, d.full = ui.full, d.ask = Null,
             d.generation = ui.generation,
             d.seen = "drawn" /\ d.frame # Wanted(ui) => Jump(d),
             Jump(ui) => Jump(d)
      PROVE  DeskSound'
  <2> DEFINE e == CancelIntent(d)
  <2>1. /\ Sane(e) /\ SameFold(d, e) /\ SameView(d, e) /\ SamePlay(d, e)
        /\ e.generation = d.generation + 1 /\ e.ask = d.ask
    BY <1>4, CancelIntentIs
  <2>2. ui.generation <= d.generation
    BY <1>4, Between
  <2>3. CASE t.clears = d.generation
    <3>1. Turn(q, e)
      BY <1>4, <2>3
    <3> HIDE DEF e
    <3>2. (Jump(d) => Jump(e)) /\ ui.generation <= e.generation
      BY <1>4, <2>1, Between DEF SameView, SamePlay, Jump, Total
    <3>3. SameFold(ui, e) /\ e.at = ui.at /\ e.full = ui.full /\ e.ask = Null
          /\ e.seen = d.seen /\ e.frame = d.frame
      BY <1>4, <2>1 DEF SameFold, SameCalls, SameView
    <3> QED BY <1>1, <1>4, <2>1, <3>1, <3>2, <3>3, PictureTurns
  <2>4. CASE t.clears # d.generation
    <3>1. Turn(q, d)
      BY <1>4, <2>4
    <3> QED BY <1>1, <1>4, <2>2, <3>1, PictureTurns
  <2> QED BY <2>3, <2>4
<1>5. CASE Use(Missed(ui)) \/ Use(Missed(Fail(ui)))
  <2>1. PICK d : (d = Missed(ui) \/ d = Missed(Fail(ui))) /\ Use(d)
    BY <1>5, Zenon
  <2>2. /\ Sane(d) /\ SameFold(ui, d) /\ d.at = ui.at /\ d.full = ui.full
        /\ d.ask = Null /\ d.generation = ui.generation /\ d.seen = "missed"
        /\ (Jump(ui) => Jump(d))
    BY <2>1, MissedComes
  <2> HIDE DEF Use
  <2> QED BY <1>4, <2>1, <2>2
<1>6. CASE t.gen = ui.generation /\ latest /\ Use(Draw(ui, Picture(t), t.of))
  <2> DEFINE d == Draw(ui, Picture(t), t.of)
  <2>1. /\ Sane(d) /\ SameFold(ui, d) /\ d.at = ui.at /\ d.full = ui.full
        /\ d.ask = Null /\ d.generation = ui.generation
        /\ d.seen = "drawn" /\ d.frame # Wanted(ui) => Jump(d)
        /\ Jump(ui) => Jump(d)
    BY <1>2, <1>3, <1>6, PictureComes
  <2>2. Use(d)
    BY <1>6
  <2> HIDE DEF d, Use
  <2> QED BY <1>4, <2>1, <2>2
<1> QED BY <1>5, <1>6, Zenon DEF AnswerPose

LEMMA ErrorIs ==
  ASSUME NEW d, Sane(d), NEW failed \in BOOLEAN
  PROVE  LET e == [d EXCEPT !.error = failed]
         IN /\ Sane(e) /\ SameFold(d, e) /\ SameView(d, e) /\ SamePlay(d, e)
            /\ e.generation = d.generation /\ e.ask = d.ask
<1> DEFINE e == [d EXCEPT !.error = failed]
<1>0. d \in Draft
  BY DEF Sane
<1>1. e \in Draft
  BY <1>0 DEF Draft, Screens
<1>2. SameFold(d, e) /\ e.ask = d.ask
  BY <1>0 DEF Draft, Screens, SameFold, SameCalls
<1>3. SameView(d, e) /\ SamePlay(d, e) /\ e.generation = d.generation
      /\ e.unfinished = d.unfinished
  BY <1>0 DEF Draft, Screens, SameView, SamePlay
<1> QED BY <1>1, <1>2, <1>3 DEF Sane, SamePlay

(* An answer after which only an error, or the wait of the fold tools, is  *)
(* another.                                                                *)
LEMMA PlainTurns ==
  ASSUME DeskSound, queue.running # Null, queue.running.task.kind \notin Coming,
         UNCHANGED store, NEW d, Sane(d), Turn(Finish(queue), d),
         SameCalls(ui, d), SameView(ui, d), SamePlay(ui, d), d.ask = Null,
         d.asking = ui.asking, d.pending = ui.pending, d.generation = ui.generation,
         d.busy = ui.busy \/ \A e \in Open(Finish(queue)) : ~ Serves(e, ui)
  PROVE  DeskSound'
<1>1. Placed(d) /\ Wanted(d) = Wanted(ui) /\ ui.generation <= d.generation
      /\ (Jump(ui) => Jump(d)) /\ ~ Makes(d.ask, Pictures)
  BY SamePlace, Between DEF SameView, SamePlay, Placed, Jump, Makes
<1>2. d.shown = ui.shown /\ d.after = ui.after /\ d.docChange = ui.docChange
  BY DEF SameCalls
<1>3. Proceeds(Open(Finish(queue)), queue.latestSeq, ui, store, d, d.ask)
  BY <1>2, CalmProceeds
<1>4. Comes(Open(Finish(queue)), ui, store)
  BY Finished
<1>5. Looks(Open(Finish(queue)), ui, store, d, d.ask)
  BY <1>1, <1>2, <1>4, KeptLooks, Between DEF SameView
<1> QED BY <1>1, <1>2, <1>3, <1>5, AnswerTurn

LEMMA AnswerPlainGoesOn ==
  ASSUME DeskSound, queue.running # Null, AnswerPlain(queue.running)
  PROVE  DeskSound'
<1>1. PICK failed \in BOOLEAN : Turn(Finish(queue), [ui EXCEPT !.error = failed])
  BY DEF AnswerPlain
<1> DEFINE d == [ui EXCEPT !.error = failed]
<1>2. UNCHANGED store /\ queue.running.task.kind \notin Coming
  BY DEF AnswerPlain, Coming
<1>3. /\ Sane(d) /\ SameFold(ui, d) /\ SameView(ui, d) /\ SamePlay(ui, d)
      /\ d.generation = ui.generation /\ d.ask = Null
  BY ErrorIs, Between
<1>4. Turn(Finish(queue), d)
  BY <1>1
<1> HIDE DEF d
<1> QED BY <1>2, <1>3, <1>4, PlainTurns DEF SameFold

(* A question about a fold is put; the screens are not busy with it.       *)
LEMMA QuestionIs ==
  ASSUME NEW d, Sane(d),
         NEW p \in [upTo : Nat, posed : BOOLEAN, epoch : Nat, steps : Nat, base : Nat]
  PROVE  LET e == [d EXCEPT !.busy = 0, !.pending = p]
         IN /\ Sane(e) /\ SameCalls(d, e) /\ SameView(d, e) /\ SamePlay(d, e)
            /\ e.asking = d.asking /\ e.busy = 0 /\ e.pending = p
            /\ e.generation = d.generation /\ e.ask = d.ask
<1> DEFINE e == [d EXCEPT !.busy = 0, !.pending = p]
<1>0. d \in Draft
  BY DEF Sane
<1>1. e \in Draft
  BY <1>0 DEF Draft, Screens
<1>2. SameCalls(d, e) /\ e.ask = d.ask /\ e.asking = d.asking /\ e.busy = 0 /\ e.pending = p
  BY <1>0 DEF Draft, Screens, SameCalls
<1>3. SameView(d, e) /\ SamePlay(d, e) /\ e.generation = d.generation
      /\ e.unfinished = d.unfinished
  BY <1>0 DEF Draft, Screens, SameView, SamePlay
<1> QED BY <1>1, <1>2, <1>3 DEF Sane, SamePlay

LEMMA AnswerPreviewGoesOn ==
  ASSUME DeskSound, queue.running # Null, AnswerPreview(queue.running, IsLatest(queue))
  PROVE  DeskSound'
<1> DEFINE c == queue.running
           t == c.task
           q == Finish(queue)
           R == Open(q)
           latest == IsLatest(queue)
           stale == t.epoch # ui.epoch \/ t.steps # Total(ui) \/ t.upTo # FoldInsertAt(ui)
           f == FinishBusy(ui, c.seq)
           p == [upTo |-> t.upTo, posed |-> t.posed, epoch |-> ui.epoch,
                 steps |-> Total(ui), base |-> store.ver]
           g == [ui EXCEPT !.busy = 0, !.pending = p]
           h == ApplyFold(ui, t.upTo, t.posed, store.ver, c.seq)
<1>1. UNCHANGED store /\ t.kind = "preview" /\ t \in Task /\ t.kind \notin Coming
  BY Finished DEF AnswerPreview, Coming
<1>2. /\ c \in Open(queue) /\ c.seq \in 1 .. queue.latestSeq /\ (latest => R = {})
      /\ R \subseteq Open(queue) /\ queue.latestSeq \in Nat
  BY Finished, Between
<1>3. \/ Turn(q, f) \/ Turn(q, Fail(f))
      \/ ui.asking = c.seq /\ latest /\ ~ stale /\ (Turn(q, g) \/ Turn(q, h))
  BY Zenon DEF AnswerPreview
<1>4. t.upTo \in Nat /\ t.posed \in BOOLEAN /\ store.ver \in Nat
  BY <1>1, Arguments, Between DEF Stores
<1>5. CASE Turn(q, f) \/ Turn(q, Fail(f))
  <2>1. /\ Sane(f) /\ SameCalls(ui, f) /\ SameView(ui, f) /\ SamePlay(ui, f)
        /\ f.asking = ui.asking /\ f.pending = ui.pending
        /\ f.busy = IF ui.busy = c.seq THEN 0 ELSE ui.busy
        /\ f.generation = ui.generation /\ f.ask = Null
    BY FinishBusyIs, Between
  <2>2. f.busy = ui.busy \/ \A e \in R : ~ Serves(e, ui)
    <3> SUFFICES ASSUME ui.busy = c.seq, NEW e \in R, Serves(e, ui) PROVE FALSE
      BY <2>1
    <3>1. e \in Open(queue) /\ c \in Open(queue)
      BY <1>2
    <3> QED BY <1>1, <3>1, Between DEF LineSound, Owners, Serves
  <2> HIDE DEF f
  <2>3. CASE Turn(q, f)
    BY <1>1, <2>1, <2>2, <2>3, PlainTurns
  <2>4. CASE Turn(q, Fail(f))
    <3> DEFINE e == Fail(f)
    <3>1. /\ Sane(e) /\ SameFold(f, e) /\ SameView(f, e) /\ SamePlay(f, e)
          /\ e.generation = f.generation /\ e.ask = f.ask
      BY <2>1, FailIs
    <3>2. Turn(q, e)
      BY <2>4
    <3> HIDE DEF e
    <3>3. /\ SameCalls(ui, e) /\ SameView(ui, e) /\ SamePlay(ui, e) /\ e.ask = Null
          /\ e.asking = ui.asking /\ e.pending = ui.pending /\ e.busy = f.busy
          /\ e.generation = ui.generation
      BY <2>1, <3>1 DEF SameFold, SameCalls, SameView, SamePlay
    <3> QED BY <1>1, <2>2, <3>1, <3>2, <3>3, PlainTurns
  <2> QED BY <1>5, <2>3, <2>4
<1>6. CASE latest /\ Turn(q, g)
  <2>1. p \in [upTo : Nat, posed : BOOLEAN, epoch : Nat, steps : Nat, base : Nat]
        /\ p.base = store.ver
    BY <1>4, PlaceIs, DraftFields, Between DEF Sane
  <2> HIDE DEF p
  <2>2. /\ Sane(g) /\ SameCalls(ui, g) /\ SameView(ui, g) /\ SamePlay(ui, g)
        /\ g.asking = ui.asking /\ g.busy = 0 /\ g.pending = p
        /\ g.generation = ui.generation /\ g.ask = Null
    BY <2>1, QuestionIs, Between
  <2>3. Turn(q, g)
    BY <1>6
  <2> HIDE DEF g
  <2>4. /\ g.shown = ui.shown /\ g.after = ui.after /\ g.docChange = ui.docChange
        /\ \A kinds : ~ Makes(g.ask, kinds)
    BY <2>2 DEF SameCalls, Makes
  <2>5. Placed(g) /\ Wanted(g) = Wanted(ui) /\ ui.generation <= g.generation
        /\ (Jump(ui) => Jump(g))
    BY <2>2, SamePlace, Between DEF SameView, SamePlay, Placed, Jump
  <2>6. Proceeds(R, queue.latestSeq, ui, store, g, g.ask)
    BY <1>2, <1>6, <2>1, <2>2, <2>4 DEF Proceeds
  <2>7. Comes(R, ui, store)
    BY <1>1, Finished
  <2>8. Looks(R, ui, store, g, g.ask)
    BY <2>2, <2>4, <2>5, <2>7, KeptLooks, Between DEF SameView
  <2> QED BY <1>1, <2>2, <2>3, <2>4, <2>5, <2>6, <2>8, AnswerTurn
<1>7. CASE latest /\ ui.asking = c.seq /\ ~ stale /\ Turn(q, h)
  <2> DEFINE x == FoldTask(ui, t.upTo, t.posed, store.ver, c.seq)
  <2>1. t.upTo = FoldInsertAt(ui) /\ c.seq \in Nat
    BY <1>2, <1>7
  <2>2. /\ Sane(h) /\ h.shown = ui.shown /\ h.docChange = queue.latestSeq + 1 /\ h.after = ui.after
        /\ h.asking = ui.asking /\ h.pending = ui.pending /\ h.busy = ui.busy
        /\ h.generation = ui.generation
        /\ x \in Task /\ h.ask = [firm |-> TRUE, task |-> x] /\ h.ask # Null
        /\ h.seen = "missed" /\ Placed(h)
    BY <1>2, <1>4, <2>1, ApplyFoldIs, Between
  <2>3. x.kind = "fold" /\ x.base = store.ver /\ x.owner = c.seq
    BY DEF FoldTask
  <2>4. Turn(q, h)
    BY <1>7
  <2> HIDE DEF h, x
  <2>5. /\ Makes(h.ask, Changes) /\ ~ Makes(h.ask, {"move"}) /\ ~ Makes(h.ask, {"preview"})
        /\ ~ Makes(h.ask, Pictures) /\ h.ask.firm /\ h.ask.task = x
    BY <2>2, <2>3 DEF Makes, Changes, Pictures
  <2>6. ui.pending = Null
    BY <1>1, <1>2, <1>7, Between DEF LineSound, Asking
  <2>7. \A k \in ui.after : k.task.kind = "fold" => k.task.owner # c.seq
    BY <1>1, <1>2, Between DEF LineSound, Owners
  <2>8. Fits(store, x.base, R)
    <3>1. x.base <= store.ver
      BY <1>4, <2>3
    <3> QED BY <1>2, <1>7, <2>3, <3>1 DEF Fits
  <2>9. x.owner \in 1 .. queue.latestSeq + 1
    BY <1>2, <2>3
  <2>10. R = {}
    BY <1>2, <1>7
  <2>11. Proceeds(R, queue.latestSeq, ui, store, h, h.ask)
    <3> HIDE DEF R
    <3> QED BY <2>2, <2>3, <2>5, <2>6, <2>7, <2>8, <2>9, <2>10 DEF Proceeds
  <2>12. Looks(R, ui, store, h, h.ask)
    BY <2>2, <2>5, MissedLooks, Between
  <2>13. h.after \subseteq ui.after
    BY <2>2
  <2> QED BY <1>1, <2>2, <2>4, <2>11, <2>12, <2>13, AnswerTurn
<1> QED BY <1>3, <1>5, <1>6, <1>7

(* What follows the change that the running call asked for is noted.       *)
LEMMA FollowIs ==
  ASSUME DeskSound, queue.running # Null, queue.running.task.kind \in Changes,
         NEW d, Sane(d), NEW ok \in BOOLEAN, d.after = ui.after
  PROVE  LET c == queue.running
             e == Follow(d, c, ok)
         IN /\ Sane(e) /\ SameView(d, e) /\ SamePlay(d, e)
            /\ e.docChange = d.docChange /\ e.asking = d.asking
            /\ e.pending = d.pending /\ e.busy = d.busy
            /\ e.generation = d.generation /\ e.ask = d.ask
            /\ StepsMove(e) /\ \A k \in e.after : k \in ui.after \/ k.task = c.task
<1> DEFINE c == queue.running
           w == IF d.ask = Null THEN 0 ELSE NextSeq(queue)
           k == [of |-> c.seq, wait |-> w, task |-> c.task, ok |-> ok]
           A == ui.after \union {k}
           e == [d EXCEPT !.after = A]
<1>1. /\ c \in Open(queue) /\ c.task \in Task /\ c.seq \in 1 .. queue.latestSeq
      /\ queue.latestSeq \in Nat
  BY Finished, Between
<1>2. k \in Continuation
  <2>1. c.seq \in Nat /\ w \in Nat
    BY <1>1 DEF NextSeq
  <2> QED BY <1>1, <2>1 DEF Continuation
<1>3. ui.after \in SUBSET Continuation
  BY Between DEF Sane, Draft, Screens, Continuation
<1>4. A \in SUBSET Continuation
  BY <1>2, <1>3
<1>5. Follow(d, c, ok) = e
  BY DEF Follow
<1>6. c.task.kind = "move" => c.task.to # 0
  <2>1. store.ids \in Seq(Nat)
    BY Between DEF Stores
  <2> QED BY <1>1, <2>1, Between, SMTT(30) DEF LineSound, MovesFit
<1>7. k.task = c.task
  OBVIOUS
<1> HIDE DEF k
<1>8. \A x \in A : x \in ui.after \/ x.task = c.task
  BY <1>7
<1> HIDE DEF A
<1>9. /\ Sane(e) /\ SameView(d, e) /\ SamePlay(d, e)
      /\ e.docChange = d.docChange /\ e.after = A /\ e.asking = d.asking
      /\ e.pending = d.pending /\ e.busy = d.busy
      /\ e.generation = d.generation /\ e.ask = d.ask
  BY <1>4, AfterIs
<1> HIDE DEF e
<1>10. StepsMove(e)
  BY <1>6, <1>8, <1>9, Between DEF StepsMove
<1> QED BY <1>5, <1>8, <1>9, <1>10

(* A change has succeeded: its document is shown, whatever waits behind it.*)
LEMMA ChangeSucceeds ==
  ASSUME DeskSound, queue.running # Null, queue.running.task.kind \in Changes,
         NEW s \in Results(queue.running.task), store' = s, NEW isNew \in BOOLEAN,
         Turn(Finish(queue), Follow(ShowResult(ui, s, isNew), queue.running, TRUE))
  PROVE  DeskSound'
<1> DEFINE c == queue.running
           q == Finish(queue)
           O == Open(queue)
           R == Open(q)
           e == ShowResult(ui, s, isNew)
           d == Follow(e, c, TRUE)
<1>1. /\ InOrder(q) /\ q.latestSeq = queue.latestSeq /\ R = O \ {c}
      /\ c \in O /\ c.task \in Task /\ \A x \in R : c.seq < x.seq
      /\ OpenSound(O, queue.latestSeq)
  BY Finished
<1>2. /\ s \in Stores /\ s.ver = store.ver + 1
      /\ s.adopted = IF c.task.kind = "adopt" THEN store.ver + 1 ELSE store.adopted
  BY <1>1, ResultsAre, Between
<1>3. /\ Sane(e) /\ e.shown = [ver |-> s.ver, ids |-> s.ids]
      /\ e.docChange = ui.docChange /\ e.after = ui.after
      /\ e.asking = ui.asking /\ e.pending = Null /\ ui.generation <= e.generation
      /\ e.ask = Null \/ AsksPicture(e)
      /\ Shows(e) /\ Placed(e)
  BY <1>2, ShowResultIs, Between
<1>4. PICK ok \in BOOLEAN : ok = TRUE
  OBVIOUS
<1>5. d = Follow(e, c, ok)
  BY <1>4
<1>6. Turn(q, d)
  OBVIOUS
<1> HIDE DEF e, d
<1>7. /\ Sane(d) /\ SameView(e, d) /\ d.docChange = ui.docChange /\ d.asking = ui.asking
      /\ d.pending = Null /\ d.generation = e.generation /\ d.ask = e.ask
      /\ StepsMove(d) /\ \A k \in d.after : k \in ui.after \/ k.task = c.task
  BY <1>3, <1>5, FollowIs
<1>8. /\ d.shown = [ver |-> s.ver, ids |-> s.ids] /\ Placed(d) /\ Shows(d)
      /\ d.ask = Null \/ AsksPicture(d)
  BY <1>3, <1>7, SameShows DEF SameView
<1>9. LineSound(R, queue.latestSeq, d, s)
  <2>1. LineSound(O, queue.latestSeq, ui, store) /\ store \in Stores /\ ui.docChange \in Nat
    BY Between
  <2> HIDE DEF O, R, c, q
  <2> QED BY <1>1, <1>2, <1>7, <2>1, LineAnswered DEF c
<1>10. Proceeds(R, queue.latestSeq, d, s, d, d.ask)
  <2>1. d.ask = Null \/ Makes(d.ask, Pictures)
    BY <1>8 DEF AsksPicture, PictureOf, Makes, Pictures
  <2> HIDE DEF R
  <2> QED BY <1>7, <2>1, CalmProceeds
<1>11. Looks(R, ui, s, d, d.ask)
  <2>1. d.shown.ver = store.ver + 1 /\ ui.shown.ver = store.ver /\ store.ver \in Nat
    BY <1>2, <1>8, Between DEF Stores
  <2>2. ui.shown.ver < d.shown.ver /\ ui.shown.ver <= d.shown.ver
        /\ ui.generation <= d.generation
    BY <1>3, <1>7, <2>1
  <2> HIDE DEF R
  <2>3. CASE AsksPicture(d)
    BY <1>7, <2>2, <2>3, AskedLooks
  <2>4. CASE ~ AsksPicture(d)
    <3>1. d.ask = Null /\ ~ Makes(d.ask, Pictures) /\ d.frame = Wanted(d)
      BY <1>8, <2>4 DEF Shows, Makes
    <3> QED BY <2>2, <3>1 DEF Looks
  <2> QED BY <2>3, <2>4
<1>12. d.docChange \in Nat /\ R \subseteq Open(queue)
  BY <1>1, <1>7, Between
<1> HIDE DEF q, R
<1>13. LineSound(R, q.latestSeq, d, store') /\ Proceeds(R, q.latestSeq, d, store', d, d.ask)
       /\ Looks(R, ui, store', d, d.ask) /\ store' \in Stores
       /\ d.shown = [ver |-> store'.ver, ids |-> store'.ids]
  BY <1>1, <1>2, <1>8, <1>9, <1>10, <1>11
<1> QED BY <1>1, <1>6, <1>7, <1>8, <1>12, <1>13, TurnGoesOn DEF R

(* A change has failed: a move only where two steps have one id.           *)
LEMMA ChangeFails ==
  ASSUME DeskSound, queue.running # Null, queue.running.task.kind \in Changes, UNCHANGED store,
         queue.running.task.kind \notin Sure \/ Results(queue.running.task) = {},
         NEW v, v = ui \/ v = Fail(ui),
         Turn(Finish(queue), Follow(v, queue.running, FALSE))
  PROVE  DeskSound'
<1> DEFINE c == queue.running
           q == Finish(queue)
           O == Open(queue)
           R == Open(q)
           d == Follow(v, c, FALSE)
<1>1. /\ InOrder(q) /\ q.latestSeq = queue.latestSeq /\ R = O \ {c}
      /\ c \in O /\ c.task \in Task /\ \A x \in R : c.seq < x.seq
      /\ OpenSound(O, queue.latestSeq)
  BY Finished
<1>2. /\ Sane(v) /\ SameFold(ui, v) /\ SameView(ui, v) /\ SamePlay(ui, v)
      /\ v.generation = ui.generation /\ v.ask = Null
  BY FailIs, Between DEF SameFold, SameCalls, SameView, SamePlay
<1>3. PICK no \in BOOLEAN : no = FALSE
  OBVIOUS
<1>4. d = Follow(v, c, no) /\ v.after = ui.after
  BY <1>2, <1>3 DEF SameFold, SameCalls
<1>5. Turn(q, d)
  OBVIOUS
<1> HIDE DEF d
<1>6. /\ Sane(d) /\ SameView(v, d) /\ SamePlay(v, d)
      /\ d.docChange = v.docChange /\ d.asking = v.asking
      /\ d.pending = v.pending /\ d.busy = v.busy
      /\ d.generation = ui.generation /\ d.ask = Null
      /\ StepsMove(d) /\ \A k \in d.after : k \in ui.after \/ k.task = c.task
  BY <1>2, <1>4, FollowIs
<1>7. /\ d.docChange = ui.docChange /\ d.asking = ui.asking
      /\ d.pending = ui.pending /\ d.busy = ui.busy
      /\ SameView(ui, d) /\ SamePlay(ui, d)
  BY <1>2, <1>6 DEF SameFold, SameCalls, SameView, SamePlay
<1>8. LineSound(R, queue.latestSeq, d, store)
  <2>1. LineSound(O, queue.latestSeq, ui, store) /\ store \in Stores /\ ui.docChange \in Nat
    BY Between
  <2> HIDE DEF O, R, c, q
  <2> QED BY <1>1, <1>6, <1>7, <2>1, LineAnswered
<1>9. \A kinds : ~ Makes(d.ask, kinds)
  BY <1>6 DEF Makes
<1>10. Proceeds(R, queue.latestSeq, d, store, d, d.ask)
  <2> HIDE DEF R
  <2> QED BY <1>6, CalmProceeds
<1>11. Comes(R, ui, store)
  <2>1. CASE c.task.kind = "move"
    <3>1. /\ c.task.to \in DOMAIN store.ids
          /\ \E i \in DOMAIN store.ids : store.ids[i] = c.task.id
      BY <1>1, <2>1, Between DEF LineSound, MovesFit
    <3>2. Results(c.task) = Moved(c.task)
      BY <2>1 DEF Results
    <3>3. Moved(c.task) = {}
      BY <2>1, <3>2 DEF Sure
    <3>4. ~ IsInjective(store.ids)
      <4> SUFFICES ASSUME IsInjective(store.ids) PROVE FALSE
        OBVIOUS
      <4>1. PICK i \in DOMAIN store.ids : store.ids[i] = c.task.id
        BY <3>1
      <4>2. i \in {j \in DOMAIN store.ids : /\ store.ids[j] = c.task.id
                                            /\ c.task.to \in DOMAIN store.ids
                                            /\ IsInjective(store.ids)}
        BY <3>1, <4>1
      <4>3. Commit(InsertAt(RemoveAt(store.ids, i), c.task.to, c.task.id)) \in Moved(c.task)
        BY <4>2, Zenon DEF Moved
      <4> QED BY <3>3, <4>3
    <3> QED BY <3>4 DEF Comes
  <2>2. CASE c.task.kind # "move"
    <3>1. c.task.kind \notin Coming
      BY <2>2 DEF Coming, Changes
    <3> QED BY <3>1, Finished
  <2> QED BY <2>1, <2>2
<1>12. /\ Placed(d) /\ Wanted(d) = Wanted(ui) /\ ui.generation <= d.generation
       /\ (Jump(ui) => Jump(d)) /\ d.shown = ui.shown
       /\ d.frame = ui.frame /\ d.seen = ui.seen
  BY <1>6, <1>7, SamePlace, Between DEF SameView, SamePlay, Placed, Jump
<1>13. Looks(R, ui, store, d, d.ask)
  <2> HIDE DEF R
  <2> QED BY <1>9, <1>11, <1>12, KeptLooks, Between
<1>14. d.docChange \in Nat /\ R \subseteq Open(queue)
  BY <1>1, <1>7, Between
<1>15. store' = store
  OBVIOUS
<1> HIDE DEF q, R
<1>16. LineSound(R, q.latestSeq, d, store') /\ Proceeds(R, q.latestSeq, d, store', d, d.ask)
       /\ Looks(R, ui, store', d, d.ask) /\ store' \in Stores
       /\ d.shown = [ver |-> store'.ver, ids |-> store'.ids]
  BY <1>1, <1>8, <1>10, <1>12, <1>13, <1>15, Between
<1> QED BY <1>1, <1>5, <1>6, <1>12, <1>14, <1>16, TurnGoesOn DEF R

LEMMA AnswerChangeGoesOn ==
  ASSUME DeskSound, queue.running # Null, AnswerChange(queue.running, IsLatest(queue))
  PROVE  DeskSound'
<1> DEFINE c == queue.running
           q == Finish(queue)
<1>1. c.task.kind \in Changes
  BY DEF AnswerChange
<1>2. ASSUME NEW s \in Results(c.task), store' = s,
             Turn(q, Follow(ShowResult(ui, s, c.task.kind \in Fresh), c, TRUE))
      PROVE  DeskSound'
  <2> DEFINE Shown(isNew) == ShowResult(ui, s, isNew)
  <2>1. PICK isNew \in BOOLEAN : isNew <=> c.task.kind \in Fresh
    OBVIOUS
  <2>2. Shown(isNew) = Shown(c.task.kind \in Fresh)
    BY <2>1 DEF ShowResult
  <2>3. Turn(q, Follow(ShowResult(ui, s, isNew), c, TRUE))
    BY <1>2, <2>2
  <2> QED BY <1>1, <1>2, <2>3, ChangeSucceeds
<1>3. ASSUME c.task.kind \notin Sure \/ Results(c.task) = {},
             Turn(q, Follow(IF IsLatest(queue) THEN Fail(ui) ELSE ui, c, FALSE)),
             UNCHANGED store
      PROVE  DeskSound'
  <2>1. PICK v : v = IF IsLatest(queue) THEN Fail(ui) ELSE ui
    OBVIOUS
  <2>2. (v = ui \/ v = Fail(ui)) /\ Turn(q, Follow(v, c, FALSE))
    BY <1>3, <2>1
  <2> QED BY <1>1, <1>3, <2>2, ChangeFails
<1> QED BY <1>2, <1>3, Zenon DEF AnswerChange

(* In every reachable state; and no input comes after the last.            *)
AllSound == DeskSound /\ inputs \in 0 .. MaxInputs

LEMMA AtEndIsWhole ==
  ASSUME NEW d, d.at = Null
  PROVE  Wanted(d) = [ver |-> d.shown.ver, upTo |-> Min({Total(d), Total(d)}), full |-> TRUE]
BY DEF Wanted, Whole, Position

LEMMA StartsSound ==
  ASSUME Init PROVE AllSound
<1>1. PICK ids \in {<<0>>, <<0, 1>>} :
        /\ store = [ver |-> 1, ids |-> ids, past |-> <<>>, future |-> <<>>, adopted |-> 0]
        /\ ui = [shown |-> [ver |-> 1, ids |-> ids],
                 frame |-> [ver |-> 1, upTo |-> Len(ids), full |-> TRUE],
                 at |-> Null, full |-> TRUE, playing |-> FALSE, due |-> FALSE, generation |-> 0,
                 unfinished |-> 0, posed |-> FALSE, bent |-> FALSE, unbent |-> FALSE,
                 timer |-> FALSE, epoch |-> 1, undone |-> 0, error |-> FALSE,
                 asking |-> 0, busy |-> 0, pending |-> Null,
                 docChange |-> 0, moving |-> Null, after |-> {}, ask |-> Null, seen |-> "drawn"]
  BY DEF Init
<1>2. ids \in Seq(Nat) /\ Len(ids) \in Nat
  <2>1. <<0>> \in Seq(Nat) /\ <<0, 1>> \in Seq(Nat)
    OBVIOUS
  <2> QED BY <2>1
<1>3. store \in Stores
  <2>1. <<>> \in Seq(Seq(Nat))
    OBVIOUS
  <2>2. 1 \in Nat /\ 0 \in Nat
    OBVIOUS
  <2> QED BY <1>1, <1>2, <2>1, <2>2, Zenon DEF Stores
<1>4. /\ ui.shown = [ver |-> 1, ids |-> ids] /\ ui.frame = [ver |-> 1, upTo |-> Len(ids), full |-> TRUE]
      /\ ui.at = Null /\ ui.full /\ ui.pending = Null /\ ui.docChange = 0 /\ ui.after = {}
  BY <1>1
<1>5. ui \in Ui /\ Sane(ui)
  <2>1. ui \in Ui
    BY <1>1, <1>2 DEF Ui, Screens
  <2>2. ~ ui.due /\ ui.unfinished = 0 /\ ui.generation = 0
    BY <1>1
  <2>3. ui \in Draft
    BY <2>1 DEF Ui, Draft, Screens
  <2> QED BY <2>1, <2>2, <2>3 DEF Sane
<1>6. /\ Total(ui) = Len(ids) /\ Position(ui) = Len(ids) /\ Whole(ui)
      /\ Min({Len(ids), Len(ids)}) = Len(ids)
  BY <1>2, <1>4, MinIs DEF Total, Position, Whole
<1>7. Placed(ui) /\ StepsMove(ui) /\ ui.frame = Wanted(ui)
  <2>2. ui.frame = Wanted(ui)
    BY <1>4, <1>6, AtEndIsWhole
  <2>3. Placed(ui)
    BY <1>6 DEF Placed
  <2>4. StepsMove(ui)
    BY <1>4 DEF StepsMove
  <2> QED BY <2>2, <2>3, <2>4
<1>8. queue = EmptyQueue /\ inputs = 0
  BY DEF Init
<1>9. InOrder(queue) /\ Open(queue) = {} /\ queue.latestSeq = 0
  BY <1>8, EmptyInOrder
<1>10. store.ver = 1 /\ store.ids = ids /\ store.adopted = 0
  BY <1>1
<1>11. LineSound({}, 0, ui, store)
  BY <1>4, <1>10 DEF LineSound, FirmCalls, LastChange, FoldsFit, MovesFit, QuestionFits, Asking, Owners
<1>12. PicturesRight({}, 0, ui) /\ Comes({}, ui, store)
  BY <1>7 DEF PicturesRight, Comes
<1>13. inputs \in 0 .. MaxInputs
  BY <1>8, DeskValues
<1> QED BY <1>3, <1>4, <1>5, <1>7, <1>9, <1>10, <1>11, <1>12, <1>13 DEF DeskSound, AllSound

LEMMA AnswerGoesOn ==
  ASSUME DeskSound, Answer PROVE DeskSound'
<1> DEFINE c == queue.running
           latest == IsLatest(queue)
<1>1. /\ queue.running # Null
      /\ \/ AnswerChange(c, latest) \/ AnswerReplay(c, latest) \/ AnswerPose(c, latest)
         \/ AnswerPreview(c, latest) \/ AnswerPlain(c)
  BY Zenon DEF Answer
<1>2. CASE AnswerChange(c, latest)
  BY <1>1, <1>2, AnswerChangeGoesOn
<1>3. CASE AnswerReplay(c, latest)
  BY <1>1, <1>3, AnswerReplayGoesOn
<1>4. CASE AnswerPose(c, latest)
  BY <1>1, <1>4, AnswerPoseGoesOn
<1>5. CASE AnswerPreview(c, latest)
  BY <1>1, <1>5, AnswerPreviewGoesOn
<1>6. CASE AnswerPlain(c)
  BY <1>1, <1>6, AnswerPlainGoesOn
<1> QED BY <1>1, <1>2, <1>3, <1>4, <1>5, <1>6

LEMMA StepGoesOn ==
  ASSUME DeskSound, Next PROVE DeskSound'
<1>1. CASE GoOn
  BY <1>1, GoOnGoesOn
<1>2. CASE MoveOn
  BY <1>2, MoveOnGoesOn
<1>3. CASE Edit
  BY <1>3, EditGoesOn
<1>4. CASE NewDocument
  BY <1>4, NewDocumentGoesOn
<1>5. CASE Adopt
  BY <1>5, AdoptGoesOn
<1>6. CASE Undo
  BY <1>6, UndoGoesOn
<1>7. CASE Redo
  BY <1>7, RedoGoesOn
<1>8. ASSUME NEW n \in 0 .. Total(ui), Select(n) PROVE DeskSound'
  <2>1. n \in Nat \union {Null}
    BY PlaceIs, Between
  <2> QED BY <1>8, <2>1, SelectGoesOn
<1>9. CASE Select(Null)
  BY <1>9, SelectGoesOn
<1>10. CASE TogglePlay
  BY <1>10, TogglePlayGoesOn
<1>11. CASE SetAngle
  BY <1>11, SetAngleGoesOn
<1>12. CASE ClearDriver
  BY <1>12, ClearDriverGoesOn
<1>13. CASE FinishAngle
  BY <1>13, FinishAngleGoesOn
<1>14. CASE RecordPoseStep
  BY <1>14, RecordPoseStepGoesOn
<1>15. ASSUME NEW i \in DOMAIN ui.shown.ids, NEW delta \in {1, 0 - 1}, MoveStep(i, delta)
       PROVE  DeskSound'
  BY <1>15, MoveStepGoesOn
<1>16. CASE RequestFold
  BY <1>16, RequestFoldGoesOn
<1>17. CASE ResolveFold
  BY <1>17, ResolveFoldGoesOn
<1>18. CASE Plain
  BY <1>18, PlainGoesOn
<1>19. CASE Tick
  BY <1>19, TickGoesOn
<1>20. CASE PoseTimer
  BY <1>20, PoseTimerGoesOn
<1>21. CASE StartCall
  BY <1>21, StartCallGoesOn
<1>22. CASE Answer
  BY <1>22, AnswerGoesOn
<1> QED
  BY <1>1, <1>2, <1>3, <1>4, <1>5, <1>6, <1>7, <1>8, <1>9, <1>10, <1>11, <1>12, <1>13, <1>14,
     <1>15, <1>16, <1>17, <1>18, <1>19, <1>20, <1>21, <1>22, Zenon DEF Next

LEMMA InputsGrow ==
  ASSUME Next
  PROVE  inputs' = inputs \/ (inputs < MaxInputs /\ inputs' = inputs + 1)
<1> DEFINE Grows == inputs' = inputs \/ (inputs < MaxInputs /\ inputs' = inputs + 1)
<1>1. \A name : Input(name) => Grows
  BY DEF Input
<1>2. GoOn \/ MoveOn \/ Tick \/ PoseTimer \/ StartCall \/ Answer => Grows
  BY DEF GoOn, MoveOn, Tick, PoseTimer, StartCall, Answer
<1> HIDE DEF Grows
<1>3. Edit \/ NewDocument \/ Adopt \/ Undo \/ Redo => Grows
  BY <1>1 DEF Edit, NewDocument, Adopt, Undo, Redo
<1>4. \A n : Select(n) => Grows
  BY <1>1 DEF Select
<1>5. TogglePlay \/ SetAngle \/ ClearDriver \/ FinishAngle \/ RecordPoseStep => Grows
  BY <1>1 DEF TogglePlay, SetAngle, ClearDriver, FinishAngle, RecordPoseStep
<1>6. \A i, delta : MoveStep(i, delta) => Grows
  BY <1>1 DEF MoveStep
<1>7. RequestFold \/ ResolveFold \/ Plain => Grows
  BY <1>1 DEF RequestFold, ResolveFold, Plain
<1>8. Grows
  BY <1>2, <1>3, <1>4, <1>5, <1>6, <1>7, Zenon DEF Next
<1> QED BY <1>8 DEF Grows

LEMMA AlwaysSound == Spec => []AllSound
<1>1. Init => AllSound
  BY StartsSound
<1>2. AllSound /\ [Next]_vars => AllSound'
  <2> SUFFICES ASSUME AllSound, [Next]_vars PROVE AllSound'
    OBVIOUS
  <2>1. CASE Next
    <3>1. DeskSound'
      BY <2>1, StepGoesOn DEF AllSound
    <3>2. inputs' \in 0 .. MaxInputs
      BY <2>1, InputsGrow, DeskValues DEF AllSound
    <3> QED BY <3>1, <3>2 DEF AllSound
  <2>2. CASE UNCHANGED vars
    BY <2>2 DEF vars, AllSound, DeskSound
  <2> QED BY <2>1, <2>2
<1> QED BY <1>1, <1>2, PTL DEF Spec

-----------------------------------------------------------------------------
(* The state stays of the types that the program gives it; playback is     *)
(* only due while it plays and no intent to be finished is newer than the  *)
(* current one (replayRuntime.ts:149-182, poseRuntime.ts:100-140).         *)
THEOREM DeskTypeCorrect == Spec => []TypeOK
<1>1. AllSound => TypeOK
  BY DEF AllSound, DeskSound, InOrder, Stores, Sane, TypeOK
<1> QED BY <1>1, AlwaysSound, PTL

(* commandService.ts:261-308: at every moment at which no change of the    *)
(* document is open the screens show the document of the store, whatever   *)
(* was asked, overtaken, dropped or failed before.                         *)
THEOREM ShownIsAlwaysStored == Spec => []ShownIsStored
<1>1. AllSound => ShownIsStored
  BY DEF AllSound, DeskSound, ShownIsStored
<1> QED BY <1>1, AlwaysSound, PTL

(* documentActions.ts:426, 1362; poseReplayActions.ts:480: a fold or a     *)
(* move of a step is carried out on the document it was made for, or after *)
(* the adoption of a proposal, for any inputs in any order.                *)
THEOREM AlwaysRunsOnWhatItWasMadeFor == Spec => []RunsOnWhatItWasMadeFor
<1>1. AllSound => RunsOnWhatItWasMadeFor
  <2> SUFFICES ASSUME AllSound, queue.running # Null, queue.running.task.kind \in {"fold", "move"}
               PROVE  queue.running.task.base = store.ver \/ store.adopted > queue.running.task.base
    BY DEF RunsOnWhatItWasMadeFor
  <2>1. queue.running \in Open(queue) /\ FoldsFit(Open(queue), store) /\ MovesFit(Open(queue), store)
    BY DEF Open, AllSound, DeskSound, LineSound
  <2>2. CASE queue.running.task.kind = "fold"
    BY <2>1, <2>2 DEF FoldsFit, Fits
  <2>3. CASE queue.running.task.kind = "move"
    BY <2>1, <2>3 DEF MovesFit
  <2> QED BY <2>2, <2>3
<1> QED BY <1>1, AlwaysSound, PTL

(* replayRuntime.ts:69, poseRuntime.ts:350: when everything has settled,   *)
(* the last picture was drawn and no two steps share an id, the picture is *)
(* the one that the document and the position call for, whatever became of *)
(* the pictures asked for before.                                          *)
THEOREM PictureIsAlwaysTheOneWanted == Spec => []PictureIsTheOneWanted
<1>1. AllSound => PictureIsTheOneWanted
  <2> SUFFICES ASSUME AllSound, Quiet, ui.seen = "drawn", StepIdsUnique
               PROVE  ui.frame = Wanted(ui)
    BY DEF PictureIsTheOneWanted
  <2>1. Open(queue) = {}
    BY DEF Quiet, Open
  <2>2. ~ Jump(ui)
    BY DEF AllSound, DeskSound, Sane, Quiet, Jump
  <2>3. Comes(Open(queue), ui, store)
    BY DEF AllSound, DeskSound
  <2> QED BY <2>1, <2>2, <2>3 DEF Comes, StepIdsUnique
<1> QED BY <1>1, AlwaysSound, PTL
=============================================================================
