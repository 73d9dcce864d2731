-------------------------- MODULE IngestBatchProofs --------------------------
(***************************************************************************)
(* Theorems about IngestBatch, for queues and batches of any size and any  *)
(* number of failing calls, restarts and redelivered frames; last, about   *)
(* the types of both ends of the intake, which MCIntake puts side by side. *)
(***************************************************************************)
EXTENDS MCIntake, EdgeProofs

Steps == {"idle", "frames", "received", "persisted", "fail_received", "fail_dropped"}
FlushRecord ==
  [at : Steps,
   batch : Seq(Frames), left : Seq(Frames), rows : Seq(Frames), persisted : Nat]

\* The types that the counting rests on.
Types ==
  /\ queue \in Seq(Frames)
  /\ flush \in FlushRecord
  /\ counter \in [received : Nat, persisted : Nat, dropped : Nat]
  /\ droppedMem \in Nat /\ written \in Nat /\ hidden \in Nat

\* What the flusher has counted of its batch, against the frames it has handled and the
\* rows it has queued or committed.
Books ==
  /\ flush.persisted + Len(flush.left) <= Len(flush.batch)
  /\ counter.persisted <= counter.received
  /\ counter.persisted <= written + hidden
  /\ flush.at = "frames" =>
       counter.persisted + flush.persisted <= written + Len(flush.rows) + hidden
  /\ flush.at \in {"received", "persisted"} =>
       counter.persisted + flush.persisted <= written + hidden
  /\ flush.at = "persisted" =>
       counter.persisted + flush.persisted <= counter.received

\* Where the rows of the batch under way are: of its frames, until the transaction ends;
\* then committed or lost with it.
Rows ==
  /\ flush.at \in {"idle", "frames"} => Elements(flush.rows) \subseteq Elements(flush.batch)
  /\ flush.at = "idle" => flush = Idle
  /\ Elements(flush.left) \subseteq Elements(flush.batch)
  /\ flush.at \notin {"idle", "frames"} => Elements(flush.rows) \subseteq table \cup undone

IngestInv == Types /\ Books /\ Rows /\ LiveIsStored

-----------------------------------------------------------------------------
(* Elements of sequences *)

\* Appending adds one element.
LEMMA ElementsOfAppend ==
  ASSUME NEW S, NEW s \in Seq(S), NEW x \in S
  PROVE  Elements(Append(s, x)) = Elements(s) \cup {x}
<1>1. /\ DOMAIN Append(s, x) = 1..(Len(s) + 1) /\ DOMAIN s = 1..Len(s) /\ Len(s) \in Nat
      /\ \A i \in 1..Len(s) : Append(s, x)[i] = s[i]
      /\ Append(s, x)[Len(s) + 1] = x
  OBVIOUS
<1>2. Elements(Append(s, x)) \subseteq Elements(s) \cup {x}
  BY <1>1 DEF Elements
<1>3. Elements(s) \cup {x} \subseteq Elements(Append(s, x))
  <2>1. \A i \in 1..Len(s) : i \in 1..(Len(s) + 1)
    BY <1>1
  <2>2. Len(s) + 1 \in 1..(Len(s) + 1)
    BY <1>1
  <2> QED
    BY <1>1, <2>1, <2>2 DEF Elements
<1> QED
  BY <1>2, <1>3

\* The head and the tail of a sequence are made of its elements.
LEMMA ElementsOfTail ==
  ASSUME NEW S, NEW s \in Seq(S), s # << >>
  PROVE  /\ Head(s) \in Elements(s) /\ Elements(Tail(s)) \subseteq Elements(s)
         /\ Tail(s) \in Seq(S) /\ Len(Tail(s)) = Len(s) - 1 /\ Len(s) > 0
<1>1. /\ Len(s) \in Nat \ {0} /\ DOMAIN s = 1..Len(s)
      /\ Tail(s) \in Seq(S) /\ Len(Tail(s)) = Len(s) - 1
      /\ DOMAIN Tail(s) = 1..(Len(s) - 1)
      /\ \A i \in 1..(Len(s) - 1) : Tail(s)[i] = s[i + 1]
      /\ Head(s) = s[1]
  OBVIOUS
<1>2. Head(s) \in Elements(s)
  BY <1>1 DEF Elements
<1>3. \A i \in 1..(Len(s) - 1) : i + 1 \in 1..Len(s)
  BY <1>1
<1>4. Elements(Tail(s)) \subseteq Elements(s)
  BY <1>1, <1>3 DEF Elements
<1> QED
  BY <1>1, <1>2, <1>4

\* The empty sequence has no element.
LEMMA NoElements == Elements(<< >>) = {}
BY DEF Elements

(* The flusher's record *)

\* The fields of the flusher's record and the counters, one by one.
LEMMA FlushFields ==
  ASSUME Types
  PROVE  /\ flush.at \in Steps
         /\ flush.batch \in Seq(Frames) /\ flush.left \in Seq(Frames)
         /\ flush.rows \in Seq(Frames) /\ flush.persisted \in Nat
         /\ Len(flush.batch) \in Nat /\ Len(flush.left) \in Nat /\ Len(flush.rows) \in Nat
         /\ counter.received \in Nat /\ counter.persisted \in Nat /\ counter.dropped \in Nat
         /\ written \in Nat /\ hidden \in Nat /\ droppedMem \in Nat
<1>1. /\ flush.at \in Steps
      /\ flush.batch \in Seq(Frames) /\ flush.left \in Seq(Frames)
      /\ flush.rows \in Seq(Frames) /\ flush.persisted \in Nat
  BY DEF Types, FlushRecord
<1>2. /\ counter.received \in Nat /\ counter.persisted \in Nat /\ counter.dropped \in Nat
      /\ written \in Nat /\ hidden \in Nat /\ droppedMem \in Nat
  BY DEF Types
<1> QED
  BY <1>1, <1>2

\* A step that only moves the flusher on.
LEMMA FlushMoves ==
  ASSUME Types, NEW to \in Steps, flush' = [flush EXCEPT !.at = to]
  PROVE  /\ flush' \in FlushRecord
         /\ flush'.at = to /\ flush'.batch = flush.batch /\ flush'.left = flush.left
         /\ flush'.rows = flush.rows /\ flush'.persisted = flush.persisted
BY DEF Types, FlushRecord

\* A frame that is counted is a row of the batch or a hidden frame.
LEMMA CountedFrame ==
  ASSUME NEW unseen \in Nat,
         NEW p \in Nat, NEW n \in Nat, NEW rows \in Nat, NEW all \in Nat,
         p + n <= all + rows + unseen,
         NEW c \in 0 .. 1, NEW r \in Nat, NEW h \in Nat, c <= r + h
  PROVE  p + (n + c) <= all + (rows + r) + (unseen + h)
OBVIOUS

\* A frame that is handled leaves the batch, counted at most once.
LEMMA HandledFrame ==
  ASSUME NEW n \in Nat, NEW left \in Nat, NEW size \in Nat, n + left <= size,
         NEW c \in 0 .. 1
  PROVE  (n + c) + (left - 1) <= size
OBVIOUS

\* The hidden frames only grow.
LEMMA HiddenFrame ==
  ASSUME NEW p \in Nat, NEW all \in Nat, NEW unseen \in Nat, p <= all + unseen,
         NEW h \in Nat
  PROVE  p <= all + (unseen + h)
OBVIOUS

\* Between two batches the flusher holds nothing.
LEMMA IdleFields ==
  /\ Idle \in FlushRecord
  /\ Idle.at = "idle" /\ Idle.batch = << >> /\ Idle.left = << >>
  /\ Idle.rows = << >> /\ Idle.persisted = 0
BY DEF Idle, FlushRecord, Steps

-----------------------------------------------------------------------------
\* The types, the books and the place of every row are inductive.
THEOREM IngestInvHolds == Init /\ [][Next]_vars => []IngestInv
<1>1. Init => IngestInv
  <2> SUFFICES ASSUME Init PROVE IngestInv
    OBVIOUS
  <2>1. /\ flush = Idle /\ queue = << >>
        /\ counter = [received |-> 0, persisted |-> 0, dropped |-> 0]
        /\ droppedMem = 0 /\ written = 0 /\ hidden = 0 /\ live = {}
    BY DEF Init
  <2>2. Types
    BY <2>1, IdleFields DEF Types
  <2>3. Books
    BY <2>1, IdleFields DEF Books
  <2>4. Rows /\ LiveIsStored
    BY <2>1, IdleFields, NoElements DEF Rows, LiveIsStored
  <2> QED
    BY <2>2, <2>3, <2>4 DEF IngestInv
<1>2. IngestInv /\ [Next]_vars => IngestInv'
  <2> SUFFICES ASSUME IngestInv, [Next]_vars PROVE IngestInv'
    OBVIOUS
  <2> USE DEF IngestInv
  <2>1. ASSUME NEW f \in Frames, Enqueue(f) PROVE IngestInv'
    <3>1. UNCHANGED <<flush, table, counter, live, written, hidden, undone>>
      BY <2>1 DEF Enqueue
    <3>2. queue' = queue \/ queue' = Append(queue, f)
      BY <2>1 DEF Enqueue
    <3>3. droppedMem' = droppedMem \/ droppedMem' = droppedMem + 1
      BY <2>1 DEF Enqueue, LostWith
    <3>4. queue \in Seq(Frames) /\ Append(queue, f) \in Seq(Frames)
      BY DEF Types
    <3>5. droppedMem \in Nat /\ droppedMem + 1 \in Nat
      BY FlushFields
    <3>6. queue' \in Seq(Frames)
      BY <3>2, <3>4
    <3>7. droppedMem' \in Nat
      BY <3>3, <3>5
    <3>8. Types'
      BY <3>1, <3>6, <3>7 DEF Types
    <3> QED
      BY <3>1, <3>8 DEF Books, Rows, LiveIsStored
  <2>2. ASSUME NEW f \in Posted, PostFrame(f) PROVE IngestInv'
    <3>1. /\ UNCHANGED <<queue, flush, counter, droppedMem, written, hidden, undone>>
          /\ table' = table \cup {f}
          /\ live' = live \/ live' = live \cup {f}
      BY <2>2 DEF PostFrame, audit
    <3> QED
      BY <3>1 DEF Types, Books, Rows, LiveIsStored
  <2>3. CASE RecordOverflow
    <3>1. /\ UNCHANGED <<queue, flush, table, droppedMem, live, written, hidden, undone>>
          /\ counter' = counter \/ counter' = [counter EXCEPT !.dropped = @ + droppedMem]
      BY <2>3 DEF RecordOverflow, Count
    <3>2. /\ Types'
          /\ counter'.received = counter.received /\ counter'.persisted = counter.persisted
      BY <3>1 DEF Types
    <3> QED
      BY <3>1, <3>2 DEF Books, Rows, LiveIsStored
  <2>4. CASE Drain
    <3> DEFINE n == BatchLen(queue)
               batch == SubSeq(queue, 1, n)
    <3>1. n \in Nat /\ n <= Len(queue)
      BY <2>4, IngestAssumption DEF Types, BatchLen, IngestAssumption
    <3> HIDE DEF n
    <3>2. batch \in Seq(Frames)
      BY <3>1 DEF Types
    <3>3. SubSeq(queue, n + 1, Len(queue)) \in Seq(Frames)
      BY <3>1 DEF Types
    <3> HIDE DEF batch
    <3>4. /\ flush' = [Idle EXCEPT !.at = "frames", !.batch = batch, !.left = batch]
          /\ queue' = SubSeq(queue, n + 1, Len(queue))
          /\ flush.at = "idle"
          /\ UNCHANGED <<table, counter, droppedMem, live, written, hidden, undone>>
      BY <2>4 DEF Drain, batch, n, audit
    <3>5. /\ flush' \in FlushRecord
          /\ flush'.at = "frames" /\ flush'.batch = batch /\ flush'.left = batch
          /\ flush'.rows = << >> /\ flush'.persisted = 0
      BY <3>2, <3>4, IdleFields DEF FlushRecord, Steps, Idle
    <3>6. Types'
      BY <3>3, <3>4, <3>5 DEF Types
    <3>7. Len(batch) \in Nat /\ Len(<< >>) = 0
      BY <3>2
    <3>8. Books'
      BY <3>4, <3>5, <3>7, FlushFields DEF Books
    <3>9. Rows' /\ LiveIsStored'
      BY <3>4, <3>5, IdleFields, NoElements DEF Rows, LiveIsStored
    <3> QED
      BY <3>6, <3>8, <3>9
  <2>5. ASSUME NEW o \in Outcomes, HandleFrame(o) PROVE IngestInv'
    <3> DEFINE f == Head(flush.left)
    <3>1. /\ flush.at = "frames" /\ flush.left # << >>
          /\ flush.left \in Seq(Frames) /\ flush.rows \in Seq(Frames)
      BY <2>5, FlushFields DEF HandleFrame
    <3>2. /\ f \in Elements(flush.left) /\ Elements(Tail(flush.left)) \subseteq Elements(flush.left)
          /\ Tail(flush.left) \in Seq(Frames) /\ Len(Tail(flush.left)) = Len(flush.left) - 1
      BY <3>1, ElementsOfTail
    <3>3. f \in Frames
      BY <3>1
    <3>4. /\ flush' = [flush EXCEPT !.left = Tail(flush.left), !.rows = RowsWith(f, o),
                                    !.persisted = flush.persisted + (IF o.counted THEN 1 ELSE 0)]
          /\ live' = IF o.shown THEN live \cup {f} ELSE live
          /\ hidden' = hidden + (IF o.counted /\ ~o.row THEN 1 ELSE 0)
          /\ UNCHANGED <<queue, table, counter, droppedMem, written, undone>>
      BY <2>5 DEF HandleFrame, Hides
    <3> HIDE DEF f
    <3>5. /\ o.row = TRUE \/ o.row = FALSE
          /\ o.counted = TRUE \/ o.counted = FALSE
          /\ o.shown => o.row
      BY DEF Outcomes, Outcome, Stored, Unknown, Swallowed, Raised, Unpublished, Unreleased
    <3>6. /\ RowsWith(f, o) \in Seq(Frames)
          /\ Len(RowsWith(f, o)) = Len(flush.rows) + (IF o.row THEN 1 ELSE 0)
          /\ Elements(RowsWith(f, o)) = Elements(flush.rows) \cup (IF o.row THEN {f} ELSE {})
      <4>1. CASE o.row
        <5>1. RowsWith(f, o) = Append(flush.rows, f)
          BY <4>1 DEF RowsWith
        <5>2. Append(flush.rows, f) \in Seq(Frames) /\ Len(Append(flush.rows, f)) = Len(flush.rows) + 1
          BY <3>1, <3>3
        <5>3. Elements(Append(flush.rows, f)) = Elements(flush.rows) \cup {f}
          BY <3>1, <3>3, ElementsOfAppend
        <5> QED
          BY <4>1, <5>1, <5>2, <5>3
      <4>2. CASE ~o.row
        <5>1. RowsWith(f, o) = flush.rows
          BY <4>2 DEF RowsWith
        <5>2. Len(flush.rows) + 0 = Len(flush.rows)
          BY <3>1
        <5> QED
          BY <3>1, <4>2, <5>1, <5>2
      <4> QED
        BY <4>1, <4>2
    <3>7. flush.persisted + (IF o.counted THEN 1 ELSE 0) \in Nat
      BY FlushFields
    <3>8. /\ flush' \in FlushRecord
          /\ flush'.at = "frames" /\ flush'.batch = flush.batch
          /\ flush'.left = Tail(flush.left) /\ flush'.rows = RowsWith(f, o)
          /\ flush'.persisted = flush.persisted + (IF o.counted THEN 1 ELSE 0)
      BY <3>1, <3>2, <3>4, <3>6, <3>7 DEF Types, FlushRecord
    <3>9. Types'
      BY <3>4, <3>8 DEF Types
    <3>10. Books'
      <4> DEFINE c == IF o.counted THEN 1 ELSE 0
                 r == IF o.row THEN 1 ELSE 0
                 h == IF o.counted /\ ~o.row THEN 1 ELSE 0
      <4>1. c \in 0 .. 1 /\ r \in Nat /\ h \in Nat /\ c <= r + h
        BY <3>5
      <4>2. /\ Len(flush'.left) = Len(flush.left) - 1
            /\ Len(flush'.rows) = Len(flush.rows) + r
            /\ flush'.persisted = flush.persisted + c
            /\ hidden' = hidden + h
        BY <3>2, <3>4, <3>6, <3>8
      <4> HIDE DEF c, r, h
      <4>3. /\ flush'.persisted + Len(flush'.left) <= Len(flush.batch)
            /\ counter.persisted + flush'.persisted <= written + Len(flush'.rows) + hidden'
            /\ counter.persisted <= written + hidden'
        <5>1. /\ flush.persisted + Len(flush.left) <= Len(flush.batch)
              /\ counter.persisted <= written + hidden
              /\ counter.persisted + flush.persisted <= written + Len(flush.rows) + hidden
          BY <3>1 DEF Books
        <5>2. (flush.persisted + c) + (Len(flush.left) - 1) <= Len(flush.batch)
          BY <4>1, <5>1, FlushFields, HandledFrame
        <5>3. counter.persisted + (flush.persisted + c)
                <= written + (Len(flush.rows) + r) + (hidden + h)
          BY <4>1, <5>1, FlushFields, CountedFrame
        <5>4. counter.persisted <= written + (hidden + h)
          BY <4>1, <5>1, FlushFields, HiddenFrame
        <5> QED
          BY <4>2, <5>2, <5>3, <5>4
      <4> QED
        BY <3>4, <3>8, <4>3 DEF Books
    <3>11. Rows'
      BY <3>1, <3>2, <3>6, <3>8 DEF Rows
    <3>12. LiveIsStored'
      BY <3>4, <3>5, <3>6, <3>8 DEF LiveIsStored
    <3> QED
      BY <3>9, <3>10, <3>11, <3>12
  <2>6. CASE CommitBatch
    <3>1. /\ flush' = [flush EXCEPT !.at = "received"] /\ flush.at = "frames"
          /\ table' = table \cup Elements(flush.rows)
          /\ written' = written + Len(flush.rows)
          /\ UNCHANGED <<queue, counter, droppedMem, live, hidden, undone>>
      BY <2>6 DEF CommitBatch, CommitTo
    <3>2. /\ flush' \in FlushRecord
          /\ flush'.at = "received" /\ flush'.batch = flush.batch /\ flush'.left = flush.left
          /\ flush'.rows = flush.rows /\ flush'.persisted = flush.persisted
      BY <3>1, FlushMoves DEF Steps
    <3>3. Types'
      BY <3>1, <3>2, FlushFields DEF Types
    <3>4. Books'
      BY <3>1, <3>2, FlushFields DEF Books
    <3>5. Rows' /\ LiveIsStored'
      BY <3>1, <3>2 DEF Rows, LiveIsStored
    <3> QED
      BY <3>3, <3>4, <3>5
  <2>7. CASE TransactionFails
    <3>1. /\ flush' = [flush EXCEPT !.at = "fail_received"] /\ flush.at = "frames"
          /\ droppedMem' = droppedMem + Len(flush.batch)
          /\ undone' = undone \cup Elements(flush.batch)
          /\ \/ UNCHANGED <<table, written>>
             \/ /\ table' = table \cup Elements(flush.rows)
                /\ written' = written + Len(flush.rows)
          /\ UNCHANGED <<queue, counter, live, hidden>>
      BY <2>7 DEF TransactionFails, BatchFails, LostWith
    <3>2. /\ flush' \in FlushRecord
          /\ flush'.at = "fail_received" /\ flush'.batch = flush.batch
          /\ flush'.left = flush.left
          /\ flush'.rows = flush.rows /\ flush'.persisted = flush.persisted
      BY <3>1, FlushMoves DEF Steps
    <3>3. written' \in Nat /\ written' >= written /\ droppedMem' \in Nat
      BY <3>1, FlushFields
    <3>4. Types'
      BY <3>1, <3>2, <3>3 DEF Types
    <3>5. Books'
      BY <3>1, <3>2, <3>3, FlushFields DEF Books
    <3>6. Rows' /\ LiveIsStored'
      BY <3>1, <3>2 DEF Rows, LiveIsStored
    <3> QED
      BY <3>4, <3>5, <3>6
  <2>8. CASE CountReceived \/ FailReceived
    <3>1. PICK to \in {"persisted", "fail_dropped"} :
            /\ flush' = [flush EXCEPT !.at = to]
            /\ to = "persisted" => flush.at = "received"
            /\ flush.at \in {"received", "fail_received"}
            /\ counter' = [counter EXCEPT !.received = @ + Len(flush.batch)]
            /\ UNCHANGED <<queue, table, droppedMem, live, written, hidden, undone>>
      BY <2>8 DEF CountReceived, FailReceived, Count, audit
    <3>2. /\ flush' \in FlushRecord
          /\ flush'.at = to /\ flush'.batch = flush.batch /\ flush'.left = flush.left
          /\ flush'.rows = flush.rows /\ flush'.persisted = flush.persisted
      BY <3>1, FlushMoves DEF Steps
    <3>3. /\ counter' \in [received : Nat, persisted : Nat, dropped : Nat]
          /\ counter'.received = counter.received + Len(flush.batch)
          /\ counter'.persisted = counter.persisted
      <4>1. counter \in [received : Nat, persisted : Nat, dropped : Nat]
        BY DEF Types
      <4>2. counter.received + Len(flush.batch) \in Nat
        BY FlushFields
      <4> QED
        BY <3>1, <4>1, <4>2
    <3>4. Types'
      BY <3>1, <3>2, <3>3 DEF Types
    <3>5. Books'
      <4>1. to = "persisted" =>
              /\ counter.persisted + flush.persisted <= written + hidden
              /\ counter.persisted + flush.persisted <= counter.received + Len(flush.batch)
        <5>1. to = "persisted" => counter.persisted + flush.persisted <= written + hidden
          BY <3>1 DEF Books
        <5>2. counter.persisted + flush.persisted <= counter.received + Len(flush.batch)
          <6>1. /\ flush.persisted + Len(flush.left) <= Len(flush.batch)
                /\ counter.persisted <= counter.received
            BY DEF Books
          <6>2. flush.persisted <= Len(flush.batch)
            BY <6>1, FlushFields
          <6> QED
            BY <6>1, <6>2, FlushFields
        <5> QED
          BY <5>1, <5>2
      <4>2. counter.persisted <= counter.received + Len(flush.batch)
        BY FlushFields DEF Books
      <4> QED
        BY <3>1, <3>2, <3>3, <4>1, <4>2 DEF Books
    <3>6. Rows' /\ LiveIsStored'
      BY <3>1, <3>2 DEF Rows, LiveIsStored
    <3> QED
      BY <3>4, <3>5, <3>6
  <2>9. CASE CountPersisted \/ FailDropped \/ FailMuted
    <3>1. /\ flush' = Idle
          /\ flush.at \in {"persisted", "fail_received", "fail_dropped"}
          /\ \/ /\ flush.at = "persisted"
                /\ counter' = [counter EXCEPT !.persisted = @ + flush.persisted]
             \/ counter' = [counter EXCEPT !.dropped = @ + Len(flush.batch)]
             \/ counter' = counter
          /\ UNCHANGED <<queue, table, droppedMem, live, written, hidden, undone>>
      BY <2>9 DEF CountPersisted, FailDropped, FailMuted, Count, audit
    <3>2. /\ counter' \in [received : Nat, persisted : Nat, dropped : Nat]
          /\ counter'.received = counter.received
          /\ \/ flush.at = "persisted" /\ counter'.persisted = counter.persisted + flush.persisted
             \/ counter'.persisted = counter.persisted
      <4>1. counter \in [received : Nat, persisted : Nat, dropped : Nat]
        BY DEF Types
      <4>2. /\ counter.persisted + flush.persisted \in Nat
            /\ counter.dropped + Len(flush.batch) \in Nat
        BY SMTT(30), FlushFields
      <4> QED
        BY <3>1, <4>1, <4>2
    <3>3. Types'
      BY <3>1, <3>2, IdleFields DEF Types
    <3>4. Len(<< >>) = 0
      OBVIOUS
    <3>5. Books'
      BY <3>1, <3>2, <3>4, FlushFields, IdleFields DEF Books
    <3>6. Rows' /\ LiveIsStored'
      BY <3>1, NoElements, IdleFields DEF Rows, LiveIsStored
    <3> QED
      BY <3>3, <3>5, <3>6
  <2>10. CASE CountFails
    <3>1. /\ flush' = [flush EXCEPT !.at = "fail_received"]
          /\ flush.at \in {"received", "persisted"}
          /\ droppedMem' = droppedMem + Len(flush.batch)
          /\ \/ counter' = counter
             \/ counter' = [counter EXCEPT !.received = @ + Len(flush.batch)]
             \/ /\ flush.at = "persisted"
                /\ counter' = [counter EXCEPT !.persisted = @ + flush.persisted]
          /\ UNCHANGED <<queue, table, live, written, hidden, undone>>
      BY <2>10 DEF CountFails, BatchFails, LostWith, Count, audit
    <3>2. /\ flush' \in FlushRecord
          /\ flush'.at = "fail_received" /\ flush'.batch = flush.batch
          /\ flush'.left = flush.left
          /\ flush'.rows = flush.rows /\ flush'.persisted = flush.persisted
      BY <3>1, FlushMoves DEF Steps
    <3>3. /\ counter' \in [received : Nat, persisted : Nat, dropped : Nat]
          /\ counter'.received >= counter.received
          /\ \/ /\ flush.at = "persisted" /\ counter'.received = counter.received
                /\ counter'.persisted = counter.persisted + flush.persisted
             \/ counter'.persisted = counter.persisted
      <4>1. counter \in [received : Nat, persisted : Nat, dropped : Nat]
        BY DEF Types
      <4>2. /\ counter.received + Len(flush.batch) \in Nat
            /\ counter.received + Len(flush.batch) >= counter.received
            /\ counter.received >= counter.received
            /\ counter.persisted + flush.persisted \in Nat
        <5>1. /\ counter.received \in Nat /\ counter.persisted \in Nat
              /\ flush.persisted \in Nat /\ Len(flush.batch) \in Nat
          BY FlushFields
        <5> QED
          BY <5>1
      <4>3. CASE counter' = counter
        BY <4>1, <4>2, <4>3
      <4>4. CASE counter' = [counter EXCEPT !.received = @ + Len(flush.batch)]
        BY <4>1, <4>2, <4>4
      <4>5. CASE /\ flush.at = "persisted"
                 /\ counter' = [counter EXCEPT !.persisted = @ + flush.persisted]
        BY <4>1, <4>2, <4>5
      <4> QED
        BY <3>1, <4>3, <4>4, <4>5
    <3>4. droppedMem' \in Nat /\ counter'.received \in Nat
      BY SMTT(30), <3>1, <3>3, FlushFields
    <3>5. Types'
      BY <3>1, <3>2, <3>3, <3>4 DEF Types
    <3>6. Books'
      BY <3>1, <3>2, <3>3, <3>4, FlushFields DEF Books
    <3>7. Rows' /\ LiveIsStored'
      BY <3>1, <3>2 DEF Rows, LiveIsStored
    <3> QED
      BY <3>5, <3>6, <3>7
  <2>11. CASE Restart
    <3>1. /\ flush' = Idle /\ queue' = << >> /\ droppedMem' = 0
          /\ undone' = undone \cup Elements(flush.batch)
          /\ UNCHANGED <<table, counter, live, written, hidden>>
      BY <2>11 DEF Restart
    <3>2. Types'
      BY <3>1, IdleFields DEF Types
    <3>3. Len(<< >>) = 0
      OBVIOUS
    <3>4. Books'
      BY <3>1, <3>3, FlushFields, IdleFields DEF Books
    <3>5. Elements(flush.rows) \subseteq Elements(flush.batch) \cup table \cup undone
      BY DEF Rows
    <3>6. Rows' /\ LiveIsStored'
      BY <3>1, <3>5, NoElements, IdleFields DEF Rows, LiveIsStored
    <3> QED
      BY <3>2, <3>4, <3>6
  <2>12. CASE UNCHANGED vars
    BY <2>12 DEF vars, audit, Types, Books, Rows, LiveIsStored
  <2> QED
    BY <2>1, <2>2, <2>3, <2>4, <2>5, <2>6, <2>7, <2>8, <2>9, <2>10, <2>11, <2>12
    DEF Next, FlusherStep
<1> QED
  BY <1>1, <1>2, PTL

\* received - persisted is never negative and no frame is counted persisted without its row,
\* whichever call to Redis or PostgreSQL fails (main.py:521-522, :534).
THEOREM CountersAreHonestHolds == Spec => []CountersAreHonest
<1>1. IngestInv => CountersAreHonest
  BY FlushFields DEF IngestInv, Books, CountersAreHonest, UnaccountedNotNegative, Unaccounted,
                     PersistedIsWritten
<1> QED
  BY <1>1, IngestInvHolds, PTL DEF Spec

\* A frame shown live is stored, about to be, or its transaction was lost: rolling back a
\* savepoint never takes a shown frame's row away (main.py:514).
THEOREM LiveIsStoredHolds == Spec => []LiveIsStored
<1>1. IngestInv => LiveIsStored
  BY DEF IngestInv
<1> QED
  BY <1>1, IngestInvHolds, PTL DEF Spec

-----------------------------------------------------------------------------
(* Counting the frames that are lost *)

\* A sequence has no more elements than places.
LEMMA ElementsBound ==
  ASSUME NEW S, NEW s \in Seq(S)
  PROVE  IsFiniteSet(Elements(s)) /\ Cardinality(Elements(s)) \in Nat
         /\ Cardinality(Elements(s)) <= Len(s)
<1>1. /\ Len(s) \in Nat /\ DOMAIN s = 1 .. Len(s)
      /\ s \in [1 .. Len(s) -> Elements(s)]
  BY DEF Elements
<1>2. s \in Surjection(1 .. Len(s), Elements(s))
  BY <1>1 DEF Surjection, Elements
<1>3. IsFiniteSet(1 .. Len(s)) /\ Cardinality(1 .. Len(s)) = Len(s)
  BY <1>1, FS_Interval
<1>4. IsFiniteSet(Elements(s)) /\ Cardinality(Elements(s)) <= Cardinality(1 .. Len(s))
  BY <1>2, <1>3, FS_Surjection
<1> QED
  BY <1>3, <1>4, FS_CardinalityType

\* A set that is within another and n more elements.
LEMMA AtMostMore ==
  ASSUME NEW A, IsFiniteSet(A), NEW E, IsFiniteSet(E), NEW n \in Nat, Cardinality(E) <= n,
         NEW B, B \subseteq A \cup E
  PROVE  /\ IsFiniteSet(B) /\ Cardinality(A) \in Nat /\ Cardinality(B) \in Nat
         /\ Cardinality(B) <= Cardinality(A) + n
<1>1. /\ IsFiniteSet(A \cup E)
      /\ Cardinality(A \cup E) = Cardinality(A) + Cardinality(E) - Cardinality(A \cap E)
  BY FS_Union
<1>2. /\ Cardinality(A) \in Nat /\ Cardinality(E) \in Nat /\ Cardinality(A \cup E) \in Nat
  BY <1>1, FS_CardinalityType
<1>3. IsFiniteSet(A \cap E) /\ Cardinality(A \cap E) \in Nat
  BY FS_Intersection, FS_CardinalityType
<1>4. IsFiniteSet(B) /\ Cardinality(B) <= Cardinality(A \cup E) /\ Cardinality(B) \in Nat
  BY <1>1, FS_Subset, FS_CardinalityType
<1> QED
  BY <1>1, <1>2, <1>3, <1>4

\* The frames that were handed over and are neither stored nor queued nor in S, and how
\* many they are.
Missing(handed, stored, queued, S) == handed \ (stored \cup Elements(queued) \cup S)
MissingCount(handed, stored, queued, S) == Cardinality(Missing(handed, stored, queued, S))
LostCount(S) == MissingCount(arrived, table, queue, S)
\* What the counters own up to.
Owned == droppedMem + Unaccounted + hidden + forgotten

\* While frames are handled, the whole batch may still be lost with its transaction, and
\* a handled frame without a row will show in received less persisted or is hidden.
LossInv ==
  /\ IsFiniteSet(arrived) /\ forgotten \in Nat
  /\ flush.at = "frames" =>
       /\ LostCount(Elements(flush.batch)) <= Owned
       /\ LostCount(Elements(flush.rows) \cup Elements(flush.left))
            + Len(flush.left) + flush.persisted <= Owned + Len(flush.batch)
  /\ flush.at = "received" => LostCount({}) + flush.persisted <= Owned + Len(flush.batch)
  /\ flush.at = "persisted" => LostCount({}) + flush.persisted <= Owned
  /\ flush.at \in {"idle", "fail_received", "fail_dropped"} => LostCount({}) <= Owned

\* Once a frame was dropped, the counter shows it, or will: the first drop is a
\* milestone, and a failing batch, which is not empty, is about to be counted.
DropInv ==
  /\ recorder => droppedMem > 0
  /\ flush.at # "idle" => Len(flush.batch) > 0
  /\ droppedMem > 0 =>
       \/ counter.dropped > 0 \/ muted \/ recorder
       \/ flush.at \in {"fail_received", "fail_dropped"}

\* The missing frames grow by at most those of a set.
LEMMA MissingMore ==
  ASSUME NEW a, IsFiniteSet(a), NEW t, NEW q, NEW S, NEW b, NEW u, NEW r, NEW T,
         NEW E, IsFiniteSet(E), NEW n \in Nat, Cardinality(E) <= n,
         Missing(b, u, r, T) \subseteq Missing(a, t, q, S) \cup E
  PROVE  /\ MissingCount(a, t, q, S) \in Nat /\ MissingCount(b, u, r, T) \in Nat
         /\ MissingCount(b, u, r, T) <= MissingCount(a, t, q, S) + n
<1>1. IsFiniteSet(Missing(a, t, q, S))
  BY FS_Difference DEF Missing
<1> QED
  BY <1>1, AtMostMore DEF MissingCount

\* The missing frames do not grow.
LEMMA MissingNoMore ==
  ASSUME NEW a, IsFiniteSet(a), NEW t, NEW q, NEW S, NEW b, NEW u, NEW r, NEW T,
         Missing(b, u, r, T) \subseteq Missing(a, t, q, S)
  PROVE  /\ MissingCount(a, t, q, S) \in Nat /\ MissingCount(b, u, r, T) \in Nat
         /\ MissingCount(b, u, r, T) <= MissingCount(a, t, q, S)
<1>1. IsFiniteSet({}) /\ Cardinality({}) <= 0
  BY FS_EmptySet
<1>2. Missing(b, u, r, T) \subseteq Missing(a, t, q, S) \cup {}
  OBVIOUS
<1>3. /\ MissingCount(a, t, q, S) \in Nat /\ MissingCount(b, u, r, T) \in Nat
      /\ MissingCount(b, u, r, T) <= MissingCount(a, t, q, S) + 0
  BY <1>1, <1>2, MissingMore
<1> QED
  BY <1>3

\* What is lost and what is owned up to grow together.
LEMMA OwnedMore ==
  ASSUME NEW d \in Nat, NEW o \in Int, NEW x \in Nat, NEW y \in Nat, x <= y + d
  PROVE  /\ y <= o => x <= o + d
         /\ \A a, b \in Nat : y + a <= o + b => x + a <= (o + d) + b
         /\ \A a \in Nat : y + a <= o => x + a <= o + d
         /\ \A a, b, c \in Nat : y + a + b <= o + c => x + a + b <= (o + d) + c
OBVIOUS

\* What is owned up to is a number.
LEMMA OwnedType == Types /\ forgotten \in Nat => Owned \in Int
BY FlushFields DEF Owned, Unaccounted

\* A step that leaves the flusher alone and owns up to what it loses.
LEMMA LossQuiet ==
  ASSUME Types, LossInv, UNCHANGED flush,
         IsFiniteSet(arrived'), forgotten' \in Nat, NEW d \in Nat, Owned' = Owned + d,
         \A S : /\ MissingCount(arrived, table, queue, S) \in Nat
               /\ MissingCount(arrived', table', queue', S) \in Nat
               /\ MissingCount(arrived', table', queue', S)
                    <= MissingCount(arrived, table, queue, S) + d
  PROVE  LossInv'
<1> DEFINE M(S) == MissingCount(arrived, table, queue, S)
           N(S) == MissingCount(arrived', table', queue', S)
           n1 == N(Elements(flush.batch))
           n2 == N(Elements(flush.rows) \cup Elements(flush.left))
           n3 == N({})
           m1 == M(Elements(flush.batch))
           m2 == M(Elements(flush.rows) \cup Elements(flush.left))
           m3 == M({})
<1>1. /\ n1 \in Nat /\ m1 \in Nat /\ n1 <= m1 + d
      /\ n2 \in Nat /\ m2 \in Nat /\ n2 <= m2 + d
      /\ n3 \in Nat /\ m3 \in Nat /\ n3 <= m3 + d
  OBVIOUS
<1>2. /\ flush.at = "frames" =>
           m1 <= Owned /\ m2 + Len(flush.left) + flush.persisted <= Owned + Len(flush.batch)
      /\ flush.at = "received" => m3 + flush.persisted <= Owned + Len(flush.batch)
      /\ flush.at = "persisted" => m3 + flush.persisted <= Owned
      /\ flush.at \in {"idle", "fail_received", "fail_dropped"} => m3 <= Owned
  BY DEF LossInv, LostCount
<1>3. LossInv' <=>
        /\ flush.at = "frames" =>
             /\ n1 <= Owned'
             /\ n2 + Len(flush.left) + flush.persisted <= Owned' + Len(flush.batch)
        /\ flush.at = "received" => n3 + flush.persisted <= Owned' + Len(flush.batch)
        /\ flush.at = "persisted" => n3 + flush.persisted <= Owned'
        /\ flush.at \in {"idle", "fail_received", "fail_dropped"} => n3 <= Owned'
  BY DEF LossInv, LostCount
<1>4. /\ flush.persisted \in Nat /\ Len(flush.batch) \in Nat /\ Len(flush.left) \in Nat
      /\ Owned \in Int
  BY FlushFields, OwnedType DEF LossInv
<1> HIDE DEF n1, n2, n3, m1, m2, m3
<1>5. /\ m1 <= Owned => n1 <= Owned + d
      /\ m3 <= Owned => n3 <= Owned + d
      /\ m3 + flush.persisted <= Owned => n3 + flush.persisted <= Owned + d
      /\ m3 + flush.persisted <= Owned + Len(flush.batch)
           => n3 + flush.persisted <= (Owned + d) + Len(flush.batch)
      /\ m2 + Len(flush.left) + flush.persisted <= Owned + Len(flush.batch)
           => n2 + Len(flush.left) + flush.persisted <= (Owned + d) + Len(flush.batch)
  BY <1>1, <1>4, OwnedMore
<1> QED
  BY <1>2, <1>3, <1>5

\* A frame that comes in is queued or counted dropped, whatever the flusher does.
LEMMA LossEnqueue ==
  ASSUME Types, LossInv, NEW f \in Frames, Enqueue(f)
  PROVE  LossInv'
<1>1. /\ arrived' = arrived \cup {f}
      /\ UNCHANGED <<flush, table, counter, hidden, forgotten>>
  BY DEF Enqueue, HandOver
<1>2. IsFiniteSet(arrived) /\ IsFiniteSet(arrived') /\ forgotten' \in Nat /\ forgotten \in Nat
  BY <1>1, FS_AddElement DEF LossInv
<1>3. /\ Owned \in Int /\ droppedMem \in Nat /\ hidden \in Nat /\ Unaccounted \in Int
      /\ Unaccounted' = Unaccounted
  BY <1>1, <1>2, FlushFields, OwnedType DEF Unaccounted
<1>4. CASE queue' = Append(queue, f) /\ droppedMem' = droppedMem
  <2>1. Elements(queue') = Elements(queue) \cup {f}
    BY <1>4, ElementsOfAppend DEF Types
  <2>2. \A S : Missing(arrived', table', queue', S) \subseteq Missing(arrived, table, queue, S)
    BY <1>1, <2>1 DEF Missing
  <2>3. \A S : /\ MissingCount(arrived, table, queue, S) \in Nat
               /\ MissingCount(arrived', table', queue', S) \in Nat
               /\ MissingCount(arrived', table', queue', S)
                    <= MissingCount(arrived, table, queue, S) + 0
    BY <1>2, <2>2, MissingNoMore
  <2>4. Owned' = Owned + 0
    BY <1>1, <1>3, <1>4 DEF Owned
  <2> QED
    BY <1>1, <1>2, <2>3, <2>4, LossQuiet
<1>5. CASE queue' = queue /\ droppedMem' = droppedMem + 1
  <2>1. \A S : Missing(arrived', table', queue', S)
                 \subseteq Missing(arrived, table, queue, S) \cup {f}
    BY <1>1, <1>5 DEF Missing
  <2>2. IsFiniteSet({f}) /\ Cardinality({f}) <= 1
    <3>1. IsFiniteSet({f}) /\ Cardinality({f}) = 1
      BY FS_Singleton
    <3> QED
      BY <3>1
  <2>3. \A S : /\ MissingCount(arrived, table, queue, S) \in Nat
               /\ MissingCount(arrived', table', queue', S) \in Nat
               /\ MissingCount(arrived', table', queue', S)
                    <= MissingCount(arrived, table, queue, S) + 1
    BY <1>2, <2>1, <2>2, MissingMore
  <2>4. Owned' = Owned + 1
    BY <1>1, <1>2, <1>3, <1>5 DEF Owned
  <2> QED
    BY <1>1, <1>2, <2>3, <2>4, LossQuiet
<1> QED
  BY <1>4, <1>5 DEF Enqueue, LostWith

\* Recording drops, a frame over HTTP or no step at all: nothing more is lost.
LEMMA LossElsewhere ==
  ASSUME Types, LossInv,
         RecordOverflow \/ (\E f \in Posted : PostFrame(f)) \/ UNCHANGED vars
  PROVE  LossInv'
<1>1. /\ UNCHANGED <<flush, queue, arrived, droppedMem, hidden, forgotten>>
      /\ table \subseteq table'
      /\ counter' = counter \/ counter' = [counter EXCEPT !.dropped = @ + droppedMem]
  BY DEF RecordOverflow, PostFrame, Count, vars, audit
<1>2. Unaccounted' = Unaccounted
  BY <1>1 DEF Types, Unaccounted
<1>3. IsFiniteSet(arrived) /\ forgotten \in Nat /\ Owned \in Int
  BY OwnedType DEF LossInv
<1>4. \A S : Missing(arrived', table', queue', S) \subseteq Missing(arrived, table, queue, S)
  BY <1>1 DEF Missing
<1>5. \A S : /\ MissingCount(arrived, table, queue, S) \in Nat
             /\ MissingCount(arrived', table', queue', S) \in Nat
             /\ MissingCount(arrived', table', queue', S)
                  <= MissingCount(arrived, table, queue, S) + 0
  BY <1>3, <1>4, MissingNoMore
<1>6. Owned' = Owned + 0
  <2>1. Owned' = Owned
    BY <1>1, <1>2 DEF Owned
  <2> QED
    BY <1>3, <2>1
<1> QED
  BY <1>1, <1>3, <1>5, <1>6, LossQuiet

\* The sums the flusher's invariant talks about, and that the frames are finitely many.
LEMMA LossTypes ==
  ASSUME Types, LossInv
  PROVE  /\ IsFiniteSet(arrived) /\ forgotten \in Nat /\ Owned \in Int
         /\ \A S : LostCount(S) \in Nat
<1>1. IsFiniteSet(arrived) /\ forgotten \in Nat /\ Owned \in Int
  BY OwnedType DEF LossInv
<1>2. ASSUME NEW S PROVE LostCount(S) \in Nat
  BY <1>1, MissingNoMore DEF LostCount
<1> QED
  BY <1>1, <1>2

\* What is owned up to, part by part.
LEMMA OwnedParts ==
  ASSUME Types, forgotten \in Nat
  PROVE  /\ droppedMem \in Nat /\ hidden \in Nat /\ Unaccounted \in Int
         /\ Owned = droppedMem + Unaccounted + hidden + forgotten
BY FlushFields DEF Owned, Unaccounted

\* What a step adds to what is owned up to.
LEMMA OwnedGrows ==
  ASSUME Types, forgotten \in Nat, NEW a \in Int, NEW b \in Int, NEW c \in Int, NEW d \in Int,
         droppedMem' = droppedMem + a, Unaccounted' = Unaccounted + b,
         hidden' = hidden + c, forgotten' = forgotten + d
  PROVE  Owned' = Owned + a + b + c + d
<1>1. Owned' = droppedMem' + Unaccounted' + hidden' + forgotten'
  BY DEF Owned
<1>2. /\ droppedMem \in Nat /\ hidden \in Nat /\ Unaccounted \in Int
      /\ Owned = droppedMem + Unaccounted + hidden + forgotten
  BY OwnedParts
<1> QED
  BY <1>1, <1>2

\* Draining moves the head of the queue into the batch.
LEMMA LossDrain ==
  ASSUME Types, LossInv, Drain
  PROVE  LossInv'
<1> DEFINE n == BatchLen(queue)
           batch == SubSeq(queue, 1, n)
           rest == SubSeq(queue, n + 1, Len(queue))
<1>1. n \in Nat /\ n <= Len(queue) /\ queue \in Seq(Frames) /\ Len(queue) \in Nat
  BY IngestAssumption DEF Types, BatchLen, IngestAssumption, Drain
<1>2. /\ flush.at = "idle"
      /\ flush' = [Idle EXCEPT !.at = "frames", !.batch = batch, !.left = batch]
      /\ queue' = rest
      /\ UNCHANGED <<table, counter, droppedMem, arrived, hidden, forgotten>>
  BY DEF Drain, audit
<1> HIDE DEF n
<1>3. /\ batch \in Seq(Frames) /\ Len(batch) = n /\ DOMAIN batch = 1 .. n
      /\ \A i \in 1 .. n : batch[i] = queue[i]
  BY <1>1
<1>4. /\ DOMAIN rest = 1 .. (Len(queue) - n)
      /\ \A i \in 1 .. (Len(queue) - n) : rest[i] = queue[i + n]
  BY <1>1
<1>5. Elements(queue) \subseteq Elements(batch) \cup Elements(rest)
  <2> SUFFICES ASSUME NEW i \in 1 .. Len(queue)
               PROVE  queue[i] \in Elements(batch) \cup Elements(rest)
    BY <1>1 DEF Elements
  <2>1. CASE i <= n
    <3>1. i \in 1 .. n
      BY <1>1, <2>1
    <3> QED
      BY <1>3, <3>1 DEF Elements
  <2>2. CASE ~(i <= n)
    <3>1. (i - n) \in 1 .. (Len(queue) - n) /\ (i - n) + n = i
      BY <1>1, <2>2
    <3> QED
      BY <1>4, <3>1 DEF Elements
  <2> QED
    BY <2>1, <2>2
<1> HIDE DEF batch, rest
<1>6. /\ flush'.at = "frames" /\ flush'.batch = batch /\ flush'.left = batch
      /\ flush'.rows = << >> /\ flush'.persisted = 0
  BY <1>2, IdleFields DEF Idle
<1>7. /\ LostCount({}) \in Nat /\ LostCount({}) <= Owned /\ Owned \in Int
      /\ IsFiniteSet(arrived) /\ forgotten \in Nat
  BY <1>2, LossTypes DEF LossInv
<1>8. Owned' = Owned
  BY <1>2 DEF Owned, Unaccounted
<1>9. ASSUME NEW S, Elements(batch) \subseteq S
      PROVE  /\ MissingCount(arrived', table', queue', S) \in Nat
             /\ MissingCount(arrived', table', queue', S) <= LostCount({})
  <2>1. Missing(arrived', table', queue', S) \subseteq Missing(arrived, table, queue, {})
    BY <1>2, <1>5, <1>9 DEF Missing
  <2> QED
    BY <1>7, <2>1, MissingNoMore DEF LostCount
<1> DEFINE x == MissingCount(arrived', table', queue', Elements(batch))
           y == MissingCount(arrived', table', queue', Elements(<< >>) \cup Elements(batch))
<1>10. x \in Nat /\ y \in Nat /\ x <= LostCount({}) /\ y <= LostCount({})
  BY <1>9
<1>11. LossInv' <=> x <= Owned' /\ y + Len(batch) + 0 <= Owned' + Len(batch)
  BY <1>2, <1>6, <1>7 DEF LossInv, LostCount
<1> HIDE DEF x, y
<1> QED
  BY <1>1, <1>3, <1>7, <1>8, <1>10, <1>11

\* A frame that is handled leaves a row, is counted hidden or stays uncounted.
LEMMA LossHandle ==
  ASSUME Types, LossInv, NEW o \in Outcomes, HandleFrame(o)
  PROVE  LossInv'
<1> DEFINE f == Head(flush.left)
           c == IF o.counted THEN 1 ELSE 0
           r == IF o.row THEN 0 ELSE 1
           h == IF o.counted /\ ~o.row THEN 1 ELSE 0
           E == IF o.row THEN {} ELSE {f}
           S == Elements(flush.rows) \cup Elements(flush.left)
           T == Elements(RowsWith(f, o)) \cup Elements(Tail(flush.left))
<1>1. /\ flush.at = "frames" /\ flush.left # << >>
      /\ flush.left \in Seq(Frames) /\ flush.rows \in Seq(Frames)
      /\ flush.persisted \in Nat /\ Len(flush.batch) \in Nat /\ Len(flush.left) \in Nat
  BY FlushFields DEF HandleFrame
<1>2. /\ Tail(flush.left) \in Seq(Frames) /\ Len(Tail(flush.left)) = Len(flush.left) - 1
      /\ Len(flush.left) > 0 /\ f \in Frames
      /\ Elements(flush.left) \subseteq {f} \cup Elements(Tail(flush.left))
  <2>1. \A i \in DOMAIN flush.left : i = 1 \/ (i - 1 \in DOMAIN Tail(flush.left)
                                               /\ Tail(flush.left)[i - 1] = flush.left[i])
    BY <1>1
  <2>2. flush.left[1] = f
    OBVIOUS
  <2>3. Elements(flush.left) \subseteq {f} \cup Elements(Tail(flush.left))
    BY <2>1, <2>2 DEF Elements
  <2> QED
    BY <1>1, <2>3, ElementsOfTail
<1>3. /\ flush' = [flush EXCEPT !.left = Tail(flush.left), !.rows = RowsWith(f, o),
                                !.persisted = flush.persisted + c]
      /\ hidden' = hidden + h
      /\ UNCHANGED <<queue, table, counter, droppedMem, arrived, forgotten>>
  BY DEF HandleFrame, Hides
<1> HIDE DEF f
<1>4. /\ flush'.at = "frames" /\ flush'.batch = flush.batch
      /\ flush'.left = Tail(flush.left) /\ flush'.rows = RowsWith(f, o)
      /\ flush'.persisted = flush.persisted + c
  BY <1>1, <1>3 DEF Types, FlushRecord
<1>5. S \subseteq T \cup E
  <2>1. CASE o.row
    <3>1. Elements(RowsWith(f, o)) = Elements(flush.rows) \cup {f}
      BY <1>1, <1>2, <2>1, ElementsOfAppend DEF RowsWith
    <3> QED
      BY <1>2, <3>1
  <2>2. CASE ~o.row
    BY <1>2, <2>2 DEF RowsWith
  <2> QED
    BY <2>1, <2>2
<1>6. IsFiniteSet(E) /\ Cardinality(E) <= r
  <2>1. /\ IsFiniteSet({}) /\ Cardinality({}) = 0
        /\ IsFiniteSet({f}) /\ Cardinality({f}) = 1
    BY FS_EmptySet, FS_Singleton
  <2> QED
    BY <2>1
<1>7. r \in Nat /\ h \in Nat /\ c \in Nat /\ r + c - 1 <= h
  OBVIOUS
<1>8. /\ IsFiniteSet(arrived) /\ forgotten \in Nat /\ Owned \in Int
      /\ \A U : LostCount(U) \in Nat
  BY LossTypes
<1> DEFINE x == MissingCount(arrived', table', queue', Elements(flush.batch))
           y == MissingCount(arrived', table', queue', T)
<1>9. x \in Nat /\ x <= LostCount(Elements(flush.batch))
  BY <1>3, <1>8, MissingNoMore DEF LostCount
<1>10. y \in Nat /\ y <= LostCount(S) + r
  <2>1. Missing(arrived', table', queue', T) \subseteq Missing(arrived, table, queue, S) \cup E
    BY <1>3, <1>5 DEF Missing
  <2> QED
    BY <1>6, <1>7, <1>8, <2>1, MissingMore DEF LostCount
<1>11. Owned' = Owned + h
  <2>1. /\ droppedMem' = droppedMem + 0 /\ Unaccounted' = Unaccounted + 0
        /\ hidden' = hidden + h /\ forgotten' = forgotten + 0
    BY <1>3, <1>8, OwnedParts DEF Unaccounted
  <2>2. Owned' = Owned + 0 + 0 + h + 0
    BY <1>7, <1>8, <2>1, OwnedGrows
  <2> QED
    BY <1>7, <1>8, <2>2
<1>12. LossInv' <=>
         x <= Owned' /\ y + (Len(flush.left) - 1) + (flush.persisted + c) <= Owned' + Len(flush.batch)
  BY <1>2, <1>3, <1>4, <1>8 DEF LossInv, LostCount
<1>13. /\ LostCount(Elements(flush.batch)) <= Owned
       /\ LostCount(S) + Len(flush.left) + flush.persisted <= Owned + Len(flush.batch)
  BY <1>1 DEF LossInv
<1>14. LostCount(S) \in Nat /\ LostCount(Elements(flush.batch)) \in Nat
  BY <1>8
<1> DEFINE v == LostCount(S)
           w == LostCount(Elements(flush.batch))
           k == Len(flush.left)
           n == Len(flush.batch)
           p == flush.persisted
<1> HIDE DEF x, y, c, r, h, S, T, E, v, w, k, n, p
<1>15. x <= Owned'
  BY <1>7, <1>8, <1>9, <1>11, <1>13, <1>14 DEF w
<1>16. y + (k - 1) + (p + c) <= Owned' + n
  <2>1. /\ y <= v + r /\ Owned' = Owned + h /\ v + k + p <= Owned + n /\ r + c - 1 <= h
        /\ y \in Nat /\ v \in Nat /\ r \in Nat /\ h \in Nat /\ c \in Nat /\ k \in Nat
        /\ p \in Nat /\ n \in Nat /\ Owned \in Int
    BY <1>1, <1>7, <1>8, <1>10, <1>11, <1>13, <1>14 DEF v, k, n, p
  <2> QED
    BY <2>1
<1> QED
  BY <1>12, <1>15, <1>16 DEF k, n, p

\* The commit stores the rows, and no frame is left to handle.
LEMMA LossCommit ==
  ASSUME Types, LossInv, CommitBatch
  PROVE  LossInv'
<1> DEFINE S == Elements(flush.rows) \cup Elements(flush.left)
           x == MissingCount(arrived', table', queue', {})
<1>1. /\ flush' = [flush EXCEPT !.at = "received"] /\ flush.at = "frames"
      /\ flush.left = << >>
      /\ table' = table \cup Elements(flush.rows)
      /\ UNCHANGED <<queue, counter, droppedMem, arrived, hidden, forgotten>>
  BY DEF CommitBatch, CommitTo
<1>2. /\ flush'.at = "received" /\ flush'.batch = flush.batch
      /\ flush'.persisted = flush.persisted
  BY <1>1, FlushMoves DEF Steps
<1>3. /\ IsFiniteSet(arrived) /\ forgotten \in Nat /\ Owned \in Int /\ LostCount(S) \in Nat
  BY LossTypes
<1>4. Missing(arrived', table', queue', {}) \subseteq Missing(arrived, table, queue, S)
  BY <1>1, NoElements DEF Missing
<1>5. x \in Nat /\ x <= LostCount(S)
  BY <1>3, <1>4, MissingNoMore DEF LostCount
<1>6. Owned' = Owned
  BY <1>1 DEF Owned, Unaccounted
<1>7. LostCount(S) + 0 + flush.persisted <= Owned + Len(flush.batch)
  <2>1. Len(flush.left) = 0
    BY <1>1
  <2>2. LostCount(S) + Len(flush.left) + flush.persisted <= Owned + Len(flush.batch)
    BY <1>1 DEF LossInv
  <2> QED
    BY <2>1, <2>2
<1>8. LossInv' <=> x + flush.persisted <= Owned' + Len(flush.batch)
  BY <1>1, <1>2, <1>3 DEF LossInv, LostCount
<1> HIDE DEF x, S
<1> QED
  BY <1>3, <1>5, <1>6, <1>7, <1>8, FlushFields

\* A transaction that is lost is counted dropped, frame by frame.
LEMMA LossTransaction ==
  ASSUME Types, LossInv, TransactionFails
  PROVE  LossInv'
<1> DEFINE E == Elements(flush.batch)
           n == Len(flush.batch)
           x == MissingCount(arrived', table', queue', {})
<1>1. /\ flush' = [flush EXCEPT !.at = "fail_received"] /\ flush.at = "frames"
      /\ droppedMem' = droppedMem + n
      /\ table \subseteq table'
      /\ UNCHANGED <<queue, counter, arrived, hidden, forgotten>>
  BY DEF TransactionFails, BatchFails, LostWith
<1>2. flush'.at = "fail_received"
  BY <1>1, FlushMoves DEF Steps
<1>3. /\ IsFiniteSet(arrived) /\ forgotten \in Nat /\ Owned \in Int /\ LostCount(E) \in Nat
  BY LossTypes
<1>4. IsFiniteSet(E) /\ Cardinality(E) <= n /\ n \in Nat
  BY FlushFields, ElementsBound
<1>5. Missing(arrived', table', queue', {}) \subseteq Missing(arrived, table, queue, E) \cup E
  BY <1>1 DEF Missing
<1>6. x \in Nat /\ x <= LostCount(E) + n
  BY <1>3, <1>4, <1>5, MissingMore DEF LostCount
<1>7. Owned' = Owned + n
  <2>1. /\ droppedMem' = droppedMem + n /\ Unaccounted' = Unaccounted + 0
        /\ hidden' = hidden + 0 /\ forgotten' = forgotten + 0
    BY <1>1, <1>3, OwnedParts DEF Unaccounted
  <2>2. Owned' = Owned + n + 0 + 0 + 0
    BY <1>3, <1>4, <2>1, OwnedGrows
  <2> QED
    BY <1>3, <1>4, <2>2
<1>8. LostCount(E) <= Owned
  BY <1>1 DEF LossInv
<1>9. LossInv' <=> x <= Owned'
  BY <1>1, <1>2, <1>3 DEF LossInv, LostCount
<1> HIDE DEF x, E, n
<1> QED
  BY <1>3, <1>4, <1>6, <1>7, <1>8, <1>9

\* The batch is counted, or its counting fails and it is counted dropped: the frames
\* that are missing are the same.
LEMMA LossCounts ==
  ASSUME Types, LossInv,
         CountReceived \/ CountPersisted \/ CountFails
         \/ FailReceived \/ FailDropped \/ FailMuted
  PROVE  LossInv'
<1> DEFINE x == LostCount({})
           n == Len(flush.batch)
           p == flush.persisted
<1>1. /\ IsFiniteSet(arrived) /\ forgotten \in Nat /\ Owned \in Int /\ x \in Nat
      /\ n \in Nat /\ p \in Nat
  BY LossTypes, FlushFields
<1>2. /\ UNCHANGED <<queue, table, arrived, hidden, forgotten>>
      /\ flush.at \in Steps \ {"idle", "frames"}
  BY DEF CountReceived, CountPersisted, CountFails, FailReceived, FailDropped, FailMuted,
         BatchFails, audit, Steps
<1>3. MissingCount(arrived', table', queue', {}) = x
  BY <1>2 DEF LostCount
<1>4. /\ flush.at = "received" => x + p <= Owned + n
      /\ flush.at = "persisted" => x + p <= Owned
      /\ flush.at \in {"fail_received", "fail_dropped"} => x <= Owned
  BY DEF LossInv
<1>5. /\ \A to \in Steps : flush' = [flush EXCEPT !.at = to]
                          => flush'.at = to /\ flush'.batch = flush.batch /\ flush'.persisted = p
      /\ flush' = Idle => flush'.at = "idle"
  BY FlushMoves, IdleFields
<1>6. /\ UNCHANGED counter
           => counter'.received = counter.received + 0 /\ counter'.persisted = counter.persisted + 0
      /\ Count("received", n)
           => counter'.received = counter.received + n /\ counter'.persisted = counter.persisted + 0
      /\ Count("persisted", p)
           => counter'.received = counter.received + 0 /\ counter'.persisted = counter.persisted + p
      /\ Count("dropped", n)
           => counter'.received = counter.received + 0 /\ counter'.persisted = counter.persisted + 0
  BY FlushFields DEF Count, Types
<1>7. ASSUME NEW to \in Steps \ {"frames"}, flush'.at = to,
             to \in {"received", "persisted"} => flush'.batch = flush.batch /\ flush'.persisted = p,
             to = "received" => x + p <= Owned' + n,
             to = "persisted" => x + p <= Owned',
             to \in {"idle", "fail_received", "fail_dropped"} => x <= Owned'
      PROVE  LossInv'
  BY <1>1, <1>2, <1>3, <1>7 DEF LossInv, LostCount, Steps
<1>8. ASSUME NEW up \in Nat, NEW down \in Nat, NEW more \in Nat,
             droppedMem' = droppedMem + more,
             counter'.received = counter.received + up,
             counter'.persisted = counter.persisted + down
      PROVE  Owned' = Owned + more + up - down
  <2>1. up - down \in Int /\ more \in Int /\ 0 \in Int
    OBVIOUS
  <2>2. hidden' = hidden + 0 /\ forgotten' = forgotten + 0
    BY <1>1, <1>2, FlushFields
  <2>3. Unaccounted' = Unaccounted + (up - down)
    <3>1. counter.received \in Nat /\ counter.persisted \in Nat
      BY FlushFields
    <3>2. Unaccounted' = counter'.received - counter'.persisted
      BY DEF Unaccounted
    <3> QED
      BY <1>8, <3>1, <3>2 DEF Unaccounted
  <2>4. Owned' = Owned + more + (up - down) + 0 + 0
    BY <1>1, <1>8, <2>1, <2>2, <2>3, OwnedGrows
  <2> QED
    BY <1>1, <2>1, <2>4
<1>9. droppedMem \in Nat /\ droppedMem + 0 = droppedMem
  BY FlushFields
<1> HIDE DEF x, n, p
<1>10. CASE CountReceived
  <2>1. /\ flush.at = "received" /\ flush' = [flush EXCEPT !.at = "persisted"]
        /\ Count("received", n) /\ droppedMem' = droppedMem + 0
    BY <1>9, <1>10 DEF CountReceived, n
  <2>2. Owned' = Owned + 0 + n - 0
    BY <1>1, <1>6, <1>8, <2>1
  <2>3. x + p <= Owned'
    BY <1>1, <1>4, <2>1, <2>2
  <2> QED
    BY <1>5, <1>7, <2>1, <2>3 DEF Steps
<1>11. CASE CountPersisted
  <2>1. /\ flush.at = "persisted" /\ flush' = Idle
        /\ Count("persisted", p) /\ droppedMem' = droppedMem + 0
    BY <1>9, <1>11 DEF CountPersisted, p
  <2>2. Owned' = Owned + 0 + 0 - p
    BY <1>1, <1>6, <1>8, <2>1
  <2>3. x <= Owned'
    BY <1>1, <1>4, <2>1, <2>2
  <2> QED
    BY <1>5, <1>7, <2>1, <2>3 DEF Steps
<1>12. CASE CountFails
  <2>1. /\ flush' = [flush EXCEPT !.at = "fail_received"] /\ droppedMem' = droppedMem + n
    BY <1>12 DEF CountFails, BatchFails, LostWith, n
  <2>2. x <= Owned'
    <3>1. CASE flush.at \in {"received", "persisted"} /\ UNCHANGED counter
      <4>1. Owned' = Owned + n + 0 - 0
        BY <1>1, <1>6, <1>8, <2>1, <3>1
      <4> QED
        BY <1>1, <1>4, <3>1, <4>1
    <3>2. CASE flush.at = "received" /\ Count("received", n)
      <4>1. Owned' = Owned + n + n - 0
        BY <1>1, <1>6, <1>8, <2>1, <3>2
      <4> QED
        BY <1>1, <1>4, <3>2, <4>1
    <3>3. CASE flush.at = "persisted" /\ Count("persisted", p)
      <4>1. Owned' = Owned + n + 0 - p
        BY <1>1, <1>6, <1>8, <2>1, <3>3
      <4> QED
        BY <1>1, <1>4, <3>3, <4>1
    <3> QED
      BY <1>12, <3>1, <3>2, <3>3 DEF CountFails, n, p
  <2> QED
    BY <1>5, <1>7, <2>1, <2>2 DEF Steps
<1>13. CASE FailReceived
  <2>1. /\ flush.at = "fail_received" /\ flush' = [flush EXCEPT !.at = "fail_dropped"]
        /\ Count("received", n) /\ droppedMem' = droppedMem + 0
    BY <1>9, <1>13 DEF FailReceived, n
  <2>2. Owned' = Owned + 0 + n - 0
    BY <1>1, <1>6, <1>8, <2>1
  <2>3. x <= Owned'
    BY <1>1, <1>4, <2>1, <2>2
  <2> QED
    BY <1>5, <1>7, <2>1, <2>3 DEF Steps
<1>14. CASE FailDropped \/ FailMuted
  <2>1. /\ flush.at \in {"fail_received", "fail_dropped"} /\ flush' = Idle
        /\ Count("dropped", n) \/ UNCHANGED counter
        /\ droppedMem' = droppedMem + 0
    BY <1>9, <1>14 DEF FailDropped, FailMuted, n
  <2>2. Owned' = Owned + 0 + 0 - 0
    BY <1>1, <1>6, <1>8, <2>1
  <2>3. x <= Owned'
    BY <1>1, <1>4, <2>1, <2>2
  <2> QED
    BY <1>5, <1>7, <2>1, <2>3 DEF Steps
<1> QED
  BY <1>10, <1>11, <1>12, <1>13, <1>14

\* A stop forgets what is in memory, and the history says how much that was.
LEMMA LossRestart ==
  ASSUME Types, LossInv, Rows, Restart
  PROVE  LossInv'
<1> DEFINE E == Elements(flush.batch)
           Q == Elements(queue)
           n == Len(flush.batch)
           m == Len(queue)
           x == MissingCount(arrived', table', queue', {})
<1>1. /\ forgotten' = forgotten + m + n + droppedMem
      /\ queue' = << >> /\ flush' = Idle /\ droppedMem' = 0
      /\ UNCHANGED <<table, counter, arrived, hidden>>
  BY DEF Restart
<1>2. flush'.at = "idle"
  BY <1>1, IdleFields
<1>3. /\ IsFiniteSet(arrived) /\ forgotten \in Nat /\ Owned \in Int
      /\ LostCount(E) \in Nat /\ LostCount({}) \in Nat /\ LostCount(Q) \in Nat
      /\ LostCount(E \cup Q) \in Nat
  BY LossTypes
<1>4. /\ IsFiniteSet(E) /\ Cardinality(E) <= n /\ n \in Nat
      /\ IsFiniteSet(Q) /\ Cardinality(Q) <= m /\ m \in Nat /\ droppedMem \in Nat
      /\ flush.persisted \in Nat
  BY FlushFields, ElementsBound DEF Types
<1>5. x \in Nat /\ x <= LostCount({}) + m
  <2>1. Missing(arrived', table', queue', {}) \subseteq Missing(arrived, table, queue, {}) \cup Q
    BY <1>1 DEF Missing
  <2> QED
    BY <1>3, <1>4, <2>1, MissingMore DEF LostCount
<1>6. LostCount({}) <= LostCount(E) + n
  <2>1. Missing(arrived, table, queue, {}) \subseteq Missing(arrived, table, queue, E) \cup E
    BY DEF Missing
  <2> QED
    BY <1>3, <1>4, <2>1, MissingMore DEF LostCount
<1>7. Owned' = Owned + m + n
  <2>1. /\ droppedMem' = droppedMem + (0 - droppedMem) /\ Unaccounted' = Unaccounted + 0
        /\ hidden' = hidden + 0 /\ forgotten' = forgotten + (m + n + droppedMem)
        /\ 0 - droppedMem \in Int /\ m + n + droppedMem \in Int
    <3> HIDE DEF m, n
    <3> QED
      BY <1>1, <1>3, <1>4, OwnedParts DEF Unaccounted
  <2>2. Owned' = Owned + (0 - droppedMem) + 0 + 0 + (m + n + droppedMem)
    <3> DEFINE a == 0 - droppedMem
               d == m + n + droppedMem
    <3>1. a \in Int /\ d \in Int /\ 0 \in Int
      BY <2>1
    <3>2. /\ droppedMem' = droppedMem + a /\ Unaccounted' = Unaccounted + 0
          /\ hidden' = hidden + 0 /\ forgotten' = forgotten + d
      BY <2>1
    <3> HIDE DEF a, d
    <3>3. Owned' = Owned + a + 0 + 0 + d
      BY <1>3, <3>1, <3>2, OwnedGrows
    <3> QED
      BY <3>3 DEF a, d
  <2> HIDE DEF m, n
  <2> QED
    BY <1>3, <1>4, <2>2
<1>8. LossInv' <=> x <= Owned'
  <2>1. forgotten' \in Nat
    <3> HIDE DEF m, n
    <3> QED
      BY <1>1, <1>3, <1>4
  <2> QED
    BY <1>1, <1>2, <1>3, <2>1 DEF LossInv, LostCount
<1>9. \/ LostCount(E) <= Owned
      \/ LostCount({}) + flush.persisted <= Owned + n
      \/ LostCount({}) + flush.persisted <= Owned
      \/ LostCount({}) <= Owned
  BY FlushFields DEF LossInv, Steps
<1> HIDE DEF x, E, Q, n, m
<1>10. LostCount({}) <= Owned + n
  BY <1>3, <1>4, <1>6, <1>9
<1> QED
  BY <1>3, <1>4, <1>5, <1>7, <1>8, <1>10

\* The invariant of the visible drops is inductive.
LEMMA DropStep ==
  ASSUME Types, Rows, DropInv, [Next]_vars
  PROVE  DropInv'
<1>1. /\ droppedMem \in Nat /\ counter.dropped \in Nat /\ Len(flush.batch) \in Nat
      /\ counter \in [received : Nat, persisted : Nat, dropped : Nat]
  BY FlushFields DEF Types
<1>2. Idle.at = "idle"
  BY IdleFields
<1>3. \A to \in Steps : flush' = [flush EXCEPT !.at = to]
                         => flush'.at = to /\ flush'.batch = flush.batch
  BY FlushMoves
<1>4. ASSUME NEW f \in Frames, Enqueue(f) PROVE DropInv'
  <2>1. /\ UNCHANGED <<flush, counter, muted>>
        /\ \/ UNCHANGED <<droppedMem, recorder>>
           \/ /\ droppedMem' = droppedMem + 1
              /\ recorder' = (recorder \/ droppedMem' \in Milestones)
    BY <1>4 DEF Enqueue, LostWith, IsMilestone
  <2>2. CASE UNCHANGED <<droppedMem, recorder>>
    BY <2>1, <2>2 DEF DropInv
  <2>3. CASE /\ droppedMem' = droppedMem + 1
             /\ recorder' = (recorder \/ droppedMem' \in Milestones)
    <3>1. droppedMem' > 0 /\ (droppedMem > 0 \/ droppedMem' = 1) /\ 1 \in Milestones
      BY <1>1, <2>3, IngestAssumption DEF IngestAssumption
    <3>2. recorder => recorder'
      BY <2>3
    <3>3. droppedMem' = 1 => recorder'
      BY <2>3, <3>1
    <3> QED
      BY <2>1, <3>1, <3>2, <3>3 DEF DropInv
  <2> QED
    BY <2>1, <2>2, <2>3
<1>5. ASSUME NEW f \in Posted, PostFrame(f) PROVE DropInv'
  BY <1>5 DEF PostFrame, DropInv, audit
<1>6. CASE RecordOverflow
  <2>1. /\ UNCHANGED <<flush, droppedMem>> /\ recorder' = FALSE /\ recorder
        /\ Count("dropped", droppedMem) \/ muted'
    BY <1>6 DEF RecordOverflow
  <2>2. Count("dropped", droppedMem) => counter'.dropped = counter.dropped + droppedMem
    BY <1>1 DEF Count
  <2>3. droppedMem > 0 => counter.dropped + droppedMem > 0
    BY <1>1
  <2> QED
    BY <2>1, <2>2, <2>3 DEF DropInv
<1>7. CASE Drain
  <2> DEFINE n == BatchLen(queue)
  <2>1. n \in Nat /\ n > 0 /\ n <= Len(queue) /\ queue \in Seq(Frames)
    BY <1>7, IngestAssumption DEF IngestAssumption, Types, BatchLen, Drain
  <2>2. /\ flush.at = "idle"
        /\ flush' = [Idle EXCEPT !.at = "frames", !.batch = SubSeq(queue, 1, n),
                                 !.left = SubSeq(queue, 1, n)]
        /\ UNCHANGED <<counter, droppedMem, recorder, muted>>
    BY <1>7 DEF Drain, audit
  <2> HIDE DEF n
  <2>3. Len(SubSeq(queue, 1, n)) = n
    BY <2>1
  <2>4. flush'.at = "frames" /\ flush'.batch = SubSeq(queue, 1, n)
    BY <2>2 DEF Idle
  <2> QED
    BY <2>1, <2>2, <2>3, <2>4 DEF DropInv
<1>8. ASSUME NEW o \in Outcomes, HandleFrame(o) PROVE DropInv'
  <2>1. /\ flush.at = "frames" /\ UNCHANGED <<counter, droppedMem, recorder, muted>>
        /\ flush'.at = flush.at /\ flush'.batch = flush.batch
    BY <1>8 DEF HandleFrame, Types, FlushRecord
  <2> QED
    BY <2>1 DEF DropInv
<1>9. CASE CommitBatch \/ CountReceived
  <2>1. /\ flush.at \in {"frames", "received"}
        /\ flush'.at \in {"received", "persisted"} /\ flush'.batch = flush.batch
        /\ UNCHANGED <<droppedMem, recorder, muted>>
    BY <1>3, <1>9 DEF CommitBatch, CommitTo, CountReceived, Steps, audit
  <2>2. counter'.dropped = counter.dropped
    BY <1>1, <1>9 DEF CommitBatch, CountReceived, Count
  <2> QED
    BY <2>1, <2>2 DEF DropInv
<1>10. CASE TransactionFails \/ CountFails
  <2>1. /\ flush.at \in {"frames", "received", "persisted"}
        /\ flush'.at = "fail_received" /\ flush'.batch = flush.batch
        /\ droppedMem' = droppedMem + Len(flush.batch) /\ recorder' = recorder
    BY <1>3, <1>10 DEF TransactionFails, CountFails, BatchFails, LostWith, Steps
  <2>2. Len(flush.batch) > 0
    BY <2>1 DEF DropInv
  <2>3. droppedMem' > 0
    BY <1>1, <2>1, <2>2
  <2> QED
    BY <2>1, <2>2, <2>3 DEF DropInv
<1>11. CASE CountPersisted
  <2>1. /\ flush.at = "persisted" /\ flush'.at = "idle"
        /\ UNCHANGED <<droppedMem, recorder, muted>>
    BY <1>2, <1>11 DEF CountPersisted, audit
  <2>2. counter'.dropped = counter.dropped
    BY <1>1, <1>11 DEF CountPersisted, Count
  <2> QED
    BY <2>1, <2>2 DEF DropInv
<1>12. CASE FailReceived
  <2>1. /\ flush.at = "fail_received" /\ flush'.at = "fail_dropped"
        /\ flush'.batch = flush.batch /\ UNCHANGED <<droppedMem, recorder>>
    BY <1>3, <1>12 DEF FailReceived, Steps
  <2> QED
    BY <2>1 DEF DropInv
<1>13. CASE FailDropped \/ FailMuted
  <2>1. /\ flush.at # "idle" /\ flush'.at = "idle" /\ UNCHANGED <<droppedMem, recorder>>
        /\ Count("dropped", Len(flush.batch)) \/ muted'
    BY <1>2, <1>13 DEF FailDropped, FailMuted
  <2>2. Count("dropped", Len(flush.batch))
          => counter'.dropped = counter.dropped + Len(flush.batch)
    BY <1>1 DEF Count
  <2>3. Len(flush.batch) > 0
    BY <2>1 DEF DropInv
  <2>4. counter.dropped + Len(flush.batch) > 0
    BY <1>1, <2>3
  <2> QED
    BY <2>1, <2>2, <2>4 DEF DropInv
<1>14. CASE Restart
  BY <1>2, <1>14 DEF Restart, DropInv
<1>15. CASE UNCHANGED vars
  BY <1>15 DEF vars, audit, DropInv
<1> QED
  BY <1>4, <1>5, <1>6, <1>7, <1>8, <1>9, <1>10, <1>11, <1>12, <1>13, <1>14, <1>15
  DEF Next, FlusherStep

\* No frame is lost without a number that says so, whatever fails and whenever the process
\* stops: a full queue, a lost transaction, a failed counter call and a frame without a row
\* are each paid for, and the first drop is a milestone (main.py:466, :468, :532).
THEOREM LossShowsHolds == Spec => []LossShows
<1>1. Init => LossInv /\ DropInv
  <2> SUFFICES ASSUME Init PROVE LossInv /\ DropInv
    OBVIOUS
  <2>1. /\ arrived = {} /\ forgotten = 0 /\ hidden = 0 /\ droppedMem = 0 /\ recorder = FALSE
        /\ flush.at = "idle" /\ counter.received = 0 /\ counter.persisted = 0
    BY IdleFields DEF Init
  <2>2. IsFiniteSet(arrived) /\ LostCount({}) = 0
    BY <2>1, FS_EmptySet DEF LostCount, MissingCount, Missing
  <2>3. Owned = 0
    BY <2>1 DEF Owned, Unaccounted
  <2> QED
    BY <2>1, <2>2, <2>3 DEF LossInv, DropInv
<1>2. IngestInv /\ LossInv /\ [Next]_vars => LossInv'
  BY LossEnqueue, LossElsewhere, LossDrain, LossHandle, LossCommit, LossTransaction,
     LossCounts, LossRestart DEF IngestInv, Next, FlusherStep
<1>3. IngestInv /\ DropInv /\ [Next]_vars => DropInv'
  BY DropStep DEF IngestInv
<1>4. IngestInv /\ LossInv /\ DropInv => LossShows
  <2> SUFFICES ASSUME IngestInv, LossInv, DropInv PROVE LossShows
    OBVIOUS
  <2>1. flush.at = "idle" => LostCount({}) <= Owned
    BY DEF LossInv
  <2>2. Missing(arrived, table, queue, {}) = arrived \ (table \cup Elements(queue))
    BY DEF Missing
  <2>3. LossIsCounted
    BY <2>1, <2>2 DEF LossIsCounted, Resting, Owned, LostCount, MissingCount
  <2>4. DropIsVisible
    BY DEF DropInv, DropIsVisible, Resting
  <2> QED
    BY <2>3, <2>4 DEF LossShows
<1> QED
  BY <1>1, <1>2, <1>3, <1>4, IngestInvHolds, PTL DEF Spec

-----------------------------------------------------------------------------
(* What the variables hold *)

\* What the books leave open of the types: the queue and the batches have their sizes.
IntakeTypes ==
  /\ Len(queue) <= QueueMax /\ Len(flush.batch) <= BatchSize
  /\ table \subseteq Frames /\ live \subseteq Frames
  /\ arrived \subseteq Frames /\ undone \subseteq Frames
  /\ recorder \in BOOLEAN /\ muted \in BOOLEAN
  /\ forgotten \in Nat /\ mishaps \in 0 .. MaxMishaps

\* What the variables of IngestBatch hold: the queue never holds more than QueueMax frames
\* (_READ_QUEUE, main.py:457) and a batch never more than BatchSize.
LEMMA IngestTypes == Init /\ [][Next]_vars => []TypeOK
<1>1. Init => IntakeTypes
  <2> SUFFICES ASSUME Init PROVE IntakeTypes
    OBVIOUS
  <2>1. 0 \in 0 .. MaxMishaps /\ 0 <= QueueMax /\ 0 <= BatchSize
    BY IngestAssumption DEF IngestAssumption
  <2>2. Len(queue) = 0 /\ Len(flush.batch) = 0
    BY IdleFields DEF Init
  <2>3. Len(queue) <= QueueMax /\ Len(flush.batch) <= BatchSize
    BY <2>1, <2>2
  <2> QED
    BY <2>1, <2>3 DEF Init, IntakeTypes
<1>2. IngestInv /\ IntakeTypes /\ [Next]_vars => IntakeTypes'
  <2> SUFFICES ASSUME IngestInv, IntakeTypes, [Next]_vars PROVE IntakeTypes'
    OBVIOUS
  <2>0. /\ queue \in Seq(Frames) /\ flush \in FlushRecord /\ droppedMem \in Nat
        /\ MaxMishaps \in Nat /\ QueueMax \in Nat \ {0} /\ BatchSize \in Nat \ {0}
        /\ Posted \subseteq Frames
    BY IngestAssumption DEF IngestInv, Types, IngestAssumption
  <2>1. /\ flush.batch \in Seq(Frames) /\ flush.left \in Seq(Frames) /\ flush.rows \in Seq(Frames)
        /\ Len(flush.batch) \in Nat /\ Len(queue) \in Nat
    BY <2>0 DEF FlushRecord
  <2>2. Mishap => mishaps' \in 0 .. MaxMishaps
    BY <2>0 DEF Mishap, IntakeTypes
  <2>3. Elements(flush.batch) \subseteq Frames /\ Elements(flush.rows) \subseteq Frames
    BY <2>1 DEF Elements
  <2>4. Len(Idle.batch) = 0
    BY IdleFields DEF Idle
  <2>5. \A to \in Steps : [flush EXCEPT !.at = to].batch = flush.batch
    BY <2>0 DEF FlushRecord
  <2>6. ASSUME NEW f \in Frames, Enqueue(f) PROVE IntakeTypes'
    <3>1. /\ arrived' = arrived \cup {f} /\ mishaps' \in 0 .. MaxMishaps
          /\ UNCHANGED <<flush, table, live, forgotten, undone, muted>>
      BY <2>2, <2>6 DEF Enqueue, HandOver, IntakeTypes
    <3>2. Len(queue') <= QueueMax /\ recorder' \in BOOLEAN
      <4>1. CASE ~QueueFull /\ queue' = Append(queue, f) /\ UNCHANGED <<droppedMem, recorder>>
        <5>1. Len(queue') = Len(queue) + 1 /\ ~(Len(queue) >= QueueMax)
          BY <2>0, <4>1 DEF QueueFull
        <5>2. Len(queue') <= QueueMax
          BY <2>0, <2>1, <5>1
        <5> QED
          BY <4>1, <5>2 DEF IntakeTypes
      <4>2. CASE recorder' = (recorder \/ IsMilestone(droppedMem')) /\ UNCHANGED queue
        <5>1. recorder' \in BOOLEAN
          BY <4>2, Zenon
        <5> QED
          BY <4>2, <5>1 DEF IntakeTypes
      <4> QED
        BY <2>6, <4>1, <4>2 DEF Enqueue
    <3> QED
      BY <3>1, <3>2 DEF IntakeTypes
  <2>7. ASSUME NEW f \in Posted, PostFrame(f) PROVE IntakeTypes'
    BY <2>0, <2>2, <2>7 DEF PostFrame, IntakeTypes, audit
  <2>8. CASE RecordOverflow
    BY <2>2, <2>8 DEF RecordOverflow, IntakeTypes
  <2>9. CASE Drain
    <3> DEFINE n == BatchLen(queue)
               batch == SubSeq(queue, 1, n)
               rest == SubSeq(queue, n + 1, Len(queue))
    <3>1. n \in Nat /\ n > 0 /\ n <= Len(queue) /\ n <= BatchSize
      BY <2>0, <2>1, <2>9 DEF BatchLen, Drain
    <3>2. /\ flush' = [Idle EXCEPT !.at = "frames", !.batch = batch, !.left = batch]
          /\ queue' = rest
          /\ UNCHANGED <<table, recorder, live, arrived, forgotten, undone, muted, mishaps>>
      BY <2>9 DEF Drain, audit
    <3> HIDE DEF n
    <3>3. Len(batch) = n /\ Len(rest) = Len(queue) - n
      BY <2>0, <2>1, <3>1
    <3>4. Len(rest) <= QueueMax
      <4>1. Len(queue) <= QueueMax
        BY DEF IntakeTypes
      <4> QED
        BY <2>0, <2>1, <3>1, <3>3, <4>1
    <3> HIDE DEF batch, rest
    <3>5. flush'.batch = batch
      BY <3>2 DEF Idle
    <3> QED
      BY <3>1, <3>2, <3>3, <3>4, <3>5 DEF IntakeTypes
  <2>10. ASSUME NEW o \in Outcomes, HandleFrame(o) PROVE IntakeTypes'
    <3>1. /\ flush.left # << >> /\ mishaps' \in 0 .. MaxMishaps
          /\ live' \in {live, live \cup {Head(flush.left)}}
          /\ UNCHANGED <<queue, table, recorder, arrived, forgotten, undone, muted>>
      BY <2>2, <2>10 DEF HandleFrame, IntakeTypes
    <3>2. Head(flush.left) \in Frames
      BY <2>1, <3>1
    <3>3. flush'.batch = flush.batch
      BY <2>0, <2>10 DEF HandleFrame, FlushRecord
    <3> QED
      BY <3>1, <3>2, <3>3 DEF IntakeTypes
  <2>11. CASE CommitBatch \/ TransactionFails
    <3>1. /\ flush'.batch = flush.batch /\ mishaps' \in 0 .. MaxMishaps
          /\ table' \in {table, table \cup Elements(flush.rows)}
          /\ undone' \in {undone, undone \cup Elements(flush.batch)}
          /\ UNCHANGED <<queue, recorder, live, arrived, forgotten, muted>>
      BY <2>2, <2>5, <2>11 DEF CommitBatch, TransactionFails, BatchFails, CommitTo, Steps, IntakeTypes
    <3> QED
      BY <2>3, <3>1 DEF IntakeTypes
  <2>12. CASE CountReceived \/ CountPersisted \/ CountFails \/ FailReceived \/ FailDropped
              \/ FailMuted
    <3>1. /\ mishaps' \in 0 .. MaxMishaps /\ muted' \in {muted, TRUE}
          /\ UNCHANGED <<queue, table, recorder, live, arrived, forgotten, undone>>
      BY <2>2, <2>12 DEF CountReceived, CountPersisted, CountFails, BatchFails, FailReceived,
         FailDropped, FailMuted, audit, IntakeTypes
    <3>2. flush' = Idle \/ \E to \in Steps : flush' = [flush EXCEPT !.at = to]
      BY <2>12 DEF CountReceived, CountPersisted, CountFails, BatchFails, FailReceived,
         FailDropped, FailMuted, Steps
    <3>3. Len(flush'.batch) <= BatchSize
      <4>1. Len(flush.batch) <= BatchSize /\ 0 <= BatchSize
        BY <2>0 DEF IntakeTypes
      <4>2. CASE flush' = Idle
        BY <2>4, <4>1, <4>2
      <4>3. ASSUME NEW to \in Steps, flush' = [flush EXCEPT !.at = to]
            PROVE  Len(flush'.batch) <= BatchSize
        BY <2>5, <4>1, <4>3
      <4> QED
        BY <3>2, <4>2, <4>3
    <3> QED
      BY <3>1, <3>3 DEF IntakeTypes
  <2>13. CASE Restart
    <3>1. /\ mishaps' \in 0 .. MaxMishaps /\ queue' = << >> /\ flush' = Idle
          /\ undone' = undone \cup Elements(flush.batch) /\ recorder' = FALSE
          /\ forgotten' = forgotten + Len(queue) + Len(flush.batch) + droppedMem
          /\ UNCHANGED <<table, live, arrived, muted>>
      BY <2>2, <2>13 DEF Restart
    <3>2. forgotten' \in Nat
      <4>1. forgotten \in Nat
        BY DEF IntakeTypes
      <4> DEFINE m == Len(queue)
                 n == Len(flush.batch)
      <4>2. m \in Nat /\ n \in Nat /\ forgotten' = forgotten + m + n + droppedMem
        BY <2>1, <3>1
      <4> HIDE DEF m, n
      <4> QED
        BY <2>0, <4>1, <4>2
    <3>3. Len(queue') <= QueueMax /\ Len(flush'.batch) <= BatchSize
      BY <2>0, <2>4, <3>1
    <3> QED
      BY <2>3, <3>1, <3>2, <3>3 DEF IntakeTypes
  <2>14. CASE UNCHANGED vars
    BY <2>14 DEF vars, audit, IntakeTypes
  <2> QED
    BY <2>6, <2>7, <2>8, <2>9, <2>10, <2>11, <2>12, <2>13, <2>14 DEF Next, FlusherStep
<1>3. IngestInv /\ IntakeTypes => TypeOK
  BY DEF IngestInv, Types, IntakeTypes, TypeOK, FlushRecord, Steps
<1> QED
  BY <1>1, <1>2, <1>3, IngestInvHolds, PTL

\* The variables of both ends of the intake hold what they may, whichever end takes the
\* steps: the queue, the batches, the lines of the flash file and the replay.
THEOREM IntakeTypeOKHolds == IntakeSpec => []IntakeTypeOK
<1>1. IntakeInit => Init /\ EdgeInit
  BY DEF IntakeInit
<1>2. [IntakeNext]_intakeVars => [Next]_vars /\ [EdgeNext]_edgeVars
  BY DEF IntakeNext, intakeVars
<1>3. TypeOK /\ EdgeTypeOK => IntakeTypeOK
  BY DEF IntakeTypeOK
<1> QED
  BY <1>1, <1>2, <1>3, IngestTypes, EdgeGatewayTypes, PTL DEF IntakeSpec
=============================================================================
