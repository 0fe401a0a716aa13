------------------------ MODULE DeliveryOrderProofs -------------------------
(***************************************************************************)
(* Theorems about when a delivery task looks at the outbox and in what     *)
(* order it writes: no wake is lost, and streams keep the order of their   *)
(* channel.                                                                *)
(***************************************************************************)
EXTENDS DeliveryProofs, FiniteSetTheorems

\* Which steps write to the tasks.
LEMMA TaskWriters ==
    ASSUME [Next]_vars
    PROVE  \/ UNCHANGED task
           \/ \E h \in handlers : NotifyPeer(h)
           \/ \E q \in Peers : ResumePeer(q)
           \/ \E q \in Peers : TaskStep(q)
           \/ Shutdown \/ Exit \/ Crash
  BY DEF Next, vars, senderVars, Send, ScanBacklog, CloseTransport, Restart,
         SenderPairing, ReceiverPairing, Break, LoseFrame, StreamStep,
         AcceptStream, AcceptFails, ReadFrame, ReadEnds, RecordFrame, EmitFrame,
         ConsumerEnds, ReceiverCrash

\* An empty answer of outbox_pending_for_peer means that nothing is pending.
LEMMA EmptyBatch ==
    ASSUME NEW p \in Peers, {} \in Batches(p)
    PROVE  Pending(p) = {}
<1>1. Cardinality({}) = 0
  BY FS_EmptySet
<1>2. BatchLimit # 0
  BY DeliveryAssumption
<1> QED
  BY <1>1, <1>2 DEF Batches

LEMMA SleepOrigin ==
    ASSUME TypeOK, [Next]_vars, NEW p \in Peers, Asleep(p)'
    PROVE  Asleep(p) \/ Pending(p) = {}
<1> DEFINE Goal == Asleep(p) \/ Pending(p) = {}
<1>0. task[p] \in TaskState
  BY DEF TypeOK
<1>a. /\ task'[p].waker = "quiet"
      /\ task'[p].pc = "idle" \/ (task'[p].pc = "row" /\ task'[p].batch = {})
  BY DEF Asleep
<1>1. CASE task'[p] = task[p]
  BY <1>1 DEF Asleep
<1>2. ASSUME NEW q \in Peers, task' = Notified(q), task'[p] # task[p]
      PROVE  FALSE
  <2>1. p = q
    BY <1>2 DEF Notified, TypeOK
  <2>2. task'[p].waker = "queued" \/ task'[p].pc = "fetch"
    BY <1>0, <1>2, <2>1 DEF Notified, TypeOK, TaskState, NoTask
  <2> QED
    BY <1>a, <2>2
<1>3. CASE Shutdown
  <2>1. task'[p] = [task[p] EXCEPT !.stop = task[p].pc # "none"]
    BY <1>3 DEF Shutdown
  <2>2. /\ task'[p].pc = task[p].pc /\ task'[p].waker = task[p].waker
        /\ task'[p].batch = task[p].batch
    BY <1>0, <2>1 DEF TaskState
  <2> QED
    BY <1>a, <2>2 DEF Asleep
<1>4. CASE Exit \/ Crash
  <2>1. task'[p] = NoTask
    BY <1>4 DEF Exit, Crash, Down
  <2> QED
    BY <1>a, <2>1 DEF NoTask
<1>5. ASSUME NEW q \in Peers, TaskStep(q), task'[p] # task[p]
      PROVE  Goal
  <2>1. CASE Backoff(q)
    <3>1. p = q
      BY <1>5, <2>1 DEF Backoff, TypeOK
    <3>2. task'[p].pc = "backoff"
      BY <1>0, <2>1, <3>1 DEF Backoff, TypeOK, TaskState
    <3> QED
      BY <1>a, <3>2
  <2>2. ASSUME NEW B \in Batches(q),
               task' = [task EXCEPT ![q].pc = "row", ![q].batch = B]
        PROVE  Goal
    <3>1. p = q
      BY <1>5, <2>2 DEF TypeOK
    <3>2. task'[p].pc = "row" /\ task'[p].batch = B
      BY <1>0, <2>2, <3>1 DEF TypeOK, TaskState
    <3>3. {} \in Batches(p)
      BY <1>a, <3>1, <3>2
    <3> QED
      BY <3>3, EmptyBatch
  <2>3. CASE DrainDone(q)
    <3>1. p = q
      BY <1>5, <2>3 DEF DrainDone, TypeOK
    <3>2. task'[p].waker = task[p].waker
      BY <1>0, <2>3, <3>1 DEF DrainDone, TypeOK, TaskState
    <3> QED
      BY <1>a, <2>3, <3>1, <3>2 DEF DrainDone, Asleep
  <2>4. CASE OpenStream(q)
    <3>1. p = q
      BY <1>5, <2>4 DEF OpenStream, TypeOK
    <3>2. PICK c, k : task' = [task EXCEPT ![p].streams[c] = k]
      BY <2>4, <3>1 DEF OpenStream
    <3>3. /\ task'[p].waker = task[p].waker /\ task'[p].pc = task[p].pc
          /\ task'[p].batch = task[p].batch
      BY <1>0, <3>2 DEF TypeOK, TaskState
    <3> QED
      BY <1>a, <3>3 DEF Asleep
  <2>5. CASE WriteFrame(q)
    <3>1. p = q
      BY <1>5, <2>5 DEF WriteFrame, TypeOK
    <3>2. task'[p].pc = "mark"
      BY <1>0, <2>5, <3>1 DEF WriteFrame, TypeOK, TaskState
    <3> QED
      BY <1>a, <3>2
  <2>6. ASSUME MarkDelivered(q), ~Backoff(q)
        PROVE  Goal
    <3>1. PICK r \in CurrentRow(q) :
             task' = [task EXCEPT ![q].batch = @ \ {r},
                                  ![q].pc = IF task[q].batch = {r}
                                            THEN "fetch" ELSE "row"]
      BY <2>6 DEF MarkDelivered
    <3>2. p = q
      BY <1>5, <3>1 DEF TypeOK
    <3>3. /\ task'[p].batch = task[p].batch \ {r}
          /\ task'[p].pc = IF task[p].batch = {r} THEN "fetch" ELSE "row"
      BY <1>0, <3>1, <3>2 DEF TypeOK, TaskState
    <3>4. r \in task[p].batch
      BY <3>2 DEF CurrentRow
    <3> QED
      BY <1>a, <3>3, <3>4
  <2>7. ASSUME NEW x \in {"fetch", "exit"}, NEW w,
               \/ task' = [task EXCEPT ![q].pc = x]
               \/ task' = [task EXCEPT ![q].pc = x, ![q].waker = w]
        PROVE  FALSE
    <3>1. p = q
      BY <1>5, <2>7 DEF TypeOK
    <3>2. task'[p].pc = x
      BY <1>0, <2>7, <3>1 DEF TypeOK, TaskState
    <3> QED
      BY <1>a, <3>2
  <2>8. CASE TaskExit(q)
    <3>1. task'[p] = NoTask
      BY <1>5, <2>8 DEF TaskExit, TypeOK
    <3> QED
      BY <1>a, <3>1 DEF NoTask
  <2>9. CASE FetchBatch(q)
    BY <2>1, <2>2, <2>9 DEF FetchBatch
  <2>10. CASE TakeWake(q) \/ RetryTimer(q) \/ SeeShutdown(q)
    BY <2>7, <2>10 DEF TakeWake, RetryTimer, SeeShutdown
  <2>11. CASE OpenFails(q) \/ WriteFails(q)
    BY <2>1, <2>11 DEF OpenFails, WriteFails
  <2> QED
    BY <1>5, <2>1, <2>3, <2>4, <2>5, <2>6, <2>8, <2>9, <2>10, <2>11
       DEF TaskStep
<1>6. \A h \in handlers : h[1] \in Peers
  BY DEF TypeOK
<1> QED
  BY <1>1, <1>2, <1>3, <1>4, <1>5, <1>6, TaskWriters DEF NotifyPeer, ResumePeer

\* A request's notify is only taken off the list by waking or making the task.
LEMMA NotifyKept ==
    ASSUME TypeOK, [Next]_vars, NEW p \in Peers, Asleep(p)', NEW b,
           <<p, b>> \in handlers
    PROVE  <<p, b>> \in handlers'
<1>0. /\ task'[p].waker = "quiet"
      /\ task'[p].pc = "idle" \/ task'[p].pc = "row"
  BY DEF Asleep
<1>1. \/ UNCHANGED handlers
      \/ \E h \in handlers : NotifyPeer(h)
      \/ \E q \in Peers, c \in Channels, big \in Sizes : Send(q, c, big)
      \/ Exit \/ Crash
  BY DEF Next, vars, senderVars, ScanBacklog, ResumePeer, TaskStep, FetchBatch,
         DrainDone, OpenStream, OpenFails, WriteFrame, WriteFails, MarkDelivered,
         TakeWake, RetryTimer, SeeShutdown, TaskExit, Shutdown, CloseTransport,
         Restart, SenderPairing, ReceiverPairing, Break, LoseFrame, StreamStep,
         AcceptStream, AcceptFails, ReadFrame, ReadEnds, RecordFrame, EmitFrame,
         ConsumerEnds, ReceiverCrash
<1>2. ASSUME NEW h \in handlers, NotifyPeer(h)
      PROVE  <<p, b>> \in handlers'
  <2>1. CASE h = <<p, b>>
    <3>1. task' = Notified(p)
      BY <1>2, <2>1 DEF NotifyPeer
    <3>2. task'[p].waker = "queued" \/ task'[p].pc = "fetch"
      BY <3>1 DEF Notified, TypeOK, TaskState, NoTask
    <3> QED
      BY <1>0, <3>2
  <2>2. CASE h # <<p, b>>
    BY <1>2, <2>2 DEF NotifyPeer
  <2> QED
    BY <2>1, <2>2
<1>3. CASE Exit \/ Crash
  <2>1. task'[p] = NoTask
    BY <1>3 DEF Exit, Crash, Down
  <2> QED
    BY <1>0, <2>1 DEF NoTask
<1> QED
  BY <1>1, <1>2, <1>3 DEF Send

\* Only Send makes a row pending, and it has the peer's notify still to do.
LEMMA PendingStep ==
    ASSUME TypeOK, SeqIsPlace, [Next]_vars, NEW p \in Peers, NEW r \in Pending(p)'
    PROVE  r \in Pending(p) \/ <<p, r.body>> \in handlers'
<1> DEFINE Goal == r \in Pending(p) \/ <<p, r.body>> \in handlers'
<1>0. PICK c \in Channels : \E i \in DOMAIN outbox'[c] :
        r = outbox'[c][i] /\ r.peer = p /\ ~r.delivered
  BY DEF Pending, AllRows, Rows, Range
<1>1. PICK i \in DOMAIN outbox'[c] :
        r = outbox'[c][i] /\ r.peer = p /\ ~r.delivered
  BY <1>0
<1>2. ASSUME i \in DOMAIN outbox[c], outbox'[c][i] = outbox[c][i]
      PROVE  r \in Pending(p)
  BY <1>1, <1>2 DEF Pending, AllRows, Rows, Range
<1>3. CASE UNCHANGED outbox
  BY <1>1, <1>2, <1>3
<1>4. ASSUME NEW q \in Peers, MarkDelivered(q)
      PROVE  Goal
  <2>1. CASE UNCHANGED outbox
    BY <1>3, <2>1
  <2>2. CASE ~UNCHANGED outbox
    <3>1. PICK x \in CurrentRow(q) : outbox' = Marked(x)
      BY <1>4, <2>2 DEF MarkDelivered
    <3>2. x \in Row
      BY DEF CurrentRow, TypeOK, TaskState
    <3>3. i \in DOMAIN outbox[c]
      BY <1>1, <3>1, <3>2, MarkedType DEF Marked, TypeOK
    <3>4. OutboxKept /\ outbox[c][i] \in Row
      BY <3>3, OutboxStep DEF TypeOK
    <3>5. [outbox[c][i] EXCEPT !.delivered = TRUE].delivered
      BY <3>4 DEF Row
    <3> QED
      BY <1>1, <1>2, <3>3, <3>4, <3>5 DEF OutboxKept
  <2> QED
    BY <2>1, <2>2
<1>5. ASSUME NEW q \in Peers, NEW d \in Channels, NEW big \in Sizes,
             Send(q, d, big)
      PROVE  Goal
  <2>1. PICK x \in ClockSteps : outbox' = [outbox EXCEPT ![d] = Append(@,
            [ch |-> d, seq |-> NextSeq(d), peer |-> q, body |-> nsent + 1,
             ts |-> clock + x, big |-> big, delivered |-> FALSE])]
    BY <1>5 DEF Send
  <2> DEFINE y == [ch |-> d, seq |-> NextSeq(d), peer |-> q, body |-> nsent + 1,
                   ts |-> clock + x, big |-> big, delivered |-> FALSE]
  <2>2. y.peer = q /\ y.body = nsent + 1
    OBVIOUS
  <2>3. outbox' = [outbox EXCEPT ![d] = Append(@, y)]
    BY <2>1
  <2> HIDE DEF y
  <2>4. CASE c # d
    <3>1. outbox'[c] = outbox[c]
      BY <2>3, <2>4 DEF TypeOK
    <3> QED
      BY <1>1, <1>2, <3>1
  <2>5. CASE c = d
    <3>1. outbox[c] \in Seq(Row) /\ outbox'[c] = Append(outbox[c], y)
      BY <2>3, <2>5 DEF TypeOK
    <3>2. /\ DOMAIN outbox'[c] = DOMAIN outbox[c] \cup {Len(outbox[c]) + 1}
          /\ \A j \in DOMAIN outbox[c] : outbox'[c][j] = outbox[c][j]
          /\ outbox'[c][Len(outbox[c]) + 1] = y
      BY <3>1
    <3>3. CASE i \in DOMAIN outbox[c]
      BY <1>2, <3>2, <3>3
    <3>4. CASE i = Len(outbox[c]) + 1
      <4>1. r = y
        BY <1>1, <3>2, <3>4
      <4>2. p = q /\ r.body = nsent + 1
        BY <1>1, <2>2, <4>1
      <4> QED
        BY <1>5, <4>2 DEF Send
    <3> QED
      BY <1>1, <3>2, <3>3, <3>4
  <2> QED
    BY <2>4, <2>5
<1> QED
  BY <1>3, <1>4, <1>5, OutboxWriters

LEMMA WakeStep ==
    ASSUME TypeOK, SeqIsPlace, WakeInv, [Next]_vars
    PROVE  WakeInv'
<1> SUFFICES ASSUME NEW p \in Peers, Asleep(p)', NEW r \in Pending(p)'
             PROVE  <<p, r.body>> \in handlers'
  BY DEF WakeInv
<1>1. r \in Pending(p) \/ <<p, r.body>> \in handlers'
  BY PendingStep
<1>2. Asleep(p) \/ Pending(p) = {}
  BY SleepOrigin
<1>3. r \in Pending(p) => <<p, r.body>> \in handlers
  BY <1>2 DEF WakeInv
<1> QED
  BY <1>1, <1>3, NotifyKept

\* No wake is lost: a task sleeps with an empty queue of wakes only if every
\* row that is pending for its peer still has its notify_peer to come, so no
\* accepted message waits for the retry timer for want of a signal.  The wake
\* channel of capacity 1 is enough, whatever else happens in the daemon.
THEOREM WakesAreNotLost == Spec => []NoLostWake
<1>1. Init => WakeInv
  BY DEF Init, WakeInv, Asleep, NoTask
<1>2. TypeOK /\ SeqIsPlace /\ WakeInv /\ [Next]_vars => WakeInv'
  BY WakeStep
<1>3. WakeInv => NoLostWake
  BY DEF WakeInv, NoLostWake, Asleep
<1> QED
  BY <1>1, <1>2, <1>3, TypeInv, PTL DEF Spec

-----------------------------------------------------------------------------
(* Rows and what is pending.                                               *)

\* A row is the one its channel and number name.
LEMMA RowPlace ==
    ASSUME TypeOK, SeqIsPlace, NEW r \in AllRows
    PROVE  /\ r \in Row /\ r.ch \in Channels /\ r.seq \in Nat
           /\ r.seq \in DOMAIN outbox[r.ch] /\ r = outbox[r.ch][r.seq]
<1>0. PICK c \in Channels : \E i \in DOMAIN outbox[c] : r = outbox[c][i]
  BY DEF AllRows, Rows, Range
<1>1. PICK i \in DOMAIN outbox[c] : r = outbox[c][i]
  BY <1>0
<1>2. r.ch = c /\ r.seq = i
  BY <1>1 DEF SeqIsPlace
<1>3. r \in Row
  BY <1>1 DEF TypeOK
<1> QED
  BY <1>1, <1>2, <1>3 DEF Row

LEMMA RowNamed ==
    ASSUME TypeOK, SeqIsPlace, NEW q \in AllRows, NEW r \in AllRows,
           q.ch = r.ch, q.seq = r.seq
    PROVE  q = r
<1>1. /\ q.seq \in DOMAIN outbox[q.ch] /\ q = outbox[q.ch][q.seq]
      /\ r = outbox[r.ch][r.seq]
  BY RowPlace
<1> QED
  BY <1>1

LEMMA PendingRows ==
    ASSUME NEW p \in Peers, NEW r \in Pending(p)
    PROVE  r \in AllRows /\ r.peer = p /\ ~r.delivered
  BY DEF Pending

\* The query's order is the order of the numbers within a channel.
LEMMA SameChannel ==
    ASSUME TypeOK, SeqIsPlace, StampsFollow, NEW q \in AllRows, NEW r \in AllRows,
           q.ch = r.ch, q.seq < r.seq
    PROVE  Before(q, r)
<1>1. /\ q \in Row /\ r \in Row /\ r.ch \in Channels
      /\ q.seq \in DOMAIN outbox[r.ch] /\ q = outbox[r.ch][q.seq]
      /\ r.seq \in DOMAIN outbox[r.ch] /\ r = outbox[r.ch][r.seq]
  BY RowPlace
<1>2. q.ts <= r.ts
  BY <1>1 DEF StampsFollow
<1>3. q.ts \in Int /\ r.ts \in Int
  BY <1>1 DEF Row
<1> QED
  BY <1>2, <1>3 DEF Before

\* A task is at one row.
LEMMA AtOneRow ==
    ASSUME TypeOK, SeqIsPlace, NEW p \in Peers, task[p].batch \subseteq Pending(p),
           NEW q \in CurrentRow(p), NEW r \in CurrentRow(p)
    PROVE  q = r
<1>1. /\ q \in Row /\ r \in Row
      /\ q \in task[p].batch /\ r \in task[p].batch
      /\ ~Before(q, r) /\ ~Before(r, q)
  BY DEF CurrentRow, TypeOK, TaskState
<1>2. /\ q.ts \in Int /\ r.ts \in Int
      /\ q.ch \in Nat /\ r.ch \in Nat
      /\ q.seq \in Nat /\ r.seq \in Nat
  BY <1>1, DeliveryAssumption DEF Row
<1>3. q.ch = r.ch /\ q.seq = r.seq
  BY <1>1, <1>2 DEF Before
<1>4. q \in AllRows /\ r \in AllRows
  BY <1>1 DEF Pending
<1> QED
  BY <1>3, <1>4, RowNamed

\* A row that is pending after a step was pending before, or is the newest of
\* its channel; and it is not one that the step marked.
LEMMA PendingOrigin ==
    ASSUME TypeOK, SeqIsPlace, [Next]_vars, NEW p \in Peers, NEW r \in Pending(p)'
    PROVE  /\ \/ r \in Pending(p)
              \/ r.ch \in Channels /\ r.seq = Len(outbox[r.ch]) + 1
           /\ \A x \in Row : outbox' = Marked(x) => ~(x.ch = r.ch /\ x.seq = r.seq)
<1> DEFINE Old == r \in Pending(p)
           New == r.ch \in Channels /\ r.seq = Len(outbox[r.ch]) + 1
           Free1 == \A x \in Row : outbox' = Marked(x) => ~(x.ch = r.ch /\ x.seq = r.seq)
<1>0. PICK c \in Channels : \E i \in DOMAIN outbox'[c] :
        r = outbox'[c][i] /\ r.peer = p /\ ~r.delivered
  BY DEF Pending, AllRows, Rows, Range
<1>1. PICK i \in DOMAIN outbox'[c] :
        r = outbox'[c][i] /\ r.peer = p /\ ~r.delivered
  BY <1>0
<1>2. ASSUME i \in DOMAIN outbox[c], outbox'[c][i] = outbox[c][i]
      PROVE  Old
  BY <1>1, <1>2 DEF Pending, AllRows, Rows, Range
<1>3. ASSUME NEW x \in Row, outbox' = Marked(x)
      PROVE  Old /\ ~(x.ch = r.ch /\ x.seq = r.seq)
  <2>1. i \in DOMAIN outbox[c] /\ outbox[c][i] \in Row
    BY <1>1, <1>3, MarkedType DEF Marked, TypeOK
  <2>2. [outbox[c][i] EXCEPT !.delivered = TRUE].delivered
    BY <2>1 DEF Row
  <2>3. outbox'[c][i] = IF c = x.ch /\ outbox[c][i].seq = x.seq
                        THEN [outbox[c][i] EXCEPT !.delivered = TRUE]
                        ELSE outbox[c][i]
    BY <1>3, <2>1 DEF Marked, TypeOK
  <2>4. outbox'[c][i] = outbox[c][i] /\ ~(c = x.ch /\ outbox[c][i].seq = x.seq)
    BY <1>1, <2>2, <2>3
  <2>5. outbox[c][i].ch = c
    BY <2>1 DEF SeqIsPlace
  <2> QED
    BY <1>1, <1>2, <2>1, <2>4, <2>5
<1>4. Free1
  BY <1>3
<1>5. CASE UNCHANGED outbox
  BY <1>1, <1>2, <1>4, <1>5
<1>6. ASSUME NEW q \in Peers, MarkDelivered(q)
      PROVE  Old
  <2>1. CASE ~UNCHANGED outbox
    <3>1. PICK x \in CurrentRow(q) : outbox' = Marked(x)
      BY <1>6, <2>1 DEF MarkDelivered
    <3>2. x \in Row
      BY DEF CurrentRow, TypeOK, TaskState
    <3> QED
      BY <1>3, <3>1, <3>2
  <2> QED
    BY <1>1, <1>2, <2>1
<1>7. ASSUME NEW q \in Peers, NEW d \in Channels, NEW big \in Sizes,
             Send(q, d, big)
      PROVE  Old \/ New
  <2>1. PICK x \in ClockSteps : outbox' = [outbox EXCEPT ![d] = Append(@,
            [ch |-> d, seq |-> NextSeq(d), peer |-> q, body |-> nsent + 1,
             ts |-> clock + x, big |-> big, delivered |-> FALSE])]
    BY <1>7 DEF Send
  <2> DEFINE y == [ch |-> d, seq |-> NextSeq(d), peer |-> q, body |-> nsent + 1,
                   ts |-> clock + x, big |-> big, delivered |-> FALSE]
  <2>2. y.ch = d /\ y.seq = Len(outbox[d]) + 1
    BY NextSeqIsLen
  <2>3. outbox' = [outbox EXCEPT ![d] = Append(@, y)]
    BY <2>1
  <2> HIDE DEF y
  <2>4. CASE c # d
    <3>1. outbox'[c] = outbox[c]
      BY <2>3, <2>4 DEF TypeOK
    <3> QED
      BY <1>1, <1>2, <3>1
  <2>5. CASE c = d
    <3>1. outbox[c] \in Seq(Row) /\ outbox'[c] = Append(outbox[c], y)
      BY <2>3, <2>5 DEF TypeOK
    <3>2. /\ DOMAIN outbox'[c] = DOMAIN outbox[c] \cup {Len(outbox[c]) + 1}
          /\ \A j \in DOMAIN outbox[c] : outbox'[c][j] = outbox[c][j]
          /\ outbox'[c][Len(outbox[c]) + 1] = y
      BY <3>1
    <3>3. CASE i \in DOMAIN outbox[c]
      BY <1>2, <3>2, <3>3
    <3>4. CASE i = Len(outbox[c]) + 1
      BY <1>1, <2>2, <2>5, <3>2, <3>4
    <3> QED
      BY <1>1, <3>2, <3>3, <3>4
  <2> QED
    BY <2>4, <2>5
<1> QED
  BY <1>4, <1>5, <1>6, <1>7, OutboxWriters

\* A row of a batch stays pending for as long as it is in the batch.
LEMMA BatchStaysPending ==
    ASSUME TypeOK, SeqIsPlace, BatchOldest, [Next]_vars, NEW p \in Peers,
           NEW r \in task[p].batch, r \in task'[p].batch
    PROVE  r \in Pending(p)'
<1>0. r \in Pending(p) /\ r \in AllRows /\ r.peer = p /\ ~r.delivered
  BY PendingRows DEF BatchOldest
<1>1. /\ r.ch \in Channels /\ r.seq \in DOMAIN outbox[r.ch]
      /\ r = outbox[r.ch][r.seq]
  BY <1>0, RowPlace
<1>2. OutboxKept /\ \A c \in Channels : outbox[c] \in Seq(Row)
  BY OutboxStep DEF TypeOK
<1>3. ASSUME outbox'[r.ch][r.seq] = outbox[r.ch][r.seq],
             r.seq \in DOMAIN outbox'[r.ch]
      PROVE  r \in Pending(p)'
  BY <1>0, <1>1, <1>3 DEF Pending, AllRows, Rows, Range
<1>4. CASE UNCHANGED outbox
  BY <1>1, <1>3, <1>4
<1>5. ASSUME NEW q \in Peers, MarkDelivered(q), ~UNCHANGED outbox
      PROVE  r \in Pending(p)'
  <2>1. PICK x \in CurrentRow(q) :
           /\ outbox' = Marked(x)
           /\ task' = [task EXCEPT ![q].batch = @ \ {x},
                                   ![q].pc = IF task[q].batch = {x}
                                             THEN "fetch" ELSE "row"]
    BY <1>5 DEF MarkDelivered
  <2>2. x \in Row /\ x \in task[q].batch /\ x \in AllRows /\ x.peer = q
    BY DEF CurrentRow, TypeOK, TaskState, BatchOldest, Pending
  <2>3. CASE x.ch = r.ch /\ x.seq = r.seq
    <3>1. x = r /\ q = p
      BY <1>0, <2>2, <2>3, RowNamed
    <3>2. task'[p].batch = task[p].batch \ {r}
      BY <2>1, <3>1 DEF TypeOK, TaskState
    <3> QED
      BY <3>2
  <2>4. CASE ~(x.ch = r.ch /\ x.seq = r.seq)
    <3>1. r.seq \in DOMAIN outbox'[r.ch]
      BY <1>1, <1>2, <2>1, <2>2, MarkedType DEF Marked, TypeOK
    <3>2. outbox'[r.ch][r.seq] = outbox[r.ch][r.seq]
      BY <1>1, <2>1, <2>2, <2>4 DEF Marked, TypeOK
    <3> QED
      BY <1>3, <3>1, <3>2
  <2> QED
    BY <2>3, <2>4
<1>6. ASSUME NEW q \in Peers, NEW d \in Channels, NEW big \in Sizes,
             Send(q, d, big)
      PROVE  r \in Pending(p)'
  <2>1. \E y : outbox' = [outbox EXCEPT ![d] = Append(@, y)]
    BY <1>6 DEF Send
  <2>2. PICK y : outbox' = [outbox EXCEPT ![d] = Append(@, y)]
    BY <2>1
  <2>3. /\ r.seq \in DOMAIN outbox'[r.ch]
        /\ outbox'[r.ch][r.seq] = outbox[r.ch][r.seq]
    <3>1. CASE r.ch # d
      BY <1>1, <2>2, <3>1 DEF TypeOK
    <3>2. CASE r.ch = d
      <4>1. outbox'[d] = Append(outbox[d], y) /\ outbox[d] \in Seq(Row)
        BY <2>2 DEF TypeOK
      <4>2. \A j \in DOMAIN outbox[d] : j \in DOMAIN outbox'[d] /\ outbox'[d][j] = outbox[d][j]
        BY <4>1
      <4> QED
        BY <1>1, <3>2, <4>2
    <3> QED
      BY <3>1, <3>2
  <2> QED
    BY <1>3, <2>3
<1> QED
  BY <1>4, <1>5, <1>6, OutboxWriters

\* Without a step back of the clock, stamps follow the numbers.
LEMMA StampsStep ==
    ASSUME ClockSteps \subseteq Nat, TypeOK, SeqIsPlace, StampsFollow, [Next]_vars
    PROVE  StampsFollow'
<1>a. /\ clock \in Int /\ \A c \in Channels : outbox[c] \in Seq(Row)
      /\ \A c \in Channels : \A i \in DOMAIN outbox[c] : outbox[c][i] \in Row
  BY DEF TypeOK
<1>b. \A r \in Row : r.ts \in Int /\ [r EXCEPT !.delivered = TRUE].ts = r.ts
  BY DEF Row
<1>0. /\ clock \in Int /\ \A c \in Channels : outbox[c] \in Seq(Row)
      /\ \A c \in Channels : \A i \in DOMAIN outbox[c] : outbox[c][i].ts \in Int
  BY <1>a, <1>b
<1>1. CASE \E q \in Peers, d \in Channels, big \in Sizes : Send(q, d, big)
  <2>1. PICK q \in Peers, d \in Channels, big \in Sizes : Send(q, d, big)
    BY <1>1
  <2>2. PICK x \in ClockSteps :
          /\ clock' = clock + x
          /\ outbox' = [outbox EXCEPT ![d] = Append(@,
               [ch |-> d, seq |-> NextSeq(d), peer |-> q, body |-> nsent + 1,
                ts |-> clock + x, big |-> big, delivered |-> FALSE])]
    BY <2>1 DEF Send
  <2> DEFINE y == [ch |-> d, seq |-> NextSeq(d), peer |-> q, body |-> nsent + 1,
                   ts |-> clock + x, big |-> big, delivered |-> FALSE]
  <2>3. y.ts = clock + x /\ x \in Nat
    OBVIOUS
  <2>4. outbox' = [outbox EXCEPT ![d] = Append(@, y)]
    BY <2>2
  <2> HIDE DEF y
  <2>5. clock' \in Int /\ clock <= clock' /\ y.ts = clock'
    BY <1>0, <2>2, <2>3
  <2>6. \A c \in Channels \ {d} : outbox'[c] = outbox[c]
    BY <2>4 DEF TypeOK
  <2>7. /\ outbox[d] \in Seq(Row) /\ outbox'[d] = Append(outbox[d], y)
        /\ Len(outbox[d]) \in Nat
    BY <2>4 DEF TypeOK
  <2>8. /\ DOMAIN outbox[d] = 1 .. Len(outbox[d])
        /\ DOMAIN outbox'[d] = DOMAIN outbox[d] \cup {Len(outbox[d]) + 1}
        /\ \A j \in DOMAIN outbox[d] : outbox'[d][j] = outbox[d][j]
        /\ outbox'[d][Len(outbox[d]) + 1] = y
    BY <2>7
  <2>9. ASSUME NEW c \in Channels, NEW i \in DOMAIN outbox'[c], NEW j \in DOMAIN outbox'[c]
        PROVE  outbox'[c][i].ts <= clock' /\ (i < j => outbox'[c][i].ts <= outbox'[c][j].ts)
    <3>1. CASE c # d
      <4>1. outbox'[c] = outbox[c]
        BY <2>6, <3>1
      <4>2. /\ outbox[c][i].ts <= clock
            /\ i < j => outbox[c][i].ts <= outbox[c][j].ts
        BY <4>1 DEF StampsFollow
      <4> QED
        BY <1>0, <2>5, <4>1, <4>2
    <3>2. CASE c = d /\ i \in DOMAIN outbox[d]
      <4>1. outbox[d][i].ts <= clock /\ outbox'[d][i] = outbox[d][i]
        BY <2>8, <3>2 DEF StampsFollow
      <4>2. outbox[d][i].ts <= clock'
        BY <1>0, <2>5, <3>2, <4>1
      <4>3. CASE j \in DOMAIN outbox[d]
        <5>1. i < j => outbox[d][i].ts <= outbox[d][j].ts
          BY <3>2, <4>3 DEF StampsFollow
        <5> QED
          BY <2>8, <3>2, <4>1, <4>2, <4>3, <5>1
      <4>4. CASE j = Len(outbox[d]) + 1
        BY <2>5, <2>8, <3>2, <4>1, <4>2, <4>4
      <4> QED
        BY <2>8, <3>2, <4>3, <4>4
    <3>3. CASE c = d /\ i = Len(outbox[d]) + 1
      <4>1. ~(i < j)
        BY <2>7, <2>8, <3>3
      <4> QED
        BY <2>5, <2>8, <3>3, <4>1
    <3> QED
      BY <2>8, <3>1, <3>2, <3>3
  <2> QED
    BY <2>9 DEF StampsFollow
<1>2. ASSUME UNCHANGED clock, \A c \in Channels : DOMAIN outbox'[c] = DOMAIN outbox[c]
      PROVE  StampsFollow'
  <2>1. OutboxKept
    BY OutboxStep
  <2>2. \A c \in Channels : \A i \in DOMAIN outbox[c] : outbox'[c][i].ts = outbox[c][i].ts
    BY <1>a, <1>b, <2>1 DEF OutboxKept
  <2> QED
    BY <1>2, <2>2 DEF StampsFollow
<1>3. CASE UNCHANGED outbox /\ UNCHANGED clock
  BY <1>2, <1>3
<1>4. ASSUME NEW q \in Peers, MarkDelivered(q), ~UNCHANGED outbox
      PROVE  StampsFollow'
  <2>1. PICK x \in CurrentRow(q) : outbox' = Marked(x)
    BY <1>4 DEF MarkDelivered
  <2>2. x \in Row
    BY DEF CurrentRow, TypeOK, TaskState
  <2>3. \A c \in Channels : DOMAIN outbox'[c] = DOMAIN outbox[c]
    BY <2>1, <2>2, MarkedType DEF Marked, TypeOK
  <2> QED
    BY <1>2, <1>4, <2>3 DEF MarkDelivered
<1>5. \/ UNCHANGED clock
      \/ \E q \in Peers, d \in Channels, big \in Sizes : Send(q, d, big)
  BY DEF Next, vars, envVars, NotifyPeer, ScanBacklog, ResumePeer, TaskStep,
         FetchBatch, DrainDone, OpenStream, OpenFails, WriteFrame, WriteFails,
         MarkDelivered, TakeWake, RetryTimer, SeeShutdown, TaskExit, Shutdown,
         CloseTransport, Exit, Crash, Down, Restart, SenderPairing,
         ReceiverPairing, Break, LoseFrame, StreamStep, AcceptStream, AcceptFails,
         ReadFrame, ReadEnds, RecordFrame, EmitFrame, ConsumerEnds, ReceiverCrash
<1> QED
  BY <1>1, <1>3, <1>4, <1>5, OutboxWriters

-----------------------------------------------------------------------------
(* What a step can do to the task of p, as far as the order is concerned.  *)

\* It goes on with what it has.
GoesOn(p) ==
    /\ task'[p].batch = task[p].batch
    /\ task'[p].streams = task[p].streams
    /\ task'[p].pc = "mark" <=> task[p].pc = "mark"

\* It has the answer of its query.
Fetches(p) ==
    /\ task[p].pc = "fetch"
    /\ task'[p].pc = "row"
    /\ task'[p].batch \in Batches(p)
    /\ task'[p].streams = task[p].streams
    /\ UNCHANGED outbox

\* It opens a stream for the channel of a row.
Opens(p) ==
    /\ OpenStream(p)
    /\ task[p].pc = "row" /\ task'[p].pc = "row"
    /\ task'[p].batch = task[p].batch
    /\ \E c \in Channels, k \in Slots :
         /\ task[p].streams[c] = None
         /\ task'[p].streams = [task[p].streams EXCEPT ![c] = k]
         /\ Free(<<p, c, k>>)
         /\ net' = [net EXCEPT ![<<p, c, k>>] =
                      [NoStream EXCEPT !.conn = "up", !.rx = "opening"]]

\* It writes the row it is at.
Writes(p) ==
    /\ WriteFrame(p)
    /\ task[p].pc = "row" /\ task'[p].pc = "mark"
    /\ task'[p].batch = task[p].batch
    /\ task'[p].streams = task[p].streams

\* It marks the row it is at.
Marks(p) ==
    /\ task[p].pc = "mark" /\ task'[p].pc # "mark"
    /\ task'[p].streams = task[p].streams
    /\ \E r \in CurrentRow(p) :
         outbox' = Marked(r) /\ task'[p].batch = task[p].batch \ {r}

\* It drops what it has, for one of the reasons there are.
Drops(p) ==
    /\ task'[p].pc # "mark"
    /\ task'[p].batch = {}
    /\ task'[p].streams = NoStreams
    /\ \/ Backoff(p) \/ TaskExit(p) \/ Exit \/ Crash
       \/ task[p].waker = "none"

LEMMA TaskMoves ==
    ASSUME TypeOK, [Next]_vars, NEW p \in Peers
    PROVE  \/ GoesOn(p) \/ Fetches(p) \/ Opens(p) \/ Writes(p) \/ Marks(p)
           \/ Drops(p)
<1> DEFINE Goal == \/ GoesOn(p) \/ Fetches(p) \/ Opens(p) \/ Writes(p)
                   \/ Marks(p) \/ Drops(p)
<1>0. task[p] \in TaskState
  BY DEF TypeOK
<1>1. CASE task'[p] = task[p]
  BY <1>1 DEF GoesOn
<1>2. ASSUME NEW q \in Peers, task' = Notified(q), task'[p] # task[p]
      PROVE  Goal
  <2>1. p = q
    BY <1>2 DEF Notified, TypeOK
  <2>2. CASE task[p].waker = "none"
    <3>1. task'[p] = [NoTask EXCEPT !.pc = "fetch", !.waker = "quiet"]
      BY <1>2, <2>1, <2>2 DEF Notified, TypeOK
    <3> QED
      BY <2>2, <3>1 DEF Drops, NoTask
  <2>3. CASE task[p].waker # "none"
    <3>1. task'[p] = [task[p] EXCEPT !.waker = "queued"]
      BY <1>2, <2>1, <2>3 DEF Notified, TypeOK
    <3> QED
      BY <1>0, <3>1 DEF GoesOn, TaskState
  <2> QED
    BY <2>2, <2>3
<1>3. CASE Shutdown
  <2>1. task'[p] = [task[p] EXCEPT !.stop = task[p].pc # "none"]
    BY <1>3 DEF Shutdown
  <2> QED
    BY <1>0, <2>1 DEF TaskState, GoesOn
<1>4. CASE Exit \/ Crash
  <2>1. task'[p] = NoTask
    BY <1>4 DEF Exit, Crash, Down
  <2> QED
    BY <1>4, <2>1 DEF NoTask, Drops
<1>5. ASSUME NEW q \in Peers, TaskStep(q), task'[p] # task[p]
      PROVE  Goal
  <2>1. CASE Backoff(q)
    <3>1. p = q
      BY <1>5, <2>1 DEF Backoff, TypeOK
    <3>2. task'[p].pc = "backoff" /\ task'[p].batch = {} /\ task'[p].streams = NoStreams
      BY <1>0, <2>1, <3>1 DEF Backoff, TypeOK, TaskState
    <3> QED
      BY <2>1, <3>1, <3>2 DEF Drops
  <2>2. ASSUME NEW B \in Batches(q), task[q].pc = "fetch", UNCHANGED outbox,
               task' = [task EXCEPT ![q].pc = "row", ![q].batch = B]
        PROVE  Goal
    <3>1. p = q
      BY <1>5, <2>2 DEF TypeOK
    <3>2. /\ task'[p].pc = "row" /\ task'[p].batch = B
          /\ task'[p].streams = task[p].streams
      BY <1>0, <2>2, <3>1 DEF TypeOK, TaskState
    <3> QED
      BY <2>2, <3>1, <3>2 DEF Fetches
  <2>3. ASSUME NEW x \in {"idle", "fetch", "exit"}, NEW w, task[q].pc # "mark",
               \/ task' = [task EXCEPT ![q].pc = x]
               \/ task' = [task EXCEPT ![q].pc = x, ![q].waker = w]
        PROVE  Goal
    <3>1. p = q
      BY <1>5, <2>3 DEF TypeOK
    <3>2. /\ task'[p].pc = x /\ task'[p].batch = task[p].batch
          /\ task'[p].streams = task[p].streams
      BY <1>0, <2>3, <3>1 DEF TypeOK, TaskState
    <3> QED
      BY <2>3, <3>1, <3>2 DEF GoesOn
  <2>4. CASE OpenStream(q)
    <3>1. p = q
      BY <1>5, <2>4 DEF OpenStream, TypeOK
    <3>2. PICK r \in CurrentRow(p), k \in Slots :
            /\ task[p].streams[r.ch] = None
            /\ Free(<<p, r.ch, k>>)
            /\ net' = [net EXCEPT ![<<p, r.ch, k>>] =
                         [NoStream EXCEPT !.conn = "up", !.rx = "opening"]]
            /\ task' = [task EXCEPT ![p].streams[r.ch] = k]
      BY <2>4, <3>1 DEF OpenStream
    <3>3. r.ch \in Channels
      BY <1>0 DEF CurrentRow, TaskState, Row
    <3>4. /\ task'[p].pc = task[p].pc /\ task'[p].batch = task[p].batch
          /\ task'[p].streams = [task[p].streams EXCEPT ![r.ch] = k]
      BY <1>0, <3>2 DEF TypeOK, TaskState
    <3>5. task[p].pc = "row"
      BY <2>4, <3>1 DEF OpenStream
    <3> QED
      BY <2>4, <3>1, <3>2, <3>3, <3>4, <3>5 DEF Opens
  <2>5. CASE WriteFrame(q)
    <3>1. p = q
      BY <1>5, <2>5 DEF WriteFrame, TypeOK
    <3>2. /\ task'[p].pc = "mark" /\ task'[p].batch = task[p].batch
          /\ task'[p].streams = task[p].streams
      BY <1>0, <2>5, <3>1 DEF WriteFrame, TypeOK, TaskState
    <3>3. task[p].pc = "row"
      BY <2>5, <3>1 DEF WriteFrame
    <3> QED
      BY <2>5, <3>1, <3>2, <3>3 DEF Writes
  <2>6. ASSUME MarkDelivered(q), ~Backoff(q)
        PROVE  Goal
    <3>1. PICK r \in CurrentRow(q) :
             /\ outbox' = Marked(r)
             /\ task' = [task EXCEPT ![q].batch = @ \ {r},
                                     ![q].pc = IF task[q].batch = {r}
                                               THEN "fetch" ELSE "row"]
      BY <2>6 DEF MarkDelivered
    <3>2. p = q
      BY <1>5, <3>1 DEF TypeOK
    <3>3. /\ task'[p].batch = task[p].batch \ {r}
          /\ task'[p].pc \in {"fetch", "row"}
          /\ task'[p].streams = task[p].streams
      BY <1>0, <3>1, <3>2 DEF TypeOK, TaskState
    <3>4. task[p].pc = "mark"
      BY <2>6, <3>2 DEF MarkDelivered
    <3> QED
      BY <3>1, <3>2, <3>3, <3>4 DEF Marks
  <2>7. CASE TaskExit(q)
    <3>1. p = q
      BY <1>5, <2>7 DEF TaskExit, TypeOK
    <3>2. task'[p] = NoTask
      BY <2>7, <3>1 DEF TaskExit, TypeOK
    <3> QED
      BY <2>7, <3>1, <3>2 DEF NoTask, Drops
  <2>8. CASE FetchBatch(q)
    BY <2>1, <2>2, <2>8 DEF FetchBatch
  <2>9. CASE DrainDone(q)
    BY <2>3, <2>9 DEF DrainDone
  <2>10. CASE TakeWake(q) \/ RetryTimer(q) \/ SeeShutdown(q)
    BY <2>3, <2>10 DEF TakeWake, RetryTimer, SeeShutdown
  <2>11. CASE OpenFails(q) \/ WriteFails(q)
    BY <2>1, <2>11 DEF OpenFails, WriteFails
  <2> QED
    BY <1>5, <2>1, <2>4, <2>5, <2>6, <2>7, <2>8, <2>9, <2>10, <2>11
       DEF TaskStep
<1>6. \A h \in handlers : h[1] \in Peers
  BY DEF TypeOK
<1> QED
  BY <1>1, <1>2, <1>3, <1>4, <1>5, <1>6, TaskWriters DEF NotifyPeer, ResumePeer

-----------------------------------------------------------------------------
(* Batches are the oldest rows, and tasks do not turn back.                *)

LEMMA BatchOldestStep ==
    ASSUME TypeOK, SeqIsPlace, StampsFollow, BatchOldest, [Next]_vars
    PROVE  BatchOldest'
<1> SUFFICES ASSUME NEW p \in Peers, NEW r \in task'[p].batch
             PROVE  /\ r \in Pending(p)'
                    /\ \A q \in Pending(p)' : q.ch = r.ch /\ q.seq < r.seq
                                                => q \in task'[p].batch
  BY DEF BatchOldest
<1>1. ASSUME Fetches(p)
      PROVE  /\ r \in Pending(p)'
             /\ \A q \in Pending(p)' : q.ch = r.ch /\ q.seq < r.seq
                                         => q \in task'[p].batch
  <2>1. Pending(p)' = Pending(p)
    BY <1>1 DEF Fetches, Pending, AllRows, Rows
  <2>2. /\ task'[p].batch \subseteq Pending(p)
        /\ \A x \in task'[p].batch, q \in Pending(p) \ task'[p].batch : ~Before(q, x)
    BY <1>1 DEF Fetches, Batches
  <2>3. \A q \in Pending(p) : q \in AllRows
    BY PendingRows
  <2> QED
    BY <2>1, <2>2, <2>3, SameChannel
<1>2. ASSUME task'[p].batch \subseteq task[p].batch,
             \A q \in task[p].batch \ task'[p].batch : q \notin Pending(p)'
      PROVE  /\ r \in Pending(p)'
             /\ \A q \in Pending(p)' : q.ch = r.ch /\ q.seq < r.seq
                                         => q \in task'[p].batch
  <2>1. r \in Pending(p)'
    BY <1>2, BatchStaysPending
  <2>2. r \in Pending(p) /\ r \in AllRows
    BY <1>2, PendingRows DEF BatchOldest
  <2>3. /\ r.ch \in Channels /\ r.seq \in DOMAIN outbox[r.ch]
        /\ outbox[r.ch] \in Seq(Row)
    BY <2>2, RowPlace DEF TypeOK
  <2>4. ASSUME NEW q \in Pending(p)', q.ch = r.ch, q.seq < r.seq
        PROVE  q \in task'[p].batch
    <3>1. q \in Pending(p) \/ q.seq = Len(outbox[r.ch]) + 1
      BY <2>4, PendingOrigin
    <3>2. q.seq # Len(outbox[r.ch]) + 1
      BY <2>3, <2>4
    <3>3. q \in task[p].batch
      BY <1>2, <2>4, <3>1, <3>2 DEF BatchOldest
    <3> QED
      BY <1>2, <3>3
  <2> QED
    BY <2>1, <2>4
<1>3. CASE GoesOn(p)
  BY <1>2, <1>3 DEF GoesOn
<1>4. CASE Opens(p)
  BY <1>2, <1>4 DEF Opens
<1>5. CASE Writes(p)
  BY <1>2, <1>5 DEF Writes
<1>6. CASE Marks(p)
  <2>1. PICK x \in CurrentRow(p) :
          outbox' = Marked(x) /\ task'[p].batch = task[p].batch \ {x}
    BY <1>6 DEF Marks
  <2>2. x \in Row
    BY DEF CurrentRow, TypeOK, TaskState
  <2>3. x \notin Pending(p)'
    BY <2>1, <2>2, PendingOrigin
  <2> QED
    BY <1>2, <2>1, <2>3
<1>7. CASE Drops(p)
  BY <1>7 DEF Drops
<1> QED
  BY <1>1, <1>3, <1>4, <1>5, <1>6, <1>7, TaskMoves

\* What a task has got past, it has got past for good, as long as it does not
\* drop what it has.
LEMMA PassedStep ==
    ASSUME TypeOK, SeqIsPlace, BatchOldest, [Next]_vars,
           NEW p \in Peers, NEW c \in Channels, NEW n \in 0 .. Len(outbox[c]),
           Passed(p, c, n), ~Drops(p)
    PROVE  Passed(p, c, n)'
<1> SUFFICES ASSUME NEW r \in Pending(p)', r.ch = c
             PROVE  \/ n < r.seq
                    \/ n = r.seq /\ task'[p].pc = "mark" /\ r \in CurrentRow(p)'
  BY DEF Passed
<1>0. Len(outbox[c]) \in Nat
  BY DEF TypeOK
<1>1. CASE r \notin Pending(p)
  <2>1. r.seq = Len(outbox[c]) + 1
    BY <1>1, PendingOrigin
  <2> QED
    BY <1>0, <2>1
<1>2. CASE r \in Pending(p)
  <2>1. n < r.seq \/ (n = r.seq /\ task[p].pc = "mark" /\ r \in CurrentRow(p))
    BY <1>2 DEF Passed
  <2>2. ASSUME n = r.seq, task[p].pc = "mark", r \in CurrentRow(p)
        PROVE  n = r.seq /\ task'[p].pc = "mark" /\ r \in CurrentRow(p)'
    <3>1. CASE GoesOn(p)
      BY <2>2, <3>1 DEF GoesOn, CurrentRow, Before
    <3>2. CASE Marks(p)
      <4>1. PICK x \in CurrentRow(p) : outbox' = Marked(x)
        BY <3>2 DEF Marks
      <4>2. x = r /\ x \in Row
        BY <2>2, AtOneRow DEF BatchOldest, CurrentRow, TypeOK, TaskState
      <4> QED
        BY <4>1, <4>2, PendingOrigin
    <3> QED
      BY <2>2, <3>1, <3>2, TaskMoves DEF Fetches, Opens, Writes
  <2> QED
    BY <2>1, <2>2
<1> QED
  BY <1>1, <1>2

\* A row that is written is then the one its task has got past.
LEMMA WritePasses ==
    ASSUME TypeOK, SeqIsPlace, StampsFollow, BatchOldest, NEW p \in Peers, Writes(p),
           NEW r \in CurrentRow(p)
    PROVE  Passed(p, r.ch, r.seq)'
<1>1. UNCHANGED outbox
  BY DEF Writes, WriteFrame
<1>2. Pending(p)' = Pending(p)
  BY <1>1 DEF Pending, AllRows, Rows
<1>3. r \in task[p].batch /\ r \in Pending(p) /\ r \in AllRows
  BY PendingRows DEF CurrentRow, BatchOldest
<1> SUFFICES ASSUME NEW x \in Pending(p), x.ch = r.ch
             PROVE  \/ r.seq < x.seq
                    \/ r.seq = x.seq /\ task'[p].pc = "mark" /\ x \in CurrentRow(p)'
  BY <1>2 DEF Passed
<1>4. x \in AllRows /\ x.seq \in Nat /\ r.seq \in Nat
  BY <1>3, PendingRows, RowPlace
<1>5. CASE x.seq < r.seq
  <2>1. x \in task[p].batch
    BY <1>3, <1>5 DEF BatchOldest
  <2>2. Before(x, r)
    BY <1>3, <1>4, <1>5, SameChannel
  <2> QED
    BY <2>1, <2>2 DEF CurrentRow
<1>6. CASE x.seq = r.seq
  <2>1. x = r
    BY <1>3, <1>4, <1>6, RowNamed
  <2>2. r \in CurrentRow(p)'
    BY DEF CurrentRow, Before, Writes
  <2> QED
    BY <2>1, <2>2 DEF Writes
<1> QED
  BY <1>4, <1>5, <1>6

-----------------------------------------------------------------------------
(* Sequences of frames with increasing numbers.                            *)

Increasing(q) == \A i, j \in DOMAIN q : i < j => q[i].seq < q[j].seq

LEMMA ConcatIncreasing ==
    ASSUME NEW q \in Seq(Frame), NEW w \in Seq(Frame)
    PROVE  Increasing(q \o w) <=>
              /\ Increasing(q) /\ Increasing(w)
              /\ \A f \in Range(q), g \in Range(w) : f.seq < g.seq
<1> DEFINE L == Len(q)
           M == Len(w)
           v == q \o w
<1>1. /\ L \in Nat /\ M \in Nat /\ DOMAIN q = 1 .. L /\ DOMAIN w = 1 .. M
      /\ DOMAIN v = 1 .. (L + M)
      /\ \A i \in 1 .. L : v[i] = q[i]
      /\ \A i \in 1 .. M : v[L + i] = w[i]
  OBVIOUS
<1>2. \A i \in DOMAIN v : i \in 1 .. L \/ (i - L \in 1 .. M /\ v[i] = w[i - L])
  BY <1>1
<1> HIDE DEF L, M, v
<1>3. ASSUME Increasing(v)
      PROVE  /\ Increasing(q) /\ Increasing(w)
             /\ \A f \in Range(q), g \in Range(w) : f.seq < g.seq
  <2>1. Increasing(q)
    BY <1>1, <1>3 DEF Increasing
  <2>2. Increasing(w)
    <3> SUFFICES ASSUME NEW i \in 1 .. M, NEW j \in 1 .. M, i < j
                 PROVE  w[i].seq < w[j].seq
      BY <1>1 DEF Increasing
    <3>1. L + i \in DOMAIN v /\ L + j \in DOMAIN v /\ L + i < L + j
      BY <1>1
    <3>2. v[L + i].seq < v[L + j].seq
      BY <1>3, <3>1 DEF Increasing
    <3> QED
      BY <1>1, <3>2
  <2>3. ASSUME NEW i \in 1 .. L, NEW j \in 1 .. M
        PROVE  q[i].seq < w[j].seq
    <3>1. i \in DOMAIN v /\ L + j \in DOMAIN v /\ i < L + j
      BY <1>1
    <3>2. v[i].seq < v[L + j].seq
      BY <1>3, <3>1 DEF Increasing
    <3> QED
      BY <1>1, <3>2
  <2> QED
    BY <1>1, <2>1, <2>2, <2>3 DEF Range
<1>4. ASSUME Increasing(q), Increasing(w),
             \A f \in Range(q), g \in Range(w) : f.seq < g.seq
      PROVE  Increasing(v)
  <2>1. \A i \in 1 .. L, j \in 1 .. M : q[i].seq < w[j].seq
    BY <1>1, <1>4 DEF Range
  <2> SUFFICES ASSUME NEW i \in DOMAIN v, NEW j \in DOMAIN v, i < j
               PROVE  v[i].seq < v[j].seq
    BY DEF Increasing
  <2>2. CASE i \in 1 .. L /\ j \in 1 .. L
    BY <1>1, <1>4, <2>2 DEF Increasing
  <2>3. CASE i \in 1 .. L /\ j \notin 1 .. L
    <3>1. j - L \in 1 .. M /\ v[j] = w[j - L] /\ v[i] = q[i]
      BY <1>1, <1>2, <2>3
    <3> QED
      BY <2>1, <2>3, <3>1
  <2>4. CASE i \notin 1 .. L
    <3>1. j \notin 1 .. L
      BY <1>1, <2>4
    <3>2. /\ i - L \in 1 .. M /\ v[i] = w[i - L]
          /\ j - L \in 1 .. M /\ v[j] = w[j - L] /\ i - L < j - L
      BY <1>1, <1>2, <2>4, <3>1
    <3> QED
      BY <1>1, <1>4, <3>2 DEF Increasing
  <2> QED
    BY <2>2, <2>3, <2>4
<1>5. Increasing(v) <=> /\ Increasing(q) /\ Increasing(w)
                        /\ \A f \in Range(q), g \in Range(w) : f.seq < g.seq
  BY <1>3, <1>4
<1> QED
  BY <1>5 DEF v

LEMMA AppendIncreasing ==
    ASSUME NEW q \in Seq(Frame), NEW e \in Frame, Increasing(q),
           \A f \in Range(q) : f.seq < e.seq
    PROVE  Increasing(Append(q, e))
<1> DEFINE v == Append(q, e)
<1>1. /\ Len(q) \in Nat /\ DOMAIN q = 1 .. Len(q)
      /\ DOMAIN v = 1 .. (Len(q) + 1)
      /\ \A i \in 1 .. Len(q) : v[i] = q[i]
      /\ v[Len(q) + 1] = e
  OBVIOUS
<1>2. \A i \in 1 .. Len(q) : q[i].seq < e.seq
  BY <1>1 DEF Range
<1> HIDE DEF v
<1>3. Increasing(v)
  <2> SUFFICES ASSUME NEW i \in DOMAIN v, NEW j \in DOMAIN v, i < j
               PROVE  v[i].seq < v[j].seq
    BY DEF Increasing
  <2>1. i \in 1 .. Len(q) /\ (j \in 1 .. Len(q) \/ j = Len(q) + 1)
    BY <1>1
  <2>2. CASE j \in 1 .. Len(q)
    BY <1>1, <2>1, <2>2 DEF Increasing
  <2>3. CASE j = Len(q) + 1
    BY <1>1, <1>2, <2>1, <2>3
  <2> QED
    BY <2>1, <2>2, <2>3
<1> QED
  BY <1>3 DEF v

LEMMA TailIncreasing ==
    ASSUME NEW q \in Seq(Frame), q # <<>>, Increasing(q)
    PROVE  /\ Increasing(Tail(q))
           /\ \A f \in Range(Tail(q)) : Head(q).seq < f.seq
<1> DEFINE v == Tail(q)
<1>1. /\ DOMAIN q = 1 .. Len(q) /\ Len(q) \in Nat \ {0} /\ Head(q) = q[1]
      /\ DOMAIN v = 1 .. (Len(q) - 1)
      /\ \A i \in 1 .. (Len(q) - 1) : v[i] = q[i + 1]
  OBVIOUS
<1> HIDE DEF v
<1>2. Increasing(v)
  <2> SUFFICES ASSUME NEW i \in DOMAIN v, NEW j \in DOMAIN v, i < j
               PROVE  v[i].seq < v[j].seq
    BY DEF Increasing
  <2>1. /\ i + 1 \in DOMAIN q /\ j + 1 \in DOMAIN q /\ i + 1 < j + 1
        /\ v[i] = q[i + 1] /\ v[j] = q[j + 1]
    BY <1>1
  <2> QED
    BY <2>1 DEF Increasing
<1>3. ASSUME NEW i \in DOMAIN v
      PROVE  Head(q).seq < v[i].seq
  <2>1. 1 \in DOMAIN q /\ i + 1 \in DOMAIN q /\ 1 < i + 1 /\ v[i] = q[i + 1]
    BY <1>1
  <2> QED
    BY <1>1, <2>1 DEF Increasing
<1>4. \A f \in Range(v) : Head(q).seq < f.seq
  BY <1>3 DEF Range
<1> QED
  BY <1>2, <1>4 DEF v

LEMMA FrontIncreasing ==
    ASSUME NEW q \in Seq(Frame), q # <<>>, Increasing(q)
    PROVE  Increasing(SubSeq(q, 1, Len(q) - 1))
<1> DEFINE v == SubSeq(q, 1, Len(q) - 1)
<1>1. /\ DOMAIN q = 1 .. Len(q) /\ Len(q) \in Nat \ {0}
      /\ DOMAIN v = 1 .. (Len(q) - 1)
      /\ \A i \in 1 .. (Len(q) - 1) : v[i] = q[i]
  OBVIOUS
<1>2. \A i \in DOMAIN v : i \in DOMAIN q /\ v[i] = q[i]
  BY <1>1
<1> HIDE DEF v
<1>3. Increasing(v)
  BY <1>2 DEF Increasing
<1> QED
  BY <1>3 DEF v

-----------------------------------------------------------------------------
(* What a step can do to the frames of stream s.                           *)

SameQueues(s) ==
    net'[s].wire = net[s].wire /\ net'[s].buf = net[s].buf /\ net'[s].hold = net[s].hold

Empties(s) == net'[s].wire = <<>> /\ net'[s].buf = <<>> /\ net'[s].hold = None

Takes(s) ==
    \E r \in CurrentRow(PeerOf(s)) :
        /\ WriteFrame(PeerOf(s))
        /\ r.ch = ChanOf(s) /\ Held(s)
        /\ net'[s].wire = Append(net[s].wire, [seq |-> r.seq, body |-> r.body])
        /\ net'[s].buf = net[s].buf /\ net'[s].hold = net[s].hold

Loses(s) ==
    /\ LoseFrame(s)
    /\ net[s].wire # <<>>
    /\ net'[s].wire = SubSeq(net[s].wire, 1, Len(net[s].wire) - 1)
    /\ net'[s].buf = net[s].buf /\ net'[s].hold = net[s].hold

Reads(s) ==
    /\ net[s].wire # <<>>
    /\ net'[s].wire = Tail(net[s].wire)
    /\ net'[s].buf = Append(net[s].buf, Head(net[s].wire))
    /\ net'[s].hold = net[s].hold

Records(s) ==
    /\ net[s].buf # <<>> /\ net[s].hold = None
    /\ net'[s].wire = net[s].wire
    /\ net'[s].buf = Tail(net[s].buf)
    /\ net'[s].hold \in {None, Head(net[s].buf)}

Emits(s) ==
    /\ EmitFrame(s)
    /\ net[s].hold # None /\ net'[s].hold = None
    /\ net'[s].wire = net[s].wire /\ net'[s].buf = net[s].buf

LEMMA NetMoves ==
    ASSUME TypeOK, [Next]_vars, NEW s \in Streams
    PROVE  \/ SameQueues(s) \/ Empties(s) \/ Takes(s) \/ Loses(s) \/ Reads(s)
           \/ Records(s) \/ Emits(s)
<1> DEFINE Goal == \/ SameQueues(s) \/ Empties(s) \/ Takes(s) \/ Loses(s)
                   \/ Reads(s) \/ Records(s) \/ Emits(s)
<1>0. PeerOf(s) \in Peers /\ net[s] \in StreamState
  BY DEF Streams, PeerOf, TypeOK
<1>1. CASE net'[s] = net[s]
  BY <1>1 DEF SameQueues
<1>2. CASE \E S : net' = Cut(S)
  BY <1>0, <1>2 DEF Cut, StreamState, SameQueues
<1>3. ASSUME NEW p \in Peers, OpenStream(p), net'[s] # net[s]
      PROVE  Goal
  <2>1. PICK t : net' = [net EXCEPT ![t] =
                    [NoStream EXCEPT !.conn = "up", !.rx = "opening"]]
    BY <1>3 DEF OpenStream
  <2>2. net'[s] = [NoStream EXCEPT !.conn = "up", !.rx = "opening"]
    BY <1>3, <2>1 DEF TypeOK
  <2> QED
    BY <2>2 DEF NoStream, Empties
<1>4. ASSUME NEW p \in Peers, WriteFrame(p), net'[s] # net[s]
      PROVE  Goal
  <2>1. PICK r \in CurrentRow(p) :
          /\ task[p].streams[r.ch] # None
          /\ net' = [net EXCEPT ![StreamOf(p, r.ch)].wire =
                       Append(@, [seq |-> r.seq, body |-> r.body])]
    BY <1>4 DEF WriteFrame
  <2>2. s = StreamOf(p, r.ch)
    BY <1>4, <2>1 DEF TypeOK
  <2> DEFINE f == [seq |-> r.seq, body |-> r.body]
  <2>3. /\ net'[s].wire = Append(net[s].wire, f)
        /\ net'[s].buf = net[s].buf
        /\ net'[s].hold = net[s].hold
    BY <1>0, <2>1, <2>2 DEF TypeOK, StreamState
  <2>4. PeerOf(s) = p /\ ChanOf(s) = r.ch /\ Held(s)
    BY <2>2 DEF StreamOf, PeerOf, ChanOf, SlotOf, Held
  <2> QED
    BY <1>4, <2>3, <2>4 DEF Takes
<1>5. ASSUME NEW p \in Peers, ReceiverCrash(p), net'[s] # net[s]
      PROVE  Goal
  <2>1. net'[s] = NoStream
    BY <1>5 DEF ReceiverCrash
  <2> QED
    BY <2>1 DEF NoStream, Empties
<1>6. ASSUME NEW t \in Streams, LoseFrame(t), net'[s] # net[s]
      PROVE  Goal
  <2>1. s = t
    BY <1>6 DEF LoseFrame, TypeOK
  <2> QED
    BY <1>0, <1>6, <2>1 DEF LoseFrame, TypeOK, StreamState, Loses
<1>7. ASSUME NEW t \in Streams, AcceptStream(t) \/ AcceptFails(t),
             net'[s] # net[s]
      PROVE  Goal
  <2>1. s = t
    BY <1>7 DEF AcceptStream, AcceptFails, TypeOK
  <2>2. CASE net' = [net EXCEPT ![s].rx = "reading"]
    BY <1>0, <2>2 DEF TypeOK, StreamState, SameQueues
  <2>3. CASE net' = [net EXCEPT ![s] = NoStream]
    <3>1. net'[s] = NoStream
      BY <2>3 DEF TypeOK
    <3> QED
      BY <3>1 DEF NoStream, Empties
  <2> QED
    BY <1>7, <2>1, <2>2, <2>3 DEF AcceptStream, AcceptFails
<1>8. ASSUME NEW t \in Streams, ReadFrame(t), net'[s] # net[s]
      PROVE  Goal
  <2>1. s = t
    BY <1>8 DEF ReadFrame, TypeOK
  <2> QED
    BY <1>0, <1>8, <2>1 DEF ReadFrame, TypeOK, StreamState, Reads
<1>9. ASSUME NEW t \in Streams, ReadEnds(t) \/ ConsumerEnds(t),
             net'[s] # net[s]
      PROVE  Goal
  <2>1. s = t
    BY <1>9 DEF ReadEnds, ConsumerEnds, TypeOK
  <2> QED
    BY <1>0, <1>9, <2>1 DEF ReadEnds, ConsumerEnds, TypeOK, StreamState, SameQueues
<1>10. ASSUME NEW t \in Streams, RecordFrame(t), net'[s] # net[s]
      PROVE  Goal
  <2>1. s = t
    BY <1>10 DEF RecordFrame, TypeOK
  <2>2. /\ net'[s].wire = net[s].wire
        /\ net'[s].buf = Tail(net[s].buf)
        /\ net'[s].hold = Head(net[s].buf) \/ net'[s].hold = net[s].hold
    BY <1>0, <1>10, <2>1 DEF RecordFrame, TypeOK, StreamState
  <2>3. net[s].buf # <<>> /\ net[s].hold = None
    BY <1>10, <2>1 DEF RecordFrame
  <2> QED
    BY <2>2, <2>3 DEF Records
<1>11. ASSUME NEW t \in Streams, EmitFrame(t), net'[s] # net[s]
      PROVE  Goal
  <2>1. s = t
    BY <1>11 DEF EmitFrame, TypeOK
  <2> QED
    BY <1>0, <1>11, <2>1 DEF EmitFrame, TypeOK, StreamState, Emits
<1> QED
  BY <1>1, <1>2, <1>3, <1>4, <1>5, <1>6, <1>7, <1>8, <1>9, <1>10, <1>11,
     NetWriters

\* A frame that comes into a stream is written by the task that holds it.
LEMMA FramesStep ==
    ASSUME TypeOK, [Next]_vars, NEW s \in Streams, NEW f \in Frames(s)'
    PROVE  \/ f \in Frames(s)
           \/ /\ WriteFrame(PeerOf(s)) /\ Held(s)
              /\ \E r \in CurrentRow(PeerOf(s)) : r.ch = ChanOf(s) /\ f.seq = r.seq
<1>0. /\ net[s].wire \in Seq(Frame) /\ net[s].buf \in Seq(Frame)
      /\ PeerOf(s) \in Peers
      /\ f \in Range(net'[s].buf) \/ f \in Range(net'[s].wire)
  BY DEF TypeOK, StreamState, Frames, Streams, PeerOf
<1>1. CASE SameQueues(s)
  BY <1>0, <1>1 DEF SameQueues, Frames
<1>2. CASE Empties(s)
  BY <1>0, <1>2 DEF Empties, Range
<1>3. CASE Takes(s)
  <2>1. PICK r \in CurrentRow(PeerOf(s)) :
          /\ WriteFrame(PeerOf(s))
          /\ r.ch = ChanOf(s) /\ Held(s)
          /\ net'[s].wire = Append(net[s].wire, [seq |-> r.seq, body |-> r.body])
          /\ net'[s].buf = net[s].buf
    BY <1>3 DEF Takes
  <2> DEFINE g == [seq |-> r.seq, body |-> r.body]
  <2>2. g \in Frame
    BY <1>0 DEF Frame, CurrentRow, TypeOK, TaskState, Row
  <2>3. g.seq = r.seq
    OBVIOUS
  <2> HIDE DEF g
  <2>4. net'[s].wire = Append(net[s].wire, g)
    BY <2>1 DEF g
  <2>5. Range(net'[s].wire) = Range(net[s].wire) \cup {g}
    BY <1>0, <2>2, <2>4, AppendRange
  <2> QED
    BY <1>0, <2>1, <2>3, <2>5 DEF Frames
<1>4. CASE Loses(s)
  <2>1. Range(net[s].wire) = {net[s].wire[Len(net[s].wire)]} \cup Range(net'[s].wire)
    BY <1>0, <1>4, FrontRange DEF Loses
  <2> QED
    BY <1>0, <1>4, <2>1 DEF Loses, Frames
<1>5. CASE Reads(s)
  <2>1. Range(net[s].wire) = {Head(net[s].wire)} \cup Range(net'[s].wire)
    BY <1>0, <1>5, TailRange DEF Reads
  <2>2. Head(net[s].wire) \in Frame
    BY <1>0, <1>5 DEF Reads
  <2>3. Range(net'[s].buf) = Range(net[s].buf) \cup {Head(net[s].wire)}
    BY <1>0, <1>5, <2>2, AppendRange DEF Reads
  <2> QED
    BY <1>0, <2>1, <2>3 DEF Frames
<1>6. CASE Records(s)
  <2>1. Range(net[s].buf) = {Head(net[s].buf)} \cup Range(net'[s].buf)
    BY <1>0, <1>6, TailRange DEF Records
  <2> QED
    BY <1>0, <1>6, <2>1 DEF Records, Frames
<1>7. CASE Emits(s)
  BY <1>0, <1>7 DEF Emits, Frames
<1> QED
  BY <1>1, <1>2, <1>3, <1>4, <1>5, <1>6, <1>7, NetMoves

-----------------------------------------------------------------------------
(* Streams carry their channel's messages in order.                        *)

\* A stream that a task holds after a step it held before, or it is new.
LEMMA HeldStep ==
    ASSUME TypeOK, [Next]_vars, NEW s \in Streams, Held(s)'
    PROVE  /\ task'[PeerOf(s)].streams # NoStreams
           /\ ~Drops(PeerOf(s))
           /\ \/ Held(s)
              \/ Empties(s) /\ net'[s].conn = "up" /\ OpenStream(PeerOf(s))
<1> DEFINE p == PeerOf(s)
           c == ChanOf(s)
<1>0. /\ p \in Peers /\ c \in Channels /\ SlotOf(s) \in Slots
      /\ s = <<p, c, SlotOf(s)>>
  BY DEF Streams, PeerOf, ChanOf, SlotOf
<1> HIDE DEF p, c
<1>1. task'[p].streams[c] = SlotOf(s)
  BY DEF Held, p, c
<1>2. task'[p].streams # NoStreams
  BY <1>0, <1>1, DeliveryAssumption DEF NoStreams
<1>3. ~Drops(p)
  BY <1>2 DEF Drops
<1>4. ASSUME task'[p].streams = task[p].streams
      PROVE  Held(s)
  BY <1>1, <1>4 DEF Held, p, c
<1>5. ASSUME Opens(p), ~Held(s)
      PROVE  Empties(s) /\ net'[s].conn = "up" /\ OpenStream(p)
  <2>1. PICK d \in Channels, k \in Slots :
           /\ task'[p].streams = [task[p].streams EXCEPT ![d] = k]
           /\ net' = [net EXCEPT ![<<p, d, k>>] =
                        [NoStream EXCEPT !.conn = "up", !.rx = "opening"]]
    BY <1>5 DEF Opens
  <2>2. task[p].streams \in [Channels -> Slots \cup {None}]
    BY <1>0 DEF TypeOK, TaskState
  <2>3. task[p].streams[c] # SlotOf(s)
    BY <1>5 DEF Held, p, c
  <2>4. d = c /\ k = SlotOf(s)
    BY <1>0, <1>1, <2>1, <2>2, <2>3
  <2>5. net'[s] = [NoStream EXCEPT !.conn = "up", !.rx = "opening"]
    BY <1>0, <2>1, <2>4 DEF TypeOK
  <2> QED
    BY <1>5, <2>5 DEF NoStream, Empties, Opens
<1>6. \/ GoesOn(p) \/ Fetches(p) \/ Opens(p) \/ Writes(p) \/ Marks(p) \/ Drops(p)
  BY <1>0, TaskMoves
<1>7. Held(s) \/ (Empties(s) /\ net'[s].conn = "up" /\ OpenStream(p))
  BY <1>3, <1>4, <1>5, <1>6 DEF GoesOn, Fetches, Writes, Marks
<1> QED
  BY <1>2, <1>3, <1>7 DEF p

\* The number of a message of p's slice is that of a row of its channel.
LEMMA NumberOfRow ==
    ASSUME TypeOK, SeqIsPlace, NEW p \in Peers, NEW m \in Addressed(p)
    PROVE  m.ch \in Channels /\ m.seq \in 0 .. Len(outbox[m.ch])
<1>1. PICK r \in AllRows : m = MessageOf(r)
  BY DEF Addressed
<1>2. r.ch \in Channels /\ r.seq \in DOMAIN outbox[r.ch] /\ outbox[r.ch] \in Seq(Row)
  BY RowPlace DEF TypeOK
<1>3. m.ch = r.ch /\ m.seq = r.seq
  BY <1>1 DEF MessageOf
<1> QED
  BY <1>2, <1>3

LEMMA NumberOfFrame ==
    ASSUME TypeOK, SeqIsPlace, StreamsAddressed, NEW s \in Streams,
           NEW f, f \in Frames(s) \/ (f = net[s].hold /\ f # None)
    PROVE  ChanOf(s) \in Channels /\ f.seq \in 0 .. Len(outbox[ChanOf(s)])
<1>1. Msg(s, f) \in InStream(s)
  BY DEF InStream, Frames
<1>2. Msg(s, f) \in Addressed(PeerOf(s)) /\ PeerOf(s) \in Peers
  BY <1>1 DEF StreamsAddressed, Streams, PeerOf
<1>3. Msg(s, f).ch = ChanOf(s) /\ Msg(s, f).seq = f.seq
  BY DEF Msg
<1> QED
  BY <1>2, <1>3, NumberOfRow

LEMMA WriteIsWrites ==
    ASSUME TypeOK, NEW p \in Peers, WriteFrame(p)
    PROVE  Writes(p)
<1>1. task[p] \in TaskState /\ task[p].pc = "row" /\ task' = [task EXCEPT ![p].pc = "mark"]
  BY DEF TypeOK, WriteFrame
<1> QED
  BY <1>1 DEF Writes, TypeOK, TaskState

LEMMA WrittenStep ==
    ASSUME TypeOK, SeqIsPlace, StreamsAddressed, StampsFollow, BatchOldest,
           WrittenOlder, [Next]_vars
    PROVE  WrittenOlder'
<1> SUFFICES ASSUME NEW s \in Streams, Held(s)', NEW f \in Frames(s)'
             PROVE  Passed(PeerOf(s), ChanOf(s), f.seq)'
  BY DEF WrittenOlder, Passed
<1>0. PeerOf(s) \in Peers /\ ChanOf(s) \in Channels
  BY DEF Streams, PeerOf, ChanOf
<1>1. ~Drops(PeerOf(s)) /\ (Held(s) \/ Empties(s))
  BY HeldStep
<1>2. ~Empties(s)
  BY DEF Empties, Frames, Range
<1>3. CASE f \in Frames(s)
  <2>1. f.seq \in 0 .. Len(outbox[ChanOf(s)])
    BY <1>3, NumberOfFrame
  <2>2. Passed(PeerOf(s), ChanOf(s), f.seq)
    BY <1>1, <1>2, <1>3 DEF WrittenOlder
  <2> DEFINE p == PeerOf(s)
             c == ChanOf(s)
             n == f.seq
  <2> HIDE DEF p, c, n
  <2>3. Passed(p, c, n)'
    BY <1>0, <1>1, <2>1, <2>2, PassedStep DEF p, c, n
  <2> QED
    BY <2>3 DEF p, c, n
<1>4. CASE f \notin Frames(s)
  <2>1. WriteFrame(PeerOf(s))
    BY <1>4, FramesStep
  <2>2. PICK r \in CurrentRow(PeerOf(s)) : r.ch = ChanOf(s) /\ f.seq = r.seq
    BY <1>4, FramesStep
  <2>3. Passed(PeerOf(s), r.ch, r.seq)'
    BY <1>0, <2>1, WriteIsWrites, WritePasses
  <2> QED
    BY <2>2, <2>3
<1> QED
  BY <1>3, <1>4

\* StreamOrder, in terms of the two queues of a stream.
InOrder(s) ==
    /\ Increasing(net[s].buf) /\ Increasing(net[s].wire)
    /\ \A f \in Range(net[s].buf), g \in Range(net[s].wire) : f.seq < g.seq

LEMMA StreamInOrder ==
    ASSUME TypeOK
    PROVE  StreamOrder <=> \A s \in Streams : InOrder(s)
<1>1. \A s \in Streams : net[s].buf \in Seq(Frame) /\ net[s].wire \in Seq(Frame)
  BY DEF TypeOK, StreamState
<1>2. \A s \in Streams : Increasing(net[s].buf \o net[s].wire) <=> InOrder(s)
  BY <1>1, ConcatIncreasing DEF InOrder
<1> QED
  BY <1>2 DEF StreamOrder, Increasing

LEMMA InOrderStep ==
    ASSUME TypeOK, SeqIsPlace, BatchOldest, WrittenOlder, [Next]_vars,
           NEW s \in Streams, InOrder(s)
    PROVE  InOrder(s)'
<1>0. /\ net[s].wire \in Seq(Frame) /\ net[s].buf \in Seq(Frame)
      /\ PeerOf(s) \in Peers
  BY DEF TypeOK, StreamState, Streams, PeerOf
<1>1. CASE SameQueues(s)
  BY <1>1 DEF SameQueues, InOrder, Increasing
<1>2. CASE Empties(s)
  BY <1>2 DEF Empties, InOrder, Increasing, Range
<1>3. CASE Takes(s)
  <2>1. PICK r \in CurrentRow(PeerOf(s)) :
          /\ WriteFrame(PeerOf(s))
          /\ r.ch = ChanOf(s) /\ Held(s)
          /\ net'[s].wire = Append(net[s].wire, [seq |-> r.seq, body |-> r.body])
          /\ net'[s].buf = net[s].buf
    BY <1>3 DEF Takes
  <2> DEFINE g == [seq |-> r.seq, body |-> r.body]
  <2>2. g \in Frame
    BY <1>0 DEF Frame, CurrentRow, TypeOK, TaskState, Row
  <2>3. g.seq = r.seq
    OBVIOUS
  <2> HIDE DEF g
  <2>4. net'[s].wire = Append(net[s].wire, g)
    BY <2>1 DEF g
  <2>5. r \in Pending(PeerOf(s)) /\ task[PeerOf(s)].pc = "row"
    BY <1>0, <2>1 DEF CurrentRow, BatchOldest, WriteFrame
  <2>6. \A f \in Frames(s) : f.seq < g.seq
    BY <2>1, <2>3, <2>5 DEF WrittenOlder, Passed
  <2>7. Range(net'[s].wire) = Range(net[s].wire) \cup {g}
    BY <1>0, <2>2, <2>4, AppendRange
  <2>8. Increasing(net'[s].wire)
    BY <1>0, <2>2, <2>4, <2>6, AppendIncreasing DEF InOrder, Frames
  <2> QED
    BY <2>1, <2>6, <2>7, <2>8 DEF InOrder, Frames, Increasing
<1>4. CASE Loses(s)
  <2>1. Range(net[s].wire) = {net[s].wire[Len(net[s].wire)]} \cup Range(net'[s].wire)
    BY <1>0, <1>4, FrontRange DEF Loses
  <2>2. Increasing(net'[s].wire)
    BY <1>0, <1>4, FrontIncreasing DEF Loses, InOrder
  <2> QED
    BY <1>4, <2>1, <2>2 DEF Loses, InOrder, Increasing
<1>5. CASE Reads(s)
  <2>1. Range(net[s].wire) = {Head(net[s].wire)} \cup Range(net'[s].wire)
    BY <1>0, <1>5, TailRange DEF Reads
  <2>2. Head(net[s].wire) \in Frame
    BY <1>0, <1>5 DEF Reads
  <2>3. Range(net'[s].buf) = Range(net[s].buf) \cup {Head(net[s].wire)}
    BY <1>0, <1>5, <2>2, AppendRange DEF Reads
  <2>4. /\ Increasing(net'[s].wire)
        /\ \A f \in Range(net'[s].wire) : Head(net[s].wire).seq < f.seq
    BY <1>0, <1>5, TailIncreasing DEF Reads, InOrder
  <2>5. \A f \in Range(net[s].buf) : f.seq < Head(net[s].wire).seq
    BY <2>1 DEF InOrder
  <2>6. Increasing(net'[s].buf)
    BY <1>0, <1>5, <2>2, <2>5, AppendIncreasing DEF Reads, InOrder
  <2> QED
    BY <2>1, <2>3, <2>4, <2>6 DEF InOrder, Increasing
<1>6. CASE Records(s)
  <2>1. Range(net[s].buf) = {Head(net[s].buf)} \cup Range(net'[s].buf)
    BY <1>0, <1>6, TailRange DEF Records
  <2>2. Increasing(net'[s].buf)
    BY <1>0, <1>6, TailIncreasing DEF Records, InOrder
  <2> QED
    BY <1>6, <2>1, <2>2 DEF Records, InOrder, Increasing
<1>7. CASE Emits(s)
  BY <1>7 DEF Emits, InOrder, Increasing
<1> QED
  BY <1>1, <1>2, <1>3, <1>4, <1>5, <1>6, <1>7, NetMoves

LEMMA OrderStep ==
    ASSUME ClockSteps \subseteq Nat, TypeOK, TypeOK', DeliveryInv, OrderInv,
           [Next]_vars
    PROVE  OrderInv'
<1>0. SeqIsPlace /\ StreamsAddressed /\ StampsFollow /\ BatchOldest /\ WrittenOlder
  BY DEF DeliveryInv, OrderInv
<1>1. StampsFollow'
  BY <1>0, StampsStep
<1>2. BatchOldest'
  BY <1>0, BatchOldestStep
<1>3. WrittenOlder'
  BY <1>0, WrittenStep
<1>4. \A s \in Streams : InOrder(s)
  BY StreamInOrder DEF OrderInv
<1>5. \A s \in Streams : InOrder(s)'
  BY <1>0, <1>4, InOrderStep
<1>6. StreamOrder'
  <2>1. \A s \in Streams : net'[s].buf \in Seq(Frame) /\ net'[s].wire \in Seq(Frame)
    BY DEF TypeOK, StreamState
  <2>2. \A s \in Streams : Increasing(net'[s].buf \o net'[s].wire)
    BY <1>5, <2>1, ConcatIncreasing DEF InOrder, Increasing
  <2> QED
    BY <2>2 DEF StreamOrder, Increasing
<1> QED
  BY <1>1, <1>2, <1>3, <1>6 DEF OrderInv

LEMMA OrderInit == Init => OrderInv
<1> SUFFICES ASSUME Init
             PROVE  OrderInv
  OBVIOUS
<1>1. TypeOK
  BY TypeInit
<1>2. StampsFollow
  BY DEF Init, StampsFollow
<1>3. BatchOldest
  BY DEF Init, BatchOldest, NoTask
<1>4. \A s \in Streams : net[s].buf = <<>> /\ net[s].wire = <<>>
  BY DEF Init, NoStream
<1>5. WrittenOlder
  BY <1>4 DEF WrittenOlder, Frames, Range
<1>6. StreamOrder
  BY <1>1, <1>4, StreamInOrder DEF InOrder, Increasing, Range
<1> QED
  BY <1>2, <1>3, <1>5, <1>6 DEF OrderInv

LEMMA OrderInvariant ==
    ASSUME ClockSteps \subseteq Nat
    PROVE  Spec => []OrderInv
<1>1. TypeOK /\ TypeOK' /\ DeliveryInv /\ OrderInv /\ [Next]_vars => OrderInv'
  BY OrderStep
<1> QED
  BY <1>1, OrderInit, TypeCorrect, DeliveryInvariant, PTL DEF Spec

\* Streams keep order: as long as the wall clock is not set back, a stream has
\* the messages of its channel in the order of their numbers and none of them
\* twice, through retries, failing stores, crashes and restarts of either end:
\* no task turns back on a stream it holds.
THEOREM StreamsKeepOrder ==
    ASSUME ClockSteps \subseteq Nat
    PROVE  Spec => []StreamOrder
<1>1. OrderInv => StreamOrder
  BY DEF OrderInv
<1> QED
  BY <1>1, OrderInvariant, PTL

-----------------------------------------------------------------------------
(* While nothing has failed, subscribers see a channel in order.           *)

LEMMA NoFaultYet ==
    ASSUME TypeOK, [Next]_vars, faults' = 0
    PROVE  faults = 0 /\ \A k : ~Fault(k)
<1>1. faults' = faults \/ \E k : Fault(k)
  BY DEF Next, vars, envVars, Send, NotifyPeer, ScanBacklog, ResumePeer, TaskStep,
         FetchBatch, DrainDone, OpenStream, OpenFails, WriteFrame, WriteFails,
         MarkDelivered, TakeWake, RetryTimer, SeeShutdown, TaskExit, Shutdown,
         CloseTransport, Exit, Crash, Down, Restart, SenderPairing,
         ReceiverPairing, Break, LoseFrame, StreamStep, AcceptStream, AcceptFails,
         ReadFrame, ReadEnds, RecordFrame, EmitFrame, ConsumerEnds, ReceiverCrash
<1>2. faults \in Nat
  BY DEF TypeOK
<1>3. \A k : Fault(k) => faults' = faults + 1
  BY DEF Fault
<1> QED
  BY <1>1, <1>2, <1>3

\* The steps of a system in which nothing has failed.
LEMMA SteadySteps ==
    ASSUME TypeOK, EndsQuiet, BatchOldest, Steady, [Next]_vars, faults' = 0
    PROVE  \/ UNCHANGED vars
           \/ \E p \in Peers, c \in Channels, big \in Sizes : Send(p, c, big)
           \/ \E h \in handlers : NotifyPeer(h)
           \/ ScanBacklog
           \/ \E p \in Peers : \/ ResumePeer(p)
                               \/ FetchBatch(p) /\ ~Backoff(p)
                               \/ DrainDone(p) \/ OpenStream(p) \/ WriteFrame(p)
                               \/ MarkDelivered(p) /\ ~Backoff(p)
                               \/ TakeWake(p) \/ RetryTimer(p)
           \/ \E s \in Streams : \/ AcceptStream(s) /\ PeerOf(s) \in admitted
                                 \/ ReadFrame(s) \/ RecordFrame(s) \/ EmitFrame(s)
<1>0. \A k : ~Fault(k)
  BY NoFaultYet
<1>1. ~(Shutdown \/ Crash) /\ \A p \in Peers : ~(SenderPairing(p) \/ ReceiverPairing(p)
                                                  \/ ReceiverCrash(p))
  BY <1>0, Zenon DEF Shutdown, Crash, SenderPairing, ReceiverPairing, ReceiverCrash
<1>2. ~(CloseTransport \/ Exit \/ Restart)
  BY DEF CloseTransport, Exit, Restart, Steady
<1>3. \A p \in Peers : ~(SeeShutdown(p) \/ TaskExit(p))
  BY DEF SeeShutdown, TaskExit, Steady
<1>4. ASSUME NEW p \in Peers, NEW r \in CurrentRow(p)
      PROVE  p \in Paired /\ ~r.big /\ Dialable(p)
  <2>1. r \in AllRows /\ r.peer = p
    BY PendingRows DEF CurrentRow, BatchOldest
  <2> QED
    BY <2>1 DEF Steady, Dialable
<1>5. ASSUME NEW p \in Peers, OpenFails(p)
      PROVE  FALSE
  BY <1>0, <1>4, <1>5 DEF OpenFails
<1>6. ASSUME NEW p \in Peers, WriteFails(p)
      PROVE  FALSE
  <2>1. PICK r \in CurrentRow(p) :
          /\ task[p].streams[r.ch] # None
          /\ r.big \/ net[StreamOf(p, r.ch)].conn = "cut"
    BY <1>6 DEF WriteFails
  <2>2. r.ch \in Channels
    BY DEF CurrentRow, TypeOK, TaskState, Row
  <2>3. task[p].streams[r.ch] \in Slots
    BY <2>1, <2>2 DEF TypeOK, TaskState
  <2>4. StreamOf(p, r.ch) \in Streams /\ Held(StreamOf(p, r.ch))
    BY <2>2, <2>3 DEF StreamOf, Streams, Held, PeerOf, ChanOf, SlotOf
  <2>5. net[StreamOf(p, r.ch)].conn = "up"
    BY <2>4 DEF Steady
  <2> QED
    BY <1>4, <2>1, <2>5
<1>7. ASSUME NEW p \in Peers, FetchBatch(p) \/ MarkDelivered(p)
      PROVE  ~Backoff(p)
  <2>1. CASE FetchBatch(p)
    <3>1. PICK B : task' = [task EXCEPT ![p].pc = "row", ![p].batch = B]
      BY <1>0, <2>1 DEF FetchBatch
    <3>2. task'[p].pc = "row"
      BY <3>1 DEF TypeOK, TaskState
    <3>3. Backoff(p) => task'[p].pc = "backoff"
      BY DEF Backoff, TypeOK, TaskState
    <3> QED
      BY <3>2, <3>3
  <2>2. CASE MarkDelivered(p)
    <3>1. PICK r : task' = [task EXCEPT ![p].batch = @ \ {r},
                                 ![p].pc = IF task[p].batch = {r}
                                           THEN "fetch" ELSE "row"]
      BY <1>0, <2>2 DEF MarkDelivered
    <3>2. task'[p].pc \in {"fetch", "row"}
      BY <3>1 DEF TypeOK, TaskState
    <3>3. Backoff(p) => task'[p].pc = "backoff"
      BY DEF Backoff, TypeOK, TaskState
    <3> QED
      BY <3>2, <3>3
  <2> QED
    BY <1>7, <2>1, <2>2
<1>8. ASSUME NEW s \in Streams
      PROVE  /\ ~Break(s)
             /\ ~LoseFrame(s) /\ ~AcceptFails(s) /\ ~ReadEnds(s) /\ ~ConsumerEnds(s)
             /\ AcceptStream(s) => PeerOf(s) \in admitted
  <2>1. ~Break(s)
    BY <1>0 DEF Break
  <2>2. Held(s) \/ (net[s].rx = "idle" /\ net[s].wire = <<>>)
    BY DEF Steady, EndsQuiet
  <2>3. Held(s) => net[s].conn = "up" /\ PeerOf(s) \in Paired
    BY DEF Steady
  <2>4. net[s].rx = "draining" => net[s].conn = "cut"
    BY DEF EndsQuiet
  <2> QED
    BY <2>1, <2>2, <2>3, <2>4
       DEF LoseFrame, AcceptFails, ReadEnds, ConsumerEnds, AcceptStream, Steady
<1>9. \A p \in Peers : TaskStep(p) =>
         \/ FetchBatch(p) /\ ~Backoff(p)
         \/ DrainDone(p) \/ OpenStream(p) \/ WriteFrame(p)
         \/ MarkDelivered(p) /\ ~Backoff(p)
         \/ TakeWake(p) \/ RetryTimer(p)
  BY <1>3, <1>5, <1>6, <1>7, Zenon DEF TaskStep
<1>10. \A s \in Streams : Break(s) \/ LoseFrame(s) \/ StreamStep(s) =>
         \/ AcceptStream(s) /\ PeerOf(s) \in admitted
         \/ ReadFrame(s) \/ RecordFrame(s) \/ EmitFrame(s)
  BY <1>8, Zenon DEF StreamStep
<1> QED
  BY <1>1, <1>2, <1>9, <1>10, Zenon DEF Next

\* Tasks neither stop nor fail, and only OpenStream changes their streams.
LEMMA SteadyTask ==
    ASSUME TypeOK, EndsQuiet, BatchOldest, Steady, [Next]_vars, faults' = 0,
           NEW p \in Peers
    PROVE  /\ task'[p].pc \notin {"backoff", "exit"} /\ ~task'[p].stop
           /\ task'[p].waker = "none" =>
                task'[p].pc = "none" /\ task'[p].streams = NoStreams
           /\ task'[p].streams = task[p].streams \/ OpenStream(p)
<1> DEFINE Goal == /\ task'[p].pc \notin {"backoff", "exit"} /\ ~task'[p].stop
                   /\ task'[p].waker = "none" =>
                        task'[p].pc = "none" /\ task'[p].streams = NoStreams
                   /\ task'[p].streams = task[p].streams \/ OpenStream(p)
<1>0. /\ task[p] \in TaskState
      /\ task[p].pc \notin {"backoff", "exit"} /\ ~task[p].stop
      /\ task[p].waker = "none" => task[p].pc = "none" /\ task[p].streams = NoStreams
  BY DEF TypeOK, Steady
<1>1. CASE task'[p] = task[p]
  BY <1>0, <1>1
<1>2. ASSUME NEW q \in Peers, task' = Notified(q), task'[p] # task[p]
      PROVE  Goal
  <2>1. p = q
    BY <1>2 DEF Notified, TypeOK
  <2>2. CASE task[p].waker = "none"
    <3>1. task'[p] = [NoTask EXCEPT !.pc = "fetch", !.waker = "quiet"]
      BY <1>2, <2>1, <2>2 DEF Notified, TypeOK
    <3> QED
      BY <1>0, <2>2, <3>1 DEF NoTask
  <2>3. CASE task[p].waker # "none"
    <3>1. task'[p] = [task[p] EXCEPT !.waker = "queued"]
      BY <1>2, <2>1, <2>3 DEF Notified, TypeOK
    <3> QED
      BY <1>0, <3>1 DEF TaskState
  <2> QED
    BY <2>2, <2>3
<1>3. ASSUME NEW q \in Peers, NEW x \in {"row", "idle", "mark", "fetch"}, NEW B,
             task[q].pc # "none",
             \/ task' = [task EXCEPT ![q].pc = x]
             \/ task' = [task EXCEPT ![q].pc = x, ![q].waker = "quiet"]
             \/ task' = [task EXCEPT ![q].pc = x, ![q].batch = B],
             task'[p] # task[p]
      PROVE  Goal
  <2>1. p = q
    BY <1>3 DEF TypeOK
  <2>2. /\ task'[p].pc = x /\ task'[p].stop = task[p].stop
        /\ task'[p].streams = task[p].streams
        /\ task'[p].waker \in {task[p].waker, "quiet"}
    BY <1>0, <1>3, <2>1 DEF TypeOK, TaskState
  <2> QED
    BY <1>0, <1>3, <2>1, <2>2
<1>4. ASSUME NEW q \in Peers, OpenStream(q), task'[p] # task[p]
      PROVE  Goal
  <2>1. p = q
    BY <1>4 DEF OpenStream, TypeOK
  <2>2. PICK r \in CurrentRow(p), k \in Slots :
          task' = [task EXCEPT ![p].streams[r.ch] = k]
    BY <1>4, <2>1 DEF OpenStream
  <2>3. /\ task'[p].pc = task[p].pc /\ task'[p].stop = task[p].stop
        /\ task'[p].waker = task[p].waker
    BY <1>0, <2>2 DEF TypeOK, TaskState
  <2>4. task[p].pc = "row"
    BY <1>4, <2>1 DEF OpenStream
  <2> QED
    BY <1>0, <1>4, <2>1, <2>3, <2>4
<1>5. ASSUME NEW q \in Peers, MarkDelivered(q), ~Backoff(q), task'[p] # task[p]
      PROVE  Goal
  <2>1. PICK r : task' = [task EXCEPT ![q].batch = @ \ {r},
                               ![q].pc = IF task[q].batch = {r}
                                         THEN "fetch" ELSE "row"]
    BY <1>5 DEF MarkDelivered
  <2>2. p = q
    BY <1>5, <2>1 DEF TypeOK
  <2>3. /\ task'[p].pc \in {"fetch", "row"} /\ task'[p].stop = task[p].stop
        /\ task'[p].streams = task[p].streams /\ task'[p].waker = task[p].waker
    BY <1>0, <2>1, <2>2 DEF TypeOK, TaskState
  <2>4. task[p].pc = "mark"
    BY <1>5, <2>2 DEF MarkDelivered
  <2> QED
    BY <1>0, <2>3, <2>4
<1>6. ASSUME NEW q \in Peers, FetchBatch(q), ~Backoff(q), task'[p] # task[p]
      PROVE  Goal
  <2>1. PICK B : task' = [task EXCEPT ![q].pc = "row", ![q].batch = B]
    BY <1>6 DEF FetchBatch
  <2> QED
    BY <1>3, <1>6, <2>1 DEF FetchBatch
<1>7. ASSUME NEW q \in Peers, DrainDone(q) \/ WriteFrame(q) \/ TakeWake(q) \/ RetryTimer(q),
             task'[p] # task[p]
      PROVE  Goal
  BY <1>3, <1>7 DEF DrainDone, WriteFrame, TakeWake, RetryTimer
<1>8. \A h \in handlers : h[1] \in Peers
  BY DEF TypeOK
<1>9. \/ UNCHANGED task
      \/ \E q \in Peers : \/ task' = Notified(q)
                          \/ FetchBatch(q) /\ ~Backoff(q)
                          \/ DrainDone(q) \/ OpenStream(q) \/ WriteFrame(q)
                          \/ MarkDelivered(q) /\ ~Backoff(q)
                          \/ TakeWake(q) \/ RetryTimer(q)
  BY <1>8, SteadySteps DEF vars, senderVars, Send, NotifyPeer, ScanBacklog, ResumePeer,
     AcceptStream, ReadFrame, RecordFrame, EmitFrame
<1> QED
  BY <1>1, <1>2, <1>4, <1>5, <1>6, <1>7, <1>9

\* Streams stay up with the tasks that hold them.
LEMMA SteadyNet ==
    ASSUME TypeOK, EndsQuiet, BatchOldest, Steady, [Next]_vars, faults' = 0,
           NEW s \in Streams
    PROVE  /\ Held(s) => Held(s)'
           /\ IF Held(s)' THEN net'[s].conn = "up" /\ PeerOf(s) \in Paired
                          ELSE net'[s].rx = "idle"
<1> DEFINE p == PeerOf(s)
           c == ChanOf(s)
<1>0. /\ p \in Peers /\ c \in Channels /\ SlotOf(s) \in Slots
      /\ s = <<p, c, SlotOf(s)>> /\ net[s] \in StreamState
  BY DEF Streams, PeerOf, ChanOf, SlotOf, TypeOK
<1>1. IF Held(s) THEN net[s].conn = "up" /\ p \in Paired ELSE net[s].rx = "idle"
  BY DEF Steady
<1> HIDE DEF p, c
<1>2. CASE OpenStream(p)
  <2>1. PICK r \in CurrentRow(p), k \in Slots :
          /\ task[p].streams[r.ch] = None
          /\ Dialable(p)
          /\ net' = [net EXCEPT ![<<p, r.ch, k>>] =
                       [NoStream EXCEPT !.conn = "up", !.rx = "opening"]]
          /\ task' = [task EXCEPT ![p].streams[r.ch] = k]
    BY <1>2 DEF OpenStream
  <2>2. r.ch \in Channels
    BY <1>0 DEF CurrentRow, TypeOK, TaskState, Row
  <2>3. /\ task[p].streams \in [Channels -> Slots \cup {None}]
        /\ task'[p].streams = [task[p].streams EXCEPT ![r.ch] = k]
    BY <1>0, <2>1 DEF TypeOK, TaskState
  <2>4. p \in Paired
    BY <2>1 DEF Dialable, Steady
  <2>5. CASE s = <<p, r.ch, k>>
    <3>1. net'[s] = [NoStream EXCEPT !.conn = "up", !.rx = "opening"]
      BY <2>1, <2>5 DEF TypeOK
    <3>2. c = r.ch /\ k = SlotOf(s)
      BY <1>0, <2>5
    <3>3. Held(s)'
      BY <2>2, <2>3, <3>2 DEF Held, p, c
    <3> QED
      BY <2>4, <3>1, <3>3 DEF NoStream, p
  <2>6. CASE s # <<p, r.ch, k>>
    <3>1. net'[s] = net[s]
      BY <2>1, <2>6 DEF TypeOK
    <3>2. c # r.ch \/ k # SlotOf(s)
      BY <1>0, <2>6
    <3>3. Held(s)' <=> Held(s)
      <4>1. Held(s) <=> task[p].streams[c] = SlotOf(s)
        BY DEF Held, p, c
      <4>2. Held(s)' <=> task'[p].streams[c] = SlotOf(s)
        BY DEF Held, p, c
      <4>3. SlotOf(s) # None
        BY <1>0, DeliveryAssumption
      <4> QED
        BY <1>0, <2>1, <2>2, <2>3, <3>2, <4>1, <4>2, <4>3
    <3> QED
      BY <1>1, <3>1, <3>3 DEF p
  <2> QED
    BY <2>5, <2>6
<1>3. CASE ~OpenStream(p)
  <2>1. task'[p].streams = task[p].streams
    BY <1>0, <1>3, SteadyTask
  <2>2. Held(s)' <=> Held(s)
    BY <2>1 DEF Held, p
  <2>3. net'[s].conn = net[s].conn /\ (net'[s].rx = net[s].rx \/ net[s].rx = "opening")
    <3>1. CASE net'[s] = net[s]
      BY <3>1
    <3>2. ASSUME NEW q \in Peers, OpenStream(q)
          PROVE  net'[s] = net[s]
      <4>1. PICK t, k : net' = [net EXCEPT ![<<q, t, k>>] =
                           [NoStream EXCEPT !.conn = "up", !.rx = "opening"]]
        BY <3>2 DEF OpenStream
      <4>2. q # p
        BY <1>3, <3>2
      <4>3. s # <<q, t, k>>
        BY <1>0, <4>2
      <4> QED
        BY <4>1, <4>3 DEF TypeOK
    <3>3. ASSUME NEW q \in Peers, WriteFrame(q)
          PROVE  net'[s].conn = net[s].conn /\ net'[s].rx = net[s].rx
      <4>1. PICK r \in CurrentRow(q) :
              \/ net' = [net EXCEPT ![StreamOf(q, r.ch)].wire =
                           Append(@, [seq |-> r.seq, body |-> r.body])]
              \/ UNCHANGED net
        BY <3>3 DEF WriteFrame
      <4>2. CASE s = StreamOf(q, r.ch) /\ ~UNCHANGED net
        <5>1. net'[s] = [net[s] EXCEPT !.wire =
                           Append(@, [seq |-> r.seq, body |-> r.body])]
          BY <4>1, <4>2 DEF TypeOK
        <5> QED
          BY <1>0, <5>1 DEF StreamState
      <4>3. CASE s # StreamOf(q, r.ch) \/ UNCHANGED net
        BY <4>1, <4>3 DEF TypeOK
      <4> QED
        BY <4>2, <4>3
    <3>4. ASSUME NEW t \in Streams, AcceptStream(t), PeerOf(t) \in admitted
          PROVE  net'[s].conn = net[s].conn /\ (net'[s].rx = net[s].rx \/ net[s].rx = "opening")
      <4>1. net' = [net EXCEPT ![t].rx = "reading"] /\ net[t].rx = "opening"
        BY <3>4 DEF AcceptStream
      <4> QED
        BY <1>0, <4>1 DEF TypeOK, StreamState
    <3>5. ASSUME NEW t \in Streams, ReadFrame(t) \/ EmitFrame(t)
          PROVE  net'[s].conn = net[s].conn /\ net'[s].rx = net[s].rx
      <4>1. CASE s = t /\ ReadFrame(t)
        BY <1>0, <4>1 DEF ReadFrame, TypeOK, StreamState
      <4>2. CASE s = t /\ EmitFrame(t)
        BY <1>0, <4>2 DEF EmitFrame, TypeOK, StreamState
      <4>3. CASE s # t
        BY <3>5, <4>3 DEF ReadFrame, EmitFrame, TypeOK
      <4> QED
        BY <3>5, <4>1, <4>2, <4>3
    <3>6. ASSUME NEW t \in Streams, RecordFrame(t)
          PROVE  net'[s].conn = net[s].conn /\ net'[s].rx = net[s].rx
      <4>1. CASE s = t
        BY <1>0, <3>6, <4>1 DEF RecordFrame, TypeOK, StreamState
      <4>2. CASE s # t
        BY <3>6, <4>2 DEF RecordFrame, TypeOK
      <4> QED
        BY <4>1, <4>2
    <3>7. \/ UNCHANGED net
          \/ \E q \in Peers : OpenStream(q) \/ WriteFrame(q)
          \/ \E t \in Streams : \/ AcceptStream(t) /\ PeerOf(t) \in admitted
                                \/ ReadFrame(t) \/ RecordFrame(t) \/ EmitFrame(t)
      BY SteadySteps DEF vars, Send, NotifyPeer, ScanBacklog, ResumePeer, FetchBatch,
         DrainDone, MarkDelivered, TakeWake, RetryTimer
    <3> QED
      BY <3>1, <3>2, <3>3, <3>4, <3>5, <3>6, <3>7
  <2> QED
    BY <1>1, <2>2, <2>3 DEF p
<1> QED
  BY <1>2, <1>3

LEMMA SteadyStep ==
    ASSUME TRUE \notin Sizes, TypeOK, SeqIsPlace, EndsQuiet, BatchOldest, Steady,
           [Next]_vars, faults' = 0
    PROVE  Steady'
<1>1. UNCHANGED <<phase, registry, tokens, admitted>>
  BY SteadySteps DEF vars, receiverVars, Send, NotifyPeer, ScanBacklog, ResumePeer,
     FetchBatch, DrainDone, OpenStream, WriteFrame, MarkDelivered, TakeWake,
     RetryTimer, AcceptStream, ReadFrame, RecordFrame, EmitFrame, senderVars
<1>2. ASSUME NEW r \in AllRows'
      PROVE  r.peer \in Paired /\ ~r.big
  <2>1. PICK c \in Channels : \E i \in DOMAIN outbox'[c] : r = outbox'[c][i]
    BY DEF AllRows, Rows, Range
  <2>2. PICK i \in DOMAIN outbox'[c] : r = outbox'[c][i]
    BY <2>1
  <2>3. ASSUME i \in DOMAIN outbox[c]
        PROVE  r.peer \in Paired /\ ~r.big
    <3>1. outbox[c][i] \in Row /\ outbox[c][i] \in AllRows
      BY <2>3 DEF TypeOK, AllRows, Rows, Range
    <3>2. outbox[c][i].peer \in Paired /\ ~outbox[c][i].big
      BY <3>1 DEF Steady
    <3>3. \A q \in Row : [q EXCEPT !.delivered = TRUE].peer = q.peer
                          /\ [q EXCEPT !.delivered = TRUE].big = q.big
      BY DEF Row
    <3>4. OutboxKept
      BY OutboxStep
    <3>5. r = outbox[c][i] \/ r = [outbox[c][i] EXCEPT !.delivered = TRUE]
      BY <2>2, <2>3, <3>4 DEF OutboxKept
    <3> QED
      BY <3>1, <3>2, <3>3, <3>5
  <2>4. ASSUME i \notin DOMAIN outbox[c]
        PROVE  r.peer \in Paired /\ ~r.big
    <3>1. ASSUME NEW q \in Peers, MarkDelivered(q)
          PROVE  FALSE
      <4>1. CASE UNCHANGED outbox
        BY <2>4, <4>1
      <4>2. CASE ~UNCHANGED outbox
        <5>1. PICK x \in CurrentRow(q) : outbox' = Marked(x)
          BY <3>1, <4>2 DEF MarkDelivered
        <5>2. x \in Row
          BY DEF CurrentRow, TypeOK, TaskState
        <5> QED
          BY <2>4, <5>1, <5>2, MarkedType DEF Marked, TypeOK
      <4> QED
        BY <4>1, <4>2
    <3>2. PICK q \in Peers, d \in Channels, big \in Sizes : Send(q, d, big)
      BY <2>4, <3>1, OutboxWriters
    <3>3. PICK x \in ClockSteps : outbox' = [outbox EXCEPT ![d] = Append(@,
            [ch |-> d, seq |-> NextSeq(d), peer |-> q, body |-> nsent + 1,
             ts |-> clock + x, big |-> big, delivered |-> FALSE])]
      BY <3>2 DEF Send
    <3> DEFINE y == [ch |-> d, seq |-> NextSeq(d), peer |-> q, body |-> nsent + 1,
                     ts |-> clock + x, big |-> big, delivered |-> FALSE]
    <3>4. y.peer = q /\ y.big = big /\ outbox' = [outbox EXCEPT ![d] = Append(@, y)]
      BY <3>3
    <3> HIDE DEF y
    <3>5. c = d
      BY <2>4, <3>4 DEF TypeOK
    <3>6. outbox[c] \in Seq(Row) /\ outbox'[c] = Append(outbox[c], y)
      BY <3>4, <3>5 DEF TypeOK
    <3>7. /\ DOMAIN outbox'[c] = DOMAIN outbox[c] \cup {Len(outbox[c]) + 1}
          /\ outbox'[c][Len(outbox[c]) + 1] = y
      BY <3>6
    <3>8. r = y
      BY <2>2, <2>4, <3>7
    <3>9. q \in registry /\ ~big
      BY <3>2, DeliveryAssumption DEF Send
    <3> QED
      BY <3>4, <3>8, <3>9 DEF Steady
  <2> QED
    BY <2>3, <2>4
<1>3. \A p \in Peers :
        /\ task'[p].pc \notin {"backoff", "exit"} /\ ~task'[p].stop
        /\ task'[p].waker = "none" => task'[p].pc = "none" /\ task'[p].streams = NoStreams
  BY SteadyTask
<1>4. \A s \in Streams :
        IF Held(s)' THEN net'[s].conn = "up" /\ PeerOf(s) \in Paired
                    ELSE net'[s].rx = "idle"
  BY SteadyNet
<1> QED
  BY <1>1, <1>2, <1>3, <1>4 DEF Steady, Held

\* Nothing makes a task turn back while nothing has failed.
LEMMA PassedSteady ==
    ASSUME TypeOK, SeqIsPlace, EndsQuiet, BatchOldest, Steady, [Next]_vars, faults' = 0,
           NEW p \in Peers, NEW c \in Channels, NEW n \in 0 .. Len(outbox[c]),
           Passed(p, c, n)
    PROVE  Passed(p, c, n)'
<1>1. CASE ~Drops(p)
  BY <1>1, PassedStep
<1>2. CASE Drops(p)
  <2>1. \A k : ~Fault(k)
    BY NoFaultYet
  <2>2. ~Crash /\ ~Exit /\ ~TaskExit(p)
    BY <2>1 DEF Crash, Exit, TaskExit, Steady
  <2>3. ~Backoff(p)
    <3>1. Backoff(p) => task'[p].pc = "backoff"
      BY DEF Backoff, TypeOK, TaskState
    <3> QED
      BY <3>1, SteadyTask
  <2>4. task[p].pc # "mark"
    BY <1>2, <2>2, <2>3 DEF Drops, Steady
  <2>5. \A r \in Pending(p) : r.ch = c => n < r.seq
    BY <2>4 DEF Passed
  <2>6. Len(outbox[c]) \in Nat
    BY DEF TypeOK
  <2>7. \A r \in Pending(p)' : r.ch = c => r \in Pending(p) \/ r.seq = Len(outbox[c]) + 1
    BY PendingOrigin
  <2>8. \A r \in Pending(p)' : r.ch = c => n < r.seq
    BY <2>5, <2>6, <2>7
  <2> QED
    BY <2>8 DEF Passed
<1> QED
  BY <1>1, <1>2

LEMMA PastSteady ==
    ASSUME TypeOK, SeqIsPlace, EndsQuiet, BatchOldest, Steady, [Next]_vars, faults' = 0,
           NEW s \in Streams, NEW n \in 0 .. Len(outbox[ChanOf(s)]), Past(s, n)
    PROVE  Past(s, n)'
<1>0. PeerOf(s) \in Peers /\ ChanOf(s) \in Channels
  BY DEF Streams, PeerOf, ChanOf
<1>1. Passed(PeerOf(s), ChanOf(s), n)'
  <2> DEFINE p == PeerOf(s)
             c == ChanOf(s)
  <2>1. p \in Peers /\ c \in Channels /\ n \in 0 .. Len(outbox[c]) /\ Passed(p, c, n)
    BY <1>0 DEF Past
  <2> HIDE DEF p, c
  <2>2. Passed(p, c, n)'
    BY <2>1, PassedSteady
  <2> QED
    BY <2>2 DEF p, c
<1>2. ASSUME NEW f \in Frames(s)'
      PROVE  n < f.seq
  <2>1. CASE f \in Frames(s)
    BY <2>1 DEF Past
  <2>2. CASE f \notin Frames(s)
    <3>1. /\ WriteFrame(PeerOf(s))
          /\ \E r \in CurrentRow(PeerOf(s)) : r.ch = ChanOf(s) /\ f.seq = r.seq
      BY <2>2, FramesStep
    <3>2. PICK r \in CurrentRow(PeerOf(s)) : r.ch = ChanOf(s) /\ f.seq = r.seq
      BY <3>1
    <3>3. r \in Pending(PeerOf(s)) /\ task[PeerOf(s)].pc = "row"
      BY <1>0, <3>1 DEF CurrentRow, BatchOldest, WriteFrame
    <3> QED
      BY <3>2, <3>3 DEF Past, Passed
  <2> QED
    BY <2>1, <2>2
<1> QED
  BY <1>1, <1>2 DEF Past

\* What a step makes a receiver show is what one of its consumers held.
LEMMA EmittedStep ==
    ASSUME TypeOK, [Next]_vars, NEW p \in Peers
    PROVE  \/ emitted'[p] = emitted[p]
           \/ \E s \in Streams :
                /\ PeerOf(s) = p /\ net[s].hold # None /\ net'[s].hold = None
                /\ emitted'[p] = Append(emitted[p], Msg(s, net[s].hold))
<1>1. CASE UNCHANGED emitted
  BY <1>1
<1>2. ASSUME NEW s \in Streams, EmitFrame(s), emitted'[p] # emitted[p]
      PROVE  /\ PeerOf(s) = p /\ net[s].hold # None /\ net'[s].hold = None
             /\ emitted'[p] = Append(emitted[p], Msg(s, net[s].hold))
  <2>1. PeerOf(s) = p
    BY <1>2 DEF EmitFrame, TypeOK
  <2>2. net[s].hold # None /\ net'[s].hold = None
    BY <1>2 DEF EmitFrame, TypeOK, StreamState
  <2>3. emitted'[p] = Append(emitted[p], Msg(s, net[s].hold))
    BY <1>2, <2>1 DEF EmitFrame, TypeOK
  <2> QED
    BY <2>1, <2>2, <2>3
<1>3. UNCHANGED emitted \/ \E s \in Streams : EmitFrame(s)
  BY ReceivedWriters DEF RecordFrame
<1> QED
  BY <1>1, <1>2, <1>3

\* A consumer that has something to show belongs to a stream still in use.
LEMMA HoldIsHeld ==
    ASSUME EndsQuiet, Steady, NEW s \in Streams, net[s].hold # None
    PROVE  Held(s)
  BY DEF EndsQuiet, Steady

LEMMA OneStream ==
    ASSUME NEW s \in Streams, NEW t \in Streams, Held(s), Held(t),
           PeerOf(s) = PeerOf(t), ChanOf(s) = ChanOf(t)
    PROVE  s = t
<1>1. s = <<PeerOf(s), ChanOf(s), SlotOf(s)>> /\ t = <<PeerOf(t), ChanOf(t), SlotOf(t)>>
  BY DEF Streams, PeerOf, ChanOf, SlotOf
<1> QED
  BY <1>1 DEF Held

\* A message that a step makes p show, on the channel of a stream it holds, is
\* the one that the stream's consumer held.
LEMMA ShownStep ==
    ASSUME TypeOK, EndsQuiet, Steady, [Next]_vars, NEW p \in Peers,
           NEW m \in Range(emitted'[p]), m \notin Range(emitted[p])
    PROVE  \E t \in Streams :
             /\ PeerOf(t) = p /\ m = Msg(t, net[t].hold) /\ m.ch = ChanOf(t)
             /\ m.seq = net[t].hold.seq
             /\ net[t].hold # None /\ net'[t].hold = None /\ Held(t)
<1>1. PICK t \in Streams :
        /\ PeerOf(t) = p /\ net[t].hold # None /\ net'[t].hold = None
        /\ emitted'[p] = Append(emitted[p], Msg(t, net[t].hold))
  BY EmittedStep
<1> DEFINE x == Msg(t, net[t].hold)
<1>2. x \in Message /\ emitted[p] \in Seq(Message)
  BY <1>1 DEF TypeOK, StreamState, Msg, Message, Frame, Streams, ChanOf
<1>3. x.ch = ChanOf(t) /\ x.seq = net[t].hold.seq
  BY DEF Msg
<1> HIDE DEF x
<1>4. emitted'[p] = Append(emitted[p], x)
  BY <1>1 DEF x
<1>5. m = x
  BY <1>2, <1>4, AppendRange
<1> QED
  BY <1>1, <1>3, <1>5, HoldIsHeld DEF x

LEMMA ShownPassedStep ==
    ASSUME TypeOK, DeliveryInv, BatchOldest, Steady, ShownInOrder, ShownPassed,
           [Next]_vars, faults' = 0
    PROVE  ShownPassed'
<1>0. SeqIsPlace /\ EndsQuiet /\ StreamsAddressed /\ Integrity
  BY DEF DeliveryInv
<1> SUFFICES ASSUME NEW p \in Peers, NEW m \in Range(emitted'[p])
             PROVE  Passed(p, m.ch, m.seq)'
  BY DEF ShownPassed, Passed
<1>1. CASE m \in Range(emitted[p])
  <2>1. Passed(p, m.ch, m.seq)
    BY <1>1 DEF ShownPassed
  <2>2. m \in Addressed(p)
    BY <1>0, <1>1 DEF Integrity, Received
  <2>3. m.ch \in Channels /\ m.seq \in 0 .. Len(outbox[m.ch])
    BY <1>0, <2>2, NumberOfRow
  <2> QED
    BY <1>0, <2>1, <2>3, PassedSteady
<1>2. CASE m \notin Range(emitted[p])
  <2>1. PICK t \in Streams :
             /\ PeerOf(t) = p /\ m.ch = ChanOf(t) /\ m.seq = net[t].hold.seq
             /\ net[t].hold # None /\ Held(t)
    BY <1>0, <1>2, ShownStep
  <2>2. Passed(p, m.ch, m.seq)
    BY <2>1 DEF ShownInOrder, Past
  <2>3. m.ch \in Channels /\ m.seq \in 0 .. Len(outbox[m.ch])
    BY <1>0, <2>1, NumberOfFrame
  <2> QED
    BY <1>0, <2>2, <2>3, PassedSteady
<1> QED
  BY <1>1, <1>2

\* What a consumer holds after a step it held before, or it is the oldest frame
\* of its stream.
LEMMA HoldStep ==
    ASSUME TypeOK, [Next]_vars, NEW s \in Streams, InOrder(s),
           net'[s].hold # None, net'[s].hold # net[s].hold
    PROVE  /\ net'[s].hold \in Frames(s)
           /\ \A f \in Frames(s)' : net'[s].hold.seq < f.seq
<1>0. /\ net[s].wire \in Seq(Frame) /\ net[s].buf \in Seq(Frame)
  BY DEF TypeOK, StreamState
<1>1. Records(s)
  BY NetMoves DEF SameQueues, Empties, Takes, Loses, Reads, Emits
<1>2. Range(net[s].buf) = {Head(net[s].buf)} \cup Range(net'[s].buf)
  BY <1>0, <1>1, TailRange DEF Records
<1>3. \A f \in Range(net'[s].buf) : Head(net[s].buf).seq < f.seq
  BY <1>0, <1>1, TailIncreasing DEF Records, InOrder
<1>4. net'[s].hold = Head(net[s].buf) /\ net'[s].wire = net[s].wire
  BY <1>1 DEF Records
<1>5. net'[s].hold \in Range(net[s].buf)
  BY <1>2, <1>4
<1>6. \A f \in Range(net[s].wire) : net'[s].hold.seq < f.seq
  BY <1>5 DEF InOrder
<1> QED
  BY <1>3, <1>4, <1>5, <1>6 DEF Frames

LEMMA ShownInOrderStep ==
    ASSUME TypeOK, DeliveryInv, BatchOldest, WrittenOlder, StreamOrder, Steady,
           ShownInOrder, ShownPassed, [Next]_vars, faults' = 0
    PROVE  ShownInOrder'
<1>0. SeqIsPlace /\ EndsQuiet /\ StreamsAddressed /\ Integrity
  BY DEF DeliveryInv
<1>a. ShownPassed'
  BY ShownPassedStep
<1>b. ASSUME NEW s \in Streams, Held(s)'
      PROVE  /\ \A h : h = net'[s].hold /\ h # None =>
                  /\ Passed(PeerOf(s), ChanOf(s), h.seq)'
                  /\ \A f \in Frames(s)' : h.seq < f.seq
             /\ \A m \in Range(emitted'[PeerOf(s)]) : m.ch = ChanOf(s) =>
                  /\ Passed(PeerOf(s), ChanOf(s), m.seq)'
                  /\ \A f \in Frames(s)' : m.seq < f.seq
                  /\ net'[s].hold # None => m.seq < net'[s].hold.seq
  <2> DEFINE p == PeerOf(s)
             c == ChanOf(s)
  <2>0. p \in Peers /\ c \in Channels
    BY DEF Streams, PeerOf, ChanOf
  <2>1. \A m \in Range(emitted'[p]) : m.ch = c => Passed(p, c, m.seq)'
    BY <1>a, <2>0 DEF ShownPassed, Passed
  <2>2. CASE ~Held(s)
    <3>1. Empties(s)
      BY <1>b, <2>2, HeldStep
    <3>2. net'[s].hold = None /\ Frames(s)' = {}
      BY <3>1 DEF Empties, Frames, Range
    <3> QED
      BY <2>1, <3>2
  <2>3. CASE Held(s)
    <3>1. InOrder(s)
      BY StreamInOrder
    <3>2. ASSUME net[s].hold # None
          PROVE  /\ Past(s, net[s].hold.seq)
                 /\ net[s].hold.seq \in 0 .. Len(outbox[c])
      BY <1>0, <2>3, <3>2, NumberOfFrame DEF ShownInOrder
    <3>3. ASSUME NEW h, h = net'[s].hold, h # None
          PROVE  Passed(p, c, h.seq)' /\ \A f \in Frames(s)' : h.seq < f.seq
      <4>1. CASE h = net[s].hold
        <5>1. Past(s, h.seq) /\ h.seq \in 0 .. Len(outbox[ChanOf(s)])
          BY <3>2, <3>3, <4>1
        <5> DEFINE n == h.seq
        <5>2. Past(s, n) /\ n \in 0 .. Len(outbox[ChanOf(s)])
          BY <5>1
        <5> HIDE DEF n
        <5>3. Past(s, n)'
          BY <1>0, <5>2, PastSteady
        <5> QED
          BY <5>3 DEF Past, n
      <4>2. CASE h # net[s].hold
        <5>1. h \in Frames(s) /\ \A f \in Frames(s)' : h.seq < f.seq
          BY <3>1, <3>3, <4>2, HoldStep
        <5>2. Passed(p, c, h.seq) /\ h.seq \in 0 .. Len(outbox[c])
          BY <1>0, <2>3, <5>1, NumberOfFrame DEF WrittenOlder
        <5>3. Passed(p, c, h.seq)'
          BY <1>0, <2>0, <5>2, PassedSteady
        <5> QED
          BY <5>1, <5>3
      <4> QED
        BY <4>1, <4>2
    <3>4. ASSUME NEW m \in Range(emitted'[p]), m.ch = c
          PROVE  /\ \A f \in Frames(s)' : m.seq < f.seq
                 /\ net'[s].hold # None => m.seq < net'[s].hold.seq
      <4>1. CASE m \in Range(emitted[p])
        <5>1. Past(s, m.seq) /\ (net[s].hold # None => m.seq < net[s].hold.seq)
          BY <2>3, <3>4, <4>1 DEF ShownInOrder
        <5>2. m.seq \in 0 .. Len(outbox[c])
          BY <1>0, <2>0, <3>4, <4>1, NumberOfRow DEF Integrity, Received
        <5>3. Past(s, m.seq)'
          BY <1>0, <5>1, <5>2, PastSteady
        <5>4. ASSUME net'[s].hold # None, net'[s].hold # net[s].hold
              PROVE  m.seq < net'[s].hold.seq
          <6>1. net'[s].hold \in Frames(s)
            BY <3>1, <5>4, HoldStep
          <6> QED
            BY <5>1, <6>1 DEF Past
        <5> QED
          BY <5>1, <5>3, <5>4 DEF Past
      <4>2. CASE m \notin Range(emitted[p])
        <5>1. PICK t \in Streams :
                 /\ PeerOf(t) = p /\ m.ch = ChanOf(t) /\ m.seq = net[t].hold.seq
                 /\ net[t].hold # None /\ net'[t].hold = None /\ Held(t)
          BY <1>0, <2>0, <4>2, ShownStep
        <5>2. t = s
          BY <2>3, <3>4, <5>1, OneStream
        <5>3. Past(s, m.seq) /\ m.seq \in 0 .. Len(outbox[c])
          BY <3>2, <5>1, <5>2
        <5>4. Past(s, m.seq)'
          BY <1>0, <5>3, PastSteady
        <5> QED
          BY <5>1, <5>2, <5>4 DEF Past
      <4> QED
        BY <4>1, <4>2
    <3> QED
      BY <2>1, <3>3, <3>4
  <2> QED
    BY <2>2, <2>3
<1> QED
  BY <1>b DEF ShownInOrder, Past, Passed

LEMMA FifoStep ==
    ASSUME TypeOK, EndsQuiet, Steady, ShownInOrder, FifoSteady, [Next]_vars,
           faults = 0
    PROVE  FifoSteady'
<1> SUFFICES ASSUME NEW p \in Peers, NEW i \in DOMAIN emitted'[p],
                    NEW j \in DOMAIN emitted'[p], i < j,
                    emitted'[p][i].ch = emitted'[p][j].ch
             PROVE  emitted'[p][i].seq < emitted'[p][j].seq
  BY DEF FifoSteady
<1>0. \A a, b \in DOMAIN emitted[p] : a < b /\ emitted[p][a].ch = emitted[p][b].ch
                                        => emitted[p][a].seq < emitted[p][b].seq
  BY DEF FifoSteady
<1>1. CASE emitted'[p] = emitted[p]
  BY <1>0, <1>1
<1>2. CASE emitted'[p] # emitted[p]
  <2>1. PICK s \in Streams :
          /\ PeerOf(s) = p /\ net[s].hold # None
          /\ emitted'[p] = Append(emitted[p], Msg(s, net[s].hold))
    BY <1>2, EmittedStep
  <2> DEFINE x == Msg(s, net[s].hold)
  <2>2. x.ch = ChanOf(s) /\ x.seq = net[s].hold.seq
    BY DEF Msg
  <2>3. emitted'[p] = Append(emitted[p], x) /\ emitted[p] \in Seq(Message)
    BY <2>1 DEF TypeOK
  <2> HIDE DEF x
  <2>4. /\ DOMAIN emitted[p] = 1 .. Len(emitted[p]) /\ Len(emitted[p]) \in Nat
        /\ DOMAIN emitted'[p] = 1 .. (Len(emitted[p]) + 1)
        /\ \A a \in DOMAIN emitted[p] : emitted'[p][a] = emitted[p][a]
        /\ emitted'[p][Len(emitted[p]) + 1] = x
    BY <2>3
  <2>5. i \in DOMAIN emitted[p] /\ (j \in DOMAIN emitted[p] \/ j = Len(emitted[p]) + 1)
    BY <2>4
  <2>6. CASE j \in DOMAIN emitted[p]
    BY <1>0, <2>4, <2>5, <2>6
  <2>7. CASE j = Len(emitted[p]) + 1
    <3>1. emitted[p][i] \in Range(emitted[p])
      BY <2>5 DEF Range
    <3>2. emitted[p][i].ch = ChanOf(s)
      BY <2>2, <2>4, <2>5, <2>7
    <3>3. Held(s)
      BY <2>1, HoldIsHeld
    <3>4. emitted[p][i].seq < net[s].hold.seq
      BY <2>1, <3>1, <3>2, <3>3 DEF ShownInOrder
    <3> QED
      BY <2>2, <2>4, <2>5, <2>7, <3>4
  <2> QED
    BY <2>5, <2>6, <2>7
<1> QED
  BY <1>1, <1>2

LEMMA FifoInit == Init => FifoInv
<1> SUFFICES ASSUME Init
             PROVE  FifoInv
  OBVIOUS
<1>1. \A p \in Peers : emitted[p] = <<>> /\ task[p] = NoTask /\ Range(emitted[p]) = {}
  BY DEF Init, Range
<1>2. AllRows = {}
  BY DEF Init, AllRows, Rows, Range
<1>3. \A s \in Streams : ~Held(s) /\ net[s].rx = "idle"
  BY <1>1, DeliveryAssumption
     DEF Init, NoStream, Held, NoTask, NoStreams, Streams, PeerOf, ChanOf, SlotOf
<1>4. Steady
  BY <1>1, <1>2, <1>3 DEF Init, Steady, NoTask
<1>5. ShownInOrder /\ ShownPassed /\ FifoSteady
  BY <1>1, <1>3 DEF ShownInOrder, ShownPassed, FifoSteady
<1> QED
  BY <1>4, <1>5 DEF FifoInv

\* First in, first out: until something fails, a daemon's subscribers see the
\* messages of a channel in the order in which they were enqueued, provided the
\* wall clock is not set back and no accepted payload is over the frame limit
\* (such a payload makes its task drop and reopen its streams, which is no
\* different from a failure).
THEOREM FifoWhileSteady ==
    ASSUME ClockSteps \subseteq Nat, TRUE \notin Sizes
    PROVE  Spec => []FifoSteady
<1>1. TypeOK /\ DeliveryInv /\ OrderInv /\ FifoInv /\ [Next]_vars => FifoInv'
  <2> SUFFICES ASSUME TypeOK, DeliveryInv, OrderInv, FifoInv, [Next]_vars, faults' = 0
               PROVE  (Steady /\ ShownInOrder /\ ShownPassed /\ FifoSteady)'
    BY DEF FifoInv
  <2>1. faults = 0
    BY NoFaultYet
  <2>2. /\ SeqIsPlace /\ EndsQuiet /\ BatchOldest /\ WrittenOlder /\ StreamOrder
        /\ Steady /\ ShownInOrder /\ ShownPassed /\ FifoSteady
    BY <2>1 DEF FifoInv, DeliveryInv, OrderInv
  <2>3. Steady'
    BY <2>2, SteadyStep
  <2>4. ShownPassed'
    BY <2>2, ShownPassedStep
  <2>5. ShownInOrder'
    BY <2>2, ShownInOrderStep
  <2>6. FifoSteady'
    BY <2>1, <2>2, FifoStep
  <2> QED
    BY <2>3, <2>4, <2>5, <2>6
<1>2. FifoInv => FifoSteady
  BY DEF FifoInv, FifoSteady
<1> QED
  BY <1>1, <1>2, FifoInit, OrderInvariant, TypeCorrect, DeliveryInvariant, PTL DEF Spec
=============================================================================
