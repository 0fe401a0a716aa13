--------------------------- MODULE DeliveryProofs ---------------------------
(***************************************************************************)
(* Theorems about Delivery, for every choice of its constants.             *)
(***************************************************************************)
EXTENDS Delivery, TLAPS

\* The sequence number of a new row: MAX is over a set of naturals with 0 in
\* it, and exists because the rows of a channel number 1, 2, ...
LEMMA NextSeqIsLen ==
    ASSUME TypeOK, SeqIsPlace, NEW c \in Channels
    PROVE  NextSeq(c) = Len(outbox[c]) + 1
<1> DEFINE S == {0} \cup {r.seq : r \in Rows(c)}
           L == Len(outbox[c])
           M == CHOOSE n \in S : \A r \in Rows(c) : r.seq <= n
<1>1. outbox[c] \in Seq(Row) /\ L \in Nat /\ DOMAIN outbox[c] = 1 .. L
  BY DEF TypeOK
<1>2. S = 0 .. L
  BY <1>1 DEF SeqIsPlace, Rows, Range
<1>3. \A n \in S : (\A r \in Rows(c) : r.seq <= n) <=> n = L
  BY <1>1, <1>2 DEF SeqIsPlace, Rows, Range
<1>4. M = L
  BY <1>1, <1>2, <1>3
<1>5. NextSeq(c) = 1 + M
  BY Zenon DEF NextSeq
<1> HIDE DEF M
<1> QED
  BY <1>1, <1>4, <1>5

-----------------------------------------------------------------------------
(* Types of the values the actions are built from.                         *)

LEMMA NoTaskType == NoTask \in TaskState
  BY DEF NoTask, TaskState, PC, NoStreams

LEMMA NoStreamType == NoStream \in StreamState
  BY DEF NoStream, StreamState

LEMMA CutType ==
    ASSUME TypeOK, NEW S
    PROVE  Cut(S) \in [Streams -> StreamState]
  BY DEF TypeOK, Cut, StreamState

LEMMA NotifiedType ==
    ASSUME TypeOK, NEW p \in Peers
    PROVE  Notified(p) \in [Peers -> TaskState]
  BY NoTaskType DEF TypeOK, Notified, TaskState, PC

LEMMA BackoffType ==
    ASSUME TypeOK, NEW p \in Peers, Backoff(p)
    PROVE  /\ task' \in [Peers -> TaskState]
           /\ net' \in [Streams -> StreamState]
<1>1. task' \in [Peers -> TaskState]
  <2> DEFINE t == [task[p] EXCEPT !.pc = "backoff", !.batch = {},
                                  !.streams = NoStreams]
  <2>1. task' = [task EXCEPT ![p] = t]
    BY DEF TypeOK, Backoff
  <2>2. t \in TaskState
    <3>1. task[p] \in TaskState
      BY DEF TypeOK
    <3>2. NoStreams \in [Channels -> Slots \cup {None}] /\ "backoff" \in PC
      BY DEF NoStreams, PC
    <3> QED
      BY <3>1, <3>2 DEF TaskState
  <2> HIDE DEF t
  <2> QED
    BY <2>1, <2>2 DEF TypeOK
<1>2. net' \in [Streams -> StreamState]
  BY CutType DEF Backoff
<1> QED
  BY <1>1, <1>2

\* One task, or one stream, replaced by a well-typed one.
LEMMA TaskAt ==
    ASSUME TypeOK, NEW p \in Peers, NEW t \in TaskState
    PROVE  [task EXCEPT ![p] = t] \in [Peers -> TaskState]
  BY DEF TypeOK

LEMMA NetAt ==
    ASSUME TypeOK, NEW s \in Streams, NEW t \in StreamState
    PROVE  [net EXCEPT ![s] = t] \in [Streams -> StreamState]
  BY DEF TypeOK

\* The updates of a task's and of a stream's fields that the actions make.
LEMMA TaskFields ==
    ASSUME NEW t \in TaskState, NEW x \in PC, NEW B \in SUBSET Row,
           NEW w \in {"none", "quiet", "queued"}
    PROVE  /\ [t EXCEPT !.pc = x] \in TaskState
           /\ [t EXCEPT !.pc = x, !.waker = w] \in TaskState
           /\ [t EXCEPT !.pc = x, !.batch = B] \in TaskState
  BY DEF TaskState

LEMMA StreamFields ==
    ASSUME NEW t \in StreamState, NEW v \in Seq(Frame), NEW w \in Seq(Frame),
           NEW h \in Frame \cup {None}
    PROVE  /\ [t EXCEPT !.wire = v] \in StreamState
           /\ [t EXCEPT !.wire = v, !.buf = w] \in StreamState
           /\ [t EXCEPT !.buf = w, !.hold = h] \in StreamState
           /\ [t EXCEPT !.buf = w] \in StreamState
           /\ [t EXCEPT !.hold = h] \in StreamState
  BY DEF StreamState

LEMMA StreamRx ==
    ASSUME NEW t \in StreamState,
           NEW x \in {"idle", "opening", "reading", "draining"}
    PROVE  /\ [t EXCEPT !.rx = x] \in StreamState
           /\ [t EXCEPT !.conn = "up", !.rx = x] \in StreamState
  BY DEF StreamState

LEMMA FaultType ==
    ASSUME TypeOK, NEW k, Fault(k)
    PROVE  faults' \in Nat
  BY DEF TypeOK, Fault

LEMMA InStreamType ==
    ASSUME TypeOK, NEW s \in Streams
    PROVE  InStream(s) \in SUBSET Message
<1>1. ChanOf(s) \in Channels
  BY DEF Streams, ChanOf
<1>2. \A f \in Frame : Msg(s, f) \in Message
  BY <1>1 DEF Msg, Frame, Message
<1>3. net[s] \in StreamState
  BY DEF TypeOK
<1>4. \A i \in DOMAIN net[s].wire : net[s].wire[i] \in Frame
  BY <1>3 DEF StreamState
<1>5. \A i \in DOMAIN net[s].buf : net[s].buf[i] \in Frame
  BY <1>3 DEF StreamState
<1>6. net[s].hold \in Frame \cup {None}
  BY <1>3 DEF StreamState
<1> QED
  BY <1>2, <1>4, <1>5, <1>6 DEF InStream, Range

LEMMA LosingType ==
    ASSUME TypeOK, NEW p \in Peers, NEW M \in SUBSET Message
    PROVE  Losing(p, M) \in [Peers -> SUBSET Message]
  BY DEF TypeOK, Losing

LEMMA BatchType ==
    ASSUME TypeOK, NEW p \in Peers, NEW B \in Batches(p)
    PROVE  B \in SUBSET Row
  BY DEF TypeOK, Batches, Pending, AllRows, Rows, Range

LEMMA MarkedType ==
    ASSUME TypeOK, NEW r \in Row
    PROVE  Marked(r) \in [Channels -> Seq(Row)]
<1> DEFINE q == outbox[r.ch]
           m == [i \in DOMAIN q |->
                   IF q[i].seq = r.seq THEN [q[i] EXCEPT !.delivered = TRUE]
                   ELSE q[i]]
<1>1. r.ch \in Channels /\ q \in Seq(Row)
  BY DEF Row, TypeOK
<1>2. \A i \in DOMAIN q : q[i] \in Row
  BY <1>1
<1>3. \A i \in DOMAIN q : [q[i] EXCEPT !.delivered = TRUE] \in Row
  BY <1>2 DEF Row
<1>4. m \in Seq(Row)
  <2>1. DOMAIN q = 1 .. Len(q) /\ Len(q) \in Nat
    BY <1>1
  <2>2. m \in [1 .. Len(q) -> Row]
    BY <1>2, <1>3, <2>1
  <2> HIDE DEF m
  <2> QED
    BY <2>1, <2>2
<1>5. Marked(r) = [outbox EXCEPT ![r.ch] = m]
  BY DEF Marked, TypeOK
<1> HIDE DEF m
<1> QED
  BY <1>1, <1>4, <1>5 DEF TypeOK

-----------------------------------------------------------------------------
(* Type correctness.                                                       *)

LEMMA TypeStep ==
    ASSUME TypeOK, SeqIsPlace, [Next]_vars
    PROVE  TypeOK'
<1> USE DEF receiverVars, envVars, senderVars
<1>1. ASSUME NEW p \in Peers, NEW c \in Channels, NEW big \in Sizes, Send(p, c, big)
     PROVE  TypeOK'
  <2>1. NextSeq(c) \in Nat
    BY NextSeqIsLen DEF TypeOK
  <2>2. PICK d \in ClockSteps :
          /\ clock' = clock + d
          /\ outbox' = [outbox EXCEPT ![c] = Append(@,
                [ch |-> c, seq |-> NextSeq(c), peer |-> p, body |-> nsent + 1,
                 ts |-> clock + d, big |-> big, delivered |-> FALSE])]
    BY <1>1 DEF Send
  <2> DEFINE r == [ch |-> c, seq |-> NextSeq(c), peer |-> p,
                   body |-> nsent + 1, ts |-> clock + d, big |-> big,
                   delivered |-> FALSE]
  <2>3. clock + d \in Int /\ big \in BOOLEAN /\ nsent + 1 \in Nat
    BY DeliveryAssumption DEF TypeOK
  <2>4. r \in Row
    BY <2>1, <2>3 DEF Row
  <2>5. outbox' \in [Channels -> Seq(Row)]
    <3> HIDE DEF r
    <3>1. outbox' = [outbox EXCEPT ![c] = Append(@, r)]
      BY <2>2 DEF r
    <3> QED
      BY <3>1, <2>4 DEF TypeOK
  <2>6. handlers' \in SUBSET (Peers \X Nat)
    BY <1>1, <2>3 DEF Send, TypeOK
  <2> QED
    BY <1>1, <2>2, <2>3, <2>5, <2>6 DEF Send, TypeOK
<1>2. ASSUME NEW h \in handlers, NotifyPeer(h)
     PROVE  TypeOK'
  BY <1>2, NotifiedType DEF NotifyPeer, TypeOK
<1>3. ASSUME ScanBacklog
     PROVE  TypeOK'
  <2>1. faults' \in Nat
    BY <1>3, FaultType DEF ScanBacklog, TypeOK
  <2>2. PendingPeers \in SUBSET Peers
    BY DEF PendingPeers
  <2>3. \E T \in SUBSET Peers : backlog' = [scanned |-> TRUE, todo |-> T]
    BY <1>3, <2>2 DEF ScanBacklog
  <2>4. backlog' \in [scanned : BOOLEAN, todo : SUBSET Peers]
    BY <2>3
  <2> QED
    BY <1>3, <2>1, <2>4 DEF ScanBacklog, TypeOK
<1>4. ASSUME NEW p \in Peers, ResumePeer(p)
     PROVE  TypeOK'
  BY <1>4, NotifiedType DEF ResumePeer, TypeOK
<1>5. ASSUME NEW p \in Peers, FetchBatch(p)
     PROVE  TypeOK'
  <2>1. CASE \E B \in Batches(p) :
               /\ task' = [task EXCEPT ![p].pc = "row", ![p].batch = B]
               /\ UNCHANGED <<net, faults>>
    <3>1. PICK B \in Batches(p) :
            task' = [task EXCEPT ![p].pc = "row", ![p].batch = B]
      BY <2>1
    <3>2. task[p] \in TaskState /\ B \in SUBSET Row
      BY BatchType DEF TypeOK
    <3>3. [task[p] EXCEPT !.pc = "row", !.batch = B] \in TaskState
      BY <3>2, TaskFields DEF PC
    <3>4. task' = [task EXCEPT ![p] =
                     [task[p] EXCEPT !.pc = "row", !.batch = B]]
      BY <3>1 DEF TypeOK
    <3>5. task' \in [Peers -> TaskState]
      BY <3>3, <3>4, TaskAt
    <3> QED
      BY <1>5, <2>1, <3>5 DEF FetchBatch, TypeOK
  <2>2. CASE Fault("store") /\ Backoff(p)
    BY <1>5, <2>2, FaultType, BackoffType DEF FetchBatch, TypeOK
  <2> QED
    BY <1>5, <2>1, <2>2 DEF FetchBatch
<1>6. ASSUME NEW p \in Peers, DrainDone(p)
     PROVE  TypeOK'
  <2>1. task' = [task EXCEPT ![p] = [task[p] EXCEPT !.pc = "idle"]]
    BY <1>6 DEF DrainDone, TypeOK
  <2>2. [task[p] EXCEPT !.pc = "idle"] \in TaskState
    <3>1. task[p] \in TaskState /\ "idle" \in PC
      BY DEF TypeOK, PC
    <3> QED
      BY <3>1, TaskFields
  <2>3. task' \in [Peers -> TaskState]
    BY <2>1, <2>2, TaskAt
  <2> QED
    BY <1>6, <2>3 DEF DrainDone, TypeOK
<1>7. ASSUME NEW p \in Peers, OpenStream(p)
     PROVE  TypeOK'
  <2>1. PICK r \in CurrentRow(p), k \in Slots :
          /\ net' = [net EXCEPT ![<<p, r.ch, k>>] =
                       [NoStream EXCEPT !.conn = "up", !.rx = "opening"]]
          /\ task' = [task EXCEPT ![p].streams[r.ch] = k]
    BY <1>7 DEF OpenStream
  <2>2. task' \in [Peers -> TaskState]
    <3> DEFINE h == [task[p].streams EXCEPT ![r.ch] = k]
               t == [task[p] EXCEPT !.streams = h]
    <3>1. task[p] \in TaskState
      BY DEF TypeOK
    <3>2. h \in [Channels -> Slots \cup {None}]
      BY <3>1 DEF TaskState
    <3>3. task' = [task EXCEPT ![p] = t]
      BY <2>1 DEF TypeOK
    <3> HIDE DEF h
    <3>4. t \in TaskState
      BY <3>1, <3>2 DEF TaskState
    <3> HIDE DEF t
    <3> QED
      BY <3>3, <3>4, TaskAt
  <2>3. [NoStream EXCEPT !.conn = "up", !.rx = "opening"] \in StreamState
    BY NoStreamType, StreamRx
  <2>4. net' \in [Streams -> StreamState]
    BY <2>1, <2>3 DEF TypeOK
  <2> QED
    BY <1>7, <2>2, <2>4 DEF OpenStream, TypeOK
<1>8. ASSUME NEW p \in Peers, OpenFails(p)
     PROVE  TypeOK'
  BY <1>8, FaultType, BackoffType DEF OpenFails, TypeOK
<1>9. ASSUME NEW p \in Peers, WriteFrame(p)
     PROVE  TypeOK'
  <2>1. PICK r \in CurrentRow(p) :
          /\ task[p].streams[r.ch] # None
          /\ \/ /\ net' = [net EXCEPT ![StreamOf(p, r.ch)].wire =
                               Append(@, [seq |-> r.seq, body |-> r.body])]
                /\ UNCHANGED lost
             \/ /\ lost' = Losing(p, {Msg(StreamOf(p, r.ch), r)})
                /\ UNCHANGED net
    BY <1>9 DEF WriteFrame
  <2>2. r \in Row
    BY DEF CurrentRow, TypeOK, TaskState
  <2>3. StreamOf(p, r.ch) \in Streams
    BY <2>1, <2>2 DEF StreamOf, Streams, TypeOK, TaskState, Row
  <2>4. [seq |-> r.seq, body |-> r.body] \in Frame
    BY <2>2 DEF Row, Frame
  <2>5. net' \in [Streams -> StreamState]
    <3> DEFINE s == StreamOf(p, r.ch)
               w == Append(net[s].wire, [seq |-> r.seq, body |-> r.body])
    <3>1. net[s] \in StreamState /\ net[s].wire \in Seq(Frame)
      BY <2>3 DEF TypeOK, StreamState
    <3>2. w \in Seq(Frame)
      BY <3>1, <2>4
    <3>3. [net[s] EXCEPT !.wire = w] \in StreamState
      BY <3>1, <3>2, StreamFields
    <3>4. \/ net' = net
          \/ net' = [net EXCEPT ![s] = [net[s] EXCEPT !.wire = w]]
      BY <2>1, <2>3 DEF TypeOK
    <3> QED
      BY <2>3, <3>3, <3>4, NetAt DEF TypeOK
  <2>6. Msg(StreamOf(p, r.ch), r) \in Message
    BY <2>2 DEF Msg, StreamOf, ChanOf, Row, Message
  <2>7. lost' \in [Peers -> SUBSET Message]
    <3>1. Losing(p, {Msg(StreamOf(p, r.ch), r)}) \in [Peers -> SUBSET Message]
      BY <2>6, LosingType
    <3> QED
      BY <2>1, <3>1 DEF TypeOK
  <2>8. task' \in [Peers -> TaskState]
    BY <1>9, TaskFields, TaskAt DEF WriteFrame, TypeOK, PC
  <2> QED
    BY <1>9, <2>5, <2>7, <2>8 DEF WriteFrame, TypeOK
<1>10. ASSUME NEW p \in Peers, WriteFails(p)
     PROVE  TypeOK'
  BY <1>10, BackoffType DEF WriteFails, TypeOK
<1>11. ASSUME NEW p \in Peers, MarkDelivered(p)
     PROVE  TypeOK'
  <2>1. PICK r \in CurrentRow(p) :
          \/ /\ outbox' = Marked(r)
             /\ task' = [task EXCEPT ![p].batch = @ \ {r},
                                     ![p].pc = IF task[p].batch = {r}
                                               THEN "fetch" ELSE "row"]
             /\ UNCHANGED <<net, faults>>
          \/ /\ Fault("store")
             /\ Backoff(p)
             /\ UNCHANGED outbox
    BY <1>11 DEF MarkDelivered
  <2>2. r \in Row
    BY DEF CurrentRow, TypeOK, TaskState
  <2>3. CASE /\ outbox' = Marked(r)
             /\ task' = [task EXCEPT ![p].batch = @ \ {r},
                                     ![p].pc = IF task[p].batch = {r}
                                               THEN "fetch" ELSE "row"]
             /\ UNCHANGED <<net, faults>>
    <3>1. task' \in [Peers -> TaskState]
      <4> DEFINE B == task[p].batch \ {r}
                 x == IF task[p].batch = {r} THEN "fetch" ELSE "row"
      <4>1. task[p] \in TaskState /\ B \in SUBSET Row /\ x \in PC
        BY DEF TypeOK, TaskState, PC
      <4>2. [task[p] EXCEPT !.pc = x, !.batch = B] \in TaskState
        BY <4>1, TaskFields
      <4>3. task' = [task EXCEPT ![p] =
                       [task[p] EXCEPT !.pc = x, !.batch = B]]
        BY <2>3, <4>1 DEF TypeOK
      <4> QED
        BY <4>2, <4>3, TaskAt
    <3>2. outbox' \in [Channels -> Seq(Row)]
      BY <2>2, <2>3, MarkedType
    <3> QED
      BY <1>11, <2>3, <3>1, <3>2 DEF MarkDelivered, TypeOK
  <2>4. CASE /\ Fault("store")
             /\ Backoff(p)
             /\ UNCHANGED outbox
    BY <1>11, <2>4, FaultType, BackoffType DEF MarkDelivered, TypeOK
  <2> QED
    BY <2>1, <2>3, <2>4
<1>12. ASSUME NEW p \in Peers, TakeWake(p)
     PROVE  TypeOK'
  <2>1. task[p] \in TaskState
    BY DEF TypeOK
  <2>2. [task[p] EXCEPT !.pc = "fetch", !.waker = "quiet"] \in TaskState
    BY <2>1, TaskFields DEF PC
  <2>3. task' = [task EXCEPT ![p] =
                   [task[p] EXCEPT !.pc = "fetch", !.waker = "quiet"]]
    BY <1>12 DEF TakeWake, TypeOK
  <2> QED
    BY <1>12, <2>2, <2>3, TaskAt DEF TakeWake, TypeOK
<1>13. ASSUME NEW p \in Peers, RetryTimer(p)
     PROVE  TypeOK'
  <2>1. task' = [task EXCEPT ![p] = [task[p] EXCEPT !.pc = "fetch"]]
    BY <1>13 DEF RetryTimer, TypeOK
  <2>2. [task[p] EXCEPT !.pc = "fetch"] \in TaskState
    <3>1. task[p] \in TaskState /\ "fetch" \in PC
      BY DEF TypeOK, PC
    <3> QED
      BY <3>1, TaskFields
  <2>3. task' \in [Peers -> TaskState]
    BY <2>1, <2>2, TaskAt
  <2> QED
    BY <1>13, <2>3 DEF RetryTimer, TypeOK
<1>14. ASSUME NEW p \in Peers, SeeShutdown(p)
     PROVE  TypeOK'
  <2>1. task' = [task EXCEPT ![p] = [task[p] EXCEPT !.pc = "exit"]]
    BY <1>14 DEF SeeShutdown, TypeOK
  <2>2. [task[p] EXCEPT !.pc = "exit"] \in TaskState
    <3>1. task[p] \in TaskState /\ "exit" \in PC
      BY DEF TypeOK, PC
    <3> QED
      BY <3>1, TaskFields
  <2>3. task' \in [Peers -> TaskState]
    BY <2>1, <2>2, TaskAt
  <2> QED
    BY <1>14, <2>3 DEF SeeShutdown, TypeOK
<1>15. ASSUME NEW p \in Peers, TaskExit(p)
     PROVE  TypeOK'
  BY <1>15, NoTaskType, CutType DEF TaskExit, TypeOK
<1>16. ASSUME Shutdown
     PROVE  TypeOK'
  <2>0. task' = [p \in Peers |-> [task[p] EXCEPT !.stop = task[p].pc # "none"]]
    BY <1>16 DEF Shutdown
  <2>1. task' \in [Peers -> TaskState]
    BY <2>0 DEF TypeOK, TaskState
  <2> QED
    BY <1>16, <2>1, FaultType DEF Shutdown, TypeOK
<1>17. ASSUME CloseTransport
     PROVE  TypeOK'
  BY <1>17, CutType DEF CloseTransport, TypeOK
<1>18. ASSUME Exit
     PROVE  TypeOK'
  BY <1>18, CutType, NoTaskType DEF Exit, Down, TypeOK
<1>19. ASSUME Crash
     PROVE  TypeOK'
  BY <1>19, CutType, NoTaskType, FaultType DEF Crash, Down, TypeOK
<1>20. ASSUME Restart
     PROVE  TypeOK'
  BY <1>20 DEF Restart, TypeOK
<1>21. ASSUME NEW p \in Peers, SenderPairing(p)
     PROVE  TypeOK'
  BY <1>21, FaultType DEF SenderPairing, TypeOK
<1>22. ASSUME NEW p \in Peers, ReceiverPairing(p)
     PROVE  TypeOK'
  BY <1>22, FaultType DEF ReceiverPairing, TypeOK
<1>23. ASSUME NEW s \in Streams, Break(s)
     PROVE  TypeOK'
  BY <1>23, CutType, FaultType DEF Break, TypeOK
<1>24. ASSUME NEW s \in Streams, LoseFrame(s)
     PROVE  TypeOK'
  <2>1. /\ net[s].wire \in Seq(Frame)
        /\ net[s].wire # <<>>
        /\ PeerOf(s) \in Peers
    BY <1>24 DEF LoseFrame, TypeOK, StreamState, Streams, PeerOf
  <2>2. SubSeq(net[s].wire, 1, Len(net[s].wire) - 1) \in Seq(Frame)
    BY <2>1
  <2>3. net' \in [Streams -> StreamState]
    BY <1>24, <2>2 DEF LoseFrame, TypeOK, StreamState
  <2>4. Msg(s, net[s].wire[Len(net[s].wire)]) \in Message
    <3>1. net[s].wire[Len(net[s].wire)] \in Frame
      BY <2>1
    <3> QED
      BY <3>1 DEF Msg, Message, Frame, Streams, ChanOf
  <2> QED
    BY <1>24, <2>1, <2>3, <2>4, LosingType DEF LoseFrame, TypeOK
<1>25. ASSUME NEW s \in Streams, AcceptStream(s)
     PROVE  TypeOK'
  <2>1. net' \in [Streams -> StreamState]
    <3>1. [net[s] EXCEPT !.rx = "reading"] \in StreamState
      BY StreamRx DEF TypeOK
    <3> QED
      BY <1>25, <3>1, NoStreamType, NetAt DEF AcceptStream, TypeOK
  <2>2. PeerOf(s) \in Peers
    BY DEF Streams, PeerOf
  <2>3. lost' \in [Peers -> SUBSET Message]
    BY <1>25, <2>2, InStreamType, LosingType DEF AcceptStream, TypeOK
  <2> QED
    BY <1>25, <2>1, <2>3 DEF AcceptStream, TypeOK
<1>26. ASSUME NEW s \in Streams, AcceptFails(s)
     PROVE  TypeOK'
  <2>1. PeerOf(s) \in Peers
    BY DEF Streams, PeerOf
  <2>2. lost' \in [Peers -> SUBSET Message]
    BY <1>26, <2>1, InStreamType, LosingType DEF AcceptFails
  <2> QED
    BY <1>26, <2>2, NoStreamType DEF AcceptFails, TypeOK
<1>27. ASSUME NEW s \in Streams, ReadFrame(s)
     PROVE  TypeOK'
  <2>1. net[s].wire \in Seq(Frame) /\ net[s].wire # <<>>
    BY <1>27 DEF ReadFrame, TypeOK, StreamState
  <2>2. Tail(net[s].wire) \in Seq(Frame) /\ Head(net[s].wire) \in Frame
    BY <2>1
  <2>3. net' \in [Streams -> StreamState]
    <3> DEFINE v == Tail(net[s].wire)
               w == Append(net[s].buf, Head(net[s].wire))
    <3>1. net[s] \in StreamState /\ net[s].buf \in Seq(Frame)
      BY DEF TypeOK, StreamState
    <3>2. v \in Seq(Frame) /\ w \in Seq(Frame)
      BY <2>2, <3>1
    <3>3. [net[s] EXCEPT !.wire = v, !.buf = w] \in StreamState
      BY <3>1, <3>2, StreamFields
    <3>4. net' = [net EXCEPT ![s] = [net[s] EXCEPT !.wire = v, !.buf = w]]
      BY <1>27 DEF ReadFrame, TypeOK
    <3> QED
      BY <3>3, <3>4, NetAt
  <2> QED
    BY <1>27, <2>3 DEF ReadFrame, TypeOK
<1>28. ASSUME NEW s \in Streams, ReadEnds(s)
     PROVE  TypeOK'
  BY <1>28 DEF ReadEnds, TypeOK, StreamState
<1>29. ASSUME NEW s \in Streams, RecordFrame(s)
     PROVE  TypeOK'
  <2>1. net[s].buf \in Seq(Frame) /\ net[s].buf # <<>>
    BY <1>29 DEF RecordFrame, TypeOK, StreamState
  <2>2. Tail(net[s].buf) \in Seq(Frame) /\ Head(net[s].buf) \in Frame
    BY <2>1
  <2>3. net' \in [Streams -> StreamState]
    <3> DEFINE w == Tail(net[s].buf)
               f == Head(net[s].buf)
    <3>1. net[s] \in StreamState
      BY DEF TypeOK
    <3>2. /\ [net[s] EXCEPT !.buf = w, !.hold = f] \in StreamState
          /\ [net[s] EXCEPT !.buf = w] \in StreamState
      BY <2>2, <3>1, StreamFields
    <3>3. \/ net' = [net EXCEPT ![s] = [net[s] EXCEPT !.buf = w, !.hold = f]]
          \/ net' = [net EXCEPT ![s] = [net[s] EXCEPT !.buf = w]]
      BY <1>29 DEF RecordFrame, TypeOK
    <3> QED
      BY <3>2, <3>3, NetAt
  <2>4. Msg(s, Head(net[s].buf)) \in Message /\ PeerOf(s) \in Peers
    BY <2>2 DEF Msg, Message, Frame, Streams, ChanOf, PeerOf
  <2>5. inbox' \in [Peers -> SUBSET Message]
    <3>1. \/ inbox' = inbox
          \/ inbox' = [inbox EXCEPT ![PeerOf(s)] =
                         @ \cup {Msg(s, Head(net[s].buf))}]
      BY <1>29 DEF RecordFrame
    <3>2. inbox[PeerOf(s)] \cup {Msg(s, Head(net[s].buf))} \in SUBSET Message
      BY <2>4 DEF TypeOK
    <3> QED
      BY <2>4, <3>1, <3>2 DEF TypeOK
  <2>6. faults' \in Nat
    BY <1>29, FaultType DEF RecordFrame, TypeOK
  <2> QED
    BY <1>29, <2>3, <2>5, <2>6 DEF RecordFrame, TypeOK
<1>30. ASSUME NEW s \in Streams, EmitFrame(s)
     PROVE  TypeOK'
  <2>1. net[s].hold \in Frame
    BY <1>30 DEF EmitFrame, TypeOK, StreamState
  <2>2. Msg(s, net[s].hold) \in Message /\ PeerOf(s) \in Peers
    BY <2>1 DEF Msg, Message, Frame, Streams, ChanOf, PeerOf
  <2>3. emitted' \in [Peers -> Seq(Message)]
    BY <1>30, <2>2 DEF EmitFrame, TypeOK
  <2>4. net' \in [Streams -> StreamState]
    BY <1>30 DEF EmitFrame, TypeOK, StreamState
  <2> QED
    BY <1>30, <2>3, <2>4 DEF EmitFrame, TypeOK
<1>31. ASSUME NEW s \in Streams, ConsumerEnds(s)
     PROVE  TypeOK'
  <2>1. [net[s] EXCEPT !.rx = "idle"] \in StreamState
    BY StreamRx DEF TypeOK
  <2> QED
    BY <1>31, <2>1, NetAt DEF ConsumerEnds, TypeOK
<1>32. ASSUME NEW p \in Peers, ReceiverCrash(p)
     PROVE  TypeOK'
  <2>1. Transit(p) \in SUBSET Message
    BY InStreamType DEF Transit
  <2>2. net' \in [Streams -> StreamState]
    BY <1>32, NoStreamType DEF ReceiverCrash, TypeOK
  <2> QED
    BY <1>32, <2>1, <2>2, FaultType, LosingType DEF ReceiverCrash, TypeOK
<1>33. CASE UNCHANGED vars
  BY <1>33 DEF vars, TypeOK
<1> QED
  BY <1>1, <1>2, <1>3, <1>4, <1>5, <1>6, <1>7, <1>8, <1>9, <1>10, <1>11, <1>12, <1>13, <1>14, <1>15, <1>16, <1>17, <1>18, <1>19, <1>20, <1>21, <1>22, <1>23, <1>24, <1>25, <1>26, <1>27, <1>28, <1>29, <1>30, <1>31, <1>32, <1>33
     DEF Next, TaskStep, StreamStep

\* Marking a row changes nothing else of it.
LEMMA MarkKeeps ==
    ASSUME NEW r \in Row
    PROVE  LET q == [r EXCEPT !.delivered = TRUE] IN
           /\ q.seq = r.seq /\ q.ch = r.ch
           /\ q.peer = r.peer /\ q.body = r.body
  BY DEF Row

\* Only Send and MarkDelivered write to the outbox.
LEMMA OutboxWriters ==
    ASSUME [Next]_vars
    PROVE  \/ UNCHANGED outbox
           \/ \E p \in Peers, c \in Channels, big \in Sizes : Send(p, c, big)
           \/ \E p \in Peers : MarkDelivered(p)
  BY DEF Next, vars, senderVars, NotifyPeer, ScanBacklog, ResumePeer, TaskStep,
         FetchBatch, DrainDone, OpenStream, OpenFails, WriteFrame, WriteFails,
         TakeWake, RetryTimer, SeeShutdown, TaskExit, Shutdown, CloseTransport,
         Exit, Crash, Down, Restart, SenderPairing, ReceiverPairing, Break,
         LoseFrame, StreamStep, AcceptStream, AcceptFails, ReadFrame, ReadEnds,
         RecordFrame, EmitFrame, ConsumerEnds, ReceiverCrash

\* No step loses a row or renumbers one.
LEMMA OutboxStep ==
    ASSUME TypeOK, SeqIsPlace, [Next]_vars
    PROVE  OutboxKept /\ SeqIsPlace'
<1>1. CASE UNCHANGED outbox
  BY <1>1 DEF OutboxKept, SeqIsPlace, TypeOK
<1>2. ASSUME NEW p \in Peers, NEW c \in Channels, NEW big \in Sizes,
             Send(p, c, big)
     PROVE  OutboxKept /\ SeqIsPlace'
  <2>1. \E r : /\ outbox' = [outbox EXCEPT ![c] = Append(@, r)]
                /\ r.seq = NextSeq(c) /\ r.ch = c
    <3>1. PICK d \in ClockSteps :
            outbox' = [outbox EXCEPT ![c] = Append(@,
                [ch |-> c, seq |-> NextSeq(c), peer |-> p, body |-> nsent + 1,
                 ts |-> clock + d, big |-> big, delivered |-> FALSE])]
      BY <1>2 DEF Send
    <3> WITNESS [ch |-> c, seq |-> NextSeq(c), peer |-> p, body |-> nsent + 1,
                 ts |-> clock + d, big |-> big, delivered |-> FALSE]
    <3> QED
      BY <3>1
  <2> PICK r : /\ outbox' = [outbox EXCEPT ![c] = Append(@, r)]
               /\ r.seq = NextSeq(c) /\ r.ch = c
    BY <2>1
  <2>2. r.seq = Len(outbox[c]) + 1
    BY NextSeqIsLen
  <2>3. outbox[c] \in Seq(Row)
    BY DEF TypeOK
  <2>4. /\ outbox'[c] = Append(outbox[c], r)
        /\ \A d \in Channels \ {c} : outbox'[d] = outbox[d]
    BY DEF TypeOK
  <2>5. /\ Len(outbox'[c]) = Len(outbox[c]) + 1
        /\ DOMAIN outbox'[c] = DOMAIN outbox[c] \cup {Len(outbox[c]) + 1}
        /\ \A i \in DOMAIN outbox[c] : outbox'[c][i] = outbox[c][i]
        /\ outbox'[c][Len(outbox[c]) + 1] = r
    BY <2>3, <2>4
  <2>6. \A d \in Channels : Len(outbox[d]) \in Nat
    BY DEF TypeOK
  <2>7. OutboxKept
    BY <2>4, <2>5, <2>6 DEF OutboxKept
  <2>8. SeqIsPlace'
    BY <2>2, <2>4, <2>5 DEF SeqIsPlace
  <2> QED
    BY <2>7, <2>8
<1>3. ASSUME NEW p \in Peers, MarkDelivered(p)
     PROVE  OutboxKept /\ SeqIsPlace'
  <2>1. CASE UNCHANGED outbox
    BY <2>1 DEF OutboxKept, SeqIsPlace, TypeOK
  <2>2. CASE ~ UNCHANGED outbox
    <3>1. PICK r \in CurrentRow(p) : outbox' = Marked(r)
      BY <1>3, <2>2 DEF MarkDelivered
    <3>2. r \in Row
      BY DEF CurrentRow, TypeOK, TaskState
    <3>3. \A c \in Channels : /\ DOMAIN outbox'[c] = DOMAIN outbox[c]
                              /\ Len(outbox'[c]) = Len(outbox[c])
      BY <3>1, <3>2, MarkedType DEF Marked, TypeOK
    <3>4. \A c \in Channels : \A i \in DOMAIN outbox[c] :
            \/ outbox'[c][i] = outbox[c][i]
            \/ outbox'[c][i] = [outbox[c][i] EXCEPT !.delivered = TRUE]
      BY <3>1, <3>2 DEF Marked, TypeOK
    <3>5. \A c \in Channels : \A i \in DOMAIN outbox[c] :
            outbox[c][i] \in Row
      BY DEF TypeOK
    <3>6. \A c \in Channels : \A i \in DOMAIN outbox[c] :
            /\ outbox'[c][i].seq = outbox[c][i].seq
            /\ outbox'[c][i].ch = outbox[c][i].ch
      BY <3>4, <3>5, MarkKeeps
    <3>7. \A c \in Channels : Len(outbox[c]) \in Nat
      BY DEF TypeOK
    <3> QED
      BY <3>3, <3>4, <3>6, <3>7 DEF OutboxKept, SeqIsPlace
  <2> QED
    BY <2>1, <2>2
<1> QED
  BY <1>1, <1>2, <1>3, OutboxWriters

LEMMA TypeInit == Init => TypeOK /\ SeqIsPlace
<1> SUFFICES ASSUME Init PROVE TypeOK /\ SeqIsPlace
  OBVIOUS
<1>1. TypeOK
  BY NoTaskType, NoStreamType, DeliveryAssumption DEF Init, TypeOK
<1>2. SeqIsPlace
  BY DEF Init, SeqIsPlace
<1> QED
  BY <1>1, <1>2

LEMMA TypeInv == Spec => [](TypeOK /\ SeqIsPlace)
<1>1. Init => TypeOK /\ SeqIsPlace
  BY TypeInit
<1>2. TypeOK /\ SeqIsPlace /\ [Next]_vars => (TypeOK /\ SeqIsPlace)'
  BY TypeStep, OutboxStep
<1> QED
  BY <1>1, <1>2, PTL DEF Spec

\* Type correctness of the state of outbox, tasks, streams and inboxes.
THEOREM TypeCorrect == Spec => []TypeOK
  BY TypeInv, PTL

\* The outbox is durable: a row, once outbox_enqueue has inserted it, is never
\* removed, renumbered, readdressed or marked undelivered again.
THEOREM OutboxIsDurable == Spec => OutboxDurable
<1>1. TypeOK /\ SeqIsPlace /\ [Next]_vars => [OutboxKept]_vars
  BY OutboxStep
<1> QED
  BY <1>1, TypeInv, PTL DEF Spec, OutboxDurable

-----------------------------------------------------------------------------
(* What one step can do to batches, streams and received messages.         *)

\* The messages of a peer's slice of the outbox only grow in number.
LEMMA AddressedGrows ==
    ASSUME TypeOK, OutboxKept, TypeOK', NEW p \in Peers
    PROVE  Addressed(p) \subseteq Addressed(p)'
<1> SUFFICES ASSUME NEW m \in Addressed(p)
             PROVE  m \in Addressed(p)'
  OBVIOUS
<1>0. PICK c \in Channels : \E i \in DOMAIN outbox[c] :
        m = MessageOf(outbox[c][i]) /\ outbox[c][i].peer = p
  BY DEF Addressed, AllRows, Rows, Range
<1>1. PICK i \in DOMAIN outbox[c] :
        m = MessageOf(outbox[c][i]) /\ outbox[c][i].peer = p
  BY <1>0
<1>2. outbox[c][i] \in Row
  BY DEF TypeOK
<1>3. i \in DOMAIN outbox'[c]
  BY DEF OutboxKept, TypeOK
<1>4. /\ outbox'[c][i].peer = p
      /\ MessageOf(outbox'[c][i]) = m
  BY <1>1, <1>2, MarkKeeps DEF OutboxKept, MessageOf
<1>5. outbox'[c][i] \in AllRows'
  BY <1>3 DEF AllRows, Rows, Range
<1> QED
  BY <1>4, <1>5 DEF Addressed, MessageOf

\* Two rows, or messages of a peer's slice, with one key are the same.
LEMMA KeyDecides ==
    ASSUME TypeOK, SeqIsPlace, NEW p \in Peers,
           NEW m \in Addressed(p), NEW n \in Addressed(p),
           m.ch = n.ch, m.seq = n.seq
    PROVE  m = n
<1>1. PICK c \in Channels : \E i \in DOMAIN outbox[c] :
        m = MessageOf(outbox[c][i])
  BY DEF Addressed, AllRows, Rows, Range
<1>2. PICK d \in Channels : \E i \in DOMAIN outbox[d] :
        n = MessageOf(outbox[d][i])
  BY DEF Addressed, AllRows, Rows, Range
<1> PICK i \in DOMAIN outbox[c] : m = MessageOf(outbox[c][i])
  BY <1>1
<1> PICK j \in DOMAIN outbox[d] : n = MessageOf(outbox[d][j])
  BY <1>2
<1>3. m.ch = c /\ m.seq = i /\ n.ch = d /\ n.seq = j
  BY DEF SeqIsPlace, MessageOf
<1> QED
  BY <1>3

LEMMA BatchStep ==
    ASSUME TypeOK, [Next]_vars, NEW p \in Peers
    PROVE  task'[p].batch \subseteq task[p].batch \cup Pending(p)
<1> DEFINE Goal == task'[p].batch \subseteq task[p].batch \cup Pending(p)
<1> USE DEF TypeOK, TaskState
<1>1. CASE UNCHANGED task
  BY <1>1
<1>2. ASSUME NEW q \in Peers, FetchBatch(q)
     PROVE  Goal
  <2>1. CASE Backoff(q)
    BY <2>1 DEF Backoff
  <2>2. ASSUME NEW B \in Batches(q),
               task' = [task EXCEPT ![q].pc = "row", ![q].batch = B]
       PROVE  Goal
    <3>1. B \subseteq Pending(q)
      BY DEF Batches
    <3> QED
      BY <2>2, <3>1
  <2> QED
    BY <1>2, <2>1, <2>2 DEF FetchBatch
<1>3. CASE \E q \in Peers : task' = Notified(q)
  BY <1>3 DEF Notified, NoTask
<1>4. ASSUME NEW q \in Peers, MarkDelivered(q)
     PROVE  Goal
  <2>1. CASE Backoff(q)
    BY <2>1 DEF Backoff
  <2>2. ASSUME NEW r, NEW x,
               task' = [task EXCEPT ![q].batch = @ \ {r}, ![q].pc = x]
       PROVE  Goal
    BY <2>2
  <2> QED
    BY <1>4, <2>1, <2>2 DEF MarkDelivered
<1>5. ASSUME NEW q \in Peers, DrainDone(q)
     PROVE  Goal
  BY <1>5 DEF DrainDone
<1>6. ASSUME NEW q \in Peers, OpenStream(q)
     PROVE  Goal
  BY <1>6 DEF OpenStream
<1>7. ASSUME NEW q \in Peers, WriteFrame(q)
     PROVE  Goal
  BY <1>7 DEF WriteFrame
<1>8. ASSUME NEW q \in Peers, TakeWake(q)
     PROVE  Goal
  BY <1>8 DEF TakeWake
<1>9. ASSUME NEW q \in Peers, RetryTimer(q)
     PROVE  Goal
  BY <1>9 DEF RetryTimer
<1>10. ASSUME NEW q \in Peers, SeeShutdown(q)
     PROVE  Goal
  BY <1>10 DEF SeeShutdown
<1>11. ASSUME NEW q \in Peers, OpenFails(q)
     PROVE  Goal
  BY <1>11 DEF OpenFails, Backoff
<1>12. ASSUME NEW q \in Peers, WriteFails(q)
     PROVE  Goal
  BY <1>12 DEF WriteFails, Backoff
<1>13. ASSUME NEW q \in Peers, TaskExit(q)
     PROVE  Goal
  BY <1>13 DEF TaskExit, NoTask
<1>14. CASE Shutdown
  BY <1>14 DEF Shutdown
<1>15. CASE Exit \/ Crash
  BY <1>15 DEF Exit, Crash, Down, NoTask
<1>16. \/ UNCHANGED task
       \/ \E q \in Peers : task' = Notified(q)
       \/ \E q \in Peers : TaskStep(q)
       \/ Shutdown \/ Exit \/ Crash
  BY DEF Next, vars, senderVars, NotifyPeer, ResumePeer, Send, ScanBacklog,
         CloseTransport, Restart, SenderPairing, ReceiverPairing, Break,
         LoseFrame, StreamStep, AcceptStream, AcceptFails, ReadFrame, ReadEnds,
         RecordFrame, EmitFrame, ConsumerEnds, ReceiverCrash
<1> QED
  BY <1>1, <1>2, <1>3, <1>4, <1>5, <1>6, <1>7, <1>8, <1>9, <1>10, <1>11,
     <1>12, <1>13, <1>14, <1>15, <1>16 DEF TaskStep

LEMMA ReceivedWriters ==
    ASSUME [Next]_vars
    PROVE  \/ UNCHANGED <<inbox, emitted>>
           \/ \E s \in Streams : RecordFrame(s) \/ EmitFrame(s)
  BY DEF Next, vars, senderVars, receiverVars, envVars, Send, NotifyPeer,
         ScanBacklog, ResumePeer, TaskStep, FetchBatch, DrainDone, OpenStream,
         OpenFails, WriteFrame, WriteFails, MarkDelivered, TakeWake, RetryTimer,
         SeeShutdown, TaskExit, Shutdown, CloseTransport, Exit, Crash, Down,
         Restart, SenderPairing, ReceiverPairing, Break, LoseFrame, StreamStep,
         AcceptStream, AcceptFails, ReadFrame, ReadEnds, ConsumerEnds,
         ReceiverCrash

\* What a frame at the head of the channel, or held, is a message of.
LEMMA InStreamParts ==
    ASSUME TypeOK, NEW s \in Streams
    PROVE  /\ \A i \in DOMAIN net[s].wire : Msg(s, net[s].wire[i]) \in InStream(s)
           /\ \A i \in DOMAIN net[s].buf : Msg(s, net[s].buf[i]) \in InStream(s)
           /\ net[s].hold # None => Msg(s, net[s].hold) \in InStream(s)
           /\ net[s].buf # <<>> => Msg(s, Head(net[s].buf)) \in InStream(s)
<1>1. /\ \A i \in DOMAIN net[s].wire : Msg(s, net[s].wire[i]) \in InStream(s)
      /\ \A i \in DOMAIN net[s].buf : Msg(s, net[s].buf[i]) \in InStream(s)
      /\ net[s].hold # None => Msg(s, net[s].hold) \in InStream(s)
  BY DEF InStream, Range
<1>2. net[s].buf \in Seq(Frame)
  BY DEF TypeOK, StreamState
<1>3. net[s].buf # <<>>
        => 1 \in DOMAIN net[s].buf /\ Head(net[s].buf) = net[s].buf[1]
  BY <1>2
<1> QED
  BY <1>1, <1>3

LEMMA InStreamInTransit ==
    ASSUME NEW s \in Streams
    PROVE  InStream(s) \subseteq Transit(PeerOf(s))
  BY DEF Transit

\* A receiver gets what a stream to it carries, and keeps what it has got.
LEMMA ReceivedStep ==
    ASSUME TypeOK, TypeOK', [Next]_vars, NEW p \in Peers
    PROVE  /\ Received(p) \subseteq Received(p)'
           /\ Received(p)' \subseteq Received(p) \cup Transit(p)
<1>1. CASE UNCHANGED <<inbox, emitted>>
  BY <1>1 DEF Received, Range
<1>2. ASSUME NEW s \in Streams, RecordFrame(s)
     PROVE  /\ Received(p) \subseteq Received(p)'
            /\ Received(p)' \subseteq Received(p) \cup Transit(p)
  <2> DEFINE m == Msg(s, Head(net[s].buf))
  <2>1. m \in Transit(PeerOf(s))
    BY <1>2, InStreamParts, InStreamInTransit DEF RecordFrame
  <2>2. \/ inbox' = inbox
        \/ inbox' = [inbox EXCEPT ![PeerOf(s)] = @ \cup {m}]
    BY <1>2 DEF RecordFrame
  <2>3. emitted' = emitted
    BY <1>2 DEF RecordFrame
  <2> HIDE DEF m
  <2>4. inbox[p] \subseteq inbox'[p] /\ inbox'[p] \subseteq inbox[p] \cup Transit(p)
    <3>1. \/ inbox'[p] = inbox[p]
          \/ PeerOf(s) = p /\ inbox'[p] = inbox[p] \cup {m}
      BY <2>2 DEF TypeOK
    <3> QED
      BY <2>1, <3>1
  <2> QED
    BY <2>3, <2>4 DEF Received, Range
<1>3. ASSUME NEW s \in Streams, EmitFrame(s)
     PROVE  /\ Received(p) \subseteq Received(p)'
            /\ Received(p)' \subseteq Received(p) \cup Transit(p)
  <2> DEFINE m == Msg(s, net[s].hold)
  <2>1. m \in Transit(PeerOf(s))
    BY <1>3, InStreamParts, InStreamInTransit DEF EmitFrame
  <2>2. emitted' = [emitted EXCEPT ![PeerOf(s)] = Append(@, m)]
    BY <1>3 DEF EmitFrame
  <2>3. inbox' = inbox
    BY <1>3 DEF EmitFrame
  <2> HIDE DEF m
  <2>4. emitted[p] \in Seq(Message) /\ PeerOf(s) \in Peers
    BY DEF TypeOK, Streams, PeerOf
  <2>5. CASE PeerOf(s) = p
    <3>1. emitted'[p] = Append(emitted[p], m)
      BY <2>2, <2>5 DEF TypeOK
    <3>2. /\ DOMAIN emitted'[p] = DOMAIN emitted[p] \cup {Len(emitted[p]) + 1}
          /\ \A i \in DOMAIN emitted[p] : emitted'[p][i] = emitted[p][i]
          /\ emitted'[p][Len(emitted[p]) + 1] = m
      BY <2>4, <3>1
    <3> QED
      BY <2>1, <2>3, <2>5, <3>2 DEF Received, Range
  <2>6. CASE PeerOf(s) # p
    BY <2>2, <2>3, <2>6 DEF Received, Range, TypeOK
  <2> QED
    BY <2>5, <2>6
<1> QED
  BY <1>1, <1>2, <1>3, ReceivedWriters

\* What is lost stays lost.
LEMMA LostGrows ==
    ASSUME TypeOK, [Next]_vars, NEW p \in Peers
    PROVE  lost[p] \subseteq lost'[p]
<1>1. UNCHANGED lost \/ \E q \in Peers : \E M : lost' = Losing(q, M)
  <2>1. \A s \in Streams : PeerOf(s) \in Peers
    BY DEF Streams, PeerOf
  <2> QED
    BY <2>1
    DEF Next, vars, senderVars, receiverVars, envVars, Send, NotifyPeer,
         ScanBacklog, ResumePeer, TaskStep, FetchBatch, DrainDone, OpenStream,
         OpenFails, WriteFrame, WriteFails, MarkDelivered, TakeWake, RetryTimer,
         SeeShutdown, TaskExit, Shutdown, CloseTransport, Exit, Crash, Down,
         Restart, SenderPairing, ReceiverPairing, Break, LoseFrame, StreamStep,
         AcceptStream, AcceptFails, ReadFrame, ReadEnds, RecordFrame, EmitFrame,
         ConsumerEnds, ReceiverCrash
<1> QED
  BY <1>1 DEF Losing, TypeOK

LEMMA NetWriters ==
    ASSUME [Next]_vars
    PROVE  \/ UNCHANGED net
           \/ \E S : net' = Cut(S)
           \/ \E p \in Peers : OpenStream(p) \/ WriteFrame(p) \/ ReceiverCrash(p)
           \/ \E s \in Streams : \/ LoseFrame(s) \/ AcceptStream(s)
                                 \/ AcceptFails(s) \/ ReadFrame(s)
                                 \/ ReadEnds(s) \/ RecordFrame(s)
                                 \/ EmitFrame(s) \/ ConsumerEnds(s)
  BY DEF Next, vars, senderVars, receiverVars, envVars, Send, NotifyPeer,
         ScanBacklog, ResumePeer, TaskStep, FetchBatch, DrainDone, OpenFails,
         WriteFails, MarkDelivered, Backoff, TakeWake, RetryTimer, SeeShutdown,
         TaskExit, Shutdown, CloseTransport, Exit, Crash, Down, Restart,
         SenderPairing, ReceiverPairing, Break, StreamStep

\* InStream depends on what is queued and held, not on the state of the ends.
LEMMA SameFrames ==
    ASSUME NEW s \in Streams, net'[s].wire = net[s].wire,
           net'[s].buf = net[s].buf, net'[s].hold = net[s].hold
    PROVE  InStream(s)' = InStream(s)
  BY DEF InStream, Msg, Range

LEMMA EmptyStream ==
    ASSUME NEW s \in Streams, net'[s].wire = <<>>, net'[s].buf = <<>>,
           net'[s].hold = None
    PROVE  InStream(s)' = {}
  BY DEF InStream, Range

\* The elements of a sequence that an operation adds or removes.
LEMMA AppendRange ==
    ASSUME NEW T, NEW q \in Seq(T), NEW e \in T
    PROVE  Range(Append(q, e)) = Range(q) \cup {e}
<1>1. /\ DOMAIN Append(q, e) = DOMAIN q \cup {Len(q) + 1}
      /\ \A i \in DOMAIN q : Append(q, e)[i] = q[i]
      /\ Append(q, e)[Len(q) + 1] = e
  OBVIOUS
<1> QED
  BY <1>1, Zenon DEF Range

LEMMA TailRange ==
    ASSUME NEW T, NEW q \in Seq(T), q # <<>>
    PROVE  Range(q) = {Head(q)} \cup Range(Tail(q))
<1>1. /\ DOMAIN q = 1 .. Len(q) /\ Len(q) \in Nat \ {0} /\ Head(q) = q[1]
      /\ DOMAIN Tail(q) = 1 .. (Len(q) - 1)
      /\ \A i \in 1 .. (Len(q) - 1) : Tail(q)[i] = q[i + 1]
  OBVIOUS
<1>2. ASSUME NEW i \in DOMAIN q
     PROVE  q[i] \in {Head(q)} \cup Range(Tail(q))
  <2>1. CASE i = 1
    BY <1>1, <2>1
  <2>2. CASE i # 1
    <3>1. i - 1 \in DOMAIN Tail(q) /\ Tail(q)[i - 1] = q[i]
      BY <1>1, <2>2
    <3> QED
      BY <3>1 DEF Range
  <2> QED
    BY <2>1, <2>2
<1>3. ASSUME NEW i \in DOMAIN Tail(q)
     PROVE  Tail(q)[i] \in Range(q)
  <2>1. i + 1 \in DOMAIN q /\ Tail(q)[i] = q[i + 1]
    BY <1>1
  <2> QED
    BY <2>1 DEF Range
<1>4. Head(q) \in Range(q)
  <2>1. 1 \in DOMAIN q
    BY <1>1
  <2> QED
    BY <1>1, <2>1 DEF Range
<1> QED
  BY <1>2, <1>3, <1>4 DEF Range

LEMMA FrontRange ==
    ASSUME NEW T, NEW q \in Seq(T), q # <<>>
    PROVE  Range(q) = {q[Len(q)]} \cup Range(SubSeq(q, 1, Len(q) - 1))
<1> DEFINE w == SubSeq(q, 1, Len(q) - 1)
<1>1. /\ DOMAIN q = 1 .. Len(q) /\ Len(q) \in Nat \ {0}
      /\ DOMAIN w = 1 .. (Len(q) - 1)
      /\ \A i \in 1 .. (Len(q) - 1) : w[i] = q[i]
  OBVIOUS
<1>2. \A i \in DOMAIN q : i = Len(q) \/ i \in DOMAIN w
  BY <1>1
<1>3. Len(q) \in DOMAIN q /\ \A i \in DOMAIN w : i \in DOMAIN q
  BY <1>1
<1> HIDE DEF w
<1>4. Range(q) = {q[Len(q)]} \cup Range(w)
  BY <1>1, <1>2, <1>3 DEF Range
<1> QED
  BY <1>4 DEF w

\* What a step does to the frames of a stream.  New ones come from the batch of
\* the peer's task; a frame that goes away is received or lost by this step,
\* or was received before.
LEMMA NetStep ==
    ASSUME TypeOK, TypeOK', SeqIsPlace, StreamsAddressed, EndsQuiet, Integrity,
           [Next]_vars, NEW s \in Streams
    PROVE  /\ InStream(s)' \subseteq InStream(s)
                  \cup {MessageOf(r) : r \in task[PeerOf(s)].batch}
           /\ InStream(s) \subseteq InStream(s)' \cup Received(PeerOf(s))'
                                 \cup lost'[PeerOf(s)]
<1> DEFINE New == {MessageOf(r) : r \in task[PeerOf(s)].batch}
           Gone == Received(PeerOf(s))' \cup lost'[PeerOf(s)]
           Goal == /\ InStream(s)' \subseteq InStream(s) \cup New
                   /\ InStream(s) \subseteq InStream(s)' \cup Gone
<1> SUFFICES Goal
  OBVIOUS
<1> HIDE DEF New, Gone
<1>0. /\ PeerOf(s) \in Peers
      /\ net[s] \in StreamState
      /\ net[s].wire \in Seq(Frame) /\ net[s].buf \in Seq(Frame)
      /\ net[s].hold \in Frame \cup {None}
  BY DEF Streams, PeerOf, TypeOK, StreamState
<1>1. CASE net'[s] = net[s]
  BY <1>1, SameFrames
<1>2. CASE \E S : net' = Cut(S)
  <2>1. /\ net'[s].wire = net[s].wire
        /\ net'[s].buf = net[s].buf
        /\ net'[s].hold = net[s].hold
    BY <1>0, <1>2 DEF Cut, StreamState
  <2> QED
    BY <2>1, SameFrames
<1>3. ASSUME NEW p \in Peers, OpenStream(p), net'[s] # net[s]
     PROVE  Goal
  <2>1. PICK r \in CurrentRow(p), k \in Slots :
          /\ Free(<<p, r.ch, k>>)
          /\ net' = [net EXCEPT ![<<p, r.ch, k>>] =
                       [NoStream EXCEPT !.conn = "up", !.rx = "opening"]]
    BY <1>3 DEF OpenStream
  <2>2. s = <<p, r.ch, k>>
    BY <1>3, <2>1 DEF TypeOK
  <2>3. net[s].rx = "idle"
    BY <2>1, <2>2 DEF Free
  <2>4. InStream(s) = {}
    BY <2>3 DEF EndsQuiet, InStream, Range
  <2>5. net'[s] = [NoStream EXCEPT !.conn = "up", !.rx = "opening"]
    BY <2>1, <2>2 DEF TypeOK
  <2>6. net'[s].wire = <<>> /\ net'[s].buf = <<>> /\ net'[s].hold = None
    BY <2>5 DEF NoStream
  <2> QED
    BY <2>4, <2>6, EmptyStream
<1>4. ASSUME NEW p \in Peers, WriteFrame(p), net'[s] # net[s]
     PROVE  Goal
  <2>1. PICK r \in CurrentRow(p) :
          net' = [net EXCEPT ![StreamOf(p, r.ch)].wire =
                    Append(@, [seq |-> r.seq, body |-> r.body])]
    BY <1>4 DEF WriteFrame
  <2>2. s = StreamOf(p, r.ch)
    BY <1>4, <2>1 DEF TypeOK
  <2>3. r \in task[p].batch /\ r \in Row
    BY DEF CurrentRow, TypeOK, TaskState
  <2> DEFINE f == [seq |-> r.seq, body |-> r.body]
  <2>4. /\ net'[s].wire = Append(net[s].wire, f)
        /\ net'[s].buf = net[s].buf
        /\ net'[s].hold = net[s].hold
    BY <1>0, <2>1, <2>2 DEF TypeOK, StreamState
  <2>5. f \in Frame
    BY <2>3 DEF Row, Frame
  <2>6. Range(net'[s].wire) = Range(net[s].wire) \cup {f}
    BY <1>0, <2>4, <2>5, AppendRange
  <2>7. Msg(s, f) = MessageOf(r) /\ PeerOf(s) = p
    BY <2>2 DEF Msg, MessageOf, StreamOf, ChanOf, PeerOf
  <2>8. Msg(s, f) \in New
    BY <2>3, <2>7 DEF New
  <2> HIDE DEF f
  <2>9. InStream(s)' = InStream(s) \cup {Msg(s, f)}
    BY <1>0, <2>4, <2>5, <2>6, DeliveryAssumption DEF InStream, Msg
  <2> QED
    BY <2>8, <2>9
<1>5. ASSUME NEW p \in Peers, ReceiverCrash(p), net'[s] # net[s]
     PROVE  Goal
  <2>1. PeerOf(s) = p /\ net'[s] = NoStream
    BY <1>5 DEF ReceiverCrash
  <2>2. InStream(s)' = {}
    BY <2>1, EmptyStream DEF NoStream
  <2>3. InStream(s) \subseteq lost'[p]
    BY <1>5, <2>1, InStreamInTransit DEF ReceiverCrash, Losing, TypeOK
  <2> QED
    BY <2>1, <2>2, <2>3 DEF Gone
<1>6. ASSUME NEW t \in Streams, LoseFrame(t), net'[s] # net[s]
     PROVE  Goal
  <2>1. s = t
    BY <1>6 DEF LoseFrame, TypeOK
  <2>2. /\ net'[s].wire = SubSeq(net[s].wire, 1, Len(net[s].wire) - 1)
        /\ net'[s].buf = net[s].buf
        /\ net'[s].hold = net[s].hold
    BY <1>0, <1>6, <2>1 DEF LoseFrame, TypeOK, StreamState
  <2> DEFINE f == net[s].wire[Len(net[s].wire)]
  <2>3. Range(net[s].wire) = {f} \cup Range(net'[s].wire)
    BY <1>0, <1>6, <2>1, <2>2, FrontRange DEF LoseFrame
  <2>4. Msg(s, f) \in lost'[PeerOf(s)]
    BY <1>0, <1>6, <2>1 DEF LoseFrame, Losing, TypeOK
  <2> HIDE DEF f
  <2>5. InStream(s) = InStream(s)' \cup ({Msg(s, f)} \cap InStream(s))
    BY <2>2, <2>3, DeliveryAssumption DEF InStream, Msg
  <2> QED
    BY <2>4, <2>5 DEF Gone
<1>7. ASSUME NEW t \in Streams, AcceptStream(t) \/ AcceptFails(t),
            net'[s] # net[s]
     PROVE  Goal
  <2>1. s = t
    BY <1>7 DEF AcceptStream, AcceptFails, TypeOK
  <2>2. CASE net' = [net EXCEPT ![s].rx = "reading"]
    <3>1. /\ net'[s].wire = net[s].wire
          /\ net'[s].buf = net[s].buf
          /\ net'[s].hold = net[s].hold
      BY <1>0, <2>2 DEF TypeOK, StreamState
    <3> QED
      BY <3>1, SameFrames
  <2>3. CASE /\ net' = [net EXCEPT ![s] = NoStream]
             /\ lost' = Losing(PeerOf(s), InStream(s))
    <3>1. net'[s] = NoStream
      BY <2>3 DEF TypeOK
    <3>2. InStream(s)' = {}
      BY <3>1, EmptyStream DEF NoStream
    <3>3. InStream(s) \subseteq lost'[PeerOf(s)]
      BY <1>0, <2>3 DEF Losing, TypeOK
    <3> QED
      BY <3>2, <3>3 DEF Gone
  <2> QED
    BY <1>7, <2>1, <2>2, <2>3 DEF AcceptStream, AcceptFails
<1>8. ASSUME NEW t \in Streams, ReadFrame(t), net'[s] # net[s]
     PROVE  Goal
  <2>1. s = t
    BY <1>8 DEF ReadFrame, TypeOK
  <2>2. /\ net'[s].wire = Tail(net[s].wire)
        /\ net'[s].buf = Append(net[s].buf, Head(net[s].wire))
        /\ net'[s].hold = net[s].hold
    BY <1>0, <1>8, <2>1 DEF ReadFrame, TypeOK, StreamState
  <2>3. net[s].wire # <<>> /\ Head(net[s].wire) \in Frame
    BY <1>0, <1>8, <2>1 DEF ReadFrame
  <2>4. Range(net[s].wire) = {Head(net[s].wire)} \cup Range(net'[s].wire)
    BY <1>0, <2>2, <2>3, TailRange
  <2>5. Range(net'[s].buf) = Range(net[s].buf) \cup {Head(net[s].wire)}
    BY <1>0, <2>2, <2>3, AppendRange
  <2>6. Range(net'[s].wire) \cup Range(net'[s].buf)
          = Range(net[s].wire) \cup Range(net[s].buf)
    BY <2>4, <2>5
  <2>7. InStream(s)' = InStream(s)
    BY <2>2, <2>6 DEF InStream, Msg
  <2> QED
    BY <2>7
<1>9. ASSUME NEW t \in Streams, ReadEnds(t) \/ ConsumerEnds(t),
            net'[s] # net[s]
     PROVE  Goal
  <2>1. s = t
    BY <1>9 DEF ReadEnds, ConsumerEnds, TypeOK
  <2>2. /\ net'[s].wire = net[s].wire
        /\ net'[s].buf = net[s].buf
        /\ net'[s].hold = net[s].hold
    BY <1>0, <1>9, <2>1 DEF ReadEnds, ConsumerEnds, TypeOK, StreamState
  <2> QED
    BY <2>2, SameFrames
<1>10. ASSUME NEW t \in Streams, RecordFrame(t), net'[s] # net[s]
     PROVE  Goal
  <2>1. s = t
    BY <1>10 DEF RecordFrame, TypeOK
  <2> DEFINE f == Head(net[s].buf)
  <2>2. /\ net'[s].wire = net[s].wire
        /\ net'[s].buf = Tail(net[s].buf)
        /\ net'[s].hold = f \/ net'[s].hold = net[s].hold
    BY <1>0, <1>10, <2>1 DEF RecordFrame, TypeOK, StreamState
  <2>3. net[s].buf # <<>> /\ f \in Frame /\ net[s].hold = None
    BY <1>0, <1>10, <2>1 DEF RecordFrame
  <2>4. Range(net[s].buf) = {f} \cup Range(net'[s].buf)
    BY <1>0, <2>2, <2>3, TailRange
  <2>5. \/ net'[s].hold = f
        \/ Msg(s, f) \in Received(PeerOf(s))'
    <3>1. CASE Seen(PeerOf(s), ChanOf(s), f.seq) /\ UNCHANGED inbox
      <4>1. PICK m \in inbox[PeerOf(s)] : m.ch = ChanOf(s) /\ m.seq = f.seq
        BY <3>1 DEF Seen
      <4>2. m \in Addressed(PeerOf(s))
        BY <1>0, <4>1 DEF Integrity, Received
      <4>3. Msg(s, f) \in Addressed(PeerOf(s))
        BY <2>3, InStreamParts DEF StreamsAddressed
      <4>4. Msg(s, f).ch = ChanOf(s) /\ Msg(s, f).seq = f.seq
        BY DEF Msg
      <4>5. m = Msg(s, f)
        BY <1>0, <4>1, <4>2, <4>3, <4>4, KeyDecides
      <4> QED
        BY <3>1, <4>1, <4>5 DEF Received
    <3>2. CASE net' = [net EXCEPT ![s].buf = Tail(@), ![s].hold = f]
      BY <1>0, <3>2 DEF TypeOK, StreamState
    <3> QED
      BY <1>10, <2>1, <3>1, <3>2 DEF RecordFrame
  <2> HIDE DEF f
  <2>6. CASE net'[s].hold = f
    <3>1. f # None
      BY <2>3, DeliveryAssumption DEF Frame
    <3>2. Range(net[s].wire) \cup Range(net[s].buf) \cup ({net[s].hold} \ {None})
            = Range(net'[s].wire) \cup Range(net'[s].buf)
                \cup ({net'[s].hold} \ {None})
      BY <2>2, <2>3, <2>4, <2>6, <3>1
    <3>3. InStream(s)' = InStream(s)
      BY <3>2 DEF InStream, Msg
    <3> QED
      BY <3>3
  <2>7. CASE net'[s].hold = net[s].hold /\ Msg(s, f) \in Received(PeerOf(s))'
    <3>1. InStream(s) = InStream(s)' \cup {Msg(s, f)}
      BY <2>2, <2>3, <2>4, <2>7 DEF InStream, Msg
    <3> QED
      BY <2>7, <3>1 DEF Gone
  <2> QED
    BY <2>2, <2>5, <2>6, <2>7
<1>11. ASSUME NEW t \in Streams, EmitFrame(t), net'[s] # net[s]
     PROVE  Goal
  <2>1. s = t
    BY <1>11 DEF EmitFrame, TypeOK
  <2>2. /\ net'[s].wire = net[s].wire
        /\ net'[s].buf = net[s].buf
        /\ net'[s].hold = None
        /\ net[s].hold # None
    BY <1>0, <1>11, <2>1 DEF EmitFrame, TypeOK, StreamState
  <2> DEFINE m == Msg(s, net[s].hold)
  <2>3. emitted'[PeerOf(s)] = Append(emitted[PeerOf(s)], m)
    BY <1>0, <1>11, <2>1 DEF EmitFrame, TypeOK
  <2>4. m \in Message /\ emitted[PeerOf(s)] \in Seq(Message)
    BY <1>0, <2>2 DEF TypeOK, Msg, Message, Frame, Streams, ChanOf
  <2>5. m \in Received(PeerOf(s))'
    BY <2>3, <2>4, AppendRange DEF Received
  <2> HIDE DEF m
  <2>6. InStream(s)' \subseteq InStream(s)
    BY <2>2 DEF InStream, Msg
  <2>7. InStream(s) \subseteq InStream(s)' \cup {m}
    BY <2>2 DEF InStream, Msg, m
  <2> QED
    BY <2>5, <2>6, <2>7 DEF Gone
<1> QED
  BY <1>1, <1>2, <1>3, <1>4, <1>5, <1>6, <1>7, <1>8, <1>9, <1>10, <1>11,
     NetWriters

-----------------------------------------------------------------------------
(* The inductive invariant, conjunct by conjunct.                          *)

LEMMA EndsStep ==
    ASSUME TypeOK, TypeOK', EndsQuiet, [Next]_vars
    PROVE  EndsQuiet'
<1> SUFFICES ASSUME NEW s \in Streams
             PROVE  /\ net'[s].rx \in {"idle", "draining"}
                        => net'[s].conn = "cut" /\ net'[s].wire = <<>>
                    /\ net'[s].rx = "idle"
                        => net'[s].buf = <<>> /\ net'[s].hold = None
  BY DEF EndsQuiet
<1> DEFINE Quiet == /\ net'[s].rx \in {"idle", "draining"}
                        => net'[s].conn = "cut" /\ net'[s].wire = <<>>
                    /\ net'[s].rx = "idle"
                        => net'[s].buf = <<>> /\ net'[s].hold = None
<1>0. /\ net[s].rx \in {"idle", "draining"}
           => net[s].conn = "cut" /\ net[s].wire = <<>>
      /\ net[s].rx = "idle" => net[s].buf = <<>> /\ net[s].hold = None
      /\ net[s] \in StreamState
  BY DEF EndsQuiet, TypeOK
<1>1. CASE net'[s] = net[s]
  BY <1>0, <1>1
<1>2. CASE \E S : net' = Cut(S)
  BY <1>0, <1>2 DEF Cut, StreamState
<1>3. ASSUME NEW p \in Peers, OpenStream(p), net'[s] # net[s]
     PROVE  Quiet
  <2>1. net'[s] = [NoStream EXCEPT !.conn = "up", !.rx = "opening"]
    BY <1>3 DEF OpenStream, TypeOK
  <2> QED
    BY <2>1 DEF NoStream
<1>4. ASSUME NEW p \in Peers, WriteFrame(p), net'[s] # net[s]
     PROVE  Quiet
  <2>0. PICK r \in CurrentRow(p) :
          /\ net[StreamOf(p, r.ch)].conn = "up"
          /\ net' = [net EXCEPT ![StreamOf(p, r.ch)].wire =
                       Append(@, [seq |-> r.seq, body |-> r.body])]
    BY <1>4 DEF WriteFrame
  <2>1. s = StreamOf(p, r.ch)
    BY <1>4, <2>0 DEF TypeOK
  <2>2. net'[s].rx = net[s].rx /\ net[s].conn = "up"
    BY <1>0, <2>0, <2>1 DEF TypeOK, StreamState
  <2> QED
    BY <1>0, <2>2
<1>5. ASSUME NEW p \in Peers, ReceiverCrash(p), net'[s] # net[s]
     PROVE  Quiet
  <2>1. net'[s] = NoStream
    BY <1>5 DEF ReceiverCrash
  <2> QED
    BY <2>1 DEF NoStream
<1>6. ASSUME NEW t \in Streams, net'[s] # net[s], AcceptStream(t) \/ AcceptFails(t)
     PROVE  Quiet
  <2>1. net'[s] = [net[s] EXCEPT !.rx = "reading"] \/ net'[s] = NoStream
    BY <1>6 DEF AcceptStream, AcceptFails, TypeOK
  <2> QED
    BY <1>0, <2>1 DEF NoStream, StreamState
<1>7. ASSUME NEW t \in Streams, net'[s] # net[s],
            LoseFrame(t) \/ ReadFrame(t) \/ ReadEnds(t) \/ RecordFrame(t)
              \/ EmitFrame(t) \/ ConsumerEnds(t)
     PROVE  Quiet
  <2>1. s = t
    BY <1>7 DEF LoseFrame, ReadFrame, ReadEnds, RecordFrame, EmitFrame,
                ConsumerEnds, TypeOK
  <2>2. CASE LoseFrame(s)
    <3>1. net'[s].rx = net[s].rx /\ net[s].wire # <<>>
      BY <1>0, <2>2 DEF LoseFrame, TypeOK, StreamState
    <3> QED
      BY <1>0, <3>1
  <2>3. CASE ReadFrame(s)
    <3>1. net'[s].rx = net[s].rx /\ net[s].rx = "reading"
      BY <1>0, <2>3 DEF ReadFrame, TypeOK, StreamState
    <3> QED
      BY <3>1
  <2>4. CASE ReadEnds(s)
    <3>1. /\ net'[s].rx = "draining" /\ net'[s].conn = "cut"
          /\ net'[s].wire = <<>>
      BY <1>0, <2>4 DEF ReadEnds, TypeOK, StreamState
    <3> QED
      BY <3>1
  <2>5. CASE RecordFrame(s)
    <3>1. /\ net[s].rx \in {"reading", "draining"}
          /\ \/ net' = [net EXCEPT ![s].buf = Tail(@)]
             \/ net' = [net EXCEPT ![s].buf = Tail(@), ![s].hold = Head(net[s].buf)]
      BY <2>5 DEF RecordFrame
    <3>2. \/ net'[s] = [net[s] EXCEPT !.buf = Tail(@)]
          \/ net'[s] = [net[s] EXCEPT !.buf = Tail(@), !.hold = Head(net[s].buf)]
      BY <3>1 DEF TypeOK
    <3>3. /\ net'[s].rx = net[s].rx
          /\ net'[s].conn = net[s].conn /\ net'[s].wire = net[s].wire
      BY <1>0, <3>2 DEF StreamState
    <3> QED
      BY <1>0, <3>1, <3>3
  <2>6. CASE EmitFrame(s)
    <3>1. /\ net'[s].rx = net[s].rx /\ net'[s].conn = net[s].conn
          /\ net'[s].wire = net[s].wire /\ net[s].hold # None
      BY <1>0, <2>6 DEF EmitFrame, TypeOK, StreamState
    <3> QED
      BY <1>0, <3>1
  <2>7. CASE ConsumerEnds(s)
    <3>1. /\ net[s].rx = "draining" /\ net'[s].conn = net[s].conn
          /\ net'[s].wire = net[s].wire
          /\ net'[s].buf = <<>> /\ net'[s].hold = None
      BY <1>0, <2>7 DEF ConsumerEnds, TypeOK, StreamState
    <3> QED
      BY <1>0, <3>1
  <2> QED
    BY <1>7, <2>1, <2>2, <2>3, <2>4, <2>5, <2>6, <2>7
<1> QED
  BY <1>1, <1>2, <1>3, <1>4, <1>5, <1>6, <1>7, NetWriters

\* Rows fetched, frames written and messages received keep their addressee.
LEMMA AddressedStep ==
    ASSUME TypeOK, TypeOK', DeliveryInv, [Next]_vars
    PROVE  BatchAddressed' /\ StreamsAddressed' /\ Integrity'
<1>0. /\ SeqIsPlace /\ BatchAddressed /\ StreamsAddressed
      /\ EndsQuiet /\ Integrity
  BY DEF DeliveryInv
<1>1. \A p \in Peers : Addressed(p) \subseteq Addressed(p)'
  BY <1>0, OutboxStep, AddressedGrows
<1>2. BatchAddressed'
  <2> SUFFICES ASSUME NEW p \in Peers, NEW r \in task'[p].batch
               PROVE  MessageOf(r) \in Addressed(p)'
    BY DEF BatchAddressed, MessageOf
  <2>1. r \in task[p].batch \cup Pending(p)
    BY BatchStep
  <2>2. \A q \in Pending(p) : MessageOf(q) \in Addressed(p)
    BY DEF Pending, Addressed
  <2>3. MessageOf(r) \in Addressed(p)
    BY <1>0, <2>1, <2>2 DEF BatchAddressed
  <2> QED
    BY <1>1, <2>3
<1>3. StreamsAddressed'
  <2> SUFFICES ASSUME NEW s \in Streams
               PROVE  InStream(s)' \subseteq Addressed(PeerOf(s))'
    BY DEF StreamsAddressed
  <2>1. PeerOf(s) \in Peers
    BY DEF Streams, PeerOf
  <2>2. {MessageOf(r) : r \in task[PeerOf(s)].batch} \subseteq Addressed(PeerOf(s))
    BY <1>0, <2>1 DEF BatchAddressed
  <2>3. InStream(s) \subseteq Addressed(PeerOf(s))
    BY <1>0 DEF StreamsAddressed
  <2>4. InStream(s)' \subseteq InStream(s)
                \cup {MessageOf(r) : r \in task[PeerOf(s)].batch}
    BY <1>0, NetStep
  <2> QED
    BY <1>1, <2>1, <2>2, <2>3, <2>4
<1>4. Integrity'
  <2> SUFFICES ASSUME NEW p \in Peers
               PROVE  Received(p)' \subseteq Addressed(p)'
    BY DEF Integrity
  <2>1. Transit(p) \subseteq Addressed(p)
    BY <1>0 DEF Transit, StreamsAddressed
  <2>2. Received(p)' \subseteq Received(p) \cup Transit(p)
    BY ReceivedStep
  <2>3. Received(p) \subseteq Addressed(p)
    BY <1>0 DEF Integrity
  <2> QED
    BY <1>1, <2>1, <2>2, <2>3
<1> QED
  BY <1>2, <1>3, <1>4

\* What is accounted for stays accounted for.
LEMMA AccountedGrows ==
    ASSUME TypeOK, TypeOK', DeliveryInv, [Next]_vars, NEW p \in Peers
    PROVE  Accounted(p) \subseteq Accounted(p)'
<1>1. Received(p) \subseteq Received(p)'
  BY ReceivedStep
<1>2. lost[p] \subseteq lost'[p]
  BY LostGrows
<1>3. Transit(p) \subseteq Transit(p)' \cup Received(p)' \cup lost'[p]
  <2> SUFFICES ASSUME NEW s \in Streams, PeerOf(s) = p
               PROVE  InStream(s) \subseteq Transit(p)' \cup Received(p)' \cup lost'[p]
    BY DEF Transit
  <2>1. InStream(s) \subseteq InStream(s)' \cup Received(p)' \cup lost'[p]
    BY NetStep DEF DeliveryInv
  <2>2. InStream(s)' \subseteq Transit(p)'
    BY DEF Transit
  <2> QED
    BY <2>1, <2>2
<1> QED
  BY <1>1, <1>2, <1>3 DEF Accounted

\* A task comes to mark a row only by writing it, and marks that very row.
LEMMA MarkOrigin ==
    ASSUME TypeOK, [Next]_vars, NEW p \in Peers, task'[p].pc = "mark"
    PROVE  /\ task'[p].batch = task[p].batch
           /\ task[p].pc = "mark" \/ WriteFrame(p)
<1> DEFINE Same == /\ task'[p].batch = task[p].batch
                   /\ task[p].pc = "mark" \/ WriteFrame(p)
<1>0. task[p] \in TaskState
  BY DEF TypeOK
<1>1. CASE task'[p] = task[p]
  BY <1>1
<1>2. ASSUME NEW q \in Peers, task' = Notified(q)
     PROVE  Same
  BY <1>0, <1>2 DEF Notified, NoTask, TypeOK, TaskState
<1>3. CASE Shutdown
  <2>1. task'[p] = [task[p] EXCEPT !.stop = task[p].pc # "none"]
    BY <1>3 DEF Shutdown
  <2> QED
    BY <1>0, <2>1 DEF TaskState
<1>4. CASE Exit \/ Crash
  <2>1. task'[p] = NoTask
    BY <1>4 DEF Exit, Crash, Down
  <2> QED
    BY <2>1 DEF NoTask
<1>5. ASSUME NEW q \in Peers, TaskStep(q), task'[p] # task[p]
     PROVE  Same
  <2>1. CASE WriteFrame(q)
    <3>1. p = q
      BY <1>5, <2>1 DEF WriteFrame, TypeOK
    <3>2. task'[p].batch = task[p].batch
      BY <1>0, <2>1, <3>1 DEF WriteFrame, TypeOK, TaskState
    <3> QED
      BY <2>1, <3>1, <3>2
  <2>2. CASE Backoff(q)
    <3>1. p = q
      BY <1>5, <2>2 DEF Backoff, TypeOK
    <3>2. task'[p].pc = "backoff"
      BY <1>0, <2>2, <3>1 DEF Backoff, TypeOK, TaskState
    <3> QED
      BY <3>2
  <2>3. CASE OpenStream(q)
    <3>1. p = q
      BY <1>5, <2>3 DEF OpenStream, TypeOK
    <3>2. task'[p].pc = task[p].pc /\ task[p].pc = "row"
      BY <1>0, <2>3, <3>1 DEF OpenStream, TypeOK, TaskState
    <3> QED
      BY <3>2
  <2>4. CASE TaskExit(q)
    <3>1. task'[p] = NoTask
      BY <1>5, <2>4 DEF TaskExit, TypeOK
    <3> QED
      BY <3>1 DEF NoTask
  <2>5. ASSUME MarkDelivered(q), ~Backoff(q)
       PROVE  Same
    <3>1. PICK r : task' = [task EXCEPT ![q].batch = @ \ {r},
                                 ![q].pc = IF task[q].batch = {r}
                                           THEN "fetch" ELSE "row"]
      BY <2>5 DEF MarkDelivered
    <3>2. p = q
      BY <1>5, <3>1 DEF TypeOK
    <3>3. task'[p].pc \in {"fetch", "row"}
      BY <1>0, <3>1, <3>2 DEF TypeOK, TaskState
    <3> QED
      BY <3>3
  <2>6. ASSUME NEW x \in {"row", "idle", "fetch", "exit"}, NEW B, NEW w,
               \/ task' = [task EXCEPT ![q].pc = x]
               \/ task' = [task EXCEPT ![q].pc = x, ![q].batch = B]
               \/ task' = [task EXCEPT ![q].pc = x, ![q].waker = w]
       PROVE  Same
    <3>1. p = q
      BY <1>5, <2>6 DEF TypeOK
    <3>2. task'[p].pc = x
      BY <1>0, <2>6, <3>1 DEF TypeOK, TaskState
    <3> QED
      BY <3>2
  <2>7. CASE FetchBatch(q) \/ DrainDone(q)
    BY <2>2, <2>6, <2>7 DEF FetchBatch, DrainDone
  <2>8. CASE TakeWake(q) \/ RetryTimer(q) \/ SeeShutdown(q)
    BY <2>6, <2>8 DEF TakeWake, RetryTimer, SeeShutdown
  <2>9. CASE OpenFails(q) \/ WriteFails(q)
    BY <2>2, <2>9 DEF OpenFails, WriteFails
  <2> QED
    BY <1>5, <2>1, <2>2, <2>3, <2>4, <2>5, <2>7, <2>8, <2>9 DEF TaskStep
<1>6. \/ UNCHANGED task
      \/ \E q \in Peers : task' = Notified(q)
      \/ \E q \in Peers : TaskStep(q)
      \/ Shutdown \/ Exit \/ Crash
  BY DEF TypeOK, Next, vars, senderVars, NotifyPeer, ResumePeer, Send, ScanBacklog,
         CloseTransport, Restart, SenderPairing, ReceiverPairing, Break,
         LoseFrame, StreamStep, AcceptStream, AcceptFails, ReadFrame, ReadEnds,
         RecordFrame, EmitFrame, ConsumerEnds, ReceiverCrash
<1> QED
  BY <1>1, <1>2, <1>3, <1>4, <1>5, <1>6

\* The rows a task may be at all stand for one message.
LEMMA CurrentRowIsOne ==
    ASSUME TypeOK, SeqIsPlace, BatchAddressed, NEW p \in Peers,
           NEW q \in CurrentRow(p), NEW r \in CurrentRow(p)
    PROVE  MessageOf(q) = MessageOf(r)
<1>1. /\ q \in Row /\ r \in Row
      /\ q \in task[p].batch /\ r \in task[p].batch
      /\ ~Before(q, r) /\ ~Before(r, q)
  BY DEF CurrentRow, TypeOK, TaskState
<1>2. /\ q.ts \in Int /\ r.ts \in Int
      /\ q.ch \in Nat /\ r.ch \in Nat
      /\ q.seq \in Nat /\ r.seq \in Nat
  BY <1>1, DeliveryAssumption DEF Row
<1>3. q.ch = r.ch /\ q.seq = r.seq
  BY <1>1, <1>2 DEF Before
<1>4. MessageOf(q) \in Addressed(p) /\ MessageOf(r) \in Addressed(p)
  BY <1>1 DEF BatchAddressed
<1>5. MessageOf(q).ch = MessageOf(r).ch /\ MessageOf(q).seq = MessageOf(r).seq
  BY <1>3 DEF MessageOf
<1> QED
  BY <1>4, <1>5, KeyDecides

\* A written frame is on the wire, or was lost with its connection.
LEMMA WriteAccounts ==
    ASSUME TypeOK, TypeOK', NEW p \in Peers, WriteFrame(p)
    PROVE  \E r \in CurrentRow(p) : MessageOf(r) \in Accounted(p)'
<1>0. PICK r \in CurrentRow(p) :
        LET s == StreamOf(p, r.ch) IN
         /\ task[p].streams[r.ch] # None
         /\ ~r.big
         /\ \/ /\ net[s].conn = "up"
               /\ Len(net[s].wire) < WireCap
               /\ net' = [net EXCEPT ![s].wire =
                            Append(@, [seq |-> r.seq, body |-> r.body])]
               /\ UNCHANGED lost
            \/ /\ net[s].conn = "cut"
               /\ phase # "closed"
               /\ lost' = Losing(p, {Msg(s, r)})
               /\ UNCHANGED net
  BY DEF WriteFrame
<1> DEFINE f == [seq |-> r.seq, body |-> r.body]
<1>1. r \in Row /\ f \in Frame
  BY DEF CurrentRow, TypeOK, TaskState, Row, Frame
<1>2. StreamOf(p, r.ch) \in Streams /\ PeerOf(StreamOf(p, r.ch)) = p
  <2>1. r.ch \in Channels
    BY <1>1 DEF Row
  <2>2. task[p].streams \in [Channels -> Slots \cup {None}]
    BY DEF TypeOK, TaskState
  <2>3. task[p].streams[r.ch] \in Slots
    BY <1>0, <2>1, <2>2
  <2> QED
    BY <2>1, <2>3 DEF StreamOf, Streams, PeerOf
<1> PICK s \in Streams : s = StreamOf(p, r.ch)
  BY <1>2
<1>3. Msg(s, f) = MessageOf(r) /\ Msg(s, r) = MessageOf(r)
  BY DEF Msg, MessageOf, StreamOf, ChanOf
<1>4. CASE net' = [net EXCEPT ![s].wire = Append(@, f)]
  <2>1. net'[s].wire = Append(net[s].wire, f) /\ net[s].wire \in Seq(Frame)
    BY <1>2, <1>4 DEF TypeOK, StreamState
  <2>2. f \in Range(net'[s].wire)
    BY <1>1, <2>1, AppendRange
  <2>3. Msg(s, f) \in InStream(s)'
    BY <2>2 DEF InStream, Msg
  <2>4. Msg(s, f) \in Transit(p)'
    BY <1>2, <2>3 DEF Transit
  <2> QED
    BY <1>3, <2>4 DEF Accounted
<1>5. CASE lost' = Losing(p, {Msg(s, r)})
  BY <1>3, <1>5 DEF Losing, Accounted, TypeOK
<1> QED
  BY <1>0, <1>4, <1>5

LEMMA MarkStep ==
    ASSUME TypeOK, TypeOK', DeliveryInv, [Next]_vars
    PROVE  MarkAccounted'
<1> SUFFICES ASSUME NEW p \in Peers, task'[p].pc = "mark",
                    NEW r \in CurrentRow(p)'
             PROVE  MessageOf(r) \in Accounted(p)'
  BY DEF MarkAccounted, MessageOf
<1>1. /\ task'[p].batch = task[p].batch
      /\ task[p].pc = "mark" \/ WriteFrame(p)
  BY MarkOrigin
<1>2. r \in CurrentRow(p)
  BY <1>1 DEF CurrentRow, Before
<1>3. CASE task[p].pc = "mark"
  <2>1. MessageOf(r) \in Accounted(p)
    BY <1>2, <1>3 DEF DeliveryInv, MarkAccounted
  <2> QED
    BY <2>1, AccountedGrows
<1>4. CASE WriteFrame(p)
  <2>1. PICK q \in CurrentRow(p) : MessageOf(q) \in Accounted(p)'
    BY <1>4, WriteAccounts
  <2>2. MessageOf(q) = MessageOf(r)
    BY <1>2, CurrentRowIsOne DEF DeliveryInv
  <2> QED
    BY <2>1, <2>2
<1> QED
  BY <1>1, <1>3, <1>4

\* A row becomes delivered only when the task of its peer marks it, and that
\* task has accounted for it.
LEMMA NewlyMarked ==
    ASSUME TypeOK, DeliveryInv, [Next]_vars,
           NEW c \in Channels, NEW i \in DOMAIN outbox'[c],
           outbox'[c][i].delivered
    PROVE  /\ i \in DOMAIN outbox[c]
           /\ \/ outbox[c][i].delivered
              \/ MessageOf(outbox[c][i]) \in Accounted(outbox[c][i].peer)
<1> DEFINE Goal == /\ i \in DOMAIN outbox[c]
                   /\ \/ outbox[c][i].delivered
                      \/ MessageOf(outbox[c][i]) \in Accounted(outbox[c][i].peer)
<1>1. CASE UNCHANGED outbox
  BY <1>1
<1>2. ASSUME NEW p \in Peers, NEW d \in Channels, NEW big \in Sizes,
             Send(p, d, big)
     PROVE  Goal
  <2>1. \E r : outbox' = [outbox EXCEPT ![d] = Append(@, r)] /\ ~r.delivered
    <3>1. PICK x \in ClockSteps :
            outbox' = [outbox EXCEPT ![d] = Append(@,
                [ch |-> d, seq |-> NextSeq(d), peer |-> p, body |-> nsent + 1,
                 ts |-> clock + x, big |-> big, delivered |-> FALSE])]
      BY <1>2 DEF Send
    <3> WITNESS [ch |-> d, seq |-> NextSeq(d), peer |-> p, body |-> nsent + 1,
                 ts |-> clock + x, big |-> big, delivered |-> FALSE]
    <3> QED
      BY <3>1
  <2> PICK r : outbox' = [outbox EXCEPT ![d] = Append(@, r)] /\ ~r.delivered
    BY <2>1
  <2>2. CASE c # d
    BY <2>2 DEF TypeOK
  <2>3. CASE c = d
    <3>1. outbox[c] \in Seq(Row) /\ outbox'[c] = Append(outbox[c], r)
      BY <2>3 DEF TypeOK
    <3>2. /\ DOMAIN outbox'[c] = DOMAIN outbox[c] \cup {Len(outbox[c]) + 1}
          /\ \A j \in DOMAIN outbox[c] : outbox'[c][j] = outbox[c][j]
          /\ outbox'[c][Len(outbox[c]) + 1] = r
      BY <3>1
    <3> QED
      BY <3>2
  <2> QED
    BY <2>2, <2>3
<1>3. ASSUME NEW p \in Peers, MarkDelivered(p), ~ UNCHANGED outbox
     PROVE  Goal
  <2>1. PICK r \in CurrentRow(p) : outbox' = Marked(r)
    BY <1>3 DEF MarkDelivered
  <2>2. r \in Row /\ r \in task[p].batch
    BY DEF CurrentRow, TypeOK, TaskState
  <2>3. i \in DOMAIN outbox[c]
    BY <2>1, <2>2, MarkedType DEF Marked, TypeOK
  <2>4. CASE outbox'[c][i] = outbox[c][i]
    BY <2>3, <2>4
  <2>5. CASE outbox'[c][i] # outbox[c][i]
    <3>1. c = r.ch /\ outbox[c][i].seq = r.seq
      BY <2>1, <2>2, <2>3, <2>5 DEF Marked, TypeOK
    <3>2. MessageOf(r) \in Accounted(p)
      BY <1>3, <2>1 DEF DeliveryInv, MarkAccounted, MarkDelivered
    <3>3. MessageOf(r) \in Addressed(p)
      BY <2>2 DEF DeliveryInv, BatchAddressed
    <3>4. PICK d \in Channels : \E j \in DOMAIN outbox[d] :
            MessageOf(r) = MessageOf(outbox[d][j]) /\ outbox[d][j].peer = p
      BY <3>3 DEF Addressed, AllRows, Rows, Range
    <3>5. PICK j \in DOMAIN outbox[d] :
            MessageOf(r) = MessageOf(outbox[d][j]) /\ outbox[d][j].peer = p
      BY <3>4
    <3>6. r.ch = outbox[d][j].ch /\ r.seq = outbox[d][j].seq
      BY <3>5 DEF MessageOf
    <3>7. d = c /\ j = i
      BY <2>3, <3>1, <3>6 DEF DeliveryInv, SeqIsPlace
    <3> QED
      BY <2>3, <3>2, <3>5, <3>7
  <2> QED
    BY <2>4, <2>5
<1> QED
  BY <1>1, <1>2, <1>3, OutboxWriters

LEMMA LossStep ==
    ASSUME TypeOK, TypeOK', DeliveryInv, [Next]_vars
    PROVE  NoSilentLoss'
<1> SUFFICES ASSUME NEW r \in AllRows', r.delivered
             PROVE  MessageOf(r) \in Accounted(r.peer)'
  BY DEF NoSilentLoss, MessageOf
<1>0. PICK c \in Channels : \E i \in DOMAIN outbox'[c] : r = outbox'[c][i]
  BY DEF AllRows, Rows, Range
<1>1. PICK i \in DOMAIN outbox'[c] : r = outbox'[c][i]
  BY <1>0
<1>2. /\ i \in DOMAIN outbox[c]
      /\ \/ outbox[c][i].delivered
         \/ MessageOf(outbox[c][i]) \in Accounted(outbox[c][i].peer)
  BY <1>1, NewlyMarked
<1>3. outbox[c][i] \in AllRows /\ outbox[c][i] \in Row
  BY <1>2 DEF AllRows, Rows, Range, TypeOK
<1>4. MessageOf(outbox[c][i]) \in Accounted(outbox[c][i].peer)
  BY <1>2, <1>3 DEF DeliveryInv, NoSilentLoss
<1>5. OutboxKept
  BY OutboxStep DEF DeliveryInv
<1>6. r.peer = outbox[c][i].peer /\ MessageOf(r) = MessageOf(outbox[c][i])
  BY <1>1, <1>2, <1>3, <1>5, MarkKeeps DEF OutboxKept, MessageOf
<1>7. outbox[c][i].peer \in Peers
  BY <1>3 DEF Row
<1> PICK p \in Peers : p = outbox[c][i].peer
  BY <1>7
<1>8. MessageOf(r) \in Accounted(p)'
  BY <1>4, <1>6, AccountedGrows
<1> QED
  BY <1>6, <1>8

LEMMA DeliveryInit == Init => DeliveryInv
<1> SUFFICES ASSUME Init PROVE DeliveryInv
  OBVIOUS
<1>1. AllRows = {}
  BY DEF Init, AllRows, Rows, Range
<1>2. \A s \in Streams : net[s] = NoStream
  BY DEF Init
<1>3. \A s \in Streams : InStream(s) = {}
  BY <1>2 DEF InStream, NoStream, Range
<1>4. \A p \in Peers : Received(p) = {} /\ task[p] = NoTask
  BY DEF Init, Received, Range
<1>5. SeqIsPlace
  BY TypeInit
<1>6. BatchAddressed /\ MarkAccounted
  BY <1>4 DEF BatchAddressed, MarkAccounted, NoTask
<1>7. StreamsAddressed
  BY <1>3 DEF StreamsAddressed
<1>8. EndsQuiet
  BY <1>2 DEF EndsQuiet, NoStream
<1>9. Integrity
  BY <1>4 DEF Integrity
<1>10. NoSilentLoss
  BY <1>1 DEF NoSilentLoss
<1> QED
  BY <1>5, <1>6, <1>7, <1>8, <1>9, <1>10 DEF DeliveryInv

\* Rows, batches, frames and received messages agree at every moment: the
\* invariant from which the two guarantees below follow.
THEOREM DeliveryInvariant == Spec => []DeliveryInv
<1>1. Init => TypeOK /\ DeliveryInv
  BY TypeInit, DeliveryInit
<1>2. ASSUME TypeOK, DeliveryInv, [Next]_vars
     PROVE  TypeOK' /\ DeliveryInv'
  <2>1. TypeOK' /\ SeqIsPlace'
    BY <1>2, TypeStep, OutboxStep DEF DeliveryInv
  <2>2. BatchAddressed' /\ StreamsAddressed' /\ Integrity'
    BY <1>2, <2>1, AddressedStep
  <2>3. EndsQuiet'
    BY <1>2, <2>1, EndsStep DEF DeliveryInv
  <2>4. MarkAccounted'
    BY <1>2, <2>1, MarkStep
  <2>5. NoSilentLoss'
    BY <1>2, <2>1, LossStep
  <2> QED
    BY <2>1, <2>2, <2>3, <2>4, <2>5 DEF DeliveryInv
<1>3. TypeOK /\ DeliveryInv /\ [Next]_vars => (TypeOK /\ DeliveryInv)'
  BY <1>2
<1> QED
  BY <1>1, <1>3, PTL DEF Spec

\* A daemon stores and shows only messages the sender enqueued for it, with
\* the key and payload they were enqueued with.
THEOREM ReceivedIsGenuine == Spec => []Integrity
<1>1. DeliveryInv => Integrity
  BY DEF DeliveryInv
<1> QED
  BY <1>1, DeliveryInvariant, PTL

\* A row is marked delivered only if its message reached its receiver, is on
\* its way, or was dropped by the transport: never skipped, and never taken
\* for a duplicate of another message.
THEOREM DeliveredIsAccounted == Spec => []NoSilentLoss
<1>1. DeliveryInv => NoSilentLoss
  BY DEF DeliveryInv
<1> QED
  BY <1>1, DeliveryInvariant, PTL

=============================================================================
