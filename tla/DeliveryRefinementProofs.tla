---------------------- MODULE DeliveryRefinementProofs ----------------------
(***************************************************************************)
(* That a receiver shows a message once, and that Delivery implements      *)
(* Mailbox, for every choice of the constants under which the receivers'   *)
(* stores do not fail.  (If one does, the consumer emits the frame without *)
(* knowing whether it is new: state.rs logs the error and goes on.)        *)
(***************************************************************************)
EXTENDS DeliveryRefinement, DeliveryProofs

\* The consumer of stream s records frame f, which it had not seen before.
RecordsNew(s) ==
    LET f == Head(net[s].buf) IN
    /\ net[s].buf # <<>>
    /\ net[s].hold = None
    /\ ~Seen(PeerOf(s), ChanOf(s), f.seq)
    /\ inbox' = [inbox EXCEPT ![PeerOf(s)] = @ \cup {Msg(s, f)}]
    /\ net' = [net EXCEPT ![s].buf = Tail(@), ![s].hold = f]
    /\ UNCHANGED <<emitted, outbox>>

\* Nobody records or emits; a held frame may be lost with its receiver.
HoldsFade == \A s \in Streams : net'[s].hold \in {net[s].hold, None}

\* Without a failing inbox the steps fall into three classes.
LEMMA ReceiverSteps ==
    ASSUME TypeOK, "inbox" \notin FaultKinds, [Next]_vars
    PROVE  \/ UNCHANGED <<inbox, emitted>> /\ HoldsFade
           \/ \E s \in Streams : RecordsNew(s)
           \/ \E s \in Streams : EmitFrame(s)
<1> DEFINE Goal == \/ UNCHANGED <<inbox, emitted>> /\ HoldsFade
                   \/ \E s \in Streams : RecordsNew(s)
                   \/ \E s \in Streams : EmitFrame(s)
<1>0. net \in [Streams -> StreamState]
  BY DEF TypeOK
<1>1. ASSUME NEW s \in Streams, RecordFrame(s)
      PROVE  Goal
  <2>1. CASE RecordsNew(s)
    BY <2>1
  <2>2. CASE net' = [net EXCEPT ![s].buf = Tail(@)] /\ UNCHANGED <<inbox, emitted>>
    <3>1. \A t \in Streams : net'[t].hold = net[t].hold
      BY <1>0, <2>2 DEF StreamState
    <3> QED
      BY <2>2, <3>1 DEF HoldsFade
  <2>3. ~Fault("inbox")
    BY DEF Fault
  <2> QED
    BY <1>1, <2>1, <2>2, <2>3 DEF RecordFrame, RecordsNew, senderVars
<1>2. ASSUME \A s \in Streams : ~RecordFrame(s) /\ ~EmitFrame(s)
      PROVE  UNCHANGED <<inbox, emitted>> /\ HoldsFade
  <2>1. UNCHANGED <<inbox, emitted>>
    BY <1>2, ReceivedWriters
  <2> SUFFICES ASSUME NEW s \in Streams
               PROVE  net'[s].hold \in {net[s].hold, None}
    BY <2>1 DEF HoldsFade
  <2> DEFINE Fades == net'[s].hold \in {net[s].hold, None}
  <2>2. CASE UNCHANGED net
    BY <2>2
  <2>3. CASE \E S : net' = Cut(S)
    BY <1>0, <2>3 DEF Cut, StreamState
  <2>4. ASSUME NEW p \in Peers, OpenStream(p) PROVE Fades
    BY <1>0, <2>4 DEF OpenStream, NoStream, StreamState
  <2>5. ASSUME NEW p \in Peers, WriteFrame(p) PROVE Fades
    <3>1. \/ UNCHANGED net
          \/ \E x, y : net' = [net EXCEPT ![x].wire = y]
      BY <2>5 DEF WriteFrame
    <3>2. \/ net'[s] = net[s]
          \/ \E y : net'[s] = [net[s] EXCEPT !.wire = y]
      BY <1>0, <3>1
    <3>3. \A y : [net[s] EXCEPT !.wire = y].hold = net[s].hold
      BY <1>0 DEF StreamState
    <3> QED
      BY <3>2, <3>3
  <2>6. ASSUME NEW p \in Peers, ReceiverCrash(p) PROVE Fades
    BY <2>6 DEF ReceiverCrash, NoStream
  <2>7. ASSUME NEW t \in Streams, AcceptStream(t) \/ AcceptFails(t) PROVE Fades
    <3>1. \/ net'[s] = net[s]
          \/ net'[s] = [net[s] EXCEPT !.rx = "reading"]
          \/ net'[s] = NoStream
      BY <1>0, <2>7 DEF AcceptStream, AcceptFails
    <3>2. [net[s] EXCEPT !.rx = "reading"].hold = net[s].hold
      BY <1>0 DEF StreamState
    <3>3. NoStream.hold = None
      BY DEF NoStream
    <3>4. net'[s].hold = net[s].hold \/ net'[s].hold = None
      BY <3>1, <3>2, <3>3
    <3> QED
      BY <3>4
  <2>8. ASSUME NEW t \in Streams,
               LoseFrame(t) \/ ReadFrame(t) \/ ReadEnds(t) \/ ConsumerEnds(t)
        PROVE  Fades
    <3>1. CASE LoseFrame(t)
      <4>1. \/ net'[s] = net[s]
            \/ net'[s] = [net[s] EXCEPT !.wire = SubSeq(@, 1, Len(@) - 1)]
        BY <1>0, <3>1 DEF LoseFrame
      <4>2. net'[s].hold = net[s].hold
        BY <1>0, <4>1 DEF StreamState
      <4> QED
        BY <4>2
    <3>2. CASE ReadFrame(t)
      <4>1. \/ net'[s] = net[s]
            \/ net'[s] = [net[s] EXCEPT !.wire = Tail(@),
                                        !.buf = Append(@, Head(net[s].wire))]
        BY <1>0, <3>2 DEF ReadFrame
      <4>2. net'[s].hold = net[s].hold
        BY <1>0, <4>1 DEF StreamState
      <4> QED
        BY <4>2
    <3>3. CASE ReadEnds(t) \/ ConsumerEnds(t)
      <4>1. \/ net'[s] = net[s]
            \/ net'[s] = [net[s] EXCEPT !.rx = "draining"]
            \/ net'[s] = [net[s] EXCEPT !.rx = "idle"]
        BY <1>0, <3>3 DEF ReadEnds, ConsumerEnds
      <4>2. net'[s].hold = net[s].hold
        BY <1>0, <4>1 DEF StreamState
      <4> QED
        BY <4>2
    <3> QED
      BY <2>8, <3>1, <3>2, <3>3
  <2> QED
    BY <1>2, <2>2, <2>3, <2>4, <2>5, <2>6, <2>7, <2>8, NetWriters
<1> QED
  BY <1>1, <1>2

\* What recording a new frame does: its message is new to the inbox, and the
\* stream holds it.
LEMMA RecordEffect ==
    ASSUME TypeOK, NEW s \in Streams, RecordsNew(s)
    PROVE  /\ PeerOf(s) \in Peers
           /\ Holding(s)' /\ ~Holding(s)
           /\ HeldMsg(s)' = Msg(s, Head(net[s].buf))
           /\ HeldMsg(s)' \notin inbox[PeerOf(s)]
           /\ inbox'[PeerOf(s)] = inbox[PeerOf(s)] \cup {HeldMsg(s)'}
           /\ \A p \in Peers \ {PeerOf(s)} : inbox'[p] = inbox[p]
           /\ \A t \in Streams \ {s} : net'[t] = net[t]
           /\ emitted' = emitted
<1> DEFINE f == Head(net[s].buf)
<1>1. net[s] \in StreamState /\ PeerOf(s) \in Peers
  BY DEF TypeOK, Streams, PeerOf
<1>2. f \in Frame
  BY <1>1 DEF RecordsNew, StreamState
<1>3. f # None
  BY <1>2, DeliveryAssumption DEF Frame
<1>4. net'[s].hold = f /\ \A t \in Streams \ {s} : net'[t] = net[t]
  BY <1>1 DEF RecordsNew, TypeOK, StreamState
<1>5. Msg(s, f) \notin inbox[PeerOf(s)]
  BY DEF RecordsNew, Seen, Msg
<1>6. HeldMsg(s)' = Msg(s, f)
  BY <1>4 DEF HeldMsg, Msg
<1>7. Holding(s)' /\ ~Holding(s)
  BY <1>3, <1>4 DEF Holding, RecordsNew
<1>8. /\ inbox'[PeerOf(s)] = inbox[PeerOf(s)] \cup {Msg(s, f)}
      /\ \A p \in Peers \ {PeerOf(s)} : inbox'[p] = inbox[p]
      /\ emitted' = emitted
  BY <1>1 DEF RecordsNew, TypeOK
<1> QED
  BY <1>1, <1>4, <1>5, <1>6, <1>7, <1>8

\* What emitting does.
LEMMA EmitEffect ==
    ASSUME TypeOK, NEW s \in Streams, EmitFrame(s)
    PROVE  LET p == PeerOf(s)
               n == Len(emitted[p])
           IN  /\ p \in Peers /\ n \in Nat
               /\ Holding(s) /\ ~Holding(s)'
               /\ DOMAIN emitted[p] = 1 .. n
               /\ DOMAIN emitted'[p] = 1 .. n + 1
               /\ \A i \in 1 .. n : emitted'[p][i] = emitted[p][i]
               /\ emitted'[p][n + 1] = HeldMsg(s)
               /\ \A q \in Peers \ {p} : emitted'[q] = emitted[q]
               /\ \A t \in Streams \ {s} : net'[t] = net[t]
               /\ inbox' = inbox
<1> DEFINE p == PeerOf(s)
<1>1. p \in Peers /\ emitted[p] \in Seq(Message) /\ net[s] \in StreamState
  BY DEF TypeOK, Streams, PeerOf
<1>2. /\ emitted'[p] = Append(emitted[p], HeldMsg(s))
      /\ \A q \in Peers \ {p} : emitted'[q] = emitted[q]
      /\ inbox' = inbox
  BY <1>1 DEF EmitFrame, TypeOK, HeldMsg
<1>3. /\ Holding(s) /\ ~Holding(s)'
      /\ \A t \in Streams \ {s} : net'[t] = net[t]
  BY <1>1 DEF EmitFrame, TypeOK, Holding, StreamState
<1> HIDE DEF p
<1>4. /\ Len(emitted[p]) \in Nat
      /\ DOMAIN emitted[p] = 1 .. Len(emitted[p])
      /\ DOMAIN emitted'[p] = 1 .. Len(emitted[p]) + 1
      /\ \A i \in 1 .. Len(emitted[p]) : emitted'[p][i] = emitted[p][i]
      /\ emitted'[p][Len(emitted[p]) + 1] = HeldMsg(s)
  BY <1>1, <1>2
<1> QED
  BY <1>1, <1>2, <1>3, <1>4 DEF p

LEMMA OnceStep ==
    ASSUME TypeOK, "inbox" \notin FaultKinds, OnceInv, [Next]_vars
    PROVE  OnceInv'
<1>0. /\ HeldIsRecorded /\ HeldIsFresh /\ HeldOnce
      /\ ShownIsRecorded /\ ShownOnce
  BY DEF OnceInv
<1>a. \A s \in Streams : PeerOf(s) \in Peers
  BY DEF Streams, PeerOf
<1>1. CASE UNCHANGED <<inbox, emitted>> /\ HoldsFade
  <2>1. \A s \in Streams : Holding(s)' => Holding(s) /\ HeldMsg(s)' = HeldMsg(s)
    BY <1>1 DEF HoldsFade, Holding, HeldMsg, Msg
  <2>2. HeldIsRecorded' /\ HeldIsFresh' /\ HeldOnce'
    BY <1>0, <1>1, <2>1 DEF HeldIsRecorded, HeldIsFresh, HeldOnce, Range
  <2>3. ShownIsRecorded' /\ ShownOnce'
    BY <1>0, <1>1 DEF ShownIsRecorded, ShownOnce, Range
  <2> QED
    BY <2>2, <2>3 DEF OnceInv
<1>2. ASSUME NEW s \in Streams, RecordsNew(s)
      PROVE  OnceInv'
  <2> DEFINE p == PeerOf(s)
             m == HeldMsg(s)'
  <2>1. /\ p \in Peers /\ Holding(s)' /\ ~Holding(s)
        /\ m \notin inbox[p]
        /\ inbox'[p] = inbox[p] \cup {m}
        /\ \A q \in Peers \ {p} : inbox'[q] = inbox[q]
        /\ \A t \in Streams \ {s} : net'[t] = net[t]
        /\ emitted' = emitted
    BY <1>2, RecordEffect
  <2>2. \A t \in Streams \ {s} :
          Holding(t)' = Holding(t) /\ HeldMsg(t)' = HeldMsg(t)
    BY <2>1 DEF Holding, HeldMsg, Msg
  <2> HIDE DEF m
  <2>3. \A q \in Peers : inbox[q] \subseteq inbox'[q]
    BY <2>1
  <2>4. \A t \in Streams \ {s} : Holding(t) /\ PeerOf(t) = p => HeldMsg(t) # m
    BY <1>0, <2>1 DEF HeldIsRecorded
  <2>5. m \notin Range(emitted[p])
    BY <1>0, <2>1 DEF ShownIsRecorded
  <2>6. HeldIsRecorded'
    BY <1>0, <1>a, <2>1, <2>2, <2>3 DEF HeldIsRecorded, m
  <2>7. HeldIsFresh'
    <3> SUFFICES ASSUME NEW t \in Streams, Holding(t)'
                 PROVE  HeldMsg(t)' \notin Range(emitted[PeerOf(t)])'
      BY DEF HeldIsFresh
    <3>1. CASE t = s
      BY <2>1, <2>5, <3>1 DEF m, Range
    <3>2. CASE t # s
      BY <1>0, <2>1, <2>2, <3>2 DEF HeldIsFresh, Range
    <3> QED
      BY <3>1, <3>2
  <2>8. HeldOnce'
    BY <1>0, <2>1, <2>2, <2>4 DEF HeldOnce, m
  <2>9. ShownIsRecorded' /\ ShownOnce'
    BY <1>0, <2>1, <2>3 DEF ShownIsRecorded, ShownOnce, Range
  <2> QED
    BY <2>6, <2>7, <2>8, <2>9 DEF OnceInv
<1>3. ASSUME NEW s \in Streams, EmitFrame(s)
      PROVE  OnceInv'
  <2> DEFINE p == PeerOf(s)
             m == HeldMsg(s)
             n == Len(emitted[p])
  <2>1. /\ p \in Peers /\ n \in Nat
        /\ Holding(s) /\ ~Holding(s)'
        /\ DOMAIN emitted[p] = 1 .. n
        /\ DOMAIN emitted'[p] = 1 .. n + 1
        /\ \A i \in 1 .. n : emitted'[p][i] = emitted[p][i]
        /\ emitted'[p][n + 1] = m
        /\ \A q \in Peers \ {p} : emitted'[q] = emitted[q]
        /\ \A t \in Streams \ {s} : net'[t] = net[t]
        /\ inbox' = inbox
    BY <1>3, EmitEffect
  <2>2. \A t \in Streams : Holding(t)' =>
          t # s /\ Holding(t) /\ HeldMsg(t)' = HeldMsg(t)
    BY <2>1 DEF Holding, HeldMsg, Msg
  <2>3. m \in inbox[p] /\ m \notin Range(emitted[p])
    BY <1>0, <2>1 DEF HeldIsRecorded, HeldIsFresh
  <2> HIDE DEF m, n
  <2>4. \A q \in Peers : Range(emitted'[q]) =
          IF q = p THEN Range(emitted[q]) \cup {m} ELSE Range(emitted[q])
    <3>1. Range(emitted'[p]) = Range(emitted[p]) \cup {m}
      BY <2>1 DEF Range
    <3> QED
      BY <2>1, <3>1 DEF Range
  <2>5. HeldIsRecorded'
    BY <1>0, <2>1, <2>2 DEF HeldIsRecorded
  <2>6. HeldIsFresh'
    <3> SUFFICES ASSUME NEW t \in Streams, Holding(t)'
                 PROVE  HeldMsg(t)' \notin Range(emitted'[PeerOf(t)])
      BY DEF HeldIsFresh, Range
    <3>1. t # s /\ Holding(t) /\ HeldMsg(t)' = HeldMsg(t)
      BY <2>2
    <3>2. PeerOf(t) = p => HeldMsg(t) # m
      BY <1>0, <2>1, <3>1 DEF HeldOnce, m
    <3>3. HeldMsg(t) \notin Range(emitted[PeerOf(t)])
      BY <1>0, <3>1 DEF HeldIsFresh
    <3> QED
      BY <1>a, <2>4, <3>1, <3>2, <3>3
  <2>7. HeldOnce'
    BY <1>0, <2>2 DEF HeldOnce
  <2>8. ShownIsRecorded'
    BY <1>0, <2>1, <2>3, <2>4 DEF ShownIsRecorded, Range
  <2>9. ShownOnce'
    <3> SUFFICES ASSUME NEW q \in Peers, NEW i \in DOMAIN emitted'[q],
                        NEW j \in DOMAIN emitted'[q],
                        emitted'[q][i] = emitted'[q][j]
                 PROVE  i = j
      BY DEF ShownOnce
    <3>1. CASE q # p
      BY <1>0, <2>1, <3>1 DEF ShownOnce
    <3>2. CASE q = p
      <4>1. \A k \in 1 .. n : emitted[p][k] # m
        BY <2>1, <2>3 DEF Range
      <4>2. i \in 1 .. n + 1 /\ j \in 1 .. n + 1
        BY <2>1, <3>2
      <4>3. CASE i \in 1 .. n /\ j \in 1 .. n
        BY <1>0, <2>1, <3>2, <4>3 DEF ShownOnce
      <4>4. CASE i = n + 1 \/ j = n + 1
        BY <2>1, <3>2, <4>1, <4>2, <4>4
      <4> QED
        BY <2>1, <4>2, <4>3, <4>4
    <3> QED
      BY <3>1, <3>2
  <2> QED
    BY <2>5, <2>6, <2>7, <2>8, <2>9 DEF OnceInv
<1> QED
  BY <1>1, <1>2, <1>3, ReceiverSteps

LEMMA OnceInit == Init => OnceInv
  BY DEF Init, OnceInv, HeldIsRecorded, HeldIsFresh, HeldOnce, ShownIsRecorded,
         ShownOnce, Holding, NoStream, Range

\* As long as no receiver's inbox refuses a frame: what a consumer holds it has
\* recorded, nobody else holds it, and it has not been shown.
LEMMA OnceInvariant ==
    ASSUME "inbox" \notin FaultKinds
    PROVE  Spec => [](TypeOK /\ DeliveryInv /\ OnceInv)
<1>1. Init => OnceInv
  BY OnceInit
<1>2. TypeOK /\ OnceInv /\ [Next]_vars => OnceInv'
  BY OnceStep
<1> QED
  BY <1>1, <1>2, TypeCorrect, DeliveryInvariant, PTL DEF Spec

\* However often a message is written again, its receiver shows it at most
\* once: the consumers of all streams to a peer go through one inbox, whose
\* key decides who emits (run_recv_loop, inbox_record).
THEOREM ShownAtMostOnce ==
    ASSUME "inbox" \notin FaultKinds
    PROVE  Spec => []AtMostOnce
<1>1. ASSUME TypeOK, DeliveryInv, OnceInv
      PROVE  AtMostOnce
  <2> SUFFICES ASSUME NEW p \in Peers, NEW i \in DOMAIN emitted[p],
                      NEW j \in DOMAIN emitted[p],
                      emitted[p][i].ch = emitted[p][j].ch,
                      emitted[p][i].seq = emitted[p][j].seq
               PROVE  i = j
    BY DEF AtMostOnce
  <2>1. emitted[p][i] \in Addressed(p) /\ emitted[p][j] \in Addressed(p)
    BY <1>1 DEF DeliveryInv, Integrity, Received, Range
  <2>2. emitted[p][i] = emitted[p][j]
    BY <1>1, <2>1, KeyDecides DEF DeliveryInv
  <2> QED
    BY <1>1, <2>2 DEF OnceInv, ShownOnce
<1> QED
  BY <1>1, OnceInvariant, PTL

-----------------------------------------------------------------------------
(* Delivery implements Mailbox.                                            *)

\* Marking a row, or doing nothing to the outbox, posts nothing.
LEMMA PostedStep ==
    ASSUME TypeOK, SeqIsPlace, [Next]_vars
    PROVE  \/ UNCHANGED Posted
           \/ /\ \E c \in Channels, p \in Peers :
                   \E b \in 1 .. MaxMsgs :
                     Posted' = [Posted EXCEPT ![c] =
                                  Append(@, [peer |-> p, body |-> b])]
              /\ UNCHANGED <<net, inbox, emitted>>
<1> DEFINE Goal == \/ UNCHANGED Posted
                   \/ /\ \E c \in Channels, p \in Peers :
                           \E b \in 1 .. MaxMsgs :
                             Posted' = [Posted EXCEPT ![c] =
                                          Append(@, [peer |-> p, body |-> b])]
                      /\ UNCHANGED <<net, inbox, emitted>>
<1>0. \A c \in Channels : outbox[c] \in Seq(Row)
  BY DEF TypeOK
<1>1. CASE UNCHANGED outbox
  BY <1>1 DEF Posted
<1>2. ASSUME NEW q \in Peers, MarkDelivered(q), ~ UNCHANGED outbox
      PROVE  Goal
  <2>1. PICK r \in CurrentRow(q) : outbox' = Marked(r)
    BY <1>2 DEF MarkDelivered
  <2>2. r \in Row
    BY DEF CurrentRow, TypeOK, TaskState
  <2>3. \A c \in Channels : DOMAIN outbox'[c] = DOMAIN outbox[c]
    BY <2>1, <2>2, MarkedType DEF Marked, TypeOK
  <2>4. OutboxKept
    BY OutboxStep
  <2>5. \A c \in Channels : \A i \in DOMAIN outbox[c] :
          /\ outbox'[c][i].peer = outbox[c][i].peer
          /\ outbox'[c][i].body = outbox[c][i].body
    <3> SUFFICES ASSUME NEW c \in Channels, NEW i \in DOMAIN outbox[c]
                 PROVE  /\ outbox'[c][i].peer = outbox[c][i].peer
                        /\ outbox'[c][i].body = outbox[c][i].body
      OBVIOUS
    <3>1. outbox[c][i] \in Row
      BY <1>0
    <3> QED
      BY <2>4, <3>1, MarkKeeps DEF OutboxKept
  <2> QED
    BY <2>3, <2>5 DEF Posted
<1>3. ASSUME NEW p \in Peers, NEW c \in Channels, NEW big \in Sizes,
             Send(p, c, big)
      PROVE  Goal
  <2>1. PICK d \in ClockSteps : outbox' = [outbox EXCEPT ![c] = Append(@,
            [ch |-> c, seq |-> NextSeq(c), peer |-> p, body |-> nsent + 1,
             ts |-> clock + d, big |-> big, delivered |-> FALSE])]
    BY <1>3 DEF Send
  <2> DEFINE r == [ch |-> c, seq |-> NextSeq(c), peer |-> p, body |-> nsent + 1,
                   ts |-> clock + d, big |-> big, delivered |-> FALSE]
             x == [peer |-> p, body |-> nsent + 1]
  <2>2. r.peer = p /\ r.body = nsent + 1
    OBVIOUS
  <2> HIDE DEF r
  <2>3. /\ outbox'[c] = Append(outbox[c], r)
        /\ \A e \in Channels \ {c} : outbox'[e] = outbox[e]
    BY <2>1 DEF TypeOK, r
  <2>4. /\ DOMAIN outbox[c] = 1 .. Len(outbox[c])
        /\ Len(outbox[c]) \in Nat
        /\ DOMAIN outbox'[c] = 1 .. Len(outbox[c]) + 1
        /\ \A i \in DOMAIN outbox[c] : outbox'[c][i] = outbox[c][i]
        /\ outbox'[c][Len(outbox[c]) + 1] = r
    BY <1>0, <2>3
  <2>5. /\ Posted[c] = [i \in 1 .. Len(outbox[c]) |->
              [peer |-> outbox[c][i].peer, body |-> outbox[c][i].body]]
        /\ Posted'[c] = [i \in 1 .. Len(outbox[c]) + 1 |->
              [peer |-> outbox'[c][i].peer, body |-> outbox'[c][i].body]]
    BY <2>4 DEF Posted
  <2>6. Posted'[c] = Append(Posted[c], x)
    <3>1. Len(Posted[c]) = Len(outbox[c])
      BY <2>4, <2>5
    <3>2. Append(Posted[c], x) = [i \in 1 .. Len(outbox[c]) + 1 |->
                                    IF i \in 1 .. Len(outbox[c])
                                    THEN Posted[c][i] ELSE x]
      BY <2>4, <2>5, <3>1
    <3>3. \A i \in 1 .. Len(outbox[c]) + 1 :
            Posted'[c][i] = IF i \in 1 .. Len(outbox[c])
                            THEN Posted[c][i] ELSE x
      <4> SUFFICES ASSUME NEW i \in 1 .. Len(outbox[c]) + 1
                   PROVE  Posted'[c][i] = IF i \in 1 .. Len(outbox[c])
                                          THEN Posted[c][i] ELSE x
        OBVIOUS
      <4>1. Posted'[c][i] = [peer |-> outbox'[c][i].peer,
                             body |-> outbox'[c][i].body]
        BY <2>5
      <4>2. CASE i \in 1 .. Len(outbox[c])
        <5>1. outbox'[c][i] = outbox[c][i]
          BY <2>4, <4>2
        <5>2. Posted[c][i] = [peer |-> outbox[c][i].peer,
                              body |-> outbox[c][i].body]
          BY <2>5, <4>2
        <5> QED
          BY <4>1, <4>2, <5>1, <5>2
      <4>3. CASE i \notin 1 .. Len(outbox[c])
        <5>1. i = Len(outbox[c]) + 1
          BY <2>4, <4>3
        <5> QED
          BY <2>2, <2>4, <4>1, <4>3, <5>1
      <4> QED
        BY <4>2, <4>3
    <3> QED
      BY <2>5, <3>2, <3>3
  <2>7. \A e \in Channels \ {c} : Posted'[e] = Posted[e]
    BY <2>3 DEF Posted
  <2>8. Posted' = [Posted EXCEPT ![c] = Append(@, x)]
    <3>1. /\ Posted = [e \in Channels |-> Posted[e]]
          /\ Posted' = [e \in Channels |-> Posted'[e]]
      BY DEF Posted
    <3> HIDE DEF x
    <3> QED
      BY <2>6, <2>7, <3>1
  <2>9. nsent + 1 \in 1 .. MaxMsgs
    BY <1>3, DeliveryAssumption DEF Send, TypeOK
  <2>10. UNCHANGED <<net, inbox, emitted>>
    BY <1>3 DEF Send, receiverVars
  <2> QED
    BY <2>8, <2>9, <2>10
<1> QED
  BY <1>1, <1>2, <1>3, OutboxWriters

\* A message addressed to p stands at its place in the outbox.
LEMMA AddressedPlace ==
    ASSUME TypeOK, SeqIsPlace, NEW p \in Peers, NEW m \in Addressed(p)
    PROVE  /\ m.ch \in Channels /\ m.seq \in DOMAIN Posted[m.ch]
           /\ Posted[m.ch][m.seq].peer = p
           /\ Box!MessageAt(m.ch, m.seq) = m
<1>1. PICK c \in Channels : \E i \in DOMAIN outbox[c] :
        m = MessageOf(outbox[c][i]) /\ outbox[c][i].peer = p
  BY DEF Addressed, AllRows, Rows, Range
<1>2. PICK i \in DOMAIN outbox[c] :
        m = MessageOf(outbox[c][i]) /\ outbox[c][i].peer = p
  BY <1>1
<1>3. m = [ch |-> c, seq |-> i, body |-> outbox[c][i].body]
  BY <1>2 DEF SeqIsPlace, MessageOf
<1>4. /\ i \in DOMAIN Posted[c]
      /\ Posted[c][i].peer = p /\ Posted[c][i].body = outbox[c][i].body
  BY <1>2 DEF Posted
<1> QED
  BY <1>3, <1>4 DEF Box!MessageAt

\* Delivery implements Mailbox: crashes, restarts, retries, lost frames and
\* racing streams are invisible to the receivers' applications, but for what
\* is never taken.  Send posts, the insert of a new frame takes, the
\* consumer's broadcast shows; everything else stutters.
THEOREM DeliveryImplementsMailbox ==
    ASSUME "inbox" \notin FaultKinds
    PROVE  Spec => ImplementsMailbox
<1>1. Init => Box!Init
  <2> SUFFICES ASSUME Init PROVE Box!Init
    OBVIOUS
  <2>1. \A c \in Channels : Posted[c] = <<>>
    BY DEF Init, Posted
  <2>2. Posted = [c \in Channels |-> <<>>]
    BY <2>1 DEF Posted
  <2> QED
    BY <2>2 DEF Init, Box!Init
<1>2. ASSUME TypeOK, DeliveryInv, OnceInv, [Next]_vars
      PROVE  [Box!Next]_(Box!mailboxVars)
  <2>0. SeqIsPlace /\ StreamsAddressed
    BY <1>2 DEF DeliveryInv
  <2>1. CASE UNCHANGED <<inbox, emitted>>
    <3>1. CASE UNCHANGED Posted
      BY <2>1, <3>1 DEF Box!mailboxVars
    <3>2. ASSUME NEW c \in Channels, NEW p \in Peers, NEW b \in 1 .. MaxMsgs,
                 Posted' = [Posted EXCEPT ![c] =
                              Append(@, [peer |-> p, body |-> b])]
          PROVE  Box!Next
      <4>1. Box!Post(c, p, b)
        BY <2>1, <3>2 DEF Box!Post
      <4> QED
        BY <4>1 DEF Box!Next
    <3> QED
      BY <1>2, <2>0, <3>1, <3>2, PostedStep
  <2>2. ASSUME NEW s \in Streams, RecordsNew(s)
        PROVE  Box!Next
    <3> DEFINE p == PeerOf(s)
               m == Msg(s, Head(net[s].buf))
    <3>1. /\ p \in Peers /\ m \notin inbox[p]
          /\ inbox' = [inbox EXCEPT ![p] = @ \cup {m}]
          /\ UNCHANGED <<emitted, outbox>>
      BY <1>2, <2>2, RecordEffect DEF RecordsNew
    <3>2. m \in Addressed(p)
      BY <1>2, <2>0, <2>2, InStreamParts DEF RecordsNew, StreamsAddressed
    <3> HIDE DEF m, p
    <3>3. /\ m.ch \in Channels /\ m.seq \in DOMAIN Posted[m.ch]
          /\ Posted[m.ch][m.seq].peer = p
          /\ Box!MessageAt(m.ch, m.seq) = m
      BY <1>2, <2>0, <3>1, <3>2, AddressedPlace
    <3>4. UNCHANGED Posted
      BY <3>1 DEF Posted
    <3>5. Box!Take(p, m.ch, m.seq)
      BY <3>1, <3>3, <3>4 DEF Box!Take
    <3> QED
      BY <3>1, <3>3, <3>5 DEF Box!Next
  <2>3. ASSUME NEW s \in Streams, EmitFrame(s)
        PROVE  Box!Next
    <3> DEFINE p == PeerOf(s)
               m == HeldMsg(s)
    <3>1. p \in Peers /\ Holding(s) /\ inbox' = inbox
      BY <1>2, <2>3, EmitEffect
    <3>2. m \in inbox[p] /\ m \notin Range(emitted[p])
      BY <1>2, <3>1 DEF OnceInv, HeldIsRecorded, HeldIsFresh
    <3>3. /\ emitted' = [emitted EXCEPT ![p] = Append(@, m)]
          /\ UNCHANGED outbox
      BY <2>3 DEF EmitFrame, HeldMsg, senderVars
    <3> HIDE DEF m, p
    <3>4. UNCHANGED Posted
      BY <3>3 DEF Posted
    <3>5. Box!Show(p, m)
      BY <3>1, <3>2, <3>3, <3>4 DEF Box!Show, Range
    <3> QED
      BY <3>1, <3>2, <3>5 DEF Box!Next
  <2> QED
    BY <1>2, <2>1, <2>2, <2>3, ReceiverSteps
<1> QED
  BY <1>1, <1>2, OnceInvariant, PTL DEF Spec, ImplementsMailbox, Box!Spec
=============================================================================
