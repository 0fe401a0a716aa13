------------------------------ MODULE Delivery ------------------------------
(***************************************************************************)
(* Durable messaging between one sending daemon and its peers: the outbox, *)
(* the per-peer delivery tasks, the QUIC streams they write to, and the    *)
(* receiving daemons' inboxes (wt-daemon/src/state.rs, the messages table  *)
(* of wt-core/src/store.rs, wt-core/src/services/msg.rs).                  *)
(*                                                                         *)
(* An action is one stretch of code between two awaits that touch shared   *)
(* state.  Both daemons may crash and come back, streams may die with data *)
(* in flight, the stores may refuse a statement, the operator may stop the *)
(* daemon, and pairings may come and go; FaultKinds and MaxFaults say      *)
(* which of these happen in a model, and how often.                        *)
(***************************************************************************)
EXTENDS Integers, Sequences, FiniteSets, Functions

CONSTANTS
    Peers,        \* the receiving daemons (NodeIds)
    Channels,     \* channels, numbered in the order of their names
    Slots,        \* connections to one peer for one channel that may overlap
    None,         \* no stream, no frame
    Paired,       \* peers paired in both directions at the start
    BatchLimit,   \* DELIVERY_BATCH
    WireCap,      \* frames a stream buffers before write_all blocks
    RecvCap,      \* capacity of an inbound stream's mpsc channel
    ClockSteps,   \* what the wall clock does between two sends
    Sizes,        \* may an accepted payload exceed MAX_FRAME_BYTES?
    FaultKinds,   \* kinds of faults that happen in this model
    MaxMsgs,      \* bound: messages accepted by Send
    MaxFaults     \* bound: faults

ASSUME DeliveryAssumption ==
    /\ None \notin Slots
    /\ None \notin [seq : Nat, body : Nat]  \* Frame, below
    /\ Channels \subseteq Nat
    /\ Paired \subseteq Peers
    /\ BatchLimit \in Nat \ {0}
    /\ WireCap \in Nat \ {0}
    /\ RecvCap \in Nat \ {0}
    /\ ClockSteps \subseteq Int
    /\ Sizes \subseteq BOOLEAN
    /\ MaxMsgs \in Nat
    /\ MaxFaults \in Nat

VARIABLES
    \* The sending daemon, on disk.
    outbox,       \* channel -> its direction = 0 rows of messages, as inserted
    registry,     \* peers with a row in the peers table
    tokens,       \* peers whose live Msg token is in the tokens table
    \* The sending daemon, in memory.
    phase,        \* the process: up, stopping, closed (endpoint gone), down
    backlog,      \* resume_delivery: peers to notify yet, or "scan" not done
    handlers,     \* Send requests between outbox_enqueue and notify_peer
    task,         \* peer -> waker and per_peer_delivery_task
    \* The network and the receiving daemons' streams.
    net,
    \* The receiving daemons.
    admitted,     \* peers that know the sender and whose token it verifies
    inbox,        \* peer -> its direction = 1 rows
    emitted,      \* peer -> what it broadcast to its subscribers, in order
    lost,         \* history: peer -> messages of frames written, and dropped by
                  \* the transport or by a dying or refusing receiver
    \* The environment.
    clock,        \* the sender's unix_ms()
    nsent,        \* Send requests accepted; numbers the payloads
    faults        \* faults so far

senderVars == <<outbox, registry, tokens, phase, backlog, handlers, task>>
receiverVars == <<admitted, inbox, emitted, lost>>
envVars == <<clock, nsent, faults>>
vars == <<outbox, registry, tokens, phase, backlog, handlers, task, net,
          admitted, inbox, emitted, lost, clock, nsent, faults>>

-----------------------------------------------------------------------------
(* State of the components.                                                *)

\* A row of messages with direction = 0.  big: its frame is over the limit.
Row == [ch : Channels, seq : Nat, peer : Peers, body : Nat, ts : Int,
        big : BOOLEAN, delivered : BOOLEAN]

\* What crosses the wire (MessageFrame); the channel is the stream's.
Frame == [seq : Nat, body : Nat]

\* What a receiver stores and shows.
Message == [ch : Channels, seq : Nat, body : Nat]

\* A stream is an own connection: open_outbound_stream dials every time.
Streams == Peers \X Channels \X Slots
PeerOf(s) == s[1]
ChanOf(s) == s[2]
SlotOf(s) == s[3]

\* idle and backoff are the same select!: reached by Ok, or by Err, of a drain.
PC == {"none", "fetch", "row", "mark", "idle", "backoff", "exit"}

TaskState == [pc : PC, waker : {"none", "quiet", "queued"},
              batch : SUBSET Row, streams : [Channels -> Slots \cup {None}],
              stop : BOOLEAN]

\* Absence of a task, and of a waker in peer_wakers.
NoStreams == [c \in Channels |-> None]
NoTask == [pc |-> "none", waker |-> "none", batch |-> {},
           streams |-> NoStreams, stop |-> FALSE]

\* rx is the receiving end: opening until the StreamOpen is judged, reading
\* while run_recv_loop runs, draining while the consumer empties the mpsc
\* channel buf, idle before and after.  hold is the frame the consumer has
\* recorded and is about to emit.
StreamState == [conn : {"up", "cut"},
                rx : {"idle", "opening", "reading", "draining"},
                wire : Seq(Frame), buf : Seq(Frame), hold : Frame \cup {None}]

\* A stream slot nobody uses.
NoStream == [conn |-> "cut", rx |-> "idle", wire |-> <<>>, buf |-> <<>>,
             hold |-> None]

TypeOK ==
    /\ outbox \in [Channels -> Seq(Row)]
    /\ registry \in SUBSET Peers
    /\ tokens \in SUBSET Peers
    /\ phase \in {"up", "stopping", "closed", "down"}
    /\ backlog \in [scanned : BOOLEAN, todo : SUBSET Peers]
    /\ handlers \in SUBSET (Peers \X Nat)
    /\ task \in [Peers -> TaskState]
    /\ net \in [Streams -> StreamState]
    /\ admitted \in SUBSET Peers
    /\ inbox \in [Peers -> SUBSET Message]
    /\ emitted \in [Peers -> Seq(Message)]
    /\ lost \in [Peers -> SUBSET Message]
    /\ clock \in Int
    /\ nsent \in Nat
    /\ faults \in Nat

Init ==
    /\ outbox = [c \in Channels |-> <<>>]
    /\ registry = Paired
    /\ tokens = Paired
    /\ phase = "up"
    /\ backlog = [scanned |-> FALSE, todo |-> {}]
    /\ handlers = {}
    /\ task = [p \in Peers |-> NoTask]
    /\ net = [s \in Streams |-> NoStream]
    /\ admitted = Paired
    /\ inbox = [p \in Peers |-> {}]
    /\ emitted = [p \in Peers |-> <<>>]
    /\ lost = [p \in Peers |-> {}]
    /\ clock = 0
    /\ nsent = 0
    /\ faults = 0

\* A fault of kind k happens now.
Fault(k) ==
    /\ k \in FaultKinds
    /\ faults < MaxFaults
    /\ faults' = faults + 1

Running == phase # "down"

-----------------------------------------------------------------------------
(* The outbox: outbox_enqueue, outbox_pending_for_peer, ...                *)

Rows(c) == Range(outbox[c])
AllRows == UNION {Rows(c) : c \in Channels}

\* Mutant: the query forgets AND peer_nodeid = ?1.
PendingForAnyone(p) == {r \in AllRows : ~r.delivered}

Pending(p) == {r \in AllRows : r.peer = p /\ ~r.delivered}

\* Mutant: MAX(id_seq) + 1 without COALESCE is NULL on an empty channel.
NextSeqOrNull(c) ==
    IF Rows(c) = {} THEN None
    ELSE 1 + (CHOOSE n \in {r.seq : r \in Rows(c)} :
                \A r \in Rows(c) : r.seq <= n)

\* COALESCE(MAX(id_seq), 0) + 1 over the channel, whoever the rows are for.
NextSeq(c) ==
    1 + (CHOOSE n \in {0} \cup {r.seq : r \in Rows(c)} :
            \A r \in Rows(c) : r.seq <= n)

\* Mutant: an order that leaves rows of one millisecond unordered.
BeforeByTime(q, r) == q.ts < r.ts

\* ORDER BY enqueued_at_ms ASC, a stable sort of what the index
\* messages_peer_chan_dir yields: rows of one millisecond come by channel and,
\* in a channel, in primary-key order.
Before(q, r) ==
    \/ q.ts < r.ts
    \/ q.ts = r.ts /\ q.ch < r.ch
    \/ q.ts = r.ts /\ q.ch = r.ch /\ q.seq < r.seq

\* What outbox_pending_for_peer returns: the LIMIT first rows.
Batches(p) ==
    {B \in SUBSET Pending(p) :
        /\ \A r \in B, q \in Pending(p) \ B : ~Before(q, r)
        /\ \/ Cardinality(B) = BatchLimit
           \/ B = Pending(p) /\ Cardinality(B) < BatchLimit}

\* The sender's stream for (p, c), if its task holds one.
StreamOf(p, c) == <<p, c, task[p].streams[c]>>
Held(s) == task[PeerOf(s)].streams[ChanOf(s)] = SlotOf(s)

\* net with the streams that S selects dropped by the sender.  The connection
\* goes with its last handle: what the peer has not got yet may be lost.
Cut(S) == [s \in Streams |->
              IF s \in S THEN [net[s] EXCEPT !.conn = "cut"] ELSE net[s]]

\* The message a frame on stream s carries; the messages in stream s, and in
\* all streams to p, that the receiver has not emitted yet.
Msg(s, f) == [ch |-> ChanOf(s), seq |-> f.seq, body |-> f.body]
InStream(s) ==
    {Msg(s, f) : f \in Range(net[s].wire) \cup Range(net[s].buf)
                        \cup ({net[s].hold} \ {None})}
Transit(p) == UNION {InStream(s) : s \in {t \in Streams : PeerOf(t) = p}}

\* lost, once the frames of M on their way to p are gone.
Losing(p, M) == [lost EXCEPT ![p] = @ \cup M]

-----------------------------------------------------------------------------
(* Send: the IPC handler enqueues, then notifies.                          *)

Send(p, c, big) ==
    /\ phase \in {"up", "stopping"}
    /\ nsent < MaxMsgs
    /\ p \in registry
    /\ \E d \in ClockSteps :
         /\ clock' = clock + d
         /\ outbox' = [outbox EXCEPT ![c] = Append(@,
                [ch |-> c, seq |-> NextSeq(c), peer |-> p, body |-> nsent + 1,
                 ts |-> clock + d, big |-> big, delivered |-> FALSE])]
    /\ nsent' = nsent + 1
    /\ handlers' = handlers \cup {<<p, nsent + 1>>}
    /\ UNCHANGED <<registry, tokens, phase, backlog, task, net, receiverVars,
                   faults>>

\* Mutant: a busy task is not woken, as if it were sure to look again.
NotifiedIfAsleep(p) ==
    IF task[p].waker = "none"
    THEN [task EXCEPT ![p] = [NoTask EXCEPT !.pc = "fetch", !.waker = "quiet"]]
    ELSE IF task[p].pc \in {"idle", "backoff"}
         THEN [task EXCEPT ![p].waker = "queued"]
         ELSE task

\* notify_peer: queue a wake in the task's channel of capacity 1, or spawn the
\* task if the peer has no waker.  A task in exit still has its receiver.
Notified(p) ==
    IF task[p].waker = "none"
    THEN [task EXCEPT ![p] = [NoTask EXCEPT !.pc = "fetch", !.waker = "quiet"]]
    ELSE [task EXCEPT ![p].waker = "queued"]

NotifyPeer(h) ==
    /\ Running
    /\ h \in handlers
    /\ handlers' = handlers \ {h}
    /\ task' = Notified(h[1])
    /\ UNCHANGED <<outbox, registry, tokens, phase, backlog, net, receiverVars,
                   envVars>>

\* resume_delivery at startup, concurrent with the IPC server: scan, then
\* notify one peer after the other.  A failing scan is only logged.
PendingPeers == {p \in Peers : Pending(p) # {}}

ScanBacklog ==
    /\ phase = "up"
    /\ ~backlog.scanned
    /\ \/ /\ backlog' = [scanned |-> TRUE, todo |-> PendingPeers]
          /\ UNCHANGED faults
       \/ /\ Fault("store")
          /\ backlog' = [scanned |-> TRUE, todo |-> {}]
    /\ UNCHANGED <<outbox, registry, tokens, phase, handlers, task, net,
                   receiverVars, clock, nsent>>

ResumePeer(p) ==
    /\ phase = "up"
    /\ p \in backlog.todo
    /\ backlog' = [backlog EXCEPT !.todo = @ \ {p}]
    /\ task' = Notified(p)
    /\ UNCHANGED <<outbox, registry, tokens, phase, handlers, net,
                   receiverVars, envVars>>

-----------------------------------------------------------------------------
(* per_peer_delivery_task and drain_peer.                                  *)

\* drain_peer returned Err: streams.clear(), then the select!.
Backoff(p) ==
    /\ task' = [task EXCEPT ![p].pc = "backoff", ![p].batch = {},
                            ![p].streams = NoStreams]
    /\ net' = Cut({s \in Streams : PeerOf(s) = p /\ Held(s)})

\* The query runs on the store's thread; the task goes on with its result later.
FetchBatch(p) ==
    /\ task[p].pc = "fetch"
    /\ \/ /\ \E B \in Batches(p) :
               task' = [task EXCEPT ![p].pc = "row", ![p].batch = B]
          /\ UNCHANGED <<net, faults>>
       \/ /\ Fault("store")
          /\ Backoff(p)
    /\ UNCHANGED <<outbox, registry, tokens, phase, backlog, handlers,
                   receiverVars, clock, nsent>>

\* rows.is_empty(): drain_peer returns Ok, on to the select!.
DrainDone(p) ==
    /\ task[p].pc = "row"
    /\ task[p].batch = {}
    /\ task' = [task EXCEPT ![p].pc = "idle"]
    /\ UNCHANGED <<outbox, registry, tokens, phase, backlog, handlers, net,
                   receiverVars, envVars>>

\* The row the for loop is at: the first of the batch (a singleton).
CurrentRow(p) == {r \in task[p].batch : \A q \in task[p].batch : ~Before(q, r)}

Dialable(p) == p \in registry /\ p \in tokens /\ phase \in {"up", "stopping"}

\* A slot is free again once both ends have let go of it.
Free(s) == net[s].rx = "idle" /\ ~Held(s)

OpenStream(p) ==
    /\ task[p].pc = "row"
    /\ \E r \in CurrentRow(p) :
         /\ task[p].streams[r.ch] = None
         /\ Dialable(p)
         /\ \E k \in Slots :
              /\ Free(<<p, r.ch, k>>)
              /\ net' = [net EXCEPT ![<<p, r.ch, k>>] =
                           [NoStream EXCEPT !.conn = "up", !.rx = "opening"]]
              /\ task' = [task EXCEPT ![p].streams[r.ch] = k]
    /\ UNCHANGED <<outbox, registry, tokens, phase, backlog, handlers,
                   receiverVars, envVars>>

\* No peer row, no token, or the dial failed.
OpenFails(p) ==
    /\ task[p].pc = "row"
    /\ \E r \in CurrentRow(p) : task[p].streams[r.ch] = None
    /\ Backoff(p)
    /\ \/ ~Dialable(p) /\ UNCHANGED faults
       \/ Fault("dial")
    /\ UNCHANGED <<outbox, registry, tokens, phase, backlog, handlers,
                   receiverVars, clock, nsent>>

\* write_cbor_frame: the bytes are buffered.  On a connection that is already
\* dead, but not yet known to be, they go nowhere and the write succeeds too.
WriteFrame(p) ==
    /\ task[p].pc = "row"
    /\ \E r \in CurrentRow(p) :
         LET s == StreamOf(p, r.ch) IN
         /\ task[p].streams[r.ch] # None
         /\ ~r.big
         /\ \/ /\ net[s].conn = "up"
               /\ Len(net[s].wire) < WireCap
               /\ net' = [net EXCEPT ![s].wire =
                            Append(@, [seq |-> r.seq, body |-> r.body])]
               /\ UNCHANGED lost
            \/ /\ net[s].conn = "cut"
               /\ phase # "closed"
               /\ lost' = Losing(p, {Msg(s, r)})
               /\ UNCHANGED net
    /\ task' = [task EXCEPT ![p].pc = "mark"]
    /\ UNCHANGED <<outbox, registry, tokens, phase, backlog, handlers,
                   admitted, inbox, emitted, envVars>>

\* Mutant: a failed write is logged, and the row marked all the same.
WriteFailsAndMarks(p) ==
    /\ task[p].pc = "row"
    /\ \E r \in CurrentRow(p) :
         /\ task[p].streams[r.ch] # None
         /\ r.big \/ net[StreamOf(p, r.ch)].conn = "cut"
    /\ task' = [task EXCEPT ![p].pc = "mark"]
    /\ UNCHANGED <<outbox, registry, tokens, phase, backlog, handlers, net,
                   receiverVars, envVars>>

\* The frame is over MAX_FRAME_BYTES, or the stream is known to be dead.
WriteFails(p) ==
    /\ task[p].pc = "row"
    /\ \E r \in CurrentRow(p) :
         /\ task[p].streams[r.ch] # None
         /\ r.big \/ net[StreamOf(p, r.ch)].conn = "cut"
    /\ Backoff(p)
    /\ UNCHANGED <<outbox, registry, tokens, phase, backlog, handlers,
                   receiverVars, envVars>>

\* Mutant: a cumulative mark, id_seq <= ?3, whoever the earlier rows are for.
MarkedUpTo(r) ==
    [outbox EXCEPT ![r.ch] =
        [i \in DOMAIN @ |->
            IF @[i].seq <= r.seq THEN [@[i] EXCEPT !.delivered = TRUE] ELSE @[i]]]

\* outbox_mark_delivered of row r of the outbox.
Marked(r) ==
    [outbox EXCEPT ![r.ch] =
        [i \in DOMAIN @ |->
            IF @[i].seq = r.seq THEN [@[i] EXCEPT !.delivered = TRUE] ELSE @[i]]]

MarkDelivered(p) ==
    /\ task[p].pc = "mark"
    /\ \E r \in CurrentRow(p) :
         \/ /\ outbox' = Marked(r)
            /\ task' = [task EXCEPT ![p].batch = @ \ {r},
                                    ![p].pc = IF task[p].batch = {r}
                                              THEN "fetch" ELSE "row"]
            /\ UNCHANGED <<net, faults>>
         \/ /\ Fault("store")
            /\ Backoff(p)
            /\ UNCHANGED outbox
    /\ UNCHANGED <<registry, tokens, phase, backlog, handlers, receiverVars,
                   clock, nsent>>

\* The three arms of the select!.
TakeWake(p) ==
    /\ task[p].pc \in {"idle", "backoff"}
    /\ task[p].waker = "queued"
    /\ task' = [task EXCEPT ![p].pc = "fetch", ![p].waker = "quiet"]
    /\ UNCHANGED <<outbox, registry, tokens, phase, backlog, handlers, net,
                   receiverVars, envVars>>

\* Mutant: no retry after a drain that failed.
RetryTimerUnlessFailed(p) ==
    /\ task[p].pc = "idle"
    /\ task' = [task EXCEPT ![p].pc = "fetch"]
    /\ UNCHANGED <<outbox, registry, tokens, phase, backlog, handlers, net,
                   receiverVars, envVars>>

RetryTimer(p) ==
    /\ task[p].pc \in {"idle", "backoff"}
    /\ task' = [task EXCEPT ![p].pc = "fetch"]
    /\ UNCHANGED <<outbox, registry, tokens, phase, backlog, handlers, net,
                   receiverVars, envVars>>

SeeShutdown(p) ==
    /\ task[p].pc \in {"idle", "backoff"}
    /\ task[p].stop
    /\ task' = [task EXCEPT ![p].pc = "exit"]
    /\ UNCHANGED <<outbox, registry, tokens, phase, backlog, handlers, net,
                   receiverVars, envVars>>

\* The task ends: its waker goes, and its streams with it.
TaskExit(p) ==
    /\ task[p].pc = "exit"
    /\ task' = [task EXCEPT ![p] = NoTask]
    /\ net' = Cut({s \in Streams : PeerOf(s) = p /\ Held(s)})
    /\ UNCHANGED <<outbox, registry, tokens, phase, backlog, handlers,
                   receiverVars, envVars>>

TaskStep(p) ==
    \/ FetchBatch(p) \/ DrainDone(p)
    \/ OpenStream(p) \/ OpenFails(p)
    \/ WriteFrame(p) \/ WriteFails(p)
    \/ MarkDelivered(p)
    \/ TakeWake(p) \/ RetryTimer(p) \/ SeeShutdown(p)
    \/ TaskExit(p)

-----------------------------------------------------------------------------
(* The sending daemon's life: stop, crash, restart; its pairings.          *)

\* The signal handlers are installed after resume_delivery returned; earlier a
\* signal is a crash.  shutdown: the broadcast reaches the tasks that exist now.
Shutdown ==
    /\ phase = "up"
    /\ backlog = [scanned |-> TRUE, todo |-> {}]
    /\ Fault("shutdown")
    /\ phase' = "stopping"
    /\ task' = [p \in Peers |->
                   [task[p] EXCEPT !.stop = task[p].pc # "none"]]
    /\ UNCHANGED <<outbox, registry, tokens, backlog, handlers, net,
                   receiverVars, clock, nsent>>

\* transport.close(): every connection ends, none can be opened.
CloseTransport ==
    /\ phase = "stopping"
    /\ phase' = "closed"
    /\ net' = Cut(Streams)
    /\ UNCHANGED <<outbox, registry, tokens, backlog, handlers, task,
                   receiverVars, envVars>>

\* The process is gone, and with it everything that was not on disk.
Down ==
    /\ phase' = "down"
    /\ backlog' = [scanned |-> FALSE, todo |-> {}]
    /\ handlers' = {}
    /\ task' = [p \in Peers |-> NoTask]
    /\ net' = Cut(Streams)
    /\ UNCHANGED <<outbox, registry, tokens, receiverVars, clock, nsent>>

Exit == phase = "closed" /\ Down /\ UNCHANGED faults
Crash == phase # "down" /\ Down /\ Fault("crash")

\* Mutant: the startup purges the rows that were delivered.
RestartPurging ==
    /\ phase = "down"
    /\ phase' = "up"
    /\ outbox' = [c \in Channels |->
                     SelectSeq(outbox[c], LAMBDA r : ~r.delivered)]
    /\ UNCHANGED <<registry, tokens, backlog, handlers, task, net,
                   receiverVars, envVars>>

Restart ==
    /\ phase = "down"
    /\ phase' = "up"
    /\ UNCHANGED <<outbox, registry, tokens, backlog, handlers, task, net,
                   receiverVars, envVars>>

\* peer add / peer rm; a token imported / revoked or expired.
SenderPairing(p) ==
    /\ Running
    /\ Fault("pairing")
    /\ \/ registry' = registry \cup {p} /\ UNCHANGED tokens
       \/ registry' = registry \ {p} /\ UNCHANGED tokens
       \/ tokens' = tokens \cup {p} /\ UNCHANGED registry
       \/ tokens' = tokens \ {p} /\ UNCHANGED registry
    /\ UNCHANGED <<outbox, phase, backlog, handlers, task, net, receiverVars,
                   clock, nsent>>

-----------------------------------------------------------------------------
(* The network and the receiving daemons.                                  *)

Break(s) ==
    /\ net[s].conn = "up"
    /\ Fault("cut")
    /\ net' = Cut({s})
    /\ UNCHANGED <<senderVars, receiverVars, clock, nsent>>

\* Frames that had not arrived when the connection ended never do.
LoseFrame(s) ==
    /\ net[s].conn = "cut"
    /\ net[s].wire # <<>>
    /\ net' = [net EXCEPT ![s].wire = SubSeq(@, 1, Len(@) - 1)]
    /\ lost' = Losing(PeerOf(s), {Msg(s, net[s].wire[Len(net[s].wire)])})
    /\ UNCHANGED <<senderVars, admitted, inbox, emitted, envVars>>

\* handle_connection: the peer is known and the token verifies, and
\* spawn_inbound_msg starts the two tasks; or the stream is refused and
\* dropped (inline error, or the connection closed), with all it carried.
AcceptStream(s) ==
    /\ net[s].rx = "opening"
    /\ \/ /\ PeerOf(s) \in admitted
          /\ net' = [net EXCEPT ![s].rx = "reading"]
          /\ UNCHANGED lost
       \/ /\ PeerOf(s) \notin admitted
          /\ net' = [net EXCEPT ![s] = NoStream]
          /\ lost' = Losing(PeerOf(s), InStream(s))
    /\ UNCHANGED <<senderVars, admitted, inbox, emitted, envVars>>

\* The connection ended before its StreamOpen arrived.
AcceptFails(s) ==
    /\ net[s].rx = "opening"
    /\ net[s].conn = "cut"
    /\ net' = [net EXCEPT ![s] = NoStream]
    /\ lost' = Losing(PeerOf(s), InStream(s))
    /\ UNCHANGED <<senderVars, admitted, inbox, emitted, envVars>>

\* run_recv_loop reads a frame and sends it to the consumer, or ends.
ReadFrame(s) ==
    /\ net[s].rx = "reading"
    /\ net[s].wire # <<>>
    /\ Len(net[s].buf) < RecvCap
    /\ net' = [net EXCEPT ![s].wire = Tail(@),
                          ![s].buf = Append(@, Head(net[s].wire))]
    /\ UNCHANGED <<senderVars, receiverVars, envVars>>

ReadEnds(s) ==
    /\ net[s].rx = "reading"
    /\ net[s].conn = "cut"
    /\ net[s].wire = <<>>
    /\ net' = [net EXCEPT ![s].rx = "draining"]
    /\ UNCHANGED <<senderVars, receiverVars, envVars>>

\* Mutant: no receiver-side deduplication.
SeenNever(p, c, n) == FALSE

\* inbox_record: INSERT OR IGNORE on the primary key (sender, channel, seq).
Seen(p, c, n) == \E m \in inbox[p] : m.ch = c /\ m.seq = n

\* Mutant: the consumer emits duplicates too.
RecordFrameEmitAll(s) ==
    LET p == PeerOf(s)
        f == Head(net[s].buf)
    IN
    /\ net[s].rx \in {"reading", "draining"}
    /\ net[s].buf # <<>>
    /\ net[s].hold = None
    /\ inbox' = [inbox EXCEPT ![p] = @ \cup {Msg(s, f)}]
    /\ net' = [net EXCEPT ![s].buf = Tail(@), ![s].hold = f]
    /\ UNCHANGED <<senderVars, admitted, emitted, lost, envVars>>

\* The consumer records the next frame and keeps it if it is to be emitted:
\* if it is new, or (ignoring the error) if the store refused.
RecordFrame(s) ==
    LET p == PeerOf(s)
        f == Head(net[s].buf)
    IN
    /\ net[s].rx \in {"reading", "draining"}
    /\ net[s].buf # <<>>
    /\ net[s].hold = None
    /\ \/ /\ ~Seen(p, ChanOf(s), f.seq)
          /\ inbox' = [inbox EXCEPT ![p] = @ \cup {Msg(s, f)}]
          /\ net' = [net EXCEPT ![s].buf = Tail(@), ![s].hold = f]
          /\ UNCHANGED faults
       \/ /\ Seen(p, ChanOf(s), f.seq)
          /\ net' = [net EXCEPT ![s].buf = Tail(@)]
          /\ UNCHANGED <<inbox, faults>>
       \/ /\ Fault("inbox")
          /\ net' = [net EXCEPT ![s].buf = Tail(@), ![s].hold = f]
          /\ UNCHANGED inbox
    /\ UNCHANGED <<senderVars, admitted, emitted, lost, clock, nsent>>

\* bcast.send(RecvMsg).
EmitFrame(s) ==
    /\ net[s].hold # None
    /\ emitted' = [emitted EXCEPT ![PeerOf(s)] =
                     Append(@, Msg(s, net[s].hold))]
    /\ net' = [net EXCEPT ![s].hold = None]
    /\ UNCHANGED <<senderVars, admitted, inbox, lost, envVars>>

\* The consumer saw the channel closed: the slot is free on this side.
ConsumerEnds(s) ==
    /\ net[s].rx = "draining"
    /\ net[s].buf = <<>>
    /\ net[s].hold = None
    /\ net' = [net EXCEPT ![s].rx = "idle"]
    /\ UNCHANGED <<senderVars, receiverVars, envVars>>

\* A receiving daemon dies and is restarted; only its store survives.
ReceiverCrash(p) ==
    /\ Fault("rxcrash")
    /\ net' = [s \in Streams |-> IF PeerOf(s) = p THEN NoStream ELSE net[s]]
    /\ lost' = Losing(p, Transit(p))
    /\ UNCHANGED <<senderVars, admitted, inbox, emitted, clock, nsent>>

\* The receiver pairs with the sender, or revokes its token or removes it.
ReceiverPairing(p) ==
    /\ Fault("pairing")
    /\ \/ admitted' = admitted \cup {p}
       \/ admitted' = admitted \ {p}
    /\ UNCHANGED <<senderVars, net, inbox, emitted, lost, clock, nsent>>

StreamStep(s) ==
    \/ AcceptStream(s) \/ AcceptFails(s)
    \/ ReadFrame(s) \/ ReadEnds(s)
    \/ RecordFrame(s) \/ EmitFrame(s) \/ ConsumerEnds(s)

-----------------------------------------------------------------------------
Next ==
    \/ \E p \in Peers, c \in Channels, big \in Sizes : Send(p, c, big)
    \/ \E h \in handlers : NotifyPeer(h)
    \/ ScanBacklog
    \/ \E p \in Peers : ResumePeer(p)
    \/ \E p \in Peers : TaskStep(p)
    \/ Shutdown \/ CloseTransport \/ Exit \/ Crash \/ Restart
    \/ \E p \in Peers : SenderPairing(p) \/ ReceiverPairing(p)
    \/ \E s \in Streams : Break(s) \/ LoseFrame(s) \/ StreamStep(s)
    \/ \E p \in Peers : ReceiverCrash(p)

Spec == Init /\ [][Next]_vars

\* The runtime polls every ready task and timer, the daemon is started again
\* after it stopped, and a receiver reads what has arrived.
Fairness ==
    /\ \A p \in Peers : WF_vars(TaskStep(p)) /\ WF_vars(ResumePeer(p))
    /\ WF_vars(\E h \in handlers : NotifyPeer(h))
    /\ WF_vars(ScanBacklog)
    /\ WF_vars(CloseTransport) /\ WF_vars(Exit) /\ WF_vars(Restart)
    /\ \A s \in Streams : WF_vars(StreamStep(s))

FairSpec == Spec /\ Fairness

-----------------------------------------------------------------------------
(* What the subsystem promises.                                            *)

MessageOf(r) == [ch |-> r.ch, seq |-> r.seq, body |-> r.body]
Addressed(p) == {MessageOf(r) : r \in {q \in AllRows : q.peer = p}}

\* What p stored or showed.
Received(p) == inbox[p] \cup Range(emitted[p])

\* A daemon stores and shows only what the sender enqueued for it, under the
\* channel, sequence number and payload it was enqueued with: sequence numbers
\* run over all peers of a channel, and a task drains only its peer's slice.
Integrity == \A p \in Peers : Received(p) \subseteq Addressed(p)

\* However often a message is written again (retries, restarts, a mark that
\* failed), the receiver shows it to its subscribers at most once.
AtMostOnce ==
    \A p \in Peers : \A i, j \in DOMAIN emitted[p] :
        emitted[p][i].ch = emitted[p][j].ch /\ emitted[p][i].seq = emitted[p][j].seq
            => i = j

\* What p received, is still to get, or was dropped on the way.
Accounted(p) == Received(p) \cup Transit(p) \cup lost[p]

\* The delivery contract: a row marked delivered was recorded by its receiver,
\* is still on its way, or was dropped by the transport after it was written.
\* It was neither skipped nor swallowed as the duplicate of another message.
NoSilentLoss ==
    \A r \in AllRows : r.delivered => MessageOf(r) \in Accounted(r.peer)

\* A task that went to sleep with nothing to do leaves no row behind: whatever
\* is pending has a notify on its way, so it need not wait for the timer.
NoLostWake ==
    \A p \in Peers :
        /\ phase = "up"
        /\ task[p].pc = "idle"
        /\ task[p].waker = "quiet"
        => \A r \in Pending(p) : <<p, r.body>> \in handlers

\* Without a step back of the clock, one stream carries the messages of its
\* channel in the order of their sequence numbers, each once.
StreamOrder ==
    \A s \in Streams :
        LET q == net[s].buf \o net[s].wire IN
        \A i, j \in DOMAIN q : i < j => q[i].seq < q[j].seq

\* README: "Per-(sender, channel) FIFO is preserved", as long as nothing has
\* failed and the clock has not been set back (after a reconnect the consumers
\* of the old and the new stream race).
FifoSteady ==
    faults = 0 =>
        \A p \in Peers : \A i, j \in DOMAIN emitted[p] :
            i < j /\ emitted[p][i].ch = emitted[p][j].ch
                => emitted[p][i].seq < emitted[p][j].seq

\* Once outbox_enqueue returned, its row stays, whatever happens to the
\* process; all that ever changes is that it gets marked delivered, once.
OutboxKept ==
    \A c \in Channels :
        /\ Len(outbox[c]) <= Len(outbox'[c])
        /\ \A i \in DOMAIN outbox[c] :
             \/ outbox'[c][i] = outbox[c][i]
             \/ outbox'[c][i] = [outbox[c][i] EXCEPT !.delivered = TRUE]

OutboxDurable == [][OutboxKept]_vars

\* A row that can be written: neither its own frame is over the limit nor that
\* of a row which its peer's drain has to write first.
Writable(r) == \A b \in AllRows :
                 b.big /\ b.peer = r.peer => b # r /\ ~Before(b, r)

\* "The delivery worker retries failed writes indefinitely", across restarts:
\* a row is written in the end, unless an oversized row blocks the queue or its
\* peer is no longer paired.
Retried ==
    \A c \in Channels, n \in 1 .. MaxMsgs :
        (n \in DOMAIN outbox[c] /\ Writable(outbox[c][n]))
            ~> (/\ n \in DOMAIN outbox[c]
                /\ \/ outbox[c][n].delivered
                   \/ outbox[c][n].peer \notin registry \cap tokens \cap admitted)

\* End to end: every accepted message that can be written reaches its
\* receiver's inbox or, the inbox failing, its subscribers; or the transport
\* lost it, or its peer is no longer paired.
Settles ==
    \A c \in Channels, n \in 1 .. MaxMsgs :
        (n \in DOMAIN outbox[c] /\ Writable(outbox[c][n]))
            ~> (/\ n \in DOMAIN outbox[c]
                /\ LET r == outbox[c][n] IN
                   \/ MessageOf(r) \in Received(r.peer) \cup lost[r.peer]
                   \/ r.peer \notin registry \cap tokens \cap admitted)

-----------------------------------------------------------------------------
(* The inductive invariant behind Integrity and NoSilentLoss.              *)

\* Rows are numbered by their places in their channel.
SeqIsPlace ==
    \A c \in Channels : \A i \in DOMAIN outbox[c] :
        outbox[c][i].seq = i /\ outbox[c][i].ch = c

\* Tasks hold, and streams carry, only messages addressed to their peer.
BatchAddressed ==
    \A p \in Peers : \A r \in task[p].batch : MessageOf(r) \in Addressed(p)

StreamsAddressed ==
    \A s \in Streams : InStream(s) \subseteq Addressed(PeerOf(s))

\* A row about to be marked has been written.
MarkAccounted ==
    \A p \in Peers :
        task[p].pc = "mark"
            => \A r \in CurrentRow(p) : MessageOf(r) \in Accounted(p)

\* Nothing is left in a stream whose receiving end is through with it.
EndsQuiet ==
    \A s \in Streams :
        /\ net[s].rx \in {"idle", "draining"}
            => net[s].conn = "cut" /\ net[s].wire = <<>>
        /\ net[s].rx = "idle" => net[s].buf = <<>> /\ net[s].hold = None

\* Whatever crosses from the outbox to the inboxes stays what it was: rows,
\* batches, frames and received messages agree at every moment, also while a
\* row is between its write and its mark.
DeliveryInv ==
    /\ SeqIsPlace
    /\ BatchAddressed
    /\ StreamsAddressed
    /\ EndsQuiet
    /\ Integrity
    /\ MarkAccounted
    /\ NoSilentLoss

\* A task that sleeps, or has learnt that it has nothing to do and is about to
\* sleep, with no wake queued.
Asleep(p) ==
    /\ task[p].waker = "quiet"
    /\ task[p].pc = "idle" \/ (task[p].pc = "row" /\ task[p].batch = {})

\* NoLostWake from the moment the empty answer of the query is on its way to
\* the task: what is enqueued meanwhile has its notify to come.
WakeInv ==
    \A p \in Peers : Asleep(p) =>
        \A r \in Pending(p) : <<p, r.body>> \in handlers

-----------------------------------------------------------------------------
(* The inductive invariants behind the order of messages.                  *)

\* Time stamps follow the numbers of a channel, and none is ahead of the clock.
StampsFollow ==
    \A c \in Channels : \A i, j \in DOMAIN outbox[c] :
        outbox[c][i].ts <= clock /\ (i < j => outbox[c][i].ts <= outbox[c][j].ts)

\* A batch is pending, and has the oldest pending rows of each of its channels.
BatchOldest ==
    \A p \in Peers :
        /\ task[p].batch \subseteq Pending(p)
        /\ \A r \in task[p].batch, q \in Pending(p) :
             q.ch = r.ch /\ q.seq < r.seq => q \in task[p].batch

\* The task of p has got past number n of channel c: what it has still to write
\* is newer, unless it is the very message that was written and is to be marked.
Passed(p, c, n) ==
    \A r \in Pending(p) : r.ch = c =>
        \/ n < r.seq
        \/ n = r.seq /\ task[p].pc = "mark" /\ r \in CurrentRow(p)

\* The frames of a stream that are on their way to the consumer.
Frames(s) == Range(net[s].buf) \cup Range(net[s].wire)

\* What is in a stream that its task holds has been passed.
WrittenOlder ==
    \A s \in Streams : Held(s) =>
        \A f \in Frames(s) : Passed(PeerOf(s), ChanOf(s), f.seq)

\* From the outbox to the end of a stream, order is never lost.
OrderInv == StampsFollow /\ BatchOldest /\ WrittenOlder /\ StreamOrder

\* Nothing has gone wrong: the daemons are up and paired, and every task has
\* kept the streams it has opened.
Steady ==
    /\ phase = "up" /\ registry = Paired /\ tokens = Paired /\ admitted = Paired
    /\ \A r \in AllRows : r.peer \in Paired /\ ~r.big
    /\ \A p \in Peers :
         /\ task[p].pc \notin {"backoff", "exit"} /\ ~task[p].stop
         /\ task[p].waker = "none" => task[p].pc = "none" /\ task[p].streams = NoStreams
    /\ \A s \in Streams :
         IF Held(s) THEN net[s].conn = "up" /\ PeerOf(s) \in Paired
                    ELSE net[s].rx = "idle"

\* A number of stream s that is not in it any more: shown, or about to be.
Past(s, n) ==
    /\ Passed(PeerOf(s), ChanOf(s), n)
    /\ \A f \in Frames(s) : n < f.seq

ShownInOrder ==
    \A s \in Streams : Held(s) =>
        /\ net[s].hold # None => Past(s, net[s].hold.seq)
        /\ \A m \in Range(emitted[PeerOf(s)]) : m.ch = ChanOf(s) =>
             Past(s, m.seq) /\ (net[s].hold # None => m.seq < net[s].hold.seq)

ShownPassed ==
    \A p \in Peers : \A m \in Range(emitted[p]) : Passed(p, m.ch, m.seq)

\* Until something fails, what is shown is older than all that is still to come.
FifoInv == faults = 0 => Steady /\ ShownInOrder /\ ShownPassed /\ FifoSteady

=============================================================================
