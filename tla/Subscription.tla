---------------------------- MODULE Subscription ----------------------------
(***************************************************************************)
(* `wt recv` and `wt chat`: one RecvSubscribe connection between the inbox *)
(* that the inbound streams fill, the daemon's handler and the command     *)
(* that prints (wt-daemon/src/ipc.rs, state.rs, wt-core/src/store.rs,      *)
(* wt-cli/src/main.rs).  Subscriptions change nothing that another one     *)
(* sees, so one is enough.                                                 *)
(*                                                                         *)
(* A message is its place in the order of arrival.  Its time stamp is the  *)
(* sender's: it need not grow.                                             *)
(***************************************************************************)
EXTENDS Integers, Sequences, FiniteSets, Functions

CONSTANTS
    Nodes,        \* peers that send
    Channels,
    Any,          \* no filter
    Requests,     \* the command lines: cmd, by, peer, chan, follow, since
    Stamps,       \* senders' time stamps
    Limit,        \* the LIMIT of inbox_backlog, 10_000
    BcastCap,     \* capacity of recv_bcast
    MaxMsgs,      \* bound: messages
    MaxFaults     \* bound: failed store calls

ASSUME SubscriptionAssumption ==
    /\ Any \notin Nodes \cup Channels
    /\ Requests \subseteq [cmd : {"recv", "chat"}, by : {"all", "id", "name"},
                           peer : Nodes, chan : Channels \cup {Any},
                           follow : BOOLEAN, since : Nat]
    /\ Stamps \subseteq Nat \ {0}
    /\ Limit \in Nat \ {0} /\ BcastCap \in Nat \ {0}
    /\ MaxMsgs \in Nat /\ MaxFaults \in Nat

VARIABLES
    arrived,      \* the messages, in the order of their arrival
    inbox,        \* those that are stored
    pub,          \* those that are to be sent on the broadcast
    req,          \* the request of the connection
    sub,          \* RecvSubscribe
    conn,         \* events written to the socket and not yet read; 0 is
                  \* RecvBacklogEnd
    cli,          \* the command: is it reading?
    printed,      \* messages it has printed
    faults

vars == <<arrived, inbox, pub, req, sub, conn, cli, printed, faults>>

-----------------------------------------------------------------------------
Msgs == 1 .. Len(arrived)
Msg == [from : Nodes, chan : Channels, ts : Stamps]

SubPC == {"off", "resolve", "subscribe", "query", "backlog", "tail", "ended"}

\* before (messages published when the handler subscribed) and cut (messages
\* beyond the limit of its query) are there for the properties.
TypeOK ==
    /\ arrived \in Seq(Msg)
    /\ inbox \subseteq Msgs /\ pub \subseteq Msgs
    /\ req \in Requests
    /\ sub \in [pc : SubPC, want : Nodes \cup {Any}, todo : Seq(Msgs),
                rx : Seq(Msgs), lagged : BOOLEAN, before : SUBSET Msgs,
                cut : SUBSET Msgs]
    /\ conn \in Seq({0} \cup Msgs)
    /\ cli \in {"off", "reading", "returned", "interrupted"}
    /\ printed \in Seq(Msgs)
    /\ faults \in 0 .. MaxFaults

Init ==
    /\ arrived = << >> /\ inbox = {} /\ pub = {}
    /\ req \in Requests
    /\ sub = [pc |-> "off", want |-> Any, todo |-> << >>, rx |-> << >>,
              lagged |-> FALSE, before |-> {}, cut |-> {}]
    /\ conn = << >> /\ cli = "off" /\ printed = << >>
    /\ faults = 0

Fault == faults < MaxFaults /\ faults' = faults + 1

-----------------------------------------------------------------------------
(* Arrivals.                                                               *)

\* Mutant: the next number is published.
ArriveOffByOne(m) ==
    /\ Len(arrived) < MaxMsgs
    /\ arrived' = Append(arrived, m)
    /\ inbox' = inbox \cup {Len(arrived) + 1}
    /\ pub' = pub \cup {Len(arrived) + 2}
    /\ UNCHANGED <<req, sub, conn, cli, printed, faults>>

\* The consumer of an inbound stream: inbox_record, whose failure does not
\* keep the message from being shown ...
Arrive(m) ==
    /\ Len(arrived) < MaxMsgs
    /\ arrived' = Append(arrived, m)
    /\ \/ inbox' = inbox \cup {Len(arrived) + 1} /\ UNCHANGED faults
       \/ Fault /\ UNCHANGED inbox
    /\ pub' = pub \cup {Len(arrived) + 1}
    /\ UNCHANGED <<req, sub, conn, cli, printed>>

\* Mutant: it is sent twice.
PublishTwice(m) ==
    /\ m \in pub
    /\ pub' = pub \ {m}
    /\ sub' = IF sub.pc \in {"query", "backlog", "tail"} /\ Len(sub.rx) + 2 <= BcastCap
              THEN [sub EXCEPT !.rx = @ \o <<m, m>>]
              ELSE sub
    /\ UNCHANGED <<arrived, inbox, req, conn, cli, printed, faults>>

\* ... and the broadcast.  Streams overtake each other here.
Publish(m) ==
    /\ m \in pub
    /\ pub' = pub \ {m}
    /\ sub' = IF sub.pc \notin {"query", "backlog", "tail"} THEN sub
              ELSE IF Len(sub.rx) < BcastCap
              THEN [sub EXCEPT !.rx = Append(@, m)]
              ELSE [sub EXCEPT !.rx = Append(Tail(@), m), !.lagged = TRUE]
    /\ UNCHANGED <<arrived, inbox, req, conn, cli, printed, faults>>

-----------------------------------------------------------------------------
(* The command and the handler.                                            *)

\* cmd_recv, cmd_chat: connect and send the request.
Request ==
    /\ cli = "off"
    /\ cli' = "reading"
    /\ sub' = [sub EXCEPT !.pc = "resolve"]
    /\ UNCHANGED <<arrived, inbox, pub, req, conn, printed, faults>>

\* The peer of the request.  A name that is not in the table peers now, or a
\* look-up that fails, means every peer.
Resolve ==
    /\ sub.pc = "resolve"
    /\ \E want \in CASE req.by = "all" -> {Any}
                     [] req.by = "id" -> {req.peer}
                     [] req.by = "name" -> {req.peer, Any} :
         sub' = [sub EXCEPT !.pc = "subscribe", !.want = want]
    /\ UNCHANGED <<arrived, inbox, pub, req, conn, cli, printed, faults>>

\* The broadcast first ...
Subscribe ==
    /\ sub.pc = "subscribe"
    /\ sub' = [sub EXCEPT !.pc = "query", !.before = Msgs \ pub]
    /\ UNCHANGED <<arrived, inbox, pub, req, conn, cli, printed, faults>>

\* Mutant: the newest first.
SortedDown(q) ==
    /\ \A i, j \in DOMAIN q : i < j => q[i] # q[j]
    /\ \A i, j \in DOMAIN q : i < j => arrived[q[i]].ts >= arrived[q[j]].ts

\* The filter of the query and of the live tail.
Passes(m, want) ==
    /\ want \in {Any, arrived[m].from}
    /\ req.chan \in {Any, arrived[m].chan}

\* inbox_backlog: what is newer than since, in the order of the time stamps,
\* and of it the oldest.
Rows == {m \in inbox : Passes(m, sub.want) /\ arrived[m].ts > req.since}
Sorted(q) == /\ \A i, j \in DOMAIN q : i < j => q[i] # q[j]
             /\ \A i, j \in DOMAIN q : i < j => arrived[q[i]].ts <= arrived[q[j]].ts
Least(a, b) == IF a < b THEN a ELSE b

\* ... then the backlog.
Query ==
    /\ sub.pc = "query"
    /\ \E q \in [1 .. Cardinality(Rows) -> Rows] :
         /\ Sorted(q)
         /\ LET n == Least(Len(q), Limit)
            IN  sub' = [sub EXCEPT
                          !.pc = "backlog",
                          !.todo = SubSeq(q, 1, n),
                          !.cut = {q[i] : i \in n + 1 .. Len(q)}]
    /\ UNCHANGED <<arrived, inbox, pub, req, conn, cli, printed, faults>>

\* A failed query ends the connection.
QueryFails ==
    /\ sub.pc = "query"
    /\ Fault
    /\ sub' = [sub EXCEPT !.pc = "ended"]
    /\ UNCHANGED <<arrived, inbox, pub, req, conn, cli, printed>>

\* A row is written.
WriteRow ==
    /\ sub.pc = "backlog"
    /\ sub.todo # << >>
    /\ cli = "reading"
    /\ conn' = Append(conn, Head(sub.todo))
    /\ sub' = [sub EXCEPT !.todo = Tail(@)]
    /\ UNCHANGED <<arrived, inbox, pub, req, cli, printed, faults>>

\* Mutant: the tail begins with what comes after the backlog.
BacklogEndFresh ==
    /\ sub.pc = "backlog"
    /\ sub.todo = << >>
    /\ cli = "reading"
    /\ conn' = Append(conn, 0)
    /\ sub' = [sub EXCEPT !.pc = IF req.follow THEN "tail" ELSE "ended",
                          !.rx = << >>]
    /\ UNCHANGED <<arrived, inbox, pub, req, cli, printed, faults>>

\* RecvBacklogEnd, and the end of the request unless it follows.
BacklogEnd ==
    /\ sub.pc = "backlog"
    /\ sub.todo = << >>
    /\ cli = "reading"
    /\ conn' = Append(conn, 0)
    /\ sub' = [sub EXCEPT !.pc = IF req.follow THEN "tail" ELSE "ended"]
    /\ UNCHANGED <<arrived, inbox, pub, req, cli, printed, faults>>

\* The live tail: other messages are skipped.
TailEvent ==
    /\ sub.pc = "tail"
    /\ sub.rx # << >>
    /\ IF Passes(Head(sub.rx), sub.want)
       THEN cli = "reading" /\ conn' = Append(conn, Head(sub.rx))
       ELSE UNCHANGED conn
    /\ sub' = [sub EXCEPT !.rx = Tail(@)]
    /\ UNCHANGED <<arrived, inbox, pub, req, cli, printed, faults>>

\* The command has gone, and the socket with it: the next write fails.
WriteFails ==
    /\ cli \in {"returned", "interrupted"}
    /\ \/ sub.pc = "backlog"
       \/ /\ sub.pc = "tail" /\ sub.rx # << >>
          /\ Passes(Head(sub.rx), sub.want)
    /\ sub' = [sub EXCEPT !.pc = "ended"]
    /\ UNCHANGED <<arrived, inbox, pub, req, conn, cli, printed, faults>>

Interrupt ==
    /\ cli = "reading"
    /\ cli' = "interrupted"
    /\ UNCHANGED <<arrived, inbox, pub, req, sub, conn, printed, faults>>

\* cmd_recv prints messages and stops at RecvBacklogEnd if it does not follow.
ReadRecv ==
    /\ req.cmd = "recv"
    /\ cli = "reading"
    /\ conn # << >>
    /\ conn' = Tail(conn)
    /\ IF Head(conn) # 0
       THEN printed' = Append(printed, Head(conn)) /\ UNCHANGED cli
       ELSE /\ cli' = IF req.follow THEN cli ELSE "returned"
            /\ UNCHANGED printed
    /\ UNCHANGED <<arrived, inbox, pub, req, sub, faults>>

\* The task that reads for cmd_chat returns at any event but a message.
ReadChat ==
    /\ req.cmd = "chat"
    /\ cli = "reading"
    /\ conn # << >>
    /\ conn' = Tail(conn)
    /\ IF Head(conn) # 0
       THEN printed' = Append(printed, Head(conn)) /\ UNCHANGED cli
       ELSE cli' = "returned" /\ UNCHANGED printed
    /\ UNCHANGED <<arrived, inbox, pub, req, sub, faults>>

Next ==
    \/ \E m \in Msg : Arrive(m)
    \/ \E m \in pub : Publish(m)
    \/ Request \/ Resolve \/ Subscribe \/ Query \/ QueryFails \/ WriteRow
    \/ BacklogEnd \/ TailEvent \/ WriteFails \/ Interrupt \/ ReadRecv \/ ReadChat

Spec == Init /\ [][Next]_vars

-----------------------------------------------------------------------------
(* Properties.                                                             *)

Count(m, q) == Cardinality({i \in DOMAIN q : q[i] = m})

\* The seam has no gap: a stored message that the request asks for is in the
\* backlog still to be written, in the subscription, about to be published, on
\* the socket or printed, unless the query's limit has cut it off, the
\* broadcast has dropped events, or it was on the broadcast before the
\* subscription and is not newer than since (RecvSubscribe subscribes first).
SeamComplete ==
    sub.pc \in {"backlog", "tail"} /\ ~sub.lagged =>
      \A m \in inbox :
        \/ ~Passes(m, sub.want)
        \/ m \in sub.before /\ arrived[m].ts <= req.since
        \/ m \in pub \cup sub.cut \cup Range(sub.todo) \cup Range(sub.rx)
                 \cup Range(conn) \cup Range(printed)

\* The comment in RecvSubscribe: a message is shown once more at worst, and
\* only if it came in the window between the subscription and the backlog.
OneDuplicate ==
    \A m \in Msgs :
      Count(m, printed \o conn) <= IF m \in sub.before THEN 1 ELSE 2

\* `wt recv` without -f drains the inbox: when it returns by itself it has
\* printed, in the order of their time stamps, all stored messages that its
\* request asks for and that had been published when it subscribed, but for
\* those beyond the limit of the query, which are the newest.
Drained ==
    req.cmd = "recv" /\ ~req.follow /\ cli = "returned" =>
      /\ \A i, j \in DOMAIN printed :
           i < j => arrived[printed[i]].ts <= arrived[printed[j]].ts
      /\ \A m \in inbox \cap sub.before :
           Passes(m, sub.want) /\ arrived[m].ts > req.since =>
             m \in Range(printed) \cup sub.cut
      /\ \A m \in Range(printed), c \in sub.cut : arrived[m].ts <= arrived[c].ts

\* README, "wt chat <peer>": live only.  While the daemon follows for a chat,
\* the chat reads what it gets.
ChatFollows == req.cmd = "chat" /\ sub.pc = "tail" => cli # "returned"

-----------------------------------------------------------------------------
(* The inductive invariants behind the properties.                         *)

Early == {"off", "resolve", "subscribe", "query"}

\* Nothing is sent before the query, and nothing received before Subscribe.
NothingEarly ==
    /\ sub.pc \in Early => /\ sub.todo = << >> /\ sub.cut = {}
                            /\ conn = << >> /\ printed = << >>
    /\ sub.pc \in Early \ {"query"} => sub.rx = << >> /\ sub.before = {}
    /\ sub.pc = "tail" => sub.todo = << >>
    /\ cli = "off" => sub.pc = "off"

\* Between the subscription and the query no message gets out of sight.
SeamOpen ==
    sub.pc = "query" /\ ~sub.lagged =>
      Msgs \subseteq sub.before \cup pub \cup Range(sub.rx)

\* The broadcast brings a message once, and none that was on it before.
BroadcastOnce ==
    /\ \A i, j \in DOMAIN sub.rx : i < j => sub.rx[i] # sub.rx[j]
    /\ \A i, j \in DOMAIN sub.todo : i < j => sub.todo[i] # sub.todo[j]
    /\ pub \cap Range(sub.rx) = {}
    /\ sub.before \cap (pub \cup Range(sub.rx)) = {}

\* The backlog brings a message once; what the broadcast has still to bring was
\* shown at most by the backlog.
ShownOnce ==
    \A m \in Msgs : LET n == Count(m, printed \o conn) IN
      /\ m \in Range(sub.todo) => n = 0
      /\ sub.pc = "backlog" => n <= 1
      /\ m \in pub \cup Range(sub.rx) => n <= 1

\* Of messages in a and b, those in a have no later stamps.
Below(a, b) == \A x \in a \ {0}, y \in b \ {0} : arrived[x].ts <= arrived[y].ts
Ascending(q) == \A i, j \in DOMAIN q : i < j => Below({q[i]}, {q[j]})

\* What a request without -f has printed, has on the socket, has still to write
\* and has cut off is one ascending sequence, and RecvBacklogEnd is its end.
DrainInOrder ==
    ~req.follow =>
      /\ Ascending(printed) /\ Ascending(conn) /\ Ascending(sub.todo)
      /\ Below(Range(printed), Range(conn))
      /\ Below(Range(printed) \cup Range(conn), Range(sub.todo))
      /\ Below(Range(printed) \cup Range(conn) \cup Range(sub.todo), sub.cut)

DrainWhole ==
    ~req.follow =>
      /\ sub.pc # "tail"
      /\ sub.pc \in Early \cup {"backlog"} =>
           0 \notin Range(conn) /\ cli # "returned"
      /\ 0 \in Range(conn) => sub.todo = << >>
      /\ \A i \in DOMAIN conn : conn[i] = 0 => i = Len(conn)
      /\ cli = "returned" => conn = << >> /\ sub.todo = << >>
      /\ sub.pc = "backlog" \/ 0 \in Range(conn) \/ cli = "returned" =>
           \A m \in inbox \cap sub.before :
             Passes(m, sub.want) /\ arrived[m].ts > req.since =>
               m \in Range(printed) \cup Range(conn) \cup Range(sub.todo)
                        \cup sub.cut

\* The inbox, the broadcast, the connection and the screen agree at every step.
SubInv == /\ NothingEarly /\ SeamOpen /\ SeamComplete
          /\ BroadcastOnce /\ ShownOnce /\ OneDuplicate
          /\ DrainInOrder /\ DrainWhole

=============================================================================
