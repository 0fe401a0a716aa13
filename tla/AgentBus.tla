------------------------------ MODULE AgentBus ------------------------------
(***************************************************************************)
(* The local message bus of one session and the two kinds of readers that  *)
(* take messages off it: the supervisor, which feeds turn inputs to the    *)
(* harness, and AgentRecv connections, which write messages to a `wt recv` *)
(* (wt-core/src/store.rs, wt-daemon/src/ipc.rs, state.rs, supervisor.rs,   *)
(* web.rs, wt-core/src/harness.rs).                                        *)
(*                                                                         *)
(* The table agent_messages is the truth; the broadcast is a second copy   *)
(* with a bounded buffer per subscriber.  An action is the code between    *)
(* two awaits.  How a session starts and ends is in Lifecycle: here it has *)
(* its rows, and its harness is about to be launched.                      *)
(***************************************************************************)
EXTENDS Integers, Sequences, FiniteSets

CONSTANTS
    Readers,      \* AgentRecv connections, each for one request
    MaxPerSession,\* MAX_MSGS_PER_SESSION
    BcastCap,     \* capacity of agent_bcast
    Rooms,        \* rows of this session that may fit in the LIMIT of a backlog,
                  \* which a recv without a session shares with the others
    RecvModes,    \* the AgentRecv requests: agent, consume, follow
    Prompts,      \* does the session open with a prompt?
    Traces,       \* was it spawned with --trace?
    Idles,        \* was it spawned with --idle-timeout?
    FaultKinds,   \* store calls that fail in this model
    MaxMsgs,      \* bound: messages on the bus before the clients stop sending
    MaxFaults     \* bound: faults

ASSUME AgentBusAssumption ==
    /\ MaxPerSession \in Nat \ {0}
    /\ BcastCap \in Nat \ {0}
    /\ Rooms \subseteq Nat
    /\ RecvModes \subseteq [agent : {"prime", "child"}, consume : BOOLEAN,
                            follow : BOOLEAN]
    /\ Prompts \subseteq BOOLEAN /\ Traces \subseteq BOOLEAN
    /\ Idles \subseteq BOOLEAN
    /\ MaxMsgs \in Nat /\ MaxFaults \in Nat

VARIABLES
    \* On disk.
    rows,         \* seq -> the row of agent_messages
    status,       \* of the child's row in agents
    session,      \* status of the session's row
    \* In the daemon.
    pub,          \* messages stored and not yet sent on the broadcast
    sup,          \* the supervisor task
    wake,         \* has its subscription something to receive?
    rd,           \* reader -> where AgentRecv is
    \* The harness.
    fed,          \* turns written to its stdin, in order; 0 is the prompt
    finished,     \* turns it has finished
    reported,     \* turns whose result the supervisor has read
    alive,        \* the process
    \* History.
    sent,         \* messages put on the bus
    prompt,       \* the message that records the opening prompt, or 0
    missed,       \* messages that were taken but whose mark failed
    told,         \* messages written to some reader or to the harness
    outs,         \* turn outputs that the supervisor put on the bus
    unheard,      \* messages whose sender was gone before it could send them
    faults

disk == <<rows, status, session>>
harness == <<fed, finished, reported, alive>>
history == <<prompt, missed, told, outs, unheard>>
vars == <<rows, status, session, pub, sup, wake, rd, fed, finished, reported,
          alive, sent, prompt, missed, told, outs, unheard, faults>>

-----------------------------------------------------------------------------
Agents == {"prime", "child"}

\* AgentMsgKind; note stands for turn_output, user, control and trace, which
\* nobody in the daemon tells apart.
Kinds == {"turn_input", "note"}
Row == [to : Agents, kind : Kinds, consumed : BOOLEAN]

SupPC == {"launch", "record", "recorded", "drain", "feed", "mark", "running",
          "idle", "select", "sent", "out", "await", "exit", "tell", "forget",
          "ended"}
RdPC == {"off", "query", "backlog", "mark", "tail", "tailmark", "done"}

TypeOK ==
    /\ DOMAIN rows \subseteq Nat \ {0}
    /\ \A s \in DOMAIN rows : rows[s] \in Row
    /\ status \in {"starting", "running", "awaiting_input", "exited"}
    /\ session \in {"active", "closed"}
    /\ pub \subseteq [seq : Nat, to : Agents]
    /\ sup \in [pc : SupPC, cur : Nat, todo : SUBSET Nat,
                poll : BOOLEAN, active : BOOLEAN, notified : BOOLEAN,
                trace : BOOLEAN, idle : BOOLEAN]
    /\ wake \in BOOLEAN
    /\ rd \in [Readers ->
                 [pc : RdPC, agent : Agents, consume : BOOLEAN,
                  follow : BOOLEAN, todo : SUBSET Nat,
                  rx : Seq([seq : Nat, to : Agents]), cur : Nat,
                  shown : SUBSET Nat, lagged : BOOLEAN,
                  cut : SUBSET Nat]]
    /\ fed \in Seq(Nat)
    /\ finished \in Nat /\ reported \in Nat
    /\ alive \in BOOLEAN
    /\ sent \in Nat
    /\ prompt \in Nat
    /\ missed \subseteq Nat
    /\ told \subseteq Nat
    /\ outs \in Nat
    /\ unheard \subseteq Nat
    /\ faults \in 0 .. MaxFaults

NoReader == [pc |-> "off", agent |-> "prime", consume |-> TRUE,
             follow |-> FALSE, todo |-> {}, rx |-> <<>>, cur |-> 0,
             shown |-> {}, lagged |-> FALSE, cut |-> {}]

Init ==
    /\ rows = << >>
    /\ status = "starting"
    /\ session = "active"
    /\ pub = {}
    /\ \E t \in Traces, i \in Idles :
         sup = [pc |-> "launch", cur |-> 0, todo |-> {}, poll |-> FALSE,
                active |-> FALSE, notified |-> FALSE, trace |-> t,
                idle |-> i]
    /\ wake = FALSE
    /\ rd = [r \in Readers |-> NoReader]
    /\ fed = << >> /\ finished = 0 /\ reported = 0 /\ alive = FALSE
    /\ sent = 0 /\ prompt = 0 /\ missed = {} /\ told = {} /\ outs = 0
    /\ unheard = {}
    /\ faults = 0

Gone == [NoReader EXCEPT !.pc = "done"]

\* A store call of kind k fails now.
Fault(k) ==
    /\ k \in FaultKinds
    /\ faults < MaxFaults
    /\ faults' = faults + 1

-----------------------------------------------------------------------------
(* The table.                                                              *)

\* Mutant: the cap is one short.
KeptShort(n) == {s \in DOMAIN rows \cup {n} : s > n - MaxPerSession + 1}

\* COALESCE(MAX(seq), 0) + 1.
NextSeq ==
    IF DOMAIN rows = {} THEN 1
    ELSE 1 + (CHOOSE m \in DOMAIN rows : \A s \in DOMAIN rows : s <= m)

\* The rows that the DELETE of the same transaction leaves, read or not.
Kept(n) == {s \in DOMAIN rows \cup {n} : s > n - MaxPerSession}

\* agent_msg_enqueue.
Insert(to, kind) ==
    LET n == NextSeq
    IN  /\ sent' = sent + 1
        /\ rows' = [s \in Kept(n) |->
                      IF s = n
                      THEN [to |-> to, kind |-> kind, consumed |-> FALSE]
                      ELSE rows[s]]

\* bus_enqueue up to its await: the row, and the event that is still to be sent.
Enqueue(to, kind) ==
    /\ Insert(to, kind)
    /\ pub' = pub \cup {[seq |-> NextSeq, to |-> to]}

\* agent_msg_mark_consumed: nothing happens to a row that is gone.
MarkConsumed(s) ==
    rows' = [t \in DOMAIN rows |->
               IF t = s THEN [rows[t] EXCEPT !.consumed = TRUE] ELSE rows[t]]

\* A caller that ignores the result of agent_msg_mark_consumed.
TryMark(s) ==
    \/ MarkConsumed(s) /\ UNCHANGED <<missed, faults>>
    \/ Fault("mark") /\ missed' = missed \cup {s} /\ UNCHANGED rows

\* agent_msg_pending.
Pending == {s \in DOMAIN rows :
              /\ rows[s].to = "child"
              /\ rows[s].kind = "turn_input"
              /\ ~rows[s].consumed}

\* agent_msg_backlog for an agent.  A view without consume may start later
\* (--since).
Backlog(a, consume, from) ==
    {s \in DOMAIN rows :
       /\ rows[s].to = a
       /\ IF consume THEN ~rows[s].consumed ELSE s > from}

-----------------------------------------------------------------------------
(* Writers.                                                                *)

\* AgentSend: to the other end of the session, whatever the session's status.
AgentSend(me, kind) ==
    /\ sent < MaxMsgs
    /\ Enqueue(IF me = "prime" THEN "child" ELSE "prime", kind)
    /\ UNCHANGED <<status, session, sup, wake, rd, harness, history, faults>>

\* A browser that hangs up takes its request with it, and the await that it is
\* in may be the one of bus_enqueue: the row is stored, its event never sent.
HangUp(kind) ==
    /\ sent < MaxMsgs
    /\ Fault("hangup")
    /\ Insert("child", kind)
    /\ unheard' = unheard \cup {NextSeq}
    /\ UNCHANGED <<status, session, pub, sup, wake, rd, harness, prompt, missed,
                   told, outs>>

\* The web gateway's send_message acts as the prime.
WebSend(kind) == AgentSend("prime", kind) \/ HangUp(kind)

\* broadcast_message: every session that is active.
WebBroadcast(kind) == session = "active" /\ WebSend(kind)

\* A subscription takes an event; a full one drops its oldest (Lagged).
Receive(q, e) == IF Len(q) < BcastCap THEN Append(q, e) ELSE Append(Tail(q), e)

\* The second half of bus_enqueue.  Two writers may overtake each other here.
\* The subscription of a reader that does not follow is never read.
Publish(e) ==
    /\ e \in pub
    /\ pub' = pub \ {e}
    /\ wake' = (sup.pc \notin {"launch", "record", "recorded", "ended"} \/ wake)
    /\ rd' = [r \in Readers |->
                IF rd[r].pc \in {"off", "done"} \/ ~rd[r].follow THEN rd[r]
                ELSE [rd[r] EXCEPT !.rx = Receive(@, e),
                                   !.lagged = @ \/ Len(rd[r].rx) = BcastCap]]
    /\ UNCHANGED <<disk, sup, harness, sent, history, faults>>

-----------------------------------------------------------------------------
(* AgentRecv.                                                              *)

\* Subscribe first ...
Subscribe(r, m) ==
    /\ rd[r].pc = "off"
    /\ rd' = [rd EXCEPT ![r] =
                [NoReader EXCEPT !.pc = "query", !.agent = m.agent,
                                 !.consume = m.consume, !.follow = m.follow]]
    /\ UNCHANGED <<disk, pub, sup, wake, harness, sent, history, faults>>

\* Mutant: the backlog is marked as it is read.
QueryConsuming(r) ==
    /\ rd[r].pc = "query"
    /\ LET q == Backlog(rd[r].agent, rd[r].consume, 0)
       IN  /\ rd' = [rd EXCEPT ![r].pc = "backlog", ![r].todo = q]
           /\ rows' = [s \in DOMAIN rows |->
                         [rows[s] EXCEPT !.consumed = @ \/ s \in q]]
    /\ UNCHANGED <<status, session, pub, sup, wake, harness, sent, history,
                   faults>>

\* The rows that a LIMIT leaves of a backlog: the oldest by wall clock, any.
Limited(b, q) ==
    \E room \in Rooms :
      Cardinality(q) = IF Cardinality(b) <= room THEN Cardinality(b) ELSE room

\* ... then read the backlog.
Query(r) ==
    /\ rd[r].pc = "query"
    /\ \E from \in {0} \cup DOMAIN rows :
         LET b == Backlog(rd[r].agent, rd[r].consume, from)
         IN  \E q \in SUBSET b :
               /\ Limited(b, q)
               /\ rd' = [rd EXCEPT ![r].pc = "backlog", ![r].todo = q,
                                   ![r].cut = b \ q]
    /\ UNCHANGED <<disk, pub, sup, wake, harness, sent, history, faults>>

\* One row is written to the client.  The order is by wall clock, which may
\* step: any.
WriteRow(r) ==
    /\ rd[r].pc = "backlog"
    /\ \E s \in rd[r].todo :
         /\ rd' = [rd EXCEPT ![r].pc = IF rd[r].consume THEN "mark" ELSE @,
                             ![r].todo = @ \ {s},
                             ![r].cur = IF rd[r].consume THEN s ELSE 0,
                             ![r].shown = @ \cup {s}]
         /\ told' = told \cup {s}
    /\ UNCHANGED <<disk, pub, sup, wake, harness, sent, prompt, missed, outs,
                   unheard, faults>>

\* Mutant: the live tail is subscribed to after the backlog.
SubscribeAtEnd(r) ==
    /\ rd[r].pc = "backlog"
    /\ rd[r].todo = {}
    /\ rd' = IF rd[r].follow
             THEN [rd EXCEPT ![r].pc = "tail", ![r].rx = << >>]
             ELSE [rd EXCEPT ![r] = Gone]
    /\ UNCHANGED <<disk, pub, sup, wake, harness, sent, history, faults>>

\* AgentBacklogEnd, and the end of the request unless it follows.
BacklogEnd(r) ==
    /\ rd[r].pc = "backlog"
    /\ rd[r].todo = {}
    /\ rd' = IF rd[r].follow THEN [rd EXCEPT ![r].pc = "tail"]
             ELSE [rd EXCEPT ![r] = Gone]
    /\ UNCHANGED <<disk, pub, sup, wake, harness, sent, history, faults>>

\* The live tail: an event for this agent is written, any other skipped.
TailEvent(r) ==
    /\ rd[r].pc = "tail"
    /\ rd[r].rx # << >>
    /\ LET e == Head(rd[r].rx)
       IN  IF e.to = rd[r].agent
           THEN /\ rd' = [rd EXCEPT
                            ![r].pc = IF rd[r].consume THEN "tailmark" ELSE @,
                            ![r].rx = Tail(@),
                            ![r].cur = IF rd[r].consume THEN e.seq ELSE 0,
                            ![r].shown = @ \cup {e.seq}]
                /\ told' = told \cup {e.seq}
           ELSE /\ rd' = [rd EXCEPT ![r].rx = Tail(@)]
                /\ UNCHANGED told
    /\ UNCHANGED <<disk, pub, sup, wake, harness, sent, prompt, missed, outs,
                   unheard, faults>>

\* What was written is marked; a failure is ignored.
MarkRead(r) ==
    /\ rd[r].pc \in {"mark", "tailmark"}
    /\ TryMark(rd[r].cur)
    /\ rd' = [rd EXCEPT ![r].pc = IF @ = "mark" THEN "backlog" ELSE "tail",
                        ![r].cur = 0]
    /\ UNCHANGED <<status, session, pub, sup, wake, harness, sent, prompt,
                   told, outs, unheard>>

\* The client has gone: the next write fails and the connection ends.
Disconnect(r) ==
    /\ rd[r].pc \in {"backlog", "tail"}
    /\ rd' = [rd EXCEPT ![r] = Gone]
    /\ UNCHANGED <<disk, pub, sup, wake, harness, sent, history, faults>>

-----------------------------------------------------------------------------
(* The supervisor.                                                         *)

End ==
    /\ sup' = [sup EXCEPT !.pc = "ended", !.cur = 0, !.todo = {}, !.poll = FALSE,
                          !.active = FALSE, !.notified = FALSE]
    /\ wake' = FALSE
    /\ alive' = FALSE
    /\ fed' = << >> /\ finished' = 0 /\ reported' = 0 /\ outs' = 0
    /\ UNCHANGED <<prompt, missed, told>>

To(pc) == sup' = [sup EXCEPT !.pc = pc, !.cur = 0]

\* The message in hand has been sent: bus_enqueue returns.
Published == \A e \in pub : e.seq # sup.cur

\* start: Harness::spawn, which sends the prompt as turn 1, and the status.
Launch ==
    /\ sup.pc = "launch"
    /\ \E p \in Prompts :
         /\ fed' = IF p THEN <<0>> ELSE << >>
         /\ sup' = [sup EXCEPT !.pc = IF p THEN "record" ELSE "drain",
                               !.active = p]
    /\ alive' = TRUE
    /\ status' = "running"
    /\ UNCHANGED <<rows, session, pub, wake, rd, finished, reported, sent,
                   history, faults>>

\* The prompt is put on the bus, for observers ...
Record ==
    /\ sup.pc = "record"
    /\ \/ /\ Enqueue("child", "turn_input")
          /\ sup' = [sup EXCEPT !.pc = "recorded", !.cur = NextSeq]
          /\ prompt' = NextSeq
          /\ told' = told \cup {NextSeq}
          /\ UNCHANGED faults
       \/ /\ Fault("enqueue")
          /\ To("drain")
          /\ UNCHANGED <<rows, pub, sent, prompt, told>>
    /\ UNCHANGED <<status, session, wake, rd, harness, missed, outs, unheard>>

\* Mutant: the record of the prompt stays unread.
RecordedUnread ==
    /\ sup.pc = "recorded"
    /\ Published
    /\ To("drain")
    /\ UNCHANGED <<disk, pub, wake, rd, harness, sent, history, faults>>

\* ... and marked, so that it is not fed a second time.
Recorded ==
    /\ sup.pc = "recorded"
    /\ Published
    /\ TryMark(sup.cur)
    /\ To("drain")
    /\ UNCHANGED <<status, session, pub, wake, rd, harness, sent, prompt,
                   told, outs, unheard>>

\* Mutant: a turn waits until the harness has answered the one before.
DrainWhenIdle ==
    /\ sup.pc = "drain"
    /\ sup' = IF Pending = {} \/ sup.active
              THEN [sup EXCEPT !.pc = IF sup.poll THEN "idle" ELSE "select"]
              ELSE [sup EXCEPT !.pc = "feed", !.todo = Pending]
    /\ UNCHANGED <<disk, pub, wake, rd, harness, sent, history, faults>>

\* drain_turn_inputs: the query.  Its failure ends the session.
Drain ==
    /\ sup.pc = "drain"
    /\ \/ /\ sup' = IF Pending = {}
                    THEN [sup EXCEPT !.pc = IF sup.poll THEN "idle"
                                            ELSE "select"]
                    ELSE [sup EXCEPT !.pc = "feed", !.todo = Pending]
          /\ UNCHANGED faults
       \/ Fault("read") /\ To("exit")
    /\ UNCHANGED <<disk, pub, wake, rd, harness, sent, history>>

\* send_turn, oldest first.  A harness that is gone ends the session.
Feed ==
    /\ sup.pc = "feed"
    /\ \E s \in sup.todo :
         /\ \A t \in sup.todo : s <= t
         /\ IF alive
            THEN /\ fed' = Append(fed, s)
                 /\ told' = told \cup {s}
                 /\ sup' = [sup EXCEPT !.pc = "mark", !.cur = s]
            ELSE /\ To("exit")
                 /\ UNCHANGED <<fed, told>>
    /\ UNCHANGED <<disk, pub, wake, rd, finished, reported, alive, sent,
                   prompt, missed, outs, unheard, faults>>

\* The turn is marked; a failure is ignored.
Mark ==
    /\ sup.pc = "mark"
    /\ TryMark(sup.cur)
    /\ sup' = [sup EXCEPT !.pc = "running"]
    /\ UNCHANGED <<status, session, pub, wake, rd, harness, sent, prompt,
                   told, outs, unheard>>

\* The status, and the next turn; after the last one the turn is active.
Running ==
    /\ sup.pc = "running"
    /\ \/ status' = "running" /\ UNCHANGED faults
       \/ Fault("status") /\ UNCHANGED status
    /\ LET rest == sup.todo \ {sup.cur}
       IN  sup' = IF rest # {} THEN [sup EXCEPT !.pc = "feed", !.todo = rest,
                                                     !.cur = 0]
                  ELSE [sup EXCEPT !.pc = IF sup.poll THEN "idle" ELSE "select",
                                   !.todo = {}, !.cur = 0,
                                   !.active = TRUE, !.notified = FALSE]
    /\ UNCHANGED <<rows, session, pub, wake, rd, harness, sent, history>>

\* select!: an event of the bus, or the information that some were missed, is
\* only a reason to look at the table.
Wake ==
    /\ sup.pc = "select"
    /\ wake
    /\ wake' = FALSE
    /\ sup' = [sup EXCEPT !.pc = "drain", !.poll = FALSE]
    /\ UNCHANGED <<disk, pub, rd, harness, sent, history, faults>>

\* select!: POLL has passed.
Poll ==
    /\ sup.pc = "select"
    /\ sup' = [sup EXCEPT !.pc = "drain", !.poll = sup.idle]
    /\ UNCHANGED <<disk, pub, wake, rd, harness, sent, history, faults>>

\* A message to the prime on the side, sup otherwise being as in s; a failure is
\* ignored.
Tell(s) ==
    \/ /\ sent < MaxMsgs
       /\ Enqueue("prime", "note")
       /\ sup' = [s EXCEPT !.pc = "sent", !.cur = NextSeq]
       /\ UNCHANGED faults
    \/ /\ Fault("enqueue")
       /\ sup' = [s EXCEPT !.pc = "select", !.cur = 0]
       /\ UNCHANGED <<rows, pub, sent>>

\* It is sent, and run goes on.
Told ==
    /\ sup.pc = "sent"
    /\ Published
    /\ To("select")
    /\ UNCHANGED <<disk, pub, wake, rd, harness, sent, history, faults>>

\* After a poll: a turn that has been silent for too long is notified once.
Idle ==
    /\ sup.pc = "idle"
    /\ \/ /\ sup' = [sup EXCEPT !.pc = "select", !.poll = FALSE]
          /\ UNCHANGED <<rows, pub, sent, faults>>
       \/ /\ sup.idle /\ sup.active /\ ~sup.notified
          /\ Tell([sup EXCEPT !.notified = TRUE, !.poll = FALSE])
    /\ UNCHANGED <<status, session, wake, rd, harness, history>>

\* next_event: text of a turn, forwarded if the session is traced.
AssistantText ==
    /\ sup.pc = "select"
    /\ alive
    /\ finished < Len(fed)
    /\ IF sup.trace THEN Tell([sup EXCEPT !.notified = FALSE])
       ELSE /\ sup' = [sup EXCEPT !.notified = FALSE]
            /\ UNCHANGED <<rows, pub, sent, faults>>
    /\ UNCHANGED <<status, session, wake, rd, harness, history>>

\* next_event: a turn is complete.
TurnComplete ==
    /\ sup.pc = "select"
    /\ reported < finished
    /\ reported' = reported + 1
    /\ sup' = [sup EXCEPT !.pc = "out", !.active = FALSE, !.notified = FALSE]
    /\ UNCHANGED <<disk, pub, wake, rd, fed, finished, alive, sent, history,
                   faults>>

\* Mutant: the status is set before the output is on the bus.
OutAfterStatus ==
    /\ sup.pc = "out"
    /\ status' = "awaiting_input"
    /\ Enqueue("prime", "note")
    /\ outs' = outs + 1
    /\ To("select")
    /\ UNCHANGED <<session, wake, rd, harness, prompt, missed, told, unheard,
                   faults>>

\* Its output goes on the bus ...
Out ==
    /\ sup.pc = "out"
    /\ \/ /\ Enqueue("prime", "note")
          /\ sup' = [sup EXCEPT !.pc = "await", !.cur = NextSeq]
          /\ outs' = outs + 1
          /\ UNCHANGED faults
       \/ /\ Fault("enqueue")
          /\ sup' = [sup EXCEPT !.pc = "await", !.cur = 0]
          /\ UNCHANGED <<rows, pub, sent, outs>>
    /\ UNCHANGED <<status, session, wake, rd, harness, prompt, missed, told,
                   unheard>>

\* ... before the status says that the child is waiting.
Await ==
    /\ sup.pc = "await"
    /\ Published
    /\ \/ status' = "awaiting_input" /\ UNCHANGED faults
       \/ Fault("status") /\ UNCHANGED status
    /\ To("select")
    /\ UNCHANGED <<rows, session, pub, wake, rd, harness, sent, history>>

\* next_event: stdout is closed, after everything that was on it, or cannot be
\* read (an endless line).
Exited ==
    /\ sup.pc = "select"
    /\ \/ ~alive /\ reported = finished /\ UNCHANGED faults
       \/ alive /\ Fault("read")
    /\ To("exit")
    /\ UNCHANGED <<disk, pub, wake, rd, harness, sent, history>>

\* Mutant: the session's word for the end.
FinishClosed ==
    /\ sup.pc = "exit"
    /\ status' = "closed"
    /\ To("tell")
    /\ UNCHANGED <<rows, session, pub, wake, rd, harness, sent, history,
                   faults>>

\* finish: the status, then a message to the prime, then the end of the task,
\* which takes the harness with it.
FinishStatus ==
    /\ sup.pc = "exit"
    /\ \/ status' = "exited" /\ UNCHANGED faults
       \/ Fault("status") /\ UNCHANGED status
    /\ To("tell")
    /\ UNCHANGED <<rows, session, pub, wake, rd, harness, sent, history>>

FinishTell ==
    /\ sup.pc = "tell"
    /\ \/ /\ Enqueue("prime", "note")
          /\ sup' = [sup EXCEPT !.pc = "forget", !.cur = NextSeq]
          /\ UNCHANGED faults
       \/ /\ Fault("enqueue")
          /\ To("forget")
          /\ UNCHANGED <<rows, pub, sent>>
    /\ UNCHANGED <<status, session, wake, rd, harness, history>>

Forget ==
    /\ sup.pc = "forget"
    /\ Published
    /\ End
    /\ UNCHANGED <<disk, pub, rd, sent, unheard, faults>>

-----------------------------------------------------------------------------
(* The harness, the prime's kill and a restart of the daemon.              *)

FinishTurn ==
    /\ alive
    /\ finished < Len(fed)
    /\ finished' = finished + 1
    /\ UNCHANGED <<disk, pub, sup, wake, rd, fed, reported, alive, sent,
                   history, faults>>

Die ==
    /\ alive
    /\ alive' = FALSE
    /\ UNCHANGED <<disk, pub, sup, wake, rd, fed, finished, reported, sent,
                   history, faults>>

\* The awaits of the task that are inside bus_enqueue, after the insert.
Sending == {"sent", "await", "forget"}

\* AgentKill, SessionClose: the task is aborted at its await.  What it has stored
\* and not yet sent stays in the table, and nobody is told.
Kill ==
    /\ sup.pc \notin {"launch", "record", "recorded", "ended"}
    /\ IF sup.pc \in Sending /\ ~Published
       THEN /\ pub' = {e \in pub : e.seq # sup.cur}
            /\ unheard' = unheard \cup {sup.cur}
       ELSE UNCHANGED <<pub, unheard>>
    /\ End
    /\ status' = "exited"
    /\ session' = "closed"
    /\ UNCHANGED <<rows, rd, sent, faults>>

\* The daemon dies and comes back: reconcile_stale_agents.
Restart ==
    /\ Fault("crash")
    /\ pub' = {}
    /\ End
    /\ status' = "exited"
    /\ session' = "closed"
    /\ rd' = [r \in Readers |-> IF rd[r].pc = "off" THEN NoReader ELSE Gone]
    /\ UNCHANGED <<rows, sent, unheard>>

\* There is one session, and its prime is not the child of another one, so a
\* turn_input for the prime is a note.  A coordinator is both: agent_msg_pending
\* asks for its name only and would feed it the turns of several sessions, whose
\* numbers have nothing to do with each other.
Sends == \/ AgentSend("child", "note")
         \/ \E k \in Kinds : AgentSend("prime", k) \/ WebSend(k) \/ WebBroadcast(k)

Recv(r) ==
    \/ \E m \in RecvModes : Subscribe(r, m)
    \/ Query(r) \/ WriteRow(r) \/ BacklogEnd(r) \/ TailEvent(r) \/ MarkRead(r)
    \/ Disconnect(r)

Work == \/ Launch \/ Record \/ Recorded \/ Drain \/ Feed \/ Mark \/ Running
        \/ Idle \/ Told \/ Out \/ Await \/ FinishStatus \/ FinishTell \/ Forget

Supervisor == Work \/ Wake \/ Poll \/ AssistantText \/ TurnComplete \/ Exited

Next ==
    \/ Sends
    \/ \E e \in pub : Publish(e)
    \/ \E r \in Readers : Recv(r)
    \/ Supervisor
    \/ FinishTurn \/ Die \/ Kill \/ Restart

Spec == Init /\ [][Next]_vars

-----------------------------------------------------------------------------
(* Properties.                                                             *)

Range(q) == {q[i] : i \in DOMAIN q}

\* The numbers that agent_msg_enqueue gives out are consecutive, and the table
\* holds exactly the newest MaxPerSession messages (store.rs: MAX(seq) + 1 and
\* the retention cap in one transaction).  The dashboard's deduplication and
\* every mark by number rest on this.
Retention ==
    DOMAIN rows = {s \in 1 .. sent : s > sent - MaxPerSession}

\* Nothing is consumed in silence: a message that is marked consumed was
\* written to a reader or to the harness (AgentRecv and drain_turn_inputs
\* write first and mark after).
ConsumedWasDelivered ==
    \A s \in DOMAIN rows :
      rows[s].consumed => s \in told

\* The harness gets its turns in the order of their numbers and each one once,
\* the opening prompt included, except for a turn whose mark has failed
\* (drain_turn_inputs, start).
FedInOrder ==
    \A j \in DOMAIN fed :
      \/ fed[j] \in missed
      \/ /\ fed[j] = 0 \/ fed[j] # prompt
         /\ \A i \in 1 .. j - 1 : fed[i] < fed[j]

\* A consuming `wt recv -f` leaves no gap at the seam of backlog and live tail:
\* what is unread and addressed to it is still in its backlog, in its
\* subscription, about to be sent, or already written.  There are three ways to
\* miss a message and no fourth: the reader has lagged, the LIMIT has cut the
\* message off, or its sender was aborted between the insert and the send
\* (bus_enqueue, kill_child).
SeamComplete ==
    \A r \in {f \in Readers : /\ rd[f].pc \notin {"off", "query", "done"}
                             /\ rd[f].consume /\ rd[f].follow
                             /\ ~rd[f].lagged} :
        \A s \in DOMAIN rows :
          rows[s].to = rd[r].agent /\ ~rows[s].consumed =>
            \/ s \in rd[r].todo \cup rd[r].shown
            \/ \E e \in Range(rd[r].rx) \cup pub : e.seq = s
            \/ s \in rd[r].cut \cup unheard

\* The comment in run: whoever sees awaiting_input finds the turn's output on
\* the bus.  When the status changes to it, every result that was read is
\* stored and published, but for outputs the store refused.
OutputFirst ==
    [][status # "awaiting_input" /\ status' = "awaiting_input" =>
         outs + faults >= reported /\ \A e \in pub : e.seq # sup.cur]_vars

\* No turn input is stranded: while the supervisor sleeps in select!, a turn
\* input that it has not fed is about to be published or has woken it, however
\* busy the harness is and whatever the broadcast has dropped (the comment at
\* agent_msg_pending).  Only a turn whose sender hung up before the send is left
\* to the poll.
NoStrandedTurn ==
    sup.pc = "select" =>
      \A s \in Pending \ (Range(fed) \cup unheard) :
        wake \/ \E e \in pub : e.seq = s

-----------------------------------------------------------------------------
(* The inductive invariants behind the properties.                         *)

\* Whoever is about to mark a message has written it.
WrittenBeforeMark ==
    /\ sup.pc \in {"recorded", "mark"} => sup.cur \in told
    /\ \A r \in Readers : rd[r].pc \in {"mark", "tailmark"} => rd[r].cur \in told

\* Each result that was read is stored, was refused, or is the one in hand.
ResultsStored ==
    reported <= outs + faults + (IF sup.pc = "out" THEN 1 ELSE 0)

\* An event tells the number and the addressee of a message that was stored.
EventTrue(e) ==
    /\ e.seq \in 1 .. sent
    /\ e.seq \in DOMAIN rows => rows[e.seq].to = e.to

EventsTrue ==
    /\ \A e \in pub : EventTrue(e)
    /\ \A r \in Readers : \A i \in DOMAIN rd[r].rx : EventTrue(rd[r].rx[i])

\* No subscription outgrows the broadcast.
RxBounded == \A r \in Readers : Len(rd[r].rx) <= BcastCap

\* The supervisor will look at the table again, on account of message s.
Covered(s) == wake \/ s \in unheard \/ \E e \in pub : e.seq = s

\* Between two looks at the table, what is neither fed nor in hand is covered.
TurnsCovered ==
    /\ sup.pc \in {"feed", "mark", "running", "select", "idle", "sent", "out",
                   "await"}
         => \A s \in Pending \ (Range(fed) \cup sup.todo) : Covered(s)
    /\ sup.pc \in {"mark", "running"} => sup.cur \in Range(fed)
    /\ sup.pc \in {"launch", "record", "recorded", "drain", "select", "idle",
                   "sent", "out", "await"} => sup.todo = {}

\* A turn that may be fed next: newer than all that were fed, and not the prompt.
Fresh(s) == s # prompt /\ \A i \in DOMAIN fed : fed[i] < s

\* Numbers in hand are numbers of messages.
NumbersKnown ==
    /\ \A s \in sup.todo : s \in 1 .. sent
    /\ \A i \in DOMAIN fed : fed[i] <= sent
    /\ prompt <= sent

\* Only fresh turns are pending, or in hand, but for the one being marked and
\* for those whose mark has failed; what arrived after the query is newer than
\* all the query has found.
TurnsFresh ==
    /\ sup.pc # "ended" =>
         \A s \in Pending \ missed :
           Fresh(s) \/ (s = sup.cur /\ sup.pc \in {"recorded", "mark"})
    /\ \A s \in sup.todo \ missed :
         Fresh(s) \/ (s = sup.cur /\ sup.pc \in {"mark", "running"})
    /\ sup.pc \in {"feed", "mark", "running"} =>
         \A s \in Pending \ (missed \cup sup.todo) : \A t \in sup.todo : t < s

FeedInv == NumbersKnown /\ TurnsFresh /\ FedInOrder

\* The table, the broadcast, the readers and the supervisor agree at every step.
BusInv ==
    /\ Retention
    /\ ConsumedWasDelivered /\ WrittenBeforeMark
    /\ ResultsStored
    /\ EventsTrue /\ RxBounded /\ SeamComplete
    /\ TurnsCovered
    /\ FeedInv

=============================================================================
