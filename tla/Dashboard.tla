----------------------------- MODULE Dashboard -----------------------------
(***************************************************************************)
(* The dashboard of extension/app.js against the web gateway of            *)
(* wt-daemon/src/web.rs: a board of session panels, each filled by a       *)
(* fetch of the stored transcript and kept up to date by one WebSocket.    *)
(*                                                                         *)
(* The client is single-threaded: an action of it is the code between two  *)
(* awaits.  A fetch is three steps: the request is issued, the server      *)
(* reads the store, the response is handled.  Sessions of two groups may   *)
(* have the same name (every group has its "coordinator").                 *)
(***************************************************************************)
EXTENDS Integers, Sequences, FiniteSets

CONSTANTS
    Groups,
    Sessions,     \* session names
    First,        \* the session that every group starts with
    Slots,        \* asynchronous calls of the client that overlap
    NoGroup,      \* currentGroup at first
    BcastCap,     \* capacity of agent_bcast
    MaxPerSession,\* MAX_MSGS_PER_SESSION
    MaxMsgs,      \* bound: messages on the bus
    MaxSelects,   \* bound: clicks on a group
    MaxRefresh,   \* bound: status polls
    MaxFaults     \* bound: failed fetches, lost sockets and aborted senders

ASSUME DashboardAssumption ==
    /\ IsFiniteSet(Groups) /\ IsFiniteSet(Sessions)
    /\ NoGroup \notin Groups
    /\ First \in Sessions
    /\ BcastCap \in Nat \ {0} /\ MaxPerSession \in Nat \ {0}
    /\ MaxMsgs \in Nat /\ MaxSelects \in Nat /\ MaxRefresh \in Nat
    /\ MaxFaults \in Nat

VARIABLES
    \* The daemon.
    sessions,     \* group -> the names of its sessions
    log,          \* group -> session -> the number of its last message
    pub,          \* messages stored and not yet sent on the broadcast
    \* The client.
    cur,          \* currentGroup
    panels,       \* session -> its panel, for the sessions that have one
    calls,        \* slot -> a selectGroup or refreshStatuses under way
    polling,      \* has startStatusPolling run?
    ws,           \* the socket, both ends of it
    timers,       \* group -> timers that onclose has set
    \* History.
    unheard,      \* messages whose sender was gone before it could send them
    \* Bounds.
    selects, refreshes, faults

daemon == <<sessions, log, pub, unheard>>
bounds == <<selects, refreshes, faults>>
vars == <<sessions, log, pub, cur, panels, calls, polling, ws, timers,
          unheard, selects, refreshes, faults>>

-----------------------------------------------------------------------------
\* BusEvent, as far as the dashboard uses it.
Event == [group : Groups, session : Sessions, seq : Nat]

\* shown is what the transcript displays, in order.  For the properties only:
\* by is the call that built the panel, base how much of the log the load of
\* that call has covered, -1 before it.
Panel == [seen : SUBSET Nat, shown : Seq(Groups \X Nat), by : Slots,
          base : Int]
NewPanel(t) == [seen |-> {}, shown |-> << >>, by |-> t, base |-> -1]

\* A load is [s, n]: n is -1 until the server has read the log.
Free == [pc |-> "free", kind |-> "select", group |-> NoGroup, sess |-> {},
         loads |-> {}]
NoSocket == [st |-> "none", group |-> NoGroup, q |-> << >>, lagged |-> FALSE,
             before |-> {}]

TypeOK ==
    /\ sessions \in [Groups -> SUBSET Sessions]
    /\ log \in [Groups -> [Sessions -> 0 .. MaxMsgs]]
    /\ pub \subseteq Event /\ unheard \subseteq Event
    /\ cur \in Groups \cup {NoGroup}
    /\ DOMAIN panels \subseteq Sessions
    /\ \A s \in DOMAIN panels : panels[s] \in Panel
    /\ calls \in [Slots -> [pc : {"free", "sessions", "answer", "loads"},
                            kind : {"select", "refresh", "render"},
                            group : Groups \cup {NoGroup},
                            sess : SUBSET Sessions,
                            loads : SUBSET [s : Sessions, n : -1 .. MaxMsgs]]]
    /\ polling \in BOOLEAN
    /\ ws \in [st : {"none", "connecting", "live", "closed"},
               group : Groups \cup {NoGroup}, q : Seq(Event),
               lagged : BOOLEAN, before : SUBSET Event]
    /\ (ws.st = "none") = (ws.group = NoGroup)
    /\ timers \in [Groups -> 0 .. MaxFaults]
    /\ selects \in 0 .. MaxSelects /\ refreshes \in 0 .. MaxRefresh
    /\ faults \in 0 .. MaxFaults

Init ==
    /\ sessions = [g \in Groups |-> {First}]
    /\ log = [g \in Groups |-> [s \in Sessions |-> 0]]
    /\ pub = {} /\ unheard = {}
    /\ cur = NoGroup
    /\ panels = << >>
    /\ calls = [t \in Slots |-> Free]
    /\ polling = FALSE
    /\ ws = NoSocket
    /\ timers = [g \in Groups |-> 0]
    /\ selects = 0 /\ refreshes = 0 /\ faults = 0

Fault == faults < MaxFaults /\ faults' = faults + 1

-----------------------------------------------------------------------------
(* The daemon.                                                             *)

\* The events of all messages so far.
Stored == {e \in [group : Groups, session : Sessions, seq : 1 .. MaxMsgs] :
             e.seq <= log[e.group][e.session]}

\* bus_enqueue, first half: the row is stored under the next number.
Post(g, s) ==
    /\ s \in sessions[g]
    /\ Cardinality(Stored) < MaxMsgs
    /\ log' = [log EXCEPT ![g][s] = @ + 1]
    /\ pub' = pub \cup {[group |-> g, session |-> s, seq |-> log[g][s] + 1]}
    /\ UNCHANGED <<sessions, cur, panels, calls, polling, ws, timers, unheard,
                   bounds>>

\* sendReply, in the coordinator's panel only, and send_message: what the user
\* types is one more message; the view changes when the socket brings it.
SendReply == cur # NoGroup /\ First \in DOMAIN panels /\ Post(cur, First)

\* bus_enqueue, second half.  ws_loop's subscription drops its oldest event
\* when it is full.
Publish(e) ==
    /\ e \in pub
    /\ pub' = pub \ {e}
    /\ ws' = IF ws.st # "live" THEN ws
             ELSE IF Len(ws.q) < BcastCap THEN [ws EXCEPT !.q = Append(@, e)]
             ELSE [ws EXCEPT !.q = Append(Tail(@), e), !.lagged = TRUE]
    /\ UNCHANGED <<sessions, log, cur, panels, calls, polling, timers, unheard,
                   bounds>>

\* The sender of e is gone before it could send: a supervisor that kill_child
\* aborts inside bus_enqueue, or the request of a browser that hangs up.
Abort(e) ==
    /\ e \in pub
    /\ Fault
    /\ pub' = pub \ {e}
    /\ unheard' = unheard \cup {e}
    /\ UNCHANGED <<sessions, log, cur, panels, calls, polling, ws, timers,
                   selects, refreshes>>

\* Somebody spawns a session.
NewSession(g, s) ==
    /\ s \notin sessions[g]
    /\ sessions' = [sessions EXCEPT ![g] = @ \cup {s}]
    /\ UNCHANGED <<log, pub, cur, panels, calls, polling, ws, timers, unheard,
                   bounds>>

\* list_sessions.
ListSessions(t) ==
    /\ calls[t].pc = "sessions"
    /\ calls' = [calls EXCEPT ![t].pc = "answer",
                              ![t].sess = sessions[calls[t].group]]
    /\ UNCHANGED <<daemon, cur, panels, polling, ws, timers, bounds>>

\* agent_msg_session_log when n is the last number: what the retention cap has
\* left, so that n says which messages an answer holds.
SessionLog(n) == {i \in 1 .. n : i > n - MaxPerSession}

\* list_messages.
ListMessages(t) ==
    /\ calls[t].pc = "loads"
    /\ \E l \in calls[t].loads :
         /\ l.n = -1
         /\ calls' = [calls EXCEPT ![t].loads = (@ \ {l}) \cup
                        {[s |-> l.s, n |-> log[calls[t].group][l.s]]}]
    /\ UNCHANGED <<daemon, cur, panels, polling, ws, timers, bounds>>

\* ws_handler and the start of ws_loop: from here on events are received.
WsSubscribe ==
    /\ ws.st = "connecting"
    /\ ws' = [ws EXCEPT
                !.st = "live",
                !.before = {e \in Stored \ pub : e.group = ws.group}]
    /\ UNCHANGED <<daemon, cur, panels, calls, polling, timers, bounds>>

-----------------------------------------------------------------------------
(* The transcript.                                                         *)

\* appendMessage for message n of group g: a number that the panel has seen is
\* skipped.
AppendMessage(p, g, n) ==
    IF n \in p.seen THEN p
    ELSE [p EXCEPT !.seen = @ \cup {n}, !.shown = Append(@, <<g, n>>)]

\* The loop of loadMessages over the answer whose last message is n.
AppendMessages(p, g, n) ==
    LET after[i \in 0 .. n] ==
            IF i = 0 THEN p
            ELSE IF i \in SessionLog(n) THEN AppendMessage(after[i - 1], g, i)
            ELSE after[i - 1]
    IN  after[n]

-----------------------------------------------------------------------------
(* The client's asynchronous calls.                                        *)

\* Mutant: the socket does not know its group.
OpenWsBare(g) == ws' = [NoSocket EXCEPT !.st = "connecting"]

\* openWs: the old socket, whatever its group, is closed for good.
OpenWs(g) == ws' = [NoSocket EXCEPT !.st = "connecting", !.group = g]

\* What is left of call t when renderSessions has returned: selectGroup goes
\* on to openWs and startStatusPolling, refreshStatuses ends.
EndRender(t) ==
    /\ calls' = [calls EXCEPT ![t] = Free]
    /\ IF calls[t].kind = "select"
       THEN OpenWs(calls[t].group) /\ polling' = TRUE
       ELSE UNCHANGED <<ws, polling>>

\* selectGroup, up to its fetch.
SelectGroup(t, g) ==
    /\ calls[t].pc = "free"
    /\ selects < MaxSelects
    /\ selects' = selects + 1
    /\ cur' = g
    /\ panels' = << >>
    /\ calls' = [calls EXCEPT ![t] =
                   [Free EXCEPT !.pc = "sessions", !.kind = "select",
                                !.group = g]]
    /\ UNCHANGED <<daemon, polling, ws, timers, refreshes, faults>>

\* refreshStatuses, up to its fetch.
RefreshStatuses(t) ==
    /\ polling
    /\ calls[t].pc = "free"
    /\ refreshes < MaxRefresh
    /\ refreshes' = refreshes + 1
    /\ calls' = [calls EXCEPT ![t] =
                   [Free EXCEPT !.pc = "sessions", !.kind = "refresh",
                                !.group = cur]]
    /\ UNCHANGED <<daemon, cur, panels, polling, ws, timers, selects, faults>>

\* renderSessions: a new panel for every session of the answer, then a load
\* for each.  Nothing if the user has switched to another group.
RenderSessions(t) ==
    /\ calls[t].pc = "answer"
    /\ calls[t].kind # "refresh"
    /\ IF calls[t].group # cur \/ calls[t].sess = {}
       THEN EndRender(t) /\ UNCHANGED panels
       ELSE /\ panels' = [s \in calls[t].sess \cup DOMAIN panels |->
                            IF s \in calls[t].sess THEN NewPanel(t)
                            ELSE panels[s]]
            /\ calls' = [calls EXCEPT
                           ![t].pc = "loads",
                           ![t].sess = {},
                           ![t].loads = {[s |-> s, n |-> -1] :
                                           s \in calls[t].sess}]
            /\ UNCHANGED <<ws, polling>>
    /\ UNCHANGED <<daemon, cur, timers, bounds>>

\* refreshStatuses, its answer: a session without a panel makes it render the
\* group that is current now; else only the badges change.
RefreshAnswer(t) ==
    /\ calls[t].pc = "answer"
    /\ calls[t].kind = "refresh"
    /\ calls' = IF calls[t].sess \subseteq DOMAIN panels
                THEN [calls EXCEPT ![t] = Free]
                ELSE [calls EXCEPT ![t] =
                        [Free EXCEPT !.pc = "sessions", !.kind = "render",
                                     !.group = cur]]
    /\ UNCHANGED <<daemon, cur, panels, polling, ws, timers, bounds>>

\* The load l of call t is over; with the last one renderSessions returns.
EndLoad(t, l) ==
    IF calls[t].loads = {l} THEN EndRender(t)
    ELSE /\ calls' = [calls EXCEPT ![t].loads = @ \ {l}]
         /\ UNCHANGED <<ws, polling>>

\* Mutant: no look at currentGroup after the fetch.
LoadAnyGroup(t) ==
    /\ calls[t].pc = "loads"
    /\ \E l \in calls[t].loads :
         /\ l.n >= 0
         /\ panels' = IF l.s \in DOMAIN panels
                      THEN [panels EXCEPT ![l.s] =
                              [AppendMessages(@, calls[t].group, l.n)
                                 EXCEPT !.base = l.n]]
                      ELSE panels
         /\ EndLoad(t, l)
    /\ UNCHANGED <<daemon, cur, timers, bounds>>

\* Mutant: a panel that shows something already is not loaded.
LoadOnlyEmpty(t) ==
    /\ calls[t].pc = "loads"
    /\ \E l \in calls[t].loads :
         /\ l.n >= 0
         /\ panels' = IF l.s \in DOMAIN panels /\ calls[t].group = cur
                      THEN [panels EXCEPT ![l.s] =
                              [(IF @.shown = << >>
                                THEN AppendMessages(@, cur, l.n) ELSE @)
                                 EXCEPT !.base = l.n]]
                      ELSE panels
         /\ EndLoad(t, l)
    /\ UNCHANGED <<daemon, cur, timers, bounds>>

\* Panel p with the answer l to call t.
Filled(p, t, l) ==
    [AppendMessages(p, cur, l.n) EXCEPT !.base = IF p.by = t THEN l.n ELSE @]

\* loadMessages, its answer.
LoadMessages(t) ==
    /\ calls[t].pc = "loads"
    /\ \E l \in calls[t].loads :
         /\ l.n >= 0
         /\ panels' = IF l.s \in DOMAIN panels /\ calls[t].group = cur
                      THEN [panels EXCEPT ![l.s] = Filled(@, t, l)]
                      ELSE panels
         /\ EndLoad(t, l)
    /\ UNCHANGED <<daemon, cur, timers, bounds>>

\* A fetch fails: renderSessions, loadMessages and refreshStatuses return.
FetchFails(t) ==
    /\ Fault
    /\ \/ /\ calls[t].pc \in {"sessions", "answer"}
          /\ EndRender(t)
       \/ /\ calls[t].pc = "loads"
          /\ \E l \in calls[t].loads : EndLoad(t, l)
    /\ UNCHANGED <<daemon, cur, panels, timers, selects, refreshes>>

-----------------------------------------------------------------------------
(* The socket.                                                             *)

\* ws_loop passes on the events of its group, onmessage takes them if it is
\* still the current one and appendMessage if the session has a panel.
WsEvent ==
    /\ ws.st = "live"
    /\ ws.q # << >>
    /\ ws' = [ws EXCEPT !.q = Tail(@)]
    /\ LET e == Head(ws.q)
       IN  panels' = IF /\ e.group = ws.group
                        /\ ws.group = cur
                        /\ e.session \in DOMAIN panels
                     THEN [panels EXCEPT ![e.session] =
                             AppendMessage(@, ws.group, e.seq)]
                     ELSE panels
    /\ UNCHANGED <<daemon, cur, calls, polling, timers, bounds>>

\* Mutant: the reconnect is forgotten.
WsCloseQuietly ==
    /\ ws.st \in {"connecting", "live"}
    /\ Fault
    /\ ws' = [NoSocket EXCEPT !.st = "closed", !.group = ws.group]
    /\ UNCHANGED <<daemon, cur, panels, calls, polling, timers, selects,
                   refreshes>>

\* The connection is lost: onclose sets a timer if the group is current.
WsClose ==
    /\ ws.st \in {"connecting", "live"}
    /\ Fault
    /\ ws' = [NoSocket EXCEPT !.st = "closed", !.group = ws.group]
    /\ timers' = IF ws.group = cur THEN [timers EXCEPT ![cur] = @ + 1] ELSE timers
    /\ UNCHANGED <<daemon, cur, panels, calls, polling, selects, refreshes>>

\* The timer opens a new socket if the group is still current.
Reopen(g) ==
    /\ timers[g] > 0
    /\ timers' = [timers EXCEPT ![g] = @ - 1]
    /\ IF g = cur THEN OpenWs(g) ELSE UNCHANGED ws
    /\ UNCHANGED <<daemon, cur, panels, calls, polling, bounds>>

Client(t) ==
    \/ \E g \in Groups : SelectGroup(t, g)
    \/ RefreshStatuses(t) \/ RenderSessions(t) \/ RefreshAnswer(t)
    \/ LoadMessages(t) \/ FetchFails(t)

Server(t) == ListSessions(t) \/ ListMessages(t)

Next ==
    \/ \E t \in Slots : Client(t) \/ Server(t)
    \/ \E g \in Groups, s \in Sessions : Post(g, s) \/ NewSession(g, s)
    \/ SendReply
    \/ \E e \in pub : Publish(e) \/ Abort(e)
    \/ WsSubscribe \/ WsEvent \/ WsClose
    \/ \E g \in Groups : Reopen(g)

Spec == Init /\ [][Next]_vars

-----------------------------------------------------------------------------
(* Properties.                                                             *)

\* A transcript shows messages of the current group only, none twice: the
\* checks of currentGroup after every await and the set seen suffice although
\* groups share session names, answers arrive late and every message may come
\* by a load, by another load and by the socket (renderSessions, loadMessages,
\* appendMessage, onmessage).
OwnTranscript ==
    \A s \in DOMAIN panels :
      /\ \A i \in DOMAIN panels[s].shown : panels[s].shown[i][1] = cur
      /\ Cardinality({panels[s].shown[i] : i \in DOMAIN panels[s].shown})
           = Len(panels[s].shown)

\* A message can be missing from the board in four ways and no fifth: while the
\* socket of the current group is live and has not lagged, a panel that was
\* loaded shows every message, or will when it has arrived, but those that the
\* retention cap had taken before the load and, of those stored after the load
\* was read, the ones published before the socket was there (selectGroup opens
\* it last, onclose loads nothing) or never, their sender having been aborted
\* inside bus_enqueue.
LiveTailComplete ==
    ws.st = "live" /\ ws.group = cur /\ ~ws.lagged =>
      \A s \in DOMAIN panels : panels[s].base >= 0 =>
        \A n \in SessionLog(panels[s].base) \cup (panels[s].base + 1) .. log[cur][s] :
          LET e == [group |-> cur, session |-> s, seq |-> n]
          IN  \/ n \in panels[s].seen
              \/ e \in pub
              \/ \E i \in DOMAIN ws.q : ws.q[i] = e
              \/ n > panels[s].base /\ e \in ws.before \cup unheard

\* A lost socket is replaced: while the current group's socket is closed, a
\* timer or a selectGroup that will open another is under way (onclose).
Reconnects ==
    ws.st = "closed" /\ ws.group = cur =>
      \/ timers[cur] > 0
      \/ \E t \in Slots : /\ calls[t].pc # "free"
                          /\ calls[t].kind = "select"
                          /\ calls[t].group = cur

-----------------------------------------------------------------------------
(* The inductive invariants behind them.                                   *)

\* Calls and polls are about groups that somebody selected, and every timer
\* stands for a socket that was lost.
ClientInv ==
    /\ \A t \in Slots : calls[t].pc # "free" => calls[t].group \in Groups /\ cur \in Groups
    /\ polling => cur \in Groups
    /\ \A g \in Groups : timers[g] <= faults

\* What a panel shows of group g it has seen, and shows once; and it has seen
\* all that its load covered.
Sound(p, g) ==
    /\ \A i \in DOMAIN p.shown : p.shown[i][1] = g /\ p.shown[i][2] \in p.seen
    /\ \A i, j \in DOMAIN p.shown : p.shown[i] = p.shown[j] => i = j
    /\ SessionLog(p.base) \subseteq p.seen

PanelsSound == \A s \in DOMAIN panels : Sound(panels[s], cur)

\* How much of the log of s its panel's load has covered, or will when the
\* answer, which the server has given, arrives.
Covered(s) ==
    {panels[s].base} \cup
        {l.n : l \in {k \in calls[panels[s].by].loads :
                        k.s = s /\ calls[panels[s].by].group = cur}}

\* Message n of session s has been shown, is about to be, or was published
\* before the socket was there or never.
Known(s, n) ==
    LET e == [group |-> cur, session |-> s, seq |-> n]
    IN  \/ n \in panels[s].seen
        \/ e \in pub
        \/ \E i \in DOMAIN ws.q : ws.q[i] = e
        \/ e \in ws.before \cup unheard

\* LiveTailComplete from the moment the server has read the log for the panel.
TailKnown ==
    ws.st = "live" /\ ws.group = cur /\ ~ws.lagged =>
      \A s \in DOMAIN panels : \A b \in Covered(s) : b >= 0 =>
        \A n \in 1 .. log[cur][s] : n > b => Known(s, n)

=============================================================================
