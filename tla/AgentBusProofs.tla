--------------------------- MODULE AgentBusProofs ---------------------------
(***************************************************************************)
(* Theorems about AgentBus, for any number of readers, any retention cap   *)
(* and any capacity of the broadcast.                                      *)
(***************************************************************************)
EXTENDS AgentBus, TLAPS

-----------------------------------------------------------------------------
(* The table.                                                              *)

\* MAX(seq) + 1 numbers the messages consecutively, whatever was deleted.
LEMMA NextSeqIsNext ==
    ASSUME TypeOK, Retention
    PROVE  NextSeq = sent + 1
<1> DEFINE M == CHOOSE m \in DOMAIN rows : \A s \in DOMAIN rows : s <= m
<1>1. sent \in Nat /\ MaxPerSession \in Nat \ {0}
  BY AgentBusAssumption DEF TypeOK
<1>2. CASE DOMAIN rows = {}
  <2>1. sent \notin 1 .. sent \/ ~(sent > sent - MaxPerSession)
    BY <1>2 DEF Retention
  <2>2. sent = 0
    BY <1>1, <2>1
  <2> QED
    BY <1>2, <2>2 DEF NextSeq
<1>3. CASE DOMAIN rows # {}
  <2>1. sent \in DOMAIN rows /\ \A s \in DOMAIN rows : s <= sent
    BY <1>1, <1>3 DEF Retention
  <2>2. \A m \in DOMAIN rows : (\A s \in DOMAIN rows : s <= m) => m = sent
    BY <1>1, <2>1 DEF Retention
  <2>3. M = sent
    BY <2>1, <2>2
  <2>4. NextSeq = 1 + M
    BY <1>3, Zenon DEF NextSeq
  <2> HIDE DEF M
  <2> QED
    BY <1>1, <2>3, <2>4
<1> QED
  BY <1>2, <1>3

\* What agent_msg_enqueue does to the table: the new row has the next number,
\* rows only leave, and those that stay are as they were.
LEMMA InsertEffect ==
    ASSUME TypeOK, Retention, NEW to \in Agents, NEW kind \in Kinds,
           Insert(to, kind)
    PROVE  LET n == sent + 1 IN
           /\ n \in Nat \ {0} /\ n \notin DOMAIN rows
           /\ NextSeq = n /\ sent' = n
           /\ n \in DOMAIN rows'
           /\ rows'[n] = [to |-> to, kind |-> kind, consumed |-> FALSE]
           /\ \A s \in DOMAIN rows' : s # n => s \in DOMAIN rows /\ rows'[s] = rows[s]
           /\ Retention'
<1> DEFINE n == sent + 1
<1>1. NextSeq = n
  BY NextSeqIsNext
<1>2. sent \in Nat /\ MaxPerSession \in Nat \ {0}
  BY AgentBusAssumption DEF TypeOK
<1>3. /\ sent' = n
      /\ rows' = [s \in Kept(n) |->
                    IF s = n
                    THEN [to |-> to, kind |-> kind, consumed |-> FALSE]
                    ELSE rows[s]]
  BY <1>1 DEF Insert
<1>4. n \in Kept(n) /\ n \notin DOMAIN rows /\ n \in Nat \ {0}
  BY <1>2 DEF Kept, Retention
<1>5. Kept(n) = {s \in 1 .. n : s > n - MaxPerSession}
  BY <1>2 DEF Kept, Retention
<1>6. DOMAIN rows' = Kept(n)
  BY <1>3
<1>7. Retention'
  BY <1>3, <1>5, <1>6 DEF Retention
<1>8. \A s \in Kept(n) : s # n => s \in DOMAIN rows
  BY DEF Kept
<1> QED
  BY <1>1, <1>3, <1>4, <1>6, <1>7, <1>8

\* A row is stored, and its event is still to be sent or never will be: the
\* first half of bus_enqueue, in a task that goes on or in one that is dropped.
Stores(to, kind) ==
    /\ Insert(to, kind)
    /\ \/ pub' = pub \cup {[seq |-> NextSeq, to |-> to]}
       \/ pub' = pub /\ unheard' = unheard \cup {NextSeq}

LEMMA StoresEffect ==
    ASSUME TypeOK, Retention, NEW to \in Agents, NEW kind \in Kinds,
           Stores(to, kind)
    PROVE  LET n == sent + 1 IN
           /\ n \in Nat \ {0} /\ n \notin DOMAIN rows
           /\ NextSeq = n /\ sent' = n
           /\ n \in DOMAIN rows'
           /\ rows'[n] = [to |-> to, kind |-> kind, consumed |-> FALSE]
           /\ \A s \in DOMAIN rows' : s # n => s \in DOMAIN rows /\ rows'[s] = rows[s]
           /\ \/ pub' = pub \cup {[seq |-> n, to |-> to]}
              \/ pub' = pub /\ unheard' = unheard \cup {n}
           /\ Retention'
<1>1. Insert(to, kind) /\ NextSeq = sent + 1
  BY InsertEffect DEF Stores
<1> QED
  BY <1>1, InsertEffect DEF Stores

LEMMA EnqueueEffect ==
    ASSUME TypeOK, Retention, NEW to \in Agents, NEW kind \in Kinds,
           Enqueue(to, kind)
    PROVE  LET n == sent + 1 IN
           /\ n \in Nat \ {0} /\ n \notin DOMAIN rows
           /\ NextSeq = n /\ sent' = n
           /\ n \in DOMAIN rows'
           /\ rows'[n] = [to |-> to, kind |-> kind, consumed |-> FALSE]
           /\ \A s \in DOMAIN rows' : s # n => s \in DOMAIN rows /\ rows'[s] = rows[s]
           /\ pub' = pub \cup {[seq |-> n, to |-> to]}
           /\ Retention'
<1>1. /\ Insert(to, kind) /\ NextSeq = sent + 1
      /\ pub' = pub \cup {[seq |-> NextSeq, to |-> to]}
  BY NextSeqIsNext DEF Enqueue
<1> QED
  BY <1>1, InsertEffect

\* agent_msg_mark_consumed changes one flag, of a row that is still there.
LEMMA MarkEffect ==
    ASSUME TypeOK, NEW s, MarkConsumed(s)
    PROVE  /\ DOMAIN rows' = DOMAIN rows
           /\ \A t \in DOMAIN rows : /\ rows'[t] \in Row
                                     /\ rows'[t].to = rows[t].to
                                     /\ rows'[t].kind = rows[t].kind
                                     /\ t # s => rows'[t] = rows[t]
                                     /\ t = s => rows'[t].consumed
<1>1. \A t \in DOMAIN rows : rows[t] \in Row
  BY DEF TypeOK
<1>2. /\ DOMAIN rows' = DOMAIN rows
      /\ \A t \in DOMAIN rows :
           rows'[t] = IF t = s THEN [rows[t] EXCEPT !.consumed = TRUE] ELSE rows[t]
  BY DEF MarkConsumed
<1>3. \A x \in Row : LET y == [x EXCEPT !.consumed = TRUE] IN
        y \in Row /\ y.to = x.to /\ y.kind = x.kind /\ y.consumed
  BY DEF Row
<1> QED
  BY <1>1, <1>2, <1>3

LEMMA StoresType ==
    ASSUME TypeOK, Retention, NEW to \in Agents, NEW kind \in Kinds,
           Stores(to, kind)
    PROVE  /\ DOMAIN rows' \subseteq Nat \ {0}
           /\ \A s \in DOMAIN rows' : rows'[s] \in Row
           /\ pub' \subseteq [seq : Nat, to : Agents]
           /\ sent' \in Nat
<1>1. [to |-> to, kind |-> kind, consumed |-> FALSE] \in Row
  BY DEF Row
<1>2. [seq |-> sent + 1, to |-> to] \in [seq : Nat, to : Agents]
  BY DEF TypeOK
<1> DEFINE n == sent + 1
<1>3. /\ n \in Nat \ {0} /\ sent' = n
      /\ rows'[n] = [to |-> to, kind |-> kind, consumed |-> FALSE]
      /\ \A s \in DOMAIN rows' : s # n => s \in DOMAIN rows /\ rows'[s] = rows[s]
      /\ pub' \subseteq pub \cup {[seq |-> n, to |-> to]}
  BY StoresEffect
<1> HIDE DEF n
<1>4. \A s \in DOMAIN rows : s \in Nat \ {0} /\ rows[s] \in Row
  BY DEF TypeOK
<1>5. \A s \in DOMAIN rows' : s \in Nat \ {0} /\ rows'[s] \in Row
  BY <1>1, <1>3, <1>4
<1>6. pub' \subseteq [seq : Nat, to : Agents]
  BY <1>2, <1>3 DEF TypeOK, n
<1> QED
  BY <1>3, <1>5, <1>6

LEMMA TryMarkType ==
    ASSUME TypeOK, NEW s \in Nat, TryMark(s)
    PROVE  /\ DOMAIN rows' \subseteq Nat \ {0}
           /\ \A t \in DOMAIN rows' : rows'[t] \in Row
           /\ missed' \subseteq Nat
           /\ faults' \in 0 .. MaxFaults
<1>1. CASE MarkConsumed(s) /\ UNCHANGED <<missed, faults>>
  BY <1>1, MarkEffect DEF TypeOK
<1>2. CASE Fault("mark") /\ missed' = missed \cup {s} /\ UNCHANGED rows
  BY <1>2, AgentBusAssumption DEF TypeOK, Fault
<1> QED
  BY <1>1, <1>2 DEF TryMark

LEMMA FaultType ==
    ASSUME TypeOK, NEW k, Fault(k)
    PROVE  faults' \in 0 .. MaxFaults
  BY AgentBusAssumption DEF TypeOK, Fault

-----------------------------------------------------------------------------
(* Types of the readers and of the supervisor.                             *)

Event == [seq : Nat, to : Agents]
ReaderState ==
    [pc : RdPC, agent : Agents, consume : BOOLEAN, follow : BOOLEAN,
     todo : SUBSET Nat, rx : Seq(Event), cur : Nat, shown : SUBSET Nat,
     lagged : BOOLEAN, cut : SUBSET Nat]
SupState ==
    [pc : SupPC, cur : Nat, todo : SUBSET Nat, poll : BOOLEAN,
     active : BOOLEAN, notified : BOOLEAN, trace : BOOLEAN, idle : BOOLEAN]

\* TypeOK with the names above.
LEMMA StateTypes ==
    TypeOK => sup \in SupState /\ rd \in [Readers -> ReaderState]
  BY DEF TypeOK, SupState, ReaderState, Event

LEMMA NoReaderType == NoReader \in ReaderState /\ Gone \in ReaderState
<1>1. << >> \in Seq(Event)
  OBVIOUS
<1>2. NoReader \in ReaderState
  BY <1>1 DEF NoReader, ReaderState, RdPC, Agents
<1>3. Gone \in ReaderState
  BY <1>2 DEF Gone, ReaderState, RdPC
<1> QED
  BY <1>2, <1>3

LEMMA ReaderAt ==
    ASSUME TypeOK, NEW r \in Readers, NEW x \in ReaderState
    PROVE  [rd EXCEPT ![r] = x] \in [Readers -> ReaderState]
  BY StateTypes

\* A subscription that receives an event has room for it or drops the oldest.
LEMMA ReceiveType ==
    ASSUME NEW q \in Seq(Event), NEW e \in Event
    PROVE  Receive(q, e) \in Seq(Event)
<1>1. q # <<>> => Tail(q) \in Seq(Event)
  OBVIOUS
<1>2. Len(q) < BcastCap \/ q # <<>>
  BY AgentBusAssumption
<1> QED
  BY <1>1, <1>2 DEF Receive

-----------------------------------------------------------------------------
(* Type correctness, and the numbers of the table.                         *)

\* AgentSend, by whoever sends and stays.
Posting == \E to \in Agents, kind \in Kinds :
    /\ Enqueue(to, kind)
    /\ UNCHANGED <<status, session, sup, wake, rd, harness, history, faults>>

HangingUp == \E kind \in Kinds : HangUp(kind)

LEMMA SendsAre ==
    ASSUME Sends
    PROVE  Posting \/ HangingUp
  BY DEF Sends, WebBroadcast, WebSend, AgentSend, Posting, HangingUp, Agents, Kinds

\* Both store a row.
LEMMA SendsStore ==
    /\ \A to, kind : Enqueue(to, kind) => Stores(to, kind)
    /\ \A kind : HangUp(kind) => Stores("child", kind)
  BY DEF Enqueue, HangUp, Stores

\* A message on the side.
LEMMA TellEffect ==
    ASSUME TypeOK, NEW x \in SupState, x.todo = sup.todo, Tell(x)
    PROVE  /\ sup'.todo = sup.todo /\ sup'.pc \in {"sent", "select"}
           /\ NextSeq \in Nat => sup' \in SupState
           /\ \/ Enqueue("prime", "note") /\ UNCHANGED faults
              \/ Fault("enqueue") /\ UNCHANGED <<rows, pub, sent>>
<1>1. \/ /\ Enqueue("prime", "note") /\ UNCHANGED faults
         /\ sup' = [x EXCEPT !.pc = "sent", !.cur = NextSeq]
      \/ /\ Fault("enqueue") /\ UNCHANGED <<rows, pub, sent>>
         /\ sup' = [x EXCEPT !.pc = "select", !.cur = 0]
  BY DEF Tell
<1> DEFINE n == NextSeq
<1> HIDE DEF n
<1>2. \/ sup' = [x EXCEPT !.pc = "sent", !.cur = n]
      \/ sup' = [x EXCEPT !.pc = "select", !.cur = 0]
  BY <1>1 DEF n
<1>3. sup'.todo = sup.todo /\ sup'.pc \in {"sent", "select"}
  BY <1>2 DEF SupState
<1>4. ASSUME n \in Nat PROVE sup' \in SupState
  <2>1. \A y \in SupState, c \in Nat :
          /\ [y EXCEPT !.pc = "sent", !.cur = c] \in SupState
          /\ [y EXCEPT !.pc = "select", !.cur = 0] \in SupState
    BY DEF SupState, SupPC
  <2> QED
    BY <1>2, <1>4, <2>1
<1> QED
  BY <1>1, <1>3, <1>4 DEF n

\* The flags of the supervisor change, with a message on the side or without.
LEMMA AsideEffect ==
    ASSUME TypeOK, Idle \/ AssistantText
    PROVE  /\ sup.pc \in {"idle", "select"}
           /\ \E x \in SupState :
                /\ x.todo = sup.todo
                /\ \/ Tell(x)
                   \/ /\ sup' = x /\ x.pc = "select"
                      /\ UNCHANGED <<rows, pub, sent, faults>>
<1>0. sup \in SupState
  BY StateTypes
<1> DEFINE a == [sup EXCEPT !.pc = "select", !.poll = FALSE]
           b == [sup EXCEPT !.notified = TRUE, !.poll = FALSE]
           c == [sup EXCEPT !.notified = FALSE]
<1>1. /\ a \in SupState /\ a.todo = sup.todo /\ a.pc = "select"
      /\ b \in SupState /\ b.todo = sup.todo
      /\ c \in SupState /\ c.todo = sup.todo /\ c.pc = sup.pc
  BY <1>0 DEF SupState, SupPC
<1>2. CASE Idle
  <2>1. /\ sup.pc = "idle"
        /\ \/ sup' = a /\ UNCHANGED <<rows, pub, sent, faults>>
           \/ Tell(b)
    BY <1>2 DEF Idle
  <2> HIDE DEF a, b, c
  <2> QED
    BY <1>1, <2>1
<1>3. CASE AssistantText
  <2>1. /\ sup.pc = "select"
        /\ \/ sup' = c /\ UNCHANGED <<rows, pub, sent, faults>>
           \/ Tell(c)
    BY <1>3 DEF AssistantText
  <2> HIDE DEF a, b, c
  <2> QED
    BY <1>1, <2>1
<1> QED
  BY <1>2, <1>3

\* Reader r has the rows q of its backlog, the others are cut off.
Queried(r, from) ==
    LET b == Backlog(rd[r].agent, rd[r].consume, from)
    IN  \E q \in SUBSET b :
          rd' = [rd EXCEPT ![r] = [rd[r] EXCEPT !.pc = "backlog", !.todo = q,
                                                !.cut = b \ q]]

LEMMA QueryEffect ==
    ASSUME TypeOK, NEW r \in Readers, Query(r)
    PROVE  \E from \in {0} \cup DOMAIN rows : Queried(r, from)
<1>0. rd \in [Readers -> ReaderState] /\ rd[r] \in ReaderState
  BY StateTypes
<1>1. PICK from \in {0} \cup DOMAIN rows :
        \E q \in SUBSET Backlog(rd[r].agent, rd[r].consume, from) :
          rd' = [rd EXCEPT ![r].pc = "backlog", ![r].todo = q,
                           ![r].cut = Backlog(rd[r].agent, rd[r].consume, from) \ q]
  BY DEF Query
<1> DEFINE b == Backlog(rd[r].agent, rd[r].consume, from)
<1>2. PICK q \in SUBSET b : rd' = [rd EXCEPT ![r].pc = "backlog", ![r].todo = q,
                                              ![r].cut = b \ q]
  BY <1>1
<1> HIDE DEF b
<1>3. rd' = [rd EXCEPT ![r] = [rd[r] EXCEPT !.pc = "backlog", !.todo = q,
                                            !.cut = b \ q]]
  BY <1>0, <1>2
<1> QED
  BY <1>3 DEF Queried, b

\* The query leaves the subscription as it is.
LEMMA QueryKeeps ==
    ASSUME TypeOK, NEW r \in Readers, Query(r)
    PROVE  rd'[r].pc = "backlog" /\ rd'[r].rx = rd[r].rx
<1>0. rd \in [Readers -> ReaderState] /\ rd[r] \in ReaderState
  BY StateTypes
<1>1. PICK from \in {0} \cup DOMAIN rows : Queried(r, from)
  BY QueryEffect
<1> DEFINE b == Backlog(rd[r].agent, rd[r].consume, from)
<1>2. PICK k \in SUBSET b :
        rd' = [rd EXCEPT ![r] = [rd[r] EXCEPT !.pc = "backlog", !.todo = k,
                                              !.cut = b \ k]]
  BY <1>1 DEF Queried
<1> HIDE DEF b
<1> QED
  BY <1>0, <1>2 DEF ReaderState

LEMMA TypeStep ==
    ASSUME TypeOK, Retention, [Next]_vars
    PROVE  TypeOK'
<1> USE DEF disk, harness, history
<1>0. sup \in SupState /\ rd \in [Readers -> ReaderState]
  BY StateTypes
<1>a. ASSUME /\ DOMAIN rows' \subseteq Nat \ {0}
             /\ \A s \in DOMAIN rows' : rows'[s] \in Row
             /\ status' \in {"starting", "running", "awaiting_input", "exited"}
             /\ session' \in {"active", "closed"}
             /\ pub' \subseteq Event
             /\ sup' \in SupState
             /\ wake' \in BOOLEAN
             /\ rd' \in [Readers -> ReaderState]
             /\ fed' \in Seq(Nat) /\ finished' \in Nat /\ reported' \in Nat
             /\ alive' \in BOOLEAN
             /\ sent' \in Nat /\ prompt' \in Nat
             /\ missed' \subseteq Nat /\ told' \subseteq Nat /\ outs' \in Nat
             /\ unheard' \subseteq Nat /\ faults' \in 0 .. MaxFaults
      PROVE  TypeOK'
  BY <1>a DEF TypeOK, SupState, ReaderState, Event
<1>b. /\ DOMAIN rows \subseteq Nat \ {0}
      /\ \A s \in DOMAIN rows : rows[s] \in Row
      /\ status \in {"starting", "running", "awaiting_input", "exited"}
      /\ session \in {"active", "closed"}
      /\ pub \subseteq Event
      /\ wake \in BOOLEAN
      /\ fed \in Seq(Nat) /\ finished \in Nat /\ reported \in Nat
      /\ alive \in BOOLEAN
      /\ sent \in Nat /\ prompt \in Nat
      /\ missed \subseteq Nat /\ told \subseteq Nat /\ outs \in Nat
      /\ unheard \subseteq Nat /\ faults \in 0 .. MaxFaults
  BY DEF TypeOK, Event
<1>c. ASSUME NEW to \in Agents, NEW kind \in Kinds, Stores(to, kind) \/ Enqueue(to, kind)
      PROVE  /\ DOMAIN rows' \subseteq Nat \ {0}
             /\ \A s \in DOMAIN rows' : rows'[s] \in Row
             /\ pub' \subseteq Event
             /\ sent' \in Nat /\ NextSeq \in Nat
  <2>1. NextSeq \in Nat
    BY <1>b, NextSeqIsNext
  <2> QED
    BY <1>c, <2>1, SendsStore, StoresType DEF Event
<1>d. "child" \in Agents /\ "prime" \in Agents
      /\ "turn_input" \in Kinds /\ "note" \in Kinds
  BY DEF Agents, Kinds
<1>e. ASSUME End
      PROVE  /\ sup' \in SupState /\ wake' \in BOOLEAN /\ alive' \in BOOLEAN
             /\ fed' \in Seq(Nat) /\ finished' \in Nat /\ reported' \in Nat
             /\ outs' \in Nat
             /\ prompt' \in Nat /\ missed' \subseteq Nat /\ told' \subseteq Nat
  <2>1. << >> \in Seq(Nat)
    OBVIOUS
  <2>2. sup' \in SupState
    BY <1>0, <1>e DEF End, SupState, SupPC
  <2> QED
    BY <1>b, <1>e, <2>1, <2>2 DEF End
<1>f. ASSUME NEW pc \in SupPC, To(pc)
      PROVE  sup' \in SupState
  BY <1>0, <1>f DEF To, SupState
<1>g. \A pc \in SupPC : [sup EXCEPT !.pc = pc] \in SupState
  BY <1>0 DEF SupState
<1>1. CASE Sends
  <2>1. CASE Posting
    BY <1>0, <1>a, <1>b, <1>c, <2>1 DEF Posting
  <2>2. CASE HangingUp
    <3>1. PICK kind \in Kinds : HangUp(kind)
      BY <2>2 DEF HangingUp
    <3>2. /\ DOMAIN rows' \subseteq Nat \ {0}
          /\ \A s \in DOMAIN rows' : rows'[s] \in Row
          /\ sent' \in Nat /\ NextSeq \in Nat
      BY <1>c, <1>d, <3>1, SendsStore
    <3>3. faults' \in 0 .. MaxFaults /\ unheard' \subseteq Nat
      BY <1>b, <3>1, <3>2, FaultType DEF HangUp
    <3> QED
      BY <1>0, <1>a, <1>b, <3>1, <3>2, <3>3 DEF HangUp
  <2> QED
    BY <1>1, <2>1, <2>2, SendsAre
<1>2. ASSUME NEW e \in pub, Publish(e)
      PROVE  TypeOK'
  <2>1. e \in Event
    BY <1>b
  <2>2. ASSUME NEW r \in Readers
        PROVE  (IF rd[r].pc \in {"off", "done"} \/ ~rd[r].follow THEN rd[r]
                ELSE [rd[r] EXCEPT !.rx = Receive(@, e),
                                   !.lagged = @ \/ Len(rd[r].rx) = BcastCap])
               \in ReaderState
    <3>1. rd[r] \in ReaderState /\ rd[r].rx \in Seq(Event)
      BY <1>0 DEF ReaderState
    <3>2. Receive(rd[r].rx, e) \in Seq(Event)
      BY <2>1, <3>1, ReceiveType
    <3>3. [rd[r] EXCEPT !.rx = Receive(@, e),
                        !.lagged = @ \/ Len(rd[r].rx) = BcastCap] \in ReaderState
      BY <3>1, <3>2 DEF ReaderState
    <3> QED
      BY <3>1, <3>3
  <2>3. rd' \in [Readers -> ReaderState]
    BY <1>2, <2>2 DEF Publish
  <2>4. wake' \in BOOLEAN
    BY <1>2 DEF Publish
  <2> QED
    BY <1>0, <1>2, <1>a, <1>b, <2>3, <2>4 DEF Publish
<1>3. ASSUME NEW r \in Readers, Recv(r)
      PROVE  TypeOK'
  <2>0. rd[r] \in ReaderState /\ Gone \in ReaderState /\ NoReader \in ReaderState
    BY <1>0, NoReaderType
  <2>1. CASE \E m \in RecvModes : Subscribe(r, m)
    <3> PICK m \in RecvModes : Subscribe(r, m)
      BY <2>1
    <3> DEFINE x == [NoReader EXCEPT !.pc = "query", !.agent = m.agent,
                                     !.consume = m.consume, !.follow = m.follow]
    <3>1. m \in [agent : {"prime", "child"}, consume : BOOLEAN, follow : BOOLEAN]
      BY AgentBusAssumption
    <3>2. x \in ReaderState
      BY <2>0, <3>1 DEF ReaderState, RdPC, Agents
    <3>3. rd' \in [Readers -> ReaderState]
      BY <3>2, ReaderAt DEF Subscribe
    <3> QED
      BY <1>0, <1>a, <1>b, <3>3 DEF Subscribe
  <2>2. CASE Query(r)
    <3>1. PICK from \in {0} \cup DOMAIN rows : Queried(r, from)
      BY <2>2, QueryEffect
    <3> DEFINE B == Backlog(rd[r].agent, rd[r].consume, from)
    <3>2. B \in SUBSET Nat
      BY <1>b DEF Backlog
    <3>a. PICK q \in SUBSET B :
            rd' = [rd EXCEPT ![r] = [rd[r] EXCEPT !.pc = "backlog", !.todo = q,
                                                  !.cut = B \ q]]
      BY <3>1 DEF Queried
    <3> HIDE DEF B
    <3>3. [rd[r] EXCEPT !.pc = "backlog", !.todo = q, !.cut = B \ q] \in ReaderState
      BY <2>0, <3>2 DEF ReaderState, RdPC
    <3>4. rd' = [rd EXCEPT ![r] = [rd[r] EXCEPT !.pc = "backlog", !.todo = q,
                                                !.cut = B \ q]]
      BY <3>a
    <3>5. rd' \in [Readers -> ReaderState]
      BY <3>3, <3>4, ReaderAt
    <3> QED
      BY <1>0, <1>a, <1>b, <2>2, <3>5 DEF Query
  <2>3. CASE WriteRow(r)
    <3>1. PICK s \in rd[r].todo :
         /\ rd' = [rd EXCEPT ![r].pc = IF rd[r].consume THEN "mark" ELSE @,
                             ![r].todo = @ \ {s},
                             ![r].cur = IF rd[r].consume THEN s ELSE 0,
                             ![r].shown = @ \cup {s}]
         /\ told' = told \cup {s}
      BY <2>3 DEF WriteRow
    <3> DEFINE x == [rd[r] EXCEPT !.pc = IF rd[r].consume THEN "mark" ELSE @,
                                  !.todo = @ \ {s},
                                  !.cur = IF rd[r].consume THEN s ELSE 0,
                                  !.shown = @ \cup {s}]
    <3>2. s \in Nat
      BY <2>0 DEF ReaderState
    <3>3. x \in ReaderState
      BY <2>0, <3>2 DEF ReaderState, RdPC
    <3>4. rd' = [rd EXCEPT ![r] = x]
      BY <1>0, <3>1
    <3> HIDE DEF x
    <3>5. rd' \in [Readers -> ReaderState]
      BY <3>3, <3>4, ReaderAt
    <3> QED
      BY <1>0, <1>a, <1>b, <2>3, <3>1, <3>2, <3>5 DEF WriteRow
  <2>4. CASE BacklogEnd(r) \/ Disconnect(r)
    <3>1. [rd[r] EXCEPT !.pc = "tail"] \in ReaderState
      BY <2>0 DEF ReaderState, RdPC
    <3>2. \/ rd' = [rd EXCEPT ![r] = [rd[r] EXCEPT !.pc = "tail"]]
          \/ rd' = [rd EXCEPT ![r] = Gone]
      BY <1>0, <2>4 DEF BacklogEnd, Disconnect
    <3>3. rd' \in [Readers -> ReaderState]
      BY <2>0, <3>1, <3>2, ReaderAt
    <3> QED
      BY <1>0, <1>a, <1>b, <2>4, <3>3 DEF BacklogEnd, Disconnect
  <2>5. CASE TailEvent(r)
    <3> DEFINE e == Head(rd[r].rx)
               x == [rd[r] EXCEPT !.pc = IF rd[r].consume THEN "tailmark" ELSE @,
                                  !.rx = Tail(@),
                                  !.cur = IF rd[r].consume THEN e.seq ELSE 0,
                                  !.shown = @ \cup {e.seq}]
               y == [rd[r] EXCEPT !.rx = Tail(@)]
    <3>1. rd[r].rx \in Seq(Event) /\ rd[r].rx # << >>
      BY <2>0, <2>5 DEF TailEvent, ReaderState
    <3>2. e \in Event /\ Tail(rd[r].rx) \in Seq(Event)
      BY <3>1
    <3>3. e.seq \in Nat
      BY <3>2 DEF Event
    <3>4. \/ rd' = [rd EXCEPT ![r] = x] /\ told' = told \cup {e.seq}
          \/ rd' = [rd EXCEPT ![r] = y] /\ told' = told
      BY <1>0, <2>5 DEF TailEvent
    <3> HIDE DEF e
    <3>5. x \in ReaderState /\ y \in ReaderState
      BY <2>0, <3>2, <3>3 DEF ReaderState, RdPC
    <3> HIDE DEF x, y
    <3>6. rd' \in [Readers -> ReaderState]
      BY <3>4, <3>5, ReaderAt
    <3>7. told' \subseteq Nat
      BY <1>b, <3>3, <3>4
    <3> QED
      BY <1>0, <1>a, <1>b, <2>5, <3>6, <3>7 DEF TailEvent
  <2>6. CASE MarkRead(r)
    <3> DEFINE x == [rd[r] EXCEPT !.pc = IF @ = "mark" THEN "backlog" ELSE "tail",
                                  !.cur = 0]
    <3>1. x \in ReaderState
      BY <2>0 DEF ReaderState, RdPC
    <3>2. rd' = [rd EXCEPT ![r] = x]
      BY <1>0, <2>6 DEF MarkRead
    <3> HIDE DEF x
    <3>3. rd' \in [Readers -> ReaderState]
      BY <3>1, <3>2, ReaderAt
    <3>4. rd[r].cur \in Nat /\ TryMark(rd[r].cur)
      BY <2>0, <2>6 DEF MarkRead, ReaderState
    <3>5. /\ DOMAIN rows' \subseteq Nat \ {0}
          /\ \A t \in DOMAIN rows' : rows'[t] \in Row
          /\ missed' \subseteq Nat /\ faults' \in 0 .. MaxFaults
      BY <3>4, TryMarkType
    <3> QED
      BY <1>0, <1>a, <1>b, <2>6, <3>3, <3>5 DEF MarkRead
  <2> QED
    BY <1>3, <2>1, <2>2, <2>3, <2>4, <2>5, <2>6 DEF Recv
<1>4. CASE Launch
  <2>1. PICK p \in Prompts :
          /\ fed' = IF p THEN <<0>> ELSE << >>
          /\ sup' = [sup EXCEPT !.pc = IF p THEN "record" ELSE "drain",
                                !.active = p]
    BY <1>4 DEF Launch
  <2>2. p \in BOOLEAN
    BY AgentBusAssumption
  <2>3. fed' \in Seq(Nat)
    BY <2>1
  <2>4. sup' \in SupState
    BY <1>0, <2>1, <2>2 DEF SupState, SupPC
  <2> QED
    BY <1>0, <1>4, <1>a, <1>b, <2>3, <2>4 DEF Launch
<1>5. CASE Record
  <2>1. CASE Enqueue("child", "turn_input")
             /\ sup' = [sup EXCEPT !.pc = "recorded", !.cur = NextSeq]
             /\ prompt' = NextSeq /\ told' = told \cup {NextSeq}
             /\ UNCHANGED faults
    <3>1. /\ DOMAIN rows' \subseteq Nat \ {0}
          /\ \A s \in DOMAIN rows' : rows'[s] \in Row
          /\ pub' \subseteq Event
          /\ sent' \in Nat /\ NextSeq \in Nat
      BY <1>c, <1>d, <2>1
    <3>2. sup' \in SupState
      BY <1>0, <2>1, <3>1 DEF SupState, SupPC
    <3> QED
      BY <1>0, <1>5, <1>a, <1>b, <2>1, <3>1, <3>2 DEF Record
  <2>2. CASE Fault("enqueue") /\ To("drain")
             /\ UNCHANGED <<rows, pub, sent, prompt, told>>
    <3>1. sup' \in SupState
      BY <1>f, <2>2 DEF SupPC
    <3> QED
      BY <1>0, <1>5, <1>a, <1>b, <2>2, <3>1, FaultType DEF Record
  <2> QED
    BY <1>5, <2>1, <2>2 DEF Record
<1>6. CASE Recorded \/ Mark
  <2>1. sup.cur \in Nat /\ TryMark(sup.cur)
    BY <1>0, <1>6 DEF Recorded, Mark, SupState
  <2>2. /\ DOMAIN rows' \subseteq Nat \ {0}
        /\ \A t \in DOMAIN rows' : rows'[t] \in Row
        /\ missed' \subseteq Nat /\ faults' \in 0 .. MaxFaults
    BY <2>1, TryMarkType
  <2>3. sup' \in SupState
    <3>1. CASE Recorded
      BY <1>f, <3>1 DEF Recorded, SupPC
    <3>2. CASE Mark
      BY <1>g, <3>2 DEF Mark, SupPC
    <3> QED
      BY <1>6, <3>1, <3>2
  <2> QED
    BY <1>0, <1>6, <1>a, <1>b, <2>2, <2>3 DEF Recorded, Mark
<1>7. CASE Drain
  <2>1. Pending \in SUBSET Nat
    BY <1>b DEF Pending
  <2>2. sup' \in SupState
    <3>1. [sup EXCEPT !.pc = "feed", !.todo = Pending] \in SupState
      BY <1>0, <2>1 DEF SupState, SupPC
    <3>2. \A pc \in {"idle", "select"} : [sup EXCEPT !.pc = pc] \in SupState
      BY <1>g DEF SupPC
    <3>3. CASE To("exit")
      BY <1>f, <3>3 DEF SupPC
    <3> QED
      BY <1>7, <3>1, <3>2, <3>3 DEF Drain
  <2>3. faults' \in 0 .. MaxFaults
    BY <1>7, <1>b, FaultType DEF Drain
  <2> QED
    BY <1>0, <1>7, <1>a, <1>b, <2>2, <2>3 DEF Drain
<1>8. CASE Feed
  <2>1. PICK s \in sup.todo :
          IF alive
            THEN /\ fed' = Append(fed, s)
                 /\ told' = told \cup {s}
                 /\ sup' = [sup EXCEPT !.pc = "mark", !.cur = s]
            ELSE /\ To("exit")
                 /\ UNCHANGED <<fed, told>>
    BY <1>8 DEF Feed
  <2>2. s \in Nat
    BY <1>0 DEF SupState
  <2>3. sup' \in SupState
    <3>1. [sup EXCEPT !.pc = "mark", !.cur = s] \in SupState
      BY <1>0, <2>2 DEF SupState, SupPC
    <3>2. CASE To("exit")
      BY <1>f, <3>2 DEF SupPC
    <3> QED
      BY <2>1, <3>1, <3>2
  <2>4. fed' \in Seq(Nat) /\ told' \subseteq Nat
    <3>1. Append(fed, s) \in Seq(Nat) /\ told \cup {s} \subseteq Nat
      BY <1>b, <2>2
    <3> QED
      BY <1>b, <2>1, <3>1
  <2> QED
    BY <1>0, <1>8, <1>a, <1>b, <2>3, <2>4 DEF Feed
<1>9. CASE Running
  <2>1. sup.todo \ {sup.cur} \in SUBSET Nat
    BY <1>0 DEF SupState
  <2>2. sup' \in SupState
    <3> DEFINE T == sup.todo \ {sup.cur}
    <3>1. [sup EXCEPT !.pc = "feed", !.todo = T, !.cur = 0] \in SupState
      BY <1>0, <2>1 DEF SupState, SupPC
    <3>2. [sup EXCEPT !.pc = IF sup.poll THEN "idle" ELSE "select",
                      !.todo = {}, !.cur = 0,
                      !.active = TRUE, !.notified = FALSE] \in SupState
      BY <1>0 DEF SupState, SupPC
    <3> QED
      BY <1>9, <3>1, <3>2 DEF Running
  <2>3. faults' \in 0 .. MaxFaults
    BY <1>9, <1>b, FaultType DEF Running
  <2>4. status' \in {"starting", "running", "awaiting_input", "exited"}
    BY <1>9, <1>b DEF Running
  <2> QED
    BY <1>0, <1>9, <1>a, <1>b, <2>2, <2>3, <2>4 DEF Running
<1>10. CASE Wake \/ Poll
  <2>1. sup.idle \in BOOLEAN
    BY <1>0 DEF SupState
  <2>2. sup' \in SupState
    <3>1. /\ [sup EXCEPT !.pc = "drain", !.poll = FALSE] \in SupState
          /\ [sup EXCEPT !.pc = "drain", !.poll = sup.idle] \in SupState
      BY <1>0, <2>1 DEF SupState, SupPC
    <3> QED
      BY <1>10, <3>1 DEF Wake, Poll
  <2>3. wake' \in BOOLEAN
    BY <1>10, <1>b DEF Wake, Poll
  <2> QED
    BY <1>0, <1>10, <1>a, <1>b, <2>2, <2>3 DEF Wake, Poll
<1>11. CASE Idle \/ AssistantText
  <2>0. NextSeq \in Nat
    BY <1>b, NextSeqIsNext
  <2>a. PICK x \in SupState :
          /\ x.todo = sup.todo
          /\ \/ Tell(x)
             \/ /\ sup' = x /\ x.pc = "select"
                /\ UNCHANGED <<rows, pub, sent, faults>>
    BY <1>11, AsideEffect
  <2>1. sup' \in SupState
    BY <2>0, <2>a, TellEffect
  <2>2. \/ Enqueue("prime", "note") /\ UNCHANGED faults
        \/ Fault("enqueue") /\ UNCHANGED <<rows, pub, sent>>
        \/ UNCHANGED <<rows, pub, sent, faults>>
    BY <2>a, TellEffect
  <2>3. /\ DOMAIN rows' \subseteq Nat \ {0}
        /\ \A s \in DOMAIN rows' : rows'[s] \in Row
        /\ pub' \subseteq Event /\ sent' \in Nat
        /\ faults' \in 0 .. MaxFaults
    BY <1>b, <1>c, <1>d, <2>2, FaultType
  <2> QED
    BY <1>0, <1>11, <1>a, <1>b, <2>1, <2>3 DEF Idle, AssistantText
<1>12. CASE TurnComplete
  <2>1. sup' \in SupState
    BY <1>0, <1>12 DEF TurnComplete, SupState, SupPC
  <2> QED
    BY <1>0, <1>12, <1>a, <1>b, <2>1 DEF TurnComplete
<1>13. CASE Out
  <2>1. CASE Enqueue("prime", "note")
             /\ sup' = [sup EXCEPT !.pc = "await", !.cur = NextSeq]
             /\ outs' = outs + 1 /\ UNCHANGED faults
    <3>1. /\ DOMAIN rows' \subseteq Nat \ {0}
          /\ \A s \in DOMAIN rows' : rows'[s] \in Row
          /\ pub' \subseteq Event
          /\ sent' \in Nat /\ NextSeq \in Nat
      BY <1>c, <1>d, <2>1
    <3>2. sup' \in SupState
      BY <1>0, <2>1, <3>1 DEF SupState, SupPC
    <3> QED
      BY <1>0, <1>13, <1>a, <1>b, <2>1, <3>1, <3>2 DEF Out
  <2>2. CASE Fault("enqueue") /\ sup' = [sup EXCEPT !.pc = "await", !.cur = 0]
             /\ UNCHANGED <<rows, pub, sent, outs>>
    <3>1. sup' \in SupState
      BY <1>0, <2>2 DEF SupState, SupPC
    <3> QED
      BY <1>0, <1>13, <1>a, <1>b, <2>2, <3>1, FaultType DEF Out
  <2> QED
    BY <1>13, <2>1, <2>2 DEF Out
<1>14. CASE Await \/ Exited \/ FinishStatus \/ Told
  <2>1. sup' \in SupState
    BY <1>14, <1>f DEF Await, Exited, FinishStatus, Told, SupPC
  <2>2. faults' \in 0 .. MaxFaults
    BY <1>14, <1>b, FaultType DEF Await, Exited, FinishStatus, Told
  <2>3. status' \in {"starting", "running", "awaiting_input", "exited"}
    BY <1>14, <1>b DEF Await, Exited, FinishStatus, Told
  <2> QED
    BY <1>0, <1>14, <1>a, <1>b, <2>1, <2>2, <2>3 DEF Await, Exited, FinishStatus, Told
<1>15. CASE FinishTell
  <2>1. \/ /\ Enqueue("prime", "note") /\ UNCHANGED faults
           /\ sup' = [sup EXCEPT !.pc = "forget", !.cur = NextSeq]
        \/ Fault("enqueue") /\ To("forget") /\ UNCHANGED <<rows, pub, sent>>
    BY <1>15 DEF FinishTell
  <2>2. faults' \in 0 .. MaxFaults
    BY <1>b, <2>1, FaultType
  <2>3. /\ DOMAIN rows' \subseteq Nat \ {0}
        /\ \A s \in DOMAIN rows' : rows'[s] \in Row
        /\ pub' \subseteq Event
        /\ sent' \in Nat
    BY <1>b, <1>c, <1>d, <2>1
  <2>4. sup' \in SupState
    <3>1. NextSeq \in Nat
      BY <1>b, NextSeqIsNext
    <3>2. [sup EXCEPT !.pc = "forget", !.cur = NextSeq] \in SupState
      BY <1>0, <3>1 DEF SupState, SupPC
    <3>3. CASE To("forget")
      BY <1>f, <3>3 DEF SupPC
    <3> QED
      BY <2>1, <3>2, <3>3
  <2> QED
    BY <1>0, <1>15, <1>a, <1>b, <2>2, <2>3, <2>4 DEF FinishTell
<1>20. CASE Forget
  BY <1>0, <1>20, <1>a, <1>b, <1>e DEF Forget
<1>16. CASE FinishTurn \/ Die
  <2>1. CASE FinishTurn
    <3>1. finished' \in Nat
      BY <1>b, <2>1 DEF FinishTurn
    <3> QED
      BY <1>0, <1>a, <1>b, <2>1, <3>1 DEF FinishTurn
  <2>2. CASE Die
    BY <1>0, <1>a, <1>b, <2>2 DEF Die
  <2> QED
    BY <1>16, <2>1, <2>2
<1>17. CASE Kill
  <2>1. sup.cur \in Nat
    BY <1>0 DEF SupState
  <2>2. pub' \subseteq Event /\ unheard' \subseteq Nat
    BY <1>17, <1>b, <2>1 DEF Kill
  <2> QED
    BY <1>0, <1>17, <1>a, <1>b, <1>e, <2>2 DEF Kill
<1>18. CASE Restart
  <2>1. rd' \in [Readers -> ReaderState]
    BY <1>0, <1>18, NoReaderType DEF Restart
  <2> QED
    BY <1>0, <1>18, <1>a, <1>b, <1>e, <2>1, FaultType DEF Restart
<1>19. CASE UNCHANGED vars
  BY <1>0, <1>19, <1>a, <1>b DEF vars
<1> QED
  BY <1>1, <1>2, <1>3, <1>4, <1>5, <1>6, <1>7, <1>8, <1>9, <1>10, <1>11, <1>12,
     <1>13, <1>14, <1>15, <1>16, <1>17, <1>18, <1>19, <1>20
     DEF Next, Supervisor, Work

\* Message t is about to be marked, by the supervisor or by a reader.
Marking(t) ==
    \/ sup.pc \in {"recorded", "mark"} /\ t = sup.cur
    \/ \E r \in Readers : rd[r].pc \in {"mark", "tailmark"} /\ t = rd[r].cur

\* What a step can do to the table: nothing, append, or mark.
LEMMA TableStep ==
    ASSUME [Next]_vars
    PROVE  \/ UNCHANGED <<rows, sent>>
           \/ \E to \in Agents, kind \in Kinds : Stores(to, kind)
           \/ \E t : Marking(t) /\ MarkConsumed(t) /\ UNCHANGED sent
<1> USE DEF disk, harness, history
<1> DEFINE Goal == \/ UNCHANGED <<rows, sent>>
                   \/ \E to \in Agents, kind \in Kinds : Stores(to, kind)
                   \/ \E t : Marking(t) /\ MarkConsumed(t) /\ UNCHANGED sent
<1>0. /\ "child" \in Agents /\ "prime" \in Agents
      /\ "turn_input" \in Kinds /\ "note" \in Kinds
  BY DEF Agents, Kinds
<1>1. CASE Sends
  BY <1>0, <1>1, SendsAre, SendsStore DEF Posting, HangingUp
<1>2. CASE Recorded \/ Mark
  <2>1. TryMark(sup.cur) /\ Marking(sup.cur) /\ UNCHANGED sent
    BY <1>2 DEF Recorded, Mark, Marking
  <2> QED
    BY <2>1 DEF TryMark
<1>3. ASSUME NEW r \in Readers, Recv(r)
      PROVE  Goal
  <2>1. CASE MarkRead(r)
    <3>1. TryMark(rd[r].cur) /\ Marking(rd[r].cur) /\ UNCHANGED sent
      BY <2>1 DEF MarkRead, Marking
    <3> QED
      BY <3>1 DEF TryMark
  <2> QED
    BY <1>3, <2>1 DEF Recv, Subscribe, Query, WriteRow, BacklogEnd, TailEvent,
                      Disconnect
<1>4. CASE Record \/ Idle \/ AssistantText \/ Out \/ FinishTell
  <2>1. \/ Enqueue("child", "turn_input") \/ Enqueue("prime", "note")
        \/ UNCHANGED <<rows, sent>>
    BY <1>4 DEF Record, Idle, AssistantText, Tell, Out, FinishTell
  <2> QED
    BY <1>0, <2>1, SendsStore
<1>5. CASE \/ \E e \in pub : Publish(e)
           \/ Launch \/ Drain \/ Feed \/ Running \/ Await \/ FinishStatus \/ Wake
           \/ Poll \/ TurnComplete \/ Exited \/ FinishTurn \/ Die \/ Kill \/ Restart
           \/ Told \/ Forget \/ UNCHANGED vars
  BY <1>5 DEF Publish, Launch, Drain, Feed, Running, Await, FinishStatus, Wake,
              Poll, TurnComplete, Exited, FinishTurn, Die, Kill, Restart, Told,
              Forget, vars
<1> QED
  BY <1>1, <1>2, <1>3, <1>4, <1>5 DEF Next, Supervisor, Work

LEMMA RetentionStep ==
    ASSUME TypeOK, Retention, [Next]_vars
    PROVE  Retention'
  BY TableStep, StoresEffect, MarkEffect DEF Retention

\* Numbers are not reused, rows are not readdressed, marks are not undone.
LEMMA RowsKeep ==
    ASSUME TypeOK, Retention, [Next]_vars, NEW s \in DOMAIN rows'
    PROVE  \/ /\ s \in DOMAIN rows
              /\ rows'[s].to = rows[s].to /\ rows'[s].kind = rows[s].kind
              /\ rows[s].consumed => rows'[s].consumed
              /\ rows'[s].consumed => rows[s].consumed \/ Marking(s)
              /\ sent <= sent'
           \/ /\ s = sent + 1 /\ sent' = sent + 1 /\ ~rows'[s].consumed
              /\ s \in unheard' \/ \E e \in pub' : e.seq = s /\ e.to = rows'[s].to
<1>0. sent \in Nat
  BY DEF TypeOK
<1>1. CASE UNCHANGED <<rows, sent>>
  BY <1>0, <1>1
<1>2. ASSUME NEW to \in Agents, NEW kind \in Kinds, Stores(to, kind)
      PROVE  \/ s \in DOMAIN rows /\ rows'[s] = rows[s] /\ sent <= sent'
             \/ /\ s = sent + 1 /\ sent' = sent + 1 /\ ~rows'[s].consumed
                /\ s \in unheard' \/ \E e \in pub' : e.seq = s /\ e.to = rows'[s].to
  <2> DEFINE n == sent + 1
             e == [seq |-> n, to |-> to]
  <2>1. /\ sent' = n
        /\ rows'[n] = [to |-> to, kind |-> kind, consumed |-> FALSE]
        /\ \A t \in DOMAIN rows' : t # n => t \in DOMAIN rows /\ rows'[t] = rows[t]
        /\ e \in pub' \/ n \in unheard'
    BY <1>2, StoresEffect
  <2>2. e.seq = n /\ e.to = to
    OBVIOUS
  <2>3. sent <= n
    BY <1>0
  <2> HIDE DEF e, n
  <2>4. CASE s # n
    BY <2>1, <2>3, <2>4
  <2>5. CASE s = n
    <3>1. rows'[s].to = to /\ ~rows'[s].consumed
      BY <2>1, <2>5
    <3> QED
      BY <2>1, <2>2, <2>5, <3>1 DEF n
  <2> QED
    BY <2>4, <2>5
<1>3. ASSUME NEW t, Marking(t), MarkConsumed(t), UNCHANGED sent
      PROVE  /\ s \in DOMAIN rows
             /\ rows'[s].to = rows[s].to /\ rows'[s].kind = rows[s].kind
             /\ rows[s].consumed => rows'[s].consumed
             /\ rows'[s].consumed => rows[s].consumed \/ Marking(s)
             /\ sent <= sent'
  BY <1>0, <1>3, MarkEffect
<1> QED
  BY <1>1, <1>2, <1>3, TableStep

-----------------------------------------------------------------------------
(* Written before marked.                                                  *)

LEMMA ToldGrows ==
    ASSUME [Next]_vars
    PROVE  told \subseteq told'
  BY DEF Next, vars, disk, harness, history, Sends, WebBroadcast, WebSend,
         AgentSend, HangUp, Publish, Recv, Subscribe, Query, WriteRow, BacklogEnd,
         TailEvent, MarkRead, Disconnect, Supervisor, Work, Launch, Record,
         Recorded, Drain, Feed, Mark, Running, Wake, Poll, Idle, AssistantText, Tell, Told, Forget,
         TurnComplete, Out, Await, Exited, FinishStatus, FinishTell, End,
         FinishTurn, Die, Kill, Restart

\* What was stored without being sent stays so.
LEMMA UnheardGrows ==
    ASSUME [Next]_vars
    PROVE  unheard \subseteq unheard'
  BY DEF Next, vars, disk, harness, history, Sends, WebBroadcast, WebSend,
         AgentSend, HangUp, Publish, Recv, Subscribe, Query, WriteRow, BacklogEnd,
         TailEvent, MarkRead, Disconnect, Supervisor, Work, Launch, Record,
         Recorded, Drain, Feed, Mark, Running, Wake, Poll, Idle, AssistantText, Tell, Told, Forget,
         TurnComplete, Out, Await, Exited, FinishStatus, FinishTell, End,
         FinishTurn, Die, Kill, Restart

\* Who writes to the supervisor's state, and to the readers'.
LEMMA SupWriters ==
    ASSUME [Next]_vars
    PROVE  UNCHANGED sup \/ Supervisor \/ Kill \/ Restart
  BY DEF Next, vars, disk, harness, history, Sends, WebBroadcast, WebSend,
         AgentSend, HangUp, Publish, Recv, Subscribe, Query, WriteRow, BacklogEnd,
         TailEvent, MarkRead, Disconnect, FinishTurn, Die

LEMMA ReaderWriters ==
    ASSUME [Next]_vars
    PROVE  \/ UNCHANGED rd
           \/ \E e \in pub : Publish(e)
           \/ \E r \in Readers : Recv(r)
           \/ Restart
  BY DEF Next, vars, disk, harness, history, Sends, WebBroadcast, WebSend,
         AgentSend, HangUp, Supervisor, Work, Launch, Record, Recorded, Drain, Feed,
         Mark, Running, Wake, Poll, Idle, AssistantText, Tell, Told, Forget, TurnComplete, Out,
         Await, Exited, FinishStatus, FinishTell, FinishTurn, Die, Kill

LEMMA WrittenStep ==
    ASSUME TypeOK, WrittenBeforeMark, [Next]_vars
    PROVE  WrittenBeforeMark'
<1>0. sup \in SupState /\ rd \in [Readers -> ReaderState]
  BY StateTypes
<1>a. told \subseteq told'
  BY ToldGrows
<1>1. sup'.pc \in {"recorded", "mark"} => sup'.cur \in told'
  <2>1. CASE UNCHANGED sup
    BY <1>a, <2>1 DEF WrittenBeforeMark
  <2>2. CASE Record
    <3>1. CASE To("drain")
      BY <1>0, <3>1 DEF To, SupState
    <3>2. CASE /\ sup' = [sup EXCEPT !.pc = "recorded", !.cur = NextSeq]
               /\ told' = told \cup {NextSeq}
      BY <1>0, <3>2 DEF SupState
    <3> QED
      BY <2>2, <3>1, <3>2 DEF Record
  <2>3. CASE Feed
    <3>1. CASE To("exit")
      BY <1>0, <3>1 DEF To, SupState
    <3>2. ASSUME NEW t, sup' = [sup EXCEPT !.pc = "mark", !.cur = t],
                 told' = told \cup {t}
          PROVE  sup'.cur \in told'
      BY <1>0, <3>2 DEF SupState
    <3> QED
      BY <2>3, <3>1, <3>2 DEF Feed
  <2>4. CASE \/ Launch \/ Recorded \/ Drain \/ Mark \/ Running \/ Idle \/ Out
             \/ Await \/ FinishStatus \/ Told \/ FinishTell
    BY <1>0, <2>4 DEF Launch, Recorded, Drain, Mark, Running, Idle, Tell, Out, Await,
                      FinishStatus, Told, FinishTell, To, SupState
  <2>5. CASE \/ Wake \/ Poll \/ AssistantText \/ TurnComplete \/ Exited
    BY <1>0, <2>5 DEF Wake, Poll, AssistantText, Tell, TurnComplete, Exited,
                      To, SupState
  <2>6. CASE Forget \/ Kill \/ Restart
    BY <1>0, <2>6 DEF Forget, Kill, Restart, End, SupState
  <2> QED
    BY <2>1, <2>2, <2>3, <2>4, <2>5, <2>6, SupWriters DEF Supervisor, Work
<1>2. ASSUME NEW r \in Readers, rd'[r].pc \in {"mark", "tailmark"}
      PROVE  rd'[r].cur \in told'
  <2>0. rd[r] \in ReaderState
    BY <1>0
  <2>a. ASSUME rd'[r].pc = rd[r].pc, rd'[r].cur = rd[r].cur
        PROVE  rd'[r].cur \in told'
    BY <1>2, <1>a, <2>a DEF WrittenBeforeMark
  <2>1. CASE rd'[r] = rd[r]
    BY <2>1, <2>a
  <2>2. ASSUME NEW e \in pub, Publish(e)
        PROVE  rd'[r].cur \in told'
    <3>1. rd'[r] = IF rd[r].pc \in {"off", "done"} \/ ~rd[r].follow THEN rd[r]
                   ELSE [rd[r] EXCEPT !.rx = Receive(@, e),
                                      !.lagged = @ \/ Len(rd[r].rx) = BcastCap]
      BY <2>2 DEF Publish
    <3>2. rd'[r].pc = rd[r].pc /\ rd'[r].cur = rd[r].cur
      BY <2>0, <3>1 DEF ReaderState
    <3> QED
      BY <2>a, <3>2
  <2>3. CASE Restart
    <3>1. rd'[r] = NoReader \/ rd'[r] = Gone
      BY <2>3 DEF Restart
    <3> QED
      BY <1>2, <3>1 DEF NoReader, Gone
  <2>4. ASSUME NEW q \in Readers, Recv(q), rd'[r] # rd[r]
        PROVE  rd'[r].cur \in told'
    <3>1. CASE WriteRow(q)
      <4>1. PICK t : /\ rd' = [rd EXCEPT
                                 ![q].pc = IF rd[q].consume THEN "mark" ELSE @,
                                 ![q].todo = @ \ {t},
                                 ![q].cur = IF rd[q].consume THEN t ELSE 0,
                                 ![q].shown = @ \cup {t}]
                     /\ told' = told \cup {t} /\ rd[q].pc = "backlog"
        BY <3>1 DEF WriteRow
      <4>2. r = q
        BY <1>0, <2>4, <4>1
      <4>3. /\ rd'[r].pc = IF rd[r].consume THEN "mark" ELSE "backlog"
            /\ rd'[r].cur = IF rd[r].consume THEN t ELSE 0
        BY <1>0, <2>0, <4>1, <4>2 DEF ReaderState
      <4> QED
        BY <1>2, <4>1, <4>3
    <3>2. CASE TailEvent(q)
      <4> DEFINE e == Head(rd[q].rx)
      <4>1. r = q
        BY <1>0, <2>4, <3>2 DEF TailEvent
      <4>2. CASE /\ rd' = [rd EXCEPT
                            ![q].pc = IF rd[q].consume THEN "tailmark" ELSE @,
                            ![q].rx = Tail(@),
                            ![q].cur = IF rd[q].consume THEN e.seq ELSE 0,
                            ![q].shown = @ \cup {e.seq}]
                 /\ told' = told \cup {e.seq}
        <5>1. /\ rd'[r].pc = IF rd[r].consume THEN "tailmark" ELSE rd[r].pc
              /\ rd'[r].cur = IF rd[r].consume THEN e.seq ELSE 0
          BY <1>0, <2>0, <4>1, <4>2 DEF ReaderState
        <5> QED
          BY <1>2, <3>2, <4>1, <4>2, <5>1 DEF TailEvent
      <4>3. CASE rd' = [rd EXCEPT ![q].rx = Tail(@)]
        <5>1. rd'[r].pc = rd[r].pc /\ rd'[r].cur = rd[r].cur
          BY <1>0, <2>0, <4>1, <4>3 DEF ReaderState
        <5> QED
          BY <2>a, <5>1
      <4> QED
        BY <3>2, <4>2, <4>3 DEF TailEvent
    <3>3. CASE \E m \in RecvModes : Subscribe(q, m)
      <4>1. r = q
        BY <1>0, <2>4, <3>3 DEF Subscribe
      <4>2. rd'[r].pc = "query"
        BY <1>0, <3>3, <4>1 DEF Subscribe, NoReader
      <4> QED
        BY <1>2, <4>2
    <3>4. CASE Query(q) \/ BacklogEnd(q) \/ MarkRead(q) \/ Disconnect(q)
      <4>1. r = q
        BY <1>0, <2>4, <3>4 DEF Query, BacklogEnd, MarkRead, Disconnect
      <4>2. rd'[r].pc \in {"backlog", "tail", "done"}
        <5>1. Query(q) => rd'[r].pc = "backlog"
          BY <4>1, QueryKeeps
        <5>2. ~Query(q) => rd'[r].pc \in {"backlog", "tail", "done"}
          BY <1>0, <2>0, <3>4, <4>1
             DEF BacklogEnd, MarkRead, Disconnect, Gone, NoReader, ReaderState
        <5> QED
          BY <5>1, <5>2
      <4> QED
        BY <1>2, <4>2
    <3> QED
      BY <2>4, <3>1, <3>2, <3>3, <3>4 DEF Recv
  <2> QED
    BY <2>1, <2>2, <2>3, <2>4, ReaderWriters
<1> QED
  BY <1>1, <1>2 DEF WrittenBeforeMark

LEMMA ConsumedStep ==
    ASSUME TypeOK, Retention, ConsumedWasDelivered, WrittenBeforeMark, [Next]_vars
    PROVE  ConsumedWasDelivered'
<1> SUFFICES ASSUME NEW s \in DOMAIN rows', rows'[s].consumed
             PROVE  s \in told'
  BY DEF ConsumedWasDelivered
<1>1. s \in DOMAIN rows /\ (rows[s].consumed \/ Marking(s))
  BY RowsKeep
<1>2. s \in told
  BY <1>1 DEF ConsumedWasDelivered, WrittenBeforeMark, Marking
<1> QED
  BY <1>2, ToldGrows

-----------------------------------------------------------------------------
(* Outputs before the status.                                              *)

LEMMA ResultsStep ==
    ASSUME TypeOK, ResultsStored, [Next]_vars
    PROVE  ResultsStored'
<1> USE DEF disk, harness, history
<1>0. /\ sup \in SupState
      /\ reported \in Nat /\ outs \in Nat /\ faults \in Nat
  <2>1. faults \in 0 .. MaxFaults /\ reported \in Nat /\ outs \in Nat
    BY DEF TypeOK
  <2> QED
    BY <2>1, StateTypes
<1>1. CASE TurnComplete
  <2>1. sup.pc # "out" /\ sup'.pc = "out"
    BY <1>0, <1>1 DEF TurnComplete, SupState
  <2>2. reported' = reported + 1 /\ outs' = outs /\ faults' = faults
    BY <1>1 DEF TurnComplete
  <2> QED
    BY <1>0, <2>1, <2>2 DEF ResultsStored
<1>2. CASE Out
  <2>1. sup.pc = "out" /\ sup'.pc = "await"
    BY <1>0, <1>2 DEF Out, SupState
  <2>2. /\ reported' = reported
        /\ \/ outs' = outs + 1 /\ faults' = faults
           \/ outs' = outs /\ faults' = faults + 1
    BY <1>2 DEF Out, Fault
  <2> QED
    BY <1>0, <2>1, <2>2 DEF ResultsStored
<1>3. CASE Forget \/ Kill \/ Restart
  <2>1. reported' = 0 /\ outs' = 0 /\ sup'.pc = "ended"
    BY <1>0, <1>3 DEF Forget, Kill, Restart, End, SupState
  <2>2. faults' \in Nat
    BY <1>0, <1>3 DEF Forget, Kill, Restart, Fault
  <2>3. \A n \in Nat : 0 <= 0 + n + 0
    OBVIOUS
  <2>4. 0 <= 0 + faults' + 0
    BY <2>2, <2>3
  <2> QED
    BY <2>1, <2>4 DEF ResultsStored
<1>4. ASSUME UNCHANGED <<reported, outs>>,
             faults' = faults \/ faults' = faults + 1,
             sup'.pc # "out" => sup.pc # "out"
      PROVE  ResultsStored'
  BY <1>0, <1>4 DEF ResultsStored
<1>5. CASE Supervisor
  <2>1. CASE Launch \/ Record \/ Recorded \/ Drain \/ Feed \/ Mark
    BY <1>4, <2>1 DEF Launch, Record, Recorded, Drain, Feed, Mark, TryMark, Fault
  <2>2. CASE Running \/ Idle \/ Told \/ Await \/ FinishStatus \/ FinishTell
    BY <1>4, <2>2 DEF Running, Idle, Tell, Told, Await, FinishStatus, FinishTell, Fault
  <2>3. CASE Wake \/ Poll \/ AssistantText \/ Exited
    BY <1>4, <2>3 DEF Wake, Poll, AssistantText, Tell, Exited, Fault
  <2> QED
    BY <1>1, <1>2, <1>3, <1>5, <2>1, <2>2, <2>3 DEF Supervisor, Work
<1>6. CASE Sends \/ FinishTurn \/ Die \/ UNCHANGED vars \/ \E e \in pub : Publish(e)
  BY <1>4, <1>6, SendsAre DEF Posting, HangingUp, HangUp, Fault, FinishTurn, Die,
                              vars, Publish
<1>7. ASSUME NEW r \in Readers, Recv(r)
      PROVE  ResultsStored'
  BY <1>4, <1>7 DEF Recv, Subscribe, Query, WriteRow, BacklogEnd, TailEvent,
                    MarkRead, Disconnect, TryMark, Fault
<1> QED
  BY <1>3, <1>5, <1>6, <1>7 DEF Next

-----------------------------------------------------------------------------
(* The seam of backlog and live tail.                                      *)

\* What a step can do to the subscription of a reader.
LEMMA RxMoves ==
    ASSUME TypeOK, [Next]_vars, NEW r \in Readers
    PROVE  \/ rd'[r].rx = rd[r].rx
           \/ rd'[r].rx = << >>
           \/ rd'[r].rx = Tail(rd[r].rx) /\ rd[r].rx # << >>
           \/ \E e \in pub : rd'[r].rx = Receive(rd[r].rx, e)
<1>0. rd \in [Readers -> ReaderState] /\ rd[r] \in ReaderState
  BY StateTypes
<1> DEFINE Goal == \/ rd'[r].rx = rd[r].rx
                   \/ rd'[r].rx = << >>
                   \/ rd'[r].rx = Tail(rd[r].rx) /\ rd[r].rx # << >>
                   \/ \E e \in pub : rd'[r].rx = Receive(rd[r].rx, e)
<1>1. ASSUME NEW e \in pub, Publish(e)
      PROVE  Goal
  <2>1. rd'[r] = IF rd[r].pc \in {"off", "done"} \/ ~rd[r].follow THEN rd[r]
                 ELSE [rd[r] EXCEPT !.rx = Receive(@, e),
                                    !.lagged = @ \/ Len(rd[r].rx) = BcastCap]
    BY <1>1 DEF Publish
  <2>2. rd'[r].rx = rd[r].rx \/ rd'[r].rx = Receive(rd[r].rx, e)
    BY <1>0, <2>1 DEF ReaderState
  <2> QED
    BY <2>2
<1>2. CASE Restart
  <2>1. rd'[r] = NoReader \/ rd'[r] = Gone
    BY <1>2 DEF Restart
  <2> QED
    BY <2>1 DEF NoReader, Gone
<1>3. ASSUME NEW q \in Readers, Recv(q), rd'[r] # rd[r]
      PROVE  Goal
  <2>1. CASE TailEvent(q)
    <3>1. r = q
      BY <1>0, <1>3, <2>1 DEF TailEvent
    <3>2. rd'[r].rx = Tail(rd[r].rx) /\ rd[r].rx # << >>
      BY <1>0, <2>1, <3>1 DEF TailEvent, ReaderState
    <3> QED
      BY <3>2
  <2>2. CASE \E m \in RecvModes : Subscribe(q, m)
    <3>1. r = q
      BY <1>0, <1>3, <2>2 DEF Subscribe
    <3>2. rd'[r].rx = << >>
      BY <1>0, <2>2, <3>1 DEF Subscribe, NoReader
    <3> QED
      BY <3>2
  <2>3. CASE Query(q) \/ BacklogEnd(q) \/ MarkRead(q) \/ Disconnect(q)
    <3>1. r = q
      BY <1>0, <1>3, <2>3 DEF Query, BacklogEnd, MarkRead, Disconnect
    <3>2. Query(q) => rd'[r].rx = rd[r].rx
      BY <3>1, QueryKeeps
    <3>3. ~Query(q) => rd'[r].rx = rd[r].rx \/ rd'[r].rx = << >>
      BY <1>0, <2>3, <3>1
         DEF BacklogEnd, MarkRead, Disconnect, Gone, NoReader, ReaderState
    <3> QED
      BY <3>2, <3>3
  <2>4. CASE WriteRow(q)
    <3>1. r = q
      BY <1>0, <1>3, <2>4 DEF WriteRow
    <3>2. rd'[r].rx = rd[r].rx
      BY <1>0, <2>4, <3>1 DEF WriteRow, ReaderState
    <3> QED
      BY <3>2
  <2> QED
    BY <1>3, <2>1, <2>2, <2>3, <2>4 DEF Recv
<1> QED
  BY <1>1, <1>2, <1>3, ReaderWriters

\* A subscription holds what was published to it, and never more than fits.
LEMMA RxStep ==
    ASSUME TypeOK, [Next]_vars, NEW r \in Readers
    PROVE  /\ \A i \in DOMAIN rd'[r].rx : rd'[r].rx[i] \in pub \cup Range(rd[r].rx)
           /\ Len(rd[r].rx) <= BcastCap => Len(rd'[r].rx) <= BcastCap
<1> DEFINE q == rd[r].rx
           n == rd'[r].rx
           Goal == /\ \A i \in DOMAIN n : n[i] \in pub \cup Range(q)
                   /\ Len(q) <= BcastCap => Len(n) <= BcastCap
<1>0. q \in Seq(Event) /\ pub \subseteq Event /\ BcastCap \in Nat \ {0}
  BY StateTypes, AgentBusAssumption DEF ReaderState, TypeOK, Event
<1> HIDE DEF q, n
<1>1. ASSUME n = q PROVE Goal
  BY <1>1 DEF Range
<1>2. ASSUME n = << >> PROVE Goal
  BY <1>0, <1>2
<1>3. ASSUME n = Tail(q), q # << >> PROVE Goal
  <2>1. \A i \in DOMAIN n : i + 1 \in DOMAIN q /\ n[i] = q[i + 1]
    BY <1>0, <1>3
  <2>2. Len(n) = Len(q) - 1 /\ Len(q) \in Nat
    BY <1>0, <1>3
  <2> QED
    BY <1>0, <2>1, <2>2 DEF Range
<1>4. ASSUME NEW e \in pub, n = Receive(q, e)
      PROVE  Goal
  <2>0. e \in Event
    BY <1>0
  <2>1. CASE n = Append(q, e) /\ Len(q) < BcastCap
    <3>1. \A i \in DOMAIN n : (i \in DOMAIN q /\ n[i] = q[i]) \/ n[i] = e
      BY <1>0, <2>0, <2>1
    <3>2. Len(n) = Len(q) + 1 /\ Len(q) \in Nat
      BY <1>0, <2>0, <2>1
    <3> QED
      BY <1>0, <2>1, <3>1, <3>2 DEF Range
  <2>2. CASE n = Append(Tail(q), e) /\ q # << >>
    <3>1. \A i \in DOMAIN n : (i + 1 \in DOMAIN q /\ n[i] = q[i + 1]) \/ n[i] = e
      BY <1>0, <2>0, <2>2
    <3>2. Len(n) = Len(q)
      BY <1>0, <2>0, <2>2
    <3> QED
      BY <1>0, <3>1, <3>2 DEF Range
  <2>3. Len(q) < BcastCap \/ q # << >>
    BY <1>0
  <2> QED
    BY <1>4, <2>1, <2>2, <2>3 DEF Receive
<1>5. Goal
  BY <1>1, <1>2, <1>3, <1>4, RxMoves DEF q, n
<1> QED
  BY <1>5 DEF q, n

\* What is about to be published has been stored just now or before.
LEMMA PubStep ==
    ASSUME TypeOK, Retention, [Next]_vars, NEW e \in pub'
    PROVE  \/ e \in pub
           \/ /\ e.seq = sent + 1 /\ sent' = sent + 1
              /\ e.seq \in DOMAIN rows' /\ rows'[e.seq].to = e.to
<1> USE DEF disk, harness, history
<1>1. CASE pub' \subseteq pub
  BY <1>1
<1>2. ASSUME NEW to \in Agents, NEW kind \in Kinds, Enqueue(to, kind), e \notin pub
      PROVE  /\ e.seq = sent + 1 /\ sent' = sent + 1
             /\ e.seq \in DOMAIN rows' /\ rows'[e.seq].to = e.to
  <2>1. /\ sent' = sent + 1
        /\ sent + 1 \in DOMAIN rows'
        /\ rows'[sent + 1] = [to |-> to, kind |-> kind, consumed |-> FALSE]
        /\ e = [seq |-> sent + 1, to |-> to]
    BY <1>2, EnqueueEffect
  <2>2. e.seq = sent + 1 /\ e.to = to
    BY <2>1
  <2>3. rows'[sent + 1].to = to
    BY <2>1
  <2> QED
    BY <2>1, <2>2, <2>3
<1>3. \/ pub' \subseteq pub
      \/ \E to \in Agents, kind \in Kinds : Enqueue(to, kind)
  <2>0. /\ "child" \in Agents /\ "prime" \in Agents
        /\ "turn_input" \in Kinds /\ "note" \in Kinds
    BY DEF Agents, Kinds
  <2>1. CASE Sends
    BY <2>1, SendsAre DEF Posting, HangingUp, HangUp
  <2>2. CASE Record \/ Idle \/ AssistantText \/ Out \/ FinishTell
    <3>1. \/ Enqueue("child", "turn_input") \/ Enqueue("prime", "note")
          \/ UNCHANGED pub
      BY <2>2 DEF Record, Idle, AssistantText, Tell, Out, FinishTell
    <3> QED
      BY <2>0, <3>1
  <2>3. CASE Supervisor /\ ~(Record \/ Idle \/ AssistantText \/ Out \/ FinishTell)
    BY <2>3 DEF Supervisor, Work, Launch, Recorded, Drain, Feed, Mark, Running,
                Await, FinishStatus, Wake, Poll, TurnComplete, Exited, Told, Forget
  <2>4. CASE \/ \E x \in pub : Publish(x)
             \/ FinishTurn \/ Die \/ Kill \/ Restart \/ UNCHANGED vars
    BY <2>4 DEF Publish, FinishTurn, Die, Kill, Restart, vars
  <2>5. CASE \E r \in Readers : Recv(r)
    BY <2>5 DEF Recv, Subscribe, Query, WriteRow, BacklogEnd, TailEvent, MarkRead,
                Disconnect
  <2> QED
    BY <2>1, <2>2, <2>3, <2>4, <2>5 DEF Next
<1> QED
  BY <1>1, <1>2, <1>3

LEMMA EventsStep ==
    ASSUME TypeOK, Retention, EventsTrue, [Next]_vars
    PROVE  EventsTrue'
<1>0. sent \in Nat /\ sent' \in Nat /\ sent <= sent'
  <2>1. sent \in Nat
    BY DEF TypeOK
  <2>2. sent' = sent \/ sent' = sent + 1
    BY TableStep, StoresEffect
  <2> QED
    BY <2>1, <2>2
<1>1. ASSUME NEW e, EventTrue(e)
      PROVE  EventTrue(e)'
  <2>1. e.seq \in 1 .. sent'
    BY <1>0, <1>1 DEF EventTrue
  <2>2. ASSUME e.seq \in DOMAIN rows'
        PROVE  rows'[e.seq].to = e.to
    <3>1. e.seq # sent + 1
      BY <1>0, <1>1 DEF EventTrue
    <3>2. e.seq \in DOMAIN rows /\ rows'[e.seq].to = rows[e.seq].to
      BY <2>2, <3>1, RowsKeep
    <3> QED
      BY <1>1, <3>2 DEF EventTrue
  <2> QED
    BY <2>1, <2>2 DEF EventTrue
<1>2. ASSUME NEW e \in pub'
      PROVE  EventTrue(e)'
  <2>1. CASE e \in pub
    BY <1>1, <2>1 DEF EventsTrue
  <2>2. CASE e \notin pub
    <3>1. /\ e.seq = sent + 1 /\ sent' = sent + 1
          /\ e.seq \in DOMAIN rows' /\ rows'[e.seq].to = e.to
      BY <2>2, PubStep
    <3> QED
      BY <1>0, <3>1 DEF EventTrue
  <2> QED
    BY <2>1, <2>2
<1>3. ASSUME NEW r \in Readers, NEW i \in DOMAIN rd'[r].rx
      PROVE  LET e == rd'[r].rx[i] IN
             /\ e.seq \in 1 .. sent'
             /\ e.seq \in DOMAIN rows' => rows'[e.seq].to = e.to
  <2> PICK e : e = rd'[r].rx[i]
    OBVIOUS
  <2>1. e \in pub \cup Range(rd[r].rx)
    BY RxStep
  <2>2. EventTrue(e)
    BY <2>1 DEF EventsTrue, Range
  <2>3. EventTrue(e)'
    BY <1>1, <2>2
  <2> QED
    BY <2>3 DEF EventTrue
<1> QED
  BY <1>2, <1>3 DEF EventsTrue, EventTrue

\* Reader r follows its agent's messages and has missed none.
Following(r) ==
    /\ rd[r].pc \notin {"off", "query", "done"}
    /\ rd[r].consume /\ rd[r].follow /\ ~rd[r].lagged

\* Message s is on its way to reader r, or has been written to it, or is one of
\* those that never come.
OnItsWay(r, s) ==
    \/ s \in rd[r].todo \cup rd[r].shown
    \/ \E e \in Range(rd[r].rx) \cup pub : e.seq = s
    \/ s \in rd[r].cut \cup unheard

\* A step loses nothing of what is on its way to a reader that keeps following.
LEMMA WayKept ==
    ASSUME TypeOK, EventsTrue, RxBounded, [Next]_vars, NEW r \in Readers,
           Following(r), Following(r)', NEW s \in DOMAIN rows,
           rows[s].to = rd[r].agent, OnItsWay(r, s)
    PROVE  OnItsWay(r, s)' /\ rd'[r].agent = rd[r].agent
<1> USE DEF disk, harness, history
<1> DEFINE Goal == OnItsWay(r, s)' /\ rd'[r].agent = rd[r].agent
<1>0. /\ rd \in [Readers -> ReaderState] /\ rd[r] \in ReaderState
      /\ rd[r].rx \in Seq(Event)
  BY StateTypes DEF ReaderState
<1>u. unheard \subseteq unheard'
  BY UnheardGrows
<1>1. ASSUME rd'[r] = rd[r], \A e \in pub : e \in pub' \/ e.seq \in unheard'
      PROVE  Goal
  <2>1. \/ s \in rd'[r].todo \cup rd'[r].shown
        \/ \E e \in Range(rd'[r].rx) \cup pub' : e.seq = s
        \/ s \in rd'[r].cut \cup unheard'
    BY <1>1, <1>u DEF OnItsWay
  <2> QED
    BY <1>1, <2>1 DEF OnItsWay, Range
<1>2. ASSUME NEW x \in pub, Publish(x)
      PROVE  Goal
  <2>1. rd'[r] = [rd[r] EXCEPT !.rx = Receive(@, x),
                               !.lagged = @ \/ Len(rd[r].rx) = BcastCap]
    BY <1>2 DEF Publish, Following
  <2>2. /\ rd'[r].rx = Receive(rd[r].rx, x)
        /\ rd'[r].agent = rd[r].agent
        /\ rd'[r].todo = rd[r].todo /\ rd'[r].shown = rd[r].shown
        /\ rd'[r].cut = rd[r].cut
        /\ rd'[r].lagged = (rd[r].lagged \/ Len(rd[r].rx) = BcastCap)
    BY <1>0, <2>1 DEF ReaderState
  <2>3. CASE Len(rd[r].rx) < BcastCap
    <3>1. rd'[r].rx = Append(rd[r].rx, x)
      BY <2>2, <2>3 DEF Receive
    <3>2. x \in Event
      BY DEF TypeOK, Event
    <3>3. Range(rd'[r].rx) = Range(rd[r].rx) \cup {x}
      <4>1. /\ DOMAIN rd'[r].rx = DOMAIN rd[r].rx \cup {Len(rd[r].rx) + 1}
            /\ \A i \in DOMAIN rd[r].rx : rd'[r].rx[i] = rd[r].rx[i]
            /\ rd'[r].rx[Len(rd[r].rx) + 1] = x
        BY <1>0, <3>1, <3>2
      <4> QED
        BY <4>1 DEF Range
    <3>4. pub \subseteq pub' \cup {x}
      BY <1>2 DEF Publish
    <3>5. Range(rd[r].rx) \cup pub \subseteq Range(rd'[r].rx) \cup pub'
      BY <3>3, <3>4
    <3>6. \/ s \in rd'[r].todo \cup rd'[r].shown
          \/ \E e \in Range(rd'[r].rx) \cup pub' : e.seq = s
          \/ s \in rd'[r].cut \cup unheard'
      BY <1>u, <2>2, <3>5 DEF OnItsWay
    <3> QED
      BY <2>2, <3>6 DEF OnItsWay, Range
  <2>4. CASE ~(Len(rd[r].rx) < BcastCap)
    <3>1. Len(rd[r].rx) # BcastCap
      BY <2>2 DEF Following
    <3>2. Len(rd[r].rx) <= BcastCap
      BY DEF RxBounded
    <3> QED
      BY <1>0, <2>4, <3>1, <3>2, AgentBusAssumption
  <2> QED
    BY <2>3, <2>4
<1>3. ASSUME NEW q \in Readers, Recv(q), rd'[r] # rd[r]
      PROVE  Goal
  <2>0. pub' = pub
    BY <1>3 DEF Recv, Subscribe, Query, WriteRow, BacklogEnd, TailEvent, MarkRead,
                Disconnect
  <2>a. r = q
    BY <1>0, <1>3 DEF Recv, Subscribe, Query, WriteRow, BacklogEnd, TailEvent,
                      MarkRead, Disconnect
  <2>b. ASSUME rd'[r].rx = rd[r].rx, rd'[r].agent = rd[r].agent,
               rd'[r].cut = rd[r].cut,
               rd[r].todo \cup rd[r].shown \subseteq rd'[r].todo \cup rd'[r].shown
        PROVE  Goal
    BY <1>u, <2>0, <2>b DEF OnItsWay, Range
  <2>1. CASE \E m \in RecvModes : Subscribe(q, m)
    BY <2>1, <2>a DEF Subscribe, Following
  <2>2. CASE Query(q)
    BY <2>2, <2>a DEF Query, Following
  <2>3. CASE WriteRow(q)
    <3>1. PICK t : rd' = [rd EXCEPT
                            ![r].pc = IF rd[r].consume THEN "mark" ELSE @,
                            ![r].todo = @ \ {t},
                            ![r].cur = IF rd[r].consume THEN t ELSE 0,
                            ![r].shown = @ \cup {t}]
      BY <2>3, <2>a DEF WriteRow
    <3>2. /\ rd'[r].rx = rd[r].rx /\ rd'[r].agent = rd[r].agent
          /\ rd'[r].todo = rd[r].todo \ {t} /\ rd'[r].shown = rd[r].shown \cup {t}
          /\ rd'[r].cut = rd[r].cut
      BY <1>0, <3>1 DEF ReaderState
    <3> QED
      BY <2>b, <3>2
  <2>4. CASE TailEvent(q)
    <3> DEFINE e == Head(rd[r].rx)
    <3>1. rd[r].rx # << >> /\ rd[r].pc = "tail"
      BY <2>4, <2>a DEF TailEvent
    <3>2. Range(rd[r].rx) = {e} \cup Range(Tail(rd[r].rx))
      <4> DEFINE x == rd[r].rx
                 y == Tail(x)
      <4>1. /\ 1 \in DOMAIN x /\ e = x[1]
            /\ \A i \in DOMAIN y : i + 1 \in DOMAIN x /\ y[i] = x[i + 1]
            /\ \A i \in DOMAIN x : i = 1 \/ (i - 1 \in DOMAIN y /\ y[i - 1] = x[i])
        BY <1>0, <3>1
      <4> HIDE DEF x, y
      <4> QED
        BY <4>1 DEF Range, x, y
    <3>3. e.seq = s => e.to = rd[r].agent
      <4>1. 1 \in DOMAIN rd[r].rx /\ e = rd[r].rx[1]
        BY <1>0, <3>1
      <4> QED
        BY <4>1 DEF EventsTrue, EventTrue
    <3>4. CASE e.to = rd[r].agent
      <4>1. rd' = [rd EXCEPT
                     ![r].pc = IF rd[r].consume THEN "tailmark" ELSE @,
                     ![r].rx = Tail(@),
                     ![r].cur = IF rd[r].consume THEN e.seq ELSE 0,
                     ![r].shown = @ \cup {e.seq}]
        BY <2>4, <2>a, <3>4 DEF TailEvent
      <4>2. /\ rd'[r].rx = Tail(rd[r].rx) /\ rd'[r].agent = rd[r].agent
            /\ rd'[r].todo = rd[r].todo
            /\ rd'[r].shown = rd[r].shown \cup {e.seq}
            /\ rd'[r].cut = rd[r].cut
        BY <1>0, <4>1 DEF ReaderState
      <4> HIDE DEF e
      <4>3. \/ s \in rd'[r].todo \cup rd'[r].shown
            \/ \E x \in Range(rd'[r].rx) \cup pub' : x.seq = s
            \/ s \in rd'[r].cut \cup unheard'
        BY <1>u, <2>0, <3>2, <4>2 DEF OnItsWay
      <4> QED
        BY <4>2, <4>3 DEF OnItsWay, Range
    <3>5. CASE e.to # rd[r].agent
      <4>1. rd' = [rd EXCEPT ![r].rx = Tail(@)]
        BY <2>4, <2>a, <3>5 DEF TailEvent
      <4>2. /\ rd'[r].rx = Tail(rd[r].rx) /\ rd'[r].agent = rd[r].agent
            /\ rd'[r].todo = rd[r].todo /\ rd'[r].shown = rd[r].shown
            /\ rd'[r].cut = rd[r].cut
        BY <1>0, <4>1 DEF ReaderState
      <4> HIDE DEF e
      <4>3. \/ s \in rd'[r].todo \cup rd'[r].shown
            \/ \E x \in Range(rd'[r].rx) \cup pub' : x.seq = s
            \/ s \in rd'[r].cut \cup unheard'
        BY <1>u, <2>0, <3>2, <3>3, <3>5, <4>2 DEF OnItsWay
      <4> QED
        BY <4>2, <4>3 DEF OnItsWay, Range
    <3> QED
      BY <3>4, <3>5
  <2>5. CASE BacklogEnd(q) \/ Disconnect(q)
    <3>1. rd' = [rd EXCEPT ![r].pc = "tail"] \/ rd' = [rd EXCEPT ![r] = Gone]
      BY <2>5, <2>a DEF BacklogEnd, Disconnect
    <3>2. rd' # [rd EXCEPT ![r] = Gone]
      BY <1>0 DEF Following, Gone, NoReader
    <3>3. /\ rd'[r].rx = rd[r].rx /\ rd'[r].agent = rd[r].agent
          /\ rd'[r].todo = rd[r].todo /\ rd'[r].shown = rd[r].shown
          /\ rd'[r].cut = rd[r].cut
      BY <1>0, <3>1, <3>2 DEF ReaderState
    <3> QED
      BY <2>b, <3>3
  <2>6. CASE MarkRead(q)
    <3>1. rd' = [rd EXCEPT ![r].pc = IF @ = "mark" THEN "backlog" ELSE "tail",
                           ![r].cur = 0]
      BY <2>6, <2>a DEF MarkRead
    <3>2. /\ rd'[r].rx = rd[r].rx /\ rd'[r].agent = rd[r].agent
          /\ rd'[r].todo = rd[r].todo /\ rd'[r].shown = rd[r].shown
          /\ rd'[r].cut = rd[r].cut
      BY <1>0, <3>1 DEF ReaderState
    <3> QED
      BY <2>b, <3>2
  <2> QED
    BY <1>3, <2>1, <2>2, <2>3, <2>4, <2>5, <2>6 DEF Recv
<1>4. CASE Restart
  <2>1. rd'[r] = NoReader \/ rd'[r] = Gone
    BY <1>4 DEF Restart
  <2>2. rd'[r].pc \in {"off", "done"}
    BY <2>1 DEF NoReader, Gone
  <2> QED
    BY <2>2 DEF Following
<1>5. ASSUME \A e \in pub : ~Publish(e)
      PROVE  Restart \/ \A e \in pub : e \in pub' \/ e.seq \in unheard'
  <2>1. CASE Kill
    BY <2>1 DEF Kill
  <2>2. CASE ~Kill
    <3>1. Restart \/ pub \subseteq pub'
      BY <1>5, <2>2
         DEF Next, vars, Enqueue, Sends, WebBroadcast, WebSend, AgentSend, HangUp,
             Recv, Subscribe, Query, WriteRow, BacklogEnd, TailEvent, MarkRead,
             Disconnect, Supervisor, Work, Launch, Record, Recorded, Drain, Feed,
             Mark, Running, Wake, Poll, Idle, AssistantText, Tell, Told,
             TurnComplete, Out, Await, Exited, FinishStatus, FinishTell, Forget,
             FinishTurn, Die
    <3> QED
      BY <3>1
  <2> QED
    BY <2>1, <2>2
<1> QED
  BY <1>1, <1>2, <1>3, <1>4, <1>5, ReaderWriters

\* What a request asked for stays as it is while the request is served.
LEMMA RequestKept ==
    ASSUME TypeOK, NEW r \in Readers, Query(r) \/ WriteRow(r) \/ MarkRead(r)
    PROVE  /\ rd'[r].agent = rd[r].agent /\ rd'[r].consume = rd[r].consume
           /\ rd'[r].follow = rd[r].follow /\ rd'[r].lagged = rd[r].lagged
<1>0. rd \in [Readers -> ReaderState] /\ rd[r] \in ReaderState
  BY StateTypes
<1>1. CASE Query(r)
  <2>1. PICK q, b : rd' = [rd EXCEPT ![r] = [rd[r] EXCEPT !.pc = "backlog",
                                                 !.todo = q, !.cut = b \ q]]
    BY <1>1, QueryEffect DEF Queried
  <2> QED
    BY <1>0, <2>1 DEF ReaderState
<1>2. CASE WriteRow(r)
  <2>1. PICK t : rd' = [rd EXCEPT
                          ![r].pc = IF rd[r].consume THEN "mark" ELSE @,
                          ![r].todo = @ \ {t},
                          ![r].cur = IF rd[r].consume THEN t ELSE 0,
                          ![r].shown = @ \cup {t}]
    BY <1>2 DEF WriteRow
  <2> QED
    BY <1>0, <2>1 DEF ReaderState
<1>3. CASE MarkRead(r)
  <2>1. rd' = [rd EXCEPT ![r].pc = IF @ = "mark" THEN "backlog" ELSE "tail",
                         ![r].cur = 0]
    BY <1>3 DEF MarkRead
  <2> QED
    BY <1>0, <2>1 DEF ReaderState
<1> QED
  BY <1>1, <1>2, <1>3

LEMMA SeamStep ==
    ASSUME TypeOK, Retention, EventsTrue, RxBounded, SeamComplete, [Next]_vars
    PROVE  SeamComplete'
<1> USE DEF disk, harness, history
<1> SUFFICES ASSUME NEW r \in Readers, Following(r)', NEW s \in DOMAIN rows',
                    rows'[s].to = rd'[r].agent, ~rows'[s].consumed
             PROVE  OnItsWay(r, s)'
  BY DEF SeamComplete, Following, OnItsWay
<1>0. rd \in [Readers -> ReaderState] /\ rd[r] \in ReaderState
  BY StateTypes
<1>1. CASE s \notin DOMAIN rows
  <2>1. s \in unheard' \/ \E e \in pub' : e.seq = s
    BY <1>1, RowsKeep
  <2> QED
    BY <2>1 DEF OnItsWay
<1>2. CASE s \in DOMAIN rows /\ Following(r)
  <2>1. sent + 1 \notin DOMAIN rows
    BY DEF Retention, TypeOK
  <2>2. rows[s].to = rows'[s].to /\ ~rows[s].consumed
    BY <1>2, <2>1, RowsKeep
  <2>3. rd'[r].agent = rd[r].agent
    <3>1. ASSUME NEW e \in pub, Publish(e)
          PROVE  rd'[r].agent = rd[r].agent
      BY <1>0, <3>1 DEF Publish, ReaderState
    <3>2. CASE Restart
      <4>1. rd'[r].pc \in {"off", "done"}
        BY <3>2 DEF Restart, NoReader, Gone
      <4> QED
        BY <4>1 DEF Following
    <3>3. ASSUME NEW q \in Readers, Recv(q), rd'[r] # rd[r]
          PROVE  rd'[r].agent = rd[r].agent
      <4>1. r = q
        BY <1>0, <3>3 DEF Recv, Subscribe, Query, WriteRow, BacklogEnd, TailEvent,
                          MarkRead, Disconnect
      <4>2. rd'[r] # Gone
        BY DEF Following, Gone, NoReader
      <4>3. CASE Subscribe(q, 0) \/ \E m \in RecvModes : Subscribe(q, m)
        BY <1>2, <4>1, <4>3 DEF Subscribe, Following
      <4>4. CASE Query(q) \/ WriteRow(q) \/ MarkRead(q)
        BY <4>1, <4>4, RequestKept
      <4>5. CASE TailEvent(q)
        BY <1>0, <4>1, <4>5 DEF TailEvent, ReaderState
      <4>6. CASE BacklogEnd(q) \/ Disconnect(q)
        <5>1. rd' = [rd EXCEPT ![r].pc = "tail"] \/ rd' = [rd EXCEPT ![r] = Gone]
          BY <4>1, <4>6 DEF BacklogEnd, Disconnect
        <5> QED
          BY <1>0, <4>2, <5>1 DEF ReaderState
      <4> QED
        BY <3>3, <4>3, <4>4, <4>5, <4>6 DEF Recv
    <3> QED
      BY <3>1, <3>2, <3>3, ReaderWriters
  <2>4. OnItsWay(r, s)
    BY <1>2, <2>2, <2>3 DEF SeamComplete, Following, OnItsWay
  <2> QED
    BY <1>2, <2>2, <2>3, <2>4, WayKept
<1>3. CASE s \in DOMAIN rows /\ ~Following(r)
  <2>1. rd'[r] # rd[r]
    BY <1>3 DEF Following
  <2>2. \A e \in pub : ~Publish(e)
    <3>1. ASSUME NEW e \in pub, Publish(e)
          PROVE  Following(r)
      <4>1. rd'[r] = [rd[r] EXCEPT !.rx = Receive(@, e),
                                   !.lagged = @ \/ Len(rd[r].rx) = BcastCap]
        BY <2>1, <3>1 DEF Publish
      <4>2. /\ rd'[r].pc = rd[r].pc /\ rd'[r].consume = rd[r].consume
            /\ rd'[r].follow = rd[r].follow
            /\ rd'[r].lagged = (rd[r].lagged \/ Len(rd[r].rx) = BcastCap)
        BY <1>0, <4>1 DEF ReaderState
      <4> QED
        BY <4>2 DEF Following
    <3> QED
      BY <1>3, <3>1
  <2>3. ~Restart
    <3>1. ASSUME Restart PROVE rd'[r].pc \in {"off", "done"}
      BY <3>1 DEF Restart, NoReader, Gone
    <3> QED
      BY <3>1 DEF Following
  <2>4. PICK q \in Readers : Recv(q)
    BY <2>1, <2>2, <2>3, ReaderWriters
  <2>5. r = q
    BY <1>0, <2>1, <2>4 DEF Recv, Subscribe, Query, WriteRow, BacklogEnd,
                            TailEvent, MarkRead, Disconnect
  <2>6. CASE Query(r)
    <3>1. PICK from : Queried(r, from)
      BY <2>6, QueryEffect
    <3> DEFINE b == Backlog(rd[r].agent, rd[r].consume, from)
    <3>a. PICK k \in SUBSET b :
            rd' = [rd EXCEPT ![r] = [rd[r] EXCEPT !.pc = "backlog", !.todo = k,
                                                  !.cut = b \ k]]
      BY <3>1 DEF Queried
    <3> HIDE DEF b
    <3>2. /\ rd'[r].todo = k /\ rd'[r].cut = b \ k
          /\ rd'[r].agent = rd[r].agent /\ rd'[r].consume = rd[r].consume
      BY <1>0, <3>a DEF ReaderState
    <3>3. rows' = rows
      BY <2>6 DEF Query
    <3>b. s \in b
      BY <1>3, <3>2, <3>3 DEF b, Backlog, Following
    <3>4. s \in rd'[r].todo \/ s \in rd'[r].cut
      BY <3>2, <3>b
    <3> QED
      BY <3>4 DEF OnItsWay
  <2>7. CASE \E m \in RecvModes : Subscribe(r, m)
    <3>1. rd'[r].pc = "query"
      BY <1>0, <2>7 DEF Subscribe, NoReader
    <3> QED
      BY <3>1 DEF Following
  <2>8. ASSUME rd'[r] # Gone, rd'[r].consume = rd[r].consume,
               rd'[r].follow = rd[r].follow, rd'[r].lagged = rd[r].lagged,
               rd[r].pc \notin {"off", "query", "done"}
        PROVE  FALSE
    BY <1>3, <2>8 DEF Following
  <2>9. rd'[r] # Gone
    BY DEF Following, Gone, NoReader
  <2>10. CASE WriteRow(r) \/ MarkRead(r)
    <3>1. /\ rd'[r].consume = rd[r].consume
          /\ rd'[r].follow = rd[r].follow /\ rd'[r].lagged = rd[r].lagged
      BY <2>10, RequestKept
    <3>2. rd[r].pc \notin {"off", "query", "done"}
      BY <2>10 DEF WriteRow, MarkRead
    <3> QED
      BY <2>8, <2>9, <3>1, <3>2
  <2>11. CASE TailEvent(r)
    <3>1. /\ rd'[r].consume = rd[r].consume
          /\ rd'[r].follow = rd[r].follow /\ rd'[r].lagged = rd[r].lagged
      BY <1>0, <2>11 DEF TailEvent, ReaderState
    <3>2. rd[r].pc \notin {"off", "query", "done"}
      BY <2>11 DEF TailEvent
    <3> QED
      BY <2>8, <2>9, <3>1, <3>2
  <2>12. CASE BacklogEnd(r) \/ Disconnect(r)
    <3>1. rd' = [rd EXCEPT ![r].pc = "tail"]
      BY <1>0, <2>9, <2>12 DEF BacklogEnd, Disconnect
    <3>2. /\ rd'[r].consume = rd[r].consume
          /\ rd'[r].follow = rd[r].follow /\ rd'[r].lagged = rd[r].lagged
      BY <1>0, <3>1 DEF ReaderState
    <3>3. rd[r].pc \notin {"off", "query", "done"}
      BY <2>12 DEF BacklogEnd, Disconnect
    <3> QED
      BY <2>8, <2>9, <3>2, <3>3
  <2> QED
    BY <2>4, <2>5, <2>6, <2>7, <2>10, <2>11, <2>12 DEF Recv
<1> QED
  BY <1>1, <1>2, <1>3

-----------------------------------------------------------------------------
(* The turns of the harness.                                               *)

\* The task has ended, and with it the harness.
Over ==
    /\ sup'.pc = "ended" /\ sup'.todo = {} /\ fed' = << >>
    /\ UNCHANGED <<prompt, missed>>

\* Steps of the supervisor that leave the turns in hand alone.
Quiet ==
    /\ sup.pc \in {"select", "idle", "sent", "out", "await", "exit", "tell"}
    /\ sup'.pc \in {"drain", "select", "sent", "out", "await", "exit", "tell", "forget"}
    /\ sup.pc \in {"exit", "tell"} => sup'.pc \in {"tell", "forget"}
    /\ sup'.todo = sup.todo
    /\ UNCHANGED <<fed, prompt, missed>>

\* What each step does to the turns: the ones in hand (todo), the one being
\* fed (cur) and the ones that the harness has got (fed).
LEMMA LaunchTurns ==
    ASSUME TypeOK, Launch
    PROVE  /\ sup.pc = "launch" /\ sup'.pc \in {"record", "drain"}
           /\ sup'.todo = sup.todo
           /\ fed' = <<0>> \/ fed' = << >>
           /\ UNCHANGED <<rows, pub, sent, prompt, missed>>
<1>0. sup \in SupState
  BY StateTypes
<1>1. PICK p : /\ fed' = IF p THEN <<0>> ELSE << >>
               /\ sup' = [sup EXCEPT !.pc = IF p THEN "record" ELSE "drain",
                                     !.active = p]
  BY DEF Launch
<1>2. sup'.pc \in {"record", "drain"} /\ sup'.todo = sup.todo
  BY <1>0, <1>1 DEF SupState
<1> QED
  BY <1>1, <1>2 DEF Launch, history

LEMMA RecordTurns ==
    ASSUME TypeOK, Record
    PROVE  /\ sup.pc = "record" /\ sup'.todo = sup.todo
           /\ UNCHANGED <<fed, missed>>
           /\ \/ /\ Enqueue("child", "turn_input")
                 /\ sup'.pc = "recorded" /\ sup'.cur = NextSeq /\ prompt' = NextSeq
              \/ sup'.pc = "drain" /\ UNCHANGED <<rows, pub, sent, prompt>>
<1>0. sup \in SupState
  BY StateTypes
<1>1. CASE /\ Enqueue("child", "turn_input") /\ prompt' = NextSeq
           /\ sup' = [sup EXCEPT !.pc = "recorded", !.cur = NextSeq]
  <2>1. sup'.pc = "recorded" /\ sup'.cur = NextSeq /\ sup'.todo = sup.todo
    BY <1>0, <1>1 DEF SupState
  <2> QED
    BY <1>1, <2>1 DEF Record, harness
<1>2. CASE To("drain") /\ UNCHANGED <<rows, pub, sent, prompt>>
  <2>1. sup'.pc = "drain" /\ sup'.todo = sup.todo
    BY <1>0, <1>2 DEF SupState, To
  <2> QED
    BY <1>2, <2>1 DEF Record, harness
<1> QED
  BY <1>1, <1>2 DEF Record

LEMMA MarkTurns ==
    ASSUME TypeOK, Recorded \/ Mark
    PROVE  /\ \/ sup.pc = "recorded" /\ sup'.pc = "drain"
              \/ sup.pc = "mark" /\ sup'.pc = "running" /\ sup'.cur = sup.cur
           /\ TryMark(sup.cur) /\ sup'.todo = sup.todo
           /\ UNCHANGED <<pub, sent, fed, prompt>>
<1>0. sup \in SupState
  BY StateTypes
<1>1. CASE Recorded
  <2>1. sup'.pc = "drain" /\ sup'.todo = sup.todo
    BY <1>0, <1>1 DEF Recorded, SupState, To
  <2> QED
    BY <1>1, <2>1 DEF Recorded, harness
<1>2. CASE Mark
  <2>1. sup'.pc = "running" /\ sup'.todo = sup.todo /\ sup'.cur = sup.cur
    BY <1>0, <1>2 DEF Mark, SupState
  <2> QED
    BY <1>2, <2>1 DEF Mark, harness
<1> QED
  BY <1>1, <1>2

LEMMA DrainTurns ==
    ASSUME TypeOK, Drain
    PROVE  /\ sup.pc = "drain"
           /\ \/ /\ Pending = {} /\ sup'.pc \in {"idle", "select"}
                 /\ sup'.todo = sup.todo
              \/ sup'.pc = "feed" /\ sup'.todo = Pending
              \/ sup'.pc = "exit" /\ sup'.todo = sup.todo
           /\ UNCHANGED <<rows, pub, sent, fed, prompt, missed>>
<1>0. sup \in SupState
  BY StateTypes
<1>1. UNCHANGED <<rows, pub, sent, fed, prompt, missed>> /\ sup.pc = "drain"
  BY DEF Drain, disk, harness, history
<1> DEFINE P == Pending
<1>2. \/ /\ P = {}
         /\ sup' = [sup EXCEPT !.pc = IF sup.poll THEN "idle" ELSE "select"]
      \/ sup' = [sup EXCEPT !.pc = "feed", !.todo = P]
      \/ To("exit")
  BY DEF Drain
<1> HIDE DEF P
<1>3. \/ /\ P = {} /\ sup'.pc \in {"idle", "select"}
         /\ sup'.todo = sup.todo
      \/ sup'.pc = "feed" /\ sup'.todo = P
      \/ sup'.pc = "exit" /\ sup'.todo = sup.todo
  BY <1>0, <1>2 DEF SupState, To
<1> QED
  BY <1>1, <1>3 DEF P

LEMMA FeedTurns ==
    ASSUME TypeOK, Feed
    PROVE  /\ sup.pc = "feed" /\ sup'.todo = sup.todo
           /\ \E s \in sup.todo :
                /\ \A t \in sup.todo : s <= t
                /\ \/ fed' = Append(fed, s) /\ sup'.pc = "mark" /\ sup'.cur = s
                   \/ fed' = fed /\ sup'.pc = "exit"
           /\ UNCHANGED <<rows, pub, sent, prompt, missed>>
<1>0. sup \in SupState
  BY StateTypes
<1>1. PICK s \in sup.todo :
        /\ \A t \in sup.todo : s <= t
        /\ \/ fed' = Append(fed, s) /\ sup' = [sup EXCEPT !.pc = "mark", !.cur = s]
           \/ fed' = fed /\ To("exit")
  BY DEF Feed
<1>2. \/ fed' = Append(fed, s) /\ sup'.pc = "mark" /\ sup'.cur = s
         /\ sup'.todo = sup.todo
      \/ fed' = fed /\ sup'.pc = "exit" /\ sup'.todo = sup.todo
  BY <1>0, <1>1 DEF SupState, To
<1>3. sup.pc = "feed" /\ UNCHANGED <<rows, pub, sent, prompt, missed>>
  BY DEF Feed, disk
<1> QED
  BY <1>1, <1>2, <1>3

LEMMA RunningTurns ==
    ASSUME TypeOK, Running
    PROVE  /\ sup.pc = "running"
           /\ \/ sup'.pc = "feed" /\ sup'.todo = sup.todo \ {sup.cur}
              \/ /\ sup'.pc \in {"idle", "select"} /\ sup'.todo = {}
                 /\ sup.todo \subseteq {sup.cur}
           /\ UNCHANGED <<rows, pub, sent, fed, prompt, missed>>
<1>0. sup \in SupState
  BY StateTypes
<1> DEFINE rest == sup.todo \ {sup.cur}
<1>1. \/ sup' = [sup EXCEPT !.pc = "feed", !.todo = rest, !.cur = 0]
      \/ /\ rest = {}
         /\ sup' = [sup EXCEPT !.pc = IF sup.poll THEN "idle" ELSE "select",
                               !.todo = {}, !.cur = 0,
                               !.active = TRUE, !.notified = FALSE]
  BY DEF Running
<1>2. \/ sup'.pc = "feed" /\ sup'.todo = rest
      \/ sup'.pc \in {"idle", "select"} /\ sup'.todo = {} /\ rest = {}
  BY <1>0, <1>1 DEF SupState
<1>3. sup.pc = "running" /\ UNCHANGED <<rows, pub, sent, fed, prompt, missed>>
  BY DEF Running, harness, history
<1> QED
  BY <1>2, <1>3

LEMMA QuietTurns ==
    ASSUME TypeOK,
           \/ Wake \/ Poll \/ Idle \/ AssistantText \/ Told \/ TurnComplete \/ Out
           \/ Await \/ Exited \/ FinishStatus \/ FinishTell
    PROVE  Quiet
<1> USE DEF disk, harness, history
<1>0. sup \in SupState
  BY StateTypes
<1>1. CASE Wake \/ Poll \/ TurnComplete
  <2>1. /\ sup.pc = "select" /\ sup'.pc \in {"drain", "out"}
        /\ sup'.todo = sup.todo
    BY <1>0, <1>1 DEF Wake, Poll, TurnComplete, SupState
  <2> QED
    BY <1>1, <2>1 DEF Wake, Poll, TurnComplete, Quiet
<1>2. CASE Idle \/ AssistantText
  <2>0. PICK x \in SupState :
          /\ x.todo = sup.todo
          /\ \/ Tell(x)
             \/ sup' = x /\ x.pc = "select"
    BY <1>2, AsideEffect
  <2>1. /\ sup.pc \in {"idle", "select"} /\ sup'.pc \in {"select", "sent"}
        /\ sup'.todo = sup.todo
    BY <1>2, <2>0, AsideEffect, TellEffect
  <2> QED
    BY <1>2, <2>1 DEF Idle, AssistantText, Quiet
<1>3. CASE Out
  <2>1. sup' = [sup EXCEPT !.pc = "await", !.cur = NextSeq]
        \/ sup' = [sup EXCEPT !.pc = "await", !.cur = 0]
    BY <1>3 DEF Out
  <2>2. sup'.pc = "await" /\ sup'.todo = sup.todo
    BY <1>0, <2>1 DEF SupState
  <2> QED
    BY <1>3, <2>2 DEF Out, Quiet
<1>4. CASE Await \/ Exited \/ FinishStatus \/ Told
  <2>1. /\ sup'.todo = sup.todo
        /\ \/ sup.pc \in {"await", "sent"} /\ sup'.pc = "select"
           \/ sup.pc = "select" /\ sup'.pc = "exit"
           \/ sup.pc = "exit" /\ sup'.pc = "tell"
    BY <1>0, <1>4 DEF Await, Exited, FinishStatus, Told, To, SupState
  <2> QED
    BY <1>4, <2>1 DEF Await, Exited, FinishStatus, Told, Quiet
<1>5. CASE FinishTell
  <2>1. sup' = [sup EXCEPT !.pc = "forget", !.cur = NextSeq] \/ To("forget")
    BY <1>5 DEF FinishTell
  <2>2. sup.pc = "tell" /\ sup'.pc = "forget" /\ sup'.todo = sup.todo
    BY <1>0, <1>5, <2>1 DEF FinishTell, To, SupState
  <2> QED
    BY <1>5, <2>2 DEF FinishTell, Quiet
<1> QED
  BY <1>1, <1>2, <1>3, <1>4, <1>5

LEMMA EndTurns ==
    ASSUME TypeOK, End
    PROVE  Over
  BY StateTypes DEF End, Over, SupState

\* Everything that can happen to the turns in a step.
LEMMA TurnSteps ==
    ASSUME TypeOK, [Next]_vars
    PROVE  \/ UNCHANGED <<sup, fed, prompt>> /\ missed \subseteq missed'
           \/ Launch \/ Record \/ Recorded \/ Drain \/ Feed \/ Mark \/ Running
           \/ Quiet \/ Over
<1> USE DEF disk, harness, history
<1>1. CASE Sends \/ FinishTurn \/ Die \/ UNCHANGED vars \/ \E e \in pub : Publish(e)
  BY <1>1, SendsAre DEF Posting, HangingUp, HangUp, FinishTurn, Die, vars, Publish
<1>2. ASSUME NEW r \in Readers, Recv(r)
      PROVE  UNCHANGED <<sup, fed, prompt>> /\ missed \subseteq missed'
  BY <1>2 DEF Recv, Subscribe, Query, WriteRow, BacklogEnd, TailEvent, MarkRead,
              Disconnect, TryMark
<1>3. CASE Forget \/ Kill \/ Restart
  BY <1>3, EndTurns DEF Forget, Kill, Restart
<1> QED
  BY <1>1, <1>2, <1>3, QuietTurns DEF Next, Supervisor, Work

\* A pending turn was pending before, is about to be published, or never will be.
LEMMA PendingStep ==
    ASSUME TypeOK, Retention, [Next]_vars, NEW s \in Pending'
    PROVE  \/ s \in Pending
           \/ /\ s = sent + 1 /\ sent' = sent + 1 /\ s \notin DOMAIN rows
              /\ s \in unheard' \/ \E e \in pub' : e.seq = s
<1>1. /\ s \in DOMAIN rows' /\ rows'[s].to = "child"
      /\ rows'[s].kind = "turn_input" /\ ~rows'[s].consumed
  BY DEF Pending
<1>2. sent + 1 \notin DOMAIN rows
  BY DEF Retention, TypeOK
<1> QED
  BY <1>1, <1>2, RowsKeep DEF Pending

\* While the supervisor is subscribed, what was going to wake it does.
LEMMA CoveredStep ==
    ASSUME [Next]_vars, NEW s, Covered(s), TypeOK,
           sup.pc \notin {"launch", "record", "recorded", "ended"},
           sup'.pc \notin {"drain", "ended"}
    PROVE  Covered(s)'
<1> USE DEF disk, harness, history
<1>0. sup \in SupState
  BY StateTypes
<1>1. ASSUME wake => wake', pub \subseteq pub'
      PROVE  Covered(s)'
  BY <1>1, UnheardGrows DEF Covered
<1>2. ASSUME NEW e \in pub, Publish(e)
      PROVE  Covered(s)'
  BY <1>2, UnheardGrows DEF Publish, Covered
<1>3. CASE Sends \/ FinishTurn \/ Die \/ UNCHANGED vars
  BY <1>1, <1>3, SendsAre DEF Posting, HangingUp, HangUp, Enqueue, FinishTurn, Die, vars
<1>4. ASSUME NEW r \in Readers, Recv(r)
      PROVE  Covered(s)'
  BY <1>1, <1>4 DEF Recv, Subscribe, Query, WriteRow, BacklogEnd, TailEvent,
                    MarkRead, Disconnect
<1>5. CASE Forget \/ Kill \/ Restart
  <2>1. Over
    BY <1>5, EndTurns DEF Forget, Kill, Restart
  <2> QED
    BY <2>1 DEF Over
<1>6. CASE Wake
  <2>1. sup'.pc = "drain"
    BY <1>0, <1>6 DEF Wake, SupState
  <2> QED
    BY <2>1
<1>7. CASE Supervisor /\ ~Wake /\ ~Forget
  <2>1. wake' = wake
    BY <1>7 DEF Supervisor, Work, Launch, Record, Recorded, Drain, Feed, Mark,
                Running, Idle, Tell, Told, Out, Await, FinishStatus, FinishTell,
                Poll, AssistantText,
                TurnComplete, Exited
  <2>2. pub \subseteq pub'
    BY <1>7 DEF Supervisor, Work, Launch, Record, Recorded, Drain, Feed, Mark,
                Running, Idle, Tell, Told, Out, Await, FinishStatus, FinishTell,
                Poll, AssistantText,
                TurnComplete, Exited, Enqueue
  <2> QED
    BY <1>1, <2>1, <2>2
<1> QED
  BY <1>2, <1>3, <1>4, <1>5, <1>6, <1>7 DEF Next

\* fed with one more turn.
LEMMA AppendFed ==
    ASSUME NEW f \in Seq(Nat), NEW s \in Nat
    PROVE  LET g == Append(f, s) IN
           /\ DOMAIN g = DOMAIN f \cup {Len(f) + 1}
           /\ Len(f) \in Nat /\ Len(f) + 1 \notin DOMAIN f
           /\ DOMAIN f = 1 .. Len(f)
           /\ \A i \in DOMAIN f : g[i] = f[i]
           /\ g[Len(f) + 1] = s
           /\ Range(f) \subseteq Range(g) /\ s \in Range(g)
<1> DEFINE g == Append(f, s)
<1>1. /\ DOMAIN g = DOMAIN f \cup {Len(f) + 1}
      /\ Len(f) \in Nat /\ Len(f) + 1 \notin DOMAIN f
      /\ DOMAIN f = 1 .. Len(f)
      /\ \A i \in DOMAIN f : g[i] = f[i]
      /\ g[Len(f) + 1] = s
  OBVIOUS
<1> HIDE DEF g
<1>2. Range(f) \subseteq Range(g) /\ s \in Range(g)
  BY <1>1 DEF Range
<1> QED
  BY <1>1, <1>2 DEF g

LEMMA CoverStep ==
    ASSUME TypeOK, Retention, TurnsCovered, [Next]_vars
    PROVE  TurnsCovered'
<1> DEFINE Looked == {"feed", "mark", "running", "select", "idle", "sent", "out",
                      "await"}
           Empty == {"launch", "record", "recorded", "drain", "select", "idle",
                     "sent", "out", "await"}
<1>0. sup \in SupState /\ fed \in Seq(Nat) /\ sup.todo \subseteq Nat
  BY StateTypes DEF TypeOK, SupState
<1>1. /\ sup.pc \in {"mark", "running"} => sup.cur \in Range(fed)
      /\ sup.pc \in Empty => sup.todo = {}
  BY DEF TurnsCovered
<1>2. ASSUME Feed
      PROVE  /\ sup.pc = "feed" /\ sup'.pc \in {"mark", "exit"}
             /\ sup'.pc = "mark" => sup'.cur \in Range(fed')
             /\ sup'.todo = sup.todo /\ Range(fed) \subseteq Range(fed')
  <2>1. PICK s \in sup.todo :
                \/ fed' = Append(fed, s) /\ sup'.pc = "mark" /\ sup'.cur = s
                \/ fed' = fed /\ sup'.pc = "exit"
    BY <1>2, FeedTurns
  <2>2. Range(fed) \subseteq Range(Append(fed, s)) /\ s \in Range(Append(fed, s))
    BY <1>0, AppendFed
  <2> QED
    BY <1>2, <2>1, <2>2, FeedTurns
<1>3. sup'.pc \in {"mark", "running"} => sup'.cur \in Range(fed')
  <2>1. CASE UNCHANGED <<sup, fed, prompt>>
    BY <1>1, <2>1
  <2>2. CASE Feed
    BY <1>2, <2>2
  <2>3. CASE Recorded \/ Mark
    BY <1>1, <2>3, MarkTurns
  <2>4. CASE Launch \/ Record \/ Drain \/ Running \/ Quiet \/ Over
    BY <2>4, LaunchTurns, RecordTurns, DrainTurns, RunningTurns DEF Quiet, Over
  <2> QED
    BY <2>1, <2>2, <2>3, <2>4, TurnSteps
<1>4. sup'.pc \in Empty => sup'.todo = {}
  <2>1. CASE UNCHANGED <<sup, fed, prompt>>
    BY <1>1, <2>1
  <2>2. CASE Feed
    BY <1>2, <2>2
  <2>3. CASE Recorded \/ Mark
    BY <1>1, <2>3, MarkTurns
  <2>4. CASE Launch \/ Record
    BY <1>1, <2>4, LaunchTurns, RecordTurns
  <2>5. CASE Drain \/ Running \/ Quiet \/ Over
    BY <1>1, <2>5, DrainTurns, RunningTurns DEF Quiet, Over
  <2> QED
    BY <2>1, <2>2, <2>3, <2>4, <2>5, TurnSteps
<1>5. ASSUME sup'.pc \in Looked, NEW s \in Pending',
             s \notin Range(fed') \cup sup'.todo
      PROVE  Covered(s)'
  <2>1. CASE s \in unheard' \/ \E e \in pub' : e.seq = s
    BY <2>1 DEF Covered
  <2>2. CASE s \in Pending
    <3>1. ASSUME sup.pc \in Looked,
                 Range(fed) \cup sup.todo \subseteq Range(fed') \cup sup'.todo
          PROVE  Covered(s)'
      <4>1. Covered(s)
        BY <1>5, <2>2, <3>1 DEF TurnsCovered
      <4> QED
        BY <1>5, <3>1, <4>1, CoveredStep
    <3>2. CASE UNCHANGED <<sup, fed, prompt>>
      BY <1>5, <3>1, <3>2
    <3>3. CASE Feed
      BY <1>2, <3>1, <3>3
    <3>4. CASE Recorded \/ Mark
      BY <1>5, <3>1, <3>4, MarkTurns
    <3>5. CASE Running
      BY <1>1, <3>1, <3>5, RunningTurns
    <3>6. CASE Drain
      BY <1>5, <2>2, <3>6, DrainTurns
    <3>7. CASE Quiet
      BY <1>5, <3>1, <3>7 DEF Quiet
    <3>8. CASE Launch \/ Record \/ Over
      BY <1>5, <3>8, LaunchTurns, RecordTurns DEF Over
    <3> QED
      BY <3>2, <3>3, <3>4, <3>5, <3>6, <3>7, <3>8, TurnSteps
  <2> QED
    BY <2>1, <2>2, PendingStep
<1> QED
  BY <1>3, <1>4, <1>5 DEF TurnsCovered

LEMMA KnownStep ==
    ASSUME TypeOK, Retention, NumbersKnown, [Next]_vars
    PROVE  NumbersKnown'
<1>0. /\ sup \in SupState /\ fed \in Seq(Nat) /\ sup.todo \subseteq Nat
      /\ sent \in Nat /\ prompt \in Nat
  BY StateTypes DEF TypeOK, SupState
<1>1. sent' \in Nat /\ sent <= sent'
  <2>1. sent' = sent \/ sent' = sent + 1
    BY TableStep, StoresEffect
  <2> QED
    BY <1>0, <2>1
<1>2. Pending \subseteq 1 .. sent
  BY DEF Pending, Retention
<1>3. \A s \in sup'.todo : s \in 1 .. sent'
  <2>1. sup'.todo \subseteq sup.todo \cup Pending
    <3>1. CASE UNCHANGED <<sup, fed, prompt>> \/ Recorded \/ Mark \/ Feed
      BY <3>1, MarkTurns, FeedTurns
    <3>2. CASE Launch \/ Record \/ Drain \/ Running \/ Quiet \/ Over
      BY <3>2, LaunchTurns, RecordTurns, DrainTurns, RunningTurns DEF Quiet, Over
    <3> QED
      BY <3>1, <3>2, TurnSteps
  <2>2. sup'.todo \subseteq 1 .. sent
    BY <1>2, <2>1 DEF NumbersKnown
  <2> QED
    BY <1>0, <1>1, <2>2
<1>4. \A i \in DOMAIN fed' : fed'[i] <= sent'
  <2>1. CASE fed' = fed
    <3>1. \A i \in DOMAIN fed : fed[i] \in Nat
      BY <1>0
    <3> QED
      BY <1>0, <1>1, <2>1, <3>1 DEF NumbersKnown
  <2>2. CASE fed' = << >> \/ fed' = <<0>>
    BY <1>1, <2>2
  <2>3. ASSUME NEW s \in sup.todo, fed' = Append(fed, s), sent' = sent
        PROVE  \A i \in DOMAIN fed' : fed'[i] <= sent'
    <3>1. s \in Nat /\ s <= sent
      BY <1>0, <2>3 DEF NumbersKnown
    <3>2. \A i \in DOMAIN fed' : (i \in DOMAIN fed /\ fed'[i] = fed[i]) \/ fed'[i] = s
      BY <1>0, <2>3, <3>1, AppendFed
    <3> QED
      BY <2>3, <3>1, <3>2 DEF NumbersKnown
  <2>4. \/ fed' = fed \/ fed' = << >> \/ fed' = <<0>>
        \/ \E s \in sup.todo : fed' = Append(fed, s) /\ sent' = sent
    <3>1. CASE UNCHANGED <<sup, fed, prompt>> \/ Recorded \/ Mark \/ Feed
      BY <3>1, MarkTurns, FeedTurns
    <3>2. CASE Launch \/ Record \/ Drain \/ Running \/ Quiet \/ Over
      BY <3>2, LaunchTurns, RecordTurns, DrainTurns, RunningTurns DEF Quiet, Over
    <3> QED
      BY <3>1, <3>2, TurnSteps
  <2> QED
    BY <2>1, <2>2, <2>3, <2>4
<1>5. prompt' <= sent'
  <2>1. CASE Record /\ prompt' # prompt
    <3>1. "child" \in Agents /\ "turn_input" \in Kinds
      BY DEF Agents, Kinds
    <3>2. Enqueue("child", "turn_input") /\ prompt' = NextSeq
      BY <2>1, RecordTurns
    <3>3. NextSeq = sent'
      BY <3>1, <3>2, EnqueueEffect
    <3> QED
      BY <1>1, <3>2, <3>3
  <2>2. CASE prompt' = prompt
    BY <1>0, <1>1, <2>2 DEF NumbersKnown
  <2>3. prompt' = prompt \/ Record
    BY TurnSteps, LaunchTurns, MarkTurns, DrainTurns, FeedTurns, RunningTurns
       DEF Quiet, Over
  <2> QED
    BY <2>1, <2>2, <2>3
<1> QED
  BY <1>3, <1>4, <1>5 DEF NumbersKnown

LEMMA OrderStep ==
    ASSUME TypeOK, Retention, NumbersKnown, TurnsFresh, FedInOrder, [Next]_vars
    PROVE  FedInOrder'
<1>0. /\ sup \in SupState /\ fed \in Seq(Nat) /\ sup.todo \subseteq Nat
      /\ sent \in Nat /\ prompt \in Nat
  BY StateTypes DEF TypeOK, SupState
<1>1. ASSUME fed' = fed, prompt' = prompt, missed \subseteq missed'
      PROVE  FedInOrder'
  BY <1>1 DEF FedInOrder
<1>2. CASE fed' = << >> \/ fed' = <<0>>
  <2>1. DOMAIN fed' \subseteq {1} /\ \A j \in DOMAIN fed' : fed'[j] = 0
    BY <1>2
  <2>2. \A j \in DOMAIN fed' : 1 .. j - 1 = {}
    BY <2>1
  <2> QED
    BY <2>1, <2>2 DEF FedInOrder
<1>3. CASE Feed /\ fed' # fed
  <2>1. PICK s \in sup.todo : fed' = Append(fed, s)
    BY <1>3, FeedTurns
  <2>2. sup.pc = "feed" /\ missed' = missed /\ prompt' = prompt
    BY <1>3, FeedTurns
  <2>3. s \in missed \/ Fresh(s)
    BY <2>2 DEF TurnsFresh
  <2>4. /\ DOMAIN fed' = DOMAIN fed \cup {Len(fed) + 1}
        /\ Len(fed) \in Nat /\ DOMAIN fed = 1 .. Len(fed)
        /\ \A i \in DOMAIN fed : fed'[i] = fed[i]
        /\ fed'[Len(fed) + 1] = s
    BY <1>0, <2>1, AppendFed
  <2>5. ASSUME NEW j \in DOMAIN fed
        PROVE  \/ fed'[j] \in missed'
               \/ /\ fed'[j] = 0 \/ fed'[j] # prompt'
                  /\ \A i \in 1 .. j - 1 : fed'[i] < fed'[j]
    <3>1. fed'[j] = fed[j] /\ \A i \in 1 .. j - 1 : fed'[i] = fed[i]
      BY <2>4
    <3> QED
      BY <2>2, <3>1 DEF FedInOrder
  <2>6. LET j == Len(fed) + 1 IN
        \/ fed'[j] \in missed'
        \/ /\ fed'[j] = 0 \/ fed'[j] # prompt'
           /\ \A i \in 1 .. j - 1 : fed'[i] < fed'[j]
    <3>1. \A i \in 1 .. (Len(fed) + 1) - 1 : i \in DOMAIN fed
      BY <2>4
    <3> QED
      BY <2>2, <2>3, <2>4, <3>1 DEF Fresh
  <2> QED
    BY <2>4, <2>5, <2>6 DEF FedInOrder
<1>4. CASE Record /\ prompt' # prompt
  <2>1. "child" \in Agents /\ "turn_input" \in Kinds
    BY DEF Agents, Kinds
  <2>2. Enqueue("child", "turn_input") /\ prompt' = NextSeq
        /\ fed' = fed /\ missed' = missed
    BY <1>4, RecordTurns
  <2>3. prompt' = sent + 1
    BY <2>1, <2>2, EnqueueEffect
  <2>4. \A j \in DOMAIN fed : fed[j] \in Nat /\ fed[j] <= sent
    BY <1>0 DEF NumbersKnown
  <2>5. \A j \in DOMAIN fed : fed[j] # prompt'
    BY <1>0, <2>3, <2>4
  <2> QED
    BY <2>2, <2>5 DEF FedInOrder
<1>5. CASE Recorded \/ Mark
  <2>1. missed \subseteq missed'
    BY <1>5, MarkTurns DEF TryMark
  <2> QED
    BY <1>1, <1>5, <2>1, MarkTurns
<1>6. CASE UNCHANGED <<sup, fed, prompt>> /\ missed \subseteq missed'
  BY <1>1, <1>6
<1>7. CASE Launch \/ Over
  BY <1>2, <1>7, LaunchTurns DEF Over
<1>8. CASE \/ Record /\ prompt' = prompt
           \/ Feed /\ fed' = fed
           \/ Drain \/ Running \/ Quiet
  BY <1>1, <1>8, RecordTurns, FeedTurns, DrainTurns, RunningTurns DEF Quiet
<1> QED
  BY <1>3, <1>4, <1>5, <1>6, <1>7, <1>8, TurnSteps

\* A turn that was stored later is fresh; one that is fed was in hand, and is
\* marked, or missed, before the supervisor looks again.
LEMMA FreshStep ==
    ASSUME TypeOK, Retention, TurnsCovered, NumbersKnown, TurnsFresh, [Next]_vars
    PROVE  TurnsFresh'
<1> USE DEF disk, harness, history
<1>0. /\ sup \in SupState /\ fed \in Seq(Nat) /\ sup.todo \subseteq Nat
      /\ sent \in Nat /\ prompt \in Nat /\ DOMAIN rows \subseteq Nat \ {0}
      /\ \A i \in DOMAIN fed : fed[i] \in Nat
  <2>1. fed \in Seq(Nat)
    BY DEF TypeOK
  <2> QED
    BY <2>1, StateTypes DEF TypeOK, SupState
<1>a. "child" \in Agents /\ "turn_input" \in Kinds
  BY DEF Agents, Kinds
<1>b. ASSUME NEW s, Fresh(s), UNCHANGED <<fed, prompt>>
      PROVE  Fresh(s)'
  BY <1>b DEF Fresh
<1>c. ASSUME Over PROVE TurnsFresh'
  BY <1>c DEF Over, TurnsFresh
<1>d. ASSUME NEW s, s = sent + 1, UNCHANGED <<fed, prompt>>
      PROVE  Fresh(s)'
  <2>1. \A i \in DOMAIN fed : fed[i] < s
    BY <1>0, <1>d DEF NumbersKnown
  <2>2. s # prompt
    BY <1>0, <1>d DEF NumbersKnown
  <2> QED
    BY <1>d, <2>1, <2>2 DEF Fresh
<1>e. ASSUME NEW c \in sup.todo, fed' = Append(fed, c), prompt' = prompt,
             NEW s \in Nat, Fresh(s), c < s
      PROVE  Fresh(s)'
  <2>1. c \in Nat
    BY <1>0
  <2>2. \A i \in DOMAIN fed' : (i \in DOMAIN fed /\ fed'[i] = fed[i]) \/ fed'[i] = c
    BY <1>0, <1>e, <2>1, AppendFed
  <2> QED
    BY <1>e, <2>2 DEF Fresh
<1>f. missed \subseteq missed' \/ Over
  BY TurnSteps, LaunchTurns, RecordTurns, MarkTurns, DrainTurns, FeedTurns,
     RunningTurns DEF Quiet, Over, TryMark
<1>g. \A s \in Pending : s \in Nat \ {0}
  BY <1>0 DEF Pending
<1>h. ASSUME Feed
      PROVE  /\ sup.pc = "feed" /\ sup'.todo = sup.todo
             /\ UNCHANGED <<rows, pub, sent, prompt, missed>>
             /\ \E c \in sup.todo :
                  /\ \A t \in sup.todo : c <= t
                  /\ \/ fed' = Append(fed, c) /\ sup'.pc = "mark" /\ sup'.cur = c
                     \/ fed' = fed /\ sup'.pc = "exit"
  BY <1>h, FeedTurns
<1>1. ASSUME sup'.pc # "ended", ~Over, NEW s \in Pending', s \notin missed'
      PROVE  Fresh(s)' \/ (s = sup'.cur /\ sup'.pc \in {"recorded", "mark"})
  <2>1. CASE s \in Pending
    <3>0. s \in Nat \ {0}
      BY <1>g, <2>1
    <3>1. /\ sup.pc # "ended" =>
               Fresh(s) \/ (s = sup.cur /\ sup.pc \in {"recorded", "mark"})
          /\ s \notin missed
      BY <1>1, <1>f, <2>1 DEF TurnsFresh
    <3>2. CASE UNCHANGED <<sup, fed, prompt>>
      BY <1>1, <1>b, <3>1, <3>2
    <3>3. CASE Launch
      <4>1. /\ sup.pc = "launch" /\ prompt' = prompt
            /\ \A i \in DOMAIN fed' : fed'[i] = 0
        BY <3>3, LaunchTurns
      <4>2. Fresh(s)
        BY <3>1, <4>1
      <4> QED
        BY <3>0, <4>1, <4>2 DEF Fresh
    <3>4. CASE Record
      <4>1. sup.pc = "record" /\ fed' = fed
        BY <3>4, RecordTurns
      <4>2. Fresh(s)
        BY <3>1, <4>1
      <4>3. prompt' = prompt \/ prompt' = sent + 1
        BY <1>a, <3>4, RecordTurns, EnqueueEffect
      <4>4. s # sent + 1
        BY <1>0, <2>1 DEF Pending, Retention
      <4> QED
        BY <4>1, <4>2, <4>3, <4>4 DEF Fresh
    <3>5. CASE Recorded \/ Mark
      <4>1. sup.pc # "ended" /\ TryMark(sup.cur) /\ UNCHANGED <<fed, prompt>>
        BY <3>5, MarkTurns
      <4>2. s # sup.cur
        <5>1. ASSUME s = sup.cur, MarkConsumed(sup.cur)
              PROVE  FALSE
          <6>1. s \in DOMAIN rows /\ ~rows'[s].consumed
            BY <1>1, <2>1 DEF Pending
          <6> QED
            BY <5>1, <6>1, MarkEffect
        <5>2. ASSUME s = sup.cur, missed' = missed \cup {sup.cur}
              PROVE  FALSE
          BY <1>1, <5>2
        <5> QED
          BY <4>1, <5>1, <5>2 DEF TryMark
      <4> QED
        BY <1>b, <3>1, <4>1, <4>2
    <3>6. CASE Feed
      <4>1. PICK c \in sup.todo :
              /\ \A t \in sup.todo : c <= t
              /\ \/ fed' = Append(fed, c) /\ sup'.pc = "mark" /\ sup'.cur = c
                 \/ fed' = fed /\ sup'.pc = "exit"
        BY <1>h, <3>6
      <4>2. sup.pc = "feed" /\ prompt' = prompt
        BY <1>h, <3>6
      <4>3. Fresh(s)
        BY <3>1, <4>2
      <4>4. CASE fed' = fed
        BY <1>b, <4>2, <4>3, <4>4
      <4>5. CASE fed' = Append(fed, c) /\ s # c
        <5>1. c < s
          <6>1. CASE s \in sup.todo
            <7>1. c <= s /\ c \in Nat
              BY <1>0, <4>1, <6>1
            <7> QED
              BY <3>0, <4>5, <7>1
          <6>2. CASE s \notin sup.todo
            BY <2>1, <3>1, <4>2, <6>2 DEF TurnsFresh
          <6> QED
            BY <6>1, <6>2
        <5> QED
          BY <1>e, <3>0, <4>2, <4>3, <4>5, <5>1
      <4> QED
        BY <4>1, <4>4, <4>5
    <3>7. CASE Drain \/ Running
      BY <1>b, <3>1, <3>7, DrainTurns, RunningTurns
    <3>8. CASE Quiet
      BY <1>b, <3>1, <3>8 DEF Quiet
    <3> QED
      BY <1>1, <3>2, <3>3, <3>4, <3>5, <3>6, <3>7, <3>8, TurnSteps
  <2>2. CASE s = sent + 1 /\ sent' = sent + 1
    <3>0. sent' # sent
      BY <1>0, <2>2
    <3>1. CASE Record /\ prompt' # prompt
      <4>1. /\ Enqueue("child", "turn_input")
            /\ sup'.pc = "recorded" /\ sup'.cur = NextSeq
        BY <3>1, RecordTurns
      <4>2. NextSeq = sent + 1
        BY <1>a, <4>1, EnqueueEffect
      <4> QED
        BY <2>2, <4>1, <4>2
    <3>2. CASE UNCHANGED <<fed, prompt>>
      BY <1>d, <2>2, <3>2
    <3>3. \/ UNCHANGED <<fed, prompt>>
          \/ Record /\ prompt' # prompt
          \/ sent' = sent
      <4>1. CASE Launch \/ Recorded \/ Mark \/ Drain \/ Running
        BY <4>1, LaunchTurns, MarkTurns, DrainTurns, RunningTurns
      <4>2. CASE Record
        BY <4>2, RecordTurns
      <4>3. CASE Feed
        BY <1>h, <4>3
      <4>4. CASE Quiet
        BY <4>4 DEF Quiet
      <4> QED
        BY <1>1, <4>1, <4>2, <4>3, <4>4, TurnSteps
    <3> QED
      BY <3>0, <3>1, <3>2, <3>3
  <2> QED
    BY <2>1, <2>2, PendingStep
<1>2. ASSUME ~Over, NEW s \in sup'.todo, s \notin missed'
      PROVE  Fresh(s)' \/ (s = sup'.cur /\ sup'.pc \in {"mark", "running"})
  <2>0. s \notin missed
    BY <1>2, <1>f
  <2>1. s \in sup.todo =>
          Fresh(s) \/ (s = sup.cur /\ sup.pc \in {"mark", "running"})
    BY <2>0 DEF TurnsFresh
  <2>2. sup.pc \in {"launch", "record", "recorded", "drain"} => sup.todo = {}
    BY DEF TurnsCovered
  <2>3. CASE UNCHANGED <<sup, fed, prompt>>
    BY <1>2, <1>b, <2>1, <2>3
  <2>4. CASE Launch \/ Record
    BY <1>2, <2>2, <2>4, LaunchTurns, RecordTurns
  <2>5. CASE Recorded \/ Mark
    BY <1>2, <1>b, <2>1, <2>2, <2>5, MarkTurns
  <2>6. CASE Drain
    <3>1. s \in Pending /\ sup.pc = "drain"
      BY <1>2, <2>2, <2>6, DrainTurns
    <3>2. Fresh(s)
      BY <2>0, <3>1 DEF TurnsFresh
    <3> QED
      BY <1>b, <2>6, <3>2, DrainTurns
  <2>7. CASE Feed
    <3>1. PICK c \in sup.todo :
            /\ \A t \in sup.todo : c <= t
            /\ \/ fed' = Append(fed, c) /\ sup'.pc = "mark" /\ sup'.cur = c
               \/ fed' = fed /\ sup'.pc = "exit"
      BY <1>h, <2>7
    <3>2. sup.pc = "feed" /\ prompt' = prompt /\ s \in sup.todo
      BY <1>2, <1>h, <2>7
    <3>3. Fresh(s)
      BY <2>1, <3>2
    <3>4. CASE fed' = fed
      BY <1>b, <3>2, <3>3, <3>4
    <3>5. CASE fed' = Append(fed, c) /\ s # c
      <4>1. c <= s /\ c \in Nat /\ s \in Nat
        BY <1>0, <3>1, <3>2
      <4>2. c < s
        BY <3>5, <4>1
      <4> QED
        BY <1>e, <3>2, <3>3, <3>5, <4>1, <4>2
    <3> QED
      BY <3>1, <3>4, <3>5
  <2>8. CASE Running
    <3>1. s \in sup.todo /\ s # sup.cur
      BY <1>2, <2>8, RunningTurns
    <3> QED
      BY <1>b, <2>1, <2>8, <3>1, RunningTurns
  <2>9. CASE Quiet
    BY <1>2, <1>b, <2>1, <2>9 DEF Quiet
  <2> QED
    BY <1>2, <2>3, <2>4, <2>5, <2>6, <2>7, <2>8, <2>9, TurnSteps
<1>3. ASSUME ~Over, sup'.pc \in {"feed", "mark", "running"}, NEW s \in Pending',
             s \notin missed', s \notin sup'.todo, NEW t \in sup'.todo
      PROVE  t < s
  <2>0. s \notin missed
    BY <1>3, <1>f
  <2>1. ASSUME sup.pc \in {"feed", "mark", "running"}, s \in Pending,
               s \notin sup.todo, t \in sup.todo
        PROVE  t < s
    BY <2>0, <2>1 DEF TurnsFresh
  <2>2. ASSUME s = sent + 1, t \in sup.todo
        PROVE  t < s
    BY <1>0, <2>2 DEF NumbersKnown
  <2>3. s \in Pending \/ s = sent + 1
    BY PendingStep
  <2>4. CASE UNCHANGED <<sup, fed, prompt>>
    BY <1>3, <2>1, <2>2, <2>3, <2>4
  <2>5. CASE Recorded \/ Mark
    BY <1>3, <2>1, <2>2, <2>3, <2>5, MarkTurns
  <2>6. CASE Feed
    BY <1>3, <1>h, <2>1, <2>2, <2>3, <2>6
  <2>7. CASE Drain
    <3>1. Pending' = Pending
      BY <2>7, DrainTurns DEF Pending
    <3> QED
      BY <1>3, <2>7, <3>1, DrainTurns
  <2>8. CASE Running
    <3>1. /\ sup.pc = "running" /\ UNCHANGED <<rows, missed>>
          /\ sup'.todo = sup.todo \ {sup.cur}
      BY <1>3, <2>8, RunningTurns
    <3>2. Pending' = Pending
      BY <3>1 DEF Pending
    <3>3. s # sup.cur
      <4>1. sup.cur \in Range(fed)
        BY <3>1 DEF TurnsCovered
      <4>2. Fresh(s)
        BY <1>3, <2>0, <3>1, <3>2 DEF TurnsFresh
      <4>3. ASSUME s = sup.cur PROVE s < s /\ s \in Nat
        BY <1>0, <4>1, <4>2, <4>3 DEF Fresh, Range
      <4> QED
        BY <4>3
    <3>4. s \in Pending /\ s \notin sup.todo
      BY <1>3, <3>1, <3>2, <3>3
    <3> QED
      BY <1>3, <2>1, <3>1, <3>4
  <2>9. CASE Launch \/ Record \/ Quiet
    BY <1>3, <2>9, LaunchTurns, RecordTurns DEF Quiet
  <2> QED
    BY <1>3, <2>4, <2>5, <2>6, <2>7, <2>8, <2>9, TurnSteps
<1> QED
  BY <1>1, <1>2, <1>3, <1>c DEF TurnsFresh

-----------------------------------------------------------------------------
(* The theorems.                                                           *)

LEMMA BusInit ==
    ASSUME Init
    PROVE  TypeOK /\ BusInv
<1>1. PICK t \in Traces, i \in Idles :
         sup = [pc |-> "launch", cur |-> 0, todo |-> {}, poll |-> FALSE,
                active |-> FALSE, notified |-> FALSE, trace |-> t,
                idle |-> i]
  BY DEF Init
<1>2. t \in BOOLEAN /\ i \in BOOLEAN /\ MaxFaults \in Nat
      /\ MaxPerSession \in Nat \ {0} /\ BcastCap \in Nat \ {0}
  BY AgentBusAssumption
<1>3. sup \in SupState /\ sup.pc = "launch" /\ sup.cur = 0 /\ sup.todo = {}
  BY <1>1, <1>2 DEF SupState, SupPC
<1>4. rd \in [Readers -> ReaderState]
  BY NoReaderType DEF Init
<1>5. \A r \in Readers : rd[r].pc = "off" /\ rd[r].rx = << >>
  BY DEF Init, NoReader
<1>6. /\ DOMAIN rows = {} /\ fed = << >> /\ sent = 0 /\ prompt = 0 /\ pub = {}
      /\ reported = 0 /\ outs = 0 /\ faults = 0
  BY DEF Init
<1>7. TypeOK
  <2>1. << >> \in Seq(Nat)
    OBVIOUS
  <2>2. wake \in BOOLEAN /\ alive \in BOOLEAN
    BY DEF Init
  <2>3. faults \in 0 .. MaxFaults
    BY <1>2, <1>6
  <2> QED
    BY <1>3, <1>4, <1>6, <2>1, <2>2, <2>3
       DEF Init, TypeOK, SupState, ReaderState, Event
<1>8. Retention
  BY <1>2, <1>6 DEF Retention
<1>9. ConsumedWasDelivered /\ WrittenBeforeMark /\ ResultsStored
  BY <1>3, <1>5, <1>6 DEF ConsumedWasDelivered, WrittenBeforeMark, ResultsStored
<1>10. EventsTrue /\ SeamComplete
  BY <1>5, <1>6 DEF EventsTrue, SeamComplete
<1>11. RxBounded
  <2>1. Len(<< >>) = 0 /\ 0 <= BcastCap
    BY <1>2
  <2> QED
    BY <1>5, <2>1 DEF RxBounded
<1>12. TurnsCovered
  BY <1>3 DEF TurnsCovered
<1>13. FeedInv
  BY <1>3, <1>6 DEF FeedInv, NumbersKnown, TurnsFresh, FedInOrder, Pending
<1> QED
  BY <1>7, <1>8, <1>9, <1>10, <1>11, <1>12, <1>13 DEF BusInv

LEMMA BusStep ==
    ASSUME TypeOK, BusInv, [Next]_vars
    PROVE  TypeOK' /\ BusInv'
<1> USE DEF BusInv, FeedInv
<1>1. TypeOK' /\ Retention'
  BY TypeStep, RetentionStep
<1>2. ConsumedWasDelivered' /\ WrittenBeforeMark' /\ ResultsStored'
  BY ConsumedStep, WrittenStep, ResultsStep
<1>3. EventsTrue' /\ SeamComplete'
  BY EventsStep, SeamStep
<1>4. RxBounded'
  BY RxStep DEF RxBounded
<1>5. TurnsCovered'
  BY CoverStep
<1>6. NumbersKnown' /\ TurnsFresh' /\ FedInOrder'
  BY KnownStep, FreshStep, OrderStep
<1> QED
  BY <1>1, <1>2, <1>3, <1>4, <1>5, <1>6

LEMMA BusInvariant == Spec => [](TypeOK /\ BusInv)
<1>1. Init => TypeOK /\ BusInv
  BY BusInit
<1>2. TypeOK /\ BusInv /\ [Next]_vars => (TypeOK /\ BusInv)'
  BY BusStep
<1> QED
  BY <1>1, <1>2, PTL DEF Spec

\* Type correctness of the bus, its readers and the supervisor.
THEOREM BusTypes == Spec => []TypeOK
  BY BusInvariant, PTL

\* For any cap, agent_msg_enqueue numbers the messages of a session without a
\* gap, and agent_messages holds exactly the newest ones: two writers never get
\* one number, and a number never comes back after its row was deleted.
THEOREM NumbersAreConsecutive == Spec => []Retention
<1>1. BusInv => Retention
  BY DEF BusInv
<1> QED
  BY <1>1, BusInvariant, PTL

\* AgentRecv and drain_turn_inputs write a message before they mark it, whatever
\* is interleaved, fails or is restarted: what agent_messages calls consumed has
\* reached a reader or the harness.
THEOREM ConsumedReachedSomebody == Spec => []ConsumedWasDelivered
<1>1. BusInv => ConsumedWasDelivered
  BY DEF BusInv
<1> QED
  BY <1>1, BusInvariant, PTL

\* drain_turn_inputs feeds each turn input once and in order, and never the
\* record of the opening prompt, but for turns whose mark the store refused.
THEOREM TurnsAreFedInOrder == Spec => []FedInOrder
<1>1. BusInv => FedInOrder
  BY DEF BusInv, FeedInv
<1> QED
  BY <1>1, BusInvariant, PTL

\* AgentRecv subscribes before it queries, so that a consuming reader that
\* follows can miss a message in three ways and no fourth, for any capacity of
\* the broadcast and any LIMIT: its subscription lagged, the LIMIT of the backlog
\* cut the message off, or the sender was aborted inside bus_enqueue, between the
\* insert and the send (kill_child, a browser that hangs up).
THEOREM SeamHasNoGap == Spec => []SeamComplete
<1>1. BusInv => SeamComplete
  BY DEF BusInv
<1> QED
  BY <1>1, BusInvariant, PTL

\* The supervisor's select! never sleeps on a turn input it has not fed without
\* an event that is there or on its way, even though the broadcast may drop any.
\* Left to the poll is only a turn whose sender was dropped inside bus_enqueue.
THEOREM TurnsAreNotStranded == Spec => []NoStrandedTurn
<1>1. BusInv => NoStrandedTurn
  <2> SUFFICES ASSUME BusInv, sup.pc = "select", NEW s \in Pending \ (Range(fed) \cup unheard)
               PROVE  wake \/ \E e \in pub : e.seq = s
    BY DEF NoStrandedTurn
  <2>1. sup.todo = {}
    BY DEF BusInv, TurnsCovered
  <2>2. Covered(s)
    BY <2>1 DEF BusInv, TurnsCovered
  <2> QED
    BY <2>2 DEF Covered
<1> QED
  BY <1>1, BusInvariant, PTL

\* The supervisor stores and publishes the output of a turn before the status
\* says awaiting_input.
THEOREM OutputBeforeStatus == Spec => OutputFirst
<1> USE DEF disk, harness, history
<1> DEFINE A == status # "awaiting_input" /\ status' = "awaiting_input" =>
                outs + faults >= reported /\ \A e \in pub : e.seq # sup.cur
<1>1. TypeOK /\ BusInv /\ [Next]_vars => [A]_vars
  <2> SUFFICES ASSUME TypeOK, BusInv, [Next]_vars, status # "awaiting_input",
                      status' = "awaiting_input"
               PROVE  outs + faults >= reported /\ \A e \in pub : e.seq # sup.cur
    OBVIOUS
  <2>1. Await
    <3>1. CASE Sends \/ FinishTurn \/ Die \/ UNCHANGED vars \/ \E e \in pub : Publish(e)
      BY <3>1, SendsAre DEF Posting, HangingUp, HangUp, FinishTurn, Die, vars, Publish
    <3>2. CASE \E r \in Readers : Recv(r)
      BY <3>2 DEF Recv, Subscribe, Query, WriteRow, BacklogEnd, TailEvent, MarkRead,
                  Disconnect
    <3>3. CASE Supervisor \/ Kill \/ Restart
      BY <3>3 DEF Supervisor, Work, Launch, Record, Recorded, Drain, Feed, Mark,
                  Running, Wake, Poll, Idle, AssistantText, Told, TurnComplete, Out,
                  Exited, FinishStatus, FinishTell, Forget, Kill, Restart
    <3> QED
      BY <3>1, <3>2, <3>3 DEF Next
  <2>2. sup.pc = "await" /\ \A e \in pub : e.seq # sup.cur
    BY <2>1 DEF Await, Published
  <2>3. reported \in Nat /\ outs \in Nat /\ faults \in Nat
    <3>1. reported \in Nat /\ outs \in Nat /\ faults \in 0 .. MaxFaults
      BY DEF TypeOK
    <3> QED
      BY <3>1
  <2>4. reported <= outs + faults + 0
    BY <2>2 DEF BusInv, ResultsStored
  <2> QED
    BY <2>2, <2>3, <2>4
<1>2. Spec => [][A]_vars
  BY <1>1, BusInvariant, PTL DEF Spec
<1> QED
  BY <1>2 DEF OutputFirst
=============================================================================
