-------------------------- MODULE DashboardProofs --------------------------
(***************************************************************************)
(* Proofs about Dashboard: its types, that a lost socket is replaced, that *)
(* a transcript is its group's own and that a message is missing between   *)
(* the load of a panel and the live tail only in the ways that are named.  *)
(*                                                                         *)
(* loadMessages is a loop, so that what it leaves is a matter of induction *)
(* on the length of the answer.  SetInduction below does it with a set.    *)
(***************************************************************************)
EXTENDS Dashboard, TLAPS, FiniteSetTheorems, WellFoundedInduction

-----------------------------------------------------------------------------
(* Induction and the loop of loadMessages.                                 *)

\* Every set of numbers but the empty one has a least element.
LEMMA NatMin ==
    ASSUME NEW T \in SUBSET Nat, T # {}
    PROVE  \E x \in T : \A y \in T : x <= y
<1> DEFINE R == OpToRel(<, Nat)
<1>1. IsWellFoundedOn(R, Nat)
  BY NatLessThanWellFounded
<1>2. \A x, y \in Nat : <<x, y>> \in R <=> x < y
  BY DEF OpToRel
<1> HIDE DEF R
<1>3. PICK x \in T : \A y \in T : ~ (<<y, x>> \in R)
  BY <1>1, WFMin
<1>4. \A y \in T : y \in Nat /\ x \in Nat /\ ~(y < x)
  BY <1>2, <1>3
<1>5. \A y \in T : x <= y
  BY <1>4
<1> QED BY <1>5

\* Induction, said of a set: no operator has to be instantiated to use it.
LEMMA SetInduction ==
    ASSUME NEW S \in SUBSET Nat, 0 \in S, \A n \in S : n + 1 \in S
    PROVE S = Nat
<1> SUFFICES ASSUME S # Nat PROVE FALSE
  OBVIOUS
<1>1. PICK x \in Nat \ S : \A y \in Nat \ S : x <= y
  BY NatMin
<1>2. x # 0
  OBVIOUS
<1>3. x - 1 \in Nat /\ x - 1 \notin Nat \ S
  BY <1>1, <1>2
<1> QED BY <1>3

\* What a round of the loop of loadMessages makes of panel q: message i is
\* appended if it is in the answer that ends with n.
Round(q, g, n, i) == IF i \in SessionLog(n) THEN AppendMessage(q, g, i) ELSE q

\* f gives the panel after each of the first k rounds.
Loop(f, p, g, n, k) ==
    f = [i \in 0 .. k |-> IF i = 0 THEN p ELSE Round(f[i - 1], g, n, i)]

\* The loop can be run for any number of messages (loadMessages).
LEMMA LoopRuns ==
    ASSUME NEW p, NEW g, NEW n \in Nat
    PROVE  \A k \in Nat : \E f : Loop(f, p, g, n, k)
<1> DEFINE S == {k \in Nat : \E f : Loop(f, p, g, n, k)}
<1>1. 0 \in S
  <2>1. Loop([i \in 0 .. 0 |-> p], p, g, n, 0)
    BY DEF Loop
  <2> QED BY <2>1
<1>2. ASSUME NEW k \in S
      PROVE  k + 1 \in S
  <2>1. PICK f : Loop(f, p, g, n, k)
    BY <1>2
  <2> DEFINE h == [i \in 0 .. (k + 1) |-> IF i = k + 1 THEN Round(f[k], g, n, k + 1) ELSE f[i]]
  <2>2. \A i \in 0 .. k : f[i] = IF i = 0 THEN p ELSE Round(f[i - 1], g, n, i)
    BY <2>1 DEF Loop
  <2>3. \A i \in 0 .. (k + 1) : i # 0 => h[i - 1] = f[i - 1]
    OBVIOUS
  <2>4. \A i \in 0 .. (k + 1) : h[i] = IF i = 0 THEN p ELSE Round(h[i - 1], g, n, i)
    BY <2>2, <2>3
  <2>5. Loop(h, p, g, n, k + 1)
    BY <2>4 DEF Loop
  <2> QED BY <2>5
<1> HIDE DEF S
<1>3. S = Nat
  <2>1. S \in SUBSET Nat
    BY DEF S
  <2> QED BY <1>1, <1>2, <2>1, SetInduction
<1> QED
  BY <1>3 DEF S

\* AppendMessages is what the last round leaves (loadMessages).
LEMMA LoopEnds ==
    ASSUME NEW p, NEW g, NEW n \in Nat
    PROVE  \E f : Loop(f, p, g, n, n) /\ AppendMessages(p, g, n) = f[n]
<1> DEFINE a == CHOOSE f : Loop(f, p, g, n, n)
<1>1. Loop(a, p, g, n, n)
  BY LoopRuns
<1>2. AppendMessages(p, g, n) = a[n]
  BY Zenon DEF AppendMessages, Loop, Round
<1> QED BY <1>1, <1>2

\* What is the same in panel p and panel q, when q is p with the messages of
\* N appended.
Appended(p, q, N) ==
    /\ q \in Panel
    /\ q.seen = p.seen \cup N
    /\ q.by = p.by /\ q.base = p.base

\* appendMessage takes the number into seen and leaves the rest.
LEMMA AppendTakes ==
    ASSUME NEW p \in Panel, NEW g \in Groups, NEW n \in Nat
    PROVE  Appended(p, AppendMessage(p, g, n), {n})
<1>1. CASE n \in p.seen
  <2>1. AppendMessage(p, g, n) = p
    BY <1>1 DEF AppendMessage
  <2> QED BY <1>1, <2>1 DEF Appended
<1>2. CASE n \notin p.seen
  <2> DEFINE q == [p EXCEPT !.seen = @ \cup {n}, !.shown = Append(@, <<g, n>>)]
  <2>1. AppendMessage(p, g, n) = q
    BY <1>2 DEF AppendMessage
  <2>2. /\ p.seen \cup {n} \in SUBSET Nat
        /\ Append(p.shown, <<g, n>>) \in Seq(Groups \X Nat)
    BY DEF Panel
  <2>3. q \in Panel /\ q.seen = p.seen \cup {n} /\ q.by = p.by /\ q.base = p.base
    BY <2>2 DEF Panel
  <2> HIDE DEF q
  <2> QED BY <2>1, <2>3 DEF Appended
<1> QED BY <1>1, <1>2

\* appendMessage keeps a transcript sound: the set seen is what keeps a
\* message from being shown twice.
LEMMA AppendKeepsSound ==
    ASSUME NEW p \in Panel, NEW g \in Groups, NEW n \in Nat, Sound(p, g)
    PROVE  Sound(AppendMessage(p, g, n), g)
<1>1. CASE n \in p.seen
  BY <1>1 DEF AppendMessage
<1>2. CASE n \notin p.seen
  <2> DEFINE q == AppendMessage(p, g, n)
             sh == p.shown
  <2>1. q.seen = p.seen \cup {n} /\ q.shown = Append(sh, <<g, n>>) /\ q.base = p.base
    BY <1>2 DEF AppendMessage, Panel
  <2> HIDE DEF q
  <2>2. sh \in Seq(Groups \X Nat)
    BY DEF Panel
  <2>3. /\ Len(sh) \in Nat /\ DOMAIN sh = 1 .. Len(sh)
        /\ DOMAIN q.shown = 1 .. (Len(sh) + 1)
        /\ \A i \in 1 .. Len(sh) : q.shown[i] = sh[i]
        /\ q.shown[Len(sh) + 1] = <<g, n>>
    BY <2>1, <2>2
  <2>4. \A i \in 1 .. Len(sh) : sh[i][1] = g /\ sh[i][2] \in p.seen
    BY <2>3 DEF Sound
  <2>5. \A i \in DOMAIN q.shown : i \in 1 .. Len(sh) \/ i = Len(sh) + 1
    BY <2>3
  <2>6. \A i \in DOMAIN q.shown : q.shown[i][1] = g /\ q.shown[i][2] \in q.seen
    BY <2>1, <2>3, <2>4, <2>5
  <2>7. \A i \in 1 .. Len(sh) : sh[i] # <<g, n>>
    BY <1>2, <2>4
  <2>8. \A i, j \in DOMAIN q.shown : q.shown[i] = q.shown[j] => i = j
    <3>1. \A i, j \in 1 .. Len(sh) : sh[i] = sh[j] => i = j
      BY <2>3 DEF Sound
    <3> QED BY <2>3, <2>5, <2>7, <3>1
  <2>9. SessionLog(q.base) \subseteq q.seen
    BY <2>1 DEF Sound
  <2> QED BY <2>6, <2>8, <2>9 DEF Sound, q
<1> QED BY <1>1, <1>2

\* What the loop of loadMessages leaves, whatever the length of the answer:
\* every message of it has been seen, and a sound transcript is sound.
LEMMA LoadTakesAll ==
    ASSUME NEW p \in Panel, NEW g \in Groups, NEW n \in Nat
    PROVE  /\ Appended(p, AppendMessages(p, g, n), SessionLog(n))
           /\ Sound(p, g) => Sound(AppendMessages(p, g, n), g)
<1>1. PICK f : Loop(f, p, g, n, n) /\ AppendMessages(p, g, n) = f[n]
  BY LoopEnds
<1>2. f[0] = p /\ \A i \in 1 .. n : f[i] = Round(f[i - 1], g, n, i)
  BY <1>1 DEF Loop
<1> DEFINE Taken(i) == {j \in SessionLog(n) : j <= i}
           Good(i) == /\ Appended(p, f[i], Taken(i))
                      /\ Sound(p, g) => Sound(f[i], g)
           S == {i \in Nat : i <= n => Good(i)}
<1>a. SessionLog(n) \subseteq 1 .. n
  BY DEF SessionLog
<1>3. 0 \in S
  <2>1. Taken(0) = {}
    BY <1>a
  <2> QED BY <1>2, <2>1 DEF Appended
<1>4. ASSUME NEW k \in S
      PROVE  k + 1 \in S
  <2> SUFFICES ASSUME k + 1 <= n PROVE Good(k + 1)
    BY <1>4
  <2>1. k \in Nat /\ Good(k)
    BY <1>4
  <2>2. f[k + 1] = Round(f[k], g, n, k + 1)
    BY <1>2, <2>1
  <2>3. f[k] \in Panel
    BY <2>1 DEF Appended
  <2>4. CASE k + 1 \in SessionLog(n)
    <3>1. f[k + 1] = AppendMessage(f[k], g, k + 1)
      BY <2>2, <2>4 DEF Round
    <3>2. Appended(f[k], f[k + 1], {k + 1})
      BY <2>1, <2>3, <3>1, AppendTakes
    <3>3. Sound(p, g) => Sound(f[k + 1], g)
      BY <2>1, <2>3, <3>1, AppendKeepsSound
    <3>4. Taken(k + 1) = Taken(k) \cup {k + 1}
      BY <1>a, <2>1, <2>4
    <3>5. Appended(p, f[k + 1], Taken(k + 1))
      BY <2>1, <3>2, <3>4 DEF Appended
    <3> QED BY <3>3, <3>5
  <2>5. CASE k + 1 \notin SessionLog(n)
    <3>1. f[k + 1] = f[k]
      BY <2>2, <2>5 DEF Round
    <3>2. Taken(k + 1) = Taken(k)
      BY <1>a, <2>1, <2>5
    <3> QED BY <2>1, <3>1, <3>2
  <2> QED BY <2>4, <2>5
<1>b. Taken(n) = SessionLog(n)
  BY <1>a
<1> HIDE DEF Good, Taken
<1>5. S \in SUBSET Nat
  OBVIOUS
<1> HIDE DEF S
<1>6. S = Nat
  BY <1>3, <1>4, <1>5, SetInduction
<1>7. Good(n)
  BY <1>6 DEF S
<1> QED BY <1>1, <1>7, <1>b DEF Good

-----------------------------------------------------------------------------
(* Counting.                                                               *)

\* The messages stored are finitely many.
LEMMA StoredFinite == IsFiniteSet(Stored)
<1> DEFINE T == (Groups \X Sessions) \X (1 .. MaxMsgs)
           f == [e \in Stored |-> <<<<e.group, e.session>>, e.seq>>]
<1>1. IsFiniteSet(Groups \X Sessions)
  BY DashboardAssumption, FS_Product
<1>2. IsFiniteSet(1 .. MaxMsgs)
  BY DashboardAssumption, FS_Interval
<1>3. IsFiniteSet(T)
  BY <1>1, <1>2, FS_Product
<1>4. \A e \in Stored : e \in [group : Groups, session : Sessions, seq : 1 .. MaxMsgs]
  BY DEF Stored
<1>5. \A e \in Stored : <<<<e.group, e.session>>, e.seq>> \in T
  BY <1>4
<1>6. \A d, e \in Stored : d.group = e.group /\ d.session = e.session /\ d.seq = e.seq => d = e
  BY <1>4
<1>7. \A d, e \in Stored : f[d] = f[e] => d = e
  BY <1>6
<1>8. f \in Injection(Stored, T)
  BY <1>5, <1>7 DEF Injection, IsInjective
<1> QED BY <1>3, <1>8, FS_Injection

\* While the bus is below its bound, so is every log.
LEMMA LogBelowBound ==
    ASSUME TypeOK, NEW g \in Groups, NEW s \in Sessions,
           Cardinality(Stored) < MaxMsgs
    PROVE  log[g][s] < MaxMsgs
<1>1. log[g][s] \in 0 .. MaxMsgs /\ MaxMsgs \in Nat
  BY DashboardAssumption DEF TypeOK
<1> SUFFICES ASSUME log[g][s] = MaxMsgs PROVE FALSE
  BY <1>1
<1> DEFINE ev(i) == [group |-> g, session |-> s, seq |-> i]
           f == [i \in 1 .. MaxMsgs |-> ev(i)]
<1>2. \A i \in 1 .. MaxMsgs :
         /\ ev(i) \in [group : Groups, session : Sessions, seq : 1 .. MaxMsgs]
         /\ ev(i).group = g /\ ev(i).session = s /\ ev(i).seq = i
         /\ i <= log[g][s]
  BY <1>1
<1>3. \A i \in 1 .. MaxMsgs : ev(i) \in Stored
  BY <1>2 DEF Stored
<1>4. \A i, j \in 1 .. MaxMsgs : ev(i) = ev(j) => i = j
  BY <1>2
<1> HIDE DEF ev
<1>5. f \in Injection(1 .. MaxMsgs, Stored)
  BY <1>3, <1>4 DEF Injection, IsInjective
<1>6. Cardinality(1 .. MaxMsgs) <= Cardinality(Stored)
  BY <1>5, StoredFinite, FS_Injection
<1>7. Cardinality(1 .. MaxMsgs) = MaxMsgs
  BY <1>1, FS_Interval
<1>8. Cardinality(Stored) \in Nat
  BY StoredFinite, FS_CardinalityType
<1> QED BY <1>1, <1>6, <1>7, <1>8

\* A sequence without repetitions has as many elements as its length.
LEMMA NoRepetition ==
    ASSUME NEW S, NEW q \in Seq(S),
           \A i, j \in DOMAIN q : q[i] = q[j] => i = j
    PROVE  Cardinality({q[i] : i \in DOMAIN q}) = Len(q)
<1> DEFINE T == {q[i] : i \in DOMAIN q}
           f == [i \in 1 .. Len(q) |-> q[i]]
<1>1. Len(q) \in Nat /\ DOMAIN q = 1 .. Len(q)
  OBVIOUS
<1>2. f \in [1 .. Len(q) -> T]
  BY <1>1
<1>3. IsInjective(f)
  BY <1>1 DEF IsInjective
<1>4. \A t \in T : \E i \in 1 .. Len(q) : f[i] = t
  BY <1>1
<1>5. f \in Bijection(1 .. Len(q), T)
  BY <1>2, <1>3, <1>4 DEF Bijection, Injection, Surjection
<1> HIDE DEF T
<1>6. ExistsBijection(1 .. Len(q), T)
  BY <1>5 DEF ExistsBijection
<1> QED BY <1>1, <1>6, FS_CountingElements DEF T

-----------------------------------------------------------------------------
(* Types.                                                                  *)

Call == [pc : {"free", "sessions", "answer", "loads"},
         kind : {"select", "refresh", "render"},
         group : Groups \cup {NoGroup},
         sess : SUBSET Sessions,
         loads : SUBSET [s : Sessions, n : -1 .. MaxMsgs]]

Socket == [st : {"none", "connecting", "live", "closed"},
           group : Groups \cup {NoGroup}, q : Seq(Event),
           lagged : BOOLEAN, before : SUBSET Event]

\* TypeOK and ClientInv, by the variables that they are about.
DaemonOK ==
    /\ sessions \in [Groups -> SUBSET Sessions]
    /\ log \in [Groups -> [Sessions -> 0 .. MaxMsgs]]
    /\ pub \subseteq Event /\ unheard \subseteq Event
PanelsOK ==
    /\ DOMAIN panels \subseteq Sessions
    /\ \A s \in DOMAIN panels : panels[s] \in Panel
CallsOK ==
    /\ calls \in [Slots -> Call]
    /\ \A t \in Slots : calls[t].pc # "free" => calls[t].group \in Groups /\ cur \in Groups
    /\ polling \in BOOLEAN
    /\ polling => cur \in Groups
SocketOK ==
    /\ ws \in Socket
    /\ (ws.st = "none") = (ws.group = NoGroup)
CountsOK ==
    /\ timers \in [Groups -> 0 .. MaxFaults]
    /\ \A g \in Groups : timers[g] <= faults
    /\ faults \in 0 .. MaxFaults
LimitsOK ==
    /\ cur \in Groups \cup {NoGroup}
    /\ selects \in 0 .. MaxSelects /\ refreshes \in 0 .. MaxRefresh

Typed == /\ DaemonOK /\ PanelsOK /\ CallsOK /\ SocketOK /\ CountsOK /\ LimitsOK

LEMMA TypedSplits == Typed <=> TypeOK /\ ClientInv
BY DEF Typed, DaemonOK, PanelsOK, CallsOK, SocketOK, CountsOK, LimitsOK,
       TypeOK, ClientInv, Call, Socket

\* A part holds as long as its variables do not change.
LEMMA Untouched ==
    /\ DaemonOK /\ UNCHANGED daemon => DaemonOK'
    /\ PanelsOK /\ UNCHANGED panels => PanelsOK'
    /\ CallsOK /\ UNCHANGED <<calls, cur, polling>> => CallsOK'
    /\ SocketOK /\ UNCHANGED ws => SocketOK'
    /\ CountsOK /\ UNCHANGED <<timers, faults>> => CountsOK'
    /\ LimitsOK /\ UNCHANGED <<cur, selects, refreshes>> => LimitsOK'
BY DEF daemon, DaemonOK, PanelsOK, CallsOK, SocketOK, CountsOK, LimitsOK

\* openWs leaves a socket that is connecting to the group.
Opened(g) == [st |-> "connecting", group |-> g, q |-> << >>,
              lagged |-> FALSE, before |-> {}]

LEMMA OpenWsOpens ==
    ASSUME NEW g \in Groups, OpenWs(g)
    PROVE  ws' = Opened(g) /\ SocketOK'
<1>1. ws' = Opened(g)
  BY DEF OpenWs, NoSocket, Opened
<1>2. Opened(g) \in Socket /\ Opened(g).st = "connecting" /\ Opened(g).group = g
  BY DEF Opened, Socket
<1>3. g # NoGroup
  BY DashboardAssumption
<1> QED BY <1>1, <1>2, <1>3 DEF SocketOK

LEMMA FreeIsCall ==
    /\ Free \in Call /\ Free.pc = "free" /\ Free.loads = {} /\ Free.sess = {}
    /\ \A k \in {"select", "refresh", "render"}, g \in Groups \cup {NoGroup} :
         LET c == [Free EXCEPT !.pc = "sessions", !.kind = k, !.group = g]
         IN  c \in Call /\ c.pc = "sessions" /\ c.kind = k /\ c.group = g
               /\ c.loads = {} /\ c.sess = {}
BY DEF Free, Call

\* Replacing one call by another that is about a group.
LEMMA CallReplaced ==
    ASSUME CallsOK, NEW t \in Slots, NEW c \in Call,
           calls' = [calls EXCEPT ![t] = c],
           c.pc # "free" => c.group \in Groups /\ cur' \in Groups,
           cur' = cur \/ cur' \in Groups,
           polling' = polling
    PROVE  CallsOK'
<1>1. calls' \in [Slots -> Call]
  BY DEF CallsOK
<1>2. calls'[t] = c /\ \A u \in Slots : u # t => calls'[u] = calls[u]
  BY DEF CallsOK
<1>3. \A u \in Slots : calls'[u].pc # "free" => calls'[u].group \in Groups /\ cur' \in Groups
  BY <1>2 DEF CallsOK
<1>4. (polling \in BOOLEAN) /\ (polling => cur \in Groups)
  BY DEF CallsOK
<1>5. (polling' \in BOOLEAN) /\ (polling' => cur' \in Groups)
  BY <1>4
<1> QED BY <1>1, <1>3, <1>5 DEF CallsOK

\* The end of a renderSessions.
LEMMA EndRenderTypes ==
    ASSUME Typed, NEW t \in Slots, calls[t].pc # "free", EndRender(t), cur' = cur
    PROVE  CallsOK' /\ SocketOK'
<1>1. calls[t].group \in Groups /\ cur \in Groups
  BY DEF Typed, CallsOK
<1>2. calls' = [calls EXCEPT ![t] = Free]
  BY DEF EndRender
<1>3. CASE calls[t].kind = "select"
  <2>1. OpenWs(calls[t].group) /\ polling' = TRUE
    BY <1>3 DEF EndRender
  <2>2. calls' \in [Slots -> Call]
    BY <1>2, FreeIsCall DEF Typed, CallsOK
  <2>3. \A u \in Slots : calls'[u] = Free \/ calls'[u] = calls[u]
    BY <1>2 DEF Typed, CallsOK
  <2>4. \A u \in Slots : calls'[u].pc # "free" => calls'[u].group \in Groups /\ cur' \in Groups
    <3>1. \A u \in Slots : calls[u].pc # "free" => calls[u].group \in Groups
      BY DEF Typed, CallsOK
    <3>2. Free.pc = "free"
      BY FreeIsCall
    <3> QED BY <1>1, <2>3, <3>1, <3>2
  <2>5. CallsOK'
    BY <1>1, <2>1, <2>2, <2>4 DEF CallsOK
  <2> QED BY <1>1, <2>1, <2>5, OpenWsOpens
<1>4. CASE calls[t].kind # "select"
  <2>1. ws' = ws /\ polling' = polling
    BY <1>4 DEF EndRender
  <2>2. CallsOK /\ SocketOK
    BY DEF Typed
  <2>3. CallsOK'
    BY <1>2, <2>1, <2>2, FreeIsCall, CallReplaced
  <2> QED BY <2>1, <2>2, <2>3, Untouched
<1> QED BY <1>3, <1>4

\* The end of one load.
LEMMA EndLoadTypes ==
    ASSUME Typed, NEW t \in Slots, calls[t].pc = "loads", NEW l \in calls[t].loads,
           EndLoad(t, l), cur' = cur
    PROVE  CallsOK' /\ SocketOK'
<1>1. CASE calls[t].loads = {l}
  BY <1>1, EndRenderTypes DEF EndLoad
<1>2. CASE calls[t].loads # {l}
  <2> DEFINE c == [calls[t] EXCEPT !.loads = @ \ {l}]
  <2>1. /\ ws' = ws /\ polling' = polling
        /\ calls' = [calls EXCEPT ![t].loads = @ \ {l}]
    BY <1>2 DEF EndLoad
  <2>2. CallsOK /\ SocketOK /\ calls[t] \in Call
    BY DEF Typed, CallsOK
  <2>3. calls' = [calls EXCEPT ![t] = c]
    BY <2>1, <2>2 DEF CallsOK
  <2>4. c \in Call /\ c.pc = calls[t].pc /\ c.group = calls[t].group
    BY <2>2 DEF Call
  <2>5. c.pc # "free" => c.group \in Groups /\ cur' \in Groups
    BY <2>2, <2>4 DEF CallsOK
  <2> HIDE DEF c
  <2>6. CallsOK'
    BY <2>1, <2>2, <2>3, <2>4, <2>5, CallReplaced
  <2> QED BY <2>1, <2>2, <2>6, Untouched
<1> QED BY <1>1, <1>2

\* The steps of the daemon keep the types.
LEMMA PostTypes ==
    ASSUME Typed, NEW g \in Groups, NEW s \in Sessions, Post(g, s)
    PROVE  Typed'
<1>1. log[g][s] < MaxMsgs
  BY LogBelowBound, TypedSplits DEF Post
<1>2. log \in [Groups -> [Sessions -> 0 .. MaxMsgs]] /\ log[g][s] \in 0 .. MaxMsgs
  BY DEF Typed, DaemonOK
<1>3. log[g][s] + 1 \in 0 .. MaxMsgs /\ log[g][s] + 1 \in Nat
  BY <1>1, <1>2, DashboardAssumption
<1>4. log' \in [Groups -> [Sessions -> 0 .. MaxMsgs]]
  BY <1>2, <1>3 DEF Post
<1>5. pub' \subseteq Event
  <2>1. [group |-> g, session |-> s, seq |-> log[g][s] + 1] \in Event
    BY <1>3 DEF Event
  <2> QED BY <2>1 DEF Typed, DaemonOK, Post
<1>6. DaemonOK'
  BY <1>4, <1>5 DEF Typed, DaemonOK, Post
<1>7. UNCHANGED <<cur, panels, calls, polling, ws, timers, faults, selects, refreshes>>
  BY DEF Post, bounds
<1> QED BY <1>6, <1>7, Untouched DEF Typed

LEMMA PublishTypes ==
    ASSUME Typed, NEW e \in pub, Publish(e)
    PROVE  Typed'
<1>1. e \in Event /\ pub \subseteq Event /\ ws \in Socket /\ ws.q \in Seq(Event)
  BY DEF Typed, DaemonOK, SocketOK, Socket
<1>2. UNCHANGED <<sessions, log, unheard, cur, panels, calls, polling, timers, faults,
                  selects, refreshes>>
  BY DEF Publish, bounds
<1>3. DaemonOK'
  BY <1>1, <1>2 DEF Publish, Typed, DaemonOK
<1>4. SocketOK'
  <2>1. CASE ws.st # "live"
    BY <2>1, Untouched DEF Publish, Typed
  <2>2. CASE ws.st = "live" /\ Len(ws.q) < BcastCap
    <3>1. ws' = [ws EXCEPT !.q = Append(@, e)]
      BY <2>2 DEF Publish
    <3>2. Append(ws.q, e) \in Seq(Event)
      BY <1>1
    <3>3. ws' \in Socket /\ ws'.st = ws.st /\ ws'.group = ws.group
      BY <1>1, <3>1, <3>2 DEF Socket
    <3> QED BY <3>3 DEF SocketOK, Typed
  <2>3. CASE ws.st = "live" /\ ~(Len(ws.q) < BcastCap)
    <3>1. ws' = [ws EXCEPT !.q = Append(Tail(@), e), !.lagged = TRUE]
      BY <2>3 DEF Publish
    <3>2. Append(Tail(ws.q), e) \in Seq(Event)
      <4>1. ws.q # << >>
        BY <1>1, <2>3, DashboardAssumption
      <4> QED BY <1>1, <4>1
    <3>3. ws' \in Socket /\ ws'.st = ws.st /\ ws'.group = ws.group
      BY <1>1, <3>1, <3>2 DEF Socket
    <3> QED BY <3>3 DEF SocketOK, Typed
  <2> QED BY <2>1, <2>2, <2>3
<1> QED BY <1>2, <1>3, <1>4, Untouched DEF Typed

LEMMA NewSessionTypes ==
    ASSUME Typed, NEW g \in Groups, NEW s \in Sessions, NewSession(g, s)
    PROVE  Typed'
<1>1. DaemonOK'
  BY DEF NewSession, Typed, DaemonOK
<1>2. UNCHANGED <<cur, panels, calls, polling, ws, timers, faults, selects, refreshes>>
  BY DEF NewSession, bounds
<1> QED BY <1>1, <1>2, Untouched DEF Typed

LEMMA ListSessionsTypes ==
    ASSUME Typed, NEW t \in Slots, ListSessions(t)
    PROVE  Typed'
<1> DEFINE c == [calls[t] EXCEPT !.pc = "answer", !.sess = sessions[calls[t].group]]
<1>1. CallsOK /\ calls[t] \in Call /\ calls[t].pc = "sessions"
  BY DEF Typed, CallsOK, ListSessions
<1>2. calls[t].group \in Groups /\ cur \in Groups
  BY <1>1 DEF CallsOK
<1>3. calls' = [calls EXCEPT ![t] = c]
  BY <1>1 DEF ListSessions, CallsOK
<1>4. sessions[calls[t].group] \in SUBSET Sessions
  BY <1>2 DEF Typed, DaemonOK
<1>5. c \in Call /\ c.group = calls[t].group
  BY <1>1, <1>4 DEF Call
<1>6. UNCHANGED <<daemon, cur, panels, polling, ws, timers, faults, selects, refreshes>>
  BY DEF ListSessions, bounds
<1> HIDE DEF c
<1>7. CallsOK'
  BY <1>1, <1>2, <1>3, <1>5, <1>6, CallReplaced
<1> QED BY <1>6, <1>7, Untouched DEF Typed

LEMMA ListMessagesTypes ==
    ASSUME Typed, NEW t \in Slots, ListMessages(t)
    PROVE  Typed'
<1>1. CallsOK /\ calls[t] \in Call /\ calls[t].pc = "loads"
  BY DEF Typed, CallsOK, ListMessages
<1>2. calls[t].group \in Groups /\ cur \in Groups
  BY <1>1 DEF CallsOK
<1>3. PICK l \in calls[t].loads :
        calls' = [calls EXCEPT ![t].loads = (@ \ {l}) \cup
                    {[s |-> l.s, n |-> log[calls[t].group][l.s]]}]
  BY DEF ListMessages
<1> DEFINE k == [s |-> l.s, n |-> log[calls[t].group][l.s]]
           c == [calls[t] EXCEPT !.loads = (@ \ {l}) \cup {k}]
<1>4. l.s \in Sessions
  BY <1>1, <1>3 DEF Call
<1>5. log[calls[t].group][l.s] \in -1 .. MaxMsgs
  BY <1>2, <1>4, DashboardAssumption DEF Typed, DaemonOK
<1>6. k \in [s : Sessions, n : -1 .. MaxMsgs]
  BY <1>4, <1>5
<1>7. calls' = [calls EXCEPT ![t] = c]
  BY <1>1, <1>3 DEF CallsOK
<1> HIDE DEF k
<1>8. c \in Call /\ c.group = calls[t].group
  BY <1>1, <1>6 DEF Call
<1>9. UNCHANGED <<daemon, cur, panels, polling, ws, timers, faults, selects, refreshes>>
  BY DEF ListMessages, bounds
<1> HIDE DEF c
<1>10. CallsOK'
  BY <1>1, <1>2, <1>7, <1>8, <1>9, CallReplaced
<1> QED BY <1>9, <1>10, Untouched DEF Typed

LEMMA WsSubscribeTypes ==
    ASSUME Typed, WsSubscribe
    PROVE  Typed'
<1> DEFINE B == {e \in Stored \ pub : e.group = ws.group}
<1>1. ws' = [ws EXCEPT !.st = "live", !.before = B] /\ ws.st = "connecting"
  BY DEF WsSubscribe
<1>2. B \in SUBSET Event
  BY DEF Stored, Event
<1>3. ws \in Socket
  BY DEF Typed, SocketOK
<1> HIDE DEF B
<1>4. ws' \in Socket /\ ws'.st = "live" /\ ws'.group = ws.group
  BY <1>1, <1>2, <1>3 DEF Socket
<1>5. SocketOK'
  BY <1>1, <1>4 DEF SocketOK, Typed
<1>6. UNCHANGED <<daemon, cur, panels, calls, polling, timers, faults, selects, refreshes>>
  BY DEF WsSubscribe, bounds
<1> QED BY <1>5, <1>6, Untouched DEF Typed

\* The steps of the client keep the types.
LEMMA SelectGroupTypes ==
    ASSUME Typed, NEW t \in Slots, NEW g \in Groups, SelectGroup(t, g)
    PROVE  Typed'
<1> DEFINE c == [Free EXCEPT !.pc = "sessions", !.kind = "select", !.group = g]
<1>1. c \in Call /\ c.group = g
  BY FreeIsCall
<1>2. /\ calls' = [calls EXCEPT ![t] = c] /\ cur' = g /\ panels' = << >>
      /\ selects < MaxSelects /\ selects' = selects + 1
      /\ UNCHANGED <<daemon, polling, ws, timers, refreshes, faults>>
  BY DEF SelectGroup
<1> HIDE DEF c
<1>3. CallsOK'
  BY <1>1, <1>2, CallReplaced DEF Typed
<1>4. PanelsOK'
  BY <1>2 DEF PanelsOK
<1>5. LimitsOK'
  BY <1>2, DashboardAssumption DEF LimitsOK, Typed
<1> QED BY <1>2, <1>3, <1>4, <1>5, Untouched DEF Typed

LEMMA RefreshStatusesTypes ==
    ASSUME Typed, NEW t \in Slots, RefreshStatuses(t)
    PROVE  Typed'
<1> DEFINE c == [Free EXCEPT !.pc = "sessions", !.kind = "refresh", !.group = cur]
<1>0. CallsOK /\ LimitsOK
  BY DEF Typed
<1>1. cur \in Groups
  BY <1>0 DEF CallsOK, RefreshStatuses
<1>2. c \in Call /\ c.group = cur
  BY <1>1, FreeIsCall
<1>3. /\ calls' = [calls EXCEPT ![t] = c]
      /\ refreshes < MaxRefresh /\ refreshes' = refreshes + 1
      /\ UNCHANGED <<daemon, cur, panels, polling, ws, timers, selects, faults>>
  BY DEF RefreshStatuses
<1> HIDE DEF c
<1>4. CallsOK'
  BY <1>0, <1>1, <1>2, <1>3, CallReplaced
<1>5. LimitsOK'
  BY <1>0, <1>3, DashboardAssumption DEF LimitsOK
<1> QED BY <1>3, <1>4, <1>5, Untouched DEF Typed

\* renderSessions of call t, when it does build panels.
Renders(t) ==
    /\ calls[t].group = cur
    /\ panels' = [s \in calls[t].sess \cup DOMAIN panels |->
                    IF s \in calls[t].sess THEN NewPanel(t) ELSE panels[s]]
    /\ calls' = [calls EXCEPT
                   ![t].pc = "loads",
                   ![t].sess = {},
                   ![t].loads = {[s |-> s, n |-> -1] : s \in calls[t].sess}]
    /\ UNCHANGED <<ws, polling>>

LEMMA RenderShape ==
    ASSUME NEW t \in Slots, RenderSessions(t)
    PROVE  /\ calls[t].pc = "answer"
           /\ (EndRender(t) /\ UNCHANGED panels) \/ Renders(t)
           /\ UNCHANGED <<daemon, cur, timers, bounds>>
BY DEF RenderSessions, Renders

\* What becomes of the call that renders.
LEMMA RenderCall ==
    ASSUME Typed, NEW t \in Slots, calls[t].pc = "answer", Renders(t)
    PROVE  \E c \in Call :
             /\ calls' = [calls EXCEPT ![t] = c]
             /\ c.pc = "loads" /\ c.group = calls[t].group /\ c.kind = calls[t].kind
             /\ c.loads = {[s |-> s, n |-> -1] : s \in calls[t].sess}
<1> DEFINE L == {[s |-> s, n |-> -1] : s \in calls[t].sess}
           c == [calls[t] EXCEPT !.pc = "loads", !.sess = {}, !.loads = L]
<1>1. calls \in [Slots -> Call] /\ calls[t] \in Call
  BY DEF Typed, CallsOK
<1>2. calls' = [calls EXCEPT ![t].pc = "loads", ![t].sess = {}, ![t].loads = L]
  BY DEF Renders
<1>3. L \in SUBSET [s : Sessions, n : -1 .. MaxMsgs]
  <2>1. \A s \in calls[t].sess : s \in Sessions
    BY <1>1 DEF Call
  <2>2. -1 \in -1 .. MaxMsgs
    BY DashboardAssumption
  <2> QED BY <2>1, <2>2
<1> HIDE DEF L
<1>4. calls' = [calls EXCEPT ![t] = c]
  BY <1>1, <1>2
<1>5. c \in Call /\ c.pc = "loads" /\ c.group = calls[t].group /\ c.kind = calls[t].kind /\ c.loads = L
  BY <1>1, <1>3 DEF Call
<1> HIDE DEF c
<1> QED BY <1>4, <1>5 DEF L

LEMMA NewPanelIsPanel ==
    ASSUME NEW t \in Slots
    PROVE  /\ NewPanel(t) \in Panel
           /\ NewPanel(t).seen = {} /\ NewPanel(t).shown = << >>
           /\ NewPanel(t).by = t /\ NewPanel(t).base = -1
BY DEF NewPanel, Panel

LEMMA RenderSessionsTypes ==
    ASSUME Typed, NEW t \in Slots, RenderSessions(t)
    PROVE  Typed'
<1>1. /\ calls[t].pc = "answer"
      /\ (EndRender(t) /\ UNCHANGED panels) \/ Renders(t)
      /\ UNCHANGED <<daemon, cur, timers, faults, selects, refreshes>>
  BY RenderShape DEF bounds
<1>2. CASE EndRender(t) /\ UNCHANGED panels
  <2>1. CallsOK' /\ SocketOK'
    BY <1>1, <1>2, EndRenderTypes
  <2> QED BY <1>1, <1>2, <2>1, Untouched DEF Typed
<1>3. CASE Renders(t)
  <2>1. calls[t] \in Call /\ calls[t].group \in Groups /\ cur \in Groups /\ CallsOK
    BY <1>1 DEF Typed, CallsOK
  <2>2. PICK c \in Call : calls' = [calls EXCEPT ![t] = c] /\ c.group = calls[t].group
    BY <1>1, <1>3, RenderCall
  <2>3. CallsOK'
    BY <1>1, <1>3, <2>1, <2>2, CallReplaced DEF Renders
  <2>4. PanelsOK'
    <3>1. calls[t].sess \subseteq Sessions
      BY <2>1 DEF Call
    <3>2. DOMAIN panels' = calls[t].sess \cup DOMAIN panels
      BY <1>3 DEF Renders
    <3>3. \A s \in DOMAIN panels' :
             panels'[s] = IF s \in calls[t].sess THEN NewPanel(t) ELSE panels[s]
      BY <1>3 DEF Renders
    <3>4. DOMAIN panels \subseteq Sessions /\ \A s \in DOMAIN panels : panels[s] \in Panel
      BY DEF Typed, PanelsOK
    <3> QED BY <3>1, <3>2, <3>3, <3>4, NewPanelIsPanel DEF PanelsOK
  <2> QED BY <1>1, <1>3, <2>3, <2>4, Untouched DEF Typed, Renders
<1> QED BY <1>1, <1>2, <1>3

LEMMA RefreshAnswerTypes ==
    ASSUME Typed, NEW t \in Slots, RefreshAnswer(t)
    PROVE  Typed'
<1> DEFINE d == [Free EXCEPT !.pc = "sessions", !.kind = "render", !.group = cur]
<1>1. CallsOK /\ calls[t].pc = "answer"
  BY DEF Typed, RefreshAnswer
<1>2. cur \in Groups
  BY <1>1 DEF CallsOK
<1>3. d \in Call /\ d.group = cur
  BY <1>2, FreeIsCall
<1>4. UNCHANGED <<daemon, cur, panels, polling, ws, timers, faults, selects, refreshes>>
  BY DEF RefreshAnswer, bounds
<1>5. \/ calls' = [calls EXCEPT ![t] = Free]
      \/ calls' = [calls EXCEPT ![t] = d]
  BY DEF RefreshAnswer
<1> HIDE DEF d
<1>6. CallsOK'
  <2>1. CASE calls' = [calls EXCEPT ![t] = Free]
    BY <1>1, <1>4, <2>1, FreeIsCall, CallReplaced
  <2>2. CASE calls' = [calls EXCEPT ![t] = d]
    BY <1>1, <1>2, <1>3, <1>4, <2>2, CallReplaced
  <2> QED BY <1>5, <2>1, <2>2
<1> QED BY <1>4, <1>6, Untouched DEF Typed

\* loadMessages of call t takes the answer l into a panel.
Loads(t, l) ==
    /\ l.s \in DOMAIN panels /\ calls[t].group = cur
    /\ panels' = [panels EXCEPT ![l.s] = Filled(panels[l.s], t, l)]

LEMMA LoadShape ==
    ASSUME NEW t \in Slots, LoadMessages(t)
    PROVE  /\ calls[t].pc = "loads"
           /\ UNCHANGED <<daemon, cur, timers, bounds>>
           /\ \E l \in calls[t].loads :
                /\ l.n >= 0 /\ EndLoad(t, l)
                /\ \/ Loads(t, l)
                   \/ /\ l.s \notin DOMAIN panels \/ calls[t].group # cur
                      /\ UNCHANGED panels
BY DEF LoadMessages, Loads

\* A panel that a load has filled.
LEMMA FilledPanel ==
    ASSUME NEW p \in Panel, NEW t \in Slots, NEW l \in [s : Sessions, n : -1 .. MaxMsgs],
           l.n >= 0, cur \in Groups
    PROVE  /\ Filled(p, t, l) \in Panel
           /\ Filled(p, t, l).seen = p.seen \cup SessionLog(l.n)
           /\ Filled(p, t, l).by = p.by
           /\ Filled(p, t, l).base = IF p.by = t THEN l.n ELSE p.base
           /\ Sound(p, cur) => Sound(Filled(p, t, l), cur)
<1> DEFINE q == AppendMessages(p, cur, l.n)
           b == IF p.by = t THEN l.n ELSE q.base
           r == [q EXCEPT !.base = b]
<1>1. l.n \in Nat
  BY DashboardAssumption
<1>2. Appended(p, q, SessionLog(l.n)) /\ (Sound(p, cur) => Sound(q, cur))
  BY <1>1, LoadTakesAll
<1>3. Filled(p, t, l) = r
  BY DEF Filled
<1> HIDE DEF q
<1>4. /\ q \in Panel /\ q.seen = p.seen \cup SessionLog(l.n)
      /\ q.by = p.by /\ q.base = p.base
  BY <1>2 DEF Appended
<1>b. b \in Int
  BY <1>1, <1>4 DEF Panel
<1>c. b = IF p.by = t THEN l.n ELSE q.base
  OBVIOUS
<1> HIDE DEF b
<1>5. /\ r \in Panel /\ r.seen = q.seen /\ r.by = q.by /\ r.shown = q.shown
      /\ r.base = b
  BY <1>b, <1>4 DEF Panel
<1> HIDE DEF r
<1>6. ASSUME Sound(p, cur) PROVE Sound(r, cur)
  <2>1. Sound(q, cur)
    BY <1>2, <1>6
  <2>2. SessionLog(r.base) \subseteq r.seen
    BY <1>c, <1>4, <1>5, <2>1 DEF Sound
  <2> QED BY <1>5, <2>1, <2>2 DEF Sound
<1> QED BY <1>c, <1>3, <1>4, <1>5, <1>6

LEMMA LoadMessagesTypes ==
    ASSUME Typed, NEW t \in Slots, LoadMessages(t)
    PROVE  Typed'
<1>1. /\ calls[t].pc = "loads"
      /\ UNCHANGED <<daemon, cur, timers, faults, selects, refreshes>>
  BY LoadShape DEF bounds
<1>2. PICK l \in calls[t].loads :
        /\ l.n >= 0 /\ EndLoad(t, l)
        /\ Loads(t, l) \/ UNCHANGED panels
  BY LoadShape
<1>3. CallsOK' /\ SocketOK'
  BY <1>1, <1>2, EndLoadTypes
<1>4. PanelsOK'
  <2>1. CASE UNCHANGED panels
    BY <2>1, Untouched DEF Typed
  <2>2. CASE Loads(t, l)
    <3>1. l \in [s : Sessions, n : -1 .. MaxMsgs] /\ cur \in Groups
      BY <1>1 DEF Typed, CallsOK, Call
    <3>2. l.s \in DOMAIN panels /\ panels[l.s] \in Panel
      BY <2>2 DEF Loads, Typed, PanelsOK
    <3>3. Filled(panels[l.s], t, l) \in Panel
      BY <1>2, <3>1, <3>2, FilledPanel
    <3>4. panels' = [panels EXCEPT ![l.s] = Filled(panels[l.s], t, l)]
      BY <2>2 DEF Loads
    <3>5. DOMAIN panels' = DOMAIN panels
      BY <3>4
    <3>6. \A s \in DOMAIN panels : panels'[s] \in Panel
      BY <3>2, <3>3, <3>4 DEF Typed, PanelsOK
    <3> QED BY <3>5, <3>6 DEF Typed, PanelsOK
  <2> QED BY <1>2, <2>1, <2>2
<1> QED BY <1>1, <1>3, <1>4, Untouched DEF Typed

LEMMA FaultCounts ==
    ASSUME CountsOK, Fault
    PROVE  /\ faults \in Nat /\ faults' = faults + 1 /\ faults' \in 0 .. MaxFaults
           /\ \A g \in Groups : timers[g] \in Nat /\ timers[g] <= faults
           /\ MaxFaults \in Nat
BY DashboardAssumption DEF CountsOK, Fault

LEMMA AbortTypes ==
    ASSUME Typed, NEW e \in pub, Abort(e)
    PROVE  Typed'
<1>1. /\ Fault /\ pub' = pub \ {e} /\ unheard' = unheard \cup {e}
      /\ UNCHANGED <<sessions, log, cur, panels, calls, polling, ws, timers,
                    selects, refreshes>>
  BY DEF Abort
<1>2. DaemonOK'
  BY <1>1 DEF Typed, DaemonOK
<1>3. CountsOK'
  <2>1. CountsOK
    BY DEF Typed
  <2>2. /\ faults \in Nat /\ faults' = faults + 1 /\ faults' \in 0 .. MaxFaults
        /\ \A g \in Groups : timers[g] \in Nat /\ timers[g] <= faults
    BY <1>1, <2>1, FaultCounts
  <2> QED BY <1>1, <2>1, <2>2 DEF CountsOK
<1> QED BY <1>1, <1>2, <1>3, Untouched DEF Typed

LEMMA FetchFailsTypes ==
    ASSUME Typed, NEW t \in Slots, FetchFails(t)
    PROVE  Typed'
<1>1. Fault /\ UNCHANGED <<daemon, cur, panels, timers, selects, refreshes>>
  BY DEF FetchFails
<1>2. CallsOK' /\ SocketOK'
  <2>1. CASE calls[t].pc \in {"sessions", "answer"} /\ EndRender(t)
    BY <1>1, <2>1, EndRenderTypes
  <2>2. CASE calls[t].pc = "loads" /\ \E l \in calls[t].loads : EndLoad(t, l)
    BY <1>1, <2>2, EndLoadTypes
  <2> QED BY <2>1, <2>2 DEF FetchFails
<1>3. CountsOK'
  <2>1. CountsOK
    BY DEF Typed
  <2>2. /\ faults \in Nat /\ faults' = faults + 1 /\ faults' \in 0 .. MaxFaults
        /\ \A g \in Groups : timers[g] \in Nat /\ timers[g] <= faults
    BY <1>1, <2>1, FaultCounts
  <2> QED BY <1>1, <2>1, <2>2 DEF CountsOK
<1> QED BY <1>1, <1>2, <1>3, Untouched DEF Typed

\* What a live socket brings.
LEMMA HeadEvent ==
    ASSUME Typed, WsEvent
    PROVE  /\ ws.q \in Seq(Event) /\ ws.q # << >>
           /\ Head(ws.q) \in Event /\ Tail(ws.q) \in Seq(Event)
           /\ Head(ws.q).group \in Groups /\ Head(ws.q).seq \in Nat
           /\ ws' = [ws EXCEPT !.q = Tail(ws.q)]
<1>1. ws.q \in Seq(Event) /\ ws.q # << >>
  BY DEF Typed, SocketOK, Socket, WsEvent
<1>2. Head(ws.q) \in Event /\ Tail(ws.q) \in Seq(Event)
  BY <1>1
<1>3. Head(ws.q).group \in Groups /\ Head(ws.q).seq \in Nat
  BY <1>2 DEF Event
<1> QED BY <1>1, <1>2, <1>3 DEF WsEvent

\* onmessage takes event e into a panel.
Takes(e) ==
    /\ e.group = ws.group /\ ws.group = cur /\ e.session \in DOMAIN panels
    /\ panels' = [panels EXCEPT ![e.session] =
                    AppendMessage(panels[e.session], cur, e.seq)]

LEMMA WsEventShape ==
    ASSUME WsEvent
    PROVE  /\ ws.st = "live"
           /\ UNCHANGED <<daemon, cur, calls, polling, timers, bounds>>
           /\ \/ Takes(Head(ws.q))
              \/ /\ ~(/\ Head(ws.q).group = ws.group /\ ws.group = cur
                      /\ Head(ws.q).session \in DOMAIN panels)
                 /\ UNCHANGED panels
<1> DEFINE e == Head(ws.q)
<1>1. panels' = IF /\ e.group = ws.group
                   /\ ws.group = cur
                   /\ e.session \in DOMAIN panels
                THEN [panels EXCEPT ![e.session] =
                        AppendMessage(panels[e.session], ws.group, e.seq)]
                ELSE panels
  BY DEF WsEvent
<1>2. ws.st = "live" /\ UNCHANGED <<daemon, cur, calls, polling, timers, bounds>>
  BY DEF WsEvent
<1> HIDE DEF e
<1>3. \/ Takes(e)
      \/ /\ ~(e.group = ws.group /\ ws.group = cur /\ e.session \in DOMAIN panels)
         /\ UNCHANGED panels
  BY <1>1 DEF Takes
<1> QED BY <1>2, <1>3 DEF e

LEMMA WsEventTypes ==
    ASSUME Typed, WsEvent
    PROVE  Typed'
<1> DEFINE e == Head(ws.q)
<1>1. /\ UNCHANGED <<daemon, cur, calls, polling, timers, faults, selects, refreshes>>
      /\ Takes(e) \/ UNCHANGED panels
  BY WsEventShape DEF bounds
<1>2. /\ e.group \in Groups /\ e.seq \in Nat
      /\ Tail(ws.q) \in Seq(Event) /\ ws' = [ws EXCEPT !.q = Tail(ws.q)]
  BY HeadEvent
<1> HIDE DEF e
<1>3. SocketOK'
  <2>1. ws' \in Socket /\ ws'.st = ws.st /\ ws'.group = ws.group
    BY <1>2 DEF Typed, SocketOK, Socket
  <2> QED BY <2>1 DEF Typed, SocketOK
<1>4. PanelsOK'
  <2>1. CASE UNCHANGED panels
    BY <2>1, Untouched DEF Typed
  <2>2. CASE Takes(e)
    <3> DEFINE a == AppendMessage(panels[e.session], cur, e.seq)
    <3>1. cur \in Groups /\ e.session \in DOMAIN panels /\ panels[e.session] \in Panel
      BY <1>2, <2>2 DEF Takes, Typed, PanelsOK
    <3>2. a \in Panel
      BY <1>2, <3>1, AppendTakes DEF Appended
    <3>3. panels' = [panels EXCEPT ![e.session] = a]
      BY <2>2 DEF Takes
    <3> HIDE DEF a
    <3>4. DOMAIN panels' = DOMAIN panels /\ \A s \in DOMAIN panels : panels'[s] \in Panel
      BY <3>1, <3>2, <3>3 DEF Typed, PanelsOK
    <3> QED BY <3>4 DEF Typed, PanelsOK
  <2> QED BY <1>1, <2>1, <2>2
<1> QED BY <1>1, <1>3, <1>4, Untouched DEF Typed

\* The socket after its loss.
Lost == [st |-> "closed", group |-> ws.group, q |-> << >>, lagged |-> FALSE, before |-> {}]

LEMMA WsCloseTypes ==
    ASSUME Typed, WsClose
    PROVE  Typed' /\ ws' = Lost
<1>1. ws' = Lost /\ ws.st \in {"connecting", "live"} /\ Fault
  BY DEF WsClose, NoSocket, Lost
<1>2. UNCHANGED <<daemon, cur, panels, calls, polling, selects, refreshes>>
  BY DEF WsClose
<1>3. ws.group \in Groups
  BY <1>1 DEF Typed, SocketOK, Socket
<1>4. SocketOK'
  <2>1. Lost \in Socket /\ Lost.st = "closed" /\ Lost.group = ws.group
    BY <1>3 DEF Lost, Socket
  <2> QED BY <1>1, <1>3, <2>1, DashboardAssumption DEF SocketOK
<1>5. CountsOK'
  <2>1. CountsOK
    BY DEF Typed
  <2>2. /\ faults \in Nat /\ faults' = faults + 1 /\ faults' \in 0 .. MaxFaults
        /\ \A g \in Groups : timers[g] \in Nat /\ timers[g] <= faults
        /\ MaxFaults \in Nat
    BY <1>1, <2>1, FaultCounts
  <2>3. timers' = timers \/ (cur \in Groups /\ timers' = [timers EXCEPT ![cur] = @ + 1])
    BY <1>3 DEF WsClose
  <2>4. timers \in [Groups -> 0 .. MaxFaults]
    BY <2>1 DEF CountsOK
  <2>5. CASE timers' = timers
    BY <2>2, <2>4, <2>5 DEF CountsOK
  <2>6. CASE cur \in Groups /\ timers' = [timers EXCEPT ![cur] = @ + 1]
    <3>1. \A g \in Groups : timers'[g] = IF g = cur THEN timers[g] + 1 ELSE timers[g]
      BY <2>4, <2>6
    <3>2. \A g \in Groups : timers'[g] \in 0 .. MaxFaults /\ timers'[g] <= faults'
      BY <2>2, <3>1
    <3>3. timers' \in [Groups -> 0 .. MaxFaults]
      BY <2>4, <2>6, <3>2
    <3> QED BY <2>2, <3>2, <3>3 DEF CountsOK
  <2> QED BY <2>3, <2>5, <2>6
<1> QED BY <1>1, <1>2, <1>4, <1>5, Untouched DEF Typed

LEMMA ReopenTypes ==
    ASSUME Typed, NEW g \in Groups, Reopen(g)
    PROVE  Typed'
<1>1. UNCHANGED <<daemon, cur, panels, calls, polling, faults, selects, refreshes>>
  BY DEF Reopen, bounds
<1>2. SocketOK'
  <2>1. CASE g = cur
    BY <2>1, OpenWsOpens DEF Reopen
  <2>2. CASE g # cur
    BY <2>2, Untouched DEF Reopen, Typed
  <2> QED BY <2>1, <2>2
<1>3. CountsOK'
  <2>1. CountsOK /\ timers[g] > 0 /\ timers' = [timers EXCEPT ![g] = @ - 1]
    BY DEF Reopen, Typed
  <2>2. \A h \in Groups : timers'[h] = IF h = g THEN timers[h] - 1 ELSE timers[h]
    BY <2>1 DEF CountsOK
  <2>3. \A h \in Groups : timers'[h] \in 0 .. MaxFaults /\ timers'[h] <= faults
    BY <2>1, <2>2, DashboardAssumption DEF CountsOK
  <2>4. timers' \in [Groups -> 0 .. MaxFaults]
    BY <2>1, <2>3 DEF CountsOK
  <2> QED BY <1>1, <2>1, <2>3, <2>4 DEF CountsOK
<1> QED BY <1>1, <1>2, <1>3, Untouched DEF Typed

\* SendReply is a Post.
LEMMA ReplyPosts ==
    ASSUME Typed, SendReply
    PROVE  \E g \in Groups, s \in Sessions : Post(g, s)
BY DashboardAssumption DEF SendReply, Typed, LimitsOK

LEMMA TypesInductive == Typed /\ [Next]_vars => Typed'
<1> SUFFICES ASSUME Typed, [Next]_vars PROVE Typed'
  OBVIOUS
<1>1. CASE \E t \in Slots : Client(t)
  <2> PICK t \in Slots : Client(t)
    BY <1>1
  <2> QED BY SelectGroupTypes, RefreshStatusesTypes, RenderSessionsTypes,
             RefreshAnswerTypes, LoadMessagesTypes, FetchFailsTypes DEF Client
<1>2. CASE \E t \in Slots : Server(t)
  BY <1>2, ListSessionsTypes, ListMessagesTypes DEF Server
<1>3. CASE \E g \in Groups, s \in Sessions : Post(g, s) \/ NewSession(g, s)
  BY <1>3, PostTypes, NewSessionTypes
<1>4. CASE SendReply
  BY <1>4, ReplyPosts, PostTypes
<1>5. CASE \E e \in pub : Publish(e) \/ Abort(e)
  BY <1>5, PublishTypes, AbortTypes
<1>6. CASE WsSubscribe
  BY <1>6, WsSubscribeTypes
<1>7. CASE WsEvent
  BY <1>7, WsEventTypes
<1>8. CASE WsClose
  BY <1>8, WsCloseTypes
<1>9. CASE \E g \in Groups : Reopen(g)
  BY <1>9, ReopenTypes
<1>10. CASE UNCHANGED vars
  <2>1. UNCHANGED <<sessions, log, pub, cur, panels, calls, polling, ws, timers,
                    unheard, faults, selects, refreshes>>
    BY <1>10 DEF vars
  <2> QED BY <2>1, Untouched DEF Typed, daemon
<1> QED BY <1>1, <1>2, <1>3, <1>4, <1>5, <1>6, <1>7, <1>8, <1>9, <1>10 DEF Next

LEMMA InitTyped == Init => Typed
<1> SUFFICES ASSUME Init PROVE Typed
  OBVIOUS
<1>1. /\ sessions = [g \in Groups |-> {First}]
      /\ log = [g \in Groups |-> [s \in Sessions |-> 0]]
      /\ pub = {} /\ unheard = {} /\ cur = NoGroup /\ panels = << >>
      /\ calls = [t \in Slots |-> Free]
      /\ polling = FALSE /\ ws = NoSocket
      /\ timers = [g \in Groups |-> 0]
      /\ selects = 0 /\ refreshes = 0 /\ faults = 0
  BY DEF Init
<1>2. DaemonOK
  BY <1>1, DashboardAssumption DEF DaemonOK
<1>3. PanelsOK
  BY <1>1 DEF PanelsOK
<1>4. CallsOK
  <2>1. Free \in Call /\ Free.pc = "free"
    BY FreeIsCall
  <2> QED BY <1>1, <2>1 DEF CallsOK
<1>5. SocketOK
  <2>1. NoSocket \in Socket /\ NoSocket.st = "none" /\ NoSocket.group = NoGroup
    BY DEF NoSocket, Socket
  <2> QED BY <1>1, <2>1 DEF SocketOK
<1>6. CountsOK /\ LimitsOK
  BY <1>1, DashboardAssumption DEF CountsOK, LimitsOK
<1> QED BY <1>2, <1>3, <1>4, <1>5, <1>6 DEF Typed

LEMMA AlwaysTyped == Spec => []Typed
BY InitTyped, TypesInductive, PTL DEF Spec

\* Every variable of the dashboard and the gateway has its type in every
\* reachable state: a call under way is about a group that exists, a socket
\* without a group is none, the log stays below its bound (app.js, web.rs).
THEOREM DashboardTypes == Spec => []TypeOK
<1>1. Typed => TypeOK
  BY TypedSplits
<1> QED BY <1>1, AlwaysTyped, PTL

-----------------------------------------------------------------------------
(* What a step does to the calls.                                          *)

\* A selectGroup under way, which opens a socket when it ends.
Selecting(c) == c.pc # "free" /\ c.kind = "select"

\* Every selectGroup goes on.
StillSelecting ==
    \A t \in Slots : Selecting(calls[t]) =>
                       Selecting(calls'[t]) /\ calls'[t].group = calls[t].group

\* No call has a load that it did not have before.
Shrinks ==
    \A t \in Slots : \A k \in calls'[t].loads :
       k \in calls[t].loads /\ calls'[t].group = calls[t].group

LEMMA SameCalls == UNCHANGED calls => Shrinks /\ StillSelecting
BY DEF Shrinks, StillSelecting

\* Replacing call t by c.
LEMMA ReplacedCalls ==
    ASSUME Typed, NEW t \in Slots, NEW c, calls' = [calls EXCEPT ![t] = c]
    PROVE  /\ (\A k \in c.loads : k \in calls[t].loads /\ c.group = calls[t].group) => Shrinks
           /\ (Selecting(calls[t]) => Selecting(c) /\ c.group = calls[t].group) => StillSelecting
<1>1. \A u \in Slots : calls'[u] = IF u = t THEN c ELSE calls[u]
  BY DEF Typed, CallsOK
<1>2. ASSUME \A k \in c.loads : k \in calls[t].loads /\ c.group = calls[t].group
      PROVE  Shrinks
  BY <1>1, <1>2 DEF Shrinks
<1>3. ASSUME Selecting(calls[t]) => Selecting(c) /\ c.group = calls[t].group
      PROVE  StillSelecting
  BY <1>1, <1>3 DEF StillSelecting
<1> QED BY <1>2, <1>3

\* The end of a renderSessions: a selectGroup opens its socket.
LEMMA EndRenderCalls ==
    ASSUME Typed, NEW t \in Slots, calls[t].pc # "free", EndRender(t)
    PROVE  /\ Shrinks
           /\ \/ ws' = Opened(calls[t].group)
              \/ UNCHANGED ws /\ StillSelecting
<1>1. calls[t].group \in Groups
  BY DEF Typed, CallsOK
<1>2. calls' = [calls EXCEPT ![t] = Free] /\ Free.loads = {}
  BY FreeIsCall DEF EndRender
<1>3. Shrinks
  BY <1>2, ReplacedCalls
<1>4. CASE calls[t].kind = "select"
  BY <1>1, <1>3, <1>4, OpenWsOpens DEF EndRender
<1>5. CASE calls[t].kind # "select"
  <2>1. ~Selecting(calls[t])
    BY <1>5 DEF Selecting
  <2>2. StillSelecting
    BY <1>2, <2>1, ReplacedCalls
  <2> QED BY <1>3, <1>5, <2>2 DEF EndRender
<1> QED BY <1>4, <1>5

LEMMA EndLoadCalls ==
    ASSUME Typed, NEW t \in Slots, calls[t].pc = "loads", NEW l \in calls[t].loads,
           EndLoad(t, l)
    PROVE  /\ Shrinks
           /\ \/ ws' = Opened(calls[t].group)
              \/ UNCHANGED ws /\ StillSelecting
<1>1. CASE calls[t].loads = {l}
  BY <1>1, EndRenderCalls DEF EndLoad
<1>2. CASE calls[t].loads # {l}
  <2> DEFINE c == [calls[t] EXCEPT !.loads = @ \ {l}]
  <2>1. ws' = ws /\ calls' = [calls EXCEPT ![t].loads = @ \ {l}]
    BY <1>2 DEF EndLoad
  <2>2. calls \in [Slots -> Call] /\ calls[t] \in Call
    BY DEF Typed, CallsOK
  <2>3. calls' = [calls EXCEPT ![t] = c]
    BY <2>1, <2>2
  <2>4. /\ c.pc = calls[t].pc /\ c.kind = calls[t].kind /\ c.group = calls[t].group
        /\ c.loads = calls[t].loads \ {l}
    BY <2>2 DEF Call
  <2> HIDE DEF c
  <2>5. Shrinks
    BY <2>3, <2>4, ReplacedCalls
  <2>6. StillSelecting
    <3>1. Selecting(calls[t]) => Selecting(c) /\ c.group = calls[t].group
      BY <2>4 DEF Selecting
    <3> QED BY <2>3, <3>1, ReplacedCalls
  <2> QED BY <2>1, <2>5, <2>6
<1> QED BY <1>1, <1>2

LEMMA FetchFailsCalls ==
    ASSUME Typed, NEW t \in Slots, FetchFails(t)
    PROVE  /\ Shrinks
           /\ \/ ws' = Opened(calls[t].group)
              \/ UNCHANGED ws /\ StillSelecting
           /\ UNCHANGED <<daemon, cur, panels, timers>>
<1>1. CASE calls[t].pc \in {"sessions", "answer"} /\ EndRender(t)
  BY <1>1, EndRenderCalls DEF FetchFails
<1>2. CASE calls[t].pc = "loads" /\ \E l \in calls[t].loads : EndLoad(t, l)
  BY <1>2, EndLoadCalls DEF FetchFails
<1> QED BY <1>1, <1>2 DEF FetchFails

LEMMA ListSessionsCalls ==
    ASSUME Typed, NEW t \in Slots, ListSessions(t)
    PROVE  Shrinks /\ StillSelecting /\ UNCHANGED <<daemon, cur, panels, ws, timers>>
<1> DEFINE c == [calls[t] EXCEPT !.pc = "answer", !.sess = sessions[calls[t].group]]
<1>1. calls \in [Slots -> Call] /\ calls[t] \in Call
  BY DEF Typed, CallsOK
<1>2. calls' = [calls EXCEPT ![t] = c]
  BY <1>1 DEF ListSessions
<1>3. /\ c.pc = "answer" /\ c.kind = calls[t].kind /\ c.group = calls[t].group
      /\ c.loads = calls[t].loads
  BY <1>1 DEF Call
<1> HIDE DEF c
<1>4. Shrinks
  BY <1>2, <1>3, ReplacedCalls
<1>5. Selecting(calls[t]) => Selecting(c) /\ c.group = calls[t].group
  BY <1>3 DEF Selecting
<1>6. StillSelecting
  BY <1>2, <1>5, ReplacedCalls
<1> QED BY <1>4, <1>6 DEF ListSessions

\* list_messages: one load that was without an answer has it.
LEMMA ListMessagesCalls ==
    ASSUME Typed, NEW t \in Slots, ListMessages(t)
    PROVE  /\ StillSelecting /\ UNCHANGED <<daemon, cur, panels, ws, timers>>
           /\ \E c \in Call, l \in calls[t].loads :
                /\ calls' = [calls EXCEPT ![t] = c]
                /\ c.group = calls[t].group
                /\ c.loads = (calls[t].loads \ {l}) \cup
                               {[s |-> l.s, n |-> log[calls[t].group][l.s]]}
<1>1. calls \in [Slots -> Call] /\ calls[t] \in Call /\ calls[t].pc = "loads"
  BY DEF Typed, CallsOK, ListMessages
<1>2. calls[t].group \in Groups
  BY <1>1 DEF Typed, CallsOK
<1>3. PICK l \in calls[t].loads :
        calls' = [calls EXCEPT ![t].loads = (@ \ {l}) \cup
                    {[s |-> l.s, n |-> log[calls[t].group][l.s]]}]
  BY DEF ListMessages
<1> DEFINE k == [s |-> l.s, n |-> log[calls[t].group][l.s]]
           c == [calls[t] EXCEPT !.loads = (@ \ {l}) \cup {k}]
<1>4. k \in [s : Sessions, n : -1 .. MaxMsgs]
  <2>1. l.s \in Sessions
    BY <1>1, <1>3 DEF Call
  <2>2. log[calls[t].group][l.s] \in -1 .. MaxMsgs
    BY <1>2, <2>1, DashboardAssumption DEF Typed, DaemonOK
  <2> QED BY <2>1, <2>2
<1>5. calls' = [calls EXCEPT ![t] = c]
  BY <1>1, <1>3
<1> HIDE DEF k
<1>6. /\ c \in Call /\ c.pc = calls[t].pc /\ c.kind = calls[t].kind
      /\ c.group = calls[t].group /\ c.loads = (calls[t].loads \ {l}) \cup {k}
  BY <1>1, <1>4 DEF Call
<1> HIDE DEF c
<1>7. Selecting(calls[t]) => Selecting(c) /\ c.group = calls[t].group
  BY <1>6 DEF Selecting
<1>8. StillSelecting
  BY <1>5, <1>7, ReplacedCalls
<1> QED BY <1>3, <1>5, <1>6, <1>8 DEF ListMessages, k

LEMMA RefreshStatusesCalls ==
    ASSUME Typed, NEW t \in Slots, RefreshStatuses(t)
    PROVE  Shrinks /\ StillSelecting /\ UNCHANGED <<daemon, cur, panels, ws, timers>>
<1> DEFINE c == [Free EXCEPT !.pc = "sessions", !.kind = "refresh", !.group = cur]
<1>1. calls' = [calls EXCEPT ![t] = c] /\ calls[t].pc = "free"
  BY DEF RefreshStatuses
<1>2. c.loads = {}
  BY FreeIsCall DEF Typed, LimitsOK
<1> HIDE DEF c
<1>3. ~Selecting(calls[t])
  BY <1>1 DEF Selecting
<1> QED BY <1>1, <1>2, <1>3, ReplacedCalls DEF RefreshStatuses

LEMMA RefreshAnswerCalls ==
    ASSUME Typed, NEW t \in Slots, RefreshAnswer(t)
    PROVE  Shrinks /\ StillSelecting /\ UNCHANGED <<daemon, cur, panels, ws, timers>>
<1> DEFINE d == [Free EXCEPT !.pc = "sessions", !.kind = "render", !.group = cur]
<1>1. d.loads = {} /\ Free.loads = {}
  BY FreeIsCall DEF Typed, LimitsOK
<1>2. ~Selecting(calls[t])
  BY DEF Selecting, RefreshAnswer
<1>3. calls' = [calls EXCEPT ![t] = Free] \/ calls' = [calls EXCEPT ![t] = d]
  BY DEF RefreshAnswer
<1> HIDE DEF d
<1> QED BY <1>1, <1>2, <1>3, ReplacedCalls DEF RefreshAnswer

LEMMA RendersCalls ==
    ASSUME Typed, NEW t \in Slots, calls[t].pc = "answer", Renders(t)
    PROVE  StillSelecting
<1>1. PICK c \in Call :
        /\ calls' = [calls EXCEPT ![t] = c]
        /\ c.pc = "loads" /\ c.group = calls[t].group /\ c.kind = calls[t].kind
  BY RenderCall
<1>2. Selecting(calls[t]) => Selecting(c) /\ c.group = calls[t].group
  BY <1>1 DEF Selecting
<1> QED BY <1>1, <1>2, ReplacedCalls

-----------------------------------------------------------------------------
(* A lost socket is replaced.                                              *)

\* Steps that lose no selectGroup, no timer and no socket.
LEMMA ReconnectsStays ==
    ASSUME Reconnects, StillSelecting, cur' = cur, timers' = timers,
           ws'.st = ws.st, ws'.group = ws.group
    PROVE  Reconnects'
BY DEF Reconnects, StillSelecting, Selecting

LEMMA OpenedReconnects ==
    ASSUME NEW g, ws' = Opened(g)
    PROVE  Reconnects'
BY DEF Reconnects, Opened

LEMMA ReconnectsInductive == Typed /\ Reconnects /\ [Next]_vars => Reconnects'
<1> SUFFICES ASSUME Typed, Reconnects, [Next]_vars PROVE Reconnects'
  OBVIOUS
<1>1. ASSUME NEW t \in Slots, NEW g \in Groups, SelectGroup(t, g)
      PROVE  Reconnects'
  <2> DEFINE c == [Free EXCEPT !.pc = "sessions", !.kind = "select", !.group = g]
  <2>1. c.pc = "sessions" /\ c.kind = "select" /\ c.group = g
    BY FreeIsCall
  <2>2. calls' = [calls EXCEPT ![t] = c] /\ cur' = g
    BY <1>1 DEF SelectGroup
  <2> HIDE DEF c
  <2>3. calls'[t] = c
    BY <2>2 DEF Typed, CallsOK
  <2> QED BY <2>1, <2>2, <2>3 DEF Reconnects
<1>2. ASSUME NEW t \in Slots, RefreshStatuses(t) \/ RefreshAnswer(t) \/ ListSessions(t) \/ ListMessages(t)
      PROVE  Reconnects'
  <2>1. StillSelecting /\ UNCHANGED <<cur, ws, timers>>
    BY <1>2, RefreshStatusesCalls, RefreshAnswerCalls, ListSessionsCalls, ListMessagesCalls
  <2> QED BY <2>1, ReconnectsStays
<1>3. ASSUME NEW t \in Slots, RenderSessions(t)
      PROVE  Reconnects'
  <2>1. /\ calls[t].pc = "answer"
        /\ EndRender(t) \/ Renders(t)
        /\ UNCHANGED <<cur, timers>>
    BY <1>3, RenderShape
  <2>2. CASE EndRender(t)
    BY <2>1, <2>2, EndRenderCalls, ReconnectsStays, OpenedReconnects
  <2>3. CASE Renders(t)
    BY <2>1, <2>3, RendersCalls, ReconnectsStays DEF Renders
  <2> QED BY <2>1, <2>2, <2>3
<1>4. ASSUME NEW t \in Slots, LoadMessages(t)
      PROVE  Reconnects'
  <2>1. calls[t].pc = "loads" /\ UNCHANGED <<cur, timers>>
    BY <1>4, LoadShape
  <2>2. PICK l \in calls[t].loads : EndLoad(t, l)
    BY <1>4, LoadShape
  <2> QED BY <2>1, <2>2, EndLoadCalls, ReconnectsStays, OpenedReconnects
<1>5. ASSUME NEW t \in Slots, FetchFails(t)
      PROVE  Reconnects'
  BY <1>5, FetchFailsCalls, ReconnectsStays, OpenedReconnects
<1>6. ASSUME NEW g \in Groups, NEW s \in Sessions, Post(g, s) \/ NewSession(g, s)
      PROVE  Reconnects'
  <2>1. UNCHANGED <<cur, calls, ws, timers>>
    BY <1>6 DEF Post, NewSession
  <2> QED BY <2>1, SameCalls, ReconnectsStays
<1>7. ASSUME NEW e \in pub, Publish(e)
      PROVE  Reconnects'
  <2>1. UNCHANGED <<cur, calls, timers>>
    BY <1>7 DEF Publish
  <2>2. ws'.st = ws.st /\ ws'.group = ws.group
    <3>1. ws \in Socket
      BY DEF Typed, SocketOK
    <3> QED BY <1>7, <3>1 DEF Publish, Socket
  <2> QED BY <2>1, <2>2, SameCalls, ReconnectsStays
<1>8. CASE WsSubscribe
  <2>1. ws \in Socket
    BY DEF Typed, SocketOK
  <2>2. ws'.st = "live"
    BY <1>8, <2>1 DEF WsSubscribe, Socket
  <2> QED BY <2>2 DEF Reconnects
<1>9. CASE WsEvent
  <2>1. ws \in Socket /\ ws.st = "live"
    BY <1>9 DEF Typed, SocketOK, WsEvent
  <2>2. ws'.st = "live"
    BY <1>9, <2>1 DEF WsEvent, Socket
  <2> QED BY <2>2 DEF Reconnects
<1>10. CASE WsClose
  <2>1. ws' = Lost /\ cur' = cur /\ ws'.group = ws.group
    BY <1>10, WsCloseTypes DEF WsClose, Lost
  <2>2. CASE ws.group = cur
    <3>1. timers' = [timers EXCEPT ![cur] = @ + 1] /\ ws.st # "none"
      BY <1>10, <2>2 DEF WsClose
    <3>2. cur \in Groups
      BY <2>2, <3>1 DEF Typed, SocketOK, Socket
    <3>3. timers \in [Groups -> 0 .. MaxFaults] /\ timers[cur] \in Nat
      BY <3>2, DashboardAssumption DEF Typed, CountsOK
    <3>4. timers'[cur] > 0
      BY <3>1, <3>2, <3>3
    <3> QED BY <2>1, <3>4 DEF Reconnects
  <2>3. CASE ws.group # cur
    BY <2>1, <2>3 DEF Reconnects
  <2> QED BY <2>2, <2>3
<1>11. ASSUME NEW g \in Groups, Reopen(g)
      PROVE  Reconnects'
  <2>1. CASE g = cur
    BY <1>11, <2>1, OpenWsOpens, OpenedReconnects DEF Reopen
  <2>2. CASE g # cur
    <3>1. UNCHANGED <<cur, calls, ws>> /\ timers' = [timers EXCEPT ![g] = @ - 1]
      BY <1>11, <2>2 DEF Reopen
    <3>2. cur \in Groups => timers'[cur] = timers[cur]
      BY <2>2, <3>1 DEF Typed, CountsOK
    <3>3. ws.st = "closed" /\ ws.group = cur => cur \in Groups
      BY DEF Typed, SocketOK, Socket
    <3> QED BY <3>1, <3>2, <3>3 DEF Reconnects
  <2> QED BY <2>1, <2>2
<1>12. CASE UNCHANGED vars
  BY <1>12 DEF vars, Reconnects
<1>13. CASE SendReply
  BY <1>6, <1>13, ReplyPosts
<1>14. ASSUME NEW e \in pub, Abort(e)
      PROVE  Reconnects'
  <2>1. UNCHANGED <<cur, calls, ws, timers>>
    BY <1>14 DEF Abort
  <2> QED BY <2>1, SameCalls, ReconnectsStays
<1> QED BY <1>1, <1>2, <1>3, <1>4, <1>5, <1>6, <1>7, <1>8, <1>9, <1>10, <1>11,
          <1>12, <1>13, <1>14 DEF Next, Client, Server

\* A lost socket is replaced, for any number of groups, overlapping calls and
\* losses: while the current group's socket is closed, a timer of onclose or a
\* selectGroup that will open another is under way (onclose, selectGroup).
THEOREM LostSocketsAreReplaced == Spec => []Reconnects
<1>1. Init => Reconnects
  BY DEF Init, Reconnects, NoSocket
<1> QED BY <1>1, AlwaysTyped, ReconnectsInductive, PTL DEF Spec

-----------------------------------------------------------------------------
(* A transcript is its group's own.                                        *)

LEMMA SoundInductive == Typed /\ PanelsSound /\ [Next]_vars => PanelsSound'
<1> SUFFICES ASSUME Typed, PanelsSound, [Next]_vars PROVE PanelsSound'
  OBVIOUS
<1>0. UNCHANGED <<panels, cur>> => PanelsSound'
  BY DEF PanelsSound, Sound
<1>1. ASSUME NEW t \in Slots, NEW g \in Groups, SelectGroup(t, g)
      PROVE  PanelsSound'
  BY <1>1 DEF SelectGroup, PanelsSound
<1>2. ASSUME NEW t \in Slots, RenderSessions(t)
      PROVE  PanelsSound'
  <2>1. (UNCHANGED panels \/ Renders(t)) /\ UNCHANGED cur
    BY <1>2, RenderShape
  <2>2. CASE Renders(t)
    <3>1. Sound(NewPanel(t), cur)
      BY NewPanelIsPanel DEF Sound, SessionLog
    <3>2. \A s \in DOMAIN panels' :
            panels'[s] = NewPanel(t) \/ (s \in DOMAIN panels /\ panels'[s] = panels[s])
      BY <2>2 DEF Renders
    <3>3. \A s \in DOMAIN panels' : Sound(panels'[s], cur)
      BY <3>1, <3>2 DEF PanelsSound
    <3> QED BY <2>1, <3>3 DEF PanelsSound, Sound
  <2> QED BY <1>0, <2>1, <2>2
<1>3. ASSUME NEW t \in Slots, LoadMessages(t)
      PROVE  PanelsSound'
  <2>1. calls[t].pc = "loads" /\ UNCHANGED cur
    BY <1>3, LoadShape
  <2>2. PICK l \in calls[t].loads : l.n >= 0 /\ (Loads(t, l) \/ UNCHANGED panels)
    BY <1>3, LoadShape
  <2>3. CASE Loads(t, l)
    <3>1. l \in [s : Sessions, n : -1 .. MaxMsgs] /\ cur \in Groups
      BY <2>1 DEF Typed, CallsOK, Call
    <3>2. l.s \in DOMAIN panels /\ panels[l.s] \in Panel /\ Sound(panels[l.s], cur)
      BY <2>3 DEF Loads, Typed, PanelsOK, PanelsSound
    <3>3. Sound(Filled(panels[l.s], t, l), cur)
      BY <2>2, <3>1, <3>2, FilledPanel
    <3>4. /\ DOMAIN panels' = DOMAIN panels
          /\ \A s \in DOMAIN panels : panels'[s] = Filled(panels[l.s], t, l) \/ panels'[s] = panels[s]
      BY <2>3 DEF Loads
    <3>5. \A s \in DOMAIN panels' : Sound(panels'[s], cur)
      BY <3>3, <3>4 DEF PanelsSound
    <3> QED BY <2>1, <3>5 DEF PanelsSound, Sound
  <2> QED BY <1>0, <2>1, <2>2, <2>3
<1>4. CASE WsEvent
  <2> DEFINE e == Head(ws.q)
             a == AppendMessage(panels[e.session], cur, e.seq)
  <2>1. (Takes(e) \/ UNCHANGED panels) /\ UNCHANGED cur
    BY <1>4, WsEventShape
  <2>2. e.group \in Groups /\ e.seq \in Nat
    BY <1>4, HeadEvent
  <2> HIDE DEF e
  <2>3. CASE Takes(e)
    <3>1. cur \in Groups
      BY <2>2, <2>3 DEF Takes
    <3>2. panels[e.session] \in Panel /\ Sound(panels[e.session], cur)
      BY <2>3 DEF Takes, Typed, PanelsOK, PanelsSound
    <3>3. Sound(a, cur)
      BY <2>2, <3>1, <3>2, AppendKeepsSound
    <3>4. panels' = [panels EXCEPT ![e.session] = a]
      BY <2>3 DEF Takes
    <3> HIDE DEF a
    <3>5. \A s \in DOMAIN panels' : Sound(panels'[s], cur)
      <4>1. /\ DOMAIN panels' = DOMAIN panels
            /\ \A s \in DOMAIN panels : panels'[s] = a \/ panels'[s] = panels[s]
        BY <3>4
      <4> QED BY <3>3, <4>1 DEF PanelsSound
    <3> QED BY <2>1, <3>5 DEF PanelsSound, Sound
  <2> QED BY <1>0, <2>1, <2>3
<1>5. ASSUME NEW t \in Slots,
             RefreshStatuses(t) \/ RefreshAnswer(t) \/ FetchFails(t) \/ Server(t)
      PROVE  PanelsSound'
  BY <1>0, <1>5 DEF RefreshStatuses, RefreshAnswer, FetchFails, Server,
                    ListSessions, ListMessages
<1>6. ASSUME NEW g \in Groups, NEW s \in Sessions, Post(g, s) \/ NewSession(g, s)
      PROVE  PanelsSound'
  BY <1>0, <1>6 DEF Post, NewSession
<1>7. CASE SendReply
  BY <1>6, <1>7, ReplyPosts
<1>8. CASE \E e \in pub : Publish(e) \/ Abort(e)
  BY <1>0, <1>8 DEF Publish, Abort
<1>9. CASE WsSubscribe \/ WsClose
  BY <1>0, <1>9 DEF WsSubscribe, WsClose
<1>10. CASE \E g \in Groups : Reopen(g)
  BY <1>0, <1>10 DEF Reopen
<1>11. CASE UNCHANGED vars
  BY <1>0, <1>11 DEF vars
<1> QED BY <1>1, <1>2, <1>3, <1>4, <1>5, <1>6, <1>7, <1>8, <1>9, <1>10, <1>11
        DEF Next, Client

LEMMA AlwaysSound == Spec => []PanelsSound
<1>1. Init => PanelsSound
  BY DEF Init, PanelsSound
<1> QED BY <1>1, AlwaysTyped, SoundInductive, PTL DEF Spec

\* A transcript shows messages of the current group only and none twice, for
\* any number of groups with sessions of the same name, of overlapping calls
\* and of messages (renderSessions, loadMessages, appendMessage, onmessage).
THEOREM TranscriptsAreOwn == Spec => []OwnTranscript
<1>1. Typed /\ PanelsSound => OwnTranscript
  <2> SUFFICES ASSUME Typed, PanelsSound, NEW s \in DOMAIN panels
               PROVE  /\ \A i \in DOMAIN panels[s].shown : panels[s].shown[i][1] = cur
                      /\ Cardinality({panels[s].shown[i] : i \in DOMAIN panels[s].shown})
                           = Len(panels[s].shown)
    BY DEF OwnTranscript
  <2>1. Sound(panels[s], cur) /\ panels[s] \in Panel
    BY DEF PanelsSound, Typed, PanelsOK
  <2>2. panels[s].shown \in Seq(Groups \X Nat)
    BY <2>1 DEF Panel
  <2>3. \A i, j \in DOMAIN panels[s].shown : panels[s].shown[i] = panels[s].shown[j] => i = j
    BY <2>1 DEF Sound
  <2>4. Cardinality({panels[s].shown[i] : i \in DOMAIN panels[s].shown}) = Len(panels[s].shown)
    BY <2>2, <2>3, NoRepetition
  <2> QED BY <2>1, <2>4 DEF Sound
<1> QED BY <1>1, AlwaysTyped, AlwaysSound, PTL

-----------------------------------------------------------------------------
(* What is missing between the load and the live tail.                     *)

\* The socket of the current group is live and has missed nothing.
Tailing == ws.st = "live" /\ ws.group = cur /\ ~ws.lagged

LEMMA CoveredIs ==
    \A s, b : b \in Covered(s) <=>
       \/ b = panels[s].base
       \/ \E k \in calls[panels[s].by].loads :
            k.s = s /\ calls[panels[s].by].group = cur /\ b = k.n
BY DEF Covered

\* Steps after which loads cover no less than before.
LEMMA CoveredStays ==
    ASSUME Typed, Shrinks, cur' = cur, DOMAIN panels' = DOMAIN panels,
           \A s \in DOMAIN panels : /\ panels'[s].by = panels[s].by
                                    /\ panels'[s].base \in Covered(s)
    PROVE  \A s \in DOMAIN panels' : \A b \in Covered(s)' :
              s \in DOMAIN panels /\ b \in Covered(s)
<1> SUFFICES ASSUME NEW s \in DOMAIN panels', NEW b \in Covered(s)'
             PROVE  s \in DOMAIN panels /\ b \in Covered(s)
  OBVIOUS
<1> DEFINE t == panels[s].by
<1>1. s \in DOMAIN panels /\ panels'[s].by = t
  OBVIOUS
<1>2. t \in Slots
  BY <1>1 DEF Typed, PanelsOK, Panel
<1>3. \/ b = panels'[s].base
      \/ \E k \in calls'[t].loads : k.s = s /\ calls'[t].group = cur /\ b = k.n
  BY <1>1 DEF Covered
<1> HIDE DEF t
<1>4. CASE b = panels'[s].base
  BY <1>1, <1>4
<1>5. CASE \E k \in calls'[t].loads : k.s = s /\ calls'[t].group = cur /\ b = k.n
  <2>1. PICK k \in calls'[t].loads : k.s = s /\ calls'[t].group = cur /\ b = k.n
    BY <1>5
  <2>2. k \in calls[t].loads /\ calls[t].group = cur
    BY <1>2, <2>1 DEF Shrinks
  <2> QED BY <1>1, <2>1, <2>2, CoveredIs DEF t
<1> QED BY <1>3, <1>4, <1>5

\* Steps that end no tail, cover no less and forget no message.
LEMMA TailStays ==
    ASSUME TailKnown, cur' = cur, log' = log,
           Tailing' => Tailing,
           \A s \in DOMAIN panels' : \A b \in Covered(s)' :
              b >= 0 => s \in DOMAIN panels /\ b \in Covered(s),
           Tailing' => \A s \in DOMAIN panels' : \A n : Known(s, n) => Known(s, n)'
    PROVE  TailKnown'
<1> SUFFICES ASSUME Tailing', NEW s \in DOMAIN panels', NEW b \in Covered(s)', b >= 0,
                    NEW n \in 1 .. log'[cur'][s], n > b
             PROVE  Known(s, n)'
  BY DEF TailKnown, Tailing
<1>1. s \in DOMAIN panels /\ b \in Covered(s) /\ n \in 1 .. log[cur][s] /\ Tailing
  OBVIOUS
<1>2. Known(s, n)
  BY <1>1 DEF TailKnown, Tailing
<1> QED BY <1>2

\* The same while nothing of what is known changes but the panels, which may
\* have seen more.
LEMMA TailStaysCalls ==
    ASSUME Typed, TailKnown, Shrinks, UNCHANGED <<cur, log, pub, unheard, ws>>,
           DOMAIN panels' = DOMAIN panels,
           \A s \in DOMAIN panels : /\ panels'[s].by = panels[s].by
                                    /\ panels'[s].base \in Covered(s)
                                    /\ panels[s].seen \subseteq panels'[s].seen
    PROVE  TailKnown'
<1>1. Tailing' => Tailing
  BY DEF Tailing
<1>2. \A s \in DOMAIN panels' : \A b \in Covered(s)' :
         b >= 0 => s \in DOMAIN panels /\ b \in Covered(s)
  BY CoveredStays
<1>3. \A s \in DOMAIN panels' : \A n : Known(s, n) => Known(s, n)'
  BY DEF Known
<1> QED BY <1>1, <1>2, <1>3, TailStays

LEMMA SamePanels ==
    ASSUME UNCHANGED panels
    PROVE  /\ DOMAIN panels' = DOMAIN panels
           /\ \A s \in DOMAIN panels : /\ panels'[s].by = panels[s].by
                                       /\ panels'[s].base \in Covered(s)
                                       /\ panels[s].seen \subseteq panels'[s].seen
BY CoveredIs

LEMMA OpenedTail ==
    ASSUME NEW g, ws' = Opened(g)
    PROVE  TailKnown'
BY DEF TailKnown, Opened

\* The daemon's steps.
LEMMA PostTail ==
    ASSUME Typed, TailKnown, NEW g \in Groups, NEW r \in Sessions, Post(g, r)
    PROVE  TailKnown'
<1> DEFINE m == log[g][r] + 1
<1>1. /\ UNCHANGED <<cur, panels, calls, ws, unheard>>
      /\ log' = [log EXCEPT ![g][r] = @ + 1]
      /\ pub' = pub \cup {[group |-> g, session |-> r, seq |-> m]}
  BY DEF Post
<1>2. log \in [Groups -> [Sessions -> 0 .. MaxMsgs]] /\ log[g][r] \in Nat
  BY DashboardAssumption DEF Typed, DaemonOK
<1>3. \A h \in Groups, s \in Sessions :
         log'[h][s] = IF h = g /\ s = r THEN m ELSE log[h][s]
  BY <1>1, <1>2
<1> SUFFICES ASSUME Tailing', NEW s \in DOMAIN panels', NEW b \in Covered(s)', b >= 0,
                    NEW n \in 1 .. log'[cur'][s], n > b
             PROVE  Known(s, n)'
  BY DEF TailKnown, Tailing
<1>4. Tailing /\ s \in DOMAIN panels /\ b \in Covered(s)
  BY <1>1 DEF Tailing, Covered
<1>5. cur \in Groups /\ s \in Sessions
  BY <1>1, <1>4 DEF Tailing, Typed, SocketOK, Socket, PanelsOK
<1>6. CASE cur = g /\ s = r /\ n = m
  <2>1. [group |-> cur, session |-> s, seq |-> n] \in pub'
    BY <1>1, <1>6
  <2> QED BY <1>1, <2>1 DEF Known
<1>7. CASE ~(cur = g /\ s = r /\ n = m)
  <2>1. log[cur][s] \in Nat /\ log'[cur][s] = IF cur = g /\ s = r THEN m ELSE log[cur][s]
    BY <1>2, <1>3, <1>5, DashboardAssumption
  <2>2. n \in 1 .. log[cur][s]
    <3>1. n \in 1 .. log'[cur][s] /\ n \in Nat
      BY <1>1
    <3>2. CASE cur = g /\ s = r
      <4>1. n \in 1 .. m /\ n # m /\ m = log[cur][s] + 1
        BY <1>7, <2>1, <3>1, <3>2
      <4> HIDE DEF m
      <4> QED BY <2>1, <3>1, <4>1
    <3>3. CASE ~(cur = g /\ s = r)
      BY <2>1, <3>1, <3>3
    <3> QED BY <3>2, <3>3
  <2>3. Known(s, n)
    BY <1>4, <2>2 DEF TailKnown, Tailing
  <2> QED BY <1>1, <2>3 DEF Known
<1> QED BY <1>6, <1>7

LEMMA PublishTail ==
    ASSUME Typed, TailKnown, NEW e \in pub, Publish(e)
    PROVE  TailKnown'
<1>1. UNCHANGED <<cur, log, unheard, panels, calls>> /\ pub' = pub \ {e}
  BY DEF Publish
<1>2. ws \in Socket /\ ws.q \in Seq(Event) /\ e \in Event
  BY DEF Typed, SocketOK, Socket, DaemonOK
<1>3. CASE ws.st # "live"
  BY <1>3 DEF Publish, TailKnown
<1>4. CASE ws.st = "live" /\ ~(Len(ws.q) < BcastCap)
  <2>1. ws' = [ws EXCEPT !.q = Append(Tail(@), e), !.lagged = TRUE]
    BY <1>4 DEF Publish
  <2>2. ws'.lagged = TRUE
    BY <1>2, <2>1 DEF Socket
  <2> QED BY <2>2 DEF TailKnown
<1>5. CASE ws.st = "live" /\ Len(ws.q) < BcastCap
  <2>1. ws' = [ws EXCEPT !.q = Append(@, e)]
    BY <1>5 DEF Publish
  <2>2. /\ ws'.st = ws.st /\ ws'.group = ws.group /\ ws'.lagged = ws.lagged
        /\ ws'.before = ws.before /\ ws'.q = Append(ws.q, e)
    BY <1>2, <2>1 DEF Socket
  <2>3. Tailing' => Tailing
    BY <1>1, <2>2 DEF Tailing
  <2>4. \A s \in DOMAIN panels' : \A b \in Covered(s)' :
           b >= 0 => s \in DOMAIN panels /\ b \in Covered(s)
    BY <1>1 DEF Covered
  <2>5. /\ \A i \in DOMAIN ws.q : i \in DOMAIN ws'.q /\ ws'.q[i] = ws.q[i]
        /\ \E i \in DOMAIN ws'.q : ws'.q[i] = e
    <3>1. Len(ws.q) \in Nat /\ DOMAIN ws.q = 1 .. Len(ws.q)
      BY <1>2
    <3>2. DOMAIN ws'.q = 1 .. (Len(ws.q) + 1) /\ ws'.q[Len(ws.q) + 1] = e
      BY <1>2, <2>2
    <3>3. \A i \in 1 .. Len(ws.q) : ws'.q[i] = ws.q[i]
      BY <1>2, <2>2
    <3> QED BY <3>1, <3>2, <3>3
  <2>6. \A s \in DOMAIN panels' : \A n : Known(s, n) => Known(s, n)'
    BY <1>1, <2>2, <2>5 DEF Known
  <2> QED BY <1>1, <2>3, <2>4, <2>6, TailStays
<1> QED BY <1>3, <1>4, <1>5

\* A message whose sender is aborted is one that nobody will hear of.
LEMMA AbortTail ==
    ASSUME Typed, TailKnown, NEW e \in pub, Abort(e)
    PROVE  TailKnown'
<1>1. /\ UNCHANGED <<cur, log, panels, calls, ws>>
      /\ pub' = pub \ {e} /\ unheard' = unheard \cup {e}
  BY DEF Abort
<1>2. Tailing' => Tailing
  BY <1>1 DEF Tailing
<1>3. \A s \in DOMAIN panels' : \A b \in Covered(s)' :
         b >= 0 => s \in DOMAIN panels /\ b \in Covered(s)
  BY <1>1 DEF Covered
<1>4. \A s \in DOMAIN panels' : \A n : Known(s, n) => Known(s, n)'
  BY <1>1 DEF Known
<1> QED BY <1>1, <1>2, <1>3, <1>4, TailStays

LEMMA ListMessagesTail ==
    ASSUME Typed, TailKnown, NEW t \in Slots, ListMessages(t)
    PROVE  TailKnown'
<1>1. UNCHANGED <<log, pub, unheard, cur, panels, ws>>
  BY ListMessagesCalls DEF daemon
<1>2. PICK c \in Call, l \in calls[t].loads :
        /\ calls' = [calls EXCEPT ![t] = c]
        /\ c.group = calls[t].group
        /\ c.loads = (calls[t].loads \ {l}) \cup
                       {[s |-> l.s, n |-> log[calls[t].group][l.s]]}
  BY ListMessagesCalls
<1>3. \A u \in Slots : calls'[u] = IF u = t THEN c ELSE calls[u]
  BY <1>2 DEF Typed, CallsOK
<1> SUFFICES ASSUME Tailing', NEW s \in DOMAIN panels', NEW b \in Covered(s)', b >= 0,
                    NEW n \in 1 .. log'[cur'][s], n > b
             PROVE  Known(s, n)'
  BY DEF TailKnown, Tailing
<1> DEFINE u == panels[s].by
<1>4. u \in Slots /\ s \in Sessions
  BY <1>1 DEF Typed, PanelsOK, Panel
<1>5. \/ b = panels[s].base
      \/ \E k \in calls'[u].loads : k.s = s /\ calls'[u].group = cur /\ b = k.n
  BY <1>1 DEF Covered
<1> HIDE DEF u
<1>6. b \in Covered(s) \/ b = log[cur][s]
  <2>1. CASE b = panels[s].base
    BY <2>1, CoveredIs
  <2>2. CASE \E k \in calls'[u].loads : k.s = s /\ calls'[u].group = cur /\ b = k.n
    <3>1. PICK k \in calls'[u].loads : k.s = s /\ calls'[u].group = cur /\ b = k.n
      BY <2>2
    <3>2. calls[u].group = cur
      BY <1>2, <1>3, <1>4, <3>1
    <3>3. CASE k \in calls[u].loads
      BY <3>1, <3>2, <3>3, CoveredIs DEF u
    <3>4. CASE k \notin calls[u].loads
      <4>1. u = t /\ k = [s |-> l.s, n |-> log[calls[t].group][l.s]]
        BY <1>2, <1>3, <1>4, <3>1, <3>4
      <4> QED BY <3>1, <3>2, <4>1
    <3> QED BY <3>3, <3>4
  <2> QED BY <1>5, <2>1, <2>2
<1>7. cur \in Groups
  BY <1>1 DEF Tailing, Typed, SocketOK, Socket
<1>8. log[cur][s] \in Nat
  BY <1>4, <1>7, DashboardAssumption DEF Typed, DaemonOK
<1>9. b \in Covered(s)
  BY <1>1, <1>6, <1>8
<1>10. Known(s, n)
  BY <1>1, <1>9 DEF TailKnown, Tailing
<1> QED BY <1>1, <1>10 DEF Known

LEMMA SubscribeTail ==
    ASSUME Typed, WsSubscribe
    PROVE  TailKnown'
<1>1. /\ UNCHANGED <<sessions, log, pub, cur, panels, calls>>
      /\ ws' = [ws EXCEPT !.st = "live",
                          !.before = {e \in Stored \ pub : e.group = ws.group}]
  BY DEF WsSubscribe, daemon
<1>2. ws \in Socket
  BY DEF Typed, SocketOK
<1>3. ws'.before = {e \in Stored \ pub : e.group = ws.group} /\ ws'.group = ws.group
  BY <1>1, <1>2 DEF Socket
<1> SUFFICES ASSUME Tailing', NEW s \in DOMAIN panels',
                    NEW n \in 1 .. log'[cur'][s]
             PROVE  Known(s, n)'
  BY DEF TailKnown, Tailing
<1> DEFINE e == [group |-> cur, session |-> s, seq |-> n]
<1>4. s \in Sessions /\ ws.group = cur /\ cur' = cur
  BY <1>1, <1>3 DEF Tailing, Typed, PanelsOK
<1>5. cur \in Groups
  BY <1>3, <1>2, <1>4 DEF Typed, SocketOK, Socket, WsSubscribe
<1>6. log[cur][s] \in 0 .. MaxMsgs /\ n \in 1 .. log[cur][s]
  BY <1>1, <1>4, <1>5 DEF Typed, DaemonOK
<1>7. e \in [group : Groups, session : Sessions, seq : 1 .. MaxMsgs]
  BY <1>4, <1>5, <1>6, DashboardAssumption
<1>8. e \in Stored /\ e.group = ws.group
  BY <1>4, <1>6, <1>7 DEF Stored
<1> HIDE DEF e
<1>9. e \in pub' \/ e \in ws'.before
  BY <1>1, <1>3, <1>8
<1> QED BY <1>4, <1>9 DEF Known, e

\* The client's steps.
LEMMA RendersTail ==
    ASSUME Typed, TailKnown, NEW t \in Slots, calls[t].pc = "answer", Renders(t),
           UNCHANGED <<log, pub, unheard, cur>>
    PROVE  TailKnown'
<1>1. /\ UNCHANGED ws
      /\ DOMAIN panels' = calls[t].sess \cup DOMAIN panels
      /\ \A s \in DOMAIN panels' :
           panels'[s] = IF s \in calls[t].sess THEN NewPanel(t) ELSE panels[s]
  BY DEF Renders
<1>2. PICK c \in Call :
        /\ calls' = [calls EXCEPT ![t] = c]
        /\ c.loads = {[s |-> s, n |-> -1] : s \in calls[t].sess}
  BY RenderCall
<1>3. \A u \in Slots : calls'[u] = IF u = t THEN c ELSE calls[u]
  BY <1>2 DEF Typed, CallsOK
<1>4. \A k \in c.loads : k.s \in calls[t].sess /\ k.n = -1
  BY <1>2
<1>5. \A s \in DOMAIN panels' : \A b \in Covered(s)' :
         b >= 0 => s \in DOMAIN panels \ calls[t].sess /\ b \in Covered(s)
  <2> SUFFICES ASSUME NEW s \in DOMAIN panels', NEW b \in Covered(s)', b >= 0
               PROVE  s \in DOMAIN panels \ calls[t].sess /\ b \in Covered(s)
    OBVIOUS
  <2> DEFINE u == panels'[s].by
  <2>1. \/ b = panels'[s].base
        \/ \E k \in calls'[u].loads : k.s = s /\ calls'[u].group = cur /\ b = k.n
    BY DEF Covered
  <2>2. CASE s \in calls[t].sess
    <3>1. u = t /\ panels'[s].base = -1 /\ calls'[t] = c
      BY <1>1, <1>3, <2>2, NewPanelIsPanel
    <3> QED BY <1>4, <2>1, <3>1
  <2>3. CASE s \notin calls[t].sess
    <3>1. s \in DOMAIN panels /\ panels'[s] = panels[s]
      BY <1>1, <2>3
    <3>2. u \in Slots /\ u = panels[s].by
      BY <3>1 DEF Typed, PanelsOK, Panel
    <3> HIDE DEF u
    <3>3. \A k \in calls'[u].loads : k.s = s => calls'[u] = calls[u]
      BY <1>3, <1>4, <2>3, <3>2
    <3>4. b \in Covered(s)
      BY <2>1, <3>1, <3>2, <3>3, CoveredIs
    <3> QED BY <2>3, <3>1, <3>4
  <2> QED BY <2>2, <2>3
<1> SUFFICES ASSUME Tailing', NEW s \in DOMAIN panels', NEW b \in Covered(s)', b >= 0,
                    NEW n \in 1 .. log'[cur'][s], n > b
             PROVE  Known(s, n)'
  BY DEF TailKnown, Tailing
<1>6. s \in DOMAIN panels /\ b \in Covered(s) /\ panels'[s] = panels[s]
  BY <1>1, <1>5
<1>7. Known(s, n)
  BY <1>1, <1>6 DEF TailKnown, Tailing
<1> QED BY <1>1, <1>6, <1>7 DEF Known

LEMMA LoadMessagesTail ==
    ASSUME Typed, TailKnown, NEW t \in Slots, LoadMessages(t)
    PROVE  TailKnown'
<1>1. calls[t].pc = "loads" /\ UNCHANGED <<log, pub, unheard, cur>>
  BY LoadShape DEF daemon
<1>2. PICK l \in calls[t].loads :
        /\ l.n >= 0 /\ EndLoad(t, l)
        /\ Loads(t, l) \/ UNCHANGED panels
  BY LoadShape
<1>3. /\ Shrinks
      /\ (ws' = Opened(calls[t].group)) \/ UNCHANGED ws
  BY <1>1, <1>2, EndLoadCalls
<1>4. CASE ws' = Opened(calls[t].group)
  BY <1>4, OpenedTail
<1>5. CASE UNCHANGED ws /\ UNCHANGED panels
  BY <1>1, <1>3, <1>5, SamePanels, TailStaysCalls
<1>6. CASE UNCHANGED ws /\ Loads(t, l)
  <2> DEFINE p == panels[l.s]
             f == Filled(p, t, l)
  <2>1. l \in [s : Sessions, n : -1 .. MaxMsgs] /\ cur \in Groups
    BY <1>1 DEF Typed, CallsOK, Call
  <2>2. l.s \in DOMAIN panels /\ p \in Panel /\ calls[t].group = cur
    BY <1>6 DEF Loads, Typed, PanelsOK
  <2>3. /\ f.seen = p.seen \cup SessionLog(l.n) /\ f.by = p.by
        /\ f.base = IF p.by = t THEN l.n ELSE p.base
    BY <1>2, <2>1, <2>2, FilledPanel
  <2>4. panels' = [panels EXCEPT ![l.s] = f]
    BY <1>6 DEF Loads
  <2>5. f.base \in Covered(l.s)
    <3>1. CASE p.by = t
      <4>1. f.base = l.n
        BY <2>3, <3>1
      <4> QED BY <1>2, <2>2, <3>1, <4>1, CoveredIs
    <3>2. CASE p.by # t
      BY <2>3, <3>2, CoveredIs
    <3> QED BY <3>1, <3>2
  <2>6. p.seen \subseteq f.seen
    BY <2>3
  <2> HIDE DEF f
  <2>7. DOMAIN panels' = DOMAIN panels
    BY <2>4
  <2>8. \A s \in DOMAIN panels : /\ panels'[s].by = panels[s].by
                                 /\ panels'[s].base \in Covered(s)
                                 /\ panels[s].seen \subseteq panels'[s].seen
    <3> SUFFICES ASSUME NEW s \in DOMAIN panels
                 PROVE  /\ panels'[s].by = panels[s].by
                        /\ panels'[s].base \in Covered(s)
                        /\ panels[s].seen \subseteq panels'[s].seen
      OBVIOUS
    <3>1. CASE s = l.s
      <4>1. panels'[s] = f
        BY <2>4, <3>1
      <4> QED BY <2>3, <2>5, <2>6, <3>1, <4>1
    <3>2. CASE s # l.s
      <4>1. panels'[s] = panels[s]
        BY <2>4, <3>2
      <4> QED BY <4>1, CoveredIs
    <3> QED BY <3>1, <3>2
  <2> QED BY <1>1, <1>3, <1>6, <2>7, <2>8, TailStaysCalls
<1> QED BY <1>2, <1>3, <1>4, <1>5, <1>6

LEMMA WsEventTail ==
    ASSUME Typed, TailKnown, WsEvent
    PROVE  TailKnown'
<1> DEFINE e == Head(ws.q)
<1>1. /\ UNCHANGED <<log, pub, unheard, cur, calls>>
      /\ \/ Takes(e)
         \/ /\ ~(e.group = ws.group /\ ws.group = cur /\ e.session \in DOMAIN panels)
            /\ UNCHANGED panels
  BY WsEventShape DEF daemon
<1>2. /\ ws.q \in Seq(Event) /\ ws.q # << >> /\ e \in Event
      /\ e.group \in Groups /\ e.seq \in Nat
      /\ ws' = [ws EXCEPT !.q = Tail(ws.q)]
  BY HeadEvent
<1>3. ws \in Socket
  BY DEF Typed, SocketOK
<1>4. /\ ws'.st = ws.st /\ ws'.group = ws.group /\ ws'.lagged = ws.lagged
      /\ ws'.before = ws.before /\ ws'.q = Tail(ws.q)
  BY <1>2, <1>3 DEF Socket
<1>5. \A i \in DOMAIN ws.q : ws.q[i] = e \/ \E j \in DOMAIN ws'.q : ws'.q[j] = ws.q[i]
  <2>1. Len(ws.q) \in Nat \ {0} /\ DOMAIN ws.q = 1 .. Len(ws.q) /\ e = ws.q[1]
    BY <1>2
  <2>2. /\ DOMAIN ws'.q = 1 .. (Len(ws.q) - 1)
        /\ \A j \in 1 .. (Len(ws.q) - 1) : ws'.q[j] = ws.q[j + 1]
    BY <1>2, <1>4
  <2> SUFFICES ASSUME NEW i \in DOMAIN ws.q, i # 1
               PROVE  \E j \in DOMAIN ws'.q : ws'.q[j] = ws.q[i]
    BY <2>1
  <2>3. i - 1 \in 1 .. (Len(ws.q) - 1) /\ (i - 1) + 1 = i
    BY <2>1
  <2> QED BY <2>2, <2>3
<1> HIDE DEF e
<1>6. /\ DOMAIN panels' = DOMAIN panels
      /\ \A s \in DOMAIN panels :
           /\ panels'[s].by = panels[s].by /\ panels'[s].base = panels[s].base
           /\ panels[s].seen \subseteq panels'[s].seen
      /\ Takes(e) => e.seq \in panels'[e.session].seen
  <2>1. CASE UNCHANGED panels /\ ~Takes(e)
    BY <2>1
  <2>2. CASE Takes(e)
    <3> DEFINE a == AppendMessage(panels[e.session], cur, e.seq)
    <3>1. cur \in Groups /\ e.session \in DOMAIN panels /\ panels[e.session] \in Panel
      BY <1>2, <2>2 DEF Takes, Typed, PanelsOK
    <3>2. Appended(panels[e.session], a, {e.seq})
      BY <1>2, <3>1, AppendTakes
    <3>3. panels' = [panels EXCEPT ![e.session] = a]
      BY <2>2 DEF Takes
    <3> HIDE DEF a
    <3>4. \A s \in DOMAIN panels : panels'[s] = IF s = e.session THEN a ELSE panels[s]
      BY <3>3
    <3> QED BY <3>1, <3>2, <3>3, <3>4 DEF Appended
  <2>3. (UNCHANGED panels /\ ~Takes(e)) \/ Takes(e)
    BY <1>1
  <2> QED BY <2>1, <2>2, <2>3
<1>7. Tailing' => Tailing
  BY <1>1, <1>4 DEF Tailing
<1>8. \A s \in DOMAIN panels' : \A b \in Covered(s)' :
         b >= 0 => s \in DOMAIN panels /\ b \in Covered(s)
  BY <1>1, <1>6 DEF Covered
<1>9. ASSUME Tailing', NEW s \in DOMAIN panels', NEW n, Known(s, n)
      PROVE  Known(s, n)'
  <2> DEFINE d == [group |-> cur, session |-> s, seq |-> n]
  <2>1. \/ n \in panels[s].seen \/ d \in pub \/ d \in ws.before \/ d \in unheard
        \/ \E i \in DOMAIN ws.q : ws.q[i] = d
    BY <1>9 DEF Known
  <2>2. d.group = cur /\ d.session = s /\ d.seq = n
    OBVIOUS
  <2>3. cur' = cur /\ pub' = pub /\ unheard' = unheard /\ s \in DOMAIN panels /\ ws.group = cur
    BY <1>1, <1>6, <1>7, <1>9 DEF Tailing
  <2>4. CASE n \in panels[s].seen
    BY <1>6, <2>3, <2>4 DEF Known
  <2>5. CASE d \in pub \/ d \in ws.before \/ d \in unheard
    BY <1>4, <2>3, <2>5 DEF Known
  <2>6. CASE \E i \in DOMAIN ws.q : ws.q[i] = d
    <3>1. CASE e = d
      <4>1. Takes(e)
        BY <1>1, <2>2, <2>3, <3>1
      <4>2. n \in panels'[s].seen
        BY <1>6, <2>2, <3>1, <4>1
      <4> QED BY <4>2 DEF Known
    <3>2. CASE e # d
      <4>1. \E j \in DOMAIN ws'.q : ws'.q[j] = d
        BY <1>5, <2>6, <3>2
      <4> QED BY <2>3, <4>1 DEF Known
    <3> QED BY <3>1, <3>2
  <2> QED BY <2>1, <2>4, <2>5, <2>6
<1> QED BY <1>1, <1>7, <1>8, <1>9, TailStays

LEMMA TailInductive == Typed /\ TailKnown /\ [Next]_vars => TailKnown'
<1> SUFFICES ASSUME Typed, TailKnown, [Next]_vars PROVE TailKnown'
  OBVIOUS
<1>0. UNCHANGED <<log, pub, unheard, cur, panels, calls, ws>> => TailKnown'
  BY DEF TailKnown, Known, Covered
<1>1. ASSUME NEW t \in Slots, NEW g \in Groups, SelectGroup(t, g)
      PROVE  TailKnown'
  BY <1>1 DEF SelectGroup, TailKnown
<1>2. ASSUME NEW t \in Slots, RefreshStatuses(t) \/ RefreshAnswer(t) \/ ListSessions(t)
      PROVE  TailKnown'
  <2>1. Shrinks /\ UNCHANGED <<log, pub, unheard, cur, panels, ws>>
    BY <1>2, RefreshStatusesCalls, RefreshAnswerCalls, ListSessionsCalls DEF daemon
  <2> QED BY <2>1, SamePanels, TailStaysCalls
<1>3. ASSUME NEW t \in Slots, RenderSessions(t)
      PROVE  TailKnown'
  <2>1. /\ calls[t].pc = "answer"
        /\ (EndRender(t) /\ UNCHANGED panels) \/ Renders(t)
        /\ UNCHANGED <<log, pub, unheard, cur>>
    BY <1>3, RenderShape DEF daemon
  <2>2. CASE EndRender(t) /\ UNCHANGED panels
    <3>1. Shrinks /\ (ws' = Opened(calls[t].group) \/ UNCHANGED ws)
      BY <2>1, <2>2, EndRenderCalls
    <3> QED BY <2>1, <2>2, <3>1, SamePanels, TailStaysCalls, OpenedTail
  <2>3. CASE Renders(t)
    BY <2>1, <2>3, RendersTail
  <2> QED BY <2>1, <2>2, <2>3
<1>4. ASSUME NEW t \in Slots, FetchFails(t)
      PROVE  TailKnown'
  <2>1. /\ Shrinks /\ UNCHANGED <<log, pub, unheard, cur, panels>>
        /\ ws' = Opened(calls[t].group) \/ UNCHANGED ws
    BY <1>4, FetchFailsCalls DEF daemon
  <2> QED BY <2>1, SamePanels, TailStaysCalls, OpenedTail
<1>5. ASSUME NEW g \in Groups, NEW s \in Sessions, Post(g, s) \/ NewSession(g, s)
      PROVE  TailKnown'
  BY <1>0, <1>5, PostTail DEF NewSession
<1>6. CASE WsClose
  <2>1. ws'.st = "closed"
    BY <1>6, WsCloseTypes DEF Lost
  <2> QED BY <2>1 DEF TailKnown
<1>7. ASSUME NEW g \in Groups, Reopen(g)
      PROVE  TailKnown'
  <2>1. CASE g = cur
    BY <1>7, <2>1, OpenWsOpens, OpenedTail DEF Reopen
  <2>2. CASE g # cur
    BY <1>0, <1>7, <2>2 DEF Reopen, daemon
  <2> QED BY <2>1, <2>2
<1>8. CASE SendReply
  BY <1>5, <1>8, ReplyPosts
<1>9. CASE UNCHANGED vars
  BY <1>0, <1>9 DEF vars
<1>10. CASE \E e \in pub : Publish(e) \/ Abort(e)
  BY <1>10, PublishTail, AbortTail
<1>11. CASE WsSubscribe
  BY <1>11, SubscribeTail
<1>12. CASE WsEvent
  BY <1>12, WsEventTail
<1>13. ASSUME NEW t \in Slots, LoadMessages(t)
      PROVE  TailKnown'
  BY <1>13, LoadMessagesTail
<1>14. ASSUME NEW t \in Slots, ListMessages(t)
      PROVE  TailKnown'
  BY <1>14, ListMessagesTail
<1> QED BY <1>1, <1>2, <1>3, <1>4, <1>5, <1>6, <1>7, <1>8, <1>9, <1>10, <1>11,
          <1>12, <1>13, <1>14 DEF Next, Client, Server

\* A message is missing from the board in four ways and no fifth, for any
\* number of messages, sessions, overlapping calls and aborted senders: while
\* the current group's socket is live and has not lagged, a loaded panel shows
\* every message or has it on the way, but those that the retention cap had
\* taken before the load and, of those stored after the load was read, the
\* ones published before the socket was there or never, their sender having
\* been aborted (renderSessions, loadMessages, onmessage, ws_loop, bus_enqueue).
THEOREM LiveTailHasNoGap == Spec => []LiveTailComplete
<1>1. Init => TailKnown
  BY DEF Init, TailKnown
<1>2. Typed /\ PanelsSound /\ TailKnown => LiveTailComplete
  <2> SUFFICES ASSUME Typed, PanelsSound, TailKnown, Tailing,
                      NEW s \in DOMAIN panels, panels[s].base >= 0,
                      NEW n \in SessionLog(panels[s].base)
                                  \cup (panels[s].base + 1) .. log[cur][s],
                      n \notin panels[s].seen
               PROVE  LET e == [group |-> cur, session |-> s, seq |-> n]
                      IN  \/ n \in panels[s].seen
                          \/ e \in pub
                          \/ \E i \in DOMAIN ws.q : ws.q[i] = e
                          \/ n > panels[s].base /\ e \in ws.before \cup unheard
    BY DEF LiveTailComplete, Tailing
  <2>1. panels[s].base \in Int
    BY DEF Typed, PanelsOK, Panel
  <2>2. SessionLog(panels[s].base) \subseteq panels[s].seen
    BY DEF PanelsSound, Sound
  <2>3. n \in (panels[s].base + 1) .. log[cur][s]
    BY <2>2
  <2>4. n > panels[s].base /\ n \in 1 .. log[cur][s]
    BY <2>1, <2>3
  <2>5. Known(s, n)
    BY <2>4, CoveredIs DEF TailKnown, Tailing
  <2> QED BY <2>4, <2>5 DEF Known
<1> QED BY <1>1, <1>2, AlwaysTyped, AlwaysSound, TailInductive, PTL DEF Spec

=============================================================================
