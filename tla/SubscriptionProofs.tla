------------------------- MODULE SubscriptionProofs -------------------------
(***************************************************************************)
(* Theorems about Subscription, for any inbox, any time stamps, any limit  *)
(* of the query and any capacity of the broadcast.                         *)
(***************************************************************************)
EXTENDS Subscription, FiniteSetTheorems, SequenceTheorems, TLAPS

-----------------------------------------------------------------------------
(* Sequences.                                                              *)

LEMMA AppendSeq ==
    ASSUME NEW S, NEW q \in Seq(S), NEW x \in S
    PROVE  LET a == Append(q, x) IN
           /\ a \in Seq(S) /\ Len(a) = Len(q) + 1 /\ Len(q) \in Nat
           /\ DOMAIN a = DOMAIN q \cup {Len(q) + 1} /\ DOMAIN q = 1 .. Len(q)
           /\ a[Len(q) + 1] = x /\ \A i \in DOMAIN q : a[i] = q[i]
           /\ Range(a) = Range(q) \cup {x}
<1> DEFINE a == Append(q, x)
<1>1. /\ a \in Seq(S) /\ Len(a) = Len(q) + 1 /\ Len(q) \in Nat
      /\ DOMAIN a = DOMAIN q \cup {Len(q) + 1} /\ DOMAIN q = 1 .. Len(q)
      /\ a[Len(q) + 1] = x /\ \A i \in DOMAIN q : a[i] = q[i]
  OBVIOUS
<1> HIDE DEF a
<1>2. Range(a) = Range(q) \cup {x}
  BY <1>1 DEF Range
<1> QED
  BY <1>1, <1>2 DEF a

LEMMA TailSeq ==
    ASSUME NEW S, NEW q \in Seq(S), q # << >>
    PROVE  LET t == Tail(q) IN
           /\ t \in Seq(S) /\ Head(q) \in S /\ Head(q) = q[1] /\ 1 \in DOMAIN q
           /\ Len(t) = Len(q) - 1 /\ Len(q) \in Nat \ {0}
           /\ DOMAIN t = 1 .. Len(q) - 1 /\ DOMAIN q = 1 .. Len(q)
           /\ \A i \in DOMAIN t : i + 1 \in DOMAIN q /\ t[i] = q[i + 1]
           /\ Range(q) = {Head(q)} \cup Range(t)
<1> DEFINE t == Tail(q)
<1>1. /\ t \in Seq(S) /\ Head(q) \in S /\ Head(q) = q[1] /\ 1 \in DOMAIN q
      /\ Len(t) = Len(q) - 1 /\ Len(q) \in Nat \ {0}
      /\ DOMAIN t = 1 .. Len(q) - 1 /\ DOMAIN q = 1 .. Len(q)
      /\ \A i \in DOMAIN t : i + 1 \in DOMAIN q /\ t[i] = q[i + 1]
      /\ \A i \in DOMAIN q : i = 1 \/ (i - 1 \in DOMAIN t /\ t[i - 1] = q[i])
  OBVIOUS
<1> HIDE DEF t
<1>2. Range(q) = {Head(q)} \cup Range(t)
  BY <1>1 DEF Range
<1> QED
  BY <1>1, <1>2 DEF t

LEMMA RangeSeq ==
    ASSUME NEW S, NEW q \in Seq(S)
    PROVE  Range(q) \subseteq S
  BY DEF Range

LEMMA EmptyRange == Range(<< >>) = {}
  BY DEF Range

-----------------------------------------------------------------------------
(* Counting in a sequence.                                                 *)

LEMMA CountType ==
    ASSUME NEW S, NEW q \in Seq(S), NEW m
    PROVE  IsFiniteSet({i \in DOMAIN q : q[i] = m}) /\ Count(m, q) \in Nat
<1>1. IsFiniteSet(1 .. Len(q)) /\ DOMAIN q = 1 .. Len(q)
  BY FS_Interval
<1>2. IsFiniteSet({i \in DOMAIN q : q[i] = m})
  BY <1>1, FS_Subset
<1> QED
  BY <1>2, FS_CardinalityType DEF Count

LEMMA CountNone ==
    ASSUME NEW S, NEW q \in Seq(S), NEW m, m \notin Range(q)
    PROVE  Count(m, q) = 0
<1>1. {i \in DOMAIN q : q[i] = m} = {}
  BY DEF Range
<1> QED
  BY <1>1, FS_EmptySet DEF Count

LEMMA CountAppend ==
    ASSUME NEW S, NEW q \in Seq(S), NEW x \in S, NEW m
    PROVE  Count(m, Append(q, x)) = IF m = x THEN Count(m, q) + 1 ELSE Count(m, q)
<1> DEFINE a == Append(q, x)
           I == {i \in DOMAIN q : q[i] = m}
           J == {i \in DOMAIN a : a[i] = m}
<1>1. /\ DOMAIN a = DOMAIN q \cup {Len(q) + 1} /\ DOMAIN q = 1 .. Len(q)
      /\ a[Len(q) + 1] = x /\ \A i \in DOMAIN q : a[i] = q[i] /\ Len(q) \in Nat
  BY AppendSeq
<1>2. Len(q) + 1 \notin DOMAIN q
  BY <1>1
<1>3. IsFiniteSet(I)
  BY CountType
<1> HIDE DEF a
<1>4. CASE m = x
  <2>1. J = I \cup {Len(q) + 1} /\ Len(q) + 1 \notin I
    BY <1>1, <1>2, <1>4
  <2> HIDE DEF I, J
  <2>2. Cardinality(J) = Cardinality(I) + 1
    BY <1>3, <2>1, FS_AddElement
  <2> QED
    BY <1>4, <2>2 DEF Count, I, J, a
<1>5. CASE m # x
  <2>1. J = I
    BY <1>1, <1>2, <1>5
  <2> QED
    BY <1>5, <2>1 DEF Count, a
<1> QED
  BY <1>4, <1>5

\* An element that leaves the middle of a sequence was not another one.
LEMMA CountWithout ==
    ASSUME NEW S, NEW p \in Seq(S), NEW q \in Seq(S), q # << >>, NEW m,
           m # Head(q)
    PROVE  Count(m, p \o Tail(q)) = Count(m, p \o q)
<1> DEFINE t == Tail(q)
           k == Len(p) + 1
           a == p \o q
           b == p \o t
           I == {i \in DOMAIN a : a[i] = m}
           J == {i \in DOMAIN b : b[i] = m}
           f == [i \in J |-> IF i < k THEN i ELSE i + 1]
<1>1. /\ t \in Seq(S) /\ a \in Seq(S) /\ b \in Seq(S)
      /\ Len(t) = Len(q) - 1 /\ Len(q) \in Nat \ {0} /\ Len(p) \in Nat
      /\ DOMAIN a = 1 .. (Len(p) + Len(q)) /\ DOMAIN b = 1 .. (Len(p) + Len(q) - 1)
  OBVIOUS
<1>2. \A i \in DOMAIN b : b[i] = IF i < k THEN a[i] ELSE a[i + 1]
  OBVIOUS
<1>3. a[k] = Head(q)
  OBVIOUS
<1> HIDE DEF a, b, t
<1>4. f \in [J -> I]
  BY <1>1, <1>2
<1>5. \A i, j \in J : f[i] = f[j] => i = j
  BY <1>1
<1>6. \A i \in I : \E j \in J : f[j] = i
  <2> SUFFICES ASSUME NEW i \in I PROVE \E j \in J : f[j] = i
    OBVIOUS
  <2>1. i # k /\ i \in 1 .. (Len(p) + Len(q))
    BY <1>1, <1>3
  <2>2. CASE i < k
    <3>1. i \in J /\ f[i] = i
      BY <1>1, <1>2, <2>1, <2>2
    <3> QED
      BY <3>1
  <2>3. CASE i > k
    <3>1. i - 1 \in DOMAIN b /\ ~(i - 1 < k) /\ (i - 1) + 1 = i
      BY <1>1, <2>1, <2>3
    <3>2. i - 1 \in J /\ f[i - 1] = i
      BY <1>2, <3>1
    <3> QED
      BY <3>2
  <2>4. i < k \/ i > k
    BY <1>1, <2>1
  <2> QED
    BY <2>2, <2>3, <2>4
<1> HIDE DEF f
<1>7. IsInjective(f)
  BY <1>4, <1>5 DEF IsInjective
<1>8. f \in Bijection(J, I)
  BY <1>4, <1>6, <1>7 DEF Bijection, Injection, Surjection
<1>9. IsFiniteSet(J)
  BY <1>1, CountType
<1> HIDE DEF I, J
<1>10. Cardinality(I) = Cardinality(J)
  BY <1>8, <1>9, FS_Bijection DEF ExistsBijection
<1> QED
  BY <1>10 DEF Count, I, J, a, b, t

-----------------------------------------------------------------------------
(* What each step does.                                                    *)

SubState ==
    [pc : SubPC, want : Nodes \cup {Any}, todo : Seq(Msgs), rx : Seq(Msgs),
     lagged : BOOLEAN, before : SUBSET Msgs, cut : SUBSET Msgs]

\* Parts of the handler's state that a step leaves alone.
SameRx == sub'.rx = sub.rx /\ sub'.lagged = sub.lagged
SameBefore == sub'.before = sub.before
SameBacklog == sub'.todo = sub.todo /\ sub'.cut = sub.cut
SameInbox == UNCHANGED <<arrived, inbox, req>>
SameOutput == UNCHANGED <<conn, cli, printed>>

LEMMA StateTypes ==
    ASSUME TypeOK
    PROVE  /\ sub \in SubState /\ sub.pc \in SubPC
           /\ sub.want \in Nodes \cup {Any}
           /\ sub.todo \in Seq(Msgs) /\ sub.rx \in Seq(Msgs)
           /\ sub.before \subseteq Msgs /\ sub.cut \subseteq Msgs
           /\ Range(sub.todo) \subseteq Msgs /\ Range(sub.rx) \subseteq Msgs
           /\ conn \in Seq({0} \cup Msgs) /\ printed \in Seq(Msgs)
           /\ Range(conn) \subseteq {0} \cup Msgs /\ Range(printed) \subseteq Msgs
           /\ Msgs \subseteq Nat \ {0} /\ inbox \subseteq Msgs /\ pub \subseteq Msgs
<1>1. sub \in SubState
  BY DEF TypeOK, SubState
<1>2. sub.todo \in Seq(Msgs) /\ sub.rx \in Seq(Msgs)
  BY <1>1 DEF SubState
<1>3. conn \in Seq({0} \cup Msgs) /\ printed \in Seq(Msgs)
  BY DEF TypeOK
<1>4. Range(sub.todo) \subseteq Msgs /\ Range(sub.rx) \subseteq Msgs
      /\ Range(conn) \subseteq {0} \cup Msgs /\ Range(printed) \subseteq Msgs
  BY <1>2, <1>3, RangeSeq
<1>5. sub.pc \in SubPC /\ sub.want \in Nodes \cup {Any}
      /\ sub.before \subseteq Msgs /\ sub.cut \subseteq Msgs
  BY <1>1 DEF SubState
<1>6. Msgs \subseteq Nat \ {0}
  BY DEF Msgs
<1> QED
  BY <1>1, <1>2, <1>3, <1>4, <1>5, <1>6 DEF TypeOK

\* A message arrives: it has a number of its own.
LEMMA ArriveEffect ==
    ASSUME TypeOK, NEW x \in Msg, Arrive(x)
    PROVE  LET n == Len(arrived) + 1 IN
           /\ n \in Nat \ {0} /\ n \notin Msgs /\ Msgs' = Msgs \cup {n}
           /\ arrived' \in Seq(Msg)
           /\ \A m \in Msgs : arrived'[m] = arrived[m]
           /\ inbox' = inbox \/ inbox' = inbox \cup {n}
           /\ pub' = pub \cup {n}
           /\ faults' \in 0 .. MaxFaults
           /\ UNCHANGED <<req, sub, conn, cli, printed>>
<1> DEFINE n == Len(arrived) + 1
<1>1. arrived \in Seq(Msg) /\ faults \in 0 .. MaxFaults /\ MaxFaults \in Nat
  BY SubscriptionAssumption DEF TypeOK
<1>2. arrived' = Append(arrived, x)
  BY DEF Arrive
<1>3. /\ arrived' \in Seq(Msg) /\ Len(arrived') = n /\ Len(arrived) \in Nat
      /\ \A m \in 1 .. Len(arrived) : arrived'[m] = arrived[m]
  BY <1>1, <1>2
<1>4. n \in Nat \ {0} /\ n \notin Msgs /\ Msgs' = Msgs \cup {n}
  BY <1>3 DEF Msgs
<1>5. faults' \in 0 .. MaxFaults
  BY <1>1 DEF Arrive, Fault
<1> QED
  BY <1>3, <1>4, <1>5 DEF Arrive, Msgs

LEMMA PublishEffect ==
    ASSUME TypeOK, NEW m \in pub, Publish(m)
    PROVE  /\ SameInbox /\ SameOutput /\ SameBefore /\ SameBacklog
           /\ pub' = pub \ {m} /\ faults' = faults
           /\ sub'.pc = sub.pc /\ sub'.want = sub.want /\ sub' \in SubState
           /\ \/ sub.pc \notin {"query", "backlog", "tail"} /\ SameRx
              \/ sub'.rx = Append(sub.rx, m) /\ sub'.lagged = sub.lagged
              \/ /\ sub.rx # << >> /\ sub'.rx = Append(Tail(sub.rx), m)
                 /\ sub'.lagged
<1>0. sub \in SubState /\ sub.rx \in Seq(Msgs) /\ m \in Msgs
      /\ BcastCap \in Nat \ {0}
  BY StateTypes, SubscriptionAssumption
<1>1. Append(sub.rx, m) \in Seq(Msgs)
  BY <1>0
<1>2. CASE sub.pc \notin {"query", "backlog", "tail"}
  BY <1>0, <1>2 DEF Publish, SameInbox, SameOutput, SameBefore, SameBacklog, SameRx
<1>3. CASE sub' = [sub EXCEPT !.rx = Append(@, m)]
  <2>1. /\ sub'.rx = Append(sub.rx, m) /\ sub'.lagged = sub.lagged
        /\ sub'.pc = sub.pc /\ sub'.want = sub.want /\ SameBefore /\ SameBacklog
        /\ sub' \in SubState
    BY <1>0, <1>1, <1>3 DEF SubState, SameBefore, SameBacklog
  <2> QED
    BY <2>1 DEF Publish, SameInbox, SameOutput
<1>4. CASE /\ ~(Len(sub.rx) < BcastCap)
           /\ sub' = [sub EXCEPT !.rx = Append(Tail(@), m), !.lagged = TRUE]
  <2>1. sub.rx # << >>
    BY <1>0, <1>4
  <2>2. Tail(sub.rx) \in Seq(Msgs)
    BY <1>0, <2>1
  <2>3. Append(Tail(sub.rx), m) \in Seq(Msgs)
    BY <1>0, <2>2
  <2>4. /\ sub'.rx = Append(Tail(sub.rx), m) /\ sub'.lagged
        /\ sub'.pc = sub.pc /\ sub'.want = sub.want /\ SameBefore /\ SameBacklog
        /\ sub' \in SubState
    BY <1>0, <1>4, <2>3 DEF SubState, SameBefore, SameBacklog
  <2> QED
    BY <2>1, <2>4 DEF Publish, SameInbox, SameOutput
<1> QED
  BY <1>2, <1>3, <1>4 DEF Publish

\* The handler gets ready, fails, or loses its client.
LEMMA SetupEffect ==
    ASSUME TypeOK,
           Request \/ Resolve \/ Subscribe \/ QueryFails \/ WriteFails
    PROVE  /\ SameInbox /\ SameRx /\ SameBacklog /\ pub' = pub
           /\ UNCHANGED <<conn, printed>> /\ sub' \in SubState
           /\ \/ /\ cli = "off" /\ cli' = "reading" /\ sub'.pc = "resolve"
                 /\ SameBefore /\ sub'.want = sub.want
              \/ /\ sub.pc = "resolve" /\ sub'.pc = "subscribe" /\ cli' = cli
                 /\ SameBefore
              \/ /\ sub.pc = "subscribe" /\ sub'.pc = "query" /\ cli' = cli
                 /\ sub'.before = Msgs \ pub /\ sub'.want = sub.want
              \/ /\ sub.pc \in {"query", "backlog", "tail"} /\ sub'.pc = "ended"
                 /\ cli' = cli /\ SameBefore /\ sub'.want = sub.want
           /\ faults' \in 0 .. MaxFaults
<1> USE DEF SameInbox, SameRx, SameBacklog, SameBefore
<1>0. sub \in SubState /\ faults \in 0 .. MaxFaults /\ MaxFaults \in Nat
  BY StateTypes, SubscriptionAssumption DEF TypeOK
<1>1. CASE Request
  <2>1. /\ SameRx /\ SameBacklog /\ SameBefore /\ sub'.pc = "resolve"
        /\ sub'.want = sub.want /\ sub' \in SubState
    BY <1>0, <1>1 DEF Request, SubState, SubPC
  <2> QED
    BY <1>0, <1>1, <2>1 DEF Request
<1>2. CASE Resolve
  <2>0. req.by \in {"all", "id", "name"} /\ req.peer \in Nodes
    <3>1. req \in [cmd : {"recv", "chat"}, by : {"all", "id", "name"},
                    peer : Nodes, chan : Channels \cup {Any},
                    follow : BOOLEAN, since : Nat]
      BY SubscriptionAssumption DEF TypeOK
    <3> QED
      BY <3>1
  <2>1. PICK want : /\ want \in {req.peer, Any}
                    /\ sub' = [sub EXCEPT !.pc = "subscribe", !.want = want]
    <3>1. CASE req.by = "all"
      BY <1>2, <3>1 DEF Resolve
    <3>2. CASE req.by = "id"
      BY <1>2, <3>2 DEF Resolve
    <3>3. CASE req.by = "name"
      BY <1>2, <3>3 DEF Resolve
    <3> QED
      BY <2>0, <3>1, <3>2, <3>3
  <2>2. want \in Nodes \cup {Any}
    BY <2>0, <2>1
  <2>3. /\ SameRx /\ SameBacklog /\ SameBefore /\ sub'.pc = "subscribe"
        /\ sub' \in SubState
    BY <1>0, <2>1, <2>2 DEF SubState, SubPC
  <2> QED
    BY <1>0, <1>2, <2>3 DEF Resolve
<1>3. CASE Subscribe
  <2>1. Msgs \ pub \in SUBSET Msgs
    OBVIOUS
  <2>2. /\ SameRx /\ SameBacklog /\ sub'.before = Msgs \ pub /\ sub'.pc = "query"
        /\ sub'.want = sub.want /\ sub' \in SubState
    BY <1>0, <1>3, <2>1 DEF Subscribe, SubState, SubPC
  <2> QED
    BY <1>0, <1>3, <2>2 DEF Subscribe
<1>4. CASE QueryFails \/ WriteFails
  <2>1. sub' = [sub EXCEPT !.pc = "ended"]
    BY <1>4 DEF QueryFails, WriteFails
  <2>2. /\ SameRx /\ SameBacklog /\ SameBefore /\ sub'.pc = "ended"
        /\ sub'.want = sub.want /\ sub' \in SubState
    BY <1>0, <2>1 DEF SubState, SubPC
  <2>3. faults' \in 0 .. MaxFaults
    BY <1>0, <1>4 DEF QueryFails, WriteFails, Fault
  <2> QED
    BY <1>4, <2>2, <2>3 DEF QueryFails, WriteFails
<1> QED
  BY <1>1, <1>2, <1>3, <1>4

\* inbox_backlog splits the rows that are asked for into the older ones, which
\* it returns in order and each once, and the newer ones beyond the limit.
LEMMA QueryEffect ==
    ASSUME TypeOK, Query
    PROVE  /\ SameInbox /\ SameRx /\ SameBefore /\ SameOutput
           /\ pub' = pub /\ faults' = faults
           /\ sub.pc = "query" /\ sub'.pc = "backlog" /\ sub'.want = sub.want
           /\ sub' \in SubState
           /\ Range(sub'.todo) \cup sub'.cut = Rows
           /\ \A i, j \in DOMAIN sub'.todo : i < j =>
                /\ sub'.todo[i] # sub'.todo[j]
                /\ arrived[sub'.todo[i]].ts <= arrived[sub'.todo[j]].ts
           /\ \A x \in Range(sub'.todo), y \in sub'.cut :
                arrived[x].ts <= arrived[y].ts
<1> USE DEF SameInbox, SameRx, SameBefore, SameOutput
<1>0. sub \in SubState /\ Rows \subseteq Msgs /\ Limit \in Nat \ {0}
  BY StateTypes, SubscriptionAssumption DEF Rows
<1>1. IsFiniteSet(Rows)
  <2>1. IsFiniteSet(Msgs)
    BY FS_Interval DEF Msgs, TypeOK
  <2> QED
    BY <1>0, <2>1, FS_Subset
<1> DEFINE k == Cardinality(Rows)
<1>2. k \in Nat /\ IsFiniteSet(1 .. k) /\ Cardinality(1 .. k) = k
  BY <1>1, FS_CardinalityType, FS_Interval
<1>3. PICK q \in [1 .. k -> Rows] :
        /\ Sorted(q)
        /\ LET n == Least(Len(q), Limit)
           IN  sub' = [sub EXCEPT !.pc = "backlog", !.todo = SubSeq(q, 1, n),
                                  !.cut = {q[i] : i \in n + 1 .. Len(q)}]
  BY DEF Query
<1> HIDE DEF k
<1>4. q \in Seq(Msgs) /\ Len(q) = k /\ DOMAIN q = 1 .. k
  BY <1>0, <1>2, <1>3
<1>5. Range(q) = Rows
  <2>1. IsInjective(q)
    BY <1>2, <1>3, <1>4 DEF IsInjective, Sorted
  <2>2. q \in Injection(1 .. k, Rows)
    BY <1>3, <2>1 DEF Injection
  <2>3. q \in Surjection(1 .. k, Rows)
    BY <1>1, <1>2, <2>2, FS_Injection DEF k
  <2> QED
    BY <1>3, <2>3 DEF Surjection, Range
<1> DEFINE n == Least(Len(q), Limit)
           t == SubSeq(q, 1, n)
           c == {q[i] : i \in n + 1 .. Len(q)}
<1>6. n \in 0 .. k
  BY <1>0, <1>2, <1>4 DEF Least
<1> HIDE DEF n
<1>7. t \in Seq(Msgs) /\ DOMAIN t = 1 .. n /\ \A i \in 1 .. n : t[i] = q[i]
  BY <1>2, <1>4, <1>6
<1>8. c \in SUBSET Msgs
  BY <1>4, <1>6
<1>9. sub' = [sub EXCEPT !.pc = "backlog", !.todo = t, !.cut = c]
  BY <1>3 DEF n
<1> HIDE DEF t, c
<1>10. /\ sub'.todo = t /\ sub'.cut = c /\ sub'.pc = "backlog" /\ SameRx /\ SameBefore
       /\ sub'.want = sub.want /\ sub' \in SubState
  BY <1>0, <1>7, <1>8, <1>9 DEF SubState, SubPC
<1>11. Range(t) \cup c = Range(q)
  <2>1. \A i \in DOMAIN q : i \in 1 .. n \/ i \in n + 1 .. Len(q)
    BY <1>2, <1>4, <1>6
  <2>2. \A i \in 1 .. n : i \in DOMAIN q
    BY <1>2, <1>4, <1>6
  <2>3. \A i \in n + 1 .. Len(q) : i \in DOMAIN q
    BY <1>2, <1>4, <1>6
  <2> QED
    BY <1>7, <2>1, <2>2, <2>3 DEF Range, c
<1>12. \A i, j \in DOMAIN t : i < j =>
         t[i] # t[j] /\ arrived[t[i]].ts <= arrived[t[j]].ts
  <2>1. \A i \in DOMAIN t : i \in DOMAIN q /\ t[i] = q[i]
    BY <1>2, <1>4, <1>6, <1>7
  <2> QED
    BY <1>3, <2>1 DEF Sorted
<1>13. \A x \in Range(t), y \in c : arrived[x].ts <= arrived[y].ts
  <2> SUFFICES ASSUME NEW i \in DOMAIN t, NEW j \in n + 1 .. Len(q)
               PROVE  arrived[t[i]].ts <= arrived[q[j]].ts
    BY DEF Range, c
  <2>1. i \in DOMAIN q /\ j \in DOMAIN q /\ i < j /\ t[i] = q[i]
    BY <1>2, <1>4, <1>6, <1>7
  <2> QED
    BY <1>3, <2>1 DEF Sorted
<1> QED
  BY <1>5, <1>10, <1>11, <1>12, <1>13 DEF Query

LEMMA WriteEffect ==
    ASSUME TypeOK, WriteRow \/ BacklogEnd \/ TailEvent
    PROVE  /\ SameInbox /\ SameBefore /\ UNCHANGED <<cli, printed, pub, faults>>
           /\ sub'.want = sub.want /\ sub'.cut = sub.cut /\ sub'.lagged = sub.lagged
           /\ sub' \in SubState
           /\ \/ /\ WriteRow /\ sub.pc = "backlog" /\ sub'.pc = "backlog"
                 /\ sub.todo # << >> /\ cli = "reading" /\ SameRx
                 /\ sub'.todo = Tail(sub.todo)
                 /\ conn' = Append(conn, Head(sub.todo))
              \/ /\ BacklogEnd /\ sub.pc = "backlog" /\ SameRx
                 /\ sub'.pc = IF req.follow THEN "tail" ELSE "ended"
                 /\ sub.todo = << >> /\ sub'.todo = << >> /\ cli = "reading"
                 /\ conn' = Append(conn, 0)
              \/ /\ TailEvent /\ sub.pc = "tail" /\ sub'.pc = "tail"
                 /\ sub.rx # << >> /\ sub'.rx = Tail(sub.rx)
                 /\ sub'.todo = sub.todo
                 /\ \/ conn' = conn /\ ~Passes(Head(sub.rx), sub.want)
                    \/ conn' = Append(conn, Head(sub.rx))
<1> USE DEF SameInbox, SameRx, SameBefore
<1>0. sub \in SubState /\ sub.rx \in Seq(Msgs) /\ sub.todo \in Seq(Msgs)
  BY StateTypes
<1>1. CASE WriteRow
  <2>1. Tail(sub.todo) \in Seq(Msgs)
    BY <1>0, <1>1 DEF WriteRow
  <2>2. /\ sub'.pc = "backlog" /\ SameRx /\ SameBefore /\ sub'.cut = sub.cut
        /\ sub'.todo = Tail(sub.todo) /\ sub'.want = sub.want /\ sub' \in SubState
    BY <1>0, <1>1, <2>1 DEF WriteRow, SubState
  <2> QED
    BY <1>1, <2>2 DEF WriteRow
<1>2. CASE BacklogEnd
  <2>1. /\ sub'.pc = (IF req.follow THEN "tail" ELSE "ended")
        /\ SameRx /\ SameBefore /\ sub'.cut = sub.cut
        /\ sub'.todo = sub.todo /\ sub'.want = sub.want /\ sub' \in SubState
    BY <1>0, <1>2 DEF BacklogEnd, SubState, SubPC
  <2> QED
    BY <1>2, <2>1 DEF BacklogEnd
<1>3. CASE TailEvent
  <2>1. Tail(sub.rx) \in Seq(Msgs)
    BY <1>0, <1>3 DEF TailEvent
  <2>2. /\ sub'.pc = "tail" /\ sub'.rx = Tail(sub.rx) /\ sub'.lagged = sub.lagged
        /\ SameBefore /\ sub'.cut = sub.cut
        /\ sub'.todo = sub.todo /\ sub'.want = sub.want /\ sub' \in SubState
    BY <1>0, <1>3, <2>1 DEF TailEvent, SubState
  <2> QED
    BY <1>3, <2>2 DEF TailEvent
<1> QED
  BY <1>1, <1>2, <1>3

LEMMA ReadEffect ==
    ASSUME TypeOK, ReadRecv \/ ReadChat
    PROVE  /\ SameInbox /\ UNCHANGED <<pub, sub, faults>>
           /\ conn # << >> /\ conn' = Tail(conn) /\ cli = "reading"
           /\ \/ /\ Head(conn) # 0 /\ printed' = Append(printed, Head(conn))
                 /\ cli' = cli
              \/ /\ Head(conn) = 0 /\ printed' = printed
                 /\ cli' \in {cli, "returned"} /\ (req.follow \/ cli' = "returned")
  BY DEF ReadRecv, ReadChat, SameInbox

-----------------------------------------------------------------------------
(* The steps, in the groups of the lemmas above.                           *)

Setup == Request \/ Resolve \/ Subscribe \/ QueryFails \/ WriteFails
Write == WriteRow \/ BacklogEnd \/ TailEvent
Read == ReadRecv \/ ReadChat

\* Nothing happens, or the command is interrupted.
Still ==
    /\ UNCHANGED <<arrived, inbox, pub, req, sub, conn, printed, faults>>
    /\ cli' = cli \/ (cli = "reading" /\ cli' = "interrupted")

LEMMA Steps ==
    ASSUME [Next]_vars
    PROVE  \/ \E x \in Msg : Arrive(x)
           \/ \E m \in pub : Publish(m)
           \/ Setup \/ Query \/ Write \/ Read \/ Still
  BY DEF Next, vars, Setup, Write, Read, Still, Interrupt

LEMMA TypeStep ==
    ASSUME TypeOK, [Next]_vars
    PROVE  TypeOK'
<1>0. /\ sub \in SubState /\ req \in Requests
      /\ arrived \in Seq(Msg) /\ inbox \subseteq Msgs /\ pub \subseteq Msgs
      /\ conn \in Seq({0} \cup Msgs) /\ printed \in Seq(Msgs)
      /\ cli \in {"off", "reading", "returned", "interrupted"}
      /\ faults \in 0 .. MaxFaults
  BY StateTypes DEF TypeOK
<1>1. ASSUME NEW x \in Msg, Arrive(x)
      PROVE  TypeOK'
  <2>1. /\ Msgs \subseteq Msgs' /\ arrived' \in Seq(Msg)
        /\ inbox' \subseteq Msgs' /\ pub' \subseteq Msgs'
        /\ faults' \in 0 .. MaxFaults
        /\ UNCHANGED <<req, sub, conn, cli, printed>>
    BY <1>0, <1>1, ArriveEffect
  <2>2. sub.todo \in Seq(Msgs') /\ sub.rx \in Seq(Msgs') /\ printed \in Seq(Msgs')
    BY <2>1, StateTypes, SeqMonotonic
  <2>3. {0} \cup Msgs \subseteq {0} \cup Msgs'
    BY <2>1
  <2>4. conn \in Seq({0} \cup Msgs')
    BY <1>0, <2>3, SeqMonotonic
  <2>5. sub \in [pc : SubPC, want : Nodes \cup {Any}, todo : Seq(Msgs'),
                 rx : Seq(Msgs'), lagged : BOOLEAN, before : SUBSET Msgs',
                 cut : SUBSET Msgs']
    BY <1>0, <2>1, <2>2 DEF SubState
  <2> QED
    BY <1>0, <2>1, <2>2, <2>4, <2>5 DEF TypeOK
<1>2. ASSUME SameInbox, pub' \subseteq Msgs, sub' \in SubState,
             conn' \in Seq({0} \cup Msgs), printed' \in Seq(Msgs),
             cli' \in {"off", "reading", "returned", "interrupted"},
             faults' \in 0 .. MaxFaults
      PROVE  TypeOK'
  <2>1. Msgs' = Msgs
    BY <1>2 DEF SameInbox, Msgs
  <2> QED
    BY <1>0, <1>2, <2>1 DEF TypeOK, SameInbox, SubState
<1>3. ASSUME NEW m \in pub, Publish(m)
      PROVE  TypeOK'
  <2>1. pub' \subseteq Msgs
    BY <1>0, <1>3, PublishEffect
  <2> QED
    BY <1>0, <1>2, <1>3, <2>1, PublishEffect DEF SameOutput
<1>4. CASE Setup
  BY <1>0, <1>2, <1>4, SetupEffect DEF Setup
<1>5. CASE Query
  BY <1>0, <1>2, <1>5, QueryEffect DEF SameOutput
<1>6. CASE Write
  <2>1. conn' \in Seq({0} \cup Msgs)
    <3>1. sub.todo # << >> => Head(sub.todo) \in Msgs
      BY StateTypes, TailSeq
    <3>2. sub.rx # << >> => Head(sub.rx) \in Msgs
      BY StateTypes, TailSeq
    <3>3. conn' = conn \/ \E x \in {0} \cup Msgs : conn' = Append(conn, x)
      BY <1>6, <3>1, <3>2, WriteEffect DEF Write
    <3> QED
      BY <1>0, <3>3, AppendSeq
  <2> QED
    BY <1>0, <1>2, <1>6, <2>1, WriteEffect DEF Write
<1>7. CASE Read
  <2>1. Tail(conn) \in Seq({0} \cup Msgs) /\ Head(conn) \in {0} \cup Msgs
    BY <1>0, <1>7, ReadEffect, TailSeq DEF Read
  <2>2. printed' \in Seq(Msgs)
    <3>1. CASE printed' = printed
      BY <1>0, <3>1
    <3>2. CASE printed' = Append(printed, Head(conn)) /\ Head(conn) \in Msgs
      BY <1>0, <3>2
    <3> QED
      BY <1>7, <2>1, <3>1, <3>2, ReadEffect DEF Read
  <2> QED
    BY <1>0, <1>2, <1>7, <2>1, <2>2, ReadEffect DEF Read
<1>8. CASE Still
  BY <1>0, <1>2, <1>8 DEF Still, SameInbox
<1> QED
  BY <1>1, <1>3, <1>4, <1>5, <1>6, <1>7, <1>8, Steps

LEMMA EarlyStep ==
    ASSUME TypeOK, NothingEarly, [Next]_vars
    PROVE  NothingEarly'
<1> USE DEF Early, SameRx, SameBefore, SameBacklog, SameOutput
<1>1. ASSUME NEW x \in Msg, Arrive(x)
      PROVE  NothingEarly'
  BY <1>1, ArriveEffect DEF NothingEarly
<1>2. ASSUME NEW m \in pub, Publish(m)
      PROVE  NothingEarly'
  <2>1. sub'.pc \in Early \ {"query"} => sub'.rx = sub.rx
    <3>1. sub'.pc \in Early \ {"query"} => sub' = sub
      BY <1>2, PublishEffect DEF Publish
    <3> QED
      BY <3>1
  <2> QED
    BY <1>2, <2>1, PublishEffect DEF NothingEarly
<1>3. CASE Setup
  <2>1. /\ SameRx /\ SameBacklog /\ UNCHANGED <<conn, printed>>
        /\ \/ /\ cli = "off" /\ cli' = "reading" /\ sub'.pc = "resolve"
              /\ SameBefore
           \/ /\ sub.pc = "resolve" /\ sub'.pc = "subscribe" /\ SameBefore
              /\ cli' = cli
           \/ sub.pc = "subscribe" /\ sub'.pc = "query" /\ cli' = cli
           \/ /\ sub.pc \in {"query", "backlog", "tail"} /\ sub'.pc = "ended"
              /\ cli' = cli
    BY <1>3, SetupEffect DEF Setup
  <2> QED
    BY <2>1 DEF NothingEarly
<1>4. CASE Query
  BY <1>4, QueryEffect DEF NothingEarly
<1>5. CASE Write
  <2>1. /\ sub'.pc \in {"backlog", "tail", "ended"} /\ cli' = cli
        /\ sub.pc \in {"backlog", "tail"}
        /\ sub'.pc = "tail" => sub'.todo = << >>
    BY <1>5, WriteEffect DEF Write, NothingEarly
  <2> QED
    BY <2>1 DEF NothingEarly
<1>6. CASE Read
  <2>1. sub' = sub /\ conn # << >> /\ cli' # "off"
    BY <1>6, ReadEffect DEF Read
  <2> QED
    BY <2>1 DEF NothingEarly
<1>7. CASE Still
  BY <1>7 DEF Still, NothingEarly
<1> QED
  BY <1>1, <1>2, <1>3, <1>4, <1>5, <1>6, <1>7, Steps

\* A published message is in the subscription, unless that has lagged.
LEMMA PublishKeeps ==
    ASSUME TypeOK, NEW m \in pub, Publish(m), ~sub'.lagged,
           sub.pc \in {"query", "backlog", "tail"}
    PROVE  ~sub.lagged /\ pub \cup Range(sub.rx) = pub' \cup Range(sub'.rx)
<1>1. /\ sub'.rx = Append(sub.rx, m) /\ ~sub.lagged /\ pub' = pub \ {m}
      /\ sub.rx \in Seq(Msgs) /\ m \in Msgs
  BY PublishEffect, StateTypes
<1>2. Range(sub'.rx) = Range(sub.rx) \cup {m}
  BY <1>1, AppendSeq
<1> QED
  BY <1>1, <1>2

LEMMA OpenStep ==
    ASSUME TypeOK, NothingEarly, SeamOpen, [Next]_vars
    PROVE  SeamOpen'
<1> USE DEF SameRx, SameBefore, SameBacklog, SameOutput, SameInbox
<1> SUFFICES ASSUME sub'.pc = "query", ~sub'.lagged
             PROVE  Msgs' \subseteq sub'.before \cup pub' \cup Range(sub'.rx)
  BY DEF SeamOpen
<1>1. ASSUME NEW x \in Msg, Arrive(x)
      PROVE  Msgs' \subseteq sub'.before \cup pub' \cup Range(sub'.rx)
  BY <1>1, ArriveEffect DEF SeamOpen
<1>2. ASSUME NEW m \in pub, Publish(m)
      PROVE  Msgs' \subseteq sub'.before \cup pub' \cup Range(sub'.rx)
  <2>1. sub.pc = "query" /\ sub'.before = sub.before /\ arrived' = arrived
    BY <1>2, PublishEffect
  <2>2. ~sub.lagged /\ pub \cup Range(sub.rx) = pub' \cup Range(sub'.rx)
    BY <1>2, <2>1, PublishKeeps
  <2> QED
    BY <2>1, <2>2 DEF SeamOpen, Msgs
<1>3. CASE Setup
  <2>1. /\ sub'.before = Msgs \ pub /\ pub' = pub /\ arrived' = arrived
    BY <1>3, SetupEffect DEF Setup
  <2> QED
    BY <2>1 DEF Msgs
<1>4. CASE Query \/ Write
  BY <1>4, QueryEffect, WriteEffect DEF Write
<1>5. CASE Read
  BY <1>5, ReadEffect DEF Read, SeamOpen, Msgs
<1>6. CASE Still
  BY <1>6 DEF Still, SeamOpen, Msgs
<1> QED
  BY <1>1, <1>2, <1>3, <1>4, <1>5, <1>6, Steps

\* Where a message that was asked for can be.
InSight(m) ==
    \/ ~Passes(m, sub.want)
    \/ m \in sub.before /\ arrived[m].ts <= req.since
    \/ m \in pub \cup sub.cut \cup Range(sub.todo) \cup Range(sub.rx)
             \cup Range(conn) \cup Range(printed)

LEMMA SeamStep ==
    ASSUME TypeOK, NothingEarly, SeamOpen, SeamComplete, [Next]_vars
    PROVE  SeamComplete'
<1> USE DEF SameRx, SameBefore, SameBacklog, SameOutput, SameInbox
<1> SUFFICES ASSUME sub'.pc \in {"backlog", "tail"}, ~sub'.lagged, NEW m \in inbox'
             PROVE  InSight(m)'
  BY DEF SeamComplete, InSight
<1>0. /\ sub.todo \in Seq(Msgs) /\ sub.rx \in Seq(Msgs) /\ inbox \subseteq Msgs
      /\ conn \in Seq({0} \cup Msgs) /\ printed \in Seq(Msgs)
  BY StateTypes
<1>a. ASSUME sub.pc \in {"backlog", "tail"}, ~sub.lagged, m \in inbox
      PROVE  InSight(m)
  BY <1>a DEF SeamComplete, InSight
<1>b. ASSUME SameInbox, sub'.want = sub.want, sub'.before = sub.before, InSight(m),
             pub \cup sub.cut \cup Range(sub.todo) \cup Range(sub.rx)
                 \cup Range(conn) \cup Range(printed)
             \subseteq pub' \cup sub'.cut \cup Range(sub'.todo) \cup Range(sub'.rx)
                 \cup Range(conn') \cup Range(printed') \cup {0}
                 \cup {x \in Msgs : ~Passes(x, sub.want)},
             m # 0
      PROVE  InSight(m)'
  BY <1>b DEF InSight, Passes
<1>1. ASSUME NEW x \in Msg, Arrive(x)
      PROVE  InSight(m)'
  <2>1. CASE m \notin inbox
    BY <1>1, <2>1, ArriveEffect DEF InSight
  <2>2. CASE m \in inbox
    <3>1. InSight(m) /\ m \in Msgs
      BY <1>0, <1>1, <1>a, <2>2, ArriveEffect
    <3>2. arrived'[m] = arrived[m] /\ UNCHANGED <<req, sub, conn, printed>>
          /\ pub \subseteq pub'
      BY <1>1, <3>1, ArriveEffect
    <3> QED
      BY <3>1, <3>2 DEF InSight, Passes
  <2> QED
    BY <2>1, <2>2
<1>c. m # 0 \/ \E x \in Msg : Arrive(x)
  <2>1. inbox' = inbox \/ \E x \in Msg : Arrive(x)
    BY Steps, PublishEffect, SetupEffect, QueryEffect, WriteEffect, ReadEffect
       DEF Setup, Write, Read, Still
  <2> QED
    BY <1>0, <2>1 DEF Msgs
<1>2. ASSUME NEW x \in pub, Publish(x)
      PROVE  InSight(m)'
  <2>1. /\ sub.pc \in {"backlog", "tail"} /\ SameInbox /\ sub'.want = sub.want
        /\ SameBefore /\ SameBacklog /\ SameOutput
    BY <1>2, PublishEffect
  <2>2. ~sub.lagged /\ pub \cup Range(sub.rx) = pub' \cup Range(sub'.rx)
    BY <1>2, <2>1, PublishKeeps
  <2>3. InSight(m)
    BY <1>a, <2>1, <2>2
  <2> QED
    BY <1>0, <1>b, <2>1, <2>2, <2>3 DEF Msgs
<1>3. CASE Setup
  <2>1. sub'.pc \in {"resolve", "subscribe", "query", "ended"}
    BY <1>3, SetupEffect DEF Setup
  <2> QED
    BY <2>1
<1>4. CASE Query
  <2>1. /\ SameInbox /\ SameRx /\ SameBefore /\ pub' = pub /\ sub'.want = sub.want
        /\ sub.pc = "query" /\ Range(sub'.todo) \cup sub'.cut = Rows
    BY <1>4, QueryEffect
  <2>2. m \in sub.before \cup pub \cup Range(sub.rx) /\ m \in inbox
    BY <1>0, <2>1 DEF SeamOpen
  <2>3. CASE Passes(m, sub.want) /\ arrived[m].ts > req.since
    <3>1. m \in Rows
      BY <2>2, <2>3 DEF Rows
    <3> QED
      BY <2>1, <3>1 DEF InSight
  <2>4. CASE Passes(m, sub.want) /\ ~(arrived[m].ts > req.since)
    <3>1. arrived[m].ts \in Nat /\ req.since \in Nat
      <4>1. req \in [cmd : {"recv", "chat"}, by : {"all", "id", "name"},
                     peer : Nodes, chan : Channels \cup {Any},
                     follow : BOOLEAN, since : Nat]
        BY SubscriptionAssumption DEF TypeOK
      <4>2. arrived[m] \in Msg
        BY <1>0, <2>2 DEF TypeOK, Msgs
      <4>3. arrived[m].ts \in Stamps
        BY <4>2 DEF Msg
      <4> QED
        BY <4>1, <4>3, SubscriptionAssumption
    <3>2. arrived[m].ts <= req.since
      BY <2>4, <3>1
    <3> QED
      BY <2>1, <2>2, <3>2 DEF InSight
  <2>5. CASE ~Passes(m, sub.want)
    BY <2>1, <2>5 DEF InSight, Passes
  <2> QED
    BY <2>3, <2>4, <2>5
<1>5. CASE Write
  <2>0. /\ SameInbox /\ SameBefore /\ UNCHANGED <<cli, printed, pub>>
        /\ sub'.want = sub.want /\ sub'.cut = sub.cut /\ sub'.lagged = sub.lagged
        /\ sub.pc \in {"backlog", "tail"}
    BY <1>5, WriteEffect DEF Write
  <2>1. InSight(m) /\ m # 0
    BY <1>0, <1>a, <2>0 DEF Msgs
  <2>2. CASE WriteRow
    <3>1. /\ sub.todo # << >> /\ SameRx /\ sub'.todo = Tail(sub.todo)
          /\ conn' = Append(conn, Head(sub.todo))
      BY <2>2, WriteEffect DEF WriteRow, BacklogEnd, TailEvent
    <3>2. /\ Range(sub.todo) = {Head(sub.todo)} \cup Range(sub'.todo)
          /\ Head(sub.todo) \in {0} \cup Msgs
      BY <1>0, <3>1, TailSeq
    <3>3. Range(conn') = Range(conn) \cup {Head(sub.todo)}
      BY <1>0, <3>1, <3>2, AppendSeq
    <3> QED
      BY <1>b, <2>0, <2>1, <3>1, <3>2, <3>3
  <2>3. CASE BacklogEnd
    <3>1. SameRx /\ sub.todo = << >> /\ sub'.todo = << >> /\ conn' = Append(conn, 0)
      BY <2>3, WriteEffect DEF WriteRow, BacklogEnd, TailEvent
    <3>2. Range(conn') = Range(conn) \cup {0}
      BY <1>0, <3>1, AppendSeq
    <3> QED
      BY <1>b, <2>0, <2>1, <3>1, <3>2
  <2>4. CASE TailEvent
    <3>1. /\ sub.rx # << >> /\ sub'.rx = Tail(sub.rx) /\ sub'.todo = sub.todo
          /\ \/ conn' = conn /\ ~Passes(Head(sub.rx), sub.want)
             \/ conn' = Append(conn, Head(sub.rx))
      BY <2>4, WriteEffect DEF WriteRow, BacklogEnd, TailEvent
    <3>2. /\ Range(sub.rx) = {Head(sub.rx)} \cup Range(sub'.rx)
          /\ Head(sub.rx) \in Msgs
      BY <1>0, <3>1, TailSeq
    <3>3. CASE conn' = Append(conn, Head(sub.rx))
      <4>1. Range(conn') = Range(conn) \cup {Head(sub.rx)}
        BY <1>0, <3>2, <3>3, AppendSeq
      <4> QED
        BY <1>b, <2>0, <2>1, <3>1, <3>2, <4>1
    <3>4. CASE conn' = conn /\ ~Passes(Head(sub.rx), sub.want)
      BY <1>b, <2>0, <2>1, <3>1, <3>2, <3>4
    <3> QED
      BY <3>1, <3>3, <3>4
  <2> QED
    BY <1>5, <2>2, <2>3, <2>4 DEF Write
<1>6. CASE Read
  <2>1. /\ SameInbox /\ UNCHANGED <<pub, sub>> /\ conn # << >> /\ conn' = Tail(conn)
        /\ \/ Head(conn) # 0 /\ printed' = Append(printed, Head(conn))
           \/ Head(conn) = 0 /\ printed' = printed
    BY <1>6, ReadEffect DEF Read
  <2>2. InSight(m) /\ m # 0
    BY <1>0, <1>a, <2>1 DEF Msgs
  <2>3. Range(conn) = {Head(conn)} \cup Range(conn') /\ Head(conn) \in {0} \cup Msgs
    BY <1>0, <2>1, TailSeq
  <2>4. Range(printed') = Range(printed) \cup ({Head(conn)} \ {0})
    <3>1. CASE Head(conn) = 0 /\ printed' = printed
      BY <3>1
    <3>2. CASE Head(conn) # 0 /\ printed' = Append(printed, Head(conn))
      <4>1. Head(conn) \in Msgs
        BY <2>3, <3>2
      <4>2. Range(printed') = Range(printed) \cup {Head(conn)}
        BY <1>0, <3>2, <4>1, AppendSeq
      <4> QED
        BY <3>2, <4>2
    <3> QED
      BY <2>1, <3>1, <3>2
  <2> QED
    BY <1>b, <2>1, <2>2, <2>3, <2>4
<1>7. CASE Still
  BY <1>a, <1>7 DEF Still, InSight, Passes
<1> QED
  BY <1>1, <1>2, <1>3, <1>4, <1>5, <1>6, <1>7, Steps

-----------------------------------------------------------------------------
(* How often a message is shown.                                           *)

LEMMA DistinctAppend ==
    ASSUME NEW S, NEW q \in Seq(S), NEW x \in S, x \notin Range(q),
           \A i, j \in DOMAIN q : i < j => q[i] # q[j]
    PROVE  LET a == Append(q, x) IN
           \A i, j \in DOMAIN a : i < j => a[i] # a[j]
<1> DEFINE a == Append(q, x)
<1>1. /\ DOMAIN a = DOMAIN q \cup {Len(q) + 1} /\ DOMAIN q = 1 .. Len(q)
      /\ a[Len(q) + 1] = x /\ \A i \in DOMAIN q : a[i] = q[i]
      /\ Len(q) \in Nat
  BY AppendSeq
<1> HIDE DEF a
<1>2. \A i \in DOMAIN q : q[i] # x
  BY DEF Range
<1> SUFFICES ASSUME NEW i \in DOMAIN a, NEW j \in DOMAIN a, i < j
             PROVE  a[i] # a[j]
  BY DEF a
<1>3. i \in DOMAIN q
  BY <1>1
<1> QED
  BY <1>1, <1>2, <1>3

LEMMA DistinctTail ==
    ASSUME NEW S, NEW q \in Seq(S), q # << >>,
           \A i, j \in DOMAIN q : i < j => q[i] # q[j]
    PROVE  LET t == Tail(q) IN
           /\ \A i, j \in DOMAIN t : i < j => t[i] # t[j]
           /\ Head(q) \notin Range(t)
<1> DEFINE t == Tail(q)
<1>1. /\ Head(q) = q[1] /\ 1 \in DOMAIN q /\ Len(q) \in Nat \ {0}
      /\ DOMAIN t = 1 .. Len(q) - 1
      /\ \A i \in DOMAIN t : i + 1 \in DOMAIN q /\ t[i] = q[i + 1]
  BY TailSeq
<1> HIDE DEF t
<1>2. ASSUME NEW i \in DOMAIN t, NEW j \in DOMAIN t, i < j
      PROVE  t[i] # t[j]
  <2>1. i + 1 < j + 1
    BY <1>1, <1>2
  <2> QED
    BY <1>1, <2>1
<1>3. ASSUME NEW i \in DOMAIN t
      PROVE  t[i] # Head(q)
  <2>1. 1 < i + 1
    BY <1>1
  <2> QED
    BY <1>1, <2>1
<1> QED
  BY <1>2, <1>3 DEF Range, t

LEMMA OnceStep ==
    ASSUME TypeOK, NothingEarly, BroadcastOnce, [Next]_vars
    PROVE  BroadcastOnce'
<1> USE DEF SameRx, SameBefore, SameBacklog, SameOutput, SameInbox
<1>0. /\ sub.todo \in Seq(Msgs) /\ sub.rx \in Seq(Msgs) /\ pub \subseteq Msgs
      /\ sub.before \subseteq Msgs /\ Range(sub.rx) \subseteq Msgs
  BY StateTypes
<1>1. ASSUME NEW x \in Msg, Arrive(x)
      PROVE  BroadcastOnce'
  <2>1. PICK n : n \notin Msgs /\ pub' = pub \cup {n} /\ sub' = sub
    BY <1>1, ArriveEffect
  <2> QED
    BY <1>0, <2>1 DEF BroadcastOnce
<1>2. ASSUME NEW m \in pub, Publish(m)
      PROVE  BroadcastOnce'
  <2>1. /\ pub' = pub \ {m} /\ sub'.todo = sub.todo /\ sub'.before = sub.before
        /\ \/ sub'.rx = sub.rx
           \/ sub'.rx = Append(sub.rx, m)
           \/ sub.rx # << >> /\ sub'.rx = Append(Tail(sub.rx), m)
    BY <1>2, PublishEffect
  <2>2. m \in Msgs /\ m \notin Range(sub.rx) /\ m \notin sub.before
    BY <1>0 DEF BroadcastOnce
  <2>3. CASE sub'.rx = sub.rx
    BY <2>1, <2>3 DEF BroadcastOnce
  <2>4. CASE sub'.rx = Append(sub.rx, m)
    <3>1. Range(sub'.rx) = Range(sub.rx) \cup {m}
      BY <1>0, <2>2, <2>4, AppendSeq
    <3>2. \A i, j \in DOMAIN sub'.rx : i < j => sub'.rx[i] # sub'.rx[j]
      BY <1>0, <2>2, <2>4, DistinctAppend DEF BroadcastOnce
    <3> QED
      BY <2>1, <2>2, <3>1, <3>2 DEF BroadcastOnce
  <2>5. CASE sub.rx # << >> /\ sub'.rx = Append(Tail(sub.rx), m)
    <3> DEFINE t == Tail(sub.rx)
    <3>1. t \in Seq(Msgs) /\ Range(sub.rx) = {Head(sub.rx)} \cup Range(t)
      BY <1>0, <2>5, TailSeq
    <3>2. \A i, j \in DOMAIN t : i < j => t[i] # t[j]
      BY <1>0, <2>5, DistinctTail DEF BroadcastOnce
    <3>3. m \notin Range(t) /\ sub'.rx = Append(t, m)
      BY <2>2, <2>5, <3>1
    <3> HIDE DEF t
    <3>4. Range(sub'.rx) = Range(t) \cup {m}
      BY <2>2, <3>1, <3>3, AppendSeq
    <3>5. \A i, j \in DOMAIN sub'.rx : i < j => sub'.rx[i] # sub'.rx[j]
      BY <2>2, <3>1, <3>2, <3>3, DistinctAppend
    <3> QED
      BY <2>1, <2>2, <3>1, <3>4, <3>5 DEF BroadcastOnce
  <2> QED
    BY <2>1, <2>3, <2>4, <2>5
<1>3. CASE Setup
  <2>1. /\ SameRx /\ SameBacklog /\ pub' = pub
        /\ \/ SameBefore
           \/ sub.pc = "subscribe" /\ sub'.before = Msgs \ pub
    BY <1>3, SetupEffect DEF Setup
  <2>2. sub.pc = "subscribe" => Range(sub.rx) = {}
    BY EmptyRange DEF NothingEarly, Early
  <2> QED
    BY <2>1, <2>2 DEF BroadcastOnce
<1>4. CASE Query
  BY <1>4, QueryEffect DEF BroadcastOnce
<1>5. CASE Write
  <2>1. SameBefore /\ pub' = pub
    BY <1>5, WriteEffect DEF Write
  <2>2. CASE WriteRow
    <3>1. sub.todo # << >> /\ SameRx /\ sub'.todo = Tail(sub.todo)
      BY <2>2, WriteEffect DEF WriteRow, BacklogEnd, TailEvent
    <3>2. \A i, j \in DOMAIN sub'.todo : i < j => sub'.todo[i] # sub'.todo[j]
      BY <1>0, <3>1, DistinctTail DEF BroadcastOnce
    <3> QED
      BY <2>1, <3>1, <3>2 DEF BroadcastOnce
  <2>3. CASE BacklogEnd
    <3>1. SameRx /\ sub.todo = << >> /\ sub'.todo = << >>
      BY <2>3, WriteEffect DEF WriteRow, BacklogEnd, TailEvent
    <3> QED
      BY <2>1, <3>1 DEF BroadcastOnce
  <2>4. CASE TailEvent
    <3>1. sub.rx # << >> /\ sub'.rx = Tail(sub.rx) /\ sub'.todo = sub.todo
      BY <2>4, WriteEffect DEF WriteRow, BacklogEnd, TailEvent
    <3>2. \A i, j \in DOMAIN sub'.rx : i < j => sub'.rx[i] # sub'.rx[j]
      BY <1>0, <3>1, DistinctTail DEF BroadcastOnce
    <3>3. Range(sub'.rx) \subseteq Range(sub.rx)
      BY <1>0, <3>1, TailSeq
    <3> QED
      BY <2>1, <3>1, <3>2, <3>3 DEF BroadcastOnce
  <2> QED
    BY <1>5, <2>2, <2>3, <2>4 DEF Write
<1>6. CASE Read \/ Still
  <2>1. sub' = sub /\ pub' = pub
    BY <1>6, ReadEffect DEF Read, Still
  <2> QED
    BY <2>1 DEF BroadcastOnce
<1> QED
  BY <1>1, <1>2, <1>3, <1>4, <1>5, <1>6, Steps

\* What is written to the socket counts as shown.
LEMMA ShowAppend ==
    ASSUME TypeOK, NEW x \in {0} \cup Msgs, conn' = Append(conn, x),
           printed' = printed, NEW m
    PROVE  Count(m, printed' \o conn') =
             IF m = x THEN Count(m, printed \o conn) + 1
             ELSE Count(m, printed \o conn)
<1> DEFINE S == {0} \cup Msgs
<1>1. conn \in Seq(S) /\ printed \in Seq(S)
  <2>1. printed \in Seq(Msgs) /\ Msgs \subseteq S
    BY StateTypes
  <2> QED
    BY <2>1, StateTypes, SeqMonotonic
<1> HIDE DEF S
<1>2. printed \o conn \in Seq(S) /\ x \in S
  BY <1>1 DEF S
<1>3. Append(conn, x) \in Seq(S) /\ Append(conn, x) = conn \o <<x>>
  BY <1>1, <1>2, AppendIsConcat, AppendSeq
<1>4. Append(printed \o conn, x) = (printed \o conn) \o <<x>> /\ <<x>> \in Seq(S)
  BY <1>2, AppendIsConcat
<1>5. (printed \o conn) \o <<x>> = printed \o (conn \o <<x>>)
  BY <1>1, <1>4, ConcatAssociative
<1>6. printed' \o conn' = Append(printed \o conn, x)
  BY <1>3, <1>4, <1>5
<1> DEFINE H == printed \o conn
<1> HIDE DEF H
<1>7. Count(m, Append(H, x)) = IF m = x THEN Count(m, H) + 1 ELSE Count(m, H)
  BY <1>2, CountAppend DEF H
<1> QED
  BY <1>6, <1>7 DEF H

\* What is read from the socket and printed counts as before.
LEMMA ShowRead ==
    ASSUME TypeOK, Read, NEW m \in Msgs
    PROVE  Count(m, printed' \o conn') = Count(m, printed \o conn)
<1> DEFINE S == {0} \cup Msgs
<1>1. conn \in Seq(S) /\ printed \in Seq(S) /\ m # 0
  <2>1. printed \in Seq(Msgs) /\ Msgs \subseteq S
    BY StateTypes
  <2> QED
    BY <2>1, StateTypes, SeqMonotonic
<1> HIDE DEF S
<1>2. /\ conn # << >> /\ conn' = Tail(conn)
      /\ \/ printed' = Append(printed, Head(conn))
         \/ Head(conn) = 0 /\ printed' = printed
  BY ReadEffect DEF Read
<1>3. CASE printed' = Append(printed, Head(conn))
  <2>1. printed' \o conn' = printed \o conn
    BY <1>1, <1>2, <1>3
  <2> QED
    BY <2>1
<1>4. CASE Head(conn) = 0 /\ printed' = printed
  BY <1>1, <1>2, <1>4, CountWithout
<1> QED
  BY <1>2, <1>3, <1>4

LEMMA ShownStep ==
    ASSUME TypeOK, NothingEarly, BroadcastOnce, ShownOnce, OneDuplicate, [Next]_vars
    PROVE  ShownOnce' /\ OneDuplicate'
<1> USE DEF SameRx, SameBefore, SameBacklog, SameOutput, SameInbox
<1> DEFINE H == printed \o conn
           Good(m) == /\ m \in Range(sub'.todo) => Count(m, printed' \o conn') = 0
                      /\ sub'.pc = "backlog" => Count(m, printed' \o conn') <= 1
                      /\ m \in pub' \cup Range(sub'.rx) =>
                           Count(m, printed' \o conn') <= 1
                      /\ Count(m, printed' \o conn') <=
                           IF m \in sub'.before THEN 1 ELSE 2
           Was(m) == /\ m \in Range(sub.todo) => Count(m, H) = 0
                     /\ sub.pc = "backlog" => Count(m, H) <= 1
                     /\ m \in pub \cup Range(sub.rx) => Count(m, H) <= 1
                     /\ Count(m, H) <= IF m \in sub.before THEN 1 ELSE 2
<1> SUFFICES ASSUME NEW m \in Msgs'
             PROVE  Good(m)
  BY DEF ShownOnce, OneDuplicate
<1>0. /\ sub.todo \in Seq(Msgs) /\ sub.rx \in Seq(Msgs) /\ pub \subseteq Msgs
      /\ sub.before \subseteq Msgs /\ Range(sub.rx) \subseteq Msgs
      /\ Range(sub.todo) \subseteq Msgs /\ Msgs \subseteq Nat \ {0}
      /\ Range(conn) \subseteq {0} \cup Msgs /\ Range(printed) \subseteq Msgs
  BY StateTypes
<1>a. H \in Seq({0} \cup Msgs) /\ Range(H) = Range(printed) \cup Range(conn)
  <2>1. printed \in Seq(Msgs) /\ Msgs \subseteq {0} \cup Msgs
        /\ conn \in Seq({0} \cup Msgs)
    BY StateTypes
  <2>2. printed \in Seq({0} \cup Msgs)
    BY <2>1, SeqMonotonic
  <2> QED
    BY <2>1, <2>2, ConcatProperties, RangeConcatenation
<1>b. Count(m, H) \in Nat
  BY <1>a, CountType
<1>c. m \in Msgs => Was(m)
  BY DEF ShownOnce, OneDuplicate
<1>d. sub.pc \in Early => Count(m, H) = 0
  <2>1. sub.pc \in Early => Range(printed) \cup Range(conn) = {}
    BY EmptyRange DEF NothingEarly
  <2> QED
    BY <1>a, <2>1, CountNone
<1> HIDE DEF H
<1>1. ASSUME NEW x \in Msg, Arrive(x)
      PROVE  Good(m)
  <2>1. PICK n : /\ n \notin Msgs /\ Msgs' = Msgs \cup {n} /\ pub' = pub \cup {n}
                 /\ n \in Nat \ {0}
                 /\ UNCHANGED <<sub, conn, printed>>
    BY <1>1, ArriveEffect
  <2>2. CASE m \in Msgs
    BY <1>c, <2>1, <2>2 DEF H
  <2>3. CASE m \notin Msgs
    <3>1. m \notin Range(printed) \cup Range(conn) /\ m \notin Range(sub.todo)
      BY <1>0, <2>1, <2>3
    <3>2. Count(m, H) = 0
      BY <1>a, <3>1, CountNone
    <3> QED
      BY <2>1, <3>1, <3>2 DEF H
  <2> QED
    BY <2>2, <2>3
<1>2. m \in Msgs \/ \E x \in Msg : Arrive(x)
  BY Steps, PublishEffect, SetupEffect, QueryEffect, WriteEffect, ReadEffect
     DEF Setup, Write, Read, Still, Msgs
<1>3. ASSUME NEW x \in pub, Publish(x), m \in Msgs
      PROVE  Good(m)
  <2>1. /\ pub' = pub \ {x} /\ sub'.todo = sub.todo /\ sub'.before = sub.before
        /\ sub'.pc = sub.pc /\ UNCHANGED <<conn, printed>>
        /\ \/ sub'.rx = sub.rx
           \/ sub'.rx = Append(sub.rx, x)
           \/ sub.rx # << >> /\ sub'.rx = Append(Tail(sub.rx), x)
    BY <1>3, PublishEffect
  <2>2. Range(sub'.rx) \subseteq Range(sub.rx) \cup {x}
    <3>1. x \in Msgs
      BY <1>0
    <3>2. CASE sub'.rx = Append(sub.rx, x)
      BY <1>0, <3>1, <3>2, AppendSeq
    <3>3. CASE sub.rx # << >> /\ sub'.rx = Append(Tail(sub.rx), x)
      <4> DEFINE t == Tail(sub.rx)
      <4>1. t \in Seq(Msgs) /\ Range(t) \subseteq Range(sub.rx)
        BY <1>0, <3>3, TailSeq
      <4>a. sub'.rx = Append(t, x)
        BY <3>3
      <4> HIDE DEF t
      <4>2. Range(sub'.rx) = Range(t) \cup {x}
        BY <3>1, <4>a, <4>1, AppendSeq
      <4> QED
        BY <4>1, <4>2
    <3> QED
      BY <2>1, <3>2, <3>3
  <2> QED
    BY <1>3, <1>c, <2>1, <2>2 DEF H
<1>4. CASE Setup /\ m \in Msgs
  <2>1. /\ SameRx /\ SameBacklog /\ pub' = pub /\ UNCHANGED <<conn, printed>>
        /\ sub'.pc # "backlog"
        /\ SameBefore \/ sub.pc \in Early
    BY <1>4, SetupEffect DEF Setup, Early
  <2> QED
    BY <1>4, <1>c, <1>d, <2>1 DEF H
<1>5. CASE Query /\ m \in Msgs
  <2>1. sub.pc \in Early /\ UNCHANGED <<conn, printed>>
    BY <1>5, QueryEffect DEF Early
  <2> QED
    BY <1>d, <2>1 DEF H
<1>6. CASE Write /\ m \in Msgs
  <2>1. SameBefore /\ pub' = pub /\ printed' = printed
    BY <1>6, WriteEffect DEF Write
  <2>2. CASE WriteRow
    <3> DEFINE x == Head(sub.todo)
    <3>1. /\ sub.todo # << >> /\ SameRx /\ sub'.todo = Tail(sub.todo)
          /\ sub.pc = "backlog" /\ conn' = Append(conn, x)
      BY <2>2, WriteEffect DEF WriteRow, BacklogEnd, TailEvent
    <3>2. x \in Msgs /\ Range(sub.todo) = {x} \cup Range(sub'.todo)
      BY <1>0, <3>1, TailSeq
    <3>3. x \notin Range(sub'.todo)
      BY <1>0, <3>1, DistinctTail DEF BroadcastOnce
    <3> HIDE DEF x
    <3>4. Count(m, printed' \o conn') = IF m = x THEN Count(m, H) + 1 ELSE Count(m, H)
      BY <2>1, <3>1, <3>2, ShowAppend DEF H
    <3>5. CASE m = x
      <4>1. Count(m, H) = 0
        BY <1>6, <1>c, <3>2, <3>5
      <4> QED
        BY <3>3, <3>4, <3>5, <4>1
    <3>6. CASE m # x
      BY <1>6, <1>c, <2>1, <3>1, <3>2, <3>4, <3>6
    <3> QED
      BY <3>5, <3>6
  <2>3. CASE BacklogEnd
    <3>1. /\ SameRx /\ sub.todo = << >> /\ sub'.todo = << >> /\ conn' = Append(conn, 0)
          /\ sub.pc = "backlog"
      BY <2>3, WriteEffect DEF WriteRow, BacklogEnd, TailEvent
    <3>2. Count(m, printed' \o conn') = Count(m, H)
      BY <1>0, <1>6, <2>1, <3>1, ShowAppend DEF H
    <3> QED
      BY <1>6, <1>c, <2>1, <3>1, <3>2
  <2>4. CASE TailEvent
    <3> DEFINE x == Head(sub.rx)
    <3>1. /\ sub.rx # << >> /\ sub'.rx = Tail(sub.rx) /\ sub'.todo = sub.todo
          /\ sub.pc = "tail" /\ sub'.pc = "tail"
          /\ conn' = conn \/ conn' = Append(conn, x)
      BY <2>4, WriteEffect DEF WriteRow, BacklogEnd, TailEvent
    <3>2. x \in Msgs /\ Range(sub.rx) = {x} \cup Range(sub'.rx)
      BY <1>0, <3>1, TailSeq
    <3>3. /\ x \notin Range(sub'.rx) /\ x \notin pub /\ x \notin sub.before
      BY <1>0, <3>1, <3>2, DistinctTail DEF BroadcastOnce
    <3>4. Range(sub.todo) = {}
      BY <3>1, EmptyRange DEF NothingEarly
    <3> HIDE DEF x
    <3>5. CASE conn' = conn
      BY <1>6, <1>c, <2>1, <3>1, <3>2, <3>5 DEF H
    <3>6. CASE conn' = Append(conn, x)
      <4>1. Count(m, printed' \o conn') =
              IF m = x THEN Count(m, H) + 1 ELSE Count(m, H)
        BY <2>1, <3>2, <3>6, ShowAppend DEF H
      <4>2. CASE m = x
        <5>1. Count(m, H) <= 1
          BY <1>6, <1>c, <3>2, <4>2
        <5>2. Count(m, printed' \o conn') <= 2
          BY <1>b, <4>1, <4>2, <5>1
        <5> QED
          BY <2>1, <3>1, <3>3, <3>4, <4>2, <5>2
      <4>3. CASE m # x
        BY <1>6, <1>c, <2>1, <3>1, <3>2, <4>1, <4>3
      <4> QED
        BY <4>2, <4>3
    <3> QED
      BY <3>1, <3>5, <3>6
  <2> QED
    BY <1>6, <2>2, <2>3, <2>4 DEF Write
<1>7. CASE Read /\ m \in Msgs
  <2>1. sub' = sub /\ pub' = pub /\ Count(m, printed' \o conn') = Count(m, H)
    BY <1>7, ReadEffect, ShowRead DEF Read, H
  <2> QED
    BY <1>7, <1>c, <2>1
<1>8. CASE Still /\ m \in Msgs
  BY <1>8, <1>c DEF Still, H
<1> QED
  BY <1>1, <1>2, <1>3, <1>4, <1>5, <1>6, <1>7, <1>8, Steps

-----------------------------------------------------------------------------
(* The order of the backlog.                                               *)

LEMMA AscendAppend ==
    ASSUME NEW S, NEW q \in Seq(S), NEW x \in S,
           Ascending(q), Below(Range(q), {x})
    PROVE  Ascending(Append(q, x))
<1> DEFINE a == Append(q, x)
<1>1. /\ DOMAIN a = DOMAIN q \cup {Len(q) + 1} /\ DOMAIN q = 1 .. Len(q)
      /\ a[Len(q) + 1] = x /\ \A i \in DOMAIN q : a[i] = q[i]
      /\ Len(q) \in Nat
  BY AppendSeq
<1> HIDE DEF a
<1> SUFFICES ASSUME NEW i \in DOMAIN a, NEW j \in DOMAIN a, i < j
             PROVE  Below({a[i]}, {a[j]})
  BY DEF a, Ascending
<1>2. i \in DOMAIN q /\ a[i] = q[i] /\ q[i] \in Range(q)
  BY <1>1 DEF Range
<1>3. CASE j \in DOMAIN q
  BY <1>1, <1>2, <1>3 DEF Ascending
<1>4. CASE a[j] = x
  BY <1>2, <1>4 DEF Below
<1> QED
  BY <1>1, <1>3, <1>4

LEMMA AscendTail ==
    ASSUME NEW S, NEW q \in Seq(S), q # << >>, Ascending(q)
    PROVE  Ascending(Tail(q)) /\ Below({Head(q)}, Range(Tail(q)))
<1> DEFINE t == Tail(q)
<1>1. /\ Head(q) = q[1] /\ 1 \in DOMAIN q /\ Len(q) \in Nat \ {0}
      /\ DOMAIN t = 1 .. Len(q) - 1
      /\ \A i \in DOMAIN t : i + 1 \in DOMAIN q /\ t[i] = q[i + 1]
  BY TailSeq
<1> HIDE DEF t
<1>2. ASSUME NEW i \in DOMAIN t, NEW j \in DOMAIN t, i < j
      PROVE  Below({t[i]}, {t[j]})
  <2>1. i + 1 < j + 1
    BY <1>1, <1>2
  <2> QED
    BY <1>1, <2>1 DEF Ascending
<1>3. ASSUME NEW i \in DOMAIN t
      PROVE  Below({Head(q)}, {t[i]})
  <2>1. 1 < i + 1
    BY <1>1
  <2> QED
    BY <1>1, <2>1 DEF Ascending
<1>4. Below({Head(q)}, Range(t))
  BY <1>3 DEF Below, Range
<1> QED
  BY <1>2, <1>4 DEF Ascending, t

\* One ascending sequence in four parts.
InOrder(p, c, t, k) ==
    /\ Ascending(p) /\ Ascending(c) /\ Ascending(t)
    /\ Below(Range(p), Range(c)) /\ Below(Range(p) \cup Range(c), Range(t))
    /\ Below(Range(p) \cup Range(c) \cup Range(t), k)

LEMMA DrainOrderStep ==
    ASSUME TypeOK, NothingEarly, DrainInOrder, DrainWhole, [Next]_vars
    PROVE  DrainInOrder'
<1> USE DEF SameRx, SameBefore, SameBacklog, SameOutput, SameInbox
<1>0. /\ sub.todo \in Seq(Msgs) /\ conn \in Seq({0} \cup Msgs)
      /\ printed \in Seq(Msgs) /\ sub.cut \subseteq Msgs
      /\ Range(sub.todo) \subseteq Msgs
      /\ Range(conn) \subseteq {0} \cup Msgs /\ Range(printed) \subseteq Msgs
  BY StateTypes
<1>a. DrainInOrder <=> req.follow \/ InOrder(printed, conn, sub.todo, sub.cut)
  BY DEF DrainInOrder, InOrder
<1>b. ASSUME SameInbox
      PROVE  DrainInOrder' <=>
               req.follow \/ InOrder(printed', conn', sub'.todo, sub'.cut)
  BY <1>b DEF DrainInOrder, InOrder, Ascending, Below
<1>1. ASSUME NEW x \in Msg, Arrive(x)
      PROVE  DrainInOrder'
  <2>1. /\ \A m \in Msgs : arrived'[m] = arrived[m]
        /\ UNCHANGED <<req, sub, conn, printed>>
    BY <1>1, ArriveEffect
  <2>2. ASSUME NEW a, NEW b, a \subseteq {0} \cup Msgs, b \subseteq {0} \cup Msgs,
               Below(a, b)
        PROVE  \A y \in a \ {0}, z \in b \ {0} : arrived'[y].ts <= arrived'[z].ts
    BY <2>1, <2>2 DEF Below
  <2>3. ASSUME NEW q, Range(q) \subseteq {0} \cup Msgs, Ascending(q)
        PROVE  \A i, j \in DOMAIN q : i < j =>
                 \A y \in {q[i]} \ {0}, z \in {q[j]} \ {0} :
                   arrived'[y].ts <= arrived'[z].ts
    <3> SUFFICES ASSUME NEW i \in DOMAIN q, NEW j \in DOMAIN q, i < j
                 PROVE  \A y \in {q[i]} \ {0}, z \in {q[j]} \ {0} :
                          arrived'[y].ts <= arrived'[z].ts
      OBVIOUS
    <3>1. {q[i]} \subseteq {0} \cup Msgs /\ {q[j]} \subseteq {0} \cup Msgs
      BY <2>3 DEF Range
    <3>2. Below({q[i]}, {q[j]})
      BY <2>3 DEF Ascending
    <3> QED
      BY <2>2, <3>1, <3>2
  <2> SUFFICES ASSUME ~req.follow PROVE DrainInOrder'
    BY <2>1 DEF DrainInOrder
  <2>4. InOrder(printed, conn, sub.todo, sub.cut)
    BY <1>a
  <2>5. Ascending(printed)' /\ Ascending(conn)' /\ Ascending(sub.todo)'
    <3>1. Ascending(printed) /\ Ascending(conn) /\ Ascending(sub.todo)
      BY <2>4 DEF InOrder
    <3>2. printed' = printed /\ conn' = conn /\ sub'.todo = sub.todo
      BY <2>1
    <3>3. Ascending(printed)'
      BY <1>0, <2>3, <3>1, <3>2 DEF Ascending, Below
    <3>4. Ascending(conn)'
      BY <1>0, <2>3, <3>1, <3>2 DEF Ascending, Below
    <3>5. Ascending(sub.todo)'
      BY <1>0, <2>3, <3>1, <3>2 DEF Ascending, Below
    <3> QED
      BY <3>3, <3>4, <3>5
  <2>6. Below(Range(printed), Range(conn))'
    BY <1>0, <2>1, <2>2, <2>4 DEF InOrder, Below
  <2>7. Below(Range(printed) \cup Range(conn), Range(sub.todo))'
    <3> DEFINE a == Range(printed) \cup Range(conn)
               b == Range(sub.todo)
    <3>1. a \subseteq {0} \cup Msgs /\ b \subseteq {0} \cup Msgs /\ Below(a, b)
      BY <1>0, <2>4 DEF InOrder
    <3>2. a' = a /\ b' = b
      BY <2>1
    <3> HIDE DEF a, b
    <3>3. Below(a, b)'
      BY <2>2, <3>1, <3>2 DEF Below
    <3> QED
      BY <3>3 DEF a, b
  <2>8. Below(Range(printed) \cup Range(conn) \cup Range(sub.todo), sub.cut)'
    <3> DEFINE a == Range(printed) \cup Range(conn) \cup Range(sub.todo)
               b == sub.cut
    <3>1. a \subseteq {0} \cup Msgs /\ b \subseteq {0} \cup Msgs /\ Below(a, b)
      BY <1>0, <2>4 DEF InOrder
    <3>2. a' = a /\ b' = b
      BY <2>1
    <3> HIDE DEF a, b
    <3>3. Below(a, b)'
      BY <2>2, <3>1, <3>2 DEF Below
    <3> QED
      BY <3>3 DEF a, b
  <2> QED
    BY <2>5, <2>6, <2>7, <2>8 DEF DrainInOrder
<1>2. ASSUME NEW m \in pub, Publish(m)
      PROVE  DrainInOrder'
  BY <1>2, <1>a, <1>b, PublishEffect
<1>3. CASE Setup
  BY <1>3, <1>a, <1>b, SetupEffect DEF Setup
<1>4. CASE Query
  <2>1. /\ SameInbox /\ SameOutput /\ sub.pc = "query" /\ sub' \in SubState
        /\ \A i, j \in DOMAIN sub'.todo : i < j =>
             arrived[sub'.todo[i]].ts <= arrived[sub'.todo[j]].ts
        /\ \A x \in Range(sub'.todo), y \in sub'.cut :
             arrived[x].ts <= arrived[y].ts
    BY <1>4, QueryEffect
  <2>2. conn' = << >> /\ printed' = << >>
    BY <2>1 DEF NothingEarly, Early
  <2>3. Range(printed') = {} /\ Range(conn') = {}
    BY <2>2, EmptyRange
  <2>4. Ascending(printed') /\ Ascending(conn')
    BY <2>2 DEF Ascending
  <2>5. Ascending(sub'.todo)
    BY <2>1 DEF Ascending, Below
  <2>6. Below(Range(sub'.todo), sub'.cut)
    BY <2>1 DEF Below
  <2>7. InOrder(printed', conn', sub'.todo, sub'.cut)
    BY <2>3, <2>4, <2>5, <2>6 DEF InOrder, Below
  <2> QED
    BY <1>b, <2>1, <2>7
<1>5. CASE Write
  <2>0. SameInbox /\ printed' = printed /\ sub'.cut = sub.cut
    BY <1>5, WriteEffect DEF Write
  <2> SUFFICES ASSUME ~req.follow
               PROVE  InOrder(printed', conn', sub'.todo, sub'.cut)
    BY <1>b, <2>0
  <2>1. InOrder(printed, conn, sub.todo, sub.cut)
    BY <1>a
  <2>2. CASE WriteRow
    <3> DEFINE x == Head(sub.todo)
    <3>1. /\ sub.todo # << >> /\ sub'.todo = Tail(sub.todo)
          /\ conn' = Append(conn, x)
      BY <2>2, WriteEffect DEF WriteRow, BacklogEnd, TailEvent
    <3>2. x \in Msgs /\ Range(sub.todo) = {x} \cup Range(sub'.todo)
      BY <1>0, <3>1, TailSeq
    <3>3. Ascending(sub'.todo) /\ Below({x}, Range(sub'.todo))
      BY <1>0, <2>1, <3>1, AscendTail DEF InOrder
    <3> HIDE DEF x
    <3>4. Range(conn') = Range(conn) \cup {x}
      BY <1>0, <3>1, <3>2, AppendSeq
    <3>5. Below(Range(conn), {x})
      BY <2>1, <3>2 DEF InOrder, Below
    <3>6. Ascending(conn')
      BY <1>0, <2>1, <3>1, <3>2, <3>5, AscendAppend DEF InOrder
    <3>7. Below(Range(printed), Range(conn'))
      BY <2>1, <3>2, <3>4 DEF InOrder, Below
    <3>8. Below(Range(printed) \cup Range(conn'), Range(sub'.todo))
      BY <2>1, <3>2, <3>3, <3>4 DEF InOrder, Below
    <3>9. Below(Range(printed) \cup Range(conn') \cup Range(sub'.todo), sub.cut)
      BY <2>1, <3>2, <3>4 DEF InOrder, Below
    <3> QED
      BY <2>0, <2>1, <3>3, <3>6, <3>7, <3>8, <3>9 DEF InOrder
  <2>3. CASE BacklogEnd
    <3>1. sub'.todo = sub.todo /\ conn' = Append(conn, 0)
      BY <2>3, WriteEffect DEF WriteRow, BacklogEnd, TailEvent
    <3>2. Range(conn') = Range(conn) \cup {0}
      BY <1>0, <3>1, AppendSeq
    <3>3. Below(Range(conn), {0})
      BY DEF Below
    <3>4. Ascending(conn')
      BY <1>0, <2>1, <3>1, <3>3, AscendAppend DEF InOrder
    <3>5. /\ Below(Range(printed), Range(conn'))
          /\ Below(Range(printed) \cup Range(conn'), Range(sub.todo))
          /\ Below(Range(printed) \cup Range(conn') \cup Range(sub.todo), sub.cut)
      BY <2>1, <3>2 DEF InOrder, Below
    <3> QED
      BY <2>0, <2>1, <3>1, <3>4, <3>5 DEF InOrder
  <2>4. CASE TailEvent
    BY <2>4 DEF TailEvent, DrainWhole
  <2> QED
    BY <1>5, <2>2, <2>3, <2>4 DEF Write
<1>6. CASE Read
  <2> DEFINE x == Head(conn)
  <2>1. /\ SameInbox /\ sub' = sub /\ conn # << >> /\ conn' = Tail(conn)
        /\ \/ x # 0 /\ printed' = Append(printed, x)
           \/ printed' = printed
    BY <1>6, ReadEffect DEF Read
  <2> SUFFICES ASSUME ~req.follow
               PROVE  InOrder(printed', conn', sub'.todo, sub'.cut)
    BY <1>b, <2>1
  <2>2. InOrder(printed, conn, sub.todo, sub.cut)
    BY <1>a
  <2>3. x \in {0} \cup Msgs /\ Range(conn) = {x} \cup Range(conn')
    BY <1>0, <2>1, TailSeq
  <2>4. Ascending(conn') /\ Below({x}, Range(conn'))
    BY <1>0, <2>1, <2>2, AscendTail DEF InOrder
  <2> HIDE DEF x
  <2>5. CASE printed' = printed
    BY <2>1, <2>2, <2>3, <2>4, <2>5 DEF InOrder, Below
  <2>6. CASE x # 0 /\ printed' = Append(printed, x)
    <3>1. x \in Msgs /\ Range(printed') = Range(printed) \cup {x}
      BY <1>0, <2>3, <2>6, AppendSeq
    <3>2. Below(Range(printed), {x})
      BY <2>2, <2>3 DEF InOrder, Below
    <3>3. Ascending(printed')
      BY <1>0, <2>2, <2>6, <3>1, <3>2, AscendAppend DEF InOrder
    <3>4. /\ Below(Range(printed'), Range(conn'))
          /\ Below(Range(printed') \cup Range(conn'), Range(sub.todo))
          /\ Below(Range(printed') \cup Range(conn') \cup Range(sub.todo), sub.cut)
      BY <2>2, <2>3, <2>4, <3>1 DEF InOrder, Below
    <3> QED
      BY <2>1, <2>2, <2>4, <3>3, <3>4 DEF InOrder
  <2> QED
    BY <2>1, <2>5, <2>6
<1>7. CASE Still
  BY <1>7, <1>a, <1>b DEF Still
<1> QED
  BY <1>1, <1>2, <1>3, <1>4, <1>5, <1>6, <1>7, Steps

-----------------------------------------------------------------------------
(* What a request without -f has to print.                                 *)

Asked == {m \in inbox \cap sub.before :
            Passes(m, sub.want) /\ arrived[m].ts > req.since}

\* The parts of DrainWhole.
EndIsLast ==
    /\ sub.pc # "tail"
    /\ sub.pc \in Early \cup {"backlog"} => 0 \notin Range(conn) /\ cli # "returned"
    /\ 0 \in Range(conn) => sub.todo = << >>
    /\ \A i \in DOMAIN conn : conn[i] = 0 => i = Len(conn)
    /\ cli = "returned" => conn = << >> /\ sub.todo = << >>
AllThere ==
    sub.pc = "backlog" \/ 0 \in Range(conn) \/ cli = "returned" =>
      Asked \subseteq Range(printed) \cup Range(conn) \cup Range(sub.todo)
                        \cup sub.cut

LEMMA DrainParts == DrainWhole <=> req.follow \/ (EndIsLast /\ AllThere)
<1>1. AllThere <=>
        (sub.pc = "backlog" \/ 0 \in Range(conn) \/ cli = "returned" =>
           \A m \in inbox \cap sub.before :
             Passes(m, sub.want) /\ arrived[m].ts > req.since =>
               m \in Range(printed) \cup Range(conn) \cup Range(sub.todo)
                        \cup sub.cut)
  BY DEF AllThere, Asked
<1> QED
  BY <1>1 DEF DrainWhole, EndIsLast

LEMMA DrainWholeStep ==
    ASSUME TypeOK, NothingEarly, DrainWhole, [Next]_vars
    PROVE  DrainWhole'
<1> USE DEF SameRx, SameBefore, SameBacklog, SameOutput, SameInbox
<1>0. /\ sub.todo \in Seq(Msgs) /\ conn \in Seq({0} \cup Msgs)
      /\ printed \in Seq(Msgs) /\ inbox \subseteq Msgs /\ sub.before \subseteq Msgs
      /\ Msgs \subseteq Nat \ {0}
  BY StateTypes
<1>a. req' = req
  BY Steps, ArriveEffect, PublishEffect, SetupEffect, QueryEffect, WriteEffect,
     ReadEffect DEF Setup, Write, Read, Still
<1>b. DrainWhole' <=> req'.follow \/ (EndIsLast' /\ AllThere')
  <2>1. AllThere' <=>
          (sub'.pc = "backlog" \/ 0 \in Range(conn') \/ cli' = "returned" =>
             \A m \in inbox' \cap sub'.before :
               Passes(m, sub.want)' /\ arrived'[m].ts > req'.since =>
                 m \in Range(printed') \cup Range(conn') \cup Range(sub'.todo)
                          \cup sub'.cut)
    BY DEF AllThere, Asked
  <2> QED
    BY <2>1 DEF DrainWhole, EndIsLast
<1> SUFFICES ASSUME ~req.follow
             PROVE  EndIsLast' /\ AllThere'
  BY <1>a, <1>b
<1>c. EndIsLast /\ AllThere
  BY DrainParts
<1>d. sub.pc \in Early => 0 \notin Range(conn) /\ conn = << >> /\ sub.todo = << >>
  BY EmptyRange DEF NothingEarly
<1>e. ASSUME SameInbox, SameBefore, sub'.want = sub.want
      PROVE  Asked' = Asked
  BY <1>e DEF Asked, Passes
<1>1. ASSUME NEW x \in Msg, Arrive(x)
      PROVE  EndIsLast' /\ AllThere'
  <2>1. PICK n : /\ n \notin Msgs /\ \A m \in Msgs : arrived'[m] = arrived[m]
                 /\ inbox' = inbox \/ inbox' = inbox \cup {n}
                 /\ UNCHANGED <<req, sub, conn, cli, printed>>
    BY <1>1, ArriveEffect
  <2>2. Asked' = Asked
    BY <1>0, <2>1 DEF Asked, Passes
  <2> QED
    BY <1>c, <2>1, <2>2 DEF EndIsLast, AllThere
<1>2. ASSUME NEW m \in pub, Publish(m)
      PROVE  EndIsLast' /\ AllThere'
  <2>1. /\ SameInbox /\ SameOutput /\ SameBefore /\ SameBacklog
        /\ sub'.pc = sub.pc /\ sub'.want = sub.want
    BY <1>2, PublishEffect
  <2>2. Asked' = Asked
    BY <1>e, <2>1
  <2> QED
    BY <1>c, <2>1, <2>2 DEF EndIsLast, AllThere
<1>3. CASE Setup
  <2>1. /\ SameInbox /\ SameBacklog /\ UNCHANGED <<conn, printed>>
        /\ \/ cli = "off" /\ cli' = "reading" /\ sub'.pc = "resolve"
           \/ sub.pc = "resolve" /\ sub'.pc = "subscribe" /\ cli' = cli
           \/ sub.pc = "subscribe" /\ sub'.pc = "query" /\ cli' = cli
           \/ /\ sub.pc \in {"query", "backlog", "tail"} /\ sub'.pc = "ended"
              /\ cli' = cli /\ SameBefore /\ sub'.want = sub.want
    BY <1>3, SetupEffect DEF Setup
  <2>2. CASE sub'.pc = "ended" /\ cli' = cli /\ SameBefore /\ sub'.want = sub.want
    <3>1. Asked' = Asked
      BY <1>e, <2>1, <2>2
    <3> QED
      BY <1>c, <2>1, <2>2, <3>1 DEF EndIsLast, AllThere, Early
  <2>3. CASE /\ sub.pc \in Early /\ sub'.pc \in {"resolve", "subscribe", "query"}
             /\ cli' \in {cli, "reading"}
    BY <1>c, <1>d, <2>1, <2>3 DEF EndIsLast, AllThere, Early
  <2>4. cli = "off" => sub.pc = "off"
    BY DEF NothingEarly
  <2> QED
    BY <2>1, <2>2, <2>3, <2>4 DEF Early
<1>4. CASE Query
  <2>1. /\ SameInbox /\ SameOutput /\ SameBefore /\ sub'.want = sub.want
        /\ sub.pc = "query" /\ sub'.pc = "backlog"
        /\ Range(sub'.todo) \cup sub'.cut = Rows
    BY <1>4, QueryEffect
  <2>2. Asked' = Asked
    BY <1>e, <2>1
  <2>3. Asked \subseteq Rows
    BY DEF Asked, Rows
  <2>4. cli # "returned" /\ 0 \notin Range(conn) /\ conn = << >>
    BY <1>c, <1>d, <2>1 DEF EndIsLast, Early
  <2> QED
    BY <2>1, <2>2, <2>3, <2>4 DEF EndIsLast, AllThere
<1>5. CASE Write
  <2>1. /\ SameInbox /\ SameBefore /\ UNCHANGED <<cli, printed>>
        /\ sub'.want = sub.want /\ sub'.cut = sub.cut
    BY <1>5, WriteEffect DEF Write
  <2>2. Asked' = Asked
    BY <1>e, <2>1
  <2>3. CASE WriteRow
    <3> DEFINE x == Head(sub.todo)
    <3>1. /\ sub.todo # << >> /\ sub'.todo = Tail(sub.todo) /\ cli = "reading"
          /\ conn' = Append(conn, x) /\ sub.pc = "backlog" /\ sub'.pc = "backlog"
      BY <2>3, WriteEffect DEF WriteRow, BacklogEnd, TailEvent
    <3>2. x \in Msgs /\ Range(sub.todo) = {x} \cup Range(sub'.todo)
      BY <1>0, <3>1, TailSeq
    <3> HIDE DEF x
    <3>3. Range(conn') = Range(conn) \cup {x}
      BY <1>0, <3>1, <3>2, AppendSeq
    <3>4. 0 \notin Range(conn')
      BY <1>0, <1>c, <3>1, <3>2, <3>3 DEF EndIsLast
    <3>5. \A i \in DOMAIN conn' : conn'[i] # 0
      BY <3>4 DEF Range
    <3> QED
      BY <1>c, <2>1, <2>2, <3>1, <3>2, <3>3, <3>4, <3>5 DEF EndIsLast, AllThere
  <2>4. CASE BacklogEnd
    <3>1. /\ sub.todo = << >> /\ sub'.todo = << >> /\ cli = "reading"
          /\ conn' = Append(conn, 0) /\ sub.pc = "backlog" /\ sub'.pc = "ended"
      BY <2>4, WriteEffect DEF WriteRow, BacklogEnd, TailEvent
    <3>2. /\ Range(conn') = Range(conn) \cup {0} /\ Len(conn') = Len(conn) + 1
          /\ DOMAIN conn' = DOMAIN conn \cup {Len(conn) + 1}
          /\ \A i \in DOMAIN conn : conn'[i] = conn[i]
      BY <1>0, <3>1, AppendSeq
    <3>3. \A i \in DOMAIN conn : conn[i] # 0
      BY <1>c, <3>1 DEF EndIsLast, Range
    <3>4. \A i \in DOMAIN conn' : conn'[i] = 0 => i = Len(conn')
      BY <3>2, <3>3
    <3> QED
      BY <1>c, <2>1, <2>2, <3>1, <3>2, <3>4 DEF EndIsLast, AllThere, Early
  <2>5. CASE TailEvent
    BY <1>c, <2>5 DEF TailEvent, EndIsLast
  <2> QED
    BY <1>5, <2>3, <2>4, <2>5 DEF Write
<1>6. CASE Read
  <2> DEFINE x == Head(conn)
  <2>1. /\ SameInbox /\ sub' = sub /\ conn # << >> /\ conn' = Tail(conn)
        /\ cli = "reading"
        /\ \/ x # 0 /\ printed' = Append(printed, x) /\ cli' = cli
           \/ x = 0 /\ printed' = printed /\ cli' = "returned"
    BY <1>6, ReadEffect DEF Read
  <2>2. /\ x \in {0} \cup Msgs /\ Range(conn) = {x} \cup Range(conn')
        /\ x = conn[1] /\ 1 \in DOMAIN conn
        /\ Len(conn') = Len(conn) - 1 /\ Len(conn) \in Nat \ {0}
        /\ DOMAIN conn' = 1 .. Len(conn) - 1 /\ conn' \in Seq({0} \cup Msgs)
        /\ \A i \in DOMAIN conn' : i + 1 \in DOMAIN conn /\ conn'[i] = conn[i + 1]
    BY <1>0, <2>1, TailSeq
  <2> HIDE DEF x
  <2>3. Asked' = Asked
    BY <1>e, <2>1
  <2>4. CASE x # 0 /\ printed' = Append(printed, x) /\ cli' = cli
    <3>1. Range(printed') = Range(printed) \cup {x}
      BY <1>0, <2>2, <2>4, AppendSeq
    <3>2. ASSUME NEW i \in DOMAIN conn', conn'[i] = 0
          PROVE  i = Len(conn')
      <4>1. i + 1 = Len(conn)
        BY <1>c, <2>2, <3>2 DEF EndIsLast
      <4> QED
        BY <2>2, <4>1
    <3>3. EndIsLast'
      BY <1>c, <2>1, <2>2, <2>4, <3>2 DEF EndIsLast
    <3>4. AllThere'
      BY <1>c, <2>1, <2>2, <2>3, <2>4, <3>1 DEF AllThere
    <3> QED
      BY <3>3, <3>4
  <2>5. CASE x = 0 /\ printed' = printed /\ cli' = "returned"
    <3>1. Len(conn) = 1
      BY <1>c, <2>2, <2>5 DEF EndIsLast
    <3>2. conn' = << >> /\ Range(conn') = {}
      BY <2>2, <3>1, EmptyRange
    <3>3. 0 \in Range(conn) /\ sub.todo = << >> /\ sub.pc \notin Early \cup {"backlog"}
      BY <1>c, <2>2, <2>5 DEF EndIsLast
    <3>4. Asked \subseteq Range(printed) \cup Range(sub.todo) \cup sub.cut
      <4>1. Asked \subseteq Range(printed) \cup Range(conn) \cup Range(sub.todo)
                               \cup sub.cut
        BY <1>c, <3>3 DEF AllThere
      <4>2. Range(conn) = {0} /\ 0 \notin Asked
        BY <1>0, <2>2, <2>5, <3>2 DEF Asked
      <4> QED
        BY <4>1, <4>2
    <3> QED
      BY <1>c, <2>1, <2>3, <2>5, <3>2, <3>3, <3>4 DEF EndIsLast, AllThere
  <2> QED
    BY <2>1, <2>4, <2>5
<1>7. CASE Still
  <2>1. Asked' = Asked
    BY <1>7, <1>e DEF Still
  <2> QED
    BY <1>7, <1>c, <2>1 DEF Still, EndIsLast, AllThere
<1> QED
  BY <1>1, <1>2, <1>3, <1>4, <1>5, <1>6, <1>7, Steps

-----------------------------------------------------------------------------
(* The inductive invariant, and what it is for.                            *)

LEMMA SubInit == Init => TypeOK /\ SubInv
<1> SUFFICES ASSUME Init PROVE TypeOK /\ SubInv
  OBVIOUS
<1>1. /\ arrived = << >> /\ inbox = {} /\ pub = {} /\ req \in Requests
      /\ sub = [pc |-> "off", want |-> Any, todo |-> << >>, rx |-> << >>,
                lagged |-> FALSE, before |-> {}, cut |-> {}]
      /\ conn = << >> /\ cli = "off" /\ printed = << >> /\ faults = 0
  BY DEF Init
<1>2. Msgs = {}
  BY <1>1 DEF Msgs
<1>3. TypeOK
  <2>1. /\ << >> \in Seq(Msgs) /\ << >> \in Seq(Msg) /\ << >> \in Seq({0} \cup Msgs)
        /\ 0 \in 0 .. MaxFaults
    BY SubscriptionAssumption
  <2> QED
    BY <1>1, <2>1 DEF TypeOK, SubPC
<1>4. Range(printed) = {} /\ Range(conn) = {} /\ Range(sub.todo) = {}
      /\ Range(sub.rx) = {} /\ sub.cut = {} /\ sub.pc = "off"
  BY <1>1, EmptyRange
<1>5. NothingEarly /\ SeamOpen /\ SeamComplete
  BY <1>1 DEF NothingEarly, SeamOpen, SeamComplete, Early
<1>6. BroadcastOnce
  BY <1>1, <1>4 DEF BroadcastOnce
<1>7. ShownOnce /\ OneDuplicate
  BY <1>2 DEF ShownOnce, OneDuplicate
<1>8. DrainInOrder
  BY <1>1, <1>4 DEF DrainInOrder, Ascending, Below
<1>9. DrainWhole
  BY <1>1, <1>4 DEF DrainWhole
<1> QED
  BY <1>3, <1>5, <1>6, <1>7, <1>8, <1>9 DEF SubInv

LEMMA SubStep == TypeOK /\ SubInv /\ [Next]_vars => TypeOK' /\ SubInv'
  BY TypeStep, EarlyStep, OpenStep, SeamStep, OnceStep, ShownStep, DrainOrderStep,
     DrainWholeStep DEF SubInv

LEMMA SubInvariant == Spec => [](TypeOK /\ SubInv)
  BY SubInit, SubStep, PTL DEF Spec

\* Every variable keeps its type: what the handler holds, the socket carries and
\* the command has printed are messages that have arrived.
THEOREM SubscriptionTypes == Spec => []TypeOK
  BY SubInvariant, PTL

\* RecvSubscribe subscribes to the broadcast before it queries the inbox, so no
\* stored message that the request asks for falls between the two, whatever the
\* order in which inbound streams store and publish.
THEOREM SubscriptionHasNoGap == Spec => []SeamComplete
<1>1. SubInv => SeamComplete
  BY DEF SubInv
<1> QED
  BY <1>1, SubInvariant, PTL

\* The comment in RecvSubscribe: a message is shown twice at worst, and once if
\* it was on the broadcast before the handler subscribed.
THEOREM ShownTwiceAtWorst == Spec => []OneDuplicate
<1>1. SubInv => OneDuplicate
  BY DEF SubInv
<1> QED
  BY <1>1, SubInvariant, PTL

\* cmd_recv without -f prints the stored messages it was asked for in the order
\* of their time stamps and all of them, up to the limit of inbox_backlog.
THEOREM RecvDrainsTheInbox == Spec => []Drained
<1>1. TypeOK /\ SubInv => Drained
  <2> SUFFICES ASSUME TypeOK, SubInv, ~req.follow, cli = "returned"
               PROVE  /\ \A i, j \in DOMAIN printed :
                           i < j => arrived[printed[i]].ts <= arrived[printed[j]].ts
                      /\ \A m \in inbox \cap sub.before :
                           Passes(m, sub.want) /\ arrived[m].ts > req.since =>
                             m \in Range(printed) \cup sub.cut
                      /\ \A m \in Range(printed), c \in sub.cut :
                           arrived[m].ts <= arrived[c].ts
    BY DEF Drained
  <2>1. InOrder(printed, conn, sub.todo, sub.cut) /\ EndIsLast /\ AllThere
    BY DrainParts DEF SubInv, DrainInOrder, InOrder
  <2>2. Range(conn) = {} /\ Range(sub.todo) = {}
    BY <2>1, EmptyRange DEF EndIsLast
  <2>3. /\ Range(printed) \subseteq Msgs /\ sub.cut \subseteq Msgs
        /\ Msgs \subseteq Nat \ {0}
    BY StateTypes
  <2>4. ASSUME NEW i \in DOMAIN printed, NEW j \in DOMAIN printed, i < j
        PROVE  arrived[printed[i]].ts <= arrived[printed[j]].ts
    <3>1. Below({printed[i]}, {printed[j]})
      BY <2>1, <2>4 DEF InOrder, Ascending
    <3>2. printed[i] # 0 /\ printed[j] # 0
      BY <2>3 DEF Range
    <3> QED
      BY <3>1, <3>2 DEF Below
  <2>5. Asked \subseteq Range(printed) \cup sub.cut
    BY <2>1, <2>2 DEF AllThere
  <2>6. \A m \in Range(printed), c \in sub.cut : arrived[m].ts <= arrived[c].ts
    BY <2>1, <2>3 DEF InOrder, Below
  <2> QED
    BY <2>4, <2>5, <2>6 DEF Asked
<1> QED
  BY <1>1, SubInvariant, PTL
=============================================================================
