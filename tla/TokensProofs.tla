---------------------------- MODULE TokensProofs ----------------------------
(***************************************************************************)
(* Theorems about Tokens, for any number of installs and tokens.           *)
(***************************************************************************)
EXTENDS Tokens, TLAPS

-----------------------------------------------------------------------------
(* The table of one install.                                               *)

\* token_insert adds the row, or resets it, and leaves all others alone.
LEMMA InsertRow ==
    ASSUME TypeOK, NEW n \in Nodes, NEW i, Insert(n, i)
    PROVE  /\ DOMAIN tokens' = Nodes
           /\ DOMAIN tokens'[n] = DOMAIN tokens[n] \cup {i}
           /\ tokens'[n][i] = FALSE
           /\ \A j \in DOMAIN tokens[n] : j # i => tokens'[n][j] = tokens[n][j]
           /\ \A m \in Nodes : m # n => tokens'[m] = tokens[m]
  BY DEF Insert, TypeOK

\* What token_revoke makes of the table.
LEMMA RevokeRow ==
    ASSUME TypeOK, NEW n \in Nodes, NEW i \in Ids, TokenRevoke(n, i)
    PROVE  /\ i \in DOMAIN tokens[n]
           /\ DOMAIN tokens' = Nodes
           /\ DOMAIN tokens'[n] = DOMAIN tokens[n]
           /\ tokens'[n][i] = TRUE
           /\ \A j \in DOMAIN tokens[n] : j # i => tokens'[n][j] = tokens[n][j]
           /\ \A m \in Nodes : m # n => tokens'[m] = tokens[m]
  BY DEF TokenRevoke, TypeOK

\* Either way the table has Boolean rows, and at most one new one.
LEMMA RowsTyped ==
    ASSUME TypeOK, NEW n \in Nodes, NEW i,
           DOMAIN tokens'[n] \subseteq DOMAIN tokens[n] \cup {i},
           tokens'[n][i] \in BOOLEAN,
           \A j \in DOMAIN tokens[n] : j # i => tokens'[n][j] = tokens[n][j],
           \A m \in Nodes : m # n => tokens'[m] = tokens[m],
           NEW k \in Nodes
    PROVE  /\ DOMAIN tokens'[k] \subseteq DOMAIN tokens[k] \cup {i}
           /\ \A j \in DOMAIN tokens'[k] : tokens'[k][j] \in BOOLEAN
<1>1. \A j \in DOMAIN tokens[k] : tokens[k][j] \in BOOLEAN
  BY DEF TypeOK
<1>2. CASE k = n
  <2>1. ASSUME NEW j \in DOMAIN tokens'[n] PROVE tokens'[n][j] \in BOOLEAN
    <3>1. CASE j = i
      BY <3>1, Zenon
    <3>2. CASE j # i
      <4>1. j \in DOMAIN tokens[n] /\ tokens'[n][j] = tokens[n][j]
        BY <2>1, <3>2
      <4> QED
        BY <1>1, <1>2, <4>1, Zenon
    <3> QED
      BY <3>1, <3>2
  <2> QED
    BY <1>2, <2>1, Zenon
<1>3. CASE k # n
  <2>1. tokens'[k] = tokens[k]
    BY <1>3
  <2> QED
    BY <1>1, <2>1, Zenon
<1> QED
  BY <1>2, <1>3

\* sign_token: the lifetime saturates, so the sum stays in the word.
LEMMA SumInWord ==
    ASSUME NEW a \in Nat, NEW b \in Nat
    PROVE  SaturatingAdd(a, b) \in Nat /\ SaturatingAdd(a, b) < Word
  BY TokensAssumption DEF SaturatingAdd

\* The cast to i64 is the identity or makes the value negative.
LEMMA CastInWord ==
    ASSUME NEW y \in Nat, y < Word
    PROVE  Signed(y) \in Int /\ (Signed(y) >= 0 => Signed(y) = y)
  BY TokensAssumption DEF Signed

\* What TokenGrant adds to the signed texts.
LEMMA GrantClaims ==
    ASSUME TypeOK, NEW n \in Nodes, NEW m \in Nodes, NEW t \in Terms,
           TokenGrant(n, m, t)
    PROVE  \E i \in Ids \ DOMAIN issued :
             /\ DOMAIN issued' = DOMAIN issued \cup {i}
             /\ issued'[i] \in Claims
             /\ issued'[i].exp < Word
             /\ issued'[i].iss = n
             /\ \A j \in DOMAIN issued : issued'[j] = issued[j]
             /\ Insert(n, i)
<1>1. PICK i \in Ids \ DOMAIN issued :
        /\ issued' = [j \in DOMAIN issued \cup {i} |->
                        IF j = i THEN [iss |-> n, sub |-> m,
                                       exp |-> SaturatingAdd(clock[n], t.ttl),
                                       caps |-> t.caps]
                        ELSE issued[j]]
        /\ Insert(n, i)
  BY DEF TokenGrant
<1>2. clock[n] \in Nat /\ t.ttl \in Nat /\ t.caps \in SUBSET {"msg"}
  BY TokensAssumption DEF TypeOK
<1>3. /\ SaturatingAdd(clock[n], t.ttl) \in Nat
      /\ SaturatingAdd(clock[n], t.ttl) < Word
  BY <1>2, SumInWord
<1>4. issued'[i] = [iss |-> n, sub |-> m,
                    exp |-> SaturatingAdd(clock[n], t.ttl), caps |-> t.caps]
  BY <1>1
<1>5. issued'[i] \in Claims /\ issued'[i].exp < Word /\ issued'[i].iss = n
  BY <1>2, <1>3, <1>4 DEF Claims
<1> QED
  BY <1>1, <1>5

-----------------------------------------------------------------------------
(* The initial state and the type invariant.                               *)

LEMMA TokensInitial == Init => TokensInv
<1> SUFFICES ASSUME Init PROVE TokensInv
  OBVIOUS
<1>1. TypeOK
  BY DEF Init, TypeOK, Empty
<1>2. RevocationSticks /\ Dialled /\ Sound /\ OwnRevocation
  BY DEF Init, RevocationSticks, Dialled, Sound, OwnRevocation
<1>3. ClocksTogether
  BY TokensAssumption DEF Init, ClocksTogether
<1> QED
  BY <1>1, <1>2, <1>3 DEF TokensInv

LEMMA TokensTypeStep ==
    ASSUME TypeOK, [Next]_vars
    PROVE  TypeOK'
<1> USE DEF tables, dialled
<1>1. ASSUME NEW n \in Nodes, Commands(n)
      PROVE  TypeOK'
  <2>1. ASSUME NEW m \in Nodes, PeerAdd(n, m) PROVE TypeOK'
    BY <2>1 DEF PeerAdd, TypeOK
  <2>2. ASSUME NEW m \in Nodes, PeerRm(n, m) PROVE TypeOK'
    BY <2>2 DEF PeerRm, TypeOK
  <2>3. ASSUME NEW m \in Nodes, Present(n, m) PROVE TypeOK'
    BY <2>3 DEF Present, Usable, TypeOK
  <2>4. ASSUME NEW m \in Nodes, NEW t \in Terms, TokenGrant(n, m, t)
        PROVE  TypeOK'
    <3>1. PICK i \in Ids \ DOMAIN issued :
            /\ DOMAIN issued' = DOMAIN issued \cup {i}
            /\ issued'[i] \in Claims
            /\ \A j \in DOMAIN issued : issued'[j] = issued[j]
            /\ Insert(n, i)
      BY <2>4, GrantClaims
    <3>2. /\ DOMAIN issued' \subseteq Ids
          /\ \A j \in DOMAIN issued' : issued'[j] \in Claims
      BY <3>1 DEF TypeOK
    <3>3. /\ DOMAIN tokens' = Nodes
          /\ \A k \in Nodes :
               /\ DOMAIN tokens'[k] \subseteq DOMAIN issued'
               /\ \A j \in DOMAIN tokens'[k] : tokens'[k][j] \in BOOLEAN
      <4>1. DOMAIN tokens' = Nodes
        BY <3>1, InsertRow
      <4>2. ASSUME NEW k \in Nodes
            PROVE  /\ DOMAIN tokens'[k] \subseteq DOMAIN issued'
                   /\ \A j \in DOMAIN tokens'[k] : tokens'[k][j] \in BOOLEAN
        <5>0. /\ DOMAIN tokens'[n] \subseteq DOMAIN tokens[n] \cup {i}
              /\ tokens'[n][i] \in BOOLEAN
              /\ \A j \in DOMAIN tokens[n] : j # i => tokens'[n][j] = tokens[n][j]
              /\ \A q \in Nodes : q # n => tokens'[q] = tokens[q]
          <6>1. Insert(n, i)
            BY <3>1
          <6>2. /\ DOMAIN tokens'[n] = DOMAIN tokens[n] \cup {i}
                /\ tokens'[n][i] = FALSE
                /\ \A j \in DOMAIN tokens[n] : j # i => tokens'[n][j] = tokens[n][j]
                /\ \A q \in Nodes : q # n => tokens'[q] = tokens[q]
            BY <6>1, InsertRow, Zenon
          <6> QED
            BY <6>2
        <5>1. /\ DOMAIN tokens'[k] \subseteq DOMAIN tokens[k] \cup {i}
              /\ \A j \in DOMAIN tokens'[k] : tokens'[k][j] \in BOOLEAN
          BY <5>0, RowsTyped
        <5>2. DOMAIN tokens[k] \subseteq DOMAIN issued
          BY DEF TypeOK
        <5> QED
          BY <3>1, <5>1, <5>2
      <4> QED
        BY <4>1, <4>2
    <3> QED
      BY <2>4, <3>1, <3>2, <3>3 DEF TokenGrant, TypeOK
  <2>5. ASSUME NEW i \in Ids, TokenImport(n, i) PROVE TypeOK'
    <3>1. i \in DOMAIN issued /\ Insert(n, i)
      BY <2>5 DEF TokenImport
    <3>2. DOMAIN tokens' = Nodes
      BY <3>1, InsertRow
    <3>3. ASSUME NEW k \in Nodes
          PROVE  /\ DOMAIN tokens'[k] \subseteq DOMAIN issued
                 /\ \A j \in DOMAIN tokens'[k] : tokens'[k][j] \in BOOLEAN
      <4>0. /\ DOMAIN tokens'[n] \subseteq DOMAIN tokens[n] \cup {i}
            /\ tokens'[n][i] \in BOOLEAN
            /\ \A j \in DOMAIN tokens[n] : j # i => tokens'[n][j] = tokens[n][j]
            /\ \A q \in Nodes : q # n => tokens'[q] = tokens[q]
        BY <3>1, InsertRow
      <4>1. /\ DOMAIN tokens'[k] \subseteq DOMAIN tokens[k] \cup {i}
            /\ \A j \in DOMAIN tokens'[k] : tokens'[k][j] \in BOOLEAN
        BY <4>0, RowsTyped
      <4>2. DOMAIN tokens[k] \subseteq DOMAIN issued
        BY DEF TypeOK
      <4> QED
        BY <3>1, <4>1, <4>2
    <3> QED
      BY <2>5, <3>2, <3>3 DEF TokenImport, TypeOK
  <2>6. ASSUME NEW i \in Ids, TokenRevoke(n, i) PROVE TypeOK'
    <3>1. DOMAIN tokens' = Nodes /\ i \in DOMAIN issued
      BY <2>6, RevokeRow DEF TypeOK
    <3>2. ASSUME NEW k \in Nodes
          PROVE  /\ DOMAIN tokens'[k] \subseteq DOMAIN issued
                 /\ \A j \in DOMAIN tokens'[k] : tokens'[k][j] \in BOOLEAN
      <4>0. /\ DOMAIN tokens'[n] \subseteq DOMAIN tokens[n] \cup {i}
            /\ tokens'[n][i] \in BOOLEAN
            /\ \A j \in DOMAIN tokens[n] : j # i => tokens'[n][j] = tokens[n][j]
            /\ \A q \in Nodes : q # n => tokens'[q] = tokens[q]
        BY <2>6, RevokeRow
      <4>1. /\ DOMAIN tokens'[k] \subseteq DOMAIN tokens[k] \cup {i}
            /\ \A j \in DOMAIN tokens'[k] : tokens'[k][j] \in BOOLEAN
        BY <4>0, RowsTyped
      <4>2. DOMAIN tokens[k] \subseteq DOMAIN issued
        BY DEF TypeOK
      <4> QED
        BY <3>1, <4>1, <4>2
    <3> QED
      BY <2>6, <3>1, <3>2 DEF TokenRevoke, TypeOK
  <2>7. CASE Tick(n)
    BY <2>7 DEF Tick, TypeOK
  <2> QED
    BY <1>1, <2>1, <2>2, <2>3, <2>4, <2>5, <2>6, <2>7 DEF Commands
<1>2. ASSUME NEW i \in Ids, Admit(i) PROVE TypeOK'
  BY <1>2 DEF Admit, TypeOK
<1>3. ASSUME NEW i \in Ids, Accept(i) PROVE TypeOK'
  BY <1>3 DEF Accept, TypeOK
<1>4. ASSUME NEW i \in Ids, Refuse(i) PROVE TypeOK'
  BY <1>4 DEF Refuse, TypeOK
<1>5. ASSUME NEW i \in Ids, Lose(i) PROVE TypeOK'
  BY <1>5 DEF Lose, TypeOK
<1>6. CASE UNCHANGED vars
  BY <1>6 DEF vars, TypeOK
<1> QED
  BY <1>1, <1>2, <1>3, <1>4, <1>5, <1>6 DEF Next

-----------------------------------------------------------------------------
(* The steps of the inductive invariant.                                   *)

\* A step on a connection leaves tables and clocks alone; what it carries on
\* was offered before, or is what Present has just chosen.
LEMMA ConnectionStep ==
    ASSUME TokensInv, UNCHANGED tables,
           \A i \in offers' \cup admitted' :
             \/ i \in offers \cup admitted
             \/ issued[i].iss # issued[i].sub /\ Signed(issued[i].exp) >= 0
    PROVE  (RevocationSticks /\ Dialled /\ Sound /\ OwnRevocation
              /\ ClocksTogether)'
<1> USE DEF tables
<1>1. RevocationSticks'
  BY DEF TokensInv, RevocationSticks
<1>2. Dialled'
  BY DEF TokensInv, Dialled
<1>3. Sound'
  BY DEF TokensInv, Sound, Signed
<1>4. OwnRevocation'
  BY DEF TokensInv, OwnRevocation, Revoked
<1>5. ClocksTogether'
  BY DEF TokensInv, ClocksTogether
<1> QED
  BY <1>1, <1>2, <1>3, <1>4, <1>5

\* Present offers a token that is usable now, to somebody else.
LEMMA PresentStep ==
    ASSUME TokensInv, NEW n \in Nodes, NEW m \in Nodes, Present(n, m)
    PROVE  (RevocationSticks /\ Dialled /\ Sound /\ OwnRevocation
              /\ ClocksTogether)'
<1>1. PICK i \in Usable(n, m) : offers' = offers \cup {i}
  BY DEF Present, Connects
<1>2. issued[i].iss # issued[i].sub /\ Signed(issued[i].exp) > clock[n]
  BY <1>1 DEF Present, Connects, Usable
<1>3. i \in DOMAIN issued /\ issued[i] \in Claims /\ clock[n] \in Nat
  BY <1>1 DEF Usable, TokensInv, TypeOK
<1>4. Signed(issued[i].exp) \in Int
  BY <1>3, CastInWord DEF TokensInv, Sound, Claims
<1>5. Signed(issued[i].exp) >= 0
  BY <1>2, <1>3, <1>4
<1> QED
  BY <1>1, <1>2, <1>5, ConnectionStep DEF Present, Connects

\* A fresh token is nobody's yet.
LEMMA GrantStep ==
    ASSUME TokensInv, NEW n \in Nodes, NEW m \in Nodes, NEW t \in Terms,
           TokenGrant(n, m, t)
    PROVE  (RevocationSticks /\ Dialled /\ Sound /\ OwnRevocation
              /\ ClocksTogether)'
<1> USE DEF dialled
<1>1. PICK i \in Ids \ DOMAIN issued :
        /\ DOMAIN issued' = DOMAIN issued \cup {i}
        /\ issued'[i] \in Claims
        /\ issued'[i].exp < Word
        /\ issued'[i].iss = n
        /\ \A j \in DOMAIN issued : issued'[j] = issued[j]
        /\ Insert(n, i)
  BY GrantClaims DEF TokensInv
<1>2. /\ DOMAIN tokens'[n] = DOMAIN tokens[n] \cup {i}
      /\ tokens'[n][i] = FALSE
      /\ \A j \in DOMAIN tokens[n] : j # i => tokens'[n][j] = tokens[n][j]
      /\ \A k \in Nodes : k # n => tokens'[k] = tokens[k]
  BY <1>1, InsertRow DEF TokensInv
<1>3. /\ withdrawn' = withdrawn /\ offers' = offers /\ admitted' = admitted
      /\ clock' = clock
      /\ withdrawn \subseteq DOMAIN issued
      /\ offers \cup admitted \subseteq DOMAIN issued
      /\ \A j \in DOMAIN issued : issued[j] \in Claims
  BY DEF TokenGrant, TokensInv, TypeOK
<1>4. RevocationSticks'
  <2> SUFFICES ASSUME NEW j \in withdrawn, issued[j].iss # issued[j].sub
               PROVE  /\ j \in DOMAIN tokens'[issued[j].iss]
                      /\ tokens'[issued[j].iss][j]
    BY <1>1, <1>3 DEF RevocationSticks
  <2>1. /\ j \in DOMAIN tokens[issued[j].iss] /\ tokens[issued[j].iss][j]
        /\ j # i /\ issued[j].iss \in Nodes
    BY <1>1, <1>3 DEF TokensInv, RevocationSticks, Claims
  <2> QED
    BY <1>2, <2>1
<1>5. Dialled'
  BY <1>1, <1>3 DEF TokensInv, Dialled
<1>6. Sound'
  BY <1>1, <1>3 DEF TokensInv, Sound, Signed
<1>7. OwnRevocation'
  <2> SUFFICES ASSUME NEW j \in DOMAIN issued', Revoked(j)'
               PROVE  j \in withdrawn
    BY <1>3 DEF OwnRevocation
  <2>1. j # i /\ j \in DOMAIN issued
    BY <1>1, <1>2 DEF Revoked
  <2>2. issued'[j] = issued[j] /\ issued[j].iss \in Nodes
    BY <1>1, <1>3, <2>1 DEF Claims
  <2>3. Revoked(j)
    BY <1>2, <2>1, <2>2 DEF Revoked
  <2> QED
    BY <2>1, <2>3 DEF TokensInv, OwnRevocation
<1>8. ClocksTogether'
  BY <1>3 DEF TokensInv, ClocksTogether
<1> QED
  BY <1>4, <1>5, <1>6, <1>7, <1>8

\* TokenImport resets a row of the token's subject, never of its issuer, if the
\* two are not the same.
LEMMA ImportStep ==
    ASSUME TokensInv, NEW n \in Nodes, NEW i \in Ids, TokenImport(n, i)
    PROVE  (RevocationSticks /\ Dialled /\ Sound /\ OwnRevocation
              /\ ClocksTogether)'
<1> USE DEF dialled
<1>1. i \in DOMAIN issued /\ issued[i].sub = n /\ Insert(n, i)
  BY DEF TokenImport
<1>2. /\ DOMAIN tokens'[n] = DOMAIN tokens[n] \cup {i}
      /\ tokens'[n][i] = FALSE
      /\ \A j \in DOMAIN tokens[n] : j # i => tokens'[n][j] = tokens[n][j]
      /\ \A k \in Nodes : k # n => tokens'[k] = tokens[k]
  BY <1>1, InsertRow DEF TokensInv
<1>3. /\ withdrawn' = withdrawn /\ offers' = offers /\ admitted' = admitted
      /\ clock' = clock /\ issued' = issued
      /\ withdrawn \subseteq DOMAIN issued
      /\ \A j \in DOMAIN issued : issued[j] \in Claims
  BY DEF TokenImport, TokensInv, TypeOK
<1>4. RevocationSticks'
  <2> SUFFICES ASSUME NEW j \in withdrawn, issued[j].iss # issued[j].sub
               PROVE  /\ j \in DOMAIN tokens'[issued[j].iss]
                      /\ tokens'[issued[j].iss][j]
    BY <1>3 DEF RevocationSticks
  <2>1. /\ j \in DOMAIN tokens[issued[j].iss] /\ tokens[issued[j].iss][j]
        /\ issued[j].iss \in Nodes
    BY <1>3 DEF TokensInv, RevocationSticks, Claims
  <2>2. issued[j].iss = n => j # i
    BY <1>1
  <2> QED
    BY <1>2, <2>1, <2>2
<1>5. Dialled' /\ ClocksTogether'
  BY <1>3 DEF TokensInv, Dialled, ClocksTogether
<1>6. Sound'
  BY <1>3 DEF TokensInv, Sound, Signed
<1>7. OwnRevocation'
  <2> SUFFICES ASSUME NEW j \in DOMAIN issued, Revoked(j)'
               PROVE  j \in withdrawn
    BY <1>3 DEF OwnRevocation
  <2>1. issued[j].iss \in Nodes
    BY <1>3 DEF Claims
  <2>2. issued[j].iss = n => j # i
    BY <1>2, <1>3 DEF Revoked
  <2>3. Revoked(j)
    BY <1>2, <1>3, <2>1, <2>2 DEF Revoked
  <2> QED
    BY <2>3 DEF TokensInv, OwnRevocation
<1> QED
  BY <1>4, <1>5, <1>6, <1>7

\* TokenRevoke sets the mark, and it is a withdrawal if it is the issuer's.
LEMMA RevokeStep ==
    ASSUME TokensInv, NEW n \in Nodes, NEW i \in Ids, TokenRevoke(n, i)
    PROVE  (RevocationSticks /\ Dialled /\ Sound /\ OwnRevocation
              /\ ClocksTogether)'
<1> USE DEF dialled
<1>2. /\ i \in DOMAIN tokens[n]
      /\ DOMAIN tokens'[n] = DOMAIN tokens[n]
      /\ tokens'[n][i] = TRUE
      /\ \A j \in DOMAIN tokens[n] : j # i => tokens'[n][j] = tokens[n][j]
      /\ \A k \in Nodes : k # n => tokens'[k] = tokens[k]
  BY RevokeRow DEF TokensInv
<1>3. /\ withdrawn' = IF issued[i].iss = n THEN withdrawn \cup {i}
                      ELSE withdrawn
      /\ offers' = offers /\ admitted' = admitted
      /\ clock' = clock /\ issued' = issued
      /\ withdrawn \subseteq DOMAIN issued /\ i \in DOMAIN issued
      /\ \A j \in DOMAIN issued : issued[j] \in Claims
  BY <1>2 DEF TokenRevoke, TokensInv, TypeOK
<1>4. RevocationSticks'
  <2> SUFFICES ASSUME NEW j \in withdrawn', issued[j].iss # issued[j].sub
               PROVE  /\ j \in DOMAIN tokens'[issued[j].iss]
                      /\ tokens'[issued[j].iss][j]
    BY <1>3 DEF RevocationSticks
  <2>1. CASE j = i /\ issued[i].iss = n
    BY <1>2, <2>1
  <2>2. CASE j \in withdrawn /\ ~(j = i /\ issued[i].iss = n)
    <3>1. /\ j \in DOMAIN tokens[issued[j].iss] /\ tokens[issued[j].iss][j]
          /\ issued[j].iss \in Nodes
      BY <1>3, <2>2 DEF TokensInv, RevocationSticks, Claims
    <3> QED
      BY <1>2, <2>2, <3>1
  <2> QED
    BY <1>3, <2>1, <2>2
<1>5. Dialled' /\ ClocksTogether'
  BY <1>3 DEF TokensInv, Dialled, ClocksTogether
<1>6. Sound'
  BY <1>3 DEF TokensInv, Sound, Signed
<1>7. OwnRevocation'
  <2> SUFFICES ASSUME NEW j \in DOMAIN issued, Revoked(j)'
               PROVE  j \in withdrawn'
    BY <1>3 DEF OwnRevocation
  <2>1. issued[j].iss \in Nodes
    BY <1>3 DEF Claims
  <2>2. CASE j = i /\ issued[i].iss = n
    BY <1>3, <2>2
  <2>3. CASE ~(j = i /\ issued[i].iss = n)
    <3>1. Revoked(j)
      BY <1>2, <1>3, <2>1, <2>3 DEF Revoked
    <3> QED
      BY <1>3, <3>1 DEF TokensInv, OwnRevocation
  <2> QED
    BY <2>2, <2>3
<1> QED
  BY <1>4, <1>5, <1>6, <1>7

\* A clock that moves on stays within the tolerance of every other.
LEMMA TickStep ==
    ASSUME TokensInv, NEW n \in Nodes, Tick(n)
    PROVE  (RevocationSticks /\ Dialled /\ Sound /\ OwnRevocation
              /\ ClocksTogether)'
<1> USE DEF dialled
<1>1. RevocationSticks'
  BY DEF Tick, TokensInv, RevocationSticks
<1>2. Dialled'
  BY DEF Tick, TokensInv, Dialled
<1>3. Sound'
  BY DEF Tick, TokensInv, Sound, Signed
<1>4. OwnRevocation'
  BY DEF Tick, TokensInv, OwnRevocation, Revoked
<1>5. ClocksTogether'
  <2>1. clock \in [Nodes -> Nat]
    BY DEF TokensInv, TypeOK
  <2>2. ASSUME NEW k \in Nodes, NEW m \in Nodes
        PROVE  clock'[k] - clock'[m] <= Skew
    BY <2>1, TokensAssumption DEF Tick, TokensInv, ClocksTogether
  <2> QED
    BY <2>2 DEF ClocksTogether
<1> QED
  BY <1>1, <1>2, <1>3, <1>4, <1>5

LEMMA TokensStep ==
    ASSUME TokensInv, [Next]_vars
    PROVE  TokensInv'
<1> DEFINE Rest == /\ RevocationSticks /\ Dialled /\ Sound /\ OwnRevocation
                   /\ ClocksTogether
<1>1. TypeOK'
  BY TokensTypeStep DEF TokensInv
<1>2. ASSUME NEW n \in Nodes, Commands(n) PROVE Rest'
  <2>1. ASSUME NEW m \in Nodes, PeerAdd(n, m) \/ PeerRm(n, m) PROVE Rest'
    <3>1. UNCHANGED <<issued, tokens, clock, withdrawn, offers, admitted>>
      BY <2>1 DEF PeerAdd, PeerRm, dialled
    <3>2. RevocationSticks' /\ Dialled' /\ ClocksTogether'
      BY <3>1 DEF TokensInv, RevocationSticks, Dialled, ClocksTogether
    <3>3. Sound'
      BY <3>1 DEF TokensInv, Sound, Signed
    <3>4. OwnRevocation'
      BY <3>1 DEF TokensInv, OwnRevocation, Revoked
    <3> QED
      BY <3>2, <3>3, <3>4
  <2>2. ASSUME NEW m \in Nodes, Present(n, m) PROVE Rest'
    BY <2>2, PresentStep
  <2>3. ASSUME NEW m \in Nodes, NEW t \in Terms, TokenGrant(n, m, t)
        PROVE  Rest'
    BY <2>3, GrantStep
  <2>4. ASSUME NEW i \in Ids, TokenImport(n, i) PROVE Rest'
    BY <2>4, ImportStep
  <2>5. ASSUME NEW i \in Ids, TokenRevoke(n, i) PROVE Rest'
    BY <2>5, RevokeStep
  <2>6. CASE Tick(n)
    BY <2>6, TickStep
  <2> QED
    BY <1>2, <2>1, <2>2, <2>3, <2>4, <2>5, <2>6 DEF Commands
<1>3. ASSUME NEW i \in Ids, Admit(i) \/ Accept(i) \/ Refuse(i) \/ Lose(i)
      PROVE  Rest'
  <2>1. UNCHANGED tables
    BY <1>3 DEF Admit, Accept, Refuse, Lose
  <2>2. offers' \cup admitted' \subseteq offers \cup admitted
    BY <1>3 DEF Admit, Accept, Refuse, Lose
  <2> QED
    BY <2>1, <2>2, ConnectionStep
<1>4. ASSUME UNCHANGED vars PROVE Rest'
  <2>1. UNCHANGED tables
    BY <1>4 DEF vars, tables
  <2>2. offers' \cup admitted' \subseteq offers \cup admitted
    BY <1>4 DEF vars
  <2> QED
    BY <2>1, <2>2, ConnectionStep
<1>5. Rest'
  <2> HIDE DEF Rest
  <2> QED
    BY <1>2, <1>3, <1>4 DEF Next
<1> QED
  BY <1>1, <1>5 DEF TokensInv

-----------------------------------------------------------------------------
(* The theorems.                                                           *)

\* The inductive invariant holds: revocations, connections, expiry dates and
\* clocks agree after every command and every step of a connection.
THEOREM TokensInvariant == Spec => []TokensInv
<1> QED
  BY TokensInitial, TokensStep, PTL DEF Spec

\* Tables, signed texts, clocks and connections keep their types; a row is
\* there only for a token that was signed.
THEOREM TokensTyped == Spec => []TypeOK
<1>1. TokensInv => TypeOK
  BY DEF TokensInv
<1> QED
  BY <1>1, TokensInvariant, PTL

\* Once an issuer has revoked a token its row stays revoked, although
\* token_insert overwrites rows and clears the mark.
THEOREM RevocationIsFinal == Spec => []RevocationSticks
<1>1. TokensInv => RevocationSticks
  BY DEF TokensInv
<1> QED
  BY <1>1, TokensInvariant, PTL

\* validate_claims lets no stream in on a revoked token unless token_find failed
\* in that step.
THEOREM RevokedOpensNothing == Spec => RevokedStaysOut
<1> DEFINE Out == \A i \in streams' \ streams :
                    i \in withdrawn => faults' > faults
<1>1. ASSUME TokensInv, [Next]_vars PROVE [Out]_vars
  <2> SUFFICES ASSUME Next, NEW i \in streams' \ streams, i \in withdrawn
               PROVE  faults' > faults
    BY <1>1
  <2>1. Accept(i)
    <3>1. ASSUME NEW n \in Nodes, Commands(n) PROVE streams' = streams
      BY <3>1 DEF Commands, PeerAdd, PeerRm, Present, TokenGrant, TokenImport,
                  TokenRevoke, Tick, dialled
    <3>2. ASSUME NEW j \in Ids, Admit(j) \/ Refuse(j) \/ Lose(j)
          PROVE  streams' \subseteq streams
      BY <3>2 DEF Admit, Refuse, Lose
    <3>3. ASSUME NEW j \in Ids, Accept(j) PROVE streams' = streams \cup {j}
      BY <3>3 DEF Accept
    <3> QED
      BY <3>1, <3>2, <3>3 DEF Next
  <2>2. i \in admitted /\ (~Revoked(i) \/ faults' = faults + 1)
    BY <2>1 DEF Accept
  <2>3. Revoked(i)
    BY <1>1, <2>2 DEF TokensInv, Dialled, RevocationSticks, Revoked
  <2>4. faults \in Nat
    BY <1>1 DEF TokensInv, TypeOK
  <2> QED
    BY <2>2, <2>3, <2>4
<1> QED
  BY <1>1, TokensInvariant, PTL DEF Spec, RevokedStaysOut

\* verify_token refuses an admitted peer only for a cause that the issuer made
\* or the subject can see on its own clock.
THEOREM RefusalHasCause == Spec => []RefusedForCause
<1>1. ASSUME TokensInv PROVE RefusedForCause
  <2> SUFFICES ASSUME NEW i \in admitted, Expired(i) \/ Revoked(i),
                      i \notin withdrawn
               PROVE  clock[issued[i].sub] > issued[i].exp
    BY DEF RefusedForCause
  <2>1. i \in DOMAIN issued /\ issued[i] \in Claims
    BY <1>1 DEF TokensInv, TypeOK
  <2>2. Expired(i)
    BY <1>1, <2>1 DEF TokensInv, OwnRevocation
  <2>3. issued[i].exp \in Nat /\ issued[i].iss \in Nodes /\ issued[i].sub \in Nodes
    BY <2>1 DEF Claims
  <2>4. Signed(issued[i].exp) = issued[i].exp
    BY <1>1, <2>1, <2>3, CastInWord DEF TokensInv, Sound
  <2>5. /\ clock[issued[i].iss] \in Nat /\ clock[issued[i].sub] \in Nat
        /\ clock[issued[i].iss] - clock[issued[i].sub] <= Skew
    BY <1>1, <2>3 DEF TokensInv, TypeOK, ClocksTogether
  <2> QED
    BY <2>2, <2>3, <2>4, <2>5, TokensAssumption DEF Expired
<1> QED
  BY <1>1, TokensInvariant, PTL

=============================================================================
