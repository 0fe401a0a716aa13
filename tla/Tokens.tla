------------------------------- MODULE Tokens -------------------------------
(***************************************************************************)
(* Peers, capability tokens and the authorisation of a message stream      *)
(* (wt-core/src/auth.rs, store.rs, wt-daemon/src/ipc.rs, state.rs,         *)
(* wt-cli/src/main.rs).  Every install keeps a table of peers and a table  *)
(* of tokens: those it has granted and those it was granted and imported.  *)
(* An issuer verifies a token when its subject opens a stream.             *)
(*                                                                         *)
(* Signatures and 16-byte random ids are perfect: what exists of a token   *)
(* is the text that its issuer was answered, which anybody may keep and    *)
(* paste anywhere.  Every install has a clock of its own.                  *)
(***************************************************************************)
EXTENDS Integers

CONSTANTS
    Nodes,        \* installs
    Skew,         \* CLOCK_SKEW_SECS
    Terms,        \* lifetimes and capabilities that are granted
    Word,         \* 2^64
    Ids,          \* bound: TokenIds, each drawn at most once
    MaxTime,      \* bound: clocks
    MaxFaults     \* bound: failed look-ups

ASSUME TokensAssumption ==
    /\ Skew \in Nat
    /\ Word \in Nat \ {0}
    /\ Terms \subseteq [ttl : 0 .. Word - 1, caps : SUBSET {"msg"}]
    /\ MaxTime \in Nat /\ MaxFaults \in Nat

VARIABLES
    peers,        \* node -> its table peers
    issued,       \* token id -> claims; the signed texts in circulation
    tokens,       \* node -> its table tokens: id -> revoked
    clock,        \* node -> unix_secs()
    offers,       \* connections being opened, with the token to come: ids
    admitted,     \* connections from known peers whose StreamOpen is awaited
    streams,      \* tokens with which a stream was accepted
    withdrawn,    \* tokens that their issuer has revoked
    faults

dialled == <<offers, admitted, streams>>
tables == <<peers, issued, tokens, clock, withdrawn>>
vars == <<peers, issued, tokens, clock, offers, admitted, streams, withdrawn,
          faults>>

-----------------------------------------------------------------------------
Claims == [iss : Nodes, sub : Nodes, exp : Nat, caps : SUBSET {"msg"}]

TypeOK ==
    /\ peers \in [Nodes -> SUBSET Nodes]
    /\ DOMAIN issued \subseteq Ids
    /\ \A i \in DOMAIN issued : issued[i] \in Claims
    /\ DOMAIN tokens = Nodes
    /\ \A n \in Nodes :
         /\ DOMAIN tokens[n] \subseteq DOMAIN issued
         /\ \A i \in DOMAIN tokens[n] : tokens[n][i] \in BOOLEAN
    /\ clock \in [Nodes -> Nat]
    /\ offers \subseteq DOMAIN issued /\ admitted \subseteq DOMAIN issued
    /\ streams \subseteq DOMAIN issued
    /\ withdrawn \subseteq DOMAIN issued
    /\ faults \in Nat

Empty == [i \in {} |-> FALSE]

Init ==
    /\ peers = [n \in Nodes |-> {}]
    /\ issued = [i \in {} |-> FALSE]
    /\ tokens = [n \in Nodes |-> Empty]
    /\ clock = [n \in Nodes |-> 0]
    /\ offers = {} /\ admitted = {} /\ streams = {} /\ withdrawn = {}
    /\ faults = 0

-----------------------------------------------------------------------------
(* The commands.                                                           *)

\* PeerAdd.  Nothing keeps an install from adding itself.
PeerAdd(n, m) ==
    /\ peers' = [peers EXCEPT ![n] = @ \cup {m}]
    /\ UNCHANGED <<issued, tokens, clock, dialled, withdrawn, faults>>

\* PeerRm: the tokens stay.
PeerRm(n, m) ==
    /\ m \in peers[n]
    /\ peers' = [peers EXCEPT ![n] = @ \ {m}]
    /\ UNCHANGED <<issued, tokens, clock, dialled, withdrawn, faults>>

\* token_insert with revoked = FALSE: a row that is there is overwritten.
Insert(n, i) ==
    tokens' = [tokens EXCEPT ![n] =
                 [j \in DOMAIN @ \cup {i} |-> IF j = i THEN FALSE ELSE @[j]]]

\* unix_secs().saturating_add(ttl), and what `as i64` makes of it where it is
\* stored and compared: a lifetime that is too long has long expired.
SaturatingAdd(a, b) == IF a + b < Word THEN a + b ELSE Word - 1
Signed(x) == IF 2 * x < Word THEN x ELSE x - Word

\* TokenGrant: sign_token with a fresh id, and a row of one's own.
TokenGrant(n, m, t) ==
    /\ m \in peers[n]
    /\ \E i \in Ids \ DOMAIN issued :
         /\ issued' = [j \in DOMAIN issued \cup {i} |->
                         IF j = i THEN [iss |-> n, sub |-> m,
                                        exp |-> SaturatingAdd(clock[n], t.ttl),
                                        caps |-> t.caps]
                         ELSE issued[j]]
         /\ Insert(n, i)
    /\ UNCHANGED <<peers, clock, dialled, withdrawn, faults>>

\* Mutant: whose token it is does not matter.
TokenImportAny(n, i) ==
    /\ i \in DOMAIN issued
    /\ Insert(n, i)
    /\ UNCHANGED <<peers, issued, clock, dialled, withdrawn, faults>>

\* TokenImport: a token for this install from a known peer.
TokenImport(n, i) ==
    /\ i \in DOMAIN issued
    /\ issued[i].sub = n
    /\ issued[i].iss \in peers[n]
    /\ Insert(n, i)
    /\ UNCHANGED <<peers, issued, clock, dialled, withdrawn, faults>>

\* Mutant: the row is deleted.
TokenDelete(n, i) ==
    /\ i \in DOMAIN tokens[n]
    /\ tokens' = [tokens EXCEPT ![n] = [j \in DOMAIN @ \ {i} |-> @[j]]]
    /\ withdrawn' = IF issued[i].iss = n THEN withdrawn \cup {i} ELSE withdrawn
    /\ UNCHANGED <<peers, issued, clock, dialled, faults>>

\* TokenRevoke, at either end.
TokenRevoke(n, i) ==
    /\ i \in DOMAIN tokens[n]
    /\ tokens' = [tokens EXCEPT ![n] = [@ EXCEPT ![i] = TRUE]]
    /\ withdrawn' = IF issued[i].iss = n THEN withdrawn \cup {i} ELSE withdrawn
    /\ UNCHANGED <<peers, issued, clock, dialled, faults>>

-----------------------------------------------------------------------------
(* Streams.                                                                *)

\* Mutant: the expiry is compared as it was signed, without the cast.
UsableUncast(n, m) == {i \in DOMAIN tokens[n] :
                         /\ issued[i].iss = m /\ issued[i].sub = n
                         /\ ~tokens[n][i]
                         /\ issued[i].exp > clock[n]
                         /\ "msg" \in issued[i].caps}

\* find_token_with_cap: of the tokens from m that are neither revoked here nor
\* expired by this clock, and allow messages, one that expires last.
Usable(n, m) == {i \in DOMAIN tokens[n] :
                   /\ issued[i].iss = m /\ issued[i].sub = n
                   /\ ~tokens[n][i]
                   /\ Signed(issued[i].exp) > clock[n]
                   /\ "msg" \in issued[i].caps}

\* The transport connects to every install but itself (iroh refuses one's own
\* key; the repository does not ask).
Connects(n, m) == n # m

\* open_outbound_stream to m.
Present(n, m) ==
    /\ Connects(n, m)
    /\ m \in peers[n]
    /\ \E i \in Usable(n, m) :
         /\ \A j \in Usable(n, m) :
              Signed(issued[j].exp) <= Signed(issued[i].exp)
         /\ offers' = offers \cup {i}
    /\ UNCHANGED <<tables, admitted, streams, faults>>

\* Mutant: no tolerance.
ExpiredAtOnce(i) == clock[issued[i].iss] > Signed(issued[i].exp)

\* validate_claims, on the issuer's clock.
Expired(i) == clock[issued[i].iss] - Skew > Signed(issued[i].exp)

\* handle_connection and require_peer_known: the connection's other end, which
\* the transport has authenticated, is a peer.
Admit(i) ==
    /\ i \in offers
    /\ issued[i].sub \in peers[issued[i].iss]
    /\ offers' = offers \ {i}
    /\ admitted' = admitted \cup {i}
    /\ UNCHANGED <<tables, streams, faults>>

\* verify_token on the stream it opens.  The subject is the peer at the other
\* end, the issuer the install it has connected to.  A look-up that fails
\* counts as not revoked.
Revoked(i) == LET row == tokens[issued[i].iss] IN i \in DOMAIN row /\ row[i]

Accept(i) ==
    /\ i \in admitted
    /\ ~Expired(i)
    /\ \/ ~Revoked(i) /\ UNCHANGED faults
       \/ faults < MaxFaults /\ faults' = faults + 1
    /\ "msg" \in issued[i].caps
    /\ admitted' = admitted \ {i}
    /\ streams' = streams \cup {i}
    /\ UNCHANGED <<tables, offers>>

\* The same two checks, failed.  MissingCap does not happen: the sender has
\* looked for the capability.
Refuse(i) ==
    /\ \/ i \in offers /\ issued[i].sub \notin peers[issued[i].iss]
       \/ i \in admitted /\ (Expired(i) \/ Revoked(i))
    /\ offers' = offers \ {i}
    /\ admitted' = admitted \ {i}
    /\ UNCHANGED <<tables, streams, faults>>

\* A stream, or the connection that is to carry it, is lost.
Lose(i) ==
    /\ i \in offers \cup admitted \cup streams
    /\ offers' = offers \ {i}
    /\ admitted' = admitted \ {i}
    /\ streams' = streams \ {i}
    /\ UNCHANGED <<tables, faults>>

\* Time passes.  Two clocks are never further apart than the tolerance.
Tick(n) ==
    /\ clock[n] < MaxTime
    /\ \A m \in Nodes : clock[n] + 1 - clock[m] <= Skew
    /\ clock' = [clock EXCEPT ![n] = @ + 1]
    /\ UNCHANGED <<peers, issued, tokens, dialled, withdrawn, faults>>

Commands(n) ==
    \/ \E m \in Nodes : PeerAdd(n, m) \/ PeerRm(n, m) \/ Present(n, m)
    \/ \E m \in Nodes, t \in Terms : TokenGrant(n, m, t)
    \/ \E i \in Ids : TokenImport(n, i) \/ TokenRevoke(n, i)
    \/ Tick(n)

Next ==
    \/ \E n \in Nodes : Commands(n)
    \/ \E i \in Ids : Admit(i) \/ Accept(i) \/ Refuse(i) \/ Lose(i)

Spec == Init /\ [][Next]_vars

-----------------------------------------------------------------------------
(* Properties.                                                             *)

\* A revocation by the issuer is final.  Whatever is granted, pasted and
\* imported again, removed and added again after it, no stream is accepted with
\* that token, unless the look-up of the revocation failed (token_insert resets
\* revoked, but TokenImport takes only tokens for this install).
RevokedStaysOut ==
    [][\A i \in streams' \ streams : i \in withdrawn => faults' > faults]_vars

\* What RevokedStaysOut rests on: the issuer's row of a revoked token keeps its
\* mark, unless the issuer has granted it to itself and may import it.
RevocationSticks ==
    \A i \in withdrawn :
      LET c == issued[i]
      IN  c.iss # c.sub => i \in DOMAIN tokens[c.iss] /\ tokens[c.iss][i]

\* No refusal without a cause: once a peer is admitted its token is turned away
\* only if the issuer has revoked it, or if the subject's own clock says by now
\* that it has expired, as long as clocks are within the tolerance of each other
\* (exp > now at the sender, now - skew > exp at the receiver).  What the subject
\* does to its copy is of no consequence.
RefusedForCause ==
    \A i \in admitted :
      Expired(i) \/ Revoked(i) =>
        i \in withdrawn \/ clock[issued[i].sub] > issued[i].exp

-----------------------------------------------------------------------------
(* The inductive invariant behind the three.                               *)

\* Nobody dials itself.
Dialled == \A i \in offers \cup admitted : issued[i].iss # issued[i].sub

\* A token that is presented has a lifetime that the cast has left alone.
Sound ==
    /\ \A i \in DOMAIN issued : issued[i].exp < Word
    /\ \A i \in offers \cup admitted : Signed(issued[i].exp) >= 0

\* The issuer's row is revoked by the issuer only.
OwnRevocation == \A i \in DOMAIN issued : Revoked(i) => i \in withdrawn

ClocksTogether == \A n, m \in Nodes : clock[n] - clock[m] <= Skew

\* Who revoked what, who dials whom and how far clocks are apart, all at once:
\* no step of token_insert, TokenRevoke, open_outbound_stream or validate_claims
\* breaks one part as long as the others hold.
TokensInv == /\ TypeOK /\ RevocationSticks /\ Dialled /\ Sound
             /\ OwnRevocation /\ ClocksTogether

=============================================================================
