------------------------------ MODULE Mailbox -------------------------------
(***************************************************************************)
(* What the messaging subsystem promises, without tasks, streams or        *)
(* crashes: messages are posted to a peer under a channel and the next     *)
(* sequence number of that channel; a peer takes a message addressed to it *)
(* at most once, and shows what it took at most once.  Nothing promises    *)
(* that a message is taken (the transport may lose it), nor in what order. *)
(***************************************************************************)
EXTENDS Integers, Sequences

CONSTANTS Peers, Channels, Payloads

VARIABLES
    posted,   \* channel -> the messages posted on it, in order
    taken,    \* peer -> the messages it recorded
    shown     \* peer -> the messages its subscribers saw, in order

mailboxVars == <<posted, taken, shown>>

Init ==
    /\ posted = [c \in Channels |-> <<>>]
    /\ taken = [p \in Peers |-> {}]
    /\ shown = [p \in Peers |-> <<>>]

\* The message at place n of channel c, as its receiver knows it.
MessageAt(c, n) == [ch |-> c, seq |-> n, body |-> posted[c][n].body]

Post(c, p, b) ==
    /\ posted' = [posted EXCEPT ![c] = Append(@, [peer |-> p, body |-> b])]
    /\ UNCHANGED <<taken, shown>>

Take(p, c, n) ==
    /\ posted[c][n].peer = p
    /\ MessageAt(c, n) \notin taken[p]
    /\ taken' = [taken EXCEPT ![p] = @ \cup {MessageAt(c, n)}]
    /\ UNCHANGED <<posted, shown>>

Show(p, m) ==
    /\ \A i \in DOMAIN shown[p] : shown[p][i] # m
    /\ shown' = [shown EXCEPT ![p] = Append(@, m)]
    /\ UNCHANGED <<posted, taken>>

Next ==
    \/ \E c \in Channels, p \in Peers :
         \E b \in Payloads : Post(c, p, b)
    \/ \E c \in Channels, p \in Peers :
         \E n \in DOMAIN posted[c] : Take(p, c, n)
    \/ \E p \in Peers : \E m \in taken[p] : Show(p, m)

Spec == Init /\ [][Next]_mailboxVars
=============================================================================
