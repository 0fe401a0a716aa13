------------------------- MODULE DeliveryRefinement -------------------------
(***************************************************************************)
(* The refinement mapping under which Delivery implements Mailbox, when    *)
(* the receivers' stores do not fail ("inbox" is not in FaultKinds): the   *)
(* rows of the outbox, whether delivered or not, are the posted messages,  *)
(* a row's sequence number being its place in its channel.                 *)
(***************************************************************************)
EXTENDS Delivery

Posted ==
    [c \in Channels |->
        [i \in DOMAIN outbox[c] |->
            [peer |-> outbox[c][i].peer, body |-> outbox[c][i].body]]]

Box == INSTANCE Mailbox WITH Payloads <- 1 .. MaxMsgs, posted <- Posted,
                             taken <- inbox, shown <- emitted

\* Delivery implements Mailbox: under crashes, retries and lost frames, a peer
\* takes each message at most once, as it was posted for it, and shows only
\* what it took, once.
ImplementsMailbox == Box!Spec

-----------------------------------------------------------------------------
(* Why a message is shown once: the row in the receiver's inbox is inserted *)
(* by one consumer only, and that consumer holds the frame until it emits   *)
(* it.                                                                      *)

Holding(s) == net[s].hold # None
HeldMsg(s) == Msg(s, net[s].hold)

\* A frame that a consumer is about to emit has been recorded ...
HeldIsRecorded ==
    \A s \in Streams : Holding(s) => HeldMsg(s) \in inbox[PeerOf(s)]

\* ... not been shown yet ...
HeldIsFresh ==
    \A s \in Streams : Holding(s) => HeldMsg(s) \notin Range(emitted[PeerOf(s)])

\* ... and is not held by the consumer of another stream to the same peer.
HeldOnce ==
    \A s, t \in Streams :
        /\ Holding(s) /\ Holding(t)
        /\ PeerOf(s) = PeerOf(t)
        /\ HeldMsg(s) = HeldMsg(t)
        => s = t

ShownIsRecorded == \A p \in Peers : Range(emitted[p]) \subseteq inbox[p]

ShownOnce ==
    \A p \in Peers : \A i, j \in DOMAIN emitted[p] :
        emitted[p][i] = emitted[p][j] => i = j

\* A message goes from the inbox through one consumer to the screen.
OnceInv ==
    /\ HeldIsRecorded
    /\ HeldIsFresh
    /\ HeldOnce
    /\ ShownIsRecorded
    /\ ShownOnce
=============================================================================
