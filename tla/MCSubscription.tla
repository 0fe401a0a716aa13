--------------------------- MODULE MCSubscription ---------------------------
(***************************************************************************)
(* Subscription with a few command lines for TLC.                          *)
(***************************************************************************)
EXTENDS Subscription

CONSTANTS n1, n2, c1

\* wt recv, wt recv -f --from <id>, wt recv -f --from <name> --since.
Recvs == {[cmd |-> "recv", by |-> "all", peer |-> n1, chan |-> Any,
           follow |-> FALSE, since |-> 0],
          [cmd |-> "recv", by |-> "id", peer |-> n1, chan |-> Any,
           follow |-> TRUE, since |-> 0],
          [cmd |-> "recv", by |-> "name", peer |-> n1, chan |-> c1,
           follow |-> TRUE, since |-> 1]}
\* wt chat <name>.
Chats == {[cmd |-> "chat", by |-> "name", peer |-> n1, chan |-> c1,
           follow |-> TRUE, since |-> 1]}
All == Recvs \cup Chats
=============================================================================
