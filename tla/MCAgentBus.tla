----------------------------- MODULE MCAgentBus -----------------------------
(***************************************************************************)
(* AgentBus with a few kinds of readers for TLC.                           *)
(***************************************************************************)
EXTENDS AgentBus

\* wt recv -f by the prime, wt recv by the child, and an onlooker (--peek).
Modes == {[agent |-> "prime", consume |-> TRUE, follow |-> TRUE],
          [agent |-> "child", consume |-> TRUE, follow |-> FALSE],
          [agent |-> "prime", consume |-> FALSE, follow |-> FALSE]}
=============================================================================
