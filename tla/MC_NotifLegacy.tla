--------------------------- MODULE MC_NotifLegacy ---------------------------
(* Instantiation of NotifLegacy for TLC.                                  *)
EXTENDS NotifLegacy, TLC

CONSTANTS c1, c2, q1, q2, r1, r2

MCConsumers == {c1, c2}
MCOneConsumer == {c1}
MCQueues == {q1, q2}
MCOneQueue == {q1}
MCReceivers1 == {r1}

(* Every ConsumeNotif input.                                              *)
MCAllChoices == Params

(* Commands with a named exchange and a non-zero redis_cache_exp.         *)
MCExpChoices == {p \in Params : p.named /\ p.exp}

(* Commands with a named exchange.                                        *)
MCNamedChoices == {p \in Params : p.named}

(* Consumers and queues are model values that only equality tells apart. *)
MCSymmetry == Permutations(MCConsumers) \cup Permutations(MCQueues)
=============================================================================
