-------------------------- MODULE MC_NotifConsumer --------------------------
(* Instantiation of NotifConsumer for TLC: two ConsumeNotif commands, two  *)
(* queue names, the constants bound in the .cfg files.                      *)
EXTENDS NotifConsumer, TLC

CONSTANTS c1, c2, q1, q2, r1, r2

MCConsumers == {c1, c2}
MCOneConsumer == {c1}
MCQueues == {q1, q2}
MCReceivers1 == {r1}
MCReceivers2 == {r1, r2}

(* Every ConsumeNotif input.                                              *)
MCAllChoices == Params

(* Consumers that cache (redis_cache_exp # 0), do not store in the db and  *)
(* spawn on tokio, on either queue.                                        *)
MCCachingChoices ==
    {[q |-> q, exp |-> TRUE, db |-> FALSE, local |-> FALSE] : q \in MCQueues}

(* Consumers and queues are model values that only equality tells apart.  *)
MCSymmetry == Permutations(MCConsumers) \cup Permutations(MCQueues)

=============================================================================
