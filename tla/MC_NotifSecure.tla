--------------------------- MODULE MC_NotifSecure ---------------------------
(* Instantiation of NotifSecure for TLC: two ProduceNotif and two         *)
(* ConsumeNotif commands, two key pairs.                                  *)
EXTENDS NotifSecure, TLC

CONSTANTS p1, p2, c1, c2, k1, k2

MCProducers == {p1, p2}
MCOneProducer == {p1}
MCConsumers == {c1, c2}
MCOneConsumer == {c1}
MCKeys == {k1, k2}
MCOneKey == {k1}

(* Producers, consumers and keys are model values that only equality     *)
(* tells apart.                                                           *)
MCSymmetry ==
    Permutations(MCProducers) \cup Permutations(MCConsumers)
        \cup Permutations(MCKeys)
=============================================================================
