--------------------------- MODULE ProduceContract ---------------------------
(***************************************************************************)
(* What a ProduceNotif command promises (spec 4.5): once the actor has     *)
(* handled it the notification is published to the exchange or the        *)
(* publish fails on the broker and is logged; caching the encryption      *)
(* config on the way is best-effort and never stops it.  A pending        *)
(* command eventually completes.                                           *)
(***************************************************************************)
CONSTANTS Producers   \* one element per ProduceNotif command

VARIABLES
    state,      \* [Producers -> {"idle", "pending", "done"}]
    published,  \* commands whose notification reached the exchange
    lost        \* commands whose publish failed on the broker

vars == <<state, published, lost>>

Init ==
    /\ state = [p \in Producers |-> "idle"]
    /\ published = {}
    /\ lost = {}

(* The actor handles the command.                                         *)
Issue(p) ==
    /\ state[p] = "idle"
    /\ state' = [state EXCEPT ![p] = "pending"]
    /\ UNCHANGED <<published, lost>>

(* The command completes: published, or lost on the broker.               *)
Complete(p) ==
    /\ state[p] = "pending"
    /\ state' = [state EXCEPT ![p] = "done"]
    /\ \/ published' = published \cup {p} /\ UNCHANGED lost
       \/ lost' = lost \cup {p} /\ UNCHANGED published

Next == \E p \in Producers : Issue(p) \/ Complete(p)

Spec == Init /\ [][Next]_vars /\ \A p \in Producers : WF_vars(Complete(p))
=============================================================================
