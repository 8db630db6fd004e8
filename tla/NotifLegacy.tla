----------------------------- MODULE NotifLegacy -----------------------------
(***************************************************************************)
(* The legacy consumer NotifConsumerActor (src/src/actors/consumers/       *)
(* notif.rs): its ConsumeNotif handler and consume().  Unlike the broker   *)
(* of NotifConsumer it binds the queue only when the exchange name is not  *)
(* empty, decodes each delivery as a ProduceNotif, and updates the         *)
(* recipient list notif_owner:{receiver} inline in the streaming loop:    *)
(* GET, EXISTS, then SET or SET EX exp_seconds whatever exp_seconds is,   *)
(* and then spawns the StoreNotifEvent send for every notification.       *)
(*                                                                         *)
(* The broker (queues, the producer's exchange) and Redis are the          *)
(* environment; a producer is abstracted to Publish.                       *)
(***************************************************************************)
EXTENDS Naturals, Sequences, FiniteSets

CONSTANTS
    Consumers,      \* one element per ConsumeNotif command
    Queues,         \* queue names a command may carry
    Receivers,      \* notif_receiver ids, i.e. the notif_owner:{..} keys
    MaxMsgs,        \* bound on the number of published notifications
    RmqFaults,      \* may RMQ pool, channel, declare, bind, consume, ack fail?
    RedisFaults,    \* may the Redis pool or a Redis command fail?
    MailboxFaults,  \* may a send to NotifMutatorActor fail?
    Absent,         \* a key that is not on Redis, a consumer with no delivery
    Choices         \* the ConsumeNotif inputs (a subset of Params) to try

ASSUME LegacyConstantsAssumption ==
    /\ Consumers # {} /\ Queues # {} /\ Receivers # {}
    /\ MaxMsgs \in Nat
    /\ RmqFaults \in BOOLEAN /\ RedisFaults \in BOOLEAN
    /\ MailboxFaults \in BOOLEAN

(* A notification as a consumer handled it; by and seq are history: the    *)
(* consumer that acked it, and its position among that consumer's acks.    *)
Delivery == [id : 1..MaxMsgs, rcv : Receivers, by : Consumers, seq : Nat \ {0}]

CachedList == [val : Seq(Delivery), ttl : BOOLEAN]

ASSUME LegacyAbsentAssumption == Absent \notin CachedList \cup Delivery

(* The inputs of a ConsumeNotif command that matter: queue, whether        *)
(* exchange_name is non-empty, and whether redis_cache_exp is non-zero.    *)
Params == [q : Queues, named : BOOLEAN, exp : BOOLEAN]

ASSUME LegacyChoicesAssumption == Choices # {} /\ Choices \subseteq Params

Stages == {"cmd", "setup", "consume", "stream", "get", "exists", "write",
           "done"}

DispatchTask == [d : Delivery, st : {"pending", "stored", "lost"}]

VARIABLES
    pc,          \* [Consumers -> Stages]
    par,         \* [Consumers -> Params]
    cur,         \* the delivery a consumer is handling
    cnt,         \* number of deliveries a consumer has acked
    lst,         \* the list a consumer computed from its GET
    there,       \* what its EXISTS answered
    exDeclared,  \* the producer's exchange exists on the broker
    bound,       \* queues bound to the exchange
    queue,       \* [Queues -> Seq([id, rcv])]
    nextId,      \* id of the next published notification
    cache,       \* [Receivers -> CachedList \cup {Absent}]
    dispatch,    \* StoreNotifEvent sends spawned, with their outcome
    decoded,     \* history: deliveries acked and decoded
    hist,        \* history: [Receivers -> Seq(Delivery)], completed writes
    expired      \* history: keys that expired at least once

vars == <<pc, par, cur, cnt, lst, there, exDeclared, bound, queue, nextId,
          cache, dispatch, decoded, hist, expired>>

consVars == <<pc, par, cur, cnt, lst, there>>
envVars  == <<exDeclared, bound, queue, nextId>>

Init ==
    /\ pc = [c \in Consumers |-> "cmd"]
    /\ par \in [Consumers -> Choices]
    /\ cur = [c \in Consumers |-> Absent]
    /\ cnt = [c \in Consumers |-> 0]
    /\ lst = [c \in Consumers |-> <<>>]
    /\ there = [c \in Consumers |-> FALSE]
    /\ exDeclared = FALSE
    /\ bound = {}
    /\ queue = [q \in Queues |-> <<>>]
    /\ nextId = 1
    /\ cache = [r \in Receivers |-> Absent]
    /\ dispatch = {}
    /\ decoded = {}
    /\ hist = [r \in Receivers |-> <<>>]
    /\ expired = {}

(* Move consumer c to stage s, nothing else of it changing.               *)
Goto(c, s) ==
    /\ pc' = [pc EXCEPT ![c] = s]
    /\ UNCHANGED <<par, cur, cnt, lst, there>>

-----------------------------------------------------------------------------
(* The ConsumeNotif handler: consume() always spawned on tokio.           *)
HandleConsumeNotif(c) ==
    /\ pc[c] = "cmd"
    /\ Goto(c, "setup")
    /\ UNCHANGED <<envVars, cache, dispatch, decoded, hist, expired>>

(* consume() up to its tokio::spawn: rmq_pool.get, create_channel,        *)
(* queue_declare, and queue_bind only if exchange != "".  A bind to an    *)
(* exchange no producer declared yet fails; every failure returns.       *)
(* An unbound queue only gets what the default exchange routes to it by  *)
(* its name, which the producers' exchange never does.                    *)
ConsumeSetup(c) ==
    /\ pc[c] = "setup"
    /\ \/ /\ ~par[c].named
          /\ Goto(c, "consume")
          /\ UNCHANGED bound
       \/ /\ par[c].named /\ exDeclared
          /\ Goto(c, "consume")
          /\ bound' = bound \cup {par[c].q}
       \/ /\ RmqFaults \/ (par[c].named /\ ~exDeclared)
          /\ Goto(c, "done")
          /\ UNCHANGED bound
    /\ UNCHANGED <<exDeclared, queue, nextId, cache, dispatch, decoded, hist,
                   expired>>

(* The spawned task: basic_consume; an error returns.                     *)
BasicConsume(c) ==
    /\ pc[c] = "consume"
    /\ \/ Goto(c, "stream")
       \/ RmqFaults /\ Goto(c, "done")
    /\ UNCHANGED <<envVars, cache, dispatch, decoded, hist, expired>>

(* Mutant: the acked delivery not kept for the Redis steps.               *)
ReceiveDeliveryNoCur(c) ==
    LET q == par[c].q IN
    /\ pc[c] = "stream"
    /\ queue[q] # <<>>
    /\ queue' = [queue EXCEPT ![q] = Tail(@)]
    /\ pc' = [pc EXCEPT ![c] = "get"]
    /\ UNCHANGED <<par, cur, cnt, lst, there, decoded>>
    /\ UNCHANGED <<exDeclared, bound, nextId, cache, dispatch, hist, expired>>

(* One turn of the loop: next, ack, UTF-8 and decode of a ProduceNotif.   *)
(* A stream error or a failed ack returns.                                *)
ReceiveDelivery(c) ==
    LET q == par[c].q IN
    /\ pc[c] = "stream"
    /\ queue[q] # <<>>
    /\ \/ LET m == Head(queue[q])
              d == [id |-> m.id, rcv |-> m.rcv, by |-> c, seq |-> cnt[c] + 1]
          IN /\ queue' = [queue EXCEPT ![q] = Tail(@)]
             /\ cur' = [cur EXCEPT ![c] = d]
             /\ cnt' = [cnt EXCEPT ![c] = @ + 1]
             /\ decoded' = decoded \cup {d}
             /\ pc' = [pc EXCEPT ![c] = "get"]
             /\ UNCHANGED <<par, lst, there>>
       \/ /\ RmqFaults
          /\ Goto(c, "done")
          /\ UNCHANGED <<queue, decoded>>
    /\ UNCHANGED <<exDeclared, bound, nextId, cache, dispatch, hist, expired>>

(* Mutant: the new notification pushed at the head of the list.           *)
PushedListAtFront(list, d) == <<d>> \o list

(* messages.push(notif_event.notif_data): append to the decoded list.     *)
PushedList(list, d) == Append(list, d)

(* Mutant: the GET result ignored, every list started afresh.             *)
ReadListAlwaysInit(c) ==
    /\ pc[c] = "get"
    /\ \/ /\ lst' = [lst EXCEPT ![c] = <<cur[c]>>]
          /\ pc' = [pc EXCEPT ![c] = "exists"]
       \/ /\ RedisFaults
          /\ pc' = [pc EXCEPT ![c] = "done"]
          /\ UNCHANGED lst
    /\ UNCHANGED <<par, cur, cnt, there, envVars, cache, dispatch, decoded,
                   hist, expired>>

(* redis_pool.get (an error returns) and GET notif_owner:{r}: a list that *)
(* decodes gets the notification pushed; a GET error, which is also what  *)
(* a missing key gives (nil is not a String), starts a one-element list.  *)
ReadList(c) ==
    LET d == cur[c]
        k == d.rcv
    IN
    /\ pc[c] = "get"
    /\ \/ /\ \E hit \in IF cache[k] = Absent THEN {FALSE}
                        ELSE IF RedisFaults THEN BOOLEAN ELSE {TRUE} :
               lst' = [lst EXCEPT ![c] = IF hit
                                         THEN PushedList(cache[k].val, d)
                                         ELSE <<d>>]
          /\ pc' = [pc EXCEPT ![c] = "exists"]
       \/ /\ RedisFaults
          /\ pc' = [pc EXCEPT ![c] = "done"]
          /\ UNCHANGED lst
    /\ UNCHANGED <<par, cur, cnt, there, envVars, cache, dispatch, decoded,
                   hist, expired>>

(* EXISTS notif_owner:{r}, unwrapped: an error panics the task.           *)
CheckExists(c) ==
    /\ pc[c] = "exists"
    /\ \/ /\ there' = [there EXCEPT ![c] = cache[cur[c].rcv] # Absent]
          /\ pc' = [pc EXCEPT ![c] = "write"]
       \/ /\ RedisFaults
          /\ pc' = [pc EXCEPT ![c] = "done"]
          /\ UNCHANGED there
    /\ UNCHANGED <<par, cur, cnt, lst, envVars, cache, dispatch, decoded,
                   hist, expired>>

(* Mutant: the StoreNotifEvent send spawned only after the SET EX branch.  *)
WriteListDispatchOnNewKey(c) ==
    LET d == cur[c]
        k == d.rcv
    IN
    /\ pc[c] = "write"
    /\ \/ /\ there[c] \/ par[c].exp
          /\ cache' = [cache EXCEPT ![k] = [val |-> lst[c], ttl |-> ~there[c]]]
          /\ hist' = [hist EXCEPT ![k] = Append(@, d)]
          /\ dispatch' = IF there[c] THEN dispatch
                         ELSE dispatch \cup {[d |-> d, st |-> "pending"]}
          /\ pc' = [pc EXCEPT ![c] = "stream"]
       \/ /\ RedisFaults \/ (~there[c] /\ ~par[c].exp)
          /\ pc' = [pc EXCEPT ![c] = "done"]
          /\ UNCHANGED <<cache, hist, dispatch>>
    /\ UNCHANGED <<par, cur, cnt, lst, there, envVars, decoded, expired>>

(* SET when the key existed (Redis drops its TTL), else SET EX            *)
(* exp_seconds; both unwrapped.  Redis rejects SET EX 0 ("invalid expire *)
(* time"), so with redis_cache_exp = 0 the unwrap panics the task.  Then *)
(* the StoreNotifEvent send is spawned and the loop goes on.              *)
WriteList(c) ==
    LET d == cur[c]
        k == d.rcv
    IN
    /\ pc[c] = "write"
    /\ \/ /\ there[c] \/ par[c].exp
          /\ cache' = [cache EXCEPT ![k] = [val |-> lst[c], ttl |-> ~there[c]]]
          /\ hist' = [hist EXCEPT ![k] = Append(@, d)]
          /\ dispatch' = dispatch \cup {[d |-> d, st |-> "pending"]}
          /\ pc' = [pc EXCEPT ![c] = "stream"]
       \/ /\ RedisFaults \/ (~there[c] /\ ~par[c].exp)
          /\ pc' = [pc EXCEPT ![c] = "done"]
          /\ UNCHANGED <<cache, hist, dispatch>>
    /\ UNCHANGED <<par, cur, cnt, lst, there, envVars, decoded, expired>>

(* The spawned NotifMutatorActor.send(StoreNotifEvent): a mailbox error is *)
(* logged.                                                                 *)
MutatorSend(t) ==
    /\ t.st = "pending"
    /\ \E st \in IF MailboxFaults THEN {"stored", "lost"} ELSE {"stored"} :
          dispatch' = (dispatch \ {t}) \cup {[t EXCEPT !.st = st]}
    /\ UNCHANGED <<consVars, envVars, cache, decoded, hist, expired>>

-----------------------------------------------------------------------------
(* Environment: a producer declares the exchange and publishes a          *)
(* notification for r to every bound queue; a key with a TTL expires.     *)
Publish(r) ==
    /\ nextId <= MaxMsgs
    /\ exDeclared' = TRUE
    /\ queue' = [q \in Queues |->
                   IF q \in bound
                   THEN Append(queue[q], [id |-> nextId, rcv |-> r])
                   ELSE queue[q]]
    /\ nextId' = nextId + 1
    /\ UNCHANGED <<consVars, bound, cache, dispatch, decoded, hist, expired>>

ExpireKey(k) ==
    /\ cache[k] # Absent
    /\ cache[k].ttl
    /\ cache' = [cache EXCEPT ![k] = Absent]
    /\ expired' = expired \cup {k}
    /\ UNCHANGED <<consVars, envVars, dispatch, decoded, hist>>

ConsumerStep(c) ==
    \/ HandleConsumeNotif(c)
    \/ ConsumeSetup(c)
    \/ BasicConsume(c)
    \/ ReceiveDelivery(c)
    \/ ReadList(c)
    \/ CheckExists(c)
    \/ WriteList(c)

Next ==
    \/ \E c \in Consumers : ConsumerStep(c)
    \/ \E t \in dispatch : MutatorSend(t)
    \/ \E r \in Receivers : Publish(r)
    \/ \E k \in Receivers : ExpireKey(k)

(* Tokio runs the consume tasks and the mutator sends; producers and key  *)
(* expiry need not act.                                                   *)
Fairness ==
    /\ \A c \in Consumers : WF_vars(ConsumerStep(c))
    /\ WF_vars(\E t \in dispatch : MutatorSend(t))

Spec == Init /\ [][Next]_vars /\ Fairness

-----------------------------------------------------------------------------
(* Properties.                                                             *)

(* Every variable holds a value of its type; a consumer between its ack  *)
(* and its write holds the delivery it acked.                             *)
TypeOK ==
    /\ pc \in [Consumers -> Stages]
    /\ par \in [Consumers -> Params]
    /\ cur \in [Consumers -> Delivery \cup {Absent}]
    /\ \A c \in Consumers :
         pc[c] \in {"get", "exists", "write"} => cur[c] \in Delivery
    /\ cnt \in [Consumers -> Nat]
    /\ lst \in [Consumers -> Seq(Delivery)]
    /\ there \in [Consumers -> BOOLEAN]
    /\ exDeclared \in BOOLEAN /\ bound \subseteq Queues
    /\ nextId \in 1..(MaxMsgs + 1)
    /\ cache \in [Receivers -> CachedList \cup {Absent}]
    /\ dispatch \subseteq DispatchTask
    /\ decoded \subseteq Delivery
    /\ hist \in [Receivers -> Seq(Delivery)]
    /\ expired \subseteq Receivers

(* A list whose entries of one consumer appear in that consumer's ack     *)
(* order.                                                                  *)
AckOrdered(s) ==
    \A i, j \in 1..Len(s) :
        i < j /\ s[i].by = s[j].by => s[i].seq < s[j].seq

(* Spec invariant 2, delivery order: however the inline GET / EXISTS /    *)
(* SET of several consumers interleave, and whatever Redis errors occur,  *)
(* every cached recipient list keeps each consumer's notifications in its *)
(* ack order.                                                             *)
LegacyCacheInAckOrder ==
    \A k \in Receivers : cache[k] # Absent => AckOrdered(cache[k].val)

(* Spec invariant 2, append monotonicity: as long as a key has not        *)
(* expired its list is exactly the notifications whose write completed,  *)
(* in order; the inline read-modify-write of one consumer loses nothing.  *)
ListMatchesWrites ==
    \A k \in Receivers :
        k \notin expired /\ cache[k] # Absent => cache[k].val = hist[k]

(* Spec invariant 4, at-least-once at the durable sink (this consumer     *)
(* stores every notification): every decoded delivery is dispatched to   *)
(* NotifMutatorActor, unless its consumer is still writing its list.      *)
LegacyDurable ==
    \A d \in decoded :
        \/ \E t \in dispatch : t.d = d
        \/ pc[d.by] \in {"get", "exists", "write"} /\ cur[d.by] = d
====
