---------------------------- MODULE NotifConsumer ----------------------------
(***************************************************************************)
(* The consume path of NotifBrokerActor (src/src/workers/notif/mod.rs):    *)
(* the ConsumeNotif handler, NotifBrokerActor::consume with no decryption  *)
(* config, the streaming loop over the RMQ queue, and the three sinks it   *)
(* fans each delivery out to: the realtime mpsc channel of the websocket   *)
(* handler, the per-recipient list cached on Redis under                   *)
(* notif_owner:{receiver_info}, and the StoreNotifEvent mutator.          *)
(*                                                                         *)
(* The broker (queues, a fanout exchange), Redis (keys with or without a   *)
(* TTL) and the websocket receiver are the environment.  A producer is     *)
(* abstracted to Publish, which declares the exchange and routes a plain   *)
(* JSON notification to every bound queue.                                 *)
(***************************************************************************)
EXTENDS Naturals, Sequences, FiniteSets

CONSTANTS
    Consumers,      \* one element per ConsumeNotif command sent to the actor
    Queues,         \* queue names a ConsumeNotif command may carry
    Receivers,      \* receiver_info values, i.e. the notif_owner:{..} keys
    MaxMsgs,        \* bound on the number of published notifications
    WsCap,          \* capacity of the tokio mpsc channel notif_broker_sender
    RmqFaults,      \* may RMQ pool, channel, declare, bind, consume, ack fail?
    RedisFaults,    \* may the Redis pool or a Redis command fail?
    MailboxFaults,  \* may a send to NotifMutatorActor fail?
    Absent,         \* a key that is not on Redis, a consumer with no delivery
    Choices         \* the ConsumeNotif inputs (a subset of Params) to try

ASSUME ConstantsAssumption ==
    /\ Consumers # {} /\ Queues # {} /\ Receivers # {}
    /\ MaxMsgs \in Nat
    /\ WsCap \in Nat \ {0}
    /\ RmqFaults \in BOOLEAN /\ RedisFaults \in BOOLEAN
    /\ MailboxFaults \in BOOLEAN

(* NotifData as the model sees it: an id and its receiver_info.            *)
Msg == [id : 1..MaxMsgs, rcv : Receivers]

(* A notification as a consumer handled it.  by and seq do not exist in    *)
(* the code: they record which consumer acked it and as its how-manieth    *)
(* delivery, so that properties can speak of delivery order.              *)
Delivery == [id : 1..MaxMsgs, rcv : Receivers, by : Consumers, seq : Nat \ {0}]

(* The value of notif_owner:{r}: a JSON list of NotifData, and whether the *)
(* key carries a TTL.                                                      *)
CachedList == [val : Seq(Delivery), ttl : BOOLEAN]

ASSUME AbsentAssumption == Absent \notin CachedList \cup Delivery

(* The inputs of a ConsumeNotif command that matter to the pipeline:       *)
(* queue, redis_cache_exp # 0, store_in_db, local_spawn.                   *)
Params == [q : Queues, exp : BOOLEAN, db : BOOLEAN, local : BOOLEAN]

ASSUME ChoicesAssumption == Choices # {} /\ Choices \subseteq Params

(* Program counter of one consume() invocation.                            *)
Stages == {"cmd", "setup", "consume", "stream", "ws", "cache", "db", "done"}

VARIABLES
    actorUp,     \* NotifBrokerActor is running (no HealthMsg{shutdown:true})
    pc,          \* [Consumers -> Stages]
    par,         \* [Consumers -> Params], fixed when the handler runs
    cur,         \* the delivery a consumer is processing
    cnt,         \* number of deliveries a consumer has acked
    exDeclared,  \* the producer's exchange exists on the broker
    bound,       \* queues bound to the exchange
    queue,       \* [Queues -> Seq(Msg)]
    nextId,      \* id of the next published notification
    cache,       \* [Receivers -> CachedList \cup {Absent}]
    writes,      \* pending tokio tasks writing notif_owner:{r}
    ws,          \* contents of the realtime mpsc channel
    wsOpen,      \* its receiver (websocket handler) is alive
    dispatch,    \* StoreNotifEvent sends spawned, with their outcome
    delivered,   \* history: deliveries acked and decoded
    written,     \* history: deliveries whose cache write task completed
    expired      \* history: keys that expired at least once

vars == <<actorUp, pc, par, cur, cnt, exDeclared, bound, queue, nextId,
          cache, writes, ws, wsOpen, dispatch, delivered, written, expired>>

consVars == <<pc, par, cur, cnt>>
envVars  == <<exDeclared, bound, queue, nextId>>

(* A write task spawned at line 627: the key, the list it will store, and  *)
(* whether it is before the EXISTS call or knows which command to issue.   *)
WriteTask == [key : Receivers, val : Seq(Delivery),
              phase : {"exists", "set", "setex"}, d : Delivery]

DispatchTask == [d : Delivery, st : {"pending", "stored", "lost"}]

-----------------------------------------------------------------------------
Init ==
    /\ actorUp = TRUE
    /\ pc = [c \in Consumers |-> "cmd"]
    /\ par \in [Consumers -> Choices]
    /\ cur = [c \in Consumers |-> Absent]
    /\ cnt = [c \in Consumers |-> 0]
    /\ exDeclared = FALSE
    /\ bound = {}
    /\ queue = [q \in Queues |-> <<>>]
    /\ nextId = 1
    /\ cache = [r \in Receivers |-> Absent]
    /\ writes = {}
    /\ ws = <<>>
    /\ wsOpen = TRUE
    /\ dispatch = {}
    /\ delivered = {}
    /\ written = {}
    /\ expired = {}

-----------------------------------------------------------------------------
(* Actix handler for ConsumeNotif: while the actor runs, the command is    *)
(* handled and consume() spawned (into the actor context if local_spawn,  *)
(* else on tokio).  A command sent to a stopped actor fails in             *)
(* register_notif's send and is only logged.                               *)
HandleConsumeNotif(c) ==
    /\ pc[c] = "cmd"
    /\ pc' = [pc EXCEPT ![c] = IF actorUp THEN "setup" ELSE "done"]
    /\ UNCHANGED <<actorUp, par, cur, cnt, envVars, cache, writes, ws, wsOpen,
                   dispatch, delivered, written, expired>>

(* HealthMsg{shutdown: true}: ctx.stop().  Futures spawned into the actor  *)
(* context are dropped with it: a local consume() still setting up its    *)
(* channel never reaches the tokio::spawn of its streaming loop.           *)
HandleHealthMsg ==
    /\ actorUp
    /\ actorUp' = FALSE
    /\ pc' = [c \in Consumers |->
                IF pc[c] = "setup" /\ par[c].local THEN "done" ELSE pc[c]]
    /\ UNCHANGED <<par, cur, cnt, envVars, cache, writes, ws, wsOpen,
                   dispatch, delivered, written, expired>>

(* consume() up to the tokio::spawn of the streaming task: rmq_pool.get,   *)
(* create_channel, queue_declare, queue_bind.  Binding to an exchange no  *)
(* producer has declared yet fails (NOT_FOUND); any failure is logged and  *)
(* ends consume().                                                         *)
ConsumeSetup(c) ==
    /\ pc[c] = "setup"
    /\ \/ /\ exDeclared
          /\ pc' = [pc EXCEPT ![c] = "consume"]
          /\ bound' = bound \cup {par[c].q}
       \/ /\ RmqFaults \/ ~exDeclared
          /\ pc' = [pc EXCEPT ![c] = "done"]
          /\ UNCHANGED bound
    /\ UNCHANGED <<actorUp, par, cur, cnt, exDeclared, queue, nextId, cache,
                   writes, ws, wsOpen, dispatch, delivered, written, expired>>

(* The streaming task: with no decryption config the secure cell config   *)
(* is the default one, then basic_consume on the queue.                    *)
BasicConsume(c) ==
    /\ pc[c] = "consume"
    /\ \/ pc' = [pc EXCEPT ![c] = "stream"]
       \/ RmqFaults /\ pc' = [pc EXCEPT ![c] = "done"]
    /\ UNCHANGED <<actorUp, par, cur, cnt, envVars, cache, writes, ws, wsOpen,
                   dispatch, delivered, written, expired>>

(* One turn of `while let Some(delivery) = consumer.next()`: the delivery *)
(* is acked, taken as UTF-8 (no secure cell data) and decoded into         *)
(* NotifData.  A stream error or a failed ack ends the task; an unacked    *)
(* message stays in the queue.                                             *)
ReceiveDelivery(c) ==
    LET q == par[c].q IN
    /\ pc[c] = "stream"
    /\ queue[q] # <<>>
    /\ \/ LET m == Head(queue[q])
              d == [id |-> m.id, rcv |-> m.rcv, by |-> c, seq |-> cnt[c] + 1]
          IN /\ queue' = [queue EXCEPT ![q] = Tail(@)]
             /\ cur' = [cur EXCEPT ![c] = d]
             /\ cnt' = [cnt EXCEPT ![c] = @ + 1]
             /\ delivered' = delivered \cup {d}
             /\ pc' = [pc EXCEPT ![c] = "ws"]
       \/ /\ RmqFaults
          /\ pc' = [pc EXCEPT ![c] = "done"]
          /\ UNCHANGED <<queue, cur, cnt, delivered>>
    /\ UNCHANGED <<actorUp, par, exDeclared, bound, nextId, cache, writes, ws,
                   wsOpen, dispatch, written, expired>>

(* The stream ends (the channel or connection closed): the loop exits.     *)
StreamEnds(c) ==
    /\ pc[c] = "stream"
    /\ RmqFaults
    /\ pc' = [pc EXCEPT ![c] = "done"]
    /\ UNCHANGED <<actorUp, par, cur, cnt, envVars, cache, writes, ws, wsOpen,
                   dispatch, delivered, written, expired>>

(* Mutant: the channel created unbounded, the send never waits.           *)
SendToWsUnbounded(c) ==
    /\ pc[c] = "ws"
    /\ ws' = IF wsOpen THEN Append(ws, cur[c]) ELSE ws
    /\ pc' = [pc EXCEPT ![c] = "cache"]
    /\ UNCHANGED <<actorUp, par, cur, cnt, envVars, cache, writes, wsOpen,
                   dispatch, delivered, written, expired>>

(* notif_data_sender.send(data).await on the bounded channel: waits while  *)
(* the channel is full; fails, and is only logged, once the receiver is    *)
(* gone.                                                                   *)
SendToWs(c) ==
    /\ pc[c] = "ws"
    /\ \/ wsOpen /\ Len(ws) < WsCap /\ ws' = Append(ws, cur[c])
       \/ ~wsOpen /\ UNCHANGED ws
    /\ pc' = [pc EXCEPT ![c] = "cache"]
    /\ UNCHANGED <<actorUp, par, cur, cnt, envVars, cache, writes, wsOpen,
                   dispatch, delivered, written, expired>>

(* Mutant: the new notification put at the head of the list.              *)
ExtendedListAtFront(list, d) == <<d>> \o list

(* The list a write task stores: the list GET returned with the new        *)
(* notification pushed at its end.                                         *)
ExtendedList(list, d) == Append(list, d)

(* `if exp_seconds != 0`: redis_pool.get (failure ends the task), GET      *)
(* notif_owner:{receiver_info}; a hit is decoded and extended, a miss or   *)
(* any GET error starts a new one-element list; the write is spawned and   *)
(* the loop goes on without waiting for it.                                *)
CacheNotif(c) ==
    LET d == cur[c]
        k == d.rcv
    IN
    /\ pc[c] = "cache"
    /\ \/ /\ ~par[c].exp
          /\ pc' = [pc EXCEPT ![c] = "db"]
          /\ UNCHANGED writes
       \/ /\ par[c].exp
          /\ \E hit \in IF cache[k] = Absent THEN {FALSE}
                        ELSE IF RedisFaults THEN BOOLEAN ELSE {TRUE} :
               writes' = writes \cup
                  {[key |-> k, phase |-> "exists", d |-> d,
                    val |-> IF hit THEN ExtendedList(cache[k].val, d)
                            ELSE <<d>>]}
          /\ pc' = [pc EXCEPT ![c] = "db"]
       \/ /\ par[c].exp /\ RedisFaults
          /\ pc' = [pc EXCEPT ![c] = "done"]
          /\ UNCHANGED writes
    /\ UNCHANGED <<actorUp, par, cur, cnt, envVars, cache, ws, wsOpen,
                   dispatch, delivered, written, expired>>

(* Mutant: the store_in_db flag read inverted.                            *)
StoreInDbInverted(c) ==
    /\ pc[c] = "db"
    /\ dispatch' = IF ~par[c].db
                   THEN dispatch \cup {[d |-> cur[c], st |-> "pending"]}
                   ELSE dispatch
    /\ pc' = [pc EXCEPT ![c] = "stream"]
    /\ UNCHANGED <<actorUp, par, cur, cnt, envVars, cache, writes, ws, wsOpen,
                   delivered, written, expired>>

(* `if store_in_db`: spawn the StoreNotifEvent send; back to the loop.     *)
StoreInDb(c) ==
    /\ pc[c] = "db"
    /\ dispatch' = IF par[c].db
                   THEN dispatch \cup {[d |-> cur[c], st |-> "pending"]}
                   ELSE dispatch
    /\ pc' = [pc EXCEPT ![c] = "stream"]
    /\ UNCHANGED <<actorUp, par, cur, cnt, envVars, cache, writes, ws, wsOpen,
                   delivered, written, expired>>

(* The spawned write task, first await: EXISTS (unwrap: an error panics    *)
(* the task).                                                              *)
CacheWriteExists(t) ==
    /\ t.phase = "exists"
    /\ \/ writes' = (writes \ {t}) \cup
                    {[t EXCEPT !.phase = IF cache[t.key] # Absent
                                         THEN "set" ELSE "setex"]}
       \/ RedisFaults /\ writes' = writes \ {t}
    /\ UNCHANGED <<actorUp, consVars, envVars, cache, ws, wsOpen, dispatch,
                   delivered, written, expired>>

(* Second await: SET when the key existed (Redis drops any TTL on SET),    *)
(* SET EX exp_seconds when it did not.                                     *)
CacheWriteSet(t) ==
    /\ t.phase \in {"set", "setex"}
    /\ writes' = writes \ {t}
    /\ \/ /\ cache' = [cache EXCEPT ![t.key] =
                         [val |-> t.val, ttl |-> t.phase = "setex"]]
          /\ written' = written \cup {t.d}
       \/ RedisFaults /\ UNCHANGED <<cache, written>>
    /\ UNCHANGED <<actorUp, consVars, envVars, ws, wsOpen, dispatch,
                   delivered, expired>>

(* The spawned NotifMutatorActor.send(StoreNotifEvent): a mailbox error is *)
(* logged.                                                                 *)
MutatorSend(t) ==
    /\ t.st = "pending"
    /\ \E st \in IF MailboxFaults THEN {"stored", "lost"} ELSE {"stored"} :
          dispatch' = (dispatch \ {t}) \cup {[t EXCEPT !.st = st]}
    /\ UNCHANGED <<actorUp, consVars, envVars, cache, writes, ws, wsOpen,
                   delivered, written, expired>>

-----------------------------------------------------------------------------
(* Environment.                                                            *)

(* A producer declares the exchange and publishes a notification for r;   *)
(* the fanout exchange routes it to every bound queue.                     *)
Publish(r) ==
    /\ nextId <= MaxMsgs
    /\ exDeclared' = TRUE
    /\ queue' = [q \in Queues |->
                   IF q \in bound
                   THEN Append(queue[q], [id |-> nextId, rcv |-> r])
                   ELSE queue[q]]
    /\ nextId' = nextId + 1
    /\ UNCHANGED <<actorUp, consVars, bound, cache, writes, ws, wsOpen,
                   dispatch, delivered, written, expired>>

(* A key with a TTL expires.                                               *)
ExpireKey(k) ==
    /\ cache[k] # Absent
    /\ cache[k].ttl
    /\ cache' = [cache EXCEPT ![k] = Absent]
    /\ expired' = expired \cup {k}
    /\ UNCHANGED <<actorUp, consVars, envVars, writes, ws, wsOpen, dispatch,
                   delivered, written>>

(* The websocket handler takes a notification off the channel.            *)
WsReceive ==
    /\ ws # <<>>
    /\ ws' = Tail(ws)
    /\ UNCHANGED <<actorUp, consVars, envVars, cache, writes, wsOpen,
                   dispatch, delivered, written, expired>>

(* The websocket handler exits and drops the receiver.                     *)
WsReceiverDrop ==
    /\ wsOpen
    /\ wsOpen' = FALSE
    /\ ws' = <<>>
    /\ UNCHANGED <<actorUp, consVars, envVars, cache, writes, dispatch,
                   delivered, written, expired>>

-----------------------------------------------------------------------------
ConsumerStep(c) ==
    \/ HandleConsumeNotif(c)
    \/ ConsumeSetup(c)
    \/ BasicConsume(c)
    \/ ReceiveDelivery(c)
    \/ StreamEnds(c)
    \/ SendToWs(c)
    \/ CacheNotif(c)
    \/ StoreInDb(c)

TaskStep ==
    \/ \E t \in writes : CacheWriteExists(t) \/ CacheWriteSet(t)
    \/ \E t \in dispatch : MutatorSend(t)

Environment ==
    \/ \E r \in Receivers : Publish(r)
    \/ \E k \in Receivers : ExpireKey(k)
    \/ WsReceive
    \/ WsReceiverDrop
    \/ HandleHealthMsg

Next ==
    \/ \E c \in Consumers : ConsumerStep(c)
    \/ TaskStep
    \/ Environment

(* Tokio runs every ready task and the broker and Redis answer every call  *)
(* eventually; producers, key expiry, the websocket client and shutdown   *)
(* are not obliged to do anything.                                         *)
Fairness ==
    /\ \A c \in Consumers : WF_vars(ConsumerStep(c))
    /\ WF_vars(TaskStep)

Spec == Init /\ [][Next]_vars /\ Fairness

-----------------------------------------------------------------------------
(* Properties.                                                             *)

(* Every variable holds a value of its type, and the realtime channel      *)
(* never holds more than its capacity: the bounded mpsc send at line 571   *)
(* waits instead of overfilling it.                                        *)
TypeOK ==
    /\ actorUp \in BOOLEAN
    /\ pc \in [Consumers -> Stages]
    /\ par \in [Consumers -> Params]
    /\ cur \in [Consumers -> Delivery \cup {Absent}]
    /\ cnt \in [Consumers -> Nat]
    /\ exDeclared \in BOOLEAN
    /\ bound \in SUBSET Queues
    /\ queue \in [Queues -> Seq(Msg)]
    /\ nextId \in 1..(MaxMsgs + 1)
    /\ cache \in [Receivers -> CachedList \cup {Absent}]
    /\ writes \in SUBSET WriteTask
    /\ ws \in Seq(Delivery) /\ Len(ws) <= WsCap
    /\ wsOpen \in BOOLEAN
    /\ dispatch \in SUBSET DispatchTask
    /\ delivered \in SUBSET Delivery
    /\ written \in SUBSET Delivery
    /\ expired \in SUBSET Receivers

(* The entries a consumer put in list s appear in the order in which that  *)
(* consumer received them.                                                 *)
InOrder(s) ==
    \A i, j \in 1..Len(s) :
        i < j /\ s[i].by = s[j].by => s[i].seq < s[j].seq

(* Every notif_owner:{r} list holds the notifications of each consumer in  *)
(* the order that consumer acked them, although each append is a GET in   *)
(* the loop (line 586) and a SET in a detached task (line 627) that races  *)
(* the writes of later deliveries and of other consumers.                  *)
CacheInDeliveryOrder ==
    \A k \in Receivers : cache[k] # Absent => InOrder(cache[k].val)

(* Spec 8.4: every decoded delivery of a consumer with store_in_db leads to *)
(* a StoreNotifEvent send, unless the consumer is still working on it.     *)
DurableAtLeastOnce ==
    \A d \in delivered :
        par[d.by].db =>
            \/ \E t \in dispatch : t.d = d
            \/ pc[d.by] \in {"ws", "cache", "db"} /\ cur[d.by] = d

(* Spec invariant 3: as long as notif_owner:{r} has not expired, it holds  *)
(* every notification whose cache write completed.                         *)
AppendNoLoss ==
    \A d \in written :
        d.rcv \notin expired =>
            /\ cache[d.rcv] # Absent
            /\ \E i \in 1..Len(cache[d.rcv].val) : cache[d.rcv].val[i] = d

(* Spec 3 and 4.4: notif_owner:{r} gets its TTL when it is created and     *)
(* keeps it, so every recipient list eventually expires.                   *)
RecipientKeyVolatile ==
    \A k \in Receivers : cache[k] # Absent => cache[k].ttl

(* Spec 4.4 step 4: a full realtime channel makes the consumer drop the    *)
(* notification and go on; the send never holds the consumer up for good.  *)
WsSendCompletes ==
    \A c \in Consumers : pc[c] = "ws" ~> pc[c] # "ws"


(* Spec 5: HealthMsg{shutdown: true} stops the actor and in-flight tasks   *)
(* continue to completion: a shutdown step moves no consume() invocation.  *)
ShutdownKeepsInFlight ==
    [][actorUp /\ ~actorUp' => \A c \in Consumers : pc'[c] = pc[c]]_vars

=============================================================================
