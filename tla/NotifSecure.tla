----------------------------- MODULE NotifSecure -----------------------------
(***************************************************************************)
(* The encrypted channel of NotifBrokerActor (src/src/workers/notif/       *)
(* mod.rs): the ProduceNotif handler that encrypts a notification with a   *)
(* caller's key, the produce() task that caches the SecureCellConfig on    *)
(* Redis under notif_encryption_config_for_{unique_redis_id} and publishes *)
(* the ciphertext, and the consume() task that loads that config once,     *)
(* checks the caller's key against it, and then compares every delivery   *)
(* with the cached ciphertext before it decrypts and decodes it.           *)
(*                                                                         *)
(* All commands use one unique_redis_id, so they share one config key.    *)
(* The consumers share one queue bound to the producers' exchange; its    *)
(* declare and bind are modelled in NotifConsumer.  A key is a model value *)
(* standing for a (secret, passphrase) pair.  What a consumer does with a *)
(* decoded notification (the three sinks of NotifConsumer) is one step,   *)
(* recorded in sunk.                                                       *)
(***************************************************************************)
EXTENDS Naturals, Sequences, FiniteSets

CONSTANTS
    Producers,     \* one element per ProduceNotif command; also its NotifData
    Consumers,     \* one element per ConsumeNotif command
    Keys,          \* (secret, passphrase) pairs callers may supply
    NoKey,         \* encryption_config / decryption_config is None
    NoData,        \* the empty data of SecureCellConfig::default()
    Absent,        \* the config key is not on Redis
    RedisFaults,   \* may the Redis pool or a Redis command fail?
    RmqFaults,     \* may the RMQ pool, channel, publish, consume or ack fail?
    CipherFaults,  \* may Wallet::secure_cell_encrypt / _decrypt fail?
    TamperFaults   \* may a third party rewrite a message on the exchange?

ASSUME SecureConstantsAssumption ==
    /\ Producers # {} /\ Consumers # {} /\ Keys # {}
    /\ NoKey \notin Keys
    /\ RedisFaults \in BOOLEAN /\ RmqFaults \in BOOLEAN
    /\ CipherFaults \in BOOLEAN /\ TamperFaults \in BOOLEAN

(* A message body on the wire: the hex of the ciphertext of NotifData m   *)
(* under key k, or (k = NoKey) the plain JSON of m.                       *)
Body == [m : Producers, k : Keys \cup {NoKey}]

(* SecureCellConfig: the hex-encoded key pair and the data buffer, which  *)
(* holds the ciphertext after encryption and the plaintext after         *)
(* decryption.                                                             *)
SecureCellConfig == [k : Keys \cup {NoKey}, data : Body \cup {NoData}]

(* Mutant: the default config built with the missing key's nil as data.  *)
DefaultConfigNull == [k |-> NoKey, data |-> Absent]

DefaultConfig == [k |-> NoKey, data |-> NoData]

ASSUME SecureAbsentAssumption ==
    Absent \notin SecureCellConfig /\ NoData \notin Body

(* Where a ProduceNotif command is: not handled; spawned into the actor   *)
(* context and not yet polled; in produce()'s tokio task caching the     *)
(* config, then publishing; ended; or dropped with the stopped actor.     *)
PStages == {"idle", "local", "cfg", "pub", "done", "dropped"}

(* A delivery as the model records it: the body and the consumer.         *)
Handled == [b : Body, by : Consumers]

VARIABLES
    actorUp,   \* NotifBrokerActor is running (no HealthMsg{shutdown:true})
    ppc,       \* [Producers -> PStages]
    pbody,     \* the payload the handler built for produce()
    pcfg,      \* the SecureCellConfig the handler passes to produce()
    cin,       \* [Consumers -> Keys \cup {NoKey}]: decryption_config input
    cpc,       \* [Consumers -> {"load", "consume", "stream", "done"}]
    ccfg,      \* the secure_cell_config a consume() task holds in memory
    cfgStore,  \* notif_encryption_config_for_{id} on Redis, or Absent
    queue,     \* the consumers' queue: Seq(Body)
    snap,      \* history: cfgStore when a consumer ran its preload
    calls,     \* history: consumers that called basic_consume
    acked,     \* history: deliveries acked
    sunk,      \* history: deliveries decoded and handed to the sinks
    published, \* history: producers whose basic_publish was routed
    rmqLost    \* history: producers whose RMQ pool, channel or publish failed

vars == <<actorUp, ppc, pbody, pcfg, cin, cpc, ccfg, cfgStore, queue, snap, calls,
          acked, sunk, published, rmqLost>>

prodVars == <<ppc, pbody, pcfg, published, rmqLost>>
consVars == <<cin, cpc, ccfg, snap, calls, acked, sunk>>

Init ==
    /\ actorUp = TRUE
    /\ ppc = [p \in Producers |-> "idle"]
    /\ pbody = [p \in Producers |-> [m |-> p, k |-> NoKey]]
    /\ pcfg = [p \in Producers |-> DefaultConfig]
    /\ cin \in [Consumers -> Keys \cup {NoKey}]
    /\ cpc = [c \in Consumers |-> "load"]
    /\ ccfg = [c \in Consumers |-> DefaultConfig]
    /\ cfgStore = Absent
    /\ queue = <<>>
    /\ snap = [c \in Consumers |-> Absent]
    /\ calls = {} /\ acked = {} /\ sunk = {}
    /\ published = {} /\ rmqLost = {}

-----------------------------------------------------------------------------
(* The ProduceNotif handler with encryption_config k.  With a key it      *)
(* encrypts NotifData; when secure_cell_encrypt fails it logs and falls   *)
(* back to the plain JSON, while the config still holds the ciphertext   *)
(* the Crypter encrypt left in data.  Without a key the config is the     *)
(* default one and unique_redis_id is empty.  With local_spawn the call  *)
(* of produce() is a future spawned into the actor context, else it runs  *)
(* at once on tokio; produce() itself moves its work into a tokio task.  *)
HandleProduceNotif(p) ==
    /\ actorUp
    /\ ppc[p] = "idle"
    /\ \E k \in Keys \cup {NoKey} :
         LET ct == [m |-> p, k |-> k]
         IN  /\ pcfg' = [pcfg EXCEPT ![p] = IF k = NoKey THEN DefaultConfig
                                            ELSE [k |-> k, data |-> ct]]
             /\ \/ pbody' = [pbody EXCEPT ![p] = ct]
                \/ /\ CipherFaults /\ k # NoKey
                   /\ pbody' = [pbody EXCEPT ![p] = [m |-> p, k |-> NoKey]]
    /\ \E local \in BOOLEAN :
         ppc' = [ppc EXCEPT ![p] = IF local THEN "local" ELSE "cfg"]
    /\ UNCHANGED <<actorUp, published, rmqLost, consVars, cfgStore, queue>>

(* The actor polls the future of a local spawn: produce() clones its      *)
(* arguments and reaches its tokio::spawn with no await on the way.      *)
ProduceSpawn(p) ==
    /\ actorUp
    /\ ppc[p] = "local"
    /\ ppc' = [ppc EXCEPT ![p] = "cfg"]
    /\ UNCHANGED <<actorUp, pbody, pcfg, published, rmqLost, consVars,
                   cfgStore, queue>>

(* HealthMsg{shutdown: true}: ctx.stop().  The futures spawned into the   *)
(* actor context and not yet polled are dropped with it; produce tasks   *)
(* already on tokio run on.  No handler runs after the stop.              *)
HandleHealthMsg ==
    /\ actorUp
    /\ actorUp' = FALSE
    /\ ppc' = [p \in Producers |-> IF ppc[p] = "local" THEN "dropped"
                                                       ELSE ppc[p]]
    /\ UNCHANGED <<pbody, pcfg, published, rmqLost, consVars, cfgStore, queue>>

(* produce(), first part: with a non-empty unique_redis_id and data, get  *)
(* a Redis connection and SET EX 300 the config.  A pool error is logged  *)
(* and the publish goes on; an error of set_ex hits .unwrap() and panics  *)
(* the produce task.                                                       *)
ProduceCacheConfig(p) ==
    /\ ppc[p] = "cfg"
    /\ \/ /\ pcfg[p].data = NoData
          /\ ppc' = [ppc EXCEPT ![p] = "pub"]
          /\ UNCHANGED cfgStore
       \/ /\ pcfg[p].data # NoData
          /\ \/ /\ cfgStore' = pcfg[p]
                /\ ppc' = [ppc EXCEPT ![p] = "pub"]
             \/ /\ RedisFaults
                /\ ppc' = [ppc EXCEPT ![p] = "pub"]
                /\ UNCHANGED cfgStore
             \/ /\ RedisFaults
                /\ ppc' = [ppc EXCEPT ![p] = "done"]
                /\ UNCHANGED cfgStore
    /\ UNCHANGED <<actorUp, pbody, pcfg, published, rmqLost, consVars, queue>>

(* produce(), second part: RMQ pool and channel, exchange_declare (its    *)
(* error is only logged), and the spawned basic_publish of the payload,   *)
(* routed to the consumers' queue.  Every RMQ error is logged and ends   *)
(* the task without a publish.                                            *)
ProducePublish(p) ==
    /\ ppc[p] = "pub"
    /\ ppc' = [ppc EXCEPT ![p] = "done"]
    /\ \/ /\ queue' = Append(queue, pbody[p])
          /\ published' = published \cup {p}
          /\ UNCHANGED rmqLost
       \/ /\ RmqFaults
          /\ rmqLost' = rmqLost \cup {p}
          /\ UNCHANGED <<queue, published>>
    /\ UNCHANGED <<actorUp, pbody, pcfg, consVars, cfgStore>>

-----------------------------------------------------------------------------
(* Mutant: the preload without the key comparison of lines 426-430.      *)
LoadConfigNoGate(c) ==
    /\ cpc[c] = "load"
    /\ snap' = [snap EXCEPT ![c] = cfgStore]
    /\ LET stored == IF cfgStore = Absent THEN DefaultConfig ELSE cfgStore
       IN \/ /\ cin[c] = NoKey
             /\ cpc' = [cpc EXCEPT ![c] = "consume"]
             /\ UNCHANGED ccfg
          \/ /\ cin[c] # NoKey /\ RedisFaults
             /\ cpc' = [cpc EXCEPT ![c] = "consume"]
             /\ UNCHANGED ccfg
          \/ /\ cin[c] # NoKey
             /\ ccfg' = [ccfg EXCEPT ![c] = stored]
             /\ cpc' = [cpc EXCEPT ![c] = "consume"]
    /\ UNCHANGED <<actorUp, cin, calls, acked, sunk, prodVars, cfgStore, queue>>

(* consume(), the decryption-config preload at the start of the streaming *)
(* task.  With a decryption_config: on a Redis pool error log and go on   *)
(* with the default config; otherwise EXISTS and GET (both .unwrap()), the *)
(* default config when the key is missing, and return when the caller's   *)
(* hex key pair differs from the loaded one.  The key can expire between  *)
(* EXISTS and GET; GET then answers nil, whose conversion to String fails *)
(* the unwrap and panics the task.                                        *)
LoadConfig(c) ==
    /\ cpc[c] = "load"
    /\ snap' = [snap EXCEPT ![c] = cfgStore]
    /\ LET stored == IF cfgStore = Absent THEN DefaultConfig ELSE cfgStore
       IN \/ /\ cin[c] = NoKey
             /\ cpc' = [cpc EXCEPT ![c] = "consume"]
             /\ UNCHANGED <<ccfg, cfgStore>>
          \/ /\ cin[c] # NoKey /\ RedisFaults
             /\ cpc' = [cpc EXCEPT ![c] = "consume"]
             /\ UNCHANGED <<ccfg, cfgStore>>
          \/ /\ cin[c] # NoKey /\ RedisFaults
             /\ cpc' = [cpc EXCEPT ![c] = "done"]
             /\ UNCHANGED <<ccfg, cfgStore>>
          \/ /\ cin[c] # NoKey /\ cfgStore # Absent
             /\ cfgStore' = Absent
             /\ cpc' = [cpc EXCEPT ![c] = "done"]
             /\ UNCHANGED ccfg
          \/ /\ cin[c] # NoKey /\ stored.k # cin[c]
             /\ cpc' = [cpc EXCEPT ![c] = "done"]
             /\ UNCHANGED <<ccfg, cfgStore>>
          \/ /\ cin[c] # NoKey /\ stored.k = cin[c]
             /\ ccfg' = [ccfg EXCEPT ![c] = stored]
             /\ cpc' = [cpc EXCEPT ![c] = "consume"]
             /\ UNCHANGED cfgStore
    /\ UNCHANGED <<actorUp, cin, calls, acked, sunk, prodVars, queue>>

(* basic_consume on the queue; on error the task returns.                 *)
BasicConsume(c) ==
    /\ cpc[c] = "consume"
    /\ calls' = calls \cup {c}
    /\ \/ cpc' = [cpc EXCEPT ![c] = "stream"]
       \/ RmqFaults /\ cpc' = [cpc EXCEPT ![c] = "done"]
    /\ UNCHANGED <<actorUp, cin, ccfg, snap, acked, sunk, prodVars, cfgStore,
                   queue>>

(* Mutant: only the lengths compared; every ciphertext of a NotifData has *)
(* the same length.                                                        *)
MatchesByLength(b, cfg) == TRUE

(* The tamper check: the hex-decoded body must equal the cached data     *)
(* buffer byte for byte and in length.                                    *)
MatchesCached(b, cfg) == b = cfg.data

(* One delivery: next, ack, then the decrypt branch when the config holds *)
(* data, else the body taken as plain JSON; then the serde decode.  In    *)
(* the decrypt branch a body that is not hex panics at hex::decode's      *)
(* unwrap, a body other than the cached ciphertext returns ("CHANNEL IS   *)
(* NOT SAFE"), and the Crypter decrypt leaves the plaintext in the held   *)
(* config's data; if secure_cell_decrypt then fails the raw body is       *)
(* decoded, which fails.  A decode error returns.  A decoded notification *)
(* goes to the sinks and the loop takes the next delivery.                *)
ReceiveDelivery(c) ==
    /\ cpc[c] = "stream"
    /\ queue # <<>>
    /\ LET b     == Head(queue)
           cfg   == ccfg[c]
           sink  == /\ sunk' = sunk \cup {[b |-> b, by |-> c]}
                    /\ UNCHANGED cpc
           stop  == /\ cpc' = [cpc EXCEPT ![c] = "done"]
                    /\ UNCHANGED sunk
       IN /\ queue' = Tail(queue)
          /\ \/ /\ RmqFaults
                /\ stop /\ UNCHANGED <<acked, ccfg>>
             \/ /\ acked' = acked \cup {[b |-> b, by |-> c]}
                /\ \/ /\ cfg.data = NoData
                      /\ IF b.k = NoKey THEN sink ELSE stop
                      /\ UNCHANGED ccfg
                   \/ /\ cfg.data # NoData
                      /\ \/ b.k = NoKey \/ ~MatchesCached(b, cfg)
                      /\ stop /\ UNCHANGED ccfg
                   \/ /\ cfg.data # NoData
                      /\ b.k # NoKey /\ MatchesCached(b, cfg)
                      /\ ccfg' = [ccfg EXCEPT ![c].data =
                                                 [m |-> b.m, k |-> NoKey]]
                      /\ \/ sink
                         \/ CipherFaults /\ stop
    /\ UNCHANGED <<actorUp, cin, snap, calls, prodVars, cfgStore>>

-----------------------------------------------------------------------------
(* Environment: the 300 s TTL of the config key runs out, and a third     *)
(* party with access to the exchange replaces a queued message with a    *)
(* plain JSON notification of its choosing.                               *)
ExpireConfig ==
    /\ cfgStore # Absent
    /\ cfgStore' = Absent
    /\ UNCHANGED <<actorUp, prodVars, consVars, queue>>

Tamper ==
    /\ TamperFaults
    /\ \E i \in 1..Len(queue), p \in Producers :
         /\ queue[i] # [m |-> p, k |-> NoKey]
         /\ queue' = [queue EXCEPT ![i] = [m |-> p, k |-> NoKey]]
    /\ UNCHANGED <<actorUp, prodVars, consVars, cfgStore>>

ProducerStep(p) ==
    \/ HandleProduceNotif(p) \/ ProduceSpawn(p)
    \/ ProduceCacheConfig(p) \/ ProducePublish(p)

ConsumerStep(c) ==
    LoadConfig(c) \/ BasicConsume(c) \/ ReceiveDelivery(c)

Next ==
    \/ \E p \in Producers : ProducerStep(p)
    \/ \E c \in Consumers : ConsumerStep(c)
    \/ HandleHealthMsg
    \/ ExpireConfig
    \/ Tamper

(* Tokio runs every spawned task, a running actor polls its futures, and  *)
(* the broker and Redis answer: the producer and consumer tasks are      *)
(* weakly fair.  Commands, shutdown, expiry and tampering need not happen.*)
Fairness ==
    /\ \A p \in Producers :
         WF_vars(ProduceSpawn(p) \/ ProduceCacheConfig(p) \/ ProducePublish(p))
    /\ \A c \in Consumers : WF_vars(ConsumerStep(c))

Spec == Init /\ [][Next]_vars /\ Fairness

-----------------------------------------------------------------------------
TypeOK ==
    /\ actorUp \in BOOLEAN
    /\ ppc \in [Producers -> PStages]
    /\ pbody \in [Producers -> Body]
    /\ pcfg \in [Producers -> SecureCellConfig]
    /\ cin \in [Consumers -> Keys \cup {NoKey}]
    /\ cpc \in [Consumers -> {"load", "consume", "stream", "done"}]
    /\ ccfg \in [Consumers -> SecureCellConfig]
    /\ cfgStore \in SecureCellConfig \cup {Absent}
    /\ queue \in Seq(Body)
    /\ snap \in [Consumers -> SecureCellConfig \cup {Absent}]
    /\ calls \subseteq Consumers
    /\ acked \subseteq Handled /\ sunk \subseteq Handled
    /\ published \subseteq Producers /\ rmqLost \subseteq Producers

(* A consumer whose decryption key disagrees with the config it found on  *)
(* Redis when its task started.                                           *)
Mismatched(c) ==
    cin[c] # NoKey /\ snap[c] # Absent /\ snap[c].k # cin[c]

(* Spec 8.5, the key gate of consume() (lines 406-431): a consumer whose  *)
(* key disagrees with the stored SecureCellConfig never calls            *)
(* basic_consume.                                                          *)
KeyMismatchNoConsume ==
    \A c \in calls : ~Mismatched(c)

(* Spec 8.6, the tamper check at lines 500-505: a consumer with a        *)
(* decryption config that found a config on Redis hands to the sinks only *)
(* bodies equal to the ciphertext of that config.                         *)
TamperNoSink ==
    \A h \in sunk :
        cin[h.by] # NoKey /\ snap[h.by] # Absent => h.b = snap[h.by].data

(* Spec 4.5: caching the config is best-effort, a Redis failure there is  *)
(* logged and does not block the publish (produce(), lines 826-856): a    *)
(* produce task that ends has published, or failed on RMQ.               *)
PublishNotBlocked ==
    \A p \in Producers : ppc[p] = "done" => p \in published \cup rmqLost

(* Spec 2 (the TTL bounds how long a consumer has to pick up messages     *)
(* after the matching produce) and example E2: a consumer holding the    *)
(* producer's key that acks a notification encrypted under that key      *)
(* decrypts it and hands it to the sinks (the loop of lines 476-541).    *)
MatchingKeyDelivered ==
    \A a \in acked : a.b.k = cin[a.by] /\ a.b.k # NoKey => a \in sunk

(* Confidentiality of the key gate and the tamper check together: a       *)
(* consumer hands to the sinks only plain notifications or ciphertexts    *)
(* made with its own decryption key.  The code decrypts with the keys of *)
(* the config loaded from Redis (line 522), not the caller's, so only the *)
(* gate of lines 426-430 ties the two.                                    *)
KeyConfidential ==
    \A h \in sunk : h.b.k # NoKey => h.b.k = cin[h.by]

(* The produce side seen through ProduceContract: a command is pending    *)
(* from the handler until its produce task ends.                          *)
(* A command whose local future was dropped by the stop stays pending: the *)
(* contract's safety holds of it, its liveness does not.                  *)
ProduceState ==
    [p \in Producers |-> IF ppc[p] = "idle" THEN "idle"
                         ELSE IF ppc[p] = "done" THEN "done" ELSE "pending"]

Contract == INSTANCE ProduceContract
              WITH state <- ProduceState, published <- published,
                   lost <- rmqLost
====
