# TLA+ models of the hoopoe notification broker

This directory has TLA+ models of the notification broker in
`src/src/workers/notif/mod.rs` (`NotifBrokerActor`) and of the legacy
consumer in `src/src/actors/consumers/notif.rs` (`NotifConsumerActor`). It
also has TLC configurations that check the models on small instances, and
TLAPS proofs that hold for every value of the constants.

## The system

`NotifBrokerActor` is an actix actor. It handles three commands:

- `ProduceNotif` (the producer path). It encrypts the payload (optionally),
  caches the cipher config on Redis, declares an exchange and publishes to
  RabbitMQ.
- `ConsumeNotif` (the consumer path). It declares and binds a queue, then
  spawns a tokio task that streams deliveries. For each delivery the task:
  1. acks it;
  2. decrypts it (optionally) and decodes it into `NotifData`;
  3. sends it to three sinks, in this order:
     - a bounded tokio mpsc channel, read by the websocket handler;
     - the Redis list `notif_owner:{receiver_info}`, by a GET in the loop and
       then an EXISTS followed by SET or SET EX in a detached tokio task;
     - a `StoreNotifEvent` send to `NotifMutatorActor`, in another detached
       task.
- `HealthMsg{shutdown}`, which calls `ctx.stop()`.

Each handler returns at once. It spawns its work either into the actor
context (`local_spawn`) or on tokio. Any number of consumers can therefore
run at the same time, over the same or different queues. They share the
Redis keys, the realtime channel and the broker.

The legacy `NotifConsumerActor` does the same consuming with one loop: it
binds only to a named exchange, and reads, appends and writes the Redis list
inline before it spawns the `StoreNotifEvent` send.

Producers and consumers meet on Redis twice. The recipient lists
`notif_owner:{r}` are shared by all consumers. The encryption config
`notif_encryption_config_for_{unique_redis_id}` is written by `produce()`
with a 300 s TTL and read by the preload of `consume()`.

## Modules

### NotifConsumer.tla

This module models the consume path with no decryption config, and the
actor's dispatch of it.

**Constants**

| Constant | What it stands for |
|---|---|
| `Consumers` | one element per `ConsumeNotif` command |
| `Queues` | queue names |
| `Receivers` | receiver_info values, i.e. the Redis keys |
| `MaxMsgs` | bound on the number of publishes |
| `WsCap` | capacity of the mpsc channel |
| `RmqFaults`, `RedisFaults`, `MailboxFaults` | whether each kind of failure is possible |
| `Choices` | the command inputs (queue, `redis_cache_exp != 0`, `store_in_db`, `local_spawn`) to try |

**State**

- One program counter `pc[c]` per `consume()` invocation, with the stages
  cmd, setup, consume, stream, ws, cache, db and done.
- The environment:
  - the broker: exchange declared, bound queues, queue contents;
  - Redis: for each key, a list and whether it has a TTL;
  - the realtime channel and whether its reader is open.
- The in-flight tokio tasks: cache writes in their EXISTS or SET phase, and
  mutator sends.
- History variables (`delivered`, `written`, `expired`) and, in each
  delivery, the consumer that acked it and its sequence number. These exist
  only so that properties can be stated.

**Actions.** There is one action per await-delimited step of the code. Each
action keeps every early return of the code as a branch to "done".

| Action | Code it models |
|---|---|
| `HandleConsumeNotif` | the `ConsumeNotif` handler, lines 1133-1185 |
| `HandleHealthMsg` | `ctx.stop()`, which drops local futures that have not reached the tokio::spawn at line 401 |
| `ConsumeSetup` | pool, channel, declare and bind, lines 324-400 |
| `BasicConsume` | basic_consume, lines 401-475 |
| `ReceiveDelivery` | next, ack and decode, lines 476-557 |
| `StreamEnds` | the stream closing |
| `SendToWs` | line 571 |
| `CacheNotif` | lines 575-662: redis_pool, GET, hit or miss or error, spawn of the write |
| `StoreInDb` | lines 663-671 |
| `CacheWriteExists`, `CacheWriteSet` | the write task, lines 627-644 |
| `MutatorSend` | lines 672-700 |

`Publish` abstracts `produce()`: it declares the exchange and routes to
every bound queue (fanout). `ExpireKey`, `WsReceive` and `WsReceiverDrop`
are the environment.

### MC_NotifConsumer.tla

This module sets up the model values, the constant sets and the symmetry
that the .cfg files use.

### NotifConsumerProofs.tla

This module holds the TLAPS proofs.

### NotifSecure.tla

This module models the encryption path end to end: the `ProduceNotif`
handler and `produce()`, and the config preload and decrypt branch of
`consume()`. The realtime, cache and mutator sinks are collapsed into one
event (`sunk`), since NotifConsumer already models them.

**Data.** A notification body is a record `[m, k]`:

- `m` is the producing command;
- `k` is the key it was encrypted with, or `NoKey` for plain JSON.

A `SecureCellConfig` is a key with the cached data, which is `NoData` for
the default config. The cipher is abstracted to "a ciphertext names its key".

| Action | Code it models |
|---|---|
| `HandleProduceNotif` | handler 1015-1128 while the actor runs: encrypt, or the plaintext fallback of a `secure_cell_encrypt` error (`CipherFaults`), or no key; then `produce()` spawned into the actor context (`local_spawn`, 1112-1117, stage "local") or called at once on tokio (1119, stage "cfg") |
| `ProduceSpawn` | the running actor polls the local future (1112-1117): `produce()` reaches its own `tokio::spawn` (821) with no await on the way |
| `HandleHealthMsg` | 1189-1193: `ctx.stop()` drops the local produce futures not yet polled (stage "dropped"); produce tasks already on tokio run on, and no handler runs afterwards |
| `ProduceCacheConfig` | 821-856: `set_ex` 300 when id and data are non-empty; a pool error is logged; a `set_ex` error panics at the unwrap (840) |
| `ProducePublish` | 858-964: declare and publish, RMQ errors logged |
| `LoadConfig` | 406-454: no key, the pool-error bypass (436), the EXISTS/GET expiry race, the key gate (426-430) |
| `BasicConsume` | 456-475 |
| `ReceiveDelivery` | 476-557 and 703-716: ack, tamper compare (500-505), decrypt that leaves plaintext in the held config, decode |
| `ExpireConfig`, `Tamper` | the environment: the 300 s TTL, and a third party rewriting a queued message |

`ProduceState` maps the producer's stages onto `ProduceContract`: "idle" to
idle, "done" to done, and every other stage to pending. A dropped command
stays pending for ever.

### ProduceContract.tla

This is the abstract promise of spec 4.5. A handled command is pending until
it completes, and it completes as published or as lost on the broker.
Caching the config never stops it. `NotifSecure` instantiates it as
`Contract` with `state <- ProduceState` and `lost <- rmqLost`, and
`ProduceRefinesSafety` proves the safety part of the refinement. Its
liveness part (every pending command completes) is not checked. A shutdown
that drops a local future breaks it with any Redis, and with a healthy Redis
and no shutdown it follows from the task fairness alone.

### NotifLegacy.tla

This module models the legacy `NotifConsumerActor::consume`. Its stages are
cmd, setup, consume, stream, get, exists, write and done.

| Action | Code it models |
|---|---|
| `HandleConsumeNotif` | handler 439-459, always `tokio::spawn` |
| `ConsumeSetup` | 86-167: queue_declare, bind only if `exchange != ""` |
| `BasicConsume` | 168-186 |
| `ReceiveDelivery` | 189-203: ack and decode of a `ProduceNotif` |
| `ReadList` | 206-263: pool, GET, append (`PushedList`) or a one-element list on a GET error |
| `CheckExists` | 265-267 |
| `WriteList` | 268-286: SET, or SET EX `exp_seconds`, which Redis rejects for 0 and the unwrap panics |
| `MutatorSend` | 287-314 |

### MC_NotifSecure.tla, MC_NotifLegacy.tla

These modules set up the model values, constant sets and symmetry for the
cfgs.

### NotifSecureProofs.tla, NotifLegacyProofs.tla

These modules hold the TLAPS proofs about NotifSecure and NotifLegacy (see
Proofs).

## Runs

| run | cfg | result | what it shows |
|---|---|---|---|
| order | `NotifConsumer_order.cfg` | pass, 222k states | `TypeOK` and `CacheInDeliveryOrder` hold with 2 caching consumers, 2 queues, 3 publishes and Redis faults. The channel never overfills, and every cached list keeps each consumer's notifications in its ack order. |
| durable | `NotifConsumer_durable.cfg` | pass, 192k states | `DurableAtLeastOnce` holds with every command input, RMQ and mailbox faults and shutdown. Every decoded delivery with `store_in_db` is dispatched to the mutator, unless its consumer is still working on it. |
| lostupdate | `NotifConsumer_lostupdate.cfg` | violation | `AppendNoLoss`: one consumer loses a cached entry. |
| wsfull | `NotifConsumer_wsfull.cfg` | violation | `WsSendCompletes`: with a full channel and no reader, the consumer waits for ever at line 571. |
| shutdown | `NotifConsumer_shutdown.cfg` | violation | `ShutdownKeepsInFlight`: a shutdown drops a local consume mid-setup. |
| secure | `NotifSecure_secure.cfg` | pass, 343k states with symmetry, under 10 s | With 2 producers, 2 consumers, 2 keys, RMQ and cipher faults, tampering, an actor shutdown, local and tokio spawns, and a healthy Redis: `TypeOK`; `TamperNoSink` (a rewritten message never reaches the sinks); and `KeyConfidential` (only plain bodies or the consumer's own ciphertexts are sunk). `KeyMismatchNoConsume` is not checked here: with a healthy Redis it restates the gate's guard. Its content is the bypass that run gate_bypass shows. |
| gate_bypass | `NotifSecure_gate_bypass.cfg` | violation | `KeyMismatchNoConsume`: a pool error at 436 lets a wrong key consume. |
| config_panic | `NotifSecure_config_panic.cfg` | violation | `PublishNotBlocked`: the unwrap at 840 panics and the publish never happens. |
| stale_config | `NotifSecure_stale_config.cfg` | violation | `MatchingKeyDelivered`: a second produce under the same id overwrites the cached ciphertext, and the consumer acks and then drops the first message. |
| legacy_order | `NotifLegacy_legacy_order.cfg` | pass, 48k states | `TypeOK` and `LegacyCacheInAckOrder` hold with 2 legacy consumers, 2 queues, every input, and RMQ and Redis faults. |
| legacy_durable | `NotifLegacy_legacy_durable.cfg` | pass, 855 states | With one legacy consumer, a non-zero exp, a healthy Redis, and RMQ and mailbox faults: `ListMatchesWrites` (an unexpired list is exactly what was written) and `LegacyDurable` (every decoded delivery is dispatched or still held). |
| legacy_exp0 | `NotifLegacy_legacy_exp0.cfg` | violation | `LegacyDurable`: `redis_cache_exp = 0` makes the first write SET EX 0, and the panic loses the dispatch. |

Each violation run is a finding recorded in `PROJECT.json`. In each, the
spec says one thing and the code does another.

**Bounds**

- Two consumers and two queues cover both cases: consumers sharing a queue
  (competing) and consumers on separate queues (each gets its own copy from
  the fanout).
- Three publishes are needed because the first publish declares the
  exchange, and that publish precedes any bind. Only then can a consumer
  receive two deliveries for the same key, which is what the ordering and
  lost-update cases need.
- `WsCap = 1` makes the full-channel case reachable.
- NotifSecure uses two producers and two keys. That is the least that lets
  one produce overwrite another's config, and lets a consumer's key disagree
  with the cached one. The violation runs use one consumer where one
  suffices.
- NotifLegacy needs `MaxMsgs` of 2 or more for the same reason as above:
  the first publish only declares the exchange.
- Symmetry over consumers and queues is sound: they are model values that
  only equality distinguishes. The secure run checks a liveness property,
  so it declares no symmetry.

**Deadlock.** Every cfg disables the deadlock check. Once the messages are
handled, the consumers wait in `consumer.next()` for ever. That is the
quiescent end of the system, not an error.

## Fairness

`Spec` is weakly fair on each consumer's step and on the task steps. Tokio
runs every ready task, and the broker and Redis answer every call
eventually (there are no timeouts in the code).

The environment is not fair: producers, key expiry, the websocket reader and
shutdown need not act. That is why `WsSendCompletes` fails when nobody
reads the channel.

In NotifSecure the produce task is weakly fair: the running actor polls a
local future, then the task caches the config and publishes. Each consumer
task is weakly fair too. The `ProduceNotif` command itself, the shutdown,
the config's expiry and tampering need not happen. No NotifSecure run
checks liveness, so this fairness only matters to a reader of the spec. In
NotifLegacy the consume tasks and the
mutator sends are weakly fair.

## Proofs (checked by tlapm)

### NotifConsumerProofs.tla

- `TypeCorrect`: `Spec => []TypeOK`.
- `OrderInvariant`: `Spec => []CacheInDeliveryOrder`.
- `DurableDispatch`: `~RedisFaults => (Spec => []DurableAtLeastOnce)`.
  Its inductive invariant is `IInv /\ DurableAtLeastOnce`. A delivery leaves
  its consumer's hands only through `StoreInDb`, which dispatches it when
  `store_in_db` is set; every other step keeps consumers in the stages past
  their ack, and a mutator send keeps its delivery. The assumption is needed
  because the Redis-error return at line 658 does break the property: a
  pool error right after the ack ends the stream before the dispatch.

These theorems hold for all values of the constants that satisfy
`ConstantsAssumption`, `AbsentAssumption` and `ChoicesAssumption`.

**Why the invariant needs strengthening.** `CacheInDeliveryOrder` alone is
not inductive. A pending write task carries a list that it will later store,
so that list must already be ordered. The new entry appended by
`CacheNotif` must also be later than every entry of its consumer already in
the list.

**The inductive invariant.** `IInv` is the conjunction of:

- `TypeOK`;
- `CurOK`: a consumer past its ack holds its latest delivery, whose sequence
  number equals its counter;
- `CacheOK`: every list on Redis is ordered and made of "seen" entries;
- `WritesOK`: every list in a pending write task is ordered and made of seen
  entries.

An entry is *seen* when its sequence number is at most its consumer's
counter, and strictly below it while that consumer is between its ack and
the spawn of its write.

**The argument**

- `InitIInv` shows that the initial states satisfy `IInv`.
- `TypeStep` and `NextIInv` show that every step preserves it, with one step
  per action.
- The lemmas they rest on:
  - `AppendInOrder` and `SingletonInOrder`, about sequences;
  - `ListMono`: lists stay valid when counters only grow;
  - `FrameStep` and `MoveOne`: the actions that only move program counters.
- The theorems then follow by PTL.

### NotifSecureProofs.tla

These theorems hold for all constants that satisfy
`SecureConstantsAssumption` and `SecureAbsentAssumption`.

- `TypeCorrect`: `Spec => []TypeOK`, by `InitTypeOK` and `TypeStep`, with
  one step per action.
- `Confidentiality`: `Spec => []KeyConfidential`, under every fault.
  `KeyConfidential` alone is not inductive, because a consumer sinks what
  matches the config it holds, so the held config must be constrained too.
  The inductive invariant `KInv` adds:
  - `CfgOK` for every producer's config and for the cached config: its data
    is absent, plaintext, or a ciphertext of its own key;
  - `HeldOK`: a consumer holds data that is absent, plaintext (left by
    the Crypter decrypt), or a ciphertext of its own key.

  The gate keeps `HeldOK`, because a consumer takes a stored config only
  when its key equals the consumer's. The bypass at 436 keeps the default
  config, which holds no data.
- `ProduceRefinesSafety`: `~RedisFaults => (Spec => Contract!Init /\
  [][Contract!Next]_Contract!vars)`. `HandleProduceNotif` maps to `Issue`,
  `ProducePublish` to `Complete`, and every other step to a stutter.
  Caching the config, the actor's poll of a local future and the shutdown
  that drops one all keep the mapped state pending. The step needs only `TypeOK`.
  The assumption is needed: run config_panic shows the panic at 840.
- `TamperCheck`: `~RedisFaults => (Spec => []TamperNoSink)`.
  `TamperNoSink` is not inductive: what a consumer sinks depends on the
  config it holds and on what reached Redis. The invariant `TInv` adds:
  - `ConfigsCiphertext`: every producer's config holds no data or a
    ciphertext, and so does the config on Redis (produce() caches only a
    config with data);
  - `SunkCalled`: only a consumer that called basic_consume has sunk, and a
    gated consumer never returns to "load", so its snapshot is fixed;
  - `GatedVerified`: a gated consumer with a key whose snapshot is a config
    holds that config, or its data became `Plaintext` of that ciphertext
    after the one decrypt (line 513). Everything it sank so far is that
    ciphertext.

  With the plaintext held, a ciphertext body never equals it and a plain
  body is refused, so nothing more is sunk. The assumption is needed: the
  pool-error bypass at line 436 keeps the default config, which sinks plain
  bodies while the snapshot holds a ciphertext.

### NotifLegacyProofs.tla

These theorems hold for all constants that satisfy
`LegacyConstantsAssumption`, `LegacyChoicesAssumption` and
`LegacyAbsentAssumption`.

- `LegacyTypeCorrect`: `Spec => []TypeOK`, under every fault. `TypeOK` does
  not type the queues, so the invariant `LTypeInv` adds
  `queue \in [Queues -> Seq(Msg)]`: a queue holds what `Publish` appended,
  an id within `MaxMsgs` and a receiver. This is what makes the delivery
  built in `ReceiveDelivery` a `Delivery`.
- `LegacyAckOrder`: `Spec => []LegacyCacheInAckOrder`, under every fault and
  for any number of consumers. The invariant `OInv` is `LTypeInv` with:
  - `CurIsLast`: a consumer between its ack and its write holds its latest
    ack;
  - `ListsOK`: every cached list, and every list a consumer computed from
    its GET, is ordered and `Bounded`. Each entry's sequence number is at
    most its consumer's ack count, and strictly below it while that
    consumer is at its GET.

  So the entry a consumer pushes is later than every entry of its own in
  the list it read, whoever wrote that list. The lemmas are `AppendOK`
  (push keeps order and bound) and `BoundedMono` (bounds survive counters
  that only grow).
- `LegacyListIntact`: `~RedisFaults /\ (\E c0 : Consumers = {c0}) =>
  (Spec => []ListMatchesWrites)`. The invariant `MInv` adds
  `NeverWritten` (an unexpired key not on Redis was never written) and
  `ReadIsCurrent` (past its GET of an unexpired key, the consumer holds the
  written list with its delivery pushed). Both hypotheses are needed:
  - a GET error at line 213 starts a fresh list over the stored one;
  - two consumers' read-modify-writes interleave. This is the lost update
    of spec section 9, shown for the broker by run lostupdate.

  Run legacy_durable checks the property in exactly this setting.
- `LegacyDispatch`: `~RedisFaults /\ (\A ch \in Choices : ch.exp) =>
  (Spec => []LegacyDurable)`. `LegacyDurable` becomes inductive once a
  light shape invariant is added. `Shape` says that:
  - the program counters and inputs are typed;
  - dispatch tasks are records;
  - every decoded delivery names its consumer.

  The argument: a consumer takes a new delivery only in "stream". It gets
  back there only through `WriteList`, which spawns the send for the
  delivery it held. Under the two assumptions no step takes a writing
  consumer to "done". Both assumptions are needed: run legacy_exp0 breaks
  the property with exp 0, and a Redis error returns before the send.

**Left to TLC.** Every invariant that a passing run checks is proved above,
for all values of the constants, under the hypotheses its theorem states.
Only TLC checks the rest:

- liveness, which needs fairness and `ENABLED`, both beyond tlapm:
  `WsSendCompletes` (run wsfull);
- the properties the code violates, such as the action property
  `ShutdownKeepsInFlight` (run shutdown). For these TLC finds a
  counterexample; there is no theorem.

## Not modelled

- **The Crypter cipher.** It is not under `src/`. A ciphertext is modelled
  as the key that made it. Encrypt failures fall back to plaintext
  (`CipherFaults`), and decrypt failures end the stream.
- **The spec's `RecipientKeyVolatile` case.** NotifConsumer states that the
  plain SET of an existing key removes its TTL, but no run checks it. It is
  one deterministic step on every second write of a key, which a unit test
  reaches.
- **Routing keys** of direct and topic exchanges. The model routes every
  exchange as fanout.
- **Decoding a corrupt cached list** in the legacy consumer (notif.rs 223-235).
  Only the consumers write the key, always with valid JSON, so the branch
  is unreachable from the modelled system.
- **The HTTP API.** It parses requests and forwards commands to the actor,
  whose handlers are the models' starting points.
- **The Redis and Kafka stubs.** They have no effect.
- **Publisher confirms.** A confirm or a transport error is folded into the
  publish outcome (published, or lost on the broker).
