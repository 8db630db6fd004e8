-------------------------- MODULE NotifSecureProofs --------------------------
(***************************************************************************)
(* Proofs about NotifSecure: type correctness; that a consumer only ever  *)
(* delivers notifications encrypted with its own key, whatever fails;     *)
(* and, without Redis failures, that a consumer that found a config sinks *)
(* only its ciphertext and that the produce path refines ProduceContract *)
(* (its safety part).                                                     *)
(***************************************************************************)
EXTENDS NotifSecure, SequenceTheorems, TLAPS

USE SecureConstantsAssumption, SecureAbsentAssumption

CStages == {"load", "consume", "stream", "done"}

-----------------------------------------------------------------------------
LEMMA InitTypeOK == Init => TypeOK
<1> SUFFICES ASSUME Init PROVE TypeOK
  OBVIOUS
<1>1. <<>> \in Seq(Body)
  BY EmptySeq
<1>2. DefaultConfig \in SecureCellConfig
  BY DEF DefaultConfig, SecureCellConfig
<1>3. \A p \in Producers : [m |-> p, k |-> NoKey] \in Body
  BY DEF Body
<1>4. QED
  BY <1>1, <1>2, <1>3 DEF Init, TypeOK, PStages

(* The new value of a consumer's held config after a delivery it          *)
(* verified: the plaintext of that delivery.                              *)
LEMMA PlainBody ==
    ASSUME NEW b \in Body PROVE [m |-> b.m, k |-> NoKey] \in Body
BY DEF Body

LEMMA TypeStep == TypeOK /\ [Next]_vars => TypeOK'
<1> SUFFICES ASSUME TypeOK, [Next]_vars PROVE TypeOK'
  OBVIOUS
<1>1. ASSUME NEW p \in Producers, HandleProduceNotif(p) PROVE TypeOK'
  <2>1. PICK k \in Keys \cup {NoKey} :
          /\ pcfg' = [pcfg EXCEPT ![p] = IF k = NoKey THEN DefaultConfig
                                         ELSE [k |-> k, data |-> [m |-> p, k |-> k]]]
          /\ \/ pbody' = [pbody EXCEPT ![p] = [m |-> p, k |-> k]]
             \/ pbody' = [pbody EXCEPT ![p] = [m |-> p, k |-> NoKey]]
    BY <1>1 DEF HandleProduceNotif
  <2>2. [m |-> p, k |-> k] \in Body /\ [m |-> p, k |-> NoKey] \in Body
    BY DEF Body
  <2>3. pcfg' \in [Producers -> SecureCellConfig]
    BY <2>1, <2>2 DEF TypeOK, SecureCellConfig, DefaultConfig
  <2>4. pbody' \in [Producers -> Body]
    BY <2>1, <2>2 DEF TypeOK
  <2>5. ppc' \in [Producers -> PStages]
    BY <1>1 DEF HandleProduceNotif, TypeOK, PStages
  <2>6. QED
    BY <1>1, <2>3, <2>4, <2>5 DEF HandleProduceNotif, TypeOK, PStages,
       consVars
<1>2. ASSUME NEW p \in Producers, ProduceCacheConfig(p) PROVE TypeOK'
  BY <1>2 DEF ProduceCacheConfig, TypeOK, PStages, consVars
<1>11. ASSUME NEW p \in Producers, ProduceSpawn(p) PROVE TypeOK'
  BY <1>11 DEF ProduceSpawn, TypeOK, PStages, consVars
<1>12. CASE HandleHealthMsg
  BY <1>12 DEF HandleHealthMsg, TypeOK, PStages, consVars
<1>3. ASSUME NEW p \in Producers, ProducePublish(p) PROVE TypeOK'
  <2>1. queue' \in Seq(Body)
    <3>1. queue' = Append(queue, pbody[p]) \/ queue' = queue
      BY <1>3 DEF ProducePublish
    <3>2. pbody[p] \in Body /\ queue \in Seq(Body)
      BY DEF TypeOK
    <3>3. Append(queue, pbody[p]) \in Seq(Body)
      BY <3>2, AppendProperties
    <3>4. QED
      BY <3>1, <3>2, <3>3
  <2>2. QED
    BY <1>3, <2>1 DEF ProducePublish, TypeOK, PStages, consVars
<1>4. ASSUME NEW c \in Consumers, LoadConfig(c) PROVE TypeOK'
  <2>1. DefaultConfig \in SecureCellConfig
    BY DEF DefaultConfig, SecureCellConfig
  <2>2. ccfg' \in [Consumers -> SecureCellConfig]
    BY <1>4, <2>1 DEF LoadConfig, TypeOK
  <2>3. cfgStore' \in SecureCellConfig \cup {Absent}
    BY <1>4 DEF LoadConfig, TypeOK
  <2>4. cpc' \in [Consumers -> CStages]
    BY <1>4 DEF LoadConfig, TypeOK, CStages
  <2>5. snap' \in [Consumers -> SecureCellConfig \cup {Absent}]
    BY <1>4 DEF LoadConfig, TypeOK
  <2>6. QED
    BY <1>4, <2>2, <2>3, <2>4, <2>5 DEF LoadConfig, TypeOK, CStages,
       prodVars
<1>5. ASSUME NEW c \in Consumers, BasicConsume(c) PROVE TypeOK'
  BY <1>5 DEF BasicConsume, TypeOK, prodVars
<1>6. ASSUME NEW c \in Consumers, ReceiveDelivery(c) PROVE TypeOK'
  <2> DEFINE b == Head(queue)
  <2>1. b \in Body /\ Tail(queue) \in Seq(Body)
    BY <1>6, HeadTailProperties DEF ReceiveDelivery, TypeOK
  <2>2. [b |-> b, by |-> c] \in Handled
    BY <2>1 DEF Handled
  <2>3. [m |-> b.m, k |-> NoKey] \in Body
    BY <2>1, PlainBody
  <2>4. ccfg' \in [Consumers -> SecureCellConfig]
    <3>1. \/ ccfg' = ccfg
          \/ ccfg' = [ccfg EXCEPT ![c].data = [m |-> b.m, k |-> NoKey]]
      BY <1>6 DEF ReceiveDelivery
    <3>2. ccfg[c] \in SecureCellConfig
      BY DEF TypeOK
    <3>3. [ccfg[c] EXCEPT !.data = [m |-> b.m, k |-> NoKey]] \in SecureCellConfig
      BY <3>2, <2>3 DEF SecureCellConfig
    <3>4. [ccfg EXCEPT ![c].data = [m |-> b.m, k |-> NoKey]]
            = [ccfg EXCEPT ![c] = [ccfg[c] EXCEPT !.data = [m |-> b.m, k |-> NoKey]]]
      OBVIOUS
    <3>5. QED
      BY <3>1, <3>3, <3>4 DEF TypeOK
  <2>5. acked' \subseteq Handled /\ sunk' \subseteq Handled
    BY <1>6, <2>2 DEF ReceiveDelivery, TypeOK
  <2>6. cpc' \in [Consumers -> CStages]
    BY <1>6 DEF ReceiveDelivery, TypeOK, CStages
  <2>7. QED
    BY <1>6, <2>1, <2>4, <2>5, <2>6 DEF ReceiveDelivery, TypeOK, CStages,
       prodVars
<1>7. CASE ExpireConfig
  BY <1>7 DEF ExpireConfig, TypeOK, prodVars, consVars
<1>8. CASE Tamper
  <2>1. PICK i \in 1..Len(queue), p \in Producers :
          queue' = [queue EXCEPT ![i] = [m |-> p, k |-> NoKey]]
    BY <1>8 DEF Tamper
  <2>2. [m |-> p, k |-> NoKey] \in Body
    BY DEF Body
  <2>3. queue' \in Seq(Body)
    BY <2>1, <2>2 DEF TypeOK
  <2>4. QED
    BY <1>8, <2>3 DEF Tamper, TypeOK, prodVars, consVars
<1>9. CASE UNCHANGED vars
  BY <1>9 DEF vars, TypeOK
<1>10. QED
  BY <1>1, <1>2, <1>3, <1>4, <1>5, <1>6, <1>7, <1>8, <1>9, <1>11, <1>12
  DEF Next, ProducerStep, ConsumerStep

THEOREM TypeCorrect == Spec => []TypeOK
<1>1. Init => TypeOK
  BY InitTypeOK
<1>2. TypeOK /\ [Next]_vars => TypeOK'
  BY TypeStep
<1>3. QED
  BY <1>1, <1>2, PTL DEF Spec

-----------------------------------------------------------------------------
(* Confidentiality.  A config is well formed when the data it holds, if   *)
(* any, is plaintext or a ciphertext made with its own key: every config  *)
(* the ProduceNotif handler builds is, and so then is the one on Redis.  *)
(* A consumer holds only configs of its own key, or the plaintext its    *)
(* decrypt left in one.                                                   *)
CfgOK(cfg) == cfg.data = NoData \/ cfg.data.k = NoKey \/ cfg.data.k = cfg.k

HeldOK ==
    \A c \in Consumers :
        ccfg[c].data = NoData \/ ccfg[c].data.k = NoKey
            \/ ccfg[c].data.k = cin[c]

KInv ==
    /\ TypeOK
    /\ \A p \in Producers : CfgOK(pcfg[p])
    /\ cfgStore # Absent => CfgOK(cfgStore)
    /\ HeldOK
    /\ KeyConfidential

LEMMA InitKInv == Init => KInv
BY InitTypeOK DEF Init, KInv, CfgOK, HeldOK, KeyConfidential, DefaultConfig

LEMMA NextKInv == KInv /\ [Next]_vars => KInv'
<1> SUFFICES ASSUME KInv, [Next]_vars PROVE KInv'
  OBVIOUS
<1>0. TypeOK'
  BY TypeStep DEF KInv
<1>1. ASSUME NEW p \in Producers, HandleProduceNotif(p) PROVE KInv'
  <2>1. \A q \in Producers : CfgOK(pcfg'[q])
    BY <1>1 DEF HandleProduceNotif, KInv, TypeOK, CfgOK, DefaultConfig
  <2>2. QED
    BY <1>0, <1>1, <2>1 DEF HandleProduceNotif, KInv, HeldOK, KeyConfidential,
       consVars
<1>2. ASSUME NEW p \in Producers, ProduceCacheConfig(p) PROVE KInv'
  BY <1>0, <1>2 DEF ProduceCacheConfig, KInv, HeldOK, KeyConfidential, consVars
<1>11. ASSUME NEW p \in Producers, ProduceSpawn(p) PROVE KInv'
  BY <1>0, <1>11 DEF ProduceSpawn, KInv, HeldOK, KeyConfidential, consVars
<1>12. CASE HandleHealthMsg
  BY <1>0, <1>12 DEF HandleHealthMsg, KInv, HeldOK, KeyConfidential, consVars
<1>3. ASSUME NEW p \in Producers, ProducePublish(p) PROVE KInv'
  BY <1>0, <1>3 DEF ProducePublish, KInv, HeldOK, KeyConfidential, consVars
<1>4. ASSUME NEW c \in Consumers, LoadConfig(c) PROVE KInv'
  <2> DEFINE stored == IF cfgStore = Absent THEN DefaultConfig ELSE cfgStore
  <2>1. CfgOK(stored)
    BY DEF KInv, CfgOK, DefaultConfig
  <2>2. ccfg' = ccfg \/ (ccfg' = [ccfg EXCEPT ![c] = stored] /\ stored.k = cin[c])
    BY <1>4 DEF LoadConfig
  <2>3. HeldOK'
    BY <1>4, <2>1, <2>2 DEF LoadConfig, KInv, HeldOK, TypeOK, CfgOK
  <2>4. QED
    BY <1>0, <1>4, <2>3 DEF LoadConfig, KInv, KeyConfidential, CfgOK, prodVars
<1>5. ASSUME NEW c \in Consumers, BasicConsume(c) PROVE KInv'
  BY <1>0, <1>5 DEF BasicConsume, KInv, HeldOK, KeyConfidential, prodVars
<1>6. ASSUME NEW c \in Consumers, ReceiveDelivery(c) PROVE KInv'
  <2> DEFINE b == Head(queue)
  <2>1. b \in Body
    BY <1>6, HeadTailProperties DEF ReceiveDelivery, TypeOK, KInv
  <2>2. sunk' = sunk \/ sunk' = sunk \cup {[b |-> b, by |-> c]}
    BY <1>6 DEF ReceiveDelivery
  <2>3. sunk' # sunk => b.k = NoKey \/ b.k = cin[c]
    BY <1>6 DEF ReceiveDelivery, MatchesCached, KInv, HeldOK
  <2>4. KeyConfidential'
    BY <1>6, <2>2, <2>3 DEF ReceiveDelivery, KInv, KeyConfidential
  <2>5. HeldOK'
    <3>1. \/ ccfg' = ccfg
          \/ ccfg' = [ccfg EXCEPT ![c].data = [m |-> b.m, k |-> NoKey]]
      BY <1>6 DEF ReceiveDelivery
    <3>2. UNCHANGED cin
      BY <1>6 DEF ReceiveDelivery
    <3>3. CASE ccfg' = ccfg
      BY <3>2, <3>3 DEF KInv, HeldOK
    <3>4. CASE ccfg' = [ccfg EXCEPT ![c].data = [m |-> b.m, k |-> NoKey]]
      <4>1. ccfg'[c].data.k = NoKey
        BY <3>4 DEF KInv, TypeOK
      <4>2. \A d \in Consumers \ {c} : ccfg'[d] = ccfg[d]
        BY <3>4 DEF KInv, TypeOK
      <4>3. QED
        BY <3>2, <4>1, <4>2 DEF KInv, HeldOK
    <3>5. QED
      BY <3>1, <3>3, <3>4
  <2>6. QED
    BY <1>0, <1>6, <2>4, <2>5 DEF ReceiveDelivery, KInv, prodVars
<1>7. CASE ExpireConfig
  BY <1>0, <1>7 DEF ExpireConfig, KInv, HeldOK, KeyConfidential, prodVars,
     consVars
<1>8. CASE Tamper
  BY <1>0, <1>8 DEF Tamper, KInv, HeldOK, KeyConfidential, prodVars, consVars
<1>9. CASE UNCHANGED vars
  BY <1>0, <1>9 DEF vars, KInv, HeldOK, KeyConfidential, CfgOK
<1>10. QED
  BY <1>1, <1>2, <1>3, <1>4, <1>5, <1>6, <1>7, <1>8, <1>9, <1>11, <1>12
  DEF Next, ProducerStep, ConsumerStep

(* Whatever fails (Redis, RMQ, the cipher) and whoever rewrites messages  *)
(* on the exchange, a consumer only ever hands to its sinks plain         *)
(* notifications and ciphertexts made with its own decryption key.        *)
THEOREM Confidentiality == Spec => []KeyConfidential
<1>1. Init => KInv
  BY InitKInv
<1>2. KInv /\ [Next]_vars => KInv'
  BY NextKInv
<1>3. KInv => KeyConfidential
  BY DEF KInv
<1>4. QED
  BY <1>1, <1>2, <1>3, PTL DEF Spec

-----------------------------------------------------------------------------
(* The produce path refines ProduceContract (its safety part).  The      *)
(* handler is Issue, the publish is Complete, and every other step,      *)
(* caching the config included, leaves the mapped state alone.  A local *)
(* future the shutdown drops stays pending.                               *)
LEMMA InitRefines == Init => Contract!Init
BY DEF Init, Contract!Init, ProduceState

LEMMA StepRefines ==
    ~RedisFaults /\ TypeOK /\ [Next]_vars => [Contract!Next]_Contract!vars
<1> SUFFICES ASSUME ~RedisFaults, TypeOK, [Next]_vars
             PROVE [Contract!Next]_Contract!vars
  OBVIOUS
<1> DEFINE Stutter == UNCHANGED <<ppc, published, rmqLost>>
<1>1. Stutter => UNCHANGED Contract!vars
  BY DEF Contract!vars, ProduceState
<1>2. ASSUME NEW p \in Producers, HandleProduceNotif(p) PROVE Contract!Issue(p)
  <2>1. /\ ppc[p] = "idle"
        /\ \/ ppc' = [ppc EXCEPT ![p] = "local"]
           \/ ppc' = [ppc EXCEPT ![p] = "cfg"]
        /\ UNCHANGED <<published, rmqLost>>
    BY <1>2 DEF HandleProduceNotif
  <2>2. ProduceState' = [ProduceState EXCEPT ![p] = "pending"]
    BY <2>1 DEF ProduceState, TypeOK
  <2>3. QED
    BY <2>1, <2>2 DEF Contract!Issue, ProduceState
<1>3. ASSUME NEW p \in Producers, ProduceCacheConfig(p)
     PROVE UNCHANGED Contract!vars
  <2>1. ppc' = [ppc EXCEPT ![p] = "pub"] /\ ppc[p] = "cfg"
    BY <1>3 DEF ProduceCacheConfig
  <2>2. ProduceState' = ProduceState
    BY <2>1 DEF ProduceState, TypeOK
  <2>3. UNCHANGED <<published, rmqLost>>
    BY <1>3 DEF ProduceCacheConfig
  <2>4. QED
    BY <2>2, <2>3 DEF Contract!vars
<1>4. ASSUME NEW p \in Producers, ProducePublish(p) PROVE Contract!Complete(p)
  BY <1>4 DEF ProducePublish, Contract!Complete, ProduceState, TypeOK
<1>6. ASSUME NEW p \in Producers, ProduceSpawn(p) PROVE UNCHANGED Contract!vars
  <2>1. ppc' = [ppc EXCEPT ![p] = "cfg"] /\ ppc[p] = "local"
    BY <1>6 DEF ProduceSpawn
  <2>2. ProduceState' = ProduceState
    BY <2>1 DEF ProduceState, TypeOK
  <2>3. QED
    BY <1>6, <2>2 DEF ProduceSpawn, Contract!vars
<1>7. CASE HandleHealthMsg
  <2>1. ProduceState' = ProduceState
    BY <1>7 DEF HandleHealthMsg, ProduceState, TypeOK
  <2>2. QED
    BY <1>7, <2>1 DEF HandleHealthMsg, Contract!vars
<1>5. QED
  BY <1>1, <1>2, <1>3, <1>4, <1>6, <1>7
  DEF Next, ProducerStep, ConsumerStep, LoadConfig, BasicConsume,
      ReceiveDelivery, ExpireConfig, Tamper, vars, prodVars, consVars,
      Contract!Next

(* Without Redis errors (the panic at line 840), every behaviour of the   *)
(* produce path is a behaviour of ProduceContract: a handled command     *)
(* stays pending until its publish, which either reaches the exchange or *)
(* is lost on the broker.  Its liveness part does not hold: a shutdown   *)
(* drops a local future before produce() reaches its tokio::spawn.       *)
THEOREM ProduceRefinesSafety ==
    ~RedisFaults => (Spec => Contract!Init /\ [][Contract!Next]_Contract!vars)
<1> SUFFICES ASSUME ~RedisFaults
             PROVE Spec => Contract!Init /\ [][Contract!Next]_Contract!vars
  OBVIOUS
<1>1. Init => TypeOK /\ Contract!Init
  BY InitTypeOK, InitRefines
<1>2. TypeOK /\ [Next]_vars => TypeOK'
  BY TypeStep
<1>3. TypeOK /\ [Next]_vars => [Contract!Next]_Contract!vars
  BY StepRefines
<1>4. QED
  BY <1>1, <1>2, <1>3, PTL DEF Spec

-----------------------------------------------------------------------------
(* The tamper check.  A config that reaches Redis holds a ciphertext: the *)
(* handler builds data only with a key, and produce() caches only a      *)
(* config with data.  A gated consumer with a key that found a config     *)
(* holds that config, or the plaintext its decrypt left in it; so far it *)
(* has sunk only the config's ciphertext, and with the plaintext held no  *)
(* ciphertext matches again.                                              *)
Ciphertext(cfg) == cfg.data # NoData /\ cfg.data.k \in Keys

(* A consumer that has passed the preload, or has called basic_consume.  *)
Gated(c) == c \in calls \/ cpc[c] \in {"consume", "stream"}

Plaintext(cfg) == [m |-> cfg.data.m, k |-> NoKey]

ConfigsCiphertext ==
    /\ \A p \in Producers : pcfg[p].data = NoData \/ Ciphertext(pcfg[p])
    /\ cfgStore # Absent => Ciphertext(cfgStore)

(* Only a streaming consumer sinks, and it has called basic_consume; the  *)
(* preload is never run again once passed.                               *)
SunkCalled ==
    /\ \A c \in Consumers : cpc[c] = "stream" => c \in calls
    /\ \A h \in sunk : h.by \in calls
    /\ \A c \in Consumers : Gated(c) => cpc[c] # "load"

Verified(c) ==
    /\ Ciphertext(snap[c])
    /\ ccfg[c] = snap[c] \/ ccfg[c].data = Plaintext(snap[c])
    /\ \A h \in sunk : h.by = c => h.b = snap[c].data

GatedVerified ==
    \A c \in Consumers :
        Gated(c) /\ cin[c] # NoKey /\ snap[c] # Absent => Verified(c)

TInv == TypeOK /\ ConfigsCiphertext /\ SunkCalled /\ GatedVerified

LEMMA InitTInv == Init => TInv
BY InitTypeOK DEF Init, TInv, ConfigsCiphertext, SunkCalled, GatedVerified,
   Gated, DefaultConfig

LEMMA NextTInv == ~RedisFaults /\ TInv /\ [Next]_vars => TInv'
<1> SUFFICES ASSUME ~RedisFaults, TInv, [Next]_vars PROVE TInv'
  OBVIOUS
<1>0. TypeOK'
  BY TypeStep DEF TInv
<1>1. UNCHANGED consVars => SunkCalled' /\ GatedVerified'
  BY DEF consVars, TInv, SunkCalled, GatedVerified, Gated, Verified,
     Ciphertext, Plaintext
<1>2. ASSUME NEW p \in Producers, ProducerStep(p) PROVE TInv'
  <2>1. UNCHANGED consVars
    BY <1>2 DEF ProducerStep, HandleProduceNotif, ProduceSpawn,
       ProduceCacheConfig, ProducePublish
  <2>2. ConfigsCiphertext'
    BY <1>2 DEF ProducerStep, HandleProduceNotif, ProduceSpawn,
       ProduceCacheConfig, ProducePublish, TInv, TypeOK, ConfigsCiphertext, Ciphertext,
       DefaultConfig
  <2>3. QED
    BY <1>0, <1>1, <2>1, <2>2 DEF TInv
<1>3. ASSUME NEW c \in Consumers, LoadConfig(c) PROVE TInv'
  <2> DEFINE stored == IF cfgStore = Absent THEN DefaultConfig ELSE cfgStore
  <2>1. /\ ~Gated(c)
        /\ \A h \in sunk : h.by # c
    BY <1>3 DEF LoadConfig, TInv, SunkCalled, Gated
  <2>2. /\ snap' = [snap EXCEPT ![c] = cfgStore]
        /\ cpc'[c] \in {"consume", "done"}
        /\ \A d \in Consumers \ {c} : cpc'[d] = cpc[d] /\ ccfg'[d] = ccfg[d]
        /\ UNCHANGED <<cin, calls, sunk>>
    BY <1>3 DEF LoadConfig, TInv, TypeOK
  <2>3. cpc'[c] = "consume" /\ cin[c] # NoKey => ccfg'[c] = stored
    BY <1>3 DEF LoadConfig, TInv, TypeOK
  <2>4. ConfigsCiphertext'
    <3>1. UNCHANGED pcfg /\ (cfgStore' = cfgStore \/ cfgStore' = Absent)
      BY <1>3 DEF LoadConfig, prodVars
    <3>2. QED
      BY <3>1 DEF TInv, ConfigsCiphertext
  <2>5. SunkCalled'
    BY <2>1, <2>2 DEF TInv, SunkCalled, Gated, TypeOK
  <2>6. Verified(c)' \/ ~(Gated(c)' /\ cin'[c] # NoKey /\ snap'[c] # Absent)
    <3> SUFFICES ASSUME Gated(c)', cin'[c] # NoKey, snap'[c] # Absent
                 PROVE Verified(c)'
      OBVIOUS
    <3>1. cpc'[c] = "consume" /\ snap'[c] = cfgStore /\ cfgStore # Absent
      BY <2>1, <2>2 DEF Gated, TInv, TypeOK
    <3>2. ccfg'[c] = cfgStore /\ Ciphertext(cfgStore)
      BY <2>2, <2>3, <3>1 DEF TInv, ConfigsCiphertext
    <3>3. QED
      BY <2>1, <2>2, <3>1, <3>2 DEF Verified
  <2>7. GatedVerified'
    BY <2>2, <2>6 DEF TInv, GatedVerified, Gated, Verified, TypeOK
  <2>8. QED
    BY <1>0, <2>4, <2>5, <2>7 DEF TInv
<1>4. ASSUME NEW c \in Consumers, BasicConsume(c) PROVE TInv'
  <2>1. /\ cpc[c] = "consume" /\ cpc'[c] \in {"stream", "done"}
        /\ \A d \in Consumers \ {c} : cpc'[d] = cpc[d]
        /\ calls' = calls \cup {c}
        /\ UNCHANGED <<cin, ccfg, snap, sunk, pcfg, cfgStore>>
    BY <1>4 DEF BasicConsume, TInv, TypeOK, prodVars
  <2>2. Gated(c) /\ Gated(c)'
    BY <2>1 DEF Gated
  <2>3. \A d \in Consumers : Gated(d)' => Gated(d)
    BY <2>1, <2>2 DEF Gated
  <2>4. QED
    BY <1>0, <2>1, <2>2, <2>3 DEF TInv, ConfigsCiphertext, SunkCalled,
       GatedVerified, Verified, TypeOK
<1>5. ASSUME NEW c \in Consumers, ReceiveDelivery(c) PROVE TInv'
  <2> DEFINE b == Head(queue)
             plain == [m |-> b.m, k |-> NoKey]
  <2>1. /\ cpc[c] = "stream" /\ cpc'[c] \in {"stream", "done"}
        /\ \A d \in Consumers \ {c} : cpc'[d] = cpc[d]
        /\ UNCHANGED <<cin, snap, calls, pcfg, cfgStore>>
    BY <1>5 DEF ReceiveDelivery, TInv, TypeOK, prodVars
  <2>2. \/ sunk' = sunk
        \/ /\ sunk' = sunk \cup {[b |-> b, by |-> c]}
           /\ \/ ccfg[c].data = NoData /\ b.k = NoKey
              \/ ccfg[c].data # NoData /\ b.k # NoKey /\ b = ccfg[c].data
    BY <1>5 DEF ReceiveDelivery, MatchesCached
  <2>3. \/ ccfg' = ccfg
        \/ /\ ccfg' = [ccfg EXCEPT ![c].data = plain]
           /\ b.k # NoKey /\ b = ccfg[c].data
    BY <1>5 DEF ReceiveDelivery, MatchesCached
  <2>4. \A d \in Consumers \ {c} : ccfg'[d] = ccfg[d]
    BY <2>3 DEF TInv, TypeOK
  <2>5. \A d \in Consumers : Gated(d)' = Gated(d)
    BY <2>1 DEF Gated, TInv, SunkCalled
  <2>6. SunkCalled'
    BY <2>1, <2>2, <2>5 DEF TInv, SunkCalled
  <2>7. ASSUME cin[c] # NoKey, snap[c] # Absent PROVE Verified(c)'
    <3>1. Verified(c)
      BY <2>1, <2>7 DEF TInv, GatedVerified, Gated
    <3>2. CASE ccfg[c] = snap[c]
      <4>1. sunk' # sunk => b = snap[c].data
        BY <2>2, <3>1, <3>2 DEF Verified, Ciphertext
      <4>2. ccfg'[c] = ccfg[c] \/ ccfg'[c].data = Plaintext(snap[c])
        <5>1. ccfg[c] \in SecureCellConfig
          BY DEF TInv, TypeOK
        <5>2. ccfg' # ccfg => ccfg'[c] = [ccfg[c] EXCEPT !.data = plain]
          BY <2>3 DEF TInv, TypeOK
        <5>3. ccfg' # ccfg => ccfg'[c].data = plain
          BY <5>1, <5>2 DEF SecureCellConfig
        <5>4. ccfg' # ccfg => plain = Plaintext(snap[c])
          BY <2>3, <3>2 DEF Plaintext
        <5>5. QED
          BY <5>3, <5>4
      <4>3. QED
        BY <2>1, <2>2, <3>1, <4>1, <4>2 DEF Verified
    <3>3. CASE ccfg[c].data = Plaintext(snap[c])
      <4>1. ccfg[c].data # NoData /\ ccfg[c].data.k = NoKey
        <5>1. snap[c].data \in Body
          BY <2>7, <3>1 DEF Verified, Ciphertext, TInv, TypeOK,
             SecureCellConfig
        <5>2. Plaintext(snap[c]) \in Body
          BY <5>1, PlainBody DEF Plaintext
        <5>3. QED
          BY <3>3, <5>2 DEF Plaintext
      <4>2. sunk' = sunk /\ ccfg' = ccfg
        BY <2>2, <2>3, <4>1
      <4>3. QED
        BY <2>1, <3>1, <4>2 DEF Verified
    <3>4. QED
      BY <3>1, <3>2, <3>3 DEF Verified
  <2>8. GatedVerified'
    BY <2>1, <2>2, <2>4, <2>5, <2>7 DEF TInv, GatedVerified, Verified
  <2>9. QED
    BY <1>0, <2>1, <2>6, <2>8 DEF TInv, ConfigsCiphertext
<1>6. CASE HandleHealthMsg \/ ExpireConfig \/ Tamper \/ UNCHANGED vars
  <2>1. UNCHANGED <<consVars, pcfg>> /\ (cfgStore' = cfgStore \/ cfgStore' = Absent)
    BY <1>6 DEF HandleHealthMsg, ExpireConfig, Tamper, vars, consVars,
       prodVars
  <2>2. QED
    BY <1>0, <1>1, <2>1 DEF TInv, ConfigsCiphertext
<1>7. QED
  BY <1>2, <1>3, <1>4, <1>5, <1>6 DEF Next, ConsumerStep

(* Without Redis pool errors (the bypass at line 436, which runs with the *)
(* default config), a consumer with a decryption config that found a     *)
(* config on Redis hands to its sinks only the ciphertext cached there   *)
(* (the comparison of lines 500-505), whatever RMQ, the cipher and a     *)
(* tamperer do; after one decrypt it holds plaintext and stops at the    *)
(* next delivery.                                                          *)
THEOREM TamperCheck == ~RedisFaults => (Spec => []TamperNoSink)
<1> SUFFICES ASSUME ~RedisFaults PROVE Spec => []TamperNoSink
  OBVIOUS
<1>1. Init => TInv
  BY InitTInv
<1>2. TInv /\ [Next]_vars => TInv'
  BY NextTInv
<1>3. TInv => TamperNoSink
  BY DEF TInv, SunkCalled, GatedVerified, Gated, Verified, TamperNoSink,
     TypeOK
<1>4. QED
  BY <1>1, <1>2, <1>3, PTL DEF Spec
====
