------------------------- MODULE NotifConsumerProofs -------------------------
(***************************************************************************)
(* Proofs about NotifConsumer: type correctness, and that every cached     *)
(* recipient list keeps each consumer's notifications in delivery order.  *)
(***************************************************************************)
EXTENDS NotifConsumer, SequenceTheorems, TLAPS

(* Stages of a consumer between the ack of its current delivery and the   *)
(* spawn of its cache write, and up to its return to consumer.next().      *)
PreWrite == {"ws", "cache"}
HoldStages == {"ws", "cache", "db"}

(* Entry e of a list is one its consumer already acked (counts n), and not *)
(* the one that consumer is about to write (stages p).                     *)
SeenBy(e, n, p) ==
    /\ e.seq <= n[e.by]
    /\ p[e.by] \in PreWrite => e.seq < n[e.by]

ListOK(s, n, p) == InOrder(s) /\ \A i \in 1..Len(s) : SeenBy(s[i], n, p)

(* The inductive invariant: the type, the current delivery of a consumer   *)
(* past its ack is its latest one, and every list in Redis or in a         *)
(* pending write task is ordered and made of seen entries.                 *)
CurOK ==
    \A c \in Consumers :
        pc[c] \in HoldStages => /\ cur[c] \in Delivery
                                /\ cur[c].by = c
                                /\ cur[c].seq = cnt[c]

CacheOK ==
    \A k \in Receivers : cache[k] # Absent => ListOK(cache[k].val, cnt, pc)

WritesOK == \A t \in writes : ListOK(t.val, cnt, pc)

IInv == TypeOK /\ CurOK /\ CacheOK /\ WritesOK

-----------------------------------------------------------------------------
(* Appending to an ordered list a delivery later than every entry of its   *)
(* consumer keeps the list ordered.                                        *)
LEMMA AppendInOrder ==
    ASSUME NEW s \in Seq(Delivery), NEW d \in Delivery,
           InOrder(s),
           \A i \in 1..Len(s) : s[i].by = d.by => s[i].seq < d.seq
    PROVE  InOrder(Append(s, d))
<1> DEFINE t == Append(s, d)
<1>1. Len(t) = Len(s) + 1 /\ t[Len(s) + 1] = d
      /\ \A i \in 1..Len(s) : t[i] = s[i]
  BY AppendProperties
<1>2. SUFFICES ASSUME NEW i \in 1..Len(t), NEW j \in 1..Len(t),
                      i < j, t[i].by = t[j].by
               PROVE  t[i].seq < t[j].seq
  BY DEF InOrder
<1>3. CASE j = Len(s) + 1
  BY <1>1, <1>2, <1>3
<1>4. CASE j # Len(s) + 1
  BY <1>1, <1>2, <1>4 DEF InOrder
<1>5. QED
  BY <1>3, <1>4

(* A one-element list is ordered.                                          *)
LEMMA SingletonInOrder ==
    ASSUME NEW d PROVE InOrder(<<d>>)
BY DEF InOrder

-----------------------------------------------------------------------------
LEMMA InitIInv == Init => IInv
<1> SUFFICES ASSUME Init PROVE IInv
  OBVIOUS
<1>1. TypeOK
  <2>1. <<>> \in Seq(Msg) /\ <<>> \in Seq(Delivery) /\ Len(<<>>) = 0
    BY EmptySeq
  <2>2. pc \in [Consumers -> Stages] /\ cur \in [Consumers -> Delivery \cup {Absent}]
    BY DEF Init, Stages
  <2>3. par \in [Consumers -> Params]
    BY ChoicesAssumption DEF Init
  <2>4. queue \in [Queues -> Seq(Msg)] /\ ws \in Seq(Delivery) /\ Len(ws) <= WsCap
    BY <2>1, ConstantsAssumption DEF Init
  <2>5. cnt \in [Consumers -> Nat] /\ nextId \in 1..(MaxMsgs + 1)
    BY ConstantsAssumption DEF Init
  <2>6. cache \in [Receivers -> CachedList \cup {Absent}]
    BY DEF Init
  <2>7. QED
    BY <2>2, <2>3, <2>4, <2>5, <2>6 DEF Init, TypeOK
<1>2. QED
  BY <1>1 DEF Init, IInv, CurOK, CacheOK, WritesOK, HoldStages


-----------------------------------------------------------------------------
(* A step keeps every consumer's count at least as large, and moves a      *)
(* consumer into the stages before its write only by counting a delivery. *)
CountMono ==
    \A c \in Consumers :
        /\ cnt[c] <= cnt'[c]
        /\ pc'[c] \in PreWrite => pc[c] \in PreWrite \/ cnt[c] < cnt'[c]

(* Under such a step an ordered list of seen entries stays one.            *)
LEMMA ListMono ==
    ASSUME TypeOK, TypeOK', CountMono,
           NEW s \in Seq(Delivery), ListOK(s, cnt, pc)
    PROVE  ListOK(s, cnt', pc')
<1>1. ASSUME NEW i \in 1..Len(s) PROVE SeenBy(s[i], cnt', pc')
  <2>1. s[i] \in Delivery
    BY ElementOfSeq
  <2>2. s[i].by \in Consumers /\ s[i].seq \in Nat
    BY <2>1 DEF Delivery
  <2>3. SeenBy(s[i], cnt, pc)
    BY DEF ListOK
  <2>4. cnt[s[i].by] \in Nat /\ cnt'[s[i].by] \in Nat
    BY <2>2 DEF TypeOK
  <2>5. QED
    BY <2>2, <2>3, <2>4 DEF SeenBy, CountMono
<1>2. QED
  BY <1>1 DEF ListOK

(* The lists in Redis and in the write tasks, before a step.               *)
LEMMA OldListsMono ==
    ASSUME IInv, TypeOK', CountMono
    PROVE  /\ \A k \in Receivers :
                 cache[k] # Absent => ListOK(cache[k].val, cnt', pc')
           /\ \A t \in writes : ListOK(t.val, cnt', pc')
<1>1. ASSUME NEW k \in Receivers, cache[k] # Absent
      PROVE  ListOK(cache[k].val, cnt', pc')
  <2>1. cache[k].val \in Seq(Delivery) /\ ListOK(cache[k].val, cnt, pc)
    BY <1>1 DEF IInv, TypeOK, CachedList, CacheOK
  <2>2. QED
    BY <2>1, ListMono DEF IInv
<1>2. ASSUME NEW t \in writes PROVE ListOK(t.val, cnt', pc')
  <2>1. t.val \in Seq(Delivery) /\ ListOK(t.val, cnt, pc)
    BY DEF IInv, TypeOK, WriteTask, WritesOK
  <2>2. QED
    BY <2>1, ListMono DEF IInv
<1>3. QED
  BY <1>1, <1>2

(* Such a step that writes neither Redis nor a task list keeps both parts  *)
(* of the invariant about lists.                                           *)
LEMMA ListsMono ==
    ASSUME IInv, TypeOK', CountMono, UNCHANGED <<cache, writes>>
    PROVE  CacheOK' /\ WritesOK'
BY OldListsMono DEF CacheOK, WritesOK

-----------------------------------------------------------------------------
(* Every step keeps the type.  The sends to the channel and to the         *)
(* mutator, and the spawned write, carry the current delivery: CurOK says  *)
(* it is one whenever the consumer is past its ack.                        *)
LEMMA TypeStep == IInv /\ [Next]_vars => TypeOK'
<1> SUFFICES ASSUME IInv, [Next]_vars PROVE TypeOK'
  OBVIOUS
<1> USE DEF IInv
<1>1. ASSUME NEW c \in Consumers, HandleConsumeNotif(c) PROVE TypeOK'
  BY <1>1 DEF HandleConsumeNotif, TypeOK, Stages, envVars
<1>2. ASSUME NEW c \in Consumers, ConsumeSetup(c) PROVE TypeOK'
  BY <1>2 DEF ConsumeSetup, TypeOK, Stages, Params
<1>3. ASSUME NEW c \in Consumers, BasicConsume(c) PROVE TypeOK'
  BY <1>3 DEF BasicConsume, TypeOK, Stages, envVars
<1>4. ASSUME NEW c \in Consumers, ReceiveDelivery(c) PROVE TypeOK'
  <2> DEFINE q == par[c].q
             m == Head(queue[q])
             d == [id |-> m.id, rcv |-> m.rcv, by |-> c, seq |-> cnt[c] + 1]
  <2>0. pc[c] = "stream" /\ queue[q] # <<>>
        /\ UNCHANGED <<actorUp, par, exDeclared, bound, nextId, cache,
                       writes, ws, wsOpen, dispatch, written, expired>>
    BY <1>4 DEF ReceiveDelivery
  <2>1. CASE /\ pc' = [pc EXCEPT ![c] = "done"]
             /\ UNCHANGED <<queue, cur, cnt, delivered>>
    BY <2>0, <2>1 DEF TypeOK, Stages
  <2>2. CASE /\ queue' = [queue EXCEPT ![q] = Tail(@)]
             /\ cur' = [cur EXCEPT ![c] = d]
             /\ cnt' = [cnt EXCEPT ![c] = @ + 1]
             /\ delivered' = delivered \cup {d}
             /\ pc' = [pc EXCEPT ![c] = "ws"]
    <3>1. q \in Queues /\ queue[q] \in Seq(Msg)
      BY DEF TypeOK, Params
    <3>2. m \in Msg /\ Tail(queue[q]) \in Seq(Msg)
      BY <2>0, <3>1, HeadTailProperties
    <3>3. d \in Delivery
      BY <3>2 DEF Msg, Delivery, TypeOK
    <3>4. queue' \in [Queues -> Seq(Msg)]
      BY <2>2, <3>1, <3>2 DEF TypeOK
    <3>5. /\ cur' \in [Consumers -> Delivery \cup {Absent}]
          /\ cnt' \in [Consumers -> Nat]
          /\ delivered' \in SUBSET Delivery
          /\ pc' \in [Consumers -> Stages]
      BY <2>2, <3>3 DEF TypeOK, Stages
    <3>6. QED
      BY <2>0, <3>4, <3>5 DEF TypeOK
  <2>3. QED
    BY <1>4, <2>1, <2>2 DEF ReceiveDelivery
<1>5. ASSUME NEW c \in Consumers, StreamEnds(c) PROVE TypeOK'
  BY <1>5 DEF StreamEnds, TypeOK, Stages, envVars
<1>6. ASSUME NEW c \in Consumers, SendToWs(c) PROVE TypeOK'
  <2>1. cur[c] \in Delivery /\ ws \in Seq(Delivery)
    BY <1>6 DEF SendToWs, CurOK, HoldStages, TypeOK
  <2>2. Len(ws) < WsCap => Append(ws, cur[c]) \in Seq(Delivery)
                           /\ Len(Append(ws, cur[c])) <= WsCap
    BY <2>1, AppendProperties, ConstantsAssumption DEF TypeOK
  <2>3. QED
    BY <1>6, <2>2 DEF SendToWs, TypeOK, Stages, envVars
<1>7. ASSUME NEW c \in Consumers, CacheNotif(c) PROVE TypeOK'
  <2> DEFINE d == cur[c]
             k == d.rcv
  <2>1. d \in Delivery /\ k \in Receivers
    BY <1>7 DEF CacheNotif, CurOK, HoldStages, Delivery
  <2>2. cache[k] # Absent => ExtendedList(cache[k].val, d) \in Seq(Delivery)
    BY <2>1, AppendProperties DEF TypeOK, CachedList, ExtendedList
  <2>3. <<d>> \in Seq(Delivery)
    BY <2>1
  <2>4. writes' \in SUBSET WriteTask
    <3>1. \A hit \in IF cache[k] = Absent THEN {FALSE}
                     ELSE IF RedisFaults THEN BOOLEAN ELSE {TRUE} :
            [key |-> k, phase |-> "exists", d |-> d,
             val |-> IF hit THEN ExtendedList(cache[k].val, d) ELSE <<d>>]
              \in WriteTask
      BY <2>1, <2>2, <2>3 DEF WriteTask
    <3>2. QED
      BY <1>7, <3>1 DEF CacheNotif, TypeOK
  <2>5. pc' \in [Consumers -> Stages]
    BY <1>7 DEF CacheNotif, TypeOK, Stages
  <2>6. QED
    BY <1>7, <2>4, <2>5 DEF CacheNotif, TypeOK, envVars
<1>8. ASSUME NEW c \in Consumers, StoreInDb(c) PROVE TypeOK'
  <2>1. cur[c] \in Delivery
    BY <1>8 DEF StoreInDb, CurOK, HoldStages
  <2>2. QED
    BY <1>8, <2>1 DEF StoreInDb, TypeOK, Stages, envVars, DispatchTask
<1>9. ASSUME NEW t \in writes, CacheWriteExists(t) PROVE TypeOK'
  BY <1>9 DEF CacheWriteExists, TypeOK, WriteTask, envVars, consVars
<1>10. ASSUME NEW t \in writes, CacheWriteSet(t) PROVE TypeOK'
  <2>1. t \in WriteTask
    BY DEF TypeOK
  <2>2. [val |-> t.val, ttl |-> t.phase = "setex"] \in CachedList
    BY <2>1 DEF WriteTask, CachedList
  <2>3. /\ cache' \in [Receivers -> CachedList \cup {Absent}]
        /\ writes' \in SUBSET WriteTask
        /\ written' \in SUBSET Delivery
    BY <1>10, <2>1, <2>2 DEF CacheWriteSet, TypeOK, WriteTask
  <2>4. QED
    BY <1>10, <2>3 DEF CacheWriteSet, TypeOK, envVars, consVars
<1>11. ASSUME NEW t \in dispatch, MutatorSend(t) PROVE TypeOK'
  <2>1. t \in DispatchTask
    BY DEF TypeOK
  <2>2. \A st \in {"stored", "lost"} : [t EXCEPT !.st = st] \in DispatchTask
    BY <2>1 DEF DispatchTask
  <2>3. dispatch' \in SUBSET DispatchTask
    BY <1>11, <2>2 DEF MutatorSend, TypeOK
  <2>4. QED
    BY <1>11, <2>3 DEF MutatorSend, TypeOK, envVars, consVars
<1>12. ASSUME NEW r \in Receivers, Publish(r) PROVE TypeOK'
  <2>1. [id |-> nextId, rcv |-> r] \in Msg
    BY <1>12 DEF Publish, TypeOK, Msg
  <2>2. \A q \in Queues : Append(queue[q], [id |-> nextId, rcv |-> r])
                            \in Seq(Msg)
    BY <2>1, AppendProperties DEF TypeOK
  <2>3. queue' \in [Queues -> Seq(Msg)]
    BY <1>12, <2>2 DEF Publish, TypeOK
  <2>4. nextId' \in 1..(MaxMsgs + 1) /\ exDeclared' \in BOOLEAN
    BY <1>12, ConstantsAssumption DEF Publish, TypeOK
  <2>5. QED
    BY <1>12, <2>3, <2>4 DEF Publish, TypeOK, consVars
<1>13. ASSUME NEW k \in Receivers, ExpireKey(k) PROVE TypeOK'
  BY <1>13 DEF ExpireKey, TypeOK, envVars, consVars
<1>14. CASE WsReceive
  <2>0. ws # <<>> /\ ws' = Tail(ws)
    BY <1>14 DEF WsReceive
  <2>1. Tail(ws) \in Seq(Delivery) /\ Len(Tail(ws)) = Len(ws) - 1
        /\ Len(ws) \in Nat
    BY <2>0, HeadTailProperties, LenProperties DEF TypeOK
  <2>2. ws' \in Seq(Delivery) /\ Len(ws') <= WsCap
    BY <2>0, <2>1, ConstantsAssumption DEF TypeOK
  <2>3. QED
    BY <1>14, <2>2 DEF WsReceive, TypeOK, envVars, consVars
<1>15. CASE WsReceiverDrop
  <2>1. <<>> \in Seq(Delivery) /\ Len(<<>>) <= WsCap
    BY EmptySeq, ConstantsAssumption
  <2>2. ws' \in Seq(Delivery) /\ Len(ws') <= WsCap /\ wsOpen' \in BOOLEAN
    BY <1>15, <2>1 DEF WsReceiverDrop
  <2>3. QED
    BY <1>15, <2>2 DEF WsReceiverDrop, TypeOK, envVars, consVars
<1>16. CASE HandleHealthMsg
  BY <1>16 DEF HandleHealthMsg, TypeOK, Stages, envVars
<1>17. CASE UNCHANGED vars
  BY <1>17 DEF vars, TypeOK
<1>18. QED
  BY <1>1, <1>2, <1>3, <1>4, <1>5, <1>6, <1>7, <1>8, <1>9, <1>10, <1>11,
     <1>12, <1>13, <1>14, <1>15, <1>16, <1>17
  DEF Next, ConsumerStep, TaskStep, Environment

-----------------------------------------------------------------------------
(* No consumer enters the stages past its ack, nor those before its write. *)
NoEntry ==
    \A c \in Consumers : /\ pc'[c] \in HoldStages => pc[c] \in HoldStages
                         /\ pc'[c] \in PreWrite => pc[c] \in PreWrite

(* A step that touches no count, current delivery, Redis key or write task *)
(* and moves no consumer into those stages keeps the invariant.            *)
LEMMA FrameStep ==
    ASSUME IInv, TypeOK', UNCHANGED <<cur, cnt, cache, writes>>, NoEntry
    PROVE  IInv'
<1>1. CountMono
  BY DEF IInv, TypeOK, CountMono, NoEntry
<1>2. CurOK'
  BY DEF IInv, CurOK, NoEntry
<1>3. QED
  BY <1>1, <1>2, ListsMono DEF IInv

(* One consumer moves to stage v; it enters neither set of stages.         *)
LEMMA MoveOne ==
    ASSUME TypeOK, NEW c \in Consumers, NEW v,
           pc' = [pc EXCEPT ![c] = v],
           v \in HoldStages => pc[c] \in HoldStages,
           v \in PreWrite => pc[c] \in PreWrite
    PROVE  NoEntry
BY DEF TypeOK, NoEntry

(* A write task or key expiry: the consumers do not move.                  *)
LEMMA ConsumersStill ==
    ASSUME IInv, TypeOK', UNCHANGED consVars
    PROVE  CountMono /\ CurOK'
BY DEF IInv, TypeOK, CountMono, CurOK, consVars


(* Every step keeps the inductive invariant.                              *)
LEMMA NextIInv == IInv /\ [Next]_vars => IInv'
<1> SUFFICES ASSUME IInv, [Next]_vars PROVE IInv'
  OBVIOUS
<1>0. TypeOK' /\ TypeOK
  BY TypeStep DEF IInv
<1>1. UNCHANGED <<cur, cnt, cache, writes>> /\ NoEntry => IInv'
  BY <1>0, FrameStep
<1>2. ASSUME NEW c \in Consumers, HandleConsumeNotif(c) PROVE IInv'
  <2>1. NoEntry
    <3>1. CASE actorUp
      BY <1>0, <1>2, <3>1, MoveOne DEF HandleConsumeNotif, HoldStages, PreWrite
    <3>2. CASE ~actorUp
      BY <1>0, <1>2, <3>2, MoveOne DEF HandleConsumeNotif, HoldStages, PreWrite
    <3>3. QED
      BY <3>1, <3>2
  <2>2. QED
    BY <1>1, <1>2, <2>1 DEF HandleConsumeNotif
<1>3. ASSUME NEW c \in Consumers, ConsumeSetup(c) PROVE IInv'
  <2>1. NoEntry
    BY <1>0, <1>3, MoveOne DEF ConsumeSetup, HoldStages, PreWrite
  <2>2. QED
    BY <1>1, <1>3, <2>1 DEF ConsumeSetup
<1>4. ASSUME NEW c \in Consumers, BasicConsume(c) PROVE IInv'
  <2>1. NoEntry
    BY <1>0, <1>4, MoveOne DEF BasicConsume, HoldStages, PreWrite
  <2>2. QED
    BY <1>1, <1>4, <2>1 DEF BasicConsume
<1>5. ASSUME NEW c \in Consumers, StreamEnds(c) PROVE IInv'
  <2>1. NoEntry
    BY <1>0, <1>5, MoveOne DEF StreamEnds, HoldStages, PreWrite
  <2>2. QED
    BY <1>1, <1>5, <2>1 DEF StreamEnds
<1>6. ASSUME NEW c \in Consumers, SendToWs(c) PROVE IInv'
  <2>1. NoEntry
    BY <1>0, <1>6, MoveOne DEF SendToWs, HoldStages, PreWrite
  <2>2. QED
    BY <1>1, <1>6, <2>1 DEF SendToWs
<1>7. ASSUME NEW c \in Consumers, StoreInDb(c) PROVE IInv'
  <2>1. NoEntry
    BY <1>0, <1>7, MoveOne DEF StoreInDb, HoldStages, PreWrite
  <2>2. QED
    BY <1>1, <1>7, <2>1 DEF StoreInDb
<1>8. ASSUME NEW c \in Consumers, ReceiveDelivery(c) PROVE IInv'
  <2> DEFINE q == par[c].q
             m == Head(queue[q])
             d == [id |-> m.id, rcv |-> m.rcv, by |-> c, seq |-> cnt[c] + 1]
  <2>0. pc[c] = "stream" /\ queue[q] # <<>> /\ UNCHANGED <<cache, writes>>
    BY <1>8 DEF ReceiveDelivery
  <2>1. CASE /\ pc' = [pc EXCEPT ![c] = "done"]
             /\ UNCHANGED <<queue, cur, cnt, delivered>>
    <3>1. NoEntry
      BY <1>0, <2>1, MoveOne DEF HoldStages, PreWrite
    <3>2. QED
      BY <1>1, <2>0, <2>1, <3>1
  <2>2. CASE /\ cur' = [cur EXCEPT ![c] = d]
             /\ cnt' = [cnt EXCEPT ![c] = @ + 1]
             /\ pc' = [pc EXCEPT ![c] = "ws"]
    <3>1. CountMono
      BY <1>0, <2>0, <2>2 DEF TypeOK, CountMono, PreWrite
    <3>2. d \in Delivery
      <4>1. q \in Queues /\ queue[q] \in Seq(Msg)
        BY <1>0 DEF TypeOK, Params
      <4>2. m \in Msg
        BY <2>0, <4>1, HeadTailProperties
      <4>3. QED
        BY <1>0, <4>2 DEF Msg, Delivery, TypeOK
    <3>3. CurOK'
      BY <1>0, <2>2, <3>2 DEF IInv, TypeOK, CurOK
    <3>4. QED
      BY <1>0, <2>0, <3>1, <3>3, ListsMono DEF IInv
  <2>3. QED
    BY <1>8, <2>1, <2>2 DEF ReceiveDelivery
<1>9. ASSUME NEW c \in Consumers, CacheNotif(c) PROVE IInv'
  <2> DEFINE d == cur[c]
             k == d.rcv
             V == cache[k].val
  <2>1. /\ pc[c] = "cache" /\ pc'[c] \in {"db", "done"}
        /\ pc' = [pc EXCEPT ![c] = pc'[c]]
        /\ UNCHANGED <<cur, cnt, cache>>
    BY <1>0, <1>9 DEF CacheNotif, TypeOK
  <2>2. d \in Delivery /\ d.by = c /\ d.seq = cnt[c] /\ k \in Receivers
    BY <2>1 DEF IInv, CurOK, HoldStages, Delivery
  <2>3. NoEntry
    BY <1>0, <2>1, MoveOne DEF HoldStages, PreWrite
  <2>4. CountMono
    BY <1>0, <2>1, <2>3 DEF TypeOK, CountMono, NoEntry
  <2>5. CurOK'
    BY <2>1, <2>3 DEF IInv, CurOK, NoEntry
  <2>6. /\ \A j \in Receivers :
             cache[j] # Absent => ListOK(cache[j].val, cnt', pc')
        /\ \A t \in writes : ListOK(t.val, cnt', pc')
    BY <1>0, <2>4, OldListsMono
  <2>7. SeenBy(d, cnt', pc')
    BY <1>0, <2>1, <2>2 DEF SeenBy, PreWrite, TypeOK
  <2>8. ListOK(<<d>>, cnt', pc')
    BY <2>7, SingletonInOrder DEF ListOK
  <2>9. cache[k] # Absent => ListOK(ExtendedList(V, d), cnt', pc')
    <3> SUFFICES ASSUME cache[k] # Absent
                 PROVE  ListOK(Append(V, d), cnt', pc')
      BY DEF ExtendedList
    <3>1. V \in Seq(Delivery) /\ ListOK(V, cnt, pc)
      BY <2>2 DEF IInv, TypeOK, CachedList, CacheOK
    <3>2. \A i \in 1..Len(V) : V[i].by = d.by => V[i].seq < d.seq
      BY <2>1, <2>2, <3>1 DEF ListOK, SeenBy, PreWrite
    <3>3. InOrder(Append(V, d))
      BY <2>2, <3>1, <3>2, AppendInOrder DEF ListOK
    <3>4. /\ Len(Append(V, d)) = Len(V) + 1
          /\ Append(V, d)[Len(V) + 1] = d
          /\ \A i \in 1..Len(V) : Append(V, d)[i] = V[i]
      BY <2>2, <3>1, AppendProperties
    <3>5. \A i \in 1..Len(V) : SeenBy(V[i], cnt', pc')
      BY <2>2, <2>6 DEF ListOK
    <3>6. \A i \in 1..Len(Append(V, d)) : SeenBy(Append(V, d)[i], cnt', pc')
      BY <2>7, <3>1, <3>4, <3>5
    <3>7. QED
      BY <3>3, <3>6 DEF ListOK
  <2>10. WritesOK'
    <3>1. CASE writes' = writes
      BY <2>6, <3>1 DEF WritesOK
    <3>2. CASE writes' # writes
      <4>1. PICK hit \in IF cache[k] = Absent THEN {FALSE}
                         ELSE IF RedisFaults THEN BOOLEAN ELSE {TRUE} :
              writes' = writes \cup
                 {[key |-> k, phase |-> "exists", d |-> d,
                   val |-> IF hit THEN ExtendedList(V, d) ELSE <<d>>]}
        BY <1>9, <3>2 DEF CacheNotif
      <4>2. ListOK(IF hit THEN ExtendedList(V, d) ELSE <<d>>, cnt', pc')
        BY <2>8, <2>9, <4>1
      <4>3. QED
        BY <2>6, <4>1, <4>2 DEF WritesOK
    <3>3. QED
      BY <3>1, <3>2
  <2>11. CacheOK'
    BY <2>1, <2>6 DEF CacheOK
  <2>12. QED
    BY <1>0, <2>5, <2>10, <2>11 DEF IInv
<1>10. ASSUME NEW t \in writes, CacheWriteExists(t) PROVE IInv'
  <2>1. CountMono /\ CurOK'
    BY <1>0, <1>10, ConsumersStill DEF CacheWriteExists
  <2>2. /\ \A k \in Receivers :
             cache[k] # Absent => ListOK(cache[k].val, cnt', pc')
        /\ \A u \in writes : ListOK(u.val, cnt', pc')
    BY <1>0, <2>1, OldListsMono
  <2>3. \A x : [t EXCEPT !.phase = x].val = t.val
    BY <1>0 DEF TypeOK, WriteTask
  <2>4. WritesOK'
    BY <1>10, <2>2, <2>3 DEF CacheWriteExists, WritesOK
  <2>5. CacheOK'
    BY <1>10, <2>2 DEF CacheWriteExists, CacheOK
  <2>6. QED
    BY <1>0, <2>1, <2>4, <2>5 DEF IInv
<1>11. ASSUME NEW t \in writes, CacheWriteSet(t) PROVE IInv'
  <2>1. CountMono /\ CurOK'
    BY <1>0, <1>11, ConsumersStill DEF CacheWriteSet
  <2>2. /\ \A k \in Receivers :
             cache[k] # Absent => ListOK(cache[k].val, cnt', pc')
        /\ \A u \in writes : ListOK(u.val, cnt', pc')
    BY <1>0, <2>1, OldListsMono
  <2>3. WritesOK'
    BY <1>11, <2>2 DEF CacheWriteSet, WritesOK
  <2>4. CacheOK'
    BY <1>0, <1>11, <2>2 DEF CacheWriteSet, CacheOK, TypeOK, WriteTask
  <2>5. QED
    BY <1>0, <2>1, <2>3, <2>4 DEF IInv
<1>12. ASSUME NEW k \in Receivers, ExpireKey(k) PROVE IInv'
  <2>1. CountMono /\ CurOK'
    BY <1>0, <1>12, ConsumersStill DEF ExpireKey
  <2>2. /\ \A j \in Receivers :
             cache[j] # Absent => ListOK(cache[j].val, cnt', pc')
        /\ \A u \in writes : ListOK(u.val, cnt', pc')
    BY <1>0, <2>1, OldListsMono
  <2>3. WritesOK' /\ CacheOK'
    BY <1>0, <1>12, <2>2 DEF ExpireKey, WritesOK, CacheOK, TypeOK
  <2>4. QED
    BY <1>0, <2>1, <2>3 DEF IInv
<1>13. ASSUME NEW t \in dispatch, MutatorSend(t) PROVE IInv'
  BY <1>1, <1>13 DEF MutatorSend, consVars, NoEntry
<1>14. ASSUME NEW r \in Receivers, Publish(r) PROVE IInv'
  BY <1>1, <1>14 DEF Publish, consVars, NoEntry
<1>15. CASE WsReceive \/ WsReceiverDrop
  BY <1>1, <1>15 DEF WsReceive, WsReceiverDrop, consVars, NoEntry
<1>16. CASE HandleHealthMsg
  BY <1>0, <1>1, <1>16 DEF HandleHealthMsg, NoEntry, TypeOK, HoldStages,
     PreWrite
<1>17. CASE UNCHANGED vars
  BY <1>1, <1>17 DEF vars, NoEntry
<1>18. QED
  BY <1>2, <1>3, <1>4, <1>5, <1>6, <1>7, <1>8, <1>9, <1>10, <1>11, <1>12,
     <1>13, <1>14, <1>15, <1>16, <1>17
  DEF Next, ConsumerStep, TaskStep, Environment

-----------------------------------------------------------------------------
(* Every reachable state is well typed; in particular the realtime channel *)
(* never holds more than WsCap notifications, because the send at          *)
(* mod.rs:571 waits for room.                                              *)
THEOREM TypeCorrect == Spec => []TypeOK
<1>1. Init => IInv
  BY InitIInv
<1>2. IInv /\ [Next]_vars => IInv'
  BY NextIInv
<1>3. IInv => TypeOK
  BY DEF IInv
<1>4. QED
  BY <1>1, <1>2, <1>3, PTL DEF Spec

(* For every number of consumers, queues and recipients, each              *)
(* notif_owner:{r} list keeps every consumer's notifications in the order   *)
(* that consumer acked them, although the GET at mod.rs:586 and the SET of  *)
(* the task spawned at mod.rs:627 interleave with other deliveries.        *)
THEOREM OrderInvariant == Spec => []CacheInDeliveryOrder
<1>1. Init => IInv
  BY InitIInv
<1>2. IInv /\ [Next]_vars => IInv'
  BY NextIInv
<1>3. IInv => CacheInDeliveryOrder
  BY DEF IInv, CacheOK, ListOK, CacheInDeliveryOrder
<1>4. QED
  BY <1>1, <1>2, <1>3, PTL DEF Spec

-----------------------------------------------------------------------------
(* The durable-dispatch invariant.  A delivery leaves the hands of its     *)
(* consumer only through StoreInDb, which dispatches it when store_in_db   *)
(* is set; every other step keeps consumers past their ack there, keeps    *)
(* the dispatched deliveries and adds no delivery of a waiting consumer.   *)
DInv == IInv /\ DurableAtLeastOnce

(* A dispatch task, once spawned, stays (with the same delivery).          *)
KeepsDispatch == \A t \in dispatch : \E u \in dispatch' : u.d = t.d

LEMMA DurableFrame ==
    ASSUME TypeOK, DurableAtLeastOnce, KeepsDispatch,
           UNCHANGED <<delivered, cur, par>>,
           \A c \in Consumers : pc[c] \in HoldStages => pc'[c] \in HoldStages
    PROVE  DurableAtLeastOnce'
<1> SUFFICES ASSUME NEW d \in delivered', par'[d.by].db
             PROVE  \/ \E t \in dispatch' : t.d = d
                    \/ pc'[d.by] \in {"ws", "cache", "db"} /\ cur'[d.by] = d
  BY DEF DurableAtLeastOnce
<1>1. d \in delivered /\ d.by \in Consumers /\ par[d.by].db
  BY DEF TypeOK, Delivery
<1>2. \/ \E t \in dispatch : t.d = d
      \/ pc[d.by] \in HoldStages /\ cur[d.by] = d
  BY <1>1 DEF DurableAtLeastOnce, HoldStages
<1>3. QED
  BY <1>1, <1>2 DEF KeepsDispatch, HoldStages

(* Every step keeps the durable-dispatch invariant while Redis works.      *)
LEMMA NextDInv ==
    ASSUME ~RedisFaults, DInv, [Next]_vars
    PROVE  DInv'
<1>0. IInv' /\ TypeOK
  BY NextIInv DEF DInv, IInv
<1>1. DurableAtLeastOnce
  BY DEF DInv
<1> SUFFICES DurableAtLeastOnce'
  BY <1>0 DEF DInv
<1>2. ASSUME UNCHANGED <<delivered, cur, par, dispatch>>,
             \A c \in Consumers : pc[c] \in HoldStages => pc'[c] \in HoldStages
      PROVE  DurableAtLeastOnce'
  BY <1>0, <1>1, <1>2, DurableFrame DEF KeepsDispatch
<1>3. ASSUME NEW c \in Consumers, HandleConsumeNotif(c) PROVE DurableAtLeastOnce'
  BY <1>0, <1>2, <1>3 DEF HandleConsumeNotif, HoldStages, TypeOK
<1>4. ASSUME NEW c \in Consumers, ConsumeSetup(c) PROVE DurableAtLeastOnce'
  BY <1>0, <1>2, <1>4 DEF ConsumeSetup, HoldStages, TypeOK
<1>5. ASSUME NEW c \in Consumers, BasicConsume(c) PROVE DurableAtLeastOnce'
  BY <1>0, <1>2, <1>5 DEF BasicConsume, HoldStages, TypeOK
<1>6. ASSUME NEW c \in Consumers, StreamEnds(c) PROVE DurableAtLeastOnce'
  BY <1>0, <1>2, <1>6 DEF StreamEnds, HoldStages, TypeOK
<1>7. ASSUME NEW c \in Consumers, SendToWs(c) PROVE DurableAtLeastOnce'
  BY <1>0, <1>2, <1>7 DEF SendToWs, HoldStages, TypeOK
<1>8. ASSUME NEW c \in Consumers, CacheNotif(c) PROVE DurableAtLeastOnce'
  <2>1. pc' = [pc EXCEPT ![c] = "db"]
    BY <1>8 DEF CacheNotif
  <2>2. QED
    BY <1>0, <1>2, <1>8, <2>1 DEF CacheNotif, HoldStages, TypeOK
<1>9. ASSUME NEW c \in Consumers, StoreInDb(c) PROVE DurableAtLeastOnce'
  <2> SUFFICES ASSUME NEW d \in delivered', par'[d.by].db
               PROVE  \/ \E t \in dispatch' : t.d = d
                      \/ pc'[d.by] \in {"ws", "cache", "db"} /\ cur'[d.by] = d
    BY DEF DurableAtLeastOnce
  <2>1. /\ pc[c] = "db" /\ pc' = [pc EXCEPT ![c] = "stream"]
        /\ UNCHANGED <<delivered, cur, par>>
        /\ dispatch \subseteq dispatch'
        /\ par[c].db => [d |-> cur[c], st |-> "pending"] \in dispatch'
    BY <1>9 DEF StoreInDb
  <2>2. d \in delivered /\ d.by \in Consumers /\ par[d.by].db
    BY <1>0, <2>1 DEF TypeOK, Delivery
  <2>3. \/ \E t \in dispatch : t.d = d
        \/ pc[d.by] \in {"ws", "cache", "db"} /\ cur[d.by] = d
    BY <1>1, <2>2 DEF DurableAtLeastOnce
  <2>4. CASE d.by = c
    BY <2>1, <2>2, <2>3, <2>4
  <2>5. CASE d.by # c
    BY <1>0, <2>1, <2>3, <2>5 DEF TypeOK
  <2>6. QED
    BY <2>4, <2>5
<1>10. ASSUME NEW c \in Consumers, ReceiveDelivery(c) PROVE DurableAtLeastOnce'
  <2> DEFINE q == par[c].q
             m == Head(queue[q])
             dn == [id |-> m.id, rcv |-> m.rcv, by |-> c, seq |-> cnt[c] + 1]
  <2>0. pc[c] = "stream" /\ UNCHANGED <<par, dispatch>>
    BY <1>10 DEF ReceiveDelivery
  <2>1. CASE /\ pc' = [pc EXCEPT ![c] = "done"]
             /\ UNCHANGED <<queue, cur, cnt, delivered>>
    BY <1>0, <1>2, <2>0, <2>1 DEF HoldStages, TypeOK
  <2>2. CASE /\ cur' = [cur EXCEPT ![c] = dn]
             /\ delivered' = delivered \cup {dn}
             /\ pc' = [pc EXCEPT ![c] = "ws"]
    <3> SUFFICES ASSUME NEW d \in delivered', par'[d.by].db
                 PROVE  \/ \E t \in dispatch' : t.d = d
                        \/ pc'[d.by] \in {"ws", "cache", "db"}
                           /\ cur'[d.by] = d
      BY DEF DurableAtLeastOnce
    <3>1. CASE d = dn
      BY <1>0, <2>0, <2>2, <3>1 DEF TypeOK
    <3>2. CASE d # dn
      <4>1. d \in delivered /\ d.by \in Consumers /\ par[d.by].db
        BY <1>0, <2>0, <2>2, <3>2 DEF TypeOK, Delivery
      <4>2. \/ \E t \in dispatch : t.d = d
            \/ pc[d.by] \in {"ws", "cache", "db"} /\ cur[d.by] = d
        BY <1>1, <4>1 DEF DurableAtLeastOnce
      <4>3. QED
        BY <1>0, <2>0, <2>2, <4>1, <4>2 DEF TypeOK
    <3>3. QED
      BY <3>1, <3>2
  <2>3. QED
    BY <1>10, <2>1, <2>2 DEF ReceiveDelivery
<1>11. ASSUME NEW t \in writes, CacheWriteExists(t) \/ CacheWriteSet(t)
       PROVE  DurableAtLeastOnce'
  BY <1>2, <1>11 DEF CacheWriteExists, CacheWriteSet, consVars
<1>12. ASSUME NEW t \in dispatch, MutatorSend(t) PROVE DurableAtLeastOnce'
  <2>1. \A st : [t EXCEPT !.st = st].d = t.d
    BY <1>0 DEF TypeOK, DispatchTask
  <2>2. KeepsDispatch
    BY <1>12, <2>1 DEF MutatorSend, KeepsDispatch
  <2>3. QED
    BY <1>0, <1>1, <1>12, <2>2, DurableFrame DEF MutatorSend, consVars
<1>13. CASE Environment
  BY <1>0, <1>2, <1>13 DEF Environment, Publish, ExpireKey, WsReceive,
     WsReceiverDrop, HandleHealthMsg, consVars, HoldStages, TypeOK
<1>14. CASE UNCHANGED vars
  BY <1>2, <1>14 DEF vars
<1>15. QED
  BY <1>3, <1>4, <1>5, <1>6, <1>7, <1>8, <1>9, <1>10, <1>11, <1>12, <1>13,
     <1>14 DEF Next, ConsumerStep, TaskStep

(* While Redis does not fail, every notification a consumer with           *)
(* store_in_db acked and decoded is sent to NotifMutatorActor (mod.rs:666) *)
(* or is still being handled by its consumer, for every number of          *)
(* consumers, queues and notifications and under RMQ and mailbox faults.   *)
THEOREM DurableDispatch ==
    ASSUME ~RedisFaults PROVE Spec => []DurableAtLeastOnce
<1>1. Init => DInv
  BY InitIInv DEF DInv, Init, DurableAtLeastOnce
<1>2. DInv /\ [Next]_vars => DInv'
  BY NextDInv
<1>3. DInv => DurableAtLeastOnce
  BY DEF DInv
<1>4. QED
  BY <1>1, <1>2, <1>3, PTL DEF Spec

=============================================================================
