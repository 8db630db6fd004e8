------------------------- MODULE NotifLegacyProofs --------------------------
(***************************************************************************)
(* Proofs about NotifLegacy: type correctness; that every cached recipient *)
(* list keeps each consumer's notifications in its ack order, whatever    *)
(* fails and however consumers interleave; that with one consumer and a   *)
(* healthy Redis an unexpired list is exactly the completed writes; and    *)
(* that with a non-zero redis_cache_exp and a healthy Redis every decoded *)
(* delivery is dispatched to NotifMutatorActor, or is still being written *)
(* by its consumer, whatever RMQ and the mailbox do.                       *)
(***************************************************************************)
EXTENDS NotifLegacy, SequenceTheorems, TLAPS

USE LegacyConstantsAssumption, LegacyChoicesAssumption

(* The stages between the ack and the spawn of the StoreNotifEvent send.  *)
Writing == {"get", "exists", "write"}

(* What the proof needs to know of the state's shape: the program         *)
(* counters and inputs are functions on the consumers, every dispatch     *)
(* task is a record of its delivery and outcome, and every decoded        *)
(* delivery names the consumer that acked it.                             *)
Shape ==
    /\ pc \in [Consumers -> Stages]
    /\ par \in [Consumers -> Choices]
    /\ cur = [c \in Consumers |-> cur[c]]
    /\ \A t \in dispatch : t = [d |-> t.d, st |-> t.st]
    /\ \A d \in decoded : d.by \in Consumers

DInv == Shape /\ LegacyDurable

LEMMA InitDInv == Init => DInv
BY DEF Init, DInv, Shape, LegacyDurable, Stages

(* Every step keeps DInv.  A consumer only takes a new delivery from      *)
(* "stream", which it reaches again only through WriteList, and that step *)
(* spawns the send for the delivery it held; with exp non-zero and Redis   *)
(* healthy, no step leaves the writing stages for "done".  A mutator send *)
(* only changes the outcome of a task, not its delivery.                  *)
LEMMA NextDInv ==
    ASSUME ~RedisFaults, \A ch \in Choices : ch.exp
    PROVE  DInv /\ [Next]_vars => DInv'
<1> SUFFICES ASSUME DInv, [Next]_vars PROVE DInv'
  OBVIOUS
<1> DEFINE Held(d) == pc[d.by] \in Writing /\ cur[d.by] = d
           Sent(d) == \E t \in dispatch : t.d = d
<1>0. \A d \in decoded : Sent(d) \/ Held(d)
  BY DEF DInv, LegacyDurable, Writing
<1>1. ASSUME NEW c \in Consumers, HandleConsumeNotif(c) PROVE DInv'
  BY <1>0, <1>1 DEF HandleConsumeNotif, Goto, DInv, Shape, LegacyDurable,
     Writing, Stages
<1>2. ASSUME NEW c \in Consumers, ConsumeSetup(c) PROVE DInv'
  <2>1. pc[c] \notin Writing /\ pc'[c] \notin Writing
    BY <1>2 DEF ConsumeSetup, Goto, DInv, Shape, Writing
  <2>2. \A e \in Consumers \ {c} : pc'[e] = pc[e]
    BY <1>2 DEF ConsumeSetup, Goto, DInv, Shape
  <2>3. Shape'
    BY <1>2 DEF ConsumeSetup, Goto, DInv, Shape, Stages
  <2>4. QED
    BY <1>0, <1>2, <2>1, <2>2, <2>3 DEF ConsumeSetup, Goto, DInv, Shape,
       LegacyDurable, Writing
<1>3. ASSUME NEW c \in Consumers, BasicConsume(c) PROVE DInv'
  <2>1. pc[c] \notin Writing /\ pc'[c] \notin Writing
    BY <1>3 DEF BasicConsume, Goto, DInv, Shape, Writing
  <2>2. \A e \in Consumers \ {c} : pc'[e] = pc[e]
    BY <1>3 DEF BasicConsume, Goto, DInv, Shape
  <2>3. Shape'
    BY <1>3 DEF BasicConsume, Goto, DInv, Shape, Stages
  <2>4. QED
    BY <1>0, <1>3, <2>1, <2>2, <2>3 DEF BasicConsume, Goto, DInv, Shape,
       LegacyDurable, Writing
<1>4. ASSUME NEW c \in Consumers, ReceiveDelivery(c) PROVE DInv'
  <2>1. pc[c] = "stream"
    BY <1>4 DEF ReceiveDelivery
  <2>2. \A d \in decoded : d.by = c => Sent(d)
    BY <1>0, <2>1 DEF Writing
  <2>3. CASE RmqFaults /\ Goto(c, "done") /\ UNCHANGED <<queue, decoded>>
    <3>1. \A e \in Consumers \ {c} : pc'[e] = pc[e]
      BY <2>3 DEF Goto, DInv, Shape
    <3>2. Shape'
      BY <1>4, <2>3 DEF ReceiveDelivery, Goto, DInv, Shape, Stages
    <3>3. QED
      BY <1>0, <1>4, <2>2, <2>3, <3>1, <3>2 DEF ReceiveDelivery, Goto,
         LegacyDurable, DInv, Writing
  <2>4. CASE ~(RmqFaults /\ Goto(c, "done") /\ UNCHANGED <<queue, decoded>>)
    <3> DEFINE m == Head(queue[par[c].q])
               d1 == [id |-> m.id, rcv |-> m.rcv, by |-> c, seq |-> cnt[c] + 1]
    <3>1. /\ cur' = [cur EXCEPT ![c] = d1]
          /\ decoded' = decoded \cup {d1}
          /\ pc' = [pc EXCEPT ![c] = "get"]
          /\ UNCHANGED <<par, dispatch>>
      BY <1>4, <2>4 DEF ReceiveDelivery, Goto
    <3>2. Shape'
      <4>1. pc' \in [Consumers -> Stages] /\ par' \in [Consumers -> Choices]
        BY <3>1 DEF DInv, Shape, Stages
      <4>2. cur' = [e \in Consumers |-> cur'[e]]
        BY <3>1 DEF DInv, Shape
      <4>3. \A d \in decoded' : d.by \in Consumers
        BY <3>1 DEF DInv, Shape
      <4>4. QED
        BY <3>1, <4>1, <4>2, <4>3 DEF DInv, Shape
    <3>3. LegacyDurable'
      <4> SUFFICES ASSUME NEW d \in decoded' PROVE Sent(d)' \/ Held(d)'
        BY DEF LegacyDurable, Writing
      <4>1. CASE d = d1
        BY <3>1, <4>1 DEF DInv, Shape, Writing
      <4>2. CASE d \in decoded /\ d.by = c
        BY <2>2, <3>1, <4>2
      <4>3. CASE d \in decoded /\ d.by # c
        BY <1>0, <3>1, <4>3 DEF DInv, Shape
      <4>4. QED
        BY <3>1, <4>1, <4>2, <4>3
    <3>4. QED
      BY <3>2, <3>3 DEF DInv
  <2>5. QED
    BY <2>3, <2>4
<1>5. ASSUME NEW c \in Consumers, ReadList(c) PROVE DInv'
  <2>1. pc' = [pc EXCEPT ![c] = "exists"] /\ pc[c] = "get"
    BY <1>5 DEF ReadList
  <2>2. UNCHANGED <<par, cur, dispatch, decoded>>
    BY <1>5 DEF ReadList
  <2>3. QED
    BY <1>0, <2>1, <2>2 DEF DInv, Shape, LegacyDurable, Writing, Stages
<1>6. ASSUME NEW c \in Consumers, CheckExists(c) PROVE DInv'
  <2>1. pc' = [pc EXCEPT ![c] = "write"] /\ pc[c] = "exists"
    BY <1>6 DEF CheckExists
  <2>2. UNCHANGED <<par, cur, dispatch, decoded>>
    BY <1>6 DEF CheckExists
  <2>3. QED
    BY <1>0, <2>1, <2>2 DEF DInv, Shape, LegacyDurable, Writing, Stages
<1>7. ASSUME NEW c \in Consumers, WriteList(c) PROVE DInv'
  <2>1. par[c].exp
    BY DEF DInv, Shape
  <2>2. /\ dispatch' = dispatch \cup {[d |-> cur[c], st |-> "pending"]}
        /\ pc' = [pc EXCEPT ![c] = "stream"]
        /\ UNCHANGED <<par, cur, decoded>>
    BY <1>7, <2>1 DEF WriteList
  <2>3. Shape'
    BY <2>2 DEF DInv, Shape, Stages
  <2>4. LegacyDurable'
    <3> SUFFICES ASSUME NEW d \in decoded PROVE Sent(d)' \/ Held(d)'
      BY <2>2 DEF LegacyDurable, Writing
    <3>1. CASE Sent(d)
      BY <2>2, <3>1
    <3>2. CASE Held(d) /\ d.by = c
      <4>1. [d |-> cur[c], st |-> "pending"] \in dispatch' /\ cur[c] = d
        BY <2>2, <3>2
      <4>2. QED
        BY <4>1 DEF Sent
    <3>3. CASE Held(d) /\ d.by # c
      BY <2>2, <3>3 DEF DInv, Shape
    <3>4. QED
      BY <1>0, <3>1, <3>2, <3>3
  <2>5. QED
    BY <2>3, <2>4 DEF DInv
<1>8. ASSUME NEW t \in dispatch, MutatorSend(t) PROVE DInv'
  <2>1. PICK st \in {"stored", "lost"} :
          dispatch' = (dispatch \ {t}) \cup {[t EXCEPT !.st = st]}
    BY <1>8 DEF MutatorSend
  <2>2. [t EXCEPT !.st = st] = [d |-> t.d, st |-> st]
    BY DEF DInv, Shape
  <2>3. \A d \in decoded : Sent(d) => Sent(d)'
    BY <2>1, <2>2
  <2>4. UNCHANGED <<pc, par, cur, decoded>>
    BY <1>8 DEF MutatorSend, consVars
  <2>5. QED
    BY <1>0, <2>1, <2>2, <2>3, <2>4 DEF DInv, Shape, LegacyDurable, Writing
<1>9. ASSUME NEW r \in Receivers, Publish(r) PROVE DInv'
  BY <1>9 DEF Publish, consVars, DInv, Shape, LegacyDurable
<1>10. ASSUME NEW k \in Receivers, ExpireKey(k) PROVE DInv'
  BY <1>10 DEF ExpireKey, consVars, DInv, Shape, LegacyDurable
<1>11. CASE UNCHANGED vars
  BY <1>11 DEF vars, DInv, Shape, LegacyDurable
<1>12. QED
  BY <1>1, <1>2, <1>3, <1>4, <1>5, <1>6, <1>7, <1>8, <1>9, <1>10, <1>11
  DEF Next, ConsumerStep

(* Spec invariant 4 for the legacy consumer: when every ConsumeNotif      *)
(* carries a non-zero redis_cache_exp and Redis does not fail, no decoded *)
(* delivery is left without its StoreNotifEvent send (lines 287-314)      *)
(* unless its consumer is still writing its list.  Both assumptions are   *)
(* needed: with exp 0 the SET EX at line 281 panics (run legacy_exp0),   *)
(* and a Redis error at lines 206-267 returns before the send.            *)
THEOREM LegacyDispatch ==
    ~RedisFaults /\ (\A ch \in Choices : ch.exp)
        => (Spec => []LegacyDurable)
<1> SUFFICES ASSUME ~RedisFaults, \A ch \in Choices : ch.exp
             PROVE Spec => []LegacyDurable
  OBVIOUS
<1>1. Init => DInv
  BY InitDInv
<1>2. DInv /\ [Next]_vars => DInv'
  BY NextDInv
<1>3. DInv => LegacyDurable
  BY DEF DInv
<1>4. QED
  BY <1>1, <1>2, <1>3, PTL DEF Spec

-----------------------------------------------------------------------------
(* Type correctness.  TypeOK says nothing of the queues; what a queue    *)
(* holds is what Publish appended, an id below the bound and a receiver.  *)
Msg == [id : 1..MaxMsgs, rcv : Receivers]

LTypeInv == TypeOK /\ queue \in [Queues -> Seq(Msg)]

LEMMA InitLTypeInv == Init => LTypeInv
<1> SUFFICES ASSUME Init PROVE LTypeInv
  OBVIOUS
<1>1. <<>> \in Seq(Delivery) /\ <<>> \in Seq(Msg)
  BY EmptySeq
<1>2. /\ pc \in [Consumers -> Stages] /\ par \in [Consumers -> Params]
      /\ cur \in [Consumers -> Delivery \cup {Absent}]
      /\ \A c \in Consumers : pc[c] \notin Writing
  BY DEF Init, Stages, Writing
<1>3. /\ cnt \in [Consumers -> Nat] /\ lst \in [Consumers -> Seq(Delivery)]
      /\ there \in [Consumers -> BOOLEAN] /\ nextId \in 1..(MaxMsgs + 1)
      /\ cache \in [Receivers -> CachedList \cup {Absent}]
      /\ hist \in [Receivers -> Seq(Delivery)]
      /\ queue \in [Queues -> Seq(Msg)]
  BY <1>1 DEF Init
<1>4. QED
  BY <1>2, <1>3 DEF Init, LTypeInv, TypeOK, Writing

LEMMA LTypeStep == LTypeInv /\ [Next]_vars => LTypeInv'
<1> SUFFICES ASSUME LTypeInv, [Next]_vars PROVE LTypeInv'
  OBVIOUS
<1> DEFINE Stay(c) == UNCHANGED <<par, cur, cnt, lst, there, queue, nextId,
                                  cache, dispatch, decoded, hist, expired>>
<1>0. ASSUME NEW c \in Consumers, NEW st \in Stages \ Writing,
             pc' = [pc EXCEPT ![c] = st], Stay(c),
             exDeclared' \in BOOLEAN, bound' \subseteq Queues
      PROVE  LTypeInv'
  BY <1>0 DEF LTypeInv, TypeOK, Writing
<1>1. ASSUME NEW c \in Consumers, HandleConsumeNotif(c) PROVE LTypeInv'
  BY <1>0, <1>1 DEF HandleConsumeNotif, Goto, envVars, Stages, Writing,
     LTypeInv, TypeOK
<1>2. ASSUME NEW c \in Consumers, ConsumeSetup(c) PROVE LTypeInv'
  <2>1. par[c].q \in Queues
    BY DEF LTypeInv, TypeOK, Params
  <2>2. QED
    BY <1>0, <1>2, <2>1 DEF ConsumeSetup, Goto, Stages, Writing, LTypeInv,
       TypeOK
<1>3. ASSUME NEW c \in Consumers, BasicConsume(c) PROVE LTypeInv'
  BY <1>0, <1>3 DEF BasicConsume, Goto, envVars, Stages, Writing, LTypeInv,
     TypeOK
<1>4. ASSUME NEW c \in Consumers, ReceiveDelivery(c) PROVE LTypeInv'
  <2> DEFINE q == par[c].q
             m == Head(queue[q])
             d == [id |-> m.id, rcv |-> m.rcv, by |-> c, seq |-> cnt[c] + 1]
  <2>1. q \in Queues /\ queue[q] \in Seq(Msg) /\ queue[q] # <<>>
    BY <1>4 DEF ReceiveDelivery, LTypeInv, TypeOK, Params
  <2>2. m \in Msg /\ Tail(queue[q]) \in Seq(Msg)
    BY <2>1, HeadTailProperties
  <2>3. d \in Delivery
    <3>1. m.id \in 1..MaxMsgs /\ m.rcv \in Receivers
      BY <2>2 DEF Msg
    <3>2. cnt[c] + 1 \in Nat \ {0}
      BY DEF LTypeInv, TypeOK
    <3>3. QED
      BY <3>1, <3>2 DEF Delivery
  <2>4. CASE /\ queue' = [queue EXCEPT ![q] = Tail(@)]
             /\ cur' = [cur EXCEPT ![c] = d]
             /\ cnt' = [cnt EXCEPT ![c] = @ + 1]
             /\ decoded' = decoded \cup {d}
             /\ pc' = [pc EXCEPT ![c] = "get"]
             /\ UNCHANGED <<par, lst, there>>
    <3>1. queue' \in [Queues -> Seq(Msg)]
      BY <2>1, <2>2, <2>4 DEF LTypeInv
    <3>2. cur' \in [Consumers -> Delivery \cup {Absent}]
      BY <2>3, <2>4 DEF LTypeInv, TypeOK
    <3>3. cnt' \in [Consumers -> Nat] /\ decoded' \subseteq Delivery
      BY <2>3, <2>4 DEF LTypeInv, TypeOK
    <3>4. /\ pc' \in [Consumers -> Stages]
          /\ \A e \in Consumers :
               pc'[e] \in {"get", "exists", "write"} => cur'[e] \in Delivery
      BY <2>3, <2>4 DEF LTypeInv, TypeOK, Stages
    <3>5. UNCHANGED <<exDeclared, bound, nextId, cache, dispatch, hist,
                      expired>>
      BY <1>4 DEF ReceiveDelivery
    <3>6. QED
      BY <2>4, <3>1, <3>2, <3>3, <3>4, <3>5 DEF LTypeInv, TypeOK
  <2>5. CASE Goto(c, "done") /\ UNCHANGED <<queue, decoded>>
    BY <1>0, <1>4, <2>5 DEF ReceiveDelivery, Goto, Stages, Writing,
       LTypeInv, TypeOK
  <2>6. QED
    BY <1>4, <2>4, <2>5 DEF ReceiveDelivery
<1>5. ASSUME NEW c \in Consumers, ReadList(c) PROVE LTypeInv'
  <2> DEFINE d == cur[c]
             k == d.rcv
  <2>1. d \in Delivery /\ k \in Receivers
    BY <1>5 DEF ReadList, LTypeInv, TypeOK, Writing, Delivery
  <2>2. cache[k] # Absent => cache[k].val \in Seq(Delivery)
    BY <2>1 DEF LTypeInv, TypeOK, CachedList
  <2>3. cache[k] # Absent => PushedList(cache[k].val, d) \in Seq(Delivery)
    BY <2>1, <2>2, AppendProperties DEF PushedList
  <2>4. <<d>> \in Seq(Delivery)
    BY <2>1
  <2>5. lst' \in [Consumers -> Seq(Delivery)]
    BY <1>5, <2>3, <2>4 DEF ReadList, LTypeInv, TypeOK
  <2>6. QED
    BY <1>5, <2>5 DEF ReadList, envVars, LTypeInv, TypeOK, Stages
<1>6. ASSUME NEW c \in Consumers, CheckExists(c) PROVE LTypeInv'
  BY <1>6 DEF CheckExists, envVars, LTypeInv, TypeOK, Stages
<1>7. ASSUME NEW c \in Consumers, WriteList(c) PROVE LTypeInv'
  <2> DEFINE d == cur[c]
             k == d.rcv
  <2>1. d \in Delivery /\ k \in Receivers
    BY <1>7 DEF WriteList, LTypeInv, TypeOK, Writing, Delivery
  <2>2. [val |-> lst[c], ttl |-> ~there[c]] \in CachedList
    BY DEF LTypeInv, TypeOK, CachedList
  <2>3. Append(hist[k], d) \in Seq(Delivery)
    BY <2>1, AppendProperties DEF LTypeInv, TypeOK
  <2>4. [d |-> d, st |-> "pending"] \in DispatchTask
    BY <2>1 DEF DispatchTask
  <2>5. CASE /\ cache' = [cache EXCEPT ![k] = [val |-> lst[c], ttl |-> ~there[c]]]
             /\ hist' = [hist EXCEPT ![k] = Append(@, d)]
             /\ dispatch' = dispatch \cup {[d |-> d, st |-> "pending"]}
             /\ pc' = [pc EXCEPT ![c] = "stream"]
    <3>1. cache' \in [Receivers -> CachedList \cup {Absent}]
      BY <2>1, <2>2, <2>5 DEF LTypeInv, TypeOK
    <3>2. hist' \in [Receivers -> Seq(Delivery)]
      BY <2>1, <2>3, <2>5 DEF LTypeInv, TypeOK
    <3>3. QED
      BY <1>7, <2>4, <2>5, <3>1, <3>2 DEF WriteList, envVars, LTypeInv,
         TypeOK, Stages
  <2>6. CASE pc' = [pc EXCEPT ![c] = "done"] /\ UNCHANGED <<cache, hist, dispatch>>
    BY <1>7, <2>6 DEF WriteList, envVars, LTypeInv, TypeOK, Stages
  <2>7. QED
    BY <1>7, <2>5, <2>6 DEF WriteList
<1>8. ASSUME NEW t \in dispatch, MutatorSend(t) PROVE LTypeInv'
  <2>1. \A st \in {"stored", "lost"} : [t EXCEPT !.st = st] \in DispatchTask
    BY DEF LTypeInv, TypeOK, DispatchTask
  <2>2. QED
    BY <1>8, <2>1 DEF MutatorSend, consVars, envVars, LTypeInv, TypeOK
<1>9. ASSUME NEW r \in Receivers, Publish(r) PROVE LTypeInv'
  <2>1. [id |-> nextId, rcv |-> r] \in Msg
    BY <1>9 DEF Publish, Msg, LTypeInv, TypeOK
  <2>2. \A q \in Queues : Append(queue[q], [id |-> nextId, rcv |-> r])
                            \in Seq(Msg)
    BY <2>1, AppendProperties DEF LTypeInv
  <2>3. queue' \in [Queues -> Seq(Msg)]
    BY <1>9, <2>2 DEF Publish, LTypeInv
  <2>4. QED
    BY <1>9, <2>3 DEF Publish, consVars, LTypeInv, TypeOK
<1>10. ASSUME NEW k \in Receivers, ExpireKey(k) PROVE LTypeInv'
  BY <1>10 DEF ExpireKey, consVars, envVars, LTypeInv, TypeOK
<1>11. CASE UNCHANGED vars
  BY <1>11 DEF vars, LTypeInv, TypeOK
<1>12. QED
  BY <1>1, <1>2, <1>3, <1>4, <1>5, <1>6, <1>7, <1>8, <1>9, <1>10, <1>11
  DEF Next, ConsumerStep

(* Every variable of the legacy consumer keeps its type, and a consumer   *)
(* between the ack of line 190 and the write of lines 264-281 holds the  *)
(* delivery it acked, whatever RMQ, Redis and the mailbox do.             *)
THEOREM LegacyTypeCorrect == Spec => []TypeOK
<1>1. Init => LTypeInv
  BY InitLTypeInv
<1>2. LTypeInv /\ [Next]_vars => LTypeInv'
  BY LTypeStep
<1>3. LTypeInv => TypeOK
  BY DEF LTypeInv
<1>4. QED
  BY <1>1, <1>2, <1>3, PTL DEF Spec

-----------------------------------------------------------------------------
(* Ack order.  A consumer between its ack and its write holds its latest *)
(* ack.                                                                    *)
CurIsLast ==
    \A c \in Consumers :
        pc[c] \in Writing => cur[c].by = c /\ cur[c].seq = cnt[c]

(* Every entry of list s was acked by its consumer no later than that     *)
(* consumer's latest ack (n), and strictly earlier while that consumer is *)
(* yet to read the list for its latest ack (stage p = "get").             *)
Bounded(s, n, p) ==
    \A i \in 1..Len(s) :
        /\ s[i].seq <= n[s[i].by]
        /\ p[s[i].by] = "get" => s[i].seq < n[s[i].by]

ListOK(s) == AckOrdered(s) /\ Bounded(s, cnt, pc)

(* The cached lists and the lists the consumers computed from their GET. *)
ListsOK ==
    /\ \A k \in Receivers : cache[k] # Absent => ListOK(cache[k].val)
    /\ \A c \in Consumers : ListOK(lst[c])

OInv == LTypeInv /\ CurIsLast /\ ListsOK

(* messages.push of a notification later in its consumer's ack order     *)
(* than every entry of that consumer keeps a list ordered and bounded.   *)
LEMMA AppendOK ==
    ASSUME NEW s \in Seq(Delivery), NEW d \in Delivery, NEW n, NEW p,
           AckOrdered(s), Bounded(s, n, p),
           \A i \in 1..Len(s) : s[i].by = d.by => s[i].seq < d.seq,
           d.seq <= n[d.by], p[d.by] = "get" => d.seq < n[d.by]
    PROVE  AckOrdered(Append(s, d)) /\ Bounded(Append(s, d), n, p)
<1>1. /\ Len(Append(s, d)) = Len(s) + 1
      /\ \A i \in 1..Len(s) : Append(s, d)[i] = s[i]
      /\ Append(s, d)[Len(s) + 1] = d
  BY AppendProperties
<1>2. AckOrdered(Append(s, d))
  BY <1>1 DEF AckOrdered
<1>3. Bounded(Append(s, d), n, p)
  BY <1>1 DEF Bounded
<1>4. QED
  BY <1>2, <1>3

(* The bound survives steps in which no counter decreases and a consumer *)
(* enters "get" only by acking a new delivery.                            *)
LEMMA BoundedMono ==
    ASSUME NEW s \in Seq(Delivery),
           NEW n \in [Consumers -> Nat], NEW n2 \in [Consumers -> Nat],
           NEW p, NEW p2, Bounded(s, n, p),
           \A e \in Consumers :
               /\ n[e] <= n2[e]
               /\ p2[e] = "get" => p[e] = "get" \/ n[e] < n2[e]
    PROVE  Bounded(s, n2, p2)
<1> SUFFICES ASSUME NEW i \in 1..Len(s)
             PROVE  /\ s[i].seq <= n2[s[i].by]
                    /\ p2[s[i].by] = "get" => s[i].seq < n2[s[i].by]
  BY DEF Bounded
<1> DEFINE e == s[i].by
<1>0. s[i] \in Delivery
  BY ElementOfSeq
<1>1. e \in Consumers /\ s[i].seq \in Nat
  BY <1>0 DEF Delivery
<1>2. s[i].seq <= n[e] /\ (p[e] = "get" => s[i].seq < n[e])
  BY DEF Bounded
<1>3. n[e] <= n2[e] /\ (p2[e] = "get" => p[e] = "get" \/ n[e] < n2[e])
  BY <1>1
<1>4. QED
  BY <1>1, <1>2, <1>3

LEMMA InitOInv == Init => OInv
<1> SUFFICES ASSUME Init PROVE OInv
  OBVIOUS
<1>1. LTypeInv
  BY InitLTypeInv
<1>2. AckOrdered(<<>>) /\ Bounded(<<>>, cnt, pc)
  BY DEF AckOrdered, Bounded
<1>3. QED
  BY <1>1, <1>2 DEF Init, OInv, CurIsLast, ListsOK, ListOK, Writing

LEMMA NextOInv == OInv /\ [Next]_vars => OInv'
<1> SUFFICES ASSUME OInv, [Next]_vars PROVE OInv'
  OBVIOUS
<1>0. LTypeInv'
  BY LTypeStep DEF OInv
(* The counters only grow, and "get" is entered only with a new ack.      *)
<1> DEFINE Mono ==
      /\ cnt' \in [Consumers -> Nat]
      /\ \A e \in Consumers :
           /\ cnt[e] <= cnt'[e]
           /\ pc'[e] = "get" => pc[e] = "get" \/ cnt[e] < cnt'[e]
<1>1. ASSUME NEW s \in Seq(Delivery), ListOK(s), Mono PROVE ListOK(s)'
  BY <1>1, BoundedMono DEF ListOK, OInv, LTypeInv, TypeOK
<1>2. /\ \A k \in Receivers : cache[k] # Absent => cache[k].val \in Seq(Delivery)
      /\ \A c \in Consumers : lst[c] \in Seq(Delivery)
  BY DEF OInv, LTypeInv, TypeOK, CachedList
<1>3. ASSUME Mono, UNCHANGED <<cache, lst>> PROVE ListsOK'
  BY <1>1, <1>2, <1>3 DEF OInv, ListsOK
<1>4. ASSUME NEW c \in Consumers, NEW st \in Stages \ {"get"},
             st \in Writing => pc[c] \in Writing,
             pc' = [pc EXCEPT ![c] = st], UNCHANGED <<cur, cnt, cache, lst>>
      PROVE  OInv'
  <2>1. Mono
    BY <1>4 DEF OInv, LTypeInv, TypeOK
  <2>2. CurIsLast'
    BY <1>4 DEF OInv, CurIsLast, LTypeInv, TypeOK
  <2>3. QED
    BY <1>0, <1>3, <1>4, <2>1, <2>2 DEF OInv
<1>5. ASSUME NEW c \in Consumers, HandleConsumeNotif(c) \/ ConsumeSetup(c)
                 \/ BasicConsume(c) \/ CheckExists(c)
      PROVE  OInv'
  BY <1>4, <1>5 DEF HandleConsumeNotif, ConsumeSetup, BasicConsume,
     CheckExists, Goto, Stages, Writing
<1>6. ASSUME NEW c \in Consumers, ReceiveDelivery(c) PROVE OInv'
  <2> DEFINE m == Head(queue[par[c].q])
             d == [id |-> m.id, rcv |-> m.rcv, by |-> c, seq |-> cnt[c] + 1]
  <2>1. CASE /\ cur' = [cur EXCEPT ![c] = d]
             /\ cnt' = [cnt EXCEPT ![c] = @ + 1]
             /\ pc' = [pc EXCEPT ![c] = "get"]
             /\ UNCHANGED <<cache, lst>>
    <3>1. Mono
      BY <2>1 DEF OInv, LTypeInv, TypeOK
    <3>2. CurIsLast'
      BY <2>1 DEF OInv, CurIsLast, LTypeInv, TypeOK, Writing
    <3>3. QED
      BY <1>0, <1>3, <2>1, <3>1, <3>2 DEF OInv
  <2>2. CASE Goto(c, "done")
    BY <1>4, <1>6, <2>2 DEF ReceiveDelivery, Goto, Stages, Writing
  <2>3. QED
    BY <1>6, <2>1, <2>2 DEF ReceiveDelivery
<1>7. ASSUME NEW c \in Consumers, ReadList(c) PROVE OInv'
  <2> DEFINE d == cur[c]
             k == d.rcv
  <2>1. CASE pc' = [pc EXCEPT ![c] = "done"] /\ UNCHANGED lst
    BY <1>4, <1>7, <2>1 DEF ReadList, Stages, Writing
  <2>2. CASE /\ pc[c] = "get" /\ pc' = [pc EXCEPT ![c] = "exists"]
             /\ \/ cache[k] # Absent
                   /\ lst' = [lst EXCEPT ![c] = Append(cache[k].val, d)]
                \/ lst' = [lst EXCEPT ![c] = <<d>>]
             /\ UNCHANGED <<cur, cnt, cache>>
    <3>1. Mono
      BY <2>2 DEF OInv, LTypeInv, TypeOK
    <3>2. d \in Delivery /\ d.by = c /\ d.seq = cnt[c] /\ k \in Receivers
      BY <2>2 DEF OInv, LTypeInv, TypeOK, CurIsLast, Writing, Delivery
    <3>3. ASSUME NEW s \in Seq(Delivery), ListOK(s)
          PROVE  AckOrdered(Append(s, d)) /\ Bounded(Append(s, d), cnt', pc')
      <4>1. \A i \in 1..Len(s) : s[i].by = d.by => s[i].seq < d.seq
        BY <2>2, <3>2, <3>3 DEF ListOK, Bounded
      <4>2. AckOrdered(s) /\ Bounded(s, cnt', pc')
        BY <1>1, <3>1, <3>3 DEF ListOK
      <4>3. d.seq <= cnt'[d.by] /\ pc'[d.by] # "get"
        BY <2>2, <3>2 DEF OInv, LTypeInv, TypeOK
      <4>4. QED
        BY <3>2, <4>1, <4>2, <4>3, AppendOK
    <3>4. AckOrdered(lst'[c]) /\ Bounded(lst'[c], cnt', pc')
      <4>1. <<>> \in Seq(Delivery) /\ ListOK(<<>>) /\ <<d>> = Append(<<>>, d)
        BY <3>2, EmptySeq DEF ListOK, AckOrdered, Bounded
      <4>2. cache[k] # Absent => ListOK(cache[k].val)
        BY <3>2 DEF OInv, ListsOK
      <4>3. QED
        BY <1>2, <2>2, <3>2, <3>3, <4>1, <4>2 DEF OInv, LTypeInv, TypeOK
    <3>5. ListsOK'
      <4>1. \A r \in Receivers : cache'[r] # Absent => ListOK(cache[r].val)'
        BY <1>1, <1>2, <2>2, <3>1 DEF OInv, ListsOK
      <4>2. \A e \in Consumers \ {c} : ListOK(lst[e])'
        BY <1>1, <1>2, <2>2, <3>1 DEF OInv, ListsOK, LTypeInv, TypeOK
      <4>3. ListOK(lst[c])'
        BY <3>4 DEF ListOK
      <4>4. QED
        BY <4>1, <4>2, <4>3 DEF ListsOK
    <3>6. CurIsLast'
      BY <2>2 DEF OInv, CurIsLast, LTypeInv, TypeOK, Writing
    <3>7. QED
      BY <1>0, <3>5, <3>6 DEF OInv
  <2>3. QED
    BY <1>7, <2>1, <2>2 DEF ReadList, PushedList
<1>8. ASSUME NEW c \in Consumers, WriteList(c) PROVE OInv'
  <2> DEFINE k == cur[c].rcv
  <2>1. CASE pc' = [pc EXCEPT ![c] = "done"] /\ UNCHANGED cache
    BY <1>4, <1>8, <2>1 DEF WriteList, Stages, Writing
  <2>2. CASE /\ pc[c] = "write" /\ pc' = [pc EXCEPT ![c] = "stream"]
             /\ cache' = [cache EXCEPT ![k] = [val |-> lst[c], ttl |-> ~there[c]]]
             /\ UNCHANGED <<cur, cnt, lst>>
    <3>1. Mono
      BY <2>2 DEF OInv, LTypeInv, TypeOK
    <3>2. ListOK(lst[c])'
      BY <1>1, <1>2, <2>2, <3>1 DEF OInv, ListsOK
    <3>3. k \in Receivers
      BY <2>2 DEF OInv, LTypeInv, TypeOK, Writing, Delivery
    <3>4. ListsOK'
      BY <1>1, <1>2, <2>2, <3>1, <3>2, <3>3 DEF OInv, ListsOK, LTypeInv,
         TypeOK
    <3>5. CurIsLast'
      BY <2>2 DEF OInv, CurIsLast, LTypeInv, TypeOK, Writing
    <3>6. QED
      BY <1>0, <3>4, <3>5 DEF OInv
  <2>3. QED
    BY <1>8, <2>1, <2>2 DEF WriteList
<1>9. ASSUME UNCHANGED <<pc, cur, cnt, lst>>,
             \A k \in Receivers : cache'[k] = cache[k] \/ cache'[k] = Absent
      PROVE  OInv'
  <2>1. Mono
    BY <1>9 DEF OInv, LTypeInv, TypeOK
  <2>2. ListsOK'
    BY <1>1, <1>2, <1>9, <2>1 DEF OInv, ListsOK
  <2>3. QED
    BY <1>0, <1>9, <2>2 DEF OInv, CurIsLast
<1>10. QED
  <2>1. ASSUME NEW t \in dispatch, MutatorSend(t) PROVE OInv'
    BY <1>9, <2>1 DEF MutatorSend, consVars
  <2>2. ASSUME NEW r \in Receivers, Publish(r) PROVE OInv'
    BY <1>9, <2>2 DEF Publish, consVars
  <2>3. ASSUME NEW k \in Receivers, ExpireKey(k) PROVE OInv'
    BY <1>9, <2>3 DEF ExpireKey, consVars, OInv, LTypeInv, TypeOK
  <2>4. CASE UNCHANGED vars
    BY <1>9, <2>4 DEF vars
  <2>5. QED
    BY <1>5, <1>6, <1>7, <1>8, <2>1, <2>2, <2>3, <2>4 DEF Next, ConsumerStep

(* Spec invariant 2, delivery order, for the legacy consumer: whatever    *)
(* RMQ, Redis and the mailbox do and however the GET / EXISTS / SET of    *)
(* several consumers interleave (lines 206-281), a cached recipient list *)
(* keeps each consumer's notifications in that consumer's ack order.     *)
THEOREM LegacyAckOrder == Spec => []LegacyCacheInAckOrder
<1>1. Init => OInv
  BY InitOInv
<1>2. OInv /\ [Next]_vars => OInv'
  BY NextOInv
<1>3. OInv => LegacyCacheInAckOrder
  BY DEF OInv, ListsOK, ListOK, LegacyCacheInAckOrder
<1>4. QED
  BY <1>1, <1>2, <1>3, PTL DEF Spec

-----------------------------------------------------------------------------
(* The read-modify-write of one consumer.  A key that never expired and  *)
(* is not on Redis was never written; a consumer past its GET of such a  *)
(* key holds the written list with its delivery pushed.                   *)
NeverWritten ==
    \A k \in Receivers : k \notin expired /\ cache[k] = Absent => hist[k] = <<>>

ReadIsCurrent ==
    \A c \in Consumers :
        pc[c] \in {"exists", "write"} /\ cur[c].rcv \notin expired
            => lst[c] = Append(hist[cur[c].rcv], cur[c])

MInv == LTypeInv /\ ListMatchesWrites /\ NeverWritten /\ ReadIsCurrent

LEMMA InitMInv == Init => MInv
BY InitLTypeInv DEF Init, MInv, ListMatchesWrites, NeverWritten, ReadIsCurrent,
   Writing

LEMMA NextMInv ==
    ASSUME ~RedisFaults, NEW c0, Consumers = {c0}
    PROVE  MInv /\ [Next]_vars => MInv'
<1> SUFFICES ASSUME MInv, [Next]_vars PROVE MInv'
  OBVIOUS
<1>0. LTypeInv'
  BY LTypeStep DEF MInv
(* Steps that touch neither Redis nor what the consumer read.             *)
<1>1. ASSUME UNCHANGED <<cache, hist, expired, cur, lst>>,
             pc'[c0] \in {"exists", "write"} => pc[c0] \in {"exists", "write"}
      PROVE  MInv'
  BY <1>0, <1>1 DEF MInv, ListMatchesWrites, NeverWritten, ReadIsCurrent
<1>2. ASSUME NEW c \in Consumers,
             \/ HandleConsumeNotif(c) \/ ConsumeSetup(c) \/ BasicConsume(c)
             \/ ReceiveDelivery(c) \/ CheckExists(c)
      PROVE  MInv'
  <2>1. UNCHANGED <<cache, hist, expired, lst>>
    BY <1>2 DEF HandleConsumeNotif, ConsumeSetup, BasicConsume,
       ReceiveDelivery, CheckExists, Goto
  <2>2. CASE ReceiveDelivery(c)
    <3>1. pc'[c0] \in {"get", "done"}
      BY <2>2 DEF ReceiveDelivery, Goto, MInv, LTypeInv, TypeOK
    <3>2. QED
      BY <1>0, <2>1, <3>1 DEF MInv, ListMatchesWrites, NeverWritten,
         ReadIsCurrent
  <2>3. CASE ~ReceiveDelivery(c)
    <3>1. UNCHANGED cur
      BY <1>2, <2>3 DEF HandleConsumeNotif, ConsumeSetup, BasicConsume,
         CheckExists, Goto
    <3>2. pc'[c0] \in {"exists", "write"} => pc[c0] \in {"exists", "write"}
      BY <1>2, <2>3 DEF HandleConsumeNotif, ConsumeSetup, BasicConsume,
         CheckExists, Goto, MInv, LTypeInv, TypeOK
    <3>3. QED
      BY <1>1, <2>1, <3>1, <3>2
  <2>4. QED
    BY <2>2, <2>3
<1>3. ASSUME NEW c \in Consumers, ReadList(c) PROVE MInv'
  <2> DEFINE d == cur[c]
             k == d.rcv
  <2>1. c = c0 /\ pc[c] = "get" /\ d \in Delivery /\ k \in Receivers
    BY <1>3 DEF ReadList, MInv, LTypeInv, TypeOK, Delivery
  <2>2. /\ pc' = [pc EXCEPT ![c] = "exists"]
        /\ lst' = [lst EXCEPT ![c] = IF cache[k] # Absent
                                     THEN Append(cache[k].val, d) ELSE <<d>>]
        /\ UNCHANGED <<cache, hist, expired, cur>>
    BY <1>3 DEF ReadList, PushedList
  <2>3. k \notin expired => lst'[c] = Append(hist[k], d)
    <3>1. k \notin expired /\ cache[k] # Absent => cache[k].val = hist[k]
      BY <2>1 DEF MInv, ListMatchesWrites
    <3>2. k \notin expired /\ cache[k] = Absent => hist[k] = <<>>
      BY <2>1 DEF MInv, NeverWritten
    <3>3. lst'[c] = IF cache[k] # Absent THEN Append(cache[k].val, d)
                    ELSE <<d>>
      BY <2>1, <2>2 DEF MInv, LTypeInv, TypeOK
    <3>4. <<d>> = Append(<<>>, d)
      OBVIOUS
    <3>5. QED
      BY <3>1, <3>2, <3>3, <3>4
  <2>4. ReadIsCurrent'
    BY <2>1, <2>2, <2>3 DEF ReadIsCurrent
  <2>5. QED
    BY <1>0, <2>2, <2>4 DEF MInv, ListMatchesWrites, NeverWritten
<1>4. ASSUME NEW c \in Consumers, WriteList(c) PROVE MInv'
  <2> DEFINE d == cur[c]
             k == d.rcv
  <2>1. c = c0 /\ pc[c] = "write" /\ d \in Delivery /\ k \in Receivers
    BY <1>4 DEF WriteList, MInv, LTypeInv, TypeOK, Delivery
  <2>2. CASE pc' = [pc EXCEPT ![c] = "done"] /\ UNCHANGED <<cache, hist>>
    <3>1. UNCHANGED <<expired, cur, lst>>
      BY <1>4 DEF WriteList
    <3>2. QED
      BY <1>1, <2>1, <2>2, <3>1 DEF MInv, LTypeInv, TypeOK
  <2>3. CASE /\ cache' = [cache EXCEPT ![k] = [val |-> lst[c], ttl |-> ~there[c]]]
             /\ hist' = [hist EXCEPT ![k] = Append(@, d)]
             /\ pc' = [pc EXCEPT ![c] = "stream"]
    <3>1. UNCHANGED <<expired, cur, lst>>
      BY <1>4 DEF WriteList
    <3>2. k \notin expired => cache'[k].val = hist'[k]
      BY <2>1, <2>3, <3>1 DEF MInv, ReadIsCurrent, LTypeInv, TypeOK
    <3>3. ListMatchesWrites'
      BY <2>1, <2>3, <3>1, <3>2 DEF MInv, ListMatchesWrites, LTypeInv, TypeOK
    <3>4. NeverWritten'
      <4>1. [val |-> lst[c], ttl |-> ~there[c]] # Absent
        <5>1. [val |-> lst[c], ttl |-> ~there[c]] \in CachedList
          BY DEF MInv, LTypeInv, TypeOK, CachedList
        <5>2. QED
          BY <5>1, LegacyAbsentAssumption
      <4>2. cache'[k] # Absent
        BY <2>1, <2>3, <4>1 DEF MInv, LTypeInv, TypeOK
      <4>3. QED
        BY <2>1, <2>3, <3>1, <4>2 DEF MInv, NeverWritten, LTypeInv, TypeOK
    <3>5. ReadIsCurrent'
      BY <2>1, <2>3 DEF ReadIsCurrent, MInv, LTypeInv, TypeOK
    <3>6. QED
      BY <1>0, <3>3, <3>4, <3>5 DEF MInv
  <2>4. QED
    BY <1>4, <2>2, <2>3 DEF WriteList
<1>5. ASSUME NEW k \in Receivers, ExpireKey(k) PROVE MInv'
  <2>1. /\ cache' = [cache EXCEPT ![k] = Absent] /\ expired' = expired \cup {k}
        /\ UNCHANGED <<hist, pc, cur, lst>>
    BY <1>5 DEF ExpireKey, consVars
  <2>2. QED
    BY <1>0, <2>1 DEF MInv, ListMatchesWrites, NeverWritten, ReadIsCurrent,
       LTypeInv, TypeOK
<1>6. QED
  <2>1. ASSUME NEW t \in dispatch, MutatorSend(t) PROVE MInv'
    BY <1>1, <2>1 DEF MutatorSend, consVars
  <2>2. ASSUME NEW r \in Receivers, Publish(r) PROVE MInv'
    BY <1>1, <2>2 DEF Publish, consVars
  <2>3. CASE UNCHANGED vars
    BY <1>1, <2>3 DEF vars
  <2>4. QED
    BY <1>2, <1>3, <1>4, <1>5, <2>1, <2>2, <2>3 DEF Next, ConsumerStep

(* Spec invariant 2, append monotonicity, for one legacy consumer and a  *)
(* healthy Redis: as long as a key has not expired, its recipient list   *)
(* is exactly the notifications whose write completed, in order; the    *)
(* GET, push and SET of lines 206-281 lose nothing.  With a Redis error  *)
(* the GET of line 213 starts a fresh list over a stored one, and with  *)
(* two consumers their read-modify-writes interleave (NotifConsumer run *)
(* lostupdate shows the same race in the broker).                        *)
THEOREM LegacyListIntact ==
    ~RedisFaults /\ (\E c0 : Consumers = {c0})
        => (Spec => []ListMatchesWrites)
<1> SUFFICES ASSUME ~RedisFaults, NEW c0, Consumers = {c0}
             PROVE  Spec => []ListMatchesWrites
  OBVIOUS
<1>1. Init => MInv
  BY InitMInv
<1>2. MInv /\ [Next]_vars => MInv'
  BY NextMInv
<1>3. MInv => ListMatchesWrites
  BY DEF MInv
<1>4. QED
  BY <1>1, <1>2, <1>3, PTL DEF Spec
====
