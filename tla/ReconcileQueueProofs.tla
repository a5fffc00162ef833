------------------------ MODULE ReconcileQueueProofs ------------------------
(***************************************************************************)
(* The reconcile queue, for any pairs, limits and delays: its types, that  *)
(* the deque holds exactly the queued pairs, once each, its limits on      *)
(* running exchanges and tracked pairs, and that no trigger is lost.       *)
(***************************************************************************)
EXTENDS ReconcileQueue, FiniteSetTheorems, TLAPS

-----------------------------------------------------------------------------
(* Facts about the constants and the operators *)

\* The constants' types, one fact at a time.
LEMMA ConstantTypes ==
    /\ CounterMax \in Nat /\ 0 \in 0..CounterMax
    /\ BackoffBase \in Nat /\ BackoffMax \in Nat /\ UnsupportedBackoff \in Nat
    /\ DigestBackoffMax \in Nat
    /\ MaxTracked \in Nat /\ MaxConcurrent \in Nat /\ MaxPerPeer \in Nat
    /\ TriggerBudget \in Nat /\ ContinuationBudget \in Nat
BY QueueAssumption

\* The reasons of the triggers are reasons.
LEMMA TriggerTypes == Triggers \subseteq Reason
BY QueueAssumption

\* There are finitely many pairs.
LEMMA KeysFinite == IsFiniteSet(Keys)
BY QueueAssumption

\* A capped delay is a number of ticks, whatever the product was (queue.rs, backoff).
LEMMA CappedDelayType ==
    ASSUME NEW base, NEW shift, NEW cap \in Nat
    PROVE  CappedDelay(base, shift, cap) \in Nat
<1> DEFINE delay == base * 2^shift
<1>1. CappedDelay(base, shift, cap) = IF delay \in 0..cap THEN delay ELSE cap
  BY DEF CappedDelay
<1> HIDE DEF delay
<1>2. QED
  BY <1>1

\* The failure backoff is a number of ticks.
LEMMA BackoffType ==
    ASSUME NEW n PROVE backoff(n) \in Nat
<1>1. (IF BackoffMax > BackoffBase THEN BackoffMax ELSE BackoffBase) \in Nat
  BY ConstantTypes
<1>2. QED
  BY <1>1, CappedDelayType DEF backoff

\* What a verdict leaves in the counters and instants has their type (queue.rs, finish).
LEMMA VerdictTypes ==
    ASSUME TypeOK, NEW k \in Keys, NEW verdict
    PROVE  /\ FailuresAfter(k, verdict) \in 0..CounterMax
           /\ DigestsAfter(k, verdict) \in 0..CounterMax
           /\ NotBeforeAfter(k, verdict) \in Nat \cup {None}
           /\ SynchronizedUntilAfter(k, verdict) \in Nat \cup {None}
<1>1. /\ SaturatingAdd1(failures[k]) \in 0..CounterMax
      /\ SaturatingAdd1(identical_digests[k]) \in 0..CounterMax
  BY ConstantTypes DEF TypeOK, SaturatingAdd1
<1>2. DigestsAfter(k, verdict) \in 0..CounterMax
  BY <1>1, ConstantTypes DEF DigestsAfter
<1>3. NotBeforeAfter(k, verdict) \in Nat \cup {None}
  BY BackoffType, ConstantTypes DEF NotBeforeAfter
<1>4. CappedDelay(DigestBackoffBase, DigestsAfter(k, verdict) - DigestsBeforeBackoff,
                  DigestBackoffMax) \in Nat
  BY CappedDelayType, ConstantTypes
<1>5. SynchronizedUntilAfter(k, verdict) \in Nat \cup {None}
  BY <1>4 DEF SynchronizedUntilAfter, TypeOK
<1>6. QED
  BY <1>1, <1>2, <1>3, <1>5, ConstantTypes DEF FailuresAfter

\* A function from 1..n is a sequence.
LEMMA FunctionIsSeq ==
    ASSUME NEW S, NEW T, T \subseteq S, NEW n \in Nat, NEW f \in [1..n -> T]
    PROVE  f \in Seq(S) /\ Len(f) = n
<1>1. f \in [1..n -> S]
  OBVIOUS
<1>2. QED
  BY <1>1

\* An instant that draws nearer stays an instant.
LEMMA NearerType ==
    ASSUME NEW instant \in Nat \cup {None} PROVE Nearer(instant) \in Nat \cup {None}
BY DEF Nearer, Pending, None

\* Taking one position out of a sequence leaves the other elements, in their order.
LEMMA RemoveIndexType ==
    ASSUME NEW S, NEW s \in Seq(S), NEW i \in DOMAIN s
    PROVE  /\ RemoveIndex(s, i) \in Seq(S)
           /\ DOMAIN RemoveIndex(s, i) = 1..(Len(s) - 1)
<1>1. Len(s) \in Nat /\ DOMAIN s = 1..Len(s)
  OBVIOUS
<1>2. \A j \in 1..(Len(s) - 1) : (IF j < i THEN s[j] ELSE s[j + 1]) \in S
  BY <1>1
<1>3. RemoveIndex(s, i) \in [1..(Len(s) - 1) -> S]
  BY <1>2 DEF RemoveIndex
<1>4. Len(s) - 1 \in Nat
  BY <1>1
<1>5. QED
  BY <1>3, <1>4

-----------------------------------------------------------------------------
(* The type invariant *)

\* A pair that evict_idle drops is neither queued nor running, so no flag of it survives.
LEMMA VictimsIdle ==
    ASSUME NEW victim \in Victims
    PROVE  victim \in tracked /\ victim \notin queued /\ victim \notin in_flight
BY DEF Victims, Candidates, Served, FailedIdle, Idle

\* Tracking a new pair, with or without an eviction, keeps the types.
LEMMA InsertNewType ==
    ASSUME TypeOK, NEW k \in Keys, NEW why \in Reason,
           NEW evicted, evicted \cap queued = {}, evicted \cap in_flight = {},
           InsertNew(k, why, evicted),
           triggers' \in Nat, truncations' \in Nat
    PROVE  TypeOK'
<1>1. /\ tracked' \subseteq Keys /\ queued' \subseteq tracked' /\ in_flight' \subseteq tracked'
      /\ dirty' \subseteq in_flight' /\ retry_pending' \subseteq tracked'
  BY DEF TypeOK, InsertNew, Push
<1>2. reason' \in [Keys -> Reason]
  <2>1. Reset(reason, evicted, "Periodic") \in [Keys -> Reason]
    BY DEF Reset, TypeOK, Reason
  <2>2. QED
    BY <2>1 DEF InsertNew
<1>3. /\ failures' \in [Keys -> 0..CounterMax]
      /\ identical_digests' \in [Keys -> 0..CounterMax]
  BY ConstantTypes DEF TypeOK, InsertNew, ForgetCooldowns, Reset
<1>4. /\ not_before' \in [Keys -> Nat \cup {None}]
      /\ synchronized_until' \in [Keys -> Nat \cup {None}]
  BY DEF TypeOK, InsertNew, ForgetCooldowns, Reset
<1>5. ready' \in Seq(Keys)
  BY DEF TypeOK, InsertNew, Push
<1>6. asked' \in [Keys -> SUBSET Reason]
  BY DEF TypeOK, InsertNew, Accept
<1>7. QED
  BY <1>1, <1>2, <1>3, <1>4, <1>5, <1>6 DEF TypeOK

\* enqueue keeps the types.
LEMMA EnqueueType ==
    ASSUME TypeOK, NEW k \in Keys, NEW why \in Triggers, enqueue(k, why)
    PROVE  TypeOK'
<1>1. why \in Reason
  BY TriggerTypes
<1>2. triggers' \in Nat /\ truncations' \in Nat
  BY DEF enqueue, SpendTrigger, TypeOK
<1>3. CASE Coalesce(k, why)
  BY ZenonT(60), <1>1, <1>2, <1>3, ConstantTypes DEF TypeOK, Coalesce, Restate, Invalidate, Accept
<1>4. CASE RefuseBackingOff(k, why)
  BY ZenonT(60), <1>1, <1>2, <1>4, ConstantTypes DEF TypeOK, RefuseBackingOff, Invalidate
<1>5. CASE QueueIdle(k, why)
  <2>1. /\ queued' \subseteq tracked' /\ in_flight' \subseteq tracked'
        /\ dirty' \subseteq in_flight' /\ retry_pending' \subseteq tracked'
        /\ tracked' \subseteq Keys
    BY <1>5 DEF TypeOK, QueueIdle, Idle, Push
  <2>2. ready' \in Seq(Keys)
    BY <1>5 DEF TypeOK, QueueIdle, Push
  <2>3. /\ identical_digests' \in [Keys -> 0..CounterMax]
        /\ synchronized_until' \in [Keys -> Nat \cup {None}]
    BY ZenonT(60), <1>5, ConstantTypes DEF TypeOK, QueueIdle, Invalidate
  <2>4. /\ reason' \in [Keys -> Reason] /\ asked' \in [Keys -> SUBSET Reason]
        /\ not_before' \in [Keys -> Nat \cup {None}]
    BY <1>1, <1>5 DEF TypeOK, QueueIdle, Accept
  <2>5. QED
    BY SMTT(30), <1>2, <1>5, <2>1, <2>2, <2>3, <2>4 DEF TypeOK, QueueIdle
<1>6. CASE QueueNew(k, why)
  BY <1>1, <1>2, <1>6, InsertNewType DEF QueueNew
<1>7. CASE QueueNewEvicting(k, why)
  <2>1. PICK victim \in Victims : InsertNew(k, why, {victim})
    BY <1>7 DEF QueueNewEvicting
  <2>2. QED
    BY <1>1, <1>2, <2>1, VictimsIdle, InsertNewType
<1>8. CASE RefuseQueueFull(k, why)
  BY <1>2, <1>8 DEF TypeOK, RefuseQueueFull, cooldowns
<1>9. QED
  BY <1>3, <1>4, <1>5, <1>6, <1>7, <1>8 DEF enqueue

\* requeue_due_retries keeps the types.
LEMMA RequeueType == ASSUME TypeOK, requeue_due_retries PROVE TypeOK'
<1> DEFINE due == {k \in Keys : RetryDue(k)}
<1>1. due \subseteq tracked /\ Cardinality(due) \in Nat
  <2>1. due \subseteq tracked
    BY DEF RetryDue, FailedIdle, Idle
  <2>2. IsFiniteSet(due)
    BY KeysFinite, FS_Subset
  <2>3. QED
    BY <2>1, <2>2, FS_CardinalityType
<1>2. PICK order \in Bijection(1..Cardinality(due), due) : ready' = ready \o order
  BY ZenonT(30) DEF requeue_due_retries
<1>3. order \in [1..Cardinality(due) -> due]
  BY <1>2 DEF Bijection, Injection, Surjection
<1>4. order \in Seq(Keys)
  BY ZenonT(30), <1>1, <1>3, FunctionIsSeq
<1>5. ready' \in Seq(Keys)
  BY <1>2, <1>4 DEF TypeOK
<1>6. reason' \in [Keys -> Reason]
  BY DEF requeue_due_retries, Reset, TypeOK, Reason
<1>7. /\ queued' \subseteq tracked' /\ in_flight' \subseteq tracked' /\ tracked' \subseteq Keys
      /\ dirty' \subseteq in_flight' /\ retry_pending' \subseteq tracked'
  BY <1>1 DEF requeue_due_retries, TypeOK
<1>8. QED
  BY <1>5, <1>6, <1>7 DEF requeue_due_retries, TypeOK, cooldowns, budgets

\* next_ready keeps the types.
LEMMA NextReadyType ==
    ASSUME TypeOK, NEW periodic_allowed \in BOOLEAN, next_ready(periodic_allowed)
    PROVE  TypeOK'
<1>1. PICK i \in DOMAIN ready : /\ Eligible(ready[i], periodic_allowed)
                                /\ ready' = RemoveIndex(ready, i)
                                /\ Start(ready[i])
  BY DEF next_ready
<1>2. ready[i] \in Keys /\ ready[i] \in tracked
  BY <1>1 DEF TypeOK, Eligible
<1>3. ready' \in Seq(Keys)
  BY <1>1, RemoveIndexType DEF TypeOK
<1>4. UNCHANGED <<tracked, cooldowns, budgets>>
  BY DEF next_ready
<1>5. QED
  BY SMTT(30), <1>1, <1>2, <1>3, <1>4 DEF TypeOK, Start, cooldowns, budgets, Reason

\* Removing a running pair's entry keeps the types.
LEMMA ForgetType ==
    ASSUME TypeOK, NEW k \in in_flight, Forget(k), in_flight' = in_flight \ {k},
           k \notin queued, UNCHANGED <<queued, ready, triggers, truncations>>,
           asked' \in [Keys -> SUBSET Reason]
    PROVE  TypeOK'
<1>1. /\ queued' \subseteq tracked' /\ in_flight' \subseteq tracked' /\ tracked' \subseteq Keys
      /\ dirty' \subseteq in_flight' /\ retry_pending' \subseteq tracked'
  BY DEF TypeOK, Forget
<1>2. /\ failures' \in [Keys -> 0..CounterMax]
      /\ identical_digests' \in [Keys -> 0..CounterMax]
  BY ConstantTypes DEF TypeOK, Forget, ForgetCooldowns, Reset
<1>3. /\ not_before' \in [Keys -> Nat \cup {None}]
      /\ synchronized_until' \in [Keys -> Nat \cup {None}]
  BY DEF TypeOK, Forget, ForgetCooldowns, Reset
<1>4. reason' \in [Keys -> Reason]
  BY DEF TypeOK, Forget, Reason
<1>5. QED
  BY <1>1, <1>2, <1>3, <1>4 DEF TypeOK

\* finish keeps the types: a running pair is not queued, so no queued pair is forgotten.
LEMMA FinishType ==
    ASSUME TypeOK, queued \cap in_flight = {},
           NEW k \in Keys, NEW verdict \in Verdict, finish(k, verdict)
    PROVE  TypeOK'
<1>1. /\ FailuresAfter(k, verdict) \in 0..CounterMax
      /\ DigestsAfter(k, verdict) \in 0..CounterMax
      /\ NotBeforeAfter(k, verdict) \in Nat \cup {None}
      /\ SynchronizedUntilAfter(k, verdict) \in Nat \cup {None}
  BY VerdictTypes
<1>2. CASE FinishDropped(k)
  <2>1. asked' \in [Keys -> SUBSET Reason]
    BY <1>2 DEF TypeOK, FinishDropped
  <2>2. QED
    BY <1>2, <2>1, ForgetType DEF FinishDropped, budgets
<1>3. CASE FinishRequeue(k, verdict)
  BY SMTT(30), <1>1, <1>3 DEF TypeOK, FinishRequeue, Push, RetryAfter, Reason
<1>4. CASE FinishIdle(k, verdict)
  <2>1. CASE FailuresAfter(k, verdict) = 0 /\ DigestsAfter(k, verdict) = 0
    BY SMTT(30), <1>4, <2>1, ForgetType DEF FinishIdle, budgets, TypeOK
  <2>2. CASE ~(FailuresAfter(k, verdict) = 0 /\ DigestsAfter(k, verdict) = 0)
    <3>0. /\ k \in in_flight \ dirty /\ in_flight' = in_flight \ {k} /\ RetryAfter(k, verdict)
          /\ failures' = [failures EXCEPT ![k] = FailuresAfter(k, verdict)]
          /\ not_before' = [not_before EXCEPT ![k] = NotBeforeAfter(k, verdict)]
          /\ identical_digests' = [identical_digests EXCEPT ![k] = DigestsAfter(k, verdict)]
          /\ synchronized_until' =
                [synchronized_until EXCEPT ![k] = SynchronizedUntilAfter(k, verdict)]
          /\ UNCHANGED <<tracked, dirty, reason, queued, ready, asked, budgets>>
      BY <1>4, <2>2 DEF FinishIdle
    <3>1. /\ queued' \subseteq tracked' /\ in_flight' \subseteq tracked'
          /\ dirty' \subseteq in_flight' /\ retry_pending' \subseteq tracked'
          /\ tracked' \subseteq Keys
      BY <3>0 DEF TypeOK, RetryAfter
    <3>2. /\ failures' \in [Keys -> 0..CounterMax]
          /\ identical_digests' \in [Keys -> 0..CounterMax]
      BY <1>1, <3>0 DEF TypeOK
    <3>3. /\ not_before' \in [Keys -> Nat \cup {None}]
          /\ synchronized_until' \in [Keys -> Nat \cup {None}]
      BY <1>1, <3>0 DEF TypeOK
    <3>4. QED
      BY <3>0, <3>1, <3>2, <3>3 DEF TypeOK, budgets
  <2>3. QED
    BY <2>1, <2>2
<1>5. QED
  BY <1>2, <1>3, <1>4 DEF finish

\* Every step preserves the type invariant, as long as no running pair is queued.
LEMMA TypeStep == TypeOK /\ queued \cap in_flight = {} /\ [Next]_vars => TypeOK'
<1> SUFFICES ASSUME TypeOK, queued \cap in_flight = {}, [Next]_vars PROVE TypeOK'
  OBVIOUS
<1>1. ASSUME NEW k \in Keys, NEW why \in Triggers, enqueue(k, why) PROVE TypeOK'
  BY <1>1, EnqueueType
<1>2. CASE requeue_due_retries
  BY <1>2, RequeueType
<1>3. ASSUME NEW periodic_allowed \in BOOLEAN, next_ready(periodic_allowed) PROVE TypeOK'
  BY <1>3, NextReadyType
<1>4. ASSUME NEW k \in Keys, NEW verdict \in Verdict, finish(k, verdict) PROVE TypeOK'
  BY <1>4, FinishType
<1>5. ASSUME NEW k \in Keys, peer_reachable(k) PROVE TypeOK'
  BY <1>5, ConstantTypes DEF TypeOK, peer_reachable, budgets
<1>6. ASSUME NEW r \in Rooms, reset_synchronized_for_room(r) PROVE TypeOK'
  BY <1>6, ConstantTypes DEF TypeOK, reset_synchronized_for_room, Reset, budgets
<1>7. CASE Tick
  BY ZenonT(30), <1>7, NearerType DEF TypeOK, Tick, budgets
<1>8. CASE UNCHANGED vars
  BY <1>8 DEF TypeOK, vars, cooldowns, budgets
<1>9. QED
  BY <1>1, <1>2, <1>3, <1>4, <1>5, <1>6, <1>7, <1>8 DEF Next

-----------------------------------------------------------------------------
(* `ready` agrees with the `queued` flags *)

\* Pushing a pair that is neither queued nor running keeps the agreement.
LEMMA PushReady ==
    ASSUME TypeOK, ReadyMatchesQueued, NEW k \in Keys, k \notin queued, Push(k),
           k \notin in_flight', in_flight' \subseteq in_flight
    PROVE  ReadyMatchesQueued'
<1>1. ready \in Seq(Keys) /\ ready' = Append(ready, k) /\ queued' = queued \cup {k}
  BY DEF TypeOK, Push
<1>2. /\ DOMAIN ready' = 1..(Len(ready) + 1) /\ Len(ready) \in Nat /\ DOMAIN ready = 1..Len(ready)
      /\ \A i \in 1..Len(ready) : ready'[i] = ready[i]
      /\ ready'[Len(ready) + 1] = k
  BY <1>1
<1>3. \A i \in DOMAIN ready : ready[i] # k
  BY DEF ReadyMatchesQueued
<1>4. \A i, j \in DOMAIN ready' : ready'[i] = ready'[j] => i = j
  BY <1>2, <1>3 DEF ReadyMatchesQueued
<1>5. \A m \in Keys : m \in queued' <=> \E i \in DOMAIN ready' : ready'[i] = m
  BY <1>1, <1>2 DEF ReadyMatchesQueued
<1>6. queued' \cap in_flight' = {}
  BY <1>1 DEF ReadyMatchesQueued
<1>7. QED
  BY <1>4, <1>5, <1>6 DEF ReadyMatchesQueued

\* Nothing is pushed or taken, and nothing starts: the agreement stays.
LEMMA KeepReady ==
    ASSUME ReadyMatchesQueued, UNCHANGED <<queued, ready>>, in_flight' \subseteq in_flight
    PROVE  ReadyMatchesQueued'
BY DEF ReadyMatchesQueued

\* The positions and the elements of a concatenation.
LEMMA ConcatElements ==
    ASSUME NEW S, NEW s \in Seq(S), NEW t \in Seq(S)
    PROVE  /\ Len(s) \in Nat /\ DOMAIN s = 1..Len(s) /\ DOMAIN (s \o t) = 1..(Len(s) + Len(t))
           /\ \A i \in 1..Len(s) : (s \o t)[i] = s[i]
           /\ \A i \in 1..Len(t) : (s \o t)[Len(s) + i] = t[i]
<1>1. Len(s) \in Nat /\ DOMAIN s = 1..Len(s) /\ Len(t) \in Nat
  OBVIOUS
<1>2. s \o t \in Seq(S) /\ Len(s \o t) = Len(s) + Len(t)
  OBVIOUS
<1>3. \A i \in 1..Len(s) : (s \o t)[i] = s[i]
  BY <1>1
<1>4. \A i \in 1..Len(t) : (s \o t)[Len(s) + i] = t[i]
  <2> TAKE i \in 1..Len(t)
  <2>1. Len(s) + i \in 1..(Len(s) + Len(t)) /\ Len(s) + i > Len(s) /\ (Len(s) + i) - Len(s) = i
    BY <1>1
  <2>2. QED
    BY <1>1, <2>1
<1>5. QED
  BY <1>1, <1>2, <1>3, <1>4

\* The due retries, in any order, are pushed once each.
LEMMA RequeueReady ==
    ASSUME TypeOK, ReadyMatchesQueued, requeue_due_retries
    PROVE  ReadyMatchesQueued'
<1> DEFINE due == {k \in Keys : RetryDue(k)}
           n == Cardinality(due)
<1>1. due \subseteq Keys /\ due \cap queued = {} /\ due \cap in_flight = {}
  BY DEF RetryDue, FailedIdle, Idle
<1>2. n \in Nat
  BY KeysFinite, FS_Subset, FS_CardinalityType
<1>3. PICK order \in Bijection(1..n, due) : ready' = ready \o order
  BY ZenonT(30) DEF requeue_due_retries
<1>4. queued' = queued \cup due /\ in_flight' = in_flight
  BY DEF requeue_due_retries
<1>5. /\ order \in [1..n -> due]
      /\ \A i, j \in 1..n : order[i] = order[j] => i = j
      /\ \A m \in due : \E i \in 1..n : order[i] = m
  BY SMTT(30), <1>3 DEF Bijection, Injection, Surjection, IsInjective
<1> HIDE DEF due, n
<1>6. order \in Seq(Keys) /\ Len(order) = n
  BY <1>1, <1>2, <1>5, FunctionIsSeq
<1> DEFINE len == Len(ready)
<1>7. /\ len \in Nat /\ DOMAIN ready = 1..len /\ DOMAIN ready' = 1..(len + n)
      /\ \A i \in 1..len : ready'[i] = ready[i]
      /\ \A i \in 1..n : ready'[len + i] = order[i]
  <2>1. ready \in Seq(Keys)
    BY DEF TypeOK
  <2>2. QED
    BY SMTT(30), <2>1, <1>3, <1>6, ConcatElements
<1>8. \A i \in DOMAIN ready' : i \in 1..len \/ \E j \in 1..n : i = len + j
  <2>1. \A i \in 1..(len + n) : i \in 1..len \/ (i - len \in 1..n /\ i = len + (i - len))
    BY <1>2, <1>7
  <2>2. QED
    BY <2>1, <1>7
<1>9. \A i \in 1..len : ready[i] \in queued
  BY SMTT(30), <1>7 DEF ReadyMatchesQueued, TypeOK
<1> HIDE DEF len
<1>10. \A i, j \in DOMAIN ready' : ready'[i] = ready'[j] => i = j
  <2> SUFFICES ASSUME NEW i \in DOMAIN ready', NEW j \in DOMAIN ready', ready'[i] = ready'[j]
               PROVE  i = j
    OBVIOUS
  <2>1. CASE i \in 1..len /\ j \in 1..len
    BY <2>1, <1>7 DEF ReadyMatchesQueued
  <2>2. CASE i \in 1..len /\ \E b \in 1..n : j = len + b
    BY <2>2, <1>1, <1>5, <1>7, <1>9
  <2>3. CASE j \in 1..len /\ \E a \in 1..n : i = len + a
    BY <2>3, <1>1, <1>5, <1>7, <1>9
  <2>4. CASE (\E a \in 1..n : i = len + a) /\ (\E b \in 1..n : j = len + b)
    BY <2>4, <1>5, <1>7
  <2>5. QED
    BY <1>8, <2>1, <2>2, <2>3, <2>4
<1>11. \A m \in Keys : m \in queued' <=> \E i \in DOMAIN ready' : ready'[i] = m
  <2> SUFFICES ASSUME NEW m \in Keys
               PROVE  m \in queued' <=> \E i \in DOMAIN ready' : ready'[i] = m
    OBVIOUS
  <2>1. ASSUME m \in queued PROVE \E i \in DOMAIN ready' : ready'[i] = m
    <3>1. PICK i \in 1..len : ready[i] = m
      BY <2>1, <1>7 DEF ReadyMatchesQueued
    <3>2. i \in 1..(len + n)
      BY <1>2, <1>7
    <3>3. QED
      BY <3>1, <3>2, <1>7
  <2>2. ASSUME m \in due PROVE \E i \in DOMAIN ready' : ready'[i] = m
    <3>1. PICK i \in 1..n : order[i] = m
      BY <2>2, <1>5
    <3>2. len + i \in 1..(len + n)
      BY <1>2, <1>7
    <3>3. QED
      BY <3>1, <3>2, <1>7
  <2>3. ASSUME NEW i \in DOMAIN ready', ready'[i] = m PROVE m \in queued'
    BY SMTT(30), <2>3, <1>4, <1>5, <1>7, <1>8, <1>9
  <2>4. QED
    BY <1>4, <2>1, <2>2, <2>3
<1>12. QED
  BY <1>1, <1>4, <1>10, <1>11 DEF ReadyMatchesQueued

\* Taking one position out of `ready` takes its pair, and only that pair, out of it.
LEMMA NextReadyReady ==
    ASSUME TypeOK, ReadyMatchesQueued, NEW periodic_allowed, next_ready(periodic_allowed)
    PROVE  ReadyMatchesQueued'
<1>1. PICK i \in DOMAIN ready : ready' = RemoveIndex(ready, i) /\ Start(ready[i])
  BY DEF next_ready
<1> DEFINE n == Len(ready)
           k == ready[i]
<1>2. ready \in Seq(Keys) /\ n \in Nat /\ DOMAIN ready = 1..n /\ i \in 1..n /\ k \in Keys
  BY DEF TypeOK
<1>3. queued' = queued \ {k} /\ in_flight' = in_flight \cup {k}
  BY <1>1 DEF Start
<1>4. /\ DOMAIN ready' = 1..(n - 1)
      /\ \A j \in 1..(n - 1) : ready'[j] = IF j < i THEN ready[j] ELSE ready[j + 1]
  BY <1>1 DEF RemoveIndex
<1>5. /\ \A a, b \in 1..n : ready[a] = ready[b] => a = b
      /\ \A m \in Keys : m \in queued <=> \E j \in 1..n : ready[j] = m
      /\ queued \cap in_flight = {}
  BY <1>2 DEF ReadyMatchesQueued
<1>6. \A j \in 1..n : ready[j] \in Keys
  BY <1>2
<1> HIDE DEF n, k
<1>7. \A a, b \in DOMAIN ready' : ready'[a] = ready'[b] => a = b
  BY <1>2, <1>4, <1>5
<1>8. ASSUME NEW m \in Keys, NEW j \in DOMAIN ready', ready'[j] = m PROVE m \in queued'
  <2>1. j \in 1..n /\ j + 1 \in 1..n
    BY <1>2, <1>4
  <2>2. m # k
    BY <2>1, <1>2, <1>4, <1>5, <1>8 DEF k
  <2>3. QED
    BY <2>1, <2>2, <1>3, <1>4, <1>5, <1>8
<1>9. ASSUME NEW m \in Keys, m \in queued' PROVE \E j \in DOMAIN ready' : ready'[j] = m
  <2>1. PICK j \in 1..n : ready[j] = m
    BY <1>3, <1>5, <1>9
  <2>2. j # i
    BY <2>1, <1>3, <1>9 DEF k
  <2>3. CASE j < i
    <3>1. j \in 1..(n - 1)
      BY <2>3, <1>2
    <3>2. QED
      BY <2>1, <2>3, <3>1, <1>4
  <2>4. CASE j > i
    <3>1. j - 1 \in 1..(n - 1) /\ ~(j - 1 < i) /\ (j - 1) + 1 = j
      BY <2>4, <1>2
    <3>2. QED
      BY <2>1, <3>1, <1>4
  <2>5. QED
    BY <2>2, <2>3, <2>4, <1>2
<1>10. queued' \cap in_flight' = {}
  BY <1>3, <1>5
<1>11. QED
  BY <1>7, <1>8, <1>9, <1>10 DEF ReadyMatchesQueued

\* Each operation keeps `ready` and the flags in agreement.
LEMMA ReadyStep ==
    ASSUME TypeOK, ReadyMatchesQueued, [Next]_vars
    PROVE  ReadyMatchesQueued'
<1>1. ASSUME NEW k \in Keys, NEW why \in Triggers, enqueue(k, why) PROVE ReadyMatchesQueued'
  <2>1. CASE Coalesce(k, why)
    BY <2>1, KeepReady DEF Coalesce
  <2>2. CASE RefuseBackingOff(k, why)
    BY <2>2, KeepReady DEF RefuseBackingOff
  <2>3. CASE QueueIdle(k, why)
    BY <2>3, PushReady DEF QueueIdle, Idle
  <2>4. CASE QueueNew(k, why)
    BY <2>4, PushReady DEF QueueNew, InsertNew, TypeOK
  <2>5. CASE QueueNewEvicting(k, why)
    BY <2>5, PushReady DEF QueueNewEvicting, InsertNew, TypeOK
  <2>6. CASE RefuseQueueFull(k, why)
    BY <2>6, KeepReady DEF RefuseQueueFull
  <2>7. QED
    BY <1>1, <2>1, <2>2, <2>3, <2>4, <2>5, <2>6 DEF enqueue
<1>2. CASE requeue_due_retries
  BY <1>2, RequeueReady
<1>3. ASSUME NEW periodic_allowed \in BOOLEAN, next_ready(periodic_allowed)
      PROVE ReadyMatchesQueued'
  BY <1>3, NextReadyReady
<1>4. ASSUME NEW k \in Keys, NEW verdict \in Verdict, finish(k, verdict)
      PROVE ReadyMatchesQueued'
  <2>1. CASE FinishDropped(k)
    BY SMTT(30), <2>1, KeepReady DEF FinishDropped
  <2>2. CASE FinishRequeue(k, verdict)
    BY <2>2, PushReady DEF FinishRequeue, ReadyMatchesQueued
  <2>3. CASE FinishIdle(k, verdict)
    BY <2>3, KeepReady DEF FinishIdle
  <2>4. QED
    BY <1>4, <2>1, <2>2, <2>3 DEF finish
<1>5. ASSUME NEW k \in Keys, peer_reachable(k) PROVE ReadyMatchesQueued'
  BY <1>5, KeepReady DEF peer_reachable
<1>6. ASSUME NEW r \in Rooms, reset_synchronized_for_room(r) PROVE ReadyMatchesQueued'
  BY <1>6, KeepReady DEF reset_synchronized_for_room
<1>7. CASE Tick
  BY <1>7, KeepReady DEF Tick
<1>8. CASE UNCHANGED vars
  BY <1>8, KeepReady DEF vars
<1>9. QED
  BY <1>1, <1>2, <1>3, <1>4, <1>5, <1>6, <1>7, <1>8 DEF Next

\* The type invariant and the agreement of `ready` with the flags are one inductive
\* invariant: forgetting a finished pair is type-correct only because it is not queued.
THEOREM QueueConsistent == Spec => [](TypeOK /\ ReadyMatchesQueued)
<1>1. Init => TypeOK /\ ReadyMatchesQueued
  <2> SUFFICES ASSUME Init PROVE TypeOK /\ ReadyMatchesQueued
    OBVIOUS
  <2>1. /\ reason \in [Keys -> Reason] /\ asked \in [Keys -> SUBSET Reason]
        /\ failures \in [Keys -> 0..CounterMax] /\ identical_digests \in [Keys -> 0..CounterMax]
    BY ConstantTypes DEF Init, Reason
  <2>2. /\ not_before \in [Keys -> Nat \cup {None}]
        /\ synchronized_until \in [Keys -> Nat \cup {None}]
    BY DEF Init
  <2>3. ready \in Seq(Keys) /\ DOMAIN ready = {}
    BY DEF Init
  <2>4. /\ triggers \in Nat /\ truncations \in Nat
    BY ConstantTypes DEF Init
  <2>5. TypeOK
    BY SMTT(30), <2>1, <2>2, <2>3, <2>4 DEF Init, TypeOK
  <2>6. ReadyMatchesQueued
    BY <2>3 DEF Init, ReadyMatchesQueued
  <2>7. QED
    BY <2>5, <2>6
<1>2. TypeOK /\ ReadyMatchesQueued /\ [Next]_vars => (TypeOK /\ ReadyMatchesQueued)'
  BY TypeStep, ReadyStep DEF ReadyMatchesQueued
<1>3. QED
  BY <1>1, <1>2, PTL DEF Spec

\* Type correctness: every table, flag, counter and time of the queue keeps its type.
THEOREM QueueTypes == Spec => []TypeOK
BY QueueConsistent, PTL

-----------------------------------------------------------------------------
(* The limits *)

\* Sets of pairs are finite, so removing pairs never raises their number.
LEMMA FewerPairs ==
    ASSUME NEW S \in SUBSET Keys, NEW T \in SUBSET S
    PROVE  IsFiniteSet(S) /\ Cardinality(S) \in Nat /\ Cardinality(T) \in Nat
           /\ Cardinality(T) <= Cardinality(S)
BY KeysFinite, FS_Subset, FS_CardinalityType

\* Adding one pair raises the number by at most one.
LEMMA OneMorePair ==
    ASSUME NEW S \in SUBSET Keys, NEW k \in Keys, NEW limit \in Nat, Cardinality(S) < limit
    PROVE  Cardinality(S \cup {k}) <= limit
<1>1. IsFiniteSet(S) /\ Cardinality(S) \in Nat
  BY FewerPairs
<1>2. Cardinality(S \cup {k}) = IF k \in S THEN Cardinality(S) ELSE Cardinality(S) + 1
  BY SMTT(30), <1>1, FS_AddElement
<1>3. QED
  BY <1>1, <1>2

\* Only next_ready starts an exchange; every other step keeps or ends the running ones.
LEMMA OnlyNextReadyStarts ==
    ASSUME [Next]_vars
    PROVE  \/ in_flight' \subseteq in_flight
           \/ \E periodic_allowed \in BOOLEAN : next_ready(periodic_allowed)
<1>1. ASSUME NEW k \in Keys, NEW why \in Triggers, enqueue(k, why)
      PROVE  in_flight' \subseteq in_flight
  BY ZenonT(30), <1>1 DEF enqueue, Coalesce, RefuseBackingOff, QueueIdle, QueueNew,
     QueueNewEvicting, InsertNew, RefuseQueueFull
<1>2. ASSUME NEW k \in Keys, NEW verdict \in Verdict, finish(k, verdict)
      PROVE  in_flight' \subseteq in_flight
  BY <1>2 DEF finish, FinishDropped, FinishRequeue, FinishIdle
<1>3. ASSUME \/ requeue_due_retries
             \/ \E k \in Keys : peer_reachable(k)
             \/ \E r \in Rooms : reset_synchronized_for_room(r)
             \/ Tick
             \/ UNCHANGED vars
      PROVE  in_flight' \subseteq in_flight
  BY ZenonT(30), <1>3 DEF requeue_due_retries, peer_reachable, reset_synchronized_for_room,
     Tick, vars
<1>4. QED
  BY <1>1, <1>2, <1>3 DEF Next

\* A started exchange fits both limits.
LEMMA LimitsStep ==
    ASSUME TypeOK, ConcurrencyLimits, [Next]_vars
    PROVE  ConcurrencyLimits'
<1>1. in_flight \subseteq Keys
  BY DEF TypeOK
<1>2. CASE in_flight' \subseteq in_flight
  <2>1. Cardinality(in_flight') <= MaxConcurrent
    BY <1>1, <1>2, FewerPairs, ConstantTypes DEF ConcurrencyLimits
  <2>2. ASSUME NEW p \in Peers PROVE Cardinality(PeerRunning(p)') <= MaxPerPeer
    <3>1. PeerRunning(p) \subseteq Keys /\ PeerRunning(p)' \subseteq PeerRunning(p)
      BY <1>1, <1>2 DEF PeerRunning
    <3>2. Cardinality(PeerRunning(p)) <= MaxPerPeer
      BY DEF ConcurrencyLimits
    <3>3. QED
      BY <3>1, <3>2, FewerPairs, ConstantTypes
  <2>3. QED
    BY <2>1, <2>2 DEF ConcurrencyLimits
<1>3. ASSUME NEW periodic_allowed \in BOOLEAN, next_ready(periodic_allowed)
      PROVE  ConcurrencyLimits'
  <2>1. PICK i \in DOMAIN ready : Eligible(ready[i], periodic_allowed) /\ Start(ready[i])
    BY <1>3 DEF next_ready
  <2> DEFINE k == ready[i]
  <2>2. k \in Keys /\ in_flight' = in_flight \cup {k}
    BY <2>1 DEF TypeOK, Start
  <2>3. Cardinality(in_flight) < MaxConcurrent /\ Cardinality(PeerRunning(peer(k))) < MaxPerPeer
    BY <1>3, <2>1 DEF next_ready, Eligible
  <2> HIDE DEF k
  <2>4. Cardinality(in_flight') <= MaxConcurrent
    BY <1>1, <2>2, <2>3, OneMorePair, ConstantTypes
  <2>5. ASSUME NEW p \in Peers PROVE Cardinality(PeerRunning(p)') <= MaxPerPeer
    <3>1. PeerRunning(p) \subseteq Keys
      BY <1>1 DEF PeerRunning
    <3>2. CASE p = peer(k)
      <4>1. PeerRunning(p)' = PeerRunning(p) \cup {k}
        BY <2>2, <3>2 DEF PeerRunning
      <4>2. QED
        BY <2>2, <2>3, <3>1, <3>2, <4>1, OneMorePair, ConstantTypes
    <3>3. CASE p # peer(k)
      <4>1. PeerRunning(p)' = PeerRunning(p)
        BY <2>2, <3>3 DEF PeerRunning
      <4>2. QED
        BY <4>1 DEF ConcurrencyLimits
    <3>4. QED
      BY <3>2, <3>3
  <2>6. QED
    BY <2>4, <2>5 DEF ConcurrencyLimits
<1>4. QED
  BY <1>2, <1>3, OnlyNextReadyStarts

\* Whatever is requeued while exchanges run, next_ready never exceeds the global or the
\* per-peer limit.
THEOREM LimitsHold == Spec => []ConcurrencyLimits
<1>1. Init => ConcurrencyLimits
  <2> SUFFICES ASSUME Init PROVE ConcurrencyLimits
    OBVIOUS
  <2>1. in_flight = {} /\ \A p \in Peers : PeerRunning(p) = {}
    BY DEF Init, PeerRunning
  <2>2. Cardinality({}) = 0
    BY FS_EmptySet
  <2>3. QED
    BY <2>1, <2>2, ConstantTypes DEF ConcurrencyLimits
<1>2. TypeOK /\ ConcurrencyLimits /\ [Next]_vars => ConcurrencyLimits'
  BY LimitsStep
<1>3. QED
  BY <1>1, <1>2, QueueConsistent, PTL DEF Spec

\* Only enqueue adds an entry, and it makes room first when the map is full.
LEMMA TrackingStep ==
    ASSUME TypeOK, TrackingBounded, [Next]_vars
    PROVE  TrackingBounded'
<1>1. tracked \subseteq Keys
  BY DEF TypeOK
<1>2. CASE tracked' \subseteq tracked
  BY <1>1, <1>2, FewerPairs, ConstantTypes DEF TrackingBounded
<1>3. ASSUME NEW k \in Keys, NEW why \in Triggers, enqueue(k, why) PROVE TrackingBounded'
  <2>1. CASE QueueNew(k, why)
    <3>1. tracked' = tracked \cup {k} /\ Cardinality(tracked) < MaxTracked
      BY <2>1 DEF QueueNew, InsertNew
    <3>2. QED
      BY <1>1, <3>1, OneMorePair, ConstantTypes DEF TrackingBounded
  <2>2. CASE QueueNewEvicting(k, why)
    <3>1. PICK victim \in Victims : tracked' = (tracked \ {victim}) \cup {k}
      BY <2>2 DEF QueueNewEvicting, InsertNew
    <3>2. victim \in tracked
      BY VictimsIdle
    <3>3. IsFiniteSet(tracked) /\ Cardinality(tracked) \in Nat
      BY <1>1, FewerPairs
    <3>4. Cardinality(tracked \ {victim}) = Cardinality(tracked) - 1
      BY ZenonT(30), <3>2, <3>3, FS_RemoveElement
    <3>5. Cardinality(tracked \ {victim}) < MaxTracked
      BY <3>3, <3>4, ConstantTypes DEF TrackingBounded
    <3>6. QED
      BY <1>1, <3>1, <3>5, OneMorePair, ConstantTypes DEF TrackingBounded
  <2>3. CASE Coalesce(k, why) \/ RefuseBackingOff(k, why) \/ QueueIdle(k, why)
             \/ RefuseQueueFull(k, why)
    BY SMTT(30), <1>2, <2>3 DEF Coalesce, RefuseBackingOff, QueueIdle, RefuseQueueFull
  <2>4. QED
    BY <1>3, <2>1, <2>2, <2>3 DEF enqueue
<1>4. ASSUME NEW k \in Keys, NEW verdict \in Verdict, finish(k, verdict)
      PROVE  TrackingBounded'
  BY <1>2, <1>4 DEF finish, FinishDropped, FinishRequeue, FinishIdle, Forget
<1>5. ASSUME NEW periodic_allowed \in BOOLEAN, next_ready(periodic_allowed)
      PROVE  TrackingBounded'
  BY <1>2, <1>5 DEF next_ready
<1>6. ASSUME \/ requeue_due_retries
             \/ \E k \in Keys : peer_reachable(k)
             \/ \E r \in Rooms : reset_synchronized_for_room(r)
             \/ Tick
             \/ UNCHANGED vars
      PROVE  TrackingBounded'
  BY ZenonT(30), <1>2, <1>6 DEF requeue_due_retries, peer_reachable,
     reset_synchronized_for_room, Tick, vars
<1>7. QED
  BY <1>3, <1>4, <1>5, <1>6 DEF Next

\* The map never holds more than MAX_TRACKED pairs.
THEOREM TrackingStaysBounded == Spec => []TrackingBounded
<1>1. Init => TrackingBounded
  BY SMTT(30), FS_EmptySet, ConstantTypes DEF Init, TrackingBounded
<1>2. TypeOK /\ TrackingBounded /\ [Next]_vars => TrackingBounded'
  BY TrackingStep
<1>3. QED
  BY <1>1, <1>2, QueueConsistent, PTL DEF Spec

-----------------------------------------------------------------------------
(* Accepted triggers *)

\* enqueue leaves every accepted trigger owed: the new one and the older ones.
LEMMA EnqueueKeepsTriggers ==
    ASSUME TypeOK, NoLostTrigger, NEW k \in Keys, NEW why \in Triggers, enqueue(k, why)
    PROVE  NoLostTrigger'
<1> DEFINE owed(m) == m \in queued \cup dirty /\ reason[m] # "Periodic"
<1>1. \A m \in Keys : asked[m] # {} => owed(m)
  BY DEF NoLostTrigger, Priority
<1> SUFFICES ASSUME NEW m \in Keys, asked'[m] # {}
             PROVE  m \in queued' \cup dirty' /\ reason'[m] # "Periodic"
  BY SMTT(30) DEF NoLostTrigger, Priority
<1>2. CASE Coalesce(k, why)
  BY SMTT(30), <1>1, <1>2 DEF Coalesce, Restate, Accept, TypeOK
<1>3. CASE RefuseBackingOff(k, why) \/ RefuseQueueFull(k, why)
  BY Zenon, <1>1, <1>3 DEF RefuseBackingOff, RefuseQueueFull
<1>4. CASE QueueIdle(k, why)
  <2>1. k \notin queued \cup dirty
    BY <1>4 DEF QueueIdle, Idle, TypeOK
  <2>2. QED
    BY SMTT(30), <1>1, <1>4, <2>1 DEF QueueIdle, Push, Accept, TypeOK
<1>5. ASSUME NEW evicted, InsertNew(k, why, evicted), k \notin tracked,
             evicted \cap queued = {}, evicted \cap in_flight = {}
      PROVE  m \in queued' \cup dirty' /\ reason'[m] # "Periodic"
  <2>1. /\ k \notin queued \cup dirty
        /\ evicted \cap (queued \cup dirty) = {}
    BY SMTT(30), <1>5 DEF TypeOK
  <2>2. reason' = [Reset(reason, evicted, "Periodic") EXCEPT ![k] = why]
    BY <1>5 DEF InsertNew
  <2>3. reason'[m] = IF m = k THEN why ELSE IF m \in evicted THEN "Periodic" ELSE reason[m]
    BY <2>2 DEF Reset
  <2>4. asked' = (IF why = "Periodic" THEN asked ELSE [asked EXCEPT ![k] = @ \cup {why}])
        /\ queued' = queued \cup {k} /\ dirty' = dirty
    BY <1>5 DEF InsertNew, Accept, Push
  <2>5. CASE m = k
    BY SMTT(30), <1>1, <2>1, <2>3, <2>4, <2>5
  <2>6. CASE m # k
    BY SMTT(30), <1>1, <2>1, <2>3, <2>4, <2>6 DEF TypeOK
  <2>7. QED
    BY SMTT(30), <2>5, <2>6
<1>6. CASE QueueNew(k, why)
  BY <1>5, <1>6 DEF QueueNew
<1>7. CASE QueueNewEvicting(k, why)
  BY <1>5, <1>7, VictimsIdle DEF QueueNewEvicting
<1>8. QED
  BY ZenonT(60), <1>2, <1>3, <1>4, <1>6, <1>7 DEF enqueue

\* The outcome of an exchange, or a scheduled retry, never swallows a trigger.
LEMMA TriggersStep ==
    ASSUME TypeOK, queued \cap in_flight = {}, NoLostTrigger, [Next]_vars
    PROVE  NoLostTrigger'
<1>1. \A m \in Keys : asked[m] # {} => m \in queued \cup dirty /\ reason[m] # "Periodic"
  BY DEF NoLostTrigger, Priority
<1>2. ASSUME NEW k \in Keys, NEW verdict \in Verdict, finish(k, verdict) PROVE NoLostTrigger'
  <2> SUFFICES ASSUME NEW m \in Keys, asked'[m] # {}
               PROVE  m \in queued' \cup dirty' /\ reason'[m] # "Periodic"
    BY DEF NoLostTrigger, Priority
  <2>1. CASE FinishDropped(k)
    BY <1>1, <2>1 DEF FinishDropped, Forget, TypeOK
  <2>2. CASE FinishRequeue(k, verdict)
    <3>1. /\ queued' = queued \cup {k} /\ dirty' = dirty \ {k} /\ asked' = asked
          /\ reason' = reason \/ reason' = [reason EXCEPT ![k] = "Continuation"]
      BY <2>2 DEF FinishRequeue, Push
    <3>2. QED
      BY SMTT(30), <1>1, <3>1 DEF TypeOK
  <2>3. CASE FinishIdle(k, verdict)
    <3>1. /\ k \in in_flight \ dirty /\ asked' = asked /\ queued' = queued
          /\ \/ dirty' = dirty \ {k} /\ reason' = [reason EXCEPT ![k] = "Periodic"]
             \/ dirty' = dirty /\ reason' = reason
      BY <2>3 DEF FinishIdle, Forget
    <3>2. m # k
      BY SMTT(30), <1>1, <3>1
    <3>3. QED
      BY SMTT(30), <1>1, <3>1, <3>2 DEF TypeOK
  <2>4. QED
    BY <1>2, <2>1, <2>2, <2>3 DEF finish
<1>3. CASE requeue_due_retries
  <2> DEFINE due == {k \in Keys : RetryDue(k)}
  <2>1. due \cap (queued \cup dirty) = {}
    BY DEF RetryDue, FailedIdle, Idle, TypeOK
  <2>2. /\ queued' = queued \cup due /\ dirty' = dirty /\ asked' = asked
        /\ reason' = Reset(reason, due, "Periodic")
    BY <1>3 DEF requeue_due_retries
  <2> HIDE DEF due
  <2>3. \A m \in Keys : reason'[m] = IF m \in due THEN "Periodic" ELSE reason[m]
    BY <2>2 DEF Reset
  <2>4. QED
    BY <1>1, <2>1, <2>2, <2>3 DEF NoLostTrigger, Priority
<1>4. ASSUME NEW periodic_allowed \in BOOLEAN, next_ready(periodic_allowed) PROVE NoLostTrigger'
  <2>1. PICK i \in DOMAIN ready : Start(ready[i])
    BY <1>4 DEF next_ready
  <2>2. ready[i] \in Keys
    BY DEF TypeOK
  <2>3. QED
    BY <1>1, <2>1, <2>2 DEF NoLostTrigger, Priority, Start, TypeOK
<1>5. ASSUME \/ \E k \in Keys : peer_reachable(k)
             \/ \E r \in Rooms : reset_synchronized_for_room(r)
             \/ Tick
             \/ UNCHANGED vars
      PROVE  NoLostTrigger'
  BY ZenonT(30), <1>5 DEF peer_reachable, reset_synchronized_for_room, Tick, vars,
     NoLostTrigger, Priority
<1>6. QED
  BY <1>2, <1>3, <1>4, <1>5, EnqueueKeepsTriggers DEF Next

\* A trigger that enqueue accepted stays owed a pass until the pair next starts.
THEOREM TriggersAreKept == Spec => []NoLostTrigger
<1>1. Init => NoLostTrigger
  BY DEF Init, NoLostTrigger
<1>2. TypeOK /\ ReadyMatchesQueued /\ NoLostTrigger /\ [Next]_vars => NoLostTrigger'
  BY TriggersStep DEF ReadyMatchesQueued
<1>3. QED
  BY <1>1, <1>2, QueueConsistent, PTL DEF Spec
=============================================================================
