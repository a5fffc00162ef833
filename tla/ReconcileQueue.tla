--------------------------- MODULE ReconcileQueue ---------------------------
(***************************************************************************)
(* The coalescing (room, peer) queue behind the outbound reconciliation    *)
(* worker: service/rooms/reconcile/queue.rs.  Every method runs under the  *)
(* service's queue mutex, so each method is one action.  The worker        *)
(* (start_ready in reconcile/mod.rs) calls requeue_due_retries and then    *)
(* next_ready, taking the mutex anew for every call, and every spawned     *)
(* exchange ends with one call of finish; triggers interleave freely.      *)
(*                                                                         *)
(* Time.  An Instant is kept as the number of ticks that remain until it:  *)
(* None (no instant) is -1, 0 is an instant that has passed, and Tick      *)
(* brings every pending instant one tick nearer.  None sorts below every   *)
(* instant, as Option does.                                                *)
(*                                                                         *)
(* The map of entries is kept field by field: `tracked` is its key set, a  *)
(* flag is the set of pairs that have it, a counter or an instant is a     *)
(* function, with the field's default for a pair that is not tracked.      *)
(***************************************************************************)
EXTENDS Integers, Sequences, FiniteSets, Functions

CONSTANTS
    Rooms, Peers,
    Keys,               \* the tracked candidates, a subset of Rooms \X Peers
    Triggers,           \* the reasons the environment may enqueue with
    MaxTracked,         \* MAX_TRACKED
    MaxConcurrent,      \* MAX_CONCURRENT
    MaxPerPeer,         \* MAX_PER_PEER
    BackoffBase, BackoffMax,          \* failure_backoff, failure_backoff_max
    UnsupportedBackoff,               \* UNSUPPORTED_BACKOFF
    DigestsBeforeBackoff,             \* IDENTICAL_DIGESTS_BEFORE_BACKOFF
    DigestBackoffBase, DigestBackoffMax,
    CounterMax,         \* where the saturating u32 counters stop (named bound)
    TriggerBudget,      \* how many non-periodic triggers arrive (named bound)
    ContinuationBudget  \* how many exchanges end truncated (named bound)

Reason == {"Explicit", "Periodic", "Activity", "IncomingGap", "Continuation", "Reconnect"}
Verdict == {"Done", "Continuation", "Synchronized", "Failed", "Unsupported", "Dropped"}
None == -1

ASSUME QueueAssumption ==
    /\ Keys \subseteq Rooms \X Peers
    /\ IsFiniteSet(Keys)
    /\ Triggers \subseteq Reason
    /\ MaxTracked \in Nat \ {0}
    /\ MaxConcurrent \in Nat \ {0}
    /\ MaxPerPeer \in Nat \ {0}
    /\ BackoffBase \in Nat \ {0}
    /\ BackoffMax \in Nat
    /\ UnsupportedBackoff \in Nat
    /\ DigestsBeforeBackoff \in Nat
    /\ DigestBackoffBase \in Nat
    /\ DigestBackoffMax \in Nat
    /\ CounterMax \in Nat \ {0}
    /\ TriggerBudget \in Nat
    /\ ContinuationBudget \in Nat

VARIABLES
    tracked,            \* the keys of the map `entries`
    queued, in_flight, dirty, retry_pending,  \* the flags of Entry
    reason,             \* why the pair is queued, or why it is dirty
    failures, not_before,
    identical_digests, synchronized_until,
    ready,              \* the VecDeque of queued keys
    asked,              \* history: accepted non-periodic reasons since the pair last started
    triggers,           \* how many non-periodic triggers are still to come
    truncations         \* how many truncated exchanges are still to come

cooldowns == <<failures, not_before, identical_digests, synchronized_until>>
budgets == <<triggers, truncations>>
vars == <<tracked, queued, in_flight, dirty, retry_pending, reason, cooldowns, ready, asked,
          budgets>>

room_id(k) == k[1]
peer(k) == k[2]

Idle(k) == k \in tracked \ (queued \cup in_flight)
Pending(instant) == instant > 0
CoolingDown(k) == Pending(not_before[k]) \/ Pending(synchronized_until[k])
\* Mutant: the counters grow without saturating.
SaturatingAdd1_Unbounded(n) == n + 1
SaturatingAdd1(n) == IF n < CounterMax THEN n + 1 ELSE n

\* base * 2^shift, capped; a product beyond the cap, saturated or not, is the cap.
CappedDelay(base, shift, cap) ==
    LET delay == base * 2^shift IN IF delay \in 0..cap THEN delay ELSE cap

backoff(n) ==
    CappedDelay(BackoffBase, IF n > 0 THEN n - 1 ELSE 0,
                IF BackoffMax > BackoffBase THEN BackoffMax ELSE BackoffBase)

Init ==
    /\ tracked = {}
    /\ queued = {} /\ in_flight = {} /\ dirty = {} /\ retry_pending = {}
    /\ reason = [k \in Keys |-> "Periodic"]
    /\ failures = [k \in Keys |-> 0]
    /\ not_before = [k \in Keys |-> None]
    /\ identical_digests = [k \in Keys |-> 0]
    /\ synchronized_until = [k \in Keys |-> None]
    /\ ready = <<>>
    /\ asked = [k \in Keys |-> {}]
    /\ triggers = TriggerBudget
    /\ truncations = ContinuationBudget

-----------------------------------------------------------------------------
(* enqueue *)

Accept(k, why) ==
    asked' = IF why = "Periodic" THEN asked ELSE [asked EXCEPT ![k] = @ \cup {why}]

SpendTrigger(why) ==
    IF why = "Periodic" THEN UNCHANGED triggers
    ELSE triggers > 0 /\ triggers' = triggers - 1

\* A non-periodic trigger drops what was learnt from equal digests, and nothing else.
Invalidate(k, why) ==
    IF why = "Periodic" THEN UNCHANGED <<identical_digests, synchronized_until>>
    ELSE /\ identical_digests' = [identical_digests EXCEPT ![k] = 0]
         /\ synchronized_until' = [synchronized_until EXCEPT ![k] = None]

Restate(k, why) ==
    reason' = IF why = "Periodic" THEN reason ELSE [reason EXCEPT ![k] = why]

\* Mutant: a trigger during a running exchange does not mark it dirty.
Coalesce_NotDirty(k, why) ==
    /\ k \in queued \cup in_flight
    /\ Restate(k, why)
    /\ Invalidate(k, why)
    /\ Accept(k, why)
    /\ UNCHANGED <<tracked, queued, in_flight, dirty, retry_pending, failures, not_before, ready>>

\* The pair runs or is queued already.
Coalesce(k, why) ==
    /\ k \in queued \cup in_flight
    /\ dirty' = IF why # "Periodic" /\ k \in in_flight THEN dirty \cup {k} ELSE dirty
    /\ Restate(k, why)
    /\ Invalidate(k, why)
    /\ Accept(k, why)
    /\ UNCHANGED <<tracked, queued, in_flight, retry_pending, failures, not_before, ready>>

\* Whether the wait of an idle pair bars this trigger, seen after Invalidate.
Barred(k, why) ==
    /\ why # "Explicit"
    /\ Pending(not_before[k]) \/ (why = "Periodic" /\ Pending(synchronized_until[k]))

RefuseBackingOff(k, why) ==
    /\ Idle(k)
    /\ Barred(k, why)
    /\ Invalidate(k, why)
    /\ UNCHANGED <<tracked, queued, in_flight, dirty, retry_pending, reason, failures,
                   not_before, ready, asked>>

Push(k) == queued' = queued \cup {k} /\ ready' = Append(ready, k)

\* Mutant: a pair that is queued already is pushed again.
QueueIdle_Again(k, why) ==
    /\ k \in tracked \ in_flight
    /\ ~Barred(k, why)
    /\ Push(k)
    /\ reason' = [reason EXCEPT ![k] = why]
    /\ Invalidate(k, why)
    /\ Accept(k, why)
    /\ UNCHANGED <<tracked, in_flight, dirty, retry_pending, failures, not_before>>

\* An idle pair is queued; an explicit request overrides its backoff.
QueueIdle(k, why) ==
    /\ Idle(k)
    /\ ~Barred(k, why)
    /\ Push(k)
    /\ reason' = [reason EXCEPT ![k] = why]
    /\ not_before' = IF why = "Explicit" THEN [not_before EXCEPT ![k] = None] ELSE not_before
    /\ Invalidate(k, why)
    /\ Accept(k, why)
    /\ UNCHANGED <<tracked, in_flight, dirty, retry_pending, failures>>

\* The pairs evict_idle may drop: an idle pair whose cooldowns are served, or else an
\* idle failed pair, in either case one with the least not_before.
Served(k) == Idle(k) /\ k \notin retry_pending /\ ~CoolingDown(k)
FailedIdle(k) == Idle(k) /\ k \in retry_pending

\* Mutant: a failed pair never yields its slot.
Candidates_ServedOnly == {k \in tracked : Served(k)}

Candidates ==
    IF \E k \in tracked : Served(k)
    THEN {k \in tracked : Served(k)}
    ELSE {k \in tracked : FailedIdle(k)}

Victims == {k \in Candidates : \A j \in Candidates : not_before[k] <= not_before[j]}

\* The entry of `gone`, if it is a key, is removed from the map: its fields are defaults.
Reset(f, gone, default) == [k \in Keys |-> IF k \in gone THEN default ELSE f[k]]

ForgetCooldowns(gone) ==
    /\ failures' = Reset(failures, gone, 0)
    /\ not_before' = Reset(not_before, gone, None)
    /\ identical_digests' = Reset(identical_digests, gone, 0)
    /\ synchronized_until' = Reset(synchronized_until, gone, None)

InsertNew(k, why, evicted) ==
    /\ tracked' = (tracked \ evicted) \cup {k}
    /\ Push(k)
    /\ reason' = [Reset(reason, evicted, "Periodic") EXCEPT ![k] = why]
    /\ retry_pending' = retry_pending \ evicted
    /\ ForgetCooldowns(evicted)
    /\ Accept(k, why)
    /\ UNCHANGED <<in_flight, dirty>>

\* Mutant: off by one in the capacity test.
QueueNew_OneTooMany(k, why) ==
    /\ k \notin tracked
    /\ Cardinality(tracked) <= MaxTracked
    /\ InsertNew(k, why, {})

QueueNew(k, why) ==
    /\ k \notin tracked
    /\ Cardinality(tracked) < MaxTracked
    /\ InsertNew(k, why, {})

QueueNewEvicting(k, why) ==
    /\ k \notin tracked
    /\ Cardinality(tracked) >= MaxTracked
    /\ \E victim \in Victims : InsertNew(k, why, {victim})

RefuseQueueFull(k, why) ==
    /\ k \notin tracked
    /\ Cardinality(tracked) >= MaxTracked
    /\ Victims = {}
    /\ UNCHANGED <<tracked, queued, in_flight, dirty, retry_pending, reason, cooldowns, ready,
                   asked>>

enqueue(k, why) ==
    /\ \/ Coalesce(k, why)
       \/ RefuseBackingOff(k, why)
       \/ QueueIdle(k, why)
       \/ QueueNew(k, why)
       \/ QueueNewEvicting(k, why)
       \/ RefuseQueueFull(k, why)
    /\ SpendTrigger(why)
    /\ UNCHANGED truncations

-----------------------------------------------------------------------------
(* The worker *)

RetryDue(k) == FailedIdle(k) /\ ~Pending(not_before[k])

\* Mutant: the due pairs are unmarked and never pushed.
requeue_due_retries_NoPush ==
    LET due == {k \in Keys : RetryDue(k)}
    IN  /\ due # {}
        /\ retry_pending' = retry_pending \ due
        /\ UNCHANGED <<tracked, queued, in_flight, dirty, reason, cooldowns, ready, asked, budgets>>

\* The due pairs enter `ready` in the order of the hash map's iteration: any order.
requeue_due_retries ==
    LET due == {k \in Keys : RetryDue(k)}
    IN  /\ due # {}
        /\ retry_pending' = retry_pending \ due
        /\ queued' = queued \cup due
        /\ reason' = Reset(reason, due, "Periodic")
        /\ \E order \in Bijection(1..Cardinality(due), due) : ready' = ready \o order
        /\ UNCHANGED <<tracked, in_flight, dirty, cooldowns, asked, budgets>>

Priority(k) == reason[k] # "Periodic"
PeerRunning(p) == {k \in in_flight : peer(k) = p}

\* Mutant: the exchanges running against the peer are not counted.
Eligible_NoPeerLimit(k, periodic_allowed) ==
    /\ k \in tracked
    /\ Priority(k) \/ periodic_allowed
    /\ ~CoolingDown(k)

\* Mutant: a backoff bars the pair also when it has passed.
Eligible_BackoffSet(k, periodic_allowed) ==
    /\ k \in tracked
    /\ Priority(k) \/ periodic_allowed
    /\ Cardinality(PeerRunning(peer(k))) < MaxPerPeer
    /\ not_before[k] = None /\ ~CoolingDown(k)

Eligible(k, periodic_allowed) ==
    /\ k \in tracked
    /\ Priority(k) \/ periodic_allowed
    /\ Cardinality(PeerRunning(peer(k))) < MaxPerPeer
    /\ ~CoolingDown(k)

\* Position i is reached before position j by the two passes over `ready`.
ScannedBefore(i, j) ==
    IF Priority(ready[i]) = Priority(ready[j]) THEN i < j ELSE Priority(ready[i])

RemoveIndex(s, i) == [j \in 1..(Len(s) - 1) |-> IF j < i THEN s[j] ELSE s[j + 1]]

Start(k) ==
    /\ queued' = queued \ {k}
    /\ retry_pending' = retry_pending \ {k}
    /\ in_flight' = in_flight \cup {k}
    /\ dirty' = dirty \ {k}
    /\ reason' = [reason EXCEPT ![k] = "Periodic"]
    /\ asked' = [asked EXCEPT ![k] = {}]

next_ready(periodic_allowed) ==
    /\ Cardinality(in_flight) < MaxConcurrent
    /\ \E i \in DOMAIN ready :
         /\ Eligible(ready[i], periodic_allowed)
         /\ \A j \in DOMAIN ready :
               Eligible(ready[j], periodic_allowed) => ~ScannedBefore(j, i)
         /\ ready' = RemoveIndex(ready, i)
         /\ Start(ready[i])
    /\ UNCHANGED <<tracked, cooldowns, budgets>>

-----------------------------------------------------------------------------
(* finish: what the verdict leaves in the entry of k *)

Healthy(verdict) == verdict \in {"Done", "Continuation", "Synchronized"}
EqualDigest(k, verdict) == verdict = "Synchronized" /\ k \notin dirty

FailuresAfter(k, verdict) == IF Healthy(verdict) THEN 0 ELSE SaturatingAdd1(failures[k])

NotBeforeAfter(k, verdict) ==
    IF Healthy(verdict) THEN None
    ELSE IF verdict = "Failed" THEN backoff(SaturatingAdd1(failures[k]))
    ELSE UnsupportedBackoff

DigestsAfter(k, verdict) ==
    IF EqualDigest(k, verdict) THEN SaturatingAdd1(identical_digests[k]) ELSE 0

SynchronizedUntilAfter(k, verdict) ==
    LET digests == DigestsAfter(k, verdict)
    IN  IF ~EqualDigest(k, verdict) THEN None
        ELSE IF digests < DigestsBeforeBackoff THEN synchronized_until[k]
        ELSE CappedDelay(DigestBackoffBase, digests - DigestsBeforeBackoff, DigestBackoffMax)

RetryAfter(k, verdict) ==
    retry_pending' = IF verdict = "Failed" THEN retry_pending \cup {k} ELSE retry_pending

\* The pair's entry is removed from the map.
Forget(k) ==
    /\ tracked' = tracked \ {k}
    /\ retry_pending' = retry_pending \ {k}
    /\ dirty' = dirty \ {k}
    /\ reason' = [reason EXCEPT ![k] = "Periodic"]
    /\ ForgetCooldowns({k})

FinishDropped(k) ==
    /\ k \in in_flight
    /\ in_flight' = in_flight \ {k}
    /\ Forget(k)
    /\ asked' = [asked EXCEPT ![k] = {}]
    /\ UNCHANGED <<queued, ready, budgets>>

\* Another pass: a truncated exchange, or a trigger that arrived during this one. An
\* explicit trigger overrides the backoff the verdict has just set.
FinishRequeue(k, verdict) ==
    LET again == verdict = "Continuation"
        explicit == ~again /\ reason[k] = "Explicit"
    IN  /\ k \in in_flight
        /\ verdict # "Dropped"
        /\ again \/ k \in dirty
        /\ in_flight' = in_flight \ {k}
        /\ dirty' = dirty \ {k}
        /\ Push(k)
        /\ reason' = IF again THEN [reason EXCEPT ![k] = "Continuation"] ELSE reason
        /\ RetryAfter(k, verdict)
        /\ failures' = [failures EXCEPT ![k] = FailuresAfter(k, verdict)]
        /\ not_before' = [not_before EXCEPT ![k] =
                             IF explicit THEN None ELSE NotBeforeAfter(k, verdict)]
        /\ identical_digests' = [identical_digests EXCEPT ![k] = DigestsAfter(k, verdict)]
        /\ synchronized_until' = [synchronized_until EXCEPT ![k] =
                                     IF explicit THEN None ELSE SynchronizedUntilAfter(k, verdict)]
        /\ truncations' = IF again THEN truncations - 1 ELSE truncations
        /\ again => truncations > 0
        /\ UNCHANGED <<tracked, asked, triggers>>

\* No further pass: a healthy pair is forgotten, a failing or equal one is kept.
FinishIdle(k, verdict) ==
    /\ k \in in_flight \ dirty
    /\ verdict \notin {"Dropped", "Continuation"}
    /\ in_flight' = in_flight \ {k}
    /\ IF FailuresAfter(k, verdict) = 0 /\ DigestsAfter(k, verdict) = 0
       THEN Forget(k)
       ELSE /\ RetryAfter(k, verdict)
            /\ failures' = [failures EXCEPT ![k] = FailuresAfter(k, verdict)]
            /\ not_before' = [not_before EXCEPT ![k] = NotBeforeAfter(k, verdict)]
            /\ identical_digests' = [identical_digests EXCEPT ![k] = DigestsAfter(k, verdict)]
            /\ synchronized_until' =
                  [synchronized_until EXCEPT ![k] = SynchronizedUntilAfter(k, verdict)]
            /\ UNCHANGED <<tracked, dirty, reason>>
    /\ UNCHANGED <<queued, ready, asked, budgets>>

finish(k, verdict) ==
    \/ verdict = "Dropped" /\ FinishDropped(k)
    \/ FinishRequeue(k, verdict)
    \/ FinishIdle(k, verdict)

-----------------------------------------------------------------------------
(* The other callers and the clock *)

peer_reachable(k) ==
    /\ k \in tracked
    /\ failures' = [failures EXCEPT ![k] = 0]
    /\ not_before' = [not_before EXCEPT ![k] = None]
    /\ UNCHANGED <<tracked, queued, in_flight, dirty, retry_pending, reason, identical_digests,
                   synchronized_until, ready, asked, budgets>>

reset_synchronized_for_room(r) ==
    LET affected == {k \in tracked : room_id(k) = r}
    IN  /\ identical_digests' = Reset(identical_digests, affected, 0)
        /\ synchronized_until' = Reset(synchronized_until, affected, None)
        /\ UNCHANGED <<tracked, queued, in_flight, dirty, retry_pending, reason, failures,
                       not_before, ready, asked, budgets>>

Nearer(instant) == IF Pending(instant) THEN instant - 1 ELSE instant

Tick ==
    /\ \E k \in tracked : CoolingDown(k)
    /\ not_before' = [k \in Keys |-> Nearer(not_before[k])]
    /\ synchronized_until' = [k \in Keys |-> Nearer(synchronized_until[k])]
    /\ UNCHANGED <<tracked, queued, in_flight, dirty, retry_pending, reason, failures,
                   identical_digests, ready, asked, budgets>>

Next ==
    \/ \E k \in Keys, why \in Triggers : enqueue(k, why)
    \/ requeue_due_retries
    \/ \E periodic_allowed \in BOOLEAN : next_ready(periodic_allowed)
    \/ \E k \in Keys, verdict \in Verdict : finish(k, verdict)
    \/ \E k \in Keys : peer_reachable(k)
    \/ \E r \in Rooms : reset_synchronized_for_room(r)
    \/ Tick

Spec == Init /\ [][Next]_vars

\* The exchange of a pair ends with one of the verdicts, and each takes it out of in_flight.
ExchangeEnds(k) ==
    /\ k \in in_flight /\ in_flight' = in_flight \ {k}
    /\ \E verdict \in Verdict : finish(k, verdict)

\* Time passes; the worker loop wakes at least once a second, and the one-second rate
\* window then has room for periodic work again; every exchange ends (each of its requests
\* times out, and a panic is caught and recorded as a failure).
Fairness ==
    /\ WF_vars(Tick)
    /\ WF_vars(requeue_due_retries)
    /\ WF_vars(next_ready(TRUE))
    /\ \A k \in Keys : WF_vars(ExchangeEnds(k))

FairSpec == Spec /\ Fairness

-----------------------------------------------------------------------------
(* Properties *)

\* Type invariant; only a tracked pair has flags and only a running one is dirty.
TypeOK ==
    /\ tracked \subseteq Keys
    /\ queued \subseteq tracked /\ in_flight \subseteq tracked
    /\ dirty \subseteq in_flight /\ retry_pending \subseteq tracked
    /\ reason \in [Keys -> Reason]
    /\ failures \in [Keys -> 0..CounterMax]
    /\ not_before \in [Keys -> Nat \cup {None}]
    /\ identical_digests \in [Keys -> 0..CounterMax]
    /\ synchronized_until \in [Keys -> Nat \cup {None}]
    /\ ready \in Seq(Keys)
    /\ asked \in [Keys -> SUBSET Reason]
    /\ triggers \in Nat
    /\ truncations \in Nat

\* `ready` and the `queued` flags never drift apart: every queued pair is in the deque
\* exactly once and nothing else is, so next_ready can neither start a pair twice nor
\* strand one; and a pair is never queued while its exchange runs (enqueue, finish,
\* requeue_due_retries and evict_idle all push or drop).
ReadyMatchesQueued ==
    /\ \A i, j \in DOMAIN ready : ready[i] = ready[j] => i = j
    /\ \A k \in Keys : k \in queued <=> \E i \in DOMAIN ready : ready[i] = k
    /\ queued \cap in_flight = {}

\* The global and the per-peer concurrency limits hold, whatever is requeued while
\* exchanges run (next_ready recounts in-flight entries, it keeps no counter).
ConcurrencyLimits ==
    /\ Cardinality(in_flight) <= MaxConcurrent
    /\ \A p \in Peers : Cardinality(PeerRunning(p)) <= MaxPerPeer

\* Failing, cooling-down and busy pairs together never exceed MAX_TRACKED entries.
TrackingBounded == Cardinality(tracked) <= MaxTracked

\* A non-periodic trigger that enqueue accepted (Queued or Coalesced) is owed a pass: until
\* the pair next starts, it is queued, or it runs and is dirty, and it keeps the priority
\* of a non-periodic request. Eviction, a periodic tick, a truncated or failed exchange
\* and a scheduled retry never swallow it; only a Dropped verdict does.
NoLostTrigger ==
    \A k \in Keys : asked[k] # {} => k \in queued \cup dirty /\ Priority(k)

\* A full queue does not refuse new pairs for ever: again and again there is a free slot or a
\* pair evict_idle may drop, also when every slot is taken by pairs that fail, are retried
\* and fail again, or by peers that wait out their cooldowns.
AdmissionReopens == []<>(Cardinality(tracked) < MaxTracked \/ Victims # {})

\* A failed pair is retried even when no further trigger arrives (requeue_due_retries),
\* unless it yields its slot or the peer's pair is dropped.
FailedIsRetried ==
    \A k \in Keys : (k \in retry_pending) ~> (k \in in_flight \/ k \notin tracked)

\* Every accepted trigger is eventually served by an exchange that starts after it: what a
\* pair is owed is nothing again and again.
TriggerIsServed == \A k \in Keys : []<>(asked[k] = {})

\* queue.rs, finish: "An explicit request overrides backoff, including one that arrived
\* while the failing exchange ran."  So a queued pair that owes an explicit request a pass
\* must not be waiting out a failure or unsupported-peer backoff.
ExplicitOverridesBackoff ==
    \A k \in queued : "Explicit" \in asked[k] => ~Pending(not_before[k])

=============================================================================
