----------------------------- MODULE InboundTxns -----------------------------
(***************************************************************************)
(* Inbound federation transactions: the /send handler and the task that    *)
(* processes a transaction (api/server/send.rs), with the deduplication    *)
(* state of service/transactions/mod.rs.                                   *)
(*                                                                         *)
(* A transaction is known by its key (origin and id). The first request    *)
(* for it starts a task and a watch channel; later ones wait for the same  *)
(* result or get the cached response. A task handles its PDUs and EDUs and *)
(* then caches the response, or fails and forgets the key. `tasks` are the *)
(* tasks started so far, each with its channel.                            *)
(***************************************************************************)
EXTENDS Naturals, FiniteSets, Functions

CONSTANTS
    Txns, Origins, origin,  \* the transaction keys and the origin of each
    NoKey,                  \* no transaction
    Items, pdus,            \* the PDUs and EDUs, and which of them are PDUs
    content,                \* what each transaction carries
    Requests,               \* the HTTP requests that arrive
    MaxPerOrigin, MaxActive,  \* max_concurrent_inbound_transactions(_per_origin)
    MaxAge, MaxEntries, Interval,  \* of the cache of responses
    TaskMax, TimeMax,       \* bounds on the tasks started and on the clock
    Panics,                 \* whether a task may panic
    Stops                   \* whether the server may begin to shut down

ASSUME InboundAssumption ==
    /\ NoKey \notin Txns /\ IsFiniteSet(Txns) /\ IsFiniteSet(Items) /\ pdus \subseteq Items
    /\ origin \in [Txns -> Origins] /\ content \in [Txns -> SUBSET Items]
    /\ MaxPerOrigin \in Nat \ {0} /\ MaxActive \in Nat \ {0}
    /\ MaxAge \in Nat /\ MaxEntries \in Nat /\ Interval \in Nat \ {0}
    /\ TaskMax \in Nat /\ TimeMax \in Nat /\ TimeMax >= Interval
    /\ Panics \in BOOLEAN /\ Stops \in BOOLEAN

VARIABLES
    state, created,    \* federation_txn_state: None, Active or Cached, and since when
    cleared,           \* history: the keys whose last response went with clear_cache
    last_cleanup, now, \* the clock
    task,              \* the task that the state or the response of a key belongs to
    started,           \* the number of tasks started
    key, at, failed,   \* of a task: its key, where it stands, whether its PDUs failed
    todo, inhand,      \* the items not begun, and the PDUs inside handle_incoming_pdu
    result,            \* of its channel: the value sent, if any
    asked, waits, answer,   \* of a request: its key, the task it waits for, its answer
    loose,             \* of a rejected request: the EDUs its detached task has still to process
    edu_panics,        \* history: the rejected requests whose detached task panicked
    handled,           \* the items processed to a verdict
    running            \* server.running()
txns == <<state, created, task, last_cleanup, cleared>>
work == <<key, todo, inhand, failed, at, result>>
items == <<loose, handled, edu_panics>>
requests == <<asked, waits, answer>>
vars == <<txns, now, started, work, requests, items, running>>

Tasks == 1..TaskMax
Answer == {"None", "Ok", "Error", "Limit", "Unexpected"}

Init ==
    /\ state = [k \in Txns |-> "None"] /\ created = [k \in Txns |-> 0]
    /\ task = [k \in Txns |-> 0] /\ cleared = {}
    /\ last_cleanup = 0 /\ now = Interval /\ started = 0
    /\ key = [i \in Tasks |-> NoKey] /\ todo = [i \in Tasks |-> {}]
    /\ inhand = [i \in Tasks |-> {}]
    /\ failed = [i \in Tasks |-> FALSE] /\ at = [i \in Tasks |-> "None"]
    /\ result = [i \in Tasks |-> "None"]
    /\ asked = [q \in Requests |-> NoKey] /\ waits = [q \in Requests |-> 0]
    /\ answer = [q \in Requests |-> "None"]
    /\ loose = [q \in Requests |-> {}] /\ edu_panics = {} /\ handled = {} /\ running = TRUE

Active == {k \in Txns : state[k] = "Active"}
Cached == {k \in Txns : state[k] = "Cached"}

-----------------------------------------------------------------------------
(* get_or_start_federation_txn, called by the route under the state lock *)

Asks(q, k) == asked[q] = NoKey /\ asked' = [asked EXCEPT ![q] = k]

cached_response(q, k) ==
    /\ Asks(q, k)
    /\ state[k] = "Cached"
    /\ answer' = [answer EXCEPT ![q] = "Ok"]
    /\ UNCHANGED <<txns, now, started, work, waits, items, running>>

join_active(q, k) ==
    /\ Asks(q, k)
    /\ state[k] = "Active"
    /\ waits' = [waits EXCEPT ![q] = task[k]]
    /\ UNCHANGED <<txns, now, started, work, answer, items, running>>

\* The capacity is looked at only when the map, cached responses included, is that long.
OverOriginLimit(k) == Cardinality({j \in Active : origin[j] = origin[k]}) >= MaxPerOrigin
OverCapacity ==
    Cardinality(Active \cup Cached) >= MaxActive /\ Cardinality(Active) >= MaxActive

\* Mutant: a rejected transaction is dropped whole.
reject_Whole(q, k) ==
    /\ Asks(q, k)
    /\ state[k] = "None"
    /\ OverOriginLimit(k) \/ OverCapacity
    /\ answer' = [answer EXCEPT ![q] = "Limit"]
    /\ UNCHANGED <<txns, now, started, work, waits, items, running>>

\* A rejected transaction has its EDUs processed all the same, by a task of their own.
reject(q, k) ==
    /\ Asks(q, k)
    /\ state[k] = "None"
    /\ OverOriginLimit(k) \/ OverCapacity
    /\ answer' = [answer EXCEPT ![q] = "Limit"]
    /\ loose' = [loose EXCEPT ![q] = content[k] \ pdus]
    /\ UNCHANGED <<txns, now, started, work, waits, handled, edu_panics, running>>

\* Mutant: the limit of the origin is checked one too late.
start_OffByOne(q, k) ==
    LET i == started + 1 IN
    /\ Asks(q, k)
    /\ state[k] = "None"
    /\ ~(Cardinality({j \in Active : origin[j] = origin[k]}) > MaxPerOrigin)
    /\ i \in Tasks
    /\ started' = i
    /\ state' = [state EXCEPT ![k] = "Active"] /\ task' = [task EXCEPT ![k] = i]
    /\ key' = [key EXCEPT ![i] = k] /\ todo' = [todo EXCEPT ![i] = content[k]]
    /\ at' = [at EXCEPT ![i] = "Working"]
    /\ waits' = [waits EXCEPT ![q] = i]
    /\ UNCHANGED <<created, cleared, last_cleanup, now, inhand, failed, result, answer, items,
                   running>>

\* Mutant: a transaction that is being processed is processed again.
start_Again(q, k) ==
    LET i == started + 1 IN
    /\ Asks(q, k)
    /\ state[k] # "Cached"
    /\ ~OverCapacity
    /\ i \in Tasks
    /\ started' = i
    /\ state' = [state EXCEPT ![k] = "Active"] /\ task' = [task EXCEPT ![k] = i]
    /\ key' = [key EXCEPT ![i] = k] /\ todo' = [todo EXCEPT ![i] = content[k]]
    /\ at' = [at EXCEPT ![i] = "Working"]
    /\ waits' = [waits EXCEPT ![q] = i]
    /\ UNCHANGED <<created, cleared, last_cleanup, now, inhand, failed, result, answer, items,
                   running>>

\* Mutant: the retry is given the channel of the key's first task.
start_OldChannel(q, k) ==
    LET i == started + 1 IN
    /\ Asks(q, k)
    /\ state[k] = "None"
    /\ ~OverOriginLimit(k) /\ ~OverCapacity
    /\ i \in Tasks
    /\ started' = i
    /\ state' = [state EXCEPT ![k] = "Active"] /\ task' = [task EXCEPT ![k] = i]
    /\ key' = [key EXCEPT ![i] = k] /\ todo' = [todo EXCEPT ![i] = content[k]]
    /\ at' = [at EXCEPT ![i] = "Working"]
    /\ waits' = [waits EXCEPT ![q] = 1]
    /\ UNCHANGED <<created, cleared, last_cleanup, now, inhand, failed, result, answer, items,
                   running>>

start(q, k) ==
    LET i == started + 1 IN
    /\ Asks(q, k)
    /\ state[k] = "None"
    /\ ~OverOriginLimit(k) /\ ~OverCapacity
    /\ i \in Tasks
    /\ started' = i
    /\ state' = [state EXCEPT ![k] = "Active"] /\ task' = [task EXCEPT ![k] = i]
    /\ key' = [key EXCEPT ![i] = k] /\ todo' = [todo EXCEPT ![i] = content[k]]
    /\ at' = [at EXCEPT ![i] = "Working"]
    /\ waits' = [waits EXCEPT ![q] = i]
    /\ UNCHANGED <<created, cleared, last_cleanup, now, inhand, failed, result, answer, items,
                   running>>

-----------------------------------------------------------------------------
(* wait_for_result *)

Waiting(q) == waits[q] # 0 /\ answer[q] = "None"
Closed(i) == at[i] \in {"Done", "Panicked"}

\* Mutant: the end of the task is taken for its result.
wait_for_result_NoValue(q) ==
    /\ Waiting(q)
    /\ at[waits[q]] \in {"Failing", "Done", "Panicked"}
    /\ answer' = [answer EXCEPT ![q] =
                    IF result[waits[q]] = "None" THEN "Unexpected" ELSE result[waits[q]]]
    /\ UNCHANGED <<txns, now, started, work, asked, waits, items, running>>

\* Mutant: an error does not end the wait.
wait_for_result_OkOnly(q) ==
    /\ Waiting(q)
    /\ result[waits[q]] = "Ok" \/ (result[waits[q]] = "None" /\ Closed(waits[q]))
    /\ answer' = [answer EXCEPT ![q] =
                    IF result[waits[q]] = "None" THEN "Unexpected" ELSE result[waits[q]]]
    /\ UNCHANGED <<txns, now, started, work, asked, waits, items, running>>

\* The channel has a value, or its sender is gone without one.
wait_for_result(q) ==
    /\ Waiting(q)
    /\ result[waits[q]] # "None" \/ Closed(waits[q])
    /\ answer' = [answer EXCEPT ![q] =
                    IF result[waits[q]] = "None" THEN "Unexpected" ELSE result[waits[q]]]
    /\ UNCHANGED <<txns, now, started, work, asked, waits, items, running>>

\* 50 seconds passed; the task goes on.
wait_times_out(q) ==
    /\ Waiting(q)
    /\ answer' = [answer EXCEPT ![q] = "Limit"]
    /\ UNCHANGED <<txns, now, started, work, asked, waits, items, running>>

-----------------------------------------------------------------------------
(* process_inbound_transaction *)

Working(i) == at[i] = "Working"
AllDone(i) == todo[i] = {} /\ inhand[i] = {}

\* handle_edu
handle_edu(i) ==
    /\ Working(i)
    /\ \E edu \in todo[i] \ pdus :
         /\ todo' = [todo EXCEPT ![i] = @ \ {edu}]
         /\ handled' = handled \cup {edu}
    /\ UNCHANGED <<txns, now, started, key, inhand, failed, at, result, requests, loose,
                   edu_panics, running>>

\* One of the rooms fails: the PDUs of every room are left as they are; the EDUs go on.
FailPdus(i) ==
    /\ failed' = [failed EXCEPT ![i] = TRUE]
    /\ todo' = [todo EXCEPT ![i] = @ \ pdus]
    /\ inhand' = [inhand EXCEPT ![i] = {}]

\* handle_room: a PDU of a room that is not known here gets its verdict at once, also while
\* the server is stopping.
unknown_room(i) ==
    /\ Working(i)
    /\ \E pdu \in todo[i] \cap pdus :
         /\ todo' = [todo EXCEPT ![i] = @ \ {pdu}]
         /\ handled' = handled \cup {pdu}
    /\ UNCHANGED <<txns, now, started, key, inhand, failed, at, result, requests, loose,
                   edu_panics, running>>

\* Of a known room: the server is running and handle_incoming_pdu is called,
begin_pdu(i) ==
    /\ Working(i) /\ running
    /\ \E pdu \in todo[i] \cap pdus :
         /\ todo' = [todo EXCEPT ![i] = @ \ {pdu}]
         /\ inhand' = [inhand EXCEPT ![i] = @ \cup {pdu}]
    /\ UNCHANGED <<txns, now, started, key, failed, at, result, requests, items, running>>

\* or it is stopping and the transaction fails.
begin_stopping(i) ==
    /\ Working(i) /\ ~running
    /\ todo[i] \cap pdus # {}
    /\ FailPdus(i)
    /\ UNCHANGED <<txns, now, started, key, at, result, requests, items, running>>

\* The PDU is accepted, or refused, which the response reports.
end_pdu(i) ==
    /\ Working(i)
    /\ \E pdu \in inhand[i] :
         /\ inhand' = [inhand EXCEPT ![i] = @ \ {pdu}]
         /\ handled' = handled \cup {pdu}
    /\ UNCHANGED <<txns, now, started, key, todo, failed, at, result, requests, loose,
                   edu_panics, running>>

\* handle_incoming_pdu meets a failure of this server, such as a database error, and the
\* transaction fails,
local_failure(i) ==
    /\ Working(i) /\ running
    /\ inhand[i] # {}
    /\ FailPdus(i)
    /\ UNCHANGED <<txns, now, started, key, at, result, requests, items, running>>

\* unless the server is stopping: then the response reports the error of the PDU.
local_failure_stopping(i) ==
    /\ Working(i) /\ ~running
    /\ \E pdu \in inhand[i] : inhand' = [inhand EXCEPT ![i] = @ \ {pdu}]
    /\ UNCHANGED <<txns, now, started, key, todo, failed, at, result, requests, items, running>>

\* The detached task of a rejected transaction, which may panic and lose what is left.
handle_loose_edu(q) ==
    /\ \E edu \in loose[q] :
         loose' = [loose EXCEPT ![q] = @ \ {edu}] /\ handled' = handled \cup {edu}
    /\ UNCHANGED <<txns, now, started, work, requests, edu_panics, running>>

edu_task_panics(q) ==
    /\ Panics
    /\ loose[q] # {}
    /\ loose' = [loose EXCEPT ![q] = {}]
    /\ edu_panics' = edu_panics \cup {q}
    /\ UNCHANGED <<txns, now, started, work, requests, handled, running>>

task_panics(i) ==
    /\ Panics
    /\ Working(i)
    /\ at' = [at EXCEPT ![i] = "Panicked"]
    /\ UNCHANGED <<txns, now, started, key, todo, inhand, failed, result, requests, items, running>>

\* cleanup_entries_locked: first the entries that are too old go,
Fresh(some_created, keys) == {k \in keys : some_created[k] + MaxAge > now}

\* then the rest is sorted by age, entries of the same time in any order,
SortedByAge(some_created, keys) ==
    {order \in Bijection(1..Cardinality(keys), keys) :
        \A i, j \in DOMAIN order : i < j => some_created[order[i]] <= some_created[order[j]]}
Excess(keys) ==
    IF Cardinality(keys) > MaxEntries THEN Cardinality(keys) - MaxEntries ELSE 0

\* Mutant: the excess is taken from the wrong end.
Kept_Oldest(some_created, keys) ==
    LET fresh == Fresh(some_created, keys) IN
    {{order[i] : i \in 1..(Cardinality(fresh) - Excess(fresh))} :
        order \in SortedByAge(some_created, fresh)}

\* and the first ones, as many as there are too many, go: what may be left.
Kept(some_created, keys) ==
    LET fresh == Fresh(some_created, keys) IN
    {{order[i] : i \in (Excess(fresh) + 1)..Cardinality(fresh)} :
        order \in SortedByAge(some_created, fresh)}

Cleanup(some_state, some_created) ==
    LET cached == {k \in Txns : some_state[k] = "Cached"} IN
    \E keep \in Kept(some_created, cached) :
        state' = [k \in Txns |-> IF k \in cached \ keep THEN "None" ELSE some_state[k]]

\* Mutant: the response is sent without waiting for the EDUs.
finish_federation_txn_Early(i) ==
    /\ Working(i) /\ (todo[i] \cup inhand[i]) \cap pdus = {} /\ ~failed[i]
    /\ at' = [at EXCEPT ![i] = "Done"]
    /\ result' = [result EXCEPT ![i] = "Ok"]
    /\ created' = [created EXCEPT ![key[i]] = now]
    /\ state' = [state EXCEPT ![key[i]] = "Cached"]
    /\ UNCHANGED <<last_cleanup, task, cleared, now, started, key, todo, inhand, failed, requests,
                   items, running>>

\* Everything is processed: the response is cached, then sent, and the cache is cleaned when
\* the last time is long ago; all under the state lock.
finish_federation_txn(i) ==
    /\ Working(i) /\ AllDone(i) /\ ~failed[i]
    /\ at' = [at EXCEPT ![i] = "Done"]
    /\ result' = [result EXCEPT ![i] = "Ok"]
    /\ created' = [created EXCEPT ![key[i]] = now]
    /\ cleared' = cleared \ {key[i]}
    /\ LET cached_state == [state EXCEPT ![key[i]] = "Cached"] IN
       IF now - last_cleanup >= Interval
       THEN last_cleanup' = now /\ Cleanup(cached_state, created')
       ELSE state' = cached_state /\ UNCHANGED last_cleanup
    /\ UNCHANGED <<task, now, started, key, todo, inhand, failed, requests, items, running>>

\* Mutant: a failed transaction is not forgotten.
fail_federation_txn_Keeps(i) ==
    /\ Working(i) /\ AllDone(i) /\ failed[i]
    /\ at' = [at EXCEPT ![i] = "Failing"]
    /\ UNCHANGED <<txns, now, started, key, todo, inhand, failed, result, requests, items, running>>

\* Failure: first the key is forgotten, so that it can be tried again, then the waiters
\* are told.
fail_federation_txn(i) ==
    /\ Working(i) /\ AllDone(i) /\ failed[i]
    /\ state' = [state EXCEPT ![key[i]] = "None"]
    /\ at' = [at EXCEPT ![i] = "Failing"]
    /\ UNCHANGED <<created, cleared, task, last_cleanup, now, started, key, todo, inhand, failed,
                   result, requests, items, running>>

send_failure(i) ==
    /\ at[i] = "Failing"
    /\ result' = [result EXCEPT ![i] = "Error"]
    /\ at' = [at EXCEPT ![i] = "Done"]
    /\ UNCHANGED <<txns, now, started, key, todo, inhand, failed, requests, items, running>>

-----------------------------------------------------------------------------
(* The rest *)

clear_cache ==
    /\ Cached # {}
    /\ state' = [k \in Txns |-> IF state[k] = "Cached" THEN "None" ELSE state[k]]
    /\ cleared' = cleared \cup Cached
    /\ UNCHANGED <<created, task, last_cleanup, now, started, work, requests, items, running>>

tick ==
    /\ now < TimeMax
    /\ now' = now + 1
    /\ UNCHANGED <<txns, started, work, requests, items, running>>

shutdown ==
    /\ Stops /\ running
    /\ running' = FALSE
    /\ UNCHANGED <<txns, now, started, work, requests, items>>

Arrive ==
    \E q \in Requests, k \in Txns :
        cached_response(q, k) \/ join_active(q, k) \/ reject(q, k) \/ start(q, k)
TaskStep(i) ==
    \/ handle_edu(i) \/ unknown_room(i) \/ begin_pdu(i) \/ begin_stopping(i) \/ end_pdu(i)
    \/ finish_federation_txn(i)
    \/ fail_federation_txn(i) \/ send_failure(i)

Next ==
    \/ Arrive
    \/ \E q \in Requests : wait_for_result(q) \/ wait_times_out(q)
                          \/ handle_loose_edu(q) \/ edu_task_panics(q)
    \/ \E i \in Tasks : TaskStep(i) \/ task_panics(i)
                       \/ local_failure(i) \/ local_failure_stopping(i)
    \/ clear_cache \/ tick \/ shutdown

Spec == Init /\ [][Next]_vars

\* The runtime runs every task, and every request is polled.
FairSpec ==
    /\ Spec
    /\ \A i \in Tasks : WF_vars(TaskStep(i))
    /\ \A q \in Requests : WF_vars(wait_for_result(q)) /\ WF_vars(handle_loose_edu(q))

-----------------------------------------------------------------------------
(* Properties *)

\* Every variable keeps its type, and a request waits only for a task of its own key.
TypeOK ==
    /\ state \in [Txns -> {"None", "Active", "Cached"}] /\ created \in [Txns -> 0..now]
    /\ task \in [Txns -> 0..started] /\ started \in 0..TaskMax
    /\ last_cleanup \in 0..now /\ now \in Interval..TimeMax
    /\ at \in [Tasks -> {"None", "Working", "Failing", "Done", "Panicked"}]
    /\ result \in [Tasks -> {"None", "Ok", "Error"}]
    /\ answer \in [Requests -> Answer]
    /\ loose \in [Requests -> SUBSET Items]
    /\ \A q \in Requests : waits[q] # 0 => key[waits[q]] = asked[q]

\* A transaction is worked on by at most one task at a time: a repeated request joins it.
OneTaskPerTxn ==
    \A i, j \in Tasks : Working(i) /\ Working(j) /\ key[i] = key[j] => i = j

\* An entry is Active only while its task is at work: a failed or finished transaction does
\* not stay Active, where it would use up the limits and make every retry wait in vain.
ActiveIsWorkedOn == \A k \in Active : Working(task[k]) /\ key[task[k]] = k

\* Neither the limit of an origin nor the overall one is exceeded.
LimitsRespected ==
    /\ Cardinality(Active) <= MaxActive
    /\ \A o \in Origins : Cardinality({k \in Active : origin[k] = o}) <= MaxPerOrigin

\* Until the server begins to stop, a request that is answered with success, fresh, joined or
\* cached, has everything its transaction carries processed: the acknowledgement waits for
\* PDUs and EDUs.
AckedIsHandled ==
    running => \A q \in Requests : answer[q] = "Ok" => content[asked[q]] \subseteq handled

\* Nobody who waits meets a channel that closed without a value.
NoUnexpectedAnswer == \A q \in Requests : answer[q] # "Unexpected"

\* A transaction that was answered is forgotten, and processed again when it is sent again,
\* only for a cause: its response was too old, or max_entries others are at least as young, or
\* an administrator cleared the cache. This holds whatever fails, is retried or is cleaned up
\* after it.
ForgottenForCause ==
    \A k \in Txns : created[k] > 0 /\ state[k] # "Cached" =>
        \/ k \in cleared
        \/ created[k] + MaxAge <= now
        \/ Cardinality({j \in Txns \ {k} : created[j] >= created[k]}) >= MaxEntries

\* The EDUs of a request that was turned away because of a limit are processed all the same,
\* unless the task that has them panics.
RejectedEdusHandled ==
    \A q \in Requests, k \in Txns :
        (asked[q] = k /\ answer[q] = "Limit" /\ waits[q] = 0)
            ~> (content[k] \ pdus \subseteq handled \/ q \in edu_panics)

\* Every request that waits is answered, also without its timeout.
WaiterAnswered == \A q \in Requests : Waiting(q) ~> answer[q] # "None"
=============================================================================
