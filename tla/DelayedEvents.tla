---------------------------- MODULE DelayedEvents ----------------------------
(***************************************************************************)
(* Delayed events (service/rooms/delayed_events): a client schedules an    *)
(* event, and the timer of the submission worker, a request to send it or  *)
(* a request to cancel it finalises it; a request to restart sets its      *)
(* timer back.                                                             *)
(*                                                                         *)
(* The scheduled and the finalised table are in the database. The set of   *)
(* scheduled ids, the channel to the worker and its queue are in memory:   *)
(* whoever takes the id out of the set may finalise the event. Requests    *)
(* and the worker are processes that interleave between their accesses to  *)
(* the tables and the set. The handler of a request is dropped at an await *)
(* when its client leaves or it times out.                                 *)
(***************************************************************************)
EXTENDS Integers, FiniteSets

CONSTANTS
    Events,            \* the delay ids
    Requests, Worker,  \* the requests in progress at a time, and the submission worker
    NoEvent,
    Delay, TimeMax,    \* the delay of an event, and the bound on the clock
    CrashMax           \* how often the server goes down

ASSUME DelayedAssumption ==
    /\ NoEvent \notin Events /\ Worker \notin Requests
    /\ Delay \in Nat /\ TimeMax \in Nat /\ CrashMax \in Nat

VARIABLES
    scheduled, since,  \* delayid_scheduleddelayedevent: the rows, and their running_since
    finalized,         \* delayid_finalizeddelayedevent: the outcome
    held,              \* scheduled_events
    channel, queue,    \* the channel to the worker and its queue
    loaded,            \* the rows that the worker read when it started
    at, on, action,    \* of a process: where it stands, its event and its UpdateAction
    creating,          \* how far queue_delayed_event is with an event
    now, crashes,
    sends,             \* history: how often an event was appended to its room (2 for more)
    told,              \* history: the outcome that a request was last told
    left,              \* history: the events that no timer or set entry stands for any more
    stale              \* history: the events whose state was brought back after the fact
tables == <<scheduled, since, finalized>>
memory == <<held, channel, queue, loaded>>
procs == <<at, on, action>>
history == <<sends, told, left, stale>>
vars == <<tables, memory, procs, creating, now, crashes, history>>

Procs == Requests \cup {Worker}
Times == 0..(TimeMax + Delay)
Outcomes == {"None", "Send", "Cancel", "Error"}
\* An entry of the worker's queue: read at the start or received from the channel.
Timers == [id : Events, time : Times, from : {"Load", "Channel"}]
SubmissionTime(e) == since[e] + Delay
Timer(e, source) == [id |-> e, time |-> SubmissionTime(e), from |-> source]
HasTimer(e) ==
    \/ \E t \in channel \cup queue : t.id = e
    \/ at[Worker] = "Claim" /\ on[Worker] = e
\* The processes that took the id of an event out of the set and have not finished.
Owning == {"Append", "Sent", "Cancel", "Remove"}
Owned(e) == \E p \in Procs : on[p] = e /\ at[p] \in Owning
Taken(e) == finalized[e] # "None" \/ sends[e] > 0 \/ Owned(e)

Init ==
    /\ scheduled = {} /\ since = [e \in Events |-> 0] /\ finalized = [e \in Events |-> "None"]
    /\ held = {} /\ channel = {} /\ queue = {} /\ loaded = {}
    /\ at = [p \in Procs |-> IF p = Worker THEN "Boot" ELSE "Idle"]
    /\ on = [p \in Procs |-> NoEvent] /\ action = [p \in Procs |-> "Send"]
    /\ creating = [e \in Events |-> "None"]
    /\ now = 0 /\ crashes = 0
    /\ sends = [e \in Events |-> 0] /\ told = [e \in Events |-> "None"]
    /\ left = {} /\ stale = {}

Goto(p, place) == at' = [at EXCEPT ![p] = place] /\ UNCHANGED <<on, action>>
\* Mutant: a process that is through keeps its event.
Finish_KeepsEvent(p) ==
    /\ at' = [at EXCEPT ![p] = IF p = Worker THEN "Loop" ELSE "Idle"]
    /\ action' = [action EXCEPT ![p] = "Send"]
    /\ UNCHANGED on

\* The process is through with its event: the worker goes on, a request is answered.
Finish(p) ==
    /\ at' = [at EXCEPT ![p] = IF p = Worker THEN "Loop" ELSE "Idle"]
    /\ on' = [on EXCEPT ![p] = NoEvent]
    /\ action' = [action EXCEPT ![p] = "Send"]

-----------------------------------------------------------------------------
(* queue_delayed_event *)

\* The row is written,
queue_put(e) ==
    /\ creating[e] = "None"
    /\ now + Delay <= TimeMax
    /\ creating' = [creating EXCEPT ![e] = "Put"]
    /\ scheduled' = scheduled \cup {e}
    /\ since' = [since EXCEPT ![e] = now]
    /\ UNCHANGED <<finalized, memory, procs, now, crashes, history>>

\* and, once the set is locked, the id is put there and sent to the worker, which may have
\* met the row already when it started.
queue_insert(e) ==
    /\ creating[e] = "Put"
    /\ creating' = [creating EXCEPT ![e] = "Done"]
    /\ held' = held \cup {e}
    /\ channel' = channel \cup {Timer(e, "Channel")}
    /\ stale' = IF Taken(e) THEN stale \cup {e} ELSE stale
    /\ UNCHANGED <<tables, queue, loaded, procs, now, crashes, sends, told,
                   left>>

\* The handler is dropped while it waits for the lock: nobody has learnt the id.
queue_dropped(e) ==
    /\ creating[e] = "Put"
    /\ creating' = [creating EXCEPT ![e] = "Lost"]
    /\ UNCHANGED <<tables, memory, procs, now, crashes, history>>

-----------------------------------------------------------------------------
(* update_delayed_event *)

Begin(r, e, an_action, place) ==
    /\ at[r] = "Idle" /\ creating[e] = "Done"
    /\ at' = [at EXCEPT ![r] = place]
    /\ on' = [on EXCEPT ![r] = e]
    /\ action' = [action EXCEPT ![r] = an_action]
    /\ UNCHANGED <<tables, memory, creating, now, crashes, history>>

\* The row is gone: the outcome is looked up.
update_finalized(r, e) ==
    /\ e \notin scheduled
    /\ \E an_action \in {"Send", "Cancel", "Restart"} : Begin(r, e, an_action, "Check")

update_finalize(r, e) ==
    /\ e \in scheduled
    /\ \E an_action \in {"Send", "Cancel"} : Begin(r, e, an_action, "Claim")

update_restart(r, e) == e \in scheduled /\ Begin(r, e, "Restart", "Put")

\* The row that was read is written back with the new time, also when it was removed since.
\* (The bound on the clock also bounds the restarts.)
restart_put(r) ==
    /\ at[r] = "Put"
    /\ now + Delay <= TimeMax
    /\ scheduled' = scheduled \cup {on[r]}
    /\ since' = [since EXCEPT ![on[r]] = now]
    /\ stale' = IF on[r] \in scheduled THEN stale ELSE stale \cup {on[r]}
    /\ Finish(r)
    /\ UNCHANGED <<finalized, memory, creating, now, crashes, sends, told,
                   left>>

-----------------------------------------------------------------------------
(* finalize_delayed_event *)

\* Mutant: the result of the removal from the set is not looked at.
finalize_claim_Unchecked(p) ==
    /\ at[p] = "Claim"
    /\ held' = held \ {on[p]}
    /\ Goto(p, IF action[p] = "Send" THEN "Append" ELSE "Cancel")
    /\ UNCHANGED <<tables, channel, queue, loaded, creating, now, crashes, history>>

\* The id is in the set, and is taken out,
finalize_claim(p) ==
    /\ at[p] = "Claim"
    /\ on[p] \in held
    /\ held' = held \ {on[p]}
    /\ Goto(p, IF action[p] = "Send" THEN "Append" ELSE "Cancel")
    /\ UNCHANGED <<tables, channel, queue, loaded, creating, now, crashes, history>>

\* or someone else has it: a request looks the outcome up. The worker does the same and
\* only logs the answer.
finalize_taken(p) ==
    /\ at[p] = "Claim"
    /\ on[p] \notin held
    /\ IF p = Worker THEN Finish(p) ELSE Goto(p, "Check")
    /\ UNCHANGED <<tables, memory, creating, now, crashes, history>>

\* The event is appended to the room.
append_pdu(p) ==
    /\ at[p] = "Append"
    /\ sends' = [sends EXCEPT ![on[p]] = IF @ = 0 THEN 1 ELSE 2]
    /\ Goto(p, "Sent")
    /\ UNCHANGED <<tables, memory, creating, now, crashes, told, left, stale>>

\* The helpers return an error. A request gives the id back and reports it,
Released(r) ==
    /\ held' = held \cup {on[r]}
    /\ left' = IF HasTimer(on[r]) THEN left ELSE left \cup {on[r]}
    /\ Finish(r)
    /\ UNCHANGED <<tables, channel, queue, loaded, creating, now, crashes, sends, told>>
\* while the worker records it.
Recorded(outcome) ==
    /\ finalized' = [finalized EXCEPT ![on[Worker]] = outcome]
    /\ Goto(Worker, "Remove")
    /\ UNCHANGED <<scheduled, since, memory, creating, now, crashes, sends, told, left>>

request_append_fails(r) == at[r] = "Append" /\ Released(r) /\ UNCHANGED stale
worker_append_fails == at[Worker] = "Append" /\ Recorded("Error") /\ UNCHANGED stale

\* The error may come after the event was appended: when its body cannot be read for admin
\* commands, or when it cannot be queued for the other servers.
request_fails_late(r) == at[r] = "Sent" /\ Released(r) /\ stale' = stale \cup {on[r]}
worker_fails_late == at[Worker] = "Sent" /\ Recorded("Error") /\ stale' = stale \cup {on[Worker]}

Record(p, place, outcome) ==
    /\ at[p] = place
    /\ finalized' = [finalized EXCEPT ![on[p]] = outcome]
    /\ Goto(p, "Remove")
    /\ UNCHANGED <<scheduled, since, memory, creating, now, crashes, history>>
record_sent(p) == Record(p, "Sent", "Send")

\* Mutant: the row of a cancelled event goes first.
record_cancelled_RowFirst(p) ==
    /\ at[p] = "Cancel"
    /\ scheduled' = scheduled \ {on[p]}
    /\ Goto(p, "Remove")
    /\ UNCHANGED <<since, finalized, memory, creating, now, crashes, history>>

record_cancelled(p) == Record(p, "Cancel", "Cancel")

\* Answers "done" to a request, which is remembered.
TellDone(p) ==
    told' = IF p = Worker THEN told ELSE [told EXCEPT ![on[p]] = action[p]]

\* The row goes last.
finalize_remove(p) ==
    /\ at[p] = "Remove"
    /\ scheduled' = scheduled \ {on[p]} /\ since' = [since EXCEPT ![on[p]] = 0]
    /\ TellDone(p)
    /\ Finish(p)
    /\ UNCHANGED <<finalized, memory, creating, now, crashes, sends, left, stale>>

\* Mutant: any recorded outcome will do.
check_matches_Any(r) ==
    /\ at[r] = "Check"
    /\ finalized[on[r]] # "None" /\ action[r] # "Restart"
    /\ TellDone(r)
    /\ Finish(r)
    /\ UNCHANGED <<tables, memory, creating, now, crashes, sends, left, stale>>

\* check_finalized_event_outcome: the record is there and says what was asked for,
check_matches(r) ==
    /\ at[r] = "Check"
    /\ finalized[on[r]] = action[r]
    /\ TellDone(r)
    /\ Finish(r)
    /\ UNCHANGED <<tables, memory, creating, now, crashes, sends, left, stale>>

\* or says otherwise, or is not there after a second look 200 ms later: an error.
check_fails(r) ==
    /\ at[r] = "Check"
    /\ finalized[on[r]] # action[r]
    /\ Finish(r)
    /\ UNCHANGED <<tables, memory, creating, now, crashes, history>>

\* The client is gone or the request takes too long: its handler is dropped at an await. An
\* id that it took out of the set is lost.
request_dropped(r) ==
    /\ at[r] \in {"Claim", "Check", "Append", "Sent"}
    /\ left' = IF at[r] \in {"Append", "Sent"} THEN left \cup {on[r]} ELSE left
    /\ Finish(r)
    /\ UNCHANGED <<tables, memory, creating, now, crashes, sends, told, stale>>

-----------------------------------------------------------------------------
(* The submission worker *)

\* The rows of the table get a timer each,
worker_load ==
    /\ at[Worker] = "Boot"
    /\ queue' = queue \cup {Timer(e, "Load") : e \in scheduled}
    /\ loaded' = scheduled
    /\ Goto(Worker, "Extend")
    /\ UNCHANGED <<tables, held, channel, creating, now, crashes, history>>

\* and then, once the set is locked, their ids are put there, also those finalised since.
worker_extend ==
    /\ at[Worker] = "Extend"
    /\ held' = held \cup loaded
    /\ stale' = stale \cup {e \in loaded \ held : Taken(e)}
    /\ left' = left \ loaded
    /\ loaded' = {}
    /\ Goto(Worker, "Loop")
    /\ UNCHANGED <<tables, channel, queue, creating, now, crashes, sends, told>>

DueTimer(t) == t \in queue /\ t.time <= now /\ \A u \in queue : t.time <= u.time

\* The select prefers a timer that is due.
worker_receive ==
    /\ at[Worker] = "Loop"
    /\ ~ \E t \in queue : DueTimer(t)
    /\ \E t \in channel : channel' = channel \ {t} /\ queue' = queue \cup {t}
    /\ UNCHANGED <<tables, held, loaded, procs, creating, now, crashes, history>>

\* send_event_if_ready: the row is gone,
submit_gone ==
    /\ at[Worker] = "Loop"
    /\ \E t \in queue : DueTimer(t) /\ t.id \notin scheduled /\ queue' = queue \ {t}
    /\ UNCHANGED <<tables, held, channel, loaded, procs, creating, now, crashes, history>>

\* Mutant: a restarted event is not queued again.
submit_later_Dropped ==
    /\ at[Worker] = "Loop"
    /\ \E t \in queue :
         /\ DueTimer(t) /\ t.id \in scheduled /\ SubmissionTime(t.id) > now
         /\ queue' = queue \ {t}
    /\ UNCHANGED <<tables, held, channel, loaded, procs, creating, now, crashes, history>>

\* or it was restarted and is queued again,
submit_later ==
    /\ at[Worker] = "Loop"
    /\ \E t \in queue :
         /\ DueTimer(t) /\ t.id \in scheduled /\ SubmissionTime(t.id) > now
         /\ queue' = (queue \ {t}) \cup {Timer(t.id, t.from)}
    /\ UNCHANGED <<tables, held, channel, loaded, procs, creating, now, crashes, history>>

\* or its time has come.
submit_ready ==
    /\ at[Worker] = "Loop"
    /\ \E t \in queue :
         /\ DueTimer(t) /\ t.id \in scheduled /\ SubmissionTime(t.id) <= now
         /\ queue' = queue \ {t}
         /\ at' = [at EXCEPT ![Worker] = "Claim"]
         /\ on' = [on EXCEPT ![Worker] = t.id]
    /\ UNCHANGED <<tables, held, channel, loaded, action, creating, now, crashes, history>>

-----------------------------------------------------------------------------
(* The rest *)

tick ==
    /\ now < TimeMax
    /\ now' = now + 1
    /\ UNCHANGED <<tables, memory, procs, creating, crashes, history>>

\* The server goes down, at any moment, and comes up with the tables.
crash ==
    /\ crashes < CrashMax
    /\ crashes' = crashes + 1
    /\ held' = {} /\ channel' = {} /\ queue' = {} /\ loaded' = {}
    /\ at' = [p \in Procs |-> IF p = Worker THEN "Boot" ELSE "Idle"]
    /\ on' = [p \in Procs |-> NoEvent] /\ action' = [p \in Procs |-> "Send"]
    /\ creating' = [e \in Events |-> IF creating[e] = "Put" THEN "Lost" ELSE creating[e]]
    /\ left' = {}
    /\ stale' = stale \cup {e \in scheduled : sends[e] > 0 \/ finalized[e] # "None"}
    /\ UNCHANGED <<tables, now, sends, told>>

Finalize(p) ==
    \/ finalize_claim(p) \/ finalize_taken(p) \/ append_pdu(p)
    \/ record_sent(p) \/ record_cancelled(p) \/ finalize_remove(p)
WorkerStep ==
    \/ worker_load \/ worker_extend \/ worker_receive
    \/ submit_gone \/ submit_later \/ submit_ready
    \/ Finalize(Worker) \/ worker_append_fails
RequestStep(r) ==
    Finalize(r) \/ request_append_fails(r) \/ restart_put(r) \/ check_matches(r) \/ check_fails(r)
Update(r, e) == update_finalized(r, e) \/ update_finalize(r, e) \/ update_restart(r, e)

Next ==
    \/ \E e \in Events : queue_put(e) \/ queue_insert(e) \/ queue_dropped(e)
    \/ \E r \in Requests : \/ \E e \in Events : Update(r, e)
                           \/ RequestStep(r) \/ request_fails_late(r) \/ request_dropped(r)
    \/ WorkerStep \/ worker_fails_late
    \/ tick \/ crash

Spec == Init /\ [][Next]_vars

\* The runtime polls the worker and the handlers, rooms get their lock in the end, and time
\* passes whatever the requests do.
FairSpec ==
    /\ Spec
    /\ WF_vars(WorkerStep) /\ \A r \in Requests : WF_vars(RequestStep(r))
    /\ WF_vars(tick)

-----------------------------------------------------------------------------
(* Properties *)

\* Every variable keeps its type, and a process has an event in hand exactly while it works.
TypeOK ==
    /\ scheduled \subseteq Events /\ since \in [Events -> 0..TimeMax]
    /\ finalized \in [Events -> Outcomes]
    /\ held \subseteq Events /\ loaded \subseteq Events
    /\ channel \subseteq Timers /\ queue \subseteq Timers
    /\ at \in [Procs -> {"Idle", "Boot", "Extend", "Loop", "Check", "Claim", "Put"} \cup Owning]
    /\ on \in [Procs -> Events \cup {NoEvent}]
    /\ action \in [Procs -> {"Send", "Cancel", "Restart"}]
    /\ creating \in [Events -> {"None", "Put", "Done", "Lost"}]
    /\ now \in 0..TimeMax /\ crashes \in 0..CrashMax
    /\ sends \in [Events -> 0..2]
    /\ told \in [Events -> Outcomes]
    /\ left \subseteq Events /\ stale \subseteq Events
    /\ \A p \in Procs : (on[p] # NoEvent) <=> (at[p] \notin {"Idle", "Boot", "Extend", "Loop"})

\* An event is appended to its room at most once, and only when its outcome says so, whoever
\* competes for it. Excepted are the events whose state came back: written again by a restart
\* request that read the row before it went, put back into the set by the worker's start (or by
\* the creating request when the worker came first), sent by a call that then failed, or left
\* in the table by a crash before the row was removed.
FinalizedOnce ==
    \A e \in Events \ stale :
        /\ sends[e] <= 1
        /\ finalized[e] = "Send" => sends[e] = 1
        /\ finalized[e] \in {"Cancel", "Error"} => sends[e] = 0

\* A request that is told its event was cancelled can rely on it: the event is not sent, then
\* or later; one that is told it was sent can rely on that. The same events are excepted.
OutcomeTold ==
    \A e \in Events \ stale :
        /\ told[e] # "None" => finalized[e] = told[e]
        /\ told[e] = "Cancel" => sends[e] = 0
        /\ told[e] = "Send" => sends[e] = 1

\* An event whose id was given out is in one of the tables at any moment, so neither a crash
\* nor a reader finds it in none.
NeverVanishes ==
    \A e \in Events : creating[e] = "Done" => e \in scheduled \/ finalized[e] # "None"

\* The timer of every event whose id was given out runs out and the event is finalised, by it
\* or before, over crashes and restarts; unless a request that took the id is dropped, or
\* fails when the timer has passed already.
EveryEventSettles ==
    \A e \in Events :
        creating[e] = "Done" ~> (finalized[e] # "None" \/ e \in left \/ e \in stale)
=============================================================================
