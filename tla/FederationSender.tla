-------------------------- MODULE FederationSender --------------------------
(***************************************************************************)
(* The outbound queue of one federation destination: the three tables, the *)
(* sender worker and its in-flight transactions, the producers, the        *)
(* administrator's abort, resume and clear, retries, crashes and restarts  *)
(* (service/sending/sender.rs, data.rs and mod.rs).                        *)
(*                                                                         *)
(* Everything the service keeps is keyed by destination, and a destination *)
(* is always handled by the same worker, so one destination is modelled.   *)
(* A row is a PDU, an ordinary EDU or a reliable (to-device) EDU; rows     *)
(* stand for their keys. A handler that awaits is split where another task *)
(* can run and change what it reads: `at` is the point the worker stands   *)
(* at. A section under the abort gate is one step. Whether a transaction   *)
(* carries EDUs selected by the cursor is a choice.                        *)
(***************************************************************************)
EXTENDS Naturals, FiniteSets, Sequences

CONSTANTS
    Pdus, Edus, ToDevice,  \* the rows that may be sent, by kind
    Unreadable,            \* PDUs whose JSON can no longer be read
    DequeueLimit,          \* DEQUEUE_LIMIT
    MaxAttempts,           \* sender_retry_max_attempts, 0 for no limit
    Netburst, Keep,        \* startup_netburst and startup_netburst_keep
    AckTimeout,            \* whether the worker can be too slow for the 30 s wait
    TriesMax,              \* bound on the failure count (a u32 in the code)
    PurgeMax,              \* bound on the clean-ups pending at the retry limit
    AbortBudget, ClearBudget, CrashBudget, FlushBudget  \* how often each happens

Rows == Pdus \cup Edus \cup ToDevice

ASSUME SenderAssumption ==
    /\ IsFiniteSet(Rows)
    /\ Pdus \cap Edus = {} /\ Pdus \cap ToDevice = {} /\ Edus \cap ToDevice = {}
    /\ Unreadable \subseteq Pdus
    /\ DequeueLimit \in Nat \ {0} /\ MaxAttempts \in 0..TriesMax /\ Keep \in Nat
    /\ Netburst \in BOOLEAN /\ AckTimeout \in BOOLEAN
    /\ TriesMax \in Nat \ {0} /\ PurgeMax \in Nat \ {0}
    /\ AbortBudget \in Nat /\ ClearBudget \in Nat /\ CrashBudget \in Nat /\ FlushBudget \in Nat

VARIABLES
    queued, active, reliable,  \* servernameevent, servercurrentevent, federation_outbound_to_device
    status, tries,             \* the worker's entry in `statuses`
    waiting,                   \* the backoff, or the 300 ms cooldown, of that entry still runs
    channel,                   \* the messages to the worker
    timers,                    \* flushes scheduled by reschedule_flush
    futures,                   \* the send futures
    at, msg_rows, rows, work_epoch,  \* where the worker stands, and its local variables
    open,                      \* the channel is open: the service was not interrupted
    aborted, epoch,            \* `aborted` and `abort_epochs`
    admin, acked,              \* the administrator's command, and the abort acknowledged last
    purge_active, purge_queued,  \* spawned delete_all_requests_for, by the table they are at
    dead,                      \* `dead_servers`
    produced, delivered, discarded, row_epoch,  \* history
    aborts, clears, crashes, flushes  \* how many of each are still to come

tables == <<queued, active, reliable>>
entry == <<status, tries, waiting>>
worker == <<at, msg_rows, rows, work_epoch>>
abort == <<aborted, epoch, admin, acked>>
purges == <<purge_active, purge_queued>>
budgets == <<aborts, clears, crashes, flushes>>
history == <<produced, delivered, discarded, row_epoch>>
vars == <<tables, entry, channel, timers, futures, worker, open, abort, purges, dead, history,
          budgets>>

Stored == queued \cup active \cup reliable

\* A message to the worker: a queued row, a flush (no row), or an abort to acknowledge.
Msg(some_rows, abort_ack) == [rows |-> some_rows, abort_ack |-> abort_ack]
FlushMsg == Msg({}, 0)

\* A send future. `id` tells apart the futures of the FuturesUnordered.
Phase == {"Built", "OnWire", "Processed", "Ok", "Err"}
FreshId == CHOOSE i \in 1..(Cardinality(futures) + 1) : \A f \in futures : f.id # i
Future(i, some_rows, edus, some_epoch, phase) ==
    [id |-> i, rows |-> some_rows, edus |-> edus, epoch |-> some_epoch, phase |-> phase]

Current(some_epoch) == ~aborted /\ epoch = some_epoch

\* Rows that leave every table in this step are discarded (or were delivered before).
Discarding == discarded' = discarded \cup (Stored \ Stored')

Init ==
    /\ queued = {} /\ active = {} /\ reliable = {}
    /\ status = "None" /\ tries = 0 /\ waiting = FALSE
    /\ channel = <<>> /\ timers = 0 /\ futures = {}
    /\ at = "Loop" /\ msg_rows = {} /\ rows = {} /\ work_epoch = 0
    /\ open = TRUE
    /\ aborted = FALSE /\ epoch = 0 /\ admin = "None" /\ acked = 0
    /\ purge_active = 0 /\ purge_queued = 0
    /\ dead = FALSE
    /\ produced = {} /\ delivered = {} /\ discarded = {}
    /\ row_epoch = [r \in Rows |-> 0]
    /\ aborts = AbortBudget /\ clears = ClearBudget
    /\ crashes = CrashBudget /\ flushes = FlushBudget

-----------------------------------------------------------------------------
(* Producers *)

\* Mutant: rows for an aborted destination are accepted.
Enqueue_Unfiltered(r) ==
    /\ r \notin produced
    /\ produced' = produced \cup {r}
    /\ row_epoch' = [row_epoch EXCEPT ![r] = epoch]
    /\ channel' = IF open THEN Append(channel, Msg({r}, 0)) ELSE channel
    /\ UNCHANGED <<active, entry, timers, futures, worker, open, abort, purges, dead,
                   delivered, discarded, budgets>>

\* A row is persisted and its message dispatched, both under the read side of the abort
\* gate; once the channel is closed the row is persisted only.
Enqueue(r) ==
    /\ r \notin produced
    /\ ~aborted
    /\ produced' = produced \cup {r}
    /\ row_epoch' = [row_epoch EXCEPT ![r] = epoch]
    /\ channel' = IF open THEN Append(channel, Msg({r}, 0)) ELSE channel
    /\ UNCHANGED <<active, entry, timers, futures, worker, open, abort, purges, dead,
                   delivered, discarded, budgets>>

send_pdu_servers ==
    \E r \in Pdus : Enqueue(r) /\ queued' = queued \cup {r} /\ UNCHANGED reliable

send_edu_server ==
    \E r \in Edus : ~dead /\ Enqueue(r) /\ queued' = queued \cup {r} /\ UNCHANGED reliable

send_edu_servers ==
    \E r \in Edus : Enqueue(r) /\ queued' = queued \cup {r} /\ UNCHANGED reliable

\* Mutant: a reliable EDU is stored with the ordinary rows.
send_reliable_edu_server_Ordinary ==
    \E r \in ToDevice : Enqueue(r) /\ queued' = queued \cup {r} /\ UNCHANGED reliable

send_reliable_edu_server ==
    \E r \in ToDevice : Enqueue(r) /\ reliable' = reliable \cup {r} /\ UNCHANGED queued

flush_servers ==
    /\ open /\ flushes > 0
    /\ flushes' = flushes - 1
    /\ channel' = Append(channel, FlushMsg)
    /\ UNCHANGED <<tables, entry, timers, futures, worker, open, abort, purges, dead, history,
                   aborts, clears, crashes>>

-----------------------------------------------------------------------------
(* The worker: a message *)

\* Where the worker goes on; its local variables are reset when it returns to the loop.
Goto(point, some_msg_rows, some_rows, some_epoch) ==
    /\ at' = point
    /\ msg_rows' = some_msg_rows /\ rows' = some_rows /\ work_epoch' = some_epoch
BackToLoop == Goto("Loop", {}, {}, 0)

SetEntry(to, n, wait) == status' = to /\ tries' = n /\ waiting' = wait
RemoveEntry == SetEntry("None", 0, FALSE)

Receive == at = "Loop" /\ open /\ channel # <<>> /\ channel' = Tail(channel)

\* Mutant: the abort is acknowledged and the entry stays.
handle_abort_ack_KeepsEntry ==
    /\ Receive
    /\ Head(channel).abort_ack # 0
    /\ acked' = Head(channel).abort_ack
    /\ UNCHANGED <<tables, entry, timers, futures, worker, open, aborted, epoch, admin, purges,
                   dead, history, budgets>>

handle_abort_ack ==
    /\ Receive
    /\ Head(channel).abort_ack # 0
    /\ acked' = Head(channel).abort_ack
    /\ RemoveEntry
    /\ UNCHANGED <<tables, timers, futures, worker, open, aborted, epoch, admin, purges, dead,
                   history, budgets>>

\* The destination is aborted: the message's own row is deleted from every table.
handle_request_aborted ==
    /\ Receive
    /\ Head(channel).abort_ack = 0
    /\ aborted
    /\ RemoveEntry
    /\ queued' = queued \ Head(channel).rows
    /\ active' = active \ Head(channel).rows
    /\ reliable' = reliable \ Head(channel).rows
    /\ Discarding
    /\ UNCHANGED <<timers, futures, worker, open, abort, purges, dead, produced, delivered,
                   row_epoch, budgets>>

\* The abort generation is captured before the queue is read.
handle_request ==
    /\ Receive
    /\ Head(channel).abort_ack = 0
    /\ ~aborted
    /\ Goto("Select", Head(channel).rows, {}, epoch)
    /\ UNCHANGED <<tables, entry, timers, futures, open, abort, purges, dead, history, budgets>>

\* At most `limit` rows of a table, in the order of its keys: any of them.
Take(table, limit) ==
    {batch \in SUBSET table :
        Cardinality(batch) = IF Cardinality(table) < limit THEN Cardinality(table) ELSE limit}

\* Up to DEQUEUE_LIMIT ordinary rows, then reliable ones in the room that is left.
Batches ==
    {batch \in SUBSET (queued \cup reliable) :
        /\ batch \cap queued \in Take(queued, DequeueLimit)
        /\ batch \cap reliable \in
              Take(reliable, DequeueLimit - Cardinality(batch \cap queued))}

\* The rows a message brings: its own, or for a flush the head of the queue.
Selection == IF msg_rows # {} THEN {msg_rows} ELSE Batches

HasPdu(some_rows) == some_rows \cap Pdus # {}

\* select_events_current refuses: already running, backing off or cooling down. Only the
\* backoff schedules another flush.
select_refused ==
    /\ at = "Select"
    /\ \E batch \in Selection :
         \/ status \in {"Running", "Retrying"} /\ UNCHANGED timers
         \/ status = "Failed" /\ waiting /\ timers' = timers + 1
         \/ status = "Cooldown" /\ waiting /\ ~HasPdu(batch) /\ UNCHANGED timers
    /\ BackToLoop
    /\ UNCHANGED <<tables, entry, channel, futures, open, abort, purges, dead, history, budgets>>

\* After a failure the previous transaction is sent again, as long as it has rows.
select_retry ==
    /\ at = "Select"
    /\ status = "Failed" /\ ~waiting
    /\ active # {}
    /\ SetEntry("Retrying", tries, FALSE)
    /\ Goto("LaunchRetry", msg_rows, active, work_epoch)
    /\ UNCHANGED <<tables, channel, timers, futures, open, abort, purges, dead, history, budgets>>

\* Mutant: a transaction is composed while another one runs.
select_compose_WhileRunning ==
    /\ at = "Select"
    /\ ~waiting
    /\ \E batch \in Selection :
         Goto(IF batch = {} THEN "Launch" ELSE "Activate", msg_rows, batch, work_epoch)
    /\ SetEntry("Running", 0, FALSE)
    /\ UNCHANGED <<tables, channel, timers, futures, open, abort, purges, dead, history, budgets>>

\* A new transaction is composed; an empty batch still collects EDUs.
select_compose ==
    /\ at = "Select"
    /\ \E batch \in Selection :
         /\ \/ status = "None" /\ SetEntry("Running", 0, FALSE)
            \/ status = "Cooldown" /\ (HasPdu(batch) \/ ~waiting) /\ SetEntry("Running", 0, FALSE)
            \/ status = "Failed" /\ ~waiting /\ active = {} /\ SetEntry("Retrying", tries, FALSE)
         /\ Goto(IF batch = {} THEN "Launch" ELSE "Activate", msg_rows, batch, work_epoch)
    /\ UNCHANGED <<tables, channel, timers, futures, open, abort, purges, dead, history, budgets>>

\* Mutant: reliable rows are moved like ordinary ones.
mark_as_active_Moves(batch) ==
    /\ active' = active \cup batch
    /\ queued' = queued \ batch
    /\ reliable' = reliable \ batch

\* mark_as_active: the reliable source rows stay.
mark_as_active(batch) ==
    /\ active' = active \cup batch
    /\ queued' = queued \ batch
    /\ UNCHANGED reliable

\* The batch becomes active only in the abort generation it was selected under; otherwise
\* the handler gives up and leaves the entry as it is.
mark_as_active_if_current ==
    /\ at = "Activate"
    /\ IF Current(work_epoch)
       THEN mark_as_active(rows) /\ Goto("Launch", msg_rows, rows, work_epoch)
       ELSE UNCHANGED tables /\ BackToLoop
    /\ UNCHANGED <<entry, channel, timers, futures, open, abort, purges, dead, history, budgets>>

Push(some_rows, edus, some_epoch) ==
    futures' = futures \cup {Future(FreshId, some_rows, edus, some_epoch, "Built")}

\* The end of handle_request: the transaction starts unless an abort landed meanwhile or
\* nothing was selected.
launch ==
    /\ at \in {"Launch", "LaunchRetry"}
    /\ \E edus \in IF at = "Launch" THEN BOOLEAN ELSE {FALSE} :
         IF Current(work_epoch) /\ (rows # {} \/ edus)
         THEN Push(rows, edus, work_epoch) /\ UNCHANGED entry
         ELSE RemoveEntry /\ UNCHANGED futures
    /\ BackToLoop
    /\ UNCHANGED <<tables, channel, timers, open, abort, purges, dead, history, budgets>>

-----------------------------------------------------------------------------
(* The send futures: they advance only while the worker polls them *)

Polled == at \in {"Loop", "Drain"}
Become(f, phase) ==
    futures' = (futures \ {f}) \cup {Future(f.id, f.rows, f.edus, f.epoch, phase)}

\* send_events: a stale future ends as if it had succeeded, and so does one with no content.
send_events(f) ==
    LET content == f.rows \ Unreadable # {} \/ f.edus
        sent == Current(f.epoch) /\ content
    IN  /\ Polled
        /\ f.phase = "Built"
        /\ Become(f, IF sent THEN "OnWire" ELSE "Ok")
        /\ discarded' = IF Current(f.epoch) THEN discarded \cup (f.rows \cap Unreadable)
                        ELSE discarded
        /\ UNCHANGED <<tables, entry, channel, timers, worker, open, abort, purges, dead,
                       produced, delivered, row_epoch, budgets>>

\* The remote server processes the transaction.
remote_processes(f) ==
    /\ f.phase = "OnWire"
    /\ Become(f, "Processed")
    /\ delivered' = delivered \cup (f.rows \ Unreadable)
    /\ UNCHANGED <<tables, entry, channel, timers, worker, open, abort, purges, dead,
                   produced, discarded, row_epoch, budgets>>

\* The request fails, or its response is lost.
request_fails(f) ==
    /\ Polled
    /\ f.phase \in {"OnWire", "Processed"}
    /\ Become(f, "Err")
    /\ UNCHANGED <<tables, entry, channel, timers, worker, open, abort, purges, dead, history,
                   budgets>>

request_succeeds(f) ==
    /\ Polled
    /\ f.phase = "Processed"
    /\ Become(f, "Ok")
    /\ UNCHANGED <<tables, entry, channel, timers, worker, open, abort, purges, dead, history,
                   budgets>>

\* The abort notification drops a request on the wire, which then ends as if it succeeded.
request_cancelled(f) ==
    /\ Polled
    /\ f.phase \in {"OnWire", "Processed"}
    /\ ~Current(f.epoch)
    /\ Become(f, "Ok")
    /\ UNCHANGED <<tables, entry, channel, timers, worker, open, abort, purges, dead, history,
                   budgets>>

-----------------------------------------------------------------------------
(* The worker: a result *)

\* handle_response first compares generations: a stale result changes nothing.
handle_response ==
    /\ at = "Loop" /\ open
    /\ \E f \in futures :
         /\ f.phase \in {"Ok", "Err"}
         /\ futures' = futures \ {f}
         /\ IF f.epoch # epoch THEN BackToLoop
            ELSE Goto(IF f.phase = "Ok" THEN "SettleOk" ELSE "SettleErr", {}, {}, f.epoch)
    /\ UNCHANGED <<tables, entry, channel, timers, open, abort, purges, dead, history, budgets>>

handle_response_aborted ==
    /\ at \in {"SettleOk", "SettleErr"}
    /\ aborted
    /\ RemoveEntry
    /\ active' = {} /\ UNCHANGED <<queued, reliable>>
    /\ Discarding
    /\ BackToLoop
    /\ UNCHANGED <<channel, timers, futures, open, abort, purges, dead,
                   produced, delivered, row_epoch, budgets>>

\* The failures in a row after one more; an entry that is gone counts one.
FailuresNow ==
    IF status \in {"Retrying", "Failed"} THEN IF tries < TriesMax THEN tries + 1 ELSE tries
    ELSE 1
LimitReached == MaxAttempts > 0 /\ FailuresNow >= MaxAttempts

\* Mutant: no flush is scheduled for the end of the backoff.
handle_response_err_NoFlush ==
    /\ at = "SettleErr"
    /\ ~aborted
    /\ ~LimitReached
    /\ IF status = "None" THEN UNCHANGED entry ELSE SetEntry("Failed", FailuresNow, TRUE)
    /\ BackToLoop
    /\ UNCHANGED <<tables, channel, timers, futures, open, abort, purges, dead, history, budgets>>

\* Mutant: a failed transaction gives its active rows up.
handle_response_err_Deletes ==
    /\ at = "SettleErr"
    /\ ~aborted
    /\ ~LimitReached
    /\ IF status = "None" THEN UNCHANGED entry ELSE SetEntry("Failed", FailuresNow, TRUE)
    /\ timers' = timers + 1
    /\ active' = {} /\ UNCHANGED <<queued, reliable>>
    /\ BackToLoop
    /\ UNCHANGED <<channel, futures, open, abort, purges, dead, history, budgets>>

handle_response_err ==
    /\ at = "SettleErr"
    /\ ~aborted
    /\ ~LimitReached
    /\ IF status = "None" THEN UNCHANGED entry ELSE SetEntry("Failed", FailuresNow, TRUE)
    /\ timers' = timers + 1
    /\ BackToLoop
    /\ UNCHANGED <<tables, channel, futures, open, abort, purges, dead, history, budgets>>

\* At the retry limit the ordinary rows are given up; a task of its own drops them, and no
\* flush is scheduled.
handle_response_give_up ==
    /\ at = "SettleErr"
    /\ ~aborted
    /\ LimitReached
    /\ purge_active + purge_queued < PurgeMax
    /\ dead' = TRUE
    /\ purge_active' = purge_active + 1
    /\ discarded' = discarded \cup ((queued \cup active) \ ToDevice)
    /\ RemoveEntry
    /\ BackToLoop
    /\ UNCHANGED <<tables, channel, timers, futures, open, abort, purge_queued,
                   produced, delivered, row_epoch, budgets>>

\* The spawned delete_all_requests_for: first the active table, then the queued one.
delete_all_active_spawned ==
    /\ purge_active > 0
    /\ purge_active' = purge_active - 1
    /\ purge_queued' = purge_queued + 1
    /\ active' = {} /\ UNCHANGED <<queued, reliable>>
    /\ Discarding
    /\ UNCHANGED <<entry, channel, timers, futures, worker, open, abort, dead,
                   produced, delivered, row_epoch, budgets>>

delete_all_queued_spawned ==
    /\ purge_queued > 0
    /\ purge_queued' = purge_queued - 1
    /\ queued' = {} /\ UNCHANGED <<active, reliable>>
    /\ Discarding
    /\ UNCHANGED <<entry, channel, timers, futures, worker, open, abort,
                   purge_active, dead, produced, delivered, row_epoch, budgets>>

\* Success: the source rows of whatever is active go first, then the active rows.
delete_reliable_requests_for_active ==
    /\ at = "SettleOk"
    /\ ~aborted
    /\ dead' = FALSE
    /\ reliable' = reliable \ active
    /\ Goto("CleanActive", {}, {}, work_epoch)
    /\ UNCHANGED <<queued, active, entry, channel, timers, futures, open, abort, purges, history,
                   budgets>>

delete_all_active_requests_for ==
    /\ at = "CleanActive"
    /\ active' = {}
    /\ Goto("Refill", {}, {}, work_epoch)
    /\ UNCHANGED <<queued, reliable, entry, channel, timers, futures, open, abort, purges, dead,
                   history, budgets>>

\* PDUs are sent at once, EDUs alone after a cooldown, and an empty queue ends the entry,
\* with a flush when the EDU cursor is behind.
handle_response_ok ==
    /\ at = "Refill"
    /\ \E batch \in Batches :
         \/ /\ HasPdu(batch)
            /\ Goto("ActivateNext", {}, batch, work_epoch)
            /\ UNCHANGED <<entry, timers>>
         \/ /\ batch = {}
            /\ RemoveEntry
            /\ timers' \in {timers, timers + 1}
            /\ BackToLoop
         \/ /\ batch # {} /\ ~HasPdu(batch)
            /\ SetEntry("Cooldown", 0, TRUE)
            /\ timers' = timers + 1
            /\ BackToLoop
    /\ UNCHANGED <<tables, channel, futures, open, abort, purges, dead, history, budgets>>

send_next ==
    /\ at = "ActivateNext"
    /\ IF Current(work_epoch)
       THEN /\ mark_as_active(rows)
            /\ SetEntry("Running", 0, FALSE)
            /\ Push(rows, FALSE, work_epoch)
       ELSE RemoveEntry /\ UNCHANGED <<tables, futures>>
    /\ BackToLoop
    /\ UNCHANGED <<channel, timers, open, abort, purges, dead, history, budgets>>

-----------------------------------------------------------------------------
(* Time *)

backoff_served ==
    /\ waiting
    /\ waiting' = FALSE
    /\ UNCHANGED <<tables, status, tries, channel, timers, futures, worker, open, abort, purges,
                   dead, history, budgets>>

\* A scheduled flush. The one scheduled with a backoff or a cooldown is not early for it.
reschedule_flush ==
    /\ timers > IF waiting THEN 1 ELSE 0
    /\ timers' = timers - 1
    /\ channel' = IF open THEN Append(channel, FlushMsg) ELSE channel
    /\ UNCHANGED <<tables, entry, futures, worker, open, abort, purges, dead, history, budgets>>

-----------------------------------------------------------------------------
(* The administrator *)

abort_destination ==
    /\ admin = "None"
    /\ aborts > 0
    /\ aborts' = aborts - 1
    /\ aborted' = TRUE
    /\ epoch' = epoch + 1
    /\ admin' = "Flagged"
    /\ UNCHANGED <<tables, entry, channel, timers, futures, worker, open, acked, purges, dead,
                   history, clears, crashes, flushes>>

abort_notifies_worker ==
    /\ admin = "Flagged"
    /\ IF open
       THEN channel' = Append(channel, Msg({}, epoch)) /\ admin' = "Waiting"
       ELSE UNCHANGED channel /\ admin' = "Clear"
    /\ UNCHANGED <<tables, entry, timers, futures, worker, open, aborted, epoch, acked, purges,
                   dead, history, budgets>>

\* Mutant: the abort does not wait for the worker.
abort_acknowledged_NoWait ==
    /\ admin = "Waiting"
    /\ admin' = "Clear"
    /\ UNCHANGED <<tables, entry, channel, timers, futures, worker, open, aborted, epoch, acked,
                   purges, dead, history, budgets>>

\* The worker acknowledged, or the 30 seconds are over: the wait has no other effect.
abort_acknowledged ==
    /\ admin = "Waiting"
    /\ acked = epoch \/ AckTimeout \/ ~open
    /\ admin' = "Clear"
    /\ UNCHANGED <<tables, entry, channel, timers, futures, worker, open, aborted, epoch, acked,
                   purges, dead, history, budgets>>

\* An administrator clears the queue of a destination without aborting it.
clear_destination_queue ==
    /\ admin = "None"
    /\ clears > 0
    /\ clears' = clears - 1
    /\ admin' = "Clear"
    /\ UNCHANGED <<tables, entry, channel, timers, futures, worker, open, aborted, epoch, acked,
                   purges, dead, history, aborts, crashes, flushes>>

\* The tables are cleared one after the other; the active one first and again at the end.
ClearStep(from, to) ==
    /\ admin = from
    /\ admin' = to
    /\ discarded' = discarded \cup UNION {queued \ queued', active \ active', reliable \ reliable'}
    /\ UNCHANGED <<entry, channel, timers, futures, worker, open, aborted, epoch, acked, purges,
                   dead, produced, delivered, row_epoch, budgets>>

clear_tables ==
    \/ active' = {} /\ UNCHANGED <<queued, reliable>> /\ ClearStep("Clear", "ClearQueued")
    \/ queued' = {} /\ UNCHANGED <<active, reliable>> /\ ClearStep("ClearQueued", "ClearReliable")
    \/ reliable' = {} /\ UNCHANGED <<queued, active>> /\ ClearStep("ClearReliable", "ClearAgain")
    \/ active' = {} /\ UNCHANGED <<queued, reliable>> /\ ClearStep("ClearAgain", "None")

resume_destination ==
    /\ admin = "None"
    /\ aborted
    /\ aborted' = FALSE
    /\ UNCHANGED <<tables, entry, channel, timers, futures, worker, open, epoch, admin, acked,
                   purges, dead, history, budgets>>

-----------------------------------------------------------------------------
(* Shutdown, crash and restart *)

\* The channel is closed; the worker leaves its loop and waits for the futures.
interrupt ==
    /\ open /\ crashes > 0
    /\ crashes' = crashes - 1
    /\ open' = FALSE
    /\ UNCHANGED <<tables, entry, channel, timers, futures, worker, abort, purges, dead, history,
                   aborts, clears, flushes>>

leave_work_loop ==
    /\ at = "Loop" /\ ~open
    /\ at' = "Drain"
    /\ UNCHANGED <<tables, entry, channel, timers, futures, msg_rows, rows, work_epoch, open,
                   abort, purges, dead, history, budgets>>

\* Only a current success is applied; it deletes the source rows and then the active rows.
finish_response ==
    /\ at = "Drain"
    /\ \E f \in futures :
         /\ f.phase \in {"Ok", "Err"}
         /\ futures' = futures \ {f}
         /\ IF f.phase = "Ok" /\ f.epoch = epoch
            THEN reliable' = reliable \ active /\ at' = "DrainActive"
            ELSE UNCHANGED <<reliable, at>>
    /\ UNCHANGED <<queued, active, entry, channel, timers, msg_rows, rows, work_epoch, open,
                   abort, purges, dead, history, budgets>>

finish_response_active ==
    /\ at = "DrainActive"
    /\ active' = {}
    /\ at' = "Drain"
    /\ UNCHANGED <<queued, reliable, entry, channel, timers, futures, msg_rows, rows, work_epoch,
                   open, abort, purges, dead, history, budgets>>

\* Everything in memory is gone; a request on the wire may have been processed before.
LoseMemory ==
    /\ SetEntry("None", 0, FALSE)
    /\ channel' = <<>> /\ timers' = 0 /\ futures' = {}
    /\ Goto("Boot", {}, {}, 0)
    /\ open' = TRUE
    /\ aborted' = FALSE /\ epoch' = 0 /\ admin' = "None" /\ acked' = 0
    /\ purge_active' = 0 /\ purge_queued' = 0
    /\ dead' = FALSE
    /\ row_epoch' = [r \in Rows |-> 0]
    /\ UNCHANGED <<tables, produced, delivered, discarded>>

\* The process ends, when the futures are done or the shutdown timeout is over.
restart == at = "Drain" /\ LoseMemory /\ UNCHANGED budgets

crash ==
    /\ crashes > 0
    /\ crashes' = crashes - 1
    /\ LoseMemory
    /\ UNCHANGED <<aborts, clears, flushes>>

\* Mutant: at startup queued destinations are not flushed.
startup_netburst_ActiveOnly ==
    /\ at = "Boot"
    /\ \E kept \in Take(active, Keep) :
         /\ active' = kept /\ UNCHANGED <<queued, reliable>>
         /\ IF Netburst /\ kept # {}
            THEN Push(kept, FALSE, epoch) /\ SetEntry("Running", 0, FALSE)
            ELSE UNCHANGED <<futures, entry>>
    /\ Discarding
    /\ BackToLoop
    /\ UNCHANGED <<channel, timers, open, abort, purges, dead, produced, delivered, row_epoch,
                   budgets>>

\* Active rows beyond `Keep` are dropped; with the burst on, the others are sent again
\* under the generation of the moment and a destination with queued rows is flushed.
startup_netburst ==
    /\ at = "Boot"
    /\ \E kept \in Take(active, Keep) :
         /\ active' = kept /\ UNCHANGED <<queued, reliable>>
         /\ IF Netburst /\ kept # {}
            THEN Push(kept, FALSE, epoch) /\ SetEntry("Running", 0, FALSE)
            ELSE UNCHANGED <<futures, entry>>
    /\ channel' = IF Netburst /\ queued \cup reliable # {} THEN Append(channel, FlushMsg)
                  ELSE channel
    /\ Discarding
    /\ BackToLoop
    /\ UNCHANGED <<timers, open, abort, purges, dead, produced, delivered, row_epoch, budgets>>

-----------------------------------------------------------------------------
(* The specification *)

Produce ==
    \/ send_pdu_servers \/ send_edu_server \/ send_edu_servers \/ send_reliable_edu_server
    \/ flush_servers

WorkerStep ==
    \/ handle_abort_ack \/ handle_request_aborted \/ handle_request
    \/ select_refused \/ select_retry \/ select_compose
    \/ mark_as_active_if_current \/ launch
    \/ handle_response \/ handle_response_aborted
    \/ handle_response_err \/ handle_response_give_up
    \/ delete_reliable_requests_for_active \/ delete_all_active_requests_for
    \/ handle_response_ok \/ send_next
    \/ leave_work_loop \/ finish_response \/ finish_response_active
    \/ startup_netburst

FutureStep ==
    \E f \in futures :
        \/ send_events(f)
        \/ remote_processes(f)
        \/ request_fails(f)
        \/ request_succeeds(f)
        \/ request_cancelled(f)

AdminCommand == abort_destination \/ clear_destination_queue \/ resume_destination
AdminStep == abort_notifies_worker \/ abort_acknowledged \/ clear_tables

PurgeStep == delete_all_active_spawned \/ delete_all_queued_spawned

Next ==
    \/ Produce
    \/ WorkerStep
    \/ FutureStep
    \/ AdminCommand \/ AdminStep
    \/ PurgeStep
    \/ backoff_served \/ reschedule_flush
    \/ interrupt \/ restart \/ crash

Spec == Init /\ [][Next]_vars

\* The worker's select is unbiased, so neither messages nor results starve, and a future it
\* polls is polled again; timers fire; and a remote server that is asked again and again
\* processes a request and answers it in the end.
ReceiveStep == handle_abort_ack \/ handle_request_aborted \/ handle_request
Fairness ==
    /\ WF_vars(WorkerStep) /\ SF_vars(ReceiveStep) /\ SF_vars(handle_response)
    /\ SF_vars(\E f \in futures : send_events(f))
    /\ SF_vars(\E f \in futures : f.epoch = epoch /\ remote_processes(f))
    /\ SF_vars(\E f \in futures : f.epoch = epoch /\ request_succeeds(f))
    /\ WF_vars(AdminStep) /\ WF_vars(PurgeStep)
    /\ WF_vars(backoff_served) /\ WF_vars(reschedule_flush)
    /\ WF_vars(restart)

FairSpec == Spec /\ Fairness

-----------------------------------------------------------------------------
(* Properties *)

\* Every variable keeps its type: the rows are in the table of their kind, the worker's
\* locals are empty in the loop, and the futures are records with distinct numbers.
TypeOK ==
    /\ queued \subseteq Pdus \cup Edus /\ active \subseteq Rows /\ reliable \subseteq ToDevice
    /\ status \in {"None", "Running", "Retrying", "Failed", "Cooldown"}
    /\ tries \in 0..TriesMax /\ waiting \in BOOLEAN /\ timers \in Nat
    /\ \A i \in DOMAIN channel :
         channel[i].rows \subseteq Rows /\ channel[i].abort_ack \in 0..AbortBudget
    /\ \A f \in futures :
         f.rows \subseteq Rows /\ f.phase \in Phase /\ f.epoch \in 0..epoch
    /\ \A f, g \in futures : f.id = g.id => f = g
    /\ at \in {"Loop", "Boot", "Drain", "DrainActive"} =>
         msg_rows = {} /\ rows = {} /\ work_epoch = 0
    /\ produced \subseteq Rows /\ delivered \subseteq produced /\ discarded \subseteq produced

InFlight == {f \in futures : f.epoch = epoch}
AbortAckPending == \E i \in DOMAIN channel : channel[i].abort_ack # 0

\* A destination that the worker counts as busy is never busy for nothing: its transaction
\* of the present generation is in flight, the worker is in the middle of a handler, or an
\* abort that will remove the entry is on its way. Otherwise every later message is refused
\* ("already running") and the destination is never sent to again.
BusyIsBacked ==
    status \in {"Running", "Retrying"} /\ open =>
        \/ InFlight # {}
        \/ at # "Loop"
        \/ admin = "Flagged" \/ AbortAckPending

\* A destination that waits for its backoff or cooldown has a flush scheduled or queued that
\* comes after it; otherwise its rows wait for unrelated traffic.
WaitingIsWoken ==
    status \in {"Failed", "Cooldown"} /\ open =>
        timers > 0 \/ channel # <<>> \/ at # "Loop"

\* At most one transaction of the present generation is in flight to a destination.
OneTransaction == Cardinality(InFlight) <= 1

\* A reliable EDU stays in its own table "until successful delivery or explicit clear".
ReliableKept == produced \cap ToDevice \subseteq reliable \cup delivered \cup discarded

\* Once an abort is complete the tables hold nothing for the destination, whatever producers
\* and the worker were doing when it came.
AbortLeavesNothing == aborted /\ admin = "None" => Stored = {}

\* What is on the wire under the present generation was queued in it: work from before an
\* abort does not start after the resume.
OldWorkStaysDead ==
    \A f \in InFlight :
        f.phase = "OnWire" => \A r \in f.rows : row_epoch[r] = epoch

\* Every row that is stored is processed by the remote server in the end, or dropped: no
\* refused message, failure, abort or restart leaves it waiting for unrelated traffic.
EveryRowSettles == \A r \in Rows : r \in Stored ~> r \in delivered \cup discarded

\* The sender implements the at-least-once queue of Outbox, with the three tables together
\* as its pending rows: each step of the worker, the administrator, a spawned clean-up or a
\* restart takes a row away only when it was processed or dropped.
AtLeastOnce == INSTANCE Outbox WITH accepted <- produced, pending <- Stored, dropped <- discarded
ImplementsOutbox == AtLeastOnce!Spec

=============================================================================
