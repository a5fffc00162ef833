----------------------- MODULE FederationSenderProofs -----------------------
(***************************************************************************)
(* The federation sender, for any rows, limits and numbers of aborts,      *)
(* clears, crashes and flushes: type correctness, and that a destination   *)
(* is never busy or waiting for nothing.                                   *)
(*                                                                         *)
(* Sound holds of each group of variables; Backed and Woken say who stands *)
(* behind a busy or a waiting entry at every point of the worker. A lemma  *)
(* for each group names the steps that touch it, so that a proof looks at  *)
(* those alone.                                                            *)
(***************************************************************************)
EXTENDS FederationSender, FiniteSetTheorems, TLAPS

Busy == {"Running", "Retrying"}
Selecting == {"Select", "Activate", "Launch", "LaunchRetry"}
Settling == {"SettleOk", "SettleErr", "CleanActive", "Refill", "ActivateNext"}
Idle == {"Loop", "Boot", "Drain", "DrainActive"}
Command == {"None", "Flagged", "Waiting", "Clear", "ClearQueued", "ClearReliable", "ClearAgain"}
Message == [rows : SUBSET Rows, abort_ack : Nat]

\* What holds of each group of variables: the tables and the history of the rows ...
TablesOK ==
    /\ queued \subseteq Pdus \cup Edus /\ active \subseteq Rows /\ reliable \subseteq ToDevice
    /\ produced \subseteq Rows
    /\ Stored \subseteq produced /\ delivered \subseteq produced /\ discarded \subseteq produced

\* ... the worker's entry for the destination and the flushes scheduled ...
EntryOK ==
    /\ status \in Busy \cup {"None", "Failed", "Cooldown"}
    /\ tries \in 0..TriesMax /\ timers \in Nat

\* ... the abort: generations grow until a restart, and a flagged abort has raised it ...
AbortOK ==
    /\ epoch \in Nat /\ aborts \in Nat /\ epoch + aborts <= AbortBudget
    /\ acked \in Nat /\ acked <= epoch
    /\ admin \in Command /\ (admin = "Flagged" => epoch > 0)

\* ... the messages, which name rows that were produced and no later generation ...
ChannelOK ==
    /\ channel \in Seq(Message)
    /\ \A i \in DOMAIN channel :
         channel[i].rows \subseteq produced /\ channel[i].abort_ack <= epoch

\* ... the futures, likewise ...
FuturesOK ==
    \A f \in futures : f.rows \subseteq produced /\ f.phase \in Phase /\ f.epoch \in 0..epoch

\* ... and the worker's locals, which are empty in the loop.
WorkerOK ==
    /\ at \in Selecting \cup Settling \cup Idle
    /\ msg_rows \subseteq produced /\ rows \subseteq produced
    /\ work_epoch \in Nat /\ work_epoch <= epoch
    /\ at \in Idle => msg_rows = {} /\ rows = {} /\ work_epoch = 0

Sound == TablesOK /\ EntryOK /\ AbortOK /\ ChannelOK /\ FuturesOK /\ WorkerOK

-----------------------------------------------------------------------------
(* The channel and the futures *)

\* The effect of putting a message into the channel (dispatch).
LEMMA Appended ==
    ASSUME channel \in Seq(Message), NEW m \in Message, channel' = Append(channel, m)
    PROVE  /\ channel' \in Seq(Message) /\ channel' # <<>> /\ Len(channel) \in Nat
           /\ DOMAIN channel = 1..Len(channel) /\ DOMAIN channel' = 1..(Len(channel) + 1)
           /\ \A i \in 1..Len(channel) : channel'[i] = channel[i]
           /\ channel'[Len(channel) + 1] = m
OBVIOUS

\* The effect of taking one from it (recv).
LEMMA Received ==
    ASSUME channel \in Seq(Message), Receive
    PROVE  /\ channel' \in Seq(Message) /\ Head(channel) = channel[1] /\ channel[1] \in Message
           /\ Len(channel) \in Nat \ {0} /\ 1 \in DOMAIN channel
           /\ DOMAIN channel = 1..Len(channel) /\ DOMAIN channel' = 1..(Len(channel) - 1)
           /\ \A i \in DOMAIN channel' : channel'[i] = channel[i + 1]
BY DEF Receive

\* The message a row brings with it, and a flush, are messages.
LEMMA MessageTypes ==
    ASSUME NEW some_rows \in SUBSET Rows, NEW n \in Nat
    PROVE  /\ Msg(some_rows, n) \in Message /\ FlushMsg \in Message
           /\ Msg(some_rows, n).abort_ack = n /\ Msg(some_rows, n).rows = some_rows
           /\ FlushMsg.abort_ack = 0 /\ FlushMsg.rows = {}
BY DEF Msg, FlushMsg, Message

\* What the assumption on the constants says of the failure count and of the kinds of rows.
LEMMA ConstantTypes ==
    /\ TriesMax \in Nat /\ 0 \in 0..TriesMax /\ 1 \in 0..TriesMax
    /\ \A n \in 0..TriesMax : n < TriesMax => n + 1 \in 0..TriesMax
    /\ AbortBudget \in Nat /\ CrashBudget \in Nat
    /\ Pdus \subseteq Rows /\ Edus \subseteq Rows /\ ToDevice \subseteq Rows
    /\ Rows \ ToDevice \subseteq Pdus \cup Edus
<1>1. TriesMax \in Nat \ {0} /\ AbortBudget \in Nat /\ CrashBudget \in Nat
  BY SenderAssumption
<1>2. QED
  BY <1>1 DEF Rows

-----------------------------------------------------------------------------
(* What the steps have in common *)

Sends == send_pdu_servers \/ send_edu_server \/ send_edu_servers \/ send_reliable_edu_server

\* Every producer stores a row that is new in the table of its kind.
LEMMA SendsEnqueue ==
    ASSUME Sends
    PROVE  \E r \in Rows :
             /\ Enqueue(r)
             /\ \/ r \in Pdus \cup Edus /\ queued' = queued \cup {r} /\ reliable' = reliable
                \/ r \in ToDevice /\ reliable' = reliable \cup {r} /\ queued' = queued
BY DEF Sends, send_pdu_servers, send_edu_server, send_edu_servers, send_reliable_edu_server, Rows

\* A step of a future replaces it by one that differs in its phase only; its rows are what
\* may be delivered or discarded.
LEMMA FutureSteps ==
    ASSUME FutureStep
    PROVE  \E f \in futures, phase \in Phase :
             /\ Become(f, phase)
             /\ delivered' \subseteq delivered \cup f.rows
             /\ discarded' \subseteq discarded \cup f.rows
             /\ UNCHANGED <<tables, entry, channel, timers, worker, open, abort, purges, dead,
                            produced, row_epoch, budgets>>
BY DEF FutureStep, send_events, remote_processes, request_fails, request_succeeds,
       request_cancelled, Phase, history, tables, entry, worker, abort, purges, budgets

\* A process that starts again has the tables and nothing else.
LEMMA StartsAgain ==
    ASSUME restart \/ crash
    PROVE  /\ status' = "None" /\ tries' = 0 /\ timers' = 0
           /\ channel' = <<>> /\ futures' = {} /\ at' = "Boot"
           /\ msg_rows' = {} /\ rows' = {} /\ work_epoch' = 0
           /\ epoch' = 0 /\ admin' = "None" /\ acked' = 0
           /\ UNCHANGED <<queued, active, reliable, produced, delivered, discarded, aborts>>
BY Zenon DEF restart, crash, LoseMemory, SetEntry, Goto, tables, budgets

\* A scheduled flush was scheduled.
LEMMA FlushTimers ==
    ASSUME timers \in Nat, reschedule_flush
    PROVE  /\ timers' \in Nat /\ timers' + 1 = timers /\ UNCHANGED <<status, tries>>
           /\ waiting => timers' > 0
<1>1. timers' = timers - 1 /\ UNCHANGED <<status, tries>>
  BY Zenon DEF reschedule_flush, entry
<1>2. CASE waiting
  <2>1. timers > 1
    BY <1>2 DEF reschedule_flush
  <2>2. QED
    BY <1>1, <2>1
<1>3. CASE ~waiting
  <2>1. timers > 0
    BY <1>3 DEF reschedule_flush
  <2>2. timers' \in Nat /\ timers' + 1 = timers
    BY <1>1, <2>1
  <2>3. QED
    BY Zenon, <1>1, <1>3, <2>2
<1>4. QED
  BY Zenon, <1>2, <1>3

\* Rows that are selected are stored, or come with the message.
LEMMA SelectionTypes ==
    ASSUME NEW batch \in Selection
    PROVE  batch \subseteq msg_rows \cup queued \cup reliable
BY DEF Selection, Batches

-----------------------------------------------------------------------------
(* Which steps change which variables *)

\* Who stores, moves or deletes rows, delivers or discards them.
LEMMA TablesSteps ==
    ASSUME [Next]_vars
    PROVE  \/ UNCHANGED <<queued, active, reliable, produced, delivered, discarded>>
           \/ Sends \/ handle_request_aborted \/ mark_as_active_if_current
           \/ handle_response_aborted \/ handle_response_give_up
           \/ delete_reliable_requests_for_active \/ delete_all_active_requests_for \/ send_next
           \/ finish_response \/ finish_response_active \/ startup_netburst \/ FutureStep
           \/ clear_tables \/ PurgeStep \/ restart \/ crash
BY Zenon DEF Next, Produce, WorkerStep, AdminCommand, AdminStep, Sends, flush_servers,
   handle_abort_ack, handle_request, select_refused, select_retry, select_compose, launch,
   handle_response, handle_response_err, handle_response_ok, leave_work_loop, abort_destination,
   clear_destination_queue, resume_destination, abort_notifies_worker, abort_acknowledged,
   backoff_served, reschedule_flush, interrupt, vars, tables, entry, worker, abort, purges,
   budgets, history

\* Who changes the worker's entry or schedules a flush.
LEMMA EntrySteps ==
    ASSUME [Next]_vars
    PROVE  \/ UNCHANGED <<status, tries, timers>>
           \/ handle_abort_ack \/ handle_request_aborted \/ select_refused \/ select_retry
           \/ select_compose \/ launch \/ handle_response_aborted \/ handle_response_err
           \/ handle_response_give_up \/ handle_response_ok \/ send_next \/ startup_netburst
           \/ reschedule_flush \/ restart \/ crash
BY Zenon DEF Next, Produce, WorkerStep, AdminCommand, AdminStep, send_pdu_servers,
   send_edu_server, send_edu_servers, send_reliable_edu_server, Enqueue, flush_servers,
   handle_request, mark_as_active_if_current, handle_response,
   delete_reliable_requests_for_active, delete_all_active_requests_for, leave_work_loop,
   finish_response, finish_response_active, FutureStep, send_events, remote_processes,
   request_fails, request_succeeds, request_cancelled, abort_destination,
   clear_destination_queue, resume_destination, abort_notifies_worker, abort_acknowledged,
   clear_tables, ClearStep, PurgeStep, delete_all_active_spawned, delete_all_queued_spawned,
   backoff_served, interrupt, vars, tables, entry, worker, abort, purges, budgets, history

\* Who moves an abort or a clear on.
LEMMA AbortSteps ==
    ASSUME [Next]_vars
    PROVE  \/ UNCHANGED <<epoch, aborts, acked, admin>>
           \/ handle_abort_ack \/ abort_destination \/ clear_destination_queue
           \/ abort_notifies_worker \/ abort_acknowledged \/ clear_tables \/ restart \/ crash
BY Zenon DEF Next, Produce, WorkerStep, AdminCommand, AdminStep, send_pdu_servers,
   send_edu_server, send_edu_servers, send_reliable_edu_server, Enqueue, flush_servers,
   handle_request_aborted, handle_request, select_refused, select_retry, select_compose,
   mark_as_active_if_current, launch, handle_response, handle_response_aborted,
   handle_response_err, handle_response_give_up, delete_reliable_requests_for_active,
   delete_all_active_requests_for, handle_response_ok, send_next, leave_work_loop,
   finish_response, finish_response_active, startup_netburst, FutureStep, send_events,
   remote_processes, request_fails, request_succeeds, request_cancelled, resume_destination,
   PurgeStep, delete_all_active_spawned, delete_all_queued_spawned, backoff_served,
   reschedule_flush, interrupt, vars, tables, entry, worker, abort, purges, budgets, history

\* Who puts messages into the channel, takes them out, or closes it.
LEMMA ChannelSteps ==
    ASSUME [Next]_vars
    PROVE  \/ UNCHANGED <<channel, produced, epoch>>
           \/ Sends \/ flush_servers \/ handle_abort_ack \/ handle_request_aborted
           \/ handle_request \/ startup_netburst \/ abort_destination \/ abort_notifies_worker
           \/ reschedule_flush \/ restart \/ crash
BY Zenon DEF Next, Produce, WorkerStep, AdminCommand, AdminStep, Sends, select_refused,
   select_retry, select_compose, mark_as_active_if_current, launch, handle_response,
   handle_response_aborted, handle_response_err, handle_response_give_up,
   delete_reliable_requests_for_active, delete_all_active_requests_for, handle_response_ok,
   send_next, leave_work_loop, finish_response, finish_response_active, FutureStep, send_events,
   remote_processes, request_fails, request_succeeds, request_cancelled,
   clear_destination_queue, resume_destination, abort_acknowledged, clear_tables, ClearStep,
   PurgeStep, delete_all_active_spawned, delete_all_queued_spawned, backoff_served, interrupt,
   vars, tables, entry, worker, abort, purges, budgets, history

\* Who starts, moves or ends a send future.
LEMMA FuturesSteps ==
    ASSUME [Next]_vars
    PROVE  \/ UNCHANGED <<futures, produced, epoch>>
           \/ Sends \/ launch \/ handle_response \/ send_next \/ finish_response
           \/ startup_netburst \/ FutureStep \/ abort_destination \/ restart \/ crash
BY Zenon DEF Next, Produce, WorkerStep, AdminCommand, AdminStep, Sends, flush_servers,
   handle_abort_ack, handle_request_aborted, handle_request, select_refused, select_retry,
   select_compose, mark_as_active_if_current, handle_response_aborted, handle_response_err,
   handle_response_give_up, delete_reliable_requests_for_active, delete_all_active_requests_for,
   handle_response_ok, leave_work_loop, finish_response_active, clear_destination_queue,
   resume_destination, abort_notifies_worker, abort_acknowledged, clear_tables, ClearStep,
   PurgeStep, delete_all_active_spawned, delete_all_queued_spawned, backoff_served,
   reschedule_flush, interrupt, vars, tables, entry, worker, abort, purges, budgets, history

\* Who moves the worker.
LEMMA WorkerSteps ==
    ASSUME [Next]_vars
    PROVE  \/ UNCHANGED <<at, msg_rows, rows, work_epoch, produced, epoch>>
           \/ Sends \/ handle_request \/ select_refused \/ select_retry \/ select_compose
           \/ mark_as_active_if_current \/ launch \/ handle_response \/ handle_response_aborted
           \/ handle_response_err \/ handle_response_give_up
           \/ delete_reliable_requests_for_active \/ delete_all_active_requests_for
           \/ handle_response_ok \/ send_next \/ leave_work_loop \/ finish_response
           \/ finish_response_active \/ startup_netburst \/ abort_destination \/ restart
           \/ crash
BY Zenon DEF Next, Produce, WorkerStep, AdminCommand, AdminStep, Sends, flush_servers,
   handle_abort_ack, handle_request_aborted, FutureStep, send_events, remote_processes,
   request_fails, request_succeeds, request_cancelled, clear_destination_queue,
   resume_destination, abort_notifies_worker, abort_acknowledged, clear_tables, ClearStep,
   PurgeStep, delete_all_active_spawned, delete_all_queued_spawned, backoff_served,
   reschedule_flush, interrupt, vars, tables, entry, worker, abort, purges, budgets, history

-----------------------------------------------------------------------------
(* Every step keeps what holds of the variables *)

\* The tables: what a step stores was produced, and what it discards was stored or sent.
LEMMA TablesStep == Sound /\ [Next]_vars => TablesOK'
<1> SUFFICES ASSUME TablesOK, ChannelOK, FuturesOK, WorkerOK, [Next]_vars
             PROVE  TablesOK'
  BY DEF Sound
<1> USE ConstantTypes DEF tables, history, TablesOK, Stored, Discarding
<1>1. CASE Sends
  BY Zenon, <1>1, SendsEnqueue DEF Enqueue
<1>2. CASE handle_request_aborted
  BY <1>2 DEF handle_request_aborted
<1>3. CASE mark_as_active_if_current \/ send_next
  BY Zenon, <1>3 DEF mark_as_active_if_current, send_next, mark_as_active, WorkerOK
<1>4. CASE \/ handle_response_aborted \/ handle_response_give_up \/ PurgeStep
           \/ clear_tables
  BY <1>4 DEF handle_response_aborted, handle_response_give_up, PurgeStep,
     delete_all_active_spawned, delete_all_queued_spawned, clear_tables, ClearStep
<1>5. CASE \/ delete_reliable_requests_for_active \/ delete_all_active_requests_for
           \/ finish_response \/ finish_response_active \/ restart \/ crash
  BY Zenon, <1>5 DEF delete_reliable_requests_for_active, delete_all_active_requests_for,
     finish_response, finish_response_active, restart, crash, LoseMemory
<1>6. CASE startup_netburst
  BY <1>6 DEF startup_netburst, Take
<1>7. CASE FutureStep
  BY <1>7, FutureSteps DEF FuturesOK
<1>8. CASE UNCHANGED <<queued, active, reliable, produced, delivered, discarded>>
  BY <1>8
<1>9. QED
  BY <1>1, <1>2, <1>3, <1>4, <1>5, <1>6, <1>7, <1>8, TablesSteps

\* The entry: the failure count stays within its bound, and no flush is taken twice.
LEMMA EntryStep == Sound /\ [Next]_vars => EntryOK'
<1> SUFFICES ASSUME EntryOK, [Next]_vars
             PROVE  EntryOK'
  BY DEF Sound
<1> USE ConstantTypes DEF entry, EntryOK, Busy, SetEntry, RemoveEntry
<1>1. CASE handle_abort_ack \/ handle_request_aborted \/ select_refused \/ select_retry
  BY <1>1 DEF handle_abort_ack, handle_request_aborted, select_refused, select_retry
<1>2. CASE select_compose \/ launch \/ send_next
  BY Zenon, <1>2 DEF select_compose, launch, send_next
<1>3. CASE handle_response_err
  <2>1. FailuresNow \in 0..TriesMax
    BY DEF FailuresNow
  <2>2. QED
    BY <1>3, <2>1 DEF handle_response_err
<1>4. CASE handle_response_aborted \/ handle_response_give_up \/ handle_response_ok
  BY <1>4 DEF handle_response_aborted, handle_response_give_up, handle_response_ok
<1>5. CASE startup_netburst
  BY Zenon, <1>5 DEF startup_netburst
<1>6. CASE reschedule_flush
  BY <1>6, FlushTimers
<1>7. CASE restart \/ crash
  BY <1>7, StartsAgain
<1>8. CASE UNCHANGED <<status, tries, timers>>
  BY <1>8
<1>9. QED
  BY <1>1, <1>2, <1>3, <1>4, <1>5, <1>6, <1>7, <1>8, EntrySteps

\* The abort: only abort_destination raises the generation, once for each abort.
LEMMA AbortStep == Sound /\ [Next]_vars => AbortOK'
<1> SUFFICES ASSUME AbortOK, ChannelOK, [Next]_vars
             PROVE  AbortOK'
  BY DEF Sound
<1> USE DEF abort, budgets, AbortOK, Command
<1>1. CASE handle_abort_ack
  <2>1. Head(channel).abort_ack \in Nat /\ Head(channel).abort_ack <= epoch
    BY Zenon, <1>1, Received DEF handle_abort_ack, ChannelOK, Message
  <2>2. QED
    BY <1>1, <2>1 DEF handle_abort_ack
<1>2. CASE abort_destination
  BY <1>2 DEF abort_destination
<1>3. CASE clear_destination_queue \/ abort_notifies_worker \/ abort_acknowledged
  BY <1>3 DEF clear_destination_queue, abort_notifies_worker, abort_acknowledged
<1>4. CASE clear_tables
  BY <1>4 DEF clear_tables, ClearStep
<1>5. CASE restart \/ crash
  BY <1>5, StartsAgain, ConstantTypes
<1>6. CASE UNCHANGED <<epoch, aborts, acked, admin>>
  BY <1>6
<1>7. QED
  BY <1>1, <1>2, <1>3, <1>4, <1>5, <1>6, AbortSteps

\* The channel: every message is about a row just produced, about nothing, or an abort of the
\* present generation.
LEMMA ChannelStep == Sound /\ [Next]_vars => ChannelOK'
<1> SUFFICES ASSUME AbortOK, ChannelOK, TablesOK, [Next]_vars
             PROVE  ChannelOK'
  BY DEF Sound
<1>1. channel \in Seq(Message) /\ epoch \in Nat
  BY DEF ChannelOK, AbortOK
<1>2. ASSUME NEW m \in Message, channel' = Append(channel, m), m.rows \subseteq produced',
             m.abort_ack <= epoch, epoch' = epoch, produced \subseteq produced'
      PROVE  ChannelOK'
  BY <1>1, <1>2, Appended DEF ChannelOK
<1>3. ASSUME channel' = channel, epoch' = epoch, produced \subseteq produced'
      PROVE  ChannelOK'
  BY <1>3 DEF ChannelOK
<1>4. CASE Sends
  <2>1. PICK r \in Rows : Enqueue(r)
    BY <1>4, SendsEnqueue
  <2>2. Msg({r}, 0) \in Message /\ Msg({r}, 0).rows = {r} /\ Msg({r}, 0).abort_ack = 0
    BY MessageTypes
  <2>3. /\ channel' = channel \/ channel' = Append(channel, Msg({r}, 0))
        /\ produced' = produced \cup {r} /\ epoch' = epoch
    BY <2>1 DEF Enqueue, abort
  <2>4. {r} \subseteq produced' /\ 0 <= epoch /\ produced \subseteq produced'
    BY <1>1, <2>3
  <2>5. QED
    BY Zenon, <1>2, <1>3, <2>2, <2>3, <2>4
<1>5. CASE flush_servers \/ startup_netburst \/ reschedule_flush
  <2>1. /\ channel' = channel \/ channel' = Append(channel, FlushMsg)
        /\ produced' = produced /\ epoch' = epoch
    BY Zenon, <1>5 DEF flush_servers, startup_netburst, reschedule_flush, abort, history
  <2>2. FlushMsg \in Message /\ FlushMsg.rows = {} /\ FlushMsg.abort_ack = 0 /\ 0 <= epoch
    BY <1>1, MessageTypes
  <2>3. QED
    BY Zenon, <1>2, <1>3, <2>1, <2>2
<1>6. CASE abort_notifies_worker
  <2>1. /\ channel' = channel \/ channel' = Append(channel, Msg({}, epoch))
        /\ produced' = produced /\ epoch' = epoch
    BY <1>6 DEF abort_notifies_worker, abort, history
  <2>2. /\ Msg({}, epoch) \in Message /\ Msg({}, epoch).rows = {}
        /\ Msg({}, epoch).abort_ack = epoch
    BY Zenon, <1>1, MessageTypes
  <2>3. epoch <= epoch
    BY <1>1
  <2>4. QED
    BY Zenon, <1>2, <1>3, <2>1, <2>2, <2>3
<1>7. CASE handle_abort_ack \/ handle_request_aborted \/ handle_request
  <2>1. Receive /\ produced' = produced /\ epoch' = epoch
    BY <1>7 DEF handle_abort_ack, handle_request_aborted, handle_request, abort, history
  <2>2. QED
    BY <1>1, <2>1, Received DEF ChannelOK
<1>8. CASE abort_destination
  <2>1. channel' = channel /\ produced' = produced /\ epoch' = epoch + 1
    BY <1>8 DEF abort_destination, history
  <2>2. \A i \in DOMAIN channel : channel[i] \in Message
    BY <1>1
  <2>3. QED
    BY <1>1, <2>1, <2>2 DEF ChannelOK, Message
<1>9. CASE restart \/ crash
  <2>1. channel' = <<>> /\ <<>> \in Seq(Message) /\ DOMAIN <<>> = {}
    BY <1>9, StartsAgain
  <2>2. QED
    BY <2>1 DEF ChannelOK
<1>10. QED
  BY <1>3, <1>4, <1>5, <1>6, <1>7, <1>8, <1>9, ChannelSteps

\* The futures: a future is built from the worker's rows, in the worker's generation.
LEMMA FuturesStep == Sound /\ [Next]_vars => FuturesOK'
<1> SUFFICES ASSUME TablesOK, AbortOK, WorkerOK, FuturesOK, [Next]_vars
             PROVE  FuturesOK'
  BY DEF Sound
<1>1. ASSUME NEW f \in futures, NEW phase \in Phase, Become(f, phase),
             epoch' = epoch, produced' = produced
      PROVE  FuturesOK'
  BY <1>1 DEF FuturesOK, Become, Future
<1>2. ASSUME NEW some_rows \in SUBSET produced, NEW edus, NEW n \in 0..epoch,
             Push(some_rows, edus, n), epoch' = epoch, produced' = produced
      PROVE  FuturesOK'
  BY <1>2 DEF FuturesOK, Push, Future, Phase
<1>3. ASSUME futures' \subseteq futures, epoch' \in Nat, epoch <= epoch', epoch \in Nat,
             produced \subseteq produced'
      PROVE  FuturesOK'
  BY <1>3 DEF FuturesOK
<1>4. epoch \in Nat /\ work_epoch \in 0..epoch /\ rows \in SUBSET produced
      /\ active \in SUBSET produced
  BY DEF AbortOK, WorkerOK, TablesOK, Stored
<1>5. CASE launch \/ send_next
  <2>1. /\ epoch' = epoch /\ produced' = produced
        /\ futures' = futures \/ \E edus : Push(rows, edus, work_epoch)
    BY Zenon, <1>5 DEF launch, send_next, abort, history
  <2>2. QED
    BY <1>2, <1>3, <1>4, <2>1
<1>6. CASE startup_netburst
  <2>1. /\ epoch' = epoch /\ produced' = produced
        /\ futures' = futures \/ \E kept \in SUBSET active : Push(kept, FALSE, epoch)
    BY Zenon, <1>6 DEF startup_netburst, Take, abort
  <2>2. epoch \in 0..epoch /\ \A kept \in SUBSET active : kept \in SUBSET produced
    BY <1>4
  <2>3. CASE futures' = futures
    BY <1>3, <1>4, <2>1, <2>3
  <2>4. CASE \E kept \in SUBSET active : Push(kept, FALSE, epoch)
    BY Zenon, <1>2, <2>1, <2>2, <2>4
  <2>5. QED
    BY Zenon, <2>1, <2>3, <2>4
<1>7. CASE FutureStep
  BY Zenon, <1>1, <1>7, FutureSteps DEF abort
<1>8. CASE Sends
  <2>1. futures' = futures /\ epoch' = epoch /\ produced \subseteq produced'
    BY Zenon, <1>8, SendsEnqueue DEF Enqueue, abort
  <2>2. QED
    BY <1>3, <1>4, <2>1
<1>9. CASE handle_response \/ finish_response
  <2>1. futures' \subseteq futures /\ epoch' = epoch /\ produced' = produced
    BY <1>9 DEF handle_response, finish_response, abort, history
  <2>2. QED
    BY <1>3, <1>4, <2>1
<1>10. CASE abort_destination
  <2>1. futures' = futures /\ epoch' = epoch + 1 /\ produced' = produced
    BY <1>10 DEF abort_destination, history
  <2>2. QED
    BY <1>3, <1>4, <2>1
<1>11. CASE restart \/ crash
  BY <1>11, StartsAgain DEF FuturesOK
<1>12. CASE UNCHANGED <<futures, produced, epoch>>
  BY <1>3, <1>4, <1>12
<1>13. QED
  BY <1>5, <1>6, <1>7, <1>8, <1>9, <1>10, <1>11, <1>12, FuturesSteps

\* The worker: what it selects was produced, and it works in a generation that has been.
LEMMA WorkerStepOK == Sound /\ [Next]_vars => WorkerOK'
<1> SUFFICES ASSUME TablesOK, AbortOK, ChannelOK, FuturesOK, WorkerOK, [Next]_vars
             PROVE  WorkerOK'
  BY DEF Sound
<1> DEFINE Moves(p, ms, rs, n) ==
             /\ at' = p /\ msg_rows' = ms /\ rows' = rs /\ work_epoch' = n
             /\ epoch' = epoch /\ produced' = produced
<1>1. /\ epoch \in Nat /\ work_epoch \in Nat /\ work_epoch <= epoch
      /\ Stored \subseteq produced /\ rows \subseteq produced /\ msg_rows \subseteq produced
  BY DEF AbortOK, WorkerOK, TablesOK
<1>2. ASSUME NEW p \in Selecting \cup Settling, NEW ms \in SUBSET produced,
             NEW rs \in SUBSET produced, NEW n \in Nat, n <= epoch, Moves(p, ms, rs, n)
      PROVE  WorkerOK'
  BY <1>2 DEF WorkerOK, Selecting, Settling, Idle
<1>3. ASSUME NEW p \in Idle, Moves(p, {}, {}, 0)
      PROVE  WorkerOK'
  BY <1>1, <1>3 DEF WorkerOK
<1>4. CASE Sends
  <2>1. UNCHANGED <<at, msg_rows, rows, work_epoch, epoch>> /\ produced \subseteq produced'
    BY Zenon, <1>4, SendsEnqueue DEF Enqueue, abort, worker
  <2>2. QED
    BY <2>1 DEF WorkerOK
<1>5. CASE handle_request
  <2>1. Moves("Select", channel[1].rows, {}, epoch) /\ channel[1].rows \subseteq produced
    BY <1>5, Received DEF handle_request, Goto, ChannelOK, abort, history
  <2>2. "Select" \in Selecting \cup Settling /\ epoch <= epoch
    BY <1>1 DEF Selecting
  <2>3. QED
    BY Zenon, <1>1, <1>2, <2>1, <2>2
<1>6. CASE select_retry \/ select_compose
  <2>1. \E p \in {"Activate", "Launch", "LaunchRetry"}, rs \in SUBSET produced :
          Moves(p, msg_rows, rs, work_epoch)
    BY Zenon, <1>1, <1>6, SelectionTypes DEF select_retry, select_compose, Goto, abort, history,
       Stored
  <2>2. {"Activate", "Launch", "LaunchRetry"} \subseteq Selecting \cup Settling
    BY DEF Selecting
  <2>3. QED
    BY Zenon, <1>1, <1>2, <2>1, <2>2
<1>7. CASE mark_as_active_if_current
  <2>1. Moves("Launch", msg_rows, rows, work_epoch) \/ Moves("Loop", {}, {}, 0)
    BY <1>7 DEF mark_as_active_if_current, Goto, BackToLoop, abort, history
  <2>2. "Launch" \in Selecting \cup Settling /\ "Loop" \in Idle
    BY DEF Selecting, Idle
  <2>3. QED
    BY Zenon, <1>1, <1>2, <1>3, <2>1, <2>2
<1>8. CASE \/ select_refused \/ launch \/ handle_response_aborted \/ handle_response_err
           \/ handle_response_give_up \/ send_next \/ startup_netburst
  <2>1. Moves("Loop", {}, {}, 0)
    BY Zenon, <1>8 DEF select_refused, launch, handle_response_aborted, handle_response_err,
       handle_response_give_up, send_next, startup_netburst, Goto, BackToLoop, abort, history
  <2>2. QED
    BY <1>3, <2>1 DEF Idle
<1>9. CASE handle_response
  <2>1. \/ Moves("Loop", {}, {}, 0)
        \/ \E p \in {"SettleOk", "SettleErr"}, f \in futures : Moves(p, {}, {}, f.epoch)
    BY <1>9 DEF handle_response, Goto, BackToLoop, abort, history
  <2>2. {"SettleOk", "SettleErr"} \subseteq Selecting \cup Settling /\ "Loop" \in Idle
    BY DEF Settling, Idle
  <2>3. \A f \in futures : f.epoch \in Nat /\ f.epoch <= epoch
    BY <1>1 DEF FuturesOK
  <2>4. QED
    BY Zenon, <1>2, <1>3, <2>1, <2>2, <2>3
<1>10. CASE \/ delete_reliable_requests_for_active \/ delete_all_active_requests_for
            \/ handle_response_ok
  <2>1. \/ Moves("Loop", {}, {}, 0)
        \/ \E p \in {"CleanActive", "Refill", "ActivateNext"}, rs \in SUBSET produced :
             Moves(p, {}, rs, work_epoch)
    BY Zenon, <1>1, <1>10 DEF delete_reliable_requests_for_active, delete_all_active_requests_for,
       handle_response_ok, Batches, Goto, BackToLoop, abort, history, Stored
  <2>2. {"CleanActive", "Refill", "ActivateNext"} \subseteq Selecting \cup Settling
        /\ "Loop" \in Idle
    BY DEF Settling, Idle
  <2>3. QED
    BY Zenon, <1>1, <1>2, <1>3, <2>1, <2>2
<1>11. CASE leave_work_loop \/ finish_response \/ finish_response_active
  <2>1. /\ at' \in Idle /\ at \in Idle
        /\ UNCHANGED <<msg_rows, rows, work_epoch, epoch, produced>>
    BY <1>11 DEF leave_work_loop, finish_response, finish_response_active, Idle, abort, history
  <2>2. QED
    BY <2>1 DEF WorkerOK
<1>12. CASE abort_destination
  <2>1. UNCHANGED <<at, msg_rows, rows, work_epoch, produced>> /\ epoch' = epoch + 1
    BY <1>12 DEF abort_destination, worker, history
  <2>2. QED
    BY <1>1, <2>1 DEF WorkerOK
<1>13. CASE restart \/ crash
  BY <1>13, StartsAgain DEF WorkerOK, Idle
<1>14. CASE UNCHANGED <<at, msg_rows, rows, work_epoch, produced, epoch>>
  BY <1>14 DEF WorkerOK
<1>15. QED
  BY Zenon, <1>4, <1>5, <1>6, <1>7, <1>8, <1>9, <1>10, <1>11, <1>12, <1>13, <1>14, WorkerSteps

-----------------------------------------------------------------------------
(* The numbers of the futures, and the type invariant *)

\* A new future gets a number that no other future has.
LEMMA FreshIdIsFresh ==
    ASSUME IsFiniteSet(futures)
    PROVE  \A f \in futures : f.id # FreshId
<1> DEFINE n == Cardinality(futures)
           of == [i \in 1..(n + 1) |-> CHOOSE f \in futures : f.id = i]
<1>1. n \in Nat /\ IsFiniteSet(1..(n + 1)) /\ Cardinality(1..(n + 1)) = n + 1
  <2>1. n \in Nat
    BY FS_CardinalityType
  <2> HIDE DEF n
  <2>2. 1 \in Int /\ n + 1 \in Int /\ ~(1 > n + 1) /\ (n + 1) - 1 + 1 = n + 1
    BY <2>1
  <2>3. IsFiniteSet(1..(n + 1)) /\ Cardinality(1..(n + 1)) = (n + 1) - 1 + 1
    BY <2>2, FS_Interval
  <2>4. QED
    BY <2>1, <2>2, <2>3
<1>2. ASSUME \A i \in 1..(n + 1) : \E f \in futures : f.id = i
      PROVE  FALSE
  <2>1. \A i \in 1..(n + 1) : of[i] \in futures /\ of[i].id = i
    BY <1>2
  <2>2. of \in [1..(n + 1) -> futures]
    BY <2>1
  <2> HIDE DEF of
  <2>3. n < Cardinality(1..(n + 1))
    BY <1>1
  <2>4. \E x, y \in 1..(n + 1) : x # y /\ of[x] = of[y]
    BY <1>1, <2>2, <2>3, FS_PigeonHole
  <2>5. QED
    BY <2>1, <2>4
<1>3. \E i \in 1..(n + 1) : \A f \in futures : f.id # i
  BY <1>2
<1>4. QED
  BY <1>3 DEF FreshId

\* The futures are finitely many, and told apart by their numbers.
Numbered == IsFiniteSet(futures) /\ \A f, g \in futures : f.id = g.id => f = g

\* Every step keeps the futures apart.
LEMMA NumberedStep == Numbered /\ [Next]_vars => Numbered'
<1> SUFFICES ASSUME Numbered, [Next]_vars
             PROVE  Numbered'
  OBVIOUS
<1>1. ASSUME NEW some_rows, NEW edus, NEW k, Push(some_rows, edus, k)
      PROVE  Numbered'
  <2> DEFINE new == Future(FreshId, some_rows, edus, k, "Built")
  <2>1. new.id = FreshId /\ futures' = futures \cup {new}
    BY <1>1 DEF Push, Future
  <2> HIDE DEF new
  <2>2. IsFiniteSet(futures')
    BY <2>1, FS_AddElement DEF Numbered
  <2>3. QED
    BY <2>1, <2>2, FreshIdIsFresh DEF Numbered
<1>2. ASSUME NEW f \in futures, NEW phase, Become(f, phase)
      PROVE  Numbered'
  <2> DEFINE new == Future(f.id, f.rows, f.edus, f.epoch, phase)
  <2>1. new.id = f.id /\ futures' = (futures \ {f}) \cup {new}
    BY <1>2 DEF Become, Future
  <2> HIDE DEF new
  <2>2. IsFiniteSet(futures')
    BY Zenon, <2>1, FS_AddElement, FS_RemoveElement DEF Numbered
  <2>3. QED
    BY <2>1, <2>2 DEF Numbered
<1>3. ASSUME futures' \subseteq futures
      PROVE  Numbered'
  BY <1>3, FS_Subset DEF Numbered
<1>4. CASE launch \/ send_next \/ startup_netburst
  <2>1. futures' = futures \/ \E some_rows, edus, k : Push(some_rows, edus, k)
    BY Zenon, <1>4 DEF launch, send_next, startup_netburst
  <2>2. QED
    BY Zenon, <1>1, <1>3, <2>1
<1>5. CASE FutureStep
  BY Zenon, <1>2, <1>5, FutureSteps
<1>6. CASE Sends \/ handle_response \/ finish_response \/ abort_destination
  <2>1. futures' \subseteq futures
    BY Zenon, <1>6, SendsEnqueue DEF Enqueue, handle_response, finish_response, abort_destination
  <2>2. QED
    BY <1>3, <2>1
<1>7. CASE restart \/ crash
  BY <1>3, <1>7, StartsAgain
<1>8. CASE UNCHANGED <<futures, produced, epoch>>
  BY <1>3, <1>8
<1>9. QED
  BY Zenon, <1>4, <1>5, <1>6, <1>7, <1>8, FuturesSteps

\* Whether the entry is in a backoff.
WaitingOK == waiting \in BOOLEAN

\* An entry waits or it does not: SetEntry and the end of a backoff are all that change it.
LEMMA WaitingStep == WaitingOK /\ [Next]_vars => WaitingOK'
<1> SUFFICES ASSUME WaitingOK, [Next]_vars
             PROVE  WaitingOK'
  OBVIOUS
<1>1. waiting' = waiting \/ waiting' = TRUE \/ waiting' = FALSE
  BY ZenonT(60) DEF Next, Produce, WorkerStep, AdminCommand, AdminStep, send_pdu_servers,
     send_edu_server, send_edu_servers, send_reliable_edu_server, Enqueue, flush_servers,
     handle_abort_ack, handle_request_aborted, handle_request, select_refused, select_retry,
     select_compose, mark_as_active_if_current, launch, handle_response,
     handle_response_aborted, handle_response_err, handle_response_give_up,
     delete_reliable_requests_for_active, delete_all_active_requests_for, handle_response_ok,
     send_next, leave_work_loop, finish_response, finish_response_active, startup_netburst,
     FutureStep, send_events, remote_processes, request_fails, request_succeeds,
     request_cancelled, abort_destination, clear_destination_queue, resume_destination,
     abort_notifies_worker, abort_acknowledged, clear_tables, ClearStep, PurgeStep,
     delete_all_active_spawned, delete_all_queued_spawned, backoff_served, reschedule_flush,
     interrupt, restart, crash, LoseMemory, SetEntry, RemoveEntry, vars, tables, entry, worker,
     abort, purges, budgets, history
<1>2. QED
  BY ZenonT(60), <1>1 DEF WaitingOK

\* The groups of variables are sound in every state of the sender.
LEMMA SoundHolds == Spec => []Sound
<1>1. Init => Sound
  <2> SUFFICES ASSUME Init
               PROVE  Sound
    OBVIOUS
  <2>1. channel = <<>> /\ <<>> \in Seq(Message) /\ DOMAIN <<>> = {}
    BY DEF Init
  <2>2. ChannelOK /\ FuturesOK
    BY <2>1 DEF ChannelOK, FuturesOK, Init
  <2>3. TablesOK /\ EntryOK /\ AbortOK /\ WorkerOK
    BY ConstantTypes
       DEF Init, TablesOK, Stored, EntryOK, AbortOK, WorkerOK, Idle, Command
  <2>4. QED
    BY <2>2, <2>3 DEF Sound
<1>2. Sound /\ [Next]_vars => Sound'
  BY TablesStep, EntryStep, AbortStep, ChannelStep, FuturesStep, WorkerStepOK DEF Sound
<1>3. QED
  BY <1>1, <1>2, PTL DEF Spec

\* Type correctness: the rows are in the table of their kind, generations stay within the
\* number of aborts, the worker's locals are empty in the loop, and the futures are told apart
\* by their numbers, however many there are.
THEOREM SenderTypes == Spec => []TypeOK
<1>1. Init => Numbered /\ WaitingOK
  BY Zenon, FS_EmptySet DEF Init, Numbered, WaitingOK
<1>2. Numbered /\ WaitingOK /\ [Next]_vars => Numbered' /\ WaitingOK'
  BY NumberedStep, WaitingStep
<1>3. Sound /\ Numbered /\ WaitingOK => TypeOK
  <2> SUFFICES ASSUME Sound, Numbered, WaitingOK
               PROVE  TypeOK
    OBVIOUS
  <2>1. \A i \in DOMAIN channel :
          channel[i].rows \subseteq Rows /\ channel[i].abort_ack \in 0..AbortBudget
    <3> SUFFICES ASSUME NEW i \in DOMAIN channel
                 PROVE  channel[i].rows \subseteq Rows /\ channel[i].abort_ack \in 0..AbortBudget
      OBVIOUS
    <3>1. channel[i] \in Message
      BY DEF Sound, ChannelOK
    <3>2. channel[i].abort_ack \in Nat /\ channel[i].rows \subseteq Rows
      BY <3>1 DEF Message
    <3>3. channel[i].abort_ack <= epoch /\ epoch \in Nat /\ aborts \in Nat
          /\ epoch + aborts <= AbortBudget
      BY DEF Sound, ChannelOK, AbortOK
    <3>4. \A a, e, s, b \in Nat : a <= e /\ e + s <= b => a \in 0..b
      OBVIOUS
    <3>5. QED
      BY SMTT(30), <3>2, <3>3, <3>4, ConstantTypes
  <2>2. \A f \in futures : f.rows \subseteq Rows /\ f.phase \in Phase /\ f.epoch \in 0..epoch
    BY DEF Sound, FuturesOK, TablesOK
  <2>3. \A f, g \in futures : f.id = g.id => f = g
    BY DEF Numbered
  <2>4. /\ queued \subseteq Pdus \cup Edus /\ active \subseteq Rows /\ reliable \subseteq ToDevice
        /\ produced \subseteq Rows /\ delivered \subseteq produced /\ discarded \subseteq produced
    BY DEF Sound, TablesOK
  <2>5. /\ status \in {"None", "Running", "Retrying", "Failed", "Cooldown"}
        /\ tries \in 0..TriesMax /\ timers \in Nat
    BY DEF Sound, EntryOK, Busy
  <2>6. at \in {"Loop", "Boot", "Drain", "DrainActive"} =>
          msg_rows = {} /\ rows = {} /\ work_epoch = 0
    BY DEF Sound, WorkerOK, Idle
  <2>7. QED
    BY Zenon, <2>1, <2>2, <2>3, <2>4, <2>5, <2>6 DEF WaitingOK, TypeOK
<1>4. QED
  BY <1>1, <1>2, <1>3, SoundHolds, PTL DEF Spec

-----------------------------------------------------------------------------
(* Busy and waiting destinations *)

AckOnItsWay == admin = "Flagged" \/ AbortAckPending

\* Whoever marks the destination busy has a transaction in flight or is about to start one;
\* what was read under an older generation is given up, but then the abort removes the entry.
Backed ==
    /\ status \in Busy /\ open =>
         InFlight # {} \/ at \notin {"Loop", "Select"} \/ AckOnItsWay
    /\ at \in {"Activate", "Launch", "LaunchRetry"} => status \in Busy
    /\ at \in {"Select", "Activate"} => Current(work_epoch) \/ ~open \/ AckOnItsWay

\* Whoever waits has a flush scheduled that is not early, and the queue behind a backoff or a
\* cooldown is looked at again.
Woken ==
    /\ waiting => timers > 0
    /\ status \in {"Failed", "Cooldown"} /\ open => timers > 0 \/ channel # <<>> \/ at # "Loop"

\* A process that starts again has no entry and no future until startup_netburst.
Booting == at = "Boot" => futures = {} /\ status = "None"

\* The abort message stays in the channel until the worker takes it.
LEMMA PendingStays ==
    ASSUME ChannelOK, AbortOK, [Next]_vars, AbortAckPending
    PROVE  AbortAckPending' \/ handle_abort_ack \/ restart \/ crash
<1>1. ASSUME NEW m \in Message, channel' = Append(channel, m)
      PROVE  AbortAckPending'
  BY <1>1, Appended DEF AbortAckPending, ChannelOK
<1>2. CASE channel' = channel
  BY <1>2 DEF AbortAckPending
<1>3. CASE Sends
  <2>1. channel' = channel \/ \E r \in Rows : channel' = Append(channel, Msg({r}, 0))
    BY Zenon, <1>3, SendsEnqueue DEF Enqueue
  <2>2. \A r \in Rows : Msg({r}, 0) \in Message
    BY MessageTypes
  <2>3. QED
    BY Zenon, <1>1, <1>2, <2>1, <2>2
<1>4. CASE flush_servers \/ reschedule_flush \/ startup_netburst
  <2>1. channel' = channel \/ channel' = Append(channel, FlushMsg)
    BY Zenon, <1>4 DEF flush_servers, reschedule_flush, startup_netburst
  <2>2. QED
    BY SMTT(30), <1>1, <1>2, <2>1, MessageTypes
<1>5. CASE abort_destination \/ abort_notifies_worker
  <2>1. channel' = channel \/ channel' = Append(channel, Msg({}, epoch))
    BY Zenon, <1>5 DEF abort_destination, abort_notifies_worker
  <2>2. QED
    BY <1>1, <1>2, <2>1, MessageTypes DEF AbortOK
<1>6. CASE handle_request_aborted \/ handle_request
  <2>1. Receive /\ Head(channel).abort_ack = 0
    BY Zenon, <1>6 DEF handle_request_aborted, handle_request
  <2>2. PICK i \in DOMAIN channel : channel[i].abort_ack # 0
    BY DEF AbortAckPending
  <2>3. i # 1 /\ i - 1 \in DOMAIN channel' /\ channel'[i - 1] = channel[i]
    BY <2>1, <2>2, Received DEF ChannelOK
  <2>4. QED
    BY <2>2, <2>3 DEF AbortAckPending
<1>7. QED
  BY Zenon, <1>2, <1>3, <1>4, <1>5, <1>6, ChannelSteps

\* A transaction of the present generation stays in flight until its result is handled.
LEMMA FlightStays ==
    ASSUME [Next]_vars, InFlight # {}
    PROVE  \/ InFlight' # {} \/ at' \in {"SettleOk", "SettleErr"} \/ finish_response
           \/ abort_destination \/ restart \/ crash
<1> PICK f \in futures : f.epoch = epoch
  BY DEF InFlight
<1>1. CASE futures \subseteq futures' /\ epoch' = epoch
  BY <1>1 DEF InFlight
<1>2. CASE FutureStep
  <2>1. PICK g \in futures, phase \in Phase : Become(g, phase) /\ epoch' = epoch
    BY Zenon, <1>2, FutureSteps DEF abort
  <2> DEFINE new == Future(g.id, g.rows, g.edus, g.epoch, phase)
  <2>2. new.epoch = g.epoch /\ futures' = (futures \ {g}) \cup {new}
    BY <2>1 DEF Become, Future
  <2> HIDE DEF new
  <2>3. QED
    BY <2>1, <2>2 DEF InFlight
<1>3. CASE handle_response
  <2>1. PICK g \in futures : /\ futures' = futures \ {g} /\ epoch' = epoch
                             /\ g.epoch # epoch \/ at' \in {"SettleOk", "SettleErr"}
    BY <1>3 DEF handle_response, Goto, abort
  <2>2. QED
    BY <2>1 DEF InFlight
<1>4. CASE Sends \/ launch \/ send_next \/ startup_netburst
  <2>1. futures \subseteq futures' /\ epoch' = epoch
    BY Zenon, <1>4, SendsEnqueue DEF Enqueue, launch, send_next, startup_netburst, Push, abort
  <2>2. QED
    BY <1>1, <2>1
<1>5. QED
  BY Zenon, <1>1, <1>2, <1>3, <1>4, FuturesSteps

\* Who moves the worker, its entry, or the abort it depends on.
LEMMA EntryAndWorkerSteps ==
    ASSUME [Next]_vars
    PROVE  \/ UNCHANGED <<status, open, at, work_epoch, aborted, epoch, admin>>
           \/ handle_abort_ack \/ handle_request_aborted \/ handle_request \/ select_refused
           \/ select_retry \/ select_compose \/ mark_as_active_if_current \/ launch
           \/ handle_response \/ handle_response_aborted \/ handle_response_err
           \/ handle_response_give_up \/ delete_reliable_requests_for_active
           \/ delete_all_active_requests_for \/ handle_response_ok \/ send_next
           \/ leave_work_loop \/ finish_response \/ finish_response_active \/ startup_netburst
           \/ abort_destination \/ clear_destination_queue \/ resume_destination
           \/ abort_notifies_worker \/ abort_acknowledged \/ clear_tables \/ interrupt
           \/ restart \/ crash
BY ZenonT(60) DEF Next, Produce, WorkerStep, AdminCommand, AdminStep, send_pdu_servers,
   send_edu_server, send_edu_servers, send_reliable_edu_server, Enqueue, flush_servers,
   FutureStep, send_events, remote_processes, request_fails, request_succeeds,
   request_cancelled, PurgeStep, delete_all_active_spawned, delete_all_queued_spawned,
   backoff_served, reschedule_flush, vars, tables, entry, worker, abort, purges, budgets,
   history

\* Every step keeps what backs a busy destination.
LEMMA BackedStep == Sound /\ Booting /\ Backed /\ [Next]_vars => Backed'
<1> SUFFICES ASSUME Sound, Booting, Backed, [Next]_vars
             PROVE  Backed'
  OBVIOUS
<1>1. ASSUME AckOnItsWay
      PROVE  \/ AckOnItsWay' \/ handle_abort_ack \/ restart \/ crash
             \/ ~open /\ abort_notifies_worker
  <2>1. CASE AbortAckPending
    BY Zenon, <2>1, PendingStays DEF Sound, AckOnItsWay
  <2>2. CASE admin = "Flagged" /\ abort_notifies_worker
    <3>1. CASE open
      <4>1. channel' = Append(channel, Msg({}, epoch))
        BY Zenon, <2>2, <3>1 DEF abort_notifies_worker
      <4>2. epoch \in Nat /\ epoch # 0
        BY <2>2 DEF Sound, AbortOK
      <4>3. AbortAckPending'
        <5>1. Msg({}, epoch) \in Message /\ Msg({}, epoch).abort_ack = epoch
          BY <4>2, MessageTypes
        <5> HIDE DEF Msg
        <5>2. QED
          BY SMTT(30), <4>1, <4>2, <5>1, Appended DEF Sound, ChannelOK, AbortAckPending
      <4>4. QED
        BY <4>3 DEF AckOnItsWay
    <3>2. QED
      BY <2>2, <3>1
  <2>3. CASE admin = "Flagged" /\ ~abort_notifies_worker
    <3>1. admin' = admin \/ restart \/ crash
      BY Zenon, <2>3, AbortSteps DEF handle_abort_ack, abort_destination,
         clear_destination_queue, abort_acknowledged, clear_tables, ClearStep
    <3>2. QED
      BY <2>3, <3>1 DEF AckOnItsWay
  <2>4. QED
    BY <1>1, <2>1, <2>2, <2>3 DEF AckOnItsWay
<1>2. CASE handle_abort_ack \/ restart \/ crash
  <2>1. status' = "None" /\ at' \in {"Loop", "Boot"}
    BY Zenon, <1>2, StartsAgain DEF handle_abort_ack, Receive, RemoveEntry, SetEntry, worker
  <2>2. QED
    BY Zenon, <2>1 DEF Backed, Busy
<1>3. CASE finish_response \/ finish_response_active \/ leave_work_loop
  <2>1. at' \in {"Drain", "DrainActive"}
    BY Zenon, <1>3 DEF finish_response, finish_response_active, leave_work_loop
  <2>2. QED
    BY Zenon, <2>1 DEF Backed
<1>4. CASE abort_destination
  <2>1. admin' = "Flagged" /\ UNCHANGED <<status, at>>
    BY Zenon, <1>4 DEF abort_destination, entry, worker
  <2>2. QED
    BY Zenon, <2>1 DEF Backed, AckOnItsWay
<1> DEFINE Others == /\ ~handle_abort_ack /\ ~restart /\ ~crash /\ ~finish_response
                     /\ ~abort_destination
<1>5. ASSUME Others
      PROVE  /\ AckOnItsWay => AckOnItsWay' \/ (~open /\ abort_notifies_worker)
             /\ InFlight # {} => InFlight' # {} \/ at' \in {"SettleOk", "SettleErr"}
  <2>1. AckOnItsWay => AckOnItsWay' \/ (~open /\ abort_notifies_worker)
    BY <1>1, <1>5
  <2>2. InFlight # {} => InFlight' # {} \/ at' \in {"SettleOk", "SettleErr"}
    BY Zenon, <1>5, FlightStays
  <2>3. QED
    BY Zenon, <2>1, <2>2
<1>6. CASE Others /\ UNCHANGED <<status, open, at, work_epoch, aborted, epoch, admin>>
  <2>1. AckOnItsWay => AckOnItsWay' \/ ~open'
    BY Zenon, <1>5, <1>6
  <2>2. InFlight # {} => InFlight' # {} \/ at' \notin {"Loop", "Select"}
    BY Zenon, <1>5, <1>6
  <2>3. QED
    BY Zenon, <1>6, <2>1, <2>2 DEF Backed, Current
<1>7. CASE \/ handle_request_aborted \/ handle_response_aborted \/ handle_response_err
           \/ handle_response_give_up
  <2>1. at' = "Loop" /\ status' \in {"None", "Failed"}
    BY Zenon, <1>7 DEF handle_request_aborted, handle_response_aborted, handle_response_err,
       handle_response_give_up, Receive, RemoveEntry, SetEntry, BackToLoop, Goto, worker, entry
  <2>2. QED
    BY Zenon, <2>1 DEF Backed, Busy
<1>8. CASE Others /\ (handle_request \/ select_refused)
  <2>1. /\ UNCHANGED <<status, open, aborted, epoch, admin>> /\ at \in {"Loop", "Select"}
        /\ \/ at' = "Loop"
           \/ at' = "Select" /\ ~aborted /\ work_epoch' = epoch
    BY Zenon, <1>8 DEF handle_request, select_refused, Receive, BackToLoop, Goto, entry, abort
  <2>2. ~abort_notifies_worker
    BY Zenon, <2>1 DEF abort_notifies_worker
  <2>3. QED
    BY Zenon, <1>5, <1>8, <2>1, <2>2 DEF Backed, Current
<1>9. CASE Others /\ (select_retry \/ select_compose)
  <2>1. /\ status' \in Busy /\ at' \in {"Activate", "Launch", "LaunchRetry"} /\ at = "Select"
        /\ UNCHANGED <<open, aborted, epoch, admin, work_epoch>>
    BY Zenon, <1>9 DEF select_retry, select_compose, SetEntry, Goto, abort, Busy
  <2>2. ~abort_notifies_worker
    BY Zenon, <2>1 DEF abort_notifies_worker
  <2>3. QED
    BY Zenon, <1>5, <1>9, <2>1, <2>2 DEF Backed, Current
<1>10. CASE Others /\ mark_as_active_if_current
  <2> HIDE DEF Current
  <2>1. /\ UNCHANGED <<status, open, aborted, epoch, admin>> /\ at = "Activate"
        /\ IF Current(work_epoch) THEN at' = "Launch" ELSE at' = "Loop"
    BY Zenon, <1>10 DEF mark_as_active_if_current, BackToLoop, Goto, entry, abort
  <2>2. ~abort_notifies_worker
    BY Zenon, <2>1 DEF abort_notifies_worker
  <2>3. QED
    BY Zenon, <1>5, <1>10, <2>1, <2>2 DEF Backed
<1>11. CASE Others /\ handle_response
  <2>1. /\ UNCHANGED <<status, open, aborted, epoch, admin>> /\ at = "Loop"
        /\ at' \in {"Loop", "SettleOk", "SettleErr"}
    BY Zenon, <1>11 DEF handle_response, BackToLoop, Goto, entry, abort
  <2>2. ~abort_notifies_worker
    BY Zenon, <2>1 DEF abort_notifies_worker
  <2>3. QED
    BY Zenon, <1>5, <1>11, <2>1, <2>2 DEF Backed
<1>12. CASE launch \/ send_next \/ startup_netburst
  <2>1. at' = "Loop" /\ UNCHANGED epoch
    BY Zenon, <1>12 DEF launch, send_next, startup_netburst, BackToLoop, Goto, abort
  <2>2. \/ status' = "None"
        \/ \E some_rows, edus : Push(some_rows, edus, epoch)
    BY Zenon, <1>12 DEF launch, send_next, startup_netburst, RemoveEntry, SetEntry, Current,
       Booting, entry
  <2>3. ASSUME NEW some_rows, NEW edus, Push(some_rows, edus, epoch)
        PROVE  InFlight' # {}
    <3> DEFINE new == Future(FreshId, some_rows, edus, epoch, "Built")
    <3>1. new.epoch = epoch /\ futures' = futures \cup {new}
      BY <2>3 DEF Push, Future
    <3> HIDE DEF new
    <3>2. QED
      BY <2>1, <3>1 DEF InFlight
  <2>4. QED
    BY Zenon, <2>1, <2>2, <2>3 DEF Backed, Busy
<1>13. CASE \/ delete_reliable_requests_for_active \/ delete_all_active_requests_for
            \/ handle_response_ok
  <2>1. \/ at' \in {"CleanActive", "Refill", "ActivateNext"}
        \/ at' = "Loop" /\ status' \in {"None", "Cooldown"}
    BY Zenon, <1>13 DEF delete_reliable_requests_for_active, delete_all_active_requests_for,
       handle_response_ok, RemoveEntry, SetEntry, BackToLoop, Goto
  <2>2. QED
    BY Zenon, <2>1 DEF Backed, Busy
<1>14. CASE Others /\ (clear_destination_queue \/ resume_destination \/ abort_notifies_worker
                       \/ abort_acknowledged \/ clear_tables \/ interrupt)
  <2>1. /\ UNCHANGED <<status, at, work_epoch, epoch>>
        /\ open' = open \/ open' = FALSE
        /\ aborted' = aborted \/ aborted' = FALSE
    BY Zenon, <1>14 DEF clear_destination_queue, resume_destination, abort_notifies_worker,
       abort_acknowledged, clear_tables, ClearStep, interrupt, entry, worker, abort
  <2>2. (open' => open) /\ (Current(work_epoch) => Current(work_epoch)')
    BY <2>1 DEF Current
  <2>3. AckOnItsWay => AckOnItsWay' \/ ~open'
    BY Zenon, <1>5, <1>14, <2>2
  <2> HIDE DEF Current
  <2>4. QED
    BY Zenon, <1>5, <1>14, <2>1, <2>2, <2>3 DEF Backed
<1>15. QED
  BY Zenon, <1>2, <1>3, <1>4, <1>6, <1>7, <1>8, <1>9, <1>10, <1>11, <1>12, <1>13, <1>14,
     EntryAndWorkerSteps

\* Every step keeps the memory of a starting process empty.
LEMMA BootingStep == Booting /\ [Next]_vars => Booting'
<1> SUFFICES ASSUME Booting, [Next]_vars, at' = "Boot"
             PROVE  futures' = {} /\ status' = "None"
  BY DEF Booting
<1>1. CASE restart \/ crash
  BY <1>1, StartsAgain
<1>2. CASE ~restart /\ ~crash
  <2>1. at = "Boot"
    BY Zenon, <1>2, WorkerSteps, SendsEnqueue DEF Enqueue, handle_request, select_refused,
       select_retry, select_compose, mark_as_active_if_current, launch, handle_response,
       handle_response_aborted, handle_response_err, handle_response_give_up,
       delete_reliable_requests_for_active, delete_all_active_requests_for, handle_response_ok,
       send_next, leave_work_loop, finish_response, finish_response_active, startup_netburst,
       abort_destination, BackToLoop, Goto, worker
  <2>2. futures = {} /\ status = "None"
    BY <2>1 DEF Booting
  <2>3. futures' = futures
    <3>1. ~FutureStep
      BY <2>2 DEF FutureStep
    <3>2. QED
      BY Zenon, <1>2, <2>1, <3>1, FuturesSteps, SendsEnqueue DEF Enqueue, launch,
         handle_response, send_next, finish_response, startup_netburst, abort_destination,
         BackToLoop, Goto
  <2>4. status' = status
    BY ZenonT(60), <1>2, <2>1, EntrySteps DEF handle_abort_ack, handle_request_aborted, Receive,
       select_refused, select_retry, select_compose, launch, handle_response_aborted,
       handle_response_err, handle_response_give_up, handle_response_ok, send_next,
       startup_netburst, reschedule_flush, BackToLoop, Goto, entry
  <2>5. QED
    BY <2>2, <2>3, <2>4
<1>3. QED
  BY <1>1, <1>2

\* Who changes the entry, the flushes to come, or the worker that serves them.
LEMMA WaitingSteps ==
    ASSUME [Next]_vars
    PROVE  \/ UNCHANGED <<status, waiting, timers, channel, open, at>>
           \/ Sends \/ flush_servers \/ handle_abort_ack \/ handle_request_aborted
           \/ handle_request \/ select_refused \/ select_retry \/ select_compose
           \/ mark_as_active_if_current \/ launch \/ handle_response \/ handle_response_aborted
           \/ handle_response_err \/ handle_response_give_up
           \/ delete_reliable_requests_for_active \/ delete_all_active_requests_for
           \/ handle_response_ok \/ send_next \/ leave_work_loop \/ finish_response
           \/ finish_response_active \/ startup_netburst \/ abort_notifies_worker
           \/ backoff_served \/ reschedule_flush \/ interrupt \/ restart \/ crash
BY Zenon DEF Next, Produce, WorkerStep, AdminCommand, AdminStep, Sends, FutureStep, send_events,
  remote_processes, request_fails, request_succeeds, request_cancelled, abort_destination,
  clear_destination_queue, resume_destination, abort_acknowledged, clear_tables, ClearStep,
  PurgeStep, delete_all_active_spawned, delete_all_queued_spawned, vars, tables, entry, worker,
  abort, purges, budgets, history

\* Every step keeps a waiting destination's flush ahead of it.
LEMMA WokenStep == Sound /\ Booting /\ Backed /\ Woken /\ [Next]_vars => Woken'
<1> SUFFICES ASSUME Sound, Booting, Backed, Woken, [Next]_vars
             PROVE  Woken'
  OBVIOUS
<1>1. timers \in Nat /\ channel \in Seq(Message) /\ epoch \in Nat
  BY DEF Sound, EntryOK, ChannelOK, AbortOK
<1>3. timers + 1 > 0
  BY <1>1
<1>4. CASE UNCHANGED <<status, waiting, timers, channel, open, at>>
  BY Zenon, <1>4 DEF Woken
<1>5. CASE Sends \/ flush_servers \/ abort_notifies_worker
  <2>1. /\ UNCHANGED <<status, waiting, timers, open, at>>
        /\ channel' = channel \/ \E m \in Message : channel' = Append(channel, m)
    <3>1. /\ UNCHANGED <<status, waiting, timers, open, at>>
          /\ \/ channel' = channel \/ channel' = Append(channel, FlushMsg)
             \/ channel' = Append(channel, Msg({}, epoch))
             \/ \E r \in Rows : channel' = Append(channel, Msg({r}, 0))
      BY Zenon, <1>5, SendsEnqueue DEF Enqueue, flush_servers, abort_notifies_worker, entry,
         worker
    <3>2. FlushMsg \in Message /\ Msg({}, epoch) \in Message
      BY Zenon, <1>1, MessageTypes
    <3>3. \A r \in Rows : Msg({r}, 0) \in Message
      BY MessageTypes
    <3>4. QED
      BY Zenon, <3>1, <3>2, <3>3
  <2>2. channel' = channel \/ channel' # <<>>
    BY <1>1, <2>1, Appended
  <2>3. QED
    BY Zenon, <2>1, <2>2 DEF Woken
<1>6. CASE \/ handle_abort_ack \/ handle_request_aborted \/ handle_response_aborted
           \/ handle_response_give_up \/ select_retry \/ select_compose \/ send_next
  <2>1. ~waiting' /\ status' \in Busy \cup {"None"}
    BY Zenon, <1>6 DEF handle_abort_ack, handle_request_aborted, handle_response_aborted,
       handle_response_give_up, select_retry, select_compose, send_next, RemoveEntry, SetEntry,
       Busy
  <2>2. QED
    BY Zenon, <2>1 DEF Woken, Busy
<1>7. CASE \/ handle_request \/ delete_reliable_requests_for_active
           \/ delete_all_active_requests_for \/ leave_work_loop \/ finish_response
           \/ finish_response_active
  <2>1. UNCHANGED <<waiting, timers>> /\ at' # "Loop"
    BY Zenon, <1>7 DEF handle_request, delete_reliable_requests_for_active,
       delete_all_active_requests_for, leave_work_loop, finish_response,
       finish_response_active, Goto, entry
  <2>2. QED
    BY Zenon, <2>1 DEF Woken
<1>8. CASE handle_response
  <2>1. UNCHANGED <<status, waiting, timers, channel, open>> /\ at = "Loop"
    BY Zenon, <1>8 DEF handle_response, entry
  <2>2. QED
    BY Zenon, <2>1 DEF Woken
<1>9. CASE mark_as_active_if_current \/ launch \/ startup_netburst
  <2>1. /\ status' \in Busy \cup {"None"} /\ timers' = timers
        /\ waiting' = waiting \/ waiting' = FALSE
    BY Zenon, <1>9 DEF mark_as_active_if_current, launch, startup_netburst, RemoveEntry, SetEntry,
       Backed, Booting, Busy, entry
  <2>2. waiting' => waiting
    BY Zenon, <2>1
  <2>3. QED
    BY Zenon, <2>1, <2>2 DEF Woken, Busy
<1>10. CASE select_refused
  <2>1. /\ UNCHANGED <<status, waiting>>
        /\ \/ timers' = timers + 1 \/ (timers' = timers /\ (waiting \/ status \in Busy))
    BY Zenon, <1>10 DEF select_refused, Busy, entry
  <2>2. QED
    BY Zenon, <1>3, <2>1 DEF Woken, Busy
<1>11. CASE handle_response_err
  <2>1. timers' = timers + 1
    BY Zenon, <1>11 DEF handle_response_err
  <2>2. QED
    BY Zenon, <1>3, <2>1 DEF Woken
<1>12. CASE handle_response_ok
  <2>1. \/ at' = "ActivateNext" /\ waiting' = waiting /\ timers' = timers
        \/ status' = "None" /\ waiting' = FALSE
        \/ timers' = timers + 1
    BY Zenon, <1>12 DEF handle_response_ok, Goto, RemoveEntry, SetEntry, entry
  <2>2. CASE at' = "ActivateNext" /\ waiting' = waiting /\ timers' = timers
    BY Zenon, <2>2 DEF Woken
  <2>3. CASE status' = "None" /\ waiting' = FALSE
    BY Zenon, <2>3 DEF Woken
  <2>4. CASE timers' = timers + 1
    BY Zenon, <1>3, <2>4 DEF Woken
  <2>5. QED
    BY Zenon, <2>1, <2>2, <2>3, <2>4
<1>13. CASE backoff_served
  <2>1. ~waiting' /\ UNCHANGED <<status, timers, channel, open, at>>
    BY <1>13 DEF backoff_served, worker
  <2>2. QED
    BY Zenon, <2>1 DEF Woken
<1>14. CASE reschedule_flush
  <2>1. UNCHANGED <<waiting, open>> /\ (waiting => timers' > 0)
    BY Zenon, <1>1, <1>14, FlushTimers DEF reschedule_flush, entry
  <2>2. open => channel' # <<>>
    <3> SUFFICES ASSUME open
                 PROVE  channel' # <<>>
      OBVIOUS
    <3>1. channel' = Append(channel, FlushMsg)
      BY Zenon, <1>14 DEF reschedule_flush
    <3>2. QED
      BY <1>1, <3>1, Appended, MessageTypes
  <2>3. QED
    BY Zenon, <2>1, <2>2 DEF Woken
<1>15. CASE interrupt
  <2>1. ~open' /\ UNCHANGED <<waiting, timers>>
    BY <1>15 DEF interrupt, entry
  <2>2. QED
    BY Zenon, <2>1 DEF Woken
<1>16. CASE restart \/ crash
  <2>1. ~waiting' /\ status' = "None"
    BY <1>16, StartsAgain DEF restart, crash, LoseMemory, SetEntry
  <2>2. QED
    BY Zenon, <2>1 DEF Woken
<1>17. QED
  BY Zenon, <1>4, <1>5, <1>6, <1>7, <1>8, <1>9, <1>10, <1>11, <1>12, <1>13, <1>14, <1>15, <1>16,
     WaitingSteps

\* What backs a busy destination and wakes a waiting one holds in every state of the sender.
LEMMA BackingHolds == Spec => [](Booting /\ Backed /\ Woken)
<1>1. Init => Booting /\ Backed /\ Woken
  <2> SUFFICES ASSUME Init
               PROVE  Booting /\ Backed /\ Woken
    OBVIOUS
  <2>1. status = "None" /\ ~waiting /\ at = "Loop"
    BY DEF Init
  <2>2. QED
    BY Zenon, <2>1 DEF Booting, Backed, Woken, Busy
<1>2. Sound /\ Booting /\ Backed /\ Woken /\ [Next]_vars => Booting' /\ Backed' /\ Woken'
  BY Zenon, BootingStep, BackedStep, WokenStep
<1>3. QED
  BY <1>1, <1>2, SoundHolds, PTL DEF Spec

\* A destination is never busy for nothing, whatever aborts, resumes, failures, shutdowns and
\* crashes come between the steps of handle_request and handle_response.
THEOREM NeverBusyForNothing == Spec => []BusyIsBacked
<1>1. Backed => BusyIsBacked
  BY Zenon DEF Backed, BusyIsBacked, AckOnItsWay, Busy
<1>2. QED
  BY <1>1, BackingHolds, PTL

\* A destination in a backoff or a cooldown is always looked at again: select_events_current
\* and handle_response schedule a flush, or a message is in the channel.
THEOREM NeverWaitsForNothing == Spec => []WaitingIsWoken
<1>1. Woken => WaitingIsWoken
  BY Zenon DEF Woken, WaitingIsWoken
<1>2. QED
  BY <1>1, BackingHolds, PTL

=============================================================================
