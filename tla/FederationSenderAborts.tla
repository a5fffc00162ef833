----------------------- MODULE FederationSenderAborts -----------------------
(***************************************************************************)
(* What an abort leaves behind, for any rows and limits of the federation  *)
(* sender: nothing is stored when it is complete, and what was read before *)
(* it is not sent after it.                                                *)
(*                                                                         *)
(* The second needs an abort to end what was under way before it returns.  *)
(* It does when the worker acknowledges it, so that theorem assumes aborts *)
(* whose wait is not cut short, or no abort at all.                        *)
(***************************************************************************)
EXTENDS FederationSenderProofs

\* An abort waits for the worker: it neither times out nor meets a shutdown or a crash.
AbortsWait == AbortBudget = 0 \/ (CrashBudget = 0 /\ ~AckTimeout)

-----------------------------------------------------------------------------
(* Aborted destinations *)

\* What the clearing after an abort has reached: nothing is added while the flag is up, so a
\* table that was cleared stays empty.
Cleared ==
    aborted =>
        /\ admin \in {"ClearQueued", "ClearReliable", "ClearAgain", "None"} => active = {}
        /\ admin \in {"ClearReliable", "ClearAgain", "None"} => queued = {}
        /\ admin \in {"ClearAgain", "None"} => reliable = {}

\* Who stores, moves or deletes rows, or moves an abort on.
LEMMA ClearingSteps ==
    ASSUME [Next]_vars
    PROVE  \/ UNCHANGED <<queued, active, reliable, aborted, admin>>
           \/ Sends \/ handle_request_aborted \/ mark_as_active_if_current
           \/ handle_response_aborted \/ delete_reliable_requests_for_active
           \/ delete_all_active_requests_for \/ send_next \/ finish_response
           \/ finish_response_active \/ startup_netburst \/ abort_destination
           \/ clear_destination_queue \/ resume_destination \/ abort_notifies_worker
           \/ abort_acknowledged \/ clear_tables \/ PurgeStep \/ restart \/ crash
BY Zenon DEF Next, Produce, WorkerStep, AdminCommand, AdminStep, Sends, flush_servers,
   handle_abort_ack, handle_request, select_refused, select_retry, select_compose, launch,
   handle_response, handle_response_err, handle_response_give_up, handle_response_ok,
   leave_work_loop, FutureStep, send_events, remote_processes, request_fails, request_succeeds,
   request_cancelled, backoff_served, reschedule_flush, interrupt, vars, tables, entry, worker,
   abort, purges, budgets, history

\* Every step keeps the cleared tables of an aborted destination empty.
LEMMA ClearedStep == Cleared /\ [Next]_vars => Cleared'
<1> SUFFICES ASSUME Cleared, [Next]_vars
             PROVE  Cleared'
  OBVIOUS
<1>1. CASE UNCHANGED <<queued, active, reliable, aborted, admin>>
  BY Zenon, <1>1 DEF Cleared
<1>2. ASSUME queued' \subseteq queued, active' \subseteq active, reliable' \subseteq reliable,
             UNCHANGED <<aborted, admin>>
      PROVE  Cleared'
  BY <1>2 DEF Cleared
<1>3. CASE Sends
  <2>1. ~aborted /\ aborted' = aborted
    BY Zenon, <1>3, SendsEnqueue DEF Enqueue, abort
  <2>2. QED
    BY Zenon, <2>1 DEF Cleared
<1>4. CASE mark_as_active_if_current \/ send_next
  <2>1. /\ UNCHANGED <<aborted, admin>>
        /\ ~aborted \/ UNCHANGED <<queued, active, reliable>>
    BY Zenon, <1>4 DEF mark_as_active_if_current, send_next, Current, tables, abort
  <2>2. QED
    BY Zenon, <2>1 DEF Cleared
<1>5. CASE \/ handle_request_aborted \/ handle_response_aborted \/ finish_response_active
           \/ delete_reliable_requests_for_active \/ delete_all_active_requests_for
  <2>1. /\ UNCHANGED <<aborted, admin>>
        /\ queued' \subseteq queued /\ active' \subseteq active /\ reliable' \subseteq reliable
    BY Zenon, <1>5 DEF handle_request_aborted, handle_response_aborted, finish_response_active,
       delete_reliable_requests_for_active, delete_all_active_requests_for, abort
  <2>2. QED
    BY Zenon, <1>2, <2>1
<1>6. CASE finish_response \/ startup_netburst \/ PurgeStep
  <2>1. /\ UNCHANGED <<aborted, admin>>
        /\ queued' \subseteq queued /\ active' \subseteq active /\ reliable' \subseteq reliable
    BY Zenon, <1>6 DEF finish_response, startup_netburst, Take, PurgeStep,
       delete_all_active_spawned, delete_all_queued_spawned, abort
  <2>2. QED
    BY Zenon, <1>2, <2>1
<1>7. CASE \/ abort_destination \/ clear_destination_queue \/ abort_notifies_worker
           \/ abort_acknowledged
  <2>1. admin' \in {"Flagged", "Waiting", "Clear"}
    BY Zenon, <1>7 DEF abort_destination, clear_destination_queue, abort_notifies_worker,
       abort_acknowledged
  <2>2. QED
    BY Zenon, <2>1 DEF Cleared
<1>8. CASE resume_destination \/ restart \/ crash
  <2>1. ~aborted'
    BY Zenon, <1>8 DEF resume_destination, restart, crash, LoseMemory
  <2>2. QED
    BY Zenon, <2>1 DEF Cleared
<1>9. CASE clear_tables
  BY Zenon, <1>9 DEF clear_tables, ClearStep, Cleared
<1>10. QED
  BY Zenon, <1>1, <1>3, <1>4, <1>5, <1>6, <1>7, <1>8, <1>9, ClearingSteps

\* The cleared tables of an aborted destination are empty in every state of the sender.
LEMMA ClearedHolds == Spec => []Cleared
<1>1. Init => Cleared
  BY Zenon DEF Init, Cleared
<1>2. QED
  BY <1>1, ClearedStep, PTL DEF Spec

\* Once abort_destination has returned, nothing is stored for the destination until it is
\* resumed, however the worker, the producers, spawned clean-ups and other clears interleave.
THEOREM AbortIsComplete == Spec => []AbortLeavesNothing
<1>1. Cleared => AbortLeavesNothing
  BY DEF Cleared, AbortLeavesNothing, Stored
<1>2. QED
  BY <1>1, ClearedHolds, PTL

-----------------------------------------------------------------------------
(* The transactions in flight *)

\* How a step changes the transactions of the present generation.
Added(new) == InFlight' = InFlight \cup {new} /\ new.phase = "Built"
Moved(f, new) ==
    /\ f \in InFlight /\ InFlight' = (InFlight \ {f}) \cup {new}
    /\ new.rows = f.rows

\* A new future belongs to the generation it was started under.
LEMMA PushFlight ==
    ASSUME NEW some_rows, NEW edus, Push(some_rows, edus, epoch), epoch' = epoch
    PROVE  \E new : Added(new) /\ new.rows = some_rows
<1> DEFINE new == Future(FreshId, some_rows, edus, epoch, "Built")
<1>1. /\ new.epoch = epoch /\ new.phase = "Built" /\ new.rows = some_rows
      /\ futures' = futures \cup {new}
  BY DEF Push, Future
<1> HIDE DEF new
<1>2. Added(new)
  BY <1>1 DEF Added, InFlight
<1>3. QED
  BY <1>1, <1>2

\* A future that moves on stays in its generation.
LEMMA BecomeFlight ==
    ASSUME NEW f \in futures, NEW phase, Become(f, phase), epoch' = epoch
    PROVE  \/ f \notin InFlight /\ InFlight' = InFlight
           \/ \E new : Moved(f, new) /\ new.phase = phase
<1> DEFINE new == Future(f.id, f.rows, f.edus, f.epoch, phase)
<1>1. /\ new.epoch = f.epoch /\ new.phase = phase /\ new.rows = f.rows
      /\ futures' = (futures \ {f}) \cup {new}
  BY DEF Become, Future
<1> HIDE DEF new
<1>2. CASE f.epoch # epoch
  BY <1>1, <1>2 DEF InFlight
<1>3. CASE f.epoch = epoch
  <2>1. Moved(f, new)
    BY <1>1, <1>3 DEF Moved, InFlight
  <2>2. QED
    BY <1>1, <2>1
<1>4. QED
  BY <1>2, <1>3

\* An abort leaves everything in flight to the generation before it.
LEMMA AbortFlight ==
    ASSUME Sound, abort_destination
    PROVE  InFlight' = {} /\ work_epoch' # epoch' /\ at' = at
<1>1. futures' = futures /\ epoch' = epoch + 1 /\ UNCHANGED <<at, work_epoch>>
  BY Zenon DEF abort_destination, worker
<1>2. epoch \in Nat /\ \A f \in futures : f.epoch \in Nat /\ f.epoch <= epoch
  BY DEF Sound, AbortOK, FuturesOK
<1>3. work_epoch \in Nat /\ work_epoch <= epoch
  BY DEF Sound, WorkerOK
<1>4. QED
  BY <1>1, <1>2, <1>3 DEF InFlight

\* Which steps change the transactions in flight, and how.
LEMMA FlightSteps ==
    ASSUME Sound, [Next]_vars
    PROVE  \/ InFlight' = InFlight /\ epoch' = epoch
           \/ launch /\ Current(work_epoch) /\ (\E new : Added(new) /\ new.rows = rows)
           \/ send_next /\ Current(work_epoch) /\ (\E new : Added(new) /\ new.rows = rows)
           \/ startup_netburst /\ (\E new : Added(new) /\ new.rows = active')
           \/ FutureStep /\ (\E f, new : Moved(f, new))
           \/ handle_response /\ (\E f \in InFlight : InFlight' = InFlight \ {f})
           \/ finish_response /\ (\E f \in InFlight : InFlight' = InFlight \ {f})
           \/ (abort_destination \/ restart \/ crash) /\ InFlight' = {}
<1>1. CASE UNCHANGED <<futures, epoch>>
  BY <1>1 DEF InFlight
<1>2. CASE Sends
  BY Zenon, <1>1, <1>2, SendsEnqueue DEF Enqueue, abort
<1>3. CASE launch
  <2>1. /\ epoch' = epoch
        /\ \/ UNCHANGED futures
           \/ Current(work_epoch) /\ (\E edus : Push(rows, edus, work_epoch))
    BY Zenon, <1>3 DEF launch, abort
  <2>2. QED
    BY Zenon, <1>1, <1>3, <2>1, PushFlight DEF Current
<1>4. CASE send_next
  <2>1. /\ epoch' = epoch
        /\ \/ UNCHANGED futures
           \/ Current(work_epoch) /\ Push(rows, FALSE, work_epoch)
    BY Zenon, <1>4 DEF send_next, abort
  <2>2. QED
    BY Zenon, <1>1, <1>4, <2>1, PushFlight DEF Current
<1>5. CASE startup_netburst
  <2>1. epoch' = epoch /\ (UNCHANGED futures \/ Push(active', FALSE, epoch))
    BY Zenon, <1>5 DEF startup_netburst, abort
  <2>2. QED
    BY Zenon, <1>1, <1>5, <2>1, PushFlight
<1>6. CASE FutureStep
  <2>1. PICK f \in futures, phase \in Phase : Become(f, phase) /\ epoch' = epoch
    BY Zenon, <1>6, FutureSteps DEF abort
  <2>2. QED
    BY Zenon, <1>6, <2>1, BecomeFlight
<1>7. CASE handle_response \/ finish_response
  <2>1. PICK f \in futures : futures' = futures \ {f} /\ epoch' = epoch
    BY Zenon, <1>7 DEF handle_response, finish_response, abort
  <2>2. InFlight' = InFlight \/ (f \in InFlight /\ InFlight' = InFlight \ {f})
    BY <2>1 DEF InFlight
  <2>3. QED
    BY Zenon, <1>7, <2>1, <2>2
<1>8. CASE abort_destination
  BY Zenon, <1>8, AbortFlight
<1>9. CASE restart \/ crash
  <2>1. InFlight' = {}
    BY SMTT(30), <1>9, StartsAgain DEF InFlight
  <2>2. QED
    BY Zenon, <1>9, <2>1
<1>10. QED
  BY Zenon, <1>1, <1>2, <1>3, <1>4, <1>5, <1>6, <1>7, <1>8, <1>9, FuturesSteps

-----------------------------------------------------------------------------
(* Aborts that wait for the worker *)

\* What the budgets rule out.
Spared ==
    /\ AbortBudget = 0 => ~aborted /\ admin \notin {"Flagged", "Waiting"}
    /\ CrashBudget = 0 => crashes = 0 /\ open /\ at \notin {"Boot", "Drain", "DrainActive"}

\* The worker's work of an older generation, which it is still to leave behind, goes with an
\* abort that the worker has not acknowledged.
Handling == Selecting \cup Settling
AckDue == aborted /\ (admin = "Flagged" \/ (admin = "Waiting" /\ acked # epoch))
Stale ==
    /\ aborted => InFlight = {} /\ (at \in Handling => work_epoch # epoch)
    /\ at \in Handling /\ work_epoch # epoch => AckDue

\* At most one abort is to be acknowledged, the present one.
Unacked ==
    /\ admin \in {"Flagged", "Waiting"} => aborted
    /\ admin = "Flagged" => acked # epoch
    /\ \A i \in DOMAIN channel :
         channel[i].abort_ack # 0 =>
             admin = "Waiting" /\ acked # epoch /\ channel[i].abort_ack = epoch
    /\ \A i, j \in DOMAIN channel :
         channel[i].abort_ack # 0 /\ channel[j].abort_ack # 0 => i = j

\* Who raises or lowers the abort flag, or ends the process.
LEMMA GenerationSteps ==
    ASSUME [Next]_vars
    PROVE  \/ UNCHANGED <<aborted, epoch, admin, acked, open, crashes>>
           \/ handle_abort_ack \/ abort_destination \/ clear_destination_queue
           \/ resume_destination \/ abort_notifies_worker \/ abort_acknowledged \/ clear_tables
           \/ interrupt \/ restart \/ crash
BY ZenonT(60) DEF Next, Produce, WorkerStep, AdminCommand, AdminStep, send_pdu_servers,
   send_edu_server, send_edu_servers, send_reliable_edu_server, Enqueue, flush_servers,
   handle_request_aborted, handle_request, select_refused, select_retry, select_compose,
   mark_as_active_if_current, launch, handle_response, handle_response_aborted,
   handle_response_err, handle_response_give_up, delete_reliable_requests_for_active,
   delete_all_active_requests_for, handle_response_ok, send_next, leave_work_loop,
   finish_response, finish_response_active, startup_netburst, FutureStep, send_events,
   remote_processes, request_fails, request_succeeds, request_cancelled, PurgeStep,
   delete_all_active_spawned, delete_all_queued_spawned, backoff_served, reschedule_flush, vars,
   tables, entry, worker, abort, purges, budgets, history

\* Without an abort in the budget no destination is ever aborted; without a crash no process
\* ever stops.
LEMMA SparedStep == Sound /\ Spared /\ [Next]_vars => Spared'
<1> SUFFICES ASSUME Sound, Spared, [Next]_vars
             PROVE  Spared'
  OBVIOUS
<1>1. ASSUME AbortBudget = 0
      PROVE  ~aborted' /\ admin' \notin {"Flagged", "Waiting"}
  <2>1. ~aborted /\ admin \notin {"Flagged", "Waiting"}
    BY Zenon, <1>1 DEF Spared
  <2>2. ~abort_destination
    <3>1. ~(aborts > 0)
      BY <1>1 DEF Sound, AbortOK
    <3>2. QED
      BY Zenon, <3>1 DEF abort_destination
  <2>3. aborted' = aborted \/ aborted' = FALSE
    BY Zenon, <2>2, GenerationSteps DEF handle_abort_ack, clear_destination_queue,
       resume_destination, abort_notifies_worker, abort_acknowledged, clear_tables, ClearStep,
       interrupt, restart, crash, LoseMemory, abort
  <2>4. admin' \notin {"Flagged", "Waiting"}
    BY Zenon, <2>1, <2>2, GenerationSteps DEF handle_abort_ack, clear_destination_queue,
       resume_destination, abort_notifies_worker, abort_acknowledged, clear_tables, ClearStep,
       interrupt, restart, crash, LoseMemory, abort
  <2>5. ~aborted'
    BY <2>1, <2>3
  <2>6. QED
    BY Zenon, <2>4, <2>5
<1>2. ASSUME CrashBudget = 0
      PROVE  crashes' = 0 /\ open' /\ at' \notin {"Boot", "Drain", "DrainActive"}
  <2>1. crashes = 0 /\ open /\ at \notin {"Boot", "Drain", "DrainActive"}
    BY Zenon, <1>2 DEF Spared
  <2>2. ~(crashes > 0)
    BY <2>1
  <2>3. ~interrupt /\ ~crash /\ ~restart
    BY Zenon, <2>1, <2>2 DEF interrupt, crash, restart
  <2>4. UNCHANGED <<open, crashes>>
    BY Zenon, <2>3, GenerationSteps DEF handle_abort_ack, abort_destination,
       clear_destination_queue, resume_destination, abort_notifies_worker, abort_acknowledged,
       clear_tables, ClearStep, budgets
  <2>5. at' \notin {"Boot", "Drain", "DrainActive"}
    BY Zenon, <2>1, <2>3, WorkerSteps, SendsEnqueue DEF Enqueue, handle_request, select_refused,
       select_retry, select_compose, mark_as_active_if_current, launch, handle_response,
       handle_response_aborted, handle_response_err, handle_response_give_up,
       delete_reliable_requests_for_active, delete_all_active_requests_for, handle_response_ok,
       send_next, leave_work_loop, finish_response, finish_response_active, startup_netburst,
       abort_destination, BackToLoop, Goto, worker
  <2>6. QED
    BY Zenon, <2>1, <2>4, <2>5
<1>3. QED
  BY Zenon, <1>1, <1>2 DEF Spared

\* Without aborts there is one generation.
LEMMA NoAborts ==
    ASSUME Sound, Spared, AbortBudget = 0
    PROVE  Stale /\ Unacked
<1>1. epoch = 0 /\ \A i \in DOMAIN channel : channel[i].abort_ack = 0
  <2>1. epoch = 0
    BY DEF Sound, AbortOK
  <2>2. ASSUME NEW i \in DOMAIN channel
        PROVE  channel[i].abort_ack = 0
    <3>1. channel[i] \in Message /\ channel[i].abort_ack <= epoch
      BY DEF Sound, ChannelOK
    <3>2. channel[i].abort_ack \in Nat
      BY <3>1 DEF Message
    <3>3. QED
      BY <2>1, <3>1, <3>2
  <2>3. QED
    BY <2>1, <2>2
<1>2. work_epoch = 0
  BY <1>1 DEF Sound, WorkerOK
<1>3. ~aborted /\ admin \notin {"Flagged", "Waiting"}
  BY Zenon DEF Spared
<1>4. QED
  BY Zenon, <1>1, <1>2, <1>3 DEF Stale, Unacked

\* Every step keeps the abort messages in order.
LEMMA UnackedStep ==
    ASSUME Sound, Unacked, [Next]_vars, open, ~AckTimeout
    PROVE  Unacked' \/ restart \/ crash
<1> DEFINE Held == /\ \A i \in DOMAIN channel :
                        channel[i].abort_ack # 0 =>
                            admin = "Waiting" /\ acked # epoch /\ channel[i].abort_ack = epoch
                   /\ \A i, j \in DOMAIN channel :
                        channel[i].abort_ack # 0 /\ channel[j].abort_ack # 0 => i = j
<1>1. channel \in Seq(Message) /\ epoch \in Nat /\ acked \in Nat /\ acked <= epoch
  BY DEF Sound, ChannelOK, AbortOK
<1>2. ASSUME UNCHANGED <<epoch, admin, acked>>,
             aborted' = aborted \/ (admin = "None" /\ aborted' = FALSE),
             \/ channel' = channel
             \/ \E m \in Message : m.abort_ack = 0 /\ channel' = Append(channel, m)
             \/ Receive /\ Head(channel).abort_ack = 0
      PROVE  Unacked'
  <2>1. Held'
    <3>1. CASE channel' = channel
      BY <1>2, <3>1 DEF Unacked
    <3>2. CASE \E m \in Message : m.abort_ack = 0 /\ channel' = Append(channel, m)
      BY <1>1, <1>2, <3>2, Appended DEF Unacked
    <3>3. CASE Receive /\ Head(channel).abort_ack = 0
      <4>1. \A i \in DOMAIN channel' :
              i \in Nat /\ i + 1 \in DOMAIN channel /\ channel'[i] = channel[i + 1]
        BY <1>1, <3>3, Received
      <4>2. QED
        BY <1>2, <4>1 DEF Unacked
    <3>4. QED
      BY Zenon, <1>2, <3>1, <3>2, <3>3
  <2>2. admin' \in {"Flagged", "Waiting"} => aborted'
    <3>1. CASE aborted' = aborted
      BY Zenon, <1>2, <3>1 DEF Unacked
    <3>2. CASE admin = "None"
      BY Zenon, <1>2, <3>2
    <3>3. QED
      BY Zenon, <1>2, <3>1, <3>2
  <2>3. QED
    BY Zenon, <1>2, <2>1, <2>2 DEF Unacked
<1>3. ASSUME channel' = channel, admin # "Waiting"
      PROVE  Held'
  BY <1>3 DEF Unacked
<1>4. CASE abort_destination
  <2>1. channel' = channel /\ admin = "None" /\ admin' = "Flagged" /\ aborted' = TRUE
    BY Zenon, <1>4 DEF abort_destination
  <2>2. acked' = acked /\ epoch' = epoch + 1
    BY Zenon, <1>4 DEF abort_destination
  <2>3. acked' # epoch'
    BY <1>1, <2>2
  <2>4. Held'
    BY <1>3, <2>1
  <2>5. QED
    BY Zenon, <2>1, <2>3, <2>4 DEF Unacked
<1>5. CASE abort_notifies_worker
  <2>1. /\ channel' = Append(channel, Msg({}, epoch)) /\ admin = "Flagged" /\ admin' = "Waiting"
        /\ UNCHANGED <<aborted, epoch, acked>>
    BY Zenon, <1>5 DEF abort_notifies_worker
  <2>2. Msg({}, epoch) \in Message /\ Msg({}, epoch).abort_ack = epoch
    BY Zenon, <1>1, MessageTypes
  <2>3. acked # epoch /\ \A i \in DOMAIN channel : channel[i].abort_ack = 0
    BY <2>1 DEF Unacked
  <2>4. Held'
    BY <1>1, <2>1, <2>2, <2>3, Appended
  <2>5. QED
    BY Zenon, <2>1, <2>4 DEF Unacked
<1>6. CASE handle_abort_ack
  <2>1. /\ Receive /\ Head(channel).abort_ack # 0 /\ acked' = Head(channel).abort_ack
        /\ UNCHANGED <<aborted, epoch, admin>>
    BY Zenon, <1>6 DEF handle_abort_ack
  <2>2. /\ 1 \in DOMAIN channel /\ Head(channel) = channel[1]
        /\ \A i \in DOMAIN channel' : i + 1 \in DOMAIN channel /\ channel'[i] = channel[i + 1]
        /\ \A i \in DOMAIN channel' : i + 1 # 1
    BY <1>1, <2>1, Received
  <2>3. admin = "Waiting" /\ \A i \in DOMAIN channel' : channel'[i].abort_ack = 0
    BY <2>1, <2>2 DEF Unacked
  <2>4. Held'
    BY <2>3
  <2>5. QED
    BY Zenon, <2>1, <2>3, <2>4 DEF Unacked
<1>7. CASE abort_acknowledged
  <2>1. /\ admin = "Waiting" /\ acked = epoch /\ admin' = "Clear"
        /\ UNCHANGED <<channel, epoch, acked>>
    BY Zenon, <1>7 DEF abort_acknowledged
  <2>2. Held'
    BY <2>1 DEF Unacked
  <2>3. QED
    BY Zenon, <2>1, <2>2 DEF Unacked
<1>8. CASE clear_destination_queue \/ clear_tables
  <2>1. admin \notin {"Flagged", "Waiting"} /\ admin' \notin {"Flagged", "Waiting"}
        /\ channel' = channel
    BY Zenon, <1>8 DEF clear_destination_queue, clear_tables, ClearStep
  <2>2. Held'
    BY <1>3, <2>1
  <2>3. QED
    BY Zenon, <2>1, <2>2 DEF Unacked
<1>9. CASE resume_destination \/ interrupt
  <2>1. /\ UNCHANGED <<epoch, admin, acked, channel>>
        /\ aborted' = aborted \/ (admin = "None" /\ aborted' = FALSE)
    BY Zenon, <1>9 DEF resume_destination, interrupt, abort
  <2>2. QED
    BY Zenon, <1>2, <2>1
<1>10. CASE UNCHANGED <<aborted, epoch, admin, acked, open, crashes>> /\ ~handle_abort_ack
            /\ ~abort_destination /\ ~abort_notifies_worker /\ ~restart /\ ~crash
  <2>1. \/ channel' = channel \/ channel' = Append(channel, FlushMsg)
        \/ \E r \in Rows : channel' = Append(channel, Msg({r}, 0))
        \/ Receive /\ Head(channel).abort_ack = 0
    BY Zenon, <1>10, ChannelSteps, SendsEnqueue DEF Enqueue, flush_servers,
       handle_request_aborted, handle_request, startup_netburst, reschedule_flush
  <2>2. FlushMsg \in Message /\ FlushMsg.abort_ack = 0
    BY MessageTypes
  <2>3. \A r \in Rows : Msg({r}, 0) \in Message /\ Msg({r}, 0).abort_ack = 0
    BY MessageTypes
  <2>4. \/ channel' = channel
        \/ \E m \in Message : m.abort_ack = 0 /\ channel' = Append(channel, m)
        \/ Receive /\ Head(channel).abort_ack = 0
    BY Zenon, <2>1, <2>2, <2>3
  <2>5. QED
    BY Zenon, <1>2, <1>10, <2>4
<1>11. QED
  BY Zenon, <1>4, <1>5, <1>6, <1>7, <1>8, <1>9, <1>10, GenerationSteps

\* Work starts under the present generation, and keeps the generation it started under.
LEMMA WorkStarts ==
    ASSUME [Next]_vars, at' \in Handling
    PROVE  \/ at \in Handling /\ work_epoch' = work_epoch
           \/ ~aborted /\ work_epoch' = epoch
           \/ InFlight # {} /\ work_epoch' = epoch
<1>1. {"Loop", "Boot", "Drain", "DrainActive"} \cap Handling = {}
  BY DEF Handling, Selecting, Settling
<1>2. at' \notin {"Loop", "Boot", "Drain", "DrainActive"}
  BY <1>1
<1>3. /\ at \in {"Select", "Activate"} => at \in Handling
      /\ at \in {"SettleOk", "CleanActive", "Refill"} => at \in Handling
  BY DEF Handling, Selecting, Settling
<1>4. CASE UNCHANGED <<at, work_epoch>>
  BY <1>4
<1>5. CASE handle_request
  BY Zenon, <1>5 DEF handle_request, Goto
<1>6. CASE handle_response
  BY Zenon, <1>2, <1>6 DEF handle_response, BackToLoop, Goto, InFlight
<1>7. CASE \/ select_retry \/ select_compose \/ mark_as_active_if_current
           \/ delete_reliable_requests_for_active \/ delete_all_active_requests_for
           \/ handle_response_ok
  <2>1. work_epoch' = work_epoch
    BY Zenon, <1>2, <1>7 DEF select_retry, select_compose, mark_as_active_if_current,
       delete_reliable_requests_for_active, delete_all_active_requests_for,
       handle_response_ok, BackToLoop, Goto
  <2>2. at \in Handling
    BY Zenon, <1>3, <1>7 DEF select_retry, select_compose, mark_as_active_if_current,
       delete_reliable_requests_for_active, delete_all_active_requests_for, handle_response_ok
  <2>3. QED
    BY <2>1, <2>2
<1>8. QED
  BY Zenon, <1>2, <1>4, <1>5, <1>6, <1>7, WorkerSteps, SendsEnqueue, StartsAgain
     DEF Enqueue, select_refused, launch, handle_response_aborted, handle_response_err,
         handle_response_give_up, send_next, leave_work_loop, finish_response,
         finish_response_active, startup_netburst, abort_destination, BackToLoop, Goto, worker

\* Every step keeps old work behind an abort that is to be acknowledged.
LEMMA StaleStep ==
    ASSUME Sound, Unacked, Stale, [Next]_vars, open, at # "Boot", ~AckTimeout
    PROVE  Stale' \/ restart \/ crash
<1>1. ASSUME InFlight = {}, aborted
      PROVE  InFlight' = {}
  <2>1. ~launch \/ ~Current(work_epoch)
    BY Zenon, <1>1 DEF Current
  <2>2. ~send_next \/ ~Current(work_epoch)
    BY Zenon, <1>1 DEF Current
  <2>3. ~startup_netburst
    BY Zenon DEF startup_netburst
  <2>4. \A f, new : ~Moved(f, new)
    BY <1>1 DEF Moved
  <2>5. QED
    BY Zenon, <1>1, <2>1, <2>2, <2>3, <2>4, FlightSteps
<1>2. CASE abort_destination
  <2>1. admin' = "Flagged" /\ aborted' = TRUE
    BY Zenon, <1>2 DEF abort_destination
  <2>2. AckDue'
    BY <2>1 DEF AckDue
  <2>3. QED
    BY Zenon, <1>2, <2>2, AbortFlight DEF Stale
<1>3. CASE handle_abort_ack
  <2>1. at' = "Loop" /\ aborted' = aborted
    BY Zenon, <1>3 DEF handle_abort_ack, Receive, worker
  <2>2. at' \notin Handling
    BY <2>1 DEF Handling, Selecting, Settling
  <2>3. QED
    BY Zenon, <1>1, <2>1, <2>2 DEF Stale
<1>4. CASE abort_acknowledged \/ clear_destination_queue \/ clear_tables \/ resume_destination
  <2>1. /\ UNCHANGED <<at, work_epoch, epoch, futures>> /\ ~AckDue
    BY Zenon, <1>4 DEF abort_acknowledged, clear_destination_queue, clear_tables, ClearStep,
       resume_destination, worker, AckDue
  <2>2. aborted' = aborted \/ aborted' = FALSE
    BY Zenon, <1>4 DEF abort_acknowledged, clear_destination_queue, clear_tables, ClearStep,
       resume_destination
  <2>3. aborted' => aborted
    BY Zenon, <2>2
  <2>4. InFlight' = InFlight
    BY <2>1 DEF InFlight
  <2>5. QED
    BY Zenon, <2>1, <2>3, <2>4 DEF Stale
<1>5. CASE abort_notifies_worker
  <2>1. UNCHANGED <<at, work_epoch, epoch, futures, aborted, acked>>
        /\ admin = "Flagged" /\ admin' = "Waiting"
    BY Zenon, <1>5 DEF abort_notifies_worker, worker
  <2>2. InFlight' = InFlight
    BY <2>1 DEF InFlight
  <2>3. AckDue => AckDue'
    BY Zenon, <2>1 DEF AckDue, Unacked
  <2>4. QED
    BY Zenon, <2>1, <2>2, <2>3 DEF Stale
<1>6. CASE UNCHANGED <<aborted, epoch, admin, acked>>
  <2>1. AckDue => AckDue'
    BY Zenon, <1>6 DEF AckDue
  <2>2. QED
    BY Zenon, <1>1, <1>6, <2>1, WorkStarts DEF Stale
<1>7. CASE interrupt
  BY Zenon, <1>6, <1>7 DEF interrupt, abort
<1>8. QED
  BY Zenon, <1>2, <1>3, <1>4, <1>5, <1>6, <1>7, GenerationSteps

\* While an abort waits for the worker, the worker's old work ends before the abort does.
LEMMA AbortsHold ==
    ASSUME AbortsWait
    PROVE  Spec => [](Spared /\ Stale /\ Unacked)
<1> DEFINE Sheltered == CrashBudget = 0 /\ ~AckTimeout
           Inv == Spared /\ (Sheltered => Stale /\ Unacked)
<1>1. Init => Inv
  <2> SUFFICES ASSUME Init
               PROVE  Spared /\ Stale /\ Unacked
    OBVIOUS
  <2>1. channel = <<>> /\ DOMAIN <<>> = {}
    BY DEF Init
  <2>2. ~aborted /\ open /\ admin = "None" /\ at = "Loop" /\ crashes = CrashBudget
    BY DEF Init
  <2>3. at \notin Handling
    BY <2>2 DEF Handling, Selecting, Settling
  <2>4. QED
    BY Zenon, <2>1, <2>2, <2>3 DEF Spared, Stale, Unacked
<1>2. Sound /\ Inv /\ [Next]_vars => Inv'
  <2> SUFFICES ASSUME Sound, Inv, [Next]_vars
               PROVE  Inv'
    OBVIOUS
  <2>1. Spared'
    BY Zenon, SparedStep
  <2>2. ASSUME Sheltered
        PROVE  Stale' /\ Unacked'
    <3>1. open /\ at # "Boot" /\ at' # "Boot"
      BY Zenon, <2>1, <2>2 DEF Spared
    <3>2. ~restart /\ ~crash
      BY Zenon, <3>1, StartsAgain
    <3>3. QED
      BY Zenon, <2>2, <3>1, <3>2, UnackedStep, StaleStep
  <2>3. QED
    BY Zenon, <2>1, <2>2
<1>3. Sound /\ Inv => Spared /\ Stale /\ Unacked
  BY ZenonT(60), NoAborts DEF AbortsWait
<1> HIDE DEF Inv
<1>4. QED
  BY <1>1, <1>2, <1>3, SoundHolds, PTL DEF Spec

-----------------------------------------------------------------------------
(* Old work *)

\* The rows of a set were produced under the present generation.
Fresh(some_rows) == \A r \in some_rows : row_epoch[r] = epoch

\* No row is from a generation to come.
Dated == row_epoch \in [Rows -> Nat] /\ \A r \in Rows : row_epoch[r] <= epoch

\* Rows from before an abort are in the tables while the flag is up, and in the channel until
\* the abort is acknowledged: the acknowledgement comes behind them, and nothing with a row
\* behind it.
FreshTables == ~aborted => Fresh(Stored)
FreshChannel ==
    /\ ~AckDue => \A i \in DOMAIN channel : Fresh(channel[i].rows)
    /\ \A i, j \in DOMAIN channel : channel[i].abort_ack # 0 /\ i < j => channel[j].rows = {}
FreshWorker == at \in Handling /\ work_epoch = epoch => Fresh(msg_rows) /\ Fresh(rows)
FreshFlight == \A f \in InFlight : Fresh(f.rows)

\* Who dates rows or starts a generation.
LEMMA DateSteps ==
    ASSUME [Next]_vars
    PROVE  \/ UNCHANGED <<row_epoch, epoch>>
           \/ Sends \/ abort_destination \/ restart \/ crash
BY ZenonT(60) DEF Next, Produce, WorkerStep, AdminCommand, AdminStep, Sends, flush_servers,
   handle_abort_ack, handle_request_aborted, handle_request, select_refused, select_retry,
   select_compose, mark_as_active_if_current, launch, handle_response, handle_response_aborted,
   handle_response_err, handle_response_give_up, delete_reliable_requests_for_active,
   delete_all_active_requests_for, handle_response_ok, send_next, leave_work_loop,
   finish_response, finish_response_active, startup_netburst, FutureStep, send_events,
   remote_processes, request_fails, request_succeeds, request_cancelled,
   clear_destination_queue, resume_destination, abort_notifies_worker, abort_acknowledged,
   clear_tables, ClearStep, PurgeStep, delete_all_active_spawned, delete_all_queued_spawned,
   backoff_served, reschedule_flush, interrupt, vars, tables, entry, worker, abort, purges,
   budgets, history

\* Every step dates rows by the present generation.
LEMMA DatedStep == Sound /\ Dated /\ [Next]_vars => Dated'
<1> SUFFICES ASSUME Sound, Dated, [Next]_vars
             PROVE  Dated'
  OBVIOUS
<1>1. epoch \in Nat
  BY DEF Sound, AbortOK
<1>2. CASE UNCHANGED <<row_epoch, epoch>>
  BY Zenon, <1>2 DEF Dated
<1>3. CASE Sends
  <2>1. \E r \in Rows : row_epoch' = [row_epoch EXCEPT ![r] = epoch] /\ epoch' = epoch
    BY Zenon, <1>3, SendsEnqueue DEF Enqueue, abort
  <2>2. QED
    BY <1>1, <2>1 DEF Dated
<1>4. CASE abort_destination
  <2>1. row_epoch' = row_epoch /\ epoch' = epoch + 1
    BY Zenon, <1>4 DEF abort_destination, history
  <2>2. QED
    BY <1>1, <2>1 DEF Dated
<1>5. CASE restart \/ crash
  <2>1. row_epoch' = [r \in Rows |-> 0] /\ epoch' = 0
    BY Zenon, <1>5, StartsAgain DEF restart, crash, LoseMemory
  <2>2. QED
    BY <2>1 DEF Dated
<1>6. QED
  BY Zenon, <1>2, <1>3, <1>4, <1>5, DateSteps

\* A row that is sent is dated by the present generation, and the date of others stays.
LEMMA SendsDate ==
    ASSUME Dated, Sends, NEW some_rows \in SUBSET Rows, Fresh(some_rows)
    PROVE  /\ \A r \in some_rows : row_epoch'[r] = epoch'
           /\ \A r \in produced' \ produced : row_epoch'[r] = epoch'
<1>1. PICK r \in Rows : /\ row_epoch' = [row_epoch EXCEPT ![r] = epoch] /\ epoch' = epoch
                        /\ produced' = produced \cup {r}
  BY Zenon, SendsEnqueue DEF Enqueue, abort
<1>2. QED
  BY <1>1 DEF Dated, Fresh

\* Every step keeps old rows out of the tables of a destination that is not aborted.
LEMMA FreshTablesStep ==
    ASSUME Sound, Sound', Dated, Cleared, Stale, FreshTables, FreshWorker, [Next]_vars,
           ~restart, ~crash
    PROVE  FreshTables'
<1> SUFFICES ASSUME ~aborted'
             PROVE  \A r \in Stored' : row_epoch'[r] = epoch'
  BY DEF FreshTables, Fresh
<1>1. ~abort_destination
  <2>1. abort_destination => aborted' = TRUE
    BY Zenon DEF abort_destination
  <2>2. QED
    BY <2>1
<1>2. CASE Sends
  <2>1. ~aborted /\ Stored' \subseteq Stored \cup (produced' \ produced)
    <3>1. PICK r \in Rows : /\ r \notin produced /\ produced' = produced \cup {r} /\ ~aborted
                            /\ active' = active
                            /\ \/ queued' = queued \cup {r} /\ reliable' = reliable
                               \/ reliable' = reliable \cup {r} /\ queued' = queued
      BY Zenon, <1>2, SendsEnqueue DEF Enqueue
    <3>2. QED
      BY <3>1 DEF Stored
  <2>2. Stored \subseteq Rows /\ Fresh(Stored)
    BY <2>1 DEF Sound, TablesOK, FreshTables
  <2>3. QED
    BY <1>2, <2>1, <2>2, SendsDate
<1>3. ASSUME UNCHANGED <<row_epoch, epoch>>, ~aborted, Stored' \subseteq Stored
      PROVE  \A r \in Stored' : row_epoch'[r] = epoch'
  BY <1>3 DEF FreshTables, Fresh
<1>4. CASE resume_destination
  <2>1. aborted /\ admin = "None" /\ UNCHANGED <<queued, active, reliable>>
    BY Zenon, <1>4 DEF resume_destination, tables
  <2>2. queued = {} /\ active = {} /\ reliable = {}
    BY Zenon, <2>1 DEF Cleared
  <2>3. QED
    BY <2>1, <2>2 DEF Stored
<1>5. CASE mark_as_active_if_current \/ send_next
  <2>1. /\ at \in {"Activate", "ActivateNext"} /\ UNCHANGED <<row_epoch, epoch, aborted>>
        /\ \/ UNCHANGED <<queued, active, reliable>>
           \/ /\ work_epoch = epoch /\ active' = active \cup rows
              /\ queued' = queued \ rows /\ reliable' = reliable
    BY Zenon, <1>5 DEF mark_as_active_if_current, send_next, mark_as_active, Current, tables,
       abort, history
  <2>2. at \in Handling
    BY <2>1 DEF Handling, Selecting, Settling
  <2>3. CASE UNCHANGED <<queued, active, reliable>>
    BY <1>3, <2>1, <2>3 DEF Stored
  <2>4. CASE /\ work_epoch = epoch /\ active' = active \cup rows
             /\ queued' = queued \ rows /\ reliable' = reliable
    <3>1. Fresh(rows) /\ Fresh(Stored)
      BY Zenon, <2>1, <2>2, <2>4 DEF FreshWorker, FreshTables
    <3>2. Stored' \subseteq Stored \cup rows
      BY <2>4 DEF Stored
    <3>3. QED
      BY <2>1, <3>1, <3>2 DEF Fresh
  <2>5. QED
    BY Zenon, <2>1, <2>3, <2>4
<1>6. CASE ~Sends /\ ~mark_as_active_if_current /\ ~send_next /\ ~resume_destination
  <2>1. UNCHANGED <<row_epoch, epoch>>
    BY Zenon, <1>1, <1>6, DateSteps
  <2>2. aborted' = aborted
    BY Zenon, <1>1, <1>6, GenerationSteps DEF handle_abort_ack, clear_destination_queue,
       abort_notifies_worker, abort_acknowledged, clear_tables, ClearStep, interrupt, abort
  <2>3. queued' \subseteq queued /\ active' \subseteq active /\ reliable' \subseteq reliable
    BY Zenon, <1>6, TablesSteps DEF handle_request_aborted, handle_response_aborted,
       handle_response_give_up, delete_reliable_requests_for_active,
       delete_all_active_requests_for, finish_response, finish_response_active,
       startup_netburst, Take, FutureStep, send_events, remote_processes, request_fails,
       request_succeeds, request_cancelled, clear_tables, PurgeStep,
       delete_all_active_spawned, delete_all_queued_spawned, tables
  <2>4. QED
    BY <1>3, <2>1, <2>2, <2>3 DEF Stored
<1>7. QED
  BY Zenon, <1>2, <1>4, <1>5, <1>6

\* Every step keeps old messages ahead of the abort that is to be acknowledged.
LEMMA FreshChannelStep ==
    ASSUME Sound, Dated, Unacked, FreshChannel, [Next]_vars, open, ~AckTimeout, ~restart, ~crash
    PROVE  FreshChannel'
<1>1. channel \in Seq(Message) /\ epoch \in Nat /\ Len(channel) \in Nat
      /\ DOMAIN channel = 1..Len(channel)
  BY DEF Sound, ChannelOK, AbortOK
<1>2. ASSUME UNCHANGED <<row_epoch, epoch>>, AckDue => AckDue',
             \/ channel' = channel
             \/ channel' = Append(channel, FlushMsg)
             \/ Receive
      PROVE  FreshChannel'
  <2>1. CASE channel' = channel
    BY <1>2, <2>1 DEF FreshChannel, Fresh
  <2>2. CASE channel' = Append(channel, FlushMsg)
    <3>1. FlushMsg \in Message /\ FlushMsg.abort_ack = 0 /\ FlushMsg.rows = {}
      BY MessageTypes
    <3>2. /\ DOMAIN channel' = 1..(Len(channel) + 1)
          /\ \A i \in 1..Len(channel) : channel'[i] = channel[i]
          /\ channel'[Len(channel) + 1] = FlushMsg
      BY <1>1, <2>2, <3>1, Appended
    <3>3. \A i \in DOMAIN channel' :
            (i \in DOMAIN channel /\ channel'[i] = channel[i]) \/ channel'[i] = FlushMsg
      BY <1>1, <3>2
    <3>4. QED
      BY <1>2, <3>1, <3>3 DEF FreshChannel, Fresh
  <2>3. CASE Receive
    <3>1. \A i \in DOMAIN channel' :
            i \in Nat /\ i + 1 \in DOMAIN channel /\ channel'[i] = channel[i + 1]
      BY <1>1, <2>3, Received
    <3>2. QED
      BY SMTT(30), <1>2, <3>1 DEF FreshChannel, Fresh
  <2>4. QED
    BY Zenon, <1>2, <2>1, <2>2, <2>3
<1>3. ASSUME admin # "Waiting"
      PROVE  \A i \in DOMAIN channel : channel[i].abort_ack = 0
  BY <1>3 DEF Unacked
<1>4. CASE Sends
  <2>1. ~aborted /\ aborted' = aborted /\ admin # "Waiting"
    BY Zenon, <1>4, SendsEnqueue DEF Enqueue, abort, Unacked
  <2>2. \A i \in DOMAIN channel : Fresh(channel[i].rows) /\ channel[i].rows \in SUBSET Rows
    <3>1. \A i \in DOMAIN channel : channel[i] \in Message
      BY <1>1
    <3>2. \A i \in DOMAIN channel : Fresh(channel[i].rows)
      BY Zenon, <2>1 DEF FreshChannel, AckDue
    <3>3. QED
      BY <3>1, <3>2 DEF Message
  <2>3. \A i \in DOMAIN channel : \A r \in channel[i].rows : row_epoch'[r] = epoch'
    BY <1>4, <2>2, SendsDate
  <2>4. \/ channel' = channel
        \/ \E r \in produced' \ produced :
             r \in Rows /\ row_epoch'[r] = epoch' /\ channel' = Append(channel, Msg({r}, 0))
    <3>1. PICK r \in Rows : /\ r \notin produced /\ produced' = produced \cup {r}
                            /\ channel' = channel \/ channel' = Append(channel, Msg({r}, 0))
      BY Zenon, <1>4, SendsEnqueue DEF Enqueue
    <3>2. r \in produced' \ produced /\ Fresh({}) /\ {} \in SUBSET Rows
      BY <3>1 DEF Fresh
    <3>3. row_epoch'[r] = epoch'
      BY <1>4, <3>2, SendsDate
    <3>4. QED
      BY Zenon, <3>1, <3>2, <3>3
  <2>5. CASE channel' = channel
    BY SMTT(30), <1>3, <2>1, <2>3, <2>5 DEF FreshChannel, Fresh
  <2>6. ASSUME NEW r \in Rows, row_epoch'[r] = epoch', channel' = Append(channel, Msg({r}, 0))
        PROVE  FreshChannel'
    <3>1. Msg({r}, 0) \in Message /\ Msg({r}, 0).abort_ack = 0 /\ Msg({r}, 0).rows = {r}
      BY MessageTypes
    <3>2. /\ DOMAIN channel' = 1..(Len(channel) + 1)
          /\ \A i \in 1..Len(channel) : channel'[i] = channel[i]
          /\ channel'[Len(channel) + 1] = Msg({r}, 0)
      BY <1>1, <2>6, <3>1, Appended
    <3>3. \A i \in DOMAIN channel' :
            (i \in DOMAIN channel /\ channel'[i] = channel[i]) \/ channel'[i] = Msg({r}, 0)
      BY <1>1, <3>2
    <3>4. QED
      BY Zenon, <1>3, <2>1, <2>3, <2>6, <3>1, <3>3 DEF FreshChannel, Fresh
  <2>7. QED
    BY Zenon, <2>4, <2>5, <2>6
<1>5. CASE abort_destination
  <2>1. admin' = "Flagged" /\ aborted' = TRUE /\ admin = "None" /\ channel' = channel
    BY Zenon, <1>5 DEF abort_destination
  <2>2. AckDue'
    BY <2>1 DEF AckDue
  <2>3. QED
    BY <1>3, <2>1, <2>2 DEF FreshChannel
<1>6. CASE abort_notifies_worker
  <2>1. /\ admin = "Flagged" /\ admin' = "Waiting" /\ UNCHANGED <<epoch, acked, aborted>>
        /\ channel' = Append(channel, Msg({}, epoch))
    BY Zenon, <1>6 DEF abort_notifies_worker
  <2>2. AckDue'
    BY Zenon, <2>1 DEF AckDue, Unacked
  <2>3. Msg({}, epoch) \in Message /\ Msg({}, epoch).rows = {}
    BY Zenon, <1>1, MessageTypes
  <2>4. /\ DOMAIN channel' = 1..(Len(channel) + 1)
        /\ \A i \in 1..Len(channel) : channel'[i] = channel[i]
        /\ channel'[Len(channel) + 1] = Msg({}, epoch)
    BY <1>1, <2>1, <2>3, Appended
  <2>5. \A i \in DOMAIN channel' :
          \/ i \in DOMAIN channel /\ channel'[i].abort_ack = 0
          \/ channel'[i].rows = {} /\ i = Len(channel) + 1
    BY <1>1, <1>3, <2>1, <2>3, <2>4
  <2>6. \A i, j \in DOMAIN channel' : channel'[i].abort_ack # 0 /\ i < j => channel'[j].rows = {}
    BY <1>1, <2>4, <2>5
  <2>7. QED
    BY Zenon, <2>2, <2>6 DEF FreshChannel
<1>7. CASE handle_abort_ack
  <2>1. Receive /\ Head(channel).abort_ack # 0
    BY Zenon, <1>7 DEF handle_abort_ack
  <2>2. /\ 1 \in DOMAIN channel /\ channel[1].abort_ack # 0
        /\ \A i \in DOMAIN channel' :
             i + 1 \in DOMAIN channel /\ 1 < i + 1 /\ channel'[i] = channel[i + 1]
    BY SMTT(30), <1>1, <2>1, Received
  <2>3. \A i \in DOMAIN channel' : channel'[i].rows = {}
    BY <2>2 DEF FreshChannel
  <2>4. QED
    BY <2>3 DEF FreshChannel, Fresh
<1>8. CASE /\ ~Sends /\ ~abort_destination /\ ~abort_notifies_worker /\ ~handle_abort_ack
  <2>1. UNCHANGED <<row_epoch, epoch>>
    BY Zenon, <1>8, DateSteps
  <2>2. AckDue => AckDue'
    BY Zenon, <1>8, GenerationSteps DEF AckDue, clear_destination_queue, abort_acknowledged,
       clear_tables, ClearStep, resume_destination, interrupt, abort
  <2>3. channel' = channel \/ channel' = Append(channel, FlushMsg) \/ Receive
    BY Zenon, <1>8, ChannelSteps DEF flush_servers, handle_request_aborted, handle_request,
       startup_netburst, reschedule_flush
  <2>4. QED
    BY SMTT(30), <1>2, <2>1, <2>2, <2>3
<1>9. QED
  BY Zenon, <1>4, <1>5, <1>6, <1>7, <1>8

\* Every step keeps old rows out of the worker's work of the present generation.
LEMMA FreshWorkerStep ==
    ASSUME Sound, Dated, Stale, FreshTables, FreshChannel, FreshWorker, [Next]_vars,
           ~restart, ~crash
    PROVE  FreshWorker'
<1> SUFFICES ASSUME at' \in Handling, work_epoch' = epoch'
             PROVE  (\A r \in msg_rows' : row_epoch'[r] = epoch')
                    /\ (\A r \in rows' : row_epoch'[r] = epoch')
  BY DEF FreshWorker, Fresh
<1>1. at' \notin {"Loop", "Boot", "Drain", "DrainActive"}
  BY DEF Handling, Selecting, Settling
<1>2. ~abort_destination
  BY Zenon, AbortFlight
<1>3. CASE Sends
  <2>1. UNCHANGED <<at, msg_rows, rows, work_epoch, epoch>>
    BY Zenon, <1>3, SendsEnqueue DEF Enqueue, worker, abort
  <2>2. Fresh(msg_rows) /\ Fresh(rows)
    BY Zenon, <2>1 DEF FreshWorker
  <2>3. msg_rows \in SUBSET Rows /\ rows \in SUBSET Rows
    BY DEF Sound, TablesOK, WorkerOK
  <2>4. QED
    BY <1>3, <2>1, <2>2, <2>3, SendsDate
<1>4. CASE ~Sends
  <2>1. UNCHANGED <<row_epoch, epoch>>
    BY Zenon, <1>2, <1>4, DateSteps
  <2>2. ASSUME at \in Handling, work_epoch' = work_epoch
        PROVE  Fresh(msg_rows) /\ Fresh(rows) /\ Fresh(Stored)
    BY Zenon, <2>1, <2>2 DEF FreshWorker, FreshTables, Stale
  <2>3. ASSUME at \in Handling, work_epoch' = work_epoch, msg_rows' \subseteq msg_rows,
               rows' \subseteq rows \cup msg_rows \cup Stored
        PROVE  (\A r \in msg_rows' : row_epoch'[r] = epoch')
               /\ (\A r \in rows' : row_epoch'[r] = epoch')
    BY <2>1, <2>2, <2>3 DEF Fresh
  <2>4. CASE UNCHANGED <<at, msg_rows, rows, work_epoch>>
    BY Zenon, <2>1, <2>2, <2>4 DEF Fresh
  <2>5. CASE handle_request
    <3>1. /\ Receive /\ ~aborted /\ msg_rows' = Head(channel).rows /\ rows' = {}
      BY Zenon, <1>1, <2>5 DEF handle_request, Goto
    <3>2. channel \in Seq(Message)
      BY DEF Sound, ChannelOK
    <3>3. 1 \in DOMAIN channel /\ Head(channel) = channel[1]
      BY <3>1, <3>2, Received
    <3>4. Fresh(Head(channel).rows)
      BY Zenon, <3>1, <3>3 DEF FreshChannel, AckDue
    <3>5. QED
      BY <2>1, <3>1, <3>4 DEF Fresh
  <2>6. CASE select_retry \/ select_compose
    <3>1. /\ at = "Select" /\ work_epoch' = work_epoch /\ msg_rows' = msg_rows
          /\ rows' \subseteq msg_rows \cup queued \cup reliable \/ rows' = active
      BY Zenon, <2>6, SelectionTypes DEF select_retry, select_compose, Goto
    <3>2. at \in Handling
      BY <3>1 DEF Handling, Selecting
    <3>3. rows' \subseteq rows \cup msg_rows \cup Stored
      BY <3>1 DEF Stored
    <3>4. QED
      BY <2>3, <3>1, <3>2, <3>3
  <2>7. CASE handle_response_ok
    <3>1. /\ at = "Refill" /\ work_epoch' = work_epoch /\ msg_rows' = {}
          /\ rows' \subseteq queued \cup reliable
      BY Zenon, <1>1, <2>7 DEF handle_response_ok, BackToLoop, Goto, Batches
    <3>2. at \in Handling
      BY <3>1 DEF Handling, Settling
    <3>3. rows' \subseteq rows \cup msg_rows \cup Stored
      BY <3>1 DEF Stored
    <3>4. QED
      BY <2>3, <3>1, <3>2, <3>3
  <2>8. CASE mark_as_active_if_current
    <3>1. /\ at = "Activate" /\ work_epoch' = work_epoch /\ msg_rows' = msg_rows /\ rows' = rows
      BY Zenon, <1>1, <2>8 DEF mark_as_active_if_current, BackToLoop, Goto
    <3>2. at \in Handling
      BY <3>1 DEF Handling, Selecting
    <3>3. QED
      BY <2>3, <3>1, <3>2
  <2>9. CASE \/ handle_response \/ delete_reliable_requests_for_active
             \/ delete_all_active_requests_for
    <3>1. msg_rows' = {} /\ rows' = {}
      BY Zenon, <2>9 DEF handle_response, delete_reliable_requests_for_active,
         delete_all_active_requests_for, BackToLoop, Goto
    <3>2. QED
      BY <3>1
  <2>10. QED
    BY Zenon, <1>1, <1>2, <1>4, <2>4, <2>5, <2>6, <2>7, <2>8, <2>9, WorkerSteps, StartsAgain
       DEF select_refused, launch, handle_response_aborted, handle_response_err,
           handle_response_give_up, send_next, leave_work_loop, finish_response,
           finish_response_active, startup_netburst, BackToLoop, Goto
<1>5. QED
  BY Zenon, <1>3, <1>4

\* Every step keeps old rows out of the transactions in flight.
LEMMA FreshFlightStep ==
    ASSUME Sound, Dated, FreshWorker, FreshFlight, [Next]_vars, at # "Boot"
    PROVE  FreshFlight'
<1> SUFFICES ASSUME NEW f \in InFlight'
             PROVE  \A r \in f.rows : row_epoch'[r] = epoch'
  BY DEF FreshFlight, Fresh
<1>1. CASE Sends
  <2>1. futures' = futures /\ epoch' = epoch
    BY Zenon, <1>1, SendsEnqueue DEF Enqueue, abort
  <2>2. f \in InFlight /\ f \in futures
    BY <2>1 DEF InFlight
  <2>3. f.rows \in SUBSET Rows /\ Fresh(f.rows)
    BY <2>2 DEF Sound, TablesOK, FuturesOK, FreshFlight
  <2>4. QED
    BY <1>1, <2>3, SendsDate
<1>2. CASE ~Sends /\ InFlight' # {}
  <2>1. ~abort_destination /\ ~restart /\ ~crash
    <3>1. restart \/ crash => futures' = {}
      BY Zenon DEF restart, crash, LoseMemory
    <3>2. ~restart /\ ~crash
      BY <1>2, <3>1 DEF InFlight
    <3>3. QED
      BY Zenon, <1>2, <3>2, AbortFlight
  <2>2. UNCHANGED <<row_epoch, epoch>>
    BY Zenon, <1>2, <2>1, DateSteps
  <2>3. CASE \E g \in InFlight : f.rows = g.rows
    BY <2>2, <2>3 DEF FreshFlight, Fresh
  <2>4. CASE \E g, new : Moved(g, new)
    BY <2>3, <2>4 DEF Moved
  <2>5. CASE \E g \in InFlight : InFlight' = InFlight \ {g}
    BY <2>3, <2>5
  <2>6. CASE /\ launch \/ send_next
             /\ Current(work_epoch) /\ (\E new : Added(new) /\ new.rows = rows)
    <3>1. at \in {"Launch", "LaunchRetry", "ActivateNext"} /\ work_epoch = epoch
      BY Zenon, <2>6 DEF launch, send_next, Current
    <3>2. at \in Handling
      BY <3>1 DEF Handling, Selecting, Settling
    <3>3. Fresh(rows)
      BY Zenon, <3>1, <3>2 DEF FreshWorker
    <3>4. f \in InFlight \/ f.rows = rows
      BY <2>6 DEF Added
    <3>5. QED
      BY <2>2, <2>3, <3>3, <3>4 DEF Fresh
  <2>7. ~startup_netburst
    BY Zenon DEF startup_netburst
  <2>8. QED
    BY Zenon, <2>1, <2>3, <2>4, <2>5, <2>6, <2>7, FlightSteps
<1>3. QED
  BY <1>1, <1>2

\* Nothing of the present generation is older than it.
FreshWork == FreshTables /\ FreshChannel /\ FreshWorker /\ FreshFlight

\* With no abort every row is of the one generation.
LEMMA OneGeneration ==
    ASSUME Sound, Dated, AbortBudget = 0
    PROVE  FreshFlight
<1>1. epoch = 0
  BY DEF Sound, AbortOK
<1>2. \A f \in InFlight : f.rows \in SUBSET Rows
  BY DEF Sound, TablesOK, FuturesOK, InFlight
<1>3. QED
  BY <1>1, <1>2 DEF Dated, FreshFlight, Fresh

\* Work from before an abort is not started after it: what is on the wire under the present
\* generation was queued in it, provided an abort waits for the worker.
THEOREM OldWorkEnds ==
    ASSUME AbortsWait
    PROVE  Spec => []OldWorkStaysDead
<1> DEFINE Sheltered == CrashBudget = 0 /\ ~AckTimeout
           Inv == Dated /\ (Sheltered => FreshWork)
           Known == Sound /\ Cleared /\ Spared /\ Stale /\ Unacked
<1>1. Init => Inv
  <2> SUFFICES ASSUME Init
               PROVE  Dated /\ FreshWork
    OBVIOUS
  <2>1. /\ channel = <<>> /\ DOMAIN <<>> = {} /\ epoch = 0 /\ row_epoch = [r \in Rows |-> 0]
        /\ Stored = {} /\ InFlight = {} /\ at = "Loop"
    BY DEF Init, Stored, InFlight
  <2>2. at \notin Handling
    BY <2>1 DEF Handling, Selecting, Settling
  <2>3. Dated
    BY <2>1 DEF Dated
  <2>4. FreshTables /\ FreshFlight
    BY <2>1 DEF FreshTables, FreshFlight, Fresh
  <2>5. FreshChannel /\ FreshWorker
    BY Zenon, <2>1, <2>2 DEF FreshChannel, FreshWorker
  <2>6. QED
    BY Zenon, <2>3, <2>4, <2>5 DEF FreshWork
<1>2. Known /\ Known' /\ Inv /\ [Next]_vars => Inv'
  <2> SUFFICES ASSUME Known, Known', Inv, [Next]_vars
               PROVE  Inv'
    OBVIOUS
  <2>1. Dated'
    BY Zenon, DatedStep
  <2>2. ASSUME Sheltered
        PROVE  FreshWork'
    <3>1. open /\ at # "Boot" /\ at' # "Boot"
      BY Zenon, <2>2 DEF Spared
    <3>2. ~restart /\ ~crash
      BY Zenon, <3>1, StartsAgain
    <3>3. FreshTables /\ FreshChannel /\ FreshWorker /\ FreshFlight
      BY Zenon, <2>2 DEF FreshWork
    <3>4. FreshTables' /\ FreshChannel'
      BY Zenon, <2>2, <3>1, <3>2, <3>3, FreshTablesStep, FreshChannelStep
    <3>5. FreshWorker' /\ FreshFlight'
      BY Zenon, <3>1, <3>2, <3>3, FreshWorkerStep, FreshFlightStep
    <3>6. QED
      BY Zenon, <3>4, <3>5 DEF FreshWork
  <2>3. QED
    BY Zenon, <2>1, <2>2
<1>3. Known /\ Inv => OldWorkStaysDead
  <2> SUFFICES ASSUME Known, Inv
               PROVE  OldWorkStaysDead
    OBVIOUS
  <2>1. FreshFlight
    BY Zenon, OneGeneration DEF AbortsWait, FreshWork
  <2>2. QED
    BY <2>1 DEF OldWorkStaysDead, FreshFlight, Fresh
<1> HIDE DEF Inv
<1>4. QED
  BY <1>1, <1>2, <1>3, AbortsHold, SoundHolds, ClearedHolds, PTL DEF Spec

=============================================================================
