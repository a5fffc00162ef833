----------------------- MODULE FederationSenderOutbox -----------------------
(***************************************************************************)
(* One transaction at a time, and at-least-once delivery, for any rows and *)
(* limits of the federation sender.                                        *)
(*                                                                         *)
(* Both rest on aborts that wait for the worker. Delivery also needs the   *)
(* burst at startup, without which the rows of a transaction that a crash  *)
(* cut off are forgotten, and no retry limit for reliable rows, which are  *)
(* given up at it.                                                         *)
(***************************************************************************)
EXTENDS FederationSenderAborts

\* Kept rows are sent again after a restart, and reliable rows are not given up.
RowsReturn == (Netburst \/ CrashBudget = 0) /\ (MaxAttempts = 0 \/ ToDevice = {})

-----------------------------------------------------------------------------
(* One transaction at a time *)

\* Between the selection and the launch, and from a result to what it leads to, the entry
\* keeps other transactions out.
Owning == Handling \ {"Select"}
One ==
    /\ \A f, g \in InFlight : f = g
    /\ InFlight # {} => status \in Busy
    /\ at \in Owning /\ work_epoch = epoch => InFlight = {} /\ status \in Busy

\* Who moves the worker, its entry or the send futures.
LEMMA OwnerSteps ==
    ASSUME [Next]_vars
    PROVE  \/ UNCHANGED <<status, at, work_epoch, futures, epoch>>
           \/ handle_abort_ack \/ handle_request_aborted \/ handle_request \/ select_refused
           \/ select_retry \/ select_compose \/ mark_as_active_if_current \/ launch
           \/ handle_response \/ handle_response_aborted \/ handle_response_err
           \/ handle_response_give_up \/ delete_reliable_requests_for_active
           \/ delete_all_active_requests_for \/ handle_response_ok \/ send_next
           \/ leave_work_loop \/ finish_response \/ finish_response_active \/ startup_netburst
           \/ FutureStep \/ abort_destination \/ restart \/ crash
BY Zenon DEF Next, Produce, WorkerStep, AdminCommand, AdminStep, send_pdu_servers,
   send_edu_server, send_edu_servers, send_reliable_edu_server, Enqueue, flush_servers,
   clear_destination_queue, resume_destination, abort_notifies_worker, abort_acknowledged,
   clear_tables, ClearStep, PurgeStep, delete_all_active_spawned, delete_all_queued_spawned,
   backoff_served, reschedule_flush, interrupt, vars, tables, entry, worker, abort, purges,
   budgets, history

\* Nothing is in flight while the worker is about to launch or has a result in its hands.
LEMMA OwnerIsAlone ==
    ASSUME One, Stale, at \in Owning
    PROVE  InFlight = {}
BY Zenon DEF One, Stale, AckDue, Owning

\* Every step keeps the transactions in flight at one.
LEMMA OneStep == Sound /\ Booting /\ Backed /\ Stale /\ Unacked /\ One /\ [Next]_vars => One'
<1> SUFFICES ASSUME Sound, Booting, Backed, Stale, Unacked, One, [Next]_vars
             PROVE  One'
  OBVIOUS
<1>1. /\ {"Activate", "Launch", "LaunchRetry"} \subseteq Owning
      /\ {"SettleOk", "SettleErr", "CleanActive", "Refill", "ActivateNext"} \subseteq Owning
      /\ {"Loop", "Select", "Boot", "Drain", "DrainActive"} \cap Owning = {}
  BY DEF Owning, Handling, Selecting, Settling
<1>2. ASSUME InFlight = {}, UNCHANGED <<futures, epoch>>
      PROVE  InFlight' = {}
  BY <1>2 DEF InFlight
<1>3. ASSUME InFlight' = {}, at' \notin Owning \/ work_epoch' # epoch' \/ status' \in Busy
      PROVE  One'
  BY Zenon, <1>3 DEF One
<1>4. CASE handle_abort_ack \/ handle_request_aborted
  <2>1. at' = "Loop" /\ UNCHANGED <<futures, epoch>>
    BY Zenon, <1>4 DEF handle_abort_ack, handle_request_aborted, Receive, worker, abort
  <2>2. aborted
    <3>1. CASE handle_abort_ack
      <4>1. 1 \in DOMAIN channel /\ Head(channel) = channel[1] /\ Head(channel).abort_ack # 0
        BY <3>1, Received DEF Sound, ChannelOK, handle_abort_ack
      <4>2. QED
        BY Zenon, <4>1 DEF Unacked
    <3>2. QED
      BY Zenon, <1>4, <3>1 DEF handle_request_aborted
  <2>3. InFlight' = {}
    BY Zenon, <1>2, <2>1, <2>2 DEF Stale
  <2>4. QED
    BY <1>1, <1>3, <2>1, <2>3
<1>5. CASE select_retry \/ select_compose
  <2>1. status \notin Busy /\ status' \in Busy /\ UNCHANGED <<futures, epoch>>
    BY Zenon, <1>5 DEF select_retry, select_compose, SetEntry, Busy, abort
  <2>2. InFlight' = {}
    BY Zenon, <1>2, <2>1 DEF One
  <2>3. QED
    BY Zenon, <1>3, <2>1, <2>2
<1>6. CASE \/ handle_request \/ select_refused \/ leave_work_loop \/ finish_response
           \/ finish_response_active
  <2>1. /\ at' \in {"Loop", "Select", "Drain", "DrainActive"}
        /\ futures' \subseteq futures /\ UNCHANGED <<status, epoch>>
    BY Zenon, <1>6 DEF handle_request, select_refused, leave_work_loop, finish_response,
       finish_response_active, BackToLoop, Goto, entry, abort
  <2>2. InFlight' \subseteq InFlight
    BY <2>1 DEF InFlight
  <2>3. QED
    BY <1>1, <2>1, <2>2 DEF One
<1>7. CASE \/ handle_response_aborted \/ handle_response_err \/ handle_response_give_up
           \/ mark_as_active_if_current \/ delete_reliable_requests_for_active
           \/ delete_all_active_requests_for \/ handle_response_ok
  <2>1. /\ at' = "Loop" \/ UNCHANGED <<status, work_epoch>>
        /\ at \in {"Activate", "SettleOk", "SettleErr", "CleanActive", "Refill"}
        /\ UNCHANGED <<futures, epoch>>
    BY Zenon, <1>7 DEF handle_response_aborted, handle_response_err, handle_response_give_up,
       mark_as_active_if_current, delete_reliable_requests_for_active,
       delete_all_active_requests_for, handle_response_ok, BackToLoop, Goto, entry, abort
  <2>2. at \in Owning /\ (at' = "Loop" => at' \notin Owning)
    BY <1>1, <2>1
  <2>3. InFlight' = {}
    BY Zenon, <1>2, <2>1, <2>2, OwnerIsAlone
  <2>4. QED
    BY Zenon, <1>3, <2>1, <2>2, <2>3 DEF One
<1>8. ASSUME NEW new, Added(new), InFlight = {}, status' \in Busy, at' = "Loop"
      PROVE  One'
  BY <1>1, <1>8 DEF Added, One
<1>9. CASE launch
  <2>1. /\ at \in {"Launch", "LaunchRetry"} /\ at' = "Loop"
        /\ \/ UNCHANGED <<futures, epoch>>
           \/ status' = status /\ epoch' = epoch /\ \E edus : Push(rows, edus, epoch)
    BY Zenon, <1>9 DEF launch, BackToLoop, Goto, entry, abort, Current
  <2>2. InFlight = {} /\ status \in Busy
    BY Zenon, <1>1, <2>1, OwnerIsAlone DEF Backed
  <2>3. CASE UNCHANGED <<futures, epoch>>
    BY <1>1, <1>2, <1>3, <2>1, <2>2, <2>3
  <2>4. QED
    BY Zenon, <1>8, <2>1, <2>2, <2>3, PushFlight
<1>10. CASE send_next
  <2>1. /\ at = "ActivateNext" /\ at' = "Loop"
        /\ \/ UNCHANGED <<futures, epoch>>
           \/ status' = "Running" /\ epoch' = epoch /\ Push(rows, FALSE, epoch)
    BY Zenon, <1>10 DEF send_next, BackToLoop, Goto, SetEntry, abort, Current
  <2>2. InFlight = {}
    BY <1>1, <2>1, OwnerIsAlone
  <2>3. CASE UNCHANGED <<futures, epoch>>
    BY SMTT(30), <1>1, <1>2, <1>3, <2>1, <2>2, <2>3
  <2>4. QED
    BY Zenon, <1>8, <2>1, <2>2, <2>3, PushFlight DEF Busy
<1>11. CASE startup_netburst
  <2>1. /\ at = "Boot" /\ at' = "Loop"
        /\ \/ UNCHANGED <<futures, epoch>>
           \/ status' = "Running" /\ epoch' = epoch /\ Push(active', FALSE, epoch)
    BY Zenon, <1>11 DEF startup_netburst, BackToLoop, Goto, SetEntry, abort
  <2>2. InFlight = {}
    BY <2>1 DEF Booting, InFlight
  <2>3. CASE UNCHANGED <<futures, epoch>>
    BY SMTT(30), <1>1, <1>2, <1>3, <2>1, <2>2, <2>3
  <2>4. QED
    BY Zenon, <1>8, <2>1, <2>2, <2>3, PushFlight DEF Busy
<1>12. CASE handle_response
  <2>1. PICK f \in futures : /\ futures' = futures \ {f} /\ UNCHANGED <<status, epoch>>
                             /\ at' = "Loop" \/ f.epoch = epoch
    BY Zenon, <1>12 DEF handle_response, BackToLoop, Goto, entry, abort
  <2>2. InFlight' = InFlight \ {f}
    BY <2>1 DEF InFlight
  <2>3. CASE at' = "Loop"
    BY <1>1, <2>1, <2>2, <2>3 DEF One
  <2>4. CASE f.epoch = epoch
    <3>1. f \in InFlight
      BY <2>4 DEF InFlight
    <3>2. InFlight' = {} /\ status' \in Busy
      BY <2>1, <2>2, <3>1 DEF One
    <3>3. QED
      BY Zenon, <1>3, <3>2
  <2>5. QED
    BY Zenon, <2>1, <2>3, <2>4
<1>13. CASE abort_destination \/ restart \/ crash
  <2>1. InFlight' = {}
    BY <1>13, AbortFlight, StartsAgain DEF InFlight
  <2>2. work_epoch' # epoch' \/ at' = "Boot"
    BY Zenon, <1>13, AbortFlight, StartsAgain
  <2>3. QED
    BY <1>1, <1>3, <2>1, <2>2
<1>14. CASE FutureStep
  <2>1. PICK f \in futures, phase \in Phase :
          Become(f, phase) /\ UNCHANGED <<status, at, work_epoch, epoch>>
    BY Zenon, <1>14, FutureSteps DEF entry, worker, abort
  <2>2. CASE InFlight' = InFlight
    BY Zenon, <2>1, <2>2 DEF One
  <2>3. ASSUME NEW new, Moved(f, new)
        PROVE  One'
    BY <2>1, <2>3 DEF Moved, One
  <2>4. QED
    BY Zenon, <2>1, <2>2, <2>3, BecomeFlight
<1>15. CASE UNCHANGED <<status, at, work_epoch, futures, epoch>>
  BY <1>15 DEF One, InFlight
<1>16. QED
  BY Zenon, <1>4, <1>5, <1>6, <1>7, <1>9, <1>10, <1>11, <1>12, <1>13, <1>14, <1>15, OwnerSteps

\* One transaction is owned or in flight at a time.
LEMMA OneHolds ==
    ASSUME AbortsWait
    PROVE  Spec => []One
<1>1. Init => One
  <2> SUFFICES ASSUME Init
               PROVE  One
    OBVIOUS
  <2>1. InFlight = {} /\ at \notin Owning
    BY DEF Init, InFlight, Owning, Handling, Selecting, Settling
  <2>2. QED
    BY <2>1 DEF One
<1>2. QED
  BY <1>1, OneStep, AbortsHold, SoundHolds, BackingHolds, PTL DEF Spec

\* At most one transaction of the present generation is in flight, whatever messages, results,
\* failures, restarts and aborts that wait for the worker interleave.
THEOREM OneAtATime ==
    ASSUME AbortsWait
    PROVE  Spec => []OneTransaction
<1>1. One => OneTransaction
  <2> SUFFICES ASSUME One
               PROVE  Cardinality(InFlight) <= 1
    BY DEF OneTransaction
  <2>1. CASE InFlight = {}
    BY <2>1, FS_EmptySet
  <2>2. CASE InFlight # {}
    <3>1. PICK f \in InFlight : TRUE
      BY <2>2
    <3>2. InFlight = {f}
      BY <3>1 DEF One
    <3>3. Cardinality({f}) = 1
      BY SMTT(30), FS_Singleton
    <3>4. QED
      BY <3>2, <3>3
  <2>3. QED
    BY <2>1, <2>2
<1>2. QED
  BY <1>1, OneHolds, PTL

-----------------------------------------------------------------------------
(* The rows of the active table *)

\* The active table holds the rows of the transaction under way, beside rows that are already
\* delivered or dropped: so a success, which deletes whatever is active, loses nothing.
Settled == delivered \cup discarded
Carries(f) ==
    /\ active \subseteq f.rows \cup Settled
    /\ f.phase # "Built" => f.rows \cap Unreadable \subseteq discarded
    /\ f.phase \in {"Processed", "Ok"} => f.rows \ Unreadable \subseteq delivered
Accounted ==
    /\ \A f \in InFlight : Carries(f)
    /\ at \in {"Activate", "SettleOk"} /\ work_epoch = epoch => active \subseteq Settled
    /\ at \in {"Launch", "LaunchRetry"} /\ work_epoch = epoch => active \subseteq rows \cup Settled
    /\ at \in {"CleanActive", "DrainActive", "Refill", "ActivateNext"} => active \subseteq Settled
    /\ ~aborted /\ status \in {"None", "Cooldown"} /\ at # "Boot" => active \subseteq Settled

\* Who changes the active table, the worker, its entry, or what is delivered and dropped.
LEMMA ActiveSteps ==
    ASSUME [Next]_vars
    PROVE  \/ UNCHANGED <<active, delivered, discarded, futures, epoch, aborted, status, at,
                       work_epoch, rows>>
           \/ handle_abort_ack \/ handle_request_aborted \/ handle_request \/ select_refused
           \/ select_retry \/ select_compose \/ mark_as_active_if_current \/ launch
           \/ handle_response \/ handle_response_aborted \/ handle_response_err
           \/ handle_response_give_up \/ delete_reliable_requests_for_active
           \/ delete_all_active_requests_for \/ handle_response_ok \/ send_next
           \/ leave_work_loop \/ finish_response \/ finish_response_active \/ startup_netburst
           \/ FutureStep \/ abort_destination \/ resume_destination \/ clear_tables \/ PurgeStep
           \/ restart \/ crash
BY Zenon DEF Next, Produce, WorkerStep, AdminCommand, AdminStep, send_pdu_servers,
   send_edu_server, send_edu_servers, send_reliable_edu_server, Enqueue, flush_servers,
   clear_destination_queue, abort_notifies_worker, abort_acknowledged, backoff_served,
   reschedule_flush, interrupt, vars, tables, entry, worker, abort, purges, budgets, history

\* What holds of a transaction and the active rows stays when rows leave the table and more
\* rows are settled.
LEMMA CarriesStays ==
    ASSUME NEW f, Carries(f), active' \subseteq active,
           delivered \subseteq delivered', discarded \subseteq discarded'
    PROVE  active' \subseteq f.rows \cup Settled' /\ Carries(f)'
BY DEF Carries, Settled

\* A transaction that ended well has settled its rows.
LEMMA SuccessSettles ==
    ASSUME NEW f \in InFlight, Accounted, f.phase = "Ok"
    PROVE  active \subseteq Settled
BY DEF Accounted, Carries, Settled

\* A step of a future settles the rows it says it settles.
LEMMA FutureCarries ==
    ASSUME Stale, Accounted, FutureStep
    PROVE  \A f \in InFlight' : Carries(f)'
<1>1. PICK f \in futures :
        \/ send_events(f) \/ remote_processes(f) \/ request_fails(f)
        \/ request_succeeds(f) \/ request_cancelled(f)
  BY DEF FutureStep
<1>2. UNCHANGED <<active, epoch>>
  BY Zenon, <1>1 DEF send_events, remote_processes, request_fails, request_succeeds,
     request_cancelled, tables, abort
<1>3. delivered \subseteq delivered' /\ discarded \subseteq discarded'
  BY Zenon, <1>1 DEF send_events, remote_processes, request_fails, request_succeeds,
     request_cancelled, history
<1>4. \A g \in InFlight : Carries(g)'
  BY <1>2, <1>3, CarriesStays DEF Accounted
<1>5. f \in InFlight => Current(f.epoch)
  BY Zenon DEF Stale, Current, InFlight
<1>6. ASSUME NEW phase, Become(f, phase), NEW new, Moved(f, new), new.phase = phase,
             phase # "Built" => f.rows \cap Unreadable \subseteq discarded',
             phase \in {"Processed", "Ok"} => f.rows \ Unreadable \subseteq delivered'
      PROVE  \A g \in InFlight' : Carries(g)'
  <2>1. f \in InFlight /\ new.rows = f.rows /\ InFlight' = (InFlight \ {f}) \cup {new}
    BY <1>6 DEF Moved
  <2>2. active' \subseteq new.rows \cup Settled'
    BY <1>2, <1>3, <2>1, CarriesStays DEF Accounted
  <2>3. Carries(new)'
    BY <1>6, <2>1, <2>2 DEF Carries
  <2>4. QED
    BY <1>4, <2>1, <2>3
<1>7. ASSUME NEW phase, Become(f, phase),
             f \in InFlight /\ phase # "Built" => f.rows \cap Unreadable \subseteq discarded',
             f \in InFlight /\ phase \in {"Processed", "Ok"} =>
                 f.rows \ Unreadable \subseteq delivered'
      PROVE  \A g \in InFlight' : Carries(g)'
  <2>1. CASE f \notin InFlight /\ InFlight' = InFlight
    BY Zenon, <1>4, <2>1
  <2>2. ASSUME NEW new, Moved(f, new), new.phase = phase
        PROVE  \A g \in InFlight' : Carries(g)'
    <3>1. f \in InFlight
      BY <2>2 DEF Moved
    <3>2. QED
      BY Zenon, <1>6, <1>7, <2>2, <3>1
  <2>3. QED
    BY Zenon, <1>2, <1>7, <2>1, <2>2, BecomeFlight
<1>8. CASE send_events(f)
  <2> DEFINE sent == Current(f.epoch) /\ (f.rows \ Unreadable # {} \/ f.edus)
  <2>1. /\ Become(f, IF sent THEN "OnWire" ELSE "Ok")
        /\ Current(f.epoch) => discarded' = discarded \cup (f.rows \cap Unreadable)
    BY Zenon, <1>8 DEF send_events
  <2>2. f \in InFlight => f.rows \cap Unreadable \subseteq discarded'
    BY <1>5, <2>1
  <2>3. CASE sent
    <3>1. Become(f, "OnWire")
      BY Zenon, <2>1, <2>3
    <3>2. QED
      BY Zenon, <1>7, <2>2, <3>1
  <2>4. CASE ~sent
    <3>1. Become(f, "Ok")
      BY Zenon, <2>1, <2>4
    <3>2. f \in InFlight => f.rows \ Unreadable \subseteq delivered'
      BY <1>5, <2>4
    <3>3. QED
      BY Zenon, <1>7, <2>2, <3>1, <3>2
  <2>5. QED
    BY Zenon, <2>3, <2>4
<1>9. ASSUME f \in InFlight, f.phase # "Built"
      PROVE  f.rows \cap Unreadable \subseteq discarded'
  BY <1>3, <1>9 DEF Accounted, Carries
<1>10. CASE remote_processes(f)
  <2>1. Become(f, "Processed") /\ f.phase # "Built" /\ f.rows \ Unreadable \subseteq delivered'
    BY <1>10 DEF remote_processes
  <2>2. QED
    BY Zenon, <1>7, <1>9, <2>1
<1>11. CASE request_fails(f)
  <2>1. Become(f, "Err") /\ f.phase # "Built"
    BY <1>11 DEF request_fails
  <2>2. QED
    BY Zenon, <1>7, <1>9, <2>1
<1>12. CASE request_succeeds(f)
  <2>1. Become(f, "Ok") /\ f.phase = "Processed"
    BY <1>12 DEF request_succeeds
  <2>2. f \in InFlight => f.rows \ Unreadable \subseteq delivered'
    BY <1>3, <2>1 DEF Accounted, Carries
  <2>3. QED
    BY Zenon, <1>7, <1>9, <2>1, <2>2
<1>13. CASE request_cancelled(f)
  <2>1. Become(f, "Ok") /\ f \notin InFlight
    BY Zenon, <1>5, <1>13 DEF request_cancelled
  <2>2. QED
    BY Zenon, <1>7, <2>1
<1>14. QED
  BY Zenon, <1>1, <1>8, <1>10, <1>11, <1>12, <1>13

\* Every step keeps the active rows accounted for.
LEMMA AccountedStep ==
    ASSUME RowsReturn, Sound, Spared, Booting, Backed, Cleared, Stale, Unacked, One, Accounted,
           [Next]_vars
    PROVE  Accounted'
<1>1. ASSUME InFlight' = {}, active' \subseteq Settled'
      PROVE  Accounted'
  BY Zenon, <1>1 DEF Accounted
<1>2. ASSUME InFlight = {}, NEW new, Added(new), active' \subseteq new.rows \cup Settled',
             at' = "Loop", status' \in Busy
      PROVE  Accounted'
  <2>1. InFlight' = {new} /\ new.phase = "Built"
    BY <1>2 DEF Added
  <2>2. Carries(new)'
    BY <1>2, <2>1 DEF Carries
  <2>3. QED
    BY Zenon, <1>2, <2>1, <2>2 DEF Accounted, Busy
<1>3. ASSUME UNCHANGED <<futures, epoch>>
      PROVE  InFlight' = InFlight
  BY <1>3 DEF InFlight
<1>4. ASSUME at \in Owning
      PROVE  InFlight = {} /\ (~aborted => work_epoch = epoch)
  BY Zenon, <1>4, OwnerIsAlone DEF Stale, AckDue, Owning
<1>5. /\ {"Activate", "Launch", "LaunchRetry"} \subseteq Owning
      /\ {"SettleOk", "SettleErr", "CleanActive", "Refill", "ActivateNext"} \subseteq Owning
  BY DEF Owning, Handling, Selecting, Settling
<1>6. CASE clear_tables \/ PurgeStep
  <2>1. /\ UNCHANGED <<futures, epoch, aborted, status, at, work_epoch, rows, delivered>>
        /\ active' \subseteq active /\ discarded \subseteq discarded'
    BY Zenon, <1>6 DEF clear_tables, ClearStep, PurgeStep, delete_all_active_spawned,
       delete_all_queued_spawned, Discarding, entry, worker, abort
  <2>2. InFlight' = InFlight /\ \A f \in InFlight : Carries(f)'
    BY <1>3, <2>1, CarriesStays DEF Accounted
  <2>3. /\ active \subseteq Settled => active' \subseteq Settled'
        /\ active \subseteq rows \cup Settled => active' \subseteq rows' \cup Settled'
    BY <2>1 DEF Settled
  <2>4. QED
    BY Zenon, <2>1, <2>2, <2>3 DEF Accounted
<1>7. CASE handle_abort_ack \/ handle_request_aborted \/ handle_response_aborted
  <2>1. at' = "Loop" /\ UNCHANGED <<futures, epoch, aborted>>
    BY Zenon, <1>7 DEF handle_abort_ack, handle_request_aborted, handle_response_aborted,
       Receive, BackToLoop, Goto, worker, abort
  <2>2. aborted
    <3>1. CASE handle_abort_ack
      <4>1. 1 \in DOMAIN channel /\ Head(channel) = channel[1] /\ Head(channel).abort_ack # 0
        BY <3>1, Received DEF Sound, ChannelOK, handle_abort_ack
      <4>2. QED
        BY Zenon, <4>1 DEF Unacked
    <3>2. QED
      BY Zenon, <1>7, <3>1 DEF handle_request_aborted, handle_response_aborted
  <2>3. InFlight' = {}
    BY Zenon, <1>3, <2>1, <2>2 DEF Stale
  <2>4. QED
    BY Zenon, <2>1, <2>2, <2>3 DEF Accounted
<1>8. CASE handle_request \/ select_refused \/ leave_work_loop
  <2>1. /\ at' \in {"Loop", "Select", "Drain"} /\ at # "Boot"
        /\ UNCHANGED <<active, delivered, discarded, futures, epoch, aborted, status>>
    BY Zenon, <1>8 DEF handle_request, select_refused, leave_work_loop, Receive, BackToLoop, Goto,
       tables, entry, abort, history
  <2>2. InFlight' = InFlight /\ Settled' = Settled /\ \A f \in InFlight : Carries(f)'
    BY <1>3, <2>1, CarriesStays DEF Accounted, Settled
  <2>3. QED
    BY Zenon, <2>1, <2>2 DEF Accounted
<1>9. CASE select_retry \/ select_compose
  <2>1. /\ status \notin Busy /\ status' \in Busy /\ at = "Select"
        /\ UNCHANGED <<active, delivered, discarded, futures, epoch, aborted, work_epoch>>
    BY Zenon, <1>9 DEF select_retry, select_compose, SetEntry, Goto, Busy, tables, abort, history
  <2>2. \/ at' = "LaunchRetry" /\ rows' = active
        \/ at' \in {"Launch", "Activate"} /\ (status \in {"None", "Cooldown"} \/ active = {})
    BY Zenon, <1>9 DEF select_retry, select_compose, Goto
  <2>3. InFlight' = {} /\ Settled' = Settled
    BY <1>3, <2>1 DEF One, Settled
  <2>4. CASE at' = "LaunchRetry" /\ rows' = active
    BY Zenon, <2>1, <2>3, <2>4 DEF Accounted, Busy
  <2>5. CASE active \subseteq Settled
    BY <1>1, <2>1, <2>3, <2>5
  <2>6. CASE aborted /\ at' \in {"Launch", "Activate"}
    <3>1. work_epoch' # epoch'
      BY Zenon, <2>1, <2>6 DEF Stale, Handling, Selecting
    <3>2. QED
      BY Zenon, <2>1, <2>3, <2>6, <3>1 DEF Accounted, Busy
  <2>7. CASE ~aborted /\ status \in {"None", "Cooldown"}
    BY Zenon, <2>1, <2>5, <2>7 DEF Accounted
  <2>8. CASE active = {}
    BY <2>5, <2>8
  <2>9. QED
    BY Zenon, <2>2, <2>4, <2>6, <2>7, <2>8
<1>10. CASE mark_as_active_if_current
  <2>1. /\ at = "Activate"
        /\ UNCHANGED <<delivered, discarded, futures, epoch, status>>
    BY Zenon, <1>10 DEF mark_as_active_if_current, BackToLoop, Goto, entry, abort, history
  <2>2. \/ at' = "Launch" /\ rows' = rows /\ active' = active \cup rows /\ work_epoch = epoch
        \/ at' = "Loop"
    BY Zenon, <1>10 DEF mark_as_active_if_current, mark_as_active, BackToLoop, Goto, Current
  <2>3. InFlight' = {} /\ Settled' = Settled /\ status' \in Busy
    BY <1>3, <1>4, <1>5, <2>1 DEF Backed, Settled
  <2>4. CASE at' = "Loop"
    BY Zenon, <2>3, <2>4 DEF Accounted, Busy
  <2>5. CASE at' = "Launch" /\ rows' = rows /\ active' = active \cup rows /\ work_epoch = epoch
    <3>1. active' \subseteq rows' \cup Settled'
      BY <2>1, <2>3, <2>5 DEF Accounted
    <3>2. QED
      BY Zenon, <2>3, <2>5, <3>1 DEF Accounted, Busy
  <2>6. QED
    BY Zenon, <2>2, <2>4, <2>5
<1>11. CASE launch
  <2>1. /\ at \in {"Launch", "LaunchRetry"} /\ at' = "Loop"
        /\ UNCHANGED <<active, delivered, discarded, epoch, aborted>>
    BY Zenon, <1>11 DEF launch, BackToLoop, Goto, tables, abort, history
  <2>2. \/ Current(work_epoch) /\ status' = status /\ \E edus : Push(rows, edus, epoch)
        \/ futures' = futures /\ ~Current(work_epoch)
        \/ futures' = futures /\ Current(work_epoch) /\ rows = {}
    BY Zenon, <1>11 DEF launch, entry, Current
  <2>3. /\ InFlight = {} /\ Settled' = Settled /\ status \in Busy
        /\ work_epoch = epoch => active \subseteq rows \cup Settled
    BY Zenon, <1>4, <1>5, <2>1 DEF Backed, Accounted, Settled
  <2>4. ASSUME Current(work_epoch), status' = status, NEW edus, Push(rows, edus, epoch)
        PROVE  Accounted'
    <3>1. PICK new : Added(new) /\ new.rows = rows
      BY Zenon, <2>1, <2>4, PushFlight
    <3>2. active' \subseteq new.rows \cup Settled'
      BY <2>1, <2>3, <2>4, <3>1 DEF Current
    <3>3. QED
      BY Zenon, <1>2, <2>1, <2>3, <2>4, <3>1, <3>2
  <2>5. CASE futures' = futures /\ ~Current(work_epoch)
    <3>1. aborted /\ InFlight' = {}
      BY Zenon, <1>3, <1>4, <1>5, <2>1, <2>3, <2>5 DEF Current
    <3>2. QED
      BY Zenon, <2>1, <3>1 DEF Accounted
  <2>6. CASE futures' = futures /\ Current(work_epoch) /\ rows = {}
    <3>1. work_epoch = epoch
      BY Zenon, <2>6 DEF Current
    <3>2. InFlight' = {} /\ active' \subseteq Settled'
      BY <1>3, <2>1, <2>3, <2>6, <3>1
    <3>3. QED
      BY <1>1, <3>2
  <2>7. QED
    BY Zenon, <2>2, <2>4, <2>5, <2>6
<1>12. CASE handle_response
  <2>1. PICK f \in futures :
          /\ futures' = futures \ {f} /\ at = "Loop"
          /\ UNCHANGED <<active, delivered, discarded, epoch, aborted, status>>
          /\ \/ at' = "Loop" \/ at' = "SettleErr"
             \/ at' = "SettleOk" /\ f.epoch = epoch /\ f.phase = "Ok"
    BY Zenon, <1>12 DEF handle_response, BackToLoop, Goto, tables, entry, abort, history
  <2>2. InFlight' \subseteq InFlight /\ Settled' = Settled
    BY <2>1 DEF InFlight, Settled
  <2>3. \A g \in InFlight' : Carries(g)'
    BY <2>1, <2>2, CarriesStays DEF Accounted
  <2>4. at' = "SettleOk" => active' \subseteq Settled'
    <3> SUFFICES ASSUME at' = "SettleOk"
                 PROVE  active \subseteq Settled
      BY <2>1, <2>2
    <3>1. f \in InFlight /\ f.phase = "Ok"
      BY <2>1 DEF InFlight
    <3>2. QED
      BY <3>1, SuccessSettles
  <2>5. ~aborted' /\ status' \in {"None", "Cooldown"} => active' \subseteq Settled'
    BY Zenon, <2>1, <2>2 DEF Accounted
  <2>6. QED
    BY Zenon, <2>1, <2>3, <2>4, <2>5 DEF Accounted
<1>13. CASE handle_response_err \/ handle_response_give_up
  <2>1. at = "SettleErr" /\ at' = "Loop" /\ UNCHANGED <<active, delivered, futures, epoch>>
    BY Zenon, <1>13 DEF handle_response_err, handle_response_give_up, BackToLoop, Goto, tables,
       abort, history
  <2>2. InFlight' = {} /\ status # "None"
    BY Zenon, <1>3, <1>4, <1>5, <1>13, <2>1 DEF handle_response_err, handle_response_give_up, One,
       Busy
  <2>3. CASE handle_response_err
    <3>1. status' = "Failed"
      BY Zenon, <2>2, <2>3 DEF handle_response_err, SetEntry
    <3>2. QED
      BY Zenon, <2>1, <2>2, <3>1 DEF Accounted
  <2>4. CASE handle_response_give_up
    <3>1. discarded' = discarded \cup ((queued \cup active) \ ToDevice) /\ MaxAttempts > 0
      BY Zenon, <2>4 DEF handle_response_give_up, LimitReached
    <3>2. ~(0 > 0)
      OBVIOUS
    <3>3. ToDevice = {}
      BY Zenon, <3>1, <3>2 DEF RowsReturn
    <3>4. active' \subseteq Settled'
      BY SMTT(30), <2>1, <3>1, <3>3 DEF Settled
    <3>5. QED
      BY <1>1, <2>2, <3>4
  <2>5. QED
    BY Zenon, <1>13, <2>3, <2>4
<1>14. CASE \/ delete_reliable_requests_for_active \/ delete_all_active_requests_for
            \/ handle_response_ok
  <2>1. /\ at \in {"SettleOk", "CleanActive", "Refill"} /\ (at = "SettleOk" => ~aborted)
        /\ active' = active \/ active' = {}
        /\ UNCHANGED <<delivered, discarded, futures, epoch>>
    BY Zenon, <1>14 DEF delete_reliable_requests_for_active, delete_all_active_requests_for,
       handle_response_ok, tables, abort, history
  <2>2. active \subseteq Settled
    BY Zenon, <1>4, <1>5, <2>1 DEF Accounted
  <2>3. InFlight' = {} /\ active' \subseteq Settled'
    BY <1>3, <1>4, <1>5, <2>1, <2>2 DEF Settled
  <2>4. QED
    BY <1>1, <2>3
<1>15. CASE send_next
  <2>1. /\ at = "ActivateNext" /\ at' = "Loop" /\ UNCHANGED <<delivered, discarded, epoch>>
        /\ \/ UNCHANGED <<active, futures>>
           \/ /\ status' = "Running" /\ active' = active \cup rows
              /\ Push(rows, FALSE, epoch)
    BY Zenon, <1>15 DEF send_next, mark_as_active, BackToLoop, Goto, SetEntry, Current, tables,
       abort, history
  <2>2. InFlight = {} /\ active \subseteq Settled /\ Settled' = Settled
    BY <1>4, <1>5, <2>1 DEF Accounted, Settled
  <2>3. CASE UNCHANGED <<active, futures>>
    BY SMTT(30), <1>1, <1>3, <2>1, <2>2, <2>3
  <2>4. CASE status' = "Running" /\ active' = active \cup rows /\ Push(rows, FALSE, epoch)
    <3>1. PICK new : Added(new) /\ new.rows = rows
      BY Zenon, <2>1, <2>4, PushFlight
    <3>2. active' \subseteq new.rows \cup Settled' /\ status' \in Busy
      BY <2>2, <2>4, <3>1 DEF Busy
    <3>3. QED
      BY Zenon, <1>2, <2>1, <2>2, <3>1, <3>2
  <2>5. QED
    BY Zenon, <2>1, <2>3, <2>4
<1>16. CASE finish_response
  <2>1. PICK f \in futures :
          /\ futures' = futures \ {f} /\ at = "Drain"
          /\ UNCHANGED <<active, delivered, discarded, epoch, aborted, status>>
          /\ \/ at' = at
             \/ at' = "DrainActive" /\ f.epoch = epoch /\ f.phase = "Ok"
    BY Zenon, <1>16 DEF finish_response, entry, abort, history
  <2>2. InFlight' \subseteq InFlight /\ Settled' = Settled
    BY SMTT(30), <2>1 DEF InFlight, Settled
  <2>3. \A g \in InFlight' : Carries(g)'
    BY <2>1, <2>2, CarriesStays DEF Accounted
  <2>4. at' = "DrainActive" => active' \subseteq Settled'
    <3> SUFFICES ASSUME at' = "DrainActive"
                 PROVE  active \subseteq Settled
      BY <2>1, <2>2
    <3>1. f \in InFlight /\ f.phase = "Ok"
      BY <2>1 DEF InFlight
    <3>2. QED
      BY SMTT(30), <3>1, SuccessSettles
  <2>5. ~aborted' /\ status' \in {"None", "Cooldown"} => active' \subseteq Settled'
    BY Zenon, <2>1, <2>2 DEF Accounted
  <2>6. QED
    BY Zenon, <2>1, <2>3, <2>4, <2>5 DEF Accounted
<1>17. CASE finish_response_active
  <2>1. active' = {} /\ UNCHANGED <<delivered, discarded, futures, epoch>>
    BY Zenon, <1>17 DEF finish_response_active, abort, history
  <2>2. InFlight' = InFlight /\ active' \subseteq Settled' /\ \A f \in InFlight : Carries(f)'
    BY <1>3, <2>1, CarriesStays DEF Accounted
  <2>3. QED
    BY Zenon, <2>2 DEF Accounted
<1>18. CASE startup_netburst
  <2>1. /\ at = "Boot" /\ at' = "Loop" /\ epoch' = epoch
        /\ \/ futures' = futures /\ (~Netburst \/ active' = {})
           \/ status' = "Running" /\ Push(active', FALSE, epoch)
    BY Zenon, <1>18 DEF startup_netburst, BackToLoop, Goto, SetEntry, abort
  <2>2. InFlight = {}
    BY <2>1 DEF Booting, InFlight
  <2>3. Netburst
    BY Zenon, <2>1 DEF RowsReturn, Spared
  <2>4. CASE futures' = futures /\ active' = {}
    <3>1. InFlight' = {} /\ active' \subseteq Settled'
      BY <1>3, <2>1, <2>2, <2>4
    <3>2. QED
      BY <1>1, <3>1
  <2>5. CASE status' = "Running" /\ Push(active', FALSE, epoch)
    <3>1. PICK new : Added(new) /\ new.rows = active'
      BY Zenon, <2>1, <2>5, PushFlight
    <3>2. active' \subseteq new.rows \cup Settled' /\ status' \in Busy
      BY <2>5, <3>1 DEF Busy
    <3>3. QED
      BY Zenon, <1>2, <2>1, <2>2, <3>1, <3>2
  <2>6. QED
    BY Zenon, <2>1, <2>3, <2>4, <2>5
<1>19. CASE FutureStep
  <2>1. /\ UNCHANGED <<active, epoch, aborted, status, at, work_epoch, rows>>
        /\ delivered \subseteq delivered' /\ discarded \subseteq discarded'
    BY Zenon, <1>19 DEF FutureStep, send_events, remote_processes, request_fails,
       request_succeeds, request_cancelled, tables, entry, worker, abort, history
  <2>2. /\ active \subseteq Settled => active' \subseteq Settled'
        /\ active \subseteq rows \cup Settled => active' \subseteq rows' \cup Settled'
    BY <2>1 DEF Settled
  <2>3. QED
    BY Zenon, <1>19, <2>1, <2>2, FutureCarries DEF Accounted
<1>20. CASE abort_destination
  <2>1. aborted' = TRUE /\ UNCHANGED <<at, active, delivered, discarded>>
    BY Zenon, <1>20 DEF abort_destination, worker, tables, history
  <2>2. Settled' = Settled /\ aborted'
    BY <2>1 DEF Settled
  <2>3. InFlight' = {} /\ work_epoch' # epoch'
    BY Zenon, <1>20, AbortFlight
  <2>4. QED
    BY Zenon, <2>1, <2>2, <2>3 DEF Accounted
<1>21. CASE resume_destination
  <2>1. aborted /\ admin = "None" /\ UNCHANGED <<futures, epoch, active>>
    BY Zenon, <1>21 DEF resume_destination, tables
  <2>2. InFlight = {} /\ active = {}
    BY Zenon, <2>1 DEF Stale, Cleared
  <2>3. InFlight' = {} /\ active' \subseteq Settled'
    BY <1>3, <2>1, <2>2
  <2>4. QED
    BY <1>1, <2>3
<1>22. CASE restart \/ crash
  <2>1. at' = "Boot" /\ InFlight' = {}
    BY <1>22, StartsAgain DEF InFlight
  <2>2. QED
    BY Zenon, <2>1 DEF Accounted
<1>23. CASE UNCHANGED <<active, delivered, discarded, futures, epoch, aborted, status, at,
                         work_epoch, rows>>
  <2>1. InFlight' = InFlight /\ Settled' = Settled /\ \A f \in InFlight : Carries(f)'
    BY <1>3, <1>23, CarriesStays DEF Accounted, Settled
  <2>2. QED
    BY Zenon, <1>23, <2>1 DEF Accounted
<1>24. QED
  BY Zenon, <1>6, <1>7, <1>8, <1>9, <1>10, <1>11, <1>12, <1>13, <1>14, <1>15, <1>16, <1>17,
     <1>18, <1>19, <1>20, <1>21, <1>22, <1>23, ActiveSteps

-----------------------------------------------------------------------------
(* The tables implement the at-least-once queue *)

\* A row that was accepted is stored until it is delivered or dropped.
Kept == produced \subseteq Stored \cup Settled

\* Every step of the sender is a step of the queue of Outbox, or changes nothing in it.
LEMMA OutboxStep ==
    ASSUME Sound, Sound', Accounted, Kept, [Next]_vars
    PROVE  [AtLeastOnce!Next]_(AtLeastOnce!outbox)
<1>1. ASSUME UNCHANGED <<produced, delivered, discarded>>, Stored' = Stored
      PROVE  UNCHANGED AtLeastOnce!outbox
  BY <1>1 DEF AtLeastOnce!outbox
<1>2. ASSUME UNCHANGED <<produced, delivered>>, discarded \subseteq discarded',
             Stored' \subseteq Stored, Stored \ Stored' \subseteq discarded'
      PROVE  AtLeastOnce!Next
  <2>1. discarded' \subseteq produced'
    BY DEF Sound, TablesOK
  <2>2. AtLeastOnce!Drop
    BY <1>2, <2>1 DEF AtLeastOnce!Drop
  <2>3. QED
    BY <2>2 DEF AtLeastOnce!Next
<1>3. ASSUME UNCHANGED <<produced, delivered, discarded, queued, reliable>>, active' = {},
             active \subseteq Settled
      PROVE  AtLeastOnce!Next
  <2>1. Stored' \subseteq Stored /\ Stored \ Stored' \subseteq delivered \cup discarded
    BY <1>3 DEF Stored, Settled
  <2>2. AtLeastOnce!Settle
    BY <1>3, <2>1 DEF AtLeastOnce!Settle
  <2>3. QED
    BY <2>2 DEF AtLeastOnce!Next
<1>4. CASE UNCHANGED <<queued, active, reliable, produced, delivered, discarded>>
  BY <1>1, <1>4 DEF Stored
<1>5. CASE Sends
  <2>1. PICK r \in Rows :
          /\ r \notin produced /\ produced' = produced \cup {r}
          /\ UNCHANGED <<active, delivered, discarded>>
          /\ \/ queued' = queued \cup {r} /\ reliable' = reliable
             \/ reliable' = reliable \cup {r} /\ queued' = queued
    BY Zenon, <1>5, SendsEnqueue DEF Enqueue
  <2>2. Stored' = Stored \cup {r}
    BY <2>1 DEF Stored
  <2>3. AtLeastOnce!Accept
    BY <2>1, <2>2 DEF AtLeastOnce!Accept
  <2>4. QED
    BY <2>3 DEF AtLeastOnce!Next
<1>6. CASE handle_request_aborted \/ handle_response_aborted \/ startup_netburst \/ PurgeStep
  <2>1. /\ UNCHANGED <<produced, delivered>> /\ discarded' = discarded \cup (Stored \ Stored')
        /\ queued' \subseteq queued /\ active' \subseteq active /\ reliable' \subseteq reliable
    BY Zenon, <1>6 DEF handle_request_aborted, handle_response_aborted, startup_netburst, Take,
       PurgeStep, delete_all_active_spawned, delete_all_queued_spawned, Discarding
  <2>2. Stored' \subseteq Stored
    BY <2>1 DEF Stored
  <2>3. QED
    BY <1>2, <2>1, <2>2
<1>7. CASE handle_response_give_up
  <2>1. /\ UNCHANGED <<produced, delivered, queued, active, reliable>>
        /\ discarded \subseteq discarded'
    BY Zenon, <1>7 DEF handle_response_give_up, tables
  <2>2. Stored' = Stored
    BY <2>1 DEF Stored
  <2>3. QED
    BY <1>2, <2>1, <2>2
<1>8. CASE clear_tables
  <2>1. /\ UNCHANGED <<produced, delivered>>
        /\ discarded' =
             discarded \cup UNION {queued \ queued', active \ active', reliable \ reliable'}
        /\ queued' \subseteq queued /\ active' \subseteq active /\ reliable' \subseteq reliable
    BY Zenon, <1>8 DEF clear_tables, ClearStep
  <2>2. /\ discarded \subseteq discarded' /\ queued \ queued' \subseteq discarded'
        /\ active \ active' \subseteq discarded' /\ reliable \ reliable' \subseteq discarded'
    BY <2>1
  <2>3. Stored' \subseteq Stored /\ Stored \ Stored' \subseteq discarded'
    BY <2>1, <2>2 DEF Stored
  <2>4. QED
    BY <1>2, <2>1, <2>2, <2>3
<1>9. CASE mark_as_active_if_current \/ send_next
  <2>1. /\ UNCHANGED <<produced, delivered, discarded>>
        /\ \/ UNCHANGED <<queued, active, reliable>>
           \/ active' = active \cup rows /\ queued' = queued \ rows /\ reliable' = reliable
    BY Zenon, <1>9 DEF mark_as_active_if_current, send_next, mark_as_active, tables, history
  <2>2. rows \subseteq Stored \cup Settled
    BY DEF Sound, WorkerOK, Kept
  <2>3. Stored \subseteq Stored' /\ Stored' \ Stored \subseteq delivered \cup discarded
    BY <2>1, <2>2 DEF Stored, Settled
  <2>4. AtLeastOnce!Return
    BY <2>1, <2>3 DEF AtLeastOnce!Return
  <2>5. QED
    BY <2>4 DEF AtLeastOnce!Next
<1>10. CASE delete_reliable_requests_for_active \/ finish_response
  <2>1. /\ UNCHANGED <<produced, delivered, discarded, queued, active>>
        /\ reliable' = reliable \/ reliable' = reliable \ active
    BY Zenon, <1>10 DEF delete_reliable_requests_for_active, finish_response, history
  <2>2. Stored' = Stored
    BY <2>1 DEF Stored
  <2>3. QED
    BY SMTT(30), <1>1, <2>1, <2>2
<1>11. CASE delete_all_active_requests_for \/ finish_response_active
  <2>1. /\ UNCHANGED <<produced, delivered, discarded, queued, reliable>> /\ active' = {}
        /\ active \subseteq Settled
    BY Zenon, <1>11 DEF delete_all_active_requests_for, finish_response_active, history, Accounted
  <2>2. QED
    BY <1>3, <2>1
<1>12. CASE FutureStep
  <2>1. /\ UNCHANGED <<produced, queued, active, reliable>>
        /\ \/ delivered' = delivered /\ discarded \subseteq discarded'
           \/ discarded' = discarded /\ delivered \subseteq delivered'
    BY Zenon, <1>12 DEF FutureStep, send_events, remote_processes, request_fails,
       request_succeeds, request_cancelled, tables, history
  <2>2. Stored' = Stored
    BY <2>1 DEF Stored
  <2>3. CASE delivered' = delivered /\ discarded \subseteq discarded'
    BY <1>2, <2>1, <2>2, <2>3
  <2>4. CASE discarded' = discarded /\ delivered \subseteq delivered'
    <3>1. delivered' \subseteq produced
      BY <2>1 DEF Sound, TablesOK
    <3>2. AtLeastOnce!Deliver
      BY SMTT(30), <2>1, <2>2, <2>4, <3>1 DEF AtLeastOnce!Deliver
    <3>3. QED
      BY <3>2 DEF AtLeastOnce!Next
  <2>5. QED
    BY Zenon, <2>1, <2>3, <2>4
<1>13. CASE restart \/ crash
  BY <1>4, <1>13, StartsAgain
<1>14. QED
  BY Zenon, <1>4, <1>5, <1>6, <1>7, <1>8, <1>9, <1>10, <1>11, <1>12, <1>13, TablesSteps

\* The queue of Outbox keeps what it accepts.
LEMMA KeptStep == Kept /\ [AtLeastOnce!Next]_(AtLeastOnce!outbox) => Kept'
BY DEF Kept, Settled, AtLeastOnce!Next, AtLeastOnce!outbox, AtLeastOnce!Accept,
       AtLeastOnce!Deliver, AtLeastOnce!Drop, AtLeastOnce!Settle, AtLeastOnce!Return

\* The reliable table gives a row up only when it is settled.
LEMMA ReliableStep ==
    ASSUME Sound, Stale, Accounted, ReliableKept, [Next]_vars
    PROVE  ReliableKept'
<1>1. ASSUME produced' = produced, delivered \subseteq delivered', discarded \subseteq discarded',
             reliable \ reliable' \subseteq Settled'
      PROVE  ReliableKept'
  BY <1>1 DEF ReliableKept, Settled
<1>2. CASE Sends
  <2>1. PICK r \in Rows :
          /\ produced' = produced \cup {r} /\ UNCHANGED <<delivered, discarded>>
          /\ \/ r \in Pdus \cup Edus /\ reliable' = reliable
             \/ reliable' = reliable \cup {r}
    BY Zenon, <1>2, SendsEnqueue DEF Enqueue
  <2>2. (Pdus \cup Edus) \cap ToDevice = {}
    BY SenderAssumption
  <2>3. QED
    BY <2>1, <2>2 DEF ReliableKept
<1>3. CASE handle_request_aborted
  <2>1. /\ UNCHANGED <<produced, delivered>> /\ discarded' = discarded \cup (Stored \ Stored')
        /\ queued' = queued \ Head(channel).rows /\ active' = active \ Head(channel).rows
        /\ reliable' = reliable \ Head(channel).rows
    BY Zenon, <1>3 DEF handle_request_aborted, Discarding
  <2>2. reliable \ reliable' \subseteq Settled' /\ discarded \subseteq discarded'
    BY <2>1 DEF Stored, Settled
  <2>3. QED
    BY <1>1, <2>1, <2>2
<1>4. CASE clear_tables
  <2>1. /\ UNCHANGED <<produced, delivered>>
        /\ discarded' =
             discarded \cup UNION {queued \ queued', active \ active', reliable \ reliable'}
    BY Zenon, <1>4 DEF clear_tables, ClearStep
  <2>2. reliable \ reliable' \subseteq Settled' /\ discarded \subseteq discarded'
    BY <2>1 DEF Settled
  <2>3. QED
    BY <1>1, <2>1, <2>2
<1>5. CASE delete_reliable_requests_for_active
  <2>1. /\ UNCHANGED <<produced, delivered, discarded>> /\ reliable' = reliable \ active
        /\ at = "SettleOk" /\ ~aborted
    BY Zenon, <1>5 DEF delete_reliable_requests_for_active, history
  <2>2. at \in Handling
    BY <2>1 DEF Handling, Settling
  <2>3. active \subseteq Settled
    BY Zenon, <2>1, <2>2 DEF Stale, AckDue, Accounted
  <2>4. reliable \ reliable' \subseteq Settled'
    BY <2>1, <2>3 DEF Settled
  <2>5. QED
    BY <1>1, <2>1, <2>4
<1>6. CASE finish_response
  <2>1. PICK f \in futures :
          /\ UNCHANGED <<produced, delivered, discarded>>
          /\ \/ reliable' = reliable
             \/ reliable' = reliable \ active /\ f.phase = "Ok" /\ f.epoch = epoch
    BY Zenon, <1>6 DEF finish_response, history
  <2>2. CASE reliable' = reliable
    BY SMTT(30), <1>1, <2>1, <2>2
  <2>3. CASE reliable' = reliable \ active /\ f.phase = "Ok" /\ f.epoch = epoch
    <3>1. f \in InFlight
      BY <2>3 DEF InFlight
    <3>2. active \subseteq Settled
      BY Zenon, <2>3, <3>1, SuccessSettles
    <3>3. reliable \ reliable' \subseteq Settled'
      BY <2>1, <2>3, <3>2 DEF Settled
    <3>4. QED
      BY <1>1, <2>1, <3>3
  <2>4. QED
    BY Zenon, <2>1, <2>2, <2>3
<1>7. CASE \/ UNCHANGED <<queued, active, reliable, produced, delivered, discarded>>
           \/ mark_as_active_if_current \/ handle_response_aborted \/ handle_response_give_up
           \/ delete_all_active_requests_for \/ send_next \/ finish_response_active
           \/ startup_netburst \/ FutureStep \/ PurgeStep \/ restart \/ crash
  <2>1. /\ UNCHANGED <<produced, reliable>>
        /\ delivered \subseteq delivered' /\ discarded \subseteq discarded'
    BY Zenon, <1>7, StartsAgain DEF mark_as_active_if_current, handle_response_aborted,
       handle_response_give_up, delete_all_active_requests_for, send_next, mark_as_active,
       finish_response_active, startup_netburst, FutureStep, send_events, remote_processes,
       request_fails, request_succeeds, request_cancelled, PurgeStep, delete_all_active_spawned,
       delete_all_queued_spawned, Discarding, tables, history
  <2>2. QED
    BY <1>1, <2>1
<1>8. QED
  BY Zenon, <1>2, <1>3, <1>4, <1>5, <1>6, <1>7, TablesSteps

\* Nothing that was accepted is lost, in any state of the sender.
LEMMA AccountsHold ==
    ASSUME AbortsWait, RowsReturn
    PROVE  Spec => [](Accounted /\ Kept /\ ReliableKept)
<1>1. Init => Accounted /\ Kept /\ ReliableKept
  <2> SUFFICES ASSUME Init
               PROVE  Accounted /\ Kept /\ ReliableKept
    OBVIOUS
  <2>1. InFlight = {} /\ active = {} /\ produced = {}
    BY DEF Init, InFlight
  <2>2. QED
    BY <2>1 DEF Accounted, Kept, ReliableKept
<1>2. /\ Sound /\ Sound' /\ Spared /\ Booting /\ Backed /\ Cleared /\ Stale /\ Unacked /\ One
      /\ Accounted /\ Kept /\ ReliableKept /\ [Next]_vars
      => Accounted' /\ Kept' /\ ReliableKept'
  BY Zenon, AccountedStep, OutboxStep, KeptStep, ReliableStep
<1>3. QED
  BY <1>1, <1>2, SoundHolds, BackingHolds, ClearedHolds, AbortsHold, OneHolds, PTL DEF Spec

\* A reliable EDU stays in its table until it is delivered, cleared or aborted: neither a
\* success of another transaction nor a crash in the middle of one loses it.
THEOREM ReliableRowsKept ==
    ASSUME AbortsWait, RowsReturn
    PROVE  Spec => []ReliableKept
BY AccountsHold, PTL

\* The sender implements the at-least-once queue: the three tables together hold every row
\* that was accepted until the remote server has processed it or it was dropped on purpose.
THEOREM DeliversAtLeastOnce ==
    ASSUME AbortsWait, RowsReturn
    PROVE  Spec => ImplementsOutbox
<1>1. Init => AtLeastOnce!Init
  BY DEF Init, AtLeastOnce!Init, Stored
<1>2. Sound /\ Sound' /\ Accounted /\ Kept /\ [Next]_vars =>
        [AtLeastOnce!Next]_(AtLeastOnce!outbox)
  BY OutboxStep
<1>3. QED
  BY <1>1, <1>2, SoundHolds, AccountsHold, PTL DEF Spec, ImplementsOutbox, AtLeastOnce!Spec

=============================================================================
