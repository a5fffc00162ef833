------------------------- MODULE PartialStateProofs -------------------------
(***************************************************************************)
(* Proofs about PartialState, for any sets of local and received events,   *)
(* any number of failures, crashes and walks, and with or without the      *)
(* anchor and giving up.                                                   *)
(*                                                                         *)
(* The invariants build on each other. Sound is the types, with where the  *)
(* task and the append may stand. Locked: who holds the state lock. Once:  *)
(* what a join finds, and that who gives up a room is not in it. Verified: *)
(* what was accepted on partial state is marked until it is re-authorised. *)
(* Served and Told: what went to few servers is recorded until it went to  *)
(* all. Surfaced: the task remembers whom it found. Graph, Reachable and   *)
(* Walked: an install that covers the marks covers the timeline.           *)
(*                                                                         *)
(* Sound, Locked and Once hold always, the others when the room is joined  *)
(* once or the resync is never given up (Stays); Surfaced needs the        *)
(* former.                                                                 *)
(***************************************************************************)
EXTENDS PartialState, TLAPS

Appending == {"append", "join"}
TaskLocked == {"Send", "Clear", "AbandonClear"}

\* What holds of each group of variables: the flags ...
FlagsOK ==
    /\ partial \in BOOLEAN /\ reconciled \in BOOLEAN /\ joined \in BOOLEAN
    /\ active \in BOOLEAN /\ replayed \in BOOLEAN /\ found \in BOOLEAN
    /\ failing \in BOOLEAN /\ full \in BOOLEAN /\ told \in BOOLEAN

\* ... the append in progress, whose event belongs to the step it stands at ...
AddingOK ==
    /\ adding \in [step : Steps, event : Events \cup {NoEvent}]
    /\ adding.step = "None" <=> adding.event = NoEvent
    /\ adding.step \in {"Join", "Signal"} => adding.event \in Joins
    /\ adding.step \in {"Send", "RecordFew", "RecordAll"} => adding.event \in Local

\* ... the events, on disk and in the task's locals ...
EventsOK ==
    /\ marks \subseteq Events /\ rows \subseteq Local /\ extremities \subseteq Events
    /\ log \subseteq Events /\ prev \in [Events -> SUBSET Events] /\ current \subseteq Events
    /\ narrow \subseteq Local /\ window \subseteq Events /\ seen \subseteq Events
    /\ unverified \subseteq Events /\ joins \subseteq Joins
    /\ installed \in [is : BOOLEAN, at : SUBSET Events]

\* ... those judged before they are appended ...
JudgedOK == judged \subseteq Remote /\ late \subseteq Remote

\* ... the counters: a walk counts towards the attempts until its install ...
CountersOK ==
    /\ signals \in Nat /\ fails \in Nat /\ crashes \in Nat /\ attempt \in 0..ReauthAttempts
    /\ pc \notin {"Walk", "Install"} => attempt = 0
    /\ pc = "Walk" => attempt < ReauthAttempts

\* ... and where everyone stands; the task runs unless it is at rest.
PlacesOK ==
    /\ pc \in Places /\ (active <=> pc # "Idle") /\ before \in {"None", "Few", "All"}
    /\ waiter \in {"Idle", "Armed", "Waiting"}
    /\ edu \in {"Idle", "Asked", "Checked", "Deferred", "Late", "Dropped"}
    /\ lock \in Appending \cup {"None", "task"}

Sound == FlagsOK /\ AddingOK /\ EventsOK /\ JudgedOK /\ CountersOK /\ PlacesOK

\* Every step of the task, of an append and of the clients keeps the flags.
LEMMA FlagsStep == FlagsOK /\ [Next]_vars => FlagsOK'
<1> SUFFICES ASSUME FlagsOK, [Next]_vars
             PROVE  FlagsOK'
  OBVIOUS
<1>1. CASE UNCHANGED vars
  BY Zenon, <1>1 DEF FlagsOK, vars, marked, room, locals
<1>2. ASSUME NEW e \in Local \cup Remote, append_begin(e)
      PROVE  FlagsOK'
  BY Zenon, <1>2 DEF FlagsOK, append_begin, locals
<1>3. ASSUME NEW j \in Joins, register_partial(j)
      PROVE  FlagsOK'
  BY ZenonT(60), <1>3 DEF FlagsOK, register_partial, locals
<1>4. CASE append_insert
  BY ZenonT(60), <1>4 DEF FlagsOK, append_insert, marked, locals
<1>5. CASE append_send \/ append_record \/ join_append \/ join_fails \/ signal_resync
  <2>1. UNCHANGED <<partial, reconciled, joined, active, locals, full, told>>
    BY Zenon, <1>5 DEF append_send, append_record, join_append, join_fails, signal_resync,
       marked, room
  <2>2. QED
    BY Zenon, <2>1 DEF FlagsOK, locals
<1>6. CASE start_resync \/ await_full_state \/ defer_device_update \/ judge_event \/ Crash
  BY ZenonT(60), <1>6 DEF FlagsOK, start_resync, await_full_state, defer_device_update,
     judge_event, Crash, NoLocals, marked, room, locals
<1>7. CASE resync_loop \/ fetch_state \/ reauth_window
  <2>1. CASE resync_loop
    BY ZenonT(60), <2>1 DEF FlagsOK, resync_loop, Loop, marked, room, locals
  <2>2. CASE fetch_state
    BY ZenonT(60), <2>2 DEF FlagsOK, fetch_state, marked, room, locals
  <2>3. CASE reauth_window
    BY ZenonT(60), <2>3 DEF FlagsOK, reauth_window, marked, room, locals
  <2>4. QED
    BY Zenon, <1>7, <2>1, <2>2, <2>3
<1>8. CASE should_give_up \/ reauth_fails
  BY ZenonT(60), <1>8 DEF FlagsOK, should_give_up, reauth_fails, ReauthFails, marked, room
<1>9. CASE install_current_state \/ install_refused \/ reconcile_membership
  <2>1. CASE install_current_state
    BY ZenonT(60), <2>1 DEF FlagsOK, install_current_state, Install, marked, room, locals
  <2>2. CASE install_refused
    BY ZenonT(60), <2>2 DEF FlagsOK, install_refused, WalkAgain, ReauthFails, marked, room,
       locals
  <2>3. CASE reconcile_membership
    BY ZenonT(60), <2>3 DEF FlagsOK, reconcile_membership, Reconcile, marked, room, locals
  <2>4. QED
    BY Zenon, <1>9, <2>1, <2>2, <2>3
<1>10. CASE replay_device_updates \/ resync_returns
  BY ZenonT(60), <1>10 DEF FlagsOK, replay_device_updates, resync_returns, NoLocals, marked,
     room
<1>11. CASE drain \/ send_pending \/ clear_partial_markers
  <2>1. CASE drain
    BY ZenonT(60), <2>1 DEF FlagsOK, drain, marked, room, locals
  <2>2. CASE send_pending
    BY ZenonT(60), <2>2 DEF FlagsOK, send_pending, marked, room, locals
  <2>3. CASE clear_partial_markers
    BY ZenonT(60), <2>3 DEF FlagsOK, clear_partial_markers, marked, room, locals
  <2>4. QED
    BY Zenon, <1>11, <2>1, <2>2, <2>3
<1>12. CASE notify_resolved \/ take_deferred_device_updates \/ abandon_notify
  <2>1. CASE notify_resolved
    BY ZenonT(60), <2>1 DEF FlagsOK, notify_resolved, marked, room, locals
  <2>2. CASE take_deferred_device_updates
    BY ZenonT(60), <2>2 DEF FlagsOK, take_deferred_device_updates, marked, room, locals
  <2>3. CASE abandon_notify
    BY ZenonT(60), <2>3 DEF FlagsOK, abandon_notify, marked, room, locals
  <2>4. QED
    BY Zenon, <1>12, <2>1, <2>2, <2>3
<1>13. CASE leave_abandoned_room
  BY ZenonT(60), <1>13 DEF FlagsOK, leave_abandoned_room, marked, room, locals
<1>14. CASE abandon_send \/ abandon_clear
  BY ZenonT(60), <1>14 DEF FlagsOK, abandon_send, abandon_clear, marked, room, locals
<1>15. QED
  BY Zenon, <1>1, <1>2, <1>3, <1>4, <1>5, <1>6, <1>7, <1>8, <1>9, <1>10, <1>11, <1>12, <1>13,
     <1>14 DEF Next, Task, Append

\* Who moves an append on.
LEMMA AddingSteps ==
    ASSUME [Next]_vars
    PROVE  \/ UNCHANGED adding
           \/ \E e \in Local \cup Remote : append_begin(e)
           \/ \E j \in Joins : register_partial(j)
           \/ Append \/ Crash
BY Zenon DEF Next, Task, start_resync, await_full_state, defer_device_update, judge_event,
   resync_loop, Loop, fetch_state, should_give_up, reauth_window, reauth_fails,
   install_current_state, Install, install_refused, WalkAgain, reconcile_membership, Reconcile,
   replay_device_updates, drain, send_pending, clear_partial_markers, notify_resolved,
   take_deferred_device_updates, resync_returns, leave_abandoned_room, abandon_send,
   abandon_clear, abandon_notify, vars

\* The constants: the three kinds of events are disjoint.
LEMMA Kinds ==
    /\ Old \subseteq Remote /\ Local \cap Remote = {} /\ Joins \cap (Local \cup Remote) = {}
    /\ NoEvent \notin Events /\ FailMax \in Nat /\ CrashMax \in Nat
    /\ ReauthAttempts \in Nat \ {0}
BY PartialAssumption

\* A local event that was appended is sent and recorded, or the append ends.
LEMMA SendSteps ==
    ASSUME AddingOK, append_send \/ append_record
    PROVE  /\ adding.event \in Local /\ adding.step # "Insert" /\ adding.step # "None"
           /\ \/ adding' = None
              \/ /\ adding'.step \in {"RecordFew", "RecordAll"} /\ adding'.event = adding.event
                 /\ adding' \in [step : Steps, event : Events \cup {NoEvent}]
BY DEF append_send, append_record, AddingOK, Steps

\* The event of an append stays the same while it goes from step to step.
LEMMA AddingStep == AddingOK /\ [Next]_vars => AddingOK'
<1> SUFFICES ASSUME AddingOK, [Next]_vars
             PROVE  AddingOK'
  OBVIOUS
<1>1. CASE UNCHANGED adding
  BY Zenon, <1>1 DEF AddingOK
<1>2. CASE adding' = None
  BY <1>2 DEF AddingOK, None, Steps
<1>3. ASSUME NEW e \in Local \cup Remote, append_begin(e)
      PROVE  AddingOK'
  BY <1>3, Kinds DEF AddingOK, append_begin, Steps, Events
<1>4. ASSUME NEW j \in Joins, register_partial(j)
      PROVE  AddingOK'
  BY <1>4, Kinds DEF AddingOK, register_partial, Steps, Events
<1>5. CASE append_insert
  BY <1>5, <1>2, Kinds DEF AddingOK, append_insert, Steps, Events
<1>6. CASE join_append
  BY <1>6, Kinds DEF AddingOK, join_append, Steps, Events
<1>7. CASE join_fails \/ signal_resync \/ Crash
  BY Zenon, <1>2, <1>7 DEF join_fails, signal_resync, Crash
<1>8. CASE append_send \/ append_record
  BY <1>2, <1>8, SendSteps, Kinds DEF AddingOK, Steps, Events
<1>9. QED
  BY Zenon, <1>1, <1>3, <1>4, <1>5, <1>6, <1>7, <1>8, AddingSteps DEF Append

\* Every step takes events from the sets of events.
LEMMA EventsStep ==
    ASSUME Sound, [Next]_vars
    PROVE  EventsOK'
<1> USE Kinds DEF Events
<1>1. CASE UNCHANGED <<room, marks, sends, joins, walk, installed>>
  BY Zenon, <1>1 DEF Sound, EventsOK, room, sends, walk
<1>2. ASSUME NEW e \in Local \cup Remote, append_begin(e)
      PROVE  EventsOK'
  <2>1. /\ UNCHANGED <<log, current, unverified, rows, narrow, window, seen, joins, installed>>
        /\ marks' \subseteq marks \cup {e}
    BY Zenon, <1>2 DEF append_begin, mark_pending_event, sends, walk, locals, bounds
  <2>2. \E P \in SUBSET Events : prev' = [prev EXCEPT ![e] = P]
    BY <1>2 DEF append_begin, Sound, EventsOK
  <2>3. extremities' \subseteq extremities \cup {e}
    BY <1>2 DEF append_begin, set_forward_extremities, calculate_forward_extremities, Kept
  <2>4. QED
    BY <2>1, <2>2, <2>3 DEF Sound, EventsOK
<1>3. ASSUME NEW j \in Joins, register_partial(j)
      PROVE  EventsOK'
  <2>1. /\ UNCHANGED <<marks, extremities, log, prev, unverified, rows, window, seen, installed>>
        /\ joins' = joins \cup {j} /\ current' = log /\ narrow' = narrow \cap rows
    BY Zenon, <1>3 DEF register_partial, walk, locals
  <2>2. QED
    BY <2>1 DEF Sound, EventsOK
<1>4. CASE append_insert
  <2>1. /\ UNCHANGED <<marks, extremities, prev, rows, narrow, window, seen, joins, installed>>
        /\ log' = log \cup {adding.event} /\ current' = current \cup {adding.event}
        /\ unverified' \subseteq unverified \cup {adding.event}
        /\ adding.event \in Events
    BY <1>4 DEF append_insert, marked, sends, walk, locals, bounds, Sound, AddingOK
  <2>2. QED
    BY <2>1 DEF Sound, EventsOK
<1>5. CASE append_record
  <2>1. /\ UNCHANGED <<marks, room, window, seen, joins, installed>> /\ adding.event \in Local
        /\ narrow' \subseteq narrow \cup {adding.event} /\ rows' \subseteq rows \cup {adding.event}
    BY <1>5 DEF append_record, marked, room, walk, locals, bounds, Sound, AddingOK
  <2>2. QED
    BY <2>1 DEF Sound, EventsOK, room
<1>6. CASE join_append
  <2>1. /\ UNCHANGED <<log, prev, current, unverified, rows, narrow, window, seen, joins,
                       installed>>
        /\ extremities' = {adding.event} /\ marks' \subseteq marks \cup {adding.event}
        /\ adding.event \in Events
    BY <1>6 DEF join_append, mark_pending_event, sends, walk, locals, bounds, Sound, AddingOK
  <2>2. QED
    BY <2>1 DEF Sound, EventsOK
<1>7. CASE reauth_window
  <2>1. /\ UNCHANGED <<room, marks, sends, joins, installed>>
        /\ window' \subseteq log /\ seen' = extremities
    BY <1>7 DEF reauth_window, Window, marked, room, sends, locals, bounds
  <2>2. QED
    BY <2>1 DEF Sound, EventsOK, room, sends
<1>8. CASE install_current_state
  <2>1. /\ UNCHANGED <<extremities, log, prev, rows, narrow, seen, joins, installed>>
        /\ marks' = {} /\ window' = {} /\ unverified' \subseteq unverified
        /\ current' \subseteq window \cup log
    BY <1>8 DEF install_current_state, Install, sends, locals, bounds
  <2>2. QED
    BY <2>1 DEF Sound, EventsOK
<1>9. CASE reauth_fails \/ install_refused \/ reconcile_membership \/ resync_returns \/ Crash
  <2>1. /\ UNCHANGED <<room, marks, sends, joins>>
        /\ window' \in {window, {}} /\ seen' \in {seen, {}}
        /\ installed' \in {installed, Nothing, [is |-> TRUE, at |-> seen]}
    BY Zenon, <1>9 DEF reauth_fails, ReauthFails, install_refused, WalkAgain,
       reconcile_membership, Reconcile, resync_returns, Crash, NoLocals, marked, walk, locals,
       bounds
  <2>2. {installed, Nothing, [is |-> TRUE, at |-> seen]}
          \subseteq [is : BOOLEAN, at : SUBSET Events]
    BY DEF Nothing, Sound, EventsOK
  <2>3. QED
    BY Zenon, <2>1, <2>2 DEF Sound, EventsOK, room, sends
<1>10. CASE send_pending \/ abandon_send
  <2>1. /\ UNCHANGED <<room, marks, joins, walk, installed>>
        /\ rows' \subseteq rows /\ narrow' \subseteq narrow
    BY <1>10 DEF send_pending, abandon_send, Sent, marked, room, walk, locals, bounds
  <2>2. QED
    BY <2>1 DEF Sound, EventsOK, room, walk
<1>11. CASE clear_partial_markers \/ abandon_clear
  <2>1. /\ UNCHANGED <<room, sends, joins, walk, installed>> /\ marks' \subseteq marks
    BY <1>11 DEF clear_partial_markers, abandon_clear, marked, room, sends, walk, locals, bounds
  <2>2. QED
    BY <2>1 DEF Sound, EventsOK, room, sends, walk
<1>12. CASE leave_abandoned_room
  <2>1. UNCHANGED <<joins, walk, installed>>
    BY Zenon, <1>12 DEF leave_abandoned_room, locals, bounds
  <2>2. CASE UNCHANGED <<marks, extremities, log, prev, current, unverified, sends>>
    BY <2>1, <2>2 DEF Sound, EventsOK, walk, sends
  <2>3. ASSUME NEW e \in Local, extremities' = {e}, prev' = [prev EXCEPT ![e] = extremities],
               log' = log \cup {e}, current' = current \cup {e}, marks' \subseteq marks \cup {e},
               unverified' \subseteq unverified \cup {e}, rows' \subseteq rows \cup {e},
               narrow' \subseteq narrow \cup {e}
        PROVE  EventsOK'
    BY <2>1, <2>3 DEF Sound, EventsOK, walk
  <2>4. QED
    BY <1>12, <2>2, <2>3 DEF leave_abandoned_room, mark_pending_event, marked, room
<1>13. QED
  BY Zenon, <1>1, <1>2, <1>3, <1>4, <1>5, <1>6, <1>7, <1>8, <1>9, <1>10, <1>11, <1>12 DEF Next,
     Append, Task, append_send, join_fails, signal_resync, start_resync, await_full_state,
     defer_device_update, judge_event, resync_loop, Loop, fetch_state, should_give_up,
     replay_device_updates, drain, notify_resolved, take_deferred_device_updates,
     abandon_notify, vars, marked, locals, bounds

\* Only received events are judged.
LEMMA JudgedStep == JudgedOK /\ [Next]_vars => JudgedOK'
<1> SUFFICES ASSUME JudgedOK, [Next]_vars
             PROVE  JudgedOK'
  OBVIOUS
<1>1. CASE append_insert
  BY <1>1 DEF append_insert, JudgedOK
<1>2. CASE judge_event
  <2>1. UNCHANGED late
    BY Zenon, <1>2 DEF judge_event, room
  <2>2. QED
    BY <1>2, <2>1 DEF judge_event, JudgedOK
<1>3. CASE Crash
  BY Zenon, <1>3 DEF Crash, room, JudgedOK
<1>4. CASE UNCHANGED <<judged, late>>
  BY Zenon, <1>4 DEF JudgedOK
<1>5. QED
  BY Zenon, <1>1, <1>2, <1>3, <1>4 DEF Next, Append, append_begin, register_partial,
     append_send, append_record, join_append, join_fails, signal_resync, start_resync,
     await_full_state, defer_device_update, vars, Task, resync_loop, Loop, fetch_state,
     should_give_up, reauth_window, reauth_fails, install_current_state, Install,
     install_refused, WalkAgain, reconcile_membership, Reconcile, replay_device_updates,
     drain, send_pending, clear_partial_markers, notify_resolved,
     take_deferred_device_updates, resync_returns, leave_abandoned_room, abandon_send,
     abandon_clear, abandon_notify, room

\* A walk is counted once, and the last one is not followed by another.
LEMMA CountersStep ==
    ASSUME Sound, [Next]_vars
    PROVE  CountersOK'
<1> USE Kinds
<1>1. CASE UNCHANGED <<pc, attempt>> /\ signals' \in Nat /\ fails' \in Nat /\ crashes' \in Nat
  BY Zenon, <1>1 DEF Sound, CountersOK
<1>2. ASSUME UNCHANGED <<signals, crashes>>, fails' \in {fails, fails + 1},
             pc' \notin {"Walk", "Install"}, attempt' = 0
      PROVE  CountersOK'
  BY <1>2 DEF Sound, CountersOK
<1>3. CASE start_resync
  BY <1>3 DEF start_resync, bounds, walk, Sound, CountersOK, PlacesOK
<1>4. CASE Crash
  BY <1>4 DEF Crash, Sound, CountersOK
<1>5. CASE resync_loop \/ should_give_up \/ replay_device_updates
  <2>1. /\ UNCHANGED <<signals, crashes, attempt>> /\ fails' \in {fails, fails + 1}
        /\ pc' \notin {"Walk", "Install"} /\ pc \notin {"Walk", "Install"}
    BY <1>5 DEF resync_loop, Loop, should_give_up, replay_device_updates, walk, AfterInstall
  <2>2. QED
    BY <1>2, <2>1 DEF Sound, CountersOK
<1>6. CASE fetch_state \/ drain
  <2>1. /\ UNCHANGED <<signals, crashes, attempt, fails>> /\ pc' \in {"Walk", "Send"}
        /\ pc \notin {"Walk", "Install"}
    BY <1>6 DEF fetch_state, drain, walk, bounds
  <2>2. QED
    BY <2>1 DEF Sound, CountersOK
<1>7. CASE reauth_window
  BY <1>7 DEF reauth_window, bounds, Sound, CountersOK
<1>8. CASE reauth_fails
  BY <1>8, <1>2 DEF reauth_fails, ReauthFails
<1>9. CASE install_current_state
  BY <1>9, <1>2 DEF install_current_state, Install, bounds
<1>10. CASE install_refused
  <2>1. UNCHANGED <<signals, crashes, fails>>
    BY Zenon, <1>10 DEF install_refused, WalkAgain, bounds
  <2>2. CASE attempt = ReauthAttempts
    <3>1. pc' = "Loop" /\ attempt' = 0
      BY Zenon, <1>10, <2>2 DEF install_refused, WalkAgain, ReauthFails
    <3>2. QED
      BY <1>2, <2>1, <3>1
  <2>3. CASE attempt # ReauthAttempts
    <3>1. pc' = "Walk" /\ attempt' = attempt
      BY Zenon, <1>10, <2>3 DEF install_refused, WalkAgain
    <3>2. QED
      BY <2>1, <2>3, <3>1 DEF Sound, CountersOK
  <2>4. QED
    BY Zenon, <2>2, <2>3
<1>11. CASE \/ reconcile_membership \/ send_pending \/ clear_partial_markers
            \/ notify_resolved \/ take_deferred_device_updates \/ resync_returns
  <2>1. /\ UNCHANGED <<signals, crashes, attempt>> /\ fails' \in {fails, fails + 1}
        /\ pc' \notin {"Walk", "Install"} /\ pc \notin {"Walk", "Install"}
    BY <1>11 DEF reconcile_membership, Reconcile, AfterInstall, send_pending,
       clear_partial_markers, notify_resolved, take_deferred_device_updates, resync_returns,
       walk, bounds
  <2>2. QED
    BY <1>2, <2>1 DEF Sound, CountersOK
<1>12. CASE leave_abandoned_room \/ abandon_send \/ abandon_clear \/ abandon_notify
  <2>1. /\ UNCHANGED <<signals, crashes, attempt>> /\ fails' \in {fails, fails + 1}
        /\ pc' \notin {"Walk", "Install"} /\ pc \notin {"Walk", "Install"}
    BY <1>12 DEF leave_abandoned_room, abandon_send, abandon_clear, abandon_notify, walk, bounds
  <2>2. QED
    BY <1>2, <2>1 DEF Sound, CountersOK
<1>13. CASE Append
  <2>1. /\ UNCHANGED <<pc, attempt, crashes>> /\ signals' \in {signals, signals + 1}
        /\ fails' \in {fails, fails + 1}
    BY Zenon, <1>13 DEF Append, append_insert, append_send, append_record, join_append,
       join_fails, signal_resync, walk, bounds
  <2>2. QED
    BY <1>1, <2>1 DEF Sound, CountersOK
<1>14. ASSUME UNCHANGED <<pc, attempt, signals, fails, crashes>>
       PROVE  CountersOK'
  BY Zenon, <1>14 DEF Sound, CountersOK
<1>15. QED
  BY Zenon, <1>3, <1>4, <1>5, <1>6, <1>7, <1>8, <1>9, <1>10, <1>11, <1>12, <1>13, <1>14 DEF
     Next, Task, append_begin, register_partial, await_full_state, defer_device_update,
     judge_event, vars, walk, bounds

\* Everyone goes from a place to a place.
LEMMA PlacesStep == PlacesOK /\ [Next]_vars => PlacesOK'
<1> SUFFICES ASSUME PlacesOK, [Next]_vars
             PROVE  PlacesOK'
  OBVIOUS
<1>1. lock' \in Appending \cup {"None", "task"}
  BY Zenon DEF Appending, PlacesOK, Next, Append, Task, append_begin, register_partial,
     append_insert, append_send, append_record, join_append, join_fails, signal_resync,
     start_resync, await_full_state, defer_device_update, judge_event, Crash, resync_loop, Loop,
     fetch_state, should_give_up, reauth_window, reauth_fails, install_current_state, Install,
     install_refused, WalkAgain, reconcile_membership, Reconcile, replay_device_updates, drain,
     send_pending, clear_partial_markers, notify_resolved, take_deferred_device_updates,
     resync_returns, leave_abandoned_room, abandon_send, abandon_clear, abandon_notify, vars
<1>2. waiter' \in {"Idle", "Armed", "Waiting"}
  BY Zenon DEF PlacesOK, Next, Append, Task, append_begin, register_partial, append_insert,
     append_send, append_record, join_append, join_fails, signal_resync, start_resync,
     await_full_state, defer_device_update, judge_event, Crash, resync_loop, Loop, fetch_state,
     should_give_up, reauth_window, reauth_fails, install_current_state, Install,
     install_refused, WalkAgain, reconcile_membership, Reconcile, replay_device_updates, drain,
     send_pending, clear_partial_markers, notify_resolved, Woken, take_deferred_device_updates,
     resync_returns, leave_abandoned_room, abandon_send, abandon_clear, abandon_notify, vars
<1>3. edu' \in {"Idle", "Asked", "Checked", "Deferred", "Late", "Dropped"}
  <2>1. CASE take_deferred_device_updates
    BY <2>1 DEF take_deferred_device_updates, PlacesOK
  <2>2. QED
    BY Zenon, <2>1 DEF PlacesOK, Next, Append, append_begin, register_partial, append_insert,
       append_send, append_record, join_append, join_fails, signal_resync, start_resync,
       await_full_state, defer_device_update, judge_event, Crash, vars, Task, resync_loop, Loop,
       fetch_state, should_give_up, reauth_window, reauth_fails, install_current_state, Install,
       install_refused, WalkAgain, reconcile_membership, Reconcile, replay_device_updates,
       drain, send_pending, clear_partial_markers, notify_resolved,
       take_deferred_device_updates, resync_returns, leave_abandoned_room, abandon_send,
       abandon_clear, abandon_notify
<1>4. before' \in {"None", "Few", "All"}
  BY Zenon DEF PlacesOK, Next, Append, append_begin, register_partial, append_insert,
     append_send, append_record, join_append, join_fails, signal_resync, start_resync,
     await_full_state, defer_device_update, judge_event, Crash, vars, Task, resync_loop, Loop,
     fetch_state, should_give_up, reauth_window, reauth_fails, install_current_state, Install,
     install_refused, WalkAgain, reconcile_membership, Reconcile, replay_device_updates, drain,
     send_pending, clear_partial_markers, notify_resolved, take_deferred_device_updates,
     resync_returns, leave_abandoned_room, abandon_send, abandon_clear, abandon_notify,
     device_list_servers, NoLocals, ReauthFails, locals
<1>5. pc' \in Places
  <2>1. CASE Task
    BY Zenon, <2>1 DEF Places, Task, resync_loop, Loop, fetch_state, should_give_up,
       reauth_window, reauth_fails, install_current_state, Install, install_refused, WalkAgain,
       reconcile_membership, Reconcile, replay_device_updates, drain, send_pending,
       clear_partial_markers, notify_resolved, take_deferred_device_updates, resync_returns,
       leave_abandoned_room, abandon_send, abandon_clear, abandon_notify, ReauthFails,
       AfterInstall
  <2>2. QED
    BY Zenon, <2>1 DEF PlacesOK, Places, Next, Append, append_begin, register_partial,
       append_insert, append_send, append_record, join_append, join_fails, signal_resync,
       start_resync, await_full_state, defer_device_update, judge_event, Crash, vars
<1>6. active' <=> pc' # "Idle"
  <2>1. CASE resync_returns \/ Crash
    BY Zenon, <2>1 DEF resync_returns, Crash
  <2>2. CASE start_resync
    BY Zenon, <2>2 DEF start_resync, PlacesOK
  <2>3. CASE Task /\ ~resync_returns
    <3>1. active' = active
      BY ZenonT(60), <2>3 DEF Task, resync_loop, Loop, fetch_state, should_give_up,
         reauth_window, reauth_fails, install_current_state, Install, install_refused,
         WalkAgain, reconcile_membership, Reconcile, replay_device_updates, drain, send_pending,
         clear_partial_markers, notify_resolved, take_deferred_device_updates, resync_returns,
         leave_abandoned_room, abandon_send, abandon_clear, abandon_notify
    <3>2. pc # "Idle" /\ pc' # "Idle"
      BY Zenon, <2>3 DEF Task, resync_loop, Loop, fetch_state, should_give_up, reauth_window,
         reauth_fails, install_current_state, Install, install_refused, WalkAgain,
         reconcile_membership, Reconcile, replay_device_updates, drain, send_pending,
         clear_partial_markers, notify_resolved, take_deferred_device_updates, resync_returns,
         leave_abandoned_room, abandon_send, abandon_clear, abandon_notify, ReauthFails,
         AfterInstall
    <3>3. QED
      BY Zenon, <3>1, <3>2 DEF PlacesOK
  <2>4. CASE UNCHANGED <<active, pc>>
    BY Zenon, <2>4 DEF PlacesOK
  <2>5. QED
    BY Zenon, <2>1, <2>2, <2>3, <2>4 DEF Next, Append, append_begin, register_partial,
       append_insert, append_send, append_record, join_append, join_fails, signal_resync,
       start_resync, await_full_state, defer_device_update, judge_event, Crash, vars
<1>7. QED
  BY Zenon, <1>1, <1>2, <1>3, <1>4, <1>5, <1>6 DEF PlacesOK

\* The types hold in every state.
LEMMA SoundHolds == Spec => []Sound
<1>1. Init => Sound
  <2>1. Init => FlagsOK /\ PlacesOK /\ JudgedOK
    BY Zenon DEF Init, FlagsOK, PlacesOK, Places, Appending, JudgedOK
  <2>2. Init => AddingOK /\ EventsOK /\ CountersOK
    BY Kinds DEF Init, AddingOK, EventsOK, CountersOK, None, Nothing, Steps
  <2>3. QED
    BY Zenon, <2>1, <2>2 DEF Sound
<1>2. Sound /\ [Next]_vars => Sound'
  BY Zenon, FlagsStep, AddingStep, EventsStep, JudgedStep, CountersStep, PlacesStep DEF Sound
<1>3. QED
  BY <1>1, <1>2, PTL DEF Spec

\* Type correctness, with or without crashes, for any number of joins: an append has its event
\* in hand at every step, and a resync never walks more than REAUTH_ATTEMPTS times.
THEOREM ResyncTypes == Spec => []TypeOK
<1>1. Sound => TypeOK
  BY Zenon DEF Sound, FlagsOK, AddingOK, EventsOK, JudgedOK, CountersOK, PlacesOK, TypeOK,
     Appending
<1>2. QED
  BY <1>1, SoundHolds, PTL

-----------------------------------------------------------------------------
(* The state lock *)

\* The lock is held by the append in progress, or by the task while it sends what is recorded
\* and drops the markers.
Locked ==
    /\ lock \in Appending <=> adding.step # "None"
    /\ lock = "task" <=> pc \in TaskLocked

\* Who takes or gives back the lock, moves an append or the task.
LEMMA LockSteps ==
    ASSUME [Next]_vars
    PROVE  \/ UNCHANGED <<lock, adding, pc>>
           \/ \E e \in Local \cup Remote : append_begin(e)
           \/ \E j \in Joins : register_partial(j)
           \/ Append \/ start_resync \/ Task \/ Crash
BY Zenon DEF Next, await_full_state, defer_device_update, judge_event, vars

\* Every step that takes or gives back the lock begins or ends the work it is held for.
LEMMA LockedStep == Sound /\ Locked /\ [Next]_vars => Locked'
<1> SUFFICES ASSUME Sound, Locked, [Next]_vars
             PROVE  Locked'
  OBVIOUS
<1>1. CASE UNCHANGED <<lock, adding, pc>>
  BY Zenon, <1>1 DEF Locked
<1>2. ASSUME NEW e \in Local \cup Remote, append_begin(e)
      PROVE  Locked'
  BY <1>2 DEF append_begin, Locked, Appending, TaskLocked
<1>3. ASSUME NEW j \in Joins, register_partial(j)
      PROVE  Locked'
  BY <1>3 DEF register_partial, Locked, Appending, TaskLocked
<1>4. CASE Append
  <2>1. /\ adding.step # "None" /\ pc' = pc
        /\ adding' \in [step : Steps, event : Events \cup {NoEvent}]
    BY <1>4, AddingStep DEF Append, append_insert, append_send, append_record, join_append,
       join_fails, signal_resync, Sound, AddingOK
  <2>2. \/ lock' = "None" /\ adding'.step = "None"
        \/ lock' = lock /\ adding'.step # "None"
    BY <1>4 DEF Append, append_insert, append_send, append_record, join_append, join_fails,
       signal_resync, None, Sound, AddingOK
  <2>3. QED
    BY <2>1, <2>2 DEF Locked, Appending, TaskLocked
<1>5. CASE Crash
  BY <1>5 DEF Crash, None, Locked, Appending, TaskLocked
<1>6. CASE start_resync
  BY <1>6 DEF start_resync, Sound, PlacesOK, Locked, Appending, TaskLocked
<1>7. CASE Task
  <2>1. UNCHANGED adding
    BY ZenonT(60), <1>7 DEF Task, resync_loop, Loop, fetch_state, should_give_up, reauth_window,
       reauth_fails, install_current_state, Install, install_refused, WalkAgain,
       reconcile_membership, Reconcile, replay_device_updates, drain, send_pending,
       clear_partial_markers, notify_resolved, take_deferred_device_updates, resync_returns,
       leave_abandoned_room, abandon_send, abandon_clear, abandon_notify
  <2>2. \/ lock' = lock /\ pc \notin TaskLocked /\ pc' \notin TaskLocked
        \/ lock' = lock /\ pc = "Send" /\ pc' = "Clear"
        \/ lock = "None" /\ lock' = "task" /\ pc' \in TaskLocked
        \/ lock' = "None" /\ pc \in TaskLocked /\ pc' \notin TaskLocked
    BY Zenon, <1>7 DEF TaskLocked, Task, resync_loop, Loop, fetch_state, should_give_up,
       reauth_window, reauth_fails, install_current_state, Install, install_refused, WalkAgain,
       reconcile_membership, Reconcile, replay_device_updates, drain, send_pending,
       clear_partial_markers, notify_resolved, take_deferred_device_updates, resync_returns,
       leave_abandoned_room, abandon_send, abandon_clear, abandon_notify, ReauthFails,
       AfterInstall
  <2>3. QED
    BY <2>1, <2>2 DEF Locked, Appending, TaskLocked
<1>8. QED
  BY Zenon, <1>1, <1>2, <1>3, <1>4, <1>5, <1>6, <1>7, LockSteps

\* The lock is held as Locked says in every state.
LEMMA LockHolds == Spec => []Locked
<1>1. Init => Locked
  BY DEF Init, Locked, None, Appending, TaskLocked
<1>2. QED
  BY <1>1, LockedStep, SoundHolds, PTL DEF Spec

-----------------------------------------------------------------------------
(* Joins *)

\* The room is joined once; or the resync is never given up, so that we do not leave it and
\* join again, and only a join that failed is tried again. (After giving up and a second join,
\* a task that is still giving up clears the markers of the room joined again.)
OneJoin == \A i, j \in Joins : i = j
Stays == OneJoin \/ ~GiveUp

Entering == adding.event \in Joins
Present == joined \/ Entering
Working == Places \ {"Idle", "Loop", "Notify", "Surface", "Exit", "AbandonNotify"}
Abandoning == {"AbandonLeave", "AbandonSend", "AbandonClear", "AbandonNotify"}

\* The marker stands while a join is made and while the task is at work, and a task begins
\* with nothing in hand.
Course ==
    /\ Entering \/ pc \in Working => partial
    /\ adding.step = "Join" => ~joined
    /\ pc = "Idle" => before = "None" /\ ~found /\ ~replayed /\ ~installed.is

\* Before the first join there is nothing.
Early ==
    joins = {} =>
        /\ ~partial /\ ~joined /\ adding.step = "None" /\ pc = "Idle" /\ signals = 0
        /\ log = {} /\ extremities = {} /\ unverified = {} /\ narrow = {} /\ edu = "Idle"

\* A resync that is never given up does nothing to a room whose join has not succeeded yet.
Fresh ==
    /\ log = {} /\ unverified = {} /\ narrow = {} /\ ~installed.is
    /\ pc \in {"Idle", "Loop", "Fetch", "Walk", "Exit"}
    /\ adding.step \notin {"Send", "RecordFew", "RecordAll", "Signal"}
    /\ (adding.step = "Insert" => Entering)
Lasting == ~GiveUp => pc \notin Abandoning /\ (~joined => Fresh)

\* In a room that is joined once there is one task at most, and it starts when the join is
\* done; it is at work while the room is partial, and gives up a room that we have left.
OneTask ==
    /\ signals > 0 => signals = 1 /\ pc = "Idle"
    /\ Entering => /\ signals = 0 /\ pc = "Idle" /\ ~reconciled /\ log \subseteq {adding.event}
    /\ adding.step = "Join" => log = {}
    /\ signals > 0 \/ pc = "Loop" => partial
    /\ pc \in Abandoning \ {"AbandonLeave"} => ~joined

Once == Course /\ Early /\ Lasting /\ (OneJoin => OneTask)

\* A join finds a room without events; the first finds no task either.
LEMMA JoinBegins ==
    ASSUME Stays, Sound, Once, NEW j \in Joins, register_partial(j)
    PROVE  /\ log = {} /\ unverified = {} /\ narrow = {} /\ ~installed.is
           /\ pc \in {"Idle", "Loop", "Fetch", "Walk", "Exit"}
           /\ OneJoin => pc = "Idle" /\ signals = 0 /\ edu = "Idle"
<1>1. j \notin joins /\ joins \subseteq Joins /\ ~joined
  BY DEF register_partial, Sound, EventsOK
<1>2. CASE OneJoin
  <2>1. joins = {}
    BY <1>1, <1>2 DEF OneJoin
  <2>2. QED
    BY <2>1 DEF Once, Early, Course
<1>3. CASE ~GiveUp /\ ~OneJoin
  BY <1>1, <1>3 DEF Once, Lasting, Fresh
<1>4. QED
  BY <1>2, <1>3 DEF Stays

\* Our join event is the first event of the timeline.
LEMMA JoinIsFirst ==
    ASSUME Stays, Once, adding.step = "Join"
    PROVE  log = {}
BY DEF Stays, Once, OneTask, Lasting, Course, Fresh

\* Who gives up is not in the room, nor about to be.
LEMMA LeavesForGood ==
    ASSUME Stays, Once
    PROVE  /\ pc \in Abandoning => ~Entering
           /\ pc \in Abandoning \ {"AbandonLeave"} => ~joined
<1>1. CASE OneJoin
  BY <1>1 DEF Once, OneTask, Abandoning
<1>2. CASE ~GiveUp
  BY <1>2 DEF Once, Lasting
<1>3. QED
  BY <1>1, <1>2 DEF Stays

\* Who moves an append on, and what it does to the event in hand.
LEMMA EnteringSteps ==
    ASSUME Sound, [Next]_vars, Entering'
    PROVE  \/ Entering /\ adding'.event = adding.event
           \/ \E j \in Joins : register_partial(j) /\ adding' = [step |-> "Join", event |-> j]
<1>1. CASE UNCHANGED adding
  BY Zenon, <1>1 DEF Entering
<1>2. ASSUME NEW e \in Local \cup Remote, append_begin(e)
      PROVE  FALSE
  BY <1>2, Kinds DEF append_begin, Entering
<1>3. CASE \E j \in Joins : register_partial(j)
  BY <1>3 DEF register_partial
<1>4. CASE append_insert \/ join_append
  BY <1>4, Kinds DEF append_insert, join_append, None, Entering, Events, Sound, AddingOK
<1>5. CASE join_fails \/ signal_resync \/ Crash
  <2>1. adding' = None
    BY Zenon, <1>5 DEF join_fails, signal_resync, Crash
  <2>2. QED
    BY <2>1, Kinds DEF Entering, None, Events
<1>6. CASE append_send \/ append_record
  BY <1>6, SendSteps, Kinds DEF Entering, None, Events, Sound
<1>7. QED
  BY Zenon, <1>1, <1>2, <1>3, <1>4, <1>5, <1>6, AddingSteps DEF Append

\* Every step keeps the marker up while it is needed.
LEMMA CourseStep == Sound /\ Locked /\ Course /\ [Next]_vars => Course'
<1> SUFFICES ASSUME Sound, Locked, Course, [Next]_vars
             PROVE  Course'
  OBVIOUS
<1>1. Entering' => partial'
  <2> SUFFICES ASSUME Entering'
               PROVE  partial'
    OBVIOUS
  <2>1. CASE \E j \in Joins : register_partial(j)
    BY Zenon, <2>1 DEF register_partial
  <2>2. CASE Entering /\ adding'.event = adding.event
    <3>1. lock \in Appending /\ pc \notin TaskLocked /\ partial
      BY <2>2, Kinds DEF Entering, Locked, Sound, AddingOK, Appending, Course, Events
    <3>2. ~clear_partial_markers /\ ~abandon_clear
      BY <3>1 DEF clear_partial_markers, abandon_clear, TaskLocked
    <3>3. partial' = partial \/ partial'
      BY Zenon, <3>2 DEF Next, Append, append_begin, register_partial, append_insert,
         append_send, append_record, join_append, join_fails, signal_resync, start_resync,
         await_full_state, defer_device_update, judge_event, Crash, vars, Task, resync_loop,
         Loop, fetch_state, should_give_up, reauth_window, reauth_fails, install_current_state,
         Install, install_refused, WalkAgain, reconcile_membership, Reconcile,
         replay_device_updates, drain, send_pending, clear_partial_markers, notify_resolved,
         take_deferred_device_updates, resync_returns, leave_abandoned_room, abandon_send,
         abandon_clear, abandon_notify, marked
    <3>4. QED
      BY Zenon, <3>1, <3>3
  <2>3. QED
    BY Zenon, <2>1, <2>2, EnteringSteps
<1>2. pc' \in Working => partial'
  <2>1. CASE Task
    BY Zenon, <2>1 DEF Working, Task, resync_loop, Loop, fetch_state, should_give_up,
       reauth_window, reauth_fails, install_current_state, Install, install_refused, WalkAgain,
       reconcile_membership, Reconcile, replay_device_updates, drain, send_pending,
       clear_partial_markers, notify_resolved, take_deferred_device_updates, resync_returns,
       leave_abandoned_room, abandon_send, abandon_clear, abandon_notify, ReauthFails,
       AfterInstall, marked, room, Course, Places
  <2>2. CASE start_resync
    BY <2>2 DEF start_resync, marked, Working, Course
  <2>3. CASE \E j \in Joins : register_partial(j)
    BY Zenon, <2>3 DEF register_partial
  <2>4. CASE Crash
    BY <2>4 DEF Crash, Working
  <2>5. QED
    BY ZenonT(60), <2>1, <2>2, <2>3, <2>4 DEF Next, Append, append_begin, register_partial,
       append_insert, append_send, append_record, join_append, join_fails, signal_resync,
       start_resync, await_full_state, defer_device_update, judge_event, Crash, vars, Course,
       marked
<1>3. adding'.step = "Join" => ~joined'
  <2> SUFFICES ASSUME adding'.step = "Join"
               PROVE  ~joined'
    OBVIOUS
  <2>1. \/ adding' = adding \/ \E j \in Joins : register_partial(j)
    <3>1. ~Append /\ ~Crash
      BY DEF Append, append_insert, append_send, append_record, join_append, join_fails,
         signal_resync, Crash, None, Sound, AddingOK
    <3>2. \A e \in Local \cup Remote : ~append_begin(e)
      BY DEF append_begin
    <3>3. QED
      BY Zenon, <3>1, <3>2, AddingSteps
  <2>2. \A j \in Joins : register_partial(j) => ~joined'
    BY Zenon DEF register_partial
  <2>3. adding' = adding => joined' = joined \/ ~joined'
    <3>1. append_insert => adding' # adding
      BY DEF append_insert, None, Sound, AddingOK
    <3>2. QED
      BY Zenon, <3>1 DEF Next, Append, append_begin, register_partial, append_insert,
         append_send, append_record, join_append, join_fails, signal_resync, start_resync,
         await_full_state, defer_device_update, judge_event, Crash, vars, Task, resync_loop,
         Loop, fetch_state, should_give_up, reauth_window, reauth_fails, install_current_state,
         Install, install_refused, WalkAgain, reconcile_membership, Reconcile,
         replay_device_updates, drain, send_pending, clear_partial_markers, notify_resolved,
         take_deferred_device_updates, resync_returns, leave_abandoned_room, abandon_send,
         abandon_clear, abandon_notify, room
  <2>4. QED
    BY Zenon, <2>1, <2>2, <2>3 DEF Course
<1>4. pc' = "Idle" => before' = "None" /\ ~found' /\ ~replayed' /\ ~installed'.is
  <2>1. ~Nothing.is
    BY DEF Nothing
  <2>2. CASE resync_returns \/ Crash
    BY ZenonT(60), <2>1, <2>2 DEF resync_returns, Crash, NoLocals
  <2>3. CASE Task /\ ~resync_returns
    BY Zenon, <2>3 DEF Task, resync_loop, Loop, fetch_state, should_give_up, reauth_window,
       reauth_fails, install_current_state, Install, install_refused, WalkAgain,
       reconcile_membership, Reconcile, replay_device_updates, drain, send_pending,
       clear_partial_markers, notify_resolved, take_deferred_device_updates, resync_returns,
       leave_abandoned_room, abandon_send, abandon_clear, abandon_notify, ReauthFails,
       AfterInstall
  <2>4. CASE start_resync
    BY <2>4 DEF start_resync, Sound, PlacesOK
  <2>5. CASE UNCHANGED <<pc, locals>>
    BY Zenon, <2>5 DEF Course, locals
  <2>6. QED
    BY Zenon, <2>2, <2>3, <2>4, <2>5 DEF Next, Append, append_begin, register_partial,
       append_insert, append_send, append_record, join_append, join_fails, signal_resync,
       start_resync, await_full_state, defer_device_update, judge_event, Crash, vars
<1>5. QED
  BY Zenon, <1>1, <1>2, <1>3, <1>4 DEF Course

\* Every step before the join leaves things as they were.
LEMMA EarlyStep == Sound /\ Early /\ [Next]_vars => Early'
<1> SUFFICES ASSUME Sound, Early, [Next]_vars, joins' = {}
             PROVE  Early'
  BY DEF Early
<1>1. CASE UNCHANGED <<partial, joined, adding, pc, signals, log, extremities,
                       unverified, narrow, edu, joins>>
  BY Zenon, <1>1 DEF Early
<1>2. joins = {}
  BY Zenon DEF Next, Append, append_begin, register_partial, append_insert, append_send,
     append_record, join_append, join_fails, signal_resync, start_resync, await_full_state,
     defer_device_update, judge_event, Crash, vars, Task, resync_loop, Loop, fetch_state,
     should_give_up, reauth_window, reauth_fails, install_current_state, Install,
     install_refused, WalkAgain, reconcile_membership, Reconcile, replay_device_updates, drain,
     send_pending, clear_partial_markers, notify_resolved, take_deferred_device_updates,
     resync_returns, leave_abandoned_room, abandon_send, abandon_clear, abandon_notify, bounds
<1>3. CASE Crash
  BY Zenon, <1>2, <1>3 DEF Crash, None, Early, marked, room, sends
<1>4. ~Append /\ ~Task /\ ~start_resync /\ ~defer_device_update
  <2>1. ~Append
    BY <1>2 DEF Append, append_insert, append_send, append_record, join_append, join_fails,
       signal_resync, Early
  <2>2. ~Task
    BY <1>2 DEF Task, resync_loop, Loop, fetch_state, should_give_up, reauth_window,
       reauth_fails, install_current_state, Install, install_refused, WalkAgain,
       reconcile_membership, Reconcile, replay_device_updates, drain, send_pending,
       clear_partial_markers, notify_resolved, take_deferred_device_updates, resync_returns,
       leave_abandoned_room, abandon_send, abandon_clear, abandon_notify, Early
  <2>3. ~start_resync
    BY <1>2 DEF start_resync, Early
  <2>4. ~defer_device_update
    BY <1>2 DEF defer_device_update, Early
  <2>5. QED
    BY <2>1, <2>2, <2>3, <2>4
<1>5. QED
  BY Zenon, <1>1, <1>2, <1>3, <1>4 DEF Next, append_begin, register_partial, Early,
     await_full_state, judge_event, vars, marked, room, sends, bounds

\* Every step of a resync that is not given up leaves a room alone that is not joined.
LEMMA LastingStep == Sound /\ Course /\ Lasting /\ [Next]_vars => Lasting'
<1> SUFFICES ASSUME Sound, Course, Lasting, [Next]_vars, ~GiveUp
             PROVE  pc' \notin Abandoning /\ (~joined' => Fresh')
  BY DEF Lasting
<1>1. pc \notin Abandoning /\ (~joined => Fresh)
  BY DEF Lasting
<1>2. pc' \notin Abandoning
  <2>1. CASE Task
    BY Zenon, <1>1, <2>1 DEF Abandoning, Task, resync_loop, Loop, fetch_state, should_give_up,
       reauth_window, reauth_fails, install_current_state, Install, install_refused, WalkAgain,
       reconcile_membership, Reconcile, replay_device_updates, drain, send_pending,
       clear_partial_markers, notify_resolved, take_deferred_device_updates, resync_returns,
       leave_abandoned_room, abandon_send, abandon_clear, abandon_notify, ReauthFails,
       AfterInstall
  <2>2. CASE start_resync \/ Crash
    BY <1>1, <2>2 DEF start_resync, Crash, Abandoning
  <2>3. QED
    BY ZenonT(60), <1>1, <2>1, <2>2 DEF Next, Append, append_begin, register_partial,
       append_insert, append_send, append_record, join_append, join_fails, signal_resync,
       start_resync, await_full_state, defer_device_update, judge_event, Crash, vars
<1> SUFFICES ASSUME ~joined'
             PROVE  Fresh'
  BY <1>2
<1>3. ~leave_abandoned_room
  BY <1>1 DEF leave_abandoned_room, Abandoning
<1>4. ~joined
  BY Zenon, <1>3 DEF Next, Append, append_begin, register_partial, append_insert, append_send,
     append_record, join_append, join_fails, signal_resync, start_resync, await_full_state,
     defer_device_update, judge_event, Crash, vars, Task, resync_loop, Loop, fetch_state,
     should_give_up, reauth_window, reauth_fails, install_current_state, Install,
     install_refused, WalkAgain, reconcile_membership, Reconcile, replay_device_updates, drain,
     send_pending, clear_partial_markers, notify_resolved, take_deferred_device_updates,
     resync_returns, leave_abandoned_room, abandon_send, abandon_clear, abandon_notify, room
<1>5. Fresh
  BY <1>1, <1>4
<1>6. CASE UNCHANGED <<log, unverified, narrow, installed, pc, adding>>
  BY Zenon, <1>5, <1>6 DEF Fresh, Entering
<1>7. ASSUME NEW e \in Local \cup Remote, append_begin(e)
      PROVE  FALSE
  BY Zenon, <1>4, <1>7 DEF append_begin
<1>8. ASSUME NEW j \in Joins, register_partial(j)
      PROVE  Fresh'
  BY <1>5, <1>8 DEF register_partial, Fresh, locals
<1>9. CASE append_insert
  <2>1. Entering
    BY <1>5, <1>9 DEF append_insert, Fresh
  <2>2. QED
    BY Zenon, <1>9, <2>1 DEF append_insert, Entering
<1>10. CASE join_append
  BY <1>5, <1>10 DEF join_append, Fresh, Entering, Sound, AddingOK, locals, sends
<1>11. CASE append_send \/ append_record \/ join_fails \/ signal_resync \/ Crash
  <2>1. /\ UNCHANGED <<log, unverified>> /\ adding' = None
        /\ ~append_send /\ ~append_record
    BY <1>5, <1>11 DEF append_send, append_record, join_fails, signal_resync, Crash, Fresh, room
  <2>2. /\ UNCHANGED narrow
        /\ UNCHANGED <<pc, installed>> \/ (pc' = "Idle" /\ installed' = Nothing)
    BY Zenon, <1>11, <2>1 DEF join_fails, signal_resync, Crash, NoLocals, sends, locals
  <2>3. QED
    BY <1>5, <2>1, <2>2 DEF Fresh, None, Nothing
<1>12. CASE start_resync
  BY <1>5, <1>12 DEF start_resync, Fresh, Entering, room, sends, locals
<1>13. CASE Task
  <2>1. resync_loop \/ fetch_state \/ should_give_up \/ reauth_window \/ reauth_fails
        \/ resync_returns
    BY Zenon, <1>5, <1>13 DEF Fresh, Task, resync_loop, Loop, fetch_state, should_give_up,
       reauth_window, reauth_fails, install_current_state, Install, install_refused, WalkAgain,
       reconcile_membership, Reconcile, replay_device_updates, drain, send_pending,
       clear_partial_markers, notify_resolved, take_deferred_device_updates, resync_returns,
       leave_abandoned_room, abandon_send, abandon_clear, abandon_notify
  <2>2. ~reauth_window
    <3>1. Window \subseteq log
      BY DEF Window
    <3>2. QED
      BY <1>5, <3>1 DEF Fresh, reauth_window
  <2>3. UNCHANGED <<log, unverified, narrow, adding>>
    BY Zenon, <2>1, <2>2 DEF resync_loop, Loop, fetch_state, should_give_up, reauth_fails,
       resync_returns, room, sends
  <2>4. pc' \in {"Idle", "Loop", "Fetch", "Walk", "Exit"} /\ ~installed'.is
    <3>1. ~installed.is /\ ~Nothing.is
      BY <1>5 DEF Fresh, Nothing
    <3>2. installed' \in {installed, Nothing}
      BY Zenon, <2>1, <2>2 DEF resync_loop, Loop, fetch_state, should_give_up, reauth_fails,
         ReauthFails, resync_returns, NoLocals, locals
    <3>3. pc' \in {"Idle", "Loop", "Fetch", "Walk", "Exit"}
      BY Zenon, <2>1, <2>2, <3>1 DEF resync_loop, Loop, fetch_state, should_give_up,
         reauth_fails, ReauthFails, resync_returns
    <3>4. QED
      BY <3>1, <3>2, <3>3
  <2>5. QED
    BY ZenonT(60), <1>5, <2>3, <2>4 DEF Fresh, Entering
<1>14. QED
  BY Zenon, <1>6, <1>7, <1>8, <1>9, <1>10, <1>11, <1>12, <1>13 DEF Next, Append,
     await_full_state, defer_device_update, judge_event, vars, room, sends, locals

\* Every step keeps the task alone, and at work on a partial room.
LEMMA OneTaskStep ==
    ASSUME OneJoin
    PROVE  Sound /\ Locked /\ Once /\ [Next]_vars => OneTask'
<1> SUFFICES ASSUME Sound, Locked, Once, [Next]_vars
             PROVE  OneTask'
  OBVIOUS
<1> OneTask
  BY DEF Once
<1>1. CASE UNCHANGED <<signals, adding, pc, partial, reconciled, log, joined>>
  BY Zenon, <1>1 DEF OneTask, Entering
<1>2. ASSUME NEW e \in Local \cup Remote, append_begin(e)
      PROVE  OneTask'
  <2>1. /\ UNCHANGED <<signals, pc, partial, reconciled, log, joined>>
        /\ adding' = [step |-> "Insert", event |-> e] /\ e \notin Joins
    BY <1>2, Kinds DEF append_begin
  <2>2. ~Entering' /\ adding'.step # "Join"
    BY <2>1 DEF Entering
  <2>3. QED
    BY Zenon, <2>1, <2>2 DEF OneTask
<1>3. ASSUME NEW j \in Joins, register_partial(j)
      PROVE  OneTask'
  <2>1. signals = 0 /\ pc = "Idle" /\ log = {}
    BY <1>3, JoinBegins DEF Stays
  <2>2. /\ UNCHANGED <<signals, pc, log>> /\ partial' = TRUE /\ reconciled' = FALSE
    BY Zenon, <1>3 DEF register_partial
  <2>3. QED
    BY <2>1, <2>2 DEF OneTask, Abandoning
<1>4. CASE append_insert
  <2>1. /\ UNCHANGED <<signals, pc, partial, reconciled>>
        /\ log' = log \cup {adding.event} /\ joined' = (joined \/ Entering)
    BY Zenon, <1>4 DEF append_insert, marked, Entering
  <2>2. /\ adding'.step # "Join"
        /\ Entering' => adding'.event = adding.event /\ Entering
    BY <1>4, Kinds DEF append_insert, None, Entering, Events, Sound, AddingOK
  <2>3. QED
    BY Zenon, <2>1, <2>2 DEF OneTask, Abandoning
<1>5. CASE append_send \/ append_record \/ join_fails
  <2>1. /\ UNCHANGED <<signals, pc, partial, reconciled, log, joined>>
    BY Zenon, <1>5 DEF append_send, append_record, join_fails, marked, room
  <2>2. ~Entering' /\ adding'.step # "Join"
    BY <1>5, SendSteps, Kinds DEF join_fails, Entering, None, Events, Sound
  <2>3. QED
    BY Zenon, <2>1, <2>2 DEF OneTask
<1>6. CASE join_append
  <2>1. /\ UNCHANGED <<signals, pc, partial, reconciled, log, joined>>
        /\ adding'.step = "Insert" /\ adding'.event = adding.event
    BY <1>6 DEF join_append, Sound, AddingOK
  <2>2. QED
    BY <2>1 DEF OneTask, Entering
<1>7. CASE signal_resync
  <2>1. /\ UNCHANGED <<pc, partial, reconciled, log, joined>> /\ adding' = None
        /\ signals' = signals + 1 /\ Entering
    BY <1>7 DEF signal_resync, marked, room, Entering, Sound, AddingOK
  <2>2. ~Entering' /\ adding'.step # "Join" /\ partial
    BY <2>1, Kinds DEF Entering, None, Events, Once, Course
  <2>3. QED
    BY <2>1, <2>2 DEF OneTask, Abandoning
<1>8. CASE start_resync
  <2>1. /\ UNCHANGED <<adding, partial, reconciled, log, joined>>
        /\ signals' = signals - 1 /\ signals > 0 /\ pc = "Idle" /\ pc' = "Loop"
    BY <1>8 DEF start_resync, marked, room, Sound, PlacesOK, OneTask
  <2>2. QED
    BY <2>1 DEF OneTask, Entering, Abandoning
<1>9. CASE Crash
  <2>1. /\ adding' = None /\ signals' \in {0, 1} /\ (signals' = 1 => partial') /\ pc' = "Idle"
    BY <1>9 DEF Crash, marked
  <2>2. ~Entering' /\ adding'.step # "Join"
    BY <2>1, Kinds DEF Entering, None, Events
  <2>3. QED
    BY <2>1, <2>2 DEF OneTask, Abandoning
<1>10. CASE Task
  <2>1. pc # "Idle" /\ ~(signals' > 0) /\ UNCHANGED adding /\ ~Entering /\ ~Entering'
    <3>1. pc # "Idle" /\ UNCHANGED <<adding, signals>>
      BY Zenon, <1>10 DEF Task, resync_loop, Loop, fetch_state, should_give_up, reauth_window,
         reauth_fails, install_current_state, Install, install_refused, WalkAgain,
         reconcile_membership, Reconcile, replay_device_updates, drain, send_pending,
         clear_partial_markers, notify_resolved, take_deferred_device_updates, resync_returns,
         leave_abandoned_room, abandon_send, abandon_clear, abandon_notify
    <3>2. QED
      BY <3>1 DEF OneTask, Entering, Sound, CountersOK
  <2>2. adding'.step # "Join"
    BY <2>1 DEF Entering, Sound, AddingOK
  <2>3. pc \in Working \/ pc = "Loop" => partial
    BY DEF OneTask, Once, Course
  <2>4. pc' = "Loop" => partial'
    <3>1. pc' = "Loop" => pc \in Working /\ ~abandon_clear
      BY Zenon, <1>10 DEF Working, Task, resync_loop, Loop, fetch_state, should_give_up,
         reauth_window, reauth_fails, install_current_state, Install, install_refused,
         WalkAgain, reconcile_membership, Reconcile, replay_device_updates, drain,
         send_pending, clear_partial_markers, notify_resolved, take_deferred_device_updates,
         resync_returns, leave_abandoned_room, abandon_send, abandon_clear, abandon_notify,
         ReauthFails, AfterInstall, Places
    <3>2. pc' = "Loop" => partial' = partial \/ abandon_clear
      <4>1. clear_partial_markers => pc' = "Notify" \/ partial' = partial
        BY ZenonT(60) DEF clear_partial_markers, marked
      <4>2. QED
        BY Zenon, <1>10, <4>1 DEF Task, resync_loop, Loop, fetch_state, should_give_up,
           reauth_window, reauth_fails, install_current_state, Install, install_refused,
           WalkAgain, reconcile_membership, Reconcile, replay_device_updates, drain,
           send_pending, notify_resolved, take_deferred_device_updates, resync_returns,
           leave_abandoned_room, abandon_send, abandon_notify, marked
    <3>3. QED
      BY ZenonT(60), <2>3, <3>1, <3>2
  <2>5. pc' \in Abandoning \ {"AbandonLeave"} => ~joined'
    BY ZenonT(60), <1>10 DEF Abandoning, Task, resync_loop, Loop, fetch_state, should_give_up,
       reauth_window, reauth_fails, install_current_state, Install, install_refused, WalkAgain,
       reconcile_membership, Reconcile, replay_device_updates, drain, send_pending,
       clear_partial_markers, notify_resolved, take_deferred_device_updates, resync_returns,
       leave_abandoned_room, abandon_send, abandon_clear, abandon_notify, ReauthFails,
       AfterInstall, marked, room, OneTask
  <2>6. QED
    BY Zenon, <2>1, <2>2, <2>4, <2>5 DEF OneTask
<1>11. QED
  BY Zenon, <1>1, <1>2, <1>3, <1>4, <1>5, <1>6, <1>7, <1>8, <1>9, <1>10
     DEF Next, Append, await_full_state, defer_device_update, judge_event, vars, marked, room

\* All of this holds from the first state on.
LEMMA OnceHolds == Spec => []Once
<1>1. Init => Once
  <2>1. Init => /\ ~Entering /\ adding.step = "None" /\ ~installed.is /\ ~(signals > 0)
                /\ pc \notin Working /\ pc \notin Abandoning
    BY Kinds DEF Init, Entering, None, Events, Nothing, Working, Abandoning
  <2>2. Init => Early
    BY <2>1 DEF Init, Early
  <2>3. Init => Course /\ OneTask
    BY <2>1 DEF Init, Course, OneTask
  <2>4. Init => Lasting
    BY <2>1 DEF Init, Lasting, Fresh
  <2>5. QED
    BY Zenon, <2>2, <2>3, <2>4 DEF Once
<1>2. Sound /\ Locked /\ Once /\ [Next]_vars => Once'
  BY Zenon, CourseStep, EarlyStep, LastingStep, OneTaskStep DEF Once
<1>3. QED
  BY <1>1, <1>2, SoundHolds, LockHolds, PTL DEF Spec

-----------------------------------------------------------------------------
(* The markers *)

Rebuilt == {"Reconcile", "Replay", "Drain", "Send", "Clear"}

\* What was accepted on partial state is marked or late, until an install has covered all marks;
\* the markers go when there is no mark and the state is full.
Verified ==
    /\ adding.step = "Insert" /\ partial => adding.event \in marks
    /\ Present => unverified \subseteq marks \cup late
    /\ pc \in {"Send", "Clear"} => marks = {}
    /\ pc \in Rebuilt \/ installed.is => full
    /\ MarkersGuardState

\* Who changes the markers, the events accepted or the append in progress.
LEMMA MarkSteps ==
    ASSUME [Next]_vars
    PROVE  \/ UNCHANGED <<partial, marks, unverified, late, joined, full, adding>>
           \/ \E e \in Local \cup Remote : append_begin(e)
           \/ \E j \in Joins : register_partial(j)
           \/ Append \/ install_current_state \/ clear_partial_markers
           \/ leave_abandoned_room \/ abandon_clear \/ Crash
BY Zenon DEF Next, Task, start_resync, await_full_state, defer_device_update, judge_event,
   resync_loop, Loop, fetch_state, should_give_up, reauth_window, reauth_fails, install_refused,
   WalkAgain, reconcile_membership, Reconcile, replay_device_updates, drain, send_pending,
   notify_resolved, take_deferred_device_updates, resync_returns, abandon_send, abandon_notify,
   vars, marked, room

\* How the task comes to where the state is full, and where there are no marks.
LEMMA RebuiltSteps ==
    ASSUME Sound, Once, [Next]_vars,
           UNCHANGED <<partial, marks, unverified, late, joined, full, adding>>
    PROVE  /\ pc' \in {"Send", "Clear"} => pc \in {"Send", "Clear"} \/ marks = {}
           /\ pc' \in Rebuilt \/ installed'.is =>
                pc \in Rebuilt \/ installed.is \/ install_current_state
<1>1. ~Nothing.is
  BY DEF Nothing
<1>2. CASE start_resync
  BY <1>2 DEF start_resync, Rebuilt, locals, Sound, PlacesOK
<1>3. CASE Task
  <2>1. pc' \in {"Send", "Clear"} => pc \in {"Send", "Clear"} \/ marks = {}
    BY ZenonT(60), <1>3 DEF Task, resync_loop, Loop, fetch_state, should_give_up, reauth_window,
       reauth_fails, install_current_state, Install, install_refused, WalkAgain,
       reconcile_membership, Reconcile, replay_device_updates, drain, send_pending,
       clear_partial_markers, notify_resolved, take_deferred_device_updates, resync_returns,
       leave_abandoned_room, abandon_send, abandon_clear, abandon_notify, ReauthFails,
       AfterInstall, has_drifted
  <2>2. pc' \in Rebuilt => pc \in Rebuilt \/ installed.is \/ install_current_state
    BY ZenonT(60), <1>3 DEF Rebuilt, Task, resync_loop, Loop, fetch_state, should_give_up,
       reauth_window, reauth_fails, install_current_state, Install, install_refused, WalkAgain,
       reconcile_membership, Reconcile, replay_device_updates, drain, send_pending,
       clear_partial_markers, notify_resolved, take_deferred_device_updates, resync_returns,
       leave_abandoned_room, abandon_send, abandon_clear, abandon_notify, ReauthFails,
       AfterInstall
  <2>3. installed'.is => pc \in Rebuilt \/ installed.is
    BY Zenon, <1>1, <1>3 DEF Rebuilt, Task, resync_loop, Loop, fetch_state, should_give_up,
       reauth_window, reauth_fails, install_current_state, Install, install_refused, WalkAgain,
       reconcile_membership, Reconcile, replay_device_updates, drain, send_pending,
       clear_partial_markers, notify_resolved, take_deferred_device_updates, resync_returns,
       leave_abandoned_room, abandon_send, abandon_clear, abandon_notify, ReauthFails,
       NoLocals, locals
  <2>4. QED
    BY ZenonT(60), <2>1, <2>2, <2>3
<1>4. CASE Crash
  <2>1. pc' = "Idle" /\ installed' = Nothing
    BY Zenon, <1>4 DEF Crash, NoLocals
  <2>2. QED
    BY <1>1, <2>1 DEF Rebuilt
<1>5. CASE UNCHANGED <<pc, installed>>
  BY Zenon, <1>5
<1>6. QED
  BY Zenon, <1>2, <1>3, <1>4, <1>5 DEF Next, Append, append_begin, register_partial,
     append_insert, append_send, append_record, join_append, join_fails, signal_resync,
     await_full_state, defer_device_update, judge_event, vars, locals

\* Every step keeps what is accepted on partial state marked until it is re-authorised.
LEMMA VerifiedStep ==
    ASSUME Stays
    PROVE  Sound /\ Locked /\ Once /\ Verified /\ [Next]_vars => Verified'
<1> SUFFICES ASSUME Sound, Locked, Once, Verified, [Next]_vars
             PROVE  Verified'
  OBVIOUS
<1> USE DEF Resolved
<1>1. CASE UNCHANGED <<partial, marks, unverified, late, joined, full, adding>>
  <2>1. install_current_state => full' = TRUE
    BY Zenon DEF install_current_state, Install
  <2>2. QED
    BY Zenon, <1>1, <2>1, RebuiltSteps DEF Verified, Present, Entering, MarkersGuardState
<1>2. ASSUME NEW e \in Local \cup Remote, append_begin(e)
      PROVE  Verified'
  <2>1. /\ UNCHANGED <<partial, unverified, late, joined, full, pc, installed>>
        /\ adding'.event = e /\ e \notin Joins /\ lock = "None"
        /\ marks' = IF partial THEN marks \cup {e} ELSE marks
    BY <1>2, Kinds DEF append_begin, mark_pending_event, locals
  <2>2. pc \notin {"Send", "Clear"}
    BY Zenon, <2>1 DEF Locked, TaskLocked
  <2>3. QED
    BY Zenon, <2>1, <2>2 DEF Verified, Present, Entering, MarkersGuardState
<1>3. ASSUME NEW j \in Joins, register_partial(j)
      PROVE  Verified'
  <2>1. pc \notin Rebuilt /\ ~installed.is /\ unverified = {}
    BY Zenon, <1>3, JoinBegins DEF Rebuilt
  <2>2. /\ UNCHANGED <<marks, unverified, pc, installed>> /\ partial' = TRUE
        /\ adding'.step = "Join"
    BY <1>3 DEF register_partial, locals
  <2>3. QED
    BY <2>1, <2>2 DEF Verified, MarkersGuardState, Rebuilt
<1>4. CASE append_insert
  <2>1. /\ UNCHANGED <<partial, marks, full, pc, installed>> /\ adding.step = "Insert"
        /\ joined' = (joined \/ Entering)
    BY Zenon, <1>4 DEF append_insert, marked, locals, Entering
  <2>2. /\ late \subseteq late' /\ unverified' \subseteq unverified \cup {adding.event}
        /\ partial \/ unverified' \subseteq unverified \cup late'
    BY <1>4 DEF append_insert
  <2>3. adding'.step # "Insert" /\ (Entering' => Entering) /\ (Entering => partial)
    BY <1>4, Kinds DEF append_insert, None, Entering, Events, Sound, AddingOK, Once, Course
  <2>4. Present' => Present
    BY Zenon, <2>1, <2>3 DEF Present
  <2>5. Present' => unverified' \subseteq marks' \cup late'
    BY <2>1, <2>2, <2>4 DEF Verified
  <2>6. Resolved' => full' /\ unverified' \subseteq late'
    BY Zenon, <2>1, <2>2, <2>3 DEF Verified, MarkersGuardState
  <2>7. QED
    BY Zenon, <2>1, <2>3, <2>5, <2>6 DEF Verified, MarkersGuardState
<1>5. CASE append_send \/ append_record \/ join_fails \/ signal_resync \/ Crash
  <2>1. /\ UNCHANGED <<partial, marks, unverified, late, joined, full>>
        /\ UNCHANGED <<pc, installed>> \/ (pc' = "Idle" /\ installed' = Nothing)
    BY Zenon, <1>5 DEF append_send, append_record, join_fails, signal_resync, Crash, NoLocals,
       marked, room, locals
  <2>2. ~Entering' /\ adding'.step # "Insert" /\ ~Nothing.is
    <3>1. ~Nothing.is
      BY DEF Nothing
    <3>2. CASE append_send \/ append_record
      BY <3>1, <3>2, SendSteps, Kinds DEF Entering, None, Events, Sound
    <3>3. CASE join_fails \/ signal_resync \/ Crash
      <4>1. adding' = None
        BY Zenon, <3>3 DEF join_fails, signal_resync, Crash
      <4>2. QED
        BY <3>1, <4>1, Kinds DEF Entering, None, Events
    <3>4. QED
      BY Zenon, <1>5, <3>2, <3>3
  <2>3. QED
    BY Zenon, <2>1, <2>2 DEF Verified, Present, MarkersGuardState, Rebuilt
<1>6. CASE join_append
  <2>1. /\ UNCHANGED <<partial, unverified, late, joined, full, pc, installed>>
        /\ adding'.event = adding.event /\ adding.step = "Join"
        /\ marks' = IF partial THEN marks \cup {adding.event} ELSE marks
    BY <1>6 DEF join_append, mark_pending_event, locals, Sound, AddingOK
  <2>2. pc \notin {"Send", "Clear"}
    BY <2>1 DEF Locked, TaskLocked, Appending
  <2>3. QED
    BY <2>1, <2>2 DEF Verified, Present, Entering, MarkersGuardState
<1>7. CASE install_current_state
  <2>1. /\ UNCHANGED <<partial, joined, installed, adding, late>> /\ marks' = {} /\ full' = TRUE
        /\ lock = "None" /\ pc' = "Reconcile"
        /\ unverified' = {e \in unverified : ~Covered(e, window)}
        /\ \A m \in marks : Covered(m, window)
    BY Zenon, <1>7 DEF install_current_state, Install, locals
  <2>2. Present => unverified' \subseteq late
    BY <2>1 DEF Verified
  <2>3. adding.step = "None"
    BY <2>1 DEF Locked, Appending, Sound, AddingOK, Steps
  <2>4. QED
    BY <2>1, <2>2, <2>3 DEF Verified, Present, Entering, MarkersGuardState
<1>8. CASE clear_partial_markers
  <2>1. /\ UNCHANGED <<joined, unverified, late, full, adding, installed>> /\ pc = "Clear"
        /\ pc' \in {"Notify", "Loop"}
        /\ (partial' = FALSE /\ marks' = {}) \/ UNCHANGED <<partial, marks>>
    BY Zenon, <1>8 DEF clear_partial_markers, marked, room, locals
  <2>2. QED
    BY <2>1 DEF Verified, Present, Entering, MarkersGuardState, Rebuilt
<1>9. CASE leave_abandoned_room
  <2>1. /\ UNCHANGED <<partial, full, adding, installed>> /\ ~joined' /\ marks \subseteq marks'
        /\ pc = "AbandonLeave" /\ pc' = "AbandonSend"
    BY <1>9 DEF leave_abandoned_room, mark_pending_event, marked, room, locals
  <2>2. ~Present'
    BY <2>1, LeavesForGood DEF Present, Entering, Abandoning
  <2>3. QED
    BY Zenon, <2>1, <2>2 DEF Verified, MarkersGuardState, Rebuilt
<1>10. CASE abandon_clear
  <2>1. /\ UNCHANGED <<joined, full, adding, installed>> /\ pc = "AbandonClear"
        /\ pc' \in {"AbandonNotify", "AbandonLeave"}
    BY Zenon, <1>10 DEF abandon_clear, room, locals
  <2>2. ~Present' /\ adding.step = "None" /\ ~joined'
    BY <2>1, LeavesForGood DEF Abandoning, Present, Entering, Locked, TaskLocked, Appending,
       Sound, AddingOK, Steps
  <2>3. QED
    BY <2>1, <2>2 DEF Verified, MarkersGuardState, Rebuilt
<1>11. QED
  BY Zenon, <1>1, <1>2, <1>3, <1>4, <1>5, <1>6, <1>7, <1>8, <1>9, <1>10, MarkSteps DEF Append

\* What is accepted on partial state is marked in every state.
LEMMA VerifiedHolds ==
    ASSUME Stays
    PROVE  Spec => []Verified
<1>1. Init => Verified
  <2>1. Init => ~installed.is /\ adding.step = "None" /\ pc \notin Rebuilt
    BY DEF Init, Nothing, None, Rebuilt
  <2>2. QED
    BY <2>1 DEF Init, Verified, MarkersGuardState, Resolved
<1>2. QED
  BY <1>1, VerifiedStep, SoundHolds, LockHolds, OnceHolds, PTL DEF Spec

\* The markers guard the state: a room that we are in loses them only when its state was built
\* from the full state and every event accepted and marked meanwhile was re-authorised,
\* whatever appends, failures, crashes and attempts to give up come between the walk, the
\* install and the drain. What is left are the events judged before and appended after.
THEOREM MarkersGoLast ==
    ASSUME Stays
    PROVE  Spec => []MarkersGuardState
<1>1. Verified => MarkersGuardState
  BY DEF Verified
<1>2. QED
  BY <1>1, VerifiedHolds, PTL

-----------------------------------------------------------------------------
(* The servers first unknown *)

Known == {"Replay", "Drain", "Send", "Clear", "Notify", "Surface"}

\* What went to the servers first known only is recorded; the records are sent, to the full
\* membership, before the markers go.
Served ==
    /\ pc \in Known \/ installed.is => reconciled
    /\ Present /\ ~reconciled => partial
    /\ Present => narrow \subseteq rows /\ (adding.step = "RecordFew" => partial)
    /\ pc = "Clear" => rows = {}
    /\ Resolved => narrow = {}

\* Who changes the records, the membership, the marker or who is in the room.
LEMMA ServeSteps ==
    ASSUME [Next]_vars
    PROVE  \/ UNCHANGED <<partial, joined, adding, reconciled, rows, narrow>>
           \/ \E e \in Local \cup Remote : append_begin(e)
           \/ \E j \in Joins : register_partial(j)
           \/ Append \/ reconcile_membership \/ send_pending \/ clear_partial_markers
           \/ leave_abandoned_room \/ abandon_send \/ abandon_clear \/ Crash
BY Zenon DEF Next, Task, start_resync, await_full_state, defer_device_update, judge_event,
   resync_loop, Loop, fetch_state, should_give_up, reauth_window, reauth_fails,
   install_current_state, Install, install_refused, WalkAgain, replay_device_updates, drain,
   notify_resolved, take_deferred_device_updates, resync_returns, abandon_notify, vars, marked,
   room, sends

\* How the task comes to where the membership is known.
LEMMA KnownSteps ==
    ASSUME Sound, Once, [Next]_vars
    PROVE  /\ pc' = "Clear" => pc = "Clear" \/ send_pending
           /\ pc' \in Known \/ installed'.is =>
                pc \in Known \/ installed.is \/ reconcile_membership
<1>1. ~Nothing.is
  BY DEF Nothing
<1>2. CASE start_resync
  BY <1>2 DEF start_resync, Known, locals, Sound, PlacesOK
<1>3. CASE Task
  <2>1. pc' = "Clear" => send_pending
    BY ZenonT(60), <1>3 DEF Task, resync_loop, Loop, fetch_state, should_give_up, reauth_window,
       reauth_fails, install_current_state, Install, install_refused, WalkAgain,
       reconcile_membership, Reconcile, replay_device_updates, drain, send_pending,
       clear_partial_markers, notify_resolved, take_deferred_device_updates, resync_returns,
       leave_abandoned_room, abandon_send, abandon_clear, abandon_notify, ReauthFails,
       AfterInstall
  <2>2. pc' \in Known => pc \in Known \/ installed.is \/ reconcile_membership
    BY ZenonT(60), <1>3 DEF Known, Task, resync_loop, Loop, fetch_state, should_give_up,
       reauth_window, reauth_fails, install_current_state, Install, install_refused, WalkAgain,
       reconcile_membership, Reconcile, replay_device_updates, drain, send_pending,
       clear_partial_markers, notify_resolved, take_deferred_device_updates, resync_returns,
       leave_abandoned_room, abandon_send, abandon_clear, abandon_notify, ReauthFails,
       AfterInstall
  <2>3. installed'.is => installed.is \/ reconcile_membership
    BY Zenon, <1>1, <1>3 DEF Task, resync_loop, Loop, fetch_state, should_give_up,
       reauth_window, reauth_fails, install_current_state, Install, install_refused, WalkAgain,
       reconcile_membership, Reconcile, replay_device_updates, drain, send_pending,
       clear_partial_markers, notify_resolved, take_deferred_device_updates, resync_returns,
       leave_abandoned_room, abandon_send, abandon_clear, abandon_notify, ReauthFails, NoLocals,
       locals
  <2>4. QED
    BY ZenonT(60), <2>1, <2>2, <2>3
<1>4. CASE Crash
  <2>1. pc' = "Idle" /\ installed' = Nothing
    BY Zenon, <1>4 DEF Crash, NoLocals
  <2>2. QED
    BY <1>1, <2>1 DEF Known
<1>5. CASE UNCHANGED <<pc, installed>>
  BY Zenon, <1>5
<1>6. QED
  BY Zenon, <1>2, <1>3, <1>4, <1>5 DEF Next, Append, append_begin, register_partial,
     append_insert, append_send, append_record, join_append, join_fails, signal_resync,
     await_full_state, defer_device_update, judge_event, vars, locals

\* Every step keeps the events sent to fewer servers recorded, until they are sent to all.
LEMMA ServedStep ==
    ASSUME Stays
    PROVE  Sound /\ Locked /\ Once /\ Served /\ [Next]_vars => Served'
<1> SUFFICES ASSUME Sound, Locked, Once, Served, [Next]_vars
             PROVE  Served'
  OBVIOUS
<1> USE DEF Resolved
<1>1. CASE UNCHANGED <<partial, joined, adding, reconciled, rows, narrow>>
  <2>1. reconcile_membership => reconciled'
    BY Zenon DEF reconcile_membership, Reconcile
  <2>2. send_pending => (pc' = "Clear" => rows' = {})
    BY DEF send_pending, Sent
  <2>3. QED
    BY Zenon, <1>1, <2>1, <2>2, KnownSteps DEF Served, Present, Entering
<1>2. ASSUME NEW e \in Local \cup Remote, append_begin(e)
      PROVE  Served'
  <2>1. /\ UNCHANGED <<partial, joined, reconciled, rows, narrow, pc, installed>>
        /\ adding'.event = e /\ e \notin Joins /\ adding'.step = "Insert"
    BY <1>2, Kinds DEF append_begin, sends, locals
  <2>2. QED
    BY Zenon, <2>1 DEF Served, Present, Entering
<1>3. ASSUME NEW j \in Joins, register_partial(j)
      PROVE  Served'
  <2>1. pc \notin Known /\ ~installed.is
    BY <1>3, JoinBegins DEF Known
  <2>2. UNCHANGED <<rows, pc, installed>> /\ partial' = TRUE /\ narrow' = narrow \cap rows
    BY Zenon, <1>3 DEF register_partial, locals
  <2>3. QED
    BY <2>1, <2>2 DEF Served, Known
<1>4. CASE append_insert
  <2>1. /\ UNCHANGED <<partial, reconciled, rows, narrow, pc, installed>>
        /\ joined' = (joined \/ Entering)
    BY Zenon, <1>4 DEF append_insert, marked, sends, locals, Entering
  <2>2. (Entering' => Entering) /\ (Entering => partial) /\ adding'.step # "RecordFew"
    BY <1>4, Kinds DEF append_insert, None, Entering, Events, Sound, AddingOK, Once, Course
  <2>3. QED
    BY Zenon, <2>1, <2>2 DEF Served, Present
<1>5. CASE append_record
  <2>1. /\ UNCHANGED <<partial, joined, reconciled, pc, installed>> /\ adding' = None
        /\ narrow' = (IF adding.step = "RecordFew" THEN narrow \cup {adding.event} ELSE narrow)
        /\ rows' = (IF partial THEN rows \cup {adding.event} ELSE rows)
        /\ adding.step \in {"RecordFew", "RecordAll"}
    BY Zenon, <1>5 DEF append_record, marked, room, locals
  <2>2. ~Entering' /\ pc # "Clear" /\ adding'.step = "None"
    BY <2>1, Kinds DEF Entering, None, Events, Locked, Appending, TaskLocked
  <2>3. QED
    BY <2>1, <2>2 DEF Served, Present
<1>6. CASE append_send
  <2>1. UNCHANGED <<partial, joined, reconciled, rows, narrow, pc, installed>>
    BY Zenon, <1>6 DEF append_send, marked, room, sends, locals
  <2>2. ~Entering' /\ (adding'.step = "RecordFew" => ~reconciled)
    <3>1. ~Entering'
      BY <1>6, SendSteps, Kinds DEF Entering, None, Events, Sound
    <3>2. adding'.step = "RecordFew" => ~reconciled
      BY <1>6 DEF append_send, None, Sound, AddingOK
    <3>3. QED
      BY Zenon, <3>1, <3>2
  <2>3. QED
    BY Zenon, <2>1, <2>2 DEF Served, Present
<1>7. CASE join_append \/ join_fails \/ signal_resync \/ Crash
  <2>1. /\ UNCHANGED <<partial, joined, reconciled, rows, narrow>>
        /\ UNCHANGED <<pc, installed>> \/ (pc' = "Idle" /\ installed' = Nothing)
    BY Zenon, <1>7 DEF join_append, join_fails, signal_resync, Crash, NoLocals, marked, room,
       sends, locals
  <2>2. (Entering' => Entering) /\ ~Nothing.is /\ adding'.step # "RecordFew"
    BY <1>7, Kinds DEF join_append, join_fails, signal_resync, Crash, Entering, None, Events,
       Nothing, Sound, AddingOK
  <2>3. QED
    BY Zenon, <2>1, <2>2 DEF Served, Present, Known
<1>8. CASE reconcile_membership
  <2>1. UNCHANGED <<partial, joined, adding, rows, narrow>> /\ reconciled' /\ pc' # "Clear"
    BY <1>8 DEF reconcile_membership, Reconcile, AfterInstall, marked, room, sends
  <2>2. QED
    BY Zenon, <2>1 DEF Served, Present, Entering
<1>9. CASE send_pending
  <2>1. /\ UNCHANGED <<partial, joined, adding, reconciled, installed>> /\ pc = "Send"
        /\ pc' \in {"Clear", "Loop"}
    BY Zenon, <1>9 DEF send_pending, marked, room, locals
  <2>2. PICK S \in SUBSET rows : Sent(S) /\ (pc' = "Clear" => S = rows)
    BY <1>9 DEF send_pending
  <2>3. reconciled
    BY <2>1 DEF Served, Known
  <2>4. QED
    BY <2>1, <2>2, <2>3 DEF Served, Sent, Present, Entering, Known
<1>10. CASE clear_partial_markers
  <2>1. /\ UNCHANGED <<joined, adding, reconciled, rows, narrow, installed>> /\ pc = "Clear"
        /\ pc' \in {"Notify", "Loop"}
    BY Zenon, <1>10 DEF clear_partial_markers, marked, room, sends, locals
  <2>2. adding.step = "None"
    BY <2>1 DEF Locked, Appending, TaskLocked, Sound, AddingOK, Steps
  <2>3. QED
    BY <2>1, <2>2 DEF Served, Present, Entering, Known
<1>11. CASE leave_abandoned_room \/ abandon_send \/ abandon_clear
  <2>1. /\ UNCHANGED <<reconciled, adding, installed>> /\ pc \in Abandoning
        /\ pc' \in {"AbandonSend", "AbandonLeave", "AbandonClear", "AbandonNotify"}
        /\ ~joined' \/ (joined' = joined /\ pc \in {"AbandonSend", "AbandonClear"})
    <3>1. CASE leave_abandoned_room
      BY <3>1, SMTT(30) DEF leave_abandoned_room, room, locals, Abandoning
    <3>2. CASE abandon_send \/ abandon_clear
      BY <3>2, SMTT(30) DEF abandon_send, abandon_clear, room, locals, Abandoning
    <3>3. QED
      BY Zenon, <1>11, <3>1, <3>2
  <2>2. ~Present' /\ ~joined'
    BY <2>1, LeavesForGood DEF Abandoning, Present, Entering
  <2>3. QED
    BY Zenon, <2>1, <2>2 DEF Served, Known
<1>12. QED
  BY Zenon, <1>1, <1>2, <1>3, <1>4, <1>5, <1>7, <1>8, <1>9, <1>10, <1>11, <1>6,
     ServeSteps DEF Append

\* The servers known to the task at its start are those of the join, as long as the task has
\* not been lost, and our device lists have gone to the others once they were replayed.
Told ==
    crashes = 0 =>
        /\ Entering \/ (~joined /\ ~GiveUp) => signals = 0 /\ pc = "Idle"
        /\ Entering => ~reconciled
        /\ signals > 0 => signals = 1 /\ pc = "Idle"
        /\ replayed \/ pc \in {"Drain", "Send", "Clear"} => told
        /\ before # "All"
        /\ pc \in {"Fetch", "Walk", "Install"} \cup Rebuilt => before = "Few"
        /\ before = "None" /\ (signals > 0 \/ pc = "Loop") => ~reconciled
        /\ Resolved => told

\* Who changes what our device lists depend on.
LEMMA TellSteps ==
    ASSUME [Next]_vars
    PROVE  \/ UNCHANGED <<partial, joined, reconciled, told, signals, pc, before, replayed,
                          crashes>>
           \/ \E j \in Joins : register_partial(j)
           \/ append_insert \/ signal_resync \/ start_resync \/ Task \/ Crash
BY ZenonT(60) DEF Next, Append, append_begin, append_send, append_record, join_append,
   join_fails, await_full_state, defer_device_update, judge_event, vars, marked, room, locals,
   bounds

\* Every step of the task keeps the list of servers it began with.
LEMMA ToldTask ==
    ASSUME Stays
    PROVE  Sound /\ Once /\ Served /\ Told /\ Task => Told'
<1> SUFFICES ASSUME Sound, Once, Served, Told, Task, crashes' = 0
             PROVE  Told'
  BY DEF Told
<1> USE DEF Resolved
<1>1. /\ crashes = 0 /\ ~(signals > 0) /\ ~(signals' > 0) /\ pc # "Idle"
      /\ ~Entering' /\ (joined' \/ GiveUp)
  <2>1. UNCHANGED <<crashes, signals, adding>> /\ pc # "Idle"
    BY Zenon DEF Task, resync_loop, Loop, fetch_state, should_give_up, reauth_window,
       reauth_fails, install_current_state, Install, install_refused, WalkAgain,
       reconcile_membership, Reconcile, replay_device_updates, drain, send_pending,
       clear_partial_markers, notify_resolved, take_deferred_device_updates, resync_returns,
       leave_abandoned_room, abandon_send, abandon_clear, abandon_notify, bounds
  <2>2. crashes = 0 /\ ~(signals > 0) /\ ~(signals' > 0) /\ ~Entering' /\ (joined \/ GiveUp)
    BY <2>1 DEF Told, Entering
  <2>3. leave_abandoned_room => GiveUp
    BY DEF leave_abandoned_room, Abandoning, Once, Lasting
  <2>4. joined' = joined \/ leave_abandoned_room
    BY Zenon DEF Task, resync_loop, Loop, fetch_state, should_give_up, reauth_window,
       reauth_fails, install_current_state, Install, install_refused, WalkAgain,
       reconcile_membership, Reconcile, replay_device_updates, drain, send_pending,
       clear_partial_markers, notify_resolved, take_deferred_device_updates, resync_returns,
       leave_abandoned_room, abandon_send, abandon_clear, abandon_notify, room
  <2>5. QED
    BY Zenon, <2>1, <2>2, <2>3, <2>4
<1>2. CASE resync_loop
  <2>1. /\ UNCHANGED <<partial, joined, reconciled, told, replayed>> /\ pc = "Loop"
        /\ \/ pc' = "Exit" /\ before' = before
           \/ /\ before' = (IF before = "None" THEN device_list_servers ELSE before)
              /\ pc' = IF installed.is THEN AfterInstall ELSE "Fetch"
    BY Zenon, <1>2 DEF resync_loop, Loop, marked, room
  <2>2. before = "None" => device_list_servers = "Few"
    BY <1>1, <2>1 DEF Told, device_list_servers
  <2>3. QED
    BY <1>1, <2>1, <2>2 DEF Told, AfterInstall, Rebuilt, Sound, PlacesOK
<1>3. CASE reconcile_membership
  <2>1. /\ UNCHANGED <<partial, joined, told, before>> /\ pc = "Reconcile"
        /\ replayed' => replayed
        /\ pc' = IF installed.is THEN "Loop" ELSE AfterInstall
    BY Zenon, <1>3 DEF reconcile_membership, Reconcile, marked, room
  <2>2. QED
    BY <1>1, <2>1 DEF Told, AfterInstall, Rebuilt
<1>4. CASE replay_device_updates
  <2>1. /\ UNCHANGED <<partial, joined, reconciled, before>> /\ pc = "Replay"
        /\ \/ pc' = "Drain" /\ told' = (told \/ (reconciled /\ before = "Few"))
           \/ pc' = "Loop" /\ UNCHANGED <<told, replayed>>
    BY Zenon, <1>4 DEF replay_device_updates, marked, room
  <2>2. reconciled /\ before = "Few"
    BY SMTT(30), <1>1, <2>1 DEF Served, Known, Told, Rebuilt
  <2>3. QED
    BY ZenonT(60), <1>1, <2>1, <2>2 DEF Told, Rebuilt
<1>5. CASE fetch_state \/ should_give_up \/ reauth_window \/ reauth_fails \/ install_refused
  <2>1. UNCHANGED <<partial, joined, told, before, reconciled>> /\ replayed' \in {replayed, FALSE}
    BY Zenon, <1>5 DEF fetch_state, should_give_up, reauth_window, reauth_fails, ReauthFails,
       install_refused, WalkAgain, marked, room, locals
  <2>2. /\ pc \in {"Fetch", "Walk", "Install"}
        /\ pc' \in {"Loop", "Walk", "Install", "AbandonLeave"}
    BY Zenon, <1>5 DEF fetch_state, should_give_up, reauth_window, reauth_fails, ReauthFails,
       install_refused, WalkAgain
  <2>3. replayed' => replayed
    BY Zenon, <2>1
  <2>4. QED
    BY <1>1, <2>1, <2>2, <2>3 DEF Told, Rebuilt
<1>6. CASE install_current_state \/ drain \/ send_pending \/ clear_partial_markers
  <2>1. /\ UNCHANGED <<joined, told, before, reconciled, replayed>>
        /\ \/ pc = "Install" /\ pc' = "Reconcile" /\ UNCHANGED partial
           \/ pc = "Drain" /\ pc' \in {"Walk", "Send"} /\ UNCHANGED partial
           \/ pc = "Send" /\ pc' \in {"Clear", "Loop"} /\ UNCHANGED partial
           \/ pc = "Clear" /\ pc' \in {"Notify", "Loop"}
    BY Zenon, <1>6 DEF install_current_state, Install, drain, send_pending,
       clear_partial_markers, marked, room, locals
  <2>2. QED
    BY <1>1, <2>1 DEF Told, Rebuilt
<1>7. CASE notify_resolved \/ take_deferred_device_updates \/ abandon_notify \/ abandon_send
  <2>1. /\ UNCHANGED <<partial, joined, told, before, reconciled, replayed>>
        /\ pc' \in {"Surface", "Exit", "AbandonLeave", "AbandonClear"}
    BY Zenon, <1>7 DEF notify_resolved, take_deferred_device_updates, abandon_notify,
       abandon_send, marked, room, locals
  <2>2. QED
    BY <1>1, <2>1 DEF Told, Rebuilt
<1>8. CASE resync_returns
  <2>1. /\ UNCHANGED <<partial, joined, told, reconciled>> /\ pc' = "Idle"
        /\ before' = "None" /\ ~replayed'
    BY Zenon, <1>8 DEF resync_returns, NoLocals, marked, room
  <2>2. QED
    BY <1>1, <2>1 DEF Told, Rebuilt
<1>9. CASE leave_abandoned_room \/ abandon_clear
  <2>1. /\ UNCHANGED <<told, before, reconciled, replayed>> /\ ~joined'
        /\ pc' \in {"AbandonSend", "AbandonNotify", "AbandonLeave"}
    BY <1>9, LeavesForGood DEF leave_abandoned_room, abandon_clear, room, locals, Abandoning
  <2>2. QED
    BY ZenonT(60), <1>1, <2>1 DEF Told, Rebuilt
<1>10. QED
  BY Zenon, <1>2, <1>3, <1>4, <1>5, <1>6, <1>7, <1>8, <1>9 DEF Task

\* Every step keeps it.
LEMMA ToldStep ==
    ASSUME Stays
    PROVE  Sound /\ Locked /\ Once /\ Served /\ Told /\ [Next]_vars => Told'
<1> SUFFICES ASSUME Sound, Locked, Once, Served, Told, [Next]_vars
             PROVE  Told'
  OBVIOUS
<1> USE DEF Resolved
<1> DEFINE Register == \E j \in Joins : register_partial(j)
<1>0. Entering' => Entering \/ Register
  BY Zenon, EnteringSteps
<1>1. CASE /\ UNCHANGED <<partial, joined, reconciled, told, signals, pc, before, replayed,
                          crashes>>
           /\ ~Register
  BY Zenon, <1>0, <1>1 DEF Told
<1>2. ASSUME NEW j \in Joins, register_partial(j), crashes' = 0
      PROVE  Told'
  <2>1. pc = "Idle" /\ signals = 0 /\ ~replayed /\ before = "None"
    <3>1. CASE OneJoin
      BY Zenon, <1>2, <3>1, JoinBegins DEF Once, Course
    <3>2. CASE ~GiveUp
      BY <1>2, <3>2 DEF Told, Once, Course, register_partial
    <3>3. QED
      BY <3>1, <3>2 DEF Stays
  <2>2. UNCHANGED <<pc, signals, replayed, before>> /\ partial' = TRUE /\ ~reconciled'
    BY Zenon, <1>2 DEF register_partial, locals
  <2>3. QED
    BY <2>1, <2>2 DEF Told, Rebuilt
<1>3. CASE append_insert
  <2>1. /\ UNCHANGED <<partial, reconciled, told, signals, pc, before, replayed, crashes>>
        /\ joined' = (joined \/ Entering) /\ (Entering => partial)
    BY Zenon, <1>3 DEF append_insert, marked, locals, bounds, Entering, Once, Course
  <2>2. ~Register
    BY <1>3 DEF append_insert, register_partial, Locked, Appending, Sound, AddingOK
  <2>3. QED
    BY Zenon, <1>0, <2>1, <2>2 DEF Told
<1>4. CASE signal_resync
  <2>1. /\ UNCHANGED <<partial, joined, reconciled, told, pc, before, replayed, crashes>>
        /\ signals' = signals + 1 /\ adding.step = "Signal" /\ adding' = None
    BY Zenon, <1>4 DEF signal_resync, marked, room, locals, bounds
  <2>2. Entering /\ ~Entering' /\ (joined \/ GiveUp)
    BY SMTT(30), <2>1, Kinds DEF Entering, None, Events, Sound, AddingOK, Once, Lasting, Fresh
  <2>3. QED
    BY <2>1, <2>2 DEF Told
<1>5. CASE start_resync
  <2>1. /\ UNCHANGED <<partial, joined, reconciled, told, before, replayed, crashes>>
        /\ signals > 0 /\ signals' = signals - 1 /\ UNCHANGED adding
        /\ pc = "Idle" => pc' = "Loop"
    BY <1>5 DEF start_resync, marked, room, locals, bounds, Sound, PlacesOK
  <2>2. QED
    BY SMTT(30), <2>1 DEF Told, Rebuilt, Entering
<1>6. CASE Crash
  <2>1. crashes' # 0
    BY <1>6 DEF Crash, Sound, CountersOK
  <2>2. QED
    BY Zenon, <2>1 DEF Told
<1>7. QED
  <2>1. CASE crashes' # 0
    BY Zenon, <2>1 DEF Told
  <2>2. QED
    BY Zenon, <1>1, <1>2, <1>3, <1>4, <1>5, <1>6, <2>1, ToldTask, TellSteps

\* Both hold in every state.
LEMMA ServedHolds ==
    ASSUME Stays
    PROVE  Spec => [](Served /\ Told)
<1>1. Init => Served /\ Told
  <2>1. Init => ~installed.is /\ ~(signals > 0) /\ pc \notin Rebuilt /\ ~Present
    BY SMTT(30), Kinds DEF Init, Nothing, Rebuilt, Present, Entering, None, Events
  <2>2. Init => Served
    BY SMTT(30), <2>1 DEF Init, Served, Known, Resolved
  <2>3. Init => Told
    BY <2>1 DEF Init, Told, Resolved, Present
  <2>4. QED
    BY Zenon, <2>2, <2>3
<1>2. /\ Sound /\ Locked /\ Once /\ Served /\ Told /\ [Next]_vars
      => Served' /\ Told'
  BY Zenon, ServedStep, ToldStep
<1>3. QED
  BY <1>1, <1>2, SoundHolds, LockHolds, OnceHolds, PTL DEF Spec

\* When the room is resolved, the servers that only the resync revealed have been sent every
\* event recorded as sent to fewer, and our device lists: neither a failure among several
\* sends, nor an append while the task waits for the lock, nor a rebuild after a drift skips one.
THEOREM NoServerMissed ==
    ASSUME Stays
    PROVE  Spec => []NewServersServed
<1>1. Served /\ Told => NewServersServed
  BY DEF Served, Told, NewServersServed
<1>2. QED
  BY <1>1, ServedHolds, PTL

-----------------------------------------------------------------------------
(* The deferred device-list update *)

\* Once the membership is known, the task remembers that it was found out in its time, so an
\* update that is deferred, or will be in time, is taken; a task that ended early left the room
\* partial.
Pending == edu = "Deferred" \/ (edu = "Checked" /\ TakeAhead)
Surfaced ==
    /\ joined /\ Pending /\ reconciled =>
         found \/ (pc = "Idle" /\ ~(signals > 0) /\ partial)
    /\ pc = "Exit" /\ joined /\ Pending => partial
    /\ Present => edu # "Dropped"
    /\ edu = "Late" => ~TakeAhead

\* Who changes what becomes of the update.
LEMMA SurfaceSteps ==
    ASSUME [Next]_vars
    PROVE  \/ UNCHANGED <<partial, joined, reconciled, edu, found, signals, pc, adding>>
           \/ \E e \in Local \cup Remote : append_begin(e)
           \/ \E j \in Joins : register_partial(j)
           \/ Append \/ start_resync \/ Task \/ defer_device_update \/ Crash
BY Zenon DEF Next, await_full_state, judge_event, vars, marked, room, locals

\* Every step of the task keeps it.
LEMMA SurfacedTask ==
    ASSUME OneJoin
    PROVE  Sound /\ Once /\ Served /\ Surfaced /\ Task => Surfaced'
<1> SUFFICES ASSUME Sound, Once, Served, Surfaced, Task
             PROVE  Surfaced'
  OBVIOUS
<1>1. /\ pc # "Idle" /\ ~(signals > 0) /\ UNCHANGED <<adding, signals>> /\ ~Entering /\ ~Entering'
  <2>1. UNCHANGED <<adding, signals>> /\ pc # "Idle"
    BY Zenon DEF Task, resync_loop, Loop, fetch_state, should_give_up, reauth_window,
       reauth_fails, install_current_state, Install, install_refused, WalkAgain,
       reconcile_membership, Reconcile, replay_device_updates, drain, send_pending,
       clear_partial_markers, notify_resolved, take_deferred_device_updates, resync_returns,
       leave_abandoned_room, abandon_send, abandon_clear, abandon_notify
  <2>2. QED
    BY <2>1 DEF Once, OneTask, Entering
<1>2. TakeAhead' => TakeAhead
  <2>1. CASE clear_partial_markers
    BY <2>1 DEF clear_partial_markers, TakeAhead, Once, Course, Working, Places
  <2>2. CASE abandon_clear
    BY <2>2 DEF abandon_clear, TakeAhead, Once, Course, Working, Places
  <2>3. CASE notify_resolved
    BY <2>3 DEF notify_resolved, TakeAhead, marked
  <2>4. CASE ~clear_partial_markers /\ ~abandon_clear /\ ~notify_resolved
    <3>1. UNCHANGED partial
      BY ZenonT(60), <2>4 DEF Task, resync_loop, Loop, fetch_state, should_give_up,
         reauth_window, reauth_fails, install_current_state, Install, install_refused,
         WalkAgain, reconcile_membership, Reconcile, replay_device_updates, drain,
         send_pending, take_deferred_device_updates, resync_returns, leave_abandoned_room,
         abandon_send, abandon_notify, marked
    <3>2. pc' \notin {"Notify", "Surface"}
      BY Zenon, <2>4 DEF Task, resync_loop, Loop, fetch_state, should_give_up, reauth_window,
         reauth_fails, ReauthFails, install_current_state, Install, install_refused,
         WalkAgain, reconcile_membership, Reconcile, AfterInstall, replay_device_updates,
         drain, send_pending, take_deferred_device_updates, resync_returns,
         leave_abandoned_room, abandon_send, abandon_notify
    <3>3. QED
      BY Zenon, <3>1, <3>2 DEF TakeAhead
  <2>5. QED
    BY Zenon, <2>1, <2>2, <2>3, <2>4
<1>3. edu' = edu => (Pending' => Pending) /\ (edu' = "Late" => ~TakeAhead')
  BY Zenon, <1>2 DEF Pending, Surfaced
<1>4. CASE leave_abandoned_room
  <2>1. ~joined'
    BY Zenon, <1>4 DEF leave_abandoned_room, room
  <2>2. edu' = edu
    BY Zenon, <1>4 DEF leave_abandoned_room
  <2>3. QED
    BY Zenon, <1>1, <1>3, <2>1, <2>2 DEF Surfaced, Present
<1>5. CASE reconcile_membership
  <2>1. /\ UNCHANGED <<partial, joined, edu>> /\ found' = (found \/ ~reconciled)
        /\ pc' # "Exit"
    BY <1>5 DEF reconcile_membership, Reconcile, AfterInstall, marked, room
  <2>2. QED
    BY Zenon, <1>1, <1>3, <2>1 DEF Surfaced, Present
<1>6. CASE take_deferred_device_updates
  <2>1. /\ UNCHANGED <<partial, joined, found>> /\ pc = "Surface" /\ pc' = "Exit"
    BY Zenon, <1>6 DEF take_deferred_device_updates, marked, room, locals
  <2>2. /\ joined /\ edu = "Deferred" => found
        /\ edu # "Late"
    BY <1>1, <2>1 DEF Surfaced, Pending, TakeAhead, Served, Known
  <2>3. (joined => edu' \notin {"Deferred", "Dropped"}) /\ edu' # "Late"
    BY <1>1, <1>6, <2>2 DEF take_deferred_device_updates, Surfaced, Present
  <2>4. edu' = "Checked" => edu = "Checked"
    BY <1>6 DEF take_deferred_device_updates
  <2>5. TakeAhead' => partial'
    BY <2>1 DEF TakeAhead
  <2>6. UNCHANGED reconciled
    BY Zenon, <1>6 DEF take_deferred_device_updates
  <2>7. joined /\ Pending' => Pending /\ partial'
    BY Zenon, <1>2, <2>3, <2>4, <2>5 DEF Pending
  <2>8. QED
    BY Zenon, <1>1, <2>1, <2>3, <2>6, <2>7 DEF Surfaced, Present
<1>7. CASE resync_returns
  <2>1. /\ UNCHANGED <<partial, joined, reconciled, edu>> /\ pc = "Exit" /\ pc' = "Idle"
    BY Zenon, <1>7 DEF resync_returns, marked, room
  <2>2. QED
    BY Zenon, <1>1, <1>3, <2>1 DEF Surfaced, Present
<1>8. CASE clear_partial_markers \/ abandon_clear
  <2>1. UNCHANGED <<joined, reconciled, edu, found>> /\ pc' \notin {"Exit", "Idle"}
    BY <1>8 DEF clear_partial_markers, abandon_clear, room, locals
  <2>2. QED
    BY Zenon, <1>1, <1>3, <2>1 DEF Surfaced, Present
<1>9. CASE resync_loop
  <2>1. /\ UNCHANGED <<partial, joined, reconciled, edu, found>> /\ pc = "Loop" /\ partial
    BY <1>9 DEF resync_loop, Loop, marked, room, Once, OneTask, Working, Places
  <2>2. QED
    BY Zenon, <1>1, <1>3, <2>1 DEF Surfaced, Present
<1>10. CASE abandon_notify
  <2>1. UNCHANGED <<joined, edu>> /\ ~joined
    BY <1>10 DEF abandon_notify, room, Once, OneTask, Abandoning
  <2>2. QED
    BY Zenon, <1>1, <1>3, <2>1 DEF Surfaced, Present
<1>11. ASSUME UNCHANGED <<partial, joined, reconciled, edu, found>>, pc' # "Exit"
      PROVE  Surfaced'
  BY Zenon, <1>1, <1>11, <1>3 DEF Surfaced, Present
<1>12. CASE \/ fetch_state \/ should_give_up \/ reauth_window \/ reauth_fails
            \/ install_current_state \/ install_refused
  <2>1. UNCHANGED <<partial, joined, reconciled, edu, found>>
    BY ZenonT(60), <1>12 DEF fetch_state, should_give_up, reauth_window, reauth_fails,
       install_current_state, Install, install_refused, WalkAgain, marked, room, locals
  <2>2. pc' # "Exit"
    BY Zenon, <1>12 DEF fetch_state, should_give_up, reauth_window, reauth_fails, ReauthFails,
       install_current_state, Install, install_refused, WalkAgain
  <2>3. QED
    BY Zenon, <1>11, <2>1, <2>2
<1>13. CASE replay_device_updates \/ drain \/ send_pending \/ notify_resolved \/ abandon_send
  <2>1. UNCHANGED <<partial, joined, reconciled, edu, found>>
    BY ZenonT(60), <1>13 DEF replay_device_updates, drain, send_pending, notify_resolved,
       abandon_send, marked, room, locals
  <2>2. pc' # "Exit"
    BY <1>13 DEF replay_device_updates, drain, send_pending, notify_resolved, abandon_send
  <2>3. QED
    BY Zenon, <1>11, <2>1, <2>2
<1>14. QED
  BY Zenon, <1>4, <1>5, <1>6, <1>7, <1>8, <1>9, <1>10, <1>12, <1>13 DEF Task

\* Every step keeps it.
LEMMA SurfacedStep ==
    ASSUME OneJoin
    PROVE  Sound /\ Once /\ Served /\ Surfaced /\ [Next]_vars => Surfaced'
<1> SUFFICES ASSUME Sound, Once, Served, Surfaced, [Next]_vars
             PROVE  Surfaced'
  OBVIOUS
<1>1. CASE UNCHANGED <<partial, joined, reconciled, edu, found, signals, pc, adding>>
  BY Zenon, <1>1 DEF Surfaced, Present, Entering, Pending, TakeAhead
<1>2. ASSUME UNCHANGED <<partial, joined, reconciled, edu, found, signals, pc>>,
             Entering' => Entering
      PROVE  Surfaced'
  BY Zenon, <1>2 DEF Surfaced, Present, Pending, TakeAhead
<1>3. ASSUME NEW e \in Local \cup Remote, append_begin(e)
      PROVE  Surfaced'
  <2>1. /\ UNCHANGED <<partial, joined, reconciled, edu, found, signals, pc>>
        /\ adding'.event = e /\ e \notin Joins
    BY <1>3, Kinds DEF append_begin, locals
  <2>2. QED
    BY Zenon, <1>2, <2>1 DEF Entering
<1>4. ASSUME NEW j \in Joins, register_partial(j)
      PROVE  Surfaced'
  <2>1. edu = "Idle" /\ edu' = edu
    BY Zenon, <1>4, JoinBegins DEF Stays, register_partial
  <2>2. QED
    BY <2>1 DEF Surfaced, Pending
<1>5. CASE append_insert
  <2>1. /\ UNCHANGED <<partial, reconciled, edu, found, signals, pc>>
        /\ joined' = (joined \/ Entering)
    BY Zenon, <1>5 DEF append_insert, marked, locals, Entering
  <2>2. (Entering' => Entering) /\ (Entering => ~reconciled /\ pc # "Exit")
    BY <1>5, Kinds DEF append_insert, None, Entering, Events, Sound, AddingOK, Once, OneTask
  <2>3. QED
    BY Zenon, <2>1, <2>2 DEF Surfaced, Present, Pending, TakeAhead
<1>6. CASE append_send \/ append_record \/ join_append \/ join_fails
  <2>1. UNCHANGED <<partial, joined, reconciled, edu, found, signals, pc>>
    BY Zenon, <1>6 DEF append_send, append_record, join_append, join_fails, marked, room, locals
  <2>2. Entering' => Entering
    BY <1>6, SendSteps, Kinds DEF join_append, join_fails, None, Entering, Events, Sound,
       AddingOK
  <2>3. QED
    BY Zenon, <1>2, <2>1, <2>2
<1>7. CASE signal_resync
  <2>1. UNCHANGED <<partial, joined, reconciled, edu, found, pc>>
    BY Zenon, <1>7 DEF signal_resync, marked, room, locals
  <2>2. ~reconciled /\ Entering
    BY <1>7 DEF signal_resync, Entering, Sound, AddingOK, Once, OneTask
  <2>3. QED
    BY Zenon, <2>1, <2>2 DEF Surfaced, Present, Pending, TakeAhead
<1>8. CASE start_resync
  <2>1. /\ UNCHANGED <<partial, joined, reconciled, edu, found, adding>> /\ signals > 0
        /\ pc' = "Loop"
    BY <1>8 DEF start_resync, marked, room, locals, Once, OneTask, Sound, PlacesOK
  <2>2. TakeAhead' => TakeAhead
    BY <2>1 DEF TakeAhead
  <2>3. QED
    BY Zenon, <2>1, <2>2 DEF Surfaced, Present, Entering, Pending
<1>9. CASE defer_device_update
  <2>1. UNCHANGED <<partial, joined, reconciled, found, signals, pc, adding>>
    BY Zenon, <1>9 DEF defer_device_update, marked, room, locals
  <2>2. /\ edu' # "Dropped" /\ (edu' = "Checked" => ~reconciled)
        /\ edu' = "Deferred" => edu = "Checked" /\ TakeAhead
        /\ edu' = "Late" => ~TakeAhead
    BY <1>9 DEF defer_device_update
  <2>3. TakeAhead' = TakeAhead
    BY Zenon, <2>1 DEF TakeAhead
  <2>4. joined /\ ~reconciled => partial
    BY DEF Served, Present
  <2>5. Pending' => Pending \/ ~reconciled
    BY Zenon, <2>2 DEF Pending
  <2>6. QED
    BY Zenon, <2>1, <2>2, <2>3, <2>4, <2>5 DEF Surfaced
<1>10. CASE Crash
  <2>1. edu' = "Idle"
    BY Zenon, <1>10 DEF Crash
  <2>2. QED
    BY <2>1 DEF Surfaced, Pending
<1>11. QED
  BY Zenon, <1>1, <1>3, <1>4, <1>5, <1>6, <1>7, <1>8, <1>9, <1>10, SurfacedTask, SurfaceSteps
     DEF Append

\* The deferred update of a member that the resync reveals has been shown to clients when the
\* task of a resolved room is gone, also when the task ran in several rounds or was lost.
THEOREM UpdatesSurface ==
    ASSUME OneJoin
    PROVE  Spec => []DeferredSurfaces
<1>1. Init => Surfaced
  BY DEF Init, Surfaced, Pending
<1>2. /\ Sound /\ Once /\ Served /\ Surfaced /\ [Next]_vars => Surfaced'
  BY Zenon, SurfacedStep
<1>3. Sound /\ Once /\ Served /\ Surfaced => DeferredSurfaces
  <2> SUFFICES ASSUME Sound, Once, Served, Surfaced, Resolved, ~active
               PROVE  edu \notin {"Deferred", "Dropped"}
    BY DEF DeferredSurfaces
  <2>1. joined /\ ~partial /\ pc = "Idle" /\ ~found /\ reconciled
    BY DEF Resolved, Sound, PlacesOK, Once, Course, Served, Present
  <2>2. QED
    BY <2>1 DEF Surfaced, Present, Pending
<1>4. QED
  <2>1. Spec => []Served
    <3>1. Stays
      BY DEF Stays
    <3>2. Spec => [](Served /\ Told)
      BY <3>1, ServedHolds
    <3>3. QED
      BY <3>2, PTL
  <2>2. QED
    BY <1>1, <1>2, <1>3, <2>1, SoundHolds, OnceHolds, PTL DEF Spec

-----------------------------------------------------------------------------
(* What an install covers *)

\* The events held, with the one whose append has begun; those that a walk leaves out; and the
\* sets of events that hold the predecessors of theirs.
Held == IF adding.step = "Insert" THEN log \cup {adding.event} ELSE log
Skipped == IF Anchored THEN Old ELSE {}
Downward(S) == \A x \in S : prev[x] \cap Held \subseteq S

\* Joins and old events have no predecessors here. Until a crash the extremities are held,
\* and are the predecessors of nothing.
Graph ==
    /\ \A x \in Joins \cup Old : prev[x] = {}
    /\ crashes = 0 => /\ extremities \subseteq Held
                      /\ \A y \in Held : prev[y] \subseteq Held /\ prev[y] \cap extremities = {}

\* Until a crash, every event of a partial room is reached from an extremity or a mark.
Reachable ==
    crashes = 0 /\ partial =>
        \A S \in SUBSET Held :
            Downward(S) /\ (extremities \cup marks) \cap Held \subseteq S
              => Held \ Skipped \subseteq S

\* What was walked is reached from the extremities seen, now as then; and, until a crash, it is
\* everything if it covers the marks, so that an install covers the timeline.
Walked ==
    pc = "Install" =>
        /\ window \subseteq log
        /\ \A S \in SUBSET Held : Downward(S) /\ seen \cap Held \subseteq S => window \subseteq S
        /\ crashes = 0 /\ (\A m \in marks : m \in window \/ m \notin Held \/ m \in Skipped)
             => Held \ Skipped \subseteq window

\* A new event of the graph, after the events P.
Grows(e, P) ==
    /\ e \in (Local \cup Remote) \ log /\ (e \in Old => P = {}) /\ P \subseteq Events
    /\ Held = log /\ Held' = log \cup {e} /\ prev' = [prev EXCEPT ![e] = P]

\* It replaces the extremities among P, and perhaps becomes one.
Tips(e, P) ==
    /\ P \subseteq log /\ extremities \subseteq extremities' \cup P
    /\ extremities' \subseteq extremities \cup {e} /\ extremities' \cap P = {}

\* Without an append in progress the events held are those of the timeline.
LEMMA NoAppend ==
    ASSUME Sound, Locked, lock = "None"
    PROVE  adding.step = "None" /\ Held = log
BY ZenonT(60) DEF Locked, Appending, Sound, AddingOK, Steps, Held

\* An append extends the graph by its event, and until a crash moves the extremities to it.
LEMMA BeginGrows ==
    ASSUME Sound, Locked, Graph, NEW e \in Local \cup Remote, append_begin(e)
    PROVE  \E P : Grows(e, P) /\ (crashes = 0 => Tips(e, P))
<1>1. /\ lock = "None" /\ e \notin log /\ adding' = [step |-> "Insert", event |-> e]
      /\ UNCHANGED <<log, crashes>>
  BY Zenon DEF append_begin, bounds
<1>2. Held = log /\ Held' = log \cup {e}
  BY <1>1, NoAppend DEF Held
<1>3. CASE e \in Local /\ prev' = [prev EXCEPT ![e] = extremities]
           /\ set_forward_extremities(e, {e}) /\ e \notin extremities
  <2>1. Grows(e, extremities)
    BY <1>1, <1>2, <1>3, Kinds DEF Grows, Sound, EventsOK
  <2>2. extremities' = {e}
    BY <1>3 DEF set_forward_extremities
  <2>3. crashes = 0 => Tips(e, extremities)
    BY <1>2, <1>3, <2>2 DEF Tips, Graph
  <2>4. QED
    BY Zenon, <2>1, <2>3
<1>4. ASSUME NEW P \in SUBSET log, NEW tip \in BOOLEAN, e \in Old => P = {},
             prev' = [prev EXCEPT ![e] = P],
             set_forward_extremities(e, calculate_forward_extremities(e, P, tip))
      PROVE  \E Q : Grows(e, Q) /\ (crashes = 0 => Tips(e, Q))
  <2>1. Grows(e, P)
    BY <1>1, <1>2, <1>4 DEF Grows, Sound, EventsOK
  <2>2. ASSUME crashes = 0
        PROVE  Tips(e, P)
    <3>1. extremities \subseteq log /\ Kept(P) = extremities \ P
      BY Zenon, <1>2, <2>2 DEF Graph, Kept
    <3>2. extremities' = calculate_forward_extremities(e, P, tip)
      BY Zenon, <1>4, <3>1 DEF set_forward_extremities, calculate_forward_extremities
    <3>3. extremities' \in {Kept(P), Kept(P) \cup {e}}
      BY SMTT(30), <3>2 DEF calculate_forward_extremities
    <3>4. QED
      BY Zenon, <1>1, <3>1, <3>3 DEF Tips
  <2>3. QED
    BY SMTT(30), <2>1, <2>2
<1>5. QED
  BY <1>3, <1>4 DEF append_begin

\* A leave event does the same in one step.
LEMMA LeaveGrows ==
    ASSUME Sound, Locked, Graph, leave_abandoned_room
    PROVE  \/ UNCHANGED <<marks, extremities, log, prev, current>>
           \/ /\ \E e \in Local :
                   /\ Grows(e, extremities) /\ (crashes = 0 => Tips(e, extremities))
                   /\ (partial => marks' = marks \cup {e})
                   /\ log' = log \cup {e} /\ current' = current \cup {e}
<1>1. UNCHANGED adding
  BY Zenon DEF leave_abandoned_room
<1>2. CASE UNCHANGED <<marks, extremities, log, prev, current>>
  BY Zenon, <1>2
<1>3. ASSUME NEW e \in Local \ (log \cup extremities \cup marks), lock = "None",
             extremities' = {e}, prev' = [prev EXCEPT ![e] = extremities],
             log' = log \cup {e}, current' = current \cup {e}, mark_pending_event(e)
      PROVE  /\ Grows(e, extremities) /\ (crashes = 0 => Tips(e, extremities))
             /\ (partial => marks' = marks \cup {e})
  <2>1. Held = log /\ Held' = log \cup {e}
    BY Zenon, <1>1, <1>3, NoAppend DEF Held
  <2>2. Grows(e, extremities)
    BY Zenon, <1>3, <2>1, Kinds DEF Grows, Sound, EventsOK
  <2>3. crashes = 0 => Tips(e, extremities)
    BY Zenon, <1>3, <2>1 DEF Tips, Graph
  <2>4. QED
    BY <1>3, <2>2, <2>3 DEF mark_pending_event
<1>4. QED
  BY Zenon, <1>2, <1>3 DEF leave_abandoned_room, marked, room

\* An append holds its event before it is in the timeline as well as after.
LEMMA HeldStays ==
    ASSUME Sound, append_insert \/ append_send \/ append_record \/ join_fails \/ signal_resync
    PROVE  Held' = Held /\ log \subseteq log'
<1>1. CASE append_insert
  <2>1. log' = log \cup {adding.event} /\ adding.step = "Insert" /\ adding'.step # "Insert"
    BY <1>1 DEF append_insert, None, Sound, AddingOK
  <2>2. QED
    BY Zenon, <2>1 DEF Held
<1>2. CASE append_send \/ append_record \/ join_fails \/ signal_resync
  <2>1. UNCHANGED log
    BY ZenonT(60), <1>2 DEF append_send, append_record, join_fails, signal_resync, room
  <2>2. adding.step # "Insert" /\ adding'.step # "Insert"
    <3>1. CASE append_send \/ append_record
      BY SMTT(30), <3>1, SendSteps DEF None, Sound
    <3>2. CASE join_fails \/ signal_resync
      BY SMTT(30), <3>2 DEF join_fails, signal_resync, None
    <3>3. QED
      BY Zenon, <1>2, <3>1, <3>2
  <2>3. QED
    BY Zenon, <2>1, <2>2 DEF Held
<1>3. QED
  BY Zenon, <1>1, <1>2

\* Who changes the graph, and that inserting an event adds none.
LEMMA GraphSteps ==
    ASSUME Sound, [Next]_vars
    PROVE  \/ UNCHANGED <<Held, prev, extremities, crashes>>
           \/ \E e \in Local \cup Remote : append_begin(e)
           \/ \E j \in Joins : register_partial(j)
           \/ join_append \/ leave_abandoned_room \/ Crash
<1>1. CASE append_insert \/ append_send \/ append_record \/ join_fails \/ signal_resync
  <2>1. UNCHANGED <<prev, extremities, crashes>>
    BY ZenonT(60), <1>1 DEF append_insert, append_send, append_record, join_fails,
       signal_resync, room, bounds
  <2>2. QED
    BY Zenon, <1>1, <2>1, HeldStays
<1>2. CASE UNCHANGED <<adding, log, prev, extremities, crashes>>
  BY ZenonT(60), <1>2 DEF Held
<1>3. QED
  BY ZenonT(60), <1>1, <1>2 DEF Next, Append, start_resync, await_full_state,
     defer_device_update, judge_event, Task, resync_loop, Loop, fetch_state, should_give_up,
     reauth_window, reauth_fails, install_current_state, Install, install_refused, WalkAgain,
     reconcile_membership, Reconcile, replay_device_updates, drain, send_pending,
     clear_partial_markers, notify_resolved, take_deferred_device_updates, resync_returns,
     abandon_send, abandon_clear, abandon_notify, vars, room, bounds

\* A new event keeps the graph in order.
LEMMA GraphGrows ==
    ASSUME Sound, Graph, NEW e, NEW P, Grows(e, P), crashes = 0 => Tips(e, P), crashes' = crashes
    PROVE  Graph'
<1>1. \A x \in Joins \cup Old : prev'[x] = {}
  BY Zenon, Kinds DEF Grows, Graph, Sound, EventsOK, Events
<1>2. ASSUME crashes = 0
      PROVE  /\ extremities' \subseteq Held'
             /\ \A y \in Held' : prev'[y] \subseteq Held' /\ prev'[y] \cap extremities' = {}
  <2>1. Tips(e, P) /\ Grows(e, P) /\ log \subseteq Events /\ prev \in [Events -> SUBSET Events]
    BY <1>2 DEF Sound, EventsOK
  <2>2. prev'[e] = P /\ \A y \in log : prev'[y] = prev[y]
    BY <2>1 DEF Grows, Events
  <2>3. \A y \in log : prev[y] \subseteq log /\ prev[y] \cap extremities = {}
    BY <1>2, <2>1 DEF Graph, Grows
  <2>4. extremities \subseteq log
    BY <1>2, <2>1 DEF Graph, Grows
  <2>5. QED
    BY <2>1, <2>2, <2>3, <2>4 DEF Grows, Tips
<1>3. QED
  BY ZenonT(60), <1>1, <1>2 DEF Graph

\* Every step keeps the graph in order.
LEMMA GraphStep ==
    ASSUME Stays
    PROVE  Sound /\ Locked /\ Once /\ Graph /\ [Next]_vars => Graph'
<1> SUFFICES ASSUME Sound, Locked, Once, Graph, [Next]_vars
             PROVE  Graph'
  OBVIOUS
<1>1. CASE UNCHANGED <<Held, prev, extremities, crashes>>
  BY Zenon, <1>1 DEF Graph
<1>2. ASSUME NEW e \in Local \cup Remote, append_begin(e)
      PROVE  Graph'
  <2>1. crashes' = crashes
    BY ZenonT(60), <1>2 DEF append_begin, bounds
  <2>2. QED
    BY Zenon, <1>2, <2>1, BeginGrows, GraphGrows
<1>3. ASSUME NEW j \in Joins, register_partial(j)
      PROVE  Graph'
  <2>1. log = {} /\ Held = log
    BY Zenon, <1>3, JoinBegins, NoAppend DEF register_partial
  <2>2. UNCHANGED <<log, extremities, prev, crashes>>
    BY Zenon, <1>3 DEF register_partial
  <2>3. adding'.step = "Join"
    BY SMTT(30), <1>3 DEF register_partial
  <2>4. QED
    BY ZenonT(60), <2>1, <2>2, <2>3 DEF Graph, Held
<1>4. CASE join_append
  <2>1. log = {} /\ adding.event \in Joins
    BY <1>4, JoinIsFirst DEF join_append, Sound, AddingOK
  <2>2. /\ UNCHANGED <<log, prev>> /\ extremities' = {adding.event}
        /\ adding'.step = "Insert" /\ adding'.event = adding.event
    BY <1>4 DEF join_append, Sound, AddingOK
  <2>3. QED
    BY Zenon, <2>1, <2>2 DEF Graph, Held
<1>5. CASE leave_abandoned_room
  <2>1. UNCHANGED <<adding, crashes>>
    BY Zenon, <1>5 DEF leave_abandoned_room, bounds
  <2>2. CASE UNCHANGED <<marks, extremities, log, prev, current>>
    BY Zenon, <2>1, <2>2 DEF Graph, Held
  <2>3. QED
    BY Zenon, <1>5, <2>1, <2>2, LeaveGrows, GraphGrows
<1>6. CASE Crash
  <2>1. UNCHANGED prev /\ crashes' # 0
    BY <1>6 DEF Crash, room, Sound, CountersOK
  <2>2. QED
    BY Zenon, <2>1 DEF Graph
<1>7. QED
  BY Zenon, <1>1, <1>2, <1>3, <1>4, <1>5, <1>6, GraphSteps

\* A new event of a partial room is marked, so every event is still reached.
LEMMA ReachGrows ==
    ASSUME Sound, Reachable, NEW e, NEW P, Grows(e, P), crashes = 0 => Tips(e, P),
           partial => marks' = marks \cup {e}, UNCHANGED <<partial, crashes>>
    PROVE  Reachable'
<1> SUFFICES ASSUME crashes = 0, partial, NEW S \in SUBSET Held', Downward(S)',
                    (extremities' \cup marks') \cap Held' \subseteq S
             PROVE  Held' \ Skipped \subseteq S
  BY DEF Reachable
<1> DEFINE T == S \cap log
<1>1. Held = log /\ Held' = log \cup {e} /\ e \notin log /\ e \in S
  BY Zenon DEF Grows
<1>2. prev'[e] = P /\ \A y \in log : prev'[y] = prev[y]
  BY ZenonT(60) DEF Grows, Sound, EventsOK, Events
<1>3. Downward(T)
  BY Zenon, <1>1, <1>2 DEF Downward
<1>4. (extremities \cup marks) \cap Held \subseteq T
  <2>1. P \subseteq S
    BY <1>1, <1>2 DEF Downward, Tips
  <2>2. QED
    BY ZenonT(60), <1>1, <2>1 DEF Tips
<1>5. log \ Skipped \subseteq T
  BY <1>1, <1>3, <1>4 DEF Reachable
<1>6. QED
  BY <1>1, <1>5

\* What was walked stays reached from the extremities seen, and a new event is not covered.
LEMMA WalkedGrows ==
    ASSUME Sound, Walked, NEW e, NEW P, Grows(e, P), marks' = marks \cup {e},
           log' = log, UNCHANGED <<pc, window, seen, crashes>>
    PROVE  Walked'
<1> SUFFICES ASSUME pc = "Install"
             PROVE  Walked'
  BY DEF Walked
<1>1. Held = log /\ Held' = log \cup {e} /\ e \notin log /\ window \subseteq log
  BY DEF Grows, Walked
<1>2. \A y \in log : prev'[y] = prev[y]
  BY DEF Grows, Sound, EventsOK, Events
<1>3. ASSUME NEW S \in SUBSET Held', Downward(S)', seen \cap Held' \subseteq S
      PROVE  window \subseteq S
  <2> DEFINE T == S \cap log
  <2>1. Downward(T) /\ seen \cap Held \subseteq T /\ T \in SUBSET Held
    BY Zenon, <1>1, <1>2, <1>3 DEF Downward
  <2>2. window \subseteq T
    BY <2>1 DEF Walked
  <2>3. QED
    BY Zenon, <2>2
<1>4. ASSUME crashes = 0, \A m \in marks' : m \in window \/ m \notin Held' \/ m \in Skipped
      PROVE  Held' \ Skipped \subseteq window
  <2>1. e \in Skipped
    BY <1>1, <1>4
  <2>2. \A m \in marks : m \in window \/ m \notin Held \/ m \in Skipped
    BY <1>1, <1>4
  <2>3. Held \ Skipped \subseteq window
    BY Zenon, <1>4, <2>2 DEF Walked
  <2>4. QED
    BY <1>1, <2>1, <2>3
<1>5. QED
  BY <1>1, <1>3, <1>4 DEF Walked

\* A walk reaches what its definition says, and everything if it covers the marks.
LEMMA WalkCovers ==
    ASSUME Sound, Once, Verified, Graph, Reachable, reauth_window
    PROVE  Walked'
<1> DEFINE All == {x \in log : \A S \in SUBSET log : Reached(S) => x \in S}
<1>1. /\ UNCHANGED <<adding, log, prev, extremities, marks, crashes, Held>>
      /\ window' = Window /\ seen' = extremities /\ pc = "Walk"
  BY DEF reauth_window, marked, room, bounds, Held
<1>2. Window = All \ Skipped
  BY DEF Window, Skipped
<1>3. log \subseteq Held
  BY DEF Held
<1>4. ASSUME NEW S \in SUBSET Held, Downward(S), extremities \cap Held \subseteq S
      PROVE  Window \subseteq S
  <2> DEFINE T == S \cap log
  <2>1. Reached(T) /\ T \in SUBSET log
    BY <1>3, <1>4 DEF Downward, Reached
  <2>2. All \subseteq T
    BY <2>1
  <2>3. QED
    BY <1>2, <2>2
<1>5. ASSUME crashes = 0, \A m \in marks : m \in Window \/ m \notin Held \/ m \in Skipped
      PROVE  Held \ Skipped \subseteq Window
  <2> DEFINE T == All \cup (Held \cap Skipped)
  <2>1. Held \subseteq log \cup Skipped /\ partial
    <3>1. partial
      BY SMTT(30), <1>1 DEF Once, Course, Working, Places
    <3>2. QED
      BY <1>2, <1>5, <3>1 DEF Held, Verified
  <2>2. extremities \cap log \subseteq All /\ \A x \in All : prev[x] \cap log \subseteq All
    BY Zenon DEF Reached
  <2>3. \A x \in Skipped : prev[x] = {}
    BY DEF Graph, Skipped
  <2> HIDE DEF All
  <2>4. Downward(T)
    BY SMTT(30), <2>1, <2>2, <2>3 DEF Downward
  <2>5. (extremities \cup marks) \cap Held \subseteq T
    BY <1>2, <1>5, <2>1, <2>2
  <2>6. All \subseteq log
    BY DEF All
  <2>7. T \in SUBSET Held
    BY <1>3, <2>6
  <2>8. Held \ Skipped \subseteq T
    BY <1>5, <2>1, <2>4, <2>5, <2>7 DEF Reachable
  <2>9. QED
    BY <1>2, <2>8
<1>6. Window \subseteq log
  BY DEF Window
<1>7. QED
  BY Zenon, <1>1, <1>4, <1>5, <1>6 DEF Walked, Downward

\* An install covers the timeline, when it is not refused.
LEMMA InstallCovers ==
    ASSUME Sound, Locked, Walked, install_current_state, crashes = 0
    PROVE  Held = log /\ log \ Skipped \subseteq window
<1>1. lock = "None" /\ pc = "Install" /\ \A m \in marks : Covered(m, window)
  BY Zenon DEF install_current_state, Install
<1>2. Held = log
  BY <1>1, NoAppend
<1>3. \A m \in marks : m \in window \/ m \notin Held \/ m \in Skipped
  BY <1>1, <1>2 DEF Covered, Skipped
<1>4. QED
  BY <1>1, <1>2, <1>3 DEF Walked

\* Every step keeps the events of a partial room within reach.
LEMMA ReachableStep ==
    ASSUME Stays
    PROVE  /\ Sound /\ Locked /\ Once /\ Graph /\ Reachable /\ Walked /\ [Next]_vars
           => Reachable'
<1> SUFFICES ASSUME Sound, Locked, Once, Graph, Reachable, Walked, [Next]_vars
             PROVE  Reachable'
  OBVIOUS
<1>1. CASE UNCHANGED <<Held, prev, extremities, crashes, marks, partial>>
  BY Zenon, <1>1 DEF Reachable, Downward
<1>2. ASSUME NEW e \in Local \cup Remote, append_begin(e)
      PROVE  Reachable'
  <2>1. UNCHANGED <<partial, crashes>> /\ (partial => marks' = marks \cup {e})
    BY <1>2 DEF append_begin, mark_pending_event, bounds
  <2>2. QED
    BY ZenonT(60), <1>2, <2>1, BeginGrows, ReachGrows
<1>3. ASSUME NEW j \in Joins, register_partial(j)
      PROVE  Reachable'
  <2>1. log' = {} /\ adding'.step = "Join"
    BY Zenon, <1>3, JoinBegins DEF register_partial
  <2>2. Held' = {}
    BY <2>1 DEF Held
  <2>3. QED
    BY Zenon, <2>2 DEF Reachable
<1>4. CASE join_append
  <2>1. log = {} /\ partial
    BY <1>4, JoinIsFirst DEF join_append, Once, Course, Entering, Sound, AddingOK
  <2>2. /\ log' = log /\ adding'.step = "Insert" /\ adding'.event = adding.event
        /\ adding.event \in marks'
    BY <1>4, <2>1 DEF join_append, mark_pending_event, Sound, AddingOK
  <2>3. Held' = {adding.event}
    BY <2>1, <2>2 DEF Held
  <2>4. QED
    BY Zenon, <2>2, <2>3 DEF Reachable
<1>5. CASE leave_abandoned_room
  <2>1. UNCHANGED <<adding, crashes, partial>>
    BY Zenon, <1>5 DEF leave_abandoned_room, marked, bounds
  <2>2. CASE UNCHANGED <<marks, extremities, log, prev, current>>
    BY Zenon, <1>1, <2>1, <2>2 DEF Held
  <2>3. QED
    BY Zenon, <1>5, <2>1, <2>2, LeaveGrows, ReachGrows
<1>6. CASE Crash
  <2>1. crashes' # 0
    BY SMTT(30), <1>6 DEF Crash, Sound, CountersOK
  <2>2. QED
    BY Zenon, <2>1 DEF Reachable
<1>7. CASE install_current_state
  <2>1. UNCHANGED <<prev, extremities, crashes, log, adding, Held>> /\ seen = extremities
    BY Zenon, <1>7 DEF install_current_state, Install, bounds, Held
  <2>2. ASSUME crashes = 0, NEW S \in SUBSET Held, Downward(S), extremities \cap Held \subseteq S
        PROVE  Held \ Skipped \subseteq S
    <3>1. window \subseteq S
      BY <1>7, <2>1, <2>2 DEF Walked, install_current_state, Install
    <3>2. QED
      BY Zenon, <1>7, <2>2, <3>1, InstallCovers
  <2>3. QED
    BY <2>1, <2>2 DEF Reachable, Downward
<1>8. CASE clear_partial_markers \/ abandon_clear
  <2>1. /\ UNCHANGED <<Held, prev, extremities, crashes>>
        /\ (UNCHANGED <<marks, partial>> \/ ~partial')
    BY Zenon, <1>8 DEF clear_partial_markers, abandon_clear, marked, room, bounds, Held
  <2>2. CASE ~partial'
    BY Zenon, <2>2 DEF Reachable
  <2>3. QED
    BY Zenon, <1>1, <2>1, <2>2
<1>9. CASE append_insert \/ append_send \/ append_record \/ join_fails \/ signal_resync
  <2>1. UNCHANGED <<marks, partial, prev, extremities, crashes>>
    BY Zenon, <1>9 DEF append_insert, append_send, append_record, join_fails, signal_resync,
       marked, room, bounds
  <2>2. Held' = Held
    BY Zenon, <1>9, HeldStays
  <2>3. QED
    BY Zenon, <1>1, <2>1, <2>2
<1>10. QED
  BY Zenon, <1>1, <1>2, <1>3, <1>4, <1>5, <1>6, <1>7, <1>8, <1>9, GraphSteps, MarkSteps DEF
     Append

\* Every step keeps what a walk has reached, until its install.
LEMMA WalkedStep ==
    ASSUME Stays
    PROVE  /\ Sound /\ Locked /\ Once /\ Verified /\ Graph /\ Reachable /\ Walked /\ [Next]_vars
           => Walked'
<1> SUFFICES ASSUME Sound, Locked, Once, Verified, Graph, Reachable, Walked, [Next]_vars,
                    pc' = "Install"
             PROVE  Walked'
  BY Zenon DEF Walked
<1>1. ASSUME UNCHANGED <<Held, prev, crashes, marks, pc, window, seen>>, log \subseteq log'
      PROVE  Walked'
  BY Zenon, <1>1 DEF Walked, Downward
<1>2. ASSUME NEW e \in Local \cup Remote, append_begin(e)
      PROVE  Walked'
  <2>1. UNCHANGED <<pc, window, seen, crashes, log>> /\ mark_pending_event(e)
    BY Zenon, <1>2 DEF append_begin, walk, bounds
  <2>2. marks' = marks \cup {e}
    BY <2>1 DEF mark_pending_event, Once, Course, Working, Places
  <2>3. QED
    BY Zenon, <1>2, <2>1, <2>2, BeginGrows, WalkedGrows
<1>3. CASE append_insert \/ append_send \/ append_record
  <2>1. UNCHANGED <<marks, prev, crashes, pc, window, seen>>
    BY Zenon, <1>3 DEF append_insert, append_send, append_record, marked, room, walk, bounds
  <2>2. Held' = Held /\ log \subseteq log'
    BY Zenon, <1>3, HeldStays
  <2>3. QED
    BY Zenon, <1>1, <2>1, <2>2
<1>4. CASE Task
  <2>1. reauth_window
    BY Zenon, <1>4 DEF Task, resync_loop, Loop, fetch_state, should_give_up, reauth_window,
       reauth_fails, install_current_state, Install, install_refused, WalkAgain,
       reconcile_membership, Reconcile, replay_device_updates, drain, send_pending,
       clear_partial_markers, notify_resolved, take_deferred_device_updates, resync_returns,
       leave_abandoned_room, abandon_send, abandon_clear, abandon_notify, ReauthFails,
       AfterInstall
  <2>2. QED
    BY Zenon, <2>1, WalkCovers
<1>5. ~Crash /\ ~join_append
  <2>1. adding.step = "Join" => pc # "Install"
    BY DEF Stays, Once, Course, Lasting, Fresh, OneTask, Entering, Sound, AddingOK
  <2>2. QED
    BY Zenon, <2>1 DEF Crash, join_append
<1>6. \A j \in Joins : ~register_partial(j)
  <2> SUFFICES ASSUME NEW j \in Joins, register_partial(j)
               PROVE  FALSE
    BY Zenon
  <2>1. pc # "Install" /\ pc' = pc
    BY Zenon, JoinBegins DEF register_partial
  <2>2. QED
    BY <2>1
<1>7. CASE join_fails \/ signal_resync
  <2>1. UNCHANGED <<marks, log, prev, crashes, pc, window, seen>>
    BY ZenonT(60), <1>7 DEF join_fails, signal_resync, marked, room, walk, bounds
  <2>2. Held' = Held
    BY <1>7 DEF join_fails, signal_resync, room, Held, None
  <2>3. QED
    BY Zenon, <1>1, <2>1, <2>2
<1>8. CASE start_resync
  <2>1. UNCHANGED <<marks, log, prev, crashes, window, seen, adding>>
    BY Zenon, <1>8 DEF start_resync, marked, room, walk, bounds
  <2>2. Held' = Held /\ pc' = pc
    BY <1>8, <2>1 DEF start_resync, Held
  <2>3. QED
    BY Zenon, <1>1, <2>1, <2>2
<1>9. CASE await_full_state \/ defer_device_update \/ judge_event \/ UNCHANGED vars
  <2>1. UNCHANGED <<adding, log, prev, crashes, marks, pc, window, seen>>
    BY Zenon, <1>9 DEF await_full_state, defer_device_update, judge_event, vars, marked, room,
       walk, bounds
  <2>2. Held' = Held /\ log \subseteq log'
    BY ZenonT(60), <2>1 DEF Held
  <2>3. QED
    BY Zenon, <1>1, <2>1, <2>2
<1>10. QED
  BY Zenon, <1>2, <1>3, <1>4, <1>5, <1>6, <1>7, <1>8, <1>9 DEF Next, Append

\* Every step that builds the current state anew has all of the timeline in it.
LEMMA OverwriteStep ==
    ASSUME Stays
    PROVE  Sound /\ Locked /\ Once /\ Graph /\ Walked /\ NothingOverwritten /\ [Next]_vars
           => NothingOverwritten'
<1> SUFFICES ASSUME Sound, Locked, Once, Graph, Walked, NothingOverwritten, [Next]_vars
             PROVE  NothingOverwritten'
  OBVIOUS
<1>1. CASE UNCHANGED <<log, current, crashes>>
  BY Zenon, <1>1 DEF NothingOverwritten
<1>2. CASE append_insert
  BY ZenonT(60), <1>2 DEF append_insert, bounds, NothingOverwritten
<1>3. ASSUME NEW j \in Joins, register_partial(j)
      PROVE  NothingOverwritten'
  BY <1>3 DEF register_partial, NothingOverwritten
<1>4. CASE leave_abandoned_room
  <2>1. crashes' = crashes
    BY Zenon, <1>4 DEF leave_abandoned_room, bounds
  <2>2. QED
    BY <1>4, <2>1, LeaveGrows DEF NothingOverwritten
<1>5. CASE install_current_state
  <2>1. /\ UNCHANGED <<crashes, log>>
        /\ current' = window \cup (IF Anchored THEN log \cap Old ELSE {})
    BY Zenon, <1>5 DEF install_current_state, Install, bounds
  <2>2. crashes = 0 => log \ Skipped \subseteq window
    BY Zenon, <1>5, InstallCovers
  <2>3. QED
    BY <2>1, <2>2 DEF NothingOverwritten, Skipped
<1>6. CASE Crash
  <2>1. crashes' # 0
    BY <1>6 DEF Crash, Sound, CountersOK
  <2>2. QED
    BY Zenon, <2>1 DEF NothingOverwritten
<1>7. QED
  BY ZenonT(60), <1>1, <1>2, <1>3, <1>4, <1>5, <1>6 DEF Next, Append, append_begin, append_send,
     append_record, join_append, join_fails, signal_resync, start_resync, await_full_state,
     defer_device_update, judge_event, Task, resync_loop, Loop, fetch_state, should_give_up,
     reauth_window, reauth_fails, install_refused, WalkAgain, reconcile_membership, Reconcile,
     replay_device_updates, drain, send_pending, clear_partial_markers, notify_resolved,
     take_deferred_device_updates, resync_returns, abandon_send, abandon_clear, abandon_notify,
     vars, room, bounds

\* An install overwrites nothing: until a crash, the current state reflects every event of the
\* timeline, although the walk is made without the lock and events come in during it, also
\* such as change no extremity.
THEOREM InstallsKeepEverything ==
    ASSUME Stays
    PROVE  Spec => []NothingOverwritten
<1> DEFINE Inv == Graph /\ Reachable /\ Walked /\ NothingOverwritten
<1>1. Init => Inv
  <2>1. Init => Held = {}
    BY SMTT(30) DEF Init, Held, None
  <2>2. Init => Graph
    BY <2>1, Kinds DEF Init, Graph, Events
  <2>3. QED
    BY Zenon, <2>1, <2>2 DEF Init, Reachable, Walked, NothingOverwritten
<1>2. Sound /\ Locked /\ Once /\ Verified /\ Inv /\ [Next]_vars => Inv'
  BY Zenon, GraphStep, ReachableStep, WalkedStep, OverwriteStep
<1>3. Inv => NothingOverwritten
  OBVIOUS
<1> HIDE DEF Inv
<1>4. QED
  BY <1>1, <1>2, <1>3, SoundHolds, LockHolds, OnceHolds, VerifiedHolds, PTL DEF Spec
=============================================================================
