---------------------------- MODULE PartialState ----------------------------
(***************************************************************************)
(* A room joined with partial state, and the resync that completes it      *)
(* (service/rooms/state_partial, the appends of rooms/timeline and the     *)
(* join of api/client/membership/join.rs).                                 *)
(*                                                                         *)
(* A partial join knows few of the room's members and servers. Until the   *)
(* resync has fetched the full state, every event appended is marked, and  *)
(* every local one is recorded with the servers it went to. The resync     *)
(* re-authorises the marked events against the full state, installs the    *)
(* result, sends what the new servers missed and drops the markers. It     *)
(* shares the room with appends, joins, clients waiting for the full       *)
(* state, device-list updates and restarts.                                *)
(*                                                                         *)
(* Data. Room state is the set of events it reflects. The servers are two  *)
(* groups: the one joined through, always known, and the rest, known once  *)
(* the full membership is reconciled; the same holds of the one remote     *)
(* user whose device-list update may be deferred.                          *)
(***************************************************************************)
EXTENDS Naturals, FiniteSets

CONSTANTS
    Local, Remote,     \* events sent here, and received
    Old,               \* the remote ones no deeper than the anchor of the join
    Joins,             \* our join events, one for each join
    NoEvent,           \* no event
    FailMax,           \* bound on the operations that fail, crashes included
    CrashMax,          \* bound on the crashes
    ReauthAttempts,    \* REAUTH_ATTEMPTS
    Anchored,          \* whether the anchor is held, so that its depth is known
    GiveUp             \* whether partial_state_resync_give_up_after is set

Events == Local \cup Remote \cup Joins

ASSUME PartialAssumption ==
    /\ Old \subseteq Remote /\ Local \cap Remote = {}
    /\ Joins \cap (Local \cup Remote) = {} /\ NoEvent \notin Events
    /\ FailMax \in Nat /\ CrashMax \in Nat
    /\ ReauthAttempts \in Nat \ {0} /\ Anchored \in BOOLEAN /\ GiveUp \in BOOLEAN

VARIABLES
    \* On disk.
    partial,           \* the room's row of state_partial_rooms
    marks,             \* state_partial_pending_events
    rows,              \* state_partial_pending
    extremities,       \* the forward extremities
    log, prev,         \* the events of the timeline, and the prev_events of each
    current,           \* the events that the room's current state reflects
    reconciled,        \* whether state_cache holds the full membership
    joined,            \* whether our user is in the room
    narrow,            \* the local events whose append ended and that the servers first
                       \* unknown were not sent
    \* In memory.
    lock,              \* who holds the room's state lock
    adding,            \* the append in progress, and where it stands
    signals,           \* resync_tx
    active,            \* whether a resync task runs
    pc, window, seen, attempt,   \* of the task: where it stands, the walk it made
    installed, replayed, found, failing, before,   \* and its locals
    waiter,            \* a client in await_full_state
    edu,               \* a device-list update: its handler, deferred_device_updates
    judged,            \* the received events accepted by the rules of a partial room
    \* What has happened.
    unverified,        \* events accepted on partial state and re-authorised by no install
    late,              \* received events judged on partial state, appended without marker
    full,              \* whether the current state was built from the full state
    told,              \* whether the servers first unknown got our device lists
    joins, fails, crashes   \* the joins tried, and counters
marked == <<partial, marks>>
room == <<extremities, log, prev, current, joined, full, unverified, late>>
sends == <<rows, narrow>>
walk == <<window, seen, attempt>>
locals == <<installed, replayed, found, failing, before>>
bounds == <<joins, fails, crashes>>
vars == <<marked, room, sends, reconciled, lock, adding, signals, active, pc, walk,
          locals, waiter, edu, judged, told, bounds>>

None == [step |-> "None", event |-> NoEvent]
Nothing == [is |-> FALSE, at |-> {}]

Init ==
    /\ partial = FALSE /\ marks = {} /\ rows = {} /\ extremities = {} /\ log = {}
    /\ prev = [e \in Events |-> {}] /\ current = {} /\ reconciled = FALSE
    /\ joined = FALSE /\ narrow = {}
    /\ lock = "None" /\ adding = None /\ signals = 0 /\ active = FALSE
    /\ pc = "Idle" /\ window = {} /\ seen = {} /\ attempt = 0
    /\ installed = Nothing /\ replayed = FALSE /\ found = FALSE /\ failing = FALSE
    /\ before = "None" /\ waiter = "Idle" /\ edu = "Idle" /\ judged = {}
    /\ unverified = {} /\ late = {} /\ full = FALSE /\ told = FALSE
    /\ joins = {} /\ fails = 0 /\ crashes = 0

(***************************************************************************)
(* Appending an event. The caller holds the state lock throughout: the     *)
(* extremities move and the event is marked if the room is partial, the    *)
(* timeline and the current state take it in one batch, and a local event  *)
(* is then sent to the servers known and recorded. A crash may come in     *)
(* between. (One between the extremities and the mark is not told apart:   *)
(* the mark of an event that is not held counts for nothing.)              *)
(* A received event is judged before its handler has the lock.             *)
(***************************************************************************)

\* The extremities that an incoming event leaves. (A soft-failed event leaves them alone
\* and stays out of the timeline.)
Kept(P) == {x \in extremities : x \notin P /\ \A y \in log : x \notin prev[y]}
calculate_forward_extremities(e, P, tip) ==
    IF tip \/ Kept(P) = {} THEN Kept(P) \cup {e} ELSE Kept(P)

\* Of these only the events of the timeline, and the one being appended, are stored.
set_forward_extremities(e, X) ==
    extremities' = IF X \cap (log \cup {e}) = {} THEN extremities ELSE X \cap (log \cup {e})

\* The handler of a received event reads the marker and accepts the event by the rules of a
\* partial room; it then waits for the state lock. It may fail instead of appending.
judge_event ==
    /\ \/ \E e \in Remote \ (log \cup judged) :
             joined /\ partial /\ judged' = judged \cup {e}
       \/ \E e \in judged : adding.event # e /\ judged' = judged \ {e}
    /\ UNCHANGED <<marked, room, sends, reconciled, lock, adding, signals, active, pc, walk,
                   locals, waiter, edu, told, bounds>>

mark_pending_event(e) == marks' = IF partial THEN marks \cup {e} ELSE marks

\* A local event refers to every extremity. A received one may extend any event that
\* is held, or none; it is no tip when it was fetched as the predecessor of another.
\* One sent again after a crash is the same event.
append_begin(e) ==
    /\ lock = "None" /\ joined /\ e \notin log /\ lock' = "append"
    /\ \/ /\ e \in Local /\ e \notin extremities \cup marks
          /\ prev' = [prev EXCEPT ![e] = extremities] /\ set_forward_extremities(e, {e})
       \/ \E P \in SUBSET log, tip \in BOOLEAN :
             /\ e \in Remote /\ (e \in Old => P = {})
             /\ (e \in extremities \cup marks => P = prev[e])
             /\ prev' = [prev EXCEPT ![e] = P]
             /\ set_forward_extremities(e, calculate_forward_extremities(e, P, tip))
    /\ mark_pending_event(e) /\ adding' = [step |-> "Insert", event |-> e]
    /\ UNCHANGED <<partial, log, current, joined, full, unverified, late, sends, reconciled,
                   signals, active, pc, walk, locals, waiter, edu, judged, told, bounds>>

append_insert ==
    /\ adding.step = "Insert"
    /\ log' = log \cup {adding.event} /\ current' = current \cup {adding.event}
    /\ unverified' = IF partial \/ adding.event \in judged
                      THEN unverified \cup {adding.event} ELSE unverified
    /\ late' = IF partial THEN late ELSE late \cup (judged \cap {adding.event})
    /\ judged' = judged \ {adding.event}
    /\ joined' = (joined \/ adding.event \in Joins)
    /\ \/ /\ adding.event \in Remote /\ adding' = None /\ lock' = "None"
       \/ /\ adding.event \in Local /\ adding' = [adding EXCEPT !.step = "Send"]
          /\ UNCHANGED lock
       \/ /\ adding.event \in Joins /\ adding' = [adding EXCEPT !.step = "Signal"]
          /\ UNCHANGED lock
    /\ UNCHANGED <<marked, extremities, prev, full, sends, reconciled, signals, active,
                   pc, walk, locals, waiter, edu, told, bounds>>

\* send_pdu_servers to the servers known, or an error, with which the append returns.
append_send ==
    /\ adding.step = "Send"
    /\ \/ adding' = [adding EXCEPT !.step = IF reconciled THEN "RecordAll" ELSE "RecordFew"]
          /\ UNCHANGED <<lock, fails>>
       \/ fails < FailMax /\ fails' = fails + 1 /\ adding' = None /\ lock' = "None"
    /\ UNCHANGED <<marked, room, sends, reconciled, signals, active, pc, walk, locals, waiter,
                   edu, judged, told, joins, crashes>>

\* record_partial_send, with the servers that the event went to.
append_record ==
    /\ adding.step \in {"RecordFew", "RecordAll"} /\ adding' = None /\ lock' = "None"
    /\ narrow' = IF adding.step = "RecordFew" THEN narrow \cup {adding.event} ELSE narrow
    /\ rows' = IF partial THEN rows \cup {adding.event} ELSE rows
    /\ UNCHANGED <<marked, room, reconciled, signals, active, pc, walk, locals, waiter,
                   edu, judged, told, bounds>>

(***************************************************************************)
(* The partial join: the marker, our join event, the signal. An error      *)
(* before the event is appended, or after it, returns with the marker set  *)
(* and no signal sent. What the response says of the room covers what we   *)
(* held of it.                                                             *)
(***************************************************************************)
register_partial(j) ==
    /\ lock = "None" /\ ~joined /\ j \notin joins /\ joins' = joins \cup {j}
    /\ lock' = "join" /\ adding' = [step |-> "Join", event |-> j]
    /\ partial' = TRUE /\ full' = FALSE /\ reconciled' = FALSE /\ told' = FALSE
    /\ current' = log /\ narrow' = narrow \cap rows
    /\ UNCHANGED <<marks, extremities, log, prev, joined, unverified, late, rows, signals,
                   active, pc, walk, locals, waiter, edu, judged, fails, crashes>>

join_append ==
    /\ adding.step = "Join" /\ adding' = [adding EXCEPT !.step = "Insert"]
    /\ extremities' = {adding.event} /\ mark_pending_event(adding.event)
    /\ UNCHANGED <<partial, log, prev, current, joined, full, unverified, late, sends, reconciled,
                   lock, signals, active, pc, walk, locals, waiter, edu, judged, told, bounds>>

join_fails ==
    /\ adding.step \in {"Join", "Signal"} /\ fails < FailMax /\ fails' = fails + 1
    /\ adding' = None /\ lock' = "None"
    /\ UNCHANGED <<marked, room, sends, reconciled, signals, active, pc, walk, locals,
                   waiter, edu, judged, told, joins, crashes>>

signal_resync ==
    /\ adding.step = "Signal" /\ adding' = None /\ lock' = "None"
    /\ signals' = signals + 1
    /\ UNCHANGED <<marked, room, sends, reconciled, active, pc, walk, locals, waiter,
                   edu, judged, told, bounds>>

(***************************************************************************)
(* The worker and the task of a resync.                                    *)
(***************************************************************************)

NoLocals ==
    /\ installed' = Nothing /\ replayed' = FALSE /\ found' = FALSE /\ failing' = FALSE
    /\ before' = "None"

\* A signal for a room whose task still runs is dropped.
start_resync ==
    /\ signals > 0 /\ signals' = signals - 1 /\ active' = TRUE
    /\ pc' = IF active THEN pc ELSE "Loop"
    /\ UNCHANGED <<marked, room, sends, reconciled, lock, adding, walk, locals, waiter,
                   edu, judged, told, bounds>>

AfterInstall == IF replayed THEN "Drain" ELSE "Replay"

\* The top of the loop. A marker that cannot be read ends the task, as no marker does.
Loop(servers) ==
    /\ pc = "Loop"
    /\ \/ ~partial /\ pc' = "Exit" /\ UNCHANGED <<before, fails>>
       \/ /\ partial /\ pc' = IF installed.is THEN AfterInstall ELSE "Fetch"
          /\ before' = servers /\ UNCHANGED fails
       \/ /\ partial /\ fails < FailMax /\ fails' = fails + 1 /\ pc' = "Exit"
          /\ UNCHANGED before
    /\ UNCHANGED <<marked, room, sends, reconciled, lock, adding, signals, active, walk,
                   installed, replayed, found, failing, waiter, edu, judged, told, joins,
                   crashes>>

device_list_servers == IF reconciled THEN "All" ELSE "Few"

\* Mutant: the servers known are captured each time.
resync_loop_captures_again == Loop(device_list_servers)

\* The servers known are captured once.
resync_loop == Loop(IF before = "None" THEN device_list_servers ELSE before)

\* resync_room fetches the state, or fails: no server had usable state, or another
\* error. Only the former counts, from the first such failure, towards giving up.
fetch_state ==
    /\ pc = "Fetch" /\ pc' = "Walk"
    /\ UNCHANGED <<marked, room, sends, reconciled, lock, adding, signals, active, walk,
                   locals, waiter, edu, judged, told, bounds>>

should_give_up ==
    /\ pc = "Fetch" /\ fails < FailMax /\ fails' = fails + 1
    /\ \/ failing' = FALSE /\ pc' = "Loop"
       \/ failing' = TRUE /\ pc' = "Loop"
       \/ failing /\ GiveUp /\ pc' = "AbandonLeave" /\ UNCHANGED failing
    /\ UNCHANGED <<marked, room, sends, reconciled, lock, adding, signals, active, walk,
                   installed, replayed, found, before, waiter, edu, judged, told, joins,
                   crashes>>

\* The walk back from the extremities over the events held. Those no deeper than the
\* anchor are left out, when its depth is known.
Reached(S) == extremities \cap log \subseteq S /\ \A e \in S : prev[e] \cap log \subseteq S
Window ==
    LET Closed == {S \in SUBSET log : Reached(S)}
    IN  {e \in log : (Anchored => e \notin Old) /\ \A S \in Closed : e \in S}

\* The window cannot be rebuilt when no extremity is in it.
reauth_window ==
    /\ pc = "Walk" /\ extremities \cap Window # {}
    /\ window' = Window /\ seen' = extremities /\ attempt' = attempt + 1
    /\ pc' = "Install"
    /\ UNCHANGED <<marked, room, sends, reconciled, lock, adding, signals, active,
                   locals, waiter, edu, judged, told, bounds>>

\* An error of reauth_and_install. Of a first install it is a failure of resync_room
\* that does not count; of a rebuild it drops what was fetched.
ReauthFails ==
    /\ pc' = "Loop" /\ attempt' = 0 /\ installed' = Nothing /\ replayed' = FALSE
    /\ failing' = IF installed.is THEN failing ELSE FALSE

reauth_fails ==
    /\ pc = "Walk"
    /\ \/ extremities \cap Window = {} /\ UNCHANGED fails
       \/ fails < FailMax /\ fails' = fails + 1
    /\ ReauthFails
    /\ UNCHANGED <<marked, room, sends, reconciled, lock, adding, signals, active,
                   window, seen, found, before, waiter, edu, judged, told, joins, crashes>>

\* A mark is covered by an install if the event was re-authorised, is part of the
\* anchor's state, or is not held.
Covered(m, W) == m \in W \/ m \notin log \/ (Anchored /\ m \in Old)

Install ==
    /\ pc = "Install" /\ lock = "None" /\ seen = extremities
    /\ current' = window \cup (IF Anchored THEN log \cap Old ELSE {}) /\ full' = TRUE
    /\ unverified' = {e \in unverified : ~Covered(e, window)}
    /\ marks' = {} /\ pc' = "Reconcile" /\ window' = {} /\ attempt' = 0
    /\ UNCHANGED <<partial, extremities, log, prev, joined, late, sends, reconciled, lock,
                   adding, signals, active, seen, locals, waiter, edu, judged, told, bounds>>

\* Mutant: the marks are not looked at.
install_ignoring_marks == Install
install_current_state == Install /\ \A m \in marks : Covered(m, window)

\* The room changed under the walk: walk again, a few times.
WalkAgain(last) ==
    /\ pc = "Install" /\ lock = "None"
    /\ seen # extremities \/ \E m \in marks : ~Covered(m, window)
    /\ window' = {} /\ seen' = {}
    /\ \/ ~last /\ pc' = "Walk" /\ UNCHANGED <<attempt, installed, replayed, failing>>
       \/ last /\ ReauthFails
    /\ UNCHANGED <<marked, room, sends, reconciled, lock, adding, signals, active, found,
                   before, waiter, edu, judged, told, bounds>>

\* Mutant: one attempt too many.
install_refused_once_more == WalkAgain(attempt > ReauthAttempts)
install_refused == WalkAgain(attempt = ReauthAttempts)

\* reconcile_membership; members not known until now are found. A rebuild is checked
\* again from the top.
Reconcile(users) ==
    /\ pc = "Reconcile" /\ reconciled' = TRUE /\ seen' = {}
    /\ found' = users /\ installed' = [is |-> TRUE, at |-> seen]
    /\ replayed' = (replayed /\ reconciled)
    /\ pc' = IF installed.is THEN "Loop" ELSE AfterInstall
    /\ UNCHANGED <<marked, room, sends, lock, adding, signals, active, window, attempt,
                   failing, before, waiter, edu, judged, told, bounds>>

\* Mutant: only the members found last are remembered.
reconcile_last_found == Reconcile(~reconciled)
reconcile_membership == Reconcile(found \/ ~reconciled)

\* Our device lists go to the servers that were not known at the start.
replay_device_updates ==
    /\ pc = "Replay"
    /\ \/ /\ pc' = "Drain" /\ replayed' = TRUE /\ UNCHANGED fails
          /\ told' = (told \/ (reconciled /\ before = "Few"))
       \/ /\ fails < FailMax /\ fails' = fails + 1 /\ pc' = "Loop"
          /\ UNCHANGED <<replayed, told>>
    /\ UNCHANGED <<marked, room, sends, reconciled, lock, adding, signals, active, walk,
                   installed, found, failing, before, waiter, edu, judged, joins, crashes>>

\* Mutant: only the extremities are compared.
has_moved == extremities # installed.at
has_drifted == extremities # installed.at \/ marks # {}

\* The state lock is taken, and kept unless the room has drifted.
drain ==
    /\ pc = "Drain" /\ lock = "None"
    /\ \/ has_drifted /\ pc' = "Walk" /\ UNCHANGED lock
       \/ ~has_drifted /\ pc' = "Send" /\ lock' = "task"
    /\ UNCHANGED <<marked, room, sends, reconciled, adding, signals, active, walk, locals,
                   waiter, edu, judged, told, bounds>>

\* A recorded event goes to the servers now known that it was not sent to. Rows that
\* fail to be sent are kept.
Sent(S) == rows' = rows \ S /\ narrow' = IF reconciled THEN narrow \ S ELSE narrow
send_pending ==
    /\ pc = "Send"
    /\ \/ Sent(rows) /\ pc' = "Clear" /\ UNCHANGED <<lock, fails>>
       \/ \E S \in SUBSET rows :
             /\ S # rows /\ fails < FailMax /\ fails' = fails + 1
             /\ Sent(S) /\ pc' = "Loop" /\ lock' = "None"
    /\ UNCHANGED <<marked, room, reconciled, adding, signals, active, walk, locals,
                   waiter, edu, judged, told, joins, crashes>>

clear_partial_markers ==
    /\ pc = "Clear" /\ lock' = "None"
    /\ \/ partial' = FALSE /\ marks' = {} /\ pc' = "Notify" /\ UNCHANGED fails
       \/ fails < FailMax /\ fails' = fails + 1 /\ pc' = "Loop" /\ UNCHANGED marked
    /\ UNCHANGED <<room, sends, reconciled, adding, signals, active, walk, locals,
                   waiter, edu, judged, told, joins, crashes>>

\* A client that waits is woken, and looks at the marker again.
Woken == IF waiter = "Waiting" THEN "Armed" ELSE waiter
notify_resolved ==
    /\ pc = "Notify" /\ pc' = "Surface" /\ waiter' = Woken
    /\ UNCHANGED <<marked, room, sends, reconciled, lock, adding, signals, active, walk,
                   locals, edu, judged, told, bounds>>

\* The deferred updates of the members found are shown to clients; the rest is dropped
\* once no room is partial.
take_deferred_device_updates ==
    /\ pc = "Surface" /\ pc' = "Exit"
    /\ edu' = CASE edu \in {"Deferred", "Late"} /\ found -> "Idle"
               [] edu \in {"Deferred", "Late"} /\ ~found /\ ~partial -> "Dropped"
               [] OTHER -> edu
    /\ UNCHANGED <<marked, room, sends, reconciled, lock, adding, signals, active, walk,
                   locals, waiter, judged, told, bounds>>

resync_returns ==
    /\ pc = "Exit" /\ pc' = "Idle" /\ active' = FALSE /\ NoLocals
    /\ UNCHANGED <<marked, room, sends, reconciled, lock, adding, signals, walk, waiter,
                   edu, judged, told, bounds>>

(***************************************************************************)
(* Giving up: the local user leaves, with a leave event or, when it cannot *)
(* be sent, by its membership alone; then the markers go. An error starts  *)
(* over.                                                                   *)
(***************************************************************************)
leave_abandoned_room ==
    /\ pc = "AbandonLeave" /\ pc' = "AbandonSend"
    /\ \/ ~joined /\ UNCHANGED <<marked, room, sends>>
       \/ joined /\ joined' = FALSE
          /\ UNCHANGED <<marked, extremities, log, prev, current, full, unverified, late, sends>>
       \/ \E e \in Local \ (log \cup extremities \cup marks) :
             /\ joined /\ joined' = FALSE /\ lock = "None" /\ extremities' = {e}
             /\ prev' = [prev EXCEPT ![e] = extremities]
             /\ log' = log \cup {e} /\ current' = current \cup {e}
             /\ mark_pending_event(e)
             /\ unverified' = IF partial THEN unverified \cup {e} ELSE unverified
             /\ rows' = IF partial THEN rows \cup {e} ELSE rows
             /\ narrow' = IF reconciled THEN narrow ELSE narrow \cup {e}
             /\ UNCHANGED <<partial, full, late>>
    /\ UNCHANGED <<reconciled, lock, adding, signals, active, walk, locals, waiter,
                   edu, judged, told, bounds>>

abandon_send ==
    /\ pc = "AbandonSend" /\ lock = "None"
    /\ \/ Sent(rows) /\ pc' = "AbandonClear" /\ lock' = "task" /\ UNCHANGED fails
       \/ \E S \in SUBSET rows :
             /\ fails < FailMax /\ fails' = fails + 1
             /\ Sent(S) /\ pc' = "AbandonLeave" /\ UNCHANGED lock
    /\ UNCHANGED <<marked, room, reconciled, adding, signals, active, walk, locals,
                   waiter, edu, judged, told, joins, crashes>>

abandon_clear ==
    /\ pc = "AbandonClear" /\ lock' = "None"
    /\ \/ partial' = FALSE /\ marks' = {} /\ pc' = "AbandonNotify" /\ UNCHANGED fails
       \/ /\ fails < FailMax /\ fails' = fails + 1 /\ pc' = "AbandonLeave"
          /\ UNCHANGED marked
    /\ UNCHANGED <<room, sends, reconciled, adding, signals, active, walk, locals,
                   waiter, edu, judged, told, joins, crashes>>

\* Mutant: nobody is woken.
abandon_silently ==
    /\ pc = "AbandonNotify" /\ pc' = "Exit"
    /\ UNCHANGED <<marked, room, sends, reconciled, lock, adding, signals, active, walk,
                   locals, waiter, edu, judged, told, bounds>>

abandon_notify ==
    /\ pc = "AbandonNotify" /\ pc' = "Exit" /\ waiter' = Woken
    /\ UNCHANGED <<marked, room, sends, reconciled, lock, adding, signals, active, walk,
                   locals, edu, judged, told, bounds>>

(***************************************************************************)
(* A client waiting for the full state; the handler of a device-list       *)
(* update; a crash, after which the rooms still partial are resynced.      *)
(***************************************************************************)

\* The waiter is armed before it looks at the marker, and returns when there is none.
await_full_state ==
    /\ \/ waiter = "Idle" /\ waiter' = "Armed"
       \/ waiter = "Armed" /\ waiter' = IF partial THEN "Waiting" ELSE "Idle"
    /\ UNCHANGED <<marked, room, sends, reconciled, lock, adding, signals, active, pc,
                   walk, locals, edu, judged, told, bounds>>

\* The partial rooms the sender may be in are read first, then the rooms it is known
\* to share with us; the update is deferred if only the former exist, without another
\* look at the marker. By then the task may have taken what was deferred.
TakeAhead == partial \/ pc \in {"Notify", "Surface"}
defer_device_update ==
    /\ \/ edu = "Idle" /\ partial /\ edu' = "Asked"
       \/ edu = "Asked" /\ edu' = IF reconciled THEN "Idle" ELSE "Checked"
       \/ edu = "Checked" /\ edu' = IF TakeAhead THEN "Deferred" ELSE "Late"
    /\ UNCHANGED <<marked, room, sends, reconciled, lock, adding, signals, active, pc,
                   walk, locals, waiter, judged, told, bounds>>

Crash ==
    /\ crashes < CrashMax /\ crashes' = crashes + 1
    /\ fails < FailMax /\ fails' = fails + 1
    /\ lock' = "None" /\ adding' = None /\ active' = FALSE /\ pc' = "Idle"
    /\ signals' = IF partial THEN 1 ELSE 0
    /\ window' = {} /\ seen' = {} /\ attempt' = 0 /\ NoLocals
    /\ waiter' = "Idle" /\ edu' = "Idle" /\ judged' = {}
    /\ UNCHANGED <<marked, room, sends, reconciled, told, joins>>

Task ==
    \/ resync_loop \/ fetch_state \/ should_give_up \/ reauth_window \/ reauth_fails
    \/ install_current_state \/ install_refused \/ reconcile_membership
    \/ replay_device_updates \/ drain \/ send_pending \/ clear_partial_markers
    \/ notify_resolved \/ take_deferred_device_updates \/ resync_returns
    \/ leave_abandoned_room \/ abandon_send \/ abandon_clear
    \/ abandon_notify

Append ==
    \/ append_insert \/ append_send \/ append_record \/ join_append \/ join_fails
    \/ signal_resync

Next ==
    \/ \E e \in Local \cup Remote : append_begin(e)
    \/ \E j \in Joins : register_partial(j)
    \/ judge_event \/ Append \/ start_resync \/ Task \/ await_full_state
    \/ defer_device_update \/ Crash

Spec == Init /\ [][Next]_vars

\* Tasks that are spawned run; a client that waits is woken and goes on.
Fairness ==
    /\ WF_vars(Append) /\ WF_vars(start_resync) /\ WF_vars(Task)
    /\ WF_vars(await_full_state)
FairSpec == Spec /\ Fairness

-----------------------------------------------------------------------------
Steps == {"None", "Join", "Insert", "Send", "RecordFew", "RecordAll", "Signal"}
Places == {"Idle", "Loop", "Fetch", "Walk", "Install", "Reconcile", "Replay", "Drain",
           "Send", "Clear", "Notify", "Surface", "Exit", "AbandonLeave",
           "AbandonSend", "AbandonClear", "AbandonNotify"}

\* Every variable keeps its type.
TypeOK ==
    /\ partial \in BOOLEAN /\ marks \subseteq Events /\ rows \subseteq Local
    /\ extremities \subseteq Events /\ log \subseteq Events
    /\ prev \in [Events -> SUBSET Events] /\ current \subseteq Events
    /\ reconciled \in BOOLEAN /\ joined \in BOOLEAN /\ narrow \subseteq Local
    /\ lock \in {"None", "append", "join", "task"}
    /\ adding \in [step : Steps, event : Events \cup {NoEvent}]
    /\ signals \in Nat /\ active \in BOOLEAN /\ pc \in Places
    /\ window \subseteq Events /\ seen \subseteq Events /\ attempt \in 0..ReauthAttempts
    /\ installed \in [is : BOOLEAN, at : SUBSET Events]
    /\ replayed \in BOOLEAN /\ found \in BOOLEAN /\ failing \in BOOLEAN
    /\ before \in {"None", "Few", "All"}
    /\ waiter \in {"Idle", "Armed", "Waiting"}
    /\ edu \in {"Idle", "Asked", "Checked", "Deferred", "Late", "Dropped"}
    /\ judged \subseteq Remote
    /\ unverified \subseteq Events /\ late \subseteq Remote /\ full \in BOOLEAN
    /\ told \in BOOLEAN /\ joins \subseteq Joins
    /\ fails \in Nat /\ crashes \in Nat

Resolved == joined /\ ~partial

\* state_partial/mod.rs: "the room's markers may not be dropped while any remain". In a
\* room we are in whose markers are gone, the current state was built from the full
\* state and every event accepted on partial state has been re-authorised against it. The
\* one exception is a received event that was judged before the markers went and waited for
\* the state lock until they had gone: nothing marks it, and no install looks at it again.
MarkersGuardState == Resolved => full /\ unverified \subseteq late

\* An install does not overwrite what was appended meanwhile: the current state
\* reflects every event of the timeline. (A crash may lose the event that had taken the
\* place of others among the extremities, and those are then out of reach.)
NothingOverwritten == crashes = 0 => log \subseteq current

\* Once the room is resolved, the servers that only the resync revealed have been sent
\* every event recorded as sent to fewer, and our device lists unless a crash lost the
\* list of servers known before. (A crash or an error between sending an event and
\* recording it leaves it unrecorded.)
NewServersServed == Resolved => narrow = {} /\ (crashes = 0 => told)

\* A device-list update of a member that the resync reveals, deferred before the task took
\* the deferred ones, is shown to clients by the time the task returns, never dropped; also
\* when a task before it was lost to a crash, with the updates deferred until then. (One
\* deferred after that, on a look at the rooms made before, is not taken: "Late".)
DeferredSurfaces == Resolved /\ ~active => edu \notin {"Deferred", "Dropped"}

\* An event that is marked and can be reached from no extremity, or extremities of
\* which none is held, keep every install from succeeding.
Blocked ==
    /\ partial
    /\ extremities \cap Window = {} \/ \E m \in marks : ~Covered(m, Window)

\* A client in await_full_state returns once the room is resolved or abandoned, and
\* that happens, unless events out of reach keep the resync from ever finishing, or a
\* failed join or an unreadable marker left a room partial that no task works on.
Orphaned == partial /\ ~active /\ signals = 0
WaiterReleased ==
    <>[]Blocked \/ <>[]Orphaned \/ (waiter = "Waiting" ~> waiter = "Idle")
=============================================================================
