------------------------ MODULE DelayedEventsProofs ------------------------
(***************************************************************************)
(* Proofs about DelayedEvents, for any set of events and requests, any     *)
(* delay, any number of crashes and any bound on the clock.                *)
(*                                                                         *)
(* The set of scheduled ids is a token for each event: whoever takes the   *)
(* id out owns the event until it is finalised or the id is put back. The  *)
(* inductive invariant says that an event which is not stale has at most   *)
(* one owner, none while its id is in the set, and that the number of its  *)
(* sends, its record and the answers given agree with where its owner      *)
(* stands. Before it come the types, where the processes may stand, and    *)
(* that a row stays until there is a record.                               *)
(***************************************************************************)
EXTENDS DelayedEvents, TLAPS

\* What a process does where it stands: a request is not where only the worker goes nor the
\* other way round, who sends was asked to send, and a row is removed after its record.
ProcsOK ==
    /\ at[Worker] \notin {"Idle", "Check", "Put", "Cancel"} /\ action[Worker] = "Send"
    /\ \A r \in Requests : at[r] \notin {"Boot", "Extend", "Loop"}
    /\ \A p \in Procs :
         /\ at[p] \in {"Append", "Sent"} => action[p] = "Send"
         /\ at[p] \in {"Claim", "Remove"} => action[p] \in {"Send", "Cancel"}
         /\ at[p] = "Cancel" => action[p] = "Cancel"
         /\ at[p] = "Remove" => finalized[on[p]] # "None"

\* An event that was ever created has its row or its record.
RowsOK == \A e \in Events : creating[e] # "None" => e \in scheduled \/ finalized[e] # "None"

-----------------------------------------------------------------------------
(* Types *)

\* A row's timer is an entry of the worker's queue.
LEMMA TimerType ==
    ASSUME TypeOK, NEW e \in Events, NEW source \in {"Load", "Channel"}
    PROVE  Timer(e, source) \in Timers
<1>1. SubmissionTime(e) \in Times
    BY DelayedAssumption DEF TypeOK, SubmissionTime, Times
<1> QED BY <1>1 DEF Timer, Timers

\* The initial state has the types.
LEMMA InitType == Init => TypeOK
BY DelayedAssumption DEF Init, TypeOK, Procs, Outcomes, Owning

Places == {"Idle", "Boot", "Extend", "Loop", "Check", "Claim", "Put"} \cup Owning
Resting == {"Idle", "Boot", "Extend", "Loop"}
\* The part of the type invariant about the processes.
ProcTypes ==
    /\ at \in [Procs -> Places] /\ on \in [Procs -> Events \cup {NoEvent}]
    /\ action \in [Procs -> {"Send", "Cancel", "Restart"}]
    /\ \A p \in Procs : (on[p] # NoEvent) <=> (at[p] \notin Resting)
\* and the rest of it.
DataTypes ==
    /\ scheduled \subseteq Events /\ since \in [Events -> 0..TimeMax]
    /\ finalized \in [Events -> Outcomes]
    /\ held \subseteq Events /\ loaded \subseteq Events
    /\ channel \subseteq Timers /\ queue \subseteq Timers
    /\ creating \in [Events -> {"None", "Put", "Done", "Lost"}]
    /\ now \in 0..TimeMax /\ crashes \in 0..CrashMax
    /\ sends \in [Events -> 0..2]
    /\ told \in [Events -> Outcomes]
    /\ left \subseteq Events /\ stale \subseteq Events

\* Together they are the type invariant.
LEMMA TypeParts == TypeOK <=> ProcTypes /\ DataTypes
BY DEF TypeOK, ProcTypes, DataTypes, Places, Resting

\* A process that moves on with its event keeps the types.
LEMMA GotoType ==
    ASSUME ProcTypes, NEW p \in Procs, NEW place \in Places \ Resting,
           at[p] \notin Resting, Goto(p, place)
    PROVE  ProcTypes'
BY DEF ProcTypes, Goto

\* So does one that is through,
LEMMA FinishType ==
    ASSUME ProcTypes, NEW p \in Procs, Finish(p)
    PROVE  ProcTypes'
BY DelayedAssumption DEF ProcTypes, Finish, Places, Resting, Owning

\* and one that begins.
LEMMA BeginType ==
    ASSUME ProcTypes, NEW r \in Requests, NEW e \in Events,
           NEW an_action \in {"Send", "Cancel", "Restart"}, NEW place \in Places \ Resting,
           Begin(r, e, an_action, place)
    PROVE  ProcTypes'
BY DelayedAssumption DEF ProcTypes, Begin, Procs

\* A process that has left its resting places has an event.
LEMMA OnType ==
    ASSUME ProcTypes, NEW p \in Procs, at[p] \notin Resting
    PROVE  on[p] \in Events
BY DEF ProcTypes
-----------------------------------------------------------------------------
(* Every step keeps the types. *)

\* Worker and requests are processes, and the places of the actions are places.
LEMMA PlaceFacts ==
    /\ Worker \in Procs /\ Requests \subseteq Procs
    /\ {"Check", "Claim", "Put", "Append", "Sent", "Cancel", "Remove"} \subseteq Places \ Resting
BY DEF Procs, Places, Resting, Owning

\* What a step does to the processes: nothing; or one of them begins, goes on or is through,
\* the worker goes round its loop, or all are lost.
Begins(r) == \E e \in Events : Update(r, e)
GoesOn(p) ==
    \/ finalize_claim(p) \/ append_pdu(p) \/ record_sent(p) \/ record_cancelled(p)
    \/ (p # Worker /\ finalize_taken(p))
    \/ (p = Worker /\ (worker_append_fails \/ worker_fails_late))
Through(p) ==
    \/ finalize_remove(p) \/ (p = Worker /\ finalize_taken(p))
    \/ /\ p \in Requests
       /\ \/ restart_put(p) \/ request_append_fails(p) \/ request_fails_late(p)
          \/ check_matches(p) \/ check_fails(p) \/ request_dropped(p)
Loops == worker_load \/ worker_extend \/ submit_ready
Stands ==
    \/ UNCHANGED vars \/ worker_receive \/ submit_gone \/ submit_later \/ tick
    \/ \E e \in Events : queue_put(e) \/ queue_insert(e) \/ queue_dropped(e)

\* Every step is one of these.
LEMMA StepKinds ==
    ASSUME [Next]_vars
    PROVE  \/ Stands \/ Loops \/ crash
           \/ \E r \in Requests : Begins(r)
           \/ \E p \in Procs : GoesOn(p) \/ Through(p)
<1>1. Worker \in Procs /\ \A r \in Requests : r \in Procs /\ r # Worker
    BY DelayedAssumption DEF Procs
<1> QED BY Zenon, <1>1 DEF Next, WorkerStep, RequestStep, Finalize, Stands, Loops, Begins,
           GoesOn, Through

\* Who stands still keeps its place, its event and the request.
LEMMA StandsStill == Stands => UNCHANGED procs
BY Zenon DEF Stands, vars, queue_put, queue_insert, queue_dropped, worker_receive, submit_gone,
   submit_later, tick

\* Who is through lets go of its event.
LEMMA ThroughFinishes == ASSUME NEW p, Through(p) PROVE Finish(p)
BY Zenon DEF Through, finalize_remove, finalize_taken, restart_put, request_append_fails,
   request_fails_late, Released, check_matches, check_fails, request_dropped

\* Who goes on does so from a place, with its event, to a place.
LEMMA GoesOnTo ==
    ASSUME NEW p \in Procs, GoesOn(p)
    PROVE  /\ at[p] \in {"Claim", "Append", "Sent", "Cancel"}
           /\ \/ Goto(p, IF action[p] = "Send" THEN "Append" ELSE "Cancel") /\ at[p] = "Claim"
              \/ p # Worker /\ Goto(p, "Check")
              \/ Goto(p, "Sent") /\ at[p] = "Append"
              \/ Goto(p, "Remove") /\ at[p] # "Claim" /\ \E o \in {"Send", "Cancel", "Error"} :
                                        finalized' = [finalized EXCEPT ![on[p]] = o]
<1>1. CASE finalize_claim(p) \/ append_pdu(p) \/ (p # Worker /\ finalize_taken(p))
    BY <1>1 DEF finalize_claim, append_pdu, finalize_taken
<1>2. CASE record_sent(p) \/ record_cancelled(p)
    BY <1>2 DEF record_sent, record_cancelled, Record
<1>3. CASE p = Worker /\ (worker_append_fails \/ worker_fails_late)
    BY <1>3 DEF worker_append_fails, worker_fails_late, Recorded
<1> QED BY Zenon, <1>1, <1>2, <1>3 DEF GoesOn

\* The types of the processes are kept,
LEMMA ProcTypeStep == ProcTypes /\ DataTypes /\ [Next]_vars => ProcTypes'
<1> SUFFICES ASSUME ProcTypes, DataTypes, [Next]_vars
             PROVE  ProcTypes'
    OBVIOUS
<1>1. CASE Stands
    BY Zenon, <1>1, StandsStill DEF ProcTypes, procs
<1>2. ASSUME NEW r \in Requests, Begins(r)
      PROVE  ProcTypes'
    BY <1>2, BeginType, PlaceFacts DEF Begins, Update, update_finalized, update_finalize,
       update_restart
<1>3. ASSUME NEW p \in Procs, GoesOn(p)
      PROVE  ProcTypes'
    BY <1>3, GoesOnTo, GotoType, PlaceFacts DEF Resting
<1>4. ASSUME NEW p \in Procs, Through(p)
      PROVE  ProcTypes'
    BY Zenon, <1>4, ThroughFinishes, FinishType
<1>5. CASE Loops
    BY <1>5, PlaceFacts, DelayedAssumption DEF Loops, worker_load, worker_extend, submit_ready,
       Goto, ProcTypes, DataTypes, Timers, Places, Resting
<1>6. CASE crash
    BY <1>6, DelayedAssumption DEF crash, ProcTypes, Places, Resting
<1> QED BY Zenon, <1>1, <1>2, <1>3, <1>4, <1>5, <1>6, StepKinds

\* and those of the rest.
LEMMA DataTypeStep == ProcTypes /\ DataTypes /\ ProcsOK /\ [Next]_vars => DataTypes'
<1> SUFFICES ASSUME ProcTypes, DataTypes, ProcsOK, [Next]_vars
             PROVE  DataTypes'
    OBVIOUS
<1>1. ASSUME NEW p \in Procs,
             at[p] \in {"Claim", "Append", "Sent", "Cancel", "Remove", "Put", "Check"}
      PROVE  on[p] \in Events
    BY <1>1, OnType DEF Resting
<1>2. CASE Stands
  <2>1. CASE UNCHANGED vars
      BY Zenon, <2>1 DEF vars, tables, memory, history, DataTypes
  <2>2. CASE \E e \in Events : queue_put(e) \/ queue_dropped(e)
      BY <2>2, DelayedAssumption DEF queue_put, queue_dropped, DataTypes, tables, memory, history
  <2>3. CASE \E e \in Events : queue_insert(e)
      BY <2>3, TimerType, TypeParts DEF queue_insert, DataTypes, tables, history
  <2>4. CASE worker_receive \/ submit_gone
      BY <2>4 DEF worker_receive, submit_gone, DataTypes, tables, history
  <2>5. CASE submit_later
    <3>1. \A t \in queue : Timer(t.id, t.from) \in Timers
        BY TimerType, TypeParts DEF DataTypes, Timers
    <3> QED BY <2>5, <3>1 DEF submit_later, DataTypes, tables, history
  <2>6. CASE tick
      BY <2>6, DelayedAssumption DEF tick, DataTypes, tables, memory, history
  <2> QED BY Zenon, <1>2, <2>1, <2>2, <2>3, <2>4, <2>5, <2>6 DEF Stands
<1>3. ASSUME NEW r \in Requests, Begins(r)
      PROVE  DataTypes'
    BY Zenon, <1>3 DEF Begins, Update, update_finalized, update_finalize, update_restart, Begin,
       tables, memory, history, DataTypes
<1>4. ASSUME NEW p \in Procs, GoesOn(p)
      PROVE  DataTypes'
  <2>1. CASE finalize_claim(p) \/ finalize_taken(p)
      BY <1>1, <1>4, <2>1 DEF finalize_claim, finalize_taken, DataTypes, tables, memory, history
  <2>2. CASE append_pdu(p)
      BY <1>1, <1>4, <2>2 DEF append_pdu, DataTypes, tables, memory, history
  <2>3. CASE record_sent(p) \/ record_cancelled(p)
      BY <1>1, <1>4, <2>3 DEF record_sent, record_cancelled, Record, DataTypes, memory, history,
         Outcomes
  <2>4. CASE p = Worker /\ (worker_append_fails \/ worker_fails_late)
      BY <1>1, <1>4, <2>4 DEF worker_append_fails, worker_fails_late, Recorded, DataTypes,
         memory, Outcomes
  <2> QED BY Zenon, <1>4, <2>1, <2>2, <2>3, <2>4 DEF GoesOn
<1>5. ASSUME NEW p \in Procs, Through(p)
      PROVE  DataTypes'
  <2>1. CASE finalize_remove(p)
      BY <1>1, <1>5, <2>1, DelayedAssumption DEF finalize_remove, TellDone, DataTypes, memory,
         Outcomes, ProcsOK, Procs
  <2>2. CASE finalize_taken(p) \/ check_fails(p)
      BY Zenon, <2>2 DEF finalize_taken, check_fails, DataTypes, tables, memory, history
  <2>3. CASE restart_put(p)
      BY <1>1, <1>5, <2>3, DelayedAssumption DEF restart_put, DataTypes, memory
  <2>4. CASE request_append_fails(p) \/ request_fails_late(p) \/ request_dropped(p)
      BY <1>1, <1>5, <2>4 DEF request_append_fails, request_fails_late, Released,
         request_dropped, DataTypes, tables, memory
  <2>5. CASE check_matches(p)
      BY <1>1, <1>5, <2>5 DEF check_matches, TellDone, DataTypes, tables, memory, Outcomes,
         ProcTypes
  <2> QED BY Zenon, <1>5, <2>1, <2>2, <2>3, <2>4, <2>5 DEF Through
<1>6. CASE worker_load
    BY <1>6, TimerType, TypeParts DEF worker_load, DataTypes, tables, history
<1>7. CASE worker_extend \/ submit_ready
    BY <1>7 DEF worker_extend, submit_ready, DataTypes, tables, history
<1>8. CASE crash
    BY <1>8, DelayedAssumption DEF crash, DataTypes, tables
<1> QED BY Zenon, <1>2, <1>3, <1>4, <1>5, <1>6, <1>7, <1>8, StepKinds DEF Loops

-----------------------------------------------------------------------------
(* The processes and the rows *)

\* A record is never taken back.
RecordsStay == \A e \in Events : finalized[e] # "None" => finalized'[e] # "None"

\* No step does.
LEMMA KeepsRecords == ProcTypes /\ DataTypes /\ [Next]_vars => RecordsStay
<1> SUFFICES ASSUME ProcTypes, DataTypes, [Next]_vars
             PROVE  RecordsStay
    OBVIOUS
<1>1. CASE UNCHANGED finalized
    BY Zenon, <1>1 DEF RecordsStay
<1>2. ASSUME NEW p \in Procs, GoesOn(p)
      PROVE  RecordsStay
  <2>1. CASE \E o \in {"Send", "Cancel", "Error"} : finalized' = [finalized EXCEPT ![on[p]] = o]
      BY <2>1 DEF RecordsStay, DataTypes
  <2> QED BY Zenon, <1>1, <1>2, <2>1, GoesOnTo DEF GoesOn, finalize_claim, finalize_taken,
             append_pdu, record_sent, record_cancelled, Record, worker_append_fails,
             worker_fails_late, Recorded, tables
<1> QED BY Zenon, <1>1, <1>2, StepKinds DEF Stands, Loops, Begins, Through, vars, queue_put,
           queue_insert, queue_dropped, worker_receive, submit_gone, submit_later, tick,
           worker_load, worker_extend, submit_ready, crash, Update, update_finalized,
           update_finalize, update_restart, Begin, finalize_remove, finalize_taken, restart_put,
           request_append_fails, request_fails_late, Released, check_matches, check_fails,
           request_dropped, tables

\* Every step keeps the processes where they may stand,
LEMMA ProcStep == ProcTypes /\ DataTypes /\ ProcsOK /\ [Next]_vars => ProcsOK'
<1> SUFFICES ASSUME ProcTypes, DataTypes, ProcsOK, [Next]_vars
             PROVE  ProcsOK'
    OBVIOUS
<1> RecordsStay
    BY Zenon, KeepsRecords
<1>0. \A p \in Procs : at[p] = "Remove" => on[p] \in Events
    BY OnType DEF Resting
<1>1. CASE Stands
    BY <1>0, <1>1, StandsStill DEF ProcsOK, RecordsStay, procs
<1>2. ASSUME NEW r \in Requests, Begins(r)
      PROVE  ProcsOK'
    BY <1>0, <1>2, DelayedAssumption DEF Begins, Update, update_finalized, update_finalize,
       update_restart, Begin, ProcsOK, ProcTypes, Procs, RecordsStay
<1>3. ASSUME NEW p \in Procs, GoesOn(p)
      PROVE  ProcsOK'
  <2>1. PICK place \in {"Append", "Cancel", "Check", "Sent", "Remove"} :
            /\ Goto(p, place) /\ (p = Worker => place \notin {"Check", "Cancel"})
            /\ place \in {"Append", "Sent"} => action[p] = "Send"
            /\ place = "Cancel" => action[p] = "Cancel"
            /\ place = "Remove" => action[p] \in {"Send", "Cancel"} /\ finalized'[on[p]] # "None"
      BY <1>3, GoesOnTo, OnType DEF ProcsOK, Resting, DataTypes
  <2> QED BY <1>0, <2>1, DelayedAssumption DEF Goto, ProcsOK, ProcTypes, Procs, RecordsStay
<1>4. ASSUME NEW p \in Procs, Through(p)
      PROVE  ProcsOK'
  <2>1. Finish(p)
      BY Zenon, <1>4, ThroughFinishes
  <2> QED BY <1>0, <2>1, DelayedAssumption DEF Finish, ProcsOK, ProcTypes, Procs, RecordsStay
<1>5. CASE Loops
    BY <1>0, <1>5, DelayedAssumption DEF Loops, worker_load, worker_extend, submit_ready, Goto,
       ProcsOK, ProcTypes, Procs, RecordsStay
<1>6. CASE crash
    BY <1>6, DelayedAssumption DEF crash, ProcsOK, Procs
<1> QED BY Zenon, <1>1, <1>2, <1>3, <1>4, <1>5, <1>6, StepKinds

\* and the rows until there is a record.
LEMMA RowStep == ProcTypes /\ DataTypes /\ ProcsOK /\ RowsOK /\ [Next]_vars => RowsOK'
<1> SUFFICES ASSUME ProcTypes, DataTypes, ProcsOK, RowsOK, [Next]_vars,
                    NEW e \in Events, creating'[e] # "None"
             PROVE  e \in scheduled' \/ finalized'[e] # "None"
    BY DEF RowsOK
<1>1. finalized[e] # "None" => finalized'[e] # "None"
    BY Zenon, KeepsRecords DEF RecordsStay
<1>2. ASSUME NEW p \in Procs, finalize_remove(p), on[p] = e
      PROVE  finalized'[e] # "None"
    BY <1>1, <1>2 DEF finalize_remove, ProcsOK
<1>3. e \in scheduled => e \in scheduled' \/ \E p \in Procs : finalize_remove(p) /\ on[p] = e
  <2>1. CASE \E p \in Procs : finalize_remove(p)
      BY Zenon, <2>1 DEF finalize_remove
  <2>2. CASE (\E f \in Events : queue_put(f)) \/ \E r \in Requests : restart_put(r)
      BY <2>2 DEF queue_put, restart_put
  <2> QED BY Zenon, <2>1, <2>2, StepKinds DEF Stands, Loops, Begins, GoesOn, Through, vars,
             queue_insert, queue_dropped, worker_receive, submit_gone, submit_later, tick,
             worker_load, worker_extend, submit_ready, crash, Update, update_finalized,
             update_finalize, update_restart, Begin, finalize_claim, finalize_taken, append_pdu,
             record_sent, record_cancelled, Record, worker_append_fails, worker_fails_late,
             Recorded, request_append_fails, request_fails_late, Released, check_matches,
             check_fails, request_dropped, tables
<1>4. creating[e] # "None" \/ e \in scheduled'
  <2>1. CASE \E f \in Events : queue_put(f) \/ queue_insert(f) \/ queue_dropped(f)
      BY <2>1 DEF queue_put, queue_insert, queue_dropped, DataTypes
  <2>2. CASE crash
      BY <2>2 DEF crash, DataTypes
  <2> QED BY Zenon, <2>1, <2>2, StepKinds DEF Stands, Loops, Begins, GoesOn, Through, vars,
             worker_receive, submit_gone, submit_later, tick, worker_load, worker_extend,
             submit_ready, Update, update_finalized, update_finalize, update_restart, Begin,
             finalize_claim, finalize_taken, append_pdu, record_sent, record_cancelled, Record,
             worker_append_fails, worker_fails_late, Recorded, finalize_remove, restart_put,
             request_append_fails, request_fails_late, Released, check_matches, check_fails,
             request_dropped
<1> QED BY <1>1, <1>2, <1>3, <1>4 DEF RowsOK

-----------------------------------------------------------------------------
(* Tokens *)

Owns(p, e) == on[p] = e /\ at[p] \in Owning

\* One owner, none while the id is in the set, and what is known of an event that has either.
Token(e) ==
    /\ \A p, q \in Procs : Owns(p, e) /\ Owns(q, e) => p = q
    /\ \A p \in Procs : Owns(p, e) => e \notin held
    /\ e \in held => finalized[e] = "None" /\ sends[e] = 0
    /\ \A p \in Procs : on[p] = e =>
         /\ at[p] \in {"Append", "Cancel"} => finalized[e] = "None" /\ sends[e] = 0
         /\ at[p] = "Sent" => finalized[e] = "None" /\ sends[e] = 1
         /\ at[p] = "Remove" /\ p \in Requests => finalized[e] = action[p]

\* The record, the sends and the answers agree.
Agree(e) ==
    /\ sends[e] <= 1
    /\ finalized[e] = "Send" => sends[e] = 1
    /\ finalized[e] \in {"Cancel", "Error"} => sends[e] = 0
    /\ told[e] # "None" => finalized[e] = told[e]

TokensOK == \A e \in Events \ stale : Token(e) /\ Agree(e)

IInv == TypeOK /\ ProcsOK /\ RowsOK /\ TokensOK

-----------------------------------------------------------------------------
(* The initial state *)

\* Initially there is no owner, no row and no record.
LEMMA InitInv == Init => IInv
<1> SUFFICES ASSUME Init PROVE IInv
    OBVIOUS
<1>1. TypeOK
    BY InitType
<1>2. ProcsOK /\ RowsOK
    BY DelayedAssumption DEF Init, ProcsOK, RowsOK, Procs
<1>3. TokensOK
    BY DelayedAssumption DEF Init, TokensOK, Token, Agree, Owns, Owning, Procs
<1> QED BY <1>1, <1>2, <1>3 DEF IInv

-----------------------------------------------------------------------------
(* The token *)

\* What leaves the set, the records, the sends, the answers and every owner alone.
Quiet ==
    /\ UNCHANGED <<held, finalized, sends, told>>
    /\ \A p \in Procs : at[p] \in Owning \/ at'[p] \in Owning =>
         at'[p] = at[p] /\ on'[p] = on[p] /\ action'[p] = action[p]

\* It keeps the discipline.
LEMMA QuietKeeps ==
    ASSUME NEW f \in Events, Token(f), Agree(f), Quiet
    PROVE  Token(f)' /\ Agree(f)'
<1>1. Token(f)'
    BY DEF Token, Owns, Owning, Quiet
<1>2. Agree(f)'
    BY DEF Agree, Quiet
<1> QED BY Zenon, <1>1, <1>2

\* A process that is through, and changes neither the set nor the record, leaves no more than
\* an event without an owner.
LEMMA FinishKeeps ==
    ASSUME ProcTypes, NEW f \in Events, Token(f), NEW p \in Procs, Finish(p),
           UNCHANGED <<held, finalized, sends>>
    PROVE  Token(f)'
<1>1. at'[p] \notin Owning
    BY DEF ProcTypes, Finish, Owning
<1>2. \A q \in Procs : q # p => at'[q] = at[q] /\ on'[q] = on[q] /\ action'[q] = action[q]
    BY DEF ProcTypes, Finish
<1> QED BY <1>1, <1>2 DEF Token, Owns, Owning

\* Only one process moves, and it keeps its event or lets go of it.
Moves(p) ==
    /\ \A q \in Procs : q # p => at'[q] = at[q] /\ on'[q] = on[q] /\ action'[q] = action[q]
    /\ on'[p] \in {on[p], NoEvent}

\* So it is when a process goes on with its event,
LEMMA GotoMoves ==
    ASSUME ProcTypes, NEW p \in Procs, NEW place, Goto(p, place)
    PROVE  Moves(p) /\ at'[p] = place /\ UNCHANGED <<on, action>>
BY DEF ProcTypes, Goto, Moves

\* or is through with it.
LEMMA FinishMoves ==
    ASSUME ProcTypes, NEW p \in Procs, Finish(p)
    PROVE  Moves(p) /\ at'[p] \notin Owning
BY DEF ProcTypes, Finish, Moves, Owning

\* The step of a process keeps the discipline of the events of the others,
LEMMA OtherEvent ==
    ASSUME NEW f \in Events, Token(f), Agree(f), NEW p \in Procs, on[p] # f, Moves(p),
           f \in held' <=> f \in held, finalized'[f] = finalized[f], sends'[f] = sends[f],
           told'[f] = told[f]
    PROVE  Token(f)' /\ Agree(f)'
<1>1. on'[p] # f
    BY DelayedAssumption DEF Moves
<1>2. Token(f)'
    BY <1>1 DEF Token, Owns, Moves
<1>3. Agree(f)'
    BY DEF Agree
<1> QED BY Zenon, <1>2, <1>3

\* What the token says of one process.
TokenOf(p, e) ==
    /\ at[p] \in Owning => e \notin held
    /\ e \in held => finalized[e] = "None" /\ sends[e] = 0
    /\ at[p] \in {"Append", "Cancel"} => finalized[e] = "None" /\ sends[e] = 0
    /\ at[p] = "Sent" => finalized[e] = "None" /\ sends[e] = 1
    /\ at[p] = "Remove" /\ p \in Requests => finalized[e] = action[p]

\* and that of its own when what is said of it holds after the step: whoever owns the event,
\* or finds its id in the set, has no competitor.
LEMMA OwnEvent ==
    ASSUME NEW f \in Events, Token(f), NEW p \in Procs, on[p] = f, Moves(p),
           at[p] \in Owning \/ f \in held, TokenOf(p, f)'
    PROVE  Token(f)'
<1>1. \A q \in Procs : q # p => ~Owns(q, f) /\ ~Owns(q, f)'
    BY DEF Token, Owns, Moves
<1>2. /\ \A q1, q2 \in Procs : Owns(q1, f)' /\ Owns(q2, f)' => q1 = q2
      /\ \A q \in Procs : Owns(q, f)' => f \notin held'
    BY <1>1 DEF Owns, TokenOf
<1>3. f \in held' => finalized'[f] = "None" /\ sends'[f] = 0
    BY DEF TokenOf
<1>4. \A q \in Procs : on'[q] = f /\ q # p => at'[q] \notin Owning
    BY <1>1 DEF Owns
<1> QED BY <1>2, <1>3, <1>4 DEF Token, TokenOf, Owning

\* finalize_delayed_event keeps the discipline when it takes the id out of the set,
LEMMA ClaimKeeps ==
    ASSUME ProcTypes, DataTypes, ProcsOK, TokensOK, NEW f \in Events, f \notin stale',
           NEW p \in Procs, finalize_claim(p)
    PROVE  Token(f)' /\ Agree(f)'
<1>0. f \notin stale => Token(f) /\ Agree(f)
    BY DEF TokensOK
<1>a. /\ held \subseteq Events /\ finalized \in [Events -> Outcomes]
      /\ sends \in [Events -> 0..2] /\ told \in [Events -> Outcomes]
    BY DEF DataTypes
<1>1. /\ f \notin stale /\ Moves(p) /\ UNCHANGED action
      /\ at'[p] = (IF action[p] = "Send" THEN "Append" ELSE "Cancel")
    BY GotoMoves DEF finalize_claim, history
<1>2. CASE on[p] # f
    BY <1>0, <1>a, <1>1, <1>2, OtherEvent DEF finalize_claim, tables, history
<1>3. CASE on[p] = f
  <2>1. /\ f \in held /\ finalized[f] = "None" /\ sends[f] = 0
        /\ f \notin held' /\ finalized' = finalized /\ sends' = sends /\ told' = told
      BY <1>0, <1>a, <1>1, <1>3 DEF finalize_claim, tables, history, Token, ProcsOK
  <2>2. TokenOf(p, f)'
      BY <1>1, <2>1 DEF TokenOf, Owning
  <2>3. Agree(f)'
      BY <1>0, <1>1, <2>1 DEF Agree
  <2>4. Token(f)'
      BY Zenon, <1>0, <1>1, <1>3, <2>1, <2>2, OwnEvent DEF Owning
  <2> QED BY Zenon, <2>3, <2>4
<1> QED BY Zenon, <1>2, <1>3

\* when it appends the event to the room,
LEMMA AppendKeeps ==
    ASSUME ProcTypes, DataTypes, ProcsOK, TokensOK, NEW f \in Events, f \notin stale',
           NEW p \in Procs, append_pdu(p)
    PROVE  Token(f)' /\ Agree(f)'
<1>0. f \notin stale => Token(f) /\ Agree(f)
    BY DEF TokensOK
<1>a. /\ held \subseteq Events /\ finalized \in [Events -> Outcomes]
      /\ sends \in [Events -> 0..2] /\ told \in [Events -> Outcomes]
    BY DEF DataTypes
<1>1. f \notin stale /\ Moves(p) /\ at'[p] = "Sent" /\ UNCHANGED action
    BY GotoMoves DEF append_pdu, history
<1>2. CASE on[p] # f
    BY <1>0, <1>a, <1>1, <1>2, OtherEvent DEF append_pdu, tables, memory, Owns,
          Owning
<1>3. CASE on[p] = f
  <2>1. /\ at[p] = "Append" /\ f \notin held' /\ finalized' = finalized /\ told' = told
        /\ finalized[f] = "None" /\ sends'[f] = 1
      BY <1>0, <1>a, <1>1, <1>3 DEF append_pdu, tables, memory, Owns, Owning,
            Token, ProcsOK
  <2>2. TokenOf(p, f)'
      BY <1>1, <2>1 DEF TokenOf, Owning
  <2>3. Agree(f)'
      BY <1>0, <1>1, <2>1 DEF Agree
  <2>4. Token(f)'
      BY Zenon, <1>0, <1>1, <1>3, <2>1, <2>2, OwnEvent DEF Owning
  <2> QED BY Zenon, <2>3, <2>4
<1> QED BY Zenon, <1>2, <1>3

\* when it records that the event was sent,
LEMMA SentKeeps ==
    ASSUME ProcTypes, DataTypes, ProcsOK, TokensOK, NEW f \in Events, f \notin stale',
           NEW p \in Procs, record_sent(p)
    PROVE  Token(f)' /\ Agree(f)'
<1>0. f \notin stale => Token(f) /\ Agree(f)
    BY DEF TokensOK
<1>a. /\ held \subseteq Events /\ finalized \in [Events -> Outcomes]
      /\ sends \in [Events -> 0..2] /\ told \in [Events -> Outcomes]
    BY DEF DataTypes
<1>1. f \notin stale /\ Moves(p) /\ at'[p] = "Remove" /\ UNCHANGED action
    BY GotoMoves DEF record_sent, Record, history
<1>2. CASE on[p] # f
    BY <1>0, <1>a, <1>1, <1>2, OtherEvent DEF record_sent, Record, memory,
          history, Owns, Owning
<1>3. CASE on[p] = f
  <2>1. /\ at[p] = "Sent" /\ f \notin held' /\ finalized[f] = "None" /\ sends[f] = 1
        /\ action[p] = "Send" /\ finalized'[f] = "Send" /\ sends' = sends /\ told' = told
      BY <1>0, <1>a, <1>1, <1>3 DEF record_sent, Record, memory, history, Owns,
            Owning, Token, ProcsOK
  <2>2. TokenOf(p, f)'
      BY <1>1, <2>1 DEF TokenOf, Owning
  <2>3. Agree(f)'
      BY <1>0, <1>1, <2>1 DEF Agree
  <2>4. Token(f)'
      BY Zenon, <1>0, <1>1, <1>3, <2>1, <2>2, OwnEvent DEF Owning
  <2> QED BY Zenon, <2>3, <2>4
<1> QED BY Zenon, <1>2, <1>3

\* and when it records that it was cancelled.
LEMMA CancelKeeps ==
    ASSUME ProcTypes, DataTypes, ProcsOK, TokensOK, NEW f \in Events, f \notin stale',
           NEW p \in Procs, record_cancelled(p)
    PROVE  Token(f)' /\ Agree(f)'
<1>0. f \notin stale => Token(f) /\ Agree(f)
    BY DEF TokensOK
<1>a. /\ held \subseteq Events /\ finalized \in [Events -> Outcomes]
      /\ sends \in [Events -> 0..2] /\ told \in [Events -> Outcomes]
    BY DEF DataTypes
<1>1. f \notin stale /\ Moves(p) /\ at'[p] = "Remove" /\ UNCHANGED action
    BY GotoMoves DEF record_cancelled, Record, history
<1>2. CASE on[p] # f
    BY <1>0, <1>a, <1>1, <1>2, OtherEvent DEF record_cancelled, Record, memory,
          history, Owns, Owning
<1>3. CASE on[p] = f
  <2>1. /\ at[p] = "Cancel" /\ f \notin held' /\ finalized[f] = "None" /\ sends[f] = 0
        /\ action[p] = "Cancel" /\ finalized'[f] = "Cancel" /\ sends' = sends /\ told' = told
      BY <1>0, <1>a, <1>1, <1>3 DEF record_cancelled, Record, memory, history,
            Owns, Owning, Token, ProcsOK
  <2>2. TokenOf(p, f)'
      BY <1>1, <2>1 DEF TokenOf, Owning
  <2>3. Agree(f)'
      BY <1>0, <1>1, <2>1 DEF Agree
  <2>4. Token(f)'
      BY Zenon, <1>0, <1>1, <1>3, <2>1, <2>2, OwnEvent DEF Owning
  <2> QED BY Zenon, <2>3, <2>4
<1> QED BY Zenon, <1>2, <1>3

\* A request whose append fails puts the id back: nobody owns the event any more;
LEMMA FailKeeps ==
    ASSUME ProcTypes, DataTypes, ProcsOK, TokensOK, NEW f \in Events, f \notin stale',
           NEW r \in Requests, request_append_fails(r)
    PROVE  Token(f)' /\ Agree(f)'
<1> Worker \in Procs /\ Requests \subseteq Procs
    BY PlaceFacts
<1>0. f \notin stale => Token(f) /\ Agree(f)
    BY DEF TokensOK
<1>a. /\ held \subseteq Events /\ finalized \in [Events -> Outcomes]
      /\ sends \in [Events -> 0..2] /\ told \in [Events -> Outcomes]
    BY DEF DataTypes
<1>1. f \notin stale /\ Moves(r) /\ at'[r] \notin Owning
    BY FinishMoves DEF request_append_fails, Released, history
<1>2. CASE on[r] # f
    BY <1>0, <1>a, <1>1, <1>2, OtherEvent DEF request_append_fails, Released,
          tables
<1>3. CASE on[r] = f
  <2>1. /\ at[r] = "Append" /\ finalized' = finalized /\ sends' = sends /\ told' = told
        /\ finalized[f] = "None" /\ sends[f] = 0
      BY <1>0, <1>a, <1>1, <1>3 DEF request_append_fails, Released, tables,
            Token, ProcsOK
  <2>2. TokenOf(r, f)'
      BY <1>1, <2>1 DEF TokenOf, Owning
  <2>3. Agree(f)'
      BY <1>0, <1>1, <2>1 DEF Agree
  <2>4. Token(f)'
      BY Zenon, <1>0, <1>1, <1>3, <2>1, <2>2, OwnEvent DEF Owning
  <2> QED BY Zenon, <2>3, <2>4
<1> QED BY Zenon, <1>2, <1>3

\* the worker records the error and goes on with the event as its owner.
LEMMA ErrorKeeps ==
    ASSUME ProcTypes, DataTypes, ProcsOK, TokensOK, NEW f \in Events, f \notin stale',
           worker_append_fails
    PROVE  Token(f)' /\ Agree(f)'
<1> Worker \in Procs /\ Requests \subseteq Procs
    BY PlaceFacts
<1>0. f \notin stale => Token(f) /\ Agree(f)
    BY DEF TokensOK
<1>a. /\ held \subseteq Events /\ finalized \in [Events -> Outcomes]
      /\ sends \in [Events -> 0..2] /\ told \in [Events -> Outcomes]
    BY DEF DataTypes
<1>1. f \notin stale /\ Moves(Worker) /\ at'[Worker] = "Remove" /\ UNCHANGED action
    BY GotoMoves DEF worker_append_fails, Recorded, history
<1>2. CASE on[Worker] # f
    BY <1>0, <1>a, <1>1, <1>2, OtherEvent DEF worker_append_fails, Recorded,
          memory, Owns, Owning
<1>3. CASE on[Worker] = f
  <2>1. /\ at[Worker] = "Append" /\ f \notin held' /\ finalized[f] = "None" /\ sends[f] = 0
        /\ finalized'[f] = "Error" /\ sends' = sends /\ told' = told
      BY <1>0, <1>a, <1>1, <1>3 DEF worker_append_fails, Recorded, memory, Owns,
            Owning, Token, ProcsOK
  <2>2. TokenOf(Worker, f)'
      BY <1>1, <2>1, DelayedAssumption DEF TokenOf, Owning
  <2>3. Agree(f)'
      BY <1>0, <1>1, <2>1 DEF Agree
  <2>4. Token(f)'
      BY Zenon, <1>0, <1>1, <1>3, <2>1, <2>2, OwnEvent DEF Owning
  <2> QED BY Zenon, <2>3, <2>4
<1> QED BY Zenon, <1>2, <1>3

\* An append that fails after the event is in the room makes it stale: what the request does
\* next
LEMMA LateFailKeeps ==
    ASSUME ProcTypes, DataTypes, ProcsOK, TokensOK, NEW f \in Events, f \notin stale',
           NEW r \in Requests, request_fails_late(r)
    PROVE  Token(f)' /\ Agree(f)'
<1> Worker \in Procs /\ Requests \subseteq Procs
    BY PlaceFacts
<1>0. f \notin stale => Token(f) /\ Agree(f)
    BY DEF TokensOK
<1>1. f \notin stale /\ on[r] # f /\ Moves(r)
    BY FinishMoves DEF request_fails_late, Released
<1> QED BY <1>0, <1>1, OtherEvent DEF request_fails_late, Released, tables

\* or the worker does is then of no account, and the other events are not touched.
LEMMA LateErrorKeeps ==
    ASSUME ProcTypes, DataTypes, ProcsOK, TokensOK, NEW f \in Events, f \notin stale',
           worker_fails_late
    PROVE  Token(f)' /\ Agree(f)'
<1> Worker \in Procs /\ Requests \subseteq Procs
    BY PlaceFacts
<1>0. f \notin stale => Token(f) /\ Agree(f)
    BY DEF TokensOK
<1>a. /\ held \subseteq Events /\ finalized \in [Events -> Outcomes]
      /\ sends \in [Events -> 0..2] /\ told \in [Events -> Outcomes]
    BY DEF DataTypes
<1>1. f \notin stale /\ on[Worker] # f /\ Moves(Worker)
    BY GotoMoves DEF worker_fails_late, Recorded
<1> QED BY <1>0, <1>a, <1>1, OtherEvent DEF worker_fails_late, Recorded, memory

\* remove_delayed_event frees the row, and the request tells its own outcome, which is the
\* record's;
LEMMA RemoveKeeps ==
    ASSUME ProcTypes, DataTypes, ProcsOK, TokensOK, NEW f \in Events, f \notin stale',
           NEW p \in Procs, finalize_remove(p)
    PROVE  Token(f)' /\ Agree(f)'
<1>0. f \notin stale => Token(f) /\ Agree(f)
    BY DEF TokensOK
<1>a. /\ held \subseteq Events /\ finalized \in [Events -> Outcomes]
      /\ sends \in [Events -> 0..2] /\ told \in [Events -> Outcomes]
    BY DEF DataTypes
<1>1. f \notin stale /\ UNCHANGED <<held, finalized, sends>>
    BY SMTT(30) DEF finalize_remove, memory
<1>2. Token(f)'
    BY <1>0, <1>1, FinishKeeps DEF finalize_remove
<1>3. p \in Requests /\ on[p] = f => finalized[f] = action[p]
    BY <1>0, <1>1 DEF finalize_remove, Token
<1>4. \/ told' = told
      \/ p \in Requests /\ told' = [told EXCEPT ![on[p]] = action[p]]
    BY DEF finalize_remove, TellDone, Procs
<1>5. Agree(f)'
    BY <1>0, <1>a, <1>1, <1>3, <1>4 DEF Agree
<1> QED BY Zenon, <1>2, <1>5

\* a request that lost the race tells what the record says;
LEMMA CheckKeeps ==
    ASSUME ProcTypes, DataTypes, ProcsOK, TokensOK, NEW f \in Events, f \notin stale',
           NEW r \in Requests, check_matches(r)
    PROVE  Token(f)' /\ Agree(f)'
<1> Worker \in Procs /\ Requests \subseteq Procs
    BY PlaceFacts
<1>0. f \notin stale => Token(f) /\ Agree(f)
    BY DEF TokensOK
<1>a. /\ held \subseteq Events /\ finalized \in [Events -> Outcomes]
      /\ sends \in [Events -> 0..2] /\ told \in [Events -> Outcomes]
    BY DEF DataTypes
<1>1. f \notin stale /\ UNCHANGED <<held, finalized, sends>>
    BY DEF check_matches, tables, memory
<1>2. Token(f)'
    BY <1>0, <1>1, FinishKeeps DEF check_matches
<1>3. told' = told \/ told' = [told EXCEPT ![on[r]] = finalized[on[r]]]
    BY DEF check_matches, TellDone
<1>4. Agree(f)'
    BY <1>0, <1>a, <1>1, <1>3 DEF Agree
<1> QED BY Zenon, <1>2, <1>4

\* a request that is dropped leaves an event without an owner and tells nothing.
LEMMA DropKeeps ==
    ASSUME ProcTypes, DataTypes, ProcsOK, TokensOK, NEW f \in Events, f \notin stale',
           NEW r \in Requests, request_dropped(r)
    PROVE  Token(f)' /\ Agree(f)'
<1> Worker \in Procs /\ Requests \subseteq Procs
    BY PlaceFacts
<1>0. f \notin stale => Token(f) /\ Agree(f)
    BY DEF TokensOK
<1>1. f \notin stale /\ UNCHANGED <<held, finalized, sends, told>>
    BY SMTT(30) DEF request_dropped, tables, memory
<1>2. Token(f)'
    BY <1>0, <1>1, FinishKeeps DEF request_dropped
<1>3. Agree(f)'
    BY <1>0, <1>1 DEF Agree
<1> QED BY Zenon, <1>2, <1>3

\* Every other step that takes no id and none back is quiet, and what was stale stays it.
LEMMA QuietStep ==
    ASSUME ProcTypes,
           \/ Stands /\ ~(\E e \in Events : queue_insert(e))
           \/ worker_load \/ submit_ready
           \/ \E r \in Requests : Begins(r) \/ restart_put(r) \/ check_fails(r)
           \/ \E p \in Procs : finalize_taken(p)
    PROVE  Quiet /\ stale \subseteq stale'
<1> Worker \in Procs /\ Requests \subseteq Procs
    BY PlaceFacts
<1>1. CASE Stands /\ ~(\E e \in Events : queue_insert(e))
  <2>1. UNCHANGED <<held, finalized, sends, told, stale, at, on, action>>
      BY Zenon, <1>1 DEF Stands, vars, queue_put, queue_dropped, worker_receive, submit_gone,
         submit_later, tick, procs, tables, memory, history
  <2> QED BY Zenon, <2>1 DEF Quiet
<1>2. CASE worker_load \/ submit_ready
    BY <1>2 DEF worker_load, submit_ready, Goto, Quiet, Owning, ProcTypes, tables, history
<1>3. ASSUME NEW r \in Requests, Begins(r)
      PROVE  Quiet /\ stale \subseteq stale'
    BY <1>3 DEF Begins, Update, update_finalized, update_finalize, update_restart, Begin, Quiet,
       Owning, ProcTypes, tables, memory, history
<1>4. ASSUME NEW r \in Requests, restart_put(r) \/ check_fails(r)
      PROVE  Quiet /\ stale \subseteq stale'
  <2>1. Finish(r) /\ at[r] \notin Owning
      BY <1>4 DEF restart_put, check_fails, Owning
  <2>2. UNCHANGED <<held, finalized, sends, told>>
      BY Zenon, <1>4 DEF restart_put, check_fails, tables, memory, history
  <2>3. stale \subseteq stale'
      BY <1>4 DEF restart_put, check_fails, history
  <2> QED BY <2>1, <2>2, <2>3 DEF Finish, Quiet, Owning, ProcTypes
<1>5. ASSUME NEW p \in Procs, finalize_taken(p)
      PROVE  Quiet /\ stale \subseteq stale'
    BY <1>5 DEF finalize_taken, Goto, Finish, Quiet, Owning, ProcTypes, tables, memory, history
<1> QED BY Zenon, <1>1, <1>2, <1>3, <1>4, <1>5

\* An id is put into the set only when nobody has the event: when it is new
LEMMA InsertKeeps ==
    ASSUME ProcTypes, DataTypes, ProcsOK, TokensOK, NEW f \in Events, f \notin stale',
           NEW e \in Events, queue_insert(e)
    PROVE  Token(f)' /\ Agree(f)'
<1>0. f \notin stale => Token(f) /\ Agree(f)
    BY DEF TokensOK
<1>a. /\ held \subseteq Events /\ finalized \in [Events -> Outcomes]
      /\ sends \in [Events -> 0..2] /\ told \in [Events -> Outcomes]
    BY DEF DataTypes
<1>1. f \notin stale
    BY DEF queue_insert, history
<1>2. Token(f)'
    BY <1>0, <1>a, <1>1
    DEF queue_insert, procs, Taken, Owned, tables, Token, Owns, Owning, ProcsOK, ProcTypes
<1>3. Agree(f)'
    BY Zenon, <1>0, <1>1 DEF queue_insert, tables, history, Agree
<1> QED BY Zenon, <1>2, <1>3

\* and when the worker starts.
LEMMA ExtendKeeps ==
    ASSUME ProcTypes, DataTypes, ProcsOK, TokensOK, NEW f \in Events, f \notin stale',
           worker_extend
    PROVE  Token(f)' /\ Agree(f)'
<1>0. f \notin stale => Token(f) /\ Agree(f)
    BY DEF TokensOK
<1>a. /\ held \subseteq Events /\ finalized \in [Events -> Outcomes]
      /\ sends \in [Events -> 0..2] /\ told \in [Events -> Outcomes]
    BY DEF DataTypes
<1>1. f \notin stale
    BY DEF worker_extend, history
<1>2. Token(f)'
    BY <1>0, <1>a, <1>1
    DEF worker_extend, Goto, Taken, Owned, tables, Token, Owns, Owning, ProcsOK, ProcTypes
<1>3. Agree(f)'
    BY Zenon, <1>0, <1>1 DEF worker_extend, tables, history, Agree
<1> QED BY Zenon, <1>2, <1>3

\* A crash leaves no owner and an empty set.
LEMMA CrashKeeps ==
    ASSUME TokensOK, NEW f \in Events, f \notin stale', crash
    PROVE  Token(f)' /\ Agree(f)'
<1>1. Agree(f)
    BY Zenon DEF TokensOK, crash, history
<1>2. held' = {} /\ UNCHANGED <<finalized, sends, told>>
    BY Zenon DEF crash, tables, history
<1>3. \A p \in Procs : at'[p] \in {"Boot", "Idle"}
    BY DEF crash
<1>4. Token(f)'
    BY <1>2, <1>3 DEF Token, Owns, Owning
<1>5. Agree(f)'
    BY Zenon, <1>1, <1>2 DEF Agree
<1> QED BY Zenon, <1>4, <1>5

\* An event that is not stale after a step kept to the discipline before it, and keeps to it.
LEMMA TokenStep == IInv /\ [Next]_vars => TokensOK'
<1> SUFFICES ASSUME ProcTypes, DataTypes, ProcsOK, TokensOK, [Next]_vars,
                    NEW f \in Events, f \notin stale'
             PROVE  Token(f)' /\ Agree(f)'
    BY TypeParts DEF IInv, TokensOK
<1>1. CASE Quiet /\ stale \subseteq stale'
    BY <1>1, QuietKeeps DEF TokensOK
<1>2. ASSUME NEW p \in Procs, GoesOn(p), ~finalize_taken(p)
      PROVE  Token(f)' /\ Agree(f)'
    BY Zenon, <1>2, ClaimKeeps, AppendKeeps, SentKeeps, CancelKeeps, ErrorKeeps, LateErrorKeeps
       DEF GoesOn
<1>3. ASSUME NEW p \in Procs, Through(p), ~finalize_taken(p),
             ~(p \in Requests /\ (restart_put(p) \/ check_fails(p)))
      PROVE  Token(f)' /\ Agree(f)'
    BY Zenon, <1>3, RemoveKeeps, FailKeeps, LateFailKeeps, CheckKeeps, DropKeeps DEF Through
<1> QED BY Zenon, <1>1, <1>2, <1>3, QuietStep, InsertKeeps, ExtendKeeps, CrashKeeps, StepKinds
           DEF Loops, Through

\* The invariant holds in every reachable state.
LEMMA Inductive == Spec => []IInv
<1>1. IInv /\ [Next]_vars => ProcTypes' /\ DataTypes' /\ ProcsOK' /\ RowsOK'
    BY Zenon, TypeParts, ProcTypeStep, DataTypeStep, ProcStep, RowStep DEF IInv
<1>2. ProcTypes' /\ DataTypes' => TypeOK'
    BY DEF TypeOK, ProcTypes, DataTypes, Places, Resting
<1>3. IInv /\ [Next]_vars => IInv'
    BY Zenon, <1>1, <1>2, TokenStep DEF IInv
<1> QED BY InitInv, <1>3, PTL DEF Spec

-----------------------------------------------------------------------------
(* The theorems *)

\* Every variable keeps its type, and a process has an event in hand exactly while it works.
THEOREM TypesKept == Spec => []TypeOK
<1>1. IInv => TypeOK
    BY DEF IInv
<1> QED BY <1>1, Inductive, PTL

\* finalize_delayed_event finalises an event that is not stale once: it is appended to its
\* room at most once, and exactly when its record says so, however many requests compete
\* with the worker and however often the server crashes.
THEOREM OnceFinalized == Spec => []FinalizedOnce
<1>1. IInv => FinalizedOnce
    BY DEF IInv, TokensOK, Agree, FinalizedOnce
<1> QED BY <1>1, Inductive, PTL

\* What update_delayed_event answered stays true: an event reported as cancelled is never
\* sent, one reported as sent was sent once, unless it is stale.
THEOREM AnswersTrue == Spec => []OutcomeTold
<1>1. IInv => OutcomeTold
    BY DEF IInv, TokensOK, Agree, OutcomeTold
<1> QED BY <1>1, Inductive, PTL

\* Every event whose id was given out has its row or its record at any moment, stale or not.
THEOREM NoneVanishes == Spec => []NeverVanishes
<1>1. IInv => NeverVanishes
    BY DEF IInv, RowsOK, NeverVanishes
<1> QED BY <1>1, Inductive, PTL
=============================================================================
