------------------------- MODULE InboundTxnsProofs --------------------------
(***************************************************************************)
(* Inbound transactions, for any number of transactions, origins, requests *)
(* and tasks and any limits: an Active entry is worked on by one task, the *)
(* limits hold, an acknowledged transaction is processed, whoever waits    *)
(* gets a result, and a response is forgotten only for a cause.            *)
(***************************************************************************)
EXTENDS InboundTxns, FiniteSetTheorems, TLAPS

Types ==
    /\ state \in [Txns -> {"None", "Active", "Cached"}]
    /\ task \in [Txns -> 0..TaskMax] /\ started \in 0..TaskMax
    /\ key \in [Tasks -> Txns \cup {NoKey}]
    /\ todo \in [Tasks -> SUBSET Items] /\ inhand \in [Tasks -> SUBSET Items]
    /\ failed \in [Tasks -> BOOLEAN]
    /\ at \in [Tasks -> {"None", "Working", "Failing", "Done", "Panicked"}]
    /\ result \in [Tasks -> {"None", "Ok", "Error"}]
    /\ asked \in [Requests -> Txns \cup {NoKey}]
    /\ waits \in [Requests -> 0..TaskMax]
    /\ answer \in [Requests -> Answer]
    /\ handled \in SUBSET Items /\ loose \in [Requests -> SUBSET Items]

\* The task of an entry: a task at work has an entry, which is Active and names it; an entry
\* that is Active names a task for its key; tasks that have not started are untouched.
Linked ==
    /\ \A i \in Tasks : Working(i) => /\ key[i] \in Txns
                                      /\ state[key[i]] = "Active" /\ task[key[i]] = i
    /\ \A k \in Active : task[k] \in 1..started /\ key[task[k]] = k
    /\ \A i \in Tasks : i > started => at[i] = "None" /\ result[i] = "None"
    /\ \A q \in Requests : waits[q] # 0 => waits[q] \in 1..started /\ key[waits[q]] = asked[q]
    /\ \A q \in Requests : asked[q] = NoKey => answer[q] = "None" /\ waits[q] = 0

-----------------------------------------------------------------------------
(* The table and the tasks *)

\* A clean-up takes nothing but cached entries.
LEMMA CleanupKeeps ==
    ASSUME NEW some_state \in [Txns -> {"None", "Active", "Cached"}], NEW some_created,
           Cleanup(some_state, some_created)
    PROVE  /\ state' \in [Txns -> {"None", "Active", "Cached"}]
           /\ \A k \in Txns : \/ state'[k] = some_state[k]
                              \/ some_state[k] = "Cached" /\ state'[k] = "None"
  BY DEF Cleanup

\* What a task that finishes does to the entries: its own becomes Cached, or goes at once
\* when the clean-up takes it, and other cached ones may go.
LEMMA FinishState ==
    ASSUME Types, NEW i \in Tasks, finish_federation_txn(i), key[i] \in Txns
    PROVE  /\ state' \in [Txns -> {"None", "Active", "Cached"}]
           /\ state'[key[i]] \in {"None", "Cached"}
           /\ \A k \in Txns \ {key[i]} : \/ state'[k] = state[k]
                                         \/ state[k] = "Cached" /\ state'[k] = "None"
<1> DEFINE cached_state == [state EXCEPT ![key[i]] = "Cached"]
<1>1. /\ cached_state \in [Txns -> {"None", "Active", "Cached"}]
      /\ cached_state[key[i]] = "Cached"
      /\ \A k \in Txns \ {key[i]} : cached_state[k] = state[k]
  BY DEF Types
<1>2. \/ Cleanup(cached_state, created')
      \/ state' = cached_state
  BY DEF finish_federation_txn
<1> HIDE DEF cached_state
<1>3. CASE Cleanup(cached_state, created')
  BY <1>1, <1>3, CleanupKeeps
<1>4. CASE state' = cached_state
  BY <1>1, <1>4
<1> QED
  BY <1>2, <1>3, <1>4

\* What a task that finishes does to itself, and what it leaves alone.
LEMMA FinishTask ==
    ASSUME NEW i \in Tasks, finish_federation_txn(i)
    PROVE  /\ at[i] = "Working" /\ todo[i] = {} /\ inhand[i] = {} /\ ~failed[i]
           /\ at' = [at EXCEPT ![i] = "Done"] /\ result' = [result EXCEPT ![i] = "Ok"]
           /\ UNCHANGED <<task, started, key, todo, inhand, failed, running>>
           /\ UNCHANGED <<asked, waits, answer, loose, handled>>
  BY Zenon DEF finish_federation_txn, Working, AllDone, requests, items

\* Initially nothing is active, working or waiting, so the types and links hold.
LEMMA InitLinked == Init => Types /\ Linked
  BY InboundAssumption DEF Init, Types, Linked, Tasks, Active, Working, Answer

\* Every step of a request, a task, the clock or the shutdown keeps the types.
LEMMA NextTypes == Types /\ Linked /\ [Next]_vars => Types'
<1> SUFFICES ASSUME Types, Linked, [Next]_vars PROVE Types'
  OBVIOUS
<1> USE InboundAssumption
<1>1. ASSUME NEW q \in Requests, NEW k \in Txns, cached_response(q, k) PROVE Types'
  BY <1>1 DEF cached_response, Types, Answer, Working, txns, work, items, requests, Tasks, Asks
<1>2. ASSUME NEW q \in Requests, NEW k \in Txns, join_active(q, k) PROVE Types'
  BY <1>2 DEF join_active, Types, Answer, Working, txns, work, items, requests, Tasks, Asks
<1>3. ASSUME NEW q \in Requests, NEW k \in Txns, reject(q, k) PROVE Types'
  BY <1>3 DEF reject, Types, Answer, Working, txns, work, items, requests, Tasks, Asks
<1>4. ASSUME NEW q \in Requests, NEW k \in Txns, start(q, k) PROVE Types'
  BY <1>4 DEF start, Types, Answer, Working, txns, work, items, requests, Tasks, Asks
<1>5. ASSUME NEW q \in Requests, wait_for_result(q) PROVE Types'
  BY <1>5 DEF wait_for_result, Types, Answer, Working, txns, work, items, requests, Tasks,
       Waiting
<1>6. ASSUME NEW q \in Requests, wait_times_out(q) PROVE Types'
  BY <1>6 DEF wait_times_out, Types, Answer, Working, txns, work, items, requests, Tasks,
       Waiting
<1>7. ASSUME NEW i \in Tasks, handle_edu(i) PROVE Types'
  BY <1>7 DEF handle_edu, Types, Answer, Working, txns, work, items, requests, Tasks
<1>8. ASSUME NEW i \in Tasks, begin_pdu(i) PROVE Types'
  BY <1>8 DEF begin_pdu, Types, Answer, Working, txns, work, items, requests, Tasks
<1>9. ASSUME NEW i \in Tasks, begin_stopping(i) PROVE Types'
  BY <1>9 DEF begin_stopping, Types, Answer, Working, txns, work, items, requests, Tasks,
       FailPdus
<1>10. ASSUME NEW i \in Tasks, end_pdu(i) PROVE Types'
  BY <1>10 DEF end_pdu, Types, Answer, Working, txns, work, items, requests, Tasks
<1>11. ASSUME NEW i \in Tasks, local_failure(i) PROVE Types'
  BY <1>11 DEF local_failure, Types, Answer, Working, txns, work, items, requests, Tasks,
       FailPdus
<1>12. ASSUME NEW i \in Tasks, local_failure_stopping(i) PROVE Types'
  BY <1>12 DEF local_failure_stopping, Types, Answer, Working, txns, work, items, requests,
       Tasks
<1>13. ASSUME NEW i \in Tasks, task_panics(i) PROVE Types'
  BY <1>13 DEF task_panics, Types, Answer, Working, txns, work, items, requests, Tasks
<1>14. ASSUME NEW i \in Tasks, finish_federation_txn(i) PROVE Types'
  <2>0. Working(i)
    BY Zenon, <1>14, FinishTask DEF Working
  <2>1. key[i] \in Txns
    BY <2>0 DEF Linked
  <2>2. state' \in [Txns -> {"None", "Active", "Cached"}]
    BY Zenon, <1>14, <2>1, FinishState
  <2>3. /\ at' = [at EXCEPT ![i] = "Done"] /\ result' = [result EXCEPT ![i] = "Ok"]
        /\ UNCHANGED <<task, started, key, todo, inhand, failed>>
        /\ UNCHANGED <<asked, waits, answer, loose, handled>>
    BY Zenon, <1>14, FinishTask
  <2> QED
    BY <2>2, <2>3 DEF Types
<1>15. ASSUME NEW i \in Tasks, fail_federation_txn(i) PROVE Types'
  BY Zenon, <1>15 DEF fail_federation_txn, Types, Answer, Working, txns, work, items, requests,
     Tasks
<1>16. ASSUME NEW i \in Tasks, send_failure(i) PROVE Types'
  BY <1>16 DEF send_failure, Types, Answer, Working, txns, work, items, requests, Tasks
<1>17. ASSUME NEW q \in Requests, handle_loose_edu(q) PROVE Types'
  BY <1>17 DEF handle_loose_edu, Types, Answer, Working, txns, work, items, requests, Tasks
<1>18. CASE clear_cache
  BY <1>18 DEF clear_cache, Types, Answer, Working, txns, work, items, requests, Tasks, Cached
<1>19. CASE tick
  BY <1>19 DEF tick, Types, Answer, Working, txns, work, items, requests, Tasks
<1>20. CASE shutdown
  BY <1>20 DEF shutdown, Types, Answer, Working, txns, work, items, requests, Tasks
<1>21. CASE UNCHANGED vars
  BY <1>21 DEF vars, Types, Answer, Working, txns, work, items, requests, Tasks
<1>22. ASSUME NEW i \in Tasks, unknown_room(i) PROVE Types'
  BY <1>22 DEF unknown_room, Types, Answer, Working, txns, work, items, requests, Tasks
<1>23. ASSUME NEW q \in Requests, edu_task_panics(q) PROVE Types'
  BY <1>23 DEF edu_task_panics, Types, Answer, Working, txns, work, items, requests, Tasks
<1> QED
  BY SMTT(30), <1>1, <1>2, <1>3, <1>4, <1>5, <1>6, <1>7, <1>8, <1>9, <1>10, <1>11, <1>12, <1>13,
     <1>14,
       <1>15, <1>16, <1>17, <1>18, <1>19, <1>20, <1>21, <1>22, <1>23
     DEF Next, Arrive, TaskStep

\* Every step keeps the links: get_or_start makes the entry and its task together, and a task
\* removes or caches its own entry when it ends.
LEMMA NextLinked == Types /\ Types' /\ Linked /\ [Next]_vars => Linked'
<1> SUFFICES ASSUME Types, Linked, [Next]_vars PROVE Linked'
  OBVIOUS
<1> USE InboundAssumption
<1>1. ASSUME NEW q \in Requests, NEW k \in Txns, cached_response(q, k) PROVE Linked'
  BY <1>1 DEF cached_response, Types, Linked, Active, Working, txns, work, items, requests,
       Tasks, Asks
<1>2. ASSUME NEW q \in Requests, NEW k \in Txns, join_active(q, k) PROVE Linked'
  BY <1>2 DEF join_active, Types, Linked, Active, Working, txns, work, items, requests,
       Tasks, Asks
<1>3. ASSUME NEW q \in Requests, NEW k \in Txns, reject(q, k) PROVE Linked'
  BY <1>3 DEF reject, Types, Linked, Active, Working, txns, work, items, requests, Tasks, Asks
<1>4. ASSUME NEW q \in Requests, NEW k \in Txns, start(q, k) PROVE Linked'
  BY <1>4 DEF start, Types, Linked, Active, Working, txns, work, items, requests, Tasks, Asks
<1>5. ASSUME NEW q \in Requests, wait_for_result(q) PROVE Linked'
  BY <1>5 DEF wait_for_result, Types, Linked, Active, Working, txns, work, items, requests,
       Tasks, Waiting
<1>6. ASSUME NEW q \in Requests, wait_times_out(q) PROVE Linked'
  <2>1. /\ asked[q] # NoKey
        /\ \E some : answer' = [answer EXCEPT ![q] = some]
        /\ UNCHANGED <<state, task, started, key, at, result, asked, waits>>
    BY Zenon, <1>6 DEF wait_times_out, Waiting, Linked, txns, work
  <2>2. \A p \in Requests \ {q} : answer'[p] = answer[p]
    BY <2>1 DEF Types
  <2> QED
    BY <2>1, <2>2 DEF Types, Linked, Active, Working, Tasks
<1>7. ASSUME NEW i \in Tasks, handle_edu(i) PROVE Linked'
  BY <1>7 DEF handle_edu, Types, Linked, Active, Working, txns, work, items, requests, Tasks
<1>8. ASSUME NEW i \in Tasks, begin_pdu(i) PROVE Linked'
  BY <1>8 DEF begin_pdu, Types, Linked, Active, Working, txns, work, items, requests, Tasks
<1>9. ASSUME NEW i \in Tasks, begin_stopping(i) PROVE Linked'
  BY <1>9 DEF begin_stopping, Types, Linked, Active, Working, txns, work, items, requests,
       Tasks, FailPdus
<1>10. ASSUME NEW i \in Tasks, end_pdu(i) PROVE Linked'
  BY <1>10 DEF end_pdu, Types, Linked, Active, Working, txns, work, items, requests, Tasks
<1>11. ASSUME NEW i \in Tasks, local_failure(i) PROVE Linked'
  BY <1>11 DEF local_failure, Types, Linked, Active, Working, txns, work, items, requests,
       Tasks, FailPdus
<1>12. ASSUME NEW i \in Tasks, local_failure_stopping(i) PROVE Linked'
  BY <1>12 DEF local_failure_stopping, Types, Linked, Active, Working, txns, work, items,
       requests, Tasks
<1>13. ASSUME NEW i \in Tasks, task_panics(i) PROVE Linked'
  BY SMTT(30), <1>13 DEF task_panics, Types, Linked, Active, Working, txns, work, items,
     requests, Tasks
<1>14. ASSUME NEW i \in Tasks, finish_federation_txn(i) PROVE Linked'
  <2>0. Working(i)
    BY Zenon, <1>14, FinishTask DEF Working
  <2>1. key[i] \in Txns
    BY <2>0 DEF Linked
  <2>2. /\ state'[key[i]] \in {"None", "Cached"}
        /\ \A k \in Txns \ {key[i]} : \/ state'[k] = state[k]
                                      \/ state[k] = "Cached" /\ state'[k] = "None"
    BY Zenon, <1>14, <2>1, FinishState
  <2>3. /\ at[i] = "Working" /\ at' = [at EXCEPT ![i] = "Done"]
        /\ result' = [result EXCEPT ![i] = "Ok"]
        /\ UNCHANGED <<key, task, started, asked, waits>>
    BY Zenon, <1>14, FinishTask
  <2>4. UNCHANGED answer
    BY Zenon, <1>14, FinishTask
  <2>5. \A j \in Tasks : Working(j)' => /\ key[j] \in Txns /\ key[j] # key[i]
                                       /\ state[key[j]] = "Active" /\ task[key[j]] = j
    BY SMTT(30), <2>1, <2>3 DEF Types, Linked, Working
  <2>6. \A j \in Tasks : Working(j)' => /\ key'[j] \in Txns
                                       /\ state'[key'[j]] = "Active" /\ task'[key'[j]] = j
    BY <2>2, <2>3, <2>5
  <2>7. \A k \in Txns : state'[k] = "Active" => state[k] = "Active"
    BY <2>2
  <2>8. \A k \in Active' : task'[k] \in 1..started' /\ key'[task'[k]] = k
    BY <2>3, <2>7 DEF Linked, Active
  <2>9. i <= started
    BY <2>3 DEF Linked, Types, Tasks
  <2>10. \A j \in Tasks : j > started' => at'[j] = "None" /\ result'[j] = "None"
    BY SMTT(30), <2>3, <2>9 DEF Linked, Types, Tasks
  <2> QED
    BY <2>3, <2>4, <2>6, <2>8, <2>10 DEF Linked, Types
<1>15. ASSUME NEW i \in Tasks, fail_federation_txn(i) PROVE Linked'
  BY <1>15 DEF fail_federation_txn, Types, Linked, Active, Working, txns, work, items,
       requests, Tasks
<1>16. ASSUME NEW i \in Tasks, send_failure(i) PROVE Linked'
  BY <1>16 DEF send_failure, Types, Linked, Active, Working, txns, work, items, requests, Tasks
<1>17. ASSUME NEW q \in Requests, handle_loose_edu(q) PROVE Linked'
  BY <1>17 DEF handle_loose_edu, Types, Linked, Active, Working, txns, work, items, requests,
       Tasks
<1>18. CASE clear_cache
  BY <1>18 DEF clear_cache, Types, Linked, Active, Working, txns, work, items, requests,
       Tasks, Cached
<1>19. CASE tick
  BY <1>19 DEF tick, Types, Linked, Active, Working, txns, work, items, requests, Tasks
<1>20. CASE shutdown
  BY <1>20 DEF shutdown, Types, Linked, Active, Working, txns, work, items, requests, Tasks
<1>21. CASE UNCHANGED vars
  BY SMTT(30), <1>21 DEF vars, Types, Linked, Active, Working, txns, work, items, requests, Tasks
<1>22. ASSUME NEW i \in Tasks, unknown_room(i) PROVE Linked'
  BY SMTT(30), <1>22 DEF unknown_room, Types, Linked, Active, Working, txns, work, items, requests,
       Tasks
<1>23. ASSUME NEW q \in Requests, edu_task_panics(q) PROVE Linked'
  BY <1>23 DEF edu_task_panics, Types, Linked, Active, Working, txns, work, items, requests,
       Tasks
<1> QED
  BY SMTT(30), <1>1, <1>2, <1>3, <1>4, <1>5, <1>6, <1>7, <1>8, <1>9, <1>10, <1>11, <1>12, <1>13,
     <1>14,
       <1>15, <1>16, <1>17, <1>18, <1>19, <1>20, <1>21, <1>22, <1>23
     DEF Next, Arrive, TaskStep

\* The types and links hold throughout.
THEOREM LinksHold == Spec => [](Types /\ Linked)
<1>1. Init => Types /\ Linked
  BY InitLinked
<1>2. Types /\ Linked /\ [Next]_vars => (Types /\ Linked)'
  BY NextTypes, NextLinked
<1> QED
  BY <1>1, <1>2, PTL DEF Spec

\* Whatever fails, panics or is retried, at most one task works on a transaction at a time.
THEOREM AtMostOneTask == Spec => []OneTaskPerTxn
<1>1. Types /\ Linked => OneTaskPerTxn
  BY SMTT(30) DEF Linked, OneTaskPerTxn
<1> QED
  BY <1>1, LinksHold, PTL

-----------------------------------------------------------------------------
(* Active entries *)

\* Without panics a task ends only through finish_federation_txn or remove_federation_txn,
\* so no entry stays Active without its task.
LEMMA NextWorkedOn ==
    Types /\ Types' /\ Linked /\ Linked' /\ ActiveIsWorkedOn /\ ~Panics /\ [Next]_vars
      => ActiveIsWorkedOn'
<1> SUFFICES ASSUME Types, Linked, ActiveIsWorkedOn, ~Panics, [Next]_vars
             PROVE  ActiveIsWorkedOn'
  BY SMTT(30)
<1> USE InboundAssumption
<1>1. ASSUME NEW q \in Requests, NEW k \in Txns, cached_response(q, k) PROVE ActiveIsWorkedOn'
  BY <1>1 DEF cached_response, Types, Linked, ActiveIsWorkedOn, Active, Working, txns, work,
       items, requests, Tasks, Asks
<1>2. ASSUME NEW q \in Requests, NEW k \in Txns, join_active(q, k) PROVE ActiveIsWorkedOn'
  BY SMTT(30), <1>2 DEF join_active, Types, Linked, ActiveIsWorkedOn, Active, Working, txns, work,
       items, requests, Tasks, Asks
<1>3. ASSUME NEW q \in Requests, NEW k \in Txns, reject(q, k) PROVE ActiveIsWorkedOn'
  BY SMTT(30), <1>3 DEF reject, Types, Linked, ActiveIsWorkedOn, Active, Working, txns, work,
     items, requests, Tasks, Asks
<1>4. ASSUME NEW q \in Requests, NEW k \in Txns, start(q, k) PROVE ActiveIsWorkedOn'
  BY SMTT(30), <1>4 DEF start, Types, Linked, ActiveIsWorkedOn, Active, Working, txns, work,
     items, requests, Tasks, Asks
<1>5. ASSUME NEW q \in Requests, wait_for_result(q) PROVE ActiveIsWorkedOn'
  BY <1>5 DEF wait_for_result, Types, Linked, ActiveIsWorkedOn, Active, Working, txns, work,
       items, requests, Tasks, Waiting
<1>6. ASSUME NEW q \in Requests, wait_times_out(q) PROVE ActiveIsWorkedOn'
  BY SMTT(30), <1>6 DEF wait_times_out, Types, Linked, ActiveIsWorkedOn, Active, Working, txns, work,
       items, requests, Tasks, Waiting
<1>7. ASSUME NEW i \in Tasks, handle_edu(i) PROVE ActiveIsWorkedOn'
  BY SMTT(30), <1>7 DEF handle_edu, Types, Linked, ActiveIsWorkedOn, Active, Working, txns, work,
       items, requests, Tasks
<1>8. ASSUME NEW i \in Tasks, begin_pdu(i) PROVE ActiveIsWorkedOn'
  BY SMTT(30), <1>8 DEF begin_pdu, Types, Linked, ActiveIsWorkedOn, Active, Working, txns, work,
     items, requests, Tasks
<1>9. ASSUME NEW i \in Tasks, begin_stopping(i) PROVE ActiveIsWorkedOn'
  BY SMTT(30), <1>9 DEF begin_stopping, Types, Linked, ActiveIsWorkedOn, Active, Working, txns,
     work, items, requests, Tasks, FailPdus
<1>10. ASSUME NEW i \in Tasks, end_pdu(i) PROVE ActiveIsWorkedOn'
  BY SMTT(30), <1>10 DEF end_pdu, Types, Linked, ActiveIsWorkedOn, Active, Working, txns, work,
     items, requests, Tasks
<1>11. ASSUME NEW i \in Tasks, local_failure(i) PROVE ActiveIsWorkedOn'
  BY <1>11 DEF local_failure, Types, Linked, ActiveIsWorkedOn, Active, Working, txns, work,
       items, requests, Tasks, FailPdus
<1>12. ASSUME NEW i \in Tasks, local_failure_stopping(i) PROVE ActiveIsWorkedOn'
  BY <1>12 DEF local_failure_stopping, Types, Linked, ActiveIsWorkedOn, Active, Working,
       txns, work, items, requests, Tasks
<1>13. ASSUME NEW i \in Tasks, task_panics(i) PROVE ActiveIsWorkedOn'
  BY <1>13 DEF task_panics
<1>14. ASSUME NEW i \in Tasks, finish_federation_txn(i) PROVE ActiveIsWorkedOn'
  <2>0. Working(i)
    BY Zenon, <1>14, FinishTask DEF Working
  <2>1. key[i] \in Txns
    BY <2>0 DEF Linked
  <2>2. /\ state'[key[i]] \in {"None", "Cached"}
        /\ \A k \in Txns \ {key[i]} : \/ state'[k] = state[k]
                                      \/ state[k] = "Cached" /\ state'[k] = "None"
    BY Zenon, <1>14, <2>1, FinishState
  <2>3. /\ at' = [at EXCEPT ![i] = "Done"]
        /\ UNCHANGED <<key, task>>
    BY Zenon, <1>14, FinishTask
  <2>4. \A k \in Active' : k \in Active /\ k # key[i] /\ key[task[k]] = k
    BY <2>2 DEF Active, Linked
  <2>5. \A k \in Active' : task[k] # i
    BY SMTT(30), <2>4
  <2> QED
    BY <2>3, <2>4, <2>5 DEF ActiveIsWorkedOn, Working, Types
<1>15. ASSUME NEW i \in Tasks, fail_federation_txn(i) PROVE ActiveIsWorkedOn'
  BY SMTT(30), <1>15 DEF fail_federation_txn, Types, Linked, ActiveIsWorkedOn, Active, Working,
     txns, work, items, requests, Tasks
<1>16. ASSUME NEW i \in Tasks, send_failure(i) PROVE ActiveIsWorkedOn'
  BY SMTT(30), <1>16 DEF send_failure, Types, Linked, ActiveIsWorkedOn, Active, Working, txns, work,
       items, requests, Tasks
<1>17. ASSUME NEW q \in Requests, handle_loose_edu(q) PROVE ActiveIsWorkedOn'
  BY SMTT(30), <1>17 DEF handle_loose_edu, Types, Linked, ActiveIsWorkedOn, Active, Working, txns,
       work, items, requests, Tasks
<1>18. CASE clear_cache
  BY SMTT(30), <1>18 DEF clear_cache, Types, Linked, ActiveIsWorkedOn, Active, Working, txns,
     work, items, requests, Tasks, Cached
<1>19. CASE tick
  BY <1>19 DEF tick, Types, Linked, ActiveIsWorkedOn, Active, Working, txns, work, items,
       requests, Tasks
<1>20. CASE shutdown
  BY <1>20 DEF shutdown, Types, Linked, ActiveIsWorkedOn, Active, Working, txns, work, items,
       requests, Tasks
<1>21. CASE UNCHANGED vars
  BY SMTT(30), <1>21 DEF vars, Types, Linked, ActiveIsWorkedOn, Active, Working, txns, work, items,
       requests, Tasks
<1>22. ASSUME NEW i \in Tasks, unknown_room(i) PROVE ActiveIsWorkedOn'
  BY <1>22 DEF unknown_room, Types, Linked, ActiveIsWorkedOn, Active, Working, txns,
       work, items, requests, Tasks
<1>23. ASSUME NEW q \in Requests, edu_task_panics(q) PROVE ActiveIsWorkedOn'
  BY <1>23 DEF edu_task_panics, Types, Linked, ActiveIsWorkedOn, Active, Working, txns,
       work, items, requests, Tasks
<1> QED
  BY SMTT(30), <1>1, <1>2, <1>3, <1>4, <1>5, <1>6, <1>7, <1>8, <1>9, <1>10, <1>11, <1>12, <1>13,
     <1>14,
       <1>15, <1>16, <1>17, <1>18, <1>19, <1>20, <1>21, <1>22, <1>23
     DEF Next, Arrive, TaskStep

\* As long as no task panics, a transaction is Active only while a task works on it, so the
\* limits are never used up by transactions nobody processes.
THEOREM ActiveBacked ==
    ASSUME ~Panics
    PROVE  Spec => []ActiveIsWorkedOn
<1>1. Init => ActiveIsWorkedOn
  BY DEF Init, ActiveIsWorkedOn, Active
<1>2. ActiveIsWorkedOn /\ (Types /\ Linked) /\ (Types /\ Linked)' /\ [Next]_vars
        => ActiveIsWorkedOn'
  BY SMTT(30), NextWorkedOn
<1> QED
  BY <1>1, <1>2, LinksHold, PTL DEF Spec

-----------------------------------------------------------------------------
(* Acknowledgements *)

\* What an acknowledgement rests on until the server stops: a task that has not failed still
\* has in hand what is not processed, and a response, sent or cached, is of a transaction
\* processed entirely.
Committed ==
    running =>
      /\ \A i \in Tasks : Working(i) /\ ~failed[i]
                            => content[key[i]] \subseteq handled \cup todo[i] \cup inhand[i]
      /\ \A i \in Tasks : result[i] = "Ok"
                            => key[i] \in Txns /\ content[key[i]] \subseteq handled
      /\ \A k \in Cached : content[k] \subseteq handled
      /\ AckedIsHandled

\* A step after which, unless the server has stopped, nothing more rests on processing than
\* before and nothing that was to be processed is dropped.
CommitFrame ==
    running' =>
      /\ running
      /\ handled \subseteq handled'
      /\ \A i \in Tasks : Working(i)' /\ ~failed'[i] =>
           /\ Working(i) /\ ~failed[i] /\ key'[i] = key[i]
           /\ todo[i] \cup inhand[i] \subseteq todo'[i] \cup inhand'[i] \cup handled'
      /\ \A i \in Tasks : result'[i] = "Ok" => result[i] = "Ok" /\ key'[i] = key[i]
      /\ Cached' \subseteq Cached
      /\ \A q \in Requests : answer'[q] = "Ok" => answer[q] = "Ok" /\ asked'[q] = asked[q]

\* Such a step keeps what an acknowledgement rests on.
LEMMA CommittedFramed == Committed /\ CommitFrame => Committed'
  BY DEF Committed, CommitFrame, AckedIsHandled, Cached, Working

\* Every step keeps what an acknowledgement rests on: an item leaves a task that has not failed
\* only by being processed, and a response is made only by a task with nothing left to do.
LEMMA NextCommitted ==
    Types /\ Types' /\ Linked /\ Linked' /\ Committed /\ [Next]_vars
      => Committed'
<1> SUFFICES ASSUME Types, Linked, Committed, [Next]_vars PROVE Committed'
  BY SMTT(30)
<1> USE InboundAssumption
<1>1. ASSUME NEW q \in Requests, NEW k \in Txns, cached_response(q, k) PROVE Committed'
  BY <1>1 DEF cached_response, Types, Linked, Committed, AckedIsHandled, Active, Cached,
       Working, txns, work, items, requests, Tasks, Asks
<1>2. ASSUME NEW q \in Requests, NEW k \in Txns, join_active(q, k) PROVE Committed'
  <2>1. CommitFrame
    BY SMTT(30), <1>2 DEF join_active, Types, Linked, Asks, CommitFrame, Cached, Working, txns,
       work, items, requests, Tasks
  <2> QED
    BY SMTT(30), <2>1, CommittedFramed
<1>3. ASSUME NEW q \in Requests, NEW k \in Txns, reject(q, k) PROVE Committed'
  <2>1. CommitFrame
    BY SMTT(30), <1>3 DEF reject, Types, Asks, CommitFrame, Cached, Working, txns, work, items,
       requests, Tasks
  <2> QED
    BY <2>1, CommittedFramed
<1>4. ASSUME NEW q \in Requests, NEW k \in Txns, start(q, k) PROVE Committed'
  BY SMTT(30), <1>4 DEF start, Types, Linked, Committed, AckedIsHandled, Active, Cached,
     Working, txns, work, items, requests, Tasks, Asks
<1>5. ASSUME NEW q \in Requests, wait_for_result(q) PROVE Committed'
  BY <1>5 DEF wait_for_result, Types, Linked, Committed, AckedIsHandled, Active, Cached,
       Working, txns, work, items, requests, Tasks, Waiting
<1>6. ASSUME NEW q \in Requests, wait_times_out(q) PROVE Committed'
  <2>1. CommitFrame
    BY <1>6 DEF wait_times_out, Types, Waiting, CommitFrame, Cached, Working, txns, work,
         items, requests, Tasks
  <2> QED
    BY SMTT(30), <2>1, CommittedFramed
<1>7. ASSUME NEW i \in Tasks, handle_edu(i) PROVE Committed'
  <2>1. CommitFrame
    BY SMTT(30), <1>7 DEF handle_edu, Types, CommitFrame, Cached, Working, txns, work, items,
       requests, Tasks
  <2> QED
    BY SMTT(30), <2>1, CommittedFramed
<1>8. ASSUME NEW i \in Tasks, begin_pdu(i) PROVE Committed'
  <2>1. CommitFrame
    BY SMTT(30), <1>8 DEF begin_pdu, Types, CommitFrame, Cached, Working, txns, work, items,
       requests, Tasks
  <2> QED
    BY <2>1, CommittedFramed
<1>9. ASSUME NEW i \in Tasks, begin_stopping(i) PROVE Committed'
  <2>1. CommitFrame
    BY SMTT(30), <1>9 DEF begin_stopping, Types, FailPdus, CommitFrame, Cached, Working, txns,
       work, items, requests, Tasks
  <2> QED
    BY <2>1, CommittedFramed
<1>10. ASSUME NEW i \in Tasks, end_pdu(i) PROVE Committed'
  <2>1. CommitFrame
    BY SMTT(30), <1>10 DEF end_pdu, Types, CommitFrame, Cached, Working, txns, work, items,
       requests, Tasks
  <2> QED
    BY <2>1, CommittedFramed
<1>11. ASSUME NEW i \in Tasks, local_failure(i) PROVE Committed'
  <2>1. CommitFrame
    BY SMTT(30), <1>11 DEF local_failure, Types, FailPdus, CommitFrame, Cached, Working, txns,
       work, items, requests, Tasks
  <2> QED
    BY <2>1, CommittedFramed
<1>12. ASSUME NEW i \in Tasks, local_failure_stopping(i) PROVE Committed'
  <2>1. CommitFrame
    BY SMTT(30), <1>12 DEF local_failure_stopping, Types, CommitFrame, Cached, Working, txns,
       work, items, requests, Tasks
  <2> QED
    BY <2>1, CommittedFramed
<1>13. ASSUME NEW i \in Tasks, task_panics(i) PROVE Committed'
  <2>1. CommitFrame
    BY SMTT(30), <1>13 DEF task_panics, Types, CommitFrame, Cached, Working, txns, work, items,
       requests, Tasks
  <2> QED
    BY <2>1, CommittedFramed
<1>14. ASSUME NEW i \in Tasks, finish_federation_txn(i) PROVE Committed'
  <2>0. Working(i)
    BY ZenonT(30), <1>14, FinishTask DEF Working
  <2>1. key[i] \in Txns
    BY <2>0 DEF Linked
  <2>2. \A k \in Txns \ {key[i]} : \/ state'[k] = state[k]
                                   \/ state[k] = "Cached" /\ state'[k] = "None"
    BY Zenon, <1>14, <2>1, FinishState
  <2>3. /\ at[i] = "Working" /\ todo[i] = {} /\ inhand[i] = {} /\ ~failed[i]
        /\ at' = [at EXCEPT ![i] = "Done"] /\ result' = [result EXCEPT ![i] = "Ok"]
        /\ UNCHANGED <<key, todo, inhand, failed, asked, answer, handled, running>>
    BY Zenon, <1>14, FinishTask
  <2>4. running => content[key[i]] \subseteq handled
    BY SMTT(30), <2>3 DEF Committed, Working
  <2>5. running => \A k \in Cached' : content[k] \subseteq handled
    BY SMTT(30), <2>2, <2>4 DEF Cached, Committed
  <2> QED
    BY <2>1, <2>3, <2>4, <2>5 DEF Types, Committed, AckedIsHandled, Working
<1>15. ASSUME NEW i \in Tasks, fail_federation_txn(i) PROVE Committed'
  <2>1. CommitFrame
    BY SMTT(30), <1>15 DEF fail_federation_txn, Types, CommitFrame, Cached, Working, txns, work,
       items, requests, Tasks
  <2> QED
    BY <2>1, CommittedFramed
<1>16. ASSUME NEW i \in Tasks, send_failure(i) PROVE Committed'
  <2>1. CommitFrame
    BY SMTT(30), <1>16 DEF send_failure, Types, CommitFrame, Cached, Working, txns, work, items,
         requests, Tasks
  <2> QED
    BY <2>1, CommittedFramed
<1>17. ASSUME NEW q \in Requests, handle_loose_edu(q) PROVE Committed'
  <2>1. CommitFrame
    BY SMTT(30), <1>17 DEF handle_loose_edu, Types, CommitFrame, Cached, Working, txns, work,
       items, requests, Tasks
  <2> QED
    BY <2>1, CommittedFramed
<1>18. CASE clear_cache
  <2>1. CommitFrame
    BY SMTT(30), <1>18 DEF clear_cache, Types, CommitFrame, Cached, Working, txns, work, items,
       requests, Tasks
  <2> QED
    BY SMTT(30), <2>1, CommittedFramed
<1>19. CASE tick
  <2>1. CommitFrame
    BY SMTT(30), <1>19 DEF tick, Types, CommitFrame, Cached, Working, txns, work, items,
       requests, Tasks
  <2> QED
    BY <2>1, CommittedFramed
<1>20. CASE shutdown
  <2>1. CommitFrame
    BY SMTT(30), <1>20 DEF shutdown, Types, CommitFrame, Cached, Working, txns, work, items,
       requests, Tasks
  <2> QED
    BY <2>1, CommittedFramed
<1>21. CASE UNCHANGED vars
  <2>1. CommitFrame
    BY SMTT(30), <1>21 DEF vars, CommitFrame, Cached, Working, txns, work, items, requests, Tasks
  <2> QED
    BY <2>1, CommittedFramed
<1>22. ASSUME NEW i \in Tasks, unknown_room(i) PROVE Committed'
  <2>1. CommitFrame
    BY SMTT(30), <1>22 DEF unknown_room, Types, CommitFrame, Cached, Working, txns, work, items,
       requests, Tasks
  <2> QED
    BY <2>1, CommittedFramed
<1>23. ASSUME NEW q \in Requests, edu_task_panics(q) PROVE Committed'
  <2>1. CommitFrame
    BY SMTT(30), <1>23 DEF edu_task_panics, Types, CommitFrame, Cached, Working, txns, work, items,
       requests, Tasks
  <2> QED
    BY <2>1, CommittedFramed
<1> QED
  BY SMTT(30), <1>1, <1>2, <1>3, <1>4, <1>5, <1>6, <1>7, <1>8, <1>9, <1>10, <1>11, <1>12, <1>13,
     <1>14,
       <1>15, <1>16, <1>17, <1>18, <1>19, <1>20, <1>21, <1>22, <1>23
     DEF Next, Arrive, TaskStep

\* Until the server begins to stop, a request is answered with success only when every PDU and
\* EDU of its transaction has been processed, although other transactions, failures, retries,
\* panics and clean-ups of the cache interleave with it.
THEOREM AckAfterCommit == Spec => []AckedIsHandled
<1>1. Init => Committed
  BY DEF Init, Committed, AckedIsHandled, Cached, Working, Tasks
<1>2. Committed /\ (Types /\ Linked) /\ (Types /\ Linked)' /\ [Next]_vars => Committed'
  BY ZenonT(30), NextCommitted
<1>3. Committed => AckedIsHandled
  BY Zenon DEF Committed, AckedIsHandled
<1> QED
  BY <1>1, <1>2, <1>3, LinksHold, PTL DEF Spec

-----------------------------------------------------------------------------
(* Which steps change which variables *)

\* Who changes the table of transactions.
LEMMA TableSteps ==
    ASSUME [Next]_vars
    PROVE  \/ UNCHANGED <<state, task>>
           \/ \E q \in Requests, k \in Txns : start(q, k)
           \/ \E i \in Tasks : finish_federation_txn(i) \/ fail_federation_txn(i)
           \/ clear_cache
BY Zenon DEF Next, Arrive, TaskStep, cached_response, join_active, reject, wait_for_result,
   wait_times_out, handle_edu, begin_pdu, begin_stopping, end_pdu, local_failure,
   local_failure_stopping, handle_loose_edu,
   edu_task_panics, unknown_room, task_panics, send_failure, tick, shutdown, vars, txns

\* Who moves a task or sends its result.
LEMMA OutcomeSteps ==
    ASSUME [Next]_vars
    PROVE  \/ UNCHANGED <<at, result>>
           \/ \E q \in Requests, k \in Txns : start(q, k)
           \/ \E i \in Tasks : \/ finish_federation_txn(i) \/ fail_federation_txn(i)
                              \/ send_failure(i) \/ task_panics(i)
BY Zenon DEF Next, Arrive, TaskStep, cached_response, join_active, reject, wait_for_result,
   wait_times_out, handle_edu, begin_pdu, begin_stopping, end_pdu, local_failure,
   local_failure_stopping, handle_loose_edu, edu_task_panics, unknown_room, clear_cache, tick,
   shutdown, vars, work

\* Who answers a request.
LEMMA AnswerSteps ==
    ASSUME [Next]_vars
    PROVE  \/ UNCHANGED answer
           \/ \E q \in Requests : wait_for_result(q)
           \/ \E q \in Requests, a \in {"Ok", "Limit"} : answer' = [answer EXCEPT ![q] = a]
BY Zenon DEF Next, Arrive, TaskStep, cached_response, join_active, reject, start,
   wait_times_out, handle_edu, begin_pdu, begin_stopping, end_pdu, local_failure,
   local_failure_stopping, handle_loose_edu, edu_task_panics, unknown_room, task_panics,
   finish_federation_txn, fail_federation_txn, send_failure, clear_cache, tick, shutdown,
   vars, requests

\* Who reads or moves the clock.
LEMMA ClockSteps ==
    ASSUME [Next]_vars
    PROVE  \/ UNCHANGED <<created, last_cleanup, now>>
           \/ tick
           \/ \E i \in Tasks : finish_federation_txn(i)
BY ZenonT(60) DEF Next, Arrive, TaskStep, cached_response, join_active, reject, start,
   wait_for_result, wait_times_out, handle_edu, begin_pdu, begin_stopping, end_pdu,
   local_failure, local_failure_stopping, handle_loose_edu, edu_task_panics, unknown_room,
   task_panics, fail_federation_txn,
   send_failure, clear_cache, shutdown, vars, txns

-----------------------------------------------------------------------------
(* The limits *)

\* Only get_or_start_federation_txn makes a transaction Active.
LEMMA ActiveSteps ==
    ASSUME Types, Linked, [Next]_vars
    PROVE  \/ Active' \subseteq Active
           \/ \E q \in Requests, k \in Txns : start(q, k) /\ Active' = Active \cup {k}
<1>1. CASE UNCHANGED <<state, task>>
  BY <1>1 DEF Active
<1>2. ASSUME NEW q \in Requests, NEW k \in Txns, start(q, k)
      PROVE  Active' = Active \cup {k}
  <2>1. state' = [state EXCEPT ![k] = "Active"]
    BY Zenon, <1>2 DEF start
  <2>2. QED
    BY <2>1 DEF Active, Types
<1>3. ASSUME NEW i \in Tasks, finish_federation_txn(i)
      PROVE  Active' \subseteq Active
  <2>1. Working(i)
    BY Zenon, <1>3, FinishTask DEF Working
  <2>2. key[i] \in Txns
    BY <2>1 DEF Linked
  <2>3. /\ state'[key[i]] \in {"None", "Cached"}
        /\ \A k \in Txns \ {key[i]} : \/ state'[k] = state[k]
                                      \/ state[k] = "Cached" /\ state'[k] = "None"
    BY Zenon, <1>3, <2>2, FinishState
  <2>4. QED
    BY <2>3 DEF Active
<1>4. ASSUME NEW i \in Tasks, fail_federation_txn(i)
      PROVE  Active' \subseteq Active
  <2>1. state' = [state EXCEPT ![key[i]] = "None"]
    BY Zenon, <1>4 DEF fail_federation_txn
  <2>2. QED
    BY <2>1 DEF Active, Types
<1>5. CASE clear_cache
  <2>1. state' = [k \in Txns |-> IF state[k] = "Cached" THEN "None" ELSE state[k]]
    BY Zenon, <1>5 DEF clear_cache
  <2>2. QED
    BY <2>1 DEF Active
<1>6. QED
  BY Zenon, <1>1, <1>2, <1>3, <1>4, <1>5, TableSteps

\* Sets of transactions are finite: fewer never count more.
LEMMA FewerTxns ==
    ASSUME NEW S \in SUBSET Txns, NEW T \in SUBSET S
    PROVE  /\ IsFiniteSet(S) /\ Cardinality(S) \in Nat /\ Cardinality(T) \in Nat
           /\ Cardinality(T) <= Cardinality(S)
<1>1. IsFiniteSet(S)
  BY InboundAssumption, FS_Subset
<1>2. IsFiniteSet(T) /\ Cardinality(T) <= Cardinality(S)
  BY <1>1, FS_Subset
<1>3. QED
  BY <1>1, <1>2, FS_CardinalityType

\* One more transaction adds at most one.
LEMMA OneMoreTxn ==
    ASSUME NEW S \in SUBSET Txns, NEW k \in Txns, NEW limit \in Nat, Cardinality(S) < limit
    PROVE  Cardinality(S \cup {k}) <= limit
<1>1. IsFiniteSet(S) /\ Cardinality(S) \in Nat
  BY FewerTxns
<1>2. Cardinality(S \cup {k}) = IF k \in S THEN Cardinality(S) ELSE Cardinality(S) + 1
  BY SMTT(30), <1>1, FS_AddElement
<1>3. QED
  BY <1>1, <1>2

\* Every step keeps within the limits: they are looked at under the lock that makes the entry.
LEMMA LimitsStep == Types /\ Linked /\ LimitsRespected /\ [Next]_vars => LimitsRespected'
<1> SUFFICES ASSUME Types, Linked, LimitsRespected, [Next]_vars
             PROVE  LimitsRespected'
  OBVIOUS
<1> DEFINE Of(o) == {k \in Active : origin[k] = o}
<1>1. /\ MaxActive \in Nat /\ MaxPerOrigin \in Nat
      /\ \A k \in Txns : origin[k] \in Origins
  BY InboundAssumption
<1>2. /\ Cardinality(Active) <= MaxActive
      /\ \A o \in Origins : Cardinality(Of(o)) <= MaxPerOrigin
  BY DEF LimitsRespected
<1>3. Active \in SUBSET Txns /\ \A o \in Origins : Of(o) \in SUBSET Txns
  BY DEF Active
<1>4. CASE Active' \subseteq Active
  <2>1. Cardinality(Active') <= MaxActive
    BY <1>1, <1>2, <1>3, <1>4, FewerTxns
  <2>2. ASSUME NEW o \in Origins
        PROVE  Cardinality(Of(o)') <= MaxPerOrigin
    <3>1. Of(o)' \in SUBSET Of(o)
      BY <1>4
    <3> HIDE DEF Of
    <3>2. /\ Cardinality(Of(o)) \in Nat /\ Cardinality(Of(o)') \in Nat
          /\ Cardinality(Of(o)') <= Cardinality(Of(o)) /\ Cardinality(Of(o)) <= MaxPerOrigin
      BY <1>2, <1>3, <3>1, FewerTxns
    <3>3. QED
      BY <1>1, <3>2
  <2>3. QED
    BY <2>1, <2>2 DEF LimitsRespected
<1>5. ASSUME NEW q \in Requests, NEW k \in Txns, start(q, k), Active' = Active \cup {k}
      PROVE  LimitsRespected'
  <2>1. ~OverOriginLimit(k) /\ ~OverCapacity
    BY Zenon, <1>5 DEF start
  <2>2. Cardinality(Active) < MaxActive
    <3>1. Active \cup Cached \in SUBSET Txns
      BY DEF Active, Cached
    <3>2. /\ Cardinality(Active) \in Nat /\ Cardinality(Active \cup Cached) \in Nat
          /\ Cardinality(Active) <= Cardinality(Active \cup Cached)
      BY <3>1, FewerTxns
    <3>3. QED
      BY <1>1, <2>1, <3>2 DEF OverCapacity
  <2>3. Cardinality(Active') <= MaxActive
    BY <1>1, <1>3, <1>5, <2>2, OneMoreTxn
  <2>4. ASSUME NEW o \in Origins
        PROVE  Cardinality(Of(o)') <= MaxPerOrigin
    <3>1. CASE origin[k] # o
      <4>1. Of(o)' = Of(o)
        BY <1>5, <3>1
      <4>2. QED
        BY <1>2, <4>1
    <3>2. CASE origin[k] = o
      <4>1. Of(o)' = Of(o) \cup {k}
        BY <1>5, <3>2
      <4>2. Cardinality(Of(o)) \in Nat
        BY <1>3, FewerTxns
      <4>3. Cardinality(Of(o)) < MaxPerOrigin
        BY <1>1, <2>1, <3>2, <4>2 DEF OverOriginLimit
      <4> HIDE DEF Of
      <4>4. QED
        BY <1>1, <1>3, <4>1, <4>3, OneMoreTxn
    <3>3. QED
      BY <3>1, <3>2
  <2>5. QED
    BY <2>3, <2>4 DEF LimitsRespected
<1>6. QED
  BY Zenon, <1>4, <1>5, ActiveSteps

\* However many requests arrive, and whatever fails or panics, neither the limit of an origin
\* nor the overall one is exceeded.
THEOREM WithinLimits == Spec => []LimitsRespected
<1>1. Init => LimitsRespected
  <2> SUFFICES ASSUME Init
               PROVE  LimitsRespected
    OBVIOUS
  <2>1. Active = {} /\ \A o \in Origins : {k \in Active : origin[k] = o} = {}
    BY DEF Init, Active
  <2>2. Cardinality({}) = 0
    BY FS_EmptySet
  <2>3. QED
    BY <2>1, <2>2, InboundAssumption DEF LimitsRespected
<1>2. QED
  BY <1>1, LimitsStep, LinksHold, PTL DEF Spec

-----------------------------------------------------------------------------
(* Results and answers *)

\* A task sends its result when it ends, and not before.
Outcomes ==
    /\ \A i \in Tasks : at[i] \in {"None", "Working", "Failing"} => result[i] = "None"
    /\ \A i \in Tasks : at[i] = "Done" => result[i] # "None"

\* Every step sends a result with the end of its task: finish_federation_txn, and the failure
\* that process_inbound_transaction reports.
LEMMA OutcomesStep == Types /\ Linked /\ Outcomes /\ [Next]_vars => Outcomes'
<1> SUFFICES ASSUME Types, Linked, Outcomes, [Next]_vars
             PROVE  Outcomes'
  BY SMTT(30)
<1>1. ASSUME NEW i \in Tasks, NEW to, NEW value,
             at' = [at EXCEPT ![i] = to], result' = [result EXCEPT ![i] = value],
             to \in {"None", "Working", "Failing"} => value = "None",
             to = "Done" => value # "None"
      PROVE  Outcomes'
  BY <1>1 DEF Outcomes, Types
<1>2. CASE UNCHANGED <<at, result>>
  BY <1>2 DEF Outcomes
<1>3. ASSUME NEW q \in Requests, NEW k \in Txns, start(q, k)
      PROVE  Outcomes'
  <2> DEFINE i == started + 1
  <2>1. /\ i \in Tasks /\ at' = [at EXCEPT ![i] = "Working"] /\ result' = result
    BY Zenon, <1>3 DEF start
  <2>2. result[i] = "None"
    BY SMTT(30), <2>1 DEF Linked, Types, Tasks
  <2> HIDE DEF i
  <2>3. QED
    BY <2>1, <2>2 DEF Outcomes, Types
<1>4. ASSUME NEW i \in Tasks, finish_federation_txn(i)
      PROVE  Outcomes'
  BY Zenon, <1>1, <1>4, FinishTask
<1>5. ASSUME NEW i \in Tasks, fail_federation_txn(i)
      PROVE  Outcomes'
  <2>1. at[i] = "Working" /\ at' = [at EXCEPT ![i] = "Failing"] /\ result' = result
    BY Zenon, <1>5 DEF fail_federation_txn, Working
  <2>2. QED
    BY <2>1 DEF Outcomes, Types
<1>6. ASSUME NEW i \in Tasks, send_failure(i)
      PROVE  Outcomes'
  <2>1. at' = [at EXCEPT ![i] = "Done"] /\ result' = [result EXCEPT ![i] = "Error"]
    BY Zenon, <1>6 DEF send_failure
  <2>2. QED
    BY Zenon, <1>1, <2>1
<1>7. ASSUME NEW i \in Tasks, task_panics(i)
      PROVE  Outcomes'
  <2>1. at' = [at EXCEPT ![i] = "Panicked"] /\ result' = result
    BY Zenon, <1>7 DEF task_panics
  <2>2. QED
    BY <2>1 DEF Outcomes, Types
<1>8. QED
  BY Zenon, <1>2, <1>3, <1>4, <1>5, <1>6, <1>7, OutcomeSteps

\* A task that ended has sent a result, in every state.
LEMMA OutcomesHold == Spec => []Outcomes
<1>1. Init => Outcomes
  BY DEF Init, Outcomes
<1>2. QED
  BY <1>1, OutcomesStep, LinksHold, PTL DEF Spec

\* No task has panicked, and nobody met a channel without a value.
Answered == (\A i \in Tasks : at[i] # "Panicked") /\ NoUnexpectedAnswer

\* Without panics every step that closes a channel has sent a value.
LEMMA AnsweredStep ==
    ASSUME ~Panics
    PROVE  Types /\ Linked /\ Outcomes /\ Answered /\ [Next]_vars => Answered'
<1> SUFFICES ASSUME Types, Linked, Outcomes, Answered, [Next]_vars
             PROVE  Answered'
  OBVIOUS
<1>1. \A i \in Tasks : at'[i] # "Panicked"
  <2>1. \/ at' = at
        \/ \E i \in Tasks, to \in {"Working", "Failing", "Done"} : at' = [at EXCEPT ![i] = to]
    BY Zenon, OutcomeSteps, FinishTask DEF start, fail_federation_txn, send_failure, task_panics
  <2>2. QED
    BY <2>1 DEF Answered, Types
<1>2. ASSUME NEW q \in Requests, NEW a \in {"Ok", "Error", "Limit"},
             answer' = [answer EXCEPT ![q] = a]
      PROVE  NoUnexpectedAnswer'
  BY <1>2 DEF Answered, NoUnexpectedAnswer, Types
<1>3. ASSUME NEW q \in Requests, wait_for_result(q)
      PROVE  NoUnexpectedAnswer'
  <2> DEFINE i == waits[q]
  <2>1. /\ i # 0 /\ (result[i] # "None" \/ at[i] \in {"Done", "Panicked"})
        /\ answer' = [answer EXCEPT ![q] = IF result[i] = "None" THEN "Unexpected" ELSE result[i]]
    BY Zenon, <1>3 DEF wait_for_result, Waiting, Closed
  <2>2. i \in Tasks
    BY <2>1 DEF Types, Tasks
  <2> HIDE DEF i
  <2>3. result[i] \in {"Ok", "Error"}
    BY <2>1, <2>2 DEF Types, Outcomes, Answered
  <2>4. QED
    BY Zenon, <1>2, <2>1, <2>3
<1>4. UNCHANGED answer => NoUnexpectedAnswer'
  BY DEF Answered, NoUnexpectedAnswer
<1>5. NoUnexpectedAnswer'
  BY Zenon, <1>2, <1>3, <1>4, AnswerSteps
<1>6. QED
  BY <1>1, <1>5 DEF Answered

\* As long as no task panics, whoever waits for a transaction gets its result: wait_for_result
\* never finds a channel that was closed without one.
THEOREM ResultsArrive ==
    ASSUME ~Panics
    PROVE  Spec => []NoUnexpectedAnswer
<1>1. Init => Answered
  BY DEF Init, Answered, NoUnexpectedAnswer
<1>2. Types /\ Linked /\ Outcomes /\ Answered /\ [Next]_vars => Answered'
  BY AnsweredStep
<1>3. Answered => NoUnexpectedAnswer
  BY DEF Answered
<1>4. QED
  BY <1>1, <1>2, <1>3, LinksHold, OutcomesHold, PTL DEF Spec

-----------------------------------------------------------------------------
(* The cache of responses *)

\* The clock, and the times and task numbers that are taken from it and from the counter.
Clocked ==
    /\ now \in Interval..TimeMax /\ last_cleanup \in 0..now
    /\ created \in [Txns -> 0..now] /\ task \in [Txns -> 0..started]

\* Every step takes its times from the clock, which only goes forward.
LEMMA ClockedStep == Types /\ Linked /\ Clocked /\ [Next]_vars => Clocked'
<1> SUFFICES ASSUME Types, Linked, Clocked, [Next]_vars
             PROVE  Clocked'
  OBVIOUS
<1>1. Interval \in Nat /\ TimeMax \in Nat /\ now \in Nat /\ started \in Nat
  BY InboundAssumption DEF Clocked, Types
<1>2. /\ now' \in Interval..TimeMax /\ last_cleanup' \in 0..now'
      /\ created' \in [Txns -> 0..now']
  <2>1. CASE UNCHANGED <<created, last_cleanup, now>>
    BY <2>1 DEF Clocked
  <2>2. CASE tick
    <3>1. now < TimeMax /\ now' = now + 1 /\ UNCHANGED <<created, last_cleanup>>
      BY Zenon, <2>2 DEF tick, txns
    <3>2. QED
      BY <1>1, <3>1 DEF Clocked
  <2>3. ASSUME NEW i \in Tasks, finish_federation_txn(i)
        PROVE  /\ now' = now /\ last_cleanup' \in {now, last_cleanup}
               /\ created' = [created EXCEPT ![key[i]] = now]
    BY Zenon, <2>3 DEF finish_federation_txn
  <2>4. ASSUME NEW i \in Tasks, finish_federation_txn(i)
        PROVE  /\ now' \in Interval..TimeMax /\ last_cleanup' \in 0..now'
               /\ created' \in [Txns -> 0..now']
    BY <1>1, <2>3, <2>4 DEF Clocked
  <2>5. QED
    BY Zenon, <2>1, <2>2, <2>4, ClockSteps
<1>3. task' \in [Txns -> 0..started']
  <2>1. \/ UNCHANGED <<task, started>>
        \/ \E k \in Txns : started' = started + 1 /\ task' = [task EXCEPT ![k] = started + 1]
    BY ZenonT(60) DEF Next, Arrive, TaskStep, cached_response, join_active, reject, start,
       wait_for_result, wait_times_out, handle_edu, begin_pdu, begin_stopping, end_pdu,
       local_failure, local_failure_stopping, handle_loose_edu, edu_task_panics, unknown_room,
       task_panics, finish_federation_txn, fail_federation_txn, send_failure, clear_cache, tick,
       shutdown, vars, txns
  <2>2. QED
    BY SMTT(30), <1>1, <2>1 DEF Clocked
<1>4. QED
  BY SMTT(30), <1>2, <1>3 DEF Clocked

\* Type correctness: the states and times of the table, the tasks and the answers keep their
\* types, and a request waits only for a task of its own transaction.
THEOREM InboundTypes == Spec => []TypeOK
<1>1. Init => Clocked
  BY SMTT(30), InboundAssumption DEF Init, Clocked
<1>2. Types /\ Linked /\ Clocked => TypeOK
  BY DEF Types, Linked, Clocked, TypeOK
<1>3. QED
  BY <1>1, <1>2, ClockedStep, LinksHold, PTL DEF Spec

-----------------------------------------------------------------------------
(* What the cache forgets *)

AsYoung(some_created, k) == {j \in Txns \ {k} : some_created[j] >= some_created[k]}

\* The part of a sorted cache that stays is as long as the limit allows.
LEMMA TailLength ==
    ASSUME NEW S, NEW n \in Nat, NEW excess \in 0..n, NEW order \in Bijection(1..n, S)
    PROVE  /\ IsFiniteSet({order[i] : i \in (excess + 1)..n})
           /\ Cardinality({order[i] : i \in (excess + 1)..n}) = n - excess
<1> DEFINE places == (excess + 1)..n
           tail == {order[i] : i \in places}
           shorter == [i \in places |-> order[i]]
<1>1. /\ places \subseteq 1..n
      /\ \A i, j \in 1..n : order[i] = order[j] => i = j
  BY DEF Bijection, Injection, IsInjective
<1>2. shorter \in Bijection(places, tail)
  BY <1>1 DEF Bijection, Injection, IsInjective, Surjection
<1>3. IsFiniteSet(places) /\ Cardinality(places) = n - excess
  <2>1. excess + 1 \in Int /\ n \in Int /\ excess + 1 <= n + 1
    OBVIOUS
  <2>2. IsFiniteSet(places)
        /\ Cardinality(places) = IF excess + 1 > n THEN 0 ELSE n - (excess + 1) + 1
    BY <2>1, FS_Interval
  <2> QED BY <2>1, <2>2
<1>4. ExistsBijection(places, tail)
  BY <1>2 DEF ExistsBijection
<1> HIDE DEF places, tail
<1> QED
  BY <1>3, <1>4, FS_Bijection DEF places, tail

\* What a clean-up takes is too old, or max_entries of what stays is at least as young.
LEMMA CleanupCause ==
    ASSUME NEW some_state \in [Txns -> {"None", "Active", "Cached"}],
           NEW some_created \in [Txns -> Nat], now \in Nat,
           Cleanup(some_state, some_created),
           NEW k \in Txns, some_state[k] = "Cached", state'[k] # "Cached"
    PROVE  \/ some_created[k] + MaxAge <= now
           \/ Cardinality(AsYoung(some_created, k)) >= MaxEntries
<1> DEFINE cached == {m \in Txns : some_state[m] = "Cached"}
           fresh == Fresh(some_created, cached)
           n == Cardinality(fresh)
           excess == Excess(fresh)
<1>1. PICK keep \in Kept(some_created, cached) :
        state' = [m \in Txns |-> IF m \in cached \ keep THEN "None" ELSE some_state[m]]
  BY Zenon DEF Cleanup
<1>2. k \in cached /\ k \notin keep
  BY <1>1
<1>3. fresh \subseteq Txns /\ IsFiniteSet(fresh) /\ n \in Nat
  <2>1. fresh \subseteq Txns
    BY DEF Fresh
  <2> QED BY <2>1, FewerTxns
<1>4. PICK order \in SortedByAge(some_created, fresh) :
        keep = {order[i] : i \in (excess + 1)..n}
  BY ZenonT(60), <1>1 DEF Kept
<1>5. /\ order \in Bijection(1..n, fresh)
      /\ \A i, j \in DOMAIN order : i < j => some_created[order[i]] <= some_created[order[j]]
  BY Zenon, <1>4 DEF SortedByAge
<1>6. CASE k \notin fresh
  <2>1. ~(some_created[k] + MaxAge > now) /\ MaxAge \in Nat /\ some_created[k] \in Nat
    BY <1>2, <1>6, InboundAssumption DEF Fresh
  <2> QED BY SMTT(30), <2>1
<1>7. CASE k \in fresh
  <2> HIDE DEF cached, fresh, n, excess
  <2>1. /\ MaxEntries \in Nat
        /\ excess = IF n > MaxEntries THEN n - MaxEntries ELSE 0
    BY InboundAssumption DEF Excess, excess, n
  <2>2. /\ DOMAIN order = 1..n
        /\ \A i \in 1..n : order[i] \in fresh
        /\ \A i, j \in 1..n : order[i] = order[j] => i = j
    BY <1>5 DEF Bijection, Injection, IsInjective
  <2>3. PICK m \in 1..n : order[m] = k
    BY SMTT(30), <1>5, <1>7 DEF Bijection, Surjection
  <2>4. ~(m \in (excess + 1)..n)
    BY SMTT(30), <1>2, <1>4, <2>3
  <2>5. excess \in 0..n /\ m <= excess /\ n - excess = MaxEntries
    BY <1>3, <2>1, <2>3, <2>4
  <2>6. Cardinality(keep) = MaxEntries
    <3>1. n \in Nat /\ excess \in 0..n /\ order \in Bijection(1..n, fresh)
      BY Zenon, <1>3, <1>5, <2>5
    <3>2. Cardinality({order[i] : i \in (excess + 1)..n}) = n - excess
      BY ONLY ZenonT(60), <3>1, TailLength
    <3> QED BY Zenon, <1>4, <2>5, <3>2
  <2>7. keep \subseteq AsYoung(some_created, k)
    <3> SUFFICES ASSUME NEW i \in (excess + 1)..n
                 PROVE  order[i] \in AsYoung(some_created, k)
      BY SMTT(30), <1>4
    <3>1. i \in 1..n /\ m < i
      BY SMTT(30), <1>3, <2>3, <2>5
    <3>2. order[i] \in Txns
      BY SMTT(30), <1>3, <2>2, <3>1
    <3>3. i # m
      BY SMTT(30), <2>3, <3>1
    <3>4. order[i] # k
      BY SMTT(30), <2>2, <2>3, <3>1, <3>3
    <3>5. some_created[order[m]] <= some_created[order[i]]
      BY SMTT(30), <1>5, <2>2, <2>3, <3>1
    <3>6. some_created[order[i]] \in Nat /\ some_created[k] \in Nat
      BY <3>2
    <3> QED BY SMTT(30), <2>3, <3>2, <3>4, <3>5, <3>6 DEF AsYoung
  <2>8. AsYoung(some_created, k) \subseteq Txns
    BY DEF AsYoung
  <2>9. Cardinality(keep) <= Cardinality(AsYoung(some_created, k))
    BY <2>7, <2>8, FewerTxns
  <2> QED BY SMTT(30), <2>6, <2>9
<1> QED
  BY <1>6, <1>7

\* Who forgets responses, makes them, or moves the clock.
LEMMA CacheSteps ==
    ASSUME [Next]_vars
    PROVE  \/ UNCHANGED <<state, created, cleared>> /\ (now' = now \/ now' = now + 1)
           \/ \E q \in Requests, k \in Txns : start(q, k)
           \/ \E i \in Tasks : finish_federation_txn(i) \/ fail_federation_txn(i)
           \/ clear_cache
BY ZenonT(60) DEF Next, Arrive, TaskStep, cached_response, join_active, reject,
   wait_for_result, wait_times_out, handle_edu, begin_pdu, begin_stopping, end_pdu,
   local_failure, local_failure_stopping, handle_loose_edu, edu_task_panics, unknown_room,
   task_panics, send_failure, tick, shutdown, vars, txns

\* A cause once given stays: the clock only goes forward and the others only get younger.
LEMMA CauseStays ==
    ASSUME NEW k \in Txns, created \in [Txns -> Nat], created' \in [Txns -> Nat],
           now \in Nat, now' \in Nat, now <= now',
           created'[k] = created[k], \A j \in Txns : created[j] <= created'[j],
           \/ created[k] + MaxAge <= now
           \/ Cardinality(AsYoung(created, k)) >= MaxEntries
    PROVE  \/ created'[k] + MaxAge <= now'
           \/ Cardinality(AsYoung(created', k)) >= MaxEntries
<1>1. CASE created[k] + MaxAge <= now
  BY <1>1, InboundAssumption
<1>2. CASE Cardinality(AsYoung(created, k)) >= MaxEntries
  <2>1. AsYoung(created, k) \subseteq AsYoung(created', k) /\ AsYoung(created', k) \subseteq Txns
    BY DEF AsYoung
  <2>2. /\ Cardinality(AsYoung(created, k)) \in Nat /\ Cardinality(AsYoung(created', k)) \in Nat
        /\ Cardinality(AsYoung(created, k)) <= Cardinality(AsYoung(created', k))
    BY <2>1, FewerTxns
  <2> QED BY SMTT(30), <1>2, <2>2, InboundAssumption
<1> QED
  BY <1>1, <1>2

\* Every step gives a cause for what it forgets, and takes none away.
LEMMA CauseStep ==
    ASSUME Types, Linked, Clocked, Clocked', ForgottenForCause, [Next]_vars,
           NEW k \in Txns, created'[k] > 0, state'[k] # "Cached", k \notin cleared'
    PROVE  \/ created'[k] + MaxAge <= now'
           \/ Cardinality(AsYoung(created', k)) >= MaxEntries
<1>1. /\ now \in Nat /\ now' \in Nat
      /\ created \in [Txns -> Nat] /\ created' \in [Txns -> Nat]
      /\ \A j \in Txns : created[j] <= now
  BY SMTT(30), InboundAssumption DEF Clocked
<1>2. ASSUME created[k] > 0, state[k] # "Cached", k \notin cleared
      PROVE  \/ created[k] + MaxAge <= now
             \/ Cardinality(AsYoung(created, k)) >= MaxEntries
  BY SMTT(30), <1>2 DEF ForgottenForCause, AsYoung
<1>3. ASSUME created' = created, now <= now', state[k] # "Cached", k \notin cleared
      PROVE  \/ created'[k] + MaxAge <= now'
             \/ Cardinality(AsYoung(created', k)) >= MaxEntries
  <2>1. \A j \in Txns : created[j] <= created'[j]
    BY SMTT(30), <1>1, <1>3
  <2> QED BY SMTT(30), <1>1, <1>2, <1>3, <2>1, CauseStays
<1>4. CASE UNCHANGED <<state, created, cleared>> /\ (now' = now \/ now' = now + 1)
  <2>1. now <= now'
    BY SMTT(30), <1>1, <1>4
  <2> QED BY <1>3, <1>4, <2>1
<1>5. ASSUME NEW q \in Requests, NEW j \in Txns, start(q, j)
      PROVE  \/ created'[k] + MaxAge <= now'
             \/ Cardinality(AsYoung(created', k)) >= MaxEntries
  <2>1. /\ state[j] = "None" /\ state' = [state EXCEPT ![j] = "Active"]
        /\ UNCHANGED <<created, cleared, now>>
    BY Zenon, <1>5 DEF start
  <2>2. state[k] # "Cached"
    BY SMTT(30), <2>1 DEF Types
  <2> QED BY <1>1, <1>3, <2>1, <2>2
<1>6. ASSUME NEW i \in Tasks, fail_federation_txn(i)
      PROVE  \/ created'[k] + MaxAge <= now'
             \/ Cardinality(AsYoung(created', k)) >= MaxEntries
  <2>1. /\ Working(i) /\ state' = [state EXCEPT ![key[i]] = "None"]
        /\ UNCHANGED <<created, cleared, now>>
    BY ZenonT(60), <1>6 DEF fail_federation_txn
  <2>2. state[key[i]] = "Active"
    BY Zenon, <2>1 DEF Linked
  <2>3. state[k] # "Cached"
    BY SMTT(30), <2>1, <2>2 DEF Types
  <2> QED BY <1>1, <1>3, <2>1, <2>3
<1>7. CASE clear_cache
  <2>1. /\ state' = [j \in Txns |-> IF state[j] = "Cached" THEN "None" ELSE state[j]]
        /\ cleared' = cleared \cup Cached /\ UNCHANGED <<created, now>>
    BY ZenonT(60), <1>7 DEF clear_cache
  <2>2. state[k] # "Cached" /\ k \notin cleared
    BY ZenonT(60), <2>1 DEF Cached
  <2> QED BY <1>1, <1>3, <2>1, <2>2
<1>8. ASSUME NEW i \in Tasks, finish_federation_txn(i)
      PROVE  \/ created'[k] + MaxAge <= now'
             \/ Cardinality(AsYoung(created', k)) >= MaxEntries
  <2> DEFINE cached_state == [state EXCEPT ![key[i]] = "Cached"]
  <2>1. /\ created' = [created EXCEPT ![key[i]] = now] /\ now' = now
        /\ cleared' = cleared \ {key[i]}
        /\ Cleanup(cached_state, created') \/ state' = cached_state
    BY Zenon, <1>8 DEF finish_federation_txn
  <2>2. /\ cached_state \in [Txns -> {"None", "Active", "Cached"}]
        /\ cached_state[k] = IF k = key[i] THEN "Cached" ELSE state[k]
    BY Zenon DEF Types
  <2>3. \A j \in Txns : created'[j] = IF j = key[i] THEN now ELSE created[j]
    BY <1>1, <2>1
  <2> HIDE DEF cached_state
  <2>4. CASE cached_state[k] = "Cached"
    <3>1. Cleanup(cached_state, created')
      BY <2>1, <2>4
    <3>2. created' \in [Txns -> Nat] /\ now \in Nat
      BY <1>1
    <3>3. \/ created'[k] + MaxAge <= now
          \/ Cardinality(AsYoung(created', k)) >= MaxEntries
      BY ZenonT(60), <2>2, <2>4, <3>1, <3>2, CleanupCause
    <3> QED BY Zenon, <2>1, <3>3
  <2>5. CASE cached_state[k] # "Cached"
    <3>1. k # key[i] /\ state[k] # "Cached" /\ k \notin cleared
      BY SMTT(30), <2>1, <2>2, <2>5
    <3>2. created'[k] = created[k] /\ \A j \in Txns : created[j] <= created'[j]
      BY SMTT(30), <1>1, <2>3, <3>1
    <3>3. created[k] > 0 /\ now <= now'
      BY <1>1, <2>1, <3>2
    <3> QED BY SMTT(30), <1>1, <1>2, <3>1, <3>2, <3>3, CauseStays
  <2> QED BY <2>4, <2>5
<1> QED
  BY Zenon, <1>4, <1>5, <1>6, <1>7, <1>8, CacheSteps

\* For any limits and any order of transactions, retries, failures and clean-ups: an answered
\* transaction is forgotten, and so processed again, only when its response was too old, had
\* max_entries others at least as young, or was cleared by an administrator.
THEOREM ResponsesKept == Spec => []ForgottenForCause
<1>1. Init => Clocked
  BY SMTT(30), InboundAssumption DEF Init, Clocked
<1>2. Init => ForgottenForCause
  BY DEF Init, ForgottenForCause
<1>3. Types /\ Linked /\ Clocked /\ Clocked' /\ ForgottenForCause /\ [Next]_vars
        => ForgottenForCause'
  <2> SUFFICES ASSUME Types, Linked, Clocked, Clocked', ForgottenForCause, [Next]_vars,
                      NEW k \in Txns, created'[k] > 0, state'[k] # "Cached", k \notin cleared'
               PROVE  \/ created'[k] + MaxAge <= now'
                      \/ Cardinality(AsYoung(created', k)) >= MaxEntries
    BY Zenon DEF ForgottenForCause, AsYoung
  <2> QED BY Zenon, CauseStep
<1> QED
  BY <1>1, <1>2, <1>3, ClockedStep, LinksHold, PTL DEF Spec
=============================================================================
