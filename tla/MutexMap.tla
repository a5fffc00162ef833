------------------------------ MODULE MutexMap ------------------------------
(***************************************************************************)
(* The map of mutexes of core/utils/mutex_map.rs, which serialises work per *)
(* room, event, user, server or transaction throughout the server. The     *)
(* entries of different keys do not touch, so one key is modelled.         *)
(*                                                                         *)
(* A mutex is shared by reference counting: the map holds one reference    *)
(* and so does every waiter and every guard. A guard that is dropped takes *)
(* the entry out of the map when it counts no reference but the map's and  *)
(* its own. Taking a reference and removing the entry are done under the   *)
(* lock of the map; the count is read outside it, and the tasks of the     *)
(* multi-threaded runtime run in between.                                  *)
(***************************************************************************)
EXTENDS Naturals, FiniteSets

CONSTANTS
    Threads,   \* the tasks that lock the key
    GiveUp,    \* whether tasks use try_lock or drop the future of lock()
    MaxMutex   \* bound on the mutexes created for the key

ASSUME MutexMapAssumption ==
    IsFiniteSet(Threads) /\ GiveUp \in BOOLEAN /\ MaxMutex \in Nat

VARIABLES
    map,      \* the mutex in the map, 0 when the key is absent
    created,  \* mutexes created so far
    at,       \* where each task stands
    val,      \* the mutex each task holds a reference to, 0 for none
    raced     \* history: a task met the entry between another's count and its removal
vars == <<map, created, at, val, raced>>

Point == {"Idle", "Waiting", "Trying", "Holding", "Removing", "Unlocking", "Releasing"}

Init ==
    /\ map = 0 /\ created = 0
    /\ at = [t \in Threads |-> "Idle"]
    /\ val = [t \in Threads |-> 0]
    /\ raced = FALSE

Move(t, point) == at' = [at EXCEPT ![t] = point]

\* The task that owns a mutex: it has acquired it and not unlocked it yet.
Owns(t, m) == val[t] = m /\ at[t] \in {"Holding", "Removing", "Unlocking"}

\* Nobody else refers to a mutex of the key: whatever went wrong before is over.
Alone(t) == \A u \in Threads \ {t} : at[u] = "Idle"

\* entry(key).or_default().clone(), under the lock of the map.
CloneEntry(t, point) ==
    /\ at[t] = "Idle"
    /\ IF map = 0
       THEN /\ created < MaxMutex
            /\ created' = created + 1
            /\ map' = created + 1
            /\ val' = [val EXCEPT ![t] = created + 1]
       ELSE val' = [val EXCEPT ![t] = map] /\ UNCHANGED <<map, created>>
    /\ Move(t, point)
    /\ raced' = IF Alone(t) THEN FALSE ELSE raced \/ \E u \in Threads : at[u] = "Removing"

lock(t) == CloneEntry(t, "Waiting")
try_lock(t) == GiveUp /\ CloneEntry(t, "Trying")

\* Mutant: the mutex is taken while it is owned.
acquire_Owned(t) ==
    /\ at[t] \in {"Waiting", "Trying"}
    /\ Move(t, "Holding")
    /\ UNCHANGED <<map, created, val, raced>>

\* lock_owned returns, or try_lock_owned finds the mutex free.
acquire(t) ==
    /\ at[t] \in {"Waiting", "Trying"}
    /\ \A u \in Threads : ~Owns(u, val[t])
    /\ Move(t, "Holding")
    /\ UNCHANGED <<map, created, val, raced>>

\* try_lock_owned fails: the reference is dropped and the entry stays.
try_lock_fails(t) ==
    /\ at[t] = "Trying"
    /\ \E u \in Threads : Owns(u, val[t])
    /\ Move(t, "Idle")
    /\ val' = [val EXCEPT ![t] = 0]
    /\ UNCHANGED <<map, created, raced>>

\* The future of lock() is dropped before it has the mutex.
cancelled(t) ==
    /\ GiveUp
    /\ at[t] = "Waiting"
    /\ Move(t, "Idle")
    /\ val' = [val EXCEPT ![t] = 0]
    /\ UNCHANGED <<map, created, raced>>

strong_count(m) ==
    Cardinality({t \in Threads : val[t] = m}) + (IF map = m THEN 1 ELSE 0)

\* Mutant: the entry goes with every guard, whoever else refers to the mutex.
drop_guard_Always(t) ==
    /\ at[t] = "Holding"
    /\ Move(t, "Removing")
    /\ UNCHANGED <<map, created, val, raced>>

\* Guard::drop reads the count.
drop_guard(t) ==
    /\ at[t] = "Holding"
    /\ Move(t, IF strong_count(val[t]) <= 2 THEN "Removing" ELSE "Unlocking")
    /\ UNCHANGED <<map, created, val, raced>>

\* The entry of the key is removed, whichever mutex it holds by now.
remove(t) ==
    /\ at[t] = "Removing"
    /\ map' = 0
    /\ Move(t, "Unlocking")
    /\ UNCHANGED <<created, val, raced>>

\* Mutant: the guard is forgotten and its mutex stays locked.
unlock_Forgotten(t) ==
    /\ at[t] = "Unlocking"
    /\ UNCHANGED vars

\* The fields of the guard are dropped: the mutex is unlocked, then the reference goes.
unlock(t) ==
    /\ at[t] = "Unlocking"
    /\ Move(t, "Releasing")
    /\ UNCHANGED <<map, created, val, raced>>

release(t) ==
    /\ at[t] = "Releasing"
    /\ Move(t, "Idle")
    /\ val' = [val EXCEPT ![t] = 0]
    /\ UNCHANGED <<map, created, raced>>

DropStep(t) == drop_guard(t) \/ remove(t) \/ unlock(t) \/ release(t)

Next ==
    \E t \in Threads :
        lock(t) \/ try_lock(t) \/ acquire(t) \/ try_lock_fails(t) \/ cancelled(t) \/ DropStep(t)

Spec == Init /\ [][Next]_vars

\* Guards are dropped in the end, and the queue of a mutex is first come, first served.
FairSpec ==
    Spec /\ \A t \in Threads : WF_vars(DropStep(t)) /\ SF_vars(acquire(t))

-----------------------------------------------------------------------------
(* Properties *)

\* The map holds a mutex that was created, and a task refers to a mutex exactly when it is
\* not idle.
TypeOK ==
    /\ map \in 0..created /\ created \in 0..MaxMutex
    /\ at \in [Threads -> Point] /\ val \in [Threads -> 0..created]
    /\ raced \in BOOLEAN
    /\ \A t \in Threads : val[t] = 0 <=> at[t] = "Idle"

\* Two tasks never hold guards of the same key at the same time: what every user of the map
\* relies on. It fails: see ExclusionUnlessRaced for the only way it can.
MutualExclusion == \A t, u \in Threads : at[t] = "Holding" /\ at[u] = "Holding" => t = u

\* Two tasks hold guards of the same key at the same time only after a task took a reference
\* between the count of a guard being dropped and its removal of the entry. No other order of
\* locking, giving up, and dropping on several threads leads there, and it is over once the
\* key was left by everyone.
ExclusionUnlessRaced == raced \/ MutualExclusion

\* But for the same window, the key of a guard that is held is in the map, with the guard's
\* mutex, so that whoever locks the key meets it: a drop takes no entry that is in use.
MappedUnlessRaced == raced \/ \A t \in Threads : at[t] = "Holding" => map = val[t]

\* A task that waits gets the mutex, or gives up.
WaiterServed == \A t \in Threads : at[t] = "Waiting" ~> at[t] \in {"Holding", "Idle"}
=============================================================================
