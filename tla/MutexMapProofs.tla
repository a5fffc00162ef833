--------------------------- MODULE MutexMapProofs ---------------------------
(***************************************************************************)
(* ExclusionUnlessRaced and MappedUnlessRaced for any finite set of tasks  *)
(* on any number of threads: the window between the count of a guard being *)
(* dropped and its removal of the entry is the only flaw of the map.       *)
(***************************************************************************)
EXTENDS MutexMap, FiniteSetTheorems, TLAPS

Referring == {"Waiting", "Trying", "Holding", "Removing"}
Owning == {"Holding", "Removing", "Unlocking"}
Leaving == {"Idle", "Unlocking", "Releasing"}

\* As long as nobody raced: whoever waits for the mutex or holds it refers to the one in the
\* map, only one task owns that one, and when a task removes the entry the others are past
\* their own removal or idle.
Sound ==
    /\ \A t \in Threads : at[t] \in Referring => map = val[t]
    /\ \A t, u \in Threads : at[t] \in Owning /\ at[u] \in Owning /\ val[t] = val[u] => t = u
    /\ \A t, u \in Threads : at[t] = "Removing" /\ t # u => at[u] \in Leaving
IInv == TypeOK /\ (raced \/ Sound)

\* A finite set with t and at most one element has no other element.
LEMMA OnlyOne ==
    ASSUME NEW S, IsFiniteSet(S), NEW t \in S, Cardinality(S) <= 1, NEW u \in S
    PROVE  u = t
<1> SUFFICES ASSUME u # t PROVE FALSE
    OBVIOUS
<1>1. Cardinality(S \ {t}) = Cardinality(S) - 1 /\ IsFiniteSet(S \ {t})
    BY FS_RemoveElement
<1>2. Cardinality(S) \in Nat /\ Cardinality(S \ {t}) \in Nat
    BY <1>1, FS_CardinalityType
<1>3. Cardinality(S \ {t}) = 0
    BY <1>1, <1>2
<1>4. S \ {t} = {}
    BY <1>1, <1>3, FS_EmptySet
<1> QED BY <1>4

\* When the task that holds the mutex of the map counts two references, the map's and its
\* own, no other task refers to that mutex or will own it.
LEMMA CountedAlone ==
    ASSUME TypeOK, Sound, NEW t \in Threads, at[t] = "Holding", strong_count(val[t]) <= 2,
           NEW u \in Threads, u # t
    PROVE  at[u] \in Leaving
<1> DEFINE S == {w \in Threads : val[w] = val[t]}
<1>1. IsFiniteSet(S)
    BY FS_Subset, MutexMapAssumption
<1>2. map = val[t]
    BY DEF Sound, Referring
<1>3. Cardinality(S) + 1 <= 2 /\ Cardinality(S) \in Nat
    BY <1>1, <1>2, FS_CardinalityType DEF strong_count
<1>4. t \in S /\ Cardinality(S) <= 1
    BY <1>3
<1>5. u \notin S
    BY <1>1, <1>4, OnlyOne
<1>6. at[u] \notin Referring
    BY <1>2, <1>5 DEF Sound
<1> QED BY <1>6 DEF TypeOK, Point, Referring, Leaving

\* An empty map with idle tasks is sound.
LEMMA InitInv == Init => IInv
<1> SUFFICES ASSUME Init PROVE IInv
    OBVIOUS
<1>1. TypeOK
  <2>1. raced \in BOOLEAN
      BY DEF Init
  <2>2. /\ at \in [Threads -> Point] /\ val \in [Threads -> 0..created]
        /\ \A t \in Threads : val[t] = 0 /\ at[t] = "Idle"
      BY DEF Init, Point
  <2>3. map \in 0..created /\ created \in 0..MaxMutex
      BY MutexMapAssumption DEF Init
  <2> QED BY <2>1, <2>2, <2>3 DEF TypeOK
<1>2. Sound
    BY DEF Init, Sound, Referring, Owning, Leaving
<1> QED BY <1>1, <1>2 DEF IInv

\* lock and try_lock: the task refers to the mutex of the map. Nobody is about to remove it,
\* or the task raced.
LEMMA CloneKeeps ==
    ASSUME IInv, NEW t \in Threads, NEW point \in {"Waiting", "Trying"}, CloneEntry(t, point)
    PROVE  IInv'
<1> USE DEF Move, Point, Referring, Owning, Leaving
<1>0. TypeOK /\ (raced \/ Sound)
    BY DEF IInv
<1>1. at[t] = "Idle" /\ at' = [at EXCEPT ![t] = point]
    BY DEF CloneEntry
<1>2. /\ map' # 0 /\ val' = [val EXCEPT ![t] = map']
      /\ map' \in 0..created' /\ created' \in 0..MaxMutex /\ created <= created'
      /\ map # 0 => map' = map
    BY <1>0, MutexMapAssumption DEF CloneEntry, TypeOK
<1>3. raced' \in BOOLEAN
    BY <1>0 DEF CloneEntry, TypeOK
<1>4. TypeOK'
    BY <1>0, <1>1, <1>2, <1>3 DEF TypeOK
<1>5. CASE Alone(t)
  <2>1. \A u \in Threads : at'[u] = IF u = t THEN point ELSE "Idle"
      BY <1>0, <1>1, <1>5 DEF Alone, TypeOK
  <2>2. val'[t] = map'
      BY <1>0, <1>2 DEF TypeOK
  <2>3. Sound'
      BY <2>1, <2>2 DEF Sound
  <2> QED BY <1>4, <2>3 DEF IInv
<1>6. CASE ~Alone(t) /\ (raced \/ \E u \in Threads : at[u] = "Removing")
    BY <1>4, <1>6 DEF CloneEntry, IInv
<1>7. CASE ~raced /\ \A u \in Threads : at[u] # "Removing"
  <2>1. Sound
      BY <1>0, <1>7
  <2>2. \A u \in Threads : at[u] \in Referring => map = val[u] /\ map # 0
      BY <1>0, <2>1 DEF Sound, TypeOK
  <2>3. \A u \in Threads : at'[u] \in Referring => map' = val'[u]
      BY <1>0, <1>1, <1>2, <2>2 DEF TypeOK
  <2>4. \A u \in Threads \ {t} : at'[u] = at[u] /\ val'[u] = val[u]
      BY <1>0, <1>1, <1>2 DEF TypeOK
  <2>5. at'[t] = point
      BY <1>0, <1>1 DEF TypeOK
  <2> QED BY <1>4, <1>7, <2>1, <2>3, <2>4, <2>5 DEF IInv, Sound
<1> QED BY <1>0, <1>5, <1>6, <1>7 DEF TypeOK

\* A task that acquires the mutex of the map becomes its only owner.
LEMMA AcquireKeeps ==
    ASSUME IInv, NEW t \in Threads, acquire(t)
    PROVE  IInv'
<1> USE DEF Move, Point, Referring, Owning, Leaving
<1>0. TypeOK /\ (raced \/ Sound)
    BY DEF IInv
<1>1. /\ at[t] \in {"Waiting", "Trying"} /\ at' = [at EXCEPT ![t] = "Holding"]
      /\ \A u \in Threads : ~Owns(u, val[t])
      /\ UNCHANGED <<map, created, val, raced>>
    BY DEF acquire
<1>2. TypeOK'
    BY <1>0, <1>1 DEF TypeOK
<1>3. CASE raced
    BY <1>1, <1>2, <1>3 DEF IInv
<1>4. CASE Sound
  <2>1. \A u \in Threads : at[u] \in Owning => val[u] # val[t]
      BY <1>1 DEF Owns
  <2>2. \A u \in Threads \ {t} : at[u] # "Removing"
      BY <1>1, <1>4 DEF Sound
  <2> QED BY <1>0, <1>1, <1>2, <1>4, <2>1, <2>2 DEF IInv, Sound, TypeOK
<1> QED BY <1>0, <1>3, <1>4

\* A guard that is dropped and counts nobody else finds the others leaving.
LEMMA DropKeeps ==
    ASSUME IInv, NEW t \in Threads, drop_guard(t)
    PROVE  IInv'
<1> USE DEF Move, Point, Referring, Owning, Leaving
<1>0. TypeOK /\ (raced \/ Sound)
    BY DEF IInv
<1>1. /\ at[t] = "Holding" /\ UNCHANGED <<map, created, val, raced>>
      /\ at' = [at EXCEPT ![t] = IF strong_count(val[t]) <= 2 THEN "Removing"
                                 ELSE "Unlocking"]
    BY DEF drop_guard
<1>2. TypeOK'
    BY <1>0, <1>1 DEF TypeOK
<1>3. CASE raced
    BY <1>1, <1>2, <1>3 DEF IInv
<1>4. CASE Sound /\ strong_count(val[t]) <= 2
  <2>1. at' = [at EXCEPT ![t] = "Removing"]
      BY <1>1, <1>4
  <2>2. \A u \in Threads \ {t} : at[u] \in Leaving
      BY <1>0, <1>1, <1>4, CountedAlone
  <2> QED BY <1>0, <1>1, <1>2, <1>4, <2>1, <2>2 DEF IInv, Sound, TypeOK
<1>5. CASE Sound /\ ~(strong_count(val[t]) <= 2)
  <2>1. at' = [at EXCEPT ![t] = "Unlocking"]
      BY <1>1, <1>5
  <2> QED BY <1>0, <1>1, <1>2, <1>5, <2>1 DEF IInv, Sound, TypeOK
<1> QED BY <1>0, <1>3, <1>4, <1>5

\* The removal takes the entry from nobody: the others are past it or idle.
LEMMA RemoveKeeps ==
    ASSUME IInv, NEW t \in Threads, remove(t)
    PROVE  IInv'
<1> USE DEF Move, Point, Referring, Owning, Leaving
<1>0. TypeOK /\ (raced \/ Sound)
    BY DEF IInv
<1>1. /\ at[t] = "Removing" /\ map' = 0 /\ at' = [at EXCEPT ![t] = "Unlocking"]
      /\ UNCHANGED <<created, val, raced>>
    BY DEF remove
<1>2. TypeOK'
    BY <1>0, <1>1 DEF TypeOK
<1>3. CASE raced
    BY <1>1, <1>2, <1>3 DEF IInv
<1>4. CASE Sound
  <2>1. \A u \in Threads \ {t} : at[u] \in Leaving
      BY <1>1, <1>4 DEF Sound
  <2> QED BY <1>0, <1>1, <1>2, <1>4, <2>1 DEF IInv, Sound, TypeOK
<1> QED BY <1>0, <1>3, <1>4

\* A task that gives up, unlocks or lets its reference go disturbs nobody.
LEMMA LeaveKeeps ==
    ASSUME IInv, NEW t \in Threads,
           try_lock_fails(t) \/ cancelled(t) \/ unlock(t) \/ release(t)
    PROVE  IInv'
<1> USE DEF Move, Point, Referring, Owning, Leaving
<1>0. TypeOK /\ (raced \/ Sound)
    BY DEF IInv
<1>1. CASE unlock(t)
  <2>1. /\ at[t] = "Unlocking" /\ at' = [at EXCEPT ![t] = "Releasing"]
        /\ UNCHANGED <<map, created, val, raced>>
      BY <1>1 DEF unlock
  <2>2. TypeOK'
      BY <1>0, <2>1 DEF TypeOK
  <2> QED BY <1>0, <2>1, <2>2 DEF IInv, Sound, TypeOK
<1>2. CASE try_lock_fails(t) \/ cancelled(t) \/ release(t)
  <2>1. /\ at' = [at EXCEPT ![t] = "Idle"] /\ val' = [val EXCEPT ![t] = 0]
        /\ UNCHANGED <<map, created, raced>>
      BY <1>2 DEF try_lock_fails, cancelled, release
  <2>2. TypeOK'
      BY <1>0, <2>1 DEF TypeOK
  <2> QED BY <1>0, <2>1, <2>2 DEF IInv, Sound, TypeOK
<1> QED BY <1>1, <1>2

\* Every step keeps the invariant.
LEMMA StepInv == IInv /\ [Next]_vars => IInv'
<1> SUFFICES ASSUME IInv, [Next]_vars PROVE IInv'
    OBVIOUS
<1>1. CASE UNCHANGED vars
    BY <1>1 DEF IInv, Sound, TypeOK, vars
<1>2. ASSUME NEW t \in Threads, lock(t) \/ try_lock(t)
      PROVE  IInv'
    BY <1>2, CloneKeeps DEF lock, try_lock
<1> QED BY <1>1, <1>2, AcquireKeeps, DropKeeps, RemoveKeeps, LeaveKeeps DEF Next, DropStep

\* For any finite number of tasks that lock, try, give up and drop on several threads, two
\* hold guards of one key only after one of them came between Guard::drop's count and removal.
THEOREM ExclusionHolds == Spec => []ExclusionUnlessRaced
<1>1. IInv => ExclusionUnlessRaced
    BY DEF IInv, Sound, ExclusionUnlessRaced, MutualExclusion, Owning, Referring
<1> QED BY <1>1, InitInv, StepInv, PTL DEF Spec

\* But for the same window, the mutex of a guard that is held is the one in the map.
THEOREM MappedHolds == Spec => []MappedUnlessRaced
<1>1. IInv => MappedUnlessRaced
    BY DEF IInv, Sound, MappedUnlessRaced, Referring
<1> QED BY <1>1, InitInv, StepInv, PTL DEF Spec
=============================================================================
