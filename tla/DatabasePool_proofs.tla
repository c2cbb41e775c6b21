-------------------------- MODULE DatabasePool_proofs --------------------------
(***************************************************************************)
(* Theorems about DatabasePool, for any threads, saves and pools.          *)
(***************************************************************************)
EXTENDS DatabasePool, SequenceTheorems, TLAPS

(***************************************************************************)
(* The current pool is closed, and nothing else about the pools changes    *)
(***************************************************************************)

LEMMA PoolCloses ==
  ASSUME TypeOK, ClosePool
  PROVE  /\ pools' \in Seq(Pools)
         /\ Len(pools') = Len(pools)
<1> DEFINE closed == [pools[current] EXCEPT !.open = FALSE]
<1>1. current \in 1..Len(pools) /\ pools \in Seq(Pools)
  BY DEF ClosePool, TypeOK, NoPool
<1>2. pools[current] \in Pools
  BY <1>1
<1>3. closed \in Pools
  BY <1>2 DEF Pools
<1>4. pools' = [pools EXCEPT ![current] = closed]
  BY DEF ClosePool
<1> QED
  BY <1>1, <1>3, <1>4, ExceptSeq

(***************************************************************************)
(* Types                                                                   *)
(***************************************************************************)

\* The variables of the manager keep their types, whatever the threads and the
\* event loop do.
THEOREM PoolTypeCorrect == Spec => []TypeOK
<1>1. Init => TypeOK
  <2> SUFFICES ASSUME Init PROVE TypeOK
    OBVIOUS
  <2>1. pools \in Seq(Pools) /\ Len(pools) = 0
    BY DEF Init
  <2>2. /\ saved \in 0..MaxSaves /\ Len(pools) <= MaxPools /\ current \in 0..Len(pools)
        /\ \A t \in Threads : config[t] = 0 /\ held[t] = 0 /\ pc[t] = "idle"
    BY <2>1, BoundsAssumption DEF Init, NoPool
  <2>3. config \in [Threads -> 0..MaxSaves] /\ held \in [Threads -> 0..Len(pools)]
    BY <2>1, BoundsAssumption DEF Init, NoPool
  <2>4. initialized \in BOOLEAN /\ refused \in BOOLEAN /\ raced \in BOOLEAN
    BY DEF Init
  <2>5. saver \in {"idle", "saved", "closed", "cleared"}
    BY DEF Init
  <2>6. pc \in [Threads -> {"idle", "init", "create", "flag", "check", "acquire", "connected"}]
    BY DEF Init
  <2> QED
    BY <2>1, <2>2, <2>3, <2>4, <2>5, <2>6 DEF TypeOK, NoPool
<1>2. TypeOK /\ [Next]_vars => TypeOK'
  <2> SUFFICES ASSUME TypeOK, [Next]_vars PROVE TypeOK'
    OBVIOUS
  <2> USE BoundsAssumption DEF TypeOK, NoPool
  <2>1. ASSUME NEW t \in Threads, GetConnection(t) PROVE TypeOK'
    BY <2>1 DEF GetConnection, Goto, db
  <2>2. ASSUME NEW t \in Threads, InitPool(t) PROVE TypeOK'
    BY <2>2 DEF InitPool, Goto, db
  <2>3. ASSUME NEW t \in Threads, CreatePool(t) PROVE TypeOK'
    <3>1. [credentials |-> config[t], open |-> TRUE] \in Pools
      BY <2>3 DEF Pools
    <3>2. pools' \in Seq(Pools) /\ Len(pools') = Len(pools) + 1
      BY <2>3, <3>1 DEF CreatePool
    <3> QED
      BY <2>3, <3>2 DEF CreatePool, Goto
  <2>4. ASSUME NEW t \in Threads, CreatePoolFails(t) PROVE TypeOK'
    BY <2>4 DEF CreatePoolFails, Goto, db
  <2>5. ASSUME NEW t \in Threads, SetInitialized(t) PROVE TypeOK'
    BY <2>5 DEF SetInitialized, Goto
  <2>6. ASSUME NEW t \in Threads, CheckPool(t) PROVE TypeOK'
    <3>1. pc[t] = "check" /\ held[t] = NoPool
      BY <2>6 DEF CheckPool
    <3> QED
      BY <2>6, <3>1 DEF CheckPool, Goto, db
  <2>7. ASSUME NEW t \in Threads, Acquire(t) PROVE TypeOK'
    <3>1. CASE current # NoPool /\ pools[current].open
      BY <2>7, <3>1 DEF Acquire, Goto, db
    <3>2. CASE ~(current # NoPool /\ pools[current].open)
      BY <2>7, <3>2 DEF Acquire, Goto, db
    <3> QED
      BY <3>1, <3>2
  <2>8. ASSUME NEW t \in Threads, Release(t) PROVE TypeOK'
    BY <2>8 DEF Release, Goto, db
  <2>9. CASE SaveConfig
    <3>1. raced' \in BOOLEAN
      BY <2>9, Zenon DEF SaveConfig, SaverStep
    <3>2. saved' \in 0..MaxSaves
      BY <2>9 DEF SaveConfig
    <3> QED
      BY <2>9, <3>1, <3>2 DEF SaveConfig, SaverStep, threads
  <2>10. CASE NothingToClose
    BY <2>10 DEF NothingToClose, SaverStep, threads, db
  <2>11. CASE ClosePool
    <3>1. pools' \in Seq(Pools) /\ Len(pools') = Len(pools)
      BY <2>11, PoolCloses
    <3> QED
      BY <2>11, <3>1 DEF ClosePool, SaverStep, threads
  <2>12. CASE CloseRefused
    BY <2>12 DEF CloseRefused, SaverStep, threads, db
  <2>13. CASE ForgetPool
    BY <2>13 DEF ForgetPool, SaverStep, threads
  <2>14. CASE ClearInitialized
    BY <2>14 DEF ClearInitialized, SaverStep, threads
  <2>15. CASE UNCHANGED vars
    BY <2>15 DEF vars, db, threads
  <2> QED
    BY <2>1, <2>2, <2>3, <2>4, <2>5, <2>6, <2>7, <2>8, <2>9, <2>10, <2>11,
       <2>12, <2>13, <2>14, <2>15 DEF Next
<1> QED
  BY <1>1, <1>2, PTL DEF Spec

(***************************************************************************)
(* The flag and the credentials                                            *)
(***************************************************************************)

Creating(t) == pc[t] \in {"create", "flag"}
UpToDate == current # NoPool /\ pools[current].open /\ pools[current].credentials = saved

\* The strengthening: as long as no save overlapped with the creation of a pool,
\* a thread that creates one has the saved credentials in its hands, flag and
\* pool come and go together, and nobody starts to create a pool while the old one
\* is being cleared away, because its flag is still set.
PoolInvariant ==
  /\ ~raced =>
       /\ \A t \in Threads : Creating(t) => config[t] = saved
       /\ \A t \in Threads : pc[t] = "flag" => UpToDate
       /\ saver \in {"idle", "saved"} =>
            /\ initialized => current # NoPool /\ pools[current].open
            /\ current # NoPool => initialized \/ \E t \in Threads : pc[t] = "flag"
       /\ saver \in {"closed", "cleared"} =>
            initialized /\ \A t \in Threads : ~Creating(t)
       /\ saver = "cleared" => current = NoPool
  /\ SavedCredentialsAreUsed

\* What CreatePool puts in place is up to date if its credentials are.
LEMMA NewPool ==
  ASSUME TypeOK, NEW t \in Threads, CreatePool(t), config[t] = saved
  PROVE  UpToDate'
<1>1. current' = Len(pools) + 1 /\ saved' = saved
  BY DEF CreatePool
<1>2. pools' = Append(pools, [credentials |-> config[t], open |-> TRUE])
  BY DEF CreatePool
<1>3. pools'[current'] = [credentials |-> config[t], open |-> TRUE]
  BY <1>1, <1>2 DEF TypeOK
<1> QED
  BY <1>1, <1>3 DEF UpToDate, NoPool, TypeOK

\* Beginning a step of a save while a thread creates a pool is a race.
LEMMA SaverRaces ==
  ASSUME NEW from, SaverStep(from), ~raced'
  PROVE  /\ ~raced /\ saver = from
         /\ \A t \in Threads : ~Creating(t) /\ ~Creating(t)'
<1>1. ~raced /\ ~\E t \in Threads : pc[t] \in {"create", "flag"}
  BY DEF SaverStep
<1>2. pc' = pc /\ saver = from
  BY DEF SaverStep, threads
<1> QED
  BY <1>1, <1>2 DEF Creating

\* PoolInvariant is inductive.
THEOREM PoolInvariance == Spec => []PoolInvariant
<1>1. Init => PoolInvariant
  BY DEF Init, PoolInvariant, Creating, SavedCredentialsAreUsed, NoPool
<1>2. PoolInvariant /\ TypeOK /\ TypeOK' /\ [Next]_vars => PoolInvariant'
  <2> SUFFICES ASSUME PoolInvariant, TypeOK, TypeOK', [Next]_vars, ~raced'
               PROVE  PoolInvariant'
    BY DEF PoolInvariant, SavedCredentialsAreUsed
  <2> USE DEF NoPool
  <2>1. ASSUME NEW t \in Threads, GetConnection(t) PROVE PoolInvariant'
    BY <2>1 DEF GetConnection, Goto, db, PoolInvariant, SavedCredentialsAreUsed, Creating, UpToDate, Between, TypeOK
  <2>2. ASSUME NEW t \in Threads, InitPool(t) PROVE PoolInvariant'
    BY <2>2 DEF InitPool, Goto, db, PoolInvariant, SavedCredentialsAreUsed, Creating, UpToDate, Between, TypeOK
  <2>3. ASSUME NEW t \in Threads, CreatePool(t) PROVE PoolInvariant'
    <3>1. UpToDate' /\ pc'[t] = "flag"
      BY <2>3, NewPool DEF CreatePool, Goto, PoolInvariant, Creating, TypeOK
    <3>2. saver \in {"idle", "saved"}
      BY <2>3 DEF CreatePool, PoolInvariant, Creating, TypeOK
    <3> QED
      BY <2>3, <3>1, <3>2 DEF CreatePool, Goto, PoolInvariant, SavedCredentialsAreUsed, Creating, UpToDate, Between, TypeOK
  <2>4. ASSUME NEW t \in Threads, CreatePoolFails(t) PROVE PoolInvariant'
    BY <2>4 DEF CreatePoolFails, Goto, db, PoolInvariant, SavedCredentialsAreUsed, Creating, UpToDate, Between, TypeOK
  <2>5. ASSUME NEW t \in Threads, SetInitialized(t) PROVE PoolInvariant'
    BY <2>5 DEF SetInitialized, Goto, PoolInvariant, SavedCredentialsAreUsed, Creating, UpToDate, Between, TypeOK
  <2>6. ASSUME NEW t \in Threads, CheckPool(t) PROVE PoolInvariant'
    BY <2>6 DEF CheckPool, Goto, db, PoolInvariant, SavedCredentialsAreUsed, Creating, UpToDate, Between, TypeOK
  <2>7. ASSUME NEW t \in Threads, Acquire(t) PROVE PoolInvariant'
    BY <2>7 DEF Acquire, Goto, db, PoolInvariant, SavedCredentialsAreUsed, Creating, UpToDate, Between, TypeOK
  <2>8. ASSUME NEW t \in Threads, Release(t) PROVE PoolInvariant'
    BY <2>8 DEF Release, Goto, db, PoolInvariant, SavedCredentialsAreUsed, Creating, UpToDate, Between, TypeOK
  <2>9. CASE SaveConfig
    BY <2>9, SaverRaces DEF SaveConfig, PoolInvariant, SavedCredentialsAreUsed, Creating, Between, TypeOK
  <2>10. CASE NothingToClose
    BY <2>10, SaverRaces DEF NothingToClose, db, PoolInvariant, SavedCredentialsAreUsed, Creating, Between, TypeOK
  <2>11. CASE ClosePool
    BY <2>11, SaverRaces DEF ClosePool, PoolInvariant, SavedCredentialsAreUsed, Creating, Between, TypeOK
  <2>12. CASE CloseRefused
    BY <2>12, SaverRaces DEF CloseRefused, db, PoolInvariant, SavedCredentialsAreUsed, Creating, Between, TypeOK
  <2>13. CASE ForgetPool
    BY <2>13, SaverRaces DEF ForgetPool, PoolInvariant, SavedCredentialsAreUsed, Creating, Between, TypeOK
  <2>14. CASE ClearInitialized
    BY <2>14, SaverRaces DEF ClearInitialized, PoolInvariant, SavedCredentialsAreUsed, Creating, Between, TypeOK
  <2>15. CASE UNCHANGED vars
    BY <2>15 DEF vars, db, threads, PoolInvariant, SavedCredentialsAreUsed, Creating, UpToDate, Between, TypeOK
  <2> QED
    BY <2>1, <2>2, <2>3, <2>4, <2>5, <2>6, <2>7, <2>8, <2>9, <2>10, <2>11,
       <2>12, <2>13, <2>14, <2>15 DEF Next
<1> QED
  BY <1>1, <1>2, PoolTypeCorrect, PTL DEF Spec

\* Once a save is over, the next connection is made with the credentials it saved,
\* unless it was told that the pool is busy or a thread was creating one meanwhile.
THEOREM CredentialsAreUsed == Spec => []SavedCredentialsAreUsed
<1>1. PoolInvariant => SavedCredentialsAreUsed
  BY DEF PoolInvariant
<1> QED
  BY <1>1, PoolInvariance, PTL

\* The flag is never left set without a pool, so that a thread that was turned away
\* can come back, unless a save overlapped with the creation of a pool.
THEOREM FlagIsHonest == Spec => []FlagMeansPool
<1>1. PoolInvariant => FlagMeansPool
  BY DEF PoolInvariant, FlagMeansPool, Between
<1> QED
  BY <1>1, PoolInvariance, PTL
=============================================================================
