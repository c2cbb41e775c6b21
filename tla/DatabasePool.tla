----------------------------- MODULE DatabasePool -----------------------------
(***************************************************************************)
(* DatabaseManager (core/database.py): the pool of Oracle connections is   *)
(* created by the first thread that wants a connection, and given up when  *)
(* the setup wizard saves other credentials, for the next thread to create *)
(* it anew.  The manager has no lock.  The route that saves credentials    *)
(* runs on the event loop, so one save follows another; everything else    *)
(* runs in worker threads.                                                 *)
(***************************************************************************)
EXTENDS Naturals, Sequences

CONSTANTS
  Threads,     \* worker threads, each serves one request at a time
  MaxSaves,    \* bound: how often credentials are saved
  MaxPools     \* bound: how many pools are created

ASSUME BoundsAssumption == MaxSaves \in Nat /\ MaxPools \in Nat

VARIABLES
  saved,        \* runtime configuration file: which credentials, the first are 0
  pools,        \* every pool create_pool has returned, the current one or not
  current,      \* _pool, as an index of pools
  initialized,  \* _initialized
  pc,           \* where each thread is in get_connection
  config,       \* the credentials a thread has resolved
  held,         \* the pool a thread has a connection of
  saver,        \* where the event loop is in save_runtime_connection_config
  refused,      \* history: the last save found the pool busy and gave up
  raced         \* history: credentials were saved while a thread created a pool

db == <<saved, pools, current, initialized>>
threads == <<pc, config, held>>
vars == <<db, threads, saver, refused, raced>>

NoPool == 0

Init ==
  /\ saved = 0
  /\ pools = <<>>
  /\ current = NoPool
  /\ initialized = FALSE
  /\ pc = [t \in Threads |-> "idle"]
  /\ config = [t \in Threads |-> 0]
  /\ held = [t \in Threads |-> NoPool]
  /\ saver = "idle"
  /\ refused = FALSE /\ raced = FALSE

Goto(t, where) == pc' = [pc EXCEPT ![t] = where]

-----------------------------------------------------------------------------
(* A worker thread: get_connection and init_pool                            *)

GetConnection(t) ==
  /\ pc[t] = "idle"
  /\ Goto(t, IF initialized THEN "check" ELSE "init")
  /\ UNCHANGED <<db, config, held, saver, refused, raced>>

\* init_pool returns at once when another thread was faster.
InitPool(t) ==
  /\ pc[t] = "init"
  /\ IF initialized
     THEN Goto(t, "check") /\ UNCHANGED config
     ELSE Goto(t, "create") /\ config' = [config EXCEPT ![t] = saved]
  /\ UNCHANGED <<db, held, saver, refused, raced>>

CreatePool(t) ==
  /\ pc[t] = "create"
  /\ Len(pools) < MaxPools
  /\ pools' = Append(pools, [credentials |-> config[t], open |-> TRUE])
  /\ current' = Len(pools) + 1
  /\ Goto(t, "flag")
  /\ UNCHANGED <<saved, initialized, config, held, saver, refused, raced>>

\* Whatever goes wrong is logged, and get_connection goes on.
CreatePoolFails(t) ==
  /\ pc[t] = "create"
  /\ Goto(t, "check")
  /\ UNCHANGED <<db, config, held, saver, refused, raced>>

SetInitialized(t) ==
  /\ pc[t] = "flag"
  /\ initialized' = TRUE
  /\ Goto(t, "check")
  /\ UNCHANGED <<saved, pools, current, config, held, saver, refused, raced>>

\* "Database pool not initialized": the caller gets an exception.
CheckPool(t) ==
  /\ pc[t] = "check"
  /\ Goto(t, IF current = NoPool THEN "idle" ELSE "acquire")
  /\ UNCHANGED <<db, config, held, saver, refused, raced>>

\* Mutant of Acquire: the pool that was checked is taken for granted.
AcquireUnchecked(t) ==
  /\ pc[t] = "acquire"
  /\ Goto(t, "connected")
  /\ held' = [held EXCEPT ![t] = current]
  /\ UNCHANGED <<db, config, saver, refused, raced>>

\* _pool is read again: it may be closed by now, or None.
Acquire(t) ==
  /\ pc[t] = "acquire"
  /\ IF current # NoPool /\ pools[current].open
     THEN Goto(t, "connected") /\ held' = [held EXCEPT ![t] = current]
     ELSE Goto(t, "idle") /\ UNCHANGED held
  /\ UNCHANGED <<db, config, saver, refused, raced>>

Release(t) ==
  /\ pc[t] = "connected"
  /\ Goto(t, "idle")
  /\ held' = [held EXCEPT ![t] = NoPool]
  /\ UNCHANGED <<db, config, saver, refused, raced>>

-----------------------------------------------------------------------------
(* The event loop: save_runtime_connection_config and close_pool            *)

\* Every step of a save notes whether a thread has credentials in its hands.
SaverStep(from) ==
  /\ saver = from
  /\ raced' = (raced \/ \E t \in Threads : pc[t] \in {"create", "flag"})
  /\ UNCHANGED threads

SaveConfig ==
  /\ SaverStep("idle")
  /\ saved < MaxSaves
  /\ saved' = saved + 1
  /\ refused' = FALSE
  /\ saver' = "saved"
  /\ UNCHANGED <<pools, current, initialized>>

\* Mutant of ClosePool: the pool is closed and kept.
ClosePoolKeeps ==
  /\ SaverStep("saved")
  /\ current # NoPool
  /\ pools' = [pools EXCEPT ![current].open = FALSE]
  /\ saver' = "cleared"
  /\ UNCHANGED <<saved, current, initialized, refused>>

NothingToClose ==
  /\ SaverStep("saved")
  /\ current = NoPool
  /\ saver' = "idle"
  /\ UNCHANGED <<db, refused>>

ClosePool ==
  /\ SaverStep("saved")
  /\ current # NoPool
  /\ \A t \in Threads : held[t] # current
  /\ pools' = [pools EXCEPT ![current].open = FALSE]
  /\ saver' = "closed"
  /\ UNCHANGED <<saved, current, initialized, refused>>

\* A pool with busy connections cannot be closed: the exception leaves the save,
\* whose configuration is written, with the pool as it was.
CloseRefused ==
  /\ SaverStep("saved")
  /\ current # NoPool
  /\ \E t \in Threads : held[t] = current
  /\ refused' = TRUE
  /\ saver' = "idle"
  /\ UNCHANGED db

ForgetPool ==
  /\ SaverStep("closed")
  /\ current' = NoPool
  /\ saver' = "cleared"
  /\ UNCHANGED <<saved, pools, initialized, refused>>

\* Mutant of ClearInitialized: only the pool is forgotten.
ClearNothing ==
  /\ SaverStep("cleared")
  /\ saver' = "idle"
  /\ UNCHANGED <<db, refused>>

ClearInitialized ==
  /\ SaverStep("cleared")
  /\ initialized' = FALSE
  /\ saver' = "idle"
  /\ UNCHANGED <<saved, pools, current, refused>>

Next ==
  \/ \E t \in Threads :
       \/ GetConnection(t) \/ InitPool(t) \/ CreatePool(t) \/ CreatePoolFails(t)
       \/ SetInitialized(t) \/ CheckPool(t) \/ Acquire(t) \/ Release(t)
  \/ SaveConfig \/ NothingToClose \/ ClosePool \/ CloseRefused
  \/ ForgetPool \/ ClearInitialized

Spec == Init /\ [][Next]_vars

-----------------------------------------------------------------------------
Pools == [credentials : 0..MaxSaves, open : BOOLEAN]

\* The types, and that a connection is held by the threads that are given one.
TypeOK ==
  /\ saved \in 0..MaxSaves
  /\ pools \in Seq(Pools) /\ Len(pools) <= MaxPools
  /\ current \in 0..Len(pools)
  /\ initialized \in BOOLEAN
  /\ pc \in [Threads -> {"idle", "init", "create", "flag", "check", "acquire", "connected"}]
  /\ config \in [Threads -> 0..MaxSaves]
  /\ held \in [Threads -> 0..Len(pools)]
  /\ \A t \in Threads : held[t] # NoPool <=> pc[t] = "connected"
  /\ saver \in {"idle", "saved", "closed", "cleared"}
  /\ refused \in BOOLEAN /\ raced \in BOOLEAN

Between == saver = "idle"

\* Once a save is over, the next connection is made with the credentials it saved,
\* unless it was told that the pool is busy or overlapped with the creation of one.
SavedCredentialsAreUsed ==
  Between /\ ~refused /\ ~raced /\ current # NoPool =>
    pools[current].open /\ pools[current].credentials = saved

\* A thread that is turned away can come back: the flag is set only while there is
\* an open pool, or else the next thread creates one. Under the same exception,
\* since a save that clears pool and flag around the flag of a creation leaves
\* the flag without a pool, and then nothing but a restart helps.
FlagMeansPool ==
  Between /\ ~raced /\ initialized => current # NoPool /\ pools[current].open

\* database.py:80 says of close_pool: "Force pool re-init with the latest
\* credentials from runtime config."
LatestCredentials ==
  Between /\ ~refused /\ current # NoPool => pools[current].credentials = saved
=============================================================================
