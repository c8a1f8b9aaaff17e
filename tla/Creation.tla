------------------------------ MODULE Creation ------------------------------
(***************************************************************************)
(* Client::create and the end of a client, by several threads of one       *)
(* process: the claim on the database, the default FileSink with a claim   *)
(* of its own, opening and recovering the store, handing everything to the *)
(* client, and the order in which a failed creation or a destroyed client  *)
(* lets go of it.                                                          *)
(*                                                                         *)
(* One step is one operation on the registry, on a database or on a file.  *)
(* What SqliteStore and Delivery model is left out here: opening and       *)
(* recovering the store succeed or fail, and the worker has been joined    *)
(* before a client lets go of anything.  A sink that Config supplies is    *)
(* external, with whatever claim it has.                                   *)
(***************************************************************************)
EXTENDS PathRegistry

CONSTANTS
    Threads,    \* threads that create clients
    SinkPaths   \* names of default output files, from Config::app_id

\* Each thread has the storage_claim of create, the client's storage_claim_
\* and its FileSink's claim_.
ASSUME CreationAssumption ==
    /\ Claims = Threads \X {"local", "client", "sink"}
    /\ SinkPaths \subseteq Paths \ InMemory

VARIABLES
    at,         \* where each thread's create or destruction is
    dbPath,     \* Config::storage_path
    sinkPath,   \* the default sink's path, NoPath with a Config::sink
    dbOpen,     \* the store has its database open
    fileOpen    \* the FileSink has its file open

creationVars == <<at, dbPath, sinkPath, dbOpen, fileOpen>>
allVars == <<vars, creationVars>>

local(t) == <<t, "local">>
client(t) == <<t, "client">>
sink(t) == <<t, "sink">>

CreationTypeOK ==
    /\ at \in [Threads -> {"none", "sink", "open", "recover", "construct",
                           "live", "close_store", "close_sink", "release",
                           "unwind", "release_local", "release_sink"}]
    /\ dbPath \in [Threads -> Paths \cup {NoPath}]
    /\ sinkPath \in [Threads -> SinkPaths \cup {NoPath}]
    /\ dbOpen \in [Threads -> BOOLEAN]
    /\ fileOpen \in [Threads -> BOOLEAN]

CreationInit ==
    /\ Init
    /\ at = [t \in Threads |-> "none"]
    /\ dbPath = [t \in Threads |-> NoPath]
    /\ sinkPath = [t \in Threads |-> NoPath]
    /\ dbOpen = [t \in Threads |-> FALSE]
    /\ fileOpen = [t \in Threads |-> FALSE]

Goto(t, there) == at' = [at EXCEPT ![t] = there]

\* As Goto; a thread that has let go of everything forgets its paths too.
Leave(t, there) ==
    /\ Goto(t, there)
    /\ dbPath' = IF there = "none" THEN [dbPath EXCEPT ![t] = NoPath] ELSE dbPath
    /\ sinkPath' = IF there = "none" THEN [sinkPath EXCEPT ![t] = NoPath] ELSE sinkPath

-----------------------------------------------------------------------------
(* create *)

\* A configuration that validate_config accepts; the storage path is claimed,
\* or the call returns with nothing.
ClaimStorage(t, p, s) ==
    /\ at[t] = "none"
    /\ Acquire(local(t), p)
    /\ Goto(t, IF uses'[local(t)] = p THEN "sink" ELSE "none")
    /\ dbPath' = [dbPath EXCEPT ![t] = IF uses'[local(t)] = p THEN p ELSE NoPath]
    /\ sinkPath' = [sinkPath EXCEPT ![t] = IF uses'[local(t)] = p THEN s ELSE NoPath]
    /\ UNCHANGED <<dbOpen, fileOpen>>

\* Variant: a sink that cannot be claimed is an early return that leaves the
\* storage claim in the registry.
ClaimSinkLeaks(t) ==
    /\ at[t] = "sink"
    /\ \/ sinkPath[t] = NoPath /\ UNCHANGED vars
       \/ sinkPath[t] # NoPath /\ Acquire(sink(t), sinkPath[t])
    /\ Goto(t, IF uses'[sink(t)] = sinkPath[t] THEN "open" ELSE "none")
    /\ UNCHANGED <<dbPath, sinkPath, dbOpen, fileOpen>>

\* With no Config::sink a FileSink's constructor claims its path, and create
\* asks failed().
ClaimSink(t) ==
    /\ at[t] = "sink"
    /\ \/ sinkPath[t] = NoPath /\ UNCHANGED vars
       \/ sinkPath[t] # NoPath /\ Acquire(sink(t), sinkPath[t])
    /\ Goto(t, IF uses'[sink(t)] = sinkPath[t] THEN "open" ELSE "release_local")
    /\ UNCHANGED <<dbPath, sinkPath, dbOpen, fileOpen>>

OpenStore(t) ==
    /\ at[t] = "open"
    /\ \/ Goto(t, "recover") /\ dbOpen' = [dbOpen EXCEPT ![t] = TRUE]
       \/ Goto(t, "release_local") /\ UNCHANGED dbOpen
    /\ UNCHANGED <<vars, dbPath, sinkPath, fileOpen>>

\* revocation_pending, the purge it may call for, count and max_ordinal.
Recover(t) ==
    /\ at[t] = "recover"
    /\ Goto(t, "construct") \/ Goto(t, "unwind")
    /\ UNCHANGED <<vars, dbPath, sinkPath, dbOpen, fileOpen>>

\* The constructor of Impl takes the claim, the store and the sink; starting
\* the worker's thread may throw, which destroys what has been constructed.
Construct(t) ==
    /\ at[t] = "construct"
    /\ Move(local(t), client(t))
    /\ Goto(t, "live") \/ Goto(t, "close_store")
    /\ UNCHANGED <<dbPath, sinkPath, dbOpen, fileOpen>>

\* A creation that failed with the store open: the locals go in reverse order,
\* the store before the claim, then the configuration with the sink.
Unwind(t) ==
    /\ at[t] = "unwind"
    /\ dbOpen' = [dbOpen EXCEPT ![t] = FALSE]
    /\ Goto(t, "release_local")
    /\ UNCHANGED <<vars, dbPath, sinkPath, fileOpen>>

ReleaseLocal(t) ==
    /\ at[t] = "release_local"
    /\ Release(local(t))
    /\ Goto(t, "release_sink")
    /\ UNCHANGED <<dbPath, sinkPath, dbOpen, fileOpen>>

ReleaseSink(t) ==
    /\ at[t] = "release_sink"
    /\ Release(sink(t))
    /\ Leave(t, "none")
    /\ UNCHANGED <<dbOpen, fileOpen>>

-----------------------------------------------------------------------------
(* A live client and its end *)

\* The worker's first write opens the default sink's file.
FirstWrite(t) ==
    /\ at[t] = "live" /\ sinkPath[t] # NoPath /\ ~fileOpen[t]
    /\ fileOpen' = [fileOpen EXCEPT ![t] = TRUE]
    /\ UNCHANGED <<vars, at, dbPath, sinkPath, dbOpen>>

\* Variant: storage_claim_ is declared after pipeline_, and so goes first.
ClaimFirst(here) ==
    CASE here = "live" -> "release"
      [] here = "release" -> "close_store"
      [] here = "close_store" -> "close_sink"
      [] here = "close_sink" -> "none"

\* The order in which ~Impl and the destruction of its members go: the worker
\* is joined, then pipeline_ goes, its store_ before its sink, and then
\* storage_claim_, which is declared before it.
After(here) ==
    CASE here = "live" -> "close_store"
      [] here = "close_store" -> "close_sink"
      [] here = "close_sink" -> "release"
      [] here = "release" -> "none"

\* ~Impl has joined the worker.
Destroy(t) ==
    /\ at[t] = "live"
    /\ Leave(t, After("live"))
    /\ UNCHANGED <<vars, dbOpen, fileOpen>>

CloseStore(t) ==
    /\ at[t] = "close_store"
    /\ dbOpen' = [dbOpen EXCEPT ![t] = FALSE]
    /\ Leave(t, After("close_store"))
    /\ UNCHANGED <<vars, fileOpen>>

\* The FileSink closes its file, then releases its claim.
CloseSink(t) ==
    /\ at[t] = "close_sink"
    /\ fileOpen' = [fileOpen EXCEPT ![t] = FALSE]
    /\ Release(sink(t))
    /\ Leave(t, After("close_sink"))
    /\ UNCHANGED dbOpen

ReleaseStorage(t) ==
    /\ at[t] = "release"
    /\ Release(client(t))
    /\ Leave(t, After("release"))
    /\ UNCHANGED <<dbOpen, fileOpen>>

CreationNext ==
    \E t \in Threads :
      \/ \E p \in Paths, s \in SinkPaths \cup {NoPath} : ClaimStorage(t, p, s)
      \/ ClaimSink(t) \/ OpenStore(t) \/ Recover(t) \/ Construct(t)
      \/ Unwind(t) \/ ReleaseLocal(t) \/ ReleaseSink(t)
      \/ FirstWrite(t) \/ Destroy(t)
      \/ CloseStore(t) \/ CloseSink(t) \/ ReleaseStorage(t)

CreationSpec == CreationInit /\ [][CreationNext]_allVars

-----------------------------------------------------------------------------
(* Properties *)

\* What thread t has open on disk under the name p.
Opened(t) ==
    (IF dbOpen[t] THEN {<<"db", dbPath[t]>>} ELSE {}) \cup
    (IF fileOpen[t] THEN {<<"file", sinkPath[t]>>} ELSE {})

\* At no time are two databases or output files open on one file, under
\* whatever names, also while one client is being destroyed and another
\* created, and also when the two are one client's (create, ~Impl, ~FileSink).
OneUserPerFile ==
    \A t, u \in Threads : \A o \in Opened(t), q \in Opened(u) :
      /\ <<t, o>> # <<u, q>>
      /\ {o[2], q[2]} \subseteq Paths \ InMemory
      => Normal(o[2]) # Normal(q[2])

\* A thread whose create failed, or whose client is gone, holds no claim and
\* has nothing open, so that the same paths can be used again (the early
\* returns and the catch of create, ~Impl).
NothingLeftBehind ==
    \A t \in Threads :
      at[t] = "none" =>
        /\ \A k \in {"local", "client", "sink"} : ~held(<<t, k>>)
        /\ ~dbOpen[t] /\ ~fileOpen[t]

\* Which claim of a thread stands for the database and which for the output
\* file at each point, and that nothing is open or held at any other.
ThreadInv(t) ==
    /\ IF at[t] \in {"sink", "open", "recover", "construct", "unwind",
                     "release_local"}
       THEN uses[local(t)] = dbPath[t] /\ dbPath[t] \in Paths
       ELSE key[local(t)] = NoPath /\ uses[local(t)] = NoPath
    /\ IF at[t] \in {"live", "close_store", "close_sink", "release"}
       THEN uses[client(t)] = dbPath[t] /\ dbPath[t] \in Paths
       ELSE key[client(t)] = NoPath /\ uses[client(t)] = NoPath
    /\ at[t] \in {"open", "recover", "construct", "unwind", "live",
                  "close_store", "close_sink"} => uses[sink(t)] = sinkPath[t]
    /\ at[t] \in {"none", "sink", "release"} =>
         key[sink(t)] = NoPath /\ uses[sink(t)] = NoPath
    /\ dbOpen[t] => at[t] \in {"recover", "construct", "unwind", "live",
                               "close_store"}
    /\ fileOpen[t] => at[t] \in {"live", "close_store", "close_sink"}
                      /\ sinkPath[t] # NoPath

\* What makes these inductive: the registry's own invariant, and at every point
\* of create and of the destruction the claims that go with what is open.
CreationInv ==
    /\ CreationTypeOK
    /\ RegistryInv
    /\ \A t \in Threads : ThreadInv(t)
=============================================================================
