--------------------------- MODULE CreationProofs ---------------------------
(***************************************************************************)
(* The path registry keeps every file to one owner, for any number of      *)
(* claims and paths.  Creating and destroying clients uses it as           *)
(* PathRegistry allows, keeps every file to one user and leaves nothing    *)
(* behind, for any number of threads.                                      *)
(***************************************************************************)
EXTENDS Creation, TLAPS

-----------------------------------------------------------------------------
(* The registry *)

\* Erasing the entry of c leaves exactly the entries of the other held claims,
\* because no other claim has the same one.
LEMMA WithoutOthers ==
    ASSUME RegistryInv, NEW c \in Claims
    PROVE  /\ Without(c) = {key[d] : d \in {e \in Claims \ {c} : held(e)}}
           /\ Without(c) \subseteq Files
  BY DEF RegistryInv, RegistryTypeOK, NoLeakedEntry, held, Without

\* A new claim starts the registry in RegistryInv: it is empty (registry()).
LEMMA InitInv == Init => RegistryInv
  BY PathAssumption DEF Init, RegistryInv, RegistryTypeOK, NoLeakedEntry, held

\* release() erases one entry and leaves the rest to their claims.
LEMMA ReleaseInv ==
    ASSUME RegistryInv, NEW c \in Claims, Release(c)
    PROVE  RegistryInv'
  <1>1. RegistryTypeOK'
    BY WithoutOthers DEF RegistryInv, RegistryTypeOK, Release
  <1>2. NoLeakedEntry'
    BY WithoutOthers DEF RegistryInv, RegistryTypeOK, Release, NoLeakedEntry, held
  <1>3. QED
    BY <1>1, <1>2, PathAssumption DEF RegistryInv, RegistryTypeOK, Release, held

\* acquire() enters a path only when no other claim has its entry.
LEMMA AcquireInv ==
    ASSUME RegistryInv, NEW c \in Claims, NEW p \in Paths, Acquire(c, p)
    PROVE  RegistryInv'
  <1>0. NoPath \notin Files /\ NoPath \notin Paths /\ Normal(p) \in Files
    BY PathAssumption
  <1>1. RegistryTypeOK'
    BY <1>0, WithoutOthers DEF RegistryInv, RegistryTypeOK, Acquire
  <1>2. CASE p \notin InMemory /\ Normal(p) \notin Taken(c, p)
    <2>1. NoLeakedEntry'
      BY <1>0, <1>2, WithoutOthers
      DEF RegistryInv, RegistryTypeOK, Acquire, NoLeakedEntry, held, Taken
    <2>2. \A d \in Claims \ {c} : held(d) => key[d] # Normal(p)
      BY <1>2, WithoutOthers DEF Taken
    <2>3. QED
      BY <1>0, <1>1, <1>2, <2>1, <2>2
      DEF RegistryInv, RegistryTypeOK, Acquire, held, Taken
  <1>3. CASE ~(p \notin InMemory /\ Normal(p) \notin Taken(c, p))
    <2>1. NoLeakedEntry'
      BY <1>0, <1>3, WithoutOthers
      DEF RegistryInv, RegistryTypeOK, Acquire, NoLeakedEntry, held, Taken
    <2>2. QED
      BY <1>0, <1>1, <1>3, <2>1 DEF RegistryInv, RegistryTypeOK, Acquire, held, Taken
  <1>4. QED
    BY <1>2, <1>3

\* The move assignment hands the entry on, and the source forgets it.
LEMMA MoveInv ==
    ASSUME RegistryInv, NEW c \in Claims, NEW d \in Claims, Move(c, d)
    PROVE  RegistryInv'
  <1>0. NoPath \notin Files /\ NoPath \notin Paths
    BY PathAssumption
  <1>1. RegistryTypeOK'
    BY WithoutOthers DEF RegistryInv, RegistryTypeOK, Move
  <1>2. NoLeakedEntry'
    <2>1. \A e \in Claims : key'[e] = IF e = d THEN key[c] ELSE IF e = c THEN NoPath ELSE key[e]
      BY DEF RegistryInv, RegistryTypeOK, Move
    <2>2. registry' = {key[e] : e \in {f \in Claims \ {d} : held(f)}}
      BY WithoutOthers DEF Move
    <2>3. QED
      BY <1>0, <2>1, <2>2, ZenonT(30) DEF Move, NoLeakedEntry, held
  <1>3. QED
    BY <1>0, <1>1, <1>2 DEF RegistryInv, RegistryTypeOK, Move, held

\* RegistryInv is inductive, so it holds for any number of claims and paths.
THEOREM RegistryCorrect == Spec => []RegistryInv
  <1>1. RegistryInv /\ [Next]_vars => RegistryInv'
    <2>1. ASSUME RegistryInv, Next PROVE RegistryInv'
      BY <2>1, ReleaseInv, AcquireInv, MoveInv DEF Next
    <2>2. ASSUME RegistryInv, UNCHANGED vars PROVE RegistryInv'
      BY <2>2 DEF vars, RegistryInv, RegistryTypeOK, NoLeakedEntry, held
    <2>3. QED
      BY <2>1, <2>2
  <1>2. QED
    BY <1>1, InitInv, PTL DEF Spec

\* No two owners use the same file: two that were let in hold the entries of
\* their paths, and these differ (acquire).
THEOREM ExclusiveCorrect == Spec => []ExclusiveOwner
  <1>1. RegistryInv => ExclusiveOwner
    BY PathAssumption DEF RegistryInv, RegistryTypeOK, ExclusiveOwner, held
  <1>2. QED
    BY <1>1, RegistryCorrect, PTL

\* No entry outlives its claim (release).
THEOREM NoLeakCorrect == Spec => []NoLeakedEntry
  <1>1. RegistryInv => NoLeakedEntry
    BY DEF RegistryInv
  <1>2. QED
    BY <1>1, RegistryCorrect, PTL

-----------------------------------------------------------------------------
(* Creation and destruction *)

\* A thread has three claims, and no other thread has them.
LEMMA OwnClaims ==
    ASSUME NEW t \in Threads
    PROVE  /\ {local(t), client(t), sink(t)} \subseteq Claims
           /\ local(t) # client(t) /\ local(t) # sink(t) /\ client(t) # sink(t)
           /\ \A u \in Threads : u # t =>
                {local(t), client(t), sink(t)} \cap {local(u), client(u), sink(u)} = {}
  BY CreationAssumption DEF local, client, sink

\* release() changes only its own claim.
LEMMA ReleaseResult ==
    ASSUME RegistryInv, NEW c \in Claims, Release(c)
    PROVE  /\ key'[c] = NoPath /\ uses'[c] = NoPath
           /\ \A d \in Claims : d # c => key'[d] = key[d] /\ uses'[d] = uses[d]
  BY DEF RegistryInv, RegistryTypeOK, Release

\* acquire() changes only its own claim, and refuses with nothing held.
LEMMA AcquireResult ==
    ASSUME RegistryInv, NEW c \in Claims, NEW p \in Paths, Acquire(c, p)
    PROVE  /\ uses'[c] = p \/ (key'[c] = NoPath /\ uses'[c] = NoPath)
           /\ \A d \in Claims : d # c => key'[d] = key[d] /\ uses'[d] = uses[d]
  BY DEF RegistryInv, RegistryTypeOK, Acquire

\* A move hands the path on and leaves nothing in its source.
LEMMA MoveResult ==
    ASSUME RegistryInv, NEW c \in Claims, NEW d \in Claims, Move(c, d)
    PROVE  /\ uses'[d] = uses[c]
           /\ key'[c] = NoPath /\ uses'[c] = NoPath
           /\ \A e \in Claims \ {c, d} : key'[e] = key[e] /\ uses'[e] = uses[e]
  BY DEF RegistryInv, RegistryTypeOK, Move

\* A step that does not touch a thread's claims and state keeps its ThreadInv.
LEMMA FrameInv ==
    ASSUME NEW u \in Threads, ThreadInv(u),
           \A c \in {local(u), client(u), sink(u)} :
             key'[c] = key[c] /\ uses'[c] = uses[c],
           at'[u] = at[u], dbPath'[u] = dbPath[u], sinkPath'[u] = sinkPath[u],
           dbOpen'[u] = dbOpen[u], fileOpen'[u] = fileOpen[u]
    PROVE  ThreadInv(u)'
<1>1. \A c \in {local(u), client(u), sink(u)} :
        (key[c])' = key[c] /\ (uses[c])' = uses[c]
  BY DEF local, client, sink
<1> QED
  BY <1>1 DEF ThreadInv, local, client, sink

\* A step of t whose registry operation concerns only claims of t keeps the
\* ThreadInv of every other thread.
LEMMA OthersInv ==
    ASSUME CreationInv, NEW t \in Threads,
           \A c \in Claims : c \notin {local(t), client(t), sink(t)} =>
             key'[c] = key[c] /\ uses'[c] = uses[c],
           \A u \in Threads \ {t} :
             /\ at'[u] = at[u] /\ dbPath'[u] = dbPath[u]
             /\ sinkPath'[u] = sinkPath[u]
             /\ dbOpen'[u] = dbOpen[u] /\ fileOpen'[u] = fileOpen[u]
    PROVE  \A u \in Threads \ {t} : ThreadInv(u)'
<1> SUFFICES ASSUME NEW u \in Threads \ {t} PROVE ThreadInv(u)'
  OBVIOUS
<1>1. \A c \in {local(u), client(u), sink(u)} :
        key'[c] = key[c] /\ uses'[c] = uses[c]
  BY OwnClaims, ZenonT(30)
<1> QED
  BY <1>1, FrameInv DEF CreationInv

\* A process that has created no client satisfies the invariant.
LEMMA CreationInitInv == CreationInit => CreationInv
<1> SUFFICES ASSUME CreationInit PROVE CreationInv
  OBVIOUS
<1>1. RegistryInv
  BY InitInv DEF CreationInit
<1>2. CreationTypeOK
  BY DEF CreationInit, CreationTypeOK
<1>3. ASSUME NEW t \in Threads PROVE ThreadInv(t)
  <2>1. \A c \in {local(t), client(t), sink(t)} : key[c] = NoPath /\ uses[c] = NoPath
    BY OwnClaims DEF CreationInit, Init
  <2>2. at[t] = "none" /\ ~dbOpen[t] /\ ~fileOpen[t]
    BY DEF CreationInit
  <2> QED
    BY <2>1, <2>2 DEF ThreadInv
<1> QED
  BY <1>1, <1>2, <1>3 DEF CreationInv

\* A step without a registry operation: opening, recovering and closing the
\* store, the first write, the beginning of the destruction.
LEMMA FilesInv ==
    ASSUME CreationInv, NEW t \in Threads,
           \/ OpenStore(t) \/ Recover(t) \/ Unwind(t) \/ FirstWrite(t)
           \/ Destroy(t) \/ CloseStore(t)
    PROVE  CreationInv' /\ UNCHANGED vars
<1>0. CreationTypeOK /\ RegistryInv /\ ThreadInv(t)
  BY DEF CreationInv
<1>1. UNCHANGED <<registry, key, uses>>
  BY DEF OpenStore, Recover, Unwind, FirstWrite, Destroy, CloseStore, vars
<1>2. CreationTypeOK'
  BY <1>0, ZenonT(30) DEF OpenStore, Recover, Unwind, FirstWrite, Destroy, CloseStore, Goto,
     Leave, After, CreationTypeOK
<1>3. RegistryInv'
  BY <1>0, <1>1 DEF RegistryInv, RegistryTypeOK, NoLeakedEntry, held
<1>4. \A u \in Threads \ {t} :
        /\ at'[u] = at[u] /\ dbPath'[u] = dbPath[u]
        /\ sinkPath'[u] = sinkPath[u]
        /\ dbOpen'[u] = dbOpen[u] /\ fileOpen'[u] = fileOpen[u]
  BY <1>0 DEF OpenStore, Recover, Unwind, FirstWrite, Destroy, CloseStore, Goto,
     Leave, After, CreationTypeOK
<1>5. \A u \in Threads \ {t} : ThreadInv(u)'
  BY <1>1, <1>4, OthersInv
<1>6. ThreadInv(t)'
  BY <1>0, <1>1 DEF OpenStore, Recover, Unwind, FirstWrite, Destroy, CloseStore,
     Goto, Leave, After, CreationTypeOK, ThreadInv, local, client, sink
<1> QED
  BY <1>1, <1>2, <1>3, <1>5, <1>6 DEF CreationInv, vars

\* create claims the storage path, then a default sink its own.
LEMMA ClaimInv ==
    ASSUME CreationInv, NEW t \in Threads,
           (\E p \in Paths, s \in SinkPaths \cup {NoPath} : ClaimStorage(t, p, s)) \/ ClaimSink(t)
    PROVE  CreationInv' /\ [Next]_vars
<1>0. CreationTypeOK /\ RegistryInv /\ ThreadInv(t)
  BY DEF CreationInv
<1>s. SinkPaths \subseteq Paths /\ NoPath \notin Paths
  BY CreationAssumption, PathAssumption
<1>1. CASE \E p \in Paths, s \in SinkPaths \cup {NoPath} : ClaimStorage(t, p, s)
  <2>1. PICK p \in Paths, s \in SinkPaths \cup {NoPath} : ClaimStorage(t, p, s)
    BY <1>1
  <2>2. local(t) \in Claims /\ Acquire(local(t), p) /\ at[t] = "none"
    BY <2>1, OwnClaims DEF ClaimStorage
  <2>3. RegistryInv' /\ Next
    BY <1>0, <2>2, AcquireInv DEF Next
  <2>4. /\ uses'[local(t)] = p \/ (key'[local(t)] = NoPath /\ uses'[local(t)] = NoPath)
        /\ \A d \in Claims : d # local(t) => key'[d] = key[d] /\ uses'[d] = uses[d]
    BY <1>0, <2>2, AcquireResult
  <2>5. CreationTypeOK'
    BY <1>0, <2>1 DEF ClaimStorage, Goto, CreationTypeOK
  <2>6. \A u \in Threads \ {t} :
          /\ at'[u] = at[u] /\ dbPath'[u] = dbPath[u]
          /\ sinkPath'[u] = sinkPath[u]
          /\ dbOpen'[u] = dbOpen[u] /\ fileOpen'[u] = fileOpen[u]
    BY <1>0, <2>1 DEF ClaimStorage, Goto, CreationTypeOK
  <2>7. \A u \in Threads \ {t} : ThreadInv(u)'
    BY <2>4, <2>6, OthersInv
  <2>8. /\ at'[t] = IF uses'[local(t)] = p THEN "sink" ELSE "none"
        /\ dbPath'[t] = IF uses'[local(t)] = p THEN p ELSE NoPath
        /\ sinkPath'[t] = IF uses'[local(t)] = p THEN s ELSE NoPath
        /\ dbOpen'[t] = dbOpen[t] /\ fileOpen'[t] = fileOpen[t]
    BY <1>0, <2>1 DEF ClaimStorage, Goto, CreationTypeOK
  <2>9. ThreadInv(t)'
    BY <1>0, <1>s, <2>2, <2>4, <2>8, OwnClaims DEF ThreadInv, local, client, sink
  <2> QED
    BY <2>3, <2>5, <2>7, <2>9 DEF CreationInv
<1>2. CASE ClaimSink(t)
  <2>1. at[t] = "sink" /\ sink(t) \in Claims /\ uses[sink(t)] = NoPath
    BY <1>0, <1>2, OwnClaims DEF ClaimSink, ThreadInv
  <2>2. \/ sinkPath[t] = NoPath /\ UNCHANGED vars
        \/ sinkPath[t] \in Paths /\ Acquire(sink(t), sinkPath[t])
    BY <1>0, <1>s, <1>2 DEF ClaimSink, CreationTypeOK
  <2>3. RegistryInv' /\ [Next]_vars
    <3>1. CASE UNCHANGED vars
      BY <1>0, <3>1 DEF vars, RegistryInv, RegistryTypeOK, NoLeakedEntry, held
    <3>2. CASE sinkPath[t] \in Paths /\ Acquire(sink(t), sinkPath[t])
      BY <1>0, <2>1, <3>2, AcquireInv DEF Next
    <3> QED
      BY <2>2, <3>1, <3>2
  <2>4. /\ \/ uses'[sink(t)] = sinkPath[t]
           \/ key'[sink(t)] = NoPath /\ uses'[sink(t)] = NoPath
        /\ \A d \in Claims : d # sink(t) => key'[d] = key[d] /\ uses'[d] = uses[d]
    <3>1. CASE sinkPath[t] = NoPath /\ UNCHANGED vars
      BY <2>1, <3>1 DEF vars
    <3>2. CASE sinkPath[t] \in Paths /\ Acquire(sink(t), sinkPath[t])
      BY <1>0, <2>1, <3>2, AcquireResult
    <3> QED
      BY <2>2, <3>1, <3>2
  <2>5. CreationTypeOK'
    BY <1>0, <1>2 DEF ClaimSink, Goto, CreationTypeOK
  <2>6. \A u \in Threads \ {t} :
          /\ at'[u] = at[u] /\ dbPath'[u] = dbPath[u]
          /\ sinkPath'[u] = sinkPath[u]
          /\ dbOpen'[u] = dbOpen[u] /\ fileOpen'[u] = fileOpen[u]
    BY <1>0, <1>2 DEF ClaimSink, Goto, CreationTypeOK
  <2>7. \A u \in Threads \ {t} : ThreadInv(u)'
    BY <2>4, <2>6, OthersInv
  <2>8. /\ at'[t] = IF uses'[sink(t)] = sinkPath[t] THEN "open" ELSE "release_local"
        /\ dbPath'[t] = dbPath[t] /\ sinkPath'[t] = sinkPath[t]
        /\ dbOpen'[t] = dbOpen[t] /\ fileOpen'[t] = fileOpen[t]
    BY <1>0, <1>2 DEF ClaimSink, Goto, CreationTypeOK
  <2>9. ThreadInv(t)'
    BY <1>0, <2>1, <2>4, <2>8, OwnClaims DEF ThreadInv, local, client, sink
  <2> QED
    BY <2>3, <2>5, <2>7, <2>9 DEF CreationInv
<1> QED
  BY <1>1, <1>2

\* The constructor of Impl takes over the claim of create.
LEMMA ConstructInv ==
    ASSUME CreationInv, NEW t \in Threads, Construct(t)
    PROVE  CreationInv' /\ Next
<1>0. CreationTypeOK /\ RegistryInv /\ ThreadInv(t) /\ at[t] = "construct"
  BY DEF CreationInv, Construct
<1>1. /\ local(t) \in Claims /\ client(t) \in Claims
      /\ Move(local(t), client(t))
  BY OwnClaims DEF Construct
<1>2. RegistryInv' /\ Next
  BY <1>0, <1>1, MoveInv DEF Next
<1>3. /\ uses'[client(t)] = uses[local(t)]
      /\ key'[local(t)] = NoPath /\ uses'[local(t)] = NoPath
      /\ \A e \in Claims \ {local(t), client(t)} :
           key'[e] = key[e] /\ uses'[e] = uses[e]
  BY <1>0, <1>1, MoveResult
<1>4. CreationTypeOK' /\ at'[t] \in {"live", "close_store"}
  BY <1>0 DEF Construct, Goto, CreationTypeOK
<1>5. \A u \in Threads \ {t} :
        /\ at'[u] = at[u] /\ dbPath'[u] = dbPath[u]
        /\ sinkPath'[u] = sinkPath[u]
        /\ dbOpen'[u] = dbOpen[u] /\ fileOpen'[u] = fileOpen[u]
  BY <1>0 DEF Construct, Goto, CreationTypeOK
<1>6. \A u \in Threads \ {t} : ThreadInv(u)'
  BY <1>3, <1>5, OthersInv
<1>7. ThreadInv(t)'
  BY <1>0, <1>3, <1>4, OwnClaims DEF Construct, ThreadInv, local, client, sink
<1> QED
  BY <1>2, <1>4, <1>6, <1>7 DEF CreationInv

\* The claims are let go: by a failed create, its local claim and then the
\* sink's, by a client's end in the order of its members.
LEMMA ReleasesInv ==
    ASSUME CreationInv, NEW t \in Threads,
           ReleaseLocal(t) \/ ReleaseSink(t) \/ CloseSink(t) \/ ReleaseStorage(t)
    PROVE  CreationInv' /\ Next
<1>0. CreationTypeOK /\ RegistryInv /\ ThreadInv(t)
  BY DEF CreationInv
<1>1. PICK c \in {local(t), client(t), sink(t)} :
        /\ Release(c)
        /\ ReleaseLocal(t) => c = local(t)
        /\ ReleaseSink(t) \/ CloseSink(t) => c = sink(t)
        /\ ReleaseStorage(t) => c = client(t)
  BY DEF ReleaseLocal, ReleaseSink, CloseSink, ReleaseStorage
<1>2. c \in Claims
  BY <1>1, OwnClaims
<1>3. RegistryInv' /\ Next
  BY <1>0, <1>1, <1>2, ReleaseInv DEF Next
<1>4. /\ key'[c] = NoPath /\ uses'[c] = NoPath
      /\ \A d \in Claims : d # c => key'[d] = key[d] /\ uses'[d] = uses[d]
  BY <1>0, <1>1, <1>2, ReleaseResult
<1>5. CreationTypeOK'
  BY <1>0, ZenonT(30) DEF ReleaseLocal, ReleaseSink, CloseSink, ReleaseStorage, Goto, Leave,
     After, CreationTypeOK
<1>6. \A u \in Threads \ {t} :
        /\ at'[u] = at[u] /\ dbPath'[u] = dbPath[u]
        /\ sinkPath'[u] = sinkPath[u]
        /\ dbOpen'[u] = dbOpen[u] /\ fileOpen'[u] = fileOpen[u]
  BY <1>0 DEF ReleaseLocal, ReleaseSink, CloseSink, ReleaseStorage, Goto, Leave,
     After, CreationTypeOK
<1>7. \A u \in Threads \ {t} : ThreadInv(u)'
  BY <1>1, <1>4, <1>6, OthersInv
<1>8. ThreadInv(t)'
  <2>1. CASE ReleaseLocal(t)
    BY <1>0, <1>1, <1>4, <2>1, OwnClaims
      , ZenonT(30) DEF ReleaseLocal, Goto, CreationTypeOK, ThreadInv, local, client, sink
  <2>2. CASE ReleaseSink(t)
    BY <1>0, <1>1, <1>4, <2>2, OwnClaims
       DEF ReleaseSink, Goto, Leave, CreationTypeOK, ThreadInv, local, client, sink
  <2>3. CASE CloseSink(t)
    BY <1>0, <1>1, <1>4, <2>3, OwnClaims
       DEF CloseSink, Goto, Leave, After, CreationTypeOK, ThreadInv, local, client, sink
  <2>4. CASE ReleaseStorage(t)
    BY <1>0, <1>1, <1>4, <2>4, OwnClaims
       DEF ReleaseStorage, Goto, Leave, After, CreationTypeOK, ThreadInv, local,
           client, sink
  <2> QED
    BY <2>1, <2>2, <2>3, <2>4
<1> QED
  BY <1>3, <1>5, <1>7, <1>8 DEF CreationInv

\* Every step keeps the invariant and is a step of PathRegistry or leaves the
\* registry alone.
LEMMA CreationStep ==
    CreationInv /\ [CreationNext]_allVars => CreationInv' /\ [Next]_vars
<1>1. ASSUME CreationInv, CreationNext PROVE CreationInv' /\ [Next]_vars
  BY <1>1, FilesInv, ClaimInv, ConstructInv, ReleasesInv DEF CreationNext
<1>2. ASSUME CreationInv, UNCHANGED allVars PROVE CreationInv' /\ [Next]_vars
  <2>1. UNCHANGED <<registry, key, uses, at, dbPath, sinkPath, dbOpen, fileOpen>>
    BY <1>2 DEF allVars, vars, creationVars
  <2>2. CreationTypeOK' /\ RegistryInv'
    BY <1>2, <2>1 DEF CreationInv, CreationTypeOK, RegistryInv, RegistryTypeOK,
       NoLeakedEntry, held
  <2>3. \A t \in Threads : ThreadInv(t)'
    BY <1>2, <2>1, ZenonT(30) DEF CreationInv, ThreadInv, local, client, sink
  <2> QED
    BY <2>1, <2>2, <2>3 DEF CreationInv, vars
<1> QED
  BY <1>1, <1>2

\* CreationInv holds at every point of any number of creations, failed or not,
\* and destructions.
THEOREM CreationCorrect == CreationSpec => []CreationInv
  BY CreationInitInv, CreationStep, PTL DEF CreationSpec

\* What is open at t is held by a claim of t that was let in under its name.
LEMMA OpenedHeld ==
    ASSUME CreationInv, NEW t \in Threads, NEW o \in Opened(t)
    PROVE  \/ o[1] = "db" /\ dbOpen[t] /\ o[2] = uses[local(t)]
           \/ o[1] = "db" /\ dbOpen[t] /\ o[2] = uses[client(t)]
           \/ o[1] = "file" /\ o[2] = uses[sink(t)]
<1>1. ThreadInv(t)
  BY DEF CreationInv
<1>2. CASE dbOpen[t] /\ o = <<"db", dbPath[t]>>
  BY <1>1, <1>2 DEF ThreadInv
<1>3. CASE fileOpen[t] /\ o = <<"file", sinkPath[t]>>
  BY <1>1, <1>3 DEF ThreadInv
<1> QED
  BY <1>2, <1>3 DEF Opened

\* No two users of one file at any time, in whatever order clients are created
\* and destroyed.
THEOREM OneUserCorrect == CreationSpec => []OneUserPerFile
<1>1. CreationInv => OneUserPerFile
  <2> SUFFICES ASSUME CreationInv, NEW t \in Threads, NEW u \in Threads,
                      NEW o \in Opened(t), NEW q \in Opened(u),
                      <<t, o>> # <<u, q>>,
                      {o[2], q[2]} \subseteq Paths \ InMemory
               PROVE  Normal(o[2]) # Normal(q[2])
    BY DEF OneUserPerFile
  <2>1. ExclusiveOwner
    BY PathAssumption DEF CreationInv, RegistryInv, RegistryTypeOK, ExclusiveOwner, held
  <2>2. PICK c \in {local(t), client(t), sink(t)} :
          o[2] = uses[c] /\ (o[1] = "file" <=> c = sink(t))
    BY OpenedHeld, OwnClaims
  <2>3. PICK d \in {local(u), client(u), sink(u)} :
          q[2] = uses[d] /\ (q[1] = "file" <=> d = sink(u))
    BY OpenedHeld, OwnClaims
  <2>4. c # d
    <3>1. CASE t # u
      BY <2>2, <2>3, <3>1, OwnClaims, ZenonT(30)
    <3>2. CASE t = u
      <4>1. \/ o = <<"db", dbPath[t]>> /\ q = <<"file", sinkPath[t]>>
            \/ o = <<"file", sinkPath[t]>> /\ q = <<"db", dbPath[t]>>
        BY <3>2 DEF Opened
      <4> QED
        BY <2>2, <2>3, <3>2, <4>1
    <3> QED
      BY <3>1, <3>2
  <2> QED
    BY <2>1, <2>2, <2>3, <2>4, OwnClaims DEF ExclusiveOwner
<1> QED
  BY <1>1, CreationCorrect, PTL

\* A failed create and a destroyed client leave no claim and nothing open.
THEOREM NothingLeftCorrect == CreationSpec => []NothingLeftBehind
<1>1. CreationInv => NothingLeftBehind
  BY DEF CreationInv, ThreadInv, NothingLeftBehind, held, local, client, sink
<1> QED
  BY <1>1, CreationCorrect, PTL
=============================================================================
