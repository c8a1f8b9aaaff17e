------------------------- MODULE SqliteStoreProofs --------------------------
(***************************************************************************)
(* The store keeps the promise of AtomicStore and never spoils a database, *)
(* for any events and any fetch limit, wherever SQLite calls fail and the  *)
(* process ends.  StoreInv is inductive; every step of it is a step of     *)
(* AtomicStore or leaves what that module sees alone.                      *)
(***************************************************************************)
EXTENDS SqliteStore, FiniteSetTheorems, SequenceTheorems, TLAPS

-----------------------------------------------------------------------------
(* Helpers *)

\* Sets of events are finite and have a size.
LEMMA EventSets ==
    ASSUME NEW S \in SUBSET Events
    PROVE  IsFiniteSet(S) /\ Cardinality(S) \in Nat
  BY StoreAssumption, FS_Subset, FS_CardinalityType, ZenonT(30)

\* The instance of AtomicStore counts as this module does.
LEMMA SameCardinality == \A S : Promise!Cardinality(S) = Cardinality(S)
  BY Zenon DEF Cardinality, Promise!Cardinality

\* The schema a fresh database is given is among those that may be found.
LEMMA KnownSchemas ==
    /\ kMetaColumns \in MetaTables
    /\ kEventsColumns \in EventsTables
    /\ {kEventsCheck} \in Checks
    /\ kOrderIndex \in Indexes
    /\ "3" \in Versions
<1>1. kMetaColumns \in MetaTables /\ kEventsColumns \in EventsTables
  BY Zenon DEF MetaTables, EventsTables
<1>2. {kEventsCheck} \in Checks /\ "3" \in Versions
  BY Zenon DEF Checks, Versions
<1>3. kOrderIndex \in Indexes
  BY Zenon DEF Indexes, kOrderIndex
<1> QED
  BY <1>1, <1>2, <1>3, Zenon

\* The first statement of each operation's transaction.
LEMMA FirstStatements ==
    /\ call = "open" => FirstStatement = "create_meta"
    /\ call = "insert" => FirstStatement = "insert_row"
    /\ call \in {"acknowledge", "quarantine"} => FirstStatement = "delete_row"
    /\ call = "mark" => FirstStatement = "set_marker"
    /\ call = "purge" => FirstStatement = "delete_all"
  BY Zenon DEF FirstStatement

\* What a committed call answers.
LEMMA Successes ==
    /\ call = "acknowledge" =>
         Success = Promise!Answer(call, removed = Cardinality(arg), arg, removed)
    /\ call = "quarantine" =>
         Success = Promise!Answer("fetch", FALSE, batch,
                                  IF removed = Cardinality(arg) THEN removed ELSE 0)
    /\ call \notin {"acknowledge", "quarantine"} =>
         Success = Promise!Answer(call, TRUE, arg, removed)
  BY Zenon DEF Success

\* The inspection reads the schema only.
LEMMA SchemaDecides ==
    ASSUME NEW d, NEW e, Schema(d) = Schema(e)
    PROVE  /\ d.meta = e.meta /\ d.version = e.version /\ d.events = e.events
           /\ d.checks = e.checks /\ d.index = e.index
           /\ Accepted(d) <=> Accepted(e)
           /\ Fresh(d) <=> Fresh(e)
           /\ Refused(d) <=> Refused(e)
<1>1. /\ d.meta = e.meta /\ d.version = e.version /\ d.events = e.events
      /\ d.checks = e.checks /\ d.index = e.index
  BY Zenon DEF Schema
<1>2. Accepted(d) <=> Accepted(e)
  BY <1>1, Zenon DEF Accepted, validate_meta_shape, VersionSupported,
     validate_events_columns, validate_events_check, validate_order_index
<1>3. Fresh(d) <=> Fresh(e)
  BY <1>1, Zenon DEF Fresh
<1> QED
  BY <1>1, <1>2, <1>3, Zenon DEF Refused

\* The inspection accepts only the schema of this version.
LEMMA AcceptedExact ==
    ASSUME NEW d \in Database, Accepted(d)
    PROVE  /\ d.meta = kMetaColumns /\ d.events = kEventsColumns
           /\ d.index = kOrderIndex /\ d.version = "3"
           /\ d.checks \cap WantedChecks # {}
<1>1. d.meta = kMetaColumns
  <2>1. d.meta \in MetaTables /\ SameColumns(d.meta, kMetaColumns)
    BY Zenon DEF Database, Accepted, validate_meta_shape
  <2> QED
    BY <2>1 DEF MetaTables, SameColumns, kMetaColumns, NoTable
<1>2. d.events = kEventsColumns
  <2>1. d.events \in EventsTables /\ SameColumns(d.events, kEventsColumns)
    BY Zenon DEF Database, Accepted, validate_events_columns
  <2>2. Len(kEventsColumns) = 6 /\ kEventsColumns[1] = "event_id"
    BY Zenon DEF kEventsColumns
  <2>3. /\ d.events # NoTable /\ d.events # SubSeq(kEventsColumns, 1, 5)
        /\ d.events # Append(kEventsColumns, "other")
    <3>1. Len(d.events) = 6
      BY <2>1, <2>2, Zenon DEF SameColumns
    <3> DEFINE Names == {"event_id", "session_id", "seq", "ordinal", "created_ms",
                         "payload", "other"}
    <3>2. kEventsColumns \in Seq(Names)
      BY DEF kEventsColumns
    <3>3. Len(SubSeq(kEventsColumns, 1, 5)) = 5
      BY <2>2, <3>2
    <3>4. Len(Append(kEventsColumns, "other")) = 7
      <4>1. "other" \in Names
        OBVIOUS
      <4> HIDE DEF Names
      <4>2. Len(Append(kEventsColumns, "other")) = Len(kEventsColumns) + 1
        BY <3>2, <4>1, AppendProperties, Zenon
      <4> QED
        BY <2>2, <4>2
    <3>5. d.events # NoTable
      BY Zenon DEF Accepted
    <3>6. d.events # SubSeq(kEventsColumns, 1, 5)
      BY <3>1, <3>3
    <3>7. d.events # Append(kEventsColumns, "other")
      BY <3>1, <3>4
    <3> QED
      BY <3>5, <3>6, <3>7, Zenon
  <2>4. d.events # [kEventsColumns EXCEPT ![1] = "other"]
    BY <2>1, <2>2 DEF SameColumns
  <2> QED
    BY <2>1, <2>3, <2>4, Zenon DEF EventsTables
<1>3. d.index = kOrderIndex
  <2>1. d.index \in Indexes /\ validate_order_index(d)
    BY Zenon DEF Database, Accepted
  <2>2. /\ d.index.table = "events" /\ d.index.unique = FALSE /\ d.index.partial = FALSE
        /\ d.index.origin = "c" /\ SameColumns(d.index.columns, <<"ordinal">>)
        /\ d.index \in [table : {"events"}, unique : BOOLEAN, partial : BOOLEAN,
                        origin : {"c", "u"},
                        columns : {<<"ordinal">>, <<"seq">>, <<"ordinal", "seq">>}]
    BY <2>1, Zenon DEF validate_order_index, Indexes, NoIndex, kOrderIndex
  <2>3. d.index.columns = <<"ordinal">>
    BY <2>2 DEF SameColumns
  <2> QED
    BY <2>2, <2>3, ZenonT(30) DEF kOrderIndex
<1>4. d.version = "3"
  BY Zenon DEF Accepted, VersionSupported
<1>5. d.checks \cap WantedChecks # {}
  BY Zenon DEF Accepted, validate_events_check
<1> QED
  BY <1>1, <1>2, <1>3, <1>4, <1>5, Zenon

\* A fresh database whose names are free is given exactly that schema.
LEMMA PreparedExact ==
    ASSUME NEW d, NEW f, Fresh(f), ~NameTaken(f), Schema(d) = Prepared(f, 4)
    PROVE  /\ d.meta = kMetaColumns /\ d.version = "3" /\ d.events = kEventsColumns
           /\ d.checks = {kEventsCheck} /\ d.index = kOrderIndex
<1>1. f.index = NoIndex
  BY Zenon DEF NameTaken
<1>2. Prepared(f, 4) = <<kMetaColumns, "3", kEventsColumns, {kEventsCheck}, kOrderIndex>>
  BY <1>1 DEF Prepared
<1> QED
  BY <1>2 DEF Schema

\* A database before this store has used it is a database.
LEMMA FoundType == Found \subseteq Database
  BY ZenonT(30) DEF Found, Database

\* The file as it is found, without a connection.
LEMMA StoreInitInv == Init => StoreInv
<1> SUFFICES ASSUME Init PROVE StoreInv
  OBVIOUS
<1>1. db \in Database /\ db.rows = {} /\ db.bad = {} /\ db.marker = FALSE
  BY FoundType, ZenonT(30) DEF Init, Found
<1>2. StoreTypeOK
  BY <1>1, ZenonT(30) DEF Init, StoreTypeOK
<1>3. CallInv /\ InTxnInv /\ FetchInv /\ ProgressInv
  BY <1>1, Zenon DEF Init, CallInv, InTxnInv, FetchInv, ProgressInv
<1>4. SchemaInv
  BY <1>1, Zenon DEF Init, SchemaInv
<1> QED
  BY <1>2, <1>3, <1>4, Zenon DEF StoreInv

-----------------------------------------------------------------------------
(* How calls end *)

\* The connection is closed, by close(), a failed open() or a crash.
LEMMA ClosedInv ==
    ASSUME StoreInv, Closed, UNCHANGED <<db, first>>
    PROVE  StoreInv' /\ Promise!Begins
<1>1. StoreTypeOK'
  BY ZenonT(30) DEF StoreInv, StoreTypeOK, Closed, NoCall
<1>2. CallInv' /\ InTxnInv'
  BY Zenon DEF StoreInv, InTxnInv, CallInv, Closed, NoCall
<1>3. FetchInv' /\ ProgressInv'
  BY Zenon DEF Closed, NoCall, FetchInv, ProgressInv
<1>4. SchemaInv'
  BY Zenon DEF StoreInv, SchemaInv, Closed, NoCall
<1>5. Promise!Begins
  BY ZenonT(30) DEF Closed, Promise!Begins, Promise!dataVars, Poisoned
<1> QED
  BY <1>1, <1>2, <1>3, <1>4, <1>5, Zenon DEF StoreInv

\* A call returns with nothing committed: after a read, a refused BEGIN, a
\* rollback that failed, or the last pragma.
LEMMA ReturnInv ==
    ASSUME StoreInv, NEW answer, Return(answer),
           pc \in {"idle", "pragmas"} \/ (pc \in {"begin", "rollback"} /\ call # "open"),
           UNCHANGED <<db, view, inTxn, first>>
    PROVE  StoreInv'
<1>1. StoreTypeOK'
  BY Zenon DEF StoreInv, StoreTypeOK, Return, NoCall
<1>2. CallInv' /\ InTxnInv'
  BY Zenon DEF StoreInv, InTxnInv, CallInv, Return, NoCall
<1>3. FetchInv' /\ ProgressInv'
  BY Zenon DEF Return, NoCall, FetchInv, ProgressInv
<1>4. SchemaInv'
  <2>1. SchemaInv /\ CallInv /\ InTxnInv
    BY Zenon DEF StoreInv
  <2>2. pc' = "idle" /\ call' = "none"
    BY Zenon DEF Return, NoCall
  <2>3. Accepted(first) \/ (Fresh(first) /\ Schema(db) = Prepared(first, 4))
    BY <2>1, Zenon DEF SchemaInv, CallInv
  <2>4. ~Refused(first)
    BY <2>3, Zenon DEF Refused
  <2>5. inTxn => Schema(view) = Schema(db)
    BY <2>1, Zenon DEF SchemaInv, CallInv, InTxnInv
  <2> QED
    BY <2>1, <2>2, <2>3, <2>4, <2>5, ZenonT(30) DEF SchemaInv, Schema
<1> QED
  BY <1>1, <1>2, <1>3, <1>4, Zenon DEF StoreInv

\* A call that fails answers as AtomicStore allows.
LEMMA FailureRefines ==
    ASSUME StoreInv, pc \in {"begin", "rollback"}, call # "open",
           Return(Failure), UNCHANGED db,
           Poisoned' \in {Poisoned, TRUE}
    PROVE  Promise!Step
<1>1. call \in {"insert", "acknowledge", "quarantine", "mark", "purge"}
  BY Zenon DEF StoreInv, StoreTypeOK, CallInv
<1>2. UNCHANGED <<db.rows, db.bad, db.marker>>
  OBVIOUS
<1>3. CASE call # "quarantine"
  <2>1. reply' = Promise!Answer(call, FALSE, {}, 0)
    BY <1>3, Zenon DEF Return, Failure
  <2>2. Promise!Fails
    BY <1>1, <1>2, <1>3, <2>1, ZenonT(30) DEF Promise!Fails, Promise!dataVars
  <2> QED
    BY <2>2, Zenon DEF Promise!Step
<1>4. CASE call = "quarantine" /\ Poisoned
  <2>1. reply' = Promise!Answer("fetch", FALSE, batch, 0)
    BY <1>4, Zenon DEF Return, Failure
  <2>2. reply'.op = "fetch"
    BY <2>1, Zenon DEF Promise!Answer
  <2>3. Poisoned' = Poisoned
    BY <1>4, ZenonT(30)
  <2>4. Promise!ReadsPoisoned
    BY <1>2, <1>4, <2>2, <2>3, Zenon DEF Promise!ReadsPoisoned, Promise!dataVars
  <2> QED
    BY <2>4, Zenon DEF Promise!Step
<1>5. CASE call = "quarantine" /\ ~Poisoned
  <2>1. batch = Promise!Oldest(db.rows, Limit) \ db.bad
    BY <1>5, Zenon DEF StoreInv, FetchInv
  <2>2. reply' = Promise!Answer("fetch", FALSE, batch, 0)
    BY <1>5, Zenon DEF Return, Failure
  <2>3. Limit \in 0..Limit
    BY StoreAssumption
  <2>4. Promise!FetchFails
    BY <1>2, <2>1, <2>2, <2>3, ZenonT(30) DEF Promise!FetchFails, Promise!dataVars
  <2> QED
    BY <1>5, <2>4, Zenon DEF Promise!Step
<1> QED
  BY <1>3, <1>4, <1>5, Zenon

\* BEGIN IMMEDIATE opens a transaction on what is committed.
LEMMA BeginInv ==
    ASSUME StoreInv, Begin
    PROVE  StoreInv' /\ [Promise!Step]_(Promise!vars)
<1>1. CASE ~inTxn /\ inTxn' /\ view' = db /\ pc' = FirstStatement
           /\ UNCHANGED <<callVars, reply, db, first>>
  <2>0. /\ UNCHANGED <<call, arg, todo, removed, batch, reply, db, first>>
        /\ pc = "begin" /\ view = db
    BY <1>1, Zenon DEF callVars, Begin, StoreInv, InTxnInv
  <2>1. \/ call = "open" /\ pc' = "create_meta"
        \/ call = "insert" /\ pc' = "insert_row"
        \/ call \in {"acknowledge", "quarantine"} /\ pc' = "delete_row"
        \/ call = "mark" /\ pc' = "set_marker"
        \/ call = "purge" /\ pc' = "delete_all"
    BY <1>1, <2>0, FirstStatements, ZenonT(30) DEF StoreInv, StoreTypeOK, CallInv
  <2>2. StoreTypeOK'
    BY <1>1, <2>0, <2>1, ZenonT(30) DEF StoreInv, StoreTypeOK
  <2>3. todo = arg /\ removed = 0
    BY <2>0, ZenonT(30) DEF StoreInv, CallInv
  <2>4. CallInv' /\ InTxnInv'
    BY <1>1, <2>0, <2>1, ZenonT(30) DEF StoreInv, CallInv, InTxnInv
  <2>5. Poisoned = FALSE /\ Poisoned' = FALSE
    BY <1>1, <2>0, <2>1, ZenonT(30) DEF Poisoned
  <2>6. FetchInv'
    BY <2>0, <2>5, ZenonT(30) DEF StoreInv, FetchInv, Promise!Oldest
  <2>7. ProgressInv'
    <3>1. view' = db' /\ Gone' = {} /\ Added' = {} /\ arg' \ todo' = {}
      BY <1>1, <2>0, <2>3, Zenon DEF Gone, Added
    <3>2. db' \in Database /\ removed' = 0 /\ Cardinality({}) = 0
      BY <2>0, <2>3, FS_EmptySet, Zenon DEF StoreInv, StoreTypeOK
    <3> QED
      BY <2>0, <2>1, <3>1, <3>2, ZenonT(30) DEF ProgressInv, Database
  <2>8. SchemaInv'
    <3>1. SchemaInv
      BY Zenon DEF StoreInv
    <3>2. Schema(view') = Schema(db) /\ Schema(db') = Schema(db)
      BY <1>1, <2>0, Zenon DEF Schema
    <3>3. Schema(first) = Prepared(first, 0)
      BY DEF Schema, Prepared
    <3> QED
      BY <2>0, <2>1, <3>1, <3>2, <3>3, ZenonT(30) DEF SchemaInv, Schema
  <2>9. UNCHANGED Promise!vars
    BY <2>0, <2>5, ZenonT(30) DEF Promise!vars, Promise!dataVars
  <2> QED
    BY <2>2, <2>4, <2>6, <2>7, <2>8, <2>9, ZenonT(30) DEF StoreInv
<1>2. CASE call # "open" /\ Return(Failure) /\ UNCHANGED <<inTxn, view, db, first>>
  <2>1. pc = "begin" /\ pc' = "idle"
    BY <1>2, Zenon DEF Begin, Return
  <2>2. Poisoned' = Poisoned
    BY <1>2, <2>1, Zenon DEF Poisoned
  <2> QED
    BY <1>2, <2>1, <2>2, ReturnInv, FailureRefines, ZenonT(30)
<1>3. CASE Closed /\ UNCHANGED <<db, first>>
  BY <1>3, ClosedInv, Zenon DEF Promise!Step
<1> QED
  BY <1>1, <1>2, <1>3, Zenon DEF Begin

\* rollback(), whatever becomes of it.
LEMMA RollbackInv ==
    ASSUME StoreInv, Rollback
    PROVE  StoreInv' /\ [Promise!Step]_(Promise!vars)
<1>1. CASE call # "open" /\ UNCHANGED <<inTxn, view, db, first>> /\ Return(Failure)
  <2>1. pc = "rollback" /\ Poisoned' \in {Poisoned, TRUE}
    <3>1. pc = "rollback" /\ inTxn /\ pc' = "idle"
      BY <1>1, Zenon DEF Rollback, StoreInv, InTxnInv, Return
    <3> QED
      BY <1>1, <3>1, ZenonT(30) DEF Poisoned
  <2> QED
    BY <1>1, <2>1, ReturnInv, FailureRefines, ZenonT(30)
<1>2. CASE /\ call # "open" /\ inTxn' = FALSE /\ view' = db
           /\ Return(Failure) /\ UNCHANGED <<db, first>>
  <2>0. /\ pc = "rollback" /\ pc' = "idle" /\ call' = "none" /\ arg' = {}
        /\ todo' = {} /\ removed' = 0 /\ batch' = {}
    BY <1>2, Zenon DEF Rollback, Return, NoCall
  <2>1. StoreTypeOK'
    BY <1>2, <2>0, ZenonT(30) DEF StoreInv, StoreTypeOK
  <2>2. CallInv' /\ InTxnInv' /\ FetchInv' /\ ProgressInv'
    BY <1>2, <2>0, Zenon DEF StoreInv, CallInv, InTxnInv, FetchInv, ProgressInv
  <2>3. SchemaInv'
    <3>1. SchemaInv /\ call # "none"
      BY <2>0, Zenon DEF StoreInv, CallInv
    <3>2. Accepted(first) \/ (Fresh(first) /\ Schema(db) = Prepared(first, 4))
      BY <1>2, <3>1, Zenon DEF SchemaInv
    <3>3. ~Refused(first)
      BY <3>2, Zenon DEF Refused
    <3> QED
      BY <1>2, <2>0, <3>1, <3>2, <3>3, Zenon DEF SchemaInv, Schema
  <2>4. Poisoned = FALSE /\ Poisoned' = FALSE
    BY <1>2, <2>0, Zenon DEF Poisoned
  <2>5. Promise!Step
    BY <1>2, <2>0, <2>4, FailureRefines, ZenonT(30)
  <2> QED
    BY <2>1, <2>2, <2>3, <2>5, Zenon DEF StoreInv
<1>3. CASE Closed /\ UNCHANGED <<db, first>>
  BY <1>3, ClosedInv, Zenon DEF Promise!Step
<1> QED
  BY <1>1, <1>2, <1>3, ZenonT(30) DEF Rollback

-----------------------------------------------------------------------------
(* Statements *)

\* The steps at which a statement inside a transaction is next.
Statements ==
    {"create_meta", "create_events", "create_index", "insert_version",
     "insert_row", "delete_row", "set_marker", "delete_all", "clear_marker"}

\* A statement commits nothing and answers nothing.
LEMMA StatementRefines ==
    ASSUME StoreInv, pc \in Statements,
           pc' \in Statements \cup {"commit", "rollback"},
           UNCHANGED <<db, inTxn, reply, first>>
    PROVE  /\ UNCHANGED Promise!vars
           /\ Poisoned = FALSE /\ Poisoned' = FALSE
<1>1. Poisoned = FALSE /\ Poisoned' = FALSE
  BY Zenon DEF Poisoned, Statements
<1> QED
  BY <1>1, ZenonT(30) DEF Promise!vars, Promise!dataVars

\* A statement, or a COMMIT, that fails leads to rollback().
LEMMA FailedStatementInv ==
    ASSUME StoreInv, pc \in Statements \cup {"commit"}, pc' = "rollback",
           UNCHANGED <<view, db, inTxn, call, arg, batch, reply, first>>,
           todo' \subseteq arg, removed' \in Nat, call = "open" => removed' = removed
    PROVE  StoreInv' /\ UNCHANGED Promise!vars
<1>1. StoreTypeOK'
  BY Zenon DEF StoreInv, StoreTypeOK
<1>2. Poisoned = FALSE /\ Poisoned' = FALSE
  BY Zenon DEF Poisoned, Statements
<1>3. CallInv' /\ InTxnInv'
  BY Zenon DEF StoreInv, CallInv, InTxnInv, Statements
<1>4. FetchInv'
  BY <1>2, Zenon DEF StoreInv, FetchInv, Promise!Oldest
<1>5. ProgressInv'
  BY Zenon DEF ProgressInv
<1>6. SchemaInv'
  <2>1. SchemaInv /\ ~Refused(first)
    BY ZenonT(30) DEF StoreInv, SchemaInv, Statements
  <2> QED
    BY <2>1, ZenonT(30) DEF SchemaInv, Schema
<1>7. UNCHANGED Promise!vars
  BY <1>2, ZenonT(30) DEF Promise!vars, Promise!dataVars
<1> QED
  BY <1>1, <1>3, <1>4, <1>5, <1>6, <1>7, Zenon DEF StoreInv

\* A statement of the preparation changes one part of the schema.
LEMMA SchemaUpdates ==
    ASSUME NEW d \in Database
    PROVE  /\ LET e == [d EXCEPT !.meta = kMetaColumns]
              IN  /\ e \in Database
                  /\ Schema(e) = <<kMetaColumns, d.version, d.events, d.checks, d.index>>
                  /\ e.rows = d.rows /\ e.bad = d.bad /\ e.marker = d.marker
           /\ LET e == [d EXCEPT !.events = kEventsColumns, !.checks = {kEventsCheck}]
              IN  /\ e \in Database
                  /\ Schema(e) = <<d.meta, d.version, kEventsColumns, {kEventsCheck}, d.index>>
                  /\ e.rows = d.rows /\ e.bad = d.bad /\ e.marker = d.marker
           /\ LET e == [d EXCEPT !.index = kOrderIndex]
              IN  /\ e \in Database
                  /\ Schema(e) = <<d.meta, d.version, d.events, d.checks, kOrderIndex>>
                  /\ e.rows = d.rows /\ e.bad = d.bad /\ e.marker = d.marker
           /\ LET e == [d EXCEPT !.version = "3"]
              IN  /\ e \in Database
                  /\ Schema(e) = <<d.meta, "3", d.events, d.checks, d.index>>
                  /\ e.rows = d.rows /\ e.bad = d.bad /\ e.marker = d.marker
<1>1. LET e == [d EXCEPT !.meta = kMetaColumns]
      IN  /\ e \in Database
          /\ Schema(e) = <<kMetaColumns, d.version, d.events, d.checks, d.index>>
          /\ e.rows = d.rows /\ e.bad = d.bad /\ e.marker = d.marker
  BY KnownSchemas, Zenon DEF Database, Schema
<1>2. LET e == [d EXCEPT !.events = kEventsColumns, !.checks = {kEventsCheck}]
      IN  /\ e \in Database
          /\ Schema(e) = <<d.meta, d.version, kEventsColumns, {kEventsCheck}, d.index>>
          /\ e.rows = d.rows /\ e.bad = d.bad /\ e.marker = d.marker
  BY KnownSchemas, ZenonT(30) DEF Database, Schema
<1>3. LET e == [d EXCEPT !.index = kOrderIndex]
      IN  /\ e \in Database
          /\ Schema(e) = <<d.meta, d.version, d.events, d.checks, kOrderIndex>>
          /\ e.rows = d.rows /\ e.bad = d.bad /\ e.marker = d.marker
  BY KnownSchemas, Zenon DEF Database, Schema
<1>4. LET e == [d EXCEPT !.version = "3"]
      IN  /\ e \in Database
          /\ Schema(e) = <<d.meta, "3", d.events, d.checks, d.index>>
          /\ e.rows = d.rows /\ e.bad = d.bad /\ e.marker = d.marker
  BY KnownSchemas, Zenon DEF Database, Schema
<1> QED
  BY <1>1, <1>2, <1>3, <1>4, Zenon

\* ... and takes it one further towards the schema of this version.
LEMMA PreparedNext ==
    ASSUME NEW v, NEW d
    PROVE  /\ Schema(v) = Prepared(d, 0) =>
                <<kMetaColumns, v.version, v.events, v.checks, v.index>> = Prepared(d, 1)
           /\ Schema(v) = Prepared(d, 1) =>
                <<v.meta, v.version, kEventsColumns, {kEventsCheck}, v.index>> = Prepared(d, 2)
           /\ Schema(v) = Prepared(d, 2) =>
                <<v.meta, v.version, v.events, v.checks,
                  IF v.index = NoIndex THEN kOrderIndex ELSE v.index>> = Prepared(d, 3)
           /\ Schema(v) = Prepared(d, 3) =>
                <<v.meta, "3", v.events, v.checks, v.index>> = Prepared(d, 4)
<1>0. /\ Prepared(d, 0) = <<d.meta, d.version, d.events, d.checks, d.index>>
      /\ Prepared(d, 1) = <<kMetaColumns, d.version, d.events, d.checks, d.index>>
      /\ Prepared(d, 2) = <<kMetaColumns, d.version, kEventsColumns, {kEventsCheck}, d.index>>
      /\ Prepared(d, 3) = <<kMetaColumns, d.version, kEventsColumns, {kEventsCheck},
                            IF d.index = NoIndex THEN kOrderIndex ELSE d.index>>
      /\ Prepared(d, 4) = <<kMetaColumns, "3", kEventsColumns, {kEventsCheck},
                            IF d.index = NoIndex THEN kOrderIndex ELSE d.index>>
  BY DEF Prepared
<1>1. ASSUME Schema(v) = Prepared(d, 0)
      PROVE  <<kMetaColumns, v.version, v.events, v.checks, v.index>> = Prepared(d, 1)
  BY <1>0, <1>1 DEF Schema
<1>2. ASSUME Schema(v) = Prepared(d, 1)
      PROVE  <<v.meta, v.version, kEventsColumns, {kEventsCheck}, v.index>> = Prepared(d, 2)
  BY <1>0, <1>2 DEF Schema
<1>3. ASSUME Schema(v) = Prepared(d, 2)
      PROVE  <<v.meta, v.version, v.events, v.checks,
               IF v.index = NoIndex THEN kOrderIndex ELSE v.index>> = Prepared(d, 3)
  <2>1. /\ v.meta = kMetaColumns /\ v.version = d.version /\ v.events = kEventsColumns
        /\ v.checks = {kEventsCheck} /\ v.index = d.index
    BY <1>0, <1>3 DEF Schema
  <2> QED
    BY <1>0, <2>1, Zenon
<1>4. ASSUME Schema(v) = Prepared(d, 3)
      PROVE  <<v.meta, "3", v.events, v.checks, v.index>> = Prepared(d, 4)
  BY <1>0, <1>4 DEF Schema
<1> QED
  BY <1>1, <1>2, <1>3, <1>4, Zenon

\* The statements that prepare a fresh database.
LEMMA PrepareInv ==
    ASSUME StoreInv, CreateMeta \/ CreateEvents \/ CreateIndex \/ InsertVersion
    PROVE  StoreInv' /\ UNCHANGED Promise!vars
<1>0. /\ pc \in Statements /\ call = "open" /\ db \in Database /\ view \in Database
      /\ UNCHANGED <<db, inTxn, call, arg, todo, removed, batch, reply, first>>
  BY Zenon DEF StoreInv, StoreTypeOK, CallInv, Statements, CreateMeta, CreateEvents,
     CreateIndex, InsertVersion, Statement
<1>1. CASE pc' = "rollback" /\ UNCHANGED view
  <2>1. todo' \subseteq arg /\ removed' \in Nat
    BY <1>0, Zenon DEF StoreInv, StoreTypeOK
  <2> QED
    BY <1>0, <1>1, <2>1, FailedStatementInv, Zenon
<1>2. ASSUME \/ /\ pc = "create_meta" /\ pc' = "create_events"
                /\ view' = [view EXCEPT !.meta = kMetaColumns]
             \/ /\ pc = "create_events" /\ pc' = "create_index"
                /\ view' = [view EXCEPT !.events = kEventsColumns,
                                        !.checks = {kEventsCheck}]
             \/ /\ pc = "create_index" /\ pc' = "insert_version"
                /\ view' = IF view.index = NoIndex
                           THEN [view EXCEPT !.index = kOrderIndex] ELSE view
             \/ /\ pc = "insert_version" /\ pc' = "commit"
                /\ view' = [view EXCEPT !.version = "3"]
      PROVE  StoreInv' /\ UNCHANGED Promise!vars
  <2>1. /\ view' \in Database
        /\ view'.rows = view.rows /\ view'.bad = view.bad /\ view'.marker = view.marker
    BY <1>0, <1>2, SchemaUpdates, ZenonT(30)
  <2>2. StoreTypeOK'
    BY <1>0, <1>2, <2>1, Zenon DEF StoreInv, StoreTypeOK
  <2>3. CallInv' /\ InTxnInv'
    BY <1>0, <1>2, <2>1, Zenon DEF StoreInv, StoreTypeOK, CallInv, InTxnInv, Statements
  <2>4. FetchInv' /\ ProgressInv'
    BY <1>0, <1>2, <2>1, Zenon DEF StoreInv, InTxnInv, FetchInv, ProgressInv
  <2>5. SchemaInv'
    <3>1. SchemaInv /\ ~Refused(first)
      BY <1>0, ZenonT(30) DEF StoreInv, SchemaInv, Statements
    <3>2. Fresh(first) /\ Schema(db) = Schema(first)
      BY <1>0, <1>2, <3>1, Zenon DEF SchemaInv
    <3>3. CASE pc = "create_meta"
      <4>0. Schema(view) = Prepared(first, 0)
        BY <1>0, <3>1, <3>3, Zenon DEF SchemaInv
      <4>1. Schema(view') = Prepared(first, 1)
        <5>1. view' = [view EXCEPT !.meta = kMetaColumns]
          BY <1>2, <3>3, Zenon
        <5>2. Schema(view') =
                <<kMetaColumns, view.version, view.events, view.checks, view.index>>
          BY <1>0, <5>1, SchemaUpdates, ZenonT(30)
        <5> QED
          BY <4>0, <5>2, PreparedNext, Zenon
      <4> QED
        BY <1>0, <1>2, <3>1, <3>2, <3>3, <4>1, ZenonT(30) DEF SchemaInv, Schema
    <3>4. CASE pc = "create_events"
      <4>0. Schema(view) = Prepared(first, 1)
        BY <1>0, <3>1, <3>4, Zenon DEF SchemaInv
      <4>1. Schema(view') = Prepared(first, 2)
        <5>1. view' = [view EXCEPT !.events = kEventsColumns,
                                   !.checks = {kEventsCheck}]
          BY <1>2, <3>4, Zenon
        <5>2. Schema(view') =
                <<view.meta, view.version, kEventsColumns, {kEventsCheck}, view.index>>
          BY <1>0, <5>1, SchemaUpdates, ZenonT(30)
        <5> QED
          BY <4>0, <5>2, PreparedNext, Zenon
      <4> QED
        BY <1>0, <1>2, <3>1, <3>2, <3>4, <4>1, ZenonT(30) DEF SchemaInv, Schema
    <3>5. CASE pc = "create_index"
      <4>0. Schema(view) = Prepared(first, 2)
        BY <1>0, <3>1, <3>5, Zenon DEF SchemaInv
      <4>1. Schema(view') = Prepared(first, 3)
        <5>1. view' = IF view.index = NoIndex
                      THEN [view EXCEPT !.index = kOrderIndex] ELSE view
          BY <1>2, <3>5, Zenon
        <5>2. Schema(view') =
                <<view.meta, view.version, view.events, view.checks,
                 IF view.index = NoIndex THEN kOrderIndex ELSE view.index>>
          BY <1>0, <5>1, SchemaUpdates, ZenonT(30) DEF Schema
        <5> QED
          BY <4>0, <5>2, PreparedNext, Zenon
      <4> QED
        BY <1>0, <1>2, <3>1, <3>2, <3>5, <4>1, ZenonT(30) DEF SchemaInv, Schema
    <3>6. CASE pc = "insert_version"
      <4>0. Schema(view) = Prepared(first, 3)
        BY <1>0, <3>1, <3>6, Zenon DEF SchemaInv
      <4>1. Schema(view') = Prepared(first, 4)
        <5>1. view' = [view EXCEPT !.version = "3"]
          BY <1>2, <3>6, Zenon
        <5>2. Schema(view') =
                <<view.meta, "3", view.events, view.checks, view.index>>
          BY <1>0, <5>1, SchemaUpdates, ZenonT(30)
        <5> QED
          BY <4>0, <5>2, PreparedNext, Zenon
      <4> QED
        BY <1>0, <1>2, <3>1, <3>2, <3>6, <4>1, Zenon DEF SchemaInv, Schema
    <3> QED
      BY <1>2, <3>3, <3>4, <3>5, <3>6, Zenon
  <2>6. UNCHANGED Promise!vars
    BY <1>0, <1>2, StatementRefines, ZenonT(30) DEF Statements
  <2> QED
    BY <2>2, <2>3, <2>4, <2>5, <2>6, Zenon DEF StoreInv
<1> QED
  BY <1>1, <1>2, Zenon DEF CreateMeta, CreateEvents, CreateIndex, InsertVersion, Statement

-----------------------------------------------------------------------------
(* open *)

\* Connecting, inspecting and going on with a database that is not refused.
LEMMA InspectInv ==
    ASSUME StoreInv, Open \/ Inspect
    PROVE  StoreInv' /\ [Promise!Step]_(Promise!vars)
<1>1. CASE Closed /\ UNCHANGED <<db, first>>
  BY <1>1, ClosedInv, Zenon DEF Promise!Step
<1>2. CASE /\ UNCHANGED <<db, first, view, inTxn, arg, todo, removed, batch, reply>>
           /\ call' = "open"
           /\ \/ pc = "closed" /\ pc' = "inspect"
              \/ pc = "inspect" /\ Accepted(db) /\ pc' = "journal_mode"
              \/ pc = "inspect" /\ Fresh(db) /\ pc' = "begin"
  <2>0. inTxn = FALSE /\ (pc = "inspect" => call = "open")
    BY <1>2, Zenon DEF StoreInv, StoreTypeOK, InTxnInv, CallInv
  <2>1. StoreTypeOK'
    BY <1>2, Zenon DEF StoreInv, StoreTypeOK
  <2>2. CallInv' /\ InTxnInv' /\ FetchInv' /\ ProgressInv'
    <3>1. arg = {} /\ todo = {} /\ removed = 0
      BY <1>2, Zenon DEF StoreInv, StoreTypeOK, CallInv
    <3> QED
      BY <1>2, <2>0, <3>1, ZenonT(30) DEF StoreInv, CallInv, InTxnInv, FetchInv, ProgressInv
  <2>3. SchemaInv'
    <3>1. SchemaInv
      BY Zenon DEF StoreInv
    <3>2. pc = "inspect" => pc' = "begin" \/ pc' = "journal_mode"
      BY <1>2, Zenon
    <3>3. Refused(first) => db = first
      BY <3>1, Zenon DEF SchemaInv
    <3>4. CASE pc = "closed"
      BY <1>2, <2>0, <3>1, <3>4, ZenonT(30) DEF SchemaInv, Schema
    <3>5. CASE pc = "inspect" /\ Accepted(db)
      <4>1. ~Refused(first)
        BY <3>3, <3>5, Zenon DEF Refused
      <4>2. Accepted(first) \/ (Fresh(first) /\ Schema(db) = Prepared(first, 4))
        BY <3>1, <3>5, SchemaDecides, Zenon DEF SchemaInv
      <4>3. /\ pc' = "journal_mode" /\ Schema(db)' = Schema(db)
            /\ Schema(first)' = Schema(first) /\ Prepared(first, 4)' = Prepared(first, 4)
            /\ Refused(first)' = Refused(first) /\ Accepted(first)' = Accepted(first)
            /\ Fresh(first)' = Fresh(first) /\ UNCHANGED inTxn
        <5>1. pc' = "journal_mode"
          BY <1>2, <3>5, Zenon DEF Accepted, Fresh
        <5> QED
          BY <1>2, <5>1, Zenon
      <4> QED
        BY <1>2, <2>0, <3>1, <4>1, <4>2, <4>3, ZenonT(30) DEF SchemaInv
    <3>6. CASE pc = "inspect" /\ Fresh(db) /\ pc' = "begin"
      <4>1. Schema(db) = Schema(first) /\ Fresh(first)
        <5>1. Schema(db) # Prepared(first, 4)
          BY <3>6 DEF Schema, Prepared, Fresh, kMetaColumns, NoTable
        <5> QED
          BY <3>1, <3>6, <5>1, SchemaDecides, ZenonT(30) DEF SchemaInv
      <4>2. ~Refused(first)
        BY <4>1, Zenon DEF Refused
      <4> QED
        BY <1>2, <2>0, <3>1, <3>6, <4>1, <4>2, ZenonT(30) DEF SchemaInv, Schema
    <3> QED
      BY <1>2, <3>4, <3>5, <3>6, ZenonT(30)
  <2>4. UNCHANGED Promise!vars
    <3>1. Poisoned = FALSE /\ Poisoned' = FALSE
      BY <1>2, <2>0, Zenon DEF Poisoned
    <3> QED
      BY <1>2, <3>1, ZenonT(30) DEF Promise!vars, Promise!dataVars
  <2> QED
    BY <2>1, <2>2, <2>3, <2>4, Zenon DEF StoreInv
<1> QED
  <2>1. CASE Open
    BY <1>2, <2>1, Zenon DEF Open
  <2>2. CASE Inspect
    BY <1>1, <1>2, <2>2, ZenonT(30) DEF Inspect, callVars, StoreInv, CallInv
  <2> QED
    BY <2>1, <2>2, Zenon

\* Setting the pragmas of a database that was accepted or prepared.
LEMMA PragmasInv ==
    ASSUME StoreInv, JournalMode \/ Pragmas
    PROVE  StoreInv' /\ [Promise!Step]_(Promise!vars)
<1>1. CASE Closed /\ UNCHANGED <<db, first>>
  BY <1>1, ClosedInv, Zenon DEF Promise!Step
<1>2. CASE Pragmas /\ Return(Promise!NoAnswer) /\ UNCHANGED <<view, inTxn, db, first>>
  <2>1. pc = "pragmas" /\ inTxn = FALSE
    BY <1>2, ZenonT(30) DEF Pragmas, StoreInv, StoreTypeOK, InTxnInv
  <2>2. Promise!Begins
    BY <1>2, <2>1, ZenonT(30) DEF Promise!Begins, Promise!dataVars, Return, Poisoned
  <2> QED
    BY <1>2, <2>1, <2>2, ReturnInv, Zenon DEF Promise!Step
<1>3. CASE /\ JournalMode /\ db' \in {db, [db EXCEPT !.journal = "wal"]}
           /\ view' = db' /\ pc' = "pragmas"
           /\ UNCHANGED <<inTxn, callVars, reply, first>>
  <2>0. /\ pc = "journal_mode" /\ inTxn = FALSE /\ call = "open"
        /\ UNCHANGED <<call, arg, todo, removed, batch>>
    BY <1>3, Zenon DEF JournalMode, StoreInv, StoreTypeOK, InTxnInv, CallInv, callVars
  <2>1. /\ db' \in Database /\ Schema(db') = Schema(db)
        /\ db'.rows = db.rows /\ db'.bad = db.bad /\ db'.marker = db.marker
    BY <1>3, ZenonT(30) DEF StoreInv, StoreTypeOK, Database, Schema
  <2>2. StoreTypeOK'
    BY <1>3, <2>0, <2>1, Zenon DEF StoreInv, StoreTypeOK
  <2>3. CallInv' /\ InTxnInv' /\ FetchInv' /\ ProgressInv'
    BY <1>3, <2>0, <2>1, ZenonT(30) DEF StoreInv, CallInv, InTxnInv, FetchInv, ProgressInv
  <2>4. SchemaInv'
    <3>1. SchemaInv /\ ~Refused(first)
      BY <2>0, ZenonT(30) DEF StoreInv, SchemaInv
    <3>2. Accepted(first) \/ (Fresh(first) /\ Schema(db) = Prepared(first, 4))
      BY <2>0, <3>1, ZenonT(30) DEF SchemaInv
    <3>3. Schema(db)' = Schema(db) /\ Schema(first)' = Schema(first)
          /\ Prepared(first, 4)' = Prepared(first, 4)
      BY <1>3, <2>1, Zenon DEF Schema, Prepared
    <3> QED
      BY <1>3, <2>0, <3>1, <3>2, <3>3, Zenon DEF SchemaInv
  <2>5. UNCHANGED Promise!vars
    <3>1. Poisoned = FALSE /\ Poisoned' = FALSE
      BY <1>3, <2>0, Zenon DEF Poisoned
    <3> QED
      BY <1>3, <2>1, <3>1, ZenonT(30) DEF Promise!vars, Promise!dataVars
  <2> QED
    BY <2>2, <2>3, <2>4, <2>5, Zenon DEF StoreInv
<1> QED
  BY <1>1, <1>2, <1>3, ZenonT(30) DEF JournalMode, Pragmas

-----------------------------------------------------------------------------
(* The calls *)

\* An operation that needs a transaction begins.
LEMMA StartInv ==
    ASSUME StoreInv, pc = "idle", pc' = "begin",
           call' \in {"insert", "acknowledge", "quarantine", "mark", "purge"},
           call' \in {"mark", "purge"} => arg' = {},
           arg' \subseteq Events, todo' = arg', batch' \subseteq Events,
           reply' = Promise!NoAnswer, FetchInv',
           UNCHANGED <<db, view, inTxn, removed, first>>
    PROVE  StoreInv' /\ Promise!Begins
<1>0. call = "none" /\ removed = 0
  BY Zenon DEF StoreInv, CallInv
<1>1. StoreTypeOK'
  BY Zenon DEF StoreInv, StoreTypeOK
<1>2. CallInv' /\ InTxnInv'
  BY <1>0, Zenon DEF StoreInv, CallInv, InTxnInv
<1>3. ProgressInv'
  BY Zenon DEF ProgressInv
<1>4. SchemaInv'
  <2>1. /\ SchemaInv /\ ~Refused(first)
        /\ Accepted(first) \/ (Fresh(first) /\ Schema(db) = Prepared(first, 4))
        /\ inTxn => Schema(view) = Schema(db)
    BY <1>0, ZenonT(30) DEF StoreInv, SchemaInv
  <2>2. /\ Schema(db)' = Schema(db) /\ Schema(first)' = Schema(first)
        /\ Prepared(first, 4)' = Prepared(first, 4) /\ Schema(view)' = Schema(view)
        /\ Refused(first)' = Refused(first) /\ Accepted(first)' = Accepted(first)
        /\ Fresh(first)' = Fresh(first)
    OBVIOUS
  <2> QED
    BY <2>1, <2>2, ZenonT(30) DEF SchemaInv
<1>5. Promise!Begins
  BY Zenon DEF Promise!Begins, Promise!dataVars, Poisoned
<1> QED
  BY <1>1, <1>2, <1>3, <1>4, <1>5, ZenonT(30) DEF StoreInv

\* insert, acknowledge, mark and purge begin.
LEMMA CallStarts ==
    ASSUME StoreInv, Call
    PROVE  StoreInv' /\ Promise!Step
<1>1. /\ pc = "idle" /\ pc' = "begin"
      /\ call' \in {"insert", "acknowledge", "mark", "purge"}
      /\ call' \in {"mark", "purge"} => arg' = {}
      /\ arg' \subseteq Events /\ todo' = arg' /\ UNCHANGED batch
      /\ reply' = Promise!NoAnswer
      /\ UNCHANGED <<db, view, inTxn, removed, first>>
  BY Zenon DEF Call, Start
<1>2. FetchInv' /\ batch' \subseteq Events
  BY <1>1, Zenon DEF FetchInv, StoreInv, StoreTypeOK
<1> QED
  BY <1>1, <1>2, StartInv, Zenon DEF Promise!Step

\* What a poisoned connection answers to a read is not promised.
LEMMA PoisonedRead ==
    ASSUME pc = "idle", pc' = "idle", inTxn, UNCHANGED <<db, inTxn>>,
           reply'.op \in {"fetch", "count", "pending"}
    PROVE  Promise!Step
<1>1. Poisoned = TRUE /\ Poisoned' = TRUE
  BY Zenon DEF Poisoned
<1>2. Promise!ReadsPoisoned
  BY <1>1, Zenon DEF Promise!ReadsPoisoned, Promise!dataVars
<1> QED
  BY <1>2, Zenon DEF Promise!Step

\* Reads answer from the connection's view, which is what is committed unless
\* the connection is poisoned.
LEMMA FetchReads ==
    ASSUME StoreInv, FetchPending
    PROVE  StoreInv' /\ Promise!Step
<1> DEFINE window == Promise!Oldest(view.rows, Limit)
           unusable == window \cap view.bad
<1>0. /\ pc = "idle" /\ UNCHANGED <<db, view, inTxn, first>>
      /\ view.rows \subseteq Events /\ Limit \in Nat
      /\ (~inTxn => Poisoned = FALSE /\ view = db)
  BY StoreAssumption, Zenon
     DEF FetchPending, StoreInv, StoreTypeOK, Database, InTxnInv, Poisoned
<1>1. CASE unusable = {} /\ Return(Promise!Answer("fetch", TRUE, window, 0))
  <2>1. StoreInv'
    BY <1>0, <1>1, ReturnInv, ZenonT(30)
  <2>2. /\ Poisoned' = Poisoned /\ pc' = "idle"
        /\ reply' = Promise!Answer("fetch", TRUE, window, 0)
    BY <1>0, <1>1, Zenon DEF Poisoned, Return
  <2>3. CASE inTxn
    <3>1. reply'.op = "fetch"
      BY <2>2, Zenon DEF Promise!Answer
    <3> QED
      BY <1>0, <2>1, <2>2, <2>3, <3>1, PoisonedRead, ZenonT(30)
  <2>4. CASE ~inTxn
    <3>1. Promise!FetchDone
      BY <1>0, <1>1, <2>2, <2>4, ZenonT(30)
      DEF Promise!FetchDone, Promise!Answers, Promise!dataVars
    <3> QED
      BY <1>0, <2>1, <2>4, <3>1, Zenon DEF Promise!Step
  <2> QED
    BY <2>1, <2>3, <2>4, Zenon
<1>2. CASE /\ unusable # {} /\ pc' = "begin" /\ call' = "quarantine"
           /\ arg' = unusable /\ todo' = unusable /\ batch' = window \ view.bad
           /\ reply' = Promise!NoAnswer /\ UNCHANGED removed
  <2>1. unusable \subseteq Events /\ window \ view.bad \subseteq Events
    BY <1>0, Zenon DEF Promise!Oldest
  <2>2. inTxn => Poisoned'
    BY <1>0, <1>2, Zenon DEF Poisoned
  <2>3. FetchInv'
    <3>1. CASE inTxn
      BY <2>2, <3>1, Zenon DEF FetchInv
    <3>2. CASE ~inTxn
      BY <1>0, <1>2, <3>2, Zenon DEF FetchInv, Promise!Oldest
    <3> QED
      BY <3>1, <3>2, Zenon
  <2> HIDE DEF unusable, window
  <2>4. StoreInv' /\ Promise!Begins
    BY <1>0, <1>2, <2>1, <2>3, StartInv, ZenonT(30)
  <2> QED
    BY <2>4, Zenon DEF Promise!Step
<1>3. CASE \E k \in 0..Limit : Return(Promise!Answer("fetch", FALSE,
                                        Promise!Oldest(view.rows, k) \ view.bad, 0))
  <2>1. PICK k \in 0..Limit : Return(Promise!Answer("fetch", FALSE,
                                       Promise!Oldest(view.rows, k) \ view.bad, 0))
    BY <1>3, ZenonT(30)
  <2>2. StoreInv'
    BY <1>0, <2>1, ReturnInv, ZenonT(30)
  <2>3. /\ Poisoned' = Poisoned /\ pc' = "idle"
        /\ reply' = Promise!Answer("fetch", FALSE, Promise!Oldest(view.rows, k) \ view.bad, 0)
    BY <1>0, <2>1, Zenon DEF Poisoned, Return
  <2>4. CASE inTxn
    <3>1. reply'.op = "fetch"
      BY <2>3, Zenon DEF Promise!Answer
    <3> QED
      BY <1>0, <2>2, <2>3, <2>4, <3>1, PoisonedRead, ZenonT(30)
  <2>5. CASE ~inTxn
    <3>1. Promise!FetchFails
      BY <1>0, <2>3, <2>5, ZenonT(30) DEF Promise!FetchFails, Promise!dataVars
    <3> QED
      BY <1>0, <2>2, <2>5, <3>1, ZenonT(30) DEF Promise!Step
  <2> QED
    BY <2>2, <2>4, <2>5, Zenon
<1> QED
  BY <1>1, <1>2, <1>3, ZenonT(30) DEF FetchPending

\* count, count_up_to, max_ordinal and revocation_pending.
LEMMA OtherReads ==
    ASSUME StoreInv, RevocationPending \/ (\E b \in Events : CountUpTo(b))
    PROVE  StoreInv' /\ Promise!Step
<1>0. /\ pc = "idle" /\ UNCHANGED <<db, view, inTxn, first>>
      /\ (~inTxn => Poisoned = FALSE /\ view = db)
  BY ZenonT(30) DEF RevocationPending, CountUpTo, StoreInv, InTxnInv, Poisoned
<1>1. ASSUME NEW answer, Return(answer), answer.op \in {"count", "pending"}
      PROVE  /\ StoreInv' /\ UNCHANGED <<db.rows, db.bad, db.marker>>
             /\ reply' = answer /\ pc' = "idle"
             /\ (Poisoned = FALSE => Poisoned' = FALSE)
             /\ (inTxn => Promise!Step)
  <2>1. StoreInv'
    BY <1>0, <1>1, ReturnInv, Zenon
  <2>2. reply' = answer /\ pc' = "idle"
    BY <1>1, Zenon DEF Return
  <2>3. Poisoned = FALSE => Poisoned' = FALSE
    BY <1>0, <2>2, Zenon DEF Poisoned
  <2>4. inTxn => Promise!Step
    BY <1>0, <1>1, <2>2, PoisonedRead, ZenonT(30)
  <2> QED
    BY <1>0, <2>1, <2>2, <2>3, <2>4, ZenonT(30)
<1>2. CASE \E op \in {"count", "pending"} : Return(Promise!Answer(op, FALSE, {}, 0))
  <2>1. PICK op \in {"count", "pending"} : Return(Promise!Answer(op, FALSE, {}, 0))
    BY <1>2, ZenonT(30)
  <2>2. Promise!Answer(op, FALSE, {}, 0).op = op
    BY Zenon DEF Promise!Answer
  <2>3. /\ StoreInv' /\ UNCHANGED <<db.rows, db.bad, db.marker>>
        /\ reply' = Promise!Answer(op, FALSE, {}, 0)
        /\ (Poisoned = FALSE => Poisoned' = FALSE)
        /\ (inTxn => Promise!Step)
    BY <1>1, <2>1, <2>2, ZenonT(30)
  <2>4. ASSUME ~inTxn PROVE Promise!Fails
    BY <1>0, <2>3, <2>4, ZenonT(30) DEF Promise!Fails, Promise!dataVars
  <2> QED
    BY <2>3, <2>4, Zenon DEF Promise!Step
<1>3. ASSUME NEW b \in Events,
             Return(Promise!Answer("count", TRUE, {},
                                   Cardinality({e \in view.rows : e <= b})))
      PROVE  StoreInv' /\ Promise!Step
  <2> DEFINE answer == Promise!Answer("count", TRUE, {},
                                      Cardinality({e \in view.rows : e <= b}))
  <2>2. answer.op = "count"
    BY Zenon DEF Promise!Answer
  <2>3. /\ StoreInv' /\ UNCHANGED <<db.rows, db.bad, db.marker>> /\ reply' = answer
        /\ (Poisoned = FALSE => Poisoned' = FALSE)
        /\ (inTxn => Promise!Step)
    BY <1>1, <1>3, <2>2, ZenonT(30)
  <2>4. ASSUME ~inTxn PROVE Promise!CountDone(b)
    <3>1. Poisoned' = Poisoned /\ view = db
      BY <1>0, <2>3, <2>4, ZenonT(30)
    <3>2. reply' = Promise!Answer("count", TRUE, {}, Cardinality({e \in db.rows : e <= b}))
      BY <2>3, <3>1, Zenon
    <3>3. UNCHANGED Promise!dataVars
      BY <2>3, Zenon DEF Promise!dataVars
    <3> QED
      BY <3>1, <3>2, <3>3, SameCardinality, Zenon DEF Promise!CountDone, Promise!Answers
  <2> QED
    BY <1>0, <2>3, <2>4, Zenon DEF Promise!Step
<1>4. ASSUME Return(Promise!Answer("pending", TRUE, {}, IF view.marker THEN 1 ELSE 0))
      PROVE  StoreInv' /\ Promise!Step
  <2> DEFINE answer == Promise!Answer("pending", TRUE, {}, IF view.marker THEN 1 ELSE 0)
  <2>2. answer.op = "pending"
    BY Zenon DEF Promise!Answer
  <2>3. /\ StoreInv' /\ UNCHANGED <<db.rows, db.bad, db.marker>> /\ reply' = answer
        /\ (Poisoned = FALSE => Poisoned' = FALSE)
        /\ (inTxn => Promise!Step)
    <3>1. Return(answer)
      BY <1>4, ZenonT(30)
    <3> HIDE DEF answer
    <3> QED
      BY <1>1, <2>2, <3>1, ZenonT(30)
  <2>4. ASSUME ~inTxn PROVE Promise!PendingDone
    BY <1>0, <2>3, <2>4, ZenonT(30) DEF Promise!PendingDone, Promise!Answers, Promise!dataVars
  <2> QED
    BY <1>0, <2>3, <2>4, Zenon DEF Promise!Step
<1> QED
  BY <1>2, <1>3, <1>4, ZenonT(30) DEF RevocationPending, CountUpTo

\* A row goes bad between transactions.
LEMMA DamageInv ==
    ASSUME StoreInv, Damage
    PROVE  StoreInv' /\ Promise!Step
<1>1. PICK e \in db.rows : db' = [db EXCEPT !.bad = @ \cup {e}]
  BY Zenon DEF Damage
<1>2. /\ pc \in {"closed", "idle"} /\ inTxn = FALSE /\ view' = db'
      /\ UNCHANGED <<inTxn, pc, call, arg, todo, removed, batch, reply, first>>
      /\ call = "none"
  BY Zenon DEF Damage, callVars, StoreInv, StoreTypeOK, CallInv
<1>3. /\ db' \in Database /\ e \in Events /\ db'.bad = db.bad \cup {e}
      /\ db'.rows = db.rows /\ db'.marker = db.marker /\ Schema(db') = Schema(db)
  BY <1>1, Zenon DEF StoreInv, StoreTypeOK, Database, Schema
<1>4. StoreTypeOK'
  BY <1>2, <1>3, ZenonT(30) DEF StoreInv, StoreTypeOK
<1>5. CallInv' /\ InTxnInv' /\ FetchInv' /\ ProgressInv'
  BY <1>2, <1>3, ZenonT(30) DEF StoreInv, CallInv, InTxnInv, FetchInv, ProgressInv
<1>6. SchemaInv'
  <2>1. SchemaInv
    BY Zenon DEF StoreInv
  <2>2. /\ Schema(db)' = Schema(db) /\ Schema(first)' = Schema(first)
        /\ Prepared(first, 4)' = Prepared(first, 4)
        /\ Refused(first)' = Refused(first) /\ Accepted(first)' = Accepted(first)
        /\ Fresh(first)' = Fresh(first)
    BY <1>2, <1>3, Zenon DEF Schema
  <2>3. ~Refused(first)
    BY <1>1, <2>1, Zenon DEF SchemaInv
  <2> QED
    BY <1>2, <2>1, <2>2, <2>3, Zenon DEF SchemaInv
<1>7. Promise!GoesBad
  <2>1. Poisoned = FALSE /\ Poisoned' = FALSE
    BY <1>2, Zenon DEF Poisoned
  <2> QED
    BY <1>2, <1>3, <2>1, ZenonT(30) DEF Promise!GoesBad, Promise!Damage
<1> QED
  BY <1>4, <1>5, <1>6, <1>7, ZenonT(30) DEF StoreInv, Promise!Step

\* A statement on the rows or the marker that does its part of the call.
LEMMA RowStatementInv ==
    ASSUME StoreInv, call # "open",
           pc \in {"insert_row", "delete_row", "set_marker", "delete_all", "clear_marker"},
           pc' \in {pc, "commit"} \/ (pc = "delete_all" /\ pc' = "clear_marker"),
           view' \in Database, Schema(view') = Schema(view), view'.bad \subseteq view'.rows,
           todo' \subseteq arg, pc' = "commit" => todo' = {}, removed' \in Nat,
           ProgressInv', UNCHANGED <<db, inTxn, call, arg, batch, reply, first>>
    PROVE  StoreInv' /\ UNCHANGED Promise!vars
<1>1. StoreTypeOK'
  BY Zenon DEF StoreInv, StoreTypeOK
<1>2. UNCHANGED Promise!vars /\ Poisoned = FALSE /\ Poisoned' = FALSE
  BY StatementRefines, ZenonT(30) DEF Statements
<1>3. CallInv' /\ InTxnInv'
  BY Zenon DEF StoreInv, CallInv, InTxnInv
<1>4. FetchInv'
  BY <1>2, Zenon DEF StoreInv, FetchInv, Promise!Oldest
<1>5. SchemaInv'
  <2>1. /\ SchemaInv /\ ~Refused(first) /\ inTxn /\ call # "none"
        /\ Schema(view) = Schema(db)
    BY Zenon DEF StoreInv, SchemaInv, InTxnInv, CallInv
  <2>2. /\ Schema(db)' = Schema(db) /\ Schema(first)' = Schema(first)
        /\ Prepared(first, 4)' = Prepared(first, 4) /\ Schema(view)' = Schema(db)
        /\ Refused(first)' = Refused(first) /\ Accepted(first)' = Accepted(first)
        /\ Fresh(first)' = Fresh(first)
    BY <2>1, Zenon DEF Schema
  <2> QED
    BY <2>1, <2>2, Zenon DEF SchemaInv
<1> QED
  BY <1>1, <1>2, <1>3, <1>4, <1>5, ZenonT(30) DEF StoreInv

\* The constraints that a transaction sees besides the wanted one were found.
LEMMA ViewSelective ==
    ASSUME StoreInv, call # "open", inTxn, Selective(view)
    PROVE  Selective(first)
<1>1. /\ Schema(view) = Schema(db)
      /\ Schema(db) = Schema(first) \/ Schema(db) = Prepared(first, 4)
  BY Zenon DEF StoreInv, SchemaInv
<1>2. view.checks = first.checks \/ view.checks = {kEventsCheck}
  BY <1>1, SMTT(30) DEF Schema, Prepared
<1> QED
  BY <1>2, Zenon DEF Selective, WantedChecks, kEventsCheck

\* INSERT OR IGNORE of one record, which may be passed over.
LEMMA InsertRowInv ==
    ASSUME StoreInv, InsertRow
    PROVE  StoreInv' /\ UNCHANGED Promise!vars
<1>1. PICK e \in todo, kept \in BOOLEAN :
        /\ kept \/ Selective(view)
        /\ Statement(IF kept THEN [view EXCEPT !.rows = @ \cup {e}] ELSE view,
                     IF todo = {e} THEN "commit" ELSE "insert_row")
        /\ todo' = todo \ {e}
  BY ZenonT(30) DEF InsertRow
<1>2. /\ pc = "insert_row" /\ call = "insert" /\ inTxn /\ view \in Database
      /\ e \in Events /\ todo \subseteq arg /\ db \in Database /\ removed \in Nat
      /\ UNCHANGED <<db, inTxn, call, arg, batch, reply, first, removed>>
      /\ view.bad \subseteq view.rows
  BY <1>1, ZenonT(30) DEF InsertRow, Statement, StoreInv, StoreTypeOK, CallInv, InTxnInv
<1>3. /\ view = [db EXCEPT !.rows = @ \cup Added] /\ removed = 0
      /\ Added \subseteq arg \ todo
      /\ Selective(first) \/ arg \ todo \subseteq view.rows
  BY <1>2, ZenonT(30) DEF StoreInv, ProgressInv
<1>4. CASE pc' = "rollback" /\ UNCHANGED view
  BY <1>1, <1>2, <1>4, FailedStatementInv, ZenonT(30) DEF Statements
<1>5. CASE /\ view' = IF kept THEN [view EXCEPT !.rows = @ \cup {e}] ELSE view
           /\ pc' = IF todo = {e} THEN "commit" ELSE "insert_row"
  <2>1. /\ view' \in Database /\ Schema(view') = Schema(view)
        /\ view'.bad \subseteq view'.rows
    BY <1>2, <1>5, ZenonT(30) DEF Database, Schema
  <2>2. /\ view.rows = db.rows \cup Added
        /\ view'.rows = IF kept THEN view.rows \cup {e} ELSE view.rows
        /\ arg \ todo' = (arg \ todo) \cup {e}
    <3>1. view.rows = db.rows \cup Added
      BY <1>2, <1>3, Zenon DEF Database
    <3>2. view'.rows = IF kept THEN view.rows \cup {e} ELSE view.rows
      BY <1>2, <1>5, Zenon DEF Database
    <3>3. arg \ todo' = (arg \ todo) \cup {e}
      BY <1>1, <1>2, Zenon
    <3> QED
      BY <3>1, <3>2, <3>3, Zenon
  <2>3. /\ Added' \subseteq arg \ todo'
        /\ view'.rows = db.rows \cup Added'
    BY <1>2, <1>3, <2>2, SMTT(30) DEF Added
  <2>4. view' = [db EXCEPT !.rows = @ \cup Added']
    <3>1. CASE kept
      BY <1>2, <1>3, <1>5, <2>2, <2>3, <3>1, ZenonT(30) DEF Database
    <3>2. CASE ~kept
      BY <1>2, <1>3, <1>5, <2>2, <2>3, <3>2, ZenonT(30) DEF Database
    <3> QED
      BY <3>1, <3>2, Zenon
  <2>5. Selective(first) \/ arg \ todo' \subseteq view'.rows
    BY <1>1, <1>2, <1>3, <2>2, ViewSelective, Zenon
  <2>6. ProgressInv'
    BY <1>2, <1>3, <1>5, <2>3, <2>4, <2>5, ZenonT(30) DEF ProgressInv
  <2> QED
    BY <1>1, <1>2, <1>5, <2>1, <2>6, RowStatementInv, ZenonT(30)
<1> QED
  BY <1>1, <1>4, <1>5, Zenon DEF Statement

\* The marker, and the statements of a purge.
LEMMA MarkerInv ==
    ASSUME StoreInv, SetMarker \/ DeleteAll \/ ClearMarker
    PROVE  StoreInv' /\ UNCHANGED Promise!vars
<1>0. /\ pc \in {"set_marker", "delete_all", "clear_marker"} /\ inTxn
      /\ call = IF pc = "set_marker" THEN "mark" ELSE "purge"
      /\ view \in Database /\ db \in Database /\ todo = {} /\ arg = {} /\ removed \in Nat
      /\ view.bad \subseteq view.rows
      /\ UNCHANGED <<db, inTxn, call, arg, batch, reply, first, todo>>
      /\ removed' \in Nat
  <2>1. view \in Database /\ removed \in Nat
    BY Zenon DEF StoreInv, StoreTypeOK
  <2>2. Cardinality(view.rows) \in Nat
    BY <2>1, EventSets, Zenon DEF Database
  <2> QED
    BY <2>1, <2>2, ZenonT(30) DEF SetMarker, DeleteAll, ClearMarker, Statement, StoreInv,
       StoreTypeOK, CallInv, InTxnInv
<1>1. CASE pc' = "rollback" /\ UNCHANGED view
  BY <1>0, <1>1, FailedStatementInv, Zenon DEF Statements
<1>2. ASSUME SetMarker, view' = [view EXCEPT !.marker = TRUE], pc' = "commit"
      PROVE  StoreInv' /\ UNCHANGED Promise!vars
  <2>0. pc = "set_marker" /\ UNCHANGED removed
    BY <1>2, Zenon DEF SetMarker
  <2>1. /\ view' \in Database /\ Schema(view') = Schema(view)
        /\ view'.bad \subseteq view'.rows
    BY <1>0, <1>2, ZenonT(30) DEF Database, Schema
  <2>2. view = [db EXCEPT !.marker = (pc = "commit") \/ @] /\ removed = 0
    BY <1>0, <2>0, ZenonT(30) DEF StoreInv, ProgressInv
  <2>3. view' = [db EXCEPT !.marker = (pc' = "commit") \/ @]
    BY <1>0, <1>2, <2>2, ZenonT(30) DEF Database
  <2>4. ProgressInv'
    BY <1>0, <1>2, <2>0, <2>2, <2>3, ZenonT(30) DEF ProgressInv
  <2> QED
    BY <1>0, <1>2, <2>0, <2>1, <2>4, RowStatementInv, ZenonT(30)
<1>3. ASSUME DeleteAll, view' = [view EXCEPT !.rows = {}, !.bad = {}],
             pc' = "clear_marker"
      PROVE  StoreInv' /\ UNCHANGED Promise!vars
  <2>0. pc = "delete_all" /\ removed' = Cardinality(view.rows)
    BY <1>3, Zenon DEF DeleteAll
  <2>1. /\ view' \in Database /\ Schema(view') = Schema(view)
        /\ view'.bad \subseteq view'.rows
    BY <1>0, <1>3, ZenonT(30) DEF Database, Schema
  <2>2. view = db
    BY <1>0, <2>0, ZenonT(30) DEF StoreInv, ProgressInv
  <2>3. ProgressInv'
    BY <1>0, <1>3, <2>0, <2>2, ZenonT(30) DEF ProgressInv
  <2> QED
    BY <1>0, <1>3, <2>0, <2>1, <2>3, RowStatementInv, ZenonT(30)
<1>4. ASSUME ClearMarker, view' = [view EXCEPT !.marker = FALSE], pc' = "commit"
      PROVE  StoreInv' /\ UNCHANGED Promise!vars
  <2>0. pc = "clear_marker" /\ UNCHANGED removed
    BY <1>4, Zenon DEF ClearMarker
  <2>1. /\ view' \in Database /\ Schema(view') = Schema(view)
        /\ view'.bad \subseteq view'.rows
    BY <1>0, <1>4, ZenonT(30) DEF Database, Schema
  <2>2. view = [db EXCEPT !.rows = {}, !.bad = {}] /\ removed = Cardinality(db.rows)
    BY <1>0, <2>0, ZenonT(30) DEF StoreInv, ProgressInv
  <2>3. view' = [db EXCEPT !.rows = {}, !.bad = {}, !.marker = FALSE]
    BY <1>0, <1>4, <2>2, Zenon DEF Database
  <2>4. ProgressInv'
    BY <1>0, <1>4, <2>0, <2>2, <2>3, Zenon DEF ProgressInv
  <2> QED
    BY <1>0, <1>4, <2>0, <2>1, <2>4, RowStatementInv, ZenonT(30)
<1> QED
  BY <1>1, <1>2, <1>3, <1>4, ZenonT(30) DEF SetMarker, DeleteAll, ClearMarker, Statement

\* DELETE of one row, found or not.
LEMMA DeleteRowInv ==
    ASSUME StoreInv, DeleteRow
    PROVE  StoreInv' /\ UNCHANGED Promise!vars
<1>1. PICK e \in todo, found \in BOOLEAN :
        /\ found \in Finds(e)
        /\ Statement(IF found THEN [view EXCEPT !.rows = @ \ {e}, !.bad = @ \ {e}] ELSE view,
                     IF todo = {e} THEN "commit" ELSE "delete_row")
        /\ todo' = todo \ {e}
        /\ removed' = IF found THEN removed + 1 ELSE removed
  BY ZenonT(30) DEF DeleteRow
<1>2. /\ pc = "delete_row" /\ call \in {"acknowledge", "quarantine"} /\ inTxn
      /\ view \in Database /\ db \in Database
      /\ e \in Events /\ todo \subseteq arg /\ removed \in Nat
      /\ UNCHANGED <<db, inTxn, call, arg, batch, reply, first>>
      /\ view.bad \subseteq view.rows
      /\ removed' \in Nat
  BY <1>1 DEF DeleteRow, Statement, StoreInv, StoreTypeOK, CallInv, InTxnInv
<1>3. /\ view = [db EXCEPT !.rows = @ \ Gone, !.bad = @ \ Gone]
      /\ Gone \subseteq arg \ todo
      /\ removed = Cardinality(Gone)
      /\ ((arg \ todo) \cap db.rows) \ db.bad \subseteq Gone
      /\ call = "quarantine" => (arg \ todo) \cap db.rows \subseteq Gone
  BY <1>2, Zenon DEF StoreInv, ProgressInv
<1>4. CASE pc' = "rollback" /\ UNCHANGED view
  BY <1>1, <1>2, <1>4, FailedStatementInv, Zenon DEF Statements
<1>5. CASE /\ view' = IF found THEN [view EXCEPT !.rows = @ \ {e}, !.bad = @ \ {e}] ELSE view
           /\ pc' = IF todo = {e} THEN "commit" ELSE "delete_row"
  <2>1. /\ view' \in Database /\ Schema(view') = Schema(view)
        /\ view'.bad \subseteq view'.rows
    BY <1>2, <1>5, ZenonT(30) DEF Database, Schema
  <2>2. /\ view.rows = db.rows \ Gone /\ view.bad = db.bad \ Gone
        /\ arg \ todo' = (arg \ todo) \cup {e} /\ Gone \subseteq db.rows
    <3>1. view.rows = db.rows \ Gone /\ view.bad = db.bad \ Gone
      BY <1>2, <1>3, Zenon DEF Database
    <3>2. arg \ todo' = (arg \ todo) \cup {e}
      BY <1>1, <1>2, Zenon
    <3>3. Gone \subseteq db.rows
      BY Zenon DEF Gone
    <3> QED
      BY <3>1, <3>2, <3>3, Zenon
  <2>3. /\ found => e \in view.rows
        /\ ~found /\ e \in view.rows => call = "acknowledge" /\ e \in view.bad
    BY <1>1, <1>2, Zenon DEF Finds
  <2>4. CASE found
    <3>1. Gone' = Gone \cup {e} /\ e \notin Gone
      BY <1>2, <1>5, <2>2, <2>3, <2>4, SMTT(30) DEF Gone, Database
    <3>2. removed' = Cardinality(Gone')
      <4>1. IsFiniteSet(Gone)
        BY <1>2, <2>2, EventSets, Zenon DEF Database
      <4> QED
        BY <1>1, <1>3, <2>4, <3>1, <4>1, FS_AddElement, ZenonT(30)
    <3>3. view' = [db EXCEPT !.rows = @ \ Gone', !.bad = @ \ Gone']
      BY <1>2, <1>3, <1>5, <2>2, <2>4, <3>1, ZenonT(30) DEF Database
    <3>4. ProgressInv'
      BY <1>2, <1>3, <1>5, <2>2, <3>1, <3>2, <3>3, Zenon DEF ProgressInv
    <3> QED
      BY <1>1, <1>2, <1>5, <2>1, <3>4, RowStatementInv, ZenonT(30)
  <2>5. CASE ~found
    <3>1. Gone' = Gone /\ view' = view /\ removed' = removed
      BY <1>1, <1>2, <1>5, <2>5, Zenon DEF Gone
    <3>2. /\ ((arg \ todo') \cap db.rows) \ db.bad \subseteq Gone
          /\ call = "quarantine" => (arg \ todo') \cap db.rows \subseteq Gone
      BY <1>3, <2>2, <2>3, <2>5, Zenon
    <3>3. ProgressInv'
      BY <1>2, <1>3, <1>5, <2>2, <3>1, <3>2, ZenonT(30) DEF ProgressInv
    <3> QED
      BY <1>1, <1>2, <1>5, <2>1, <3>3, RowStatementInv, Zenon
  <2> QED
    BY <2>4, <2>5, Zenon
<1> QED
  BY <1>1, <1>4, <1>5, Zenon DEF Statement

-----------------------------------------------------------------------------
(* COMMIT *)

\* What COMMIT does for each operation is what AtomicStore promises of it.
LEMMA CommitRefines ==
    ASSUME StoreInv, pc = "commit", call # "open", db' = view, inTxn' = FALSE,
           Return(Success)
    PROVE  Promise!Step
<1>0. /\ call \in {"insert", "acknowledge", "quarantine", "mark", "purge"}
      /\ inTxn /\ todo = {} /\ arg \subseteq Events /\ db \in Database
      /\ call \in {"mark", "purge"} => arg = {}
  BY Zenon DEF StoreInv, StoreTypeOK, CallInv, InTxnInv
<1>1. /\ Poisoned = FALSE /\ Poisoned' = FALSE /\ reply' = Success
  BY Zenon DEF Poisoned, Return
<1>2. CASE call = "insert"
  <2>1. /\ view = [db EXCEPT !.rows = @ \cup Added] /\ removed = 0
        /\ Added \subseteq arg
        /\ Selective(first) \/ arg \subseteq view.rows
    <3>1. arg \ todo = arg
      BY <1>0, Zenon
    <3> QED
      BY <1>0, <1>2, <3>1, ZenonT(30) DEF StoreInv, ProgressInv
  <2>2. reply' = Promise!Answer("insert", TRUE, arg, 0)
    BY <1>1, <1>2, <2>1, Successes, Zenon
  <2>3. view.rows = db.rows \cup Added /\ view.bad = db.bad /\ view.marker = db.marker
    BY <1>0, <2>1, Zenon DEF Database
  <2>4. PICK kept \in Promise!Keeps(arg) : view.rows = db.rows \cup kept
    <3>1. CASE Selective(first)
      BY <2>1, <2>3, <3>1, Zenon DEF Promise!Keeps
    <3>2. CASE ~Selective(first)
      <4>1. view.rows = db.rows \cup arg
        BY <2>1, <2>3, <3>2, Zenon
      <4> QED
        BY <3>2, <4>1, Zenon DEF Promise!Keeps
    <3> QED
      BY <3>1, <3>2, Zenon
  <2>5. Promise!Insert(kept)
    BY <2>3, <2>4, ZenonT(30) DEF Promise!Insert
  <2>6. Promise!InsertDone(arg)
    BY <1>1, <2>2, <2>5, ZenonT(30) DEF Promise!InsertDone, Promise!Answers
  <2> QED
    BY <1>0, <1>1, <2>6, Zenon DEF Promise!Step
<1>3. CASE call \in {"acknowledge", "quarantine"}
  <2>1. /\ view = [db EXCEPT !.rows = @ \ Gone, !.bad = @ \ Gone]
        /\ Gone \subseteq arg /\ removed = Cardinality(Gone)
        /\ (arg \cap db.rows) \ db.bad \subseteq Gone
        /\ call = "quarantine" => arg \cap db.rows \subseteq Gone
    <3>1. arg \ todo = arg
      BY <1>0, Zenon
    <3> QED
      BY <1>0, <1>3, <3>1, ZenonT(30) DEF StoreInv, ProgressInv
  <2>2. Gone \in SUBSET (arg \cap db.rows) /\ Promise!Delete(Gone)
    BY <1>0, <2>1, ZenonT(30) DEF Gone, Promise!Delete, Database
  <2>3. IsFiniteSet(arg)
    BY <1>0, EventSets, Zenon
  <2>4. removed = Cardinality(arg) <=> Gone = arg
    BY <2>1, <2>3, FS_Subset, Zenon
  <2>5. CASE call = "acknowledge"
    <3>1. reply' = Promise!Answer("acknowledge", removed = Cardinality(arg), arg, removed)
      BY <1>1, <2>5, Successes, Zenon
    <3>2. (removed = Cardinality(arg)) = (Gone = arg)
      BY <2>4, Zenon
    <3>3. reply' = Promise!Answer("acknowledge", Gone = arg, arg, Promise!Cardinality(Gone))
      BY <2>1, <3>1, <3>2, SameCardinality, ZenonT(30)
    <3>4. Gone \in Promise!Matches(arg)
      BY <2>1, <2>2, Zenon DEF Promise!Matches
    <3>5. Promise!AcknowledgeDone(arg)
      BY <1>1, <2>2, <3>3, <3>4, ZenonT(30) DEF Promise!AcknowledgeDone, Promise!Answers
    <3> QED
      BY <1>0, <1>1, <3>5, ZenonT(30) DEF Promise!Step
  <2>6. CASE call = "quarantine"
    <3>1. /\ arg = Promise!Oldest(db.rows, Limit) \cap db.bad /\ arg # {}
          /\ batch = Promise!Oldest(db.rows, Limit) \ db.bad
      BY <1>1, <2>6, ZenonT(30) DEF StoreInv, FetchInv
    <3>2. Gone = arg
      BY <2>1, <2>6, <3>1, ZenonT(30) DEF Promise!Oldest
    <3>3. reply' = Promise!Answer("fetch", FALSE, batch, removed)
      BY <1>1, <2>4, <2>6, <3>2, Successes, ZenonT(30)
    <3>4. reply' = Promise!Answer("fetch", FALSE, batch, Promise!Cardinality(arg))
      BY <2>1, <3>2, <3>3, SameCardinality, ZenonT(30)
    <3>5. Promise!FetchDone
      BY <1>1, <2>2, <3>1, <3>2, <3>4, Zenon DEF Promise!FetchDone, Promise!Answers
    <3> QED
      BY <1>1, <3>5, ZenonT(30) DEF Promise!Step
  <2> QED
    BY <1>3, <2>5, <2>6, ZenonT(30)
<1>4. CASE call = "mark"
  <2>1. view = [db EXCEPT !.marker = TRUE] /\ removed = 0
    BY <1>0, <1>4, ZenonT(30) DEF StoreInv, ProgressInv
  <2>2. reply' = Promise!Answer("mark", TRUE, {}, 0)
    BY <1>0, <1>1, <1>4, <2>1, Successes, ZenonT(30)
  <2>3. Promise!MarkDone
    BY <1>0, <1>1, <2>1, <2>2, ZenonT(30)
    DEF Promise!MarkDone, Promise!Mark, Promise!Answers, Database
  <2> QED
    BY <1>1, <2>3, Zenon DEF Promise!Step
<1>5. CASE call = "purge"
  <2>1. /\ view = [db EXCEPT !.rows = {}, !.bad = {}, !.marker = FALSE]
        /\ removed = Cardinality(db.rows)
    BY <1>0, <1>5, ZenonT(30) DEF StoreInv, ProgressInv
  <2>2. reply' = Promise!Answer("purge", TRUE, {}, Promise!Cardinality(db.rows))
    BY <1>0, <1>1, <1>5, <2>1, Successes, SameCardinality, ZenonT(30)
  <2>3. Promise!Purge
    BY <1>0, <2>1, Zenon DEF Promise!Purge, Database
  <2>4. Promise!PurgeDone
    BY <1>1, <2>2, <2>3, ZenonT(30) DEF Promise!PurgeDone, Promise!Answers
  <2> QED
    BY <1>1, <2>4, Zenon DEF Promise!Step
<1> QED
  BY <1>0, <1>2, <1>3, <1>4, <1>5, ZenonT(30)

\* COMMIT makes the transaction's view the database, or leads to rollback().
LEMMA CommitInv ==
    ASSUME StoreInv, Commit
    PROVE  StoreInv' /\ [Promise!Step]_(Promise!vars)
<1>0. /\ pc = "commit" /\ inTxn /\ UNCHANGED <<view, first>>
      /\ db \in Database /\ view \in Database /\ first \in Database
      /\ todo = {} /\ arg \subseteq Events /\ removed \in Nat
  BY Zenon DEF Commit, StoreInv, StoreTypeOK, CallInv, InTxnInv
<1>1. CASE pc' = "rollback" /\ UNCHANGED <<db, inTxn, callVars, reply>>
  <2>1. UNCHANGED <<call, arg, todo, removed, batch>> /\ todo' \subseteq arg
    BY <1>0, <1>1, Zenon DEF callVars
  <2> QED
    BY <1>0, <1>1, <2>1, FailedStatementInv, Zenon
<1>2. CASE /\ call = "open" /\ db' = view /\ inTxn' = FALSE
           /\ pc' = "journal_mode" /\ UNCHANGED <<callVars, reply>>
  <2>0. UNCHANGED <<call, arg, todo, removed, batch>>
    BY <1>2, Zenon DEF callVars
  <2>1. StoreTypeOK'
    BY <1>0, <1>2, <2>0, ZenonT(30) DEF StoreInv, StoreTypeOK
  <2>2. CallInv' /\ InTxnInv' /\ FetchInv' /\ ProgressInv'
    BY <1>0, <1>2, <2>0, SMTT(30) DEF StoreInv, CallInv, InTxnInv, FetchInv, ProgressInv
  <2>3. SchemaInv'
    <3>1. /\ SchemaInv /\ ~Refused(first) /\ Fresh(first)
          /\ Schema(view) = Prepared(first, 4)
      BY <1>0, <1>2, ZenonT(30) DEF StoreInv, SchemaInv
    <3>2. /\ Schema(db)' = Schema(view) /\ Prepared(first, 4)' = Prepared(first, 4)
          /\ Refused(first)' = Refused(first) /\ Fresh(first)' = Fresh(first)
      BY <1>0, <1>2, Zenon
    <3> QED
      BY <1>2, <2>0, <3>1, <3>2, ZenonT(30) DEF SchemaInv
  <2>4. UNCHANGED Promise!vars
    <3>1. Poisoned = FALSE /\ Poisoned' = FALSE
      BY <1>0, <1>2, ZenonT(30) DEF Poisoned
    <3>2. view.rows = db.rows /\ view.bad = db.bad /\ view.marker = db.marker
      BY <1>0, <1>2, ZenonT(30) DEF StoreInv, ProgressInv
    <3> QED
      BY <1>0, <1>2, <2>0, <3>1, <3>2, ZenonT(30) DEF Promise!vars, Promise!dataVars
  <2> QED
    BY <2>1, <2>2, <2>3, <2>4, Zenon DEF StoreInv
<1>3. CASE call # "open" /\ db' = view /\ inTxn' = FALSE /\ Return(Success)
  <2>0. /\ pc' = "idle" /\ call' = "none" /\ arg' = {} /\ todo' = {} /\ removed' = 0
        /\ batch' = {}
    BY <1>3, Zenon DEF Return, NoCall
  <2>1. StoreTypeOK'
    BY <1>0, <1>3, <2>0, ZenonT(30) DEF StoreInv, StoreTypeOK
  <2>2. CallInv' /\ InTxnInv' /\ FetchInv' /\ ProgressInv'
    BY <1>0, <1>3, <2>0, ZenonT(30) DEF StoreInv, CallInv, InTxnInv, FetchInv, ProgressInv
  <2>3. SchemaInv'
    <3>1. /\ SchemaInv /\ ~Refused(first) /\ Schema(view) = Schema(db)
          /\ Accepted(first) \/ (Fresh(first) /\ Schema(db) = Prepared(first, 4))
      BY <1>0, <1>3, ZenonT(30) DEF StoreInv, SchemaInv, CallInv
    <3>2. /\ Schema(db)' = Schema(db) /\ Prepared(first, 4)' = Prepared(first, 4)
          /\ Schema(first)' = Schema(first) /\ Accepted(first)' = Accepted(first)
          /\ Refused(first)' = Refused(first) /\ Fresh(first)' = Fresh(first)
      BY <1>0, <1>3, <3>1, ZenonT(30) DEF Schema
    <3> QED
      BY <1>3, <2>0, <3>1, <3>2, ZenonT(30) DEF SchemaInv
  <2> QED
    BY <1>0, <1>3, <2>1, <2>2, <2>3, CommitRefines, ZenonT(30) DEF StoreInv
<1> QED
  BY <1>1, <1>2, <1>3, ZenonT(30) DEF Commit

-----------------------------------------------------------------------------
(* The theorems *)

\* Every step keeps the invariant and is a step that AtomicStore allows.
LEMMA StoreStep ==
    ASSUME StoreInv, [Next]_vars
    PROVE  StoreInv' /\ [Promise!Next]_(Promise!vars)
<1>0. Selective(first)' = Selective(first)
  <2>1. first' = first
    BY ZenonT(30) DEF vars, Next, Open, Inspect, CreateMeta, CreateEvents, CreateIndex,
       InsertVersion, JournalMode, Pragmas, Call, Start, Begin, InsertRow, DeleteRow,
       SetMarker, DeleteAll, ClearMarker, Commit, Rollback, FetchPending,
       RevocationPending, CountUpTo, Close, Crash, Damage, Statement
  <2> QED
    BY <2>1, Zenon
<1> SUFFICES StoreInv' /\ [Promise!Step]_(Promise!vars)
  BY <1>0, Zenon DEF Promise!Next
<1>1. CASE UNCHANGED vars
  <2>0. UNCHANGED <<db, view, inTxn, pc, call, arg, todo, removed, batch, reply, first>>
    BY <1>1, Zenon DEF vars, callVars
  <2>1. UNCHANGED Promise!vars
    <3>1. Poisoned' = Poisoned
      BY <2>0, Zenon DEF Poisoned
    <3> QED
      BY <2>0, <3>1, Zenon DEF Promise!vars, Promise!dataVars
  <2>2. StoreTypeOK'
    BY <2>0, ZenonT(30) DEF StoreInv, StoreTypeOK
  <2>3. CallInv' /\ InTxnInv'
    BY <2>0, ZenonT(30) DEF StoreInv, CallInv, InTxnInv
  <2>4. FetchInv' /\ ProgressInv'
    BY <2>0, ZenonT(30) DEF StoreInv, FetchInv, ProgressInv, Poisoned, Gone, Added,
       Promise!Oldest
  <2>5. SchemaInv'
    BY <2>0, ZenonT(30) DEF StoreInv, SchemaInv
  <2> QED
    BY <2>1, <2>2, <2>3, <2>4, <2>5, ZenonT(30) DEF StoreInv
<1>2. CASE Open \/ Inspect
  BY <1>2, InspectInv, Zenon
<1>3. CASE CreateMeta \/ CreateEvents \/ CreateIndex \/ InsertVersion
  BY <1>3, PrepareInv, ZenonT(30)
<1>4. CASE JournalMode \/ Pragmas
  BY <1>4, PragmasInv, Zenon
<1>5. CASE Call
  BY <1>5, CallStarts, Zenon
<1>6. CASE Begin
  BY <1>6, BeginInv, Zenon
<1>7. CASE InsertRow
  BY <1>7, InsertRowInv, Zenon
<1>8. CASE DeleteRow
  BY <1>8, DeleteRowInv, Zenon
<1>9. CASE SetMarker \/ DeleteAll \/ ClearMarker
  BY <1>9, MarkerInv, ZenonT(30)
<1>10. CASE Commit
  BY <1>10, CommitInv, Zenon
<1>11. CASE Rollback
  BY <1>11, RollbackInv, Zenon
<1>12. CASE FetchPending
  BY <1>12, FetchReads, Zenon
<1>13. CASE RevocationPending \/ (\E b \in Events : CountUpTo(b))
  BY <1>13, OtherReads, Zenon
<1>14. CASE Close \/ Crash
  BY <1>14, ClosedInv, ZenonT(30) DEF Close, Crash, Promise!Step
<1>15. CASE Damage
  BY <1>15, DamageInv, Zenon
<1> QED
  BY <1>1, <1>2, <1>3, <1>4, <1>5, <1>6, <1>7, <1>8, <1>9, <1>10, <1>11, <1>12,
     <1>13, <1>14, <1>15, ZenonT(30) DEF Next

\* At every SQLite call, whatever failed before it, the open transaction holds
\* what the operation in progress has done so far, and the schema is the one
\* found or the whole of this version's (the operations of SqliteStore).
THEOREM StoreCorrect == Spec => []StoreInv
<1>1. StoreInv /\ [Next]_vars => StoreInv'
  BY StoreStep, Zenon
<1> QED
  BY StoreInitInv, <1>1, PTL DEF Spec

\* insert, acknowledge, mark_revocation_pending, purge_and_clear_revocation and
\* fetch_pending take effect at once or not at all, and their answers say which.
THEOREM AtomicCorrect == Spec => ImplementsAtomicStore
<1>1. Init => Promise!Init
  <2> SUFFICES ASSUME Init PROVE Promise!Init
    OBVIOUS
  <2>1. db.rows = {} /\ db.bad = {} /\ db.marker = FALSE
    BY ZenonT(30) DEF Init, Found
  <2>2. Poisoned = FALSE
    BY Zenon DEF Init, Poisoned
  <2> QED
    BY <2>1, <2>2, Zenon DEF Init, Promise!Init, Selective
<1>2. StoreInv /\ [Next]_vars => [Promise!Next]_(Promise!vars)
  BY StoreStep, Zenon
<1> QED
  BY <1>1, <1>2, StoreCorrect, PTL DEF Spec, ImplementsAtomicStore, Promise!Spec

\* open() leaves a database that it refuses exactly as it found it.
THEOREM RefusedCorrect == Spec => []RefusedUntouched
<1>1. StoreInv => RefusedUntouched
  BY ZenonT(30) DEF StoreInv, SchemaInv, RefusedUntouched
<1> QED
  BY <1>1, StoreCorrect, PTL

\* A database that inspect_and_prepare_schema prepared, or was preparing when a
\* statement failed or the process ended, is not refused later.
THEOREM ReopensCorrect == Spec => []ReopensItsOwn
<1>1. StoreInv => ReopensItsOwn
  <2> SUFFICES ASSUME StoreInv, ~Refused(first), ~NameTaken(first)
               PROVE  ~Refused(db)
    BY Zenon DEF ReopensItsOwn
  <2>1. CASE Schema(db) = Schema(first)
    BY <2>1, SchemaDecides, Zenon
  <2>2. CASE Fresh(first) /\ Schema(db) = Prepared(first, 4)
    <3>3. /\ db.meta = kMetaColumns /\ db.version = "3" /\ db.events = kEventsColumns
          /\ db.checks = {kEventsCheck} /\ db.index = kOrderIndex
      BY <2>2, PreparedExact, Zenon
    <3>4. validate_meta_shape(db) /\ VersionSupported(db) /\ validate_events_columns(db)
      BY <3>3, Zenon
         DEF validate_meta_shape, VersionSupported, validate_events_columns, SameColumns
    <3>5. validate_events_check(db)
      BY <3>3, Zenon DEF validate_events_check, kEventsCheck, WantedChecks
    <3>6. validate_order_index(db)
      BY <3>3 DEF validate_order_index, kOrderIndex, SameColumns
    <3>7. db.meta # NoTable /\ db.events # NoTable
      BY <3>3, SMTT(30) DEF kMetaColumns, kEventsColumns, NoTable
    <3> QED
      BY <3>4, <3>5, <3>6, <3>7, Zenon DEF Refused, Accepted
  <2> QED
    BY <2>1, <2>2, ZenonT(30) DEF StoreInv, SchemaInv
<1> QED
  BY <1>1, StoreCorrect, PTL

\* Rows are read and written only in a database with the columns, the index, the
\* version and the CHECK that open() validates or makes; only a table that was
\* found has further CHECKs.
THEOREM ValidatedCorrect == Spec => []OpenMeansValidated
<1>1. StoreInv => OpenMeansValidated
  <2> SUFFICES ASSUME StoreInv, pc = "idle", ~NameTaken(first)
               PROVE  /\ db.meta = kMetaColumns /\ db.events = kEventsColumns
                      /\ db.index = kOrderIndex /\ db.version = "3"
                      /\ db.checks \cap WantedChecks # {}
                      /\ Selective(db) => db.checks = first.checks
    BY Zenon DEF OpenMeansValidated
  <2>1. CASE Accepted(first) /\ Schema(db) = Schema(first)
    <3>1. Accepted(db) /\ db \in Database /\ db.checks = first.checks
      BY <2>1, SchemaDecides, Zenon DEF StoreInv, StoreTypeOK
    <3> QED
      BY <3>1, AcceptedExact, Zenon
  <2>2. CASE Fresh(first) /\ Schema(db) = Prepared(first, 4)
    <3>1. /\ db.meta = kMetaColumns /\ db.version = "3" /\ db.events = kEventsColumns
          /\ db.checks = {kEventsCheck} /\ db.index = kOrderIndex
      BY <2>2, PreparedExact, Zenon
    <3>2. db.checks \cap WantedChecks # {} /\ ~Selective(db)
      BY <3>1, Zenon DEF kEventsCheck, WantedChecks, Selective
    <3> QED
      BY <3>1, <3>2, Zenon
  <2>3. /\ Accepted(first) \/ (Fresh(first) /\ Schema(db) = Prepared(first, 4))
        /\ Schema(db) = Schema(first) \/ (Fresh(first) /\ Schema(db) = Prepared(first, 4))
    BY Zenon DEF StoreInv, SchemaInv
  <2> QED
    BY <2>1, <2>2, <2>3, Zenon
<1> QED
  BY <1>1, StoreCorrect, PTL
=============================================================================
