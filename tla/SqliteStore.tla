---------------------------- MODULE SqliteStore ----------------------------
(***************************************************************************)
(* SqliteStore statement by statement, on one connection: opening a        *)
(* database file (inspection, preparation of a new one, pragmas), the      *)
(* operations on its rows and its revocation marker, closing, and a crash  *)
(* of the process at any point with a later process that opens the file.   *)
(* The users of the store hold store_mutex_, so one call runs at a time,   *)
(* and no other process uses the file (the SDK's precondition).            *)
(*                                                                         *)
(* One step is one SQLite call.  Any of them may fail.  SQLite itself is   *)
(* external: a transaction works on a view of the database that becomes    *)
(* the database when COMMIT succeeds; a failed COMMIT commits nothing; a   *)
(* failed statement may or may not end the transaction by itself.          *)
(*                                                                         *)
(* A database is what the inspection tells apart in it, its rows and its   *)
(* marker.  An event is its ordinal; a row is bad when fetch_pending       *)
(* cannot use it.                                                          *)
(***************************************************************************)
EXTENDS Naturals, Sequences, FiniteSets

CONSTANTS
    Events,     \* the events' ordinals
    Limit       \* how many rows fetch_pending is asked for

\* Ordinals are 64-bit numbers.
ASSUME StoreAssumption ==
    /\ Events \subseteq Nat /\ IsFiniteSet(Events)
    /\ Limit \in Nat \ {0}

VARIABLES
    db,         \* the database file: what is committed
    view,       \* the database as the open transaction sees it
    inTxn,      \* sqlite3_get_autocommit(db_) == 0
    pc,         \* the next SQLite call; "closed" without a connection
    call,       \* the operation in progress
    arg,        \* its events
    todo,       \* those it has still to insert or delete
    removed,    \* sqlite3_changes, added up
    batch,      \* FetchResult::events, while unusable rows are being removed
    reply,      \* the answer to the last call
    first       \* history: the database file as it was found

callVars == <<call, arg, todo, removed, batch>>
vars == <<db, view, inTxn, pc, callVars, reply, first>>

\* A failed rollback has left the connection inside its transaction.
Poisoned == inTxn /\ pc \in {"idle", "begin"}

\* The expressions that the CHECK of event_id is looked for as, and a database
\* with a CHECK besides.
WantedChecks == {"length(event_id)>0", "0<length(event_id)"}
Selective(d) == ~(d.checks \subseteq WantedChecks)

\* The promise, about what is committed.
Promise == INSTANCE AtomicStore
    WITH rows <- db.rows, bad <- db.bad, marker <- db.marker,
         selective <- Selective(first), poisoned <- Poisoned

-----------------------------------------------------------------------------
(* Databases, and their inspection *)

\* A table is its columns, none when it does not exist; a column is its name
\* when its type, NOT NULL and primary key are as specified, else "other".
kMetaColumns == <<"key", "value">>
kEventsColumns ==
    <<"event_id", "session_id", "seq", "ordinal", "created_ms", "payload">>
kEventsCheck == "length(event_id)>0"
kOrderIndex == [table |-> "events", unique |-> FALSE, partial |-> FALSE,
                origin |-> "c", columns |-> <<"ordinal">>]
NoTable == <<>>
NoIndex == [kOrderIndex EXCEPT !.table = "none"]

\* The tables, constraints and indexes a database may be found with: what this
\* version creates, and what differs from it in one respect or more.
MetaTables == {NoTable, kMetaColumns, <<"key">>, <<"key", "other">>,
               <<"key", "value", "other">>}
Versions == {"none", "3", "2", "malformed"}
EventsTables == {NoTable, kEventsColumns, SubSeq(kEventsColumns, 1, 5),
                 [kEventsColumns EXCEPT ![1] = "other"],
                 Append(kEventsColumns, "other")}
Checks == {{}, {kEventsCheck}, {"0<length(event_id)"}, {kEventsCheck, "seq>0"},
           {"length(event_id)>1"}, {"seq>0"}}
Indexes == {NoIndex, [kOrderIndex EXCEPT !.table = "other"]} \cup
           [table : {"events"}, unique : BOOLEAN, partial : BOOLEAN,
            origin : {"c", "u"},
            columns : {<<"ordinal">>, <<"seq">>, <<"ordinal", "seq">>}]

Database == [meta : MetaTables, version : Versions, events : EventsTables,
             checks : Checks, index : Indexes, journal : {"delete", "wal"},
             rows : SUBSET Events, bad : SUBSET Events, marker : BOOLEAN]

\* Databases before this store has used them.
Found ==
    {d \in [meta : MetaTables, version : Versions, events : EventsTables,
            checks : Checks, index : Indexes, journal : {"delete"},
            rows : {{}}, bad : {{}}, marker : {FALSE}] :
       /\ d.meta = NoTable => d.version = "none"
       /\ d.events = NoTable => d.checks = {} /\ d.index.table # "events"}

SameColumns(found, want) ==
    /\ Len(found) = Len(want)
    /\ \A i \in DOMAIN want : found[i] = want[i]

validate_meta_shape(d) == SameColumns(d.meta, kMetaColumns)

\* Absent, malformed and other versions are all refused.
VersionSupported(d) == d.version = "3"

validate_events_columns(d) == SameColumns(d.events, kEventsColumns)

\* Variant: a CHECK of the table is enough, whatever it says.
CheckNamed(d) == d.checks # {}

\* The wanted CHECK is looked for; others are not.
validate_events_check(d) == d.checks \cap WantedChecks # {}

validate_order_index(d) ==
    /\ d.index.table = "events"
    /\ ~d.index.partial
    /\ ~d.index.unique
    /\ d.index.origin = "c"
    /\ SameColumns(d.index.columns, <<"ordinal">>)

\* inspect_and_prepare_schema finds a database of this version.
Accepted(d) ==
    /\ d.meta # NoTable
    /\ validate_meta_shape(d)
    /\ VersionSupported(d)
    /\ d.events # NoTable
    /\ validate_events_columns(d)
    /\ validate_events_check(d)
    /\ validate_order_index(d)

\* It finds neither of its tables.
Fresh(d) == d.meta = NoTable /\ d.events = NoTable

Refused(d) == ~Accepted(d) /\ ~Fresh(d)

StoreTypeOK ==
    /\ db \in Database /\ view \in Database /\ first \in Database
    /\ inTxn \in BOOLEAN
    /\ pc \in {"closed", "inspect", "begin", "create_meta", "create_events",
               "create_index", "insert_version", "journal_mode", "pragmas",
               "idle", "insert_row", "delete_row", "delete_all",
               "clear_marker", "set_marker", "commit", "rollback"}
    /\ call \in {"none", "open", "insert", "acknowledge", "quarantine", "mark",
                 "purge"}
    /\ todo \subseteq arg /\ arg \subseteq Events /\ batch \subseteq Events
    /\ removed \in Nat

Init ==
    /\ db \in Found
    /\ view = db /\ first = db
    /\ inTxn = FALSE
    /\ pc = "closed"
    /\ call = "none" /\ arg = {} /\ todo = {} /\ removed = 0 /\ batch = {}
    /\ reply = Promise!NoAnswer

-----------------------------------------------------------------------------
(* How a call ends *)

NoCall ==
    /\ call' = "none" /\ arg' = {} /\ todo' = {} /\ removed' = 0 /\ batch' = {}

Return(answer) == pc' = "idle" /\ reply' = answer /\ NoCall

\* close(), also run when open() fails and by the destructor; closing the
\* connection undoes the transaction it is in.
Closed ==
    /\ pc' = "closed" /\ inTxn' = FALSE /\ view' = db
    /\ reply' = Promise!NoAnswer
    /\ NoCall

\* What a call that fails answers.  fetch_pending still returns the good rows.
Failure ==
    IF call = "quarantine"
    THEN Promise!Answer("fetch", FALSE, batch, 0)
    ELSE Promise!Answer(call, FALSE, {}, 0)

\* Variant: a delete that matched no row counts as done.
SuccessUnchecked ==
    CASE call = "acknowledge" -> Promise!Answer(call, TRUE, arg, removed)
      [] call = "quarantine" -> Promise!Answer("fetch", FALSE, batch, removed)
      [] OTHER -> Promise!Answer(call, TRUE, arg, removed)

\* What a call answers once its transaction is committed.  acknowledge and
\* fetch_pending compare the rows removed with the rows named.
Success ==
    CASE call = "acknowledge" ->
           Promise!Answer(call, removed = Cardinality(arg), arg, removed)
      [] call = "quarantine" ->
           Promise!Answer("fetch", FALSE, batch,
                          IF removed = Cardinality(arg) THEN removed ELSE 0)
      [] OTHER -> Promise!Answer(call, TRUE, arg, removed)

-----------------------------------------------------------------------------
(* Transactions *)

\* The first statement of each operation's transaction.
FirstStatement ==
    CASE call = "open" -> "create_meta"
      [] call = "insert" -> "insert_row"
      [] call \in {"acknowledge", "quarantine"} -> "delete_row"
      [] call = "mark" -> "set_marker"
      [] call = "purge" -> "delete_all"

\* Variant: a transaction that is already open is used as it is.
BeginUnlessOpen ==
    /\ pc = "begin"
    /\ pc' = FirstStatement
    /\ inTxn' = TRUE
    /\ view' = IF inTxn THEN view ELSE db
    /\ UNCHANGED <<db, callVars, reply, first>>

\* BEGIN IMMEDIATE, which always fails inside a transaction.  Its failure is
\* returned without a rollback.
Begin ==
    /\ pc = "begin"
    /\ \/ /\ ~inTxn
          /\ inTxn' = TRUE
          /\ view' = db
          /\ pc' = FirstStatement
          /\ UNCHANGED <<callVars, reply>>
       \/ /\ call # "open"
          /\ Return(Failure)
          /\ UNCHANGED <<inTxn, view>>
       \/ call = "open" /\ Closed
    /\ UNCHANGED <<db, first>>

\* A statement that leaves the transaction seeing v and goes on to next, or
\* fails and goes on to rollback().
Statement(v, next) ==
    /\ \/ view' = v /\ pc' = next
       \/ UNCHANGED view /\ pc' = "rollback"
    /\ UNCHANGED <<db, inTxn, call, arg, batch, reply, first>>

\* COMMIT, the last thing an operation asks of the database.
Commit ==
    /\ pc = "commit"
    /\ \/ /\ db' = view
          /\ inTxn' = FALSE
          /\ IF call = "open"
             THEN pc' = "journal_mode" /\ UNCHANGED <<callVars, reply>>
             ELSE Return(Success)
       \/ /\ pc' = "rollback"
          /\ UNCHANGED <<db, inTxn, callVars, reply>>
    /\ UNCHANGED <<view, first>>

\* rollback(): succeeds, or finds the transaction already ended by SQLite, or
\* fails inside it.  Every caller but insert's commit drops what it reports.
Rollback ==
    /\ pc = "rollback"
    /\ \/ /\ call # "open"
          /\ inTxn' = FALSE /\ view' = db
          /\ Return(Failure)
       \/ /\ call # "open"
          /\ UNCHANGED <<inTxn, view>>
          /\ Return(Failure)
       \/ call = "open" /\ Closed
    /\ UNCHANGED <<db, first>>

-----------------------------------------------------------------------------
(* open *)

Open ==
    /\ pc = "closed"
    /\ pc' = "inspect"
    /\ call' = "open"
    /\ UNCHANGED <<db, view, inTxn, arg, todo, removed, batch, reply, first>>

\* Variant: the journal mode is set before the database is inspected.
InspectAfterJournal ==
    /\ pc = "inspect"
    /\ db' = [db EXCEPT !.journal = "wal"]
    /\ IF Refused(db)
       THEN /\ pc' = "closed" /\ NoCall /\ view' = db'
            /\ UNCHANGED <<inTxn, reply, first>>
       ELSE /\ pc' = IF Accepted(db) THEN "journal_mode" ELSE "begin"
            /\ view' = db'
            /\ UNCHANGED <<inTxn, callVars, reply, first>>

\* The reads of inspect_and_prepare_schema, one of which may fail.
Inspect ==
    /\ pc = "inspect"
    /\ \/ Accepted(db) /\ pc' = "journal_mode" /\ UNCHANGED <<view, inTxn, callVars, reply>>
       \/ Fresh(db) /\ pc' = "begin" /\ UNCHANGED <<view, inTxn, callVars, reply>>
       \/ Closed
    /\ UNCHANGED <<db, first>>

\* Variant: the metadata table is created before the transaction begins.
CreateMetaCommitted ==
    /\ pc = "create_meta"
    /\ db' = [db EXCEPT !.meta = kMetaColumns]
    /\ view' = [view EXCEPT !.meta = kMetaColumns]
    /\ pc' = "create_events"
    /\ UNCHANGED <<inTxn, callVars, reply, first>>

CreateMeta ==
    /\ pc = "create_meta"
    /\ Statement([view EXCEPT !.meta = kMetaColumns], "create_events")
    /\ UNCHANGED <<todo, removed>>

CreateEvents ==
    /\ pc = "create_events"
    /\ Statement([view EXCEPT !.events = kEventsColumns, !.checks = {kEventsCheck}], "create_index")
    /\ UNCHANGED <<todo, removed>>

\* CREATE INDEX IF NOT EXISTS does nothing when the name is in use.
CreateIndex ==
    /\ pc = "create_index"
    /\ Statement(IF view.index = NoIndex THEN [view EXCEPT !.index = kOrderIndex] ELSE view,
                 "insert_version")
    /\ UNCHANGED <<todo, removed>>

InsertVersion ==
    /\ pc = "insert_version"
    /\ Statement([view EXCEPT !.version = "3"], "commit")
    /\ UNCHANGED <<todo, removed>>

\* PRAGMA journal_mode=WAL; SQLite may answer with the mode it had.
JournalMode ==
    /\ pc = "journal_mode"
    /\ \/ /\ db' \in {db, [db EXCEPT !.journal = "wal"]}
          /\ view' = db'
          /\ pc' = "pragmas"
          /\ UNCHANGED <<inTxn, callVars, reply>>
       \/ Closed /\ UNCHANGED db
    /\ UNCHANGED first

\* synchronous and busy_timeout; the database is open.
Pragmas ==
    /\ pc = "pragmas"
    /\ \/ Return(Promise!NoAnswer) /\ UNCHANGED <<view, inTxn>>
       \/ Closed
    /\ UNCHANGED <<db, first>>

-----------------------------------------------------------------------------
(* Operations *)

Start(op, es) ==
    /\ pc = "idle"
    /\ pc' = "begin"
    /\ call' = op /\ arg' = es /\ todo' = es
    /\ reply' = Promise!NoAnswer
    /\ UNCHANGED <<db, view, inTxn, removed, batch, first>>

\* The calls of the store's users; one with no events returns at once.
Call ==
    \/ \E es \in (SUBSET Events) \ {{}} : Start("insert", es) \/ Start("acknowledge", es)
    \/ Start("mark", {})
    \/ Start("purge", {})

\* INSERT OR IGNORE of the next record: a record that a further CHECK of the
\* table does not allow is passed over, without an error.
InsertRow ==
    /\ pc = "insert_row"
    /\ \E e \in todo, kept \in BOOLEAN :
         /\ \A f \in todo : e <= f
         /\ kept \/ Selective(view)
         /\ Statement(IF kept THEN [view EXCEPT !.rows = @ \cup {e}] ELSE view,
                      IF todo = {e} THEN "commit" ELSE "insert_row")
         /\ todo' = todo \ {e}
    /\ UNCHANGED removed

\* Whether a DELETE finds the row: by rowid when quarantining, else by an
\* identifier that a bad row may have lost.
Finds(e) ==
    IF call = "acknowledge" /\ e \in view.bad THEN BOOLEAN ELSE {e \in view.rows}

\* DELETE of the next row of delete_ids or delete_rowids.
DeleteRow ==
    /\ pc = "delete_row"
    /\ \E e \in todo, found \in BOOLEAN :
         /\ \A f \in todo : e <= f
         /\ found \in Finds(e)
         /\ Statement(IF found
                      THEN [view EXCEPT !.rows = @ \ {e}, !.bad = @ \ {e}]
                      ELSE view,
                      IF todo = {e} THEN "commit" ELSE "delete_row")
         /\ todo' = todo \ {e}
         /\ removed' = IF found THEN removed + 1 ELSE removed

SetMarker ==
    /\ pc = "set_marker"
    /\ Statement([view EXCEPT !.marker = TRUE], "commit")
    /\ UNCHANGED <<todo, removed>>

\* purge_and_clear_revocation: every row, then the marker.
DeleteAll ==
    /\ pc = "delete_all"
    /\ Statement([view EXCEPT !.rows = {}, !.bad = {}], "clear_marker")
    /\ removed' = Cardinality(view.rows)
    /\ UNCHANGED todo

ClearMarker ==
    /\ pc = "clear_marker"
    /\ Statement([view EXCEPT !.marker = FALSE], "commit")
    /\ UNCHANGED <<todo, removed>>

\* fetch_pending: reads the oldest rows, failing after any number of them, and
\* goes on to remove those it cannot use.
FetchPending ==
    /\ pc = "idle"
    /\ LET window == Promise!Oldest(view.rows, Limit)
           unusable == window \cap view.bad
       IN  \/ /\ unusable = {}
              /\ Return(Promise!Answer("fetch", TRUE, window, 0))
           \/ /\ unusable # {}
              /\ pc' = "begin"
              /\ call' = "quarantine" /\ arg' = unusable /\ todo' = unusable
              /\ batch' = window \ view.bad
              /\ reply' = Promise!NoAnswer
              /\ UNCHANGED removed
           \/ \E k \in 0..Limit :
                Return(Promise!Answer("fetch", FALSE,
                         Promise!Oldest(view.rows, k) \ view.bad, 0))
    /\ UNCHANGED <<db, view, inTxn, first>>

\* count_up_to, and count, which has no barrier: one SELECT, whose failure is
\* never a zero.
CountUpTo(barrier) ==
    /\ pc = "idle"
    /\ \/ Return(Promise!Answer("count", TRUE, {},
                                Cardinality({e \in view.rows : e <= barrier})))
       \/ Return(Promise!Answer("count", FALSE, {}, 0))
    /\ UNCHANGED <<db, view, inTxn, first>>

RevocationPending ==
    /\ pc = "idle"
    /\ \/ Return(Promise!Answer("pending", TRUE, {}, IF view.marker THEN 1 ELSE 0))
       \/ Return(Promise!Answer("pending", FALSE, {}, 0))
    /\ UNCHANGED <<db, view, inTxn, first>>

Close == pc = "idle" /\ Closed /\ UNCHANGED <<db, first>>

\* The process ends; the next connection finds what was committed.
Crash == pc # "closed" /\ Closed /\ UNCHANGED <<db, first>>

\* External: a row goes bad on disk while no transaction is open.
Damage ==
    /\ pc \in {"closed", "idle"} /\ ~inTxn
    /\ \E e \in db.rows : db' = [db EXCEPT !.bad = @ \cup {e}]
    /\ view' = db'
    /\ UNCHANGED <<inTxn, pc, callVars, reply, first>>

Next ==
    \/ Open \/ Inspect \/ CreateMeta \/ CreateEvents \/ CreateIndex
    \/ InsertVersion \/ JournalMode \/ Pragmas
    \/ Call \/ Begin \/ InsertRow \/ DeleteRow \/ SetMarker \/ DeleteAll
    \/ ClearMarker \/ Commit \/ Rollback
    \/ FetchPending \/ RevocationPending
    \/ \E b \in Events : CountUpTo(b)
    \/ Close \/ Crash \/ Damage

Spec == Init /\ [][Next]_vars

-----------------------------------------------------------------------------
(* Properties *)

\* Every call takes effect at once or not at all, wherever a statement, a
\* commit or a rollback fails and wherever the process ends, and its answer
\* says which; rows are reported removed only when they are; a connection left
\* in a failed transaction commits nothing more (insert, acknowledge,
\* mark_revocation_pending, purge_and_clear_revocation, fetch_pending).
ImplementsAtomicStore == Promise!Spec

\* A name this version creates already belongs to something else in a database
\* that has neither of its tables, which the inspection does not look for.
NameTaken(d) == Fresh(d) /\ d.index # NoIndex

\* A database this version prepared, or was preparing when a statement failed
\* or the process ended, is not one it later refuses: the tables, the index and
\* the version are committed together (inspect_and_prepare_schema).
ReopensItsOwn == Refused(first) \/ NameTaken(first) \/ ~Refused(db)

\* A database the inspection refuses is left exactly as it was found, its
\* journal mode included, however often it is opened (open).
RefusedUntouched == Refused(first) => db = first

\* Rows are read and written only in a database with this version's columns,
\* index and version number and with the CHECK of event_id, in one of its two
\* spellings, whether it was found like that, or prepared, or prepared after an
\* earlier attempt failed; a table that this version made has that CHECK and no
\* other.  One that was found may have further CHECKs: open does not look for
\* them (open, validate_events_check).
OpenMeansValidated ==
    pc = "idle" /\ ~NameTaken(first) =>
      /\ <<db.meta, db.events, db.index>> = <<kMetaColumns, kEventsColumns, kOrderIndex>>
      /\ db.version = "3"
      /\ db.checks \cap WantedChecks # {}
      /\ Selective(db) => db.checks = first.checks

-----------------------------------------------------------------------------
(* The inductive invariant behind the properties *)

\* Which operation a step belongs to.
CallInv ==
    /\ pc \in {"closed", "idle"} <=> call = "none"
    /\ pc \in {"inspect", "create_meta", "create_events", "create_index",
               "insert_version", "journal_mode", "pragmas"} => call = "open"
    /\ pc = "insert_row" => call = "insert"
    /\ pc = "delete_row" => call \in {"acknowledge", "quarantine"}
    /\ pc = "set_marker" => call = "mark"
    /\ pc \in {"delete_all", "clear_marker"} => call = "purge"
    /\ call \notin {"insert", "acknowledge", "quarantine"} => arg = {}
    /\ call \in {"none", "open"} => removed = 0
    /\ pc = "begin" => todo = arg /\ removed = 0
    /\ pc = "commit" => todo = {}

\* Where a transaction is open: at its statements, and after a failed rollback.
InTxnInv ==
    /\ pc \in {"create_meta", "create_events", "create_index",
               "insert_version", "insert_row", "delete_row", "set_marker",
               "delete_all", "clear_marker", "commit", "rollback"} => inTxn
    /\ pc \in {"closed", "inspect", "journal_mode", "pragmas"} => ~inTxn
    /\ pc = "begin" /\ call = "open" => ~inTxn
    /\ ~inTxn => view = db
    /\ db.bad \subseteq db.rows /\ view.bad \subseteq view.rows

\* What a fetch that found unusable rows has read, unless its connection is
\* poisoned.
FetchInv ==
    call = "quarantine" /\ ~Poisoned =>
      LET window == Promise!Oldest(db.rows, Limit)
      IN  arg = window \cap db.bad /\ arg # {} /\ batch = window \ db.bad

Gone == db.rows \ view.rows
Added == view.rows \ db.rows

\* What the statements of each operation have done so far, on top of what is
\* committed: nothing that the call was not asked for, and all that it was once
\* only COMMIT is left.
ProgressInv ==
    inTxn /\ pc \notin {"idle", "begin", "rollback"} =>
      /\ call = "insert" =>
           /\ view = [db EXCEPT !.rows = @ \cup Added] /\ removed = 0
           /\ Added \subseteq arg \ todo
           /\ Selective(first) \/ arg \ todo \subseteq view.rows
      /\ call \in {"acknowledge", "quarantine"} =>
           /\ view = [db EXCEPT !.rows = @ \ Gone, !.bad = @ \ Gone]
           /\ Gone \subseteq arg \ todo
           /\ removed = Cardinality(Gone)
           /\ ((arg \ todo) \cap db.rows) \ db.bad \subseteq Gone
           /\ call = "quarantine" => (arg \ todo) \cap db.rows \subseteq Gone
      /\ call = "mark" =>
           view = [db EXCEPT !.marker = (pc = "commit") \/ @] /\ removed = 0
      /\ call = "purge" =>
           /\ pc = "delete_all" => view = db
           /\ pc = "clear_marker" => view = [db EXCEPT !.rows = {}, !.bad = {}]
           /\ pc = "commit" =>
                view = [db EXCEPT !.rows = {}, !.bad = {}, !.marker = FALSE]
           /\ pc # "delete_all" => removed = Cardinality(db.rows)
      /\ call = "open" =>
           <<view.rows, view.bad, view.marker>> = <<db.rows, db.bad, db.marker>>

\* The part of a database that open inspects and prepares.
Schema(d) == <<d.meta, d.version, d.events, d.checks, d.index>>

\* The schema that preparing d gives, after the first n statements.
Prepared(d, n) ==
    <<IF n >= 1 THEN kMetaColumns ELSE d.meta,
      IF n >= 4 THEN "3" ELSE d.version,
      IF n >= 2 THEN kEventsColumns ELSE d.events,
      IF n >= 2 THEN {kEventsCheck} ELSE d.checks,
      IF n >= 3 /\ d.index = NoIndex THEN kOrderIndex ELSE d.index>>

\* The committed schema is the one found, or the whole of the one prepared; a
\* transaction that prepares it is where its statements have got to; and what
\* is refused is never written to (open, inspect_and_prepare_schema).
SchemaInv ==
    /\ Schema(db) = Schema(first) \/ (Fresh(first) /\ Schema(db) = Prepared(first, 4))
    /\ Refused(first) => db = first /\ db.rows = {} /\ pc \in {"closed", "inspect"}
    /\ call = "open" /\ pc \in {"begin", "create_meta", "create_events",
                                "create_index", "insert_version", "commit"} =>
         /\ Fresh(first) /\ Schema(db) = Schema(first)
         /\ pc = "create_meta" => Schema(view) = Prepared(first, 0)
         /\ pc = "create_events" => Schema(view) = Prepared(first, 1)
         /\ pc = "create_index" => Schema(view) = Prepared(first, 2)
         /\ pc = "insert_version" => Schema(view) = Prepared(first, 3)
         /\ pc = "commit" => Schema(view) = Prepared(first, 4)
    /\ pc \in {"journal_mode", "pragmas", "idle"} \/ call \notin {"open", "none"} =>
         Accepted(first) \/ (Fresh(first) /\ Schema(db) = Prepared(first, 4))
    /\ call # "open" /\ inTxn => Schema(view) = Schema(db)

\* At every SQLite call the open transaction holds what the call in progress has
\* done so far and nothing else, a connection whose rollback failed included,
\* and the schema is the one found or the whole of the one prepared (the
\* operations of SqliteStore).
StoreInv ==
    /\ StoreTypeOK
    /\ CallInv
    /\ InTxnInv
    /\ FetchInv
    /\ ProgressInv
    /\ SchemaInv
=============================================================================
