---------------------------- MODULE AtomicStore ----------------------------
(***************************************************************************)
(* What the durable store promises its users (SqliteStore's header): each  *)
(* call takes effect at once or not at all, its answer says which, and     *)
(* what is stored survives the end of the process.                         *)
(*                                                                         *)
(* An event is its ordinal.  One exception is part of the promise: a call  *)
(* that fails may leave the connection poisoned, inside the failed         *)
(* transaction.  A poisoned store changes nothing until it is opened       *)
(* again, and what it answers to a read is not what is stored.  And a      *)
(* selective store, one whose file came with constraints of its own, may   *)
(* answer an insert with Ok and not keep all of its events.                *)
(***************************************************************************)
EXTENDS Naturals, FiniteSets

CONSTANTS
    Events,     \* the events' ordinals
    Limit       \* how many rows a fetch asks for

VARIABLES
    rows,       \* the events stored
    bad,        \* rows whose identifier or payload has become unusable
    marker,     \* a revocation is owed
    selective,  \* the file was found with constraints of its own
    poisoned,   \* a failed transaction could not be rolled back
    reply       \* the answer to the last call

dataVars == <<rows, bad, marker>>
vars == <<dataVars, selective, poisoned, reply>>

\* The n rows of lowest ordinal in a set of rows.
Oldest(es, n) == {e \in es : Cardinality({f \in es : f < e}) < n}

\* An answer: the operation, whether it succeeded, the events it is about and
\* a number (rows removed, quarantined or counted).
Answer(op, ok, es, n) == [op |-> op, ok |-> ok, events |-> es, n |-> n]

NoAnswer == Answer("none", TRUE, {}, 0)

Init ==
    /\ rows = {} /\ bad = {} /\ marker = FALSE
    /\ selective \in BOOLEAN /\ poisoned = FALSE
    /\ reply = NoAnswer

-----------------------------------------------------------------------------
(* What can happen to the stored data *)

Insert(es) == rows' = rows \cup es /\ UNCHANGED <<bad, marker>>

Delete(es) == rows' = rows \ es /\ bad' = bad \ es /\ UNCHANGED marker

Mark == marker' = TRUE /\ UNCHANGED <<rows, bad>>

\* The marker goes only with every row.
Purge == rows' = {} /\ bad' = {} /\ marker' = FALSE

Damage(e) == e \in rows /\ bad' = bad \cup {e} /\ UNCHANGED <<rows, marker>>

-----------------------------------------------------------------------------
(* Calls and their answers *)

Answers(op, ok, es, n) == reply' = Answer(op, ok, es, n) /\ UNCHANGED poisoned

\* What an insert of es may store.
Keeps(es) == IF selective THEN SUBSET es ELSE {es}

InsertDone(es) ==
    \E kept \in Keeps(es) : Insert(kept) /\ Answers("insert", TRUE, es, 0)

\* The rows that deleting es by identifier may remove: a row gone bad may no
\* longer be found by its identifier.
Matches(es) ==
    {gone \in SUBSET (es \cap rows) : (es \cap rows) \ bad \subseteq gone}

\* Acknowledging: succeeds exactly when every event named was removed.
AcknowledgeDone(es) ==
    \E gone \in Matches(es) :
      /\ Delete(gone)
      /\ Answers("acknowledge", gone = es, es, Cardinality(gone))

MarkDone == Mark /\ Answers("mark", TRUE, {}, 0)

PurgeDone == Purge /\ Answers("purge", TRUE, {}, Cardinality(rows))

\* Fetching: the oldest rows, of which the unusable ones are removed and
\* counted, or neither.
FetchDone ==
    LET window == Oldest(rows, Limit)
        unusable == window \cap bad
    IN  \/ /\ unusable = {}
           /\ UNCHANGED dataVars
           /\ Answers("fetch", TRUE, window, 0)
        \/ /\ unusable # {}
           /\ Delete(unusable)
           /\ Answers("fetch", FALSE, window \ bad, Cardinality(unusable))

\* A fetch that fails still hands over good rows, oldest first.
FetchFails ==
    /\ UNCHANGED dataVars
    /\ \E k \in 0..Limit : reply' = Answer("fetch", FALSE, Oldest(rows, k) \ bad, 0)
    /\ poisoned' \in {poisoned, TRUE}

CountDone(barrier) ==
    /\ UNCHANGED dataVars
    /\ Answers("count", TRUE, {}, Cardinality({e \in rows : e <= barrier}))

PendingDone ==
    /\ UNCHANGED dataVars
    /\ Answers("pending", TRUE, {}, IF marker THEN 1 ELSE 0)

\* Any other call that fails.
Fails ==
    /\ UNCHANGED dataVars
    /\ \E op \in {"insert", "acknowledge", "mark", "purge", "count", "pending"} :
         reply' = Answer(op, FALSE, {}, 0)
    /\ poisoned' \in {poisoned, TRUE}

\* Reads of a poisoned store.
ReadsPoisoned ==
    /\ poisoned
    /\ reply'.op \in {"fetch", "count", "pending"}
    /\ UNCHANGED <<dataVars, poisoned>>

\* A call begins; or the store is closed, by the caller or by a crash, and
\* opened again.
Begins ==
    /\ reply' = NoAnswer
    /\ poisoned' \in {poisoned, FALSE}
    /\ UNCHANGED dataVars

\* A row goes bad on disk.
GoesBad == (\E e \in Events : Damage(e)) /\ UNCHANGED <<poisoned, reply>>

Step ==
    \/ /\ ~poisoned
       /\ \/ \E es \in SUBSET Events : InsertDone(es) \/ AcknowledgeDone(es)
          \/ MarkDone \/ PurgeDone
          \/ FetchDone \/ FetchFails
          \/ \E b \in Events : CountDone(b)
          \/ PendingDone
    \/ ReadsPoisoned \/ Fails \/ Begins \/ GoesBad

Next == Step /\ UNCHANGED selective

Spec == Init /\ [][Next]_vars
=============================================================================
