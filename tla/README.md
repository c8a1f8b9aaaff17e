# PlayerTrace-SDK in TLA+

TLA+ models of the PlayerTrace telemetry SDK, the TLC runs that check them on
small instances, and TLAPS proofs of the safety of every component with state,
for every value of the constants. `PROJECT.json` has the run list, the map from
definitions to source lines, the hazards, the findings and the theorems.

## The system

An application calls `Client` from many threads. An accepted event passes
through these parts:

| part | source | what it does |
|---|---|---|
| admission | `client.cpp`, `session_manager.cpp`, `event_queue.cpp`, `pipeline.hpp` | under `admission_mutex_`: checks lifecycle, consent, session, capacity, queue; stamps session sequence, ordinal, consent generation; pushes |
| worker | `worker.cpp` | one thread: drains the queue, inserts into the store, delivers batches to the sink, acknowledges, serves flush tokens, exits |
| consent | `client.cpp` `set_consent`, `run_purge` | revocation: new generation, session closed, queue cleared, then marker and purge in the store |
| store | `sqlite_store.cpp` | SQLite table of pending events, ordered by ordinal; revocation marker; schema checks |
| sink | `file_sink.cpp` | NDJSON file with rollback, tail repair and durable sync |
| path registry | `path_registry.cpp` | one owner per file in the process |
| lifecycle | `client.cpp` `flush`, `shutdown`, `wait_for_worker_exit` | callers with timeouts against one worker |
| values | `event*.cpp`, `json_serializer.cpp`, `id_generator.cpp` | validation, formatting, identifiers |

Lock order, without cycles: `consent_mutex` before `admission_mutex` before the
queue's, the worker's and the session's; `consent_mutex` before `store_mutex`.
The worker changes the queue, the outstanding counter and `terminated` without
`admission_mutex`; this is where most of the hazards are.

## Modules

| module | models | state | one step is |
|---|---|---|---|
| `Admission` | track, start/end session, revocation, shutdown, worker as environment | lifecycle, consent, generation, session, queue, outstanding, ordinal, the operation inside the lock, the log of admitted events | check and stamp; publish; each marker of a replacement |
| `Delivery` (extends `Admission`) | worker passes, `set_consent`, store, crash and `create` | where worker and controller are, batch, retry, rows, marker | one access to shared state: an atomic, a transaction, a sink call |
| `Lifecycle` | worker loop, flush tokens, exit; flush, shutdown, wait | tokens, barriers, pass results, stop, terminal, finished; where each caller is | one critical section or atomic |
| `FileSink` | write, rollback, repair, failure, flush, cancel | stream buffer, file, disk | one C library call |
| `AtomicStore` | what `SqliteStore` promises: a call takes effect at once or not at all, and its answer says which | rows, unusable rows, marker, poisoned, whether the table has further constraints, the last answer | one call |
| `SqliteStore` (refines `AtomicStore`) | open, schema inspection and preparation, every operation, close, crash | database file, the transaction's view of it, the call in progress | one SQLite call, which may fail |
| `PathRegistry` | acquire, release, move | registry, claims | one operation |
| `Creation` (extends `PathRegistry`) | `ClientInternal::create`, its early returns, the end of a client | where each thread is, its paths, what it has open | one operation on the registry, a database or a file |
| `EventRules`, `SchemaText` | UTF-8, property lists; SQL noise and CHECK constraints | none: operators, each beside a reference definition | |
| `InputRules` (extends both) | the texts those are given | which kind of text, and the text so far | one more symbol, or phrase of SQL |

`MC*` modules instantiate these. `*Proofs` modules hold the theorems.
Operators commented *Variant* are deliberately wrong forms of the definition
below them: each property is shown to fail when one of them is used instead.

### Abstraction

- An event is its position in the admission log; payloads, names, timestamps
  and identifiers are left out, identifiers being unique. A call with invalid
  input changes nothing and is no step. Statistics and logging are left out.
- `Denied` stands for `Unknown` and `Denied`, which the code treats alike.
- The admission checks and the counter's increment are one step: callers are
  serialised by `admission_mutex` and the worker only lowers counter and queue
  length, so a check that passed stays true. The push is a step of its own.
- The first part of a revocation is one step, under `admission_mutex`.
- In the worker the generation read and the consent test beside it are one
  step (worker.cpp 379/387 and 486/487). The recheck and the insert under
  `store_mutex` are one step: a revocation that falls between them purges
  under that mutex afterwards, and is the same as one just after. The releases
  of one filter pass are added up.
- In `Delivery` a store operation is one step that takes the data operations of
  `AtomicStore` or fails. `SqliteStore` shows what stands behind that step. A
  connection whose rollback failed, which refuses every later write, is for
  `Delivery` a store that keeps failing. An acknowledgment may find only some of
  its rows, those that went bad; it removes these and reports an error.
  `Delivery` takes the table to have no further constraints (`selective` FALSE),
  as every table has that this version made.
- `SqliteStore` has one connection, as the path registry ensures in a process
  and the documents require between processes (`docs/RFC-v0.1.md:74`). SQLite is
  external: COMMIT makes the view the database or changes nothing; a failed
  statement may or may not end its transaction; a row may go bad on disk. A
  database is described by what the inspection tells apart: the columns of both
  tables, the CHECK expressions, the index, the version, the journal mode.
- `Creation` leaves out what other modules show: opening and recovering a store
  succeed or fail, and the worker has been joined. In-memory names are not used
  for sinks. A sink that the application supplies (`Config::sink`) claims and
  opens nothing here: what it uses is its own.
- `EventRules` and `SchemaText` see the symbols that the algorithms tell apart:
  an identifier is valid or not, a word of SQL is one symbol.
- `Delivery` leaves out shutdown and the worker's death; these are in
  `Admission` and `Lifecycle`. `Lifecycle` leaves out consent, in exchange for
  any number of failures and for several callers. Without revocation the test
  of `queue_before` in the flush loop is always true.
- `FileSink`: a line is text and newline; a failed flush writes part of the
  buffer and drops the rest. C libraries that keep it are not covered, nor is a
  directory entry lost with the power, nor blocks written out of order.
- `PathRegistry`: the normal form of a path is a parameter and never changes.

## Runs

| run | instance | shows |
|---|---|---|
| `admission` | 2 producers, capacity 3, queue 2, up to 4 recovered events, 5 ordinals, 1 revocation | sessions gap-free and bracketed; replacement atomic while the worker lives; limits respected; only current consent queued; order; `AdmissionInv`, the inductive invariant |
| `delivery` | 1 producer, capacity and queue 2, 3 events, batch 2, 2 faults, 1 revocation with re-grant | nothing lost, purged events stay gone, one late write at most, no capacity leaked but by an acknowledgment that found part of its batch; `ImplementsAdmission` (every behaviour is one of `Admission`); accepted events are settled and a withdrawal of consent empties the store |
| `delivery_crash` | 1 crash, 1 fault, a `create` that may fail at each step, session calls only, 1 revocation with a re-grant to a worker that holds nothing (`QuietSpec`) | delivery in order, also across a restart; capacity never undercounted, which bounds the store; `DeliveryInv`, the inductive invariant, and with it recovery and marked revocations |
| `lifecycle` | 2 callers, 2 events, 2 tokens, 1 retained result | flush `Ok` is the caller's own and leaves nothing accepted before it unsettled; `Stopped` means exited; `LifecycleInv`, the inductive invariant, and with it that nothing is lost |
| `lifecycle_live` | 1 caller | tokens are answered; a stop request ends the worker |
| `file_sink` | 3 events, batch 2, 3 setbacks (ends of the process, failed acknowledgments), blocks of 1, 2 and 3 symbols, with and without durable sync | valid lines, acknowledged lines kept, exact rollback, no gaps; the backward block scan finds the last newline; `SinkInv`, the inductive invariant |
| `creation` | 2 threads, 5 names of 4 files, 2 sink files or a supplied sink | one owner per file; nothing open twice on one file; no leaked entry; nothing left behind; `CreationInv`, the inductive invariant |
| `sqlite_store` | 3 events, fetches of 2, all databases of `Found`, any number of failures and crashes | `ImplementsAtomicStore` (every behaviour is one of `AtomicStore`); refused files untouched; prepared files accepted again; rows only in a database whose columns, index, version and CHECK are validated; `StoreInv`, the inductive invariant |
| `input_rules` | texts of up to 4 bytes, 4 properties, 5 SQL symbols, 8 DDL phrases | the algorithms compute their reference definitions |

`delivery` takes about three minutes with two workers, the two lifecycle runs
about two each, `sqlite_store` one, the others seconds.

**Bounds.** One more event than the capacity allows makes both limits bite;
batch 2 of 3 events gives a full and a short batch; one revocation with a
re-grant gives an old and a new generation; two faults let a failure fall into
the handling of another. The crash run has one: a failure and a crash. Two callers and one retained pass result make
pruning and shared passes happen. Three setbacks allow a torn file, an
interrupted repair of it, and a third start, or a batch repeated after a failed
acknowledgment. Files of several blocks, and of blocks that end inside a line,
occur with every block size. The crash run has no producer
to keep it within minutes: session calls already admit events at every point,
and track() differs from them only before it takes the lock. Three events with fetches of two give a store a window that
leaves a row behind and transactions of several statements; neither failures
nor crashes are bounded there. Four bytes are the longest UTF-8 sequence, five
symbols of SQL an escaped quote inside a comment, eight phrases two CHECKs one
after the other or one inside the other, the wanted expression being a phrase of
three words. Symmetry is used for producers and callers
in the safety runs only.

**Fairness.** `FairDelivery` and `FairSpec` assume that the worker's thread is
scheduled, and `FairSpec` that the sink's `write` returns; both are
preconditions the code states (`docs/reliability.md` on sinks that never
return). Nothing is assumed of callers. `QuietSpec`, which `delivery_crash`
uses, is a restriction and no fairness: without it `CapacityNeverUndercounted`
is false, as `store_overflow` shows. `delivery` bounds the number of failures;
`lifecycle_live` does not, since a pass that makes no progress gives up.

**Deadlock** is checked in every run.

**Invariants checked together.** `AdmissionInv` is the conjunction of `TypeOK`,
`SessionsGapFree`, `ReplacementAtomic`, `CapacityReserved`, `QueueConsented`,
`AdmissionOrder` and what makes them inductive, so the run that checks it checks
them all; since `Delivery` implements `Admission` while nothing crashes, they
hold there too. `CreationInv` contains `RegistryInv`, from which
`ExclusiveOwner` and `NoLeakedEntry` follow. `StoreInv`, `DeliveryInv`,
`LifecycleInv` and `SinkInv` contain the type invariants of their modules; so do
`NothingLost` and `LinesWellFormed`. `DeliveryInv` implies
`MarkedRevocationEnforced` and `NothingLost`, which the crash run therefore does
not list again.

## Findings

Each is a run that is expected to violate the one property it checks; the
quotations are in `PROJECT.json`.

| run | what happens |
|---|---|
| `store_overflow` | the worker's late `reset_outstanding` forgets events admitted after a grant, and the store exceeds its bound |
| `revoked_written` | a batch fetched before a revocation is written after the re-grant |
| `shutdown_loses` | shutdown returns `Ok` with an accepted event only in memory, after a drain timeout |

The models also show these, which the properties leave room for:

- `ensure_open` falls back to `w+b` whenever `r+b` fails, where the comment at
  `file_sink.cpp:313` says "created when absent": a passing failure empties a
  file of acknowledged lines (history variable `emptied`, which `OkSurvives` and `OutputOrdered`
  except);
- a revocation whose marker could not be committed is remembered only in memory
  (`client.cpp:476`): after a crash a client created with consent delivers the
  rows, where `client.hpp:105` says that the purge is retried after a restart.
  `MarkedRevocationEnforced` is about marked revocations only;
- `rollback()` reports a connection that is left inside its transaction, "so it
  is reported" (`sqlite_store.cpp:294`), but every caller except insert's commit
  drops that status; such a connection commits nothing more, refuses every write
  and reads uncommitted rows until the database is opened again (`Poisoned`);
- `open` accepts a table it finds with further CHECKs beside the wanted one,
  where `sqlite_store.hpp:24` and `:70` speak of the exact shape; `INSERT OR
  IGNORE` passes over the rows that such a constraint forbids, and `insert`
  answers `Ok` (`Selective`, and `selective` of `AtomicStore`);
- an acknowledgment that finds only some of its rows removes these and reports an
  error, and the worker then releases no capacity for them until the next purge
  or restart (`unreleased`); `worker.cpp:523` says "the events stay durable";
- `flush` returns `Ok` although an event accepted before it was dropped because it
  could not be serialised, or because its row had been quarantined in an earlier
  pass, where `client.hpp:70` says "persisted, delivered, and acknowledged";
  hence `settled` in `FlushOkMeansSettled`;
- a database without the SDK's tables in which something else is called
  `idx_events_order` is prepared and used, and refused at the next open
  (`NameTaken`);
- a worker that dies between the two markers of a session replacement makes
  the branch that `client.cpp:161` calls unreachable happen; hence the last
  disjunct of `ReplacementAtomic`;
- a call that has passed its check of `terminated` is told `Ok` after the worker
  died, where `pipeline.hpp:90` says that "a producer must never be told Ok for
  work no thread will ever process", and a repeated `shutdown` returns `Ok` (`client.cpp:283`);
- `note_error` keeps the first error of a pass, so that in the drain a sink error,
  which `shutdown` tolerates, hides a storage error (`worker.cpp:140`);
- a failed `FileSink` stays failed, where `docs/reliability.md:168` says that it is
  reopened; and only `:memory:` is exempt from the path registry, where
  `path_registry.hpp:48` names `file::memory:` too.

## Proofs

The first part of `DeliveryStepProofs` is about `Admission`, which `Delivery`
extends. It proves `Spec => []AdmissionInv` for any set of producers, any
capacities and bounds, from `Admission`'s assumption that these are natural
numbers, and from it type correctness, `SessionsGapFree`, `ReplacementAtomic`,
`CapacityReserved`, `QueueConsented` and `AdmissionOrder`. None of these is
inductive alone. `LockInv` adds what the operation inside the lock has
established: the stamped event is the next of the live session or the first of
a new one, and a replacement between its markers ends the log. `RoomInv` adds
the room reserved for both markers and that a new session is new to the log,
`QueueInv` that the queue names accepted events in order, `OrdinalInv` that no
assigned ordinal is above the counter. The proof has one lemma per action and
splits by conjunct. `SessionInv`, the part of `AdmissionInv` that says nothing of
ordinals and of a replacement's two markers, is inductive on its own
(`SessionStep`); a crash can break only the rest.

The first part of `CreationProofs` proves `RegistryInv`, `ExclusiveOwner` and
`NoLeakedEntry` of `PathRegistry`, for any claims and paths. Exclusive ownership
follows because entries and held claims correspond one to one, which a move must
preserve.

Its second part proves `CreationInv`, and from it `OneUserPerFile` and
`NothingLeftBehind`, for any threads and paths, from the assumption that the claims are those of create, client and sink.
`ThreadInv` says which claim stands for what is open at each point; together
with the registry's own invariant this makes two open files two entries.

`SqliteStoreProofs` proves `StoreInv`, and from it that `SqliteStore` refines
`AtomicStore`, `RefusedUntouched`, `ReopensItsOwn` and `OpenMeansValidated`, for any
finite set of ordinals and any positive fetch limit. The refinement maps the
committed database to the abstract rows, so only COMMIT may change them, and a
table that was found with further constraints to `selective`, under which an
insert may keep any part of what it was given.
It needs `ProgressInv`, by which the open transaction holds exactly what its
call has done so far; `InTxnInv`, by which a connection that is poisoned can
begin nothing; `FetchInv`, by which what a fetch read is still true when its
quarantine commits; and `SchemaInv`, by which the schema is the one found or the
whole of the one prepared. There is one lemma for each kind of step: first those
for opening a database and for how any call begins and fails, then the other
calls, COMMIT and the theorems.

`DeliveryProofs` proves `DeliverySpec => []DeliveryInv` for any producers,
capacities and batch size and any number of failures, crashes and restarts, and
from it `NothingLost`, `PurgedNeverReturns`, `MarkedRevocationEnforced`,
`AtMostOneLateWrite`, `OrderedDelivery` and `NoPhantomCapacity`. None of them is
inductive. The conjuncts of `DeliveryInv` are the argument:

- `GenerationInv`: on its way into the store an event is of the current
  generation exactly when no revocation has come since it was admitted. This is
  why the recheck before an insert is enough for `PurgedNeverReturns`.
- `OwedInv`: while a revocation is owed, consent stays withdrawn and nothing is
  admitted; once it is not owed, what its marker covers is gone.
- `WithdrawnInv`: where the worker has seen consent withdrawn, whatever it is
  about to drop was admitted before the withdrawal, even if consent is back.
- `KeptInv`: rows fetched for the sink do not count as a place of their own;
  each event that is not settled or withdrawn is in the store or on its way there.
- `OrderInv`: admission order, ordinals and places agree, also after a restart
  that continues the ordinals of recovered rows.
- `CounterInv`: the counter is too high only between a purge and its reset, and by
  the rows of acknowledgments that matched part of their batch.

The second part of `DeliveryStepProofs` shows that the steps preserve all of them
but `OrderInv`, `CounterInv` and `FaultlessInv` (nothing goes bad without a
failure); these, and the theorems, are in `DeliveryProofs`.

Two results have a hypothesis. `CapacityNeverUndercounted` is proved of
`QuietSpec`, in which consent is granted only while the worker looks for work and
holds none (`CoveredInv` is the strengthening): with a grant at another time it
is false, as `store_overflow` shows. The refinement of `Admission` is proved for
`MaxCrashes = 0`, because `Admission` describes one life of a client; from it
`ReplacementAtomic` and `AdmissionOrder` carry over to the composed system. A
crash between two markers does leave the first without the second, and a restart
over an empty store numbers from one again, so these two need the hypothesis.

With any number of crashes, `AdmissionBetweenCrashes` says that each step other
than a crash or a restart is a step of `Admission`, and `SessionsSurviveCrashes`
that `SessionsGapFree`, `CapacityReserved` and `QueueConsented` hold in the
composed system. The argument is `SessionInv`: steps of `Admission` preserve it,
a crash leaves no call, no live session and an empty queue behind, and `HandsInv`
says that a `create` still finds it so.

`LifecycleProofs` proves `Spec => []LifecycleInv` for any finite set of callers
and any number of events, tokens and retained results, and from it
`FlushOkMeansSettled`, `OwnResultOnly`, `StoppedMeansExited` and
`NothingLost`. The core is `BarrierInv`: a caller raises the barrier before it
takes its token, so the barrier that a pass latches covers every call whose
token the pass answers; this is what makes one answer true for several callers.
`PassInv` ties the worker's locals to its place, `ResultInv` says that what is
retained of the results is what was recorded, and `ExitInv` how far the worker
and each `shutdown` have come. `TokensInv` belongs to the bound on tokens and
needs the callers to be finitely many. The steps of the worker and those of a
caller are shown to preserve what concerns the worker, that caller and the other
callers separately.

`FileSinkProofs` proves `SinkSpec => []SinkInv` for any batch size and block
size, and from it `LinesWellFormed`, `OkSurvives`, `RolledBackExactly`,
`OutputOrdered` and `TailScanExact`. `LinesInv` is about the stream, file and
buffer together: where the boundary between them falls does not matter, and any
part that begins a well-formed file is well formed. `PlaceInv` says that the
file begins with what the batch found, ending at the rollback point. `WrittenInv`
rests on `Secured`: the line of an acknowledged event is out of the reach of a
rollback and, with durable sync, at a place up to which disk and file agree, so
that no loss of power can leave less. The scan of `find_last_complete_line_end`
is a recursive function; the lemma `TailScan` exhibits a solution of its equation
and shows by a least counterexample that there is no other.

`InputRulesProofs` proves `Utf8Exact`, `PropertiesSound` and `NoiseStripped`,
and `SchemaCheckProofs` `CheckFound`, for texts of any length over any bytes,
keys, symbols and words and for any limit on properties; the only assumptions
are that a byte is below 256, that phrases are made of words and that the limit is
a natural number. The state is one
text, so what is proved of the state is proved of every text. The loops of the
code are recursive functions over the places of a text. The first lemmas say
when such a function satisfies its own equation: if every value depends only on
values at places of lower rank (`Recursion`), which a loop that moves forward
does. Induction over places is then stated for a set of places. On this rest
four arguments:

- UTF-8: for each length of a sequence the bit tests and the range test of the
  code point are together a row of the table of well-formed byte ranges; a text
  is accepted from a place exactly when it is a sequence followed by an accepted
  rest.
- Properties: the first error the code reports, whichever it is, is one the list
  has, and a list without an error has no earlier reason to be refused.
- SQL noise: the code jumps over a comment or a quotation, the reference automaton
  reads one symbol at a time. Wherever the code stands the automaton is in its
  initial state, and from there to where the code jumps to the automaton keeps
  nothing.
- CHECK: the closing parenthesis is the first place after the opening one where
  the depth is zero again; the text between the two without its spaces is what
  is compared. The loop never jumps over a CHECK that is inside no other: it goes
  on after the word, or after a parenthesis that closes before that CHECK.

Only model-checked, because the prover does not reach it, is liveness:
`AcceptedEventuallySettled`, `RevocationEventuallyPurges`, `TokensAnswered` and
`StopLeadsToExit`. Every other property of a run that passes has a theorem.

## Not modelled

- Checks of single configuration values (`validate_config`), names and lengths:
  comparisons with constants, each with a test of its own.
- The layout of a JSON payload and of a timestamp, done by a library; identifiers and clocks, taken
  to be unique and to decide nothing; event builders, statistics, logging.
- The digits of a schema version: `parse_schema_version` yields supported, other
  or malformed.
- Files that change identity under a claimed path, directory entries lost with
  the power, C libraries that keep bytes after a failed flush. These depend on
  the platform and not on this code; `PROJECT.json` lists them as hazards.
- Several processes on one database, which the documents exclude.

## Plan

1. `FileSink` with a C library that keeps unwritten bytes, shown to implement an
   abstract sink, and composed with `Delivery`'s worker.
2. `Admission` with restarts as steps of its own, so that `Delivery` refines it
   across crashes and its order properties can be stated per life of a client.
