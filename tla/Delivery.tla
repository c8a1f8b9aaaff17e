------------------------------ MODULE Delivery ------------------------------
(***************************************************************************)
(* Admission composed with the worker that drains the queue into the       *)
(* durable store and hands batches to the sink (WorkerCore), the           *)
(* set_consent controller with its two-phase purge, the store, and process *)
(* crashes followed by a new Client::create on the same database.          *)
(*                                                                         *)
(* One step is one access to state another thread can touch: an atomic, a  *)
(* store transaction under store_mutex_, a call of the sink.  A store      *)
(* transaction either commits or leaves the store as it was.               *)
(***************************************************************************)
EXTENDS Admission, FiniteSets

CONSTANTS
    BatchSize,          \* Config::batch_size
    MaxFaults,          \* bound: failures of the store, the sink, the data
    MaxCrashes,         \* bound: crashes of the process
    GrantsBelow         \* bound: consent is granted in generations below this

ASSUME DeliveryAssumption ==
    /\ BatchSize \in Nat \ {0}
    /\ MaxFaults \in Nat
    /\ MaxCrashes \in Nat
    /\ GrantsBelow \in Nat

VARIABLES
    wpc,            \* where the worker is; "down" while there is no process
    wret,           \* where purge_store returns to
    batch,          \* events the worker holds: drained, or fetched for the sink
    wgen,           \* the generation the worker read
    quarantined,    \* FetchResult::quarantined, not yet released
    retry,          \* retry_
    rows,           \* the events table
    corrupt,        \* rows whose identifier or payload is unusable
    marker,         \* the durable revocation marker
    cpc,            \* where set_consent is
    target,         \* the state it was called with
    purgeRequired,  \* purge_required_
    faults,         \* failures so far
    crashes,        \* crashes so far
    settled,        \* history: acknowledged, unusable, or lost in a crash
    revoked,        \* history: events admitted up to the last revocation
    marked,         \* history: those whose revocation marker was committed
    purged,         \* history: those whose purge set_consent completed
    lateWrites,     \* history: sink writes begun since consent was withdrawn
    unreleased      \* history: rows acknowledged whose capacity was kept

workerVars == <<wpc, wret, batch, wgen, quarantined, retry>>
storeVars == <<rows, corrupt, marker>>
consentVars == <<cpc, target, purgeRequired>>
revocationVars == <<revoked, marked, purged>>
historyVars == <<settled, revocationVars, lateWrites, unreleased>>
vars == <<admissionVars, workerVars, storeVars, consentVars, faults, crashes,
          historyVars>>

up == wpc # "down"
\* Variant: every state a user has chosen counts as granted.
GrantedUnlessUnknown == consent # "Unknown"

Granted == consent = "Granted"

Queued == {queue[k] : k \in DOMAIN queue}
Ordinal(e) == admitted[e].ordinal

DeliveryTypeOK ==
    /\ TypeOK
    /\ wpc \in {"down", "pop", "take", "check", "discard", "filter", "insert",
                "boundary", "hold", "deliver", "fetch", "quarantine",
                "recheck", "write", "writing", "confirm", "acknowledge",
                "release", "purge", "reset"}
    /\ wret \in {"pop", "deliver"}
    /\ batch \subseteq DOMAIN admitted
    /\ wgen \in Nat /\ quarantined \in Nat
    /\ retry \subseteq DOMAIN admitted
    /\ rows \subseteq DOMAIN admitted
    /\ corrupt \subseteq rows
    /\ marker \in BOOLEAN
    /\ cpc \in {"idle", "mark", "purge", "reset", "grant"}
    /\ target \in {"Granted", "Denied"}
    /\ purgeRequired \in BOOLEAN
    /\ faults \in 0..MaxFaults
    /\ crashes \in 0..MaxCrashes
    /\ settled \subseteq DOMAIN admitted
    /\ revoked \in 0..Len(admitted)
    /\ marked \in 0..revoked /\ purged \in 0..marked
    /\ lateWrites \in Nat /\ unreleased \in Nat

\* A client created over an empty database.
DeliveryInit ==
    /\ Init
    /\ outstanding = 0
    /\ wpc = "pop" /\ wret = "pop" /\ batch = {} /\ wgen = 0
    /\ quarantined = 0 /\ retry = {}
    /\ rows = {} /\ corrupt = {} /\ marker = FALSE
    /\ cpc = "idle" /\ target = "Denied" /\ purgeRequired = FALSE
    /\ faults = 0 /\ crashes = 0
    /\ settled = {}
    /\ revoked = 0 /\ marked = 0 /\ purged = 0
    /\ lateWrites = 0 /\ unreleased = 0

\* Something the environment does to an operation, within the bound.
Fault == faults < MaxFaults /\ faults' = faults + 1

-----------------------------------------------------------------------------
(* The store: what AtomicStore promises of the data, which SqliteStore is     *)
(* shown to keep                                                              *)

Store == INSTANCE AtomicStore
    WITH Events <- Nat, Limit <- BatchSize, bad <- corrupt,
         selective <- FALSE, poisoned <- FALSE, reply <- FALSE

StoreInsert(es) == Store!Insert(es)

\* The n rows of lowest ordinal.
FirstRows(n) ==
    {e \in rows : Cardinality({f \in rows : Ordinal(f) < Ordinal(e)}) < n}

StoreDelete(es) == Store!Delete(es)

StoreMatches(es) == Store!Matches(es)

StorePurge == Store!Purge

StoreMark == Store!Mark

\* A row goes bad on disk.
CorruptRow ==
    /\ Fault
    /\ \E e \in rows \ corrupt : Store!Damage(e)
    /\ UNCHANGED <<admissionVars, workerVars, consentVars, crashes, historyVars>>

-----------------------------------------------------------------------------
(* The worker: process_incoming *)

\* pop_wait takes up to batch_size events; the wait may time out with none.
Pop ==
    /\ wpc = "pop"
    /\ LET n == IF Len(queue) < BatchSize THEN Len(queue) ELSE BatchSize
       IN  /\ batch' = {queue[k] : k \in 1..n}
           /\ IF n = 0 THEN UNCHANGED admissionVars ELSE WorkerDrain(n)
    /\ wpc' = "take"
    /\ UNCHANGED <<quarantined, wret, wgen, retry, storeVars, consentVars,
                   faults, crashes, historyVars>>

\* Variant: an empty drain returns before the retry buffer is looked at.
TakeRetryOnArrival ==
    /\ wpc = "take"
    /\ batch' = IF batch = {} THEN {} ELSE retry \cup batch
    /\ retry' = IF batch = {} THEN retry ELSE {}
    /\ wpc' = IF batch = {} THEN "deliver" ELSE "check"
    /\ UNCHANGED <<admissionVars, wret, wgen, quarantined, storeVars,
                   consentVars, faults, crashes, historyVars>>

\* take_retry puts what a failed insert left behind ahead of the new events.
TakeRetry ==
    /\ wpc = "take"
    /\ batch' = retry \cup batch
    /\ retry' = {}
    /\ wpc' = IF batch' = {} THEN "deliver" ELSE "check"
    /\ UNCHANGED <<admissionVars, quarantined, wret, wgen, storeVars,
                   consentVars, faults, crashes, historyVars>>

\* The generation is read, then consent.
CheckConsent ==
    /\ wpc = "check"
    /\ wgen' = generation
    /\ wpc' = IF Granted THEN "filter" ELSE "discard"
    /\ UNCHANGED <<admissionVars, quarantined, wret, batch, retry, storeVars,
                   consentVars, faults, crashes, historyVars>>

\* Consent is not granted: the batch is dropped and the store purged.
Discard ==
    /\ wpc = "discard"
    /\ WorkerRelease(Released(Cardinality(batch)))
    /\ batch' = {}
    /\ wpc' = "purge" /\ wret' = "deliver"
    /\ UNCHANGED <<quarantined, wgen, retry, storeVars, consentVars, faults,
                   crashes, historyVars>>

\* Events of another generation are dropped, and so is one that cannot be
\* serialised.
Stale == {e \in batch : admitted[e].gen # wgen}

Filter ==
    /\ wpc = "filter"
    /\ \E bad \in {{}} \cup {{e} : e \in batch \ Stale} :
         /\ IF bad = {} THEN UNCHANGED faults ELSE Fault
         /\ batch' = batch \ (Stale \cup bad)
         /\ settled' = settled \cup bad
         /\ WorkerRelease(Released(Cardinality(Stale \cup bad)))
    /\ wpc' = IF batch' = {} THEN "deliver" ELSE "insert"
    /\ UNCHANGED <<quarantined, wret, wgen, retry, storeVars, consentVars,
                   crashes, revocationVars, lateWrites, unreleased>>

\* Variant: the generation is not compared.
StillGranted == Granted

\* The final consent check and the insert share one hold of store_mutex_.
StillConsented == Granted /\ generation = wgen

Insert ==
    /\ wpc = "insert"
    /\ \/ /\ ~StillConsented
          /\ wpc' = "boundary"
          /\ UNCHANGED <<storeVars, batch, faults>>
       \/ /\ StillConsented
          /\ StoreInsert(batch)
          /\ batch' = {}
          /\ wpc' = "deliver"
          /\ UNCHANGED faults
       \/ /\ StillConsented
          /\ Fault
          /\ wpc' = "hold"
          /\ UNCHANGED <<storeVars, batch>>
    /\ UNCHANGED <<admissionVars, quarantined, wret, wgen, retry, consentVars,
                   crashes, historyVars>>

\* revoked_at_boundary: the capacity is given back once the mutex is free.
ReleaseAtBoundary ==
    /\ wpc = "boundary"
    /\ WorkerRelease(Released(Cardinality(batch)))
    /\ batch' = {}
    /\ wpc' = "deliver"
    /\ UNCHANGED <<quarantined, wret, wgen, retry, storeVars, consentVars,
                   faults, crashes, historyVars>>

\* Variant: the batch of a failed insert is dropped.
HoldNothing ==
    /\ wpc = "hold"
    /\ batch' = {}
    /\ wpc' = "deliver"
    /\ UNCHANGED <<admissionVars, wret, wgen, quarantined, retry, storeVars,
                   consentVars, faults, crashes, historyVars>>

\* Variant: the batch of a failed insert goes back into the queue.
HoldInQueue ==
    /\ wpc = "hold"
    /\ \E s \in [1..Cardinality(batch) -> batch] :
         /\ {s[k] : k \in DOMAIN s} = batch
         /\ queue' = s \o queue
    /\ batch' = {}
    /\ wpc' = "deliver"
    /\ UNCHANGED <<lifecycle, consent, generation, session, outstanding, ordinal,
                   terminated, entry, op, pending, saved, admitted, wret, wgen,
                   quarantined, retry, storeVars, consentVars, faults, crashes,
                   historyVars>>

\* hold_for_retry.
HoldForRetry ==
    /\ wpc = "hold"
    /\ retry' = retry \cup batch
    /\ batch' = {}
    /\ wpc' = "deliver"
    /\ UNCHANGED <<admissionVars, quarantined, wret, wgen, storeVars,
                   consentVars, faults, crashes, historyVars>>

-----------------------------------------------------------------------------
(* The worker: deliver_all *)

\* Variant: without consent the pass ends and nothing is purged.
DeliverCheckOnly ==
    /\ wpc = "deliver"
    /\ wpc' = IF Granted THEN "fetch" ELSE "pop"
    /\ UNCHANGED <<admissionVars, wret, batch, wgen, quarantined, retry,
                   storeVars, consentVars, faults, crashes, historyVars>>

\* The test of consent at the top of the loop.
DeliverCheck ==
    /\ wpc = "deliver"
    /\ IF Granted
       THEN wpc' = "fetch" /\ UNCHANGED wret
       ELSE wpc' = "purge" /\ wret' = "pop"
    /\ UNCHANGED <<admissionVars, quarantined, batch, wgen, retry, storeVars,
                   consentVars, faults, crashes, historyVars>>

\* fetch_pending reads the oldest rows.  Unusable ones are left out and deleted,
\* if that transaction commits.  A read that fails part-way returns what it has
\* and deletes nothing.
Fetch ==
    /\ wpc = "fetch"
    /\ LET window == FirstRows(BatchSize)
           bad == window \cap corrupt
       IN  \/ /\ StoreDelete(bad)
              /\ batch' = window \ bad
              /\ settled' = settled \cup bad
              /\ quarantined' = Cardinality(bad)
              /\ UNCHANGED faults
           \/ /\ Fault
              /\ \E k \in 0..Cardinality(window) : batch' = FirstRows(k) \ corrupt
              /\ quarantined' = 0
              /\ UNCHANGED <<storeVars, settled>>
    /\ wpc' = "quarantine"
    /\ UNCHANGED <<admissionVars, wret, wgen, retry, consentVars, crashes,
                   revocationVars, lateWrites, unreleased>>

\* Variant: quarantined rows keep their capacity.
KeepQuarantined ==
    /\ wpc = "quarantine"
    /\ quarantined' = 0
    /\ wpc' = IF batch = {} THEN "pop" ELSE "recheck"
    /\ UNCHANGED <<admissionVars, wret, batch, wgen, retry, storeVars,
                   consentVars, faults, crashes, historyVars>>

\* The capacity of quarantined rows is released.
ReleaseQuarantined ==
    /\ wpc = "quarantine"
    /\ WorkerRelease(Released(quarantined))
    /\ quarantined' = 0
    /\ wpc' = IF batch = {} THEN "pop" ELSE "recheck"
    /\ UNCHANGED <<wret, batch, wgen, retry, storeVars, consentVars, faults,
                   crashes, historyVars>>

\* Immediately before the sink: the generation is read, then consent.
Recheck ==
    /\ wpc = "recheck"
    /\ wgen' = generation
    /\ IF Granted
       THEN wpc' = "write" /\ UNCHANGED <<wret, batch>>
       ELSE wpc' = "purge" /\ wret' = "pop" /\ batch' = {}
    /\ UNCHANGED <<admissionVars, quarantined, retry, storeVars, consentVars,
                   faults, crashes, historyVars>>

\* Sink::write is called ...
BeginWrite ==
    /\ wpc = "write"
    /\ wpc' = "writing"
    /\ lateWrites' = IF consent = "Granted" THEN lateWrites ELSE lateWrites + 1
    /\ UNCHANGED <<admissionVars, quarantined, wret, batch, wgen, retry,
                   storeVars, consentVars, faults, crashes, settled,
                   revocationVars, unreleased>>

\* ... and returns.  A failure leaves the rows for a later pass.
EndWrite ==
    /\ wpc = "writing"
    /\ \/ wpc' = "confirm" /\ UNCHANGED <<batch, faults>>
       \/ Fault /\ wpc' = "pop" /\ batch' = {}
    /\ UNCHANGED <<admissionVars, quarantined, wret, wgen, retry, storeVars,
                   consentVars, crashes, historyVars>>

\* Consent was withdrawn while the sink was writing: no acknowledgment.
Confirm ==
    /\ wpc = "confirm"
    /\ IF StillConsented
       THEN wpc' = "acknowledge" /\ UNCHANGED <<wret, batch>>
       ELSE wpc' = "purge" /\ wret' = "pop" /\ batch' = {}
    /\ UNCHANGED <<admissionVars, quarantined, wgen, retry, storeVars,
                   consentVars, faults, crashes, historyVars>>

\* Variant: capacity is released although the acknowledgment failed.
AcknowledgeUnchecked ==
    /\ wpc = "acknowledge"
    /\ \/ \E gone \in StoreMatches(batch) :
            /\ StoreDelete(gone)
            /\ settled' = settled \cup gone
            /\ UNCHANGED faults
       \/ Fault /\ UNCHANGED <<storeVars, settled>>
    /\ wpc' = "release"
    /\ UNCHANGED <<admissionVars, wret, batch, wgen, quarantined, retry,
                   consentVars, crashes, revocationVars, lateWrites,
                   unreleased>>

\* acknowledge deletes the batch's rows by identifier.  When some were not
\* found it commits, yet reports an error; then no capacity is released, not
\* even that of the rows it removed.
Acknowledge ==
    /\ wpc = "acknowledge"
    /\ \/ \E gone \in StoreMatches(batch) :
            /\ StoreDelete(gone)
            /\ settled' = settled \cup gone
            /\ IF gone = batch
               THEN wpc' = "release" /\ UNCHANGED <<batch, unreleased>>
               ELSE /\ wpc' = "pop" /\ batch' = {}
                    /\ unreleased' = unreleased + Cardinality(gone)
            /\ UNCHANGED faults
       \/ /\ Fault
          /\ wpc' = "pop" /\ batch' = {}
          /\ UNCHANGED <<storeVars, settled, unreleased>>
    /\ UNCHANGED <<admissionVars, quarantined, wret, wgen, retry, consentVars,
                   crashes, revocationVars, lateWrites>>

ReleaseDelivered ==
    /\ wpc = "release"
    /\ WorkerRelease(Released(Cardinality(batch)))
    /\ batch' = {}
    /\ wpc' = "deliver"
    /\ UNCHANGED <<quarantined, wret, wgen, retry, storeVars, consentVars,
                   faults, crashes, historyVars>>

\* purge_store, then the counter is reset outside the mutex.
WorkerPurge ==
    /\ wpc = "purge"
    /\ \/ StorePurge /\ wpc' = "reset" /\ UNCHANGED faults
       \/ Fault /\ wpc' = wret /\ UNCHANGED storeVars
    /\ UNCHANGED <<admissionVars, quarantined, wret, batch, wgen, retry,
                   consentVars, crashes, historyVars>>

WorkerReset ==
    /\ wpc = "reset"
    /\ WorkerRelease(0)
    /\ unreleased' = 0
    /\ wpc' = wret
    /\ UNCHANGED <<quarantined, wret, batch, wgen, retry, storeVars,
                   consentVars, faults, crashes, settled, revocationVars,
                   lateWrites>>

Worker ==
    \/ Pop \/ TakeRetry \/ CheckConsent \/ Discard \/ Filter \/ Insert
    \/ ReleaseAtBoundary \/ HoldForRetry
    \/ DeliverCheck \/ Fetch \/ ReleaseQuarantined \/ Recheck \/ BeginWrite
    \/ EndWrite \/ Confirm \/ Acknowledge \/ ReleaseDelivered
    \/ WorkerPurge \/ WorkerReset

-----------------------------------------------------------------------------
(* set_consent, serialised by consent_mutex_, and its run_purge *)

\* set_consent to anything but Granted: the part under the admission lock,
\* discard_in_flight included.
Revoke ==
    /\ up /\ cpc = "idle"
    /\ RevokeBegin(Cardinality(retry))
    /\ retry' = {}
    /\ purgeRequired' = TRUE
    /\ target' = "Denied"
    /\ cpc' = "mark"
    /\ revoked' = Len(admitted)
    /\ lateWrites' = 0
    /\ UNCHANGED <<wpc, wret, batch, wgen, quarantined, storeVars, faults,
                   crashes, settled, marked, purged, unreleased>>

\* Variant: consent is granted while a purge is still owed.
GrantWithoutPurge ==
    /\ up /\ cpc = "idle"
    /\ generation < GrantsBelow
    /\ target' = "Granted"
    /\ cpc' = "grant"
    /\ UNCHANGED <<admissionVars, workerVars, storeVars, purgeRequired, faults,
                   crashes, historyVars>>

\* set_consent(Granted) settles an unfinished purge first.
GrantCall ==
    /\ up /\ cpc = "idle"
    /\ generation < GrantsBelow
    /\ target' = "Granted"
    /\ cpc' = IF purgeRequired THEN "mark" ELSE "grant"
    /\ UNCHANGED <<admissionVars, workerVars, storeVars, purgeRequired, faults,
                   crashes, historyVars>>

\* mark_revocation_pending; without its marker run_purge does not purge.
Mark ==
    /\ cpc = "mark"
    /\ \/ StoreMark /\ cpc' = "purge" /\ marked' = revoked
          /\ UNCHANGED faults
       \/ Fault /\ cpc' = "idle" /\ UNCHANGED <<storeVars, marked>>
    /\ UNCHANGED <<admissionVars, workerVars, target, purgeRequired, crashes,
                   settled, revoked, purged, lateWrites, unreleased>>

\* purge_and_clear_revocation; the marker outlives a failure.
Purge ==
    /\ cpc = "purge"
    /\ \/ StorePurge /\ cpc' = "reset" /\ purged' = revoked
          /\ UNCHANGED faults
       \/ Fault /\ cpc' = "idle" /\ UNCHANGED <<storeVars, purged>>
    /\ UNCHANGED <<admissionVars, workerVars, target, purgeRequired, crashes,
                   settled, revoked, marked, lateWrites, unreleased>>

Reset ==
    /\ cpc = "reset"
    /\ purgeRequired' = FALSE
    /\ WorkerRelease(0)
    /\ unreleased' = 0
    /\ cpc' = IF target = "Granted" THEN "grant" ELSE "idle"
    /\ UNCHANGED <<workerVars, storeVars, target, faults, crashes, settled,
                   revoked, marked, purged, lateWrites>>

GrantReturn ==
    /\ cpc = "grant"
    /\ Grant
    /\ cpc' = "idle"
    /\ lateWrites' = 0
    /\ UNCHANGED <<workerVars, storeVars, target, purgeRequired, faults,
                   crashes, settled, revoked, marked, purged, unreleased>>

SetConsent == Revoke \/ GrantCall \/ Mark \/ Purge \/ Reset \/ GrantReturn

-----------------------------------------------------------------------------
(* The producers, and the end and the beginning of the process *)

Client ==
    /\ up
    /\ \/ \E p \in Producers : TrackEnter(p) \/ TrackAdmit(p) \/ TrackReject(p)
       \/ StartSession \/ ReplaceEnd \/ ReplaceStart \/ EndSession \/ Publish
    /\ UNCHANGED <<workerVars, storeVars, consentVars, faults, crashes,
                   historyVars>>

\* The process ends; only the store is left.
Crash ==
    /\ up
    /\ crashes < MaxCrashes
    /\ crashes' = crashes + 1
    /\ settled' = settled \cup ((Queued \cup retry \cup batch) \ rows)
    /\ wpc' = "down" /\ wret' = "pop" /\ batch' = {} /\ wgen' = 0
    /\ quarantined' = 0 /\ retry' = {}
    /\ cpc' = "idle" /\ target' = "Denied" /\ purgeRequired' = FALSE
    /\ queue' = <<>>
    /\ session' = Deactivated(session)
    /\ entry' = [p \in Producers |-> NoCall]
    /\ op' = "idle"
    /\ consent' = "Denied"
    /\ UNCHANGED <<lifecycle, generation, outstanding, ordinal, terminated,
                   pending, saved, admitted, storeVars, faults, revocationVars,
                   lateWrites, unreleased>>

\* Variant: every run numbers its events from one.
OrdinalsFromOne(es) == 0

HighestOrdinal(es) ==
    IF es = {} THEN 0
    ELSE CHOOSE n \in {Ordinal(e) : e \in es} : \A e \in es : Ordinal(e) <= n

\* Variant: the marker of an unfinished revocation is not looked at.
CreateUnmarked(c) ==
    /\ ~up
    /\ wpc' = "pop"
    /\ IF c # "Granted"
       THEN /\ StorePurge
            /\ revoked' = Len(admitted)
            /\ marked' = Len(admitted) /\ purged' = Len(admitted)
       ELSE UNCHANGED <<storeVars, revocationVars>>
    /\ consent' = c
    /\ outstanding' = Cardinality(rows')
    /\ ordinal' = HighestOrdinal(rows')
    /\ generation' = 0
    /\ lateWrites' = 0 /\ unreleased' = 0
    /\ UNCHANGED <<lifecycle, session, queue, terminated, entry, op, pending,
                   saved, admitted, wret, batch, wgen, quarantined, retry,
                   consentVars, faults, crashes, settled>>

\* ClientInternal::create with consent c in its Config purges first, when a
\* revocation is owed or consent not granted.
PurgeOwed(c) ==
    IF marker \/ c # "Granted"
    THEN /\ StorePurge
         /\ revoked' = Len(admitted)
         /\ marked' = Len(admitted) /\ purged' = Len(admitted)
    ELSE UNCHANGED <<storeVars, revocationVars>>

\* There is no client when that fails, or when the rows cannot be counted
\* afterwards.
Create(c) ==
    /\ ~up
    /\ \/ PurgeOwed(c) /\ wpc' = "pop" /\ UNCHANGED faults
       \/ PurgeOwed(c) /\ Fault /\ UNCHANGED wpc
       \/ Fault /\ UNCHANGED <<wpc, storeVars, revocationVars>>
    /\ IF wpc' = "pop"
       THEN /\ consent' = c
            /\ outstanding' = Cardinality(rows')
            /\ ordinal' = HighestOrdinal(rows')
            /\ generation' = 0
            /\ lateWrites' = 0 /\ unreleased' = 0
       ELSE UNCHANGED <<consent, outstanding, ordinal, generation, lateWrites,
                        unreleased>>
    /\ UNCHANGED <<lifecycle, session, queue, terminated, entry, op, pending,
                   saved, admitted, wret, batch, wgen, quarantined, retry,
                   consentVars, crashes, settled>>

DeliveryNext ==
    \/ Client
    \/ Worker
    \/ SetConsent
    \/ CorruptRow
    \/ Crash
    \/ \E c \in {"Granted", "Denied"} : Create(c)

DeliverySpec == DeliveryInit /\ [][DeliveryNext]_vars

\* Consent is granted only while the worker looks for work and holds none.
Unoccupied ==
    wpc \in {"pop", "take", "deliver", "fetch"} /\ batch = {} /\ retry = {}

QuietGrant == ~Granted /\ GrantReturn => Unoccupied

QuietNext ==
    \/ Client
    \/ Worker
    \/ SetConsent /\ QuietGrant
    \/ CorruptRow
    \/ Crash
    \/ \E c \in {"Granted", "Denied"} : Create(c)

QuietSpec == DeliveryInit /\ [][QuietNext]_vars

\* The worker thread keeps running: nothing it waits for is held for good, as
\* long as the sink's write returns.
FairDelivery == DeliverySpec /\ WF_vars(Worker)

-----------------------------------------------------------------------------
(* Properties *)

\* Every step of the composed system is a step of Admission or leaves its
\* state alone: the worker and set_consent do to the queue, the counter and
\* consent only what the admission path was verified against.
ImplementsAdmission == Spec

\* Once run_purge has committed its purge, no event admitted before that
\* revocation is ever in the store again: the worker's insert rechecks consent
\* and the generation under store_mutex_, and its retry buffer and drained
\* batches are dropped, whatever it was doing when consent was withdrawn.
PurgedNeverReturns == rows \cap 1..purged = {}

\* A revocation whose marker was committed is carried out before collection
\* can be granted again, across failed purges, crashes and restarts with
\* consent granted in the Config (run_purge, ClientInternal::create).
MarkedRevocationEnforced == up /\ Granted => rows \cap 1..marked = {}

\* An accepted event is never lost: until it is acknowledged, quarantined or
\* withdrawn by a revocation it is in the queue, in the worker's hands, in the
\* retry buffer or in the store.  Only a crash takes what was not yet in the
\* store (process_incoming, hold_for_retry, deliver_all).  And all state has
\* its type.
NothingLost ==
    /\ DeliveryTypeOK
    /\ DOMAIN admitted \subseteq
         1..revoked \cup settled \cup rows \cup Queued \cup retry \cup batch

\* After consent is withdrawn at most one sink write is begun, the one whose
\* consent check had already passed (deliver_all).
AtMostOneLateWrite == lateWrites <= 1

\* The sink is handed events in admission order: when a write begins no live
\* event outside the batch was admitted before one in it, in spite of failed
\* inserts that are retried, failed writes and restarts (take_retry,
\* hold_for_retry, fetch_pending).
OrderedDelivery ==
    wpc = "write" =>
      \A e \in batch, f \in (((rows \ corrupt) \cup retry \cup Queued) \ batch) :
        Ordinal(e) < Ordinal(f)

\* A batch about to be written contains no event of an earlier consent
\* generation, even if consent was granted again meanwhile.
OnlyCurrentConsentWritten ==
    wpc = "write" /\ StillConsented => batch \cap 1..revoked = {}

Held == Cardinality(rows \cup retry \cup Queued \cup batch)
                + (IF op \in PushOps THEN 1 ELSE 0)

\* Capacity leaks in one way only: between passes of the worker and calls of
\* set_consent the counter exceeds what is held by no more than the rows that
\* an acknowledgment removed before it reported that others were not found, and
\* nothing leaks without a failure.  A failed insert, write or acknowledgment, a
\* quarantine or a purge never shrinks the store (deliver_all, purge_store).
NoPhantomCapacity ==
    /\ wpc \in {"pop", "deliver"} /\ cpc = "idle" => outstanding <= Held + unreleased
    /\ faults = 0 => unreleased = 0

\* While collection is on, the counter admission tests covers everything the
\* worker and the store hold, whatever failed and after a restart, provided
\* that consent is granted only while the worker holds nothing (QuietSpec; a
\* grant at another time is what makes the store overflow).
CapacityNeverUndercounted == up /\ Granted => Held <= outstanding

\* The durable store is bounded by max_pending_events.
DurableStoreBounded == Cardinality(rows) <= MaxPending

\* With a bounded number of failures every accepted event is eventually
\* acknowledged, quarantined or withdrawn: again and again there is none that
\* is not (the set of those that are never shrinks; process_incoming,
\* deliver_all).
AcceptedEventuallySettled ==
    []<>(DOMAIN admitted \subseteq settled \cup 1..revoked)

\* While consent is withheld the worker itself completes a purge that
\* set_consent could not (deliver_all, purge_store).
RevocationEventuallyPurges == ~Granted ~> (Granted \/ rows = {})

-----------------------------------------------------------------------------
(* The inductive invariant behind the properties *)

\* Where the worker holds nothing, where it holds events on their way into the
\* store, and where it holds copies of rows on their way to the sink.
EmptyHanded == {"down", "pop", "deliver", "fetch", "purge", "reset"}
Inbound == {"take", "check", "discard", "filter", "insert", "boundary", "hold"}
Outbound == {"quarantine", "recheck", "write", "writing", "confirm",
             "acknowledge"}

\* The accepted events that are not in the store yet.
Incoming == Queued \cup retry \cup (IF wpc \in Inbound THEN batch ELSE {})

Live == rows \cup Incoming \cup batch

\* Which state goes with which.
HandsInv ==
    /\ wpc \in EmptyHanded => batch = {}
    /\ wpc \in Inbound \ {"take"} => retry = {}
    /\ wpc # "quarantine" => quarantined = 0
    /\ ~up => /\ queue = <<>> /\ retry = {}
              /\ op = "idle" /\ cpc = "idle" /\ ~purgeRequired
    /\ op # "idle" => Granted
    /\ \A k \in DOMAIN queue : queue[k] \in DOMAIN admitted

\* A revocation that is owed keeps consent withdrawn, nothing is admitted
\* meanwhile, and what its marker covers is gone once it is not owed any more.
OwedInv ==
    /\ cpc \in {"mark", "purge", "reset"} => purgeRequired
    /\ cpc = "grant" => ~purgeRequired
    /\ cpc \in {"purge", "reset"} => marked = revoked
    /\ purgeRequired => ~Granted
    /\ up /\ ~Granted => revoked = Len(admitted)
    /\ up /\ ~purgeRequired => rows \cap 1..marked = {}
    /\ cpc = "reset" => rows \cap 1..marked = {}
    /\ ~marker => rows \cap 1..marked = {}
    /\ rows \cap 1..purged = {}

\* On its way into the store an event is of the current generation exactly
\* when no revocation has come since it was admitted.
GenerationInv ==
    /\ op \in PushOps => pending.gen = generation
    /\ \A e \in Incoming :
         /\ admitted[e].gen <= generation
         /\ admitted[e].gen = generation <=> e > revoked
    /\ wpc = "filter" =>
         wgen <= generation /\ \A e \in batch : admitted[e].gen <= wgen
    /\ wpc = "insert" =>
         wgen <= generation /\ \A e \in batch : admitted[e].gen = wgen

\* Where the worker has seen that consent was withdrawn, what it is about to
\* drop or purge was admitted before, even if consent is back by now.
WithdrawnInv ==
    /\ wpc \in {"discard", "boundary"} => batch \subseteq 1..revoked
    /\ wpc \in {"discard", "purge"} => rows \subseteq 1..revoked
    /\ wpc \in {"write", "writing", "confirm"} /\ wgen # generation =>
         rows \subseteq 1..revoked

\* The rows the worker has fetched do not count as a place: the store, the
\* queue, the retry buffer or the way into the store still has the event.
KeptInv ==
    DOMAIN admitted \subseteq 1..revoked \cup settled \cup rows \cup Incoming

\* At most one write passes its consent check before consent is withdrawn.
LateInv ==
    lateWrites = 0 \/ (lateWrites = 1 /\ ~Granted /\ wpc # "write")

\* Admission order, ordinals and places agree: an event admitted earlier has
\* the lower ordinal, also across a restart, and is further on its way.
OrderInv ==
    /\ \A e, f \in Live : e < f => Ordinal(e) < Ordinal(f)
    /\ \A e \in Live :
         Ordinal(e) <= ordinal /\ (op \in PushOps => Ordinal(e) < ordinal)
    /\ op \in PushOps => pending.ordinal = ordinal
    /\ \A e \in rows, f \in Incoming : e < f
    /\ \A e \in retry, f \in Queued : e < f
    /\ wpc \in Inbound => \A e \in batch, f \in Queued : e < f
    /\ \A i, j \in DOMAIN queue : i < j => queue[i] < queue[j]
    /\ wpc \in {"quarantine", "recheck", "write"} =>
         \A e \in batch, f \in (((rows \ corrupt) \cup retry \cup Queued) \ batch) :
           Ordinal(e) < Ordinal(f)

\* Rows that are gone and whose capacity is still to be released, or is kept.
Lapsed == quarantined + unreleased

\* What the counter may count: fetched rows count as rows, acknowledged ones
\* until they are released.
Counted ==
    Cardinality(rows \cup Incoming \cup (IF wpc = "release" THEN batch ELSE {}))
      + Lapsed + (IF op \in PushOps THEN 1 ELSE 0)

\* The counter is too high only between a purge and its reset, and by what an
\* acknowledgment that matched part of its batch removed: the rows of a fetched
\* batch are all there or, after a purge, all gone.
CounterInv ==
    /\ wpc \in Outbound => batch \subseteq rows \/ batch \cap rows = {}
    /\ up /\ wpc # "reset" /\ cpc # "reset" => outstanding <= Counted

\* Rows go bad, and an acknowledgment misses some, only by a failure.
FaultlessInv == faults = 0 => corrupt = {} /\ unreleased = 0

\* The conjunction that every step of the producers, the worker, set_consent,
\* a crash and a restart preserves.
DeliveryInv ==
    /\ DeliveryTypeOK
    /\ HandsInv
    /\ OwedInv
    /\ GenerationInv
    /\ WithdrawnInv
    /\ KeptInv
    /\ LateInv
    /\ OrderInv
    /\ CounterInv
    /\ FaultlessInv

\* If consent is granted only while the worker holds nothing, then while it is
\* granted nothing the worker holds is stale and the counter covers everything
\* that is held.
CoveredInv ==
    /\ up /\ ~Granted => queue = <<>> /\ (purgeRequired \/ rows = {})
    /\ up /\ Granted =>
         /\ wpc \notin {"discard", "boundary", "purge", "reset"}
         /\ wpc \in {"filter", "insert", "write", "writing", "confirm"} =>
              wgen = generation
         /\ wpc \in Outbound => batch \subseteq rows
         /\ wpc = "release" => batch \cap (rows \cup Incoming) = {}
         /\ Held + quarantined <= outstanding
=============================================================================
