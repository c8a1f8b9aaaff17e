------------------------------ MODULE Admission ------------------------------
(***************************************************************************)
(* The admission path of one PlayerTrace client: Client::Impl (client.cpp) *)
(* with the EventQueue, the SessionManager, the consent generation and the *)
(* capacity counter it works on.                                           *)
(*                                                                         *)
(* Producers are serialised by admission_mutex_.  `op' is the operation    *)
(* that holds it ("idle" when it is free).  An admission takes two steps   *)
(* because the worker, which never takes that mutex, runs in between:      *)
(* admit_locked first takes a sequence number, an ordinal and a unit of    *)
(* capacity (Reserve), then pushes to the queue (Publish).                 *)
(*                                                                         *)
(* The worker appears here as an environment that may drain the queue,     *)
(* give capacity back, or die.  Delivery.tla replaces it by the real one   *)
(* and is checked to implement this module.                                *)
(***************************************************************************)
EXTENDS Integers, Sequences

CONSTANTS
    Producers,      \* threads that call track()
    MaxPending,     \* Config::max_pending_events
    QueueCap,       \* Config::max_queue_size
    MaxRecovered,   \* bound: rows a previous run left behind
    MaxOrdinal,     \* bound: events that are ever given an ordinal
    MaxGeneration   \* bound: revocations

ASSUME AdmissionAssumption ==
    /\ MaxPending \in Nat \ {0}
    /\ QueueCap \in Nat \ {0}
    /\ MaxRecovered \in Nat
    /\ MaxOrdinal \in Nat
    /\ MaxGeneration \in Nat

VARIABLES
    lifecycle,      \* lifecycle_
    consent,        \* consent_; "Denied" stands for every state but Granted
    generation,     \* consent_generation_
    session,        \* SessionManager: active_, session_id_, sequence_
    queue,          \* EventQueue; an event is its index in `admitted'
    outstanding,    \* outstanding_
    ordinal,        \* ordinal_
    terminated,     \* terminated_
    entry,          \* entry_generation of each producer inside track()
    op,             \* the operation inside admission_mutex_
    pending,        \* the event admit_locked has built and not yet pushed
    saved,          \* the Snapshot start_session took
    admitted        \* history: every event a caller was told Ok for

admissionVars == <<lifecycle, consent, generation, session, queue, outstanding,
                   ordinal, terminated, entry, op, pending, saved, admitted>>

NoCall == -1

\* The operations of which an event can be part.  start_session emits one
\* marker, or two when it replaces a live session.
StartOps == {"start", "replaceStart"}
EndOps == {"end", "replaceEnd"}
PushOps == {"track"} \cup StartOps \cup EndOps

Session == [active : BOOLEAN, id : Nat, seq : Nat]
Event == [sess : Nat, seq : Nat, ordinal : Nat, gen : Nat, entered : Nat,
          by : PushOps]
NoSession == [active |-> FALSE, id |-> 0, seq |-> 0]
NoEvent == [sess |-> 0, seq |-> 0, ordinal |-> 0, gen |-> 0, entered |-> 0,
            by |-> "track"]

\* release_outstanding never wraps below zero.
Released(n) == IF outstanding > n THEN outstanding - n ELSE 0

TypeOK ==
    /\ lifecycle \in {"Running", "Stopping", "Stopped"}
    /\ consent \in {"Granted", "Denied"}
    /\ generation \in Nat
    /\ session \in Session
    /\ queue \in Seq(Nat)
    /\ outstanding \in Nat
    /\ ordinal \in Nat
    /\ terminated \in BOOLEAN
    /\ entry \in [Producers -> Nat \cup {NoCall}]
    /\ op \in PushOps \cup {"idle", "replaceMid"}
    /\ pending \in Event
    /\ saved \in Session
    /\ admitted \in Seq(Event)

\* A client just created: `outstanding' counts the rows recovered from the
\* previous run (which may have had a larger cap) and `ordinal' continues above
\* the highest of them.
Init ==
    /\ lifecycle = "Running"
    /\ consent \in {"Granted", "Denied"}
    /\ generation = 0
    /\ session = NoSession
    /\ queue = <<>>
    /\ outstanding \in 0..MaxRecovered
    /\ ordinal = outstanding
    /\ terminated = FALSE
    /\ entry = [p \in Producers |-> NoCall]
    /\ op = "idle"
    /\ pending = NoEvent
    /\ saved = NoSession
    /\ admitted = <<>>

-----------------------------------------------------------------------------
(* admit_locked, in two steps *)

\* The checks of admit_locked for an event of session s.  (A full queue or
\* store is refused before anything is changed.)
Admissible(s) ==
    /\ ~terminated
    /\ lifecycle = "Running"
    /\ consent = "Granted"
    /\ s.active
    /\ outstanding < MaxPending
    /\ Len(queue) < QueueCap

WithSeq(s, n) == [active |-> s.active, id |-> s.id, seq |-> n]

\* What an admissible event of session s takes, up to the push.
Reserve(o, s, entered) ==
    /\ ordinal < MaxOrdinal
    /\ op' = o
    /\ ordinal' = ordinal + 1
    /\ pending' = [sess |-> s.id, seq |-> s.seq, ordinal |-> ordinal + 1,
                   gen |-> generation, entered |-> entered, by |-> o]
    /\ session' = WithSeq(s, s.seq + 1)
    /\ outstanding' = outstanding + 1
    /\ UNCHANGED <<lifecycle, consent, generation, queue, terminated, admitted>>

\* SessionManager::begin.  A random session id is a number not used before.
Begun(s) == [active |-> TRUE, id |-> s.id + 1, seq |-> 0]

Deactivated(s) == [active |-> FALSE, id |-> s.id, seq |-> s.seq]

\* SessionManager::rollback of the sequence number `pending' took.
RolledBack(s) ==
    IF s.active /\ s.id = pending.sess /\ s.seq = pending.seq + 1
    THEN WithSeq(s, pending.seq)
    ELSE s

\* Variant: the session stays open after its session_end.
SessionStaysOpen == session

\* The session once a push has succeeded: end_session_locked closes it.
SessionAfterPush == IF op \in EndOps THEN Deactivated(session) ELSE session

\* The session once a push has failed: admit_locked rolls the sequence back,
\* and start_session restores its snapshot, except that it cannot take back a
\* session_end and leaves no session instead.
SessionAfterFailedPush ==
    CASE op = "replaceStart" -> Deactivated(RolledBack(session))
      [] op \in {"start", "replaceEnd"} -> saved
      [] OTHER -> RolledBack(session)

\* try_push, and what the operation does with its result.
Publish ==
    /\ op \in PushOps
    /\ IF Len(queue) < QueueCap
       THEN /\ queue' = Append(queue, Len(admitted) + 1)
            /\ admitted' = Append(admitted, pending)
            /\ session' = SessionAfterPush
            /\ op' = IF op = "replaceEnd" THEN "replaceMid" ELSE "idle"
            /\ UNCHANGED outstanding
       ELSE /\ outstanding' = Released(1)
            /\ session' = SessionAfterFailedPush
            /\ op' = "idle"
            /\ UNCHANGED <<queue, admitted>>
    /\ UNCHANGED <<lifecycle, consent, generation, ordinal, terminated, entry,
                   pending, saved>>

-----------------------------------------------------------------------------
(* The public operations.  A call that is refused changes nothing and so is *)
(* no step at all, except that a refused track() leaves the call.           *)

\* track() up to the admission lock: the generation is read first, then the
\* input is validated and the user's property filter runs.
TrackEnter(p) ==
    /\ entry[p] = NoCall
    /\ entry' = [entry EXCEPT ![p] = generation]
    /\ UNCHANGED <<lifecycle, consent, generation, session, queue, outstanding,
                   ordinal, terminated, op, pending, saved, admitted>>

\* Variant: the generation read before the filter ran is ignored.
AnyGeneration(p) == entry[p] # NoCall

\* The generation test of track() under the lock.
SameGeneration(p) == entry[p] = generation

TrackAdmit(p) ==
    /\ op = "idle"
    /\ entry[p] # NoCall
    /\ SameGeneration(p)
    /\ Admissible(session)
    /\ Reserve("track", session, entry[p])
    /\ entry' = [entry EXCEPT ![p] = NoCall]
    /\ UNCHANGED saved

TrackReject(p) ==
    /\ op = "idle"
    /\ entry[p] # NoCall
    /\ ~(SameGeneration(p) /\ Admissible(session))
    /\ entry' = [entry EXCEPT ![p] = NoCall]
    /\ UNCHANGED <<lifecycle, consent, generation, session, queue, outstanding,
                   ordinal, terminated, op, pending, saved, admitted>>

\* Variant: room for one marker only.
HasRoomForOne(n) ==
    /\ outstanding + 1 <= MaxPending
    /\ QueueCap - Len(queue) >= 1

\* reserve_locked.
HasRoomFor(n) ==
    /\ outstanding + n <= MaxPending
    /\ QueueCap - Len(queue) >= n

\* start_session with no live session: begin, then admit its session_start.
StartSession ==
    /\ op = "idle"
    /\ ~session.active
    /\ Admissible(Begun(session))
    /\ Reserve("start", Begun(session), generation)
    /\ saved' = session
    /\ UNCHANGED entry

\* start_session over a live session: room for both markers, then the
\* session_end.  ReplaceStart goes on once that has been pushed.
ReplaceEnd ==
    /\ op = "idle"
    /\ session.active
    /\ HasRoomFor(2)
    /\ Admissible(session)
    /\ ordinal + 2 <= MaxOrdinal
    /\ Reserve("replaceEnd", session, generation)
    /\ saved' = session
    /\ UNCHANGED entry

\* The second marker.  The worker may have died since the first one, and then
\* the old session is closed and no new one is open.
ReplaceStart ==
    /\ op = "replaceMid"
    /\ IF Admissible(Begun(session))
       THEN Reserve("replaceStart", Begun(session), generation)
       ELSE /\ session' = Deactivated(Begun(session))
            /\ op' = "idle"
            /\ UNCHANGED <<lifecycle, consent, generation, queue, outstanding,
                           ordinal, terminated, pending, admitted>>
    /\ UNCHANGED <<entry, saved>>

EndSession ==
    /\ op = "idle"
    /\ Admissible(session)
    /\ Reserve("end", session, generation)
    /\ UNCHANGED <<entry, saved>>

\* set_consent to anything but Granted, the part under the admission lock:
\* close consent, start a new generation, drop the queue, the session and the
\* n events of the worker's retry buffer.
RevokeBegin(n) ==
    /\ op = "idle"
    /\ generation < MaxGeneration
    /\ consent' = "Denied"
    /\ generation' = generation + 1
    /\ queue' = <<>>
    /\ outstanding' = Released(Len(queue) + n)
    /\ session' = Deactivated(session)
    /\ UNCHANGED <<lifecycle, ordinal, terminated, entry, op, pending, saved,
                   admitted>>

\* set_consent(Granted), its last statement.
Grant ==
    /\ op = "idle"
    /\ consent' = "Granted"
    /\ UNCHANGED <<lifecycle, generation, session, queue, outstanding, ordinal,
                   terminated, entry, op, pending, saved, admitted>>

\* shutdown() closes admission, and marks the client Stopped in the end.
CloseAdmission ==
    /\ op = "idle"
    /\ lifecycle' = CASE lifecycle = "Running" -> "Stopping"
                      [] OTHER -> "Stopped"
    /\ UNCHANGED <<consent, generation, session, queue, outstanding, ordinal,
                   terminated, entry, op, pending, saved, admitted>>

-----------------------------------------------------------------------------
(* The worker, as admission sees it.  None of this takes admission_mutex_. *)

\* EventQueue::pop_wait takes events from the front.
WorkerDrain(n) ==
    /\ queue' = SubSeq(queue, n + 1, Len(queue))
    /\ UNCHANGED <<lifecycle, consent, generation, session, outstanding,
                   ordinal, terminated, entry, op, pending, saved, admitted>>

\* release_outstanding, or the reset that follows a purge.
WorkerRelease(n) ==
    /\ outstanding' = n
    /\ UNCHANGED <<lifecycle, consent, generation, session, queue, ordinal,
                   terminated, entry, op, pending, saved, admitted>>

\* The worker's loop exits by an exception.
WorkerDies ==
    /\ ~terminated
    /\ terminated' = TRUE
    /\ UNCHANGED <<lifecycle, consent, generation, session, queue, outstanding,
                   ordinal, entry, op, pending, saved, admitted>>

Next ==
    \/ \E p \in Producers : TrackEnter(p) \/ TrackAdmit(p) \/ TrackReject(p)
    \/ StartSession
    \/ ReplaceEnd
    \/ ReplaceStart
    \/ EndSession
    \/ Publish
    \/ \E n \in 0..outstanding : RevokeBegin(n)
    \/ Grant
    \/ CloseAdmission
    \/ \E n \in 1..Len(queue) : WorkerDrain(n)
    \/ \E n \in 0..outstanding : WorkerRelease(n)
    \/ WorkerDies

Spec == Init /\ [][Next]_admissionVars

-----------------------------------------------------------------------------
(* Properties *)

IsStart(e) == e.by \in StartOps
IsEnd(e) == e.by \in EndOps

\* Sequence numbers are gap-free across accepted events and session markers
\* bracket their session, whichever producers race with start_session,
\* end_session and a revocation: the events of a session are consecutive in
\* admission order and numbered consecutively from the session_start, and
\* nothing of a session follows its session_end (admit_locked,
\* end_session_locked, SessionManager).
SessionsGapFree ==
    /\ \A i \in DOMAIN admitted :
         /\ IsStart(admitted[i]) <=> admitted[i].seq = 0
         /\ ~IsStart(admitted[i]) =>
              /\ i > 1
              /\ admitted[i - 1].sess = admitted[i].sess
    /\ \A i, j \in DOMAIN admitted :
         i < j /\ admitted[i].sess = admitted[j].sess =>
           /\ admitted[j].seq = admitted[i].seq + (j - i)
           /\ ~IsEnd(admitted[i])

\* Replacing a session is all-or-nothing while the worker lives: a session_end
\* that start_session admitted is followed at once by the session_start of the
\* new session, or start_session is still inside the admission lock.
ReplacementAtomic ==
    \A i \in DOMAIN admitted :
      admitted[i].by = "replaceEnd" =>
        \/ i < Len(admitted) /\ admitted[i + 1].by = "replaceStart"
        \/ i = Len(admitted) /\ op \in {"replaceMid", "replaceStart"}
        \/ terminated

\* A reservation made under the admission lock cannot be invalidated before
\* the push, although the worker changes the queue and the counter without
\* that lock: an event is admitted within the bound of the durable store, and
\* try_push never finds the queue full (reserve_locked, admit_locked).
CapacityReserved ==
    /\ Len(queue) <= QueueCap
    /\ op \in PushOps => Len(queue) < QueueCap /\ outstanding <= MaxPending
    /\ op \in {"replaceEnd", "replaceMid"} => outstanding < MaxPending

\* A queued event was admitted under the current consent generation, by a call
\* that began in it, and consent is still granted: a revocation empties the
\* queue, and a track() that was inside the property filter meanwhile is
\* turned away even if consent is granted again (track, set_consent).
QueueConsented ==
    \A k \in DOMAIN queue :
      LET e == admitted[queue[k]]
      IN  /\ consent = "Granted"
          /\ e.gen = generation
          /\ e.entered = generation

\* Delivery order is decided at admission: the queue holds events in the order
\* they were admitted and their ordinals increase strictly, so sorting by
\* ordinal in the store reproduces that order (admit_locked, fetch_pending).
AdmissionOrder ==
    /\ \A i, j \in DOMAIN admitted :
         i < j => admitted[i].ordinal < admitted[j].ordinal
    /\ \A i, j \in DOMAIN queue : i < j => queue[i] < queue[j]
    /\ \A i \in DOMAIN queue : queue[i] \in DOMAIN admitted

-----------------------------------------------------------------------------
(* The inductive invariant behind the properties *)

\* The event s.id/n is the next one of the session the log ends with.
Continues(id, n) ==
    /\ Len(admitted) > 0
    /\ admitted[Len(admitted)].sess = id
    /\ admitted[Len(admitted)].seq + 1 = n
    /\ ~IsEnd(admitted[Len(admitted)])

\* What the operation inside the lock has established: the event it is about
\* to push is stamped with the current state, and is the next event of the
\* live session or the first of a session that is new to the log.
LockInv ==
    /\ op \in PushOps =>
         /\ pending.by = op
         /\ pending.sess = session.id
         /\ pending.seq + 1 = session.seq
         /\ pending.ordinal = ordinal
         /\ pending.gen = generation
         /\ pending.entered = generation
         /\ session.active
    /\ op # "idle" => lifecycle = "Running" /\ consent = "Granted"
    /\ op \in StartOps =>
         /\ pending.seq = 0
         /\ \A i \in DOMAIN admitted : admitted[i].sess < session.id
    /\ op \in PushOps \ StartOps => Continues(session.id, pending.seq)
    /\ op = "idle" /\ session.active => Continues(session.id, session.seq)
    /\ op \in {"replaceMid", "replaceStart"} =>
         /\ Len(admitted) > 0
         /\ admitted[Len(admitted)].by = "replaceEnd"
    /\ op = "replaceMid" => ordinal < MaxOrdinal
    /\ op = "replaceEnd" => ordinal < MaxOrdinal

\* The room reserved for the second marker, and that a new session is new.
RoomInv ==
    /\ op = "replaceEnd" => Len(queue) + 2 <= QueueCap
    /\ op = "replaceMid" => Len(queue) < QueueCap
    /\ \A i \in DOMAIN admitted : admitted[i].sess <= session.id

\* The queue names accepted events, in the order they were accepted.
QueueInv ==
    /\ \A i, j \in DOMAIN queue : i < j => queue[i] < queue[j]
    /\ \A i \in DOMAIN queue : queue[i] \in DOMAIN admitted

\* The part that a crash does not break either, whatever ordinals the next
\* client starts from.
SessionInv ==
    /\ TypeOK
    /\ LockInv
    /\ RoomInv
    /\ SessionsGapFree
    /\ CapacityReserved
    /\ QueueConsented
    /\ QueueInv

\* No event has an ordinal that is still to be assigned.
OrdinalInv ==
    \A i \in DOMAIN admitted :
      /\ admitted[i].ordinal <= ordinal
      /\ op \in PushOps => admitted[i].ordinal < ordinal

\* The conjunction that every step preserves: the properties above together
\* with what an admission in progress (admit_locked, start_session) relies on.
AdmissionInv ==
    /\ SessionInv
    /\ OrdinalInv
    /\ ReplacementAtomic
    /\ AdmissionOrder
=============================================================================
