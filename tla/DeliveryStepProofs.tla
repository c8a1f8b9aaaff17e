------------------------- MODULE DeliveryStepProofs -------------------------
(***************************************************************************)
(* First the proofs about Admission: AdmissionInv is inductive, and the    *)
(* listed properties are its conjuncts, for every number of producers and  *)
(* every value of the bounds.                                              *)
(*                                                                         *)
(* Then every step of Delivery, which extends Admission, preserves the     *)
(* conjuncts of DeliveryInv; the order and the capacity counter are left   *)
(* to DeliveryProofs, which has the theorems.                              *)
(* For every batch size and capacity, and any number of failures, crashes  *)
(* and restarts.                                                           *)
(***************************************************************************)
EXTENDS Delivery, FiniteSetTheorems, TLAPS

-----------------------------------------------------------------------------
(* Admission: types *)

\* SessionManager::begin, deactivate and a new sequence number yield sessions.
LEMMA SessionOps ==
    ASSUME NEW s \in Session, NEW n \in Nat
    PROVE  Begun(s) \in Session /\ Deactivated(s) \in Session
           /\ WithSeq(s, n) \in Session
<1>1. Begun(s) \in Session /\ Deactivated(s) \in Session
  BY DEF Session, Begun, Deactivated
<1>2. s.active \in BOOLEAN /\ s.id \in Nat
  BY Zenon DEF Session
<1>3. WithSeq(s, n) \in Session
  BY <1>2, Zenon DEF Session, WithSeq
<1> QED
  BY <1>1, <1>3, Zenon

\* The session, reserved event and counters that admit_locked computes up to
\* the push are well typed.
LEMMA ReserveType ==
    ASSUME TypeOK, NEW o \in PushOps, NEW s \in Session, NEW g \in Nat,
           Reserve(o, s, g), entry' \in [Producers -> Nat \cup {NoCall}],
           saved' \in Session
    PROVE  TypeOK'
<1>1. session' \in Session
  <2>1. s.seq + 1 \in Nat
    BY DEF Session
  <2> QED
    BY <2>1, SessionOps, Zenon DEF Reserve
<1>2. pending' \in Event
  BY DEF TypeOK, Reserve, Session, Event
<1>3. ordinal' \in Nat /\ outstanding' \in Nat
  BY DEF TypeOK, Reserve
<1> QED
  BY <1>1, <1>2, <1>3, Zenon DEF TypeOK, Reserve

\* Every step of the admission path keeps the state well typed.
LEMMA TypeStep == TypeOK /\ [Next]_admissionVars => TypeOK'
<1> SUFFICES ASSUME TypeOK, [Next]_admissionVars
             PROVE  TypeOK'
  OBVIOUS
<1>1. ASSUME NEW p \in Producers, TrackEnter(p) PROVE TypeOK'
  BY <1>1, Zenon DEF TypeOK, TrackEnter
<1>2. ASSUME NEW p \in Producers, TrackAdmit(p) PROVE TypeOK'
  <2>1. entry[p] \in Nat
    BY <1>2, Zenon DEF TypeOK, TrackAdmit, NoCall
  <2>2. entry' \in [Producers -> Nat \cup {NoCall}] /\ saved' \in Session
    BY <1>2, Zenon DEF TypeOK, TrackAdmit
  <2> QED
    BY <1>2, <2>1, <2>2, ReserveType, Zenon DEF TrackAdmit, PushOps, TypeOK
<1>3. ASSUME NEW p \in Producers, TrackReject(p) PROVE TypeOK'
  BY <1>3, Zenon DEF TypeOK, TrackReject
<1>4. CASE StartSession
  BY <1>4, ReserveType, SessionOps, Zenon
     DEF TypeOK, StartSession, PushOps, StartOps
<1>5. CASE ReplaceEnd
  BY <1>5, ReserveType, Zenon DEF TypeOK, ReplaceEnd, PushOps, EndOps
<1>6. CASE ReplaceStart
  <2>1. CASE Admissible(Begun(session))
    BY <1>6, <2>1, ReserveType, SessionOps, Zenon
       DEF TypeOK, ReplaceStart, PushOps, StartOps
  <2>2. CASE ~Admissible(Begun(session))
    BY <1>6, <2>2, SessionOps, Zenon DEF TypeOK, ReplaceStart
  <2> QED
    BY <2>1, <2>2, Zenon
<1>7. CASE EndSession
  BY <1>7, ReserveType, Zenon DEF TypeOK, EndSession, PushOps, EndOps
<1>8. CASE Publish
  <2>1. CASE Len(queue) < QueueCap
    <3>1. SessionAfterPush \in Session
      BY SessionOps, Zenon DEF TypeOK, SessionAfterPush
    <3>2. Len(admitted) + 1 \in Nat
      BY DEF TypeOK
    <3>3. queue' = Append(queue, Len(admitted) + 1)
          /\ admitted' = Append(admitted, pending)
      BY <1>8, <2>1, Zenon DEF Publish
    <3>5. queue' \in Seq(Nat)
      BY <3>2, <3>3 DEF TypeOK
    <3>6. admitted' \in Seq(Event)
      BY <3>3 DEF TypeOK
    <3>4. op' \in PushOps \cup {"idle", "replaceMid"} /\ session' \in Session
      BY <1>8, <2>1, <3>1, Zenon DEF Publish
    <3> QED
      BY <1>8, <2>1, <3>4, <3>5, <3>6, Zenon DEF TypeOK, Publish
  <2>2. CASE ~(Len(queue) < QueueCap)
    <3>1. RolledBack(session) \in Session
      BY SessionOps, Zenon DEF TypeOK, RolledBack, Event
    <3>2. SessionAfterFailedPush \in Session
      BY <3>1, SessionOps, Zenon DEF TypeOK, SessionAfterFailedPush
    <3> QED
      BY <1>8, <2>2, <3>2 DEF TypeOK, Publish, Released
  <2> QED
    BY <2>1, <2>2, Zenon
<1>9. ASSUME NEW n \in 0..outstanding, RevokeBegin(n) PROVE TypeOK'
  BY <1>9, SessionOps DEF TypeOK, RevokeBegin, Released
<1>10. CASE Grant
  BY <1>10, Zenon DEF TypeOK, Grant
<1>11. CASE CloseAdmission
  BY <1>11, Zenon DEF TypeOK, CloseAdmission
<1>12. ASSUME NEW n \in 1..Len(queue), WorkerDrain(n) PROVE TypeOK'
  BY <1>12 DEF TypeOK, WorkerDrain
<1>13. ASSUME NEW n \in 0..outstanding, WorkerRelease(n) PROVE TypeOK'
  BY <1>13 DEF TypeOK, WorkerRelease
<1>14. CASE WorkerDies
  BY <1>14, Zenon DEF TypeOK, WorkerDies
<1>15. CASE UNCHANGED admissionVars
  BY <1>15, Zenon DEF TypeOK, admissionVars
<1> QED
  BY <1>1, <1>2, <1>3, <1>4, <1>5, <1>6, <1>7, <1>8, <1>9, <1>10, <1>11,
     <1>12, <1>13, <1>14, <1>15, Zenon DEF Next

-----------------------------------------------------------------------------
(* Admission: the log *)

\* The initial state satisfies the inductive invariant.
LEMMA InitInv == Init => AdmissionInv
<1> SUFFICES ASSUME Init PROVE AdmissionInv
  OBVIOUS
<1>1. TypeOK
  <2>1. NoSession \in Session
    BY Zenon DEF NoSession, Session
  <2>2. NoEvent \in Event
    BY Zenon DEF NoEvent, Event, PushOps
  <2>3. outstanding \in Nat /\ ordinal \in Nat
    BY AdmissionAssumption DEF Init
  <2>4. queue \in Seq(Nat) /\ admitted \in Seq(Event)
    BY DEF Init
  <2>5. entry \in [Producers -> Nat \cup {NoCall}]
    BY Zenon DEF Init
  <2> QED
    BY <2>1, <2>2, <2>3, <2>4, <2>5, ZenonT(30) DEF Init, TypeOK
<1> QED
  BY <1>1, AdmissionAssumption
     DEF Init, AdmissionInv, SessionInv, LockInv, RoomInv, SessionsGapFree,
         CapacityReserved, QueueConsented, QueueInv, OrdinalInv,
         ReplacementAtomic, AdmissionOrder, NoSession, PushOps, StartOps, EndOps

\* The entries of the log, field by field.
LEMMA LogEntries ==
    ASSUME TypeOK
    PROVE  /\ DOMAIN admitted = 1..Len(admitted)
           /\ Len(admitted) \in Nat
           /\ \A i \in DOMAIN admitted :
                /\ admitted[i] \in Event
                /\ admitted[i].sess \in Nat
                /\ admitted[i].seq \in Nat
                /\ admitted[i].ordinal \in Nat
<1>1. DOMAIN admitted = 1..Len(admitted) /\ Len(admitted) \in Nat
  BY DEF TypeOK
<1>2. \A i \in DOMAIN admitted : admitted[i] \in Event
  BY DEF TypeOK
<1> QED
  BY <1>1, <1>2, Zenon DEF Event

\* The steps of admit_locked up to the push, taken with the lock free or
\* between the two markers of a replacement.
LEMMA ReserveSession ==
    ASSUME SessionInv, TypeOK',
           NEW o \in PushOps, NEW s \in Session,
           op \in {"idle", "replaceMid"},
           op = "replaceMid" <=> o = "replaceStart",
           o \in StartOps => s = Begun(session),
           o \notin StartOps => s = session,
           o = "replaceEnd" => HasRoomFor(2) /\ ordinal + 2 <= MaxOrdinal,
           Admissible(s), Reserve(o, s, generation)
    PROVE  SessionInv'
<1> USE DEF SessionInv
<1>a. session.id \in Nat /\ session.seq \in Nat /\ Len(queue) \in Nat
  BY DEF TypeOK, Session
<1>b. \A i \in DOMAIN admitted : admitted[i].sess <= session.id
  BY Zenon DEF RoomInv
<1>1. LockInv'
  <2>1. op' = o /\ session' = WithSeq(s, s.seq + 1) /\ admitted' = admitted
    BY Zenon DEF Reserve
  <2>2. /\ pending'.by = o
        /\ pending'.sess = s.id
        /\ pending'.seq = s.seq
        /\ pending'.ordinal = ordinal'
        /\ pending'.gen = generation'
        /\ pending'.entered = generation'
    BY Zenon DEF Reserve
  <2>3. session'.id = s.id /\ session'.seq = s.seq + 1 /\ session'.active
    BY <2>1, Zenon DEF WithSeq, Admissible
  <2>4. lifecycle' = "Running" /\ consent' = "Granted"
    BY Zenon DEF Reserve, Admissible
  <2>5. o \in StartOps => s.seq = 0 /\ s.id = session.id + 1
    BY DEF Begun
  <2>6. o \in StartOps => \A i \in DOMAIN admitted' : admitted'[i].sess < s.id
    BY <1>a, <1>b, <2>1, <2>5, LogEntries
  <2>7. o \notin StartOps => Continues(s.id, s.seq)
    BY Zenon DEF LockInv, Admissible, PushOps, StartOps
  <2>8. o \notin StartOps => Continues(session.id, pending.seq)'
    BY <2>1, <2>2, <2>3, <2>7, Zenon DEF Continues
  <2>9. o = "replaceStart" =>
          Len(admitted') > 0 /\ admitted'[Len(admitted')].by = "replaceEnd"
    BY <2>1, Zenon DEF LockInv
  <2>10. o = "replaceEnd" => ordinal' < MaxOrdinal
    BY AdmissionAssumption DEF Reserve, TypeOK
  <2> QED
    BY <2>1, <2>2, <2>3, <2>4, <2>5, <2>6, <2>8, <2>9, <2>10, Zenon
       DEF LockInv, PushOps, StartOps, EndOps
<1>2. RoomInv'
  <2>1. \A i \in DOMAIN admitted : admitted[i].sess <= session'.id
    <3>1. session'.id \in Nat /\ session'.id >= session.id
      BY <1>a DEF Reserve, WithSeq, Begun
    <3> QED
      BY <1>a, <1>b, <3>1, LogEntries
  <2>4. o = "replaceEnd" => Len(queue) + 2 <= QueueCap
    BY <1>a, AdmissionAssumption DEF HasRoomFor
  <2>5. op' = o /\ queue' = queue /\ admitted' = admitted /\ o # "replaceMid"
    BY Zenon DEF Reserve, PushOps, StartOps, EndOps
  <2> QED
    BY <2>1, <2>4, <2>5, Zenon DEF RoomInv
<1>3. SessionsGapFree'
  BY Zenon DEF SessionsGapFree, Reserve, IsStart, IsEnd
<1>5. CapacityReserved'
  BY AdmissionAssumption
     DEF CapacityReserved, Reserve, Admissible, HasRoomFor, TypeOK, PushOps,
         StartOps, EndOps
<1>6. QueueConsented'
  BY Zenon DEF QueueConsented, Reserve
<1>7. QueueInv'
  BY Zenon DEF QueueInv, Reserve
<1> QED
  BY <1>1, <1>2, <1>3, <1>5, <1>6, <1>7, Zenon

\* They assign an ordinal above all others, and close a replacement's gap.
LEMMA ReserveInv ==
    ASSUME AdmissionInv, SessionInv',
           NEW o \in PushOps, NEW s \in Session,
           op \in {"idle", "replaceMid"},
           op = "replaceMid" <=> o = "replaceStart",
           o \in StartOps => s = Begun(session),
           o \notin StartOps => s = session,
           o = "replaceEnd" => HasRoomFor(2) /\ ordinal + 2 <= MaxOrdinal,
           Admissible(s), Reserve(o, s, generation)
    PROVE  AdmissionInv'
<1> USE DEF AdmissionInv
<1>1. \A i \in DOMAIN admitted : admitted[i].ordinal <= ordinal
  BY Zenon DEF OrdinalInv
<1>2. OrdinalInv'
  <2>1. \A i \in DOMAIN admitted :
          admitted[i].ordinal <= ordinal' /\ admitted[i].ordinal < ordinal'
    BY <1>1, LogEntries DEF SessionInv, Reserve, TypeOK
  <2>2. admitted' = admitted
    BY Zenon DEF Reserve
  <2> QED
    BY <2>1, <2>2, Zenon DEF OrdinalInv
<1>3. ReplacementAtomic'
  BY Zenon DEF SessionInv, ReplacementAtomic, Reserve, LockInv, Admissible
<1>4. AdmissionOrder'
  BY Zenon DEF AdmissionOrder, Reserve
<1> QED
  BY <1>2, <1>3, <1>4, Zenon

\* A push always finds room, so it appends `pending' to the log.
LEMMA PublishPushes ==
    ASSUME SessionInv, Publish
    PROVE  /\ op \in PushOps
           /\ queue' = Append(queue, Len(admitted) + 1)
           /\ admitted' = Append(admitted, pending)
           /\ session' = SessionAfterPush
           /\ op' = IF op = "replaceEnd" THEN "replaceMid" ELSE "idle"
           /\ UNCHANGED <<outstanding, lifecycle, consent, generation, ordinal,
                          terminated, entry, pending, saved>>
  BY Zenon DEF SessionInv, CapacityReserved, Publish

\* The log after a push.
LEMMA LogGrows ==
    ASSUME SessionInv, Publish
    PROVE  /\ Len(admitted) \in Nat /\ DOMAIN admitted = 1..Len(admitted)
           /\ Len(admitted') = Len(admitted) + 1
           /\ DOMAIN admitted' = 1..(Len(admitted) + 1)
           /\ admitted'[Len(admitted) + 1] = pending
           /\ \A i \in 1..Len(admitted) : admitted'[i] = admitted[i]
<1>1. admitted \in Seq(Event) /\ pending \in Event
  BY Zenon DEF SessionInv, TypeOK
<1>2. admitted' = Append(admitted, pending)
  BY PublishPushes, Zenon
<1> HIDE DEF Event
<1> QED
  BY <1>1, <1>2, SMTT(30)

\* try_push and what track, start_session and end_session do after it.
LEMMA PublishSession ==
    ASSUME SessionInv, TypeOK', Publish
    PROVE  SessionInv'
<1> DEFINE L == Len(admitted)
<1> USE DEF SessionInv
<1>a. /\ L \in Nat /\ DOMAIN admitted = 1..L
      /\ Len(admitted') = L + 1 /\ DOMAIN admitted' = 1..(L + 1)
      /\ admitted'[L + 1] = pending
      /\ \A i \in 1..L : admitted'[i] = admitted[i]
  BY LogGrows, Zenon
<1>b. /\ pending.sess \in Nat /\ pending.seq \in Nat /\ pending.ordinal \in Nat
      /\ session.id \in Nat /\ session.seq \in Nat /\ ordinal \in Nat
  BY Zenon DEF TypeOK, Event, Session
<1>c. /\ pending.by = op /\ pending.sess = session.id
      /\ pending.seq + 1 = session.seq /\ pending.ordinal = ordinal
      /\ pending.gen = generation /\ pending.entered = generation
      /\ session.active
      /\ lifecycle = "Running" /\ consent = "Granted"
  BY PublishPushes, Zenon DEF LockInv, PushOps, StartOps, EndOps
<1>d. /\ session'.id = session.id /\ session'.seq = session.seq
      /\ session'.active => op \notin EndOps
  BY PublishPushes DEF SessionAfterPush, Deactivated
<1>e. /\ Len(queue) \in Nat /\ DOMAIN queue = 1..Len(queue)
      /\ Len(queue') = Len(queue) + 1 /\ DOMAIN queue' = 1..(Len(queue) + 1)
      /\ queue'[Len(queue) + 1] = L + 1
      /\ \A i \in 1..Len(queue) : queue'[i] = queue[i] /\ queue[i] \in 1..L
  <2>1. Len(queue) \in Nat /\ DOMAIN queue = 1..Len(queue)
    BY DEF TypeOK
  <2>2. \A i \in 1..Len(queue) : queue[i] \in 1..L
    BY <1>a, <2>1, Zenon DEF QueueInv
  <2>3. queue \in Seq(Nat) /\ L + 1 \in Nat
    BY <1>a DEF TypeOK
  <2>4. queue' = Append(queue, L + 1)
    BY PublishPushes, Zenon
  <2>5. /\ Len(queue') = Len(queue) + 1 /\ DOMAIN queue' = 1..(Len(queue) + 1)
        /\ queue'[Len(queue) + 1] = L + 1
        /\ \A i \in 1..Len(queue) : queue'[i] = queue[i]
    BY <2>3, <2>4
  <2> QED
    BY <2>1, <2>2, <2>5, Zenon
<1>1. LockInv'
  <2>1. op' = "idle" /\ session'.active => Continues(session.id, session.seq)'
    <3> SUFFICES ASSUME op' = "idle", session'.active
                 PROVE  Continues(session.id, session.seq)'
      OBVIOUS
    <3>1. ~IsEnd(pending)
      BY <1>c, <1>d, Zenon DEF IsEnd
    <3>2. /\ Len(admitted') > 0
          /\ admitted'[Len(admitted')].sess = session'.id
          /\ admitted'[Len(admitted')].seq + 1 = session'.seq
          /\ admitted'[Len(admitted')] = pending
      BY <1>a, <1>c, <1>d
    <3> QED
      BY <3>1, <3>2, Zenon DEF Continues, IsEnd
  <2>2. op' = "replaceMid" =>
          /\ Len(admitted') > 0
          /\ admitted'[Len(admitted')].by = "replaceEnd"
    BY <1>a, <1>c, PublishPushes
  <2>3. op' = "replaceMid" => ordinal' < MaxOrdinal
    BY PublishPushes, Zenon DEF LockInv
  <2>4. op' \in {"idle", "replaceMid"} /\ lifecycle' = "Running"
        /\ consent' = "Granted"
    BY <1>c, PublishPushes, Zenon
  <2> QED
    BY <2>1, <2>2, <2>3, <2>4, Zenon DEF LockInv, PushOps, StartOps, EndOps
<1>2. RoomInv'
  <2>1. \A i \in DOMAIN admitted' :
          admitted'[i].sess <= session'.id
    BY <1>a, <1>b, <1>c, <1>d, PublishPushes DEF RoomInv
  <2>2. op' = "replaceMid" => Len(queue') < QueueCap
    BY <1>e, AdmissionAssumption, PublishPushes DEF RoomInv
  <2>3. op' \notin PushOps /\ op' # "replaceEnd"
    BY PublishPushes, Zenon DEF PushOps, StartOps, EndOps
  <2> QED
    BY <2>1, <2>2, <2>3, Zenon DEF RoomInv
<1>3. SessionsGapFree'
  <2>1. ASSUME NEW i \in DOMAIN admitted'
        PROVE  /\ IsStart(admitted'[i]) <=> admitted'[i].seq = 0
               /\ ~IsStart(admitted'[i]) =>
                    i > 1 /\ admitted'[i - 1].sess = admitted'[i].sess
    <3>1. CASE i \in 1..L
      BY <1>a, <3>1 DEF SessionsGapFree, IsStart
    <3>2. CASE i = L + 1 /\ op \in StartOps
      BY <1>a, <1>c, <3>2, Zenon DEF LockInv, IsStart
    <3>3. CASE i = L + 1 /\ op \notin StartOps
      <4>1. Continues(session.id, pending.seq)
        BY <3>3, PublishPushes, Zenon DEF LockInv
      <4>2. /\ L \in 1..L /\ admitted[L].sess = session.id
            /\ admitted[L].seq \in Nat /\ admitted[L].seq + 1 = pending.seq
        BY <1>a, <4>1, LogEntries DEF Continues
      <4> QED
        BY <1>a, <1>b, <1>c, <3>3, <4>2 DEF IsStart
    <3> QED
      BY <1>a, <3>1, <3>2, <3>3
  <2>2. ASSUME NEW i \in DOMAIN admitted', NEW j \in DOMAIN admitted',
               i < j, admitted'[i].sess = admitted'[j].sess
        PROVE  /\ admitted'[j].seq = admitted'[i].seq + (j - i)
               /\ ~IsEnd(admitted'[i])
    <3>1. CASE j \in 1..L
      BY <1>a, <2>2, <3>1 DEF SessionsGapFree, IsEnd
    <3>2. CASE j = L + 1
      <4>1. i \in 1..L /\ admitted[i].sess = session.id
        BY <1>a, <1>c, <2>2, <3>2
      <4>2. op \notin StartOps
        BY <1>a, <1>b, <4>1, LogEntries DEF LockInv
      <4>3. Continues(session.id, pending.seq)
        BY <4>2, PublishPushes, Zenon DEF LockInv
      <4>4. /\ L \in 1..L /\ admitted[L].sess = session.id
            /\ admitted[L].seq + 1 = pending.seq /\ ~IsEnd(admitted[L])
        BY <1>a, <4>3 DEF Continues
      <4>5. CASE i = L
        BY <1>a, <1>b, <3>2, <4>4, <4>5, LogEntries
      <4>6. CASE i # L
        <5>1. admitted[L].seq = admitted[i].seq + (L - i) /\ ~IsEnd(admitted[i])
          BY <1>a, <4>1, <4>4, <4>6 DEF SessionsGapFree
        <5>2. admitted[L].seq \in Nat /\ admitted[i].seq \in Nat
          BY <1>a, <4>1, <4>4, LogEntries, Zenon
        <5>3. pending.seq = admitted[i].seq + ((L + 1) - i)
          BY <1>a, <1>b, <4>1, <4>4, <5>1, <5>2
        <5>4. admitted'[j] = pending /\ admitted'[i] = admitted[i]
          BY <1>a, <3>2, <4>1, Zenon
        <5> QED
          BY <3>2, <5>1, <5>3, <5>4, Zenon
      <4> QED
        BY <4>5, <4>6, Zenon
    <3> QED
      BY <1>a, <3>1, <3>2
  <2> QED
    BY <2>1, <2>2, Zenon DEF SessionsGapFree, IsStart, IsEnd
<1>5. CapacityReserved'
  <2>1. op' \notin PushOps /\ op' # "replaceEnd"
    BY PublishPushes, Zenon DEF PushOps, StartOps, EndOps
  <2>2. Len(queue') <= QueueCap
    BY <1>e, AdmissionAssumption, PublishPushes DEF CapacityReserved
  <2>3. op' = "replaceMid" => outstanding' < MaxPending
    BY PublishPushes, Zenon DEF CapacityReserved
  <2> QED
    BY <2>1, <2>2, <2>3, Zenon DEF CapacityReserved
<1>6. QueueConsented'
  <2> SUFFICES ASSUME NEW k \in DOMAIN queue'
               PROVE  /\ consent' = "Granted"
                      /\ admitted'[queue'[k]].gen = generation'
                      /\ admitted'[queue'[k]].entered = generation'
    BY Zenon DEF QueueConsented
  <2>1. CASE k \in 1..Len(queue)
    BY <1>a, <1>e, <2>1, PublishPushes DEF QueueConsented
  <2>2. CASE k = Len(queue) + 1
    BY <1>a, <1>c, <1>e, <2>2, PublishPushes, Zenon
  <2> QED
    BY <1>e, <2>1, <2>2
<1>7. QueueInv'
  <2>2. \A i, j \in DOMAIN queue' : i < j => queue'[i] < queue'[j]
    <3> SUFFICES ASSUME NEW i \in DOMAIN queue', NEW j \in DOMAIN queue', i < j
                 PROVE  queue'[i] < queue'[j]
      OBVIOUS
    <3>1. CASE j \in 1..Len(queue)
      BY <1>e, <3>1 DEF QueueInv
    <3>2. CASE j = Len(queue) + 1
      BY <1>a, <1>e, <3>2
    <3> QED
      BY <1>e, <3>1, <3>2
  <2>3. \A i \in DOMAIN queue' : queue'[i] \in DOMAIN admitted'
    BY <1>a, <1>e
  <2> QED
    BY <2>2, <2>3, Zenon DEF QueueInv
<1> QED
  BY <1>1, <1>2, <1>3, <1>5, <1>6, <1>7, Zenon

\* The event pushed is the log's last: it has the highest ordinal, and a session
\* start after the session_end it replaces.
LEMMA PublishInv ==
    ASSUME AdmissionInv, SessionInv', Publish
    PROVE  AdmissionInv'
<1> DEFINE L == Len(admitted)
<1> USE DEF AdmissionInv
<1>a. /\ L \in Nat /\ DOMAIN admitted = 1..L
      /\ Len(admitted') = L + 1 /\ DOMAIN admitted' = 1..(L + 1)
      /\ admitted'[L + 1] = pending
      /\ \A i \in 1..L : admitted'[i] = admitted[i]
  BY LogGrows, Zenon
<1>b. pending.ordinal \in Nat /\ ordinal \in Nat
  BY Zenon DEF SessionInv, TypeOK, Event
<1>c. /\ pending.by = op /\ pending.ordinal = ordinal /\ op \in PushOps
      /\ op' \notin PushOps /\ ordinal' = ordinal
  BY PublishPushes, Zenon DEF SessionInv, LockInv, PushOps, StartOps, EndOps
<1>1. OrdinalInv'
  BY <1>a, <1>b, <1>c DEF OrdinalInv
<1>2. ReplacementAtomic'
  <2> SUFFICES ASSUME NEW i \in DOMAIN admitted',
                      admitted'[i].by = "replaceEnd", ~terminated'
               PROVE  \/ i < Len(admitted') /\ admitted'[i + 1].by = "replaceStart"
                      \/ i = Len(admitted') /\ op' \in {"replaceMid", "replaceStart"}
    BY Zenon DEF ReplacementAtomic
  <2>1. ~terminated
    BY PublishPushes, Zenon
  <2>2. CASE i = L + 1
    BY <1>a, <1>c, <2>2, PublishPushes, Zenon
  <2>3. CASE i = L
    <3>1. admitted[i].by = "replaceEnd" /\ i \in DOMAIN admitted
      BY <1>a, <2>3
    <3>2. op = "replaceStart"
      BY <1>a, <2>1, <2>3, <3>1, PublishPushes
         DEF ReplacementAtomic, PushOps, StartOps, EndOps
    <3>3. i < Len(admitted') /\ i + 1 = L + 1
      BY <1>a, <2>3
    <3>4. admitted'[i + 1].by = "replaceStart"
      BY <1>a, <1>c, <3>2, <3>3, Zenon
    <3> QED
      BY <3>3, <3>4, Zenon
  <2>4. CASE i \in 1..(L - 1)
    <3>1. admitted[i].by = "replaceEnd" /\ i \in DOMAIN admitted /\ i # L
      BY <1>a, <2>4
    <3>2. admitted[i + 1].by = "replaceStart"
      BY <2>1, <3>1, Zenon DEF ReplacementAtomic
    <3> QED
      BY <1>a, <2>4, <3>2
  <2> QED
    BY <1>a, <2>2, <2>3, <2>4
<1>3. AdmissionOrder'
  <2>1. \A i, j \in DOMAIN admitted' :
          i < j => admitted'[i].ordinal < admitted'[j].ordinal
    <3> SUFFICES ASSUME NEW i \in DOMAIN admitted', NEW j \in DOMAIN admitted',
                        i < j
                 PROVE  admitted'[i].ordinal < admitted'[j].ordinal
      OBVIOUS
    <3>1. CASE j \in 1..L
      BY <1>a, <3>1 DEF AdmissionOrder
    <3>2. CASE j = L + 1
      BY <1>a, <1>c, <3>2, PublishPushes DEF OrdinalInv
    <3> QED
      BY <1>a, <3>1, <3>2
  <2> QED
    BY <2>1, Zenon DEF AdmissionOrder, SessionInv, QueueInv
<1> QED
  BY <1>1, <1>2, <1>3, Zenon

-----------------------------------------------------------------------------
(* Admission: the steps that do not touch the log *)

\* What they have to keep of it: no replacement is given up by a live worker.
LEMMA LogKept ==
    ASSUME AdmissionInv, SessionInv', admitted' = admitted, ordinal' = ordinal,
           op' \in PushOps => op \in PushOps, terminated => terminated',
           op \in {"replaceMid", "replaceStart"} => op' = op \/ terminated'
    PROVE  AdmissionInv'
<1> USE DEF AdmissionInv
<1>1. OrdinalInv'
  BY Zenon DEF OrdinalInv
<1>2. ReplacementAtomic'
  BY Zenon DEF ReplacementAtomic
<1>3. AdmissionOrder'
  BY Zenon DEF AdmissionOrder, SessionInv, QueueInv
<1> QED
  BY <1>1, <1>2, <1>3, Zenon

\* A revocation clears the queue, so nothing of the old generation is left in
\* it, and the session, so nothing is owed to the log.
LEMMA RevokeSession ==
    ASSUME SessionInv, TypeOK', NEW n \in 0..outstanding, RevokeBegin(n)
    PROVE  SessionInv'
<1> USE DEF SessionInv
<1>1. /\ op = "idle" /\ op' = "idle" /\ admitted' = admitted /\ queue' = <<>>
      /\ session'.id = session.id /\ session'.active = FALSE
  BY Zenon DEF RevokeBegin, Deactivated
<1>2. op' \notin PushOps
  BY <1>1, Zenon DEF PushOps, StartOps, EndOps
<1>3. LockInv' /\ RoomInv'
  BY <1>1, <1>2, Zenon DEF LockInv, RoomInv, StartOps, EndOps
<1>4. SessionsGapFree'
  BY <1>1, ZenonT(30) DEF SessionsGapFree, IsStart, IsEnd
<1>5. CapacityReserved' /\ QueueConsented' /\ QueueInv'
  BY <1>1, <1>2, AdmissionAssumption
     DEF CapacityReserved, QueueConsented, QueueInv
<1> QED
  BY <1>3, <1>4, <1>5, Zenon

\* Taking events from the front of the queue keeps the rest in order.
LEMMA DrainSession ==
    ASSUME SessionInv, TypeOK', NEW n \in 1..Len(queue), WorkerDrain(n)
    PROVE  SessionInv'
<1> USE DEF SessionInv
<1>1. /\ Len(queue) \in Nat /\ DOMAIN queue = 1..Len(queue)
      /\ Len(queue') = Len(queue) - n /\ DOMAIN queue' = 1..(Len(queue) - n)
      /\ \A k \in DOMAIN queue' : k + n \in DOMAIN queue /\ queue'[k] = queue[k + n]
  <2>1. queue \in Seq(Nat) /\ queue' = SubSeq(queue, n + 1, Len(queue))
    BY Zenon DEF TypeOK, WorkerDrain
  <2> QED
    BY <2>1, SMTT(30)
<1>2. UNCHANGED <<lifecycle, consent, generation, session, outstanding, ordinal,
                  terminated, entry, op, pending, saved, admitted>>
  BY Zenon DEF WorkerDrain
<1>3. LockInv'
  BY <1>2, Zenon DEF LockInv, Continues
<1>4. SessionsGapFree'
  BY <1>2, Zenon DEF SessionsGapFree, IsStart, IsEnd
<1>5. RoomInv'
  BY <1>1, <1>2, AdmissionAssumption, SMTT(30) DEF RoomInv
<1>6. CapacityReserved'
  BY <1>1, <1>2, AdmissionAssumption, SMTT(30) DEF CapacityReserved
<1>7. QueueConsented'
  BY <1>1, <1>2, ZenonT(30) DEF QueueConsented
<1>8. QueueInv'
  BY <1>1, <1>2, SMTT(30) DEF QueueInv
<1> QED
  BY <1>3, <1>4, <1>5, <1>6, <1>7, <1>8, Zenon

\* Giving capacity back, and the death of the worker, only make room.
LEMMA WorkerSession ==
    ASSUME SessionInv, TypeOK',
           (\E n \in 0..outstanding : WorkerRelease(n)) \/ WorkerDies
    PROVE  SessionInv'
<1> USE DEF SessionInv
<1>1. /\ UNCHANGED <<lifecycle, consent, generation, session, queue, ordinal,
                     entry, op, pending, saved, admitted>>
      /\ outstanding' <= outstanding
  BY DEF WorkerRelease, WorkerDies, TypeOK
<1>2. LockInv' /\ RoomInv'
  BY <1>1, Zenon DEF LockInv, RoomInv, Continues
<1>3. SessionsGapFree' /\ QueueConsented' /\ QueueInv'
  BY <1>1, Zenon DEF SessionsGapFree, QueueConsented, QueueInv, IsStart, IsEnd
<1>4. CapacityReserved'
  BY <1>1, AdmissionAssumption DEF CapacityReserved, TypeOK
<1> QED
  BY <1>2, <1>3, <1>4, Zenon

\* Entering or being turned away from track(), and the steps of shutdown and
\* of set_consent(Granted), leave sessions, queue and log alone.
Quiet ==
    \/ \E p \in Producers : TrackEnter(p) \/ TrackReject(p)
    \/ Grant \/ CloseAdmission \/ UNCHANGED admissionVars

\* What those steps change at most.
LEMMA QuietSteps ==
    ASSUME Quiet
    PROVE  /\ UNCHANGED <<generation, session, queue, outstanding, ordinal,
                          terminated, op, pending, saved, admitted>>
           /\ consent = "Granted" => consent' = "Granted"
           /\ op # "idle" => lifecycle' = lifecycle
  BY Zenon DEF Quiet, TrackEnter, TrackReject, Grant, CloseAdmission, admissionVars

\* So they disturb nothing.
LEMMA QuietSession ==
    ASSUME SessionInv, TypeOK', Quiet
    PROVE  SessionInv'
<1> USE DEF SessionInv
<1>1. LockInv'
  BY QuietSteps, Zenon DEF LockInv, Continues
<1>2. RoomInv' /\ SessionsGapFree'
  BY QuietSteps, Zenon DEF RoomInv, SessionsGapFree, IsStart, IsEnd
<1>3. CapacityReserved' /\ QueueConsented' /\ QueueInv'
  BY QuietSteps, ZenonT(30) DEF CapacityReserved, QueueConsented, QueueInv
<1> QED
  BY <1>1, <1>2, <1>3, Zenon

\* start_session gives the replacement up after its first marker.
GivenUp == ReplaceStart /\ ~Admissible(Begun(session))

\* It does so only if the worker died, since the room was reserved.
LEMMA GivenUpSteps ==
    ASSUME SessionInv, GivenUp
    PROVE  /\ terminated /\ terminated' = terminated
           /\ op = "replaceMid" /\ op' = "idle" /\ admitted' = admitted
           /\ session'.id = session.id + 1 /\ session'.active = FALSE
           /\ UNCHANGED <<lifecycle, consent, generation, queue, outstanding,
                          ordinal, pending>>
<1>1. terminated
  BY Zenon DEF SessionInv, GivenUp, ReplaceStart, Admissible, Begun, LockInv, RoomInv,
         CapacityReserved
<1> QED
  BY <1>1 DEF GivenUp, ReplaceStart, Deactivated, Begun

\* The log ends with the old session, and no session is live.
LEMMA GivenUpSession ==
    ASSUME SessionInv, TypeOK', GivenUp
    PROVE  SessionInv'
<1> USE DEF SessionInv
<1>1. op' \notin PushOps
  BY GivenUpSteps, Zenon DEF PushOps, StartOps, EndOps
<1>2. LockInv'
  <2>1. op' = "idle" /\ session'.active = FALSE
    BY GivenUpSteps, Zenon
  <2> QED
    BY <1>1, <2>1, Zenon DEF LockInv, StartOps, EndOps
<1>3. RoomInv'
  <2>1. session.id \in Nat
    BY Zenon DEF TypeOK, Session
  <2>2. \A i \in DOMAIN admitted : admitted[i].sess <= session.id + 1
    BY <2>1, LogEntries DEF RoomInv
  <2> QED
    BY <1>1, <2>2, GivenUpSteps, Zenon DEF RoomInv
<1>4. SessionsGapFree'
  BY GivenUpSteps, Zenon DEF SessionsGapFree, IsStart, IsEnd
<1>5. CapacityReserved' /\ QueueConsented' /\ QueueInv'
  BY <1>1, GivenUpSteps, Zenon DEF CapacityReserved, QueueConsented, QueueInv
<1> QED
  BY <1>2, <1>3, <1>4, <1>5, Zenon

-----------------------------------------------------------------------------
(* Admission: the invariant, and what follows from it *)

\* Every step of the admission path preserves the part that survives a crash,
\* from any state that has it.
LEMMA SessionStep == SessionInv /\ [Next]_admissionVars => SessionInv'
<1> SUFFICES ASSUME SessionInv, [Next]_admissionVars
             PROVE  SessionInv'
  OBVIOUS
<1>t. TypeOK /\ TypeOK'
  BY TypeStep, Zenon DEF SessionInv
<1>s. session \in Session /\ Begun(session) \in Session /\ generation \in Nat
  BY <1>t, SessionOps, Zenon DEF TypeOK
<1>1. ASSUME NEW p \in Producers, TrackAdmit(p) PROVE SessionInv'
  BY <1>1, <1>s, <1>t, ReserveSession, Zenon
     DEF TrackAdmit, SameGeneration, PushOps, StartOps, EndOps
<1>2. CASE StartSession
  BY <1>2, <1>s, <1>t, ReserveSession, Zenon DEF StartSession, PushOps, StartOps, EndOps
<1>3. CASE ReplaceEnd
  BY <1>3, <1>s, <1>t, ReserveSession, Zenon DEF ReplaceEnd, PushOps, StartOps, EndOps
<1>4. CASE ReplaceStart /\ Admissible(Begun(session))
  BY <1>4, <1>s, <1>t, ReserveSession, Zenon DEF ReplaceStart, PushOps, StartOps, EndOps
<1>5. CASE GivenUp
  BY <1>5, <1>t, GivenUpSession, Zenon
<1>6. CASE EndSession
  BY <1>6, <1>s, <1>t, ReserveSession, Zenon DEF EndSession, PushOps, StartOps, EndOps
<1>7. CASE Publish
  BY <1>7, <1>t, PublishSession, Zenon
<1>8. ASSUME NEW n \in 0..outstanding, RevokeBegin(n) PROVE SessionInv'
  BY <1>8, <1>t, RevokeSession, Zenon
<1>9. ASSUME NEW n \in 1..Len(queue), WorkerDrain(n) PROVE SessionInv'
  BY <1>9, <1>t, DrainSession, Zenon
<1>10. CASE (\E n \in 0..outstanding : WorkerRelease(n)) \/ WorkerDies
  BY <1>10, <1>t, WorkerSession, ZenonT(30)
<1>11. CASE Quiet
  BY <1>11, <1>t, QuietSession, Zenon
<1> QED
  BY <1>1, <1>2, <1>3, <1>4, <1>5, <1>6, <1>7, <1>8, <1>9, <1>10, <1>11, ZenonT(30)
     DEF Next, GivenUp, Quiet

\* Every step of the admission path preserves the inductive invariant.
LEMMA StepInv == AdmissionInv /\ [Next]_admissionVars => AdmissionInv'
<1> SUFFICES ASSUME AdmissionInv, [Next]_admissionVars
             PROVE  AdmissionInv'
  OBVIOUS
<1>i. SessionInv /\ SessionInv'
  BY SessionStep, Zenon DEF AdmissionInv
<1>s. session \in Session /\ Begun(session) \in Session /\ generation \in Nat
  BY <1>i, SessionOps, Zenon DEF SessionInv, TypeOK
<1>1. ASSUME NEW p \in Producers, TrackAdmit(p) PROVE AdmissionInv'
  BY <1>1, <1>i, <1>s, ReserveInv, Zenon
     DEF TrackAdmit, SameGeneration, PushOps, StartOps, EndOps
<1>2. CASE StartSession
  BY <1>2, <1>i, <1>s, ReserveInv, Zenon DEF StartSession, PushOps, StartOps, EndOps
<1>3. CASE ReplaceEnd
  BY <1>3, <1>i, <1>s, ReserveInv, Zenon DEF ReplaceEnd, PushOps, StartOps, EndOps
<1>4. CASE ReplaceStart /\ Admissible(Begun(session))
  BY <1>4, <1>i, <1>s, ReserveInv, Zenon DEF ReplaceStart, PushOps, StartOps, EndOps
<1>5. CASE GivenUp
  BY <1>5, <1>i, GivenUpSteps, LogKept DEF PushOps, StartOps, EndOps
<1>6. CASE EndSession
  BY <1>6, <1>i, <1>s, ReserveInv, Zenon DEF EndSession, PushOps, StartOps, EndOps
<1>7. CASE Publish
  BY <1>7, <1>i, PublishInv, Zenon
<1>8. ASSUME NEW n \in 0..outstanding, RevokeBegin(n) PROVE AdmissionInv'
  BY <1>8, <1>i, LogKept, Zenon DEF RevokeBegin
<1>9. ASSUME NEW n \in 1..Len(queue), WorkerDrain(n) PROVE AdmissionInv'
  BY <1>9, <1>i, LogKept, Zenon DEF WorkerDrain
<1>10. CASE (\E n \in 0..outstanding : WorkerRelease(n)) \/ WorkerDies
  BY <1>10, <1>i, LogKept DEF WorkerRelease, WorkerDies
<1>11. CASE Quiet
  BY <1>11, <1>i, QuietSteps, LogKept
<1> QED
  BY <1>1, <1>2, <1>3, <1>4, <1>5, <1>6, <1>7, <1>8, <1>9, <1>10, <1>11, Zenon
     DEF Next, GivenUp, Quiet

\* The inductive invariant holds in every reachable state of the admission
\* path, for any number of producers and any capacities.
THEOREM InvCorrect == Spec => []AdmissionInv
  BY InitInv, StepInv, PTL DEF Spec

\* The state of the admission path is always well typed.
THEOREM TypeCorrect == Spec => []TypeOK
<1>1. AdmissionInv => TypeOK
  BY Zenon DEF AdmissionInv, SessionInv
<1> QED
  BY <1>1, InvCorrect, PTL

\* Sequence numbers are gap-free and session markers bracket their session in
\* every interleaving of producers, session calls, revocations and the worker.
THEOREM GapFreeCorrect == Spec => []SessionsGapFree
<1>1. AdmissionInv => SessionsGapFree
  BY Zenon DEF AdmissionInv, SessionInv
<1> QED
  BY <1>1, InvCorrect, PTL

\* start_session replaces a session all-or-nothing unless the worker dies.
THEOREM ReplacementCorrect == Spec => []ReplacementAtomic
<1>1. AdmissionInv => ReplacementAtomic
  BY Zenon DEF AdmissionInv
<1> QED
  BY <1>1, InvCorrect, PTL

\* A reservation made under the admission lock is never invalidated by the
\* worker: the push that follows it succeeds.
THEOREM ReservationCorrect == Spec => []CapacityReserved
<1>1. AdmissionInv => CapacityReserved
  BY Zenon DEF AdmissionInv, SessionInv
<1> QED
  BY <1>1, InvCorrect, PTL

\* The queue never holds an event of an earlier consent generation, nor one
\* whose track() call began in one.
THEOREM ConsentCorrect == Spec => []QueueConsented
<1>1. AdmissionInv => QueueConsented
  BY Zenon DEF AdmissionInv, SessionInv
<1> QED
  BY <1>1, InvCorrect, PTL

\* Ordinals order the events as they were admitted, and so does the queue.
THEOREM OrderCorrect == Spec => []AdmissionOrder
<1>1. AdmissionInv => AdmissionOrder
  BY Zenon DEF AdmissionInv
<1> QED
  BY <1>1, InvCorrect, PTL

-----------------------------------------------------------------------------
(* Sets of events and their sizes *)

\* Every set of admitted events is finite.
LEMMA Sizes ==
    ASSUME TypeOK, NEW S, S \subseteq DOMAIN admitted
    PROVE  IsFiniteSet(S) /\ Cardinality(S) \in Nat
<1>1. Len(admitted) \in Nat /\ DOMAIN admitted = 1..Len(admitted)
  BY DEF TypeOK
<1>2. IsFiniteSet(1..Len(admitted))
  BY <1>1, FS_Interval
<1>3. IsFiniteSet(S)
  BY <1>1, <1>2, FS_Subset, Zenon
<1> QED
  BY <1>3, FS_CardinalityType, Zenon

\* A bounded non-empty set of numbers has a greatest element.
LEMMA Greatest ==
    ASSUME NEW S \in SUBSET Nat, S # {}, NEW b \in Nat, \A s \in S : s <= b
    PROVE  \E m \in S : \A s \in S : s <= m
<1> DEFINE T == {n \in Nat : \A s \in S : s <= n}
<1>1. T \subseteq Nat /\ T # {}
  OBVIOUS
<1>2. \E x \in T : \A y \in T : ~(<<y, x>> \in OpToRel(<, Nat))
  BY <1>1, NatLessThanWellFounded, WFMin, ZenonT(30)
<1>3. PICK x \in T : \A y \in T : ~(y < x)
  BY <1>2, ZenonT(30) DEF OpToRel
<1>4. CASE x \in S
  BY <1>4, Zenon
<1>5. CASE x \notin S
  <2>1. x # 0
    <3>1. PICK s \in S : s <= x
      BY ZenonT(30)
    <3> QED
      BY <1>5, <3>1
  <2>2. x - 1 \in T
    BY <1>5, <2>1
  <2> QED
    BY <1>3, <2>1, <2>2
<1> QED
  BY <1>4, <1>5, Zenon

-----------------------------------------------------------------------------
(* The composed system and the admission path *)

\* Capacity given back is never more than what is counted.
LEMMA ReleasedType ==
    ASSUME TypeOK, NEW n \in Nat
    PROVE  Released(n) \in 0..outstanding
BY DEF TypeOK, Released

\* Whatever the producers, the worker and set_consent do is a step of the
\* admission path or leaves its state alone.  A revocation may drop more
\* retried events than the counter counts; release_outstanding then stops at
\* zero, as if there had been just so many.
LEMMA AdmissionStep ==
    ASSUME DeliveryTypeOK, Client \/ Worker \/ SetConsent \/ CorruptRow
    PROVE  [Next]_admissionVars
<1>t. TypeOK /\ outstanding \in Nat /\ queue \in Seq(Nat) /\ Len(queue) \in Nat
  BY DEF DeliveryTypeOK, TypeOK
<1>1. CASE Client
  BY <1>1, Zenon DEF Client, Next
<1>2. CASE Pop
  <2> DEFINE n == IF Len(queue) < BatchSize THEN Len(queue) ELSE BatchSize
  <2>1. n = 0 \/ n \in 1..Len(queue)
    BY <1>t, DeliveryAssumption
  <2>2. IF n = 0 THEN UNCHANGED admissionVars ELSE WorkerDrain(n)
    BY <1>2, Zenon DEF Pop
  <2> QED
    BY <2>1, <2>2, Zenon DEF Next
<1>3. ASSUME NEW n \in Nat, WorkerRelease(Released(n)) PROVE Next
  BY <1>3, <1>t, ReleasedType, Zenon DEF Next
<1>4. CASE Discard \/ ReleaseAtBoundary \/ ReleaseDelivered
  <2>1. Cardinality(batch) \in Nat
    BY <1>t, Sizes, Zenon DEF DeliveryTypeOK
  <2> QED
    BY <1>3, <1>4, <2>1, Zenon DEF Discard, ReleaseAtBoundary, ReleaseDelivered
<1>5. CASE Filter
  <2>1. PICK bad \in {{}} \cup {{e} : e \in batch \ Stale} :
          WorkerRelease(Released(Cardinality(Stale \cup bad)))
    BY <1>5, ZenonT(30) DEF Filter
  <2>2. Cardinality(Stale \cup bad) \in Nat
    <3>1. Stale \cup bad \subseteq DOMAIN admitted
      BY Zenon DEF DeliveryTypeOK, Stale
    <3> QED
      BY <1>t, <3>1, Sizes, Zenon
  <2> QED
    BY <1>3, <2>1, <2>2, Zenon
<1>6. CASE ReleaseQuarantined
  BY <1>3, <1>6, Zenon DEF ReleaseQuarantined, DeliveryTypeOK
<1>7. CASE WorkerReset \/ Reset
  <2>1. WorkerRelease(0) /\ 0 \in 0..outstanding
    BY <1>7, <1>t DEF WorkerReset, Reset
  <2> QED
    BY <2>1, Zenon DEF Next
<1>8. CASE TakeRetry \/ CheckConsent \/ Insert \/ HoldForRetry \/ DeliverCheck
           \/ Fetch \/ Recheck \/ BeginWrite \/ EndWrite \/ Confirm
           \/ Acknowledge \/ WorkerPurge \/ GrantCall \/ Mark \/ Purge
           \/ CorruptRow
  BY <1>8, ZenonT(30)
     DEF TakeRetry, CheckConsent, Insert, HoldForRetry, DeliverCheck, Fetch,
         Recheck, BeginWrite, EndWrite, Confirm, Acknowledge, WorkerPurge,
         GrantCall, Mark, Purge, CorruptRow
<1>9. CASE GrantReturn
  BY <1>9, Zenon DEF GrantReturn, Next
<1>10. CASE Revoke
  <2> DEFINE k == Cardinality(retry)
             m == IF k < outstanding THEN k ELSE outstanding
  <2>1. k \in Nat
    BY <1>t, Sizes, Zenon DEF DeliveryTypeOK
  <2>2. m \in 0..outstanding /\ Released(Len(queue) + k) = Released(Len(queue) + m)
    BY <1>t, <2>1 DEF Released
  <2>3. RevokeBegin(k)
    BY <1>10, Zenon DEF Revoke
  <2>4. RevokeBegin(m)
    BY <2>2, <2>3, Zenon DEF RevokeBegin
  <2> QED
    BY <2>2, <2>4, Zenon DEF Next
<1> QED
  BY <1>1, <1>2, <1>4, <1>5, <1>6, <1>7, <1>8, <1>9, <1>10, Zenon
     DEF Worker, SetConsent

-----------------------------------------------------------------------------
(* The steps of the producers, in terms of what the rest of the system sees *)

\* admit_locked takes an ordinal and a unit of capacity.
Reserving ==
    /\ Granted /\ op \notin PushOps /\ op' \in PushOps
    /\ ordinal' = ordinal + 1 /\ outstanding' = outstanding + 1
    /\ pending'.ordinal = ordinal + 1 /\ pending'.gen = generation
    /\ UNCHANGED <<queue, admitted>>

\* The push succeeds.
Pushing ==
    /\ op \in PushOps /\ op' \in {"idle", "replaceMid"}
    /\ queue' = Append(queue, Len(admitted) + 1)
    /\ admitted' = Append(admitted, pending)
    /\ UNCHANGED <<ordinal, outstanding, pending>>

\* The push fails.
Refusing ==
    /\ op \in PushOps /\ op' = "idle"
    /\ outstanding' = Released(1)
    /\ UNCHANGED <<queue, admitted, ordinal, pending>>

\* Nothing the worker or the store can see changes.
Passing ==
    /\ op' = op \/ (op \notin PushOps /\ op' = "idle")
    /\ UNCHANGED <<queue, admitted, ordinal, outstanding, pending>>

\* The operations inside the admission lock are none of these.
LEMMA OpNames ==
    /\ "idle" \notin PushOps /\ "replaceMid" \notin PushOps
    /\ {"track", "start", "replaceStart", "end", "replaceEnd"} \subseteq PushOps
BY Zenon DEF PushOps, StartOps, EndOps

\* Every call of the public interface does one of these four things.
LEMMA ClientEffects ==
    ASSUME Client
    PROVE  /\ up
           /\ UNCHANGED <<consent, generation>>
           /\ UNCHANGED <<workerVars, storeVars, consentVars, faults, crashes,
                          historyVars>>
           /\ Reserving \/ Pushing \/ Refusing \/ Passing
<1>1. /\ up
      /\ UNCHANGED <<workerVars, storeVars, consentVars, faults, crashes,
                     historyVars>>
  BY Zenon DEF Client
<1>2. ASSUME NEW o \in PushOps, NEW s, NEW g, Reserve(o, s, g), Admissible(s),
             op \notin PushOps
      PROVE  UNCHANGED <<consent, generation>> /\ Reserving
  BY <1>2, Zenon DEF Reserve, Reserving, Admissible, Granted
<1>3. ASSUME NEW p \in Producers, TrackEnter(p) \/ TrackReject(p)
      PROVE  UNCHANGED <<consent, generation>> /\ Passing
  BY <1>3, Zenon DEF TrackEnter, TrackReject, Passing
<1>4. ASSUME NEW p \in Producers, TrackAdmit(p)
      PROVE  UNCHANGED <<consent, generation>> /\ Reserving
  BY <1>2, <1>4, OpNames, Zenon DEF TrackAdmit
<1>5. CASE StartSession \/ ReplaceEnd \/ EndSession
  BY <1>2, <1>5, <1>1, OpNames, Zenon DEF StartSession, ReplaceEnd, EndSession
<1>6. CASE ReplaceStart
  <2>1. CASE Admissible(Begun(session))
    BY <1>2, <1>6, <1>1, <2>1, OpNames, ZenonT(30) DEF ReplaceStart
  <2>2. CASE ~Admissible(Begun(session))
    BY <1>6, <1>1, <2>2, OpNames, ZenonT(30) DEF ReplaceStart, Passing
  <2> QED
    BY <2>1, <2>2, Zenon
<1>7. CASE Publish
  BY <1>7, <1>1, OpNames, Zenon DEF Publish, Pushing, Refusing
<1> QED
  BY <1>1, <1>3, <1>4, <1>5, <1>6, <1>7, Zenon DEF Client

-----------------------------------------------------------------------------
(* Types *)

\* The fields of an admitted event.
LEMMA EventFields ==
    ASSUME TypeOK
    PROVE  \A e \in DOMAIN admitted :
             admitted[e].ordinal \in Nat /\ admitted[e].gen \in Nat
<1> SUFFICES ASSUME NEW e \in DOMAIN admitted
             PROVE  admitted[e].ordinal \in Nat /\ admitted[e].gen \in Nat
  OBVIOUS
<1>1. admitted[e] \in Event
  BY DEF TypeOK
<1> QED
  BY <1>1, Zenon DEF Event

\* ClientInternal::create continues above the highest stored ordinal.
LEMMA HighestType ==
    ASSUME DeliveryTypeOK, OrderInv, NEW S, S \subseteq rows
    PROVE  /\ HighestOrdinal(S) \in Nat
           /\ \A e \in S : Ordinal(e) <= HighestOrdinal(S)
<1> DEFINE O == {Ordinal(e) : e \in S}
<1>1. \A e \in S : Ordinal(e) \in Nat /\ Ordinal(e) <= ordinal
  <2>1. \A e \in S : e \in DOMAIN admitted /\ e \in Live
    BY Zenon DEF DeliveryTypeOK, Live
  <2> QED
    BY <2>1, EventFields, Zenon DEF DeliveryTypeOK, OrderInv, Ordinal
<1>2. CASE S = {}
  BY <1>2, Zenon DEF HighestOrdinal
<1>3. CASE S # {}
  <2>1. O \in SUBSET Nat /\ O # {} /\ \A o \in O : o <= ordinal
    BY <1>1, <1>3, Zenon
  <2>2. ordinal \in Nat
    BY Zenon DEF DeliveryTypeOK, TypeOK
  <2>3. \E m \in O : \A o \in O : o <= m
    BY <2>1, <2>2, Greatest, ZenonT(30)
  <2>4. \E m \in O : \A e \in S : Ordinal(e) <= m
    BY <2>3, Zenon
  <2>5. HighestOrdinal(S) = CHOOSE m \in O : \A e \in S : Ordinal(e) <= m
    BY <1>3, Zenon DEF HighestOrdinal
  <2> QED
    BY <2>1, <2>4, <2>5, Zenon
<1> QED
  BY <1>2, <1>3, Zenon

\* Every step keeps the state well typed.
LEMMA DeliveryTypeStep ==
    ASSUME DeliveryInv, DeliveryNext
    PROVE  DeliveryTypeOK'
<1>t. DeliveryTypeOK /\ TypeOK /\ HandsInv /\ OwedInv /\ OrderInv
  BY Zenon DEF DeliveryInv, DeliveryTypeOK
<1>f. faults \in Nat /\ crashes \in Nat /\ (Fault => faults' \in 0..MaxFaults)
  BY <1>t, DeliveryAssumption DEF DeliveryTypeOK, Fault
<1>z. 0 \in Nat
  OBVIOUS
<1>g. generation \in Nat /\ wgen \in Nat
  BY <1>t, Zenon DEF TypeOK, DeliveryTypeOK
<1>r. /\ Len(admitted) \in Nat /\ revoked \in Nat /\ marked \in Nat /\ purged \in Nat
      /\ purged <= marked /\ marked <= revoked /\ revoked <= Len(admitted)
  BY <1>t DEF TypeOK, DeliveryTypeOK
<1>q. Queued \subseteq DOMAIN admitted
  BY <1>t, Zenon DEF HandsInv, Queued
<1>1. CASE Client
  <2>1. TypeOK'
    BY <1>1, <1>t, AdmissionStep, TypeStep, Zenon
  <2>2. DOMAIN admitted \subseteq DOMAIN admitted' /\ Len(admitted) <= Len(admitted')
    BY <1>1, <1>t, ClientEffects
       DEF TypeOK, Reserving, Pushing, Refusing, Passing
  <2>3. Len(admitted) \in Nat /\ Len(admitted') \in Nat
    BY <1>t, <2>1 DEF TypeOK
  <2>4. UNCHANGED <<workerVars, storeVars, consentVars, faults, crashes,
                    historyVars>>
    BY <1>1, ClientEffects, Zenon
  <2> QED
    BY <1>t, <2>1, <2>2, <2>3, <2>4
       DEF DeliveryTypeOK, workerVars, storeVars, consentVars, historyVars,
           revocationVars
<1>2. CASE Worker
  <2>1. TypeOK'
    BY <1>2, <1>t, AdmissionStep, TypeStep, ZenonT(30)
  <2>2. admitted' = admitted
    BY <1>2, ZenonT(30)
       DEF Worker, Pop, TakeRetry, CheckConsent, Discard, Filter, Insert,
           ReleaseAtBoundary, HoldForRetry, DeliverCheck, Fetch,
           ReleaseQuarantined, Recheck, BeginWrite, EndWrite, Confirm,
           Acknowledge, ReleaseDelivered, WorkerPurge, WorkerReset,
           WorkerDrain, WorkerRelease, admissionVars
  <2>u. /\ UNCHANGED <<consentVars, crashes, revocationVars>>
    BY <1>2, ZenonT(30)
       DEF Worker, Pop, TakeRetry, CheckConsent, Discard, Filter, Insert,
           ReleaseAtBoundary, HoldForRetry, DeliverCheck, Fetch,
           ReleaseQuarantined, Recheck, BeginWrite, EndWrite, Confirm,
           Acknowledge, ReleaseDelivered, WorkerPurge, WorkerReset,
           historyVars
  <2>3. CASE Pop
    <3>1. batch' \subseteq DOMAIN admitted
      <4>1. DOMAIN queue = 1..Len(queue) /\ Len(queue) \in Nat
        BY <1>t DEF TypeOK
      <4>2. PICK n \in 0..Len(queue) : batch' = {queue[k] : k \in 1..n}
        BY <2>3, <4>1, DeliveryAssumption DEF Pop
      <4> QED
        BY <1>t, <4>1, <4>2 DEF HandsInv
    <3> QED
      BY <1>t, <2>1, <2>2, <2>3, <3>1, ZenonT(30)
         DEF Pop, DeliveryTypeOK, storeVars, consentVars, historyVars,
             revocationVars
  <2> USE DEF workerVars, storeVars, consentVars, historyVars, revocationVars
  <2>4. CASE TakeRetry \/ CheckConsent
    BY <1>t, <2>1, <2>2, <2>4, ZenonT(30) DEF TakeRetry, CheckConsent, DeliveryTypeOK, TypeOK
  <2>5. CASE Discard \/ HoldForRetry \/ ReleaseAtBoundary \/ ReleaseDelivered
    BY <1>t, <1>f, <2>1, <2>2, <2>5, ZenonT(30)
       DEF Discard, HoldForRetry, ReleaseAtBoundary, ReleaseDelivered,
           DeliveryTypeOK
  <2>6. CASE Filter
    BY <1>t, <1>f, <2>1, <2>2, <2>6, ZenonT(30) DEF Filter, Stale, DeliveryTypeOK
  <2>7. CASE Insert
    BY <1>t, <1>f, <2>1, <2>2, <2>7, ZenonT(30)
       DEF Insert, StoreInsert, Store!Insert, DeliveryTypeOK
  <2>8. CASE DeliverCheck \/ ReleaseQuarantined \/ Recheck \/ Confirm
    BY <1>t, <1>g, <2>1, <2>2, <2>8, SMTT(30)
       DEF DeliverCheck, ReleaseQuarantined, Recheck, Confirm, DeliveryTypeOK
  <2>9. CASE Fetch
    <3>1. FirstRows(BatchSize) \subseteq rows /\ \A k : FirstRows(k) \subseteq rows
      BY Zenon DEF FirstRows
    <3>2. Cardinality(FirstRows(BatchSize) \cap corrupt) \in Nat
      <4>1. FirstRows(BatchSize) \cap corrupt \subseteq DOMAIN admitted
        BY <1>t, <3>1, Zenon DEF DeliveryTypeOK
      <4> QED
        BY <1>t, <4>1, Sizes, Zenon
    <3> QED
      BY <1>t, <1>f, <2>1, <2>2, <2>9, <3>1, <3>2
         DEF Fetch, StoreDelete, Store!Delete, DeliveryTypeOK
  <2>10. CASE BeginWrite \/ EndWrite
    BY <1>t, <1>f, <2>1, <2>2, <2>10, SMTT(30) DEF BeginWrite, EndWrite, DeliveryTypeOK
  <2>11. CASE Acknowledge
    <3>1. /\ rows' \subseteq rows /\ corrupt' \subseteq rows' /\ marker' = marker
          /\ settled' \subseteq DOMAIN admitted
      BY <1>t, <2>11, ZenonT(30)
         DEF Acknowledge, StoreDelete, Store!Delete, StoreMatches, Store!Matches,
             DeliveryTypeOK
    <3>2. unreleased' \in Nat
      <4>1. ASSUME NEW gone \in StoreMatches(batch) PROVE Cardinality(gone) \in Nat
        <5>1. gone \subseteq DOMAIN admitted
          BY <1>t, <4>1, Zenon DEF StoreMatches, Store!Matches, DeliveryTypeOK
        <5> QED
          BY <1>t, <5>1, Sizes, Zenon
      <4> QED
        BY <1>t, <2>11, <4>1 DEF Acknowledge, DeliveryTypeOK
    <3>3. /\ wpc' \in {"release", "pop"} /\ batch' \subseteq batch
          /\ faults' \in 0..MaxFaults
          /\ UNCHANGED <<wret, wgen, quarantined, retry, lateWrites>>
      BY <1>t, <1>f, <2>11, ZenonT(30) DEF Acknowledge, DeliveryTypeOK
    <3> QED
      BY <1>t, <2>1, <2>2, <2>u, <3>1, <3>2, <3>3, ZenonT(30) DEF DeliveryTypeOK
  <2>12. CASE WorkerPurge \/ WorkerReset
    BY <1>t, <1>f, <1>z, <2>1, <2>2, <2>12, ZenonT(30)
       DEF WorkerPurge, WorkerReset, StorePurge, Store!Purge,
           DeliveryTypeOK
  <2> QED
    BY <1>2, <2>3, <2>4, <2>5, <2>6, <2>7, <2>8, <2>9, <2>10, <2>11, <2>12, Zenon
       DEF Worker
<1>3. CASE SetConsent
  <2>1. TypeOK'
    BY <1>3, <1>t, AdmissionStep, TypeStep, Zenon
  <2>2. admitted' = admitted
    BY <1>3, ZenonT(30)
       DEF SetConsent, Revoke, GrantCall, Mark, Purge, Reset, GrantReturn,
           RevokeBegin, Grant, WorkerRelease, admissionVars
  <2> USE DEF workerVars, storeVars, consentVars, historyVars, revocationVars
  <2>3. /\ revoked' \in 0..Len(admitted')
        /\ marked' \in 0..revoked' /\ purged' \in 0..marked'
    BY <1>3, <1>t, <1>r, <2>2
       DEF OwedInv, SetConsent, Revoke, GrantCall, Mark, Purge, Reset, GrantReturn
  <2>4. CASE Revoke
    <3>1. retry' = {} /\ target' = "Denied" /\ cpc' = "mark"
          /\ purgeRequired' = TRUE /\ lateWrites' = 0
      BY <2>4, Zenon DEF Revoke
    <3>2. UNCHANGED <<wpc, wret, batch, wgen, quarantined, rows, corrupt, marker,
                      faults, crashes, settled, unreleased>>
      BY <2>4, Zenon DEF Revoke
    <3> QED
      BY <1>t, <2>1, <2>2, <2>3, <3>1, <3>2, ZenonT(30) DEF DeliveryTypeOK
  <2>7. CASE GrantReturn
    BY <1>t, <2>1, <2>2, <2>3, <2>7, ZenonT(30) DEF GrantReturn, DeliveryTypeOK
  <2>6. CASE GrantCall \/ Reset
    BY <1>t, <1>z, <2>1, <2>2, <2>3, <2>6, ZenonT(30) DEF GrantCall, Reset, DeliveryTypeOK
  <2>5. CASE Mark \/ Purge
    BY <1>t, <1>f, <2>1, <2>2, <2>3, <2>5, ZenonT(30)
       DEF Mark, Purge, StoreMark, Store!Mark, StorePurge, Store!Purge,
           DeliveryTypeOK
  <2> QED
    BY <1>3, <2>4, <2>5, <2>6, <2>7, Zenon DEF SetConsent
<1>4. CASE CorruptRow
  <2>1. TypeOK' /\ admitted' = admitted
    BY <1>4, <1>t, AdmissionStep, TypeStep, Zenon DEF CorruptRow, admissionVars
  <2> QED
    BY <1>4, <1>t, <1>f, <2>1, SMTT(30)
       DEF CorruptRow, Store!Damage, DeliveryTypeOK, workerVars,
           consentVars, historyVars, revocationVars
<1>5. CASE Crash
  <2>1. TypeOK'
    BY <1>5, <1>t, SessionOps DEF Crash, TypeOK, NoCall
  <2>2. settled' \subseteq DOMAIN admitted
    BY <1>5, <1>t, <1>q, Zenon DEF Crash, DeliveryTypeOK
  <2>3. crashes' \in 0..MaxCrashes
    BY <1>5, <1>f, DeliveryAssumption, SMTT(30) DEF Crash
  <2> QED
    BY <1>5, <1>t, <2>1, <2>2, <2>3, ZenonT(30)
       DEF Crash, DeliveryTypeOK, storeVars, revocationVars
<1>6. ASSUME NEW c \in {"Granted", "Denied"}, Create(c) PROVE DeliveryTypeOK'
  <2>1. rows' \subseteq rows /\ rows' \subseteq DOMAIN admitted
    BY <1>6, <1>t, Zenon
       DEF Create, PurgeOwed, StorePurge, Store!Purge, storeVars, DeliveryTypeOK
  <2>2. HighestOrdinal(rows') \in Nat
    BY <1>t, <2>1, HighestType, Zenon
  <2>3. Cardinality(rows') \in Nat
    BY <1>t, <2>1, Sizes, Zenon
  <2>4. TypeOK' /\ admitted' = admitted
    BY <1>6, <1>t, <2>2, <2>3, SMTT(30) DEF Create, TypeOK
  <2>5. /\ revoked' \in 0..Len(admitted')
        /\ marked' \in 0..revoked' /\ purged' \in 0..marked'
    BY <1>6, <1>r, <2>4, SMTT(30) DEF Create, PurgeOwed, revocationVars
  <2>6. wpc' \in {"pop", wpc} /\ faults' \in 0..MaxFaults /\ lateWrites' \in Nat
        /\ unreleased' \in Nat
    BY <1>6, <1>t, <1>f, SMTT(30) DEF Create, DeliveryTypeOK
  <2>7. corrupt' \subseteq rows' /\ marker' \in BOOLEAN
    BY <1>6, <1>t, ZenonT(30)
       DEF Create, PurgeOwed, StorePurge, Store!Purge, storeVars, DeliveryTypeOK
  <2>8. UNCHANGED <<wret, batch, wgen, quarantined, retry, cpc, target,
                    purgeRequired, crashes, settled>>
    BY <1>6, Zenon DEF Create, consentVars
  <2> QED
    BY <1>t, <2>1, <2>4, <2>5, <2>6, <2>7, <2>8, ZenonT(30) DEF DeliveryTypeOK
<1> QED
  BY <1>1, <1>2, <1>3, <1>4, <1>5, <1>6, ZenonT(30) DEF DeliveryNext

-----------------------------------------------------------------------------
(* The conjuncts of the invariant, one by one *)

\* What an Append does to the log and the queue.
LEMMA PushEffects ==
    ASSUME TypeOK, Pushing
    PROVE  /\ Len(admitted) \in Nat /\ Len(admitted') = Len(admitted) + 1
           /\ DOMAIN admitted = 1..Len(admitted)
           /\ DOMAIN admitted' = DOMAIN admitted \cup {Len(admitted) + 1}
           /\ \A e \in DOMAIN admitted : admitted'[e] = admitted[e]
           /\ admitted'[Len(admitted) + 1] = pending
           /\ Queued' = Queued \cup {Len(admitted) + 1}
           /\ Len(queue) \in Nat /\ DOMAIN queue = 1..Len(queue)
           /\ DOMAIN queue' = DOMAIN queue \cup {Len(queue) + 1}
           /\ \A k \in DOMAIN queue : queue'[k] = queue[k]
           /\ queue'[Len(queue) + 1] = Len(admitted) + 1
<1>1. /\ Len(admitted) \in Nat /\ DOMAIN admitted = 1..Len(admitted)
      /\ Len(queue) \in Nat /\ DOMAIN queue = 1..Len(queue)
  BY DEF TypeOK
<1>2. /\ Len(admitted') = Len(admitted) + 1
      /\ DOMAIN admitted' = 1..(Len(admitted) + 1)
      /\ \A e \in DOMAIN admitted : admitted'[e] = admitted[e]
      /\ admitted'[Len(admitted) + 1] = pending
  BY <1>1 DEF TypeOK, Pushing
<1>3. /\ DOMAIN queue' = 1..(Len(queue) + 1)
      /\ \A k \in DOMAIN queue : queue'[k] = queue[k]
      /\ queue'[Len(queue) + 1] = Len(admitted) + 1
  BY <1>1 DEF TypeOK, Pushing
<1>4. /\ DOMAIN admitted' = DOMAIN admitted \cup {Len(admitted) + 1}
      /\ DOMAIN queue' = DOMAIN queue \cup {Len(queue) + 1}
  BY <1>1, <1>2, <1>3
<1>5. Queued' = Queued \cup {Len(admitted) + 1}
  BY <1>3, <1>4, SMTT(30) DEF Queued
<1> QED
  BY <1>1, <1>2, <1>3, <1>4, <1>5, ZenonT(30)

\* What pop_wait does to the queue: the first n events become the batch.
LEMMA PopEffects ==
    ASSUME TypeOK, Pop
    PROVE  \E n \in 0..Len(queue) :
             /\ Len(queue) \in Nat /\ DOMAIN queue = 1..Len(queue)
             /\ batch' = {queue[k] : k \in 1..n}
             /\ DOMAIN queue' = 1..(Len(queue) - n)
             /\ \A k \in DOMAIN queue' : queue'[k] = queue[k + n]
             /\ Queued = batch' \cup Queued'
             /\ UNCHANGED <<consent, generation, outstanding, ordinal, op,
                            pending, admitted>>
<1>1. Len(queue) \in Nat /\ DOMAIN queue = 1..Len(queue) /\ queue \in Seq(Nat)
  BY DEF TypeOK
<1>2. PICK n \in 0..Len(queue) :
        /\ batch' = {queue[k] : k \in 1..n}
        /\ IF n = 0 THEN UNCHANGED admissionVars ELSE WorkerDrain(n)
  BY <1>1, DeliveryAssumption DEF Pop
<1>3. UNCHANGED <<consent, generation, outstanding, ordinal, op, pending, admitted>>
  BY <1>2, Zenon DEF admissionVars, WorkerDrain
<1>4. /\ DOMAIN queue' = 1..(Len(queue) - n)
      /\ \A k \in DOMAIN queue' : queue'[k] = queue[k + n]
  <2>1. CASE n = 0
    BY <1>1, <1>2, <2>1 DEF admissionVars
  <2>2. CASE n # 0
    <3>1. queue' = SubSeq(queue, n + 1, Len(queue))
      BY <1>2, <2>2, Zenon DEF WorkerDrain
    <3> QED
      BY <1>1, <3>1, SMTT(30)
  <2> QED
    BY <2>1, <2>2, Zenon
<1>5. Queued = batch' \cup Queued'
  <2>1. ASSUME NEW k \in 1..Len(queue)
        PROVE  queue[k] \in batch' \cup Queued'
    <3>1. CASE k <= n
      BY <1>1, <1>2, <3>1
    <3>2. CASE k > n
      <4>2. k - n \in 1..(Len(queue) - n) /\ (k - n) + n = k
        BY <1>1, <3>2
      <4>1. k - n \in DOMAIN queue' /\ queue'[k - n] = queue[k]
        BY <1>4, <4>2, Zenon
      <4> QED
        BY <4>1, Zenon DEF Queued
    <3> QED
      BY <1>1, <3>1, <3>2
  <2>2. \A k \in DOMAIN queue' : k + n \in DOMAIN queue
    BY <1>1, <1>4
  <2>3. \A k \in 1..n : k \in DOMAIN queue
    BY <1>1
  <2> QED
    BY <1>1, <1>2, <1>4, <2>1, <2>2, <2>3, ZenonT(30) DEF Queued
<1> QED
  BY <1>1, <1>2, <1>3, <1>4, <1>5, Zenon

\* Which state goes with which.
LEMMA HandsStep ==
    ASSUME DeliveryInv, DeliveryNext
    PROVE  HandsInv'
<1> USE DEF up, Granted, EmptyHanded, Inbound, workerVars, storeVars,
            consentVars, admissionVars
<1>t. DeliveryTypeOK /\ TypeOK /\ HandsInv /\ OwedInv
  BY Zenon DEF DeliveryInv, DeliveryTypeOK
<1>1. CASE Client
  <2>1. /\ up /\ up'
        /\ UNCHANGED <<consent, wpc, batch, retry, quarantined, purgeRequired>>
    BY <1>1, ClientEffects, Zenon
  <2>2. op' # "idle" => consent = "Granted"
    BY <1>1, <1>t, ClientEffects, OpNames, ZenonT(30)
       DEF HandsInv, Reserving, Pushing, Refusing, Passing
  <2>3. \A k \in DOMAIN queue' : queue'[k] \in DOMAIN admitted'
    <3>1. CASE Pushing
      BY <1>t, <3>1, PushEffects, Zenon DEF HandsInv
    <3>2. CASE ~Pushing
      BY <1>1, <1>t, <3>2, ClientEffects, ZenonT(30)
         DEF HandsInv, Reserving, Refusing, Passing
    <3> QED
      BY <3>1, <3>2, Zenon
  <2> QED
    BY <1>t, <2>1, <2>2, <2>3, ZenonT(30) DEF HandsInv
<1>2. CASE Pop
  <2>1. PICK n \in 0..Len(queue) :
             /\ Len(queue) \in Nat /\ DOMAIN queue = 1..Len(queue)
             /\ DOMAIN queue' = 1..(Len(queue) - n)
             /\ \A k \in DOMAIN queue' : queue'[k] = queue[k + n]
             /\ UNCHANGED <<consent, op, admitted>>
    BY <1>2, <1>t, PopEffects, Zenon
  <2>2. \A k \in DOMAIN queue' : queue'[k] \in DOMAIN admitted'
    BY <1>t, <2>1, SMTT(30) DEF HandsInv
  <2> QED
    BY <1>2, <1>t, <2>1, <2>2, ZenonT(30) DEF HandsInv, Pop
<1>3. CASE TakeRetry \/ CheckConsent \/ Insert \/ HoldForRetry \/ DeliverCheck
  BY <1>3, <1>t, Zenon
     DEF HandsInv, TakeRetry, CheckConsent, Insert, HoldForRetry, DeliverCheck
<1>4. CASE Discard \/ Filter \/ ReleaseAtBoundary \/ ReleaseDelivered
  BY <1>4, <1>t, ZenonT(30)
     DEF HandsInv, WorkerRelease, Discard, Filter, ReleaseAtBoundary,
         ReleaseDelivered
<1>5. CASE Fetch \/ ReleaseQuarantined \/ Recheck \/ BeginWrite
  BY <1>5, <1>t, Zenon
     DEF HandsInv, WorkerRelease, Fetch, ReleaseQuarantined, Recheck, BeginWrite
<1>6. CASE EndWrite \/ Confirm \/ Acknowledge
  BY <1>6, <1>t, Zenon DEF HandsInv, EndWrite, Confirm, Acknowledge
<1>7. CASE WorkerPurge \/ WorkerReset
  BY <1>7, <1>t, Zenon
     DEF HandsInv, WorkerRelease, WorkerPurge, WorkerReset, DeliveryTypeOK
<1>8. CASE Revoke
  BY <1>8, <1>t, SMTT(30) DEF HandsInv, Revoke, RevokeBegin, TypeOK
<1>9. CASE GrantCall \/ Mark \/ Purge
  BY <1>9, <1>t, Zenon DEF HandsInv, GrantCall, Mark, Purge
<1>10. CASE Reset \/ GrantReturn
  BY <1>10, <1>t, Zenon DEF HandsInv, Reset, GrantReturn, WorkerRelease, Grant
<1>11. CASE CorruptRow
  BY <1>11, <1>t, Zenon DEF HandsInv, CorruptRow
<1>12. CASE Crash
  BY <1>12, <1>t DEF HandsInv, Crash
<1>13. ASSUME NEW c \in {"Granted", "Denied"}, Create(c) PROVE HandsInv'
  BY <1>13, <1>t, Zenon DEF HandsInv, Create
<1> QED
  BY <1>1, <1>2, <1>3, <1>4, <1>5, <1>6, <1>7, <1>8, <1>9, <1>10, <1>11,
     <1>12, <1>13, ZenonT(30) DEF DeliveryNext, Worker, SetConsent

\* The history of revocations as numbers.
LEMMA RevocationOrder ==
    ASSUME DeliveryTypeOK
    PROVE  /\ TypeOK /\ Len(admitted) \in Nat /\ DOMAIN admitted = 1..Len(admitted)
           /\ revoked \in Nat /\ marked \in Nat /\ purged \in Nat
           /\ purged <= marked /\ marked <= revoked /\ revoked <= Len(admitted)
           /\ generation \in Nat /\ wgen \in Nat
           /\ \A S : S \subseteq DOMAIN admitted => S \subseteq Nat
BY DEF DeliveryTypeOK, TypeOK

\* What the worker inserts was admitted after the last revocation.
LEMMA InsertsAreNew ==
    ASSUME DeliveryInv, wpc = "insert", StillConsented
    PROVE  \A e \in batch : e \in Nat /\ e > revoked
<1>1. batch \subseteq Incoming
  BY Zenon DEF Incoming, Inbound
<1>2. batch \subseteq Nat
  BY RevocationOrder, Zenon DEF DeliveryInv, DeliveryTypeOK
<1> QED
  BY <1>1, <1>2, Zenon DEF DeliveryInv, GenerationInv, StillConsented

\* A revocation that is owed keeps consent withdrawn until it is carried out.
LEMMA OwedStep ==
    ASSUME DeliveryInv, DeliveryNext
    PROVE  OwedInv'
<1> USE DEF up, Granted, workerVars, storeVars, consentVars, admissionVars,
            historyVars, revocationVars
<1>t. DeliveryTypeOK /\ TypeOK /\ HandsInv /\ OwedInv /\ GenerationInv
  BY Zenon DEF DeliveryInv, DeliveryTypeOK
<1>r. /\ Len(admitted) \in Nat /\ DOMAIN admitted = 1..Len(admitted)
      /\ revoked \in Nat /\ marked \in Nat /\ purged \in Nat
      /\ purged <= marked /\ marked <= revoked /\ revoked <= Len(admitted)
  BY <1>t, RevocationOrder, Zenon
<1>1. CASE Client
  <2>1. /\ up /\ up' /\ UNCHANGED <<consent, wpc, rows, marker, cpc,
                                    purgeRequired, revoked, marked, purged>>
    BY <1>1, ClientEffects, Zenon
  <2>2. ~Granted => Len(admitted') = Len(admitted)
    BY <1>1, <1>t, ClientEffects, OpNames, Zenon
       DEF HandsInv, Reserving, Pushing, Refusing, Passing
  <2> QED
    BY <1>t, <2>1, <2>2, Zenon DEF OwedInv
<1>2. CASE Pop
  <2>1. UNCHANGED <<consent, admitted>>
    BY <1>2, <1>t, PopEffects, ZenonT(30)
  <2> QED
    BY <1>2, <1>t, <2>1, Zenon DEF OwedInv, Pop
<1>3. CASE TakeRetry \/ CheckConsent \/ HoldForRetry \/ DeliverCheck
  BY <1>3, <1>t, SMTT(30) DEF OwedInv, TakeRetry, CheckConsent, HoldForRetry, DeliverCheck
<1>4. CASE Discard \/ Filter \/ ReleaseAtBoundary \/ ReleaseDelivered
  <2>1. /\ up /\ up' /\ UNCHANGED <<consent, admitted, rows, marker, cpc,
                                    purgeRequired, revoked, marked, purged>>
    BY <1>4, ZenonT(30)
       DEF WorkerRelease, Discard, Filter, ReleaseAtBoundary, ReleaseDelivered
  <2> QED
    BY <1>t, <2>1, Zenon DEF OwedInv
<1>5. CASE Insert
  <2>1. CASE rows' = rows
    BY <1>5, <1>t, <2>1, Zenon DEF OwedInv, Insert, StoreInsert, Store!Insert
  <2>2. CASE rows' # rows
    <3>1. StillConsented /\ rows' = rows \cup batch /\ marker' = marker /\ up'
      BY <1>5, <2>2, Zenon DEF Insert, StoreInsert, Store!Insert
    <3>2. batch \cap 1..marked = {} /\ batch \cap 1..purged = {}
      BY <1>5, <1>r, <3>1, InsertsAreNew DEF Insert
    <3> QED
      BY <1>5, <1>t, <3>1, <3>2, ZenonT(30) DEF OwedInv, Insert
  <2> QED
    BY <2>1, <2>2, Zenon
<1>6. CASE Fetch
  <2>1. rows' \subseteq rows /\ marker' = marker
    BY <1>6, ZenonT(30) DEF Fetch, StoreDelete, Store!Delete
  <2> QED
    BY <1>6, <1>t, <2>1, Zenon DEF OwedInv, Fetch
<1>7. CASE ReleaseQuarantined \/ Recheck \/ BeginWrite
  BY <1>7, <1>t, SMTT(30) DEF OwedInv, WorkerRelease, ReleaseQuarantined, Recheck, BeginWrite
<1>8. CASE EndWrite \/ Confirm
  BY <1>8, <1>t, SMTT(30) DEF OwedInv, EndWrite, Confirm
<1>9. CASE Acknowledge
  <2>1. rows' \subseteq rows /\ marker' = marker
    BY <1>9, Zenon DEF Acknowledge, StoreDelete, Store!Delete
  <2> QED
    BY <1>9, <1>t, <2>1, Zenon DEF OwedInv, Acknowledge
<1>10. CASE WorkerPurge \/ WorkerReset
  BY <1>10, <1>t
     DEF OwedInv, WorkerRelease, WorkerPurge, WorkerReset, StorePurge, Store!Purge
<1>11. CASE Revoke
  BY <1>11, <1>t, Zenon DEF OwedInv, Revoke, RevokeBegin
<1>12. CASE GrantCall
  BY <1>12, <1>t, Zenon DEF OwedInv, GrantCall
<1>13. CASE Mark
  BY <1>13, <1>t, Zenon DEF OwedInv, Mark, StoreMark, Store!Mark
<1>14. CASE Purge
  BY <1>14, <1>t, Zenon DEF OwedInv, Purge, StorePurge, Store!Purge
<1>15. CASE Reset
  BY <1>15, <1>t, Zenon DEF OwedInv, Reset, WorkerRelease
<1>16. CASE GrantReturn
  BY <1>16, <1>t, Zenon DEF OwedInv, GrantReturn, Grant
<1>17. CASE CorruptRow
  BY <1>17, <1>t, SMTT(30) DEF OwedInv, CorruptRow, Store!Damage
<1>18. CASE Crash
  BY <1>18, <1>t, Zenon DEF OwedInv, Crash
<1>19. ASSUME NEW c \in {"Granted", "Denied"}, Create(c) PROVE OwedInv'
  <2>1. CASE PurgeOwed(c)
    BY <1>19, <1>t, <2>1, ZenonT(30)
       DEF HandsInv, OwedInv, Create, PurgeOwed, StorePurge, Store!Purge
  <2>2. CASE ~PurgeOwed(c)
    BY <1>19, <1>t, <2>2, ZenonT(30) DEF HandsInv, OwedInv, Create
  <2> QED
    BY <2>1, <2>2, Zenon
<1> QED
  BY <1>1, <1>2, <1>3, <1>4, <1>5, <1>6, <1>7, <1>8, <1>9, <1>10, <1>11,
     <1>12, <1>13, <1>14, <1>15, <1>16, <1>17, <1>18, <1>19, Zenon
     DEF DeliveryNext, Worker, SetConsent

\* What the worker leaves alone.
LEMMA WorkerFrame ==
    ASSUME Worker
    PROVE  /\ UNCHANGED <<consent, generation, ordinal, op, pending, admitted>>
           /\ UNCHANGED <<cpc, target, purgeRequired, crashes, revoked, marked, purged>>
<1> USE DEF consentVars, admissionVars, historyVars, revocationVars, WorkerRelease
<1>1. CASE Pop
  BY <1>1, ZenonT(30) DEF Pop, WorkerDrain
<1>2. CASE TakeRetry \/ CheckConsent \/ Discard \/ Filter \/ Insert
           \/ ReleaseAtBoundary \/ HoldForRetry
  BY <1>2, ZenonT(30) DEF TakeRetry, CheckConsent, Discard, Filter, Insert,
                          ReleaseAtBoundary, HoldForRetry
<1>3. CASE DeliverCheck \/ Fetch \/ ReleaseQuarantined \/ Recheck \/ BeginWrite
           \/ EndWrite
  BY <1>3, ZenonT(30) DEF DeliverCheck, Fetch, ReleaseQuarantined, Recheck,
                          BeginWrite, EndWrite
<1>4. CASE Confirm \/ Acknowledge \/ ReleaseDelivered \/ WorkerPurge \/ WorkerReset
  BY <1>4, ZenonT(30) DEF Confirm, Acknowledge, ReleaseDelivered, WorkerPurge,
                          WorkerReset
<1> QED
  BY <1>1, <1>2, <1>3, <1>4, ZenonT(30) DEF Worker

\* What set_consent and a failing disk leave alone, apart from the part of a
\* revocation that is under the admission lock.
LEMMA ConsentFrame ==
    ASSUME GrantCall \/ Mark \/ Purge \/ Reset \/ GrantReturn \/ CorruptRow
    PROVE  /\ UNCHANGED <<generation, ordinal, op, pending, queue, admitted>>
           /\ UNCHANGED <<workerVars, crashes, settled, revoked>>
BY ZenonT(30)
   DEF GrantCall, Mark, Purge, Reset, GrantReturn, CorruptRow, WorkerRelease,
       Grant, admissionVars, historyVars, revocationVars

\* Only a push puts an event on its way into the store ...
LEMMA ClientIncoming ==
    ASSUME TypeOK, Client
    PROVE  /\ ~Pushing => Incoming' = Incoming /\ queue' = queue /\ admitted' = admitted
           /\ Pushing => Incoming' = Incoming \cup {Len(admitted) + 1}
<1>1. UNCHANGED <<wpc, batch, retry>>
  BY ClientEffects, Zenon DEF workerVars
<1>2. ~Pushing => queue' = queue /\ admitted' = admitted
  BY ClientEffects, Zenon DEF Reserving, Refusing, Passing
<1> QED
  BY <1>1, <1>2, PushEffects DEF Incoming, Queued

\* ... and the worker only moves it on.
LEMMA WorkerIncoming ==
    ASSUME TypeOK, DeliveryTypeOK, HandsInv, Worker
    PROVE  /\ Incoming' \subseteq Incoming
           /\ Pop \/ TakeRetry \/ CheckConsent \/ HoldForRetry => Incoming' = Incoming
<1> USE DEF Inbound
<1>1. ASSUME Pop PROVE Incoming' = Incoming
  <2>1. wpc = "pop" /\ wpc' = "take" /\ retry' = retry /\ batch = {}
    BY <1>1, Zenon DEF Pop, HandsInv, EmptyHanded
  <2>2. Queued = batch' \cup Queued'
    BY <1>1, PopEffects, Zenon
  <2> QED
    BY <2>1, <2>2, Zenon DEF Incoming
<1>q. ASSUME queue' = queue PROVE Queued' = Queued
  BY <1>q, Zenon DEF Queued
<1>2. ASSUME TakeRetry \/ CheckConsent \/ HoldForRetry
      PROVE  Incoming' = Incoming
  <2>1. Queued' = Queued
    BY <1>2, <1>q, Zenon DEF TakeRetry, CheckConsent, HoldForRetry, admissionVars
  <2> QED
    BY <1>2, <2>1, Zenon DEF Incoming, TakeRetry, CheckConsent, HoldForRetry
<1>3. ASSUME Discard \/ Filter \/ Insert \/ ReleaseAtBoundary
      PROVE  Incoming' \subseteq Incoming
  <2>1. Queued' = Queued
    BY <1>3, <1>q, ZenonT(30)
       DEF Discard, Filter, Insert, ReleaseAtBoundary, WorkerRelease, admissionVars
  <2>2. retry' = retry /\ batch' \subseteq batch /\ wpc \in Inbound
    BY <1>3, ZenonT(30) DEF Discard, Filter, Insert, ReleaseAtBoundary
  <2> QED
    BY <2>1, <2>2, Zenon DEF Incoming
<1>4. ASSUME DeliverCheck \/ Fetch \/ ReleaseQuarantined \/ Recheck \/ BeginWrite
             \/ EndWrite \/ Confirm \/ Acknowledge \/ ReleaseDelivered
             \/ WorkerPurge \/ WorkerReset
      PROVE  Incoming' \subseteq Incoming
  <2>1. Queued' = Queued
    BY <1>4, <1>q, ZenonT(30)
       DEF DeliverCheck, Fetch, ReleaseQuarantined, Recheck, BeginWrite, EndWrite,
           Confirm, Acknowledge, ReleaseDelivered, WorkerPurge, WorkerReset,
           WorkerRelease, admissionVars
  <2>2. retry' = retry
    BY <1>4, ZenonT(30)
       DEF DeliverCheck, Fetch, ReleaseQuarantined, Recheck, BeginWrite, EndWrite,
           Confirm, Acknowledge, ReleaseDelivered, WorkerPurge, WorkerReset
  <2>3. wpc' \notin Inbound
    BY <1>4, Zenon
       DEF DeliverCheck, Fetch, ReleaseQuarantined, Recheck, BeginWrite, EndWrite,
           Confirm, Acknowledge, ReleaseDelivered, WorkerPurge, WorkerReset,
           DeliveryTypeOK
  <2> QED
    BY <2>1, <2>2, <2>3, Zenon DEF Incoming
<1> QED
  BY <1>1, <1>2, <1>3, <1>4, Zenon DEF Worker

\* An event on its way into the store is of the current generation exactly
\* when no revocation has come since it was admitted.
LEMMA GenerationStep ==
    ASSUME DeliveryInv, DeliveryNext
    PROVE  GenerationInv'
<1> USE DEF up, Granted, workerVars
<1>t. DeliveryTypeOK /\ TypeOK /\ HandsInv /\ OwedInv /\ GenerationInv
  BY Zenon DEF DeliveryInv, DeliveryTypeOK
<1>r. /\ Len(admitted) \in Nat /\ DOMAIN admitted = 1..Len(admitted)
      /\ revoked \in Nat /\ revoked <= Len(admitted)
      /\ generation \in Nat /\ wgen \in Nat
  BY <1>t, RevocationOrder, Zenon
<1>i. Incoming \subseteq DOMAIN admitted
  BY <1>t, Zenon DEF Incoming, Queued, HandsInv, DeliveryTypeOK
<1>e. \A e \in DOMAIN admitted : e \in Nat /\ e <= Len(admitted) /\ admitted[e].gen \in Nat
  BY <1>t, <1>r, EventFields
<1>1. CASE Client
  <2>1. /\ up /\ UNCHANGED <<generation, wpc, batch, wgen, revoked>>
    BY <1>1, ClientEffects, Zenon DEF historyVars, revocationVars
  <2>2. CASE Pushing
    <3>1. Incoming' = Incoming \cup {Len(admitted) + 1}
      BY <1>1, <1>t, <2>2, ClientIncoming, Zenon
    <3>2. /\ \A e \in DOMAIN admitted : admitted'[e] = admitted[e]
          /\ admitted'[Len(admitted) + 1].gen = generation
          /\ op' \notin PushOps
      BY <1>t, <2>2, PushEffects, OpNames, Zenon DEF GenerationInv, Pushing
    <3>3. batch \subseteq DOMAIN admitted
      BY <1>t, Zenon DEF DeliveryTypeOK
    <3> QED
      BY <1>t, <1>r, <1>i, <1>e, <2>1, <3>1, <3>2, <3>3, SMTT(30) DEF GenerationInv
  <2>3. CASE ~Pushing
    <3>1. Incoming' = Incoming /\ admitted' = admitted
      BY <1>1, <1>t, <2>3, ClientIncoming, Zenon
    <3>2. op' \in PushOps => pending'.gen = generation
      BY <1>1, <1>t, <2>3, ClientEffects, OpNames, Zenon
         DEF GenerationInv, Reserving, Refusing, Passing
    <3> QED
      BY <1>t, <2>1, <3>1, <3>2, Zenon DEF GenerationInv
  <2> QED
    BY <2>2, <2>3, Zenon
<1>2. CASE Worker
  <2>1. /\ Incoming' \subseteq Incoming
        /\ UNCHANGED <<generation, op, pending, admitted, revoked>>
    BY <1>2, <1>t, WorkerFrame, WorkerIncoming, Zenon
  <2>2. CASE CheckConsent
    <3>1. batch' = batch /\ batch \subseteq Incoming /\ wgen' = generation
          /\ wpc' # "insert"
      BY <2>2, Zenon DEF CheckConsent, Incoming, Inbound
    <3> QED
      BY <1>t, <1>r, <2>1, <3>1 DEF GenerationInv
  <2>3. CASE Filter
    <3>1. /\ wpc = "filter" /\ wpc' # "filter" /\ wgen' = wgen
          /\ \A e \in batch' : e \in batch /\ admitted[e].gen = wgen
      BY <2>3, Zenon DEF Filter, Stale
    <3> QED
      BY <1>t, <2>1, <3>1, Zenon DEF GenerationInv
  <2>4. CASE ~(CheckConsent \/ Filter)
    <3>1. wpc' \notin {"filter", "insert"}
      BY <1>2, <1>t, <2>4, ZenonT(30)
         DEF Worker, Pop, TakeRetry, Discard, Insert, ReleaseAtBoundary,
             HoldForRetry, DeliverCheck, Fetch, ReleaseQuarantined, Recheck,
             BeginWrite, EndWrite, Confirm, Acknowledge, ReleaseDelivered,
             WorkerPurge, WorkerReset, DeliveryTypeOK
    <3> QED
      BY <1>t, <2>1, <3>1, Zenon DEF GenerationInv
  <2> QED
    BY <2>2, <2>3, <2>4, Zenon
<1>3. CASE Revoke
  <2>1. /\ UNCHANGED <<wpc, batch, wgen, admitted>>
        /\ op' \notin PushOps /\ generation' = generation + 1
        /\ revoked' = Len(admitted)
    BY <1>3, OpNames, Zenon DEF Revoke, RevokeBegin
  <2>2. Incoming' \subseteq Incoming
    BY <1>3 DEF Revoke, RevokeBegin, Incoming, Queued
  <2> QED
    BY <1>t, <1>r, <1>i, <1>e, <2>1, <2>2, SMTT(30) DEF GenerationInv
<1>4. CASE GrantCall \/ Mark \/ Purge \/ Reset \/ GrantReturn \/ CorruptRow
  <2>1. Incoming' = Incoming
    BY <1>4, ConsentFrame, Zenon DEF Incoming, Queued
  <2> QED
    BY <1>t, <1>4, <2>1, ConsentFrame, Zenon DEF GenerationInv
<1>5. CASE Crash \/ (\E c \in {"Granted", "Denied"} : Create(c))
  <2>1. Incoming' = {} /\ wpc' \in {"down", "pop"} /\ op' \notin PushOps
    BY <1>t, <1>5, OpNames DEF HandsInv, Crash, Create, Incoming, Queued, Inbound
  <2> QED
    BY <2>1, Zenon DEF GenerationInv
<1> QED
  BY <1>1, <1>2, <1>3, <1>4, <1>5, ZenonT(30) DEF DeliveryNext, SetConsent

\* What the worker drops or purges, having seen consent withdrawn, was admitted
\* before that, even if consent is back by now.
LEMMA WithdrawnStep ==
    ASSUME DeliveryInv, DeliveryNext
    PROVE  WithdrawnInv'
<1>t. /\ DeliveryTypeOK /\ TypeOK /\ HandsInv /\ OwedInv /\ GenerationInv
      /\ WithdrawnInv
  BY Zenon DEF DeliveryInv, DeliveryTypeOK
<1>r. /\ Len(admitted) \in Nat /\ DOMAIN admitted = 1..Len(admitted)
      /\ revoked \in Nat /\ generation \in Nat /\ wgen \in Nat
  BY <1>t, RevocationOrder, Zenon
<1>s. batch \subseteq 1..Len(admitted) /\ rows \subseteq 1..Len(admitted)
  BY <1>t, <1>r, Zenon DEF DeliveryTypeOK
<1>d. ASSUME up, ~Granted PROVE rows \subseteq 1..revoked /\ batch \subseteq 1..revoked
  BY <1>d, <1>s, <1>t, Zenon DEF OwedInv
<1>1. CASE Client
  <2>1. UNCHANGED <<wpc, batch, wgen, rows, generation, revoked>>
    BY <1>1, ClientEffects, Zenon DEF workerVars, storeVars, historyVars, revocationVars
  <2> QED
    BY <1>t, <2>1, Zenon DEF WithdrawnInv
<1>2. CASE Worker
  <2>f. UNCHANGED <<generation, revoked>>
    BY <1>2, WorkerFrame, Zenon
  <2> USE DEF up, storeVars
  <2>1. CASE CheckConsent \/ DeliverCheck \/ Recheck
    BY <1>d, <2>f, <2>1, Zenon DEF CheckConsent, DeliverCheck, Recheck, WithdrawnInv
  <2>2. CASE Discard \/ BeginWrite \/ EndWrite
    BY <1>t, <2>f, <2>2, Zenon DEF Discard, BeginWrite, EndWrite, WithdrawnInv
  <2>3. CASE Insert
    <3>1. CASE StillConsented
      BY <2>f, <2>3, <3>1, Zenon DEF Insert, WithdrawnInv
    <3>2. CASE ~StillConsented
      <4>1. batch \subseteq Incoming
        BY <2>3, Zenon DEF Insert, Incoming, Inbound
      <4>2. ASSUME wgen # generation PROVE \A e \in batch : ~(e > revoked)
        BY <1>t, <2>3, <4>1, <4>2, ZenonT(30) DEF Insert, GenerationInv
      <4>3. batch \subseteq 1..revoked
        BY <1>d, <1>r, <1>s, <2>3, <3>2, <4>2, SMTT(30) DEF Insert, StillConsented
      <4> QED
        BY <2>f, <2>3, <3>2, <4>3, ZenonT(30) DEF Insert, WithdrawnInv
    <3> QED
      BY <3>1, <3>2, Zenon
  <2>4. CASE Confirm
    BY <1>t, <1>d, <2>f, <2>4, ZenonT(30) DEF Confirm, StillConsented, WithdrawnInv
  <2>5. CASE Pop \/ TakeRetry \/ Filter \/ ReleaseAtBoundary \/ HoldForRetry
    BY <2>5, Zenon DEF Pop, TakeRetry, Filter, ReleaseAtBoundary, HoldForRetry, WithdrawnInv
  <2>6. CASE Fetch \/ ReleaseQuarantined \/ Acknowledge \/ ReleaseDelivered
    BY <2>6, Zenon DEF Fetch, ReleaseQuarantined, Acknowledge, ReleaseDelivered, WithdrawnInv
  <2>7. CASE WorkerPurge \/ WorkerReset
    BY <1>t, <2>7, Zenon DEF WorkerPurge, WorkerReset, DeliveryTypeOK, WithdrawnInv
  <2> QED
    BY <1>2, <2>1, <2>2, <2>3, <2>4, <2>5, <2>6, <2>7, ZenonT(30) DEF Worker
<1>3. CASE Revoke
  BY <1>s, <1>3, Zenon DEF Revoke, storeVars, WithdrawnInv
<1>4. CASE GrantCall \/ Mark \/ Purge \/ Reset \/ GrantReturn \/ CorruptRow
  <2>1. UNCHANGED <<wpc, batch, wgen, generation, revoked>>
    BY <1>4, ConsentFrame, Zenon DEF workerVars
  <2>2. rows' \subseteq rows
    BY <1>4, Zenon DEF GrantCall, Mark, Purge, Reset, GrantReturn, CorruptRow, storeVars,
                StoreMark, Store!Mark, StorePurge, Store!Purge, Store!Damage
  <2> QED
    BY <1>t, <2>1, <2>2, Zenon DEF WithdrawnInv
<1>5. CASE Crash \/ (\E c \in {"Granted", "Denied"} : Create(c))
  <2>1. wpc' \in {"down", "pop"}
    BY <1>5, Zenon DEF Crash, Create, up
  <2> QED
    BY <2>1, Zenon DEF WithdrawnInv
<1> QED
  BY <1>1, <1>2, <1>3, <1>4, <1>5, Zenon DEF DeliveryNext, SetConsent

\* No step loses an accepted event.
LEMMA KeptStep ==
    ASSUME DeliveryInv, DeliveryNext
    PROVE  KeptInv'
<1>t. /\ DeliveryTypeOK /\ TypeOK /\ HandsInv /\ OwedInv /\ GenerationInv
      /\ WithdrawnInv /\ KeptInv
  BY Zenon DEF DeliveryInv, DeliveryTypeOK
<1>r. /\ Len(admitted) \in Nat /\ DOMAIN admitted = 1..Len(admitted)
      /\ revoked \in Nat /\ generation \in Nat /\ wgen \in Nat
  BY <1>t, RevocationOrder, Zenon
<1>1. CASE Client
  <2>1. UNCHANGED <<rows, settled, revoked>>
    BY <1>1, ClientEffects, Zenon DEF storeVars, historyVars, revocationVars
  <2>2. Pushing => DOMAIN admitted' = DOMAIN admitted \cup {Len(admitted) + 1}
    BY <1>t, PushEffects, Zenon
  <2> QED
    BY <1>1, <1>t, <2>1, <2>2, ClientIncoming, ZenonT(30) DEF KeptInv
<1>2. CASE Worker
  <2>f. UNCHANGED <<generation, revoked, admitted>>
    BY <1>2, WorkerFrame, Zenon
  <2>q. ASSUME queue' = queue PROVE Queued' = Queued
    BY <2>q, Zenon DEF Queued
  <2>1. CASE Pop \/ TakeRetry \/ CheckConsent \/ HoldForRetry
    <3>1. UNCHANGED <<rows, settled>>
      BY <2>1, Zenon DEF Pop, TakeRetry, CheckConsent, HoldForRetry, storeVars, historyVars
    <3> QED
      BY <1>t, <1>2, <2>f, <2>1, <3>1, WorkerIncoming, Zenon DEF KeptInv
  <2>2. CASE Discard \/ ReleaseAtBoundary
    <3>1. /\ UNCHANGED <<rows, settled, retry, queue>>
          /\ wpc \in {"discard", "boundary"}
      BY <2>2, Zenon DEF Discard, ReleaseAtBoundary, WorkerRelease, storeVars, historyVars
    <3> QED
      BY <1>t, <2>f, <2>q, <3>1, Zenon DEF WithdrawnInv, Incoming, KeptInv
  <2>3. CASE Filter
    <3>1. PICK bad : batch' = batch \ (Stale \cup bad) /\ settled' = settled \cup bad
      BY <2>3, Zenon DEF Filter
    <3>2. UNCHANGED <<rows, retry, queue>> /\ wpc = "filter"
      BY <2>3, Zenon DEF Filter, WorkerRelease, storeVars
    <3>3. Stale \subseteq 1..revoked
      <4>1. Stale \subseteq Incoming /\ Stale \subseteq DOMAIN admitted
        BY <1>t, <3>2, Zenon DEF Stale, Incoming, Inbound, DeliveryTypeOK
      <4>2. ASSUME NEW e \in Stale PROVE ~(e > revoked)
        <5>1. e \in batch /\ admitted[e].gen # wgen /\ e \in DOMAIN admitted
              /\ e \in Incoming
          BY <4>1, Zenon DEF Stale
        <5>2. admitted[e].gen <= wgen /\ wgen <= generation
          BY <1>t, <3>2, <5>1, Zenon DEF GenerationInv
        <5>3. admitted[e].gen \in Nat
          BY <1>t, <5>1, EventFields, Zenon
        <5>4. admitted[e].gen # generation
          BY <1>r, <5>1, <5>2, <5>3, SMTT(30)
        <5> QED
          BY <1>t, <5>1, <5>4, Zenon DEF GenerationInv
      <4> QED
        BY <1>r, <4>1, <4>2
    <3>4. wpc' \in Inbound \/ batch' = {}
      BY <2>3, Zenon DEF Filter, Inbound
    <3>5. Incoming \subseteq Incoming' \cup Stale \cup bad
      BY <2>q, <3>1, <3>2, <3>4, Zenon DEF Incoming
    <3> QED
      BY <1>t, <2>f, <3>1, <3>2, <3>3, <3>5, ZenonT(30) DEF KeptInv
  <2>4. CASE Insert
    <3>1. UNCHANGED <<settled, retry, queue>> /\ wpc = "insert"
      BY <2>4, Zenon DEF Insert, admissionVars, historyVars
    <3>2. \/ rows' = rows /\ batch' = batch /\ wpc' \in Inbound
          \/ rows' = rows \cup batch
      BY <2>4, Zenon DEF Insert, StoreInsert, Store!Insert, Inbound, storeVars
    <3> QED
      BY <1>t, <2>f, <2>q, <3>1, <3>2, Zenon DEF Incoming, KeptInv
  <2> USE DEF storeVars, historyVars, admissionVars
  <2>5. CASE DeliverCheck \/ ReleaseQuarantined \/ Recheck \/ BeginWrite
             \/ EndWrite \/ Confirm \/ ReleaseDelivered \/ WorkerReset
    <3>2. UNCHANGED <<rows, settled, retry, queue>>
      BY <2>5, ZenonT(30)
         DEF DeliverCheck, ReleaseQuarantined, Recheck, BeginWrite, EndWrite,
             Confirm, ReleaseDelivered, WorkerReset, WorkerRelease
    <3>3. wpc \notin Inbound
      BY <2>5, Zenon
         DEF DeliverCheck, ReleaseQuarantined, Recheck, BeginWrite, EndWrite,
             Confirm, ReleaseDelivered, WorkerReset, Inbound
    <3>1. UNCHANGED <<rows, settled, retry, queue>> /\ wpc \notin Inbound
      BY <3>2, <3>3, Zenon
    <3> QED
      BY <1>t, <2>f, <2>q, <3>1, ZenonT(30) DEF Incoming, KeptInv
  <2>6. CASE Fetch \/ Acknowledge
    <3>1. /\ UNCHANGED <<retry, queue>> /\ wpc \notin Inbound
          /\ rows \subseteq rows' \cup settled' /\ settled \subseteq settled'
      BY <2>6, Zenon DEF Fetch, Acknowledge, StoreDelete, Store!Delete, Inbound
    <3> QED
      BY <1>t, <2>f, <2>q, <3>1, ZenonT(30) DEF Incoming, KeptInv
  <2>7. CASE WorkerPurge
    <3>1. UNCHANGED <<settled, retry, queue>> /\ wpc = "purge"
      BY <2>7, Zenon DEF WorkerPurge
    <3>2. rows \subseteq rows' \/ rows \subseteq 1..revoked
      BY <1>t, <3>1, Zenon DEF WithdrawnInv
    <3>3. wpc \notin Inbound
      BY <3>1, Zenon DEF Inbound
    <3> QED
      BY <1>t, <2>f, <2>q, <3>1, <3>2, <3>3, ZenonT(30) DEF Incoming, KeptInv
  <2> QED
    BY <1>2, <2>1, <2>2, <2>3, <2>4, <2>5, <2>6, <2>7, ZenonT(30) DEF Worker
<1>3. CASE Revoke
  <2>1. revoked' = Len(admitted) /\ admitted' = admitted
    BY <1>3, Zenon DEF Revoke, RevokeBegin
  <2> QED
    BY <1>r, <2>1, Zenon DEF KeptInv
<1>4. CASE GrantCall \/ Mark \/ Purge \/ Reset \/ GrantReturn \/ CorruptRow
  <2>1. UNCHANGED <<admitted, settled, revoked>> /\ Incoming' = Incoming
    BY <1>4, ConsentFrame, Zenon DEF workerVars, Incoming, Queued
  <2>2. CASE Purge
    <3>1. revoked = Len(admitted)
      BY <1>t, <2>2, Zenon DEF Purge, HandsInv, OwedInv
    <3> QED
      BY <1>r, <2>1, <3>1, Zenon DEF KeptInv
  <2>3. CASE ~Purge
    <3>1. rows' = rows
      BY <1>4, <2>3, Zenon DEF GrantCall, Mark, Reset, GrantReturn, CorruptRow, storeVars,
                        StoreMark, Store!Mark, Store!Damage
    <3> QED
      BY <1>t, <2>1, <3>1, Zenon DEF KeptInv
  <2> QED
    BY <2>2, <2>3, Zenon
<1>5. CASE Crash
  <2>1. /\ UNCHANGED <<rows, admitted, revoked>>
        /\ settled' = settled \cup ((Queued \cup retry \cup batch) \ rows)
    BY <1>5, Zenon DEF Crash, storeVars, revocationVars
  <2> QED
    BY <1>t, <2>1, Zenon DEF Incoming, KeptInv
<1>6. ASSUME NEW c \in {"Granted", "Denied"}, Create(c) PROVE KeptInv'
  <2>1. UNCHANGED <<admitted, settled, queue, retry>> /\ wpc \notin Inbound
    BY <1>6, Zenon DEF Create, up, Inbound
  <2>2. revoked' = Len(admitted) \/ UNCHANGED <<rows, revoked>>
    BY <1>6, Zenon DEF Create, PurgeOwed, storeVars, revocationVars
  <2>3. Incoming \subseteq Incoming'
    BY <2>1, Zenon DEF Incoming, Queued
  <2> QED
    BY <1>r, <1>t, <2>1, <2>2, <2>3, ZenonT(30) DEF KeptInv
<1> QED
  BY <1>1, <1>2, <1>3, <1>4, <1>5, <1>6, ZenonT(30) DEF DeliveryNext, SetConsent

\* Only a write whose consent check has passed can begin without consent.
LEMMA LateStep ==
    ASSUME DeliveryInv, DeliveryNext
    PROVE  LateInv'
<1>t. DeliveryTypeOK /\ LateInv
  BY Zenon DEF DeliveryInv
<1> USE DEF LateInv, Granted
<1>1. CASE Client
  BY <1>1, <1>t, ClientEffects, Zenon DEF workerVars, historyVars
<1>2. CASE BeginWrite
  BY <1>2, <1>t DEF BeginWrite, admissionVars
<1>3. CASE Recheck
  BY <1>3, <1>t, Zenon DEF Recheck, admissionVars, historyVars
<1>4. CASE Worker /\ ~BeginWrite /\ ~Recheck
  <2>1. consent' = consent
    BY <1>4, WorkerFrame, Zenon
  <2>2. lateWrites' = lateWrites
    BY <1>4, ZenonT(30)
       DEF Worker, Pop, TakeRetry, CheckConsent, Discard, Filter, Insert,
           ReleaseAtBoundary, HoldForRetry, DeliverCheck, Fetch,
           ReleaseQuarantined, EndWrite, Confirm, Acknowledge,
           ReleaseDelivered, WorkerPurge, WorkerReset, historyVars
  <2>3. wpc' # "write"
    BY <1>4, <1>t, ZenonT(30)
       DEF Worker, Pop, TakeRetry, CheckConsent, Discard, Filter, Insert,
           ReleaseAtBoundary, HoldForRetry, DeliverCheck, Fetch,
           ReleaseQuarantined, EndWrite, Confirm, Acknowledge,
           ReleaseDelivered, WorkerPurge, WorkerReset, DeliveryTypeOK
  <2> QED
    BY <1>t, <2>1, <2>2, <2>3, ZenonT(30)
<1>5. CASE Revoke \/ GrantReturn
  BY <1>5, Zenon DEF Revoke, GrantReturn
<1>6. CASE GrantCall \/ Mark \/ Purge \/ Reset \/ CorruptRow
  BY <1>6, <1>t, Zenon DEF GrantCall, Mark, Purge, Reset, CorruptRow, WorkerRelease,
                    admissionVars, workerVars, historyVars
<1>7. CASE Crash
  BY <1>7, <1>t, Zenon DEF Crash
<1>8. ASSUME NEW c \in {"Granted", "Denied"}, Create(c) PROVE LateInv'
  BY <1>8, <1>t, Zenon DEF Create
<1> QED
  BY <1>1, <1>2, <1>3, <1>4, <1>5, <1>6, <1>7, <1>8, ZenonT(30)
     DEF DeliveryNext, Worker, SetConsent
=============================================================================
