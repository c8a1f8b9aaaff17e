--------------------------- MODULE DeliveryProofs ---------------------------
(***************************************************************************)
(* DeliveryInv is inductive; the properties of Delivery and the refinement *)
(* of Admission follow from it.  First the order and capacity;             *)
(* DeliveryStepProofs has the other conjuncts.                             *)
(***************************************************************************)
EXTENDS DeliveryStepProofs

-----------------------------------------------------------------------------
(* Order *)

\* fetch_pending's window: no row outside it has a lower ordinal.
LEMMA FirstRowsOrdered ==
    ASSUME DeliveryTypeOK, OrderInv, NEW k \in Nat,
           NEW e \in FirstRows(k), NEW f \in rows \ FirstRows(k)
    PROVE  Ordinal(e) < Ordinal(f)
<1> DEFINE Below(x) == {g \in rows : Ordinal(g) < Ordinal(x)}
<1>t. TypeOK /\ rows \subseteq DOMAIN admitted
  BY Zenon DEF DeliveryTypeOK
<1>1. e \in rows /\ f \in rows /\ Cardinality(Below(e)) < k
      /\ ~(Cardinality(Below(f)) < k)
  BY Zenon DEF FirstRows
<1>2. \A x \in rows : Ordinal(x) \in Nat /\ x \in Nat
  BY <1>t, EventFields, RevocationOrder, Zenon DEF Ordinal
<1>3. \A x \in rows : Below(x) \subseteq DOMAIN admitted /\ Cardinality(Below(x)) \in Nat
                      /\ IsFiniteSet(Below(x))
  BY <1>t, Sizes, Zenon
<1>4. CASE e < f
  BY <1>1, <1>4, Zenon DEF OrderInv, Live
<1>5. CASE f < e
  <2>1. Ordinal(f) < Ordinal(e)
    BY <1>1, <1>5, Zenon DEF OrderInv, Live
  <2>2. Below(f) \subseteq Below(e)
    BY <1>1, <1>2, <2>1
  <2>3. Cardinality(Below(f)) <= Cardinality(Below(e))
    BY <1>1, <1>3, <2>2, FS_Subset, ZenonT(30)
  <2> QED
    BY <1>1, <1>3, <2>3
<1> QED
  BY <1>1, <1>2, <1>4, <1>5

\* The worker does not bring an event back to life.
LEMMA WorkerLive ==
    ASSUME TypeOK, DeliveryTypeOK, HandsInv, Worker
    PROVE  Live' \subseteq Live
<1>1. Incoming' \subseteq Incoming
  BY WorkerIncoming, Zenon
<1>2. CASE Pop
  <2>1. batch' \subseteq Queued /\ rows' = rows
    BY <1>2, PopEffects, Zenon DEF Pop, storeVars
  <2> QED
    BY <1>1, <2>1, Zenon DEF Live, Incoming
<1>3. CASE TakeRetry \/ Insert \/ Fetch
  <2>1. batch' \subseteq rows \cup retry \cup batch /\ rows' \subseteq rows \cup batch
    BY <1>3, ZenonT(30) DEF TakeRetry, Insert, Fetch, StoreInsert, Store!Insert, StoreDelete,
                Store!Delete, FirstRows, storeVars
  <2> QED
    BY <1>1, <2>1, Zenon DEF Live, Incoming
<1>4. CASE CheckConsent \/ Discard \/ Filter \/ ReleaseAtBoundary \/ HoldForRetry
           \/ DeliverCheck \/ ReleaseQuarantined \/ Recheck
  <2>1. batch' \subseteq batch /\ rows' = rows
    BY <1>4, ZenonT(30) DEF CheckConsent, Discard, Filter, ReleaseAtBoundary, HoldForRetry,
                DeliverCheck, ReleaseQuarantined, Recheck, storeVars
  <2> QED
    BY <1>1, <2>1, Zenon DEF Live
<1>5. CASE BeginWrite \/ EndWrite \/ Confirm \/ Acknowledge \/ ReleaseDelivered
           \/ WorkerPurge \/ WorkerReset
  <2>1. batch' \subseteq batch /\ rows' \subseteq rows
    BY <1>5, Zenon DEF BeginWrite, EndWrite, Confirm, Acknowledge, ReleaseDelivered,
                WorkerPurge, WorkerReset, StoreDelete, Store!Delete, StorePurge,
                Store!Purge, storeVars
  <2> QED
    BY <1>1, <2>1, Zenon DEF Live
<1> QED
  BY <1>2, <1>3, <1>4, <1>5, ZenonT(30) DEF Worker

\* Ordinals and the events they belong to.
LEMMA LiveEvents ==
    ASSUME DeliveryTypeOK, HandsInv
    PROVE  /\ Queued \subseteq DOMAIN admitted /\ Incoming \subseteq DOMAIN admitted
           /\ Live \subseteq DOMAIN admitted
           /\ \A e \in DOMAIN admitted :
                e \in Nat /\ e <= Len(admitted) /\ Ordinal(e) \in Nat
           /\ Len(admitted) \in Nat /\ ordinal \in Nat
<1>1. TypeOK /\ Len(admitted) \in Nat /\ ordinal \in Nat
      /\ DOMAIN admitted = 1..Len(admitted)
  BY DEF DeliveryTypeOK, TypeOK
<1>2. Queued \subseteq DOMAIN admitted
  BY Zenon DEF Queued, HandsInv
<1> QED
  BY <1>1, <1>2, EventFields, SMTT(30) DEF DeliveryTypeOK, Live, Incoming, Ordinal

\* The producers keep the order: a new event has the highest ordinal.
LEMMA ClientOrder ==
    ASSUME DeliveryTypeOK, HandsInv, OrderInv, Client
    PROVE  OrderInv'
<1>t. TypeOK
  BY Zenon DEF DeliveryTypeOK
<1>l. /\ Queued \subseteq DOMAIN admitted /\ Incoming \subseteq DOMAIN admitted
      /\ Live \subseteq DOMAIN admitted
      /\ \A e \in DOMAIN admitted :
           e \in Nat /\ e <= Len(admitted) /\ Ordinal(e) \in Nat
      /\ Len(admitted) \in Nat /\ ordinal \in Nat
  BY LiveEvents, Zenon
<1>s. /\ rows \subseteq Live /\ batch \subseteq Live /\ retry \subseteq DOMAIN admitted
      /\ batch \subseteq DOMAIN admitted /\ rows \subseteq DOMAIN admitted
  BY Zenon DEF DeliveryTypeOK, Live
<1>1. UNCHANGED <<wpc, batch, retry, rows, corrupt>>
  BY ClientEffects, Zenon DEF workerVars, storeVars
<1>2. CASE Pushing
  <2>n. PICK n : n = Len(admitted) + 1
    OBVIOUS
  <2>1. /\ DOMAIN admitted' = DOMAIN admitted \cup {n}
        /\ \A e \in DOMAIN admitted : admitted'[e] = admitted[e]
        /\ admitted'[n] = pending
        /\ Queued' = Queued \cup {n}
        /\ Len(queue) \in Nat /\ DOMAIN queue = 1..Len(queue)
        /\ DOMAIN queue' = DOMAIN queue \cup {Len(queue) + 1}
        /\ \A k \in DOMAIN queue : queue'[k] = queue[k]
        /\ queue'[Len(queue) + 1] = n
    BY <1>t, <1>2, <2>n, PushEffects, ZenonT(30)
  <2>2. Incoming' = Incoming \cup {n} /\ Live' = Live \cup {n}
    BY <1>t, <1>1, <1>2, <2>n, ClientIncoming, ZenonT(30) DEF Live
  <2>3. /\ op \in PushOps /\ op' \notin PushOps /\ ordinal' = ordinal
        /\ pending.ordinal = ordinal
    BY <1>2, OpNames, Zenon DEF Pushing, OrderInv
  <2>4. /\ \A e \in DOMAIN admitted : Ordinal(e)' = Ordinal(e) /\ e < n
        /\ Ordinal(n)' = ordinal
    BY <1>l, <2>n, <2>1, <2>3 DEF Ordinal
  <2>5. \A e \in Live : Ordinal(e) < ordinal
    BY <2>3, Zenon DEF OrderInv
  <2>6. \A e, f \in Live' : e < f => Ordinal(e)' < Ordinal(f)'
    <3> SUFFICES ASSUME NEW e \in Live', NEW f \in Live', e < f
                 PROVE  Ordinal(e)' < Ordinal(f)'
      OBVIOUS
    <3>1. CASE e = n
      BY <1>l, <2>n, <2>2, <2>4, <3>1
    <3>2. CASE f = n /\ e \in Live
      BY <1>l, <2>4, <2>5, <3>2, Zenon
    <3>3. CASE e \in Live /\ f \in Live
      BY <1>l, <2>4, <3>3, ZenonT(30) DEF OrderInv
    <3> QED
      BY <2>2, <3>1, <3>2, <3>3, Zenon
  <2>7. \A e \in Live' : Ordinal(e)' <= ordinal
    BY <1>l, <2>2, <2>4, <2>5
  <2>8. \A e \in rows, f \in Incoming' : e < f
    BY <1>s, <2>2, <2>4, Zenon DEF OrderInv
  <2>9. \A e \in retry, f \in Queued' : e < f
    BY <1>s, <2>1, <2>4, Zenon DEF OrderInv
  <2>10. wpc \in Inbound => \A e \in batch, f \in Queued' : e < f
    BY <1>s, <2>1, <2>4, Zenon DEF OrderInv
  <2>11. \A i, j \in DOMAIN queue' : i < j => queue'[i] < queue'[j]
    <3> SUFFICES ASSUME NEW i \in DOMAIN queue', NEW j \in DOMAIN queue', i < j
                 PROVE  queue'[i] < queue'[j]
      OBVIOUS
    <3>1. CASE j = Len(queue) + 1
      <4>1. i \in DOMAIN queue
        BY <2>1, <3>1
      <4>2. queue'[i] = queue[i] /\ queue[i] \in DOMAIN admitted
        BY <2>1, <4>1, Zenon DEF HandsInv
      <4> QED
        BY <2>1, <2>4, <3>1, <4>2, ZenonT(30)
    <3>2. CASE j # Len(queue) + 1
      <4>1. j \in DOMAIN queue /\ i \in DOMAIN queue
        BY <2>1, <3>2
      <4> QED
        BY <2>1, <4>1, Zenon DEF OrderInv
    <3> QED
      BY <3>1, <3>2, Zenon
  <2>12. wpc \in {"quarantine", "recheck", "write"} =>
           \A e \in batch, f \in (((rows \ corrupt) \cup retry \cup Queued') \ batch) :
             Ordinal(e)' < Ordinal(f)'
    <3> SUFFICES ASSUME wpc \in {"quarantine", "recheck", "write"}, NEW e \in batch,
                        NEW f \in (((rows \ corrupt) \cup retry \cup Queued') \ batch)
                 PROVE  Ordinal(e)' < Ordinal(f)'
      OBVIOUS
    <3>1. CASE f = n
      BY <1>s, <2>4, <2>5, <3>1, Zenon
    <3>2. CASE f # n
      <4>1. f \in ((rows \ corrupt) \cup retry \cup Queued) \ batch
        BY <2>1, <3>2, Zenon
      <4>2. Ordinal(e) < Ordinal(f)
        BY <4>1, Zenon DEF OrderInv
      <4>3. f \in DOMAIN admitted
        BY <1>l, <1>s, <4>1, ZenonT(30)
      <4> QED
        BY <1>s, <2>4, <4>2, <4>3, Zenon
    <3> QED
      BY <3>1, <3>2, Zenon
  <2> QED
    BY <1>1, <2>3, <2>6, <2>7, <2>8, <2>9, <2>10, <2>11, <2>12, ZenonT(30) DEF OrderInv
<1>3. CASE ~Pushing
  <2>1. /\ Incoming' = Incoming /\ queue' = queue /\ admitted' = admitted
    BY <1>t, <1>3, ClientIncoming, Zenon
  <2>2. Live' = Live /\ Queued' = Queued /\ \A e : Ordinal(e)' = Ordinal(e)
    BY <1>1, <2>1, Zenon DEF Live, Queued, Ordinal
  <2>3. op' \in PushOps => pending'.ordinal = ordinal'
    BY <1>3, ClientEffects, OpNames, Zenon DEF OrderInv, Reserving, Refusing, Passing
  <2>4. \A e \in Live :
          Ordinal(e) <= ordinal' /\ (op' \in PushOps => Ordinal(e) < ordinal')
    <3>1. \A e \in Live :
            Ordinal(e) <= ordinal /\ (op \in PushOps => Ordinal(e) < ordinal)
      BY Zenon DEF OrderInv
    <3>2. CASE Reserving
      BY <1>l, <3>1, <3>2 DEF Reserving
    <3>3. CASE Refusing \/ Passing
      BY <3>1, <3>3, OpNames, Zenon DEF Refusing, Passing
    <3> QED
      BY <1>3, <3>2, <3>3, ClientEffects, Zenon
  <2> QED
    BY <1>1, <2>1, <2>2, <2>3, <2>4, ZenonT(30) DEF OrderInv
<1> QED
  BY <1>2, <1>3, Zenon

\* The worker keeps the order: what it moves on is older than what stays.
LEMMA WorkerOrder ==
    ASSUME DeliveryTypeOK, HandsInv, OrderInv, Worker
    PROVE  OrderInv'
<1>t. TypeOK
  BY Zenon DEF DeliveryTypeOK
<1>f. UNCHANGED <<ordinal, op, pending, admitted>>
  BY WorkerFrame, Zenon
<1>o. \A e : Ordinal(e)' = Ordinal(e)
  BY <1>f, Zenon DEF Ordinal
<1>q. ASSUME queue' = queue PROVE Queued' = Queued
  BY <1>q, Zenon DEF Queued
<1>i. Incoming' \subseteq Incoming
  BY <1>t, WorkerIncoming, Zenon
<1>1. /\ \A e, f \in Live' : e < f => Ordinal(e)' < Ordinal(f)'
      /\ \A e \in Live' :
           Ordinal(e)' <= ordinal' /\ (op' \in PushOps => Ordinal(e)' < ordinal')
      /\ op' \in PushOps => pending'.ordinal = ordinal'
  BY <1>t, <1>f, <1>o, WorkerLive, ZenonT(30) DEF OrderInv
<1>2. CASE Pop
  <2>1. PICK n \in 0..Len(queue) :
          /\ Len(queue) \in Nat /\ DOMAIN queue = 1..Len(queue)
          /\ batch' = {queue[k] : k \in 1..n}
          /\ DOMAIN queue' = 1..(Len(queue) - n)
          /\ \A k \in DOMAIN queue' : queue'[k] = queue[k + n]
          /\ Queued = batch' \cup Queued'
    BY <1>t, <1>2, PopEffects, Zenon
  <2>2. wpc' = "take" /\ UNCHANGED <<rows, retry>>
    BY <1>2, Zenon DEF Pop, storeVars
  <2>3. \A i, j \in DOMAIN queue' : i < j => queue'[i] < queue'[j]
    BY <2>1 DEF OrderInv
  <2>4. \A e \in batch', f \in Queued' : e < f
    <3> SUFFICES ASSUME NEW k \in 1..n, NEW m \in DOMAIN queue'
                 PROVE  queue[k] < queue'[m]
      BY <2>1, Zenon DEF Queued
    <3>1. k \in DOMAIN queue /\ m + n \in DOMAIN queue /\ k < m + n
      BY <2>1
    <3> QED
      BY <2>1, <3>1, Zenon DEF OrderInv
  <2>5. /\ \A e \in rows', f \in Incoming' : e < f
        /\ \A e \in retry', f \in Queued' : e < f
    BY <1>i, <2>1, <2>2, Zenon DEF OrderInv
  <2> QED
    BY <1>1, <2>2, <2>3, <2>4, <2>5, ZenonT(30) DEF OrderInv
<1>3. CASE TakeRetry \/ CheckConsent \/ Discard \/ Filter \/ ReleaseAtBoundary
  <2>1. UNCHANGED <<queue, rows>>
    BY <1>3, ZenonT(30) DEF TakeRetry, CheckConsent, Discard, Filter, ReleaseAtBoundary,
                WorkerRelease, admissionVars, storeVars
  <2>2. /\ batch' \subseteq retry \cup batch /\ retry' \subseteq retry
        /\ wpc \in Inbound /\ wpc' \notin {"quarantine", "recheck", "write"}
    BY <1>3, ZenonT(30)
       DEF TakeRetry, CheckConsent, Discard, Filter, ReleaseAtBoundary, Inbound
  <2> QED
    BY <1>1, <1>i, <1>q, <2>1, <2>2, Zenon DEF OrderInv
<1>4. CASE Insert \/ HoldForRetry
  <2>1. UNCHANGED queue /\ wpc \in Inbound /\ retry = {}
    BY <1>4, Zenon DEF Insert, HoldForRetry, HandsInv, Inbound, admissionVars
  <2>2. /\ rows' \subseteq rows \cup batch /\ batch' \subseteq batch
        /\ retry' \subseteq batch /\ wpc' \notin {"quarantine", "recheck", "write"}
        /\ wpc' \in Inbound \/ batch' = {}
    BY <1>4, <2>1, Zenon
       DEF Insert, HoldForRetry, StoreInsert, Store!Insert, Inbound, storeVars
  <2>3. \A e \in rows', f \in Incoming' : e < f
    <3>1. CASE rows' = rows
      BY <1>i, <3>1, Zenon DEF OrderInv
    <3>2. CASE rows' # rows
      <4>1. Incoming' = Queued
        BY <1>4, <1>q, <2>1, <3>2, ZenonT(30)
           DEF Insert, HoldForRetry, Incoming, storeVars, Inbound
      <4>2. \A e \in rows \cup batch, f \in Queued : e < f
        BY <2>1, Zenon DEF OrderInv, Incoming
      <4> QED
        BY <2>2, <4>1, <4>2, ZenonT(30)
    <3> QED
      BY <3>1, <3>2, Zenon
  <2> QED
    BY <1>1, <1>q, <2>1, <2>2, <2>3, ZenonT(30) DEF OrderInv
<1>5. CASE Fetch
  <2>1. UNCHANGED <<queue, retry>> /\ wpc' = "quarantine" /\ wpc' \notin Inbound
    BY <1>5, Zenon DEF Fetch, admissionVars, Inbound
  <2>2. rows' \subseteq rows /\ rows' \ corrupt' \subseteq rows \ corrupt
    BY <1>5, Zenon DEF Fetch, StoreDelete, Store!Delete, storeVars
  <2>3. PICK k \in Nat : batch' = FirstRows(k) \ corrupt
    <3>1. CASE batch' = FirstRows(BatchSize) \ (FirstRows(BatchSize) \cap corrupt)
      BY <3>1, DeliveryAssumption, Zenon
    <3>2. CASE \E k \in 0..Cardinality(FirstRows(BatchSize)) :
                 batch' = FirstRows(k) \ corrupt
      BY <3>2
    <3> QED
      BY <1>5, <3>1, <3>2, Zenon DEF Fetch
  <2>4. ASSUME NEW e \in batch',
               NEW f \in (((rows' \ corrupt') \cup retry \cup Queued) \ batch')
        PROVE  Ordinal(e) < Ordinal(f)
    <3>1. e \in FirstRows(k) /\ e \in rows
      BY <2>3, Zenon DEF FirstRows
    <3>2. CASE f \in rows \ corrupt
      BY <2>3, <2>4, <3>1, <3>2, FirstRowsOrdered, Zenon
    <3>3. CASE f \in retry \cup Queued
      <4>1. f \in Incoming /\ f \in Live /\ e \in Live
        BY <3>1, <3>3, Zenon DEF Incoming, Live
      <4> QED
        BY <3>1, <4>1, Zenon DEF OrderInv
    <3> QED
      BY <2>2, <3>2, <3>3, Zenon
  <2> QED
    BY <1>1, <1>i, <1>o, <1>q, <2>1, <2>2, <2>4, ZenonT(30) DEF OrderInv
<1>6. CASE ReleaseQuarantined \/ Recheck
  <2>1. UNCHANGED <<queue, retry, rows, corrupt>> /\ wpc' \notin Inbound
    BY <1>6, Zenon DEF ReleaseQuarantined, Recheck, WorkerRelease, admissionVars,
                storeVars, Inbound
  <2>2. /\ wpc \in {"quarantine", "recheck"}
        /\ batch' = batch \/ wpc' \notin {"quarantine", "recheck", "write"}
    BY <1>6, Zenon DEF ReleaseQuarantined, Recheck
  <2> QED
    BY <1>1, <1>i, <1>o, <1>q, <2>1, <2>2, ZenonT(30) DEF OrderInv
<1>7. CASE DeliverCheck \/ BeginWrite \/ EndWrite \/ Confirm \/ Acknowledge
           \/ ReleaseDelivered \/ WorkerPurge \/ WorkerReset
  <2>1. UNCHANGED <<queue, retry>>
    BY <1>7, ZenonT(30)
       DEF DeliverCheck, BeginWrite, EndWrite, Confirm, Acknowledge,
           ReleaseDelivered, WorkerPurge, WorkerReset, WorkerRelease, admissionVars
  <2>2. rows' \subseteq rows
    BY <1>7, Zenon DEF DeliverCheck, BeginWrite, EndWrite, Confirm, Acknowledge,
           ReleaseDelivered, WorkerPurge, WorkerReset, storeVars, StoreDelete,
           Store!Delete, StorePurge, Store!Purge
  <2>3. wpc' \notin Inbound /\ wpc' \notin {"quarantine", "recheck", "write"}
    BY <1>7, Zenon DEF DeliverCheck, BeginWrite, EndWrite, Confirm, Acknowledge,
           ReleaseDelivered, WorkerPurge, WorkerReset, Inbound, DeliveryTypeOK
  <2> QED
    BY <1>1, <1>i, <1>q, <2>1, <2>2, <2>3, ZenonT(30) DEF OrderInv
<1> QED
  BY <1>2, <1>3, <1>4, <1>5, <1>6, <1>7, ZenonT(30) DEF Worker

\* Delivery order is kept by every step, a crash and a restart included.
LEMMA OrderStep ==
    ASSUME DeliveryInv, DeliveryNext
    PROVE  OrderInv'
<1>t. DeliveryTypeOK /\ TypeOK /\ HandsInv /\ OrderInv
  BY Zenon DEF DeliveryInv, DeliveryTypeOK
<1>1. CASE Client
  BY <1>1, <1>t, ClientOrder, Zenon
<1>2. CASE Worker
  BY <1>2, <1>t, WorkerOrder, Zenon
<1>3. CASE Revoke
  <2>1. /\ UNCHANGED <<ordinal, op, admitted, wpc, batch, rows, corrupt, pending>>
        /\ queue' = <<>> /\ retry' = {}
    BY <1>3, Zenon DEF Revoke, RevokeBegin, storeVars
  <2>2. /\ Queued' = {} /\ Incoming' \subseteq Incoming /\ Live' \subseteq Live
        /\ DOMAIN queue' = {}
    BY <2>1 DEF Queued, Incoming, Live
  <2>3. \A e : Ordinal(e)' = Ordinal(e)
    BY <2>1, Zenon DEF Ordinal
  <2> QED
    BY <1>t, <2>1, <2>2, <2>3, ZenonT(30) DEF OrderInv
<1>4. CASE GrantCall \/ Mark \/ Purge \/ Reset \/ GrantReturn \/ CorruptRow
  <2>1. UNCHANGED <<ordinal, op, pending, queue, admitted, wpc, batch, retry>>
    BY <1>4, ConsentFrame, Zenon DEF workerVars
  <2>2. rows' \subseteq rows /\ rows' \ corrupt' \subseteq rows \ corrupt
    BY <1>4, Zenon DEF GrantCall, Mark, Purge, Reset, GrantReturn, CorruptRow, storeVars,
                StoreMark, Store!Mark, StorePurge, Store!Purge, Store!Damage
  <2>3. Queued' = Queued /\ Incoming' = Incoming /\ Live' \subseteq Live
    BY <2>1, <2>2, ZenonT(30) DEF Queued, Incoming, Live
  <2>4. \A e : Ordinal(e)' = Ordinal(e)
    BY <2>1, Zenon DEF Ordinal
  <2> QED
    BY <1>t, <2>1, <2>2, <2>3, <2>4, ZenonT(30) DEF OrderInv
<1>5. CASE Crash
  <2>1. /\ UNCHANGED <<ordinal, admitted, rows>> /\ op' = "idle"
        /\ queue' = <<>> /\ retry' = {} /\ batch' = {} /\ wpc' = "down"
    BY <1>5, Zenon DEF Crash, storeVars
  <2>2. /\ Queued' = {} /\ Incoming' = {} /\ Live' \subseteq Live
        /\ DOMAIN queue' = {} /\ wpc' \notin Inbound
    BY <2>1 DEF Queued, Incoming, Live, Inbound
  <2>3. \A e : Ordinal(e)' = Ordinal(e)
    BY <2>1, Zenon DEF Ordinal
  <2> QED
    BY <1>t, <2>1, <2>2, <2>3, OpNames, ZenonT(30) DEF OrderInv
<1>6. ASSUME NEW c \in {"Granted", "Denied"}, Create(c) PROVE OrderInv'
  <2>1. /\ UNCHANGED <<admitted, op, queue, retry, batch>> /\ wpc' \in {"down", "pop"}
        /\ queue = <<>> /\ retry = {} /\ batch = {} /\ op = "idle" /\ rows' \subseteq rows
        /\ ordinal' = ordinal \/ ordinal' = HighestOrdinal(rows')
    BY <1>6, <1>t, Zenon
       DEF Create, up, PurgeOwed, StorePurge, Store!Purge, storeVars, HandsInv,
           EmptyHanded
  <2>2. /\ Queued' = {} /\ Incoming' = {} /\ Live' = rows' /\ rows \subseteq Live
        /\ DOMAIN queue' = {} /\ wpc' \notin Inbound
    BY <2>1 DEF Queued, Incoming, Live, Inbound
  <2>3. \A e : Ordinal(e)' = Ordinal(e)
    BY <2>1, Zenon DEF Ordinal
  <2>4. \A e \in rows' : Ordinal(e) <= ordinal'
    <3>1. CASE ordinal' = ordinal
      BY <1>t, <2>1, <2>2, <3>1, ZenonT(30) DEF OrderInv
    <3>2. CASE ordinal' = HighestOrdinal(rows')
      BY <1>t, <2>1, <3>2, HighestType, ZenonT(30)
    <3> QED
      BY <2>1, <3>1, <3>2, Zenon
  <2> QED
    BY <1>t, <2>1, <2>2, <2>3, <2>4, OpNames, ZenonT(30) DEF OrderInv
<1> QED
  BY <1>1, <1>2, <1>3, <1>4, <1>5, <1>6, ZenonT(30) DEF DeliveryNext, SetConsent

-----------------------------------------------------------------------------
(* Capacity *)

\* A set covered by two others is no larger than both together.
LEMMA Covered ==
    ASSUME TypeOK, NEW A, NEW B, NEW D, A \subseteq B \cup D,
           B \subseteq DOMAIN admitted, D \subseteq DOMAIN admitted
    PROVE  /\ Cardinality(A) \in Nat /\ Cardinality(B) \in Nat /\ Cardinality(D) \in Nat
           /\ Cardinality(A) <= Cardinality(B) + Cardinality(D)
<1>1. A \subseteq DOMAIN admitted /\ B \cap D \subseteq DOMAIN admitted
  OBVIOUS
<1>2. /\ IsFiniteSet(A) /\ IsFiniteSet(B) /\ IsFiniteSet(D)
      /\ Cardinality(A) \in Nat /\ Cardinality(B) \in Nat /\ Cardinality(D) \in Nat
      /\ Cardinality(B \cap D) \in Nat
  BY <1>1, Sizes, Zenon
<1>3. /\ IsFiniteSet(B \cup D)
      /\ Cardinality(B \cup D) = Cardinality(B) + Cardinality(D) - Cardinality(B \cap D)
  BY <1>2, FS_Union, Zenon
<1>4. Cardinality(A) <= Cardinality(B \cup D)
  BY <1>3, FS_Subset, Zenon
<1> QED
  BY <1>2, <1>3, <1>4

\* The queue is at least as long as the set of events in it.
LEMMA QueueSize ==
    ASSUME TypeOK
    PROVE  IsFiniteSet(Queued) /\ Cardinality(Queued) <= Len(queue)
<1>1. Len(queue) \in Nat /\ DOMAIN queue = 1..Len(queue)
  BY DEF TypeOK
<1>2. IsFiniteSet(1..Len(queue)) /\ Cardinality(1..Len(queue)) = Len(queue)
  <2>1. 1 \in Int /\ Len(queue) \in Int
    BY <1>1
  <2>2. /\ IsFiniteSet(1..Len(queue))
        /\ Cardinality(1..Len(queue)) =
             IF 1 > Len(queue) THEN 0 ELSE Len(queue) - 1 + 1
    BY <2>1, FS_Interval, Zenon
  <2> QED
    BY <1>1, <2>2
<1>3. queue \in Surjection(1..Len(queue), Queued)
  <2>1. queue \in [1..Len(queue) -> Queued]
    BY <1>1 DEF TypeOK, Queued
  <2> QED
    BY <1>1, <2>1, Zenon DEF Surjection, Queued
<1> QED
  BY <1>2, <1>3, FS_Surjection DEF ExistsSurjection

\* What the counter counts, as a set.
CountedSet == rows \cup Incoming \cup (IF wpc = "release" THEN batch ELSE {})

\* The reservation inside the admission lock.
Reservation == IF op \in PushOps THEN 1 ELSE 0

\* The counter of the invariant in these terms.
LEMMA CountedTerms ==
    ASSUME DeliveryTypeOK, HandsInv
    PROVE  /\ CountedSet \subseteq DOMAIN admitted
           /\ Cardinality(CountedSet) \in Nat /\ Lapsed \in Nat
           /\ Reservation \in {0, 1} /\ outstanding \in Nat
           /\ Counted = Cardinality(CountedSet) + Lapsed + Reservation
<1>1. TypeOK /\ Lapsed \in Nat /\ outstanding \in Nat
  <2>1. TypeOK /\ quarantined \in Nat /\ unreleased \in Nat /\ outstanding \in Nat
    BY Zenon DEF DeliveryTypeOK, TypeOK
  <2> QED
    BY <2>1 DEF Lapsed
<1>2. CountedSet \subseteq DOMAIN admitted
  BY LiveEvents, Zenon DEF CountedSet, DeliveryTypeOK
<1>3. Cardinality(CountedSet) \in Nat
  BY <1>1, <1>2, Sizes, Zenon
<1> QED
  BY <1>1, <1>2, <1>3, Zenon DEF Reservation, Counted, CountedSet

\* Releasing the capacity of what is no longer counted keeps the bound.
LEMMA ReleaseKeepsBound ==
    ASSUME DeliveryTypeOK, HandsInv, outstanding <= Counted,
           NEW D, D \subseteq DOMAIN admitted, NEW n \in Nat, n >= Cardinality(D),
           NEW S, S \subseteq DOMAIN admitted, CountedSet \subseteq S \cup D
    PROVE  Released(n) <= Cardinality(S) + Lapsed + Reservation
<1>1. /\ Cardinality(CountedSet) \in Nat /\ Lapsed \in Nat
      /\ Reservation \in {0, 1} /\ outstanding \in Nat
      /\ Counted = Cardinality(CountedSet) + Lapsed + Reservation
  BY CountedTerms, Zenon
<1>2. /\ Cardinality(S) \in Nat /\ Cardinality(D) \in Nat
      /\ Cardinality(CountedSet) <= Cardinality(S) + Cardinality(D)
  BY Covered, Zenon DEF DeliveryTypeOK
<1> QED
  BY <1>1, <1>2 DEF Released

\* The counter of the next state, when the log does not change.
LEMMA NextCounted ==
    ASSUME DeliveryInv, DeliveryNext
    PROVE  /\ Counted' = Cardinality(CountedSet') + Lapsed' + Reservation'
           /\ CountedSet' \subseteq DOMAIN admitted'
<1>1. DeliveryTypeOK' /\ HandsInv'
  BY DeliveryTypeStep, HandsStep, ZenonT(30)
<1>2. CountedSet' \subseteq DOMAIN admitted'
  BY <1>1, ZenonT(30) DEF CountedSet, Incoming, Queued, HandsInv, DeliveryTypeOK
<1> QED
  BY <1>2, Zenon DEF Counted, CountedSet, Reservation

\* Capacity does not leak.
LEMMA CounterStep ==
    ASSUME DeliveryInv, DeliveryNext
    PROVE  CounterInv'
<1>t. DeliveryTypeOK /\ TypeOK /\ HandsInv /\ CounterInv
  BY Zenon DEF DeliveryInv, DeliveryTypeOK
<1>c. /\ CountedSet \subseteq DOMAIN admitted
      /\ Cardinality(CountedSet) \in Nat /\ Lapsed \in Nat
      /\ Reservation \in {0, 1} /\ outstanding \in Nat
      /\ Counted = Cardinality(CountedSet) + Lapsed + Reservation
  BY <1>t, CountedTerms, Zenon
<1>n. /\ Counted' = Cardinality(CountedSet') + Lapsed' + Reservation'
      /\ CountedSet' \subseteq DOMAIN admitted'
  BY NextCounted, Zenon
<1> DEFINE Together == wpc \in Outbound => batch \subseteq rows \/ batch \cap rows = {}
           Settling == wpc = "reset" \/ cpc = "reset"
           \* A step that takes nothing off the set and nothing on the counter.
           Still == /\ UNCHANGED <<admitted, outstanding, Lapsed, Reservation>>
                    /\ CountedSet \subseteq CountedSet'
           \* A step that releases what it takes off the set.
           Releasing == \E D \in SUBSET DOMAIN admitted :
                          /\ outstanding' = Released(Cardinality(D))
                          /\ CountedSet \subseteq CountedSet' \cup D
                          /\ UNCHANGED <<admitted, Lapsed, Reservation>>
<1>s. ASSUME Still, outstanding <= Counted PROVE outstanding' <= Counted'
  <2>1. Cardinality(CountedSet) <= Cardinality(CountedSet')
    <3>1. Cardinality({}) = 0
      BY FS_EmptySet, Zenon
    <3> QED
      BY <1>t, <1>n, <1>s, <3>1, Covered
  <2>2. Cardinality(CountedSet') \in Nat
    BY <1>t, <1>n, <1>s, Sizes, Zenon
  <2> QED
    BY <1>c, <1>n, <1>s, <2>1, <2>2
<1>l. ASSUME Releasing, outstanding <= Counted PROVE outstanding' <= Counted'
  <2>1. PICK D \in SUBSET DOMAIN admitted :
          /\ outstanding' = Released(Cardinality(D))
          /\ CountedSet \subseteq CountedSet' \cup D
          /\ UNCHANGED <<admitted, Lapsed, Reservation>>
    BY <1>l, Zenon
  <2>2. Cardinality(D) \in Nat /\ Cardinality(D) >= Cardinality(D)
    BY <1>t, Sizes
  <2>3. Released(Cardinality(D)) <= Cardinality(CountedSet') + Lapsed + Reservation
    BY <1>t, <1>n, <1>l, <2>1, <2>2, ReleaseKeepsBound, ZenonT(30)
  <2> QED
    BY <1>n, <2>1, <2>3, Zenon
<1>z. ASSUME outstanding' = 0 PROVE outstanding' <= Counted'
  <2>0. DeliveryTypeOK' /\ TypeOK' /\ quarantined' \in Nat /\ unreleased' \in Nat
    BY DeliveryTypeStep, Zenon DEF DeliveryTypeOK
  <2>l. \A m, n \in Nat : m + n \in Nat
    OBVIOUS
  <2>1. DeliveryTypeOK' /\ TypeOK' /\ Lapsed' \in Nat
    BY <2>0, <2>l, Zenon DEF Lapsed
  <2>2. IsFiniteSet(DOMAIN admitted')
    <3>1. Len(admitted') \in Nat /\ DOMAIN admitted' = 1..Len(admitted')
      BY <2>1 DEF TypeOK
    <3> QED
      BY <3>1, FS_Interval
  <2>3. Cardinality(CountedSet') \in Nat
    BY <1>n, <2>2, FS_Subset, FS_CardinalityType, Zenon
  <2>4. Reservation' \in Nat
    BY Zenon DEF Reservation
  <2> QED
    BY <1>n, <1>z, <2>1, <2>3, <2>4, SMTT(30)
<1>1. CASE Client
  <2>1. /\ up /\ UNCHANGED <<wpc, cpc, batch, retry, rows, Lapsed>>
    BY <1>1, ClientEffects, Zenon
       DEF workerVars, storeVars, consentVars, historyVars, Lapsed
  <2>2. Together'
    BY <1>t, <2>1, Zenon DEF CounterInv
  <2>3. ASSUME ~Settling PROVE outstanding' <= Counted'
    <3>1. outstanding <= Counted
      BY <1>t, <2>1, <2>3, Zenon DEF CounterInv
    <3>2. CASE Pushing
      <4>1. CountedSet' = CountedSet \cup {Len(admitted) + 1}
        BY <1>1, <1>t, <2>1, <3>2, ClientIncoming, ZenonT(30) DEF CountedSet
      <4>2. Len(admitted) + 1 \notin CountedSet /\ IsFiniteSet(CountedSet)
        BY <1>c, <1>t, Sizes, RevocationOrder
      <4>3. Cardinality(CountedSet') = Cardinality(CountedSet) + 1
        BY <4>1, <4>2, FS_AddElement, Zenon
      <4>4. Reservation = 1 /\ Reservation' = 0 /\ outstanding' = outstanding
        BY <3>2, OpNames, Zenon DEF Reservation, Pushing
      <4> QED
        BY <1>c, <1>n, <2>1, <3>1, <4>3, <4>4, SMTT(30)
    <3>3. CASE ~Pushing
      <4>1. CountedSet' = CountedSet
        BY <1>1, <1>t, <2>1, <3>3, ClientIncoming, ZenonT(30) DEF CountedSet
      <4>2. CASE Reserving
        <5>1. Reservation = 0 /\ Reservation' = 1 /\ outstanding' = outstanding + 1
          BY <4>2, Zenon DEF Reservation, Reserving
        <5> QED
          BY <1>c, <1>n, <2>1, <3>1, <4>1, <5>1, SMTT(30)
      <4>3. CASE Refusing
        <5>1. Reservation = 1 /\ Reservation' = 0 /\ outstanding' = Released(1)
          BY <4>3, OpNames, Zenon DEF Reservation, Refusing
        <5> QED
          BY <1>c, <1>n, <2>1, <3>1, <4>1, <5>1, SMTT(30) DEF Released
      <4>4. CASE Passing
        <5>1. Reservation = Reservation' /\ outstanding' = outstanding
          BY <4>4, OpNames, Zenon DEF Reservation, Passing
        <5> QED
          BY <1>c, <1>n, <2>1, <3>1, <4>1, <5>1, ZenonT(30)
      <4> QED
        BY <1>1, <3>3, <4>2, <4>3, <4>4, ClientEffects, ZenonT(30)
    <3> QED
      BY <3>2, <3>3, Zenon
  <2> QED
    BY <2>1, <2>2, <2>3, Zenon DEF CounterInv
<1>2. CASE Worker
  <2>f. UNCHANGED <<admitted, op, Reservation, cpc>>
    BY <1>2, WorkerFrame, Zenon DEF Reservation
  <2>q. ASSUME queue' = queue PROVE Queued' = Queued
    BY <2>q, Zenon DEF Queued
  <2> USE DEF up, storeVars, admissionVars, historyVars
  <2>1. CASE Pop \/ TakeRetry \/ CheckConsent \/ HoldForRetry
    <3>1. /\ wpc' \notin Outbound /\ wpc \notin {"down", "reset", "release"}
          /\ UNCHANGED <<rows, Lapsed>>
      BY <2>1, Zenon DEF Pop, TakeRetry, CheckConsent, HoldForRetry, Outbound, Lapsed
    <3>2. outstanding' = outstanding
      BY <1>t, <2>1, PopEffects, Zenon DEF TakeRetry, CheckConsent, HoldForRetry
    <3>3. CountedSet \subseteq CountedSet'
      BY <1>2, <1>t, <2>1, <3>1, WorkerIncoming, ZenonT(30) DEF CountedSet
    <3> QED
      BY <1>s, <1>t, <2>f, <3>1, <3>2, <3>3, ZenonT(30) DEF CounterInv
  <2>2. CASE Discard \/ ReleaseAtBoundary \/ ReleaseDelivered
    <3>1. /\ wpc' \notin Outbound /\ wpc \notin {"down", "reset"}
          /\ UNCHANGED <<rows, Lapsed, queue, retry>>
          /\ outstanding' = Released(Cardinality(batch))
      BY <2>2, Zenon
         DEF Discard, ReleaseAtBoundary, ReleaseDelivered, WorkerRelease, Outbound,
             Lapsed
    <3>2. CountedSet \subseteq CountedSet' \cup batch
      BY <2>q, <3>1, Zenon DEF CountedSet, Incoming
    <3>3. Releasing
      BY <1>t, <2>f, <3>1, <3>2, ZenonT(30) DEF DeliveryTypeOK
    <3> QED
      BY <1>l, <1>t, <2>f, <3>1, <3>3, ZenonT(30) DEF CounterInv
  <2>3. CASE Filter
    <3>1. PICK bad \in {{}} \cup {{e} : e \in batch \ Stale} :
            /\ batch' = batch \ (Stale \cup bad)
            /\ WorkerRelease(Released(Cardinality(Stale \cup bad)))
      BY <2>3, ZenonT(30) DEF Filter
    <3>2. /\ wpc = "filter"
          /\ wpc' \in Inbound \/ batch' = {}
          /\ UNCHANGED <<rows, Lapsed, retry, queue>>
      BY <2>3, Zenon DEF Filter, WorkerRelease, Outbound, Inbound, Lapsed
    <3>3. CountedSet \subseteq CountedSet' \cup (Stale \cup bad)
      BY <2>q, <3>1, <3>2, ZenonT(30) DEF CountedSet, Incoming
    <3>4. Stale \cup bad \subseteq DOMAIN admitted
      BY <1>t, Zenon DEF Stale, DeliveryTypeOK
    <3>5. Releasing
      BY <2>f, <3>1, <3>2, <3>3, <3>4, ZenonT(30) DEF WorkerRelease
    <3>6. wpc' \notin Outbound
      BY <2>3, Zenon DEF Filter, Outbound
    <3> QED
      BY <1>l, <1>t, <2>f, <3>2, <3>5, <3>6, ZenonT(30) DEF CounterInv
  <2>4. CASE Insert
    <3>1. /\ wpc' \notin Outbound /\ wpc = "insert"
          /\ UNCHANGED <<outstanding, Lapsed, queue, retry>>
      BY <2>4, Zenon DEF Insert, Outbound, Lapsed
    <3>2. \/ rows' = rows /\ batch' = batch /\ wpc' \in Inbound
          \/ rows' = rows \cup batch
      BY <2>4, Zenon DEF Insert, StoreInsert, Store!Insert, Inbound
    <3>3. CountedSet \subseteq CountedSet'
      BY <2>q, <3>1, <3>2, ZenonT(30) DEF CountedSet, Incoming
    <3> QED
      BY <1>s, <1>t, <2>f, <3>1, <3>3, ZenonT(30) DEF CounterInv
  <2>5. CASE DeliverCheck \/ Recheck \/ BeginWrite \/ EndWrite \/ Confirm
    <3>1. UNCHANGED <<outstanding, Lapsed, queue, retry, rows>>
      BY <2>5, ZenonT(30) DEF DeliverCheck, Recheck, BeginWrite, EndWrite, Confirm, Lapsed
    <3>2. /\ wpc \notin Inbound \cup {"down", "reset", "release"}
          /\ wpc' \in Outbound => wpc \in Outbound /\ batch' = batch
      BY <1>t, <2>5, ZenonT(30)
         DEF DeliverCheck, Recheck, BeginWrite, EndWrite, Confirm, Inbound,
                  Outbound, HandsInv, EmptyHanded
    <3>3. CountedSet \subseteq CountedSet'
      BY <2>q, <3>1, <3>2, ZenonT(30) DEF CountedSet, Incoming
    <3>4. Together'
      BY <1>t, <3>1, <3>2, ZenonT(30) DEF CounterInv
    <3> QED
      BY <1>s, <1>t, <2>f, <3>1, <3>2, <3>3, <3>4, ZenonT(30) DEF CounterInv
  <2>6. CASE Fetch
    <3> DEFINE bad == FirstRows(BatchSize) \cap corrupt
    <3>1. /\ wpc = "fetch" /\ wpc \notin Inbound /\ quarantined = 0
          /\ UNCHANGED <<outstanding, queue, retry, unreleased>>
      BY <1>t, <2>6, Zenon DEF Fetch, HandsInv, Inbound
    <3>u. unreleased \in Nat
      BY <1>t, Zenon DEF DeliveryTypeOK
    <3>2. \A k : FirstRows(k) \subseteq rows
      BY Zenon DEF FirstRows
    <3>3. Together'
      BY <2>6, <3>2, Zenon DEF Fetch, StoreDelete, Store!Delete
    <3>4. CASE rows' = rows \ bad /\ quarantined' = Cardinality(bad)
      <4>1. CountedSet \subseteq CountedSet' \cup bad
        BY <2>q, <3>1, <3>4, Zenon DEF CountedSet, Incoming
      <4>2. bad \subseteq DOMAIN admitted
        BY <1>t, <3>2, Zenon DEF DeliveryTypeOK
      <4>3. /\ Cardinality(CountedSet) <= Cardinality(CountedSet') + Cardinality(bad)
            /\ Cardinality(CountedSet') \in Nat /\ Cardinality(bad) \in Nat
        BY <1>t, <1>n, <2>f, <4>1, <4>2, Covered, ZenonT(30)
      <4>4. outstanding <= Counted => outstanding' <= Counted'
        BY <1>c, <1>n, <2>f, <3>1, <3>4, <3>u, <4>3, SMTT(30) DEF Lapsed
      <4> QED
        BY <1>t, <2>f, <3>1, <3>3, <4>4, ZenonT(30) DEF CounterInv
    <3>5. CASE rows' = rows /\ quarantined' = 0
      <4>1. CountedSet \subseteq CountedSet'
        BY <2>q, <3>1, <3>5, Zenon DEF CountedSet, Incoming
      <4>2. Lapsed' = Lapsed
        BY <3>1, <3>5, Zenon DEF Lapsed
      <4> QED
        BY <1>s, <1>t, <2>f, <3>1, <3>3, <4>1, <4>2, ZenonT(30) DEF CounterInv
    <3> QED
      BY <2>6, <3>4, <3>5, ZenonT(30) DEF Fetch, StoreDelete, Store!Delete
  <2>7. CASE ReleaseQuarantined
    <3>1. /\ wpc = "quarantine" /\ wpc \notin Inbound
          /\ outstanding' = Released(quarantined) /\ quarantined' = 0
          /\ UNCHANGED <<batch, rows, queue, retry, unreleased>>
      BY <2>7, Zenon DEF ReleaseQuarantined, WorkerRelease, Inbound
    <3>2. CountedSet' = CountedSet
      BY <2>7, <2>q, <3>1, Zenon DEF CountedSet, Incoming, Inbound, ReleaseQuarantined
    <3>3. outstanding <= Counted => outstanding' <= Counted'
      <4>1. quarantined \in Nat /\ unreleased \in Nat
        BY <1>t, Zenon DEF DeliveryTypeOK
      <4> QED
        BY <1>c, <1>n, <2>f, <3>1, <3>2, <4>1, SMTT(30) DEF Released, Lapsed
    <3>4. Together'
      BY <1>t, <3>1, Zenon DEF CounterInv, Outbound
    <3> QED
      BY <1>t, <2>f, <3>1, <3>3, <3>4, ZenonT(30) DEF CounterInv
  <2>8. CASE Acknowledge
    <3>1. /\ wpc = "acknowledge" /\ wpc \notin Inbound /\ wpc \in Outbound
          /\ wpc' \notin Outbound /\ wpc' \notin Inbound /\ wpc' # "reset"
          /\ UNCHANGED <<outstanding, quarantined, queue, retry>>
      BY <2>8, Zenon DEF Acknowledge, Inbound, Outbound
    <3>2. CASE rows' = rows /\ unreleased' = unreleased
      <4>1. CountedSet \subseteq CountedSet' /\ Lapsed' = Lapsed
        BY <2>q, <3>1, <3>2, ZenonT(30) DEF CountedSet, Incoming, Lapsed
      <4> QED
        BY <1>s, <1>t, <2>f, <3>1, <4>1, ZenonT(30) DEF CounterInv
    <3>3. ASSUME NEW gone \in StoreMatches(batch), StoreDelete(gone)
          PROVE  gone \subseteq rows /\ gone \subseteq batch /\ rows' = rows \ gone
      BY <3>3, Zenon DEF StoreMatches, Store!Matches, StoreDelete, Store!Delete
    <3>4. ASSUME NEW gone \in StoreMatches(batch), StoreDelete(gone),
                 gone = batch, wpc' = "release", UNCHANGED <<batch, unreleased>>
          PROVE  CounterInv'
      <4>1. CountedSet \subseteq CountedSet' /\ Lapsed' = Lapsed
        BY <2>q, <3>1, <3>3, <3>4, ZenonT(30) DEF CountedSet, Incoming, Lapsed
      <4> QED
        BY <1>s, <1>t, <2>f, <3>1, <4>1, ZenonT(30) DEF CounterInv
    <3>5. ASSUME NEW gone \in StoreMatches(batch), StoreDelete(gone),
                 unreleased' = unreleased + Cardinality(gone)
          PROVE  CounterInv'
      <4>1. gone \subseteq DOMAIN admitted /\ quarantined \in Nat /\ unreleased \in Nat
        BY <1>t, <3>3, <3>5, Zenon DEF DeliveryTypeOK
      <4>2. CountedSet \subseteq CountedSet' \cup gone
        BY <2>q, <3>1, <3>3, <3>5, ZenonT(30) DEF CountedSet, Incoming
      <4>3. /\ Cardinality(CountedSet) <= Cardinality(CountedSet') + Cardinality(gone)
            /\ Cardinality(CountedSet') \in Nat /\ Cardinality(gone) \in Nat
        BY <1>t, <1>n, <2>f, <4>1, <4>2, Covered, ZenonT(30)
      <4>4. outstanding <= Counted => outstanding' <= Counted'
        BY <1>c, <1>n, <2>f, <3>1, <3>5, <4>1, <4>3, SMTT(30) DEF Lapsed
      <4> QED
        BY <1>t, <2>f, <3>1, <4>4, ZenonT(30) DEF CounterInv
    <3> QED
      BY <2>8, <3>2, <3>4, <3>5, ZenonT(30) DEF Acknowledge
  <2>9. CASE WorkerPurge
    <3>1. /\ wpc = "purge" /\ wpc' \notin Outbound /\ wpc' \notin Inbound
          /\ UNCHANGED <<outstanding, Lapsed, queue, retry>>
          /\ wpc' = "reset" \/ rows' = rows
      BY <1>t, <2>9, ZenonT(30)
         DEF WorkerPurge, Inbound, Outbound, DeliveryTypeOK, Lapsed
    <3>2. rows' = rows => CountedSet \subseteq CountedSet'
      BY <2>q, <3>1, Zenon DEF CountedSet, Incoming, Inbound
    <3> QED
      BY <1>s, <1>t, <2>f, <3>1, <3>2, ZenonT(30) DEF CounterInv
  <2>10. CASE WorkerReset
    <3>1. wpc' \notin Outbound /\ outstanding' = 0
      BY <1>t, <2>10, ZenonT(30) DEF WorkerReset, WorkerRelease, Outbound, DeliveryTypeOK
    <3> QED
      BY <1>z, <3>1, Zenon DEF CounterInv
  <2> QED
    BY <1>2, <2>1, <2>2, <2>3, <2>4, <2>5, <2>6, <2>7, <2>8, <2>9, <2>10, ZenonT(30)
       DEF Worker
<1>3. CASE Revoke
  <2>1. /\ UNCHANGED <<wpc, batch, rows, Lapsed, admitted, op>>
        /\ cpc = "idle" /\ queue' = <<>> /\ retry' = {}
        /\ outstanding' = Released(Len(queue) + Cardinality(retry))
    BY <1>3, Zenon DEF Revoke, RevokeBegin, storeVars, Lapsed
  <2>2. CountedSet \subseteq CountedSet' \cup (Queued \cup retry)
    BY <2>1, Zenon DEF CountedSet, Incoming, Queued
  <2>3. Queued \subseteq DOMAIN admitted /\ retry \subseteq DOMAIN admitted
    BY <1>t, LiveEvents, Zenon DEF DeliveryTypeOK
  <2>4. /\ Cardinality(Queued \cup retry) <= Cardinality(Queued) + Cardinality(retry)
        /\ Cardinality(Queued \cup retry) \in Nat
        /\ Cardinality(Queued) \in Nat /\ Cardinality(retry) \in Nat
    BY <1>t, <2>3, Covered, Zenon
  <2>5. Cardinality(Queued) <= Len(queue) /\ Len(queue) \in Nat
    BY <1>t, QueueSize DEF TypeOK
  <2>6. /\ Len(queue) + Cardinality(retry) \in Nat
        /\ Len(queue) + Cardinality(retry) >= Cardinality(Queued \cup retry)
    BY <2>4, <2>5
  <2>7. outstanding <= Counted =>
          Released(Len(queue) + Cardinality(retry)) <=
            Cardinality(CountedSet') + Lapsed + Reservation
    BY <1>t, <1>n, <2>1, <2>2, <2>3, <2>6, ReleaseKeepsBound, Zenon
  <2>8. Reservation' = Reservation
    BY <2>1, Zenon DEF Reservation
  <2> QED
    BY <1>n, <1>t, <2>1, <2>7, <2>8, ZenonT(30) DEF CounterInv, up
<1>4. CASE GrantCall \/ Mark \/ Purge \/ Reset \/ GrantReturn \/ CorruptRow
  <2>1. UNCHANGED <<op, queue, admitted, wpc, batch, retry, quarantined>>
    BY <1>4, ConsentFrame, Zenon DEF workerVars
  <2>2. /\ rows' = rows \/ rows' = {}
        /\ rows' = rows \/ cpc' = "reset"
        /\ outstanding' = outstanding \/ outstanding' = 0
        /\ cpc = "reset" => outstanding' = 0 \/ cpc' = "reset"
        /\ outstanding' = 0 \/ unreleased' = unreleased
    BY <1>4, Zenon DEF GrantCall, Mark, Purge, Reset, GrantReturn, CorruptRow, storeVars,
                StoreMark, Store!Mark, StorePurge, Store!Purge, Store!Damage,
                admissionVars, consentVars, historyVars, WorkerRelease, Grant
  <2>u. outstanding' = 0 \/ Lapsed' = Lapsed
    BY <2>1, <2>2, Zenon DEF Lapsed
  <2>3. Together'
    BY <1>t, <2>1, <2>2, Zenon DEF CounterInv
  <2>4. rows' = rows => CountedSet' = CountedSet
    BY <2>1, Zenon DEF CountedSet, Incoming, Queued
  <2>5. Reservation' = Reservation
    BY <2>1, Zenon DEF Reservation
  <2> QED
    BY <1>s, <1>z, <1>t, <2>1, <2>2, <2>3, <2>4, <2>5, <2>u, Zenon DEF CounterInv, up
<1>5. CASE Crash
  BY <1>5, Zenon DEF Crash, CounterInv, Outbound, up
<1>6. ASSUME NEW c \in {"Granted", "Denied"}, Create(c) PROVE CounterInv'
  <2>1. /\ UNCHANGED <<op, queue, retry, batch, quarantined>> /\ wpc' \in {"down", "pop"}
        /\ queue = <<>> /\ retry = {} /\ batch = {} /\ op = "idle" /\ quarantined = 0
        /\ wpc' = "pop" => outstanding' = Cardinality(rows') /\ unreleased' = 0
    BY <1>6, <1>t, Zenon DEF Create, up, HandsInv, EmptyHanded
  <2>2. CountedSet' = rows' /\ Reservation' = 0
    BY <2>1, OpNames DEF CountedSet, Incoming, Queued, Reservation, Inbound
  <2>3. rows' \subseteq DOMAIN admitted'
    BY <1>n, <2>2, Zenon
  <2>4. Cardinality(rows') \in Nat
    BY <1>6, <1>t, <2>3, Sizes, Zenon DEF Create
  <2>5. wpc' \notin Outbound
    BY <2>1, Zenon DEF Outbound
  <2> QED
    BY <1>n, <2>1, <2>2, <2>4, <2>5, SMTT(30) DEF CounterInv, up, Lapsed
<1> QED
  BY <1>1, <1>2, <1>3, <1>4, <1>5, <1>6, Zenon DEF DeliveryNext, SetConsent

\* No row goes bad and no acknowledgment misses one without a failure.
LEMMA FaultlessStep ==
    ASSUME DeliveryTypeOK, CounterInv, FaultlessInv, DeliveryNext
    PROVE  FaultlessInv'
<1> SUFFICES ASSUME faults' = 0 PROVE corrupt' = {} /\ unreleased' = 0
  BY Zenon DEF FaultlessInv
<1>f. faults \in Nat /\ faults + 1 # 0
  BY DEF DeliveryTypeOK
<1>n. ~Fault
  BY <1>f, Zenon DEF Fault
<1> USE DEF storeVars, historyVars, workerVars, consentVars
<1>1. CASE Client
  BY <1>1, ClientEffects, Zenon DEF FaultlessInv
<1>2. CASE Pop \/ TakeRetry \/ CheckConsent \/ Discard \/ ReleaseAtBoundary
           \/ HoldForRetry \/ DeliverCheck \/ ReleaseQuarantined \/ Recheck
  BY <1>2, ZenonT(30) DEF FaultlessInv, Pop, TakeRetry, CheckConsent, Discard,
       ReleaseAtBoundary, HoldForRetry, DeliverCheck, ReleaseQuarantined, Recheck
<1>3. CASE BeginWrite \/ EndWrite \/ Confirm \/ ReleaseDelivered \/ WorkerReset
  BY <1>3, <1>n, ZenonT(30) DEF FaultlessInv, BeginWrite, EndWrite, Confirm,
       ReleaseDelivered, WorkerReset
<1>4. CASE Filter \/ Insert
  BY <1>4, <1>n, ZenonT(30) DEF FaultlessInv, Filter, Insert, StoreInsert, Store!Insert
<1>5. CASE Fetch \/ WorkerPurge
  BY <1>5, <1>n, ZenonT(30) DEF FaultlessInv, Fetch, WorkerPurge, StoreDelete,
       Store!Delete, StorePurge, Store!Purge
<1>6. CASE Acknowledge
  <2>1. PICK gone \in StoreMatches(batch) :
          /\ StoreDelete(gone) /\ faults' = faults
          /\ IF gone = batch THEN UNCHANGED unreleased
             ELSE unreleased' = unreleased + Cardinality(gone)
    BY <1>6, <1>n, ZenonT(30) DEF Acknowledge
  <2>2. corrupt = {} /\ unreleased = 0 /\ corrupt' = {}
    BY <2>1, Zenon DEF FaultlessInv, StoreDelete, Store!Delete
  <2>3. gone = batch \cap rows
    BY <2>1, <2>2, Zenon DEF StoreMatches, Store!Matches
  <2>4. gone = batch \/ gone = {}
    BY <1>6, <2>3, Zenon DEF Acknowledge, CounterInv, Outbound
  <2> QED
    BY <2>1, <2>2, <2>4, FS_EmptySet
<1>7. CASE Revoke \/ GrantCall \/ Mark \/ Purge \/ Reset \/ GrantReturn
  BY <1>7, <1>n, ZenonT(30) DEF FaultlessInv, Revoke, GrantCall, Mark, Purge, Reset,
       GrantReturn, StoreMark, Store!Mark, StorePurge, Store!Purge
<1>8. CASE CorruptRow \/ Crash
  BY <1>8, <1>n, ZenonT(30) DEF FaultlessInv, CorruptRow, Crash
<1>9. ASSUME NEW c \in {"Granted", "Denied"}, Create(c) PROVE corrupt' = {} /\ unreleased' = 0
  BY <1>9, <1>n, ZenonT(30) DEF FaultlessInv, Create, PurgeOwed, StorePurge, Store!Purge
<1> QED
  BY <1>1, <1>2, <1>3, <1>4, <1>5, <1>6, <1>7, <1>8, <1>9, ZenonT(30)
     DEF DeliveryNext, Worker, SetConsent

-----------------------------------------------------------------------------
(* The invariant, and what follows from it *)

\* A client created over an empty database satisfies the invariant.
LEMMA DeliveryInitInv == DeliveryInit => DeliveryInv
<1> SUFFICES ASSUME DeliveryInit PROVE DeliveryInv
  OBVIOUS
<1>1. TypeOK /\ admitted = <<>> /\ queue = <<>> /\ op = "idle"
  BY InitInv, Zenon DEF DeliveryInit, Init, AdmissionInv, SessionInv
<1>2. DOMAIN admitted = {} /\ DOMAIN queue = {} /\ Len(admitted) = 0
  BY <1>1
<1>3. /\ outstanding = 0 /\ wpc = "pop" /\ batch = {} /\ wgen = 0
      /\ quarantined = 0 /\ retry = {} /\ rows = {} /\ cpc = "idle"
      /\ ~purgeRequired /\ revoked = 0 /\ marked = 0 /\ purged = 0 /\ lateWrites = 0
      /\ unreleased = 0 /\ corrupt = {}
  BY Zenon DEF DeliveryInit
<1>4. DeliveryTypeOK
  <2>1. faults \in 0..MaxFaults /\ crashes \in 0..MaxCrashes
    BY DeliveryAssumption DEF DeliveryInit
  <2>2. /\ wret \in {"pop", "deliver"} /\ corrupt = {} /\ marker \in BOOLEAN
        /\ target \in {"Granted", "Denied"} /\ settled = {}
        /\ purgeRequired \in BOOLEAN
    BY ZenonT(30) DEF DeliveryInit
  <2>3. revoked \in 0..Len(admitted) /\ marked \in 0..revoked /\ purged \in 0..marked
    BY <1>2, <1>3
  <2> QED
    BY <1>1, <1>2, <1>3, <2>1, <2>2, <2>3, ZenonT(30) DEF DeliveryTypeOK
<1>5. Queued = {} /\ Incoming = {} /\ Live = {}
  BY <1>2, <1>3, Zenon DEF Queued, Incoming, Live
<1>6. op \notin PushOps
  BY <1>1, OpNames, Zenon
<1>7. HandsInv /\ OwedInv
  BY <1>1, <1>2, <1>3, ZenonT(30) DEF HandsInv, OwedInv, up, Inbound
<1>8. GenerationInv /\ WithdrawnInv /\ KeptInv /\ LateInv
  BY <1>2, <1>3, <1>5, <1>6, ZenonT(30) DEF GenerationInv, WithdrawnInv, KeptInv, LateInv
<1>9. OrderInv
  BY <1>2, <1>3, <1>5, <1>6, ZenonT(30) DEF OrderInv, Inbound
<1>10. CounterInv
  <2>1. Counted = Cardinality(CountedSet) + Lapsed + Reservation
        /\ Cardinality(CountedSet) \in Nat /\ Reservation \in {0, 1}
    BY <1>4, <1>7, CountedTerms, Zenon
  <2> QED
    BY <1>3, <2>1 DEF CounterInv, Outbound, Lapsed
<1>11. FaultlessInv
  BY <1>3, Zenon DEF FaultlessInv
<1> QED
  BY <1>4, <1>7, <1>8, <1>9, <1>10, <1>11, Zenon DEF DeliveryInv

\* The invariant depends on nothing but the variables.
LEMMA DeliveryStutter ==
    ASSUME DeliveryInv, UNCHANGED vars
    PROVE  DeliveryInv'
<1> USE DEF vars, admissionVars, workerVars, storeVars, consentVars, historyVars,
            revocationVars
<1>1. Queued' = Queued /\ Incoming' = Incoming /\ Live' = Live
  BY Zenon DEF Queued, Incoming, Live
<1>2. Granted' = Granted /\ up' = up /\ \A e : Ordinal(e)' = Ordinal(e)
  BY Zenon DEF Granted, up, Ordinal
<1>3. DeliveryTypeOK'
  BY DEF DeliveryInv, DeliveryTypeOK, TypeOK
<1>4. HandsInv' /\ OwedInv' /\ GenerationInv' /\ WithdrawnInv'
  <2>1. HandsInv'
    BY <1>2, Zenon DEF DeliveryInv, HandsInv
  <2>2. OwedInv'
    BY <1>2, Zenon DEF DeliveryInv, OwedInv
  <2>3. GenerationInv' /\ WithdrawnInv'
    BY <1>1, Zenon DEF DeliveryInv, GenerationInv, WithdrawnInv
  <2> QED
    BY <2>1, <2>2, <2>3, Zenon
<1>5. KeptInv' /\ LateInv'
  BY <1>1, <1>2, Zenon DEF DeliveryInv, KeptInv, LateInv
<1>6. OrderInv'
  BY <1>1, <1>2, Zenon DEF DeliveryInv, OrderInv
<1>7. CounterInv' /\ FaultlessInv'
  BY <1>1, <1>2, Zenon DEF DeliveryInv, CounterInv, Counted, Lapsed, FaultlessInv
<1> QED
  BY <1>3, <1>4, <1>5, <1>6, <1>7, ZenonT(30) DEF DeliveryInv

\* Every step of the producers, the worker, set_consent, a crash and a restart
\* preserves the invariant.
LEMMA DeliveryStep == DeliveryInv /\ [DeliveryNext]_vars => DeliveryInv'
<1>1. ASSUME DeliveryInv, DeliveryNext PROVE DeliveryInv'
  BY <1>1, DeliveryTypeStep, HandsStep, OwedStep, GenerationStep, WithdrawnStep,
     KeptStep, LateStep, OrderStep, CounterStep, FaultlessStep, ZenonT(30) DEF DeliveryInv
<1> QED
  BY <1>1, DeliveryStutter, Zenon

\* The invariant of the pipeline holds for any queue, store, batch size and
\* number of producers, failures, crashes and restarts.
THEOREM DeliveryCorrect == DeliverySpec => []DeliveryInv
BY DeliveryInitInv, DeliveryStep, PTL DEF DeliverySpec

\* What run_purge has purged never comes back: no retry buffer, drained batch
\* or insert in flight brings a withdrawn event into the store again.
THEOREM PurgedNeverReturnsCorrect == DeliverySpec => []PurgedNeverReturns
<1>1. DeliveryInv => PurgedNeverReturns
  BY Zenon DEF DeliveryInv, OwedInv, PurgedNeverReturns
<1> QED
  BY <1>1, DeliveryCorrect, PTL

\* A marked revocation is carried out before consent counts as granted again,
\* through failed purges, crashes and restarts.
THEOREM RevocationCorrect == DeliverySpec => []MarkedRevocationEnforced
<1>1. DeliveryInv => MarkedRevocationEnforced
  BY Zenon DEF DeliveryInv, OwedInv, MarkedRevocationEnforced
<1> QED
  BY <1>1, DeliveryCorrect, PTL

\* No accepted event is lost but by a revocation or by a crash before it was
\* in the store, and all state has its type.
THEOREM NothingLostCorrect == DeliverySpec => []NothingLost
<1>1. DeliveryInv => NothingLost
  <2> SUFFICES ASSUME DeliveryInv PROVE NothingLost
    OBVIOUS
  <2>1. Incoming \subseteq Queued \cup retry \cup batch
    BY Zenon DEF Incoming
  <2> QED
    BY <2>1, Zenon DEF DeliveryInv, KeptInv, NothingLost
<1> QED
  BY <1>1, DeliveryCorrect, PTL

\* deliver_all begins at most one sink write after consent is withdrawn.
THEOREM LateWriteCorrect == DeliverySpec => []AtMostOneLateWrite
<1>1. DeliveryInv => AtMostOneLateWrite
  BY DEF DeliveryInv, LateInv, AtMostOneLateWrite
<1> QED
  BY <1>1, DeliveryCorrect, PTL

\* The sink is handed events in admission order, also after failed inserts,
\* failed writes and restarts.
THEOREM DeliveryOrderCorrect == DeliverySpec => []OrderedDelivery
<1>1. DeliveryInv => OrderedDelivery
  BY Zenon DEF DeliveryInv, OrderInv, OrderedDelivery
<1> QED
  BY <1>1, DeliveryCorrect, PTL

\* Between two passes of the worker the counter exceeds what is held by no more
\* than the rows of acknowledgments that matched only part of their batch, and
\* no other failure, quarantine, purge or restart takes capacity away for good.
THEOREM CapacityCorrect == DeliverySpec => []NoPhantomCapacity
<1>1. DeliveryInv => NoPhantomCapacity
  <2> SUFFICES ASSUME DeliveryInv, wpc \in {"pop", "deliver"}, cpc = "idle"
               PROVE  outstanding <= Held + unreleased
    BY Zenon DEF NoPhantomCapacity, DeliveryInv, FaultlessInv
  <2>1. batch = {} /\ quarantined = 0 /\ unreleased \in Nat
    BY Zenon DEF DeliveryInv, HandsInv, EmptyHanded, DeliveryTypeOK
  <2>2. outstanding <= Counted
    BY Zenon DEF DeliveryInv, CounterInv, up
  <2>3. CountedSet = rows \cup retry \cup Queued \cup batch
    BY <2>1, Zenon DEF CountedSet, Incoming, Inbound
  <2>4. /\ Counted = Cardinality(CountedSet) + Lapsed + Reservation
        /\ Cardinality(CountedSet) \in Nat /\ Reservation \in {0, 1}
    BY CountedTerms, Zenon DEF DeliveryInv
  <2>5. Held = Cardinality(CountedSet) + Reservation
    BY <2>3, Zenon DEF Held, Reservation
  <2> QED
    BY <2>1, <2>2, <2>4, <2>5 DEF Lapsed
<1> QED
  BY <1>1, DeliveryCorrect, PTL

-----------------------------------------------------------------------------
(* The composed system implements the admission path *)

\* While the process does not crash there is one run of the client.
LEMMA StaysUp ==
    ASSUME MaxCrashes = 0, DeliveryInv, up, [DeliveryNext]_vars
    PROVE  /\ up'
           /\ Client \/ Worker \/ SetConsent \/ CorruptRow \/ UNCHANGED vars
<1>t. DeliveryTypeOK
  BY Zenon DEF DeliveryInv
<1>1. ~Crash
  BY <1>t DEF Crash, DeliveryTypeOK
<1>2. \A c : ~Create(c)
  BY Zenon DEF Create
<1>3. ASSUME Worker PROVE up'
  BY <1>t, <1>3, ZenonT(30)
     DEF Worker, Pop, TakeRetry, CheckConsent, Discard, Filter, Insert,
     ReleaseAtBoundary, HoldForRetry, DeliverCheck, Fetch, ReleaseQuarantined,
     Recheck, BeginWrite, EndWrite, Confirm, Acknowledge, ReleaseDelivered,
     WorkerPurge, WorkerReset, DeliveryTypeOK, up
<1>4. ASSUME Client \/ SetConsent \/ CorruptRow PROVE up'
  <2>1. Revoke => wpc' = wpc
    BY Zenon DEF Revoke
  <2>2. UNCHANGED wpc
    BY <1>4, <2>1, ClientEffects, ConsentFrame, Zenon DEF SetConsent, workerVars
  <2> QED
    BY <2>2, Zenon DEF up
<1>5. UNCHANGED vars => up'
  BY Zenon DEF vars, workerVars, up
<1> QED
  BY <1>1, <1>2, <1>3, <1>4, <1>5, Zenon DEF DeliveryNext

\* A run of the client that does not crash, with its worker, its store, its
\* sink and set_consent, is a behaviour of the admission path: what they do to
\* the queue, the counter and consent is what Admission lets them do.
THEOREM AdmissionRefined ==
    ASSUME MaxCrashes = 0
    PROVE  DeliverySpec => ImplementsAdmission
<1>1. DeliveryInit => Init /\ up
  BY Zenon DEF DeliveryInit, up
<1>2. DeliveryInv /\ up /\ [DeliveryNext]_vars => up'
  BY StaysUp, Zenon
<1>3. DeliveryInv /\ up /\ [DeliveryNext]_vars => [Next]_admissionVars
  BY StaysUp, AdmissionStep, Zenon DEF vars, DeliveryInv
<1> QED
  BY <1>1, <1>2, <1>3, DeliveryCorrect, PTL DEF DeliverySpec, ImplementsAdmission, Spec

\* So what was proved of the admission path holds with the real worker and
\* set_consent: all-or-nothing replacement, and ordinals in admission order.
THEOREM AdmissionInherited ==
    ASSUME MaxCrashes = 0
    PROVE  DeliverySpec => [](ReplacementAtomic /\ AdmissionOrder)
<1>1. AdmissionInv => ReplacementAtomic /\ AdmissionOrder
  BY Zenon DEF AdmissionInv
<1> QED
  BY <1>1, AdmissionRefined, InvCorrect, PTL DEF ImplementsAdmission

\* With crashes, each step that is neither one nor a restart is still a step of
\* the admission path, whatever the restart has recovered.
THEOREM AdmissionBetweenCrashes ==
    DeliverySpec => [][Crash \/ (\E c : Create(c)) \/ [Next]_admissionVars]_vars
<1>1. ASSUME DeliveryInv, [DeliveryNext]_vars
      PROVE  [Crash \/ (\E c : Create(c)) \/ [Next]_admissionVars]_vars
  <2>1. DeliveryTypeOK
    BY <1>1, Zenon DEF DeliveryInv
  <2>2. CASE Client \/ Worker \/ SetConsent \/ CorruptRow
    BY <2>1, <2>2, AdmissionStep, Zenon
  <2>3. CASE Crash \/ (\E c : Create(c)) \/ UNCHANGED vars
    BY <2>3, Zenon
  <2> QED
    BY <1>1, <2>2, <2>3, Zenon DEF DeliveryNext
<1> QED
  BY <1>1, DeliveryCorrect, PTL DEF DeliverySpec

\* A crash ends every call and the session, and empties the queue.
LEMMA CrashSession ==
    ASSUME SessionInv, TypeOK', Crash
    PROVE  SessionInv'
<1> USE DEF SessionInv
<1>1. /\ op' = "idle" /\ queue' = <<>> /\ admitted' = admitted
      /\ session'.id = session.id /\ session'.active = FALSE
  BY DEF Crash, Deactivated
<1>2. op' \notin PushOps /\ op' \notin StartOps
  BY <1>1 DEF PushOps, StartOps, EndOps
<1>3. LockInv' /\ RoomInv'
  BY <1>1, <1>2 DEF LockInv, RoomInv
<1>4. SessionsGapFree'
  BY <1>1, Zenon DEF SessionsGapFree, IsStart, IsEnd
<1>5. CapacityReserved' /\ QueueConsented' /\ QueueInv'
  BY <1>1, <1>2, AdmissionAssumption DEF CapacityReserved, QueueConsented, QueueInv
<1> QED
  BY <1>3, <1>4, <1>5, Zenon

\* The next client, or an attempt to open one that fails, finds no call in
\* progress and an empty queue.
LEMMA CreateSession ==
    ASSUME SessionInv, HandsInv, TypeOK', NEW c, Create(c)
    PROVE  SessionInv'
<1> USE DEF SessionInv
<1>1. /\ op = "idle" /\ op' = "idle" /\ queue' = <<>>
      /\ admitted' = admitted /\ session' = session
  BY DEF Create, HandsInv
<1>2. op' \notin PushOps /\ op' \notin StartOps
  BY <1>1 DEF PushOps, StartOps, EndOps
<1>3. LockInv'
  BY <1>1, <1>2, Zenon DEF LockInv, Continues, IsEnd
<1>4. RoomInv'
  BY <1>1 DEF RoomInv
<1>5. SessionsGapFree'
  BY <1>1, Zenon DEF SessionsGapFree, IsStart, IsEnd
<1>6. CapacityReserved' /\ QueueConsented' /\ QueueInv'
  BY <1>1, <1>2, AdmissionAssumption DEF CapacityReserved, QueueConsented, QueueInv
<1> QED
  BY <1>3, <1>4, <1>5, <1>6, Zenon

\* Through any number of crashes and restarts sessions stay gap-free and
\* bracketed, a reservation holds until its push, and only events of the
\* current consent are queued.
THEOREM SessionsSurviveCrashes ==
    DeliverySpec => [](SessionsGapFree /\ CapacityReserved /\ QueueConsented)
<1>1. DeliveryInit => SessionInv
  BY InitInv, Zenon DEF DeliveryInit, AdmissionInv
<1>2. ASSUME SessionInv, DeliveryInv, DeliveryInv', [DeliveryNext]_vars
      PROVE  SessionInv'
  <2>1. DeliveryTypeOK /\ HandsInv /\ TypeOK'
    BY <1>2, Zenon DEF DeliveryInv, DeliveryTypeOK
  <2>2. CASE Client \/ Worker \/ SetConsent \/ CorruptRow \/ UNCHANGED vars
    <3>1. UNCHANGED vars => UNCHANGED admissionVars
      BY DEF vars
    <3>2. [Next]_admissionVars
      BY <2>1, <2>2, <3>1, AdmissionStep, Zenon
    <3> QED
      BY <1>2, <3>2, SessionStep, Zenon
  <2>3. CASE Crash
    BY <1>2, <2>1, <2>3, CrashSession, Zenon
  <2>4. CASE \E c \in {"Granted", "Denied"} : Create(c)
    BY <1>2, <2>1, <2>4, CreateSession, Zenon
  <2> QED
    BY <1>2, <2>2, <2>3, <2>4, Zenon DEF DeliveryNext
<1>3. SessionInv => SessionsGapFree /\ CapacityReserved /\ QueueConsented
  BY Zenon DEF SessionInv
<1> QED
  BY <1>1, <1>2, <1>3, DeliveryCorrect, PTL DEF DeliverySpec

-----------------------------------------------------------------------------
(* Capacity is never undercounted if consent is granted to an unoccupied worker *)

\* Two disjoint parts of a set are together no larger than it.
LEMMA Parted ==
    ASSUME TypeOK, NEW A, NEW B, NEW D, A \subseteq DOMAIN admitted,
           B \subseteq A, D \subseteq A, B \cap D = {}
    PROVE  /\ Cardinality(A) \in Nat /\ Cardinality(B) \in Nat /\ Cardinality(D) \in Nat
           /\ Cardinality(B) + Cardinality(D) <= Cardinality(A)
<1>1. B \subseteq DOMAIN admitted /\ D \subseteq DOMAIN admitted /\ B \cup D \subseteq A
  OBVIOUS
<1>2. /\ IsFiniteSet(A) /\ IsFiniteSet(B) /\ IsFiniteSet(D)
      /\ Cardinality(A) \in Nat /\ Cardinality(B) \in Nat /\ Cardinality(D) \in Nat
  BY <1>1, Sizes, Zenon
<1>3. Cardinality(B \cup D) = Cardinality(B) + Cardinality(D) - Cardinality(B \cap D)
  BY <1>2, FS_Union, Zenon
<1>4. Cardinality(B \cap D) = 0
  BY FS_EmptySet, Zenon
<1>5. Cardinality(B \cup D) <= Cardinality(A)
  BY <1>1, <1>2, FS_Subset, Zenon
<1> QED
  BY <1>2, <1>3, <1>4, <1>5

\* The events Held counts.
HeldSet == rows \cup retry \cup Queued \cup batch

\* What is held are accepted events.
LEMMA HeldTerms ==
    ASSUME DeliveryTypeOK, HandsInv
    PROVE  /\ HeldSet \subseteq DOMAIN admitted
           /\ Cardinality(HeldSet) \in Nat /\ quarantined \in Nat
           /\ Reservation \in {0, 1} /\ outstanding \in Nat
           /\ Held = Cardinality(HeldSet) + Reservation
<1>1. HeldSet \subseteq DOMAIN admitted
  BY LiveEvents, Zenon DEF HeldSet, DeliveryTypeOK
<1>2. Cardinality(HeldSet) \in Nat
  BY <1>1, Sizes, Zenon DEF DeliveryTypeOK
<1> QED
  BY <1>1, <1>2, CountedTerms, Zenon DEF Held, HeldSet, Reservation, DeliveryTypeOK

\* The store, the retry buffer, the worker's hands and the queue share no
\* event, but for the rows the worker has fetched.
LEMMA Apart ==
    ASSUME DeliveryTypeOK, HandsInv, OrderInv
    PROVE  /\ rows \cap Incoming = {}
           /\ wpc \in Inbound => batch \cap (rows \cup Queued) = {}
<1>1. rows \subseteq Nat /\ batch \subseteq Nat
  BY RevocationOrder, Zenon DEF DeliveryTypeOK
<1>2. \A e \in Nat : ~(e < e)
  OBVIOUS
<1>3. /\ \A e \in rows, f \in Incoming : e < f
      /\ wpc \in Inbound => \A e \in batch, f \in Queued : e < f
  BY Zenon DEF OrderInv
<1>4. rows \cap Incoming = {} /\ (wpc \in Inbound => batch \cap Queued = {})
  BY <1>1, <1>2, <1>3, ZenonT(30)
<1>5. wpc \in Inbound => batch \subseteq Incoming
  BY Zenon DEF Incoming
<1> QED
  BY <1>4, <1>5, Zenon

\* Without consent the worker only removes rows ...
LEMMA WorkerRemoves ==
    ASSUME Worker, ~Granted
    PROVE  rows' \subseteq rows
<1> USE DEF storeVars
<1>1. CASE Pop \/ TakeRetry \/ CheckConsent \/ Discard \/ Filter \/ ReleaseAtBoundary
             \/ HoldForRetry
  BY <1>1, ZenonT(30) DEF Pop, TakeRetry, CheckConsent, Discard, Filter,
       ReleaseAtBoundary, HoldForRetry
<1>2. CASE Insert
  BY <1>2, Zenon DEF Insert, StillConsented
<1>3. CASE DeliverCheck \/ ReleaseQuarantined \/ Recheck \/ BeginWrite \/ EndWrite
             \/ Confirm \/ ReleaseDelivered \/ WorkerReset
  BY <1>3, ZenonT(30) DEF DeliverCheck, ReleaseQuarantined, Recheck, BeginWrite, EndWrite,
       Confirm, ReleaseDelivered, WorkerReset
<1>4. CASE Fetch \/ Acknowledge \/ WorkerPurge
  BY <1>4, ZenonT(30) DEF Fetch, Acknowledge, WorkerPurge, StoreDelete, Store!Delete,
       StorePurge, Store!Purge
<1> QED
  BY <1>1, <1>2, <1>3, <1>4, ZenonT(30) DEF Worker

\* ... and it never puts an event back into the queue.
LEMMA WorkerQueue ==
    ASSUME Worker, queue = <<>>
    PROVE  queue' = <<>>
<1> USE DEF admissionVars, WorkerRelease
<1>1. CASE Pop
  <2>1. Len(queue) = 0
    OBVIOUS
  <2> QED
    BY <1>1, <2>1, DeliveryAssumption DEF Pop
<1>2. CASE TakeRetry \/ CheckConsent \/ Discard \/ Filter \/ Insert
           \/ ReleaseAtBoundary \/ HoldForRetry
  BY <1>2, ZenonT(30) DEF TakeRetry, CheckConsent, Discard, Filter, Insert,
       ReleaseAtBoundary, HoldForRetry
<1>3. CASE DeliverCheck \/ Fetch \/ ReleaseQuarantined \/ Recheck \/ BeginWrite
           \/ EndWrite
  BY <1>3, ZenonT(30) DEF DeliverCheck, Fetch, ReleaseQuarantined, Recheck, BeginWrite,
       EndWrite
<1>4. CASE Confirm \/ Acknowledge \/ ReleaseDelivered \/ WorkerPurge \/ WorkerReset
  BY <1>4, ZenonT(30) DEF Confirm, Acknowledge, ReleaseDelivered, WorkerPurge,
       WorkerReset
<1> QED
  BY <1>1, <1>2, <1>3, <1>4, ZenonT(30) DEF Worker

\* Every step but a grant to a worker that holds something preserves it.
LEMMA CoveredStep ==
    ASSUME DeliveryInv, CoveredInv, QuietNext
    PROVE  CoveredInv'
<1> DEFINE Room == Held + quarantined <= outstanding
           Place == /\ wpc \notin {"discard", "boundary", "purge", "reset"}
                    /\ wpc \in {"filter", "insert", "write", "writing", "confirm"} =>
                         wgen = generation
                    /\ wpc \in Outbound => batch \subseteq rows
                    /\ wpc = "release" => batch \cap (rows \cup Incoming) = {}
           Closed == up /\ ~Granted => queue = <<>> /\ (purgeRequired \/ rows = {})
<1>t. DeliveryTypeOK /\ TypeOK /\ HandsInv /\ OrderInv /\ OwedInv
  BY Zenon DEF DeliveryInv, DeliveryTypeOK
<1>c. /\ HeldSet \subseteq DOMAIN admitted
      /\ Cardinality(HeldSet) \in Nat /\ quarantined \in Nat
      /\ Reservation \in {0, 1} /\ outstanding \in Nat
      /\ Held = Cardinality(HeldSet) + Reservation
  BY <1>t, HeldTerms, Zenon
<1>n. Held' = Cardinality(HeldSet') + Reservation'
  BY Zenon DEF Held, HeldSet, Reservation
<1>i. Closed /\ (up /\ Granted => Place /\ Room)
  BY Zenon DEF CoveredInv
<1>g. CoveredInv' <=> Closed' /\ (up' /\ Granted' => Place' /\ Room')
  BY Zenon DEF CoveredInv
<1>k. rows \cap Incoming = {} /\ (wpc \in Inbound => batch \cap (rows \cup Queued) = {})
  BY <1>t, Apart, Zenon
<1>1. CASE Client
  <2>1. /\ up /\ UNCHANGED <<consent, generation, wpc, purgeRequired, batch, retry,
                             rows, quarantined, wgen>>
    BY <1>1, ClientEffects, Zenon DEF workerVars, storeVars, consentVars
  <2>c. Closed'
    <3>1. ~Granted => Passing
      BY <1>1, <1>t, ClientEffects, OpNames, Zenon
         DEF HandsInv, Reserving, Pushing, Refusing, Granted
    <3> QED
      BY <1>i, <2>1, <3>1, ZenonT(30) DEF Passing, up, Granted
  <2> SUFFICES ASSUME Granted PROVE Place' /\ Room'
    BY <1>g, <2>1, <2>c, Zenon DEF Granted
  <2>i. Place /\ Room
    BY <1>i, <2>1, Zenon
  <2>2. CASE Pushing
    <3>1. /\ Incoming' = Incoming \cup {Len(admitted) + 1}
          /\ Queued' = Queued \cup {Len(admitted) + 1}
      BY <1>1, <1>t, <2>2, ClientIncoming, PushEffects, ZenonT(30)
    <3>2. Len(admitted) + 1 \notin DOMAIN admitted
      BY <1>t, RevocationOrder
    <3>3. HeldSet' = HeldSet \cup {Len(admitted) + 1} /\ IsFiniteSet(HeldSet)
      BY <1>c, <1>t, <2>1, <3>1, Sizes, ZenonT(30) DEF HeldSet
    <3>4. Cardinality(HeldSet') = Cardinality(HeldSet) + 1
      BY <1>c, <3>2, <3>3, FS_AddElement, ZenonT(30)
    <3>5. Reservation = 1 /\ Reservation' = 0 /\ outstanding' = outstanding
      BY <2>2, OpNames, Zenon DEF Reservation, Pushing
    <3>6. Room'
      BY <1>c, <1>n, <2>1, <2>i, <3>4, <3>5
    <3>7. Len(admitted) + 1 \notin batch
      BY <1>t, <3>2, Zenon DEF DeliveryTypeOK
    <3> QED
      BY <2>1, <2>i, <3>1, <3>6, <3>7, ZenonT(30)
  <2>3. CASE ~Pushing
    <3>1. Incoming' = Incoming /\ Queued' = Queued
      BY <1>1, <1>t, <2>3, ClientIncoming, Zenon DEF Queued
    <3>2. HeldSet' = HeldSet
      BY <2>1, <3>1, Zenon DEF HeldSet
    <3>3. CASE Reserving
      <4>1. Reservation = 0 /\ Reservation' = 1 /\ outstanding' = outstanding + 1
        BY <3>3, Zenon DEF Reservation, Reserving
      <4> QED
        BY <1>c, <1>n, <2>1, <2>i, <3>1, <3>2, <4>1, SMTT(30)
    <3>4. CASE Refusing
      <4>1. Reservation = 1 /\ Reservation' = 0 /\ outstanding' = Released(1)
        BY <3>4, OpNames, Zenon DEF Reservation, Refusing
      <4> QED
        BY <1>c, <1>n, <2>1, <2>i, <3>1, <3>2, <4>1, SMTT(30) DEF Released
    <3>5. CASE Passing
      <4>1. Reservation = Reservation' /\ outstanding' = outstanding
        BY <3>5, OpNames, Zenon DEF Reservation, Passing
      <4> QED
        BY <1>c, <1>n, <2>1, <2>i, <3>1, <3>2, <4>1, ZenonT(30)
    <3> QED
      BY <1>1, <2>3, <3>3, <3>4, <3>5, ClientEffects, Zenon
  <2> QED
    BY <2>2, <2>3, Zenon

<1>2. CASE Worker
  <2>f. UNCHANGED <<consent, generation, admitted, op, Reservation, purgeRequired>>
    BY <1>2, WorkerFrame, Zenon DEF Reservation
  <2>u. up
    BY <1>2, ZenonT(30) DEF Worker, Pop, TakeRetry, CheckConsent, Discard, Filter, Insert,
       ReleaseAtBoundary, HoldForRetry, DeliverCheck, Fetch, ReleaseQuarantined,
       Recheck, BeginWrite, EndWrite, Confirm, Acknowledge, ReleaseDelivered,
       WorkerPurge, WorkerReset, up
  <2>c. Closed'
    <3>1. ~Granted => rows' \subseteq rows
      BY <1>2, <1>t, <2>f, WorkerRemoves, Zenon
    <3>2. queue = <<>> => queue' = <<>>
      BY <1>2, WorkerQueue, Zenon
    <3> QED
      BY <1>i, <2>f, <2>u, <3>1, <3>2, ZenonT(30) DEF Granted
  <2> SUFFICES ASSUME Granted PROVE Place' /\ Room'
    BY <1>g, <2>c, <2>f, <2>u, ZenonT(30) DEF Granted
  <2>i. Place /\ Room
    BY <1>i, <2>u, Zenon
  <2>p. Place' <=> /\ wpc' \notin {"discard", "boundary", "purge", "reset"}
                   /\ wpc' \in {"filter", "insert", "write", "writing", "confirm"} =>
                        wgen' = generation
                   /\ wpc' \in Outbound => batch' \subseteq rows'
                   /\ wpc' = "release" => batch' \cap (rows' \cup Incoming') = {}
    BY <2>f, <2>i, Zenon
  <2>q. ASSUME queue' = queue PROVE Queued' = Queued
    BY <2>q, Zenon DEF Queued
  <2>s. ASSUME HeldSet' \subseteq HeldSet, UNCHANGED <<outstanding, quarantined>>
        PROVE  Room'
    <3>1. Cardinality(HeldSet') <= Cardinality(HeldSet) /\ Cardinality(HeldSet') \in Nat
      <4>1. /\ Cardinality(HeldSet') \in Nat /\ Cardinality({}) \in Nat
            /\ Cardinality(HeldSet') + Cardinality({}) <= Cardinality(HeldSet)
        BY <1>c, <1>t, <2>s, Parted
      <4> QED
        BY <1>c, <4>1
    <3> QED
      BY <1>c, <1>n, <2>f, <2>i, <2>s, <3>1, SMTT(30)
  <2>l. ASSUME NEW D, D \subseteq HeldSet, HeldSet' \subseteq HeldSet,
               HeldSet' \cap D = {}, quarantined' = quarantined,
               outstanding' = Released(Cardinality(D))
        PROVE  Room'
    <3>1. /\ Cardinality(HeldSet') + Cardinality(D) <= Cardinality(HeldSet)
          /\ Cardinality(HeldSet') \in Nat /\ Cardinality(D) \in Nat
      BY <1>c, <1>t, <2>l, Parted, ZenonT(30)
    <3> QED
      BY <1>c, <1>n, <2>f, <2>i, <2>l, <3>1, SMTT(30) DEF Released
  <2> USE DEF storeVars, admissionVars
  <2>1. CASE Pop
    <3>1. /\ wpc = "pop" /\ wpc' = "take" /\ batch = {}
          /\ UNCHANGED <<rows, retry, quarantined>>
      BY <1>t, <2>1, Zenon DEF Pop, HandsInv, EmptyHanded
    <3>2. outstanding' = outstanding /\ Queued = batch' \cup Queued'
      BY <1>t, <2>1, PopEffects, Zenon
    <3>3. Room'
      BY <2>s, <3>1, <3>2, ZenonT(30) DEF HeldSet
    <3> QED
      BY <2>p, <3>1, <3>3, Zenon DEF Outbound
  <2>2. CASE TakeRetry \/ CheckConsent \/ HoldForRetry
    <3>1. /\ wpc' \in {"deliver", "check", "filter"}
          /\ wpc' = "filter" => wgen' = generation
          /\ UNCHANGED <<rows, quarantined, outstanding, queue>>
      BY <2>2, <2>i, ZenonT(30) DEF TakeRetry, CheckConsent, HoldForRetry
    <3>2. retry' \cup batch' = retry \cup batch
      BY <2>2, Zenon DEF TakeRetry, CheckConsent, HoldForRetry
    <3>3. Room'
      BY <2>q, <2>s, <3>1, <3>2, ZenonT(30) DEF HeldSet
    <3> QED
      BY <2>p, <3>1, <3>3, ZenonT(30) DEF Outbound
  <2>3. CASE Filter
    <3>1. PICK bad \in {{}} \cup {{e} : e \in batch \ Stale} :
            /\ batch' = batch \ (Stale \cup bad)
            /\ WorkerRelease(Released(Cardinality(Stale \cup bad)))
      BY <2>3, ZenonT(30) DEF Filter
    <3>2. /\ wpc = "filter" /\ wpc \in Inbound /\ retry = {}
          /\ wpc' \in {"deliver", "insert"} /\ wgen' = wgen
          /\ UNCHANGED <<rows, quarantined, retry, queue>>
      BY <1>t, <2>3, ZenonT(30) DEF Filter, WorkerRelease, HandsInv, Inbound
    <3>3. Stale \cup bad \subseteq batch
      BY <3>1, Zenon DEF Stale
    <3>4. /\ HeldSet' \subseteq HeldSet /\ HeldSet' \cap (Stale \cup bad) = {}
          /\ Stale \cup bad \subseteq HeldSet
      BY <1>k, <2>q, <3>1, <3>2, <3>3, ZenonT(30) DEF HeldSet
    <3>5. Room'
      BY <2>l, <3>1, <3>2, <3>4, ZenonT(30) DEF WorkerRelease
    <3> QED
      BY <2>i, <2>p, <3>2, <3>5, ZenonT(30) DEF Outbound
  <2>4. CASE Insert
    <3>1. wpc = "insert" /\ StillConsented
      BY <2>4, <2>i, ZenonT(30) DEF Insert, StillConsented
    <3>2. /\ wpc' \in {"deliver", "hold"}
          /\ UNCHANGED <<quarantined, outstanding, queue, retry>>
          /\ rows' \cup batch' \subseteq rows \cup batch
      BY <2>4, <3>1, ZenonT(30) DEF Insert, StoreInsert, Store!Insert
    <3>3. Room'
      BY <2>q, <2>s, <3>2, ZenonT(30) DEF HeldSet
    <3> QED
      BY <2>p, <3>2, <3>3, ZenonT(30) DEF Outbound
  <2>5. CASE DeliverCheck \/ Recheck \/ BeginWrite \/ EndWrite \/ Confirm
    <3>1. UNCHANGED <<outstanding, quarantined, queue, retry, rows>>
      BY <2>5, ZenonT(30) DEF DeliverCheck, Recheck, BeginWrite, EndWrite, Confirm
    <3>2. /\ wpc' \in {"fetch", "write", "writing", "confirm", "pop", "acknowledge"}
          /\ batch' \subseteq batch
          /\ wpc' \in Outbound => wpc \in Outbound
          /\ wpc' \in {"write", "writing", "confirm"} => wgen' = generation
      BY <2>5, <2>i, ZenonT(30) DEF DeliverCheck, Recheck, BeginWrite, EndWrite, Confirm,
                        Outbound, StillConsented
    <3>3. Room'
      BY <2>q, <2>s, <3>1, <3>2, ZenonT(30) DEF HeldSet
    <3> QED
      BY <2>i, <2>p, <3>1, <3>2, <3>3, ZenonT(30)
  <2>6. CASE Fetch
    <3> DEFINE bad == FirstRows(BatchSize) \cap corrupt
    <3>1. /\ wpc = "fetch" /\ wpc' = "quarantine" /\ batch = {} /\ quarantined = 0
          /\ UNCHANGED <<outstanding, queue, retry>>
      BY <1>t, <2>6, ZenonT(30) DEF Fetch, HandsInv, EmptyHanded
    <3>2. \A k : FirstRows(k) \subseteq rows
      BY Zenon DEF FirstRows
    <3>3. batch' \subseteq rows'
      BY <2>6, <3>2, Zenon DEF Fetch, StoreDelete, Store!Delete
    <3>4. CASE rows' = rows \ bad /\ quarantined' = Cardinality(bad)
      <4>1. (retry \cup Queued) \cap rows = {}
        BY <1>k, Zenon DEF Incoming
      <4>2. HeldSet' \subseteq HeldSet /\ bad \subseteq HeldSet /\ HeldSet' \cap bad = {}
        BY <2>q, <3>1, <3>2, <3>3, <3>4, <4>1, ZenonT(30) DEF HeldSet
      <4>3. /\ Cardinality(HeldSet') + Cardinality(bad) <= Cardinality(HeldSet)
            /\ Cardinality(HeldSet') \in Nat /\ Cardinality(bad) \in Nat
        BY <1>c, <1>t, <4>2, Parted, ZenonT(30)
      <4>4. Room'
        BY <1>c, <1>n, <2>f, <2>i, <3>1, <3>4, <4>3, SMTT(30)
      <4> QED
        BY <2>p, <3>1, <3>3, <4>4, ZenonT(30)
    <3>5. CASE rows' = rows /\ quarantined' = 0
      <4>1. Room'
        BY <2>q, <2>s, <3>1, <3>3, <3>5, Zenon DEF HeldSet
      <4> QED
        BY <2>p, <3>1, <3>3, <4>1, Zenon
    <3> QED
      BY <2>6, <3>4, <3>5, ZenonT(30) DEF Fetch, StoreDelete, Store!Delete
  <2>7. CASE ReleaseQuarantined
    <3>1. /\ wpc = "quarantine" /\ wpc' \in {"pop", "recheck"}
          /\ outstanding' = Released(quarantined) /\ quarantined' = 0
          /\ UNCHANGED <<batch, rows, queue, retry>>
      BY <2>7, Zenon DEF ReleaseQuarantined, WorkerRelease
    <3>2. HeldSet' = HeldSet
      BY <2>q, <3>1, Zenon DEF HeldSet
    <3>3. Room'
      BY <1>c, <1>n, <2>f, <2>i, <3>1, <3>2, SMTT(30) DEF Released
    <3> QED
      BY <2>i, <2>p, <3>1, <3>3, Zenon DEF Outbound
  <2>8. CASE Acknowledge
    <3>1. /\ wpc = "acknowledge" /\ batch \subseteq rows
          /\ UNCHANGED <<outstanding, quarantined, queue, retry>>
      BY <2>8, <2>i, Zenon DEF Acknowledge, Outbound
    <3>2. \/ wpc' = "pop" /\ batch' = {} /\ rows' \subseteq rows
          \/ rows' = rows \ batch /\ wpc' = "release" /\ batch' = batch
      BY <2>8, ZenonT(30) DEF Acknowledge, StoreDelete, Store!Delete
    <3>3. Incoming' \subseteq Incoming
      BY <1>2, <1>t, WorkerIncoming, Zenon
    <3>4. Room'
      BY <2>q, <2>s, <3>1, <3>2, ZenonT(30) DEF HeldSet
    <3> QED
      BY <1>k, <2>p, <3>1, <3>2, <3>3, <3>4, Zenon DEF Outbound
  <2>9. CASE ReleaseDelivered
    <3>1. /\ wpc = "release" /\ wpc' = "deliver" /\ batch' = {}
          /\ UNCHANGED <<rows, quarantined, queue, retry>>
          /\ outstanding' = Released(Cardinality(batch))
      BY <2>9, Zenon DEF ReleaseDelivered, WorkerRelease
    <3>2. batch \cap (rows \cup retry \cup Queued) = {}
      BY <2>i, <3>1, ZenonT(30) DEF Incoming
    <3>3. HeldSet' \subseteq HeldSet /\ batch \subseteq HeldSet /\ HeldSet' \cap batch = {}
      BY <2>q, <3>1, <3>2, ZenonT(30) DEF HeldSet
    <3>4. Room'
      BY <2>l, <3>1, <3>3, ZenonT(30)
    <3> QED
      BY <2>p, <3>1, <3>4, ZenonT(30) DEF Outbound
  <2>10. CASE Discard \/ ReleaseAtBoundary \/ WorkerPurge \/ WorkerReset
    BY <2>10, <2>i, ZenonT(30) DEF Discard, ReleaseAtBoundary, WorkerPurge, WorkerReset
  <2> QED
    BY <1>2, <2>1, <2>2, <2>3, <2>4, <2>5, <2>6, <2>7, <2>8, <2>9, <2>10, ZenonT(30)
       DEF Worker
<1>3. CASE Revoke
  <2>1. purgeRequired' /\ queue' = <<>> /\ ~Granted'
    BY <1>3, Zenon DEF Revoke, RevokeBegin, Granted
  <2> QED
    BY <1>g, <2>1, ZenonT(30)
<1>4. CASE GrantReturn /\ QuietGrant
  <2>1. /\ UNCHANGED <<op, queue, wpc, batch, retry, quarantined, generation, wgen>>
        /\ UNCHANGED <<outstanding, rows>> /\ Granted' /\ ~purgeRequired
        /\ cpc = "grant"
    BY <1>4, <1>t, ConsentFrame, ZenonT(30)
       DEF GrantReturn, Grant, workerVars, storeVars, OwedInv, Granted
  <2>2. Queued' = Queued /\ Incoming' = Incoming
    BY <2>1, Zenon DEF Incoming, Queued
  <2>3. Held' = Held
    BY <2>1, <2>2, Zenon DEF Held
  <2>4. CASE Granted
    BY <1>g, <1>i, <2>1, <2>2, <2>3, <2>4, ZenonT(30) DEF up
  <2>5. CASE ~Granted /\ up
    <3>1. wpc \in {"pop", "take", "deliver", "fetch"} /\ batch = {} /\ retry = {}
      BY <1>4, <2>5, Zenon DEF QuietGrant, Unoccupied
    <3>2. rows = {} /\ queue = <<>> /\ op = "idle" /\ quarantined = 0
      BY <1>i, <1>t, <2>1, <2>5, <3>1, Zenon DEF HandsInv
    <3>3. HeldSet = {} /\ Reservation = 0
      BY <3>1, <3>2, OpNames, SMTT(30) DEF HeldSet, Queued, Reservation
    <3>4. Room'
      BY <1>c, <2>1, <2>3, <3>2, <3>3, FS_EmptySet
    <3>5. Place'
      BY <2>1, <3>1, Zenon DEF Outbound
    <3> QED
      BY <1>g, <2>1, <3>4, <3>5, Zenon
  <2> QED
    BY <1>t, <2>1, <2>4, <2>5, Zenon DEF HandsInv
<1>5. CASE GrantCall \/ Mark \/ Purge \/ Reset
  <2>1. /\ UNCHANGED <<op, queue, wpc, batch, retry, quarantined, generation, wgen>>
        /\ consent' = consent
    BY <1>5, ConsentFrame, ZenonT(30)
       DEF GrantCall, Mark, Purge, Reset, WorkerRelease, admissionVars, workerVars
  <2>2. CASE GrantCall
    <3>1. UNCHANGED <<outstanding, rows, purgeRequired>>
      BY <2>2, Zenon DEF GrantCall, storeVars, admissionVars
    <3>2. Queued' = Queued /\ Incoming' = Incoming
      BY <2>1, Zenon DEF Incoming, Queued
    <3>3. Held' = Held
      BY <2>1, <3>1, <3>2, Zenon DEF Held
    <3> QED
      BY <1>g, <1>i, <2>1, <3>1, <3>2, <3>3, ZenonT(30) DEF up, Granted
  <2>3. CASE Mark \/ Purge \/ Reset
    <3>1. cpc \in {"mark", "purge", "reset"} /\ up /\ ~Granted /\ purgeRequired
      BY <1>t, <2>3, ZenonT(30) DEF Mark, Purge, Reset, OwedInv, HandsInv
    <3>2. purgeRequired' = purgeRequired \/ rows' = {}
      <4>1. CASE Reset
        <5>1. rows' = rows /\ rows \cap 1..Len(admitted) = {}
          BY <1>t, <3>1, <4>1, ZenonT(30) DEF Reset, OwedInv, storeVars
        <5>2. DOMAIN admitted = 1..Len(admitted)
          BY <1>t DEF TypeOK
        <5> QED
          BY <1>t, <5>1, <5>2, Zenon DEF DeliveryTypeOK
      <4> QED
        BY <2>3, <4>1, Zenon DEF Mark, Purge
    <3> QED
      BY <1>g, <1>i, <2>1, <3>1, <3>2, ZenonT(30) DEF up, Granted
  <2> QED
    BY <1>5, <2>2, <2>3, Zenon
<1>6. CASE CorruptRow
  <2>1. /\ UNCHANGED <<op, queue, wpc, batch, retry, quarantined, generation, wgen>>
        /\ UNCHANGED <<purgeRequired, consent, outstanding, rows>>
    BY <1>6, ZenonT(30) DEF CorruptRow, admissionVars, workerVars, consentVars,
       Store!Damage
  <2>2. Queued' = Queued /\ Incoming' = Incoming
    BY <2>1, Zenon DEF Incoming, Queued
  <2>3. Held' = Held
    BY <2>1, <2>2, Zenon DEF Held
  <2> QED
    BY <1>g, <1>i, <2>1, <2>2, <2>3, ZenonT(30) DEF up, Granted
<1>7. CASE Crash
  BY <1>7, <1>g, Zenon DEF Crash, up
<1>8. ASSUME NEW c \in {"Granted", "Denied"}, Create(c) PROVE CoveredInv'
  <2>1. /\ UNCHANGED <<op, queue, retry, batch, quarantined>>
        /\ queue = <<>> /\ retry = {} /\ batch = {} /\ op = "idle" /\ quarantined = 0
        /\ wpc' \in {"down", "pop"}
        /\ wpc' = "pop" => outstanding' = Cardinality(rows') /\ consent' = c
    BY <1>8, <1>t, ZenonT(30) DEF Create, up, HandsInv, EmptyHanded
  <2>c. Closed'
    <3>1. wpc = "down" /\ (wpc' = "pop" => PurgeOwed(c))
      BY <1>8, Zenon DEF Create, up
    <3>2. wpc' = "pop" /\ ~Granted' => rows' = {}
      BY <2>1, <3>1, Zenon DEF PurgeOwed, StorePurge, Store!Purge, Granted
    <3> QED
      BY <2>1, <3>2, Zenon DEF up
  <2>2. HeldSet' = rows' /\ Reservation' = 0
    BY <2>1, OpNames, SMTT(30) DEF HeldSet, Queued, Reservation
  <2>3. rows' \subseteq DOMAIN admitted
    BY <1>8, DeliveryTypeStep, Zenon DEF DeliveryNext, DeliveryTypeOK, Create
  <2>4. Cardinality(rows') \in Nat
    BY <1>t, <2>3, Sizes, Zenon
  <2>5. wpc' = "pop" => Place' /\ Room'
    BY <1>n, <2>1, <2>2, <2>4 DEF Outbound
  <2> QED
    BY <1>g, <2>1, <2>5, <2>c, ZenonT(30) DEF up
<1> QED
  BY <1>1, <1>2, <1>3, <1>4, <1>5, <1>6, <1>7, <1>8, ZenonT(30) DEF QuietNext, SetConsent

\* While collection is on, the counter admission tests covers everything that
\* is held, in every generation and after restarts, if consent is granted only
\* to a worker that holds nothing and is not about to purge or to reset the
\* counter; granted at another time it may not (the run store_overflow).
THEOREM CapacityCovered == QuietSpec => []CapacityNeverUndercounted
<1>1. ASSUME DeliveryInit PROVE CoveredInv
  <2>1. /\ DeliveryInv /\ outstanding = 0 /\ wpc = "pop" /\ batch = {} /\ rows = {}
        /\ quarantined = 0 /\ retry = {} /\ queue = <<>> /\ op = "idle"
    BY <1>1, DeliveryInitInv, Zenon DEF DeliveryInit, Init
  <2>2. Queued = {} /\ op \notin PushOps
    BY <2>1, OpNames DEF Queued
  <2>3. Held = 0
    BY <2>1, <2>2, FS_EmptySet DEF Held
  <2> QED
    BY <2>1, <2>3 DEF CoveredInv, Outbound
<1>2. ASSUME DeliveryInv, CoveredInv, [QuietNext]_vars
      PROVE  CoveredInv'
  <2>1. CASE UNCHANGED vars
    <3>1. /\ UNCHANGED <<op, queue, wpc, batch, retry, quarantined, generation, wgen>>
          /\ UNCHANGED <<purgeRequired, consent, outstanding, rows>>
      BY <2>1, Zenon DEF vars, admissionVars, workerVars, consentVars, storeVars
    <3>2. Queued' = Queued /\ Incoming' = Incoming
      BY <3>1, Zenon DEF Incoming, Queued
    <3>3. Held' = Held
      BY <3>1, <3>2, Zenon DEF Held
    <3> QED
      BY <1>2, <3>1, <3>2, <3>3, ZenonT(30) DEF CoveredInv, up, Granted
  <2> QED
    BY <1>2, <2>1, CoveredStep, ZenonT(30)
<1>3. ASSUME DeliveryInv, CoveredInv PROVE CapacityNeverUndercounted
  <2>1. quarantined \in Nat /\ outstanding \in Nat /\ Held \in Nat
    BY <1>3, HeldTerms DEF DeliveryInv
  <2> QED
    BY <1>3, <2>1 DEF CoveredInv, CapacityNeverUndercounted
<1> QED
  <2>1. DeliveryInv /\ [QuietNext]_vars => DeliveryInv'
    BY DeliveryStep, Zenon DEF QuietNext, DeliveryNext
  <2> QED
    BY <1>1, <1>2, <1>3, <2>1, DeliveryInitInv, PTL DEF QuietSpec
=============================================================================
