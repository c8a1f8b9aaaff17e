--------------------------- MODULE LifecycleProofs ---------------------------
(***************************************************************************)
(* Proofs about Lifecycle: what flush() and shutdown() report is true, for *)
(* any number of callers, events, tokens and retained results.             *)
(***************************************************************************)
EXTENDS Lifecycle, FiniteSetTheorems, NaturalsInduction, WellFoundedInduction,
        TLAPS

-----------------------------------------------------------------------------
(* Sets of events and tokens *)

\* A set of naturals has a least element.
LEMMA Least ==
    ASSUME NEW S \in SUBSET Nat, S # {}
    PROVE  \E m \in S : \A s \in S : m <= s
<1>1. \E x \in S : \A y \in S : ~(<<y, x>> \in OpToRel(<, Nat))
  BY NatLessThanWellFounded, WFMin, ZenonT(30)
<1>2. PICK x \in S : \A y \in S : ~(y < x)
  BY <1>1, ZenonT(30) DEF OpToRel
<1> QED
  BY <1>2

\* Sets of events and tokens are finite.
LEMMA Finite ==
    ASSUME NEW n \in Nat, NEW S, S \subseteq 1..n
    PROVE  IsFiniteSet(S) /\ Cardinality(S) \in Nat
<1>1. IsFiniteSet(1..n)
  <2>1. 1 \in Int /\ n \in Int
    OBVIOUS
  <2> QED
    BY <2>1, FS_Interval, Zenon
<1> QED
  BY <1>1, FS_Subset, FS_CardinalityType, ZenonT(30)

\* prune_pass_results_locked keeps entries as they are, and at most
\* kMaxRetainedPasses of them.
LEMMA PrunedResults ==
    ASSUME NEW results, NEW n \in Nat, DOMAIN results \subseteq 1..n
    PROVE  /\ DOMAIN Pruned(results) \subseteq DOMAIN results
           /\ \A t \in DOMAIN Pruned(results) : Pruned(results)[t] = results[t]
           /\ Cardinality(DOMAIN Pruned(results)) <= MaxRetainedPasses
<1> DEFINE D == DOMAIN results
           Later(t) == {u \in D : u > t}
           kept == {t \in D : Cardinality(Later(t)) < MaxRetainedPasses}
<1>1. Pruned(results) = [t \in kept |-> results[t]]
  BY Zenon DEF Pruned
<1>2. kept \subseteq D /\ D \subseteq 1..n /\ D \subseteq Nat
  OBVIOUS
<1>3. Cardinality(kept) <= MaxRetainedPasses
  <2>1. CASE kept = {}
    <3>1. Cardinality(kept) = 0
      BY <2>1, FS_EmptySet, Zenon
    <3> QED
      BY <3>1, LifecycleAssumption
  <2>2. CASE kept # {}
    <3>1. PICK m \in kept : \A t \in kept : m <= t
      BY <1>2, <2>2, Least, ZenonT(30)
    <3>2. kept \ {m} \subseteq Later(m) /\ Later(m) \subseteq 1..n /\ kept \subseteq 1..n
      BY <1>2, <3>1
    <3>3. IsFiniteSet(kept) /\ IsFiniteSet(Later(m)) /\ Cardinality(Later(m)) \in Nat
      BY <3>2, Finite, ZenonT(30)
    <3>4. Cardinality(kept \ {m}) <= Cardinality(Later(m))
      BY <3>2, <3>3, FS_Subset, ZenonT(30)
    <3>5. Cardinality(kept \ {m}) = Cardinality(kept) - 1 /\ Cardinality(kept) \in Nat
      BY <3>1, <3>3, FS_RemoveElement, FS_CardinalityType, ZenonT(30)
    <3>6. Cardinality(Later(m)) < MaxRetainedPasses
      BY <3>1, Zenon
    <3> QED
      BY <3>3, <3>4, <3>5, <3>6, LifecycleAssumption
  <2> QED
    BY <2>1, <2>2, Zenon
<1> QED
  BY <1>1, <1>2, <1>3, Zenon

-----------------------------------------------------------------------------
(* What steps leave alone *)

\* Neither the worker nor the sink touches what belongs to the callers.
LEMMA WorkerFrame ==
    ASSUME WorkerStep \/ SinkReturns \/ Die
    PROVE  /\ UNCHANGED <<lifecycle, holder, ordinal, stop, flushSeq, flushBarrier>>
           /\ UNCHANGED <<pc, token, bound, persist, returned>>
<1> USE DEF dataVars, flushVars, callerVars, exitVars, resultVars, localVars
<1>1. CASE Latch \/ Pop \/ Insert \/ Deliver \/ Remains
  BY <1>1, ZenonT(30) DEF Latch, Pop, Insert, Deliver, Remains
<1>2. CASE FlushSink \/ Record \/ StopCheck \/ SetTerminated \/ Exit
  BY <1>2, ZenonT(30) DEF FlushSink, Record, StopCheck, SetTerminated, Exit
<1>3. CASE SinkReturns \/ Die
  BY <1>3, ZenonT(30) DEF SinkReturns, Die
<1> QED
  BY <1>1, <1>2, <1>3, Zenon DEF WorkerStep

\* Only the end of a flush pass and the worker's exit answer tokens.
LEMMA QuietFrame ==
    ASSUME WorkerStep \/ SinkReturns \/ Die, ~Record, ~Exit
    PROVE  UNCHANGED <<flushDone, passResults, outcomes, handled>>
<1> USE DEF dataVars, flushVars, callerVars, exitVars, resultVars, localVars
<1>1. CASE Latch \/ Pop \/ Insert \/ Deliver \/ Remains
  BY <1>1, ZenonT(30) DEF Latch, Pop, Insert, Deliver, Remains
<1>2. CASE FlushSink \/ StopCheck \/ SetTerminated
  BY <1>2, ZenonT(30) DEF FlushSink, StopCheck, SetTerminated
<1>3. CASE SinkReturns \/ Die
  BY <1>3, ZenonT(30) DEF SinkReturns, Die
<1> QED
  BY <1>1, <1>2, <1>3, Zenon DEF WorkerStep

\* No caller touches what belongs to the worker.
LEMMA CallerFrame ==
    ASSUME NEW c \in Callers, CallerStep(c)
    PROVE  /\ UNCHANGED <<ordinal, queue, retry, rows, settled>>
           /\ UNCHANGED <<terminal, terminated, finished>>
           /\ UNCHANGED <<flushDone, passResults, outcomes, pendingError, wpc>>
           /\ UNCHANGED <<want, handled, barrier, hand, moved, delivered, looping>>
<1> USE DEF dataVars, exitVars, resultVars, localVars
<1>1. CASE FlushCall(c) \/ ShutdownCall(c) \/ WaitForWorkerExit(c) \/ SubmitBarrier(c)
  BY <1>1, ZenonT(30) DEF FlushCall, ShutdownCall, WaitForWorkerExit, SubmitBarrier
<1>2. CASE SubmitToken(c) \/ FlushReturn(c) \/ DrainBarrier(c) \/ DrainReturn(c)
  BY <1>2, ZenonT(30) DEF SubmitToken, FlushReturn, DrainBarrier, DrainReturn
<1>3. CASE RequestStop(c) \/ Join(c) \/ ShutdownReturn(c)
  BY <1>3, ZenonT(30) DEF RequestStop, Join, ShutdownReturn
<1> QED
  BY <1>1, <1>2, <1>3, Zenon DEF CallerStep

\* A step of one caller leaves the others where they are.
LEMMA OtherCallers ==
    ASSUME TypeOK, NEW c \in Callers, CallerStep(c), NEW d \in Callers, d # c
    PROVE  /\ pc'[d] = pc[d] /\ token'[d] = token[d] /\ bound'[d] = bound[d]
           /\ returned'[d] = returned[d]
<1> USE DEF callerVars, TypeOK, Goto, Return, ShutdownReturns
<1>1. CASE FlushCall(c) \/ ShutdownCall(c) \/ WaitForWorkerExit(c) \/ SubmitBarrier(c)
  BY <1>1 DEF FlushCall, ShutdownCall, WaitForWorkerExit, SubmitBarrier
<1>2. CASE SubmitToken(c) \/ FlushReturn(c) \/ DrainBarrier(c) \/ DrainReturn(c)
  BY <1>2, Zenon DEF SubmitToken, FlushReturn, DrainBarrier, DrainReturn
<1>3. CASE RequestStop(c) \/ Join(c) \/ ShutdownReturn(c)
  BY <1>3, ZenonT(30) DEF RequestStop, Join, ShutdownReturn
<1> QED
  BY <1>1, <1>2, <1>3, Zenon DEF CallerStep

-----------------------------------------------------------------------------
(* Answers *)

\* What it means to answer the tokens up to n: the earlier outcomes stand, the
\* new ones are the given status, and what is kept of the results is either.
LEMMA AnswerEffects ==
    ASSUME TypeOK, handled = flushDone, NEW n \in Nat, n >= flushDone,
           NEW status, AnswerTokens((handled + 1)..n, status)
    PROVE  /\ DOMAIN outcomes' = 1..n
           /\ \A t \in 1..flushDone : outcomes'[t] = outcomes[t]
           /\ \A t \in (handled + 1)..n : outcomes'[t] = status
           /\ DOMAIN passResults' \subseteq 1..n
           /\ \A t \in DOMAIN passResults' :
                \/ t \in (handled + 1)..n /\ passResults'[t] = status
                \/ /\ t \in DOMAIN passResults /\ t \in 1..flushDone
                   /\ passResults'[t] = passResults[t]
           /\ Cardinality(DOMAIN passResults') <= MaxRetainedPasses
<1> DEFINE new == (handled + 1)..n
           all == WithEntries(passResults, new, status)
<1>1. handled \in Nat /\ flushDone \in Nat /\ DOMAIN outcomes = 1..flushDone
      /\ DOMAIN passResults \subseteq 1..flushDone
  BY DEF TypeOK
<1>2. passResults' = Pruned(all) /\ outcomes' = WithEntries(outcomes, new, status)
  BY Zenon DEF AnswerTokens
<1>3. DOMAIN all = new \cup DOMAIN passResults
      /\ \A t \in DOMAIN all : all[t] = IF t \in new THEN status ELSE passResults[t]
  BY Zenon DEF WithEntries
<1>4. DOMAIN all \subseteq 1..n
  BY <1>1, <1>3
<1>5. /\ DOMAIN passResults' \subseteq DOMAIN all
      /\ \A t \in DOMAIN passResults' : passResults'[t] = all[t]
      /\ Cardinality(DOMAIN passResults') <= MaxRetainedPasses
  BY <1>2, <1>4, PrunedResults, Zenon
<1>6. new \cup 1..flushDone = 1..n /\ \A t \in 1..flushDone : t \notin new
  BY <1>1
<1>7. /\ DOMAIN outcomes' = 1..n
      /\ \A t \in 1..flushDone : outcomes'[t] = outcomes[t]
      /\ \A t \in new : outcomes'[t] = status
  BY <1>1, <1>2, <1>6, Zenon DEF WithEntries
<1>8. \A t \in DOMAIN passResults' :
        \/ t \in new /\ passResults'[t] = status
        \/ /\ t \in DOMAIN passResults /\ t \in 1..flushDone
           /\ passResults'[t] = passResults[t]
  BY <1>1, <1>3, <1>5, Zenon
<1> QED
  BY <1>4, <1>5, <1>7, <1>8, Zenon

\* What a call reports is a status, and is its own token's result whenever it
\* says more than that there is none.
LEMMA AnswerMeaning ==
    ASSUME TypeOK, ResultInv, NEW c \in Callers
    PROVE  /\ Answer(c) \in Status
           /\ Answer(c) \in {"Ok", "StorageError", "SinkError"} =>
                /\ ~terminal /\ token[c] \in 1..flushDone
                /\ outcomes[token[c]] = Answer(c)
<1>1. CASE token[c] \in DOMAIN passResults
  BY <1>1, Zenon DEF Answer, FlushResult, ResultInv, TypeOK, Status
<1>2. CASE token[c] \notin DOMAIN passResults
  BY <1>2, Zenon DEF Answer, FlushResult, Status
<1> QED
  BY <1>1, <1>2, Zenon

\* What a pass may report of the work left is a status; Ok means that none of
\* the events up to the barrier is left.
LEMMA ResidualMeaning ==
    ASSUME NEW b \in Nat
    PROVE  /\ Residuals(b) \subseteq {"Ok", "Timeout", "StorageError", "SinkError"}
           /\ "Ok" \in Residuals(b) =>
                (queue \cup retry \cup rows) \cap 1..b = {}
<1>1. CASE b = 0
  BY <1>1 DEF Residuals
<1>2. CASE b # 0 /\ queue \cap 1..b # {}
  BY <1>2, Zenon DEF Residuals
<1>3. CASE b # 0 /\ queue \cap 1..b = {} /\ retry \cap 1..b # {}
  BY <1>3, Zenon DEF Residuals
<1>4. CASE b # 0 /\ queue \cap 1..b = {} /\ retry \cap 1..b = {}
  BY <1>4, Zenon DEF Residuals
<1> QED
  BY <1>1, <1>2, <1>3, <1>4, Zenon

-----------------------------------------------------------------------------
(* Types *)

\* Within its bound every call that was admitted finds a token left.
LEMMA TokensStep ==
    ASSUME TypeOK, TokensInv, Next
    PROVE  TokensInv'
<1> DEFINE S == {c \in Callers : pc[c] \in Submitting}
<1>1. IsFiniteSet(S) /\ Cardinality(S) \in Nat /\ flushSeq \in Nat /\ MaxTokens \in Nat
  BY LifecycleAssumption, FS_Subset, FS_CardinalityType DEF TypeOK
<1>2. CASE pc' = pc /\ flushSeq' = flushSeq
  BY <1>2, Zenon DEF TokensInv
<1>3. ASSUME NEW c \in Callers, CallerStep(c) PROVE TokensInv'
  <2> DEFINE T == {d \in Callers : pc'[d] \in Submitting}
  <2>p. pc \in [Callers -> {"idle", "flushBarrier", "flushToken", "flushWait",
                            "drain", "drainBarrier", "drainToken", "drainWait",
                            "stop", "join", "stopped"}]
    BY Zenon DEF TypeOK
  <2>o. \A d \in Callers : d # c => pc'[d] = pc[d]
    BY <1>3, OtherCallers, Zenon
  <2>t. TokensInv' <=> flushSeq' + Cardinality(T) <= MaxTokens
    BY Zenon DEF TokensInv
  <2>i. flushSeq + Cardinality(S) <= MaxTokens
    BY Zenon DEF TokensInv
  <2>1. CASE SubmitToken(c)
    <3>1. pc[c] \in Submitting /\ pc'[c] \notin Submitting /\ flushSeq' = flushSeq + 1
      BY <2>1, <2>p, Zenon DEF SubmitToken, Goto, Submitting
    <3>2. T = S \ {c} /\ c \in S
      BY <2>o, <3>1, Zenon
    <3>3. Cardinality(T) = Cardinality(S) - 1
      BY <1>1, <3>2, FS_RemoveElement, ZenonT(30)
    <3> QED
      BY <1>1, <2>t, <2>i, <3>1, <3>3
  <2>2. CASE pc'[c] \in Submitting /\ pc[c] \notin Submitting
    <3>1. TokenLeft /\ flushSeq' = flushSeq
      BY <1>3, <2>2, <2>p, Zenon DEF CallerStep, FlushCall, ShutdownCall, WaitForWorkerExit,
         SubmitBarrier, SubmitToken, FlushReturn, DrainBarrier, DrainReturn,
         RequestStop, Join, ShutdownReturn, Goto, Return, ShutdownReturns,
         Submitting, callerVars, flushVars
    <3>2. T = S \cup {c} /\ c \notin S
      BY <2>o, <2>2, Zenon
    <3>3. Cardinality(T) = Cardinality(S) + 1
      BY <1>1, <3>2, FS_AddElement, Zenon
    <3>4. flushSeq + Cardinality(S) < MaxTokens
      BY <3>1, Zenon DEF TokenLeft
    <3> QED
      BY <1>1, <2>t, <3>1, <3>3, <3>4
  <2>3. CASE ~SubmitToken(c) /\ (pc'[c] \in Submitting => pc[c] \in Submitting)
    <3>1. flushSeq' = flushSeq
      BY <1>3, <2>3, ZenonT(30) DEF CallerStep, FlushCall, ShutdownCall,
         WaitForWorkerExit, SubmitBarrier, FlushReturn, DrainBarrier, DrainReturn,
         RequestStop, Join, ShutdownReturn, flushVars
    <3>2. T \subseteq S
      BY <2>o, <2>3, Zenon
    <3>3. Cardinality(T) <= Cardinality(S) /\ Cardinality(T) \in Nat
      BY <1>1, <3>2, FS_Subset, FS_CardinalityType, Zenon
    <3> QED
      BY <1>1, <2>t, <2>i, <3>1, <3>3
  <2> QED
    BY <2>1, <2>2, <2>3, Zenon
<1>4. CASE WorkerStep \/ SinkReturns \/ Die
  BY <1>2, <1>4, WorkerFrame, Zenon
<1>5. CASE ShutdownFromWorker \/ Accept
  BY <1>2, <1>5, Zenon DEF ShutdownFromWorker, Accept, callerVars, flushVars
<1> QED
  BY <1>3, <1>4, <1>5, Zenon DEF Next

\* A caller's step keeps the types of what it changes, and the flush sequence
\* and its barrier only grow.
LEMMA CallerTypes ==
    ASSUME TypeOK, TokensInv, ResultInv, BarrierInv, NEW c \in Callers, CallerStep(c)
    PROVE  /\ lifecycle' \in {"Running", "Stopping", "Stopped"}
           /\ holder' \in Callers \cup {Nobody}
           /\ stop' \in BOOLEAN
           /\ flushSeq' \in flushSeq..MaxTokens
           /\ flushBarrier' \in flushBarrier..ordinal
           /\ pc' \in [Callers -> {"idle", "flushBarrier", "flushToken", "flushWait",
                                   "drain", "drainBarrier", "drainToken", "drainWait",
                                   "stop", "join", "stopped"}]
           /\ token' \in [Callers -> 0..MaxTokens]
           /\ bound' \in [Callers -> 0..MaxOrdinal]
           /\ persist' \in [Callers -> Status]
           /\ returned' \in [Callers -> {"flush", "shutdown", "none"} \X Status]
<1>0. /\ flushSeq \in 0..MaxTokens /\ MaxTokens \in Nat /\ MaxOrdinal \in Nat
      /\ ordinal \in 0..MaxOrdinal /\ flushBarrier \in 0..ordinal
      /\ bound[c] \in 0..ordinal
  BY LifecycleAssumption DEF TypeOK, BarrierInv
<1>t. /\ lifecycle \in {"Running", "Stopping", "Stopped"}
      /\ holder \in Callers \cup {Nobody}
      /\ stop \in BOOLEAN
      /\ pc \in [Callers -> {"idle", "flushBarrier", "flushToken", "flushWait",
                             "drain", "drainBarrier", "drainToken", "drainWait",
                             "stop", "join", "stopped"}]
      /\ token \in [Callers -> 0..MaxTokens]
      /\ bound \in [Callers -> 0..MaxOrdinal]
      /\ persist \in [Callers -> Status]
      /\ returned \in [Callers -> {"flush", "shutdown", "none"} \X Status]
  BY Zenon DEF TypeOK
<1>a. Answer(c) \in Status
  BY AnswerMeaning, Zenon
<1>s. {"Ok", "Internal", "AlreadyShutdown", "Timeout"} \subseteq Status
      /\ ShutdownStatus(c) \in Status
  BY <1>t, Zenon DEF Status, ShutdownStatus
<1> DEFINE Pcs == {"idle", "flushBarrier", "flushToken", "flushWait", "drain",
                   "drainBarrier", "drainToken", "drainWait", "stop", "join",
                   "stopped"}
<1>r. ASSUME NEW call \in {"flush", "shutdown"}, NEW s \in Status, Return(c, call, s)
      PROVE  /\ pc' \in [Callers -> Pcs]
             /\ returned' \in [Callers -> {"flush", "shutdown", "none"} \X Status]
  BY <1>t, <1>r, Zenon DEF Return, Goto
<1>q. ASSUME NEW s \in Status, ShutdownReturns(c, s)
      PROVE  /\ pc' \in [Callers -> Pcs]
             /\ returned' \in [Callers -> {"flush", "shutdown", "none"} \X Status]
             /\ token' \in [Callers -> 0..MaxTokens]
             /\ bound' \in [Callers -> 0..MaxOrdinal]
             /\ persist' \in [Callers -> Status]
  BY <1>0, <1>r, <1>q, <1>s, <1>t DEF ShutdownReturns
<1> USE DEF callerVars, flushVars
<1>1. CASE FlushCall(c)
  <2>1. CASE \E s \in Status : Return(c, "flush", s) /\ UNCHANGED <<holder, bound>>
    BY <1>0, <1>t, <1>r, <1>1, <2>1 DEF FlushCall
  <2>2. CASE /\ holder' = c /\ bound' = [bound EXCEPT ![c] = ordinal]
             /\ Goto(c, "flushBarrier") /\ UNCHANGED returned
    BY <1>0, <1>t, <1>1, <2>2 DEF FlushCall, Goto
  <2> QED
    BY <1>1, <1>s, <2>1, <2>2, ZenonT(30) DEF FlushCall
<1>2. CASE ShutdownCall(c)
  <2>1. CASE ShutdownReturns(c, "Ok") /\ UNCHANGED lifecycle
    BY <1>0, <1>t, <1>q, <1>s, <1>2, <2>1 DEF ShutdownCall
  <2>2. CASE /\ lifecycle' = "Stopping" /\ Goto(c, "drain")
             /\ UNCHANGED <<token, bound, persist, returned>>
    BY <1>0, <1>t, <1>2, <2>2 DEF ShutdownCall, Goto
  <2> QED
    BY <1>2, <2>1, <2>2, Zenon DEF ShutdownCall
<1>3. CASE WaitForWorkerExit(c) \/ DrainBarrier(c) \/ RequestStop(c)
  <2>1. CASE WaitForWorkerExit(c)
    BY <1>0, <1>t, <2>1 DEF WaitForWorkerExit
  <2>2. CASE DrainBarrier(c)
    BY <1>0, <1>t, <2>2 DEF DrainBarrier, Goto
  <2>3. CASE RequestStop(c)
    BY <1>0, <1>t, <2>3 DEF RequestStop, Goto
  <2> QED
    BY <1>3, <2>1, <2>2, <2>3, Zenon
<1>4. CASE SubmitBarrier(c)
  BY <1>0, <1>t, <1>4 DEF SubmitBarrier, Goto
<1>5. CASE SubmitToken(c)
  <2>1. TokensInv' /\ c \notin {}
    BY <1>5, TokensStep, Zenon DEF Next, CallerStep
  <2>2. flushSeq' \in Nat /\ flushSeq' <= MaxTokens
    <3>1. flushSeq' = flushSeq + 1
      BY <1>5, Zenon DEF SubmitToken
    <3>2. Cardinality({d \in Callers : pc'[d] \in Submitting}) \in Nat
      BY LifecycleAssumption, FS_Subset, FS_CardinalityType, Zenon
    <3> QED
      BY <1>0, <2>1, <3>1, <3>2 DEF TokensInv
  <2> QED
    BY <1>0, <1>t, <1>5, <2>2 DEF SubmitToken, Goto
<1>6. CASE FlushReturn(c)
  BY <1>0, <1>t, <1>r, <1>s, <1>a, <1>6 DEF FlushReturn
<1>7. CASE DrainReturn(c)
  BY <1>0, <1>t, <1>a, <1>7 DEF DrainReturn, Goto
<1>8. CASE Join(c)
  <2>1. CASE Goto(c, "stopped") /\ UNCHANGED <<token, bound, persist, returned>>
    BY <1>0, <1>t, <1>8, <2>1 DEF Join, Goto
  <2>2. CASE ShutdownReturns(c, "Timeout")
    BY <1>0, <1>t, <1>q, <1>s, <1>8, <2>2 DEF Join
  <2> QED
    BY <1>8, <2>1, <2>2, Zenon DEF Join
<1>9. CASE ShutdownReturn(c)
  BY <1>0, <1>t, <1>q, <1>s, <1>9 DEF ShutdownReturn
<1> QED
  BY <1>1, <1>2, <1>3, <1>4, <1>5, <1>6, <1>7, <1>8, <1>9, Zenon DEF CallerStep

\* The invariant at hand implies all state keeps its type; what the worker
\* holds is neither lost nor invented.
LEMMA WorkerTypes ==
    ASSUME LifecycleInv, WorkerStep \/ SinkReturns \/ Die
    PROVE  NothingLost'
<1>t. TypeOK
  BY Zenon DEF LifecycleInv, NothingLost
<1>f. /\ UNCHANGED <<lifecycle, holder, ordinal, stop, flushSeq, flushBarrier>>
      /\ UNCHANGED <<pc, token, bound, persist, returned>>
  BY WorkerFrame, Zenon
<1> DEFINE Places == queue \cup hand \cup retry \cup rows \cup settled
           Data == /\ queue \subseteq 1..ordinal /\ retry \subseteq 1..ordinal
                   /\ rows \subseteq 1..ordinal /\ settled \subseteq 1..ordinal
                   /\ hand \subseteq 1..ordinal
                   /\ Cardinality(queue) <= QueueCap
                   /\ terminal \/ 1..ordinal = Places
           Flags == {stop, terminal, terminated, finished, moved, delivered, looping}
                      \subseteq BOOLEAN
           Locals == /\ want \in 0..flushSeq /\ handled \in 0..want
                     /\ barrier \in 0..flushBarrier
           Results == /\ flushDone \in 0..flushSeq
                      /\ DOMAIN passResults \subseteq 1..flushDone
                      /\ \A t \in DOMAIN passResults : passResults[t] \in Status
                      /\ Cardinality(DOMAIN passResults) <= MaxRetainedPasses
                      /\ DOMAIN outcomes = 1..flushDone
           Control == /\ pendingError \in Status
                      /\ wpc \in {"latch", "pop", "insert", "deliver", "writing",
                                  "remains", "flushSink", "record", "stopCheck",
                                  "terminate", "exit", "finished"}
<1>i. Data /\ Flags /\ Locals /\ Results /\ Control
  BY <1>t, Zenon DEF LifecycleInv, NothingLost, TypeOK
<1>n. /\ flushSeq \in Nat /\ flushBarrier \in Nat /\ ordinal \in Nat
      /\ want \in Nat /\ handled \in Nat /\ flushDone \in Nat
  BY <1>t DEF TypeOK
<1> USE DEF dataVars, flushVars, callerVars, exitVars, resultVars, localVars, TurnEnds
<1>1. Data'
  <2>o. ASSUME NEW S, NEW n PROVE Oldest(S, n) \subseteq S
    BY Zenon DEF Oldest
  <2>1. CASE Pop
    <3>1. /\ queue' \subseteq queue /\ retry' = {} /\ UNCHANGED <<rows, settled, terminal>>
          /\ queue \cup retry \cup hand \subseteq queue' \cup hand' \cup hand
          /\ hand' \subseteq queue \cup retry
      BY <2>o, <2>1, Zenon DEF Pop
    <3>2. hand = {}
      BY <2>1, Zenon DEF Pop, LifecycleInv, PassInv
    <3>3. queue' \cup hand' = queue \cup retry
      BY <2>o, <2>1, Zenon DEF Pop
    <3>4. Cardinality(queue') <= Cardinality(queue) /\ Cardinality(queue') \in Nat
          /\ Cardinality(queue) \in Nat
      BY <1>i, <1>n, <3>1, Finite, FS_Subset, ZenonT(30)
    <3>5. Cardinality(queue') <= QueueCap
      BY <1>i, <3>4, LifecycleAssumption
    <3> QED
      BY <1>i, <1>f, <3>1, <3>2, <3>3, <3>5, Zenon
  <2>2. CASE Insert
    <3>1. /\ UNCHANGED <<queue, terminal>> /\ hand' = {} /\ retry = {}
          /\ rows' \cup retry' \cup settled' = rows \cup hand \cup settled
      BY <2>2, ZenonT(30) DEF Insert, LifecycleInv, PassInv
    <3> QED
      BY <1>i, <1>f, <3>1, ZenonT(30)
  <2>3. CASE Deliver
    <3>1. UNCHANGED <<queue, retry, terminal>> /\ hand = {} /\ hand' \subseteq rows
      BY <2>o, <2>3, ZenonT(30) DEF Deliver, LifecycleInv, PassInv
    <3>2. rows' \cup settled' = rows \cup settled
      BY <2>o, <2>3, ZenonT(30) DEF Deliver
    <3> QED
      BY <1>i, <1>f, <3>1, <3>2, ZenonT(30)
  <2>6. CASE SinkReturns
    <3>1. UNCHANGED <<queue, retry, terminal>> /\ hand' = {} /\ hand \subseteq rows
      BY <2>6, Zenon DEF SinkReturns, LifecycleInv, PassInv
    <3>2. rows' \cup settled' = rows \cup settled
      BY <2>6, <3>1, ZenonT(30) DEF SinkReturns
    <3> QED
      BY <1>i, <1>f, <3>1, <3>2, ZenonT(30)
  <2>4. CASE Die
    BY <1>i, <1>f, <2>4, Zenon DEF Die
  <2>5. CASE Latch \/ Remains \/ FlushSink \/ Record
             \/ StopCheck \/ SetTerminated \/ Exit
    <3>1. UNCHANGED <<queue, hand, retry, rows, settled, terminal>>
      BY <2>5, ZenonT(30) DEF Latch, Remains, FlushSink, Record,
         StopCheck, SetTerminated, Exit
    <3> QED
      BY <1>i, <1>f, <3>1, Zenon
  <2> QED
    BY <2>1, <2>2, <2>3, <2>4, <2>5, <2>6, Zenon DEF WorkerStep
<1>2. Flags'
  <2>1. /\ stop \in BOOLEAN /\ terminal \in BOOLEAN /\ terminated \in BOOLEAN
        /\ finished \in BOOLEAN /\ moved \in BOOLEAN /\ delivered \in BOOLEAN
        /\ looping \in BOOLEAN
    BY <1>i, Zenon
  <2>2. /\ terminal' \in BOOLEAN /\ terminated' \in BOOLEAN /\ finished' \in BOOLEAN
        /\ moved' \in BOOLEAN /\ delivered' \in BOOLEAN /\ looping' \in BOOLEAN
    BY <2>1, ZenonT(30)
       DEF WorkerStep, Latch, Pop, Insert, Deliver, Remains, FlushSink, Record,
       StopCheck, SetTerminated, Exit, SinkReturns, Die
  <2> QED
    BY <1>f, <2>1, <2>2, Zenon
<1>3. Locals'
  <2>1. CASE Latch \/ Remains \/ Record \/ StopCheck \/ Die
    BY <1>f, <1>i, <1>n, <2>1 DEF Latch, Remains, Record, StopCheck, Die
  <2>2. CASE Pop \/ Insert \/ Deliver \/ FlushSink \/ SetTerminated \/ Exit
             \/ SinkReturns
    <3>1. UNCHANGED <<want, handled, barrier>>
      BY <2>2, ZenonT(30) DEF Pop, Insert, Deliver, FlushSink, SetTerminated, Exit,
         SinkReturns
    <3> QED
      BY <1>f, <1>i, <3>1, Zenon
  <2> QED
    BY <2>1, <2>2, Zenon DEF WorkerStep
<1>4. Results'
  <2>1. CASE Record
    <3>1. PICK residual \in Residuals(barrier) :
            AnswerTokens((handled + 1)..want,
                         IF pendingError # "Ok" THEN pendingError ELSE residual)
      BY <2>1, Zenon DEF Record
    <3>2. residual \in Status
      BY <1>i, <1>n, ResidualMeaning DEF Status
    <3>3. flushDone' = want /\ want >= flushDone /\ handled = flushDone
      BY <1>i, <1>n, <2>1 DEF Record, LifecycleInv, PassInv, ExitInv
    <3>4. /\ DOMAIN outcomes' = 1..want
          /\ DOMAIN passResults' \subseteq 1..want
          /\ \A t \in DOMAIN passResults' : passResults'[t] \in Status
          /\ Cardinality(DOMAIN passResults') <= MaxRetainedPasses
      BY <1>i, <1>n, <1>t, <3>1, <3>2, <3>3, AnswerEffects
    <3> QED
      BY <1>f, <1>i, <3>3, <3>4, Zenon
  <2>2. CASE Exit
    <3>1. AnswerTokens((handled + 1)..flushSeq, "AlreadyShutdown")
      BY <2>2, Zenon DEF Exit
    <3>2. "AlreadyShutdown" \in Status
      BY Zenon DEF Status
    <3>3. flushDone' = flushSeq /\ flushSeq >= flushDone /\ handled = flushDone
      BY <1>i, <1>n, <2>2 DEF Exit, LifecycleInv, PassInv, ExitInv
    <3>4. /\ DOMAIN outcomes' = 1..flushSeq
          /\ DOMAIN passResults' \subseteq 1..flushSeq
          /\ \A t \in DOMAIN passResults' : passResults'[t] \in Status
          /\ Cardinality(DOMAIN passResults') <= MaxRetainedPasses
      BY <1>i, <1>n, <1>t, <3>1, <3>2, <3>3, AnswerEffects
    <3> QED
      BY <1>f, <1>i, <1>n, <3>3, <3>4
  <2>3. CASE ~Record /\ ~Exit
    BY <1>f, <1>i, <2>3, QuietFrame, Zenon
  <2> QED
    BY <2>1, <2>2, <2>3, Zenon
<1>5. Control'
  <2>1. pendingError' \in Status
    BY <1>i, ZenonT(30) DEF WorkerStep, Latch, Pop, Insert, Deliver, Remains, FlushSink,
       Record, StopCheck, SetTerminated, Exit, SinkReturns, Die, NoteError, Status
  <2>2. wpc' \in {"latch", "pop", "insert", "deliver", "writing", "remains",
                  "flushSink", "record", "stopCheck", "terminate", "exit", "finished"}
    BY <1>i, ZenonT(30) DEF WorkerStep, Latch, Pop, Insert, Deliver, Remains, FlushSink,
       Record, StopCheck, SetTerminated, Exit, SinkReturns, Die, AfterDelivery
  <2> QED
    BY <2>1, <2>2, Zenon
<1> QED
  BY <1>t, <1>f, <1>1, <1>2, <1>3, <1>4, <1>5, ZenonT(30) DEF TypeOK, NothingLost

\* All state keeps its type and no accepted event is lost, whoever moves.
LEMMA NothingLostStep ==
    ASSUME LifecycleInv, Next
    PROVE  NothingLost'
<1>t. TypeOK /\ NothingLost
  BY Zenon DEF LifecycleInv, NothingLost
<1>1. CASE WorkerStep \/ SinkReturns \/ Die
  BY <1>1, WorkerTypes, Zenon
<1>2. ASSUME NEW c \in Callers, CallerStep(c) PROVE NothingLost'
  <2>1. /\ UNCHANGED <<ordinal, queue, retry, rows, settled>>
        /\ UNCHANGED <<terminal, terminated, finished>>
        /\ UNCHANGED <<flushDone, passResults, outcomes, pendingError, wpc>>
        /\ UNCHANGED <<want, handled, barrier, hand, moved, delivered, looping>>
    BY <1>2, CallerFrame, Zenon
  <2>2. /\ lifecycle' \in {"Running", "Stopping", "Stopped"}
        /\ holder' \in Callers \cup {Nobody}
        /\ stop' \in BOOLEAN
        /\ flushSeq' \in flushSeq..MaxTokens
        /\ flushBarrier' \in flushBarrier..ordinal
        /\ pc' \in [Callers -> {"idle", "flushBarrier", "flushToken", "flushWait",
                                "drain", "drainBarrier", "drainToken", "drainWait",
                                "stop", "join", "stopped"}]
        /\ token' \in [Callers -> 0..MaxTokens]
        /\ bound' \in [Callers -> 0..MaxOrdinal]
        /\ persist' \in [Callers -> Status]
        /\ returned' \in [Callers -> {"flush", "shutdown", "none"} \X Status]
    BY <1>2, <1>t, CallerTypes, Zenon DEF LifecycleInv
  <2>3. /\ flushSeq' \in 0..MaxTokens /\ want \in 0..flushSeq' /\ flushDone \in 0..flushSeq'
        /\ flushBarrier' \in 0..ordinal /\ barrier \in 0..flushBarrier'
    <3>1. /\ flushSeq \in 0..MaxTokens /\ want \in 0..flushSeq /\ flushDone \in 0..flushSeq
          /\ flushBarrier \in 0..ordinal /\ barrier \in 0..flushBarrier
          /\ ordinal \in Nat /\ MaxTokens \in Nat
      BY <1>t, LifecycleAssumption DEF TypeOK
    <3> QED
      BY <2>2, <3>1
  <2>4. {stop', terminal, terminated, finished, moved, delivered, looping} \subseteq BOOLEAN
    BY <1>t, <2>2, Zenon DEF TypeOK
  <2> QED
    BY <1>t, <2>1, <2>2, <2>3, <2>4, ZenonT(30) DEF TypeOK, NothingLost
<1>3. CASE ShutdownFromWorker
  <2> USE DEF dataVars, flushVars, callerVars, exitVars, resultVars, localVars
  <2>1. /\ lifecycle' \in {"Running", "Stopping", "Stopped"} /\ stop' = TRUE
        /\ UNCHANGED <<holder, dataVars, exitVars, flushVars, resultVars,
                       pendingError, wpc, localVars, callerVars>>
    BY <1>3, <1>t, Zenon DEF ShutdownFromWorker, TypeOK
  <2> QED
    BY <1>t, <2>1, Zenon DEF TypeOK, NothingLost
<1>4. CASE Accept
  <2> USE DEF dataVars, flushVars, callerVars, exitVars, resultVars, localVars
  <2>1. /\ ordinal' = ordinal + 1 /\ ordinal < MaxOrdinal
        /\ queue' = queue \cup {ordinal + 1} /\ Cardinality(queue) < QueueCap
        /\ UNCHANGED <<lifecycle, holder, retry, rows, settled, stop, exitVars,
                       flushVars, resultVars, pendingError, wpc, localVars,
                       callerVars>>
    BY <1>4, Zenon DEF Accept
  <2>2. ordinal \in Nat /\ MaxOrdinal \in Nat /\ ordinal' \in 0..MaxOrdinal
        /\ 1..ordinal' = 1..ordinal \cup {ordinal + 1} /\ flushBarrier \in 0..ordinal'
    BY <1>t, <2>1, LifecycleAssumption DEF TypeOK
  <2>3. IsFiniteSet(queue) /\ Cardinality(queue) \in Nat
    BY <1>t, <2>2, Finite, Zenon DEF TypeOK
  <2>4. Cardinality(queue') <= QueueCap
    <3>1. \/ Cardinality(queue') = Cardinality(queue)
          \/ Cardinality(queue') = Cardinality(queue) + 1
      BY <2>1, <2>3, FS_AddElement, Zenon
    <3> QED
      BY <2>1, <2>3, <3>1, LifecycleAssumption
  <2>5. TypeOK'
    BY <1>t, <2>1, <2>2, <2>4, Zenon DEF TypeOK
  <2> QED
    BY <1>t, <2>1, <2>2, <2>5, Zenon DEF NothingLost
<1> QED
  BY <1>1, <1>2, <1>3, <1>4, Zenon DEF Next

-----------------------------------------------------------------------------
(* The worker's loop *)

\* What the invariant says of the worker and the results it keeps ...
LoopInv ==
    /\ finished <=> wpc = "finished"
    /\ terminal => wpc \in {"terminate", "exit", "finished"}
    /\ lifecycle = "Stopped" => finished
    /\ PassInv
    /\ \A t \in DOMAIN passResults : passResults[t] = outcomes[t]

\* ... and of each caller.
CallerInv(c) ==
    /\ pc[c] = "stopped" => finished
    /\ returned[c] = <<"shutdown", "Ok">> => lifecycle = "Stopped"
    /\ bound[c] <= ordinal
    /\ pc[c] \in Raised => bound[c] <= flushBarrier
    /\ pc[c] \in Waiting =>
         /\ token[c] \in 1..flushSeq
         /\ looping /\ token[c] \in (handled + 1)..want => bound[c] <= barrier
         /\ token[c] <= flushDone /\ outcomes[token[c]] = "Ok" => 1..bound[c] \subseteq settled
    /\ pc[c] = "idle" /\ returned[c] \in {"flush"} \X {"Ok", "StorageError", "SinkError"} =>
         token[c] \in 1..flushDone /\ outcomes[token[c]] = returned[c][2]
    /\ pc[c] = "idle" /\ returned[c] = <<"flush", "Ok">> => 1..bound[c] \subseteq settled

\* Together they are the invariant.
LEMMA InvParts ==
    LifecycleInv <=> NothingLost /\ TokensInv /\ LoopInv /\ \A c \in Callers : CallerInv(c)
BY Zenon DEF LifecycleInv, ExitInv, BarrierInv, ResultInv, LoopInv, CallerInv,
       StoppedMeansExited, OwnResultOnly, FlushOkMeansSettled

\* Every step keeps what the invariant says of the worker.
LEMMA LoopStep ==
    ASSUME LifecycleInv, Next
    PROVE  LoopInv'
<1>t. TypeOK /\ NothingLost /\ LoopInv /\ PassInv
  BY InvParts, Zenon DEF NothingLost, LoopInv
<1>n. flushSeq \in Nat /\ want \in Nat /\ handled \in Nat /\ flushDone \in Nat
      /\ want <= flushSeq /\ handled <= want /\ flushDone <= flushSeq
  BY <1>t DEF TypeOK
<1> USE DEF dataVars, flushVars, callerVars, exitVars, resultVars, localVars, TurnEnds
<1>1. CASE WorkerStep \/ SinkReturns \/ Die
  <2>f. lifecycle' = lifecycle /\ flushSeq' = flushSeq
    BY <1>1, WorkerFrame, Zenon
  <2>1. /\ finished' <=> wpc' = "finished"
        /\ terminal' => wpc' \in {"terminate", "exit", "finished"}
        /\ finished => finished'
    <3>1. CASE SetTerminated \/ Exit \/ Die
      BY <1>t, <3>1 DEF SetTerminated, Exit, Die, LoopInv
    <3>2. CASE Deliver \/ SinkReturns
      BY <1>t, <3>2 DEF Deliver, SinkReturns, AfterDelivery, LoopInv
    <3>3. CASE Latch \/ Pop \/ Insert \/ Remains \/ FlushSink \/ Record \/ StopCheck
      <4>1. /\ UNCHANGED <<finished, terminal>>
            /\ wpc \notin {"terminate", "exit", "finished"} /\ wpc' # "finished"
        BY <3>3, Zenon DEF Latch, Pop, Insert, Remains, FlushSink, Record, StopCheck
      <4> QED
        BY <1>t, <4>1, Zenon DEF LoopInv
    <3> QED
      BY <1>1, <3>1, <3>2, <3>3, Zenon DEF WorkerStep
  <2>2. PassInv'
    <3>1. CASE Latch \/ Pop \/ Insert \/ Remains
      BY <1>n, <1>t, <3>1 DEF Latch, Pop, Insert, Remains, PassInv, LoopInv
    <3>2. CASE Deliver \/ SinkReturns
      <4>1. /\ UNCHANGED <<want, handled, looping, finished, flushDone, retry>>
            /\ wpc \in {"deliver", "writing"}
        BY <3>2, ZenonT(30) DEF Deliver, SinkReturns
      <4>2. hand' # {} => wpc' = "writing" /\ hand' \subseteq rows'
        BY <3>2, ZenonT(30) DEF Deliver, SinkReturns, Oldest
      <4>3. wpc' \in {"deliver", "writing", AfterDelivery}
        BY <3>2, ZenonT(30) DEF Deliver, SinkReturns
      <4> QED
        BY <1>n, <1>t, <4>1, <4>2, <4>3, SMTT(30)
           DEF AfterDelivery, flushing, PassInv, LoopInv
    <3>3. CASE FlushSink \/ Record \/ StopCheck \/ SetTerminated \/ Exit \/ Die
      BY <1>n, <1>t, <3>3 DEF FlushSink, Record, StopCheck, SetTerminated, Exit, Die,
         PassInv, LoopInv
    <3> QED
      BY <1>1, <3>1, <3>2, <3>3, Zenon DEF WorkerStep
  <2>3. \A t \in DOMAIN passResults' : passResults'[t] = outcomes'[t]
    <3>1. CASE Record
      <4>1. PICK s : AnswerTokens((handled + 1)..want, s)
        BY <3>1, Zenon DEF Record
      <4>2. handled = flushDone
        BY <1>t, <3>1, Zenon DEF Record, PassInv, LoopInv
      <4> QED
        BY <1>n, <1>t, <4>1, <4>2, AnswerEffects, Zenon DEF LoopInv
    <3>2. CASE Exit
      <4>1. AnswerTokens((handled + 1)..flushSeq, "AlreadyShutdown") /\ handled = flushDone
        BY <1>t, <3>2, Zenon DEF Exit, PassInv, LoopInv
      <4> QED
        BY <1>n, <1>t, <4>1, AnswerEffects, Zenon DEF LoopInv
    <3>3. CASE ~Record /\ ~Exit
      BY <1>1, <1>t, <3>3, QuietFrame, Zenon DEF LoopInv
    <3> QED
      BY <3>1, <3>2, <3>3, Zenon
  <2> QED
    BY <1>t, <2>f, <2>1, <2>2, <2>3, Zenon DEF LoopInv
<1>2. ASSUME NEW c \in Callers, CallerStep(c) PROVE LoopInv'
  <2>1. /\ UNCHANGED <<ordinal, queue, retry, rows, settled>>
        /\ UNCHANGED <<terminal, terminated, finished>>
        /\ UNCHANGED <<flushDone, passResults, outcomes, pendingError, wpc>>
        /\ UNCHANGED <<want, handled, barrier, hand, moved, delivered, looping>>
    BY <1>2, CallerFrame, Zenon
  <2>2. lifecycle' = "Stopped" => finished
    <3>1. lifecycle' = "Stopped" /\ lifecycle # "Stopped" =>
            WaitForWorkerExit(c) \/ ShutdownReturn(c)
      BY <1>2, <1>t, ZenonT(30) DEF CallerStep, FlushCall, ShutdownCall, SubmitBarrier,
         SubmitToken, FlushReturn, DrainBarrier, DrainReturn, RequestStop, Join
    <3>2. pc[c] = "stopped" => finished
      BY InvParts, Zenon DEF CallerInv
    <3> QED
      BY <1>t, <3>1, <3>2, Zenon DEF WaitForWorkerExit, ShutdownReturn, LoopInv
  <2>3. PassInv'
    BY <1>t, <2>1, Zenon DEF PassInv
  <2> QED
    BY <1>t, <2>1, <2>2, <2>3, Zenon DEF LoopInv
<1>3. CASE ShutdownFromWorker \/ Accept
  <2>1. /\ UNCHANGED <<exitVars, resultVars, wpc, localVars, retry, rows>>
        /\ lifecycle' = "Stopped" => lifecycle = "Stopped"
    BY <1>3, Zenon DEF ShutdownFromWorker, Accept
  <2>2. PassInv'
    BY <1>t, <2>1, Zenon DEF PassInv
  <2> QED
    BY <1>t, <2>1, <2>2, Zenon DEF LoopInv
<1> QED
  BY <1>1, <1>2, <1>3, Zenon DEF Next

-----------------------------------------------------------------------------
(* What the callers rely on *)

\* The worker keeps its promises to a caller: what is acknowledged stays so,
\* an outcome once recorded stands, the barrier of a pass covers the tokens it
\* will answer, and it answers Ok only when nothing up to it is left.
LEMMA WorkerKeepsCaller ==
    ASSUME LifecycleInv, WorkerStep \/ SinkReturns \/ Die, NEW c \in Callers
    PROVE  CallerInv(c)'
<1>t. TypeOK /\ NothingLost /\ LoopInv /\ PassInv /\ CallerInv(c)
  BY InvParts, Zenon DEF NothingLost, LoopInv
<1>n. /\ flushSeq \in Nat /\ want \in Nat /\ handled \in Nat /\ flushDone \in Nat
      /\ want <= flushSeq /\ handled <= want /\ flushDone <= flushSeq
      /\ token[c] \in Nat /\ bound[c] \in Nat /\ ordinal \in Nat
      /\ flushBarrier \in Nat /\ barrier \in Nat /\ flushBarrier <= ordinal
      /\ barrier <= flushBarrier
  BY <1>t DEF TypeOK
<1>f. /\ UNCHANGED <<lifecycle, holder, ordinal, stop, flushSeq, flushBarrier>>
      /\ UNCHANGED <<pc, token, bound, persist, returned>>
  BY WorkerFrame, Zenon
<1> USE DEF dataVars, flushVars, callerVars, exitVars, resultVars, localVars, TurnEnds
<1>1. settled \subseteq settled' /\ (finished => finished')
  BY <1>t, ZenonT(30)
     DEF WorkerStep, Latch, Pop, Insert, Deliver, Remains, FlushSink, Record,
     StopCheck, SetTerminated, Exit, SinkReturns, Die, LoopInv
<1>2. /\ flushDone' \in Nat /\ flushDone' >= flushDone
      /\ \A t \in 1..flushDone : outcomes'[t] = outcomes[t]
      /\ \A t \in Nat : t > flushDone /\ t <= flushDone' /\ outcomes'[t] = "Ok" =>
           /\ wpc = "record" /\ t \in (handled + 1)..want
           /\ (queue \cup retry \cup rows) \cap 1..barrier = {}
  <2>1. CASE Record
    <3>1. PICK residual \in Residuals(barrier) :
            AnswerTokens((handled + 1)..want,
                         IF pendingError # "Ok" THEN pendingError ELSE residual)
      BY <2>1, Zenon DEF Record
    <3>2. wpc = "record" /\ flushDone' = want /\ handled = flushDone
      BY <1>t, <2>1, Zenon DEF Record, PassInv, LoopInv
    <3>3. /\ \A t \in 1..flushDone : outcomes'[t] = outcomes[t]
          /\ \A t \in (handled + 1)..want :
               outcomes'[t] = IF pendingError # "Ok" THEN pendingError ELSE residual
      BY <1>n, <1>t, <3>1, <3>2, AnswerEffects, Zenon
    <3>4. residual = "Ok" => (queue \cup retry \cup rows) \cap 1..barrier = {}
      BY <1>n, ResidualMeaning, Zenon
    <3> QED
      BY <1>n, <3>2, <3>3, <3>4
  <2>2. CASE Exit
    <3>1. AnswerTokens((handled + 1)..flushSeq, "AlreadyShutdown")
          /\ flushDone' = flushSeq /\ handled = flushDone
      BY <1>t, <2>2, Zenon DEF Exit, PassInv, LoopInv
    <3>2. /\ \A t \in 1..flushDone : outcomes'[t] = outcomes[t]
          /\ \A t \in (handled + 1)..flushSeq : outcomes'[t] = "AlreadyShutdown"
      BY <1>n, <1>t, <3>1, AnswerEffects, Zenon
    <3> QED
      BY <1>n, <3>1, <3>2
  <2>3. CASE ~Record /\ ~Exit
    <3>1. UNCHANGED <<flushDone, outcomes>>
      BY <2>3, QuietFrame, Zenon
    <3> QED
      BY <1>n, <3>1
  <2> QED
    BY <2>1, <2>2, <2>3, Zenon
<1>3. ASSUME pc[c] \in Waiting, looping', token[c] \in (handled' + 1)..want'
      PROVE  bound[c] <= barrier'
  <2>1. CASE Remains
    <3>1. barrier' = (IF looping THEN barrier ELSE flushBarrier)
          /\ UNCHANGED <<handled, want>>
      BY <2>1, Zenon DEF Remains
    <3> QED
      BY <1>t, <1>3, <3>1, Zenon DEF CallerInv, Raised
  <2>2. CASE Record
    BY <1>3, <1>n, <2>2, SMTT(30) DEF Record
  <2>3. CASE Latch \/ StopCheck \/ Die
    BY <1>t, <1>3, <2>3, ZenonT(30) DEF Latch, StopCheck, Die, PassInv
  <2>4. CASE Pop \/ Insert \/ Deliver \/ FlushSink \/ SetTerminated \/ Exit
             \/ SinkReturns
    <3>1. UNCHANGED <<want, handled, barrier, looping>>
      BY <2>4, ZenonT(30) DEF Pop, Insert, Deliver, FlushSink, SetTerminated, Exit,
         SinkReturns
    <3> QED
      BY <1>t, <1>3, <3>1, Zenon DEF CallerInv
  <2> QED
    BY <2>1, <2>2, <2>3, <2>4, Zenon DEF WorkerStep
<1>4. ASSUME pc[c] \in Waiting, token[c] <= flushDone', outcomes'[token[c]] = "Ok"
      PROVE  1..bound[c] \subseteq settled'
  <2>1. CASE token[c] <= flushDone
    <3>1. token[c] \in 1..flushDone
      BY <1>n, <1>t, <1>4, <2>1 DEF CallerInv
    <3> QED
      BY <1>1, <1>2, <1>4, <1>t, <2>1, <3>1, Zenon DEF CallerInv
  <2>2. CASE token[c] > flushDone
    <3>1. wpc = "record" /\ token[c] \in (handled + 1)..want
          /\ (queue \cup retry \cup rows) \cap 1..barrier = {}
      BY <1>2, <1>4, <1>n, <2>2, Zenon
    <3>2. bound[c] <= barrier
      BY <1>4, <1>t, <3>1, Zenon DEF CallerInv, PassInv
    <3>3. ~terminal /\ hand = {}
      BY <1>t, <3>1, Zenon DEF LoopInv, PassInv
    <3>4. 1..ordinal = queue \cup hand \cup retry \cup rows \cup settled
      BY <1>t, <3>3, Zenon DEF NothingLost
    <3>5. 1..bound[c] \subseteq 1..barrier /\ 1..barrier \subseteq 1..ordinal
      BY <1>n, <3>2
    <3> QED
      BY <1>1, <3>1, <3>3, <3>4, <3>5, Zenon
  <2> QED
    BY <1>n, <2>1, <2>2
<1>5. ASSUME token[c] \in 1..flushDone
      PROVE  token[c] \in 1..flushDone' /\ outcomes'[token[c]] = outcomes[token[c]]
  BY <1>2, <1>5, <1>n
<1> QED
  BY <1>f, <1>t, <1>1, <1>3, <1>4, <1>5, ZenonT(30) DEF CallerInv

\* So does another caller, whose step only raises the barrier and the flush
\* sequence, or stops the client ...
LEMMA OthersKeepCaller ==
    ASSUME LifecycleInv, NEW c \in Callers, CallerStep(c), NEW d \in Callers, d # c
    PROVE  CallerInv(d)'
<1>t. TypeOK /\ NothingLost /\ CallerInv(d) /\ LoopInv
  BY InvParts, Zenon DEF NothingLost
<1>1. /\ UNCHANGED <<ordinal, queue, retry, rows, settled>>
      /\ UNCHANGED <<terminal, terminated, finished>>
      /\ UNCHANGED <<flushDone, passResults, outcomes, pendingError, wpc>>
      /\ UNCHANGED <<want, handled, barrier, hand, moved, delivered, looping>>
  BY CallerFrame, Zenon
<1>2. /\ pc'[d] = pc[d] /\ token'[d] = token[d] /\ bound'[d] = bound[d]
      /\ returned'[d] = returned[d]
  BY <1>t, OtherCallers, Zenon
<1>3. flushSeq' \in flushSeq..MaxTokens /\ flushBarrier' \in flushBarrier..ordinal
  BY <1>t, CallerTypes, Zenon DEF LifecycleInv
<1>4. lifecycle = "Stopped" => lifecycle' = "Stopped"
  BY Zenon DEF CallerStep, FlushCall, ShutdownCall, WaitForWorkerExit, SubmitBarrier,
     SubmitToken, FlushReturn, DrainBarrier, DrainReturn, RequestStop, Join,
     ShutdownReturn
<1>5. /\ flushSeq \in Nat /\ flushBarrier \in Nat /\ bound[d] \in Nat
      /\ token[d] \in Nat
  BY <1>t DEF TypeOK
<1>6. /\ token[d] \in 1..flushSeq => token[d] \in 1..flushSeq'
      /\ bound[d] <= flushBarrier => bound[d] <= flushBarrier'
  BY <1>3, <1>5
<1> QED
  BY <1>t, <1>1, <1>2, <1>4, <1>6, Zenon DEF CallerInv

\* ... and the caller's own steps: flush() reports what its token's outcome is,
\* and shutdown() Ok only when the client is stopped.
LEMMA OwnStepKeepsCaller ==
    ASSUME LifecycleInv, NEW c \in Callers, CallerStep(c)
    PROVE  CallerInv(c)'
<1>t. TypeOK /\ NothingLost /\ CallerInv(c) /\ LoopInv /\ ResultInv
  BY InvParts, Zenon DEF NothingLost, LifecycleInv
<1>1. UNCHANGED <<ordinal, settled, finished, flushDone, outcomes, want, handled,
                  barrier, looping>>
  BY CallerFrame, Zenon
<1>2. /\ flushSeq \in Nat /\ flushBarrier \in Nat /\ ordinal \in Nat
      /\ want \in Nat /\ handled \in Nat /\ flushDone \in Nat
      /\ want <= flushSeq /\ flushDone <= flushSeq
      /\ token[c] \in Nat /\ bound[c] \in Nat
  BY <1>t DEF TypeOK
<1>3. /\ flushSeq' \in Nat /\ flushSeq' >= flushSeq
      /\ flushBarrier' \in Nat /\ flushBarrier' >= flushBarrier
  BY <1>2, <1>t, CallerTypes DEF LifecycleInv
<1>4. /\ DOMAIN pc = Callers /\ DOMAIN token = Callers /\ DOMAIN bound = Callers
      /\ DOMAIN returned = Callers
  BY <1>t, Zenon DEF TypeOK
<1>r. ASSUME NEW call, NEW s, Return(c, call, s)
      PROVE  pc'[c] = "idle" /\ returned'[c] = <<call, s>>
  BY <1>r, <1>4, Zenon DEF Return, Goto
<1>g. ASSUME NEW label, Goto(c, label) PROVE pc'[c] = label
  BY <1>g, <1>4, Zenon DEF Goto
<1>s. ASSUME NEW s, ShutdownReturns(c, s), s = "Ok" => lifecycle' = "Stopped"
      PROVE  CallerInv(c)'
  <2>1. pc'[c] = "idle" /\ returned'[c] = <<"shutdown", s>> /\ bound'[c] = 0
    BY <1>s, <1>r, <1>4, Zenon DEF ShutdownReturns
  <2>2. /\ returned'[c] # <<"flush", "Ok">>
        /\ returned'[c] \notin {"flush"} \X {"Ok", "StorageError", "SinkError"}
        /\ returned'[c] = <<"shutdown", "Ok">> => s = "Ok"
    BY <2>1
  <2> QED
    BY <1>1, <1>2, <1>s, <2>1, <2>2 DEF CallerInv, Raised, Waiting
\* A step to a place where nothing is claimed yet.
<1>q. ASSUME pc'[c] \notin Raised \cup {"stopped", "idle"}, returned'[c] = returned[c],
             bound'[c] \in {bound[c], ordinal},
             lifecycle = "Stopped" => lifecycle' = "Stopped"
      PROVE  CallerInv(c)'
  BY <1>1, <1>2, <1>q, <1>t DEF CallerInv, Raised
<1> USE DEF callerVars, flushVars
<1>5. CASE FlushCall(c)
  <2>1. CASE /\ UNCHANGED <<bound, token>> /\ lifecycle' = lifecycle
             /\ \E s \in {"AlreadyShutdown", "Internal"} : Return(c, "flush", s)
    <3>1. PICK s \in {"AlreadyShutdown", "Internal"} : Return(c, "flush", s)
      BY <2>1, Zenon
    <3>2. pc'[c] = "idle" /\ returned'[c] = <<"flush", s>>
      BY <1>r, <3>1, Zenon
    <3>3. /\ returned'[c] # <<"flush", "Ok">> /\ returned'[c] # <<"shutdown", "Ok">>
          /\ returned'[c] \notin {"flush"} \X {"Ok", "StorageError", "SinkError"}
      BY <3>2
    <3> QED
      BY <1>1, <1>t, <2>1, <3>2, <3>3, Zenon DEF CallerInv, Raised, Waiting
  <2>2. CASE /\ bound' = [bound EXCEPT ![c] = ordinal] /\ lifecycle' = lifecycle
             /\ Goto(c, "flushBarrier") /\ UNCHANGED returned
    <3>1. pc'[c] = "flushBarrier" /\ bound'[c] = ordinal
      BY <1>g, <1>4, <2>2, Zenon
    <3> QED
      BY <1>q, <2>2, <3>1, Zenon DEF Raised, Waiting
  <2> QED
    BY <1>5, <2>1, <2>2, ZenonT(30) DEF FlushCall
<1>6. CASE ShutdownCall(c)
  <2>1. CASE lifecycle = "Stopped"
    BY <1>s, <1>6, <2>1, Zenon DEF ShutdownCall
  <2>2. CASE lifecycle # "Stopped"
    <3>1. pc'[c] = "drain" /\ UNCHANGED <<bound, returned>>
      BY <1>g, <1>6, <2>2, Zenon DEF ShutdownCall
    <3> QED
      BY <1>q, <2>2, <3>1, Zenon DEF Raised, Waiting
  <2> QED
    BY <2>1, <2>2, Zenon
<1>7. CASE WaitForWorkerExit(c)
  <2>1. /\ UNCHANGED <<pc, token, bound, returned, flushSeq, flushBarrier>>
        /\ lifecycle = "Stopped" => lifecycle' = "Stopped"
    BY <1>7, Zenon DEF WaitForWorkerExit
  <2> QED
    BY <1>1, <1>t, <2>1, Zenon DEF CallerInv
<1>8. CASE SubmitBarrier(c)
  <2>1. /\ UNCHANGED <<lifecycle, token, bound, returned, flushSeq>>
        /\ pc'[c] \in {"flushToken", "drainToken"} /\ flushBarrier' >= bound[c]
    BY <1>2, <1>4, <1>8 DEF SubmitBarrier, Goto
  <2> QED
    BY <1>1, <1>t, <2>1, Zenon DEF CallerInv, Waiting
<1>9. CASE SubmitToken(c)
  <2>1. /\ UNCHANGED <<lifecycle, bound, returned, flushBarrier>>
        /\ pc[c] \in Raised /\ pc'[c] \in Waiting
        /\ flushSeq' = flushSeq + 1 /\ token'[c] = flushSeq + 1
    BY <1>4, <1>9, Zenon DEF SubmitToken, Goto, Raised, Waiting
  <2>2. /\ token'[c] \in 1..flushSeq' /\ token'[c] \notin (handled + 1)..want
        /\ ~(token'[c] <= flushDone)
    BY <1>2, <2>1
  <2>3. pc'[c] \notin {"idle", "stopped"}
    BY <2>1, Zenon DEF Waiting
  <2> QED
    BY <1>1, <1>t, <2>1, <2>2, <2>3, Zenon DEF CallerInv
<1>10. CASE FlushReturn(c)
  <2>1. pc[c] = "flushWait" /\ UNCHANGED <<lifecycle, token, bound>>
    BY <1>10, Zenon DEF FlushReturn
  <2>2. /\ Answer(c) \in Status
        /\ Answer(c) \in {"Ok", "StorageError", "SinkError"} =>
             token[c] \in 1..flushDone /\ outcomes[token[c]] = Answer(c)
    BY <1>t, AnswerMeaning, Zenon
  <2>3. PICK s : Return(c, "flush", s) /\ s \in {Answer(c), "Timeout"}
    BY <1>10, Zenon DEF FlushReturn
  <2>4. pc'[c] = "idle" /\ returned'[c] = <<"flush", s>>
    BY <1>r, <2>3, Zenon
  <2>5. /\ returned'[c] # <<"shutdown", "Ok">> /\ returned'[c][2] = s
        /\ returned'[c] = <<"flush", "Ok">> => s = "Ok"
        /\ returned'[c] \in {"flush"} \X {"Ok", "StorageError", "SinkError"} =>
             s \in {"Ok", "StorageError", "SinkError"}
    BY <2>4
  <2>6. s \in {"Ok", "StorageError", "SinkError"} =>
          token[c] \in 1..flushDone /\ outcomes[token[c]] = s
    BY <2>2, <2>3, Zenon
  <2>7. s = "Ok" => 1..bound[c] \subseteq settled
    BY <1>2, <1>t, <2>1, <2>6 DEF CallerInv, Waiting
  <2> QED
    BY <1>1, <1>t, <2>1, <2>4, <2>5, <2>6, <2>7, Zenon DEF CallerInv, Raised, Waiting
<1>11. CASE DrainBarrier(c) \/ DrainReturn(c) \/ RequestStop(c)
  <2>1. /\ UNCHANGED <<lifecycle, returned>> /\ bound'[c] \in {bound[c], ordinal}
        /\ pc'[c] \in {"drainBarrier", "stop", "join"}
    BY <1>4, <1>11, Zenon DEF DrainBarrier, DrainReturn, RequestStop, Goto
  <2> QED
    BY <1>q, <2>1, Zenon DEF Raised, Waiting
<1>12. CASE Join(c)
  <2>1. CASE finished /\ Goto(c, "stopped") /\ UNCHANGED <<token, bound, persist, returned>>
    <3>1. pc'[c] = "stopped" /\ lifecycle' = lifecycle
      BY <1>g, <1>12, <2>1, Zenon DEF Join
    <3> QED
      BY <1>1, <1>t, <2>1, <3>1, Zenon DEF CallerInv, Raised, Waiting
  <2>2. CASE ShutdownReturns(c, "Timeout")
    BY <1>s, <2>2, Zenon
  <2> QED
    BY <1>12, <2>1, <2>2, Zenon DEF Join
<1>13. CASE ShutdownReturn(c)
  BY <1>s, <1>13, Zenon DEF ShutdownReturn
<1> QED
  BY <1>5, <1>6, <1>7, <1>8, <1>9, <1>10, <1>11, <1>12, <1>13, Zenon DEF CallerStep

\* Every step of the worker, the sink and the callers preserves the invariant.
LEMMA LifecycleStep == LifecycleInv /\ [Next]_vars => LifecycleInv'
<1>1. ASSUME LifecycleInv, Next PROVE LifecycleInv'
  <2>1. NothingLost' /\ LoopInv' /\ TokensInv'
    <3>1. TypeOK /\ TokensInv
      BY <1>1, Zenon DEF LifecycleInv, NothingLost
    <3> QED
      BY <1>1, <3>1, NothingLostStep, LoopStep, TokensStep, Zenon
  <2>2. ASSUME NEW c \in Callers PROVE CallerInv(c)'
    <3>1. CASE WorkerStep \/ SinkReturns \/ Die
      BY <1>1, <3>1, WorkerKeepsCaller, Zenon
    <3>2. CASE ShutdownFromWorker \/ Accept
      <4>1. /\ UNCHANGED <<pc, token, bound, returned, flushSeq, flushBarrier, flushDone,
                           outcomes, settled, finished, looping, handled, want, barrier>>
            /\ lifecycle = "Stopped" => lifecycle' = "Stopped"
            /\ ordinal' \in {ordinal, ordinal + 1}
        BY <3>2, Zenon DEF ShutdownFromWorker, Accept, dataVars, exitVars, flushVars,
           resultVars, localVars, callerVars
      <4>2. CallerInv(c) /\ bound[c] \in Nat /\ ordinal \in Nat
        BY <1>1, InvParts DEF NothingLost, TypeOK
      <4>3. bound[c] <= ordinal'
        BY <4>1, <4>2 DEF CallerInv
      <4> QED
        BY <4>1, <4>2, <4>3, Zenon DEF CallerInv
    <3>3. ASSUME NEW d \in Callers, CallerStep(d) PROVE CallerInv(c)'
      BY <1>1, <3>3, OthersKeepCaller, OwnStepKeepsCaller, Zenon
    <3> QED
      BY <1>1, <3>1, <3>2, <3>3, Zenon DEF Next
  <2> QED
    BY <2>1, <2>2, Zenon
       DEF LifecycleInv, ExitInv, BarrierInv, ResultInv, LoopInv, CallerInv,
       StoppedMeansExited, OwnResultOnly, FlushOkMeansSettled
<1>2. ASSUME LifecycleInv, UNCHANGED vars PROVE LifecycleInv'
  <2> USE DEF vars, dataVars, flushVars, callerVars, exitVars, resultVars, localVars
  <2>1. NothingLost' /\ TokensInv'
    BY <1>2, ZenonT(30) DEF LifecycleInv, NothingLost, TypeOK, TokensInv
  <2>2. ExitInv' /\ PassInv' /\ BarrierInv'
    BY <1>2, Zenon DEF LifecycleInv, ExitInv, PassInv, BarrierInv, StoppedMeansExited
  <2>3. ResultInv'
    BY <1>2, Zenon DEF LifecycleInv, ResultInv, OwnResultOnly, FlushOkMeansSettled
  <2> QED
    BY <2>1, <2>2, <2>3, Zenon DEF LifecycleInv
<1> QED
  BY <1>1, <1>2, Zenon

\* A client just started satisfies the invariant.
LEMMA LifecycleInitInv == Init => LifecycleInv
<1> SUFFICES ASSUME Init PROVE LifecycleInv
  OBVIOUS
<1>0. MaxTokens \in Nat /\ MaxOrdinal \in Nat /\ QueueCap \in Nat
      /\ MaxRetainedPasses \in Nat
  BY LifecycleAssumption, Zenon
<1>1. /\ ordinal = 0 /\ queue = {} /\ retry = {} /\ rows = {} /\ settled = {} /\ hand = {}
      /\ flushSeq = 0 /\ flushDone = 0 /\ flushBarrier = 0 /\ want = 0 /\ handled = 0
      /\ barrier = 0 /\ wpc = "latch" /\ finished = FALSE /\ terminal = FALSE
      /\ looping = FALSE /\ lifecycle = "Running"
  BY Zenon DEF Init
<1>2. DOMAIN passResults = {} /\ DOMAIN outcomes = {}
  BY DEF Init
<1>3. /\ pc = [c \in Callers |-> "idle"] /\ token = [c \in Callers |-> 0]
      /\ bound = [c \in Callers |-> 0] /\ persist = [c \in Callers |-> "Ok"]
      /\ returned = [c \in Callers |-> <<"none", "Ok">>]
  BY Zenon DEF Init
<1>4. "Ok" \in Status /\ Cardinality({}) = 0 /\ 1..0 = {}
  BY FS_EmptySet DEF Status
<1>5. /\ pc \in [Callers -> {"idle", "flushBarrier", "flushToken", "flushWait",
                             "drain", "drainBarrier", "drainToken", "drainWait",
                             "stop", "join", "stopped"}]
      /\ token \in [Callers -> 0..MaxTokens] /\ bound \in [Callers -> 0..MaxOrdinal]
      /\ persist \in [Callers -> Status]
      /\ returned \in [Callers -> {"flush", "shutdown", "none"} \X Status]
  BY <1>0, <1>3, <1>4
<1>6. /\ Cardinality(queue) <= QueueCap
      /\ Cardinality(DOMAIN passResults) <= MaxRetainedPasses
  BY <1>0, <1>1, <1>2, <1>4
<1>7. /\ holder \in Callers \cup {Nobody} /\ pendingError \in Status
      /\ {stop, terminal, terminated, finished, moved, delivered, looping} \subseteq BOOLEAN
  BY <1>4, ZenonT(30) DEF Init
<1>8. NothingLost
  <2>1. TypeOK
    BY <1>0, <1>1, <1>2, <1>5, <1>6, <1>7 DEF TypeOK
  <2> QED
    BY <1>1, <1>4, <2>1, Zenon DEF NothingLost
<1>9. TokensInv
  <2>1. {c \in Callers : pc[c] \in Submitting} = {}
    BY <1>3, Zenon DEF Submitting
  <2>2. Cardinality({c \in Callers : pc[c] \in Submitting}) = 0
    BY <1>4, <2>1, Zenon
  <2> QED
    BY <1>0, <1>1, <2>2 DEF TokensInv
<1>10. LoopInv
  BY <1>1, <1>2, Zenon DEF LoopInv, PassInv
<1>11. ASSUME NEW c \in Callers PROVE CallerInv(c)
  <2>1. pc[c] = "idle" /\ bound[c] = 0 /\ returned[c] = <<"none", "Ok">>
    BY <1>3, Zenon
  <2>2. /\ returned[c] # <<"flush", "Ok">> /\ returned[c] # <<"shutdown", "Ok">>
        /\ returned[c] \notin {"flush"} \X {"Ok", "StorageError", "SinkError"}
    BY <2>1
  <2> QED
    BY <1>1, <2>1, <2>2 DEF CallerInv, Raised, Waiting
<1> QED
  BY <1>8, <1>9, <1>10, <1>11, InvParts, Zenon

\* The invariant of the client's life holds for any number of callers, events,
\* flushes and retained results.
THEOREM LifecycleCorrect == Spec => []LifecycleInv
BY LifecycleInitInv, LifecycleStep, PTL DEF Spec

\* flush() returns Ok only when every event accepted before the call has been
\* acknowledged, or dropped as unusable.
THEOREM FlushCorrect == Spec => []FlushOkMeansSettled
<1>1. LifecycleInv => FlushOkMeansSettled
  BY Zenon DEF LifecycleInv, ResultInv
<1> QED
  BY <1>1, LifecycleCorrect, PTL

\* A flush reports its own token's outcome or none, whatever retention has
\* discarded.
THEOREM OwnResultCorrect == Spec => []OwnResultOnly
<1>1. LifecycleInv => OwnResultOnly
  BY Zenon DEF LifecycleInv, ResultInv
<1> QED
  BY <1>1, LifecycleCorrect, PTL

\* The client is Stopped, and shutdown() reports Ok, only once the worker's
\* loop has ended.
THEOREM StoppedCorrect == Spec => []StoppedMeansExited
<1>1. LifecycleInv => StoppedMeansExited
  BY Zenon DEF LifecycleInv, ExitInv
<1> QED
  BY <1>1, LifecycleCorrect, PTL

\* While the worker lives no accepted event is lost but as unusable, and all
\* state has its type: at most kMaxRetainedPasses results are kept, and the queue keeps to
\* its capacity.
THEOREM LifecycleKeepsEvents == Spec => []NothingLost
<1>1. LifecycleInv => NothingLost
  BY Zenon DEF LifecycleInv
<1> QED
  BY <1>1, LifecycleCorrect, PTL
=============================================================================
