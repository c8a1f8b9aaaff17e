----------------------------- MODULE Lifecycle -----------------------------
(***************************************************************************)
(* flush(), shutdown() and wait_for_worker_exit() of a client against the  *)
(* loop of its worker (Client::Impl, WorkerCore::run).                     *)
(*                                                                         *)
(* Consent is granted throughout and an event is its ordinal.  Storage and *)
(* the sink may fail at every call, without bound, the sink may take as    *)
(* long as it likes, and every wait with a deadline may time out.          *)
(***************************************************************************)
EXTENDS Integers, FiniteSets, FiniteSetsExt

CONSTANTS
    Callers,            \* threads that call flush, shutdown, wait_for_worker_exit
    QueueCap,           \* Config::max_queue_size
    BatchSize,          \* Config::batch_size
    MaxRetainedPasses,  \* kMaxRetainedPasses
    MaxOrdinal,         \* bound: events accepted
    MaxTokens           \* bound: flushes submitted

ASSUME LifecycleAssumption ==
    /\ IsFiniteSet(Callers)
    /\ QueueCap \in Nat \ {0}
    /\ BatchSize \in Nat \ {0}
    /\ MaxRetainedPasses \in Nat \ {0}
    /\ MaxOrdinal \in Nat
    /\ MaxTokens \in Nat

VARIABLES
    lifecycle,      \* lifecycle_
    holder,         \* the caller that keeps admission_mutex_ across two steps
    ordinal,        \* ordinal_: events accepted so far
    queue,          \* EventQueue
    retry,          \* retry_
    rows,           \* the events table
    settled,        \* history: events acknowledged, or dropped as unusable
    stop,           \* stop_
    terminal,       \* terminal_status_ is set
    terminated,     \* terminated_
    finished,       \* finished_
    flushSeq,       \* flush_seq_
    flushDone,      \* flush_done_
    flushBarrier,   \* flush_barrier_
    passResults,    \* pass_results_
    outcomes,       \* history: pass_results_ without retention
    pendingError,   \* pending_error_
    wpc,            \* where the worker is
    want,           \* the worker's locals of the same names
    handled,
    barrier,
    hand,           \* events drained and not yet in the store, or being written
    moved,
    delivered,
    looping,        \* inside the loop of a flush pass
    pc,             \* where each caller is
    token,          \* the token it waits for
    bound,          \* the barrier it submits
    persist,        \* persist_status of its shutdown
    returned        \* what its last call was and returned

dataVars == <<ordinal, queue, retry, rows, settled>>
flushVars == <<flushSeq, flushBarrier>>
resultVars == <<flushDone, passResults, outcomes>>
exitVars == <<terminal, terminated, finished>>
localVars == <<want, handled, barrier, hand, moved, delivered, looping>>
callerVars == <<pc, token, bound, persist, returned>>
vars == <<lifecycle, holder, dataVars, stop, exitVars, flushVars, resultVars,
          pendingError, wpc, localVars, callerVars>>

Nobody == "nobody"
Status == {"Ok", "StorageError", "SinkError", "Timeout", "AlreadyShutdown",
           "Internal"}

TypeOK ==
    /\ lifecycle \in {"Running", "Stopping", "Stopped"}
    /\ holder \in Callers \cup {Nobody}
    /\ ordinal \in 0..MaxOrdinal
    /\ queue \subseteq 1..ordinal /\ retry \subseteq 1..ordinal
    /\ rows \subseteq 1..ordinal /\ settled \subseteq 1..ordinal
    /\ hand \subseteq 1..ordinal
    /\ Cardinality(queue) <= QueueCap
    /\ {stop, terminal, terminated, finished, moved, delivered, looping}
         \subseteq BOOLEAN
    /\ flushSeq \in 0..MaxTokens
    /\ want \in 0..flushSeq /\ handled \in 0..want /\ flushDone \in 0..flushSeq
    /\ flushBarrier \in 0..ordinal /\ barrier \in 0..flushBarrier
    /\ DOMAIN passResults \subseteq 1..flushDone
    /\ \A t \in DOMAIN passResults : passResults[t] \in Status
    /\ Cardinality(DOMAIN passResults) <= MaxRetainedPasses
    /\ DOMAIN outcomes = 1..flushDone
    /\ pendingError \in Status
    /\ wpc \in {"latch", "pop", "insert", "deliver", "writing", "remains",
                "flushSink", "record", "stopCheck", "terminate", "exit",
                "finished"}
    /\ pc \in [Callers -> {"idle", "flushBarrier", "flushToken", "flushWait",
                           "drain", "drainBarrier", "drainToken", "drainWait",
                           "stop", "join", "stopped"}]
    /\ token \in [Callers -> 0..MaxTokens]
    /\ bound \in [Callers -> 0..MaxOrdinal]
    /\ persist \in [Callers -> Status]
    /\ returned \in [Callers -> {"flush", "shutdown", "none"} \X Status]

Init ==
    /\ lifecycle = "Running" /\ holder = Nobody
    /\ ordinal = 0 /\ queue = {} /\ retry = {} /\ rows = {} /\ settled = {}
    /\ stop = FALSE
    /\ terminal = FALSE /\ terminated = FALSE /\ finished = FALSE
    /\ flushSeq = 0 /\ flushDone = 0 /\ flushBarrier = 0
    /\ passResults = <<>> /\ outcomes = <<>>
    /\ pendingError = "Ok"
    /\ wpc = "latch" /\ want = 0 /\ handled = 0 /\ barrier = 0 /\ hand = {}
    /\ moved = FALSE /\ delivered = FALSE /\ looping = FALSE
    /\ pc = [c \in Callers |-> "idle"]
    /\ token = [c \in Callers |-> 0]
    /\ bound = [c \in Callers |-> 0]
    /\ persist = [c \in Callers |-> "Ok"]
    /\ returned = [c \in Callers |-> <<"none", "Ok">>]

\* The n oldest events of a set.
Oldest(es, n) == {e \in es : Cardinality({f \in es : f < e}) < n}

-----------------------------------------------------------------------------
(* pass_results_ *)

\* prune_pass_results_locked: the newest entries are kept.
Pruned(results) ==
    LET kept == {t \in DOMAIN results :
                   Cardinality({u \in DOMAIN results : u > t})
                     < MaxRetainedPasses}
    IN  [t \in kept |-> results[t]]

WithEntries(results, tokens, status) ==
    [t \in tokens \cup DOMAIN results |->
       IF t \in tokens THEN status ELSE results[t]]

\* One entry for each token a pass, or the exit, answers.
AnswerTokens(tokens, status) ==
    /\ passResults' = Pruned(WithEntries(passResults, tokens, status))
    /\ outcomes' = WithEntries(outcomes, tokens, status)

\* Variant: the nearest later entry stands in for a missing one.
FlushResultNearest(t) ==
    LET later == {u \in DOMAIN passResults : u >= t}
    IN  IF later # {} THEN passResults[Min(later)] ELSE "Internal"

\* flush_result_locked.
FlushResult(t) ==
    IF t \in DOMAIN passResults THEN passResults[t]
    ELSE IF finished /\ \A u \in DOMAIN passResults : t > u
         THEN "AlreadyShutdown"
         ELSE "Internal"

\* note_error keeps the first error of a pass.
NoteError(status) ==
    pendingError' = IF pendingError = "Ok" THEN status ELSE pendingError

-----------------------------------------------------------------------------
(* The worker: WorkerCore::run *)

flushing == want > handled

\* The flush request is latched before any work, and errors of the past are
\* forgotten when there is one.
Latch ==
    /\ wpc = "latch"
    /\ want' = flushSeq
    /\ pendingError' = IF flushSeq > handled THEN "Ok" ELSE pendingError
    /\ wpc' = "pop"
    /\ UNCHANGED <<lifecycle, holder, dataVars, stop, exitVars, flushVars,
                   resultVars, handled, barrier, hand, moved, delivered,
                   looping, callerVars>>

\* pop_wait, which may time out, and take_retry.
Pop ==
    /\ wpc = "pop"
    /\ LET drained == Oldest(queue, BatchSize)
       IN  /\ queue' = queue \ drained
           /\ hand' = retry \cup drained
           /\ moved' = (drained # {})
    /\ retry' = {}
    /\ delivered' = FALSE
    /\ wpc' = "insert"
    /\ UNCHANGED <<lifecycle, holder, ordinal, rows, settled, stop, exitVars,
                   flushVars, resultVars, pendingError, want, handled, barrier,
                   looping, callerVars>>

\* Variant: the batch of a failed insert is dropped.
InsertOrDrop ==
    /\ wpc = "insert"
    /\ \E invalid \in SUBSET hand :
         /\ settled' = settled \cup invalid
         /\ \/ rows' = rows \cup (hand \ invalid) /\ UNCHANGED pendingError
            \/ hand # invalid /\ NoteError("StorageError") /\ UNCHANGED rows
    /\ hand' = {}
    /\ wpc' = "deliver"
    /\ UNCHANGED <<lifecycle, holder, ordinal, queue, retry, stop, exitVars,
                   flushVars, resultVars, want, handled, barrier, moved,
                   delivered, looping, callerVars>>

\* The rest of process_incoming: an event that cannot be serialised is dropped,
\* which is no error of the pass, and a failed insert is held for retry.
Insert ==
    /\ wpc = "insert"
    /\ \E invalid \in SUBSET hand :
         /\ settled' = settled \cup invalid
         /\ \/ rows' = rows \cup (hand \ invalid) /\ UNCHANGED <<retry, pendingError>>
            \/ /\ hand # invalid
               /\ retry' = hand \ invalid
               /\ NoteError("StorageError")
               /\ UNCHANGED rows
    /\ hand' = {}
    /\ wpc' = "deliver"
    /\ UNCHANGED <<lifecycle, holder, ordinal, queue, stop, exitVars, flushVars,
                   resultVars, want, handled, barrier, moved, delivered, looping,
                   callerVars>>

\* Variant: a flush pass goes on until its work is done.
AfterDeliveryAgain == IF flushing THEN "remains" ELSE "stopCheck"

\* What follows deliver_all: a flush pass goes round again unless neither the
\* queue nor the sink made progress.  (The queue cannot shrink while nothing
\* is popped from it, so its size plays no part in the test here.)
AfterDelivery ==
    CASE ~flushing -> "stopCheck"
      [] flushing /\ looping /\ ~moved /\ ~delivered -> "flushSink"
      [] OTHER -> "remains"

\* deliver_all, one batch at a time: fetch_pending, then the sink's write.
\* Unusable rows are left out and deleted.  When that fails, or the read does
\* part-way, nothing is deleted.  Either is an error of the pass, and what was
\* read is written all the same.
Deliver ==
    /\ wpc = "deliver"
    /\ LET window == Oldest(rows, BatchSize)
       IN  \/ \E bad \in SUBSET window :
                /\ hand' = window \ bad
                /\ rows' = rows \ bad
                /\ settled' = settled \cup bad
                /\ IF bad = {} THEN UNCHANGED pendingError
                   ELSE NoteError("StorageError")
           \/ /\ hand' \in SUBSET window
              /\ NoteError("StorageError")
              /\ UNCHANGED <<rows, settled>>
    /\ wpc' = IF hand' = {} THEN AfterDelivery ELSE "writing"
    /\ UNCHANGED <<lifecycle, holder, ordinal, queue, retry, stop, exitVars,
                   flushVars, resultVars, want, handled, barrier, moved,
                   delivered, looping, callerVars>>

\* The write returns; then the batch is acknowledged.  An acknowledgment that
\* finds only some of the rows removes those and reports an error.
SinkReturns ==
    /\ wpc = "writing"
    /\ \/ \E gone \in SUBSET hand :
            /\ rows' = rows \ gone
            /\ settled' = settled \cup gone
            /\ IF gone = hand
               THEN delivered' = TRUE /\ wpc' = "deliver" /\ UNCHANGED pendingError
               ELSE /\ NoteError("StorageError")
                    /\ wpc' = AfterDelivery
                    /\ UNCHANGED delivered
       \/ /\ NoteError("SinkError")
          /\ wpc' = AfterDelivery
          /\ UNCHANGED <<rows, settled, delivered>>
    /\ hand' = {}
    /\ UNCHANGED <<lifecycle, holder, ordinal, queue, retry, stop, exitVars,
                   flushVars, resultVars, want, handled, barrier, moved, looping,
                   callerVars>>

\* work_remains_at_or_below: the reasons it may give, none when it is FALSE.
\* Counting the rows may fail.
Residuals(b) ==
    CASE b = 0 -> {"Ok"}
      [] b # 0 /\ queue \cap 1..b # {} -> {"Timeout"}
      [] b # 0 /\ queue \cap 1..b = {} /\ retry \cap 1..b # {} -> {"StorageError"}
      [] OTHER -> {"StorageError",
                   IF rows \cap 1..b # {} THEN "SinkError" ELSE "Ok"}

\* The head of a flush pass's loop; the barrier is read when it is entered.
Remains ==
    /\ wpc = "remains"
    /\ barrier' = IF looping THEN barrier ELSE flushBarrier
    /\ looping' = TRUE
    /\ \E why \in Residuals(barrier') :
         wpc' = IF why = "Ok" THEN "flushSink" ELSE "pop"
    /\ UNCHANGED <<lifecycle, holder, dataVars, stop, exitVars, flushVars,
                   resultVars, pendingError, want, handled, hand, moved,
                   delivered, callerVars>>

FlushSink ==
    /\ wpc = "flushSink"
    /\ wpc' = "record"
    /\ UNCHANGED pendingError \/ NoteError("SinkError")
    /\ UNCHANGED <<lifecycle, holder, dataVars, stop, exitVars, flushVars,
                   resultVars, localVars, callerVars>>

\* The outcome of the pass, recorded for every token it answers.
Record ==
    /\ wpc = "record"
    /\ \E residual \in Residuals(barrier) :
         AnswerTokens((handled + 1)..want,
                      IF pendingError # "Ok" THEN pendingError ELSE residual)
    /\ pendingError' = "Ok"
    /\ handled' = want
    /\ flushDone' = want
    /\ wpc' = "stopCheck"
    /\ UNCHANGED <<lifecycle, holder, dataVars, stop, exitVars, flushVars, want,
                   barrier, hand, moved, delivered, looping, callerVars>>

\* The locals of one turn of the worker's loop end with it.
TurnEnds ==
    /\ want' = handled /\ barrier' = 0
    /\ moved' = FALSE /\ delivered' = FALSE /\ looping' = FALSE

\* Variant: the worker stops only when nothing is left to deliver.
StopCheckDrained ==
    /\ wpc = "stopCheck"
    /\ wpc' = IF stop /\ rows = {} THEN "exit" ELSE "latch"
    /\ TurnEnds
    /\ UNCHANGED <<lifecycle, holder, dataVars, stop, exitVars, flushVars,
                   resultVars, pendingError, handled, hand, callerVars>>

StopCheck ==
    /\ wpc = "stopCheck"
    /\ wpc' = IF stop THEN "exit" ELSE "latch"
    /\ TurnEnds
    /\ UNCHANGED <<lifecycle, holder, dataVars, stop, exitVars, flushVars,
                   resultVars, pendingError, handled, hand, callerVars>>

\* An exception ends the loop; what the worker had in hand is gone.
Die ==
    /\ wpc \notin {"terminate", "exit", "finished"}
    /\ terminal' = TRUE
    /\ hand' = {}
    /\ wpc' = "terminate"
    /\ TurnEnds
    /\ UNCHANGED <<lifecycle, holder, dataVars, stop, terminated, finished,
                   flushVars, resultVars, pendingError, handled, callerVars>>

SetTerminated ==
    /\ wpc = "terminate"
    /\ terminated' = TRUE
    /\ wpc' = "exit"
    /\ UNCHANGED <<lifecycle, holder, dataVars, stop, terminal, finished,
                   flushVars, resultVars, pendingError, localVars, callerVars>>

\* Variant: a clean exit answers the remaining tokens with success.
ExitOk ==
    /\ wpc = "exit"
    /\ finished' = TRUE
    /\ AnswerTokens((handled + 1)..flushSeq, "Ok")
    /\ flushDone' = flushSeq
    /\ wpc' = "finished"
    /\ UNCHANGED <<lifecycle, holder, dataVars, stop, terminal, terminated,
                   flushVars, pendingError, localVars, callerVars>>

\* Tokens that no pass has answered are refused.
Exit ==
    /\ wpc = "exit"
    /\ finished' = TRUE
    /\ AnswerTokens((handled + 1)..flushSeq, "AlreadyShutdown")
    /\ flushDone' = flushSeq
    /\ wpc' = "finished"
    /\ UNCHANGED <<lifecycle, holder, dataVars, stop, terminal, terminated,
                   flushVars, pendingError, localVars, callerVars>>

\* The sink, or a callback, calls shutdown() on the worker's own thread.
ShutdownFromWorker ==
    /\ wpc = "writing"
    /\ holder = Nobody
    /\ lifecycle' = IF lifecycle = "Running" THEN "Stopping" ELSE lifecycle
    /\ stop' = TRUE
    /\ UNCHANGED <<holder, dataVars, exitVars, flushVars, resultVars,
                   pendingError, wpc, localVars, callerVars>>

WorkerStep ==
    \/ Latch \/ Pop \/ Insert \/ Deliver \/ Remains \/ FlushSink \/ Record
    \/ StopCheck \/ SetTerminated \/ Exit

-----------------------------------------------------------------------------
(* The callers *)

\* admit_locked, as far as flush and shutdown are concerned.
Accept ==
    /\ holder = Nobody
    /\ lifecycle = "Running" /\ ~terminated
    /\ ordinal < MaxOrdinal
    /\ Cardinality(queue) < QueueCap
    /\ ordinal' = ordinal + 1
    /\ queue' = queue \cup {ordinal + 1}
    /\ UNCHANGED <<lifecycle, holder, retry, rows, settled, stop, exitVars,
                   flushVars, resultVars, pendingError, wpc, localVars,
                   callerVars>>

Goto(c, label) == pc' = [pc EXCEPT ![c] = label]

Return(c, call, status) ==
    /\ Goto(c, "idle")
    /\ returned' = [returned EXCEPT ![c] = <<call, status>>]

\* shutdown() returns, and its locals end.
ShutdownReturns(c, status) ==
    /\ Return(c, "shutdown", status)
    /\ token' = [token EXCEPT ![c] = 0]
    /\ bound' = [bound EXCEPT ![c] = 0]
    /\ persist' = [persist EXCEPT ![c] = "Ok"]

\* Within the bound, counting the tokens that calls in progress will take.
Submitting == {"flushBarrier", "flushToken", "drain", "drainBarrier", "drainToken"}
TokenLeft ==
    flushSeq + Cardinality({c \in Callers : pc[c] \in Submitting}) < MaxTokens

\* flush(): the lifecycle is tested and the token issued in one hold of the
\* admission lock.
FlushCall(c) ==
    /\ pc[c] = "idle"
    /\ holder = Nobody
    /\ TokenLeft
    /\ IF lifecycle # "Running"
       THEN Return(c, "flush", "AlreadyShutdown") /\ UNCHANGED <<holder, bound>>
       ELSE IF terminated
       THEN Return(c, "flush", "Internal") /\ UNCHANGED <<holder, bound>>
       ELSE /\ holder' = c
            /\ bound' = [bound EXCEPT ![c] = ordinal]
            /\ Goto(c, "flushBarrier")
            /\ UNCHANGED returned
    /\ UNCHANGED <<lifecycle, dataVars, stop, exitVars, flushVars, resultVars,
                   pendingError, wpc, localVars, token, persist>>

\* submit_flush raises the barrier first ...
SubmitBarrier(c) ==
    /\ pc[c] \in {"flushBarrier", "drainBarrier"}
    /\ flushBarrier' = IF bound[c] > flushBarrier THEN bound[c] ELSE flushBarrier
    /\ Goto(c, IF pc[c] = "flushBarrier" THEN "flushToken" ELSE "drainToken")
    /\ UNCHANGED <<lifecycle, holder, dataVars, stop, exitVars, flushSeq,
                   resultVars, pendingError, wpc, localVars, token, bound,
                   persist, returned>>

\* ... and then takes the token.
SubmitToken(c) ==
    /\ pc[c] \in {"flushToken", "drainToken"}
    /\ flushSeq' = flushSeq + 1
    /\ token' = [token EXCEPT ![c] = flushSeq + 1]
    /\ holder' = IF holder = c THEN Nobody ELSE holder
    /\ Goto(c, IF pc[c] = "flushToken" THEN "flushWait" ELSE "drainWait")
    /\ UNCHANGED <<lifecycle, dataVars, stop, exitVars, flushBarrier, resultVars,
                   pendingError, wpc, localVars, bound, persist, returned>>

\* wait_flush wakes up when the token is answered or the worker has gone.
Answered(c) == flushDone >= token[c] \/ finished
Answer(c) == IF terminal THEN "Internal" ELSE FlushResult(token[c])

FlushReturn(c) ==
    /\ pc[c] = "flushWait"
    /\ \/ Answered(c) /\ Return(c, "flush", Answer(c))
       \/ ~Answered(c) /\ Return(c, "flush", "Timeout")
    /\ UNCHANGED <<lifecycle, holder, dataVars, stop, exitVars, flushVars,
                   resultVars, pendingError, wpc, localVars, token, bound,
                   persist>>

\* shutdown(): close admission ...
ShutdownCall(c) ==
    /\ pc[c] = "idle"
    /\ holder = Nobody
    /\ IF lifecycle = "Stopped"
       THEN ShutdownReturns(c, "Ok") /\ UNCHANGED lifecycle
       ELSE /\ TokenLeft
            /\ lifecycle' = "Stopping"
            /\ Goto(c, "drain")
            /\ UNCHANGED <<token, bound, persist, returned>>
    /\ UNCHANGED <<holder, dataVars, stop, exitVars, flushVars, resultVars,
                   pendingError, wpc, localVars>>

\* ... read the barrier for a last flush ...
DrainBarrier(c) ==
    /\ pc[c] = "drain"
    /\ holder = Nobody
    /\ bound' = [bound EXCEPT ![c] = ordinal]
    /\ Goto(c, "drainBarrier")
    /\ UNCHANGED <<lifecycle, holder, dataVars, stop, exitVars, flushVars,
                   resultVars, pendingError, wpc, localVars, token, persist,
                   returned>>

\* ... wait for it, for half of the time at most ...
DrainReturn(c) ==
    /\ pc[c] = "drainWait"
    /\ \/ Answered(c) /\ persist' = [persist EXCEPT ![c] = Answer(c)]
       \/ ~Answered(c) /\ UNCHANGED persist
    /\ Goto(c, "stop")
    /\ UNCHANGED <<lifecycle, holder, dataVars, stop, exitVars, flushVars,
                   resultVars, pendingError, wpc, localVars, token, bound,
                   returned>>

\* ... ask the worker to stop ...
RequestStop(c) ==
    /\ pc[c] = "stop"
    /\ stop' = TRUE
    /\ Goto(c, "join")
    /\ UNCHANGED <<lifecycle, holder, dataVars, exitVars, flushVars, resultVars,
                   pendingError, wpc, localVars, token, bound, persist,
                   returned>>

\* Variant: running out of time counts as stopped.
JoinAbandons(c) ==
    /\ pc[c] = "join"
    /\ Goto(c, "stopped")
    /\ UNCHANGED <<lifecycle, holder, dataVars, stop, exitVars, flushVars,
                   resultVars, pendingError, wpc, localVars, token, bound,
                   persist, returned>>

\* ... and join it, or give up.
Join(c) ==
    /\ pc[c] = "join"
    /\ \/ finished /\ Goto(c, "stopped") /\ UNCHANGED <<token, bound, persist, returned>>
       \/ ~finished /\ ShutdownReturns(c, "Timeout")
    /\ UNCHANGED <<lifecycle, holder, dataVars, stop, exitVars, flushVars,
                   resultVars, pendingError, wpc, localVars>>

\* What shutdown reports.  A refusal by the sink and an unserviced drain are
\* no failure.
ShutdownStatus(c) ==
    CASE terminal -> "Internal"
      [] ~terminal /\ persist[c] \in {"SinkError", "AlreadyShutdown"} -> "Ok"
      [] OTHER -> persist[c]

ShutdownReturn(c) ==
    /\ pc[c] = "stopped"
    /\ holder = Nobody
    /\ lifecycle' = "Stopped"
    /\ ShutdownReturns(c, ShutdownStatus(c))
    /\ UNCHANGED <<holder, dataVars, stop, exitVars, flushVars, resultVars,
                   pendingError, wpc, localVars>>

\* wait_for_worker_exit, when it returns true.
WaitForWorkerExit(c) ==
    /\ pc[c] = "idle"
    /\ holder = Nobody
    /\ finished
    /\ lifecycle' = IF lifecycle # "Running" THEN "Stopped" ELSE lifecycle
    /\ UNCHANGED <<holder, dataVars, stop, exitVars, flushVars, resultVars,
                   pendingError, wpc, localVars, callerVars>>

CallerStep(c) ==
    \/ FlushCall(c) \/ ShutdownCall(c) \/ WaitForWorkerExit(c)
    \/ SubmitBarrier(c) \/ SubmitToken(c) \/ FlushReturn(c) \/ DrainBarrier(c)
    \/ DrainReturn(c) \/ RequestStop(c) \/ Join(c) \/ ShutdownReturn(c)

Next ==
    \/ WorkerStep \/ SinkReturns \/ Die \/ ShutdownFromWorker
    \/ Accept
    \/ \E c \in Callers : CallerStep(c)

Spec == Init /\ [][Next]_vars

\* The worker thread is scheduled and the sink returns from every write.  The
\* callers owe nothing.
FairSpec == Spec /\ WF_vars(WorkerStep) /\ WF_vars(SinkReturns)

-----------------------------------------------------------------------------
(* Properties *)

\* flush() returns Ok only when every event accepted before the call has been
\* acknowledged, or dropped as one that cannot be serialised or whose row is
\* unusable: none is queued, held for retry or stored any more, whichever
\* tokens its pass answered, whatever failed before, and whether or not the
\* worker is stopping; and no other token's result, an expired result or an
\* unserviced token is ever reported as Ok (wait_flush, flush_result_locked,
\* run).
FlushOkMeansSettled ==
    \A c \in Callers :
      returned[c] = <<"flush", "Ok">> /\ pc[c] = "idle" =>
        1..bound[c] \subseteq settled

\* A flush reports the outcome of its own token's pass or none at all, however
\* many passes have run since and whatever retention has discarded
\* (flush_result_locked, prune_pass_results_locked).
OwnResultOnly ==
    \A c \in Callers :
      /\ pc[c] = "idle"
      /\ returned[c] \in {"flush"} \X {"Ok", "StorageError", "SinkError"}
      => outcomes[token[c]] = returned[c][2]

\* The client is Stopped, and shutdown() returns Ok, only after the worker's
\* loop has ended, for every one of several concurrent callers.
StoppedMeansExited ==
    /\ lifecycle = "Stopped" => finished
    /\ \A c \in Callers : returned[c] = <<"shutdown", "Ok">> => lifecycle = "Stopped"

\* While the worker has not died, an accepted event is in one of the places
\* the worker takes events from, or acknowledged, or dropped as unusable; and
\* all state has its type.
NothingLost ==
    /\ TypeOK
    /\ terminal \/ 1..ordinal = queue \cup hand \cup retry \cup rows \cup settled

\* After shutdown() has returned Ok every accepted event is in the durable
\* store or needs no delivery any more, as the comment on Client::shutdown says.  (The worker
\* has not died.)
ShutdownKeepsAccepted ==
    \A c \in Callers :
      returned[c] = <<"shutdown", "Ok">> /\ ~terminal =>
        1..ordinal \subseteq rows \cup settled

\* Every flush token is answered, however often storage and the sink fail and
\* whatever ends the worker: a pass that makes no progress gives up, and the
\* exit answers the rest (run).
TokensAnswered ==
    \A t \in 1..MaxTokens : flushSeq >= t ~> flushDone >= t \/ finished

\* Once a stop has been requested the worker exits, even in the middle of a
\* flush pass (request_stop, run).
StopLeadsToExit == stop ~> finished

-----------------------------------------------------------------------------
(* The inductive invariant behind the safety properties *)

\* Where a caller waits for its token, and where its barrier has been raised.
Waiting == {"flushWait", "drainWait"}
Raised == Waiting \cup {"flushToken", "drainToken"}

\* The bound on tokens counts the calls that will still take one.
TokensInv ==
    flushSeq + Cardinality({c \in Callers : pc[c] \in Submitting}) <= MaxTokens

\* How far the worker and each shutdown() have come.
ExitInv ==
    /\ finished <=> wpc = "finished"
    /\ terminal => wpc \in {"terminate", "exit", "finished"}
    /\ \A c \in Callers : pc[c] = "stopped" => finished
    /\ StoppedMeansExited

\* The worker's locals: which turn is a flush pass, and what it still answers.
PassInv ==
    /\ hand # {} => wpc \in {"insert", "writing"}
    /\ wpc = "writing" => hand \subseteq rows
    /\ wpc = "insert" => retry = {}
    /\ wpc \in {"latch", "terminate", "exit", "finished"} => ~looping /\ want = handled
    /\ wpc \in {"flushSink", "record"} => looping
    /\ wpc \in {"remains", "flushSink", "record"} => want > handled
    /\ looping /\ wpc # "stopCheck" => want > handled
    /\ ~finished => handled = flushDone

\* The barrier of a pass covers every call whose token the pass will answer,
\* and what an answered token says is so.
BarrierInv ==
    /\ \A c \in Callers :
         /\ bound[c] <= ordinal
         /\ pc[c] \in Raised => bound[c] <= flushBarrier
         /\ pc[c] \in Waiting =>
              /\ token[c] \in 1..flushSeq
              /\ looping /\ token[c] \in (handled + 1)..want => bound[c] <= barrier
              /\ token[c] <= flushDone /\ outcomes[token[c]] = "Ok" =>
                   1..bound[c] \subseteq settled

\* What is kept of the results is what was recorded, and a call that reported
\* one reported its own.
ResultInv ==
    /\ \A t \in DOMAIN passResults : passResults[t] = outcomes[t]
    /\ \A c \in Callers :
         /\ pc[c] = "idle"
         /\ returned[c] \in {"flush"} \X {"Ok", "StorageError", "SinkError"}
         => token[c] \in 1..flushDone
    /\ OwnResultOnly
    /\ FlushOkMeansSettled

\* The conjunction that every step of the worker, the sink and the callers
\* preserves.
LifecycleInv ==
    /\ NothingLost
    /\ TokensInv
    /\ ExitInv
    /\ PassInv
    /\ BarrierInv
    /\ ResultInv
=============================================================================
