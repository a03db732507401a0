------------------------------- MODULE Writer -------------------------------
(***************************************************************************)
(* The batching client writer of src/client/writer.go and the Client.Batch *)
(* call it makes (src/events.go, the client half).  Writer goroutines call *)
(* Write and Flush; one flusher goroutine (start) serves flushSyncC, a     *)
(* WaitInterval timer and stopC, and flushes the batch under w.mu.  Write  *)
(* decides under w.mu whether the batch must be flushed first, and if so   *)
(* drops the lock for the flushSyncC/readySyncC round trip.  Reset stops   *)
(* the flusher (which flushes once more), empties the batch and starts a   *)
(* new flusher; Close closes the connection only.                          *)
(*                                                                         *)
(* Message i of writer goroutine w is <<w, i>>; every message has size 1   *)
(* and BatchSize is counted in the same unit.  A critical section of w.mu  *)
(* that does not block is one atomic step.                                 *)
(***************************************************************************)
EXTENDS Naturals, Sequences, SequencesExt, FiniteSets

CONSTANTS
    Writers,         \* goroutines calling Write / Flush
    MsgsPerWriter,   \* messages each of them writes
    BatchSize,       \* conf.BatchSize
    MaxFlushes,      \* explicit Flush calls, in total
    MaxNetErrors,    \* failed Client.Batch calls on an open connection
    MaxResets,       \* Reset calls
    CanClose,        \* whether Close is called
    NoWriter

ASSUME MsgsPerWriter \in Nat /\ BatchSize \in Nat \ {0}
ASSUME {MaxFlushes, MaxNetErrors, MaxResets} \subseteq Nat /\ CanClose \in BOOLEAN

VARIABLES
    batch,       \* w.batch: the messages appended and not flushed
    wpc,         \* writer goroutine: idle, signal, await, relock
    wop,         \* the call it is in: "write" or "flush"
    werr,        \* the error readySyncC gave it
    written,     \* how many of its messages Write has returned for
    fpc,         \* flusher: wait (in select), sync (took flushSyncC), stopped
    fsync,       \* the writer whose flushSyncC the flusher took
    rpc,         \* the Reset caller: idle, or stopping (stop() returned)
    connOpen,    \* the client connection has not been closed
    delivered,   \* messages of the batches the server acknowledged, in order
    acked,       \* messages whose Write returned len(p), nil
    leaked,      \* w.mu left locked by a Write that returned a flush error
    flushes, netErrs, resets   \* counters for the bounds

vars == <<batch, wpc, wop, werr, written, fpc, fsync, rpc, connOpen,
          delivered, acked, leaked, flushes, netErrs, resets>>

(* w.mu can be taken: nobody left it locked.  A step that locks w.mu     *)
(* waits on this; the lock is otherwise held only within one atomic step. *)
muFree == ~leaked

Msg == Writers \X (1 .. MsgsPerWriter)

(* mutant: the message index taken before the increment *)
NextMsgStale(w) == <<w, written[w]>>

(* The message Write is called with next: p of Writer.Write. *)
NextMsg(w) == <<w, written[w] + 1>>

-----------------------------------------------------------------------------
(* shouldFlush: batch.CalcSize() + MessageSize(size) >= conf.BatchSize. *)
shouldFlush == Len(batch) + 1 >= BatchSize

(***************************************************************************)
(* Client.Batch: send the batch and read the response.  It fails on a      *)
(* closed connection, and on an open one while MaxNetErrors allows.        *)
(***************************************************************************)
BatchOk == connOpen /\ delivered' = delivered \o batch /\ UNCHANGED netErrs

BatchFails ==
    /\ \/ ~connOpen /\ UNCHANGED netErrs
       \/ connOpen /\ netErrs < MaxNetErrors /\ netErrs' = netErrs + 1
    /\ UNCHANGED delivered

(* mutant: flushPending forgets batch.Reset() after a successful send *)
flushPendingNoReset(err) ==
    \/ /\ batch = <<>> /\ ~err
       /\ UNCHANGED <<batch, delivered, netErrs>>
    \/ /\ batch # <<>>
       /\ \/ ~err /\ BatchOk /\ UNCHANGED batch
          \/ err /\ BatchFails /\ batch' = <<>>

(***************************************************************************)
(* flushPending, under w.mu: nothing to do for an empty batch; otherwise   *)
(* Client.Batch, then batch.Reset() whatever the outcome, then the error   *)
(* is returned.  err is the error flushPending reports.                    *)
(***************************************************************************)
flushPending(err) ==
    \/ /\ batch = <<>> /\ ~err
       /\ UNCHANGED <<batch, delivered, netErrs>>
    \/ /\ batch # <<>>
       /\ batch' = <<>>
       /\ \/ ~err /\ BatchOk
          \/ err /\ BatchFails

-----------------------------------------------------------------------------
(* Write, first critical section: if the batch has room the message is     *)
(* appended and Write returns; otherwise Write unlocks and signals.  A     *)
(* Write that would block in its first w.mu.Lock() is not begun.          *)
WriteBegin(w) ==
    /\ wpc[w] = "idle"
    /\ written[w] < MsgsPerWriter
    /\ muFree
    /\ \/ /\ shouldFlush
          /\ wpc' = [wpc EXCEPT ![w] = "signal"]
          /\ wop' = [wop EXCEPT ![w] = "write"]
          /\ UNCHANGED <<batch, written, acked>>
       \/ /\ ~shouldFlush
          /\ batch' = Append(batch, NextMsg(w))
          /\ acked' = acked \cup {NextMsg(w)}
          /\ written' = [written EXCEPT ![w] = @ + 1]
          /\ UNCHANGED <<wpc, wop>>
    /\ UNCHANGED <<werr, fpc, fsync, rpc, connOpen, delivered, leaked,
                   flushes, netErrs, resets>>

(* Flush: signalFlushSync without the lock. *)
Flush(w) ==
    /\ wpc[w] = "idle"
    /\ flushes < MaxFlushes
    /\ wpc' = [wpc EXCEPT ![w] = "signal"]
    /\ wop' = [wop EXCEPT ![w] = "flush"]
    /\ flushes' = flushes + 1
    /\ UNCHANGED <<batch, werr, written, fpc, fsync, rpc, connOpen,
                   delivered, acked, leaked, netErrs, resets>>

(* signalFlushSync: the send on the unbuffered flushSyncC meets the        *)
(* flusher's select.                                                      *)
TakeSync(w) ==
    /\ fpc = "wait"
    /\ wpc[w] = "signal"
    /\ fpc' = "sync"
    /\ fsync' = w
    /\ wpc' = [wpc EXCEPT ![w] = "await"]
    /\ UNCHANGED <<batch, wop, werr, written, rpc, connOpen, delivered,
                   acked, leaked, flushes, netErrs, resets>>

(* mutant: flushPending returns an error without signalReadySync *)
FlushSyncNoSignalOnError ==
    /\ fpc = "sync"
    /\ muFree
    /\ \E err \in BOOLEAN :
          /\ flushPending(err)
          /\ IF err THEN UNCHANGED <<wpc, werr>>
             ELSE /\ wpc' = [wpc EXCEPT ![fsync] = "relock"]
                  /\ werr' = [werr EXCEPT ![fsync] = err]
    /\ fpc' = "wait"
    /\ UNCHANGED <<wop, written, fsync, rpc, connOpen, acked, leaked,
                   flushes, resets>>

(* flushPending(true): flushes, then hands the error to the waiting writer *)
(* on readySyncC while still holding w.mu.                                 *)
FlushSync ==
    /\ fpc = "sync"
    /\ muFree
    /\ \E err \in BOOLEAN :
          /\ flushPending(err)
          /\ wpc' = [wpc EXCEPT ![fsync] = "relock"]
          /\ werr' = [werr EXCEPT ![fsync] = err]
    /\ fpc' = "wait"
    /\ UNCHANGED <<wop, written, fsync, rpc, connOpen, acked, leaked,
                   flushes, resets>>

(* <-time.After(WaitInterval): flushPending(false), error only logged. *)
FlushTimer ==
    /\ fpc = "wait"
    /\ batch # <<>>
    /\ muFree
    /\ \E err \in BOOLEAN : flushPending(err)
    /\ UNCHANGED <<wpc, wop, werr, written, fpc, fsync, rpc, connOpen,
                   acked, leaked, flushes, resets>>

(* Write, second critical section: relock; on an error from the flush     *)
(* return it with w.mu still locked, since the deferred Unlock comes only  *)
(* after the check; else append the message.  Flush takes no lock and     *)
(* just returns what readySyncC gave it.                                   *)
Relock(w) ==
    /\ wpc[w] = "relock"
    /\ wpc' = [wpc EXCEPT ![w] = "idle"]
    /\ \/ /\ wop[w] = "write"
          /\ muFree
          /\ written' = [written EXCEPT ![w] = @ + 1]
          /\ \/ werr[w] /\ leaked' = TRUE /\ UNCHANGED <<batch, acked>>
             \/ /\ ~werr[w]
                /\ batch' = Append(batch, NextMsg(w))
                /\ acked' = acked \cup {NextMsg(w)}
                /\ UNCHANGED leaked
       \/ /\ wop[w] = "flush"
          /\ UNCHANGED <<batch, written, acked, leaked>>
    /\ UNCHANGED <<wop, werr, fpc, fsync, rpc, connOpen, delivered,
                   flushes, netErrs, resets>>

(* Reset: stop() meets the flusher on stopC; it runs flushPending(false)   *)
(* and returns.                                                            *)
ResetStop ==
    /\ rpc = "idle"
    /\ resets < MaxResets
    /\ fpc = "wait"
    /\ muFree
    /\ \E err \in BOOLEAN : flushPending(err)
    /\ fpc' = "stopped"
    /\ rpc' = "stopping"
    /\ UNCHANGED <<wpc, wop, werr, written, fsync, connOpen, acked, leaked,
                   flushes, resets>>

(* Reset, under w.mu: batch.Reset() and start() a new flusher. *)
ResetRestart ==
    /\ rpc = "stopping"
    /\ muFree
    /\ batch' = <<>>
    /\ fpc' = "wait"
    /\ rpc' = "idle"
    /\ resets' = resets + 1
    /\ UNCHANGED <<wpc, wop, werr, written, fsync, connOpen, delivered,
                   acked, leaked, flushes, netErrs>>

(* Close: Client.Close closes the connection; the batch stays and the     *)
(* flusher keeps running.                                                  *)
Close ==
    /\ CanClose
    /\ connOpen
    /\ connOpen' = FALSE
    /\ UNCHANGED <<batch, wpc, wop, werr, written, fpc, fsync, rpc,
                   delivered, acked, leaked, flushes, netErrs, resets>>

-----------------------------------------------------------------------------
(* Every writer has returned from its last call and the flusher is idle   *)
(* with nothing to flush.                                                  *)
Finished ==
    /\ \A w \in Writers : wpc[w] = "idle" /\ written[w] = MsgsPerWriter
    /\ rpc = "idle"
    /\ fpc = "wait"
    /\ batch = <<>>

Init ==
    /\ batch = <<>>
    /\ wpc = [w \in Writers |-> "idle"]
    /\ wop = [w \in Writers |-> "write"]
    /\ werr = [w \in Writers |-> FALSE]
    /\ written = [w \in Writers |-> 0]
    /\ fpc = "wait"
    /\ fsync = NoWriter
    /\ rpc = "idle"
    /\ connOpen = TRUE
    /\ delivered = <<>>
    /\ acked = {}
    /\ leaked = FALSE
    /\ flushes = 0 /\ netErrs = 0 /\ resets = 0

Next ==
    \/ \E w \in Writers : WriteBegin(w) \/ Flush(w) \/ TakeSync(w) \/ Relock(w)
    \/ FlushSync \/ FlushTimer
    \/ ResetStop \/ ResetRestart \/ Close
    \/ Finished /\ UNCHANGED vars

(* The flusher and every goroutine blocked in a call are runnable and get  *)
(* scheduled; the timer fires after WaitInterval.  Callers starting calls  *)
(* are not obliged to.                                                     *)
Fairness ==
    /\ \A w \in Writers : WF_vars(TakeSync(w)) /\ WF_vars(Relock(w))
    /\ WF_vars(FlushSync) /\ WF_vars(FlushTimer) /\ WF_vars(ResetRestart)

Spec == Init /\ [][Next]_vars /\ Fairness

TypeOK ==
    /\ batch \in Seq(Msg)
    /\ wpc \in [Writers -> {"idle", "signal", "await", "relock"}]
    /\ wop \in [Writers -> {"write", "flush"}]
    /\ werr \in [Writers -> BOOLEAN]
    /\ written \in [Writers -> 0 .. MsgsPerWriter]
    /\ fpc \in {"wait", "sync", "stopped"}
    /\ fsync \in Writers \cup {NoWriter}
    /\ rpc \in {"idle", "stopping"}
    /\ connOpen \in BOOLEAN
    /\ delivered \in Seq(Msg)
    /\ acked \subseteq Msg
    /\ leaked \in BOOLEAN
    /\ flushes \in 0 .. MaxFlushes
    /\ netErrs \in 0 .. MaxNetErrors
    /\ resets \in 0 .. MaxResets

-----------------------------------------------------------------------------
(* A message Write acknowledged is either still in the batch or has been  *)
(* delivered: flushPending and Reset never throw away an acknowledged     *)
(* message.                                                                *)
NoAckedWriteLost ==
    \A m \in acked : m \in ToSet(batch) \/ m \in ToSet(delivered)

(* The server receives each writer's messages once each and in the order  *)
(* that writer wrote them, whatever flushes, failures and resets happen   *)
(* in between.                                                             *)
DeliveredOnceInOrder ==
    \A i, j \in 1 .. Len(delivered) :
        (i < j /\ delivered[i][1] = delivered[j][1])
            => delivered[i][2] < delivered[j][2]

(* shouldFlush keeps the batch below conf.BatchSize: Write flushes before  *)
(* the append that would reach it.                                         *)
BatchBelowLimit == Len(batch) < BatchSize

(* Every Write and Flush call returns: writer.go:89-91 returns a flush    *)
(* error with w.mu locked, after which flushPending blocks and a Flush      *)
(* waiting on readySyncC never returns.                                    *)
EveryCallReturns == \A w \in Writers : wpc[w] # "idle" ~> wpc[w] = "idle"

(* The leak of w.mu is the only way a call hangs: until a Write returns   *)
(* with w.mu locked, every Write and Flush returns, because the flusher   *)
(* answers on readySyncC every flushSyncC it took, on a failed batch and a *)
(* closed connection too, and Reset's stop meets a flusher in its select.  *)
CallsReturnUnlessLockLeaked ==
    \A w \in Writers : wpc[w] # "idle" ~> (wpc[w] = "idle" \/ leaked)
=============================================================================
