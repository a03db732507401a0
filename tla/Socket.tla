------------------------------- MODULE Socket -------------------------------
(***************************************************************************)
(* The socket server of src/server/socket.go composed with the event queue *)
(* it owns (EventQ.tla).  Each connection goroutine (handleConnection)     *)
(* reads a command, pushes it on q.in and waits for the response           *)
(* (executeCommand), writes the response, and for a read installs a fresh  *)
(* reader channel, signals ready and starts a handleSubscriber goroutine   *)
(* that copies the channel to the connection until the connection's       *)
(* context is cancelled, when it closes the channel.  The context is       *)
(* cancelled when handleConnection returns: after CLOSE, when the client   *)
(* goes away (read EOF, if ClientEOF) or when writing the response fails   *)
(* (if ConnWriteErrors).  A SHUTDOWN the queue answers OK makes its       *)
(* connection call Socket.Stop, which hands over to the listenAndServe    *)
(* goroutine's shutdown: it sets s.shuttingDown, stops the queue (a       *)
(* rendezvous on q.close, or a 500ms timeout), waits for the connections  *)
(* (each until done or GracefulShutdownTimeout) and closes them, then     *)
(* lets Stop return.  Connections give up once they see s.shuttingDown.   *)
(***************************************************************************)
EXTENDS EventQ

CONSTANTS
    Requests,          \* the [name, args] a client may send
    MaxPushes,         \* bound on the commands all clients send
    ClientEOF,         \* whether a client may go away without CLOSE
    ConnWriteErrors,   \* whether a write to a connection may fail
    MaxShutdowns,      \* bound on the SHUTDOWN commands clients send
    LateConns          \* connections the accept goroutine has yet to accept

ASSUME Requests \subseteq [name : CmdNames, args : Seq(Nat)]
ASSUME MaxPushes \in Nat /\ ClientEOF \in BOOLEAN /\ ConnWriteErrors \in BOOLEAN
ASSUME MaxShutdowns \in Nat /\ LateConns \subseteq Conns

VARIABLES
    cst,        \* connection goroutine: idle (reading a command), wait, closed
    lastCmd,    \* the command a connection pushed last
    pushes,     \* commands pushed so far
    shutdowns,  \* SHUTDOWN commands pushed so far
    alive,      \* reader channels whose handleSubscriber goroutine runs
    cancelled,  \* whether the connection's context has been cancelled
    shuttingDown, \* s.shuttingDown
    srv,        \* listenAndServe: serving, stopping (took s.stopC), then
                \* shutdown: qstop, conns, notify (sending on s.shutdownC), done
    removed,    \* connections whose socket removeConn has closed
    sconns,     \* s.conns: connections added and not yet removed
    apc,        \* the accept goroutine: top of its loop, in Accept, add, exit
    acur,       \* the connection it has accepted and is adding
    connIn      \* s.connIn: connections waiting for listenAndServe

svars == <<cst, lastCmd, pushes, shutdowns, alive, cancelled, shuttingDown,
          srv, removed, sconns, apc, acur, connIn>>
downvars == <<shuttingDown, srv>>
connvars == <<removed, sconns>>
acceptvars == <<apc, acur, connIn>>
vars == <<qvars, shared, svars>>

Crashed == qpc = "crashed"

-----------------------------------------------------------------------------
(* The accept goroutine checks s.shuttingDown at the top of its loop and  *)
(* breaks, or blocks in s.ln.Accept().                                    *)
AcceptTop ==
    /\ apc = "top"
    /\ apc' = IF shuttingDown THEN "exit" ELSE "accept"
    /\ UNCHANGED <<qvars, shared, cst, lastCmd, pushes, shutdowns, alive,
                   cancelled, downvars, connvars, acur, connIn>>

(* A client connects and Accept returns; accept checks s.shuttingDown     *)
(* again and, if set, closes the new connection and breaks.  (The         *)
(* listener is never closed, so Accept does not fail.)                    *)
Accept(c) ==
    /\ ~Crashed
    /\ apc = "accept"
    /\ cst[c] = "new"
    /\ \/ /\ shuttingDown
          /\ cst' = [cst EXCEPT ![c] = "closed"]
          /\ apc' = "exit"
          /\ UNCHANGED acur
       \/ /\ ~shuttingDown
          /\ cst' = [cst EXCEPT ![c] = "accepted"]
          /\ apc' = "add"
          /\ acur' = c
    /\ UNCHANGED <<qvars, shared, lastCmd, pushes, shutdowns, alive, cancelled,
                   downvars, connvars, connIn>>

(* addConn puts the connection in s.conns under s.connMu, and accept sends *)
(* it on the buffered s.connIn (capacity 1000, never full here).          *)
AddConn ==
    /\ ~Crashed
    /\ apc = "add"
    /\ sconns' = sconns \cup {acur}
    /\ connIn' = Append(connIn, acur)
    /\ apc' = "top"
    /\ UNCHANGED <<qvars, shared, cst, lastCmd, pushes, shutdowns, alive,
                   cancelled, downvars, removed, acur>>

(* listenAndServe's select takes a connection off s.connIn and starts     *)
(* handleConnection on it; once it has taken s.stopC it never does again. *)
ServeConn ==
    /\ ~Crashed
    /\ srv = "serving"
    /\ connIn # <<>>
    /\ cst' = [cst EXCEPT ![Head(connIn)] = "idle"]
    /\ connIn' = Tail(connIn)
    /\ UNCHANGED <<qvars, shared, lastCmd, pushes, shutdowns, alive, cancelled,
                   downvars, connvars, apc, acur>>

-----------------------------------------------------------------------------
(* readCommand then executeCommand's PushCommand.  handleConnection checks *)
(* s.shuttingDown after the read, but without holding s.mu until the push: *)
(* a shutdown that begins in between does not stop the command, which then *)
(* reaches q.in whether or not the loop still runs.  Once removeConn has   *)
(* closed the socket, the read fails.                                      *)
ReadCommand(c, r) ==
    /\ ~Crashed
    /\ cst[c] = "idle"
    /\ c \notin removed
    /\ pushes < MaxPushes
    /\ r.name = "SHUTDOWN" => shutdowns < MaxShutdowns
    /\ PushCommand([name |-> r.name, conn |-> c, args |-> r.args])
    /\ lastCmd' = [lastCmd EXCEPT ![c] = r.name]
    /\ cst' = [cst EXCEPT ![c] = "wait"]
    /\ pushes' = pushes + 1
    /\ shutdowns' = IF r.name = "SHUTDOWN" THEN shutdowns + 1 ELSE shutdowns
    /\ UNCHANGED <<qpc, cur, outbox, currID, log, logHead, writeErrs,
                   subscriptions, resp, shared, alive, cancelled, downvars,
                   connvars, acceptvars>>

(* handleConnection returns: its deferred cancel() cancels the context   *)
(* every handleSubscriber of the connection selects on, then removeConn  *)
(* closes the socket and deletes it from s.conns.                        *)
CloseConn(c) ==
    /\ cst' = [cst EXCEPT ![c] = "closed"]
    /\ cancelled' = [cancelled EXCEPT ![c] = TRUE]
    /\ removed' = removed \cup {c}
    /\ sconns' = sconns \ {c}

(* readCommand fails (client EOF) and handleConnection returns. *)
Disconnect(c) ==
    /\ ~Crashed
    /\ ClientEOF
    /\ cst[c] = "idle"
    /\ CloseConn(c)
    /\ UNCHANGED <<qvars, shared, lastCmd, pushes, shutdowns, alive, downvars,
                   acceptvars>>

(* handleConnection breaks out of its loop on s.shuttingDown: at the top  *)
(* of the loop, or after readCommand returns, which it does when the      *)
(* client sends or shutdown's removeConn closes the socket.               *)
ShutdownSeen(c) ==
    /\ ~Crashed
    /\ cst[c] = "idle"
    /\ shuttingDown
    /\ CloseConn(c)
    /\ UNCHANGED <<qvars, shared, lastCmd, pushes, shutdowns, alive, downvars,
                   acceptvars>>

(* mutant: handleRead forgets cmd.SignalReady() *)
StartSubscriberNoReady(c) ==
    LET ch == Cardinality(DOMAIN chans) + 1 IN
    /\ chans' = (ch :> [conn |-> c, start |-> cur.args[1], limit |-> cur.args[2],
                        from |-> 0, sent |-> <<>>, taken |-> 0, closed |-> FALSE])
               @@ chans
    /\ UNCHANGED ready
    /\ alive' = alive \cup {ch}

(* handleRead: a read that did not fail gets the reader channel            *)
(* executeCommand made for it (resp.ReaderC, which doRead reads after      *)
(* WaitForReady), signals ready and starts handleSubscriber on it.         *)
StartSubscriber(c) ==
    LET ch == Cardinality(DOMAIN chans) + 1 IN
    /\ chans' = (ch :> [conn |-> c, start |-> cur.args[1], limit |-> cur.args[2],
                        from |-> 0, sent |-> <<>>, taken |-> 0, closed |-> FALSE])
               @@ chans
    /\ ready' = [ready EXCEPT ![c] = ch]
    /\ alive' = alive \cup {ch}

(* protocol.Command.IsRead, modelled from handleReplicate's comment: a    *)
(* replication is read like a READ (doRead waits for its SignalReady).    *)
IsRead(n) == n \in {"READ", "REPLICATE"}

(***************************************************************************)
(* The loop body of handleConnection once PushCommand has returned the     *)
(* response.  Once s.shuttingDown is set, executeCommand returns at once   *)
(* and handleConnection breaks.  A SHUTDOWN answered OK goes to            *)
(* handleShutdownRequest: removeConn closes the connection's socket and    *)
(* Stop sends on the unbuffered s.stopC (stopC).                           *)
(* Otherwise executeCommand writes the response, which fails when the      *)
(* client is gone (ConnWriteErrors) and ends the connection; handleClose   *)
(* ends it after CLOSE whatever the status; a read that did not fail goes  *)
(* through handleRead; the connection then reads its next command.         *)
(***************************************************************************)
ExecuteDone(c) ==
    /\ ~Crashed
    /\ cst[c] = "wait"
    /\ resp[c] # NoResp
    /\ resp' = [resp EXCEPT ![c] = NoResp]
    /\ LET subscribe == IsRead(lastCmd[c]) /\ resp[c].status = "OK"
           stop      == lastCmd[c] = "SHUTDOWN" /\ resp[c].status = "OK"
       IN \/ /\ shuttingDown
             /\ CloseConn(c)
             /\ UNCHANGED <<shared, alive, downvars>>
          \/ /\ ~shuttingDown
             /\ stop
             /\ removed' = removed \cup {c}
             /\ sconns' = sconns \ {c}
             /\ cst' = [cst EXCEPT ![c] = "stopC"]
             /\ UNCHANGED <<shared, alive, cancelled, shuttingDown, srv>>
          \/ /\ ~shuttingDown /\ ~stop
             /\ \/ /\ ConnWriteErrors
                   /\ CloseConn(c)
                   /\ UNCHANGED <<shared, alive>>
                \/ /\ lastCmd[c] = "CLOSE"
                   /\ CloseConn(c)
                   /\ UNCHANGED <<shared, alive>>
                \/ /\ lastCmd[c] # "CLOSE"
                   /\ subscribe
                   /\ StartSubscriber(c)
                   /\ cst' = [cst EXCEPT ![c] = "idle"]
                   /\ UNCHANGED <<cancelled, connvars>>
                \/ /\ lastCmd[c] # "CLOSE"
                   /\ ~subscribe
                   /\ cst' = [cst EXCEPT ![c] = "idle"]
                   /\ UNCHANGED <<shared, alive, cancelled, connvars>>
             /\ UNCHANGED downvars
    /\ UNCHANGED <<qin, qpc, cur, outbox, currID, log, logHead, writeErrs,
                   subscriptions, lastCmd, pushes, shutdowns, acceptvars>>

-----------------------------------------------------------------------------
(* Stop's send on s.stopC meets listenAndServe's select, which receives   *)
(* it once and goes into shutdown; Stop then waits on s.shutdownC.        *)
StopSend(c) ==
    /\ ~Crashed
    /\ cst[c] = "stopC"
    /\ srv = "serving"
    /\ srv' = "stopping"
    /\ cst' = [cst EXCEPT ![c] = "stop"]
    /\ UNCHANGED <<qvars, shared, lastCmd, pushes, shutdowns, alive, cancelled,
                   shuttingDown, connvars, acceptvars>>

(* shutdown sets s.shuttingDown under s.mu. *)
BeginShutdown ==
    /\ ~Crashed
    /\ srv = "stopping"
    /\ srv' = "qstop"
    /\ shuttingDown' = TRUE
    /\ UNCHANGED <<qvars, shared, cst, lastCmd, pushes, shutdowns, alive,
                   cancelled, connvars, acceptvars>>

(* shutdown: q.Stop's send on q.close meets the loop in its select, and   *)
(* the loop returns.                                                       *)
StopQueue ==
    /\ ~Crashed
    /\ srv = "qstop"
    /\ qpc = "loop"
    /\ qpc' = "exited"
    /\ srv' = "conns"
    /\ UNCHANGED <<qin, cur, outbox, currID, log, logHead, writeErrs,
                   subscriptions, resp, shared, cst, lastCmd, pushes, shutdowns, alive,
                   cancelled, shuttingDown, connvars, acceptvars>>

(* mutant: q.Stop without its time.After case *)
StopQueueTimeoutNever == FALSE

(* q.Stop's time.After(500ms) fires: shutdown goes on with the loop still *)
(* running.  The timer races the loop, so it may win in any state.        *)
StopQueueTimeout ==
    /\ ~Crashed
    /\ srv = "qstop"
    /\ srv' = "conns"
    /\ UNCHANGED <<qvars, shared, cst, lastCmd, pushes, shutdowns, alive, cancelled,
                   shuttingDown, connvars, acceptvars>>

(* shutdown waits for each connection still in s.conns until it is done   *)
(* or GracefulShutdownTimeout passes, and closes it with removeConn; the  *)
(* deferred send on s.shutdownC then waits for a Stop to take it.        *)
(* Since every wait may time out, the wait is a single step.              *)
ShutdownConns ==
    /\ ~Crashed
    /\ srv = "conns"
    /\ srv' = "notify"
    /\ removed' = removed \cup sconns
    /\ sconns' = {}
    /\ UNCHANGED <<qvars, shared, cst, lastCmd, pushes, shutdowns, alive, cancelled,
                   shuttingDown, acceptvars>>

(* Stop takes the send on s.shutdownC and returns, and listenAndServe     *)
(* returns: handleShutdownRequest reports true, executeCommand returns    *)
(* and handleConnection breaks on s.shuttingDown.                         *)
StopReturned(c) ==
    /\ ~Crashed
    /\ cst[c] = "stop"
    /\ srv = "notify"
    /\ srv' = "done"
    /\ CloseConn(c)
    /\ UNCHANGED <<qvars, shared, lastCmd, pushes, shutdowns, alive,
                   shuttingDown, acceptvars>>

(* handleSubscriber receives a reader and copies it to the connection. *)
SubscriberSend(ch) ==
    /\ ~Crashed
    /\ ch \in alive
    /\ Buffer(ch) # <<>>
    /\ chans' = [chans EXCEPT ![ch].taken = @ + 1]
    /\ UNCHANGED <<qvars, ready, svars>>

(* readPending: how many more readers it takes off channel ch.  It does   *)
(* nothing once s.shuttingDown is set; otherwise it receives without       *)
(* blocking until the channel is empty or a write to the connection fails. *)
ReadPending(ch) ==
    IF shuttingDown THEN {0} ELSE 0 .. Len(Buffer(ch)) - 1

(* sendReader fails on the reader it received: handleSubscriber returns   *)
(* and its deferred readPending drains some of what is still buffered; the *)
(* channel stays open and nothing receives from it again.  The write fails *)
(* when the client is gone (ConnWriteErrors) or removeConn has closed the  *)
(* socket.                                                                 *)
SubscriberWriteError(ch) ==
    /\ ~Crashed
    /\ ConnWriteErrors \/ chans[ch].conn \in removed
    /\ ch \in alive
    /\ Buffer(ch) # <<>>
    /\ \E k \in ReadPending(ch) : chans' = [chans EXCEPT ![ch].taken = @ + 1 + k]
    /\ alive' = alive \ {ch}
    /\ UNCHANGED <<qvars, ready, cst, lastCmd, pushes, shutdowns, cancelled, downvars,
                   connvars, acceptvars>>

(* ctx.Done(): handleSubscriber closes resp.ReaderC and returns.  What    *)
(* its deferred readPending then drains is immaterial: any later send on  *)
(* the closed channel panics whatever is buffered.                        *)
SubscriberDone(ch) ==
    /\ ~Crashed
    /\ ch \in alive
    /\ cancelled[chans[ch].conn]
    /\ chans' = [chans EXCEPT ![ch].closed = TRUE]
    /\ alive' = alive \ {ch}
    /\ UNCHANGED <<qvars, ready, cst, lastCmd, pushes, shutdowns, cancelled, downvars,
                   connvars, acceptvars>>

-----------------------------------------------------------------------------
(* Every client has sent its commands or closed its connection and every  *)
(* answer has been taken, or the server has shut down and only commands  *)
(* nobody will answer are left, or the process has panicked.             *)
Terminated ==
    \/ Crashed
    \/ /\ pushes = MaxPushes \/ \A c \in Conns : cst[c] = "closed"
       /\ qin = <<>>
       /\ qpc = "loop"
       /\ \A c \in Conns : cst[c] # "wait"
       /\ \A ch \in alive : Buffer(ch) = <<>> \/ ~cancelled[chans[ch].conn]
    \/ /\ srv = "done"
       /\ \A c \in Conns : \/ cst[c] \in {"closed", "stopC"}
                           \/ cst[c] = "wait" /\ resp[c] = NoResp

Init ==
    /\ QInit
    /\ chans = <<>>
    /\ ready = [c \in Conns |-> NoChan]
    /\ cst = [c \in Conns |-> IF c \in LateConns THEN "new" ELSE "idle"]
    /\ lastCmd = [c \in Conns |-> "PING"]
    /\ pushes = 0
    /\ shutdowns = 0
    /\ alive = {}
    /\ cancelled = [c \in Conns |-> FALSE]
    /\ shuttingDown = FALSE
    /\ srv = "serving"
    /\ removed = {}
    /\ sconns = Conns \ LateConns
    \* the accept goroutine has passed its first check and waits in Accept
    /\ apc = "accept"
    /\ acur = CHOOSE c \in Conns : TRUE
    /\ connIn = <<>>

Next ==
    \/ ~Crashed /\ QNext /\ UNCHANGED svars
    \/ \E c \in Conns, r \in Requests : ReadCommand(c, r)
    \/ \E c \in Conns : Disconnect(c) \/ ExecuteDone(c) \/ ShutdownSeen(c)
                        \/ StopSend(c) \/ StopReturned(c) \/ Accept(c)
    \/ AcceptTop \/ AddConn \/ ServeConn
    \/ BeginShutdown \/ StopQueue \/ StopQueueTimeout \/ ShutdownConns
    \/ \E ch \in DOMAIN chans :
          SubscriberSend(ch) \/ SubscriberWriteError(ch) \/ SubscriberDone(ch)
    \/ Terminated /\ UNCHANGED vars

(* The event loop, the connection goroutines and the subscriber goroutines *)
(* are runnable goroutines the Go scheduler keeps running; clients are not *)
(* obliged to send anything.  The shutdown goroutine runs, and its timers *)
(* fire; a connection blocked reading sees the shutdown once removeConn    *)
(* has closed its socket.                                                  *)
Fairness ==
    /\ WF_vars(~Crashed /\ QNext /\ UNCHANGED svars)
    /\ \A c \in Conns : WF_vars(ExecuteDone(c))
    /\ \A c \in Conns : WF_vars(StopSend(c)) /\ WF_vars(StopReturned(c))
    /\ WF_vars(BeginShutdown)
    /\ \A c \in Conns : WF_vars(c \in removed /\ ShutdownSeen(c))
    /\ WF_vars(StopQueue \/ StopQueueTimeout)
    /\ WF_vars(ShutdownConns)
    /\ WF_vars(AcceptTop) /\ WF_vars(AddConn) /\ WF_vars(ServeConn)
    /\ \A ch \in 1 .. MaxPushes :
          /\ WF_vars(ch \in DOMAIN chans /\ SubscriberSend(ch))
          /\ WF_vars(ch \in DOMAIN chans /\ SubscriberDone(ch))

Spec == Init /\ [][Next]_vars /\ Fairness

TypeOK ==
    /\ QTypeOK
    /\ cst \in [Conns -> {"new", "accepted", "idle", "wait", "stopC", "stop",
                          "closed"}]
    /\ lastCmd \in [Conns -> CmdNames]
    /\ pushes \in 0 .. MaxPushes
    /\ shutdowns \in 0 .. MaxShutdowns
    /\ alive \subseteq DOMAIN chans
    /\ cancelled \in [Conns -> BOOLEAN]
    /\ shuttingDown \in BOOLEAN
    /\ srv \in {"serving", "stopping", "qstop", "conns", "notify", "done"}
    /\ removed \subseteq Conns
    /\ sconns \subseteq Conns
    /\ apc \in {"top", "accept", "add", "exit"}
    /\ acur \in Conns
    /\ connIn \in Seq(Conns)

-----------------------------------------------------------------------------
(* The message ids carried by what has been sent on channel ch. *)
StreamIds(ch) ==
    LET s == chans[ch].sent IN
    FlattenSeq([i \in 1 .. Len(s) |->
                  IF s[i].kind \in {"data", "msg"} THEN s[i].ids ELSE <<>>])

(* What a tailing read on ch should have been sent (spec section 5): the   *)
(* messages logged before it registered whose id is at least its start,    *)
(* then every message logged since, in log order.                          *)
TailExpected(ch) ==
    SelectSeq(SubSeq(log, 1, chans[ch].from), LAMBDA i : i >= chans[ch].start)
    \o SubSeq(log, chans[ch].from + 1, Len(log))

(* Publishing never sends on a reader channel handleSubscriber has closed: *)
(* the subscription of a connection is gone from q.subscriptions before    *)
(* the connection's context is cancelled, or the Go runtime panics.        *)
NoSendOnClosedChannel == ~Crashed

(* A tailing read (limit 0) whose channel is still the connection's        *)
(* subscription has been sent exactly TailExpected, once the loop is       *)
(* between commands: the range doRead sends and the batches                *)
(* publishMessages sends later join without a gap or an overlap.           *)
TailSeesLog ==
    qpc = "loop" =>
        \A c \in Conns :
            LET ch == subscriptions[c] IN
            (ch # NoChan /\ chans[ch].limit = 0)
                => StreamIds(ch) = TailExpected(ch)

(* The messages in the log have strictly increasing ids: no id is written  *)
(* twice (handleMsg numbers messages from q.currID).                       *)
LogIdsIncrease ==
    \A i \in 1 .. Len(log) - 1 : log[i] < log[i + 1]

(* +EOF ends a read's range: no file chunk follows it on the same reader  *)
(* channel (spec: for read errors the reader stream terminates with +EOF). *)
NoDataAfterEOF ==
    \A ch \in DOMAIN chans : \A i, j \in 1 .. Len(chans[ch].sent) :
        (i < j /\ chans[ch].sent[i].kind = "eof") => chans[ch].sent[j].kind # "data"

(* +EOF is the last thing sent on a reader channel. *)
NothingAfterEOF ==
    \A ch \in DOMAIN chans :
        \A i \in 1 .. Len(chans[ch].sent) - 1 : chans[ch].sent[i].kind # "eof"

(* Every command a connection pushes is eventually answered, unless the   *)
(* server shuts down meanwhile: the loop may then have returned on q.close *)
(* with the command still in q.in.                                         *)
EveryCommandAnswered ==
    \A c \in Conns : cst[c] = "wait" ~> (cst[c] # "wait" \/ shuttingDown)

(* A connection whose SHUTDOWN was answered OK and that called Stop gets  *)
(* Stop's return and closes, whatever the event loop is doing (unless the *)
(* process has panicked): shutdown does not wait for ever on the loop,    *)
(* stuck in WaitForReady for a reader that saw the shutdown, or on        *)
(* another connection.                                                    *)
ShutdownCompletes ==
    \A c \in Conns : cst[c] = "stopC" ~> (cst[c] = "closed" \/ Crashed)

(* Every connection the accept goroutine has taken is eventually handed   *)
(* to handleConnection or has its socket closed: none is left open with   *)
(* nobody serving it when accept's check of s.shuttingDown goes stale     *)
(* before addConn.                                                        *)
AcceptedConnsServed ==
    \A c \in Conns : cst[c] = "accepted" ~> (cst[c] # "accepted" \/ c \in removed)
=============================================================================
