------------------------------- MODULE EventQ -------------------------------
(***************************************************************************)
(* The event queue of src/events/events.go (type EventQ).  One goroutine   *)
(* (EventQ.loop) takes commands off the buffered channel q.in and runs     *)
(* their handler to completion; it is the only writer of the logger and of *)
(* the subscription map.  The handlers block in three places, which are    *)
(* the steps of this module:                                               *)
(*   - doRead waits in cmd.WaitForReady() for the connection to signal it  *)
(*     has installed a reader channel (qpc = "ready");                     *)
(*   - every send on a reader channel (sendChunk, SendEOF,                 *)
(*     Subscription.send) blocks while the channel is full; the pending    *)
(*     sends of a handler are kept, in program order, in outbox            *)
(*     (qpc = "send");                                                     *)
(*   - a send on a closed channel panics, which ends the process           *)
(*     (qpc = "crashed").                                                  *)
(* Message bodies are abstracted to their length (0 = empty message),      *)
(* partitions to one log file per Range, and the logger (not under src/)   *)
(* to the sequence of message ids it has written plus the id last passed   *)
(* to SetID, which is what Head reports.                                   *)
(* The connections that push commands, install reader channels and drain   *)
(* them are the environment of this module; Socket.tla composes them.      *)
(***************************************************************************)
EXTENDS Naturals, Sequences, SequencesExt, FiniteSets, TLC

CONSTANTS
    Conns,            \* connection ids (cmd.ConnID)
    InCap,            \* capacity of q.in (1000 in NewEventQ)
    ReaderCap,        \* capacity of a reader channel (1000 in executeCommand)
    MaxWriteErrors,   \* bound on the logger writes that fail
    ShutdownErrors,   \* whether the LogManager's Shutdown may fail
    IterErrors,       \* whether the logger's range iterator may fail
    NoChan,           \* no reader channel
    NoResp            \* nothing on a command's response channel

ASSUME InCap \in Nat \ {0} /\ ReaderCap \in Nat \ {0} /\ MaxWriteErrors \in Nat
ASSUME ShutdownErrors \in BOOLEAN /\ IterErrors \in BOOLEAN

VARIABLES
    qin,            \* q.in: commands pushed and not yet taken by the loop
    qpc,            \* the loop goroutine: loop, ready, send, crashed, exited
    cur,            \* the read doRead is serving: [name, conn, args <<start, limit>>]
    outbox,         \* sends the running handler still has to make, in order
    currID,         \* q.currID: id of the next message
    log,            \* ids of the messages the logger has written, in order
    logHead,        \* id last given to q.log.SetID; q.log.Head() returns it
    writeErrs,      \* logger writes that have failed so far
    subscriptions,  \* q.subscriptions: ConnID -> reader channel of its last read
    resp,           \* the response on each connection's response channel
    chans,          \* reader channels: buffer history, reader, closed flag
    ready           \* the reader channel a connection has signalled ready with

qvars == <<qin, qpc, cur, outbox, currID, log, logHead, writeErrs,
           subscriptions, resp>>
shared == <<chans, ready>>

CmdNames == {"MSG", "REPLICATE", "RAWMSG", "READ", "HEAD", "STATS", "PING",
             "CLOSE", "SLEEP", "SHUTDOWN"}
Cmd == [name : CmdNames, conn : Conns, args : Seq(Nat)]
Item == [kind : {"env", "data", "msg", "eof"}, ids : Seq(Nat)]
Resp == [status : {"OK", "ERR", "CLIENT_ERR"}, id : Nat]
Chan == [conn : Conns, start : Nat, limit : Nat, from : Nat,
         sent : Seq(Item), taken : Nat, closed : BOOLEAN]

(* The items sent on channel ch and not yet received. *)
Buffer(ch) == SubSeq(chans[ch].sent, chans[ch].taken + 1, Len(chans[ch].sent))

SendOf(ch, kind, ids) == [ch |-> ch, item |-> [kind |-> kind, ids |-> ids]]

(* mutant: numbering from q.currID - 1 without the increment *)
IdsFromZeroBased(first, n) == [i \in 1 .. n |-> first + i - 2]

IdsFrom(first, n) == [i \in 1 .. n |-> first + i - 1]

(* cmd.Respond: the caller is blocked on its response channel. *)
Respond(c, status, id) ==
    resp' = [resp EXCEPT ![c] = [status |-> status, id |-> id]]

(* PushCommand's send on the buffered q.in, which blocks while it is full;  *)
(* the caller then waits on the command's response channel.               *)
PushCommand(cmd) ==
    /\ Len(qin) < InCap
    /\ qin' = Append(qin, cmd)

(* The loop's select takes the next command, whose handler is named n. *)
Dequeued(n) ==
    /\ qpc = "loop"
    /\ qin # <<>>
    /\ Head(qin).name = n
    /\ qin' = Tail(qin)

-----------------------------------------------------------------------------
(***************************************************************************)
(* The logger, modelled from the spec: Range(start, end) yields the        *)
(* messages with start <= id <= end (file_logger_test readRange: Range(1,1)*)
(* yields message 1), and fails when no message has id start (seek miss).  *)
(***************************************************************************)
RangeIds(start, end) == SelectSeq(log, LAMBDA i : start <= i /\ i <= end)

RangeFails(start) == \A i \in DOMAIN log : log[i] # start

-----------------------------------------------------------------------------
(* publishMessages: every subscription, in map order, gets every message of *)
(* the batch, one Subscription.send each.                                  *)
(* mutant: publishMessages stops after the first subscription *)
PublishSendsFirstOnly(ids, order) ==
    FlattenSeq([i \in 1 .. Min({1, Len(order)}) |->
                  [j \in 1 .. Len(ids) |->
                     SendOf(subscriptions[order[i]], "msg", <<ids[j]>>)]])

PublishSends(ids, order) ==
    FlattenSeq([i \in 1 .. Len(order) |->
                  [j \in 1 .. Len(ids) |->
                     SendOf(subscriptions[order[i]], "msg", <<ids[j]>>)]])

(***************************************************************************)
(* handleMsg.  The messages are written one at a time; the loop stops at   *)
(* the first empty message (CLIENT_ERR) or at the first failed write       *)
(* (ERR), leaving the messages before it in the log and q.currID as it     *)
(* was.  Only a batch written whole is acknowledged and published.         *)
(***************************************************************************)
handleMsg ==
    /\ Dequeued("MSG")
    /\ LET c     == Head(qin).conn
           args  == Head(qin).args
           n     == Len(args)
           e     == SelectInSeq(args, LAMBDA b : b = 0)
           valid == IF e = 0 THEN n ELSE e - 1
       IN \/ /\ n = 0
             /\ Respond(c, "CLIENT_ERR", 0)
             /\ UNCHANGED <<log, logHead, writeErrs, currID, outbox, qpc>>
          \/ /\ n > 0
             /\ writeErrs < MaxWriteErrors
             /\ \E f \in 1 .. valid :
                  /\ log' = log \o IdsFrom(currID, f - 1)
                  /\ logHead' = currID + f - 1
                  /\ writeErrs' = writeErrs + 1
                  /\ Respond(c, "ERR", 0)
             /\ UNCHANGED <<currID, outbox, qpc>>
          \/ /\ n > 0
             /\ e # 0
             /\ log' = log \o IdsFrom(currID, e - 1)
             /\ logHead' = IF e > 1 THEN currID + e - 2 ELSE logHead
             /\ Respond(c, "CLIENT_ERR", 0)
             /\ UNCHANGED <<writeErrs, currID, outbox, qpc>>
          \/ /\ n > 0
             /\ e = 0
             /\ log' = log \o IdsFrom(currID, n)
             /\ logHead' = currID + n - 1
             /\ currID' = currID + n
             /\ Respond(c, "OK", currID + n - 1)
             /\ \E order \in SetToSeqs({s \in Conns : subscriptions[s] # NoChan}) :
                  outbox' = PublishSends(IdsFrom(currID, n), order)
             /\ qpc' = IF outbox' = <<>> THEN "loop" ELSE "send"
             /\ UNCHANGED writeErrs
    /\ UNCHANGED <<cur, subscriptions, chans, ready>>

(* handleRead: parseRead, then the first half of doRead, which responds OK *)
(* and blocks in cmd.WaitForReady().                                       *)
handleRead ==
    /\ Dequeued("READ")
    /\ LET cmd == Head(qin) IN
       \/ /\ Len(cmd.args) # 2
          /\ Respond(cmd.conn, "CLIENT_ERR", 0)
          /\ UNCHANGED <<qpc, cur>>
       \/ /\ Len(cmd.args) = 2
          /\ Respond(cmd.conn, "OK", 0)
          /\ qpc' = "ready"
          /\ cur' = cmd
    /\ UNCHANGED <<outbox, currID, log, logHead, writeErrs, subscriptions,
                   chans, ready>>

(* handleReplicate: parseReplicate wants one argument, the start id (ERR  *)
(* otherwise); then doRead with limit 0, a read that never ends.          *)
handleReplicate ==
    /\ Dequeued("REPLICATE")
    /\ LET cmd == Head(qin) IN
       \/ /\ Len(cmd.args) # 1
          /\ Respond(cmd.conn, "ERR", 0)
          /\ UNCHANGED <<qpc, cur>>
       \/ /\ Len(cmd.args) = 1
          /\ Respond(cmd.conn, "OK", 0)
          /\ qpc' = "ready"
          /\ cur' = [cmd EXCEPT !.args = <<cmd.args[1], 0>>]
    /\ UNCHANGED <<outbox, currID, log, logHead, writeErrs, subscriptions,
                   chans, ready>>

(***************************************************************************)
(* The rest of doRead, once the connection has signalled ready: end is the *)
(* head for limit 0 and start + limit otherwise; the connection's          *)
(* subscription is replaced by the new reader channel whatever the limit;  *)
(* the range is sent as an envelope and a file reader, or just +EOF when   *)
(* Range fails; a bounded read ends with +EOF.  When the iterator reports  *)
(* an error (IterErrors), the loop sends +EOF and calls cmd.Finish() but   *)
(* does not return: the chunk is still sent, and so is the bounded read's  *)
(* closing +EOF.                                                           *)
(***************************************************************************)
ReadReady ==
    /\ qpc = "ready"
    /\ ready[cur.conn] # NoChan
    /\ LET c     == cur.conn
           ch    == ready[c]
           start == cur.args[1]
           limit == cur.args[2]
           end   == IF limit = 0 THEN logHead ELSE start + limit
           ids   == RangeIds(start, end)
       IN /\ subscriptions' = [subscriptions EXCEPT ![c] = ch]
          /\ ready' = [ready EXCEPT ![c] = NoChan]
          \* history: how much of the log existed when the read registered
          /\ chans' = [chans EXCEPT ![ch].from = Len(log)]
          /\ \/ /\ RangeFails(start)
                /\ outbox' = <<SendOf(ch, "eof", <<>>)>>
             \/ /\ ~RangeFails(start)
                /\ \E iterErr \in IF IterErrors THEN BOOLEAN ELSE {FALSE} :
                     outbox' =
                       (IF iterErr THEN <<SendOf(ch, "eof", <<>>)>> ELSE <<>>)
                       \o <<SendOf(ch, "env", ids), SendOf(ch, "data", ids)>>
                       \o (IF limit # 0 THEN <<SendOf(ch, "eof", <<>>)>> ELSE <<>>)
          /\ qpc' = "send"
    /\ UNCHANGED <<qin, cur, currID, log, logHead, writeErrs, resp>>

(* One blocking send of the running handler.  A send on a closed channel   *)
(* panics; nothing in EventQ.loop recovers it, so the process ends.        *)
SendNext ==
    /\ qpc = "send"
    /\ LET ch == Head(outbox).ch IN
       \/ /\ chans[ch].closed
          /\ qpc' = "crashed"
          /\ UNCHANGED <<outbox, chans>>
       \/ /\ ~chans[ch].closed
          /\ Len(Buffer(ch)) < ReaderCap
          /\ chans' = [chans EXCEPT ![ch].sent = Append(@, Head(outbox).item)]
          /\ outbox' = Tail(outbox)
          /\ qpc' = IF Tail(outbox) = <<>> THEN "loop" ELSE "send"
    /\ UNCHANGED <<qin, cur, currID, log, logHead, writeErrs, subscriptions,
                   resp, ready>>

(* The handlers that only check their arity and answer. *)
NoArgs(n, status, id) ==
    /\ Dequeued(n)
    /\ LET c == Head(qin).conn IN
       \/ /\ Head(qin).args # <<>>
          /\ Respond(c, "CLIENT_ERR", 0)
       \/ /\ Head(qin).args = <<>>
          /\ Respond(c, status, id)
    /\ UNCHANGED <<qpc, cur, outbox, currID, log, logHead, writeErrs,
                   subscriptions, chans, ready>>

handleHead  == NoArgs("HEAD", "OK", logHead)
handleStats == NoArgs("STATS", "OK", 0)
handlePing  == NoArgs("PING", "OK", 0)

(* handleRawMsg answers OK and writes nothing. *)
handleRawMsg ==
    /\ Dequeued("RAWMSG")
    /\ Respond(Head(qin).conn, "OK", 0)
    /\ UNCHANGED <<qpc, cur, outbox, currID, log, logHead, writeErrs,
                   subscriptions, chans, ready>>

(* handleSleep: the loop sleeps (or is woken), then answers OK; its only   *)
(* effect on the queue is that nothing else runs meanwhile.               *)
handleSleep ==
    /\ Dequeued("SLEEP")
    /\ Respond(Head(qin).conn,
               IF Len(Head(qin).args) = 1 THEN "OK" ELSE "CLIENT_ERR", 0)
    /\ UNCHANGED <<qpc, cur, outbox, currID, log, logHead, writeErrs,
                   subscriptions, chans, ready>>

(* The SHUTDOWN case of the loop: HandleShutdown shuts the LogManager      *)
(* down, which may fail (ERR); on success the loop answers OK and, with   *)
(* close(q.close) and close(q.in) commented out, goes on taking commands.  *)
handleShutdown ==
    /\ Dequeued("SHUTDOWN")
    /\ LET c == Head(qin).conn IN
       \/ ShutdownErrors /\ Respond(c, "ERR", 0)
       \/ Respond(c, "OK", 0)
    /\ UNCHANGED <<qpc, cur, outbox, currID, log, logHead, writeErrs,
                   subscriptions, chans, ready>>

(* mutant: removeSubscription signals done but forgets the delete *)
handleCloseKeepsSubscription ==
    /\ Dequeued("CLOSE")
    /\ Respond(Head(qin).conn, IF Head(qin).args = <<>> THEN "OK" ELSE "CLIENT_ERR", 0)
    /\ UNCHANGED <<qpc, cur, outbox, currID, log, logHead, writeErrs,
                   subscriptions, chans, ready>>

(* handleClose: removeSubscription signals the subscription's done channel *)
(* without blocking and deletes the connection's entry.                   *)
handleClose ==
    /\ Dequeued("CLOSE")
    /\ LET c == Head(qin).conn IN
       \/ /\ Head(qin).args # <<>>
          /\ Respond(c, "CLIENT_ERR", 0)
          /\ UNCHANGED subscriptions
       \/ /\ Head(qin).args = <<>>
          /\ subscriptions' = [subscriptions EXCEPT ![c] = NoChan]
          /\ Respond(c, "OK", 0)
    /\ UNCHANGED <<qpc, cur, outbox, currID, log, logHead, writeErrs,
                   chans, ready>>

-----------------------------------------------------------------------------
(* EventQ.Start on an empty log: currID = Head() + 1. *)
QInit ==
    /\ qin = <<>>
    /\ qpc = "loop"
    /\ cur = [name |-> "READ", conn |-> CHOOSE c \in Conns : TRUE, args |-> <<>>]
    /\ outbox = <<>>
    /\ currID = 1
    /\ log = <<>>
    /\ logHead = 0
    /\ writeErrs = 0
    /\ subscriptions = [c \in Conns |-> NoChan]
    /\ resp = [c \in Conns |-> NoResp]

QNext ==
    \/ handleMsg
    \/ handleRead
    \/ handleReplicate
    \/ ReadReady
    \/ SendNext
    \/ handleHead
    \/ handleStats
    \/ handlePing
    \/ handleRawMsg
    \/ handleSleep
    \/ handleClose
    \/ handleShutdown

QTypeOK ==
    /\ qin \in Seq(Cmd) /\ Len(qin) <= InCap
    /\ qpc \in {"loop", "ready", "send", "crashed", "exited"}
    /\ cur \in Cmd
    /\ outbox \in Seq([ch : DOMAIN chans, item : Item])
    /\ currID \in Nat \ {0}
    /\ log \in Seq(Nat \ {0})
    /\ logHead \in Nat
    /\ writeErrs \in 0 .. MaxWriteErrors
    /\ subscriptions \in [Conns -> DOMAIN chans \cup {NoChan}]
    /\ resp \in [Conns -> Resp \cup {NoResp}]
    /\ \A ch \in DOMAIN chans : chans[ch] \in Chan
    /\ ready \in [Conns -> DOMAIN chans \cup {NoChan}]
=============================================================================
