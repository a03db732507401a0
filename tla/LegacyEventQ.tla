---------------------------- MODULE LegacyEventQ ----------------------------
(***************************************************************************)
(* The event queue of src/events.go (package logd, type eventQ), which     *)
(* src/events/events.go supersedes.  One goroutine (loop) selects on the   *)
(* unbuffered channel q.in and on q.close; a client's pushCommand hands    *)
(* its command over on q.in and waits on its response channel.            *)
(* A read gets an unbuffered channel resp.msgC, which a reader goroutine  *)
(* of the connection drains; doRead blocks until the reader takes the     *)
(* range.  handleMsg publishes each batch from one new goroutine per       *)
(* subscription.  Command and Subscription are not under src/ and are     *)
(* modelled from the spec: respond delivers the response without          *)
(* blocking the loop; finish fires the done signal, which ends the reader *)
(* and makes a pending Subscription.send give up.                         *)
(* Message bodies are their length (0 = empty message); the logger keeps  *)
(* the ids it has written.  Seek and scanner errors, which panic, are not *)
(* modelled.                                                               *)
(***************************************************************************)
EXTENDS Naturals, Sequences, SequencesExt, FiniteSets

CONSTANTS
    Conns,            \* connections, each with its response channel
    Requests,         \* the [name, args] a client may push
    MaxPushes,        \* bound on the commands pushed
    MaxWriteErrors,   \* bound on the logger writes that fail
    ShutdownErrors,   \* whether logManager.Shutdown may fail
    NoResp

CmdNames == {"MSG", "REPLICATE", "RAWMSG", "READ", "HEAD", "PING", "CLOSE",
             "SLEEP", "SHUTDOWN", "STATS"}

ASSUME Requests \subseteq [name : CmdNames, args : Seq(Nat)]

VARIABLES
    cpc,            \* client: idle, push (blocked on q.in), wait
    pending,        \* the command a client is pushing or waiting on
    resp,           \* the response on each client's response channel
    qpc,            \* loop: loop, read (blocked on msgC), sleep, exited
    cur,            \* the read doRead is sending: [conn, ch, limit, ids]
    currID,         \* q.currID
    log,            \* ids the logger has written, in order
    writeErrs,
    subscriptions,  \* respC (connection) -> msgC of its tailing read
    chans,          \* msgC channels: [conn, got, done]
    pubs,           \* publishing goroutines: [ch, batch, rest]
    batches,        \* batches published so far
    qclosed,        \* q.close and q.in have been closed
    spc,            \* stop(): idle, done
    crashed,        \* a goroutine panicked (send on a closed channel)
    pushes

vars == <<cpc, pending, resp, qpc, cur, currID, log, writeErrs, subscriptions,
          chans, pubs, batches, qclosed, spc, crashed, pushes>>

NoSub == 0

IdsFrom(first, n) == [i \in 1 .. n |-> first + i - 1]

Respond(c, status, id) ==
    resp' = [resp EXCEPT ![c] = [status |-> status, id |-> id]]

(* The loop's select takes client c's command, named n, off q.in. *)
Received(c, n) ==
    /\ ~crashed
    /\ qpc = "loop"
    /\ cpc[c] = "push"
    /\ pending[c].name = n
    /\ cpc' = [cpc EXCEPT ![c] = "wait"]

(* A handler that only answers. *)
Answer(c, n, status) ==
    /\ Received(c, n)
    /\ Respond(c, status, 0)
    /\ UNCHANGED <<pending, qpc, cur, currID, log, writeErrs, subscriptions,
                   chans, pubs, batches, qclosed, spc, crashed, pushes>>

-----------------------------------------------------------------------------
(* pushCommand: q.in <- cmd.  After a SHUTDOWN closed q.in, the send       *)
(* panics.                                                                *)
pushCommand(c, r) ==
    /\ ~crashed
    /\ cpc[c] = "idle"
    /\ pushes < MaxPushes
    /\ pending' = [pending EXCEPT ![c] = r]
    /\ pushes' = pushes + 1
    /\ \/ /\ ~qclosed
          /\ cpc' = [cpc EXCEPT ![c] = "push"]
          /\ UNCHANGED crashed
       \/ /\ qclosed
          /\ crashed' = TRUE
          /\ UNCHANGED cpc
    /\ UNCHANGED <<resp, qpc, cur, currID, log, writeErrs, subscriptions, chans,
                   pubs, batches, qclosed, spc>>

(* <-cmd.respC: the client takes its response. *)
TakeResponse(c) ==
    /\ ~crashed
    /\ cpc[c] = "wait"
    /\ resp[c] # NoResp
    /\ resp' = [resp EXCEPT ![c] = NoResp]
    /\ cpc' = [cpc EXCEPT ![c] = "idle"]
    /\ UNCHANGED <<pending, qpc, cur, currID, log, writeErrs, subscriptions,
                   chans, pubs, batches, qclosed, spc, crashed, pushes>>

(***************************************************************************)
(* handleMsg: each message is written in turn; an empty one (CLIENT_ERR)   *)
(* or a failed write (ERR) ends the handler with the earlier messages      *)
(* written and q.currID unchanged.  A batch written whole is answered OK   *)
(* and handed to one new goroutine per subscription, which sends its       *)
(* messages in order.                                                      *)
(***************************************************************************)
handleMsg(c) ==
    /\ Received(c, "MSG")
    /\ LET args  == pending[c].args
           n     == Len(args)
           e     == SelectInSeq(args, LAMBDA b : b = 0)
           valid == IF e = 0 THEN n ELSE e - 1
       IN \/ /\ n = 0
             /\ Respond(c, "CLIENT_ERR", 0)
             /\ UNCHANGED <<log, writeErrs, currID, pubs, batches>>
          \/ /\ n > 0
             /\ writeErrs < MaxWriteErrors
             /\ \E f \in 1 .. valid :
                  /\ log' = log \o IdsFrom(currID, f - 1)
                  /\ writeErrs' = writeErrs + 1
                  /\ Respond(c, "ERR", 0)
             /\ UNCHANGED <<currID, pubs, batches>>
          \/ /\ n > 0
             /\ e # 0
             /\ log' = log \o IdsFrom(currID, e - 1)
             /\ Respond(c, "CLIENT_ERR", 0)
             /\ UNCHANGED <<writeErrs, currID, pubs, batches>>
          \/ /\ n > 0
             /\ e = 0
             /\ log' = log \o IdsFrom(currID, n)
             /\ currID' = currID + n
             /\ Respond(c, "OK", currID + n - 1)
             /\ batches' = batches + 1
             /\ pubs' = pubs \cup
                  {[ch |-> subscriptions[s], batch |-> batches + 1,
                    rest |-> IdsFrom(currID, n)] :
                     s \in {s \in Conns : subscriptions[s] # NoSub}}
             /\ UNCHANGED writeErrs
    /\ UNCHANGED <<pending, qpc, cur, subscriptions, chans, qclosed, spc,
                   crashed, pushes>>

(* The end of doRead: a tailing read (limit 0) is subscribed under its    *)
(* response channel, replacing any earlier one; a bounded read is         *)
(* finished, which ends its reader.                                       *)
Subscribed(c, ch, limit) ==
    subscriptions' = IF limit = 0 THEN [subscriptions EXCEPT ![c] = ch]
                     ELSE subscriptions

(***************************************************************************)
(* doRead: answer OK with a fresh msgC (the client starts its reader),    *)
(* scan the log from startID, stopping after limit messages when limit >  *)
(* 0, and, if anything was read, send it all on msgC, which blocks until   *)
(* the reader takes it (qpc = "read"); otherwise go straight to the end.   *)
(***************************************************************************)
doRead(c, start, limit) ==
    LET ch    == Len(chans) + 1
        found == SelectSeq(log, LAMBDA i : i >= start)
        ids   == IF limit > 0 THEN SubSeq(found, 1, Min({limit, Len(found)}))
                 ELSE found
    IN /\ Respond(c, "OK", 0)
       /\ \/ /\ ids # <<>>
             /\ chans' = Append(chans, [conn |-> c, got |-> <<>>, done |-> FALSE])
             /\ cur' = [conn |-> c, ch |-> ch, limit |-> limit, ids |-> ids]
             /\ qpc' = "read"
             /\ UNCHANGED subscriptions
          \/ /\ ids = <<>>
             /\ chans' = Append(chans, [conn |-> c, got |-> <<>>, done |-> limit > 0])
             /\ Subscribed(c, ch, limit)
             /\ UNCHANGED <<cur, qpc>>

(* handleRead: parseRead wants two numbers, a start and a limit. *)
handleRead(c) ==
    /\ Received(c, "READ")
    /\ LET args == pending[c].args IN
       \/ /\ Len(args) # 2
          /\ Respond(c, "CLIENT_ERR", 0)
          /\ UNCHANGED <<qpc, cur, chans, subscriptions>>
       \/ /\ Len(args) = 2
          /\ doRead(c, args[1], args[2])
    /\ UNCHANGED <<pending, currID, log, writeErrs, pubs, batches, qclosed,
                   spc, crashed, pushes>>

(* handleReplicate: one number, the start; then a tailing doRead. *)
handleReplicate(c) ==
    /\ Received(c, "REPLICATE")
    /\ LET args == pending[c].args IN
       \/ /\ Len(args) # 1
          /\ Respond(c, "ERR", 0)
          /\ UNCHANGED <<qpc, cur, chans, subscriptions>>
       \/ /\ Len(args) = 1
          /\ doRead(c, args[1], 0)
    /\ UNCHANGED <<pending, currID, log, writeErrs, pubs, batches, qclosed,
                   spc, crashed, pushes>>

(* The reader takes the range doRead sends on msgC, and doRead ends. *)
ReaderTakesRange ==
    /\ ~crashed
    /\ qpc = "read"
    /\ chans' = [chans EXCEPT ![cur.ch].got = @ \o cur.ids,
                              ![cur.ch].done = cur.limit > 0]
    /\ Subscribed(cur.conn, cur.ch, cur.limit)
    /\ qpc' = "loop"
    /\ UNCHANGED <<cpc, pending, resp, cur, currID, log, writeErrs, pubs,
                   batches, qclosed, spc, crashed, pushes>>

(* A publishing goroutine's Subscription.send: the reader takes the next  *)
(* message, or, once the subscription is finished, the send gives up and *)
(* the goroutine ends.                                                    *)
PublisherSend(p) ==
    /\ ~crashed
    /\ \/ /\ ~chans[p.ch].done
          /\ chans' = [chans EXCEPT ![p.ch].got = Append(@, Head(p.rest))]
          /\ pubs' = (pubs \ {p}) \cup
                     (IF Len(p.rest) > 1 THEN {[p EXCEPT !.rest = Tail(@)]} ELSE {})
       \/ /\ chans[p.ch].done
          /\ pubs' = pubs \ {p}
          /\ UNCHANGED chans
    /\ UNCHANGED <<cpc, pending, resp, qpc, cur, currID, log, writeErrs,
                   subscriptions, batches, qclosed, spc, crashed, pushes>>

(* handleClose: no arguments; the connection's subscription, if any, is  *)
(* finished and deleted.                                                  *)
handleClose(c) ==
    /\ Received(c, "CLOSE")
    /\ \/ /\ pending[c].args # <<>>
          /\ Respond(c, "CLIENT_ERR", 0)
          /\ UNCHANGED <<chans, subscriptions>>
       \/ /\ pending[c].args = <<>>
          /\ chans' = IF subscriptions[c] # NoSub
                      THEN [chans EXCEPT ![subscriptions[c]].done = TRUE]
                      ELSE chans
          /\ subscriptions' = [subscriptions EXCEPT ![c] = NoSub]
          /\ Respond(c, "OK", 0)
    /\ UNCHANGED <<pending, qpc, cur, currID, log, writeErrs, pubs, batches,
                   qclosed, spc, crashed, pushes>>

(* handleHead: no arguments; the logger's head, the last id written. *)
handleHead(c) ==
    /\ Received(c, "HEAD")
    /\ \/ /\ pending[c].args # <<>>
          /\ Respond(c, "CLIENT_ERR", 0)
       \/ /\ pending[c].args = <<>>
          /\ Respond(c, "OK", IF log = <<>> THEN 0 ELSE Last(log))
    /\ UNCHANGED <<pending, qpc, cur, currID, log, writeErrs, subscriptions,
                   chans, pubs, batches, qclosed, spc, crashed, pushes>>

(* handlePing and handleRawMsg answer; an unknown command is ERR. *)
handlePing(c) ==
    \/ /\ pending[c].args # <<>>
       /\ Answer(c, "PING", "CLIENT_ERR")
    \/ /\ pending[c].args = <<>>
       /\ Answer(c, "PING", "OK")

handleRawMsg(c) == Answer(c, "RAWMSG", "OK")

handleDefault(c) == Answer(c, "STATS", "ERR")

(* handleSleep: one number of milliseconds; the loop then waits for the  *)
(* timer (or cmd.wake) and answers OK in WakeUp.                          *)
handleSleep(c) ==
    /\ Received(c, "SLEEP")
    /\ \/ /\ Len(pending[c].args) # 1
          /\ Respond(c, "CLIENT_ERR", 0)
          /\ UNCHANGED <<qpc, cur>>
       \/ /\ Len(pending[c].args) = 1
          /\ qpc' = "sleep"
          /\ cur' = [cur EXCEPT !.conn = c]
          /\ UNCHANGED resp
    /\ UNCHANGED <<pending, currID, log, writeErrs, subscriptions, chans, pubs,
                   batches, qclosed, spc, crashed, pushes>>

WakeUp ==
    /\ ~crashed
    /\ qpc = "sleep"
    /\ Respond(cur.conn, "OK", 0)
    /\ qpc' = "loop"
    /\ UNCHANGED <<cpc, pending, cur, currID, log, writeErrs, subscriptions,
                   chans, pubs, batches, qclosed, spc, crashed, pushes>>

(* SHUTDOWN: handleShutdown calls logManager.Shutdown; on an error the   *)
(* loop answers ERR, otherwise OK and closes q.close and q.in; either    *)
(* way the loop returns.                                                  *)
handleShutdown(c) ==
    /\ Received(c, "SHUTDOWN")
    /\ \/ /\ ShutdownErrors
          /\ Respond(c, "ERR", 0)
          /\ UNCHANGED qclosed
       \/ /\ Respond(c, "OK", 0)
          /\ qclosed' = TRUE
    /\ qpc' = "exited"
    /\ UNCHANGED <<pending, cur, currID, log, writeErrs, subscriptions, chans,
                   pubs, batches, spc, crashed, pushes>>

(* stop(): send on q.close, which the loop's select takes, or give up     *)
(* after 500ms.  Once q.close is closed the send panics.                  *)
stop ==
    /\ ~crashed
    /\ spc = "idle"
    /\ spc' = "done"
    /\ \/ /\ qclosed
          /\ crashed' = TRUE
          /\ UNCHANGED qpc
       \/ /\ ~qclosed
          /\ qpc = "loop"
          /\ qpc' = "exited"
          /\ UNCHANGED crashed
       \/ /\ ~qclosed
          /\ UNCHANGED <<qpc, crashed>>
    /\ UNCHANGED <<cpc, pending, resp, cur, currID, log, writeErrs,
                   subscriptions, chans, pubs, batches, qclosed, pushes>>

-----------------------------------------------------------------------------
(* Every client is idle with its commands pushed, or stuck on a q.in no   *)
(* loop will take again, or a goroutine has panicked.                    *)
Terminated ==
    \/ crashed
    \/ /\ qpc \in {"loop", "exited"}
       /\ pubs = {}
       /\ \A c \in Conns : cpc[c] = "idle" \/ (cpc[c] = "push" /\ qpc = "exited")
       /\ pushes = MaxPushes \/ qpc = "exited"

(* newEventQ and start: q.currID is the logger's head + 1. *)
Init ==
    /\ cpc = [c \in Conns |-> "idle"]
    /\ pending = [c \in Conns |-> [name |-> "PING", args |-> <<>>]]
    /\ resp = [c \in Conns |-> NoResp]
    /\ qpc = "loop"
    /\ cur = [conn |-> CHOOSE c \in Conns : TRUE, ch |-> 0, limit |-> 0, ids |-> <<>>]
    /\ currID = 1
    /\ log = <<>>
    /\ writeErrs = 0
    /\ subscriptions = [c \in Conns |-> NoSub]
    /\ chans = <<>>
    /\ pubs = {}
    /\ batches = 0
    /\ qclosed = FALSE
    /\ spc = "idle"
    /\ crashed = FALSE
    /\ pushes = 0

(* The loop's step for client c's command. *)
Handle(c) ==
    \/ handleMsg(c) \/ handleReplicate(c) \/ handleRawMsg(c) \/ handleRead(c)
    \/ handleHead(c) \/ handlePing(c) \/ handleClose(c) \/ handleSleep(c)
    \/ handleShutdown(c) \/ handleDefault(c)

Next ==
    \/ \E c \in Conns, r \in Requests : pushCommand(c, r)
    \/ \E c \in Conns : TakeResponse(c) \/ Handle(c)
    \/ ReaderTakesRange \/ WakeUp \/ stop
    \/ \E p \in pubs : PublisherSend(p)
    \/ Terminated /\ UNCHANGED vars

(* The loop, the readers, the publishing goroutines and a client waiting *)
(* for its response are runnable goroutines; the timer of a SLEEP fires. *)
Spec ==
    /\ Init /\ [][Next]_vars
    /\ \A c \in Conns : WF_vars(Handle(c)) /\ WF_vars(TakeResponse(c))
    /\ WF_vars(ReaderTakesRange) /\ WF_vars(WakeUp)
    /\ WF_vars(\E p \in pubs : PublisherSend(p))

TypeOK ==
    /\ cpc \in [Conns -> {"idle", "push", "wait"}]
    /\ qpc \in {"loop", "read", "sleep", "exited"}
    /\ currID \in Nat \ {0}
    /\ log \in Seq(Nat \ {0})
    /\ subscriptions \in [Conns -> Nat]
    /\ \A p \in pubs : p.ch \in DOMAIN chans /\ p.rest # <<>>
    /\ spc \in {"idle", "done"}
    /\ crashed \in BOOLEAN

-----------------------------------------------------------------------------
(* A subscriber receives messages in the order they were committed: the  *)
(* ids arriving on a reader channel increase (spec, "Ordering            *)
(* guarantees").  handleMsg starts one goroutine per batch and           *)
(* subscription, and nothing orders two of them.                         *)
SubscriberSeesCommitOrder ==
    \A ch \in DOMAIN chans :
        \A i \in 1 .. Len(chans[ch].got) - 1 :
            chans[ch].got[i] < chans[ch].got[i + 1]
=============================================================================
