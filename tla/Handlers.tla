------------------------------ MODULE Handlers ------------------------------
(***************************************************************************)
(* The request router of src/unnamed/part_001 (package events, Handlers):  *)
(* one event queue per topic in h.h, created on the first BATCH for the    *)
(* topic, and asyncQ for everything else.  pushBlockingRequest takes h.mu  *)
(* and keeps it (defer h.mu.Unlock()) until the queue's PushRequest has    *)
(* returned the response.                                                  *)
(*                                                                         *)
(* A queue takes requests in order and answers each.  It may stall after   *)
(* answering (MaxStalls): the event queue of src/events/events.go blocks   *)
(* for good in doRead's WaitForReady when the connection never signals     *)
(* ready, and in Subscription.send on a reader channel nobody drains (see  *)
(* Socket.tla, run stuck).  topics.add and eventQ.GoStart are not in src/  *)
(* and may fail (MaxAddErrors, MaxStartErrors).                            *)
(*                                                                         *)
(* Handlers.Stop (if Stopper) stops the servers, so no new request comes,  *)
(* then asyncQ, then each queue of h.h, ranging over the map without       *)
(* h.mu, and then the topic store.  A queue's Stop is EventQ.Stop's: a     *)
(* send on q.close that a running queue takes in its select, or a 500ms    *)
(* timeout; a queue that took it has returned (exited) and answers        *)
(* nothing more.  Stop's deferred send on h.shutdownC (capacity 1) lets a  *)
(* Start waiting on it return.                                             *)
(*                                                                         *)
(* The host has started the router with Start, which waits on h.shutdownC *)
(* after GoStart, or with GoStart alone.  After Stop it may start it again *)
(* (MaxRestarts): GoStart drains h.shutdownC, restarts asyncQ on its old  *)
(* q.in, and makes a new event queue for every topic of h.topics.  A      *)
(* topic queue is identified by its topic and the start that made it, so  *)
(* a queue of an earlier start that Stop timed out on lives on beside the  *)
(* new one, and so do the connections blocked on it.                       *)
(***************************************************************************)
EXTENDS Integers, Sequences, FiniteSets

CONSTANTS
    Conns,            \* connection goroutines calling PushRequest
    Topics,           \* topic names
    MaxRequests,      \* bound on the requests all connections make
    MaxStalls,        \* topic queues that may block for good
    MaxAddErrors,     \* failed topics.add calls
    MaxStartErrors,   \* failed q.GoStart calls
    Stopper,          \* whether Handlers.Stop is called
    MaxRestarts,      \* bound on the GoStart calls after a Stop
    NoConn

Async == "asyncQ"
Queues == Topics \cup {Async}
\* the starts of the router: the first one and each restart
Gens == 0 .. MaxRestarts
\* a queue: asyncQ is made once, in NewHandlers; a topic queue by a start
QIds == {<<Async, 0>>} \cup (Topics \X Gens)
NoQ == -1

\* blockingReqs: BATCH, READ (and TAIL, routed as READ); anything else is async
Blocking == {"BATCH", "READ"}
\* req.Topic() of a request that names no topic
NoTopic == ""
Req == [name : Blocking, topic : Topics \cup {NoTopic}]
       \cup [name : {"PING"}, topic : {NoTopic}]
\* what creq holds while no call is in progress
NoReq == [name |-> "PING", topic |-> NoTopic]

VARIABLES
    cpc,        \* connection: idle, lock (waiting for h.mu), wait (on a queue)
    creq,       \* the request of its PushRequest call in progress
    cq,         \* the queue that call waits on
    mu,         \* the holder of h.mu
    topics,     \* h.topics.m: the topics created
    h,          \* h.h: topic -> the start whose queue it holds, or NoQ
    qin,        \* each queue's requests not yet answered, in push order
    qst,        \* each queue: none (not made yet), run, stalled, exited
    reqs, stalls, addErrs, startErrs,
    spc,        \* Handlers.Stop: idle, async, range, notify, done
    snap,       \* the keys of h.h when Stop's range began
    visited,    \* the topics whose q.Stop has returned
    hpc,        \* the host: go (GoStart returned), wait (in Start), done
    shutdownC,  \* values buffered in h.shutdownC
    gen         \* starts so far after the first

vars == <<cpc, creq, cq, mu, topics, h, qin, qst, reqs, stalls, addErrs,
          startErrs, spc, snap, visited, hpc, shutdownC, gen>>
stopvars == <<spc, snap, visited>>
hostvars == <<hpc, shutdownC, gen>>

(* DOMAIN h.h, and the queue h.h (or h.asyncQ) holds for q. *)
HasQ == {t \in Topics : h[t] # NoQ}
Q(t) == IF t = Async THEN <<Async, 0>> ELSE <<t, h[t]>>

-----------------------------------------------------------------------------
(* q.PushRequest: send on queue q's q.in and wait for the response. *)
PushTo(c, q) ==
    /\ qin' = [qin EXCEPT ![q] = Append(@, c)]
    /\ cpc' = [cpc EXCEPT ![c] = "wait"]
    /\ cq' = [cq EXCEPT ![c] = q]

(* mutant: PushRequest takes h.mu for the requests that are not blocking *)
PushRequestAsyncLocked(c, r) ==
    /\ cpc[c] = "idle"
    /\ spc = "idle"
    /\ reqs < MaxRequests
    /\ creq' = [creq EXCEPT ![c] = r]
    /\ reqs' = reqs + 1
    /\ \/ /\ r.name \in Blocking /\ r.topic = NoTopic
          /\ PushTo(c, Q(Async))
       \/ /\ r.name \notin Blocking \/ r.topic # NoTopic
          /\ cpc' = [cpc EXCEPT ![c] = "lock"]
          /\ UNCHANGED <<qin, cq>>
    /\ UNCHANGED <<mu, topics, h, qst, stalls, addErrs, startErrs, stopvars,
                   hostvars>>

(* PushRequest: requests that are not blocking go to asyncQ without the    *)
(* lock, and so do blocking ones without a topic (pushBlockingRequest's    *)
(* first return); other blocking ones wait for h.mu.  Requests come from   *)
(* the servers' connections, so only while the servers serve.             *)
PushRequest(c, r) ==
    /\ cpc[c] = "idle"
    /\ spc = "idle"
    /\ reqs < MaxRequests
    /\ creq' = [creq EXCEPT ![c] = r]
    /\ reqs' = reqs + 1
    /\ \/ /\ r.name \notin Blocking \/ r.topic = NoTopic
          /\ PushTo(c, Q(Async))
       \/ /\ r.name \in Blocking
          /\ r.topic # NoTopic
          /\ cpc' = [cpc EXCEPT ![c] = "lock"]
          /\ UNCHANGED <<qin, cq>>
    /\ UNCHANGED <<mu, topics, h, qst, stalls, addErrs, startErrs, stopvars,
                   hostvars>>

(* Under h.mu, q.PushRequest: the lock stays held while c waits. *)
LockedPush(c, q) == PushTo(c, q) /\ mu' = c

(* mutant: the error returns forget to unlock h.mu *)
ReturnErrLocked(c) ==
    /\ cpc' = [cpc EXCEPT ![c] = "idle"]
    /\ creq' = [creq EXCEPT ![c] = NoReq]
    /\ mu' = c
    /\ UNCHANGED <<qin, cq>>

(* A return from pushBlockingRequest with an error: the deferred unlock   *)
(* releases h.mu in the same step that took it.                          *)
ReturnErr(c) ==
    /\ cpc' = [cpc EXCEPT ![c] = "idle"]
    /\ creq' = [creq EXCEPT ![c] = NoReq]
    /\ UNCHANGED <<qin, cq, mu>>

(* mutant: the new queue is numbered after the next start *)
NewQueueNextGen(t) == <<t, gen + 1>>

(* The new queue of topic t, made by newEventQ and started by GoStart. *)
NewQueue(t) == <<t, gen>>

(* mutant: h.h[name] is set before topics.add is known to succeed *)
CreateTopicStoredFirst(c, t) ==
    \/ /\ addErrs < MaxAddErrors
       /\ addErrs' = addErrs + 1
       /\ h' = [h EXCEPT ![t] = gen]
       /\ ReturnErr(c)
       /\ UNCHANGED <<topics, qst, startErrs>>
    \/ /\ topics' = topics \cup {t}
       /\ h' = [h EXCEPT ![t] = gen]
       /\ qst' = [qst EXCEPT ![NewQueue(t)] = "run"]
       /\ LockedPush(c, NewQueue(t))
       /\ UNCHANGED <<creq, addErrs, startErrs>>

(* mutant: the new queue is started but not stored in h.h *)
CreateTopicUnstored(c, t) ==
    \/ /\ addErrs < MaxAddErrors
       /\ addErrs' = addErrs + 1
       /\ ReturnErr(c)
       /\ UNCHANGED <<topics, h, qst, startErrs>>
    \/ /\ topics' = topics \cup {t}
       /\ \/ /\ startErrs < MaxStartErrors
             /\ startErrs' = startErrs + 1
             /\ ReturnErr(c)
             /\ UNCHANGED qst
          \/ /\ qst' = [qst EXCEPT ![NewQueue(t)] = "run"]
             /\ LockedPush(c, NewQueue(t))
             /\ UNCHANGED <<creq, startErrs>>
       /\ UNCHANGED <<h, addErrs>>

(***************************************************************************)
(* The first BATCH for topic t: topics.add(name), which may fail and       *)
(* return; q.GoStart(), which may fail and return with the topic already  *)
(* added; h.h[name] = q; q.PushRequest.  All of it under h.mu.             *)
(***************************************************************************)
CreateTopic(c, t) ==
    \/ /\ addErrs < MaxAddErrors
       /\ addErrs' = addErrs + 1
       /\ ReturnErr(c)
       /\ UNCHANGED <<topics, h, qst, startErrs>>
    \/ /\ topics' = topics \cup {t}
       /\ \/ /\ startErrs < MaxStartErrors
             /\ startErrs' = startErrs + 1
             /\ ReturnErr(c)
             /\ UNCHANGED <<h, qst>>
          \/ /\ h' = [h EXCEPT ![t] = gen]
             /\ qst' = [qst EXCEPT ![NewQueue(t)] = "run"]
             /\ LockedPush(c, NewQueue(t))
             /\ UNCHANGED <<creq, startErrs>>
       /\ UNCHANGED addErrs

(***************************************************************************)
(* pushBlockingRequest once h.mu is acquired: a topic with a queue gets    *)
(* the request; an unknown topic is created by a BATCH; any other request *)
(* for an unknown topic goes to asyncQ, still under the lock.  The lock is *)
(* released only when the push returns (Serve) or on an error return.     *)
(***************************************************************************)
pushBlockingRequest(c) ==
    /\ cpc[c] = "lock"
    /\ mu = NoConn
    /\ LET t == creq[c].topic IN
       \/ /\ t \in HasQ
          /\ LockedPush(c, Q(t))
          /\ UNCHANGED <<creq, topics, h, qst, addErrs, startErrs>>
       \/ /\ t \notin HasQ
          /\ creq[c].name = "BATCH"
          /\ CreateTopic(c, t)
       \/ /\ t \notin HasQ
          /\ creq[c].name # "BATCH"
          /\ LockedPush(c, Q(Async))
          /\ UNCHANGED <<creq, topics, h, qst, addErrs, startErrs>>
    /\ UNCHANGED <<reqs, stalls, stopvars, hostvars>>

(* A queue answers the request at its head; the PushRequest waiting for it *)
(* returns, and pushBlockingRequest's deferred unlock releases h.mu.  The  *)
(* queue may then block for good in what the handler does after it has    *)
(* responded.                                                              *)
Serve(q) ==
    /\ qst[q] = "run"
    /\ qin[q] # <<>>
    /\ LET c == Head(qin[q]) IN
       /\ qin' = [qin EXCEPT ![q] = Tail(@)]
       /\ cpc' = [cpc EXCEPT ![c] = "idle"]
       /\ creq' = [creq EXCEPT ![c] = NoReq]
       /\ cq' = [cq EXCEPT ![c] = <<Async, 0>>]
       /\ mu' = IF mu = c THEN NoConn ELSE mu
    /\ \/ UNCHANGED <<qst, stalls>>
       \/ /\ q # Q(Async)
          /\ stalls < MaxStalls
          /\ qst' = [qst EXCEPT ![q] = "stalled"]
          /\ stalls' = stalls + 1
    /\ UNCHANGED <<topics, h, reqs, addErrs, startErrs, stopvars, hostvars>>

-----------------------------------------------------------------------------
(* mutant: q.Stop without its time.After case *)
QueueStopNoTimeout(q) ==
    /\ qst[q] = "run"
    /\ qst' = [qst EXCEPT ![q] = "exited"]

(* q.Stop: a running queue takes the send on q.close in its select and    *)
(* returns; otherwise, or if the timer wins the race, Stop gives up after *)
(* 500ms and the queue goes on as it was.                                  *)
QueueStop(q) ==
    \/ /\ qst[q] = "run"
       /\ qst' = [qst EXCEPT ![q] = "exited"]
    \/ UNCHANGED qst

(* Handlers.Stop is called; each server's Stop returns once the server has *)
(* shut down, and no connection pushes a new request after that.           *)
StopServers ==
    /\ Stopper
    /\ spc = "idle"
    /\ spc' = "async"
    /\ UNCHANGED <<cpc, creq, cq, mu, topics, h, qin, qst, reqs, stalls,
                   addErrs, startErrs, snap, visited, hostvars>>

(* h.asyncQ.Stop(); the range over h.h then begins. *)
StopAsync ==
    /\ spc = "async"
    /\ QueueStop(Q(Async))
    /\ spc' = "range"
    /\ snap' = HasQ
    /\ UNCHANGED <<cpc, creq, cq, mu, topics, h, qin, reqs, stalls, addErrs,
                   startErrs, visited, hostvars>>

(* One iteration of the range over h.h, which does not hold h.mu: the keys *)
(* present when it began are each visited once, and a key a concurrent   *)
(* pushBlockingRequest inserts meanwhile may or may not be.               *)
StopTopic(t) ==
    /\ spc = "range"
    /\ t \in HasQ \ visited
    /\ QueueStop(Q(t))
    /\ visited' = visited \cup {t}
    /\ UNCHANGED <<cpc, creq, cq, mu, topics, h, qin, reqs, stalls, addErrs,
                   startErrs, spc, snap, hostvars>>

(* The range ends and h.topics.Shutdown() closes the store. *)
StopStore ==
    /\ spc = "range"
    /\ snap \subseteq visited
    /\ spc' = "notify"
    /\ UNCHANGED <<cpc, creq, cq, mu, topics, h, qin, qst, reqs, stalls,
                   addErrs, startErrs, snap, visited, hostvars>>

(* Stop's deferred h.shutdownC <- nil, which blocks while the buffer of  *)
(* one is full; then Stop returns.                                        *)
StopNotify ==
    /\ spc = "notify"
    /\ shutdownC < 1
    /\ shutdownC' = shutdownC + 1
    /\ spc' = "done"
    /\ UNCHANGED <<cpc, creq, cq, mu, topics, h, qin, qst, reqs, stalls,
                   addErrs, startErrs, snap, visited, hpc, gen>>

(* Start, after GoStart, receives from h.shutdownC and returns. *)
StartReturn ==
    /\ hpc = "wait"
    /\ shutdownC > 0
    /\ shutdownC' = shutdownC - 1
    /\ hpc' = "done"
    /\ UNCHANGED <<cpc, creq, cq, mu, topics, h, qin, qst, reqs, stalls,
                   addErrs, startErrs, stopvars, gen>>

(* mutant: GoStart without drainShutdownC *)
DrainedNot == shutdownC

(* drainShutdownC: receive from h.shutdownC until it is empty. *)
Drained == 0

(* asyncQ.GoStart, then the topics of done each get a new queue of start  *)
(* g, started and stored in h.h.                                          *)
StartQueues(done, g) ==
    /\ h' = [t \in Topics |-> IF t \in done THEN g ELSE h[t]]
    /\ qst' = [q \in QIds |-> IF q = Q(Async) \/ (q[1] \in done /\ q[2] = g)
                              THEN "run" ELSE qst[q]]

(***************************************************************************)
(* GoStart after Stop has returned, by the host (Start, or GoStart alone): *)
(* drainShutdownC; asyncQ.GoStart on asyncQ's old q.in; then, in map      *)
(* order, a new queue for each topic of h.topics; then the servers serve  *)
(* again.  A GoStart that fails returns at once: in asyncQ.GoStart, or in *)
(* the GoStart of one topic's queue, when the topics ranged over before   *)
(* have their new queue and the others keep the stopped one; the servers  *)
(* stay down.  Start returns GoStart's error; otherwise it waits on        *)
(* h.shutdownC.                                                            *)
(***************************************************************************)
GoStart ==
    /\ spc = "done"
    /\ hpc # "wait"
    /\ gen < MaxRestarts
    /\ gen' = gen + 1
    /\ shutdownC' = Drained
    /\ \/ /\ startErrs < MaxStartErrors
          /\ startErrs' = startErrs + 1
          /\ hpc' = "done"
          /\ \/ UNCHANGED <<h, qst>>
             \/ \E done \in SUBSET topics, failed \in topics :
                  /\ failed \notin done
                  /\ StartQueues(done, gen + 1)
          /\ UNCHANGED spc
       \/ /\ StartQueues(topics, gen + 1)
          /\ hpc' \in {"go", "wait"}
          /\ spc' = "idle"
          /\ UNCHANGED startErrs
    /\ snap' = {}
    /\ visited' = {}
    /\ UNCHANGED <<cpc, creq, cq, mu, topics, qin, reqs, stalls, addErrs>>

(* Every request made has been answered. *)
Quiet ==
    /\ reqs = MaxRequests
    /\ \A c \in Conns : cpc[c] = "idle"

(* NewHandlers, Register and a first GoStart on an empty topic store; the *)
(* host goes on (a later start may be by Start).                          *)
Init ==
    /\ cpc = [c \in Conns |-> "idle"]
    /\ creq = [c \in Conns |-> NoReq]
    /\ cq = [c \in Conns |-> <<Async, 0>>]
    /\ mu = NoConn
    /\ topics = {}
    /\ h = [t \in Topics |-> NoQ]
    /\ qin = [q \in QIds |-> <<>>]
    /\ qst = [q \in QIds |-> IF q = <<Async, 0>> THEN "run" ELSE "none"]
    /\ reqs = 0 /\ stalls = 0 /\ addErrs = 0 /\ startErrs = 0
    /\ spc = "idle"
    /\ snap = {}
    /\ visited = {}
    /\ hpc = "go"
    /\ shutdownC = 0
    /\ gen = 0

Next ==
    \/ \E c \in Conns, r \in Req : PushRequest(c, r)
    \/ \E c \in Conns : pushBlockingRequest(c)
    \/ \E q \in QIds : Serve(q)
    \/ StopServers \/ StopAsync \/ StopStore \/ StopNotify
    \/ \E t \in Topics : StopTopic(t)
    \/ StartReturn \/ GoStart
    \/ Quiet /\ UNCHANGED vars

(* Queue goroutines run when they have work.  A goroutine blocked in       *)
(* h.mu.Lock() gets the mutex if it is released often enough: sync.Mutex   *)
(* hands it to a waiter that has waited over 1ms (starvation mode), hence  *)
(* strong fairness.  Connections are not obliged to send requests, nor is *)
(* anyone to call Stop or to start the router again; once Stop is called, *)
(* its goroutine runs and its timers fire, and a Start waiting on          *)
(* h.shutdownC is a runnable goroutine once a value is there.             *)
Fairness ==
    /\ \A q \in QIds : WF_vars(Serve(q))
    /\ \A c \in Conns : SF_vars(pushBlockingRequest(c))
    /\ WF_vars(StopAsync)
    /\ WF_vars(\E t \in Topics : StopTopic(t))
    /\ WF_vars(StopStore)
    /\ WF_vars(StopNotify)
    /\ WF_vars(StartReturn)

Spec == Init /\ [][Next]_vars /\ Fairness

TypeOK ==
    /\ cpc \in [Conns -> {"idle", "lock", "wait"}]
    /\ creq \in [Conns -> Req]
    /\ cq \in [Conns -> QIds]
    /\ mu \in Conns \cup {NoConn}
    /\ topics \subseteq Topics
    /\ h \in [Topics -> Gens \cup {NoQ}]
    /\ HasQ \subseteq topics
    /\ qin \in [QIds -> Seq(Conns)]
    /\ qst \in [QIds -> {"none", "run", "stalled", "exited"}]
    /\ reqs \in 0 .. MaxRequests
    /\ stalls \in 0 .. MaxStalls
    /\ addErrs \in 0 .. MaxAddErrors
    /\ startErrs \in 0 .. MaxStartErrors
    /\ spc \in {"idle", "async", "range", "notify", "done"}
    /\ snap \subseteq HasQ
    /\ visited \subseteq HasQ
    /\ hpc \in {"go", "wait", "done"}
    /\ shutdownC \in 0 .. 1
    /\ gen \in Gens

-----------------------------------------------------------------------------
(* A READ of a topic that has been created is pushed to that topic's       *)
(* queue, not to asyncQ (which answers it as an unknown topic):            *)
(* pushBlockingRequest finds every created topic in h.h.                   *)
ReadsReachTheirTopic ==
    \A c \in Conns :
        (cpc[c] = "wait" /\ creq[c].name = "READ" /\ creq[c].topic \in topics)
            => cq[c][1] = creq[c].topic

(* A request that is not blocking (PING, STATS) is eventually answered,   *)
(* whatever the topic queues do, unless Stop has stopped asyncQ with the  *)
(* request still in its q.in: it never waits for h.mu.                  *)
AsyncProceeds ==
    \A c \in Conns :
        (cpc[c] # "idle" /\ creq[c].name \notin Blocking)
            ~> (cpc[c] = "idle" \/ qst[Q(Async)] = "exited")

(* Every call of Handlers.Stop returns, whatever the queues do and however *)
(* often the router has been started again: a queue that stalled for good  *)
(* in a handler does not hold it up, nor does the value an earlier Stop    *)
(* left in h.shutdownC when nobody waited in Start.                       *)
StopReturns ==
    spc # "idle" ~> spc = "done"

(* When Stop returns, every topic queue in h.h has been sent its Stop.    *)
StopStopsEveryQueue ==
    spc = "done" => HasQ \subseteq visited

(* The state of topic t's queue; a request without a topic has none. *)
QueueOf(t) == IF t \in HasQ THEN qst[Q(t)] ELSE "none"

(* A blocking request is eventually answered unless its own topic's queue  *)
(* has stalled: a stalled queue of one topic never holds up another.       *)
OtherTopicsProceed ==
    \A c \in Conns :
        cpc[c] = "lock"
            ~> (cpc[c] = "idle" \/ QueueOf(creq[c].topic) = "stalled")
=============================================================================
