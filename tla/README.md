# TLA+ models of logd

logd is a log server. Clients connect over TCP and send line commands
(`MSG`, `READ`, `HEAD`, `CLOSE`, ...). The server appends messages to a
partitioned log on disk and streams log ranges, and the messages appended
later, to readers. This directory holds TLA+ models of the concurrent core of
the server, the TLC configurations that check them, and `PROJECT.json`. That
file lists the components, the runs, the mutants, the map from every
definition to the Go lines it models, the findings and the hazards.

## The system's parts

| part | source | what it does | model |
|---|---|---|---|
| event queue | `src/events/events.go` | One goroutine (`loop`) takes commands from the channel `q.in` and runs one handler at a time. `handleMsg` writes a batch to the log and publishes it to every subscription. `doRead` streams a range and subscribes the reader. `handleClose` removes the subscription. | `EventQ.tla` |
| socket server | `src/server/socket.go` | An `accept` goroutine accepts connections, adds them to `s.conns` and hands them to `listenAndServe` on `s.connIn`, which starts one goroutine per connection (`handleConnection`): read a command, push it (`executeCommand`), write the response. A read also gets a fresh `ReaderC` channel, signals ready and starts `handleSubscriber`, which copies readers from `ReaderC` to the connection until the connection's context ends, and then closes `ReaderC`. | `Socket.tla` (extends `EventQ`) |
| partition logger | `file_logger.go` (not in `src/`) | `SetID`, `Write`, `Range(start, end)`, `Head` | operators `RangeIds`, `RangeFails` in `EventQ.tla`, from the spec and `src/file_logger_test.go` |
| topic handlers | `src/unnamed/part_001` | `Handlers` routes each request: a blocking one (BATCH, READ) for a topic goes to that topic's event queue, found or created in `h.h` under `h.mu`; anything else goes to `asyncQ`. `Stop` stops the servers, `asyncQ`, each topic queue and the store, and signals `h.shutdownC`; `GoStart` (re)starts the queues and `Start` waits for that signal | `Handlers.tla` |
| legacy event queue | `src/events.go` lines 1-349 | the older single-package queue, superseded per the spec: an unbuffered `q.in`, reads sent on an unbuffered channel, and one goroutine per subscription for each published batch | `LegacyEventQ.tla` |
| client writer | `src/client/writer.go`, with `Client.Batch`/`send` from `src/events.go` lines 350-595 | batches writes and flushes them from a goroutine | `Writer.tla` |
| protocol scanner | `src/protocol/scanner.go` | parses a stream of chunks: an envelope `+<N>`, N bytes of message lines, and `+EOF` at the end | `Scanner.tla`, which refines `MessageStream.tla` |

The event queue and the connections interact through three kinds of
channel:

- `q.in` carries commands. It has capacity `InCap`, and a connection blocks when it is full.
- Each command has a response channel.
- Each read has a reader channel (`ReaderC`), with a buffer of `ReaderCap`; the code uses 1000.

They also interact through the `WaitForReady`/`SignalReady` handshake of a read.

Shutdown involves three goroutines. A connection whose `SHUTDOWN` the
queue answered OK calls `Socket.Stop`, which hands over on `s.stopC` to the
`listenAndServe` goroutine. That goroutine runs `shutdown`:

- it sets `s.shuttingDown`;
- it stops the queue with `EventQ.Stop`, a send on `q.close` that gives up after 500ms;
- it waits for each connection, with a timeout, and closes it;
- it lets `Stop` return on `s.shutdownC`.

Connections check `s.shuttingDown` between steps and break out.

## Modules

**EventQ.tla**: the event loop.

- Its state:
  - `qin`: the command channel;
  - `currID`: the next id;
  - `log`: the ids written, in order;
  - `logHead`: the logger's head, the last `SetID`;
  - `subscriptions`: connection → reader channel, keyed as the map is;
  - `resp`: the response each connection is waiting for.
- Control inside one handler is a program counter `qpc`:
  - `loop`: in `select`;
  - `ready`: `doRead` is blocked in `WaitForReady`;
  - `send`: a handler is blocked sending its next item;
  - `crashed`: it sent on a closed channel, which panics.
- The sends a handler still has to do are `outbox`, in program order.
- A reader channel is a record in `chans`. It keeps the whole history of what was sent (`sent`), how much was received (`taken`) and whether it is closed. Its buffer is `Buffer(ch)`.
- Each handler is one action and models the whole handler, with its early returns:
  - `handleMsg`: four outcomes. No arguments; a failed write at message f; an empty message at position e; and success, which publishes in every map order (`SetToSeqs`).
  - `handleRead` and `ReadReady`: `doRead` split at `WaitForReady`. When `Range` succeeds, the iterator may still fail (`IterErrors`): the loop sends `+EOF`, does not return, and sends the chunk (and a bounded read's own `+EOF`) after it.
  - `handleReplicate`: one argument, then `doRead` with limit 0; ERR otherwise.
  - `handleShutdown`: `HandleShutdown` may fail (ERR, if `ShutdownErrors`); on success the loop answers OK and keeps going, because the two `close` calls are commented out.
  - `SendNext`: one blocking send.
  - `handleHead`, `handleStats`, `handlePing`, `handleRawMsg`, `handleSleep`, `handleClose`.
- `PushCommand` is the connection's send on `q.in`, which blocks while it is full. This is `PushCommand` of `src/events/events.go:375-384`, which takes no context and cannot fail. `src/server/socket.go:357-368` is from another version: it passes a `ServerTimeout` context to `PushCommand` and closes the connection on its error. Against that version a connection stranded by the stuck finding would time out instead of waiting for ever. It would still never be answered.
- Message bodies are abstracted to their length; an arg `0` is the empty message.

**Socket.tla**: the connections and subscribers, composed with the queue.

- Its state:
  - `cst[c]`: new (not yet connected), accepted (waiting in `s.connIn`), idle (reading a command), wait (blocked on the response), stopC/stop (in `Stop`) or closed;
  - `sconns`: `s.conns`; `removed`: the connections whose socket `removeConn` has closed;
  - `apc`, `acur`, `connIn`: the accept goroutine and the channel to `listenAndServe`;
  - `lastCmd`;
  - `alive`: the reader channels whose `handleSubscriber` runs;
  - `cancelled[c]`: the connection's context;
  - `pushes`: a bound on the commands clients send.
- The actions:
  - `AcceptTop`, `Accept(c)`, `AddConn`: the accept loop. It checks `s.shuttingDown` before `Accept` and again after it (closing the new connection if set), then `addConn` and the send on `s.connIn` follow without the lock. `LateConns` are the connections that connect while the server runs; the others are served from the start.
  - `ServeConn`: `listenAndServe` takes a connection off `s.connIn` and starts `handleConnection`, until it has taken `s.stopC`.
  - `ReadCommand`: read a command and push it. The check of `s.shuttingDown` after the read does not hold the lock until the push, so a command can still reach `q.in` once shutdown has begun.
  - `ExecuteDone`: the rest of the connection loop once the response arrived.
    - The response write may fail (`ConnWriteErrors`).
    - `handleClose` ends the connection on any `CLOSE`.
    - `handleRead` starts a subscriber. `IsRead` (of `protocol.Command`, not in `src/`) is taken to hold for READ and REPLICATE, since `handleReplicate` waits for the same `SignalReady`.
    - Once `s.shuttingDown` is set, the connection breaks at once.
    - A SHUTDOWN answered OK runs `handleShutdownRequest`: `removeConn` closes the socket, and `Stop` sends on the unbuffered `s.stopC` (`cst = "stopC"`).
  - `Disconnect`: read EOF (`ClientEOF`).
  - `SubscriberSend`: receive and copy one reader.
  - `SubscriberWriteError`: `sendReader` fails, then the deferred `readPending` (`ReadPending`) drains some of the buffer, or nothing once `s.shuttingDown` is set.
  - `SubscriberDone`: `ctx.Done`, which closes `ReaderC`.
  - `ShutdownSeen`: an idle connection sees `s.shuttingDown` and breaks.
  - `StopSend`: `listenAndServe` receives on `s.stopC`. It does so once, and then runs `shutdown` (`srv`); the connection waits on `s.shutdownC` (`stop`).
  - `BeginShutdown`: `shutdown` sets `s.shuttingDown`.
  - `StopQueue`: `EventQ.Stop`'s send on `q.close` meets the loop in its `select`, and the loop returns (`qpc = "exited"`).
  - `StopQueueTimeout`: the 500ms `time.After` wins. This may happen in any state, because the timer races the loop.
  - `ShutdownConns`: the wait for the connections in `s.conns`, each of which may time out, is one step. Then `removeConn` closes their sockets, so a subscriber's next write fails. A connection's own `removeConn`, when `handleConnection` returns, closes its socket too (`CloseConn`).
  - `StopReturned`: `Stop` takes the send on `s.shutdownC` and returns, and the connection closes.
- `MaxShutdowns` bounds the SHUTDOWN commands clients send.

`MCSocket.tla` gives the constants: two connections and small request sets.

- `ValidRequests` holds well-formed MSG, READ and CLOSE.
- `AllRequests` holds every command kind but SHUTDOWN, malformed ones included.
- `ShutdownRequests` holds SHUTDOWN, a tailing READ and a MSG. The shutdown run makes `c2` a late connection (`LateC2`).
- Three further sets each exercise one finding or hazard.

**Writer.tla**: the client writer.

- Writer goroutines call `Write` and `Flush`.
- One flusher goroutine (`start`) selects on `flushSyncC`, the `WaitInterval` timer and `stopC`. It flushes under `w.mu` (`flushPending`).
- A writer goroutine's position is `wpc`:
  - idle;
  - `signal`: sending on `flushSyncC` after dropping the lock;
  - `await`: waiting on `readySyncC`;
  - `relock`: about to retake `w.mu`.
- A critical section that does not block is one step.
- `leaked`: `Write` returns the error of its flush with `w.mu` still locked, because its deferred `Unlock` is set only after the check (writer.go:89-93). From then on every step that locks `w.mu` is disabled (`muFree`): `flushPending` in the flusher and in `Reset`, `Reset`'s own section, and `Write`. A `Write` that would block in its first `Lock` is not begun; a `Flush` still hands its request to the flusher and then waits for good.
- `Client.Batch` either succeeds, appending the batch to `delivered`, or fails. It always fails once `Close` has closed the connection.
- `Reset` is two steps, `ResetStop` and `ResetRestart`, because other goroutines can run between `stop()` and its locked section.
- History variable: `acked` is the set of messages whose `Write` returned success.

**Scanner.tla** and **MessageStream.tla**: the protocol scanner.

- A stream is a sequence of abstract lines: an envelope with its length, `+EOF`, an envelope whose length does not parse, or a message line with its length and whether it parses.
- `MessageStream` is what a reader of such a stream promises, from the spec's response grammar. The recursive operator `Frame` decodes a stream: whether it is framed, and which messages a streaming reader may hand out.
  - Its actions: `Deliver` the next message; `End` once a framed stream is out; `Fail` once a malformed one is; `Restart` on a new stream.
- `Scanner` models `Scan`, `scanEnvelope`, `ReadMessage` and `Reset` from the code, driven by the usual `for ps.Scan()` loop.
  - bufio's `ReadLine` and `Peek` are modelled by their effect.
  - `Status` maps `ps.err` to the abstract status.
- `FollowsFraming == MS!ASpec` is the refinement: `MS` is `INSTANCE MessageStream WITH status <- Status`.
- `MCScanner.tla` generates the framed streams: up to three chunks, envelopes of 1 to 3 bytes, and message lines of 1 or 2 bytes, each ending in `+EOF`.

**LegacyEventQ.tla**: the legacy event queue of `src/events.go`.

- Clients hand their commands over on the unbuffered `q.in` (`pushCommand`) and take the response (`TakeResponse`).
- Each handler of the loop is an action.
- `doRead` blocks until the connection's reader takes the range (`ReaderTakesRange`).
- `handleMsg` starts one publishing goroutine per subscription (`pubs`), and each sends the batch on its own schedule (`PublisherSend`).
- `handleShutdown` closes `q.close` and `q.in`; `stop` is the 500ms shutdown.
- `Command` and `Subscription` are not in `src/` and are modelled from the spec.

**Handlers.tla**: the request router.

- A connection is idle, waiting for `h.mu` (`lock`), or waiting on a queue.
- `pushBlockingRequest`:
  - takes the lock;
  - looks the topic up in `h.h` (the variable `h`);
  - for a first BATCH, creates the topic with `topics.add` and `GoStart`, either of which may fail;
  - pushes the request while still holding the lock, because it defers the unlock.
- `Stop` (if `Stopper`) is a goroutine with a program counter `spc`:
  - `StopServers`: the servers' `Stop`, after which no new request arrives;
  - `StopAsync`: `asyncQ.Stop`;
  - `StopTopic(t)`: one iteration of the range over `h.h`, which does not take `h.mu`. The keys present when the range began (`snap`) are each visited; a key inserted meanwhile may or may not be;
  - `StopStore`: `topics.Shutdown`;
  - `StopNotify`: `Stop`'s deferred send on `h.shutdownC`, a channel of capacity 1 (the variable `shutdownC` counts the values in it).
  - A queue's `Stop` (`QueueStop`) is `EventQ.Stop`'s: a running queue takes `q.close` and exits, or the 500ms timer wins.
- A blocking request without a topic goes to `asyncQ` without the lock, as `pushBlockingRequest`'s first return does.
- The host's lifecycle (`hpc`):
  - `Init` is `NewHandlers`, `Register` and a first `GoStart` on an empty topic store. The host then either goes on (`go`, as a caller of `GoStart` does) or waits in `Start` on `h.shutdownC` (`wait`);
  - `StartReturn`: `Start` receives the value `Stop` sent and returns;
  - `GoStart` (at most `MaxRestarts` times, after a `Stop` has finished): `drainShutdownC` (`Drained`), `asyncQ.GoStart` on its old input channel, and a new `eventQ` for each topic of the store (`StartQueues`). It may fail half way (at most `MaxStartErrors` times): the queues of the topics done so far run, and the failed one does not.
  - A queue is identified by its topic and the start (`gen`) that created it, `<<t, gen>>` (`QIds`, `NewQueue`). The queues and connections of an earlier start live on, and a connection stranded on one keeps `h.mu`, just as in the code.
- The per-topic `eventQ` it calls is not in `src/`. It is modelled as a queue that answers in order and may stall for good after answering, at most `MaxStalls` times. Only topic queues stall: `asyncQ` is assumed always to answer, and `AsyncProceeds` relies on that. A stall is what the event queue of `src/events/events.go` does when it blocks in `WaitForReady` or on a full reader channel; run stuck shows it.

## Runs

| run | expect | checks | what it shows |
|---|---|---|---|
| answers | pass | `NoSendOnClosedChannel`, `EveryCommandAnswered` | With every command kind but SHUTDOWN (REPLICATE, malformed commands, a failed log write and a failed range iterator included, but no malformed CLOSE) and clients that close properly, no handler sends on a closed reader channel, and every pushed command is eventually answered. |
| shutdown | pass | `ShutdownCompletes` | A SHUTDOWN answered OK always lets its connection's `Stop` return, also while a second client connects before, during or after the shutdown. This holds even when a read answered just before leaves the loop in `WaitForReady` for good: the reader's connection saw the shutdown and never signals ready, and `EventQ.Stop`'s timeout is what lets shutdown go on. Without the timeout (the mutant), shutdown hangs. |
| tail | pass | `TypeOK`, `TailSeesLog` | A tailing read receives exactly the logged ids from its start, the range and the later published batches joined without gap or duplicate. This holds in every interleaving of two connections, with client disconnects and failed connection writes (5.5M states, about 80s). |
| closed_chan | violation | `NoSendOnClosedChannel` | A reader whose connection ends without removing its subscription (client EOF, or `CLOSE 1`, which ends the connection but fails) stays subscribed; the next publish sends on its closed channel and panics. |
| stuck | violation | `EveryCommandAnswered` | A failed response write to a reader leaves the loop in `WaitForReady` forever. |
| writer_faults | pass | `TypeOK`, `DeliveredOnceInOrder`, `CallsReturnUnlessLockLeaked` | With two concurrent writers, Flush, a failed batch, a Reset and a Close, each writer's messages are delivered at most once and in order. A call hangs only once a failed `Write` has left `w.mu` locked: the flusher answers every `flushSyncC` it takes, on a failed batch too. |
| writer_lost | violation | `NoAckedWriteLost` | `flushPending` resets the batch before checking the send error, so acknowledged messages are dropped. |
| handlers_route | pass | `TypeOK`, `OtherTopicsProceed` | With healthy queues, every blocking request is answered, `topics.add` failures included: every return of `pushBlockingRequest` releases `h.mu`. |
| handlers_stall | pass | `AsyncProceeds`, `StopReturns` | Requests that are not blocking are answered even when a topic queue stalls and creation fails, unless `Stop` stopped `asyncQ` under them. Once `Handlers.Stop` is called it returns, also after a restart: a stalled queue's `Stop` times out, and the next `GoStart`'s `drainShutdownC` (or `Start`) empties `h.shutdownC`, so the second `Stop`'s deferred send does not block. 319,866 states, about 50 s. |
| handlers_hol | violation | `OtherTopicsProceed` | `h.mu`, held across `PushRequest`, lets one stalled topic block every topic. The spec releases the lock before forwarding. |
| scanner | pass | `FollowsFraming` | `Scanner` implements `MessageStream` on every framed stream of up to three chunks, with a `Reset` in the middle of a stream. It hands out the messages in order and ends with `io.EOF`. A mutant that ends a chunk only after `ChunkPos` has passed `chunkEnd` breaks the refinement. |
| legacy_reorder | violation | `SubscriberSeesCommitOrder` | The legacy queue publishes each batch from a new goroutine per subscriber, so a subscriber can get message 2 before message 1. The spec says batches are seen in commit order. |

Each property of a passing run has a mutant in
`PROJECT.json`: a plausible bug in a mapped definition that TLC must catch.

Some questions have no run of their own, because the runs are kept to one per question and capped. The properties are still defined, and TLC's result is recorded in the hazard's note in `PROJECT.json`:

- `LogIdsIncrease`: an empty message in a batch leaves earlier messages logged, with ids that the next batch reuses. TLC finds it violated in 5 states with `PartialBatchRequests`. Those messages are also never published, which is why `TailSeesLog` is checked with well-formed batches.
- `NothingAfterEOF`: a bounded read is subscribed too, and gets batches after its `+EOF`. Violated in 9 states with `BoundedReadRequests`.
- `EveryCallReturns` (Writer): a `Write` whose flush fails returns with `w.mu` locked, and a `Flush` of the other writer then waits on `readySyncC` for ever, because the flusher blocks in `flushPending`. Violated in 11 states with the writer_faults bounds: w1 appends, `Close`, w2 calls `Flush`, w1's `Write` flushes and gets the closed-connection error, `Reset`, w1 returns the error, and the flusher takes w2's `Flush`. `CallsReturnUnlessLockLeaked` is checked instead.
- `ReadsReachTheirTopic` (Handlers): when `q.GoStart` fails after `topics.add` succeeded, the topic is in the store and has no queue, and a READ of it goes to `asyncQ`. Violated in 4 steps with the handlers_route bounds and `MaxStartErrors = 1`. With `MaxStartErrors = 0` it would only restate `CreateTopic`, so it has no run.
- `BatchBelowLimit` (Writer): `shouldFlush` is stale once `Write` retakes the lock, and the batch reaches `BatchSize`. Violated in 7 states.
- `NoSendOnClosedChannel` with `ShutdownRequests`: during shutdown, a connection breaks and its subscriber closes `ReaderC` while `doRead` is still sending. Violated in 11 states, the same race that `closed_chan` shows for a client EOF. `ShutdownCompletes` therefore exempts a panicked process.
- `ShutdownCompletes` with `MaxShutdowns = 2`: two SHUTDOWNs answered OK. `listenAndServe` takes `s.stopC` once, so the second connection waits in `Stop` for ever. Violated in 16 states. The shutdown run therefore allows one SHUTDOWN.
- `NoDataAfterEOF`: the spec says a read error ends the reader stream with `+EOF`. When the iterator fails, `doRead` sends `+EOF` and then the chunk. With the answers bounds TLC finds it violated in 11 states with `IterErrors` on, and finds it holds with `IterErrors` off.
- `AcceptedConnsServed`: `accept`'s second check of `s.shuttingDown` can be stale by the time it runs `addConn`. A connection accepted just before shutdown begins is then added after shutdown has closed `s.conns`, and it waits in `s.connIn` for good with its socket open. With the shutdown bounds, TLC finds it violated in 11 states.
- `StopStopsEveryQueue` (Handlers): `Stop`'s range over `h.h` misses a topic that a waiting BATCH creates meanwhile, and the store is shut down under its running queue. Violated in 7 states with the `handlers_stall` bounds.

## Bounds

- Two connections: enough for a publisher and a subscriber, for two subscribers, and for one connection closing while another publishes.
- `InCap = 2`: a second command can queue behind a blocked handler.
- `ReaderCap = 2`, not 1000: a full buffer, and publish blocking on it, is reached with few messages. Nothing depends on the actual size.
- `MaxPushes` is 3 to 4 commands in total: the minimum sequences of every finding are at most four commands, for example READ, MSG, CLOSE 1, MSG. The tail run uses 4, so a tail can see a range, two batches and a second reader.
- `MaxWriteErrors` is 0 or 1 failed log write.
- Writer: two writer goroutines of two messages each, and `BatchSize = 2` messages. One flush then happens every other write, and the stale `shouldFlush` window takes two writers. Up to one explicit Flush, one failed batch, one Reset and one Close.
- Shutdown: `c2` connects late, so its acceptance can race the shutdown; `MaxPushes = 4` over SHUTDOWN, a tailing READ and a MSG, so both a READ answered before the shutdown starts and a command stranded behind it occur, and `StopQueue` and its timeout both fire.
- Handlers: two connections and two topics. The route run has four requests and no restart. The stall run has three requests, one stall, one failed `GoStart` and one restart (`MaxRestarts = 1`), the smallest bounds at which a second `Stop` follows a restart; `topics.add` failures are left to the route run there to keep the stall run under a minute.
- Scanner: 259 framed streams, up to three chunks. Envelopes are 1 to 3 bytes, so a chunk holds one to three messages, and a message is 1 or 2 bytes, so a message can straddle a chunk's end. One `Reset` is allowed, so a stream can be abandoned in the middle of a chunk.
- Legacy: two connections and four commands. Two batches published to one subscriber is the minimum for reordering.

## Fairness

Each of these goroutines is runnable whenever its action is enabled, and the Go scheduler runs every runnable goroutine eventually, so each gets weak fairness:

- the event loop (`QNext`);
- each connection goroutine waiting for its response (`ExecuteDone`);
- each subscriber goroutine (`SubscriberSend`, `SubscriberDone`).

The shutdown goroutine's steps (`StopQueue` or its timeout, `ShutdownConns`), `StopReturned`, and the accept and `listenAndServe` goroutines' steps once a client has connected (`AcceptTop`, `AddConn`, `ServeConn`) are weakly fair too: the goroutine runs and the timers fire. An idle connection sees the shutdown fairly only once `removeConn` has closed its socket, because until then it may be blocked reading from a silent client.

Clients (`ReadCommand`, `Disconnect`, connecting in `Accept`) and failures (`SubscriberWriteError`) get no fairness.

In Writer, these are weakly fair:

- the flusher's steps;
- a writer's steps once it is inside a call;
- the second half of Reset;
- the timer flush, since `time.After` fires.

Starting a call is not fair.

In Scanner, `Scan` is weakly fair: the caller loops until `Scan` returns false. `Reset` is not fair. In LegacyEventQ, the loop, the readers, the publishing goroutines and a client taking its response are weakly fair.

In Handlers, the queues and the steps of `Stop` once it has been called are weakly fair; calling `Stop` is not. `StopNotify` and `StartReturn` are weakly fair: the send has a free slot or a receiver, and `Start` is runnable once a value is in the channel. Calling `GoStart` again is not fair: nobody is obliged to restart. Acquiring `h.mu` is strongly fair, because `sync.Mutex` hands the lock to a waiter that has waited over 1ms (starvation mode). Stalls and failures are not fair. `Quiet` stutters once every request has been answered, and in Socket `Terminated` stutters in the states where every client has finished. Deadlock checking therefore flags only states where something is stuck. The liveness runs turn deadlock checking off and let `EveryCommandAnswered` judge.

## Not modelled, and the plan

- **Writes after `HandleShutdown`**: the loop keeps taking commands after the logger is shut down. The logger's behaviour after `Shutdown` is unknown, so it is not tracked.
- **Handlers composed with Socket**: `Handlers.Stop` calls `server.Stop`, which blocks for ever after a client's SHUTDOWN. The two modules are checked separately, so this is a hazard note only.
- **The Go runtime's abort** on a concurrent map iteration and write (`Handlers.Stop` against `pushBlockingRequest`) is not modelled; the model lets the range miss the new key instead.
- **`uint64` wrap** of `startID + limit` (events.go:222): the model's ids are small naturals.
- **Restarting a Socket**: `Handlers.GoStart` calls `server.GoServe` again after a `Stop`. The socket then keeps `s.shuttingDown` and an unclosed `s.ln`, so its accept loop exits at once, or `net.Listen` fails and `GoServe` waits on `s.readyC` for ever. `Socket.tla` models a single serve, and `net.Listen` is I/O. Both are hazard notes. In `Handlers.tla` a server's `GoServe` is a step that returns.
- `net.Listen`, `GoServe`'s ready handshake, deadlines, stats, logging and formatting are left out: no property depends on them.
