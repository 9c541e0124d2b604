# block-scan in TLA+

Models, model-checking runs and proofs for block-scan: the scanners that walk a
chain and hand its receipts to the application, and the JSON-RPC package under
`util/rpc`. `PROJECT.json` lists the components, the runs, which lines of the
code each definition stands for, what goes wrong when the code is changed (the
mutants), the finding and the hazards.

## 1. The system

`StartScanChainEvents` (`scan.go`) starts one scanner per chain and calls its
`WipeBlock` again after every recovered panic.

| Part | State it keeps | Operations | What is hard about it |
|---|---|---|---|
| Polling scanner, `scan/scan.go` | the start block (outside the process), the channel `newTxn` shared by all chains, the loop's block numbers | producer: poll the head, list a block's transactions, send them; consumer: status, receipt, requeue, distribute, store the start block | two goroutines per chain on one channel; requeues; a panic starts a second consumer; crashes lose the channel |
| Receipt distribution, `scan/scan.go`, `services/scan.go` | logs kept, keys and addresses seen | middlewares, deduplication, dispatch to callback or job queue | one map for two kinds of keys; spellings of addresses; method lookup |
| Subscribing scanner, `subscribe/subscribe.go` | the start block, the map `data`, the next block to query | catch up in windows, drain, subscribe, select over logs, ticker, error and context, push | window edges; blocks mined between query and subscription; partial failures; restarts |
| RPC client, `client.go`, `handler.go` | pending requests, the connection, the request in flight | send, write with reconnect, dispatch, read, Close, CallContext, Subscribe, BatchCallContext | five kinds of goroutine over unbuffered channels; read errors while a request is in flight; timeouts |
| Client subscription, `subscription.go` | buffer, error channel, `errOnce` | deliver, forward, Unsubscribe, close | overflow; Unsubscribe against a delivery under way |
| Server subscription, `subscription.go`, `handler.go` | `Notifier`'s buffer and flags, `serverSubs` | Notify, activate, unsubscribe, cancel | notifications before the answer to the subscribe call |
| RPC server, `server.go`, `handler.go` | `run`, the set of codecs, the call goroutines | ServeCodec, Stop, handler.close | Stop against a new connection; waiting for methods |
| Message handling, `handler.go`, `json.go`, `service.go`, `types.go` | the registry, one call goroutine per frame | classify, look up, parse arguments, call, reply | batches of mixed messages; optional arguments; block numbers at the ends of their range |
| WebSocket codec, `websocket.go` | the ping timer, `pingReset`, the read deadline, `encMu` | pingLoop, writeJSON, pong handler, close | deadlines set after the fact; a close that waits for pingLoop |

The other parts (the other transports, metrics, logging, option checks) are
listed in `PROJECT.json` with the reason they are left out.

The scanners use go-ethereum's `ethclient`, not `util/rpc`, so that the two
halves of the repository meet in no module. Inside `util/rpc` the modules
describe one connection from several sides; each says in its header what it
takes from its neighbours, and `SubscriptionLink` composes the two ends of a
subscription.

## 2. Modules

Every module has `VARIABLES` named after the code's variables and one action
per step between two points at which another goroutine, the network or the node
can intervene. Definitions whose comment says "Mutants" are plausible wrong
versions of the definition that follows; no specification uses them.

**Polling.** The producer's `pc` is `poll` (asks the head), `scan`
(`FilterTrans` of block `blk`), `send` (waiting on `newTxn`), `done`,
`recovered`. `PollAt(ch, n)` is one turn of the outer loop with the head
answered as `n`, which may lag behind the real head; `Return` is the check of
the context. A consumer is `idle`, has received (`check`), waits to put back
(`requeue`), or has distributed and not stored the block (`checkpoint`).
`Panic`/`Restart` are `recover` and the next `WipeBlock`; `Crash` ends the
process. History variables record what was distributed, discarded, requeued,
and `resumedAt`, the highest block the chain's scan resumed after.

**Delivery.** What a scanner promises, without goroutines or channels: a
transaction stays `pending` until it is handed to the application or discarded;
a panic or a crash takes nothing away; it is given up only by a run that resumes
at a start block at or above its own; and start blocks are those of transactions
that were handed over. `Polling` maps its queue, hands and scan position to
`pending` (`Pending`) and its consumers to the workers (`Handed`), and states
the refinement as `Delivers`.

**Distribution.** One receipt, from the middlewares to the last dispatch. An
address and a name are model spellings with a lower-case form; the configuration
has spellings for keys, and a contract's name may be empty (`Selected`). A log's
body stands for its data and topics. The map `exist` holds texts, modelled by
their parts: a `Key` has an address and a body, a `Seen` address is by itself.
`MethodsFound` is empty because `reflect` looks
the method up on a value of type `interface{}`.

**Subscribe.** `Query`/`Collect` are one window of `filterLogs`, `Drain` the
loop after it, `RecvLog`, `Tick`, `SubErr`, `Unsubscribe` the cases of the
select. Both push closures are one loop (`PushSkip`, `PushReceipt`,
`SetStartBlock`, `PushDone`) that returns to `ret`. `gap` and `dropped` record
the two ways in which the code loses a transaction.

**RpcClient.** A caller's `pc` follows `send`, `write`, `reconnect` and
`wait`; `Dispatch` is the select of `dispatch` with `conn.close` and the
handler's table; `Read` and `ReadFails` are the read goroutine. A rendezvous on
an unbuffered channel is one joint step. `dialled` is the connection the writer
dialled last, `newcodec` the one dispatch received from `reconnected`, `conn`
the one it reads: while dispatch drains the old reader the three can differ.

**ClientSubscription.** `Notification`/`Unblocked` are `deliver`, `In` and
`Forward` the select of `forward`, `RequestUnsubscribe`/`Report` the end of
`run` (the request returns, and its error is dropped), and
`Unsubscribe`/`Quit`/`Unsubscribed` the body of `errOnce.Do`.

**Notifier.** The subscribe call, whose method may fail before or after it has
created the subscription, the publisher's `Notify`, the client's unsubscribe call
and the close of the connection.

**SubscriptionLink.** Both of them over one connection: it extends
`ClientSubscription`, instantiates `Notifier`, and says what the wire adds. The
client reads what the server wrote, in order (`StartSubscription`, `ReadNote`).
The unsubscribe request (`req`) is a call like any other: dispatch takes it when it
is free (`SendUnsubscribe`), its write succeeds, fails, or fails and reconnects
(`Written`, `WriteFails`, `Reconnect`), dispatch learns of the write
(`HandleSent`), `Notifier`'s unsubscribe serves it (`ServeUnsubscribe`), and
dispatch comes to the answer at its place among the notifications
(`UnsubscribeAnswered`). When the connection ends (`ConnectionEnds`) the request is
ended, unless it is in flight: then it is spared, but forgotten. Requests of other
callers, and the server at the other end of a new connection, are left out.

**RpcServer.** `ServeCodec` split at the check of `run`, the entry in `codecs`
(`AddCodec`), the start of dispatch (`InitClient`) and the two waits; `Stop` split
at the change of `run` and the pass over the set (`CloseCodecs`), with the history
variable `missed` for the connections on their way into it; `dispatch` with
the wait for the call goroutines. A method returns by itself, waits for its
context, or calls back: that reverse call is sent, written and waited for
(`Send`, `Write`, `HandleSent`, `WaitReturns`), and `CancelAllRequests` ends it
unless it is in flight.

**Handler.** The predicates on messages, the registry built from what
reflection finds, positional arguments, `handleBatch` with one step (`BatchLoop`)
per turn of its loop, `handleMsg`, and the call goroutine of each frame. A reply
carries, as history, the arguments its method was run with. What the arguments of
a method may be is stated apart from how they are decoded (`Fits`, `Takes`): the
forms that the comments of `types.go` give, and their ranges. It has no state of
a subscription.

**ValueTypes.** The argument types of `types.go` as operators: `BlockNumber`,
`BlockNumberOrHash` and `DecimalOrHex`, to and from JSON values, for integers of
any width. `Handler` decodes arguments with them.

**BatchCall.** The caller of `BatchCallContext`, the channel `op.resp`, and the
answers coming from dispatch or from `sendBatchHTTP`; `Notify` over HTTP is the
request whose `op` has no channel. Over a connection the batch is registered,
written, or moved to a new connection (`Register`, `Written`, `WriteFails`,
`Reconnect`, `HandleSent`), and the connection may be lost and the client closed
(`ConnectionLost`, `Quit`) at any of these points.

**WsCodec.** One end of a WebSocket connection: `pingLoop` split at its select,
the lock, the write and the deadline; `writeJSON` with its signal on
`pingReset`; the pong handler; a read that runs into its deadline; `close`. Time
passes in ticks, only when no goroutine can go on (`Tick`, `Ready`). `stale`
records that a deadline was set when its ping was already answered.

`MCPolling`, `MCDistribution`, `MCSubscribe`, `MCHandler`, `MCBatchCall` and
`MCWsCodec` give the constants their values; the other modules need only sets of
model values and are run themselves. `PollingProofs`, `PollingRefinement`,
`DistributionProofs`, `SubscribeProofs`, `RpcClientProofs`, `BatchCallProofs`,
`SubscriptionProofs` and `ServerProofs` (about `RpcServer`, `WsCodec` and
`Handler`) hold the proofs.

## 3. Runs

| Run | What it shows |
|---|---|
| `polling_safety` | With a panic or a crash at any point, requeues, an unparsable block number and a channel that fills up, no transaction above the block resumed after is lost (`NoSilentLoss`), none is distributed twice in a run (`OncePerRun`), and the start block moves back only for a retried transaction or an unparsable number (`OnlyRetriesMoveBack`); the scanner implements `Delivery` (`Delivers`). |
| `polling_shared` | Two chains whose consumers take each other's transactions from the shared channel: every transaction is settled (`EverySettles`) and a cancelled scan returns (`CancelReturns`), with the exceptions below. |
| `distribution` | All receipts of up to three logs: one log of each event is kept, in order, and exactly the contracts that are configured under a lower-case address, with a name that is a method prefix, are dispatched, once each. |
| `distribution_callback` | A counterexample: the callback object's method is never found (the finding in `PROJECT.json`). |
| `subscribe_safety` | Over several windows, with lost connections, panics and crashes, a transaction is lost only because its block could not be read or because it falls in the gap before the subscription (`LossesExplained`). |
| `subscribe_live` | What is not lost is settled; a cancelled scan leaves the select; without failures only blocks shared by two windows, or transactions with several logs, are distributed twice. Here restarts resume from a stored block. |
| `client` | No response channel is closed twice or blocks dispatch (`PendingOpen`), one request at a time is in flight (`WriterIsLastOp`), no answer misses its caller, who is forgotten and which subscription has no owner (`WaitersKnown`, `SubsOwned`); a call returns when its context is done; Close returns, and the callers known to dispatch after it. |
| `subscription` | Both ends of a subscription: the id comes first, and nothing is reordered or lost between Notify and the subscriber while writes succeed and the client's loop runs (`EndToEnd`); an unsubscribe finds the subscription, and has reached the publisher when it is answered; the error channel is used safely; silence after Unsubscribe; neither dispatch nor Unsubscribe gets stuck, and the publisher is told of the end, with the exceptions below. |
| `server` | ServeCodec outlives its call goroutine, Stop closes every connection that is served (`StopCloses`), and ServeCodec returns when the connection ends, with the exceptions below. |
| `handler` | Replies answer exactly the requests of their frame, once, and other messages are handed on in order (`RepliesMatch`); a method runs exactly if it is exposed and its arguments have the documented forms, but for `null` (`RunsOnlyExposed`), with the values the sender wrote (`ArgumentsArrive`); nothing is left unanswered. |
| `batch` | Each element gets its own answer, nil means that all were answered, the call returns when its context is done or its connection has ended, and a Notify returns when its context is done; with the exceptions below. |
| `websocket` | A connection whose peer answers is not timed out, but for a stale deadline; a peer that is gone is noticed if pongs are due before the next ping; close returns. |

### Where the code does less than its documents say

One disagreement has a run of its own, `distribution_callback`. The others are
part of the properties that pass, as exceptions that say exactly when the
promise fails, or of the models:

- **Full channel** (`Wedged` in `EverySettles` and `CancelReturns` of
  `Polling`): with `newTxn` full and every consumer about to requeue, producer
  and consumers wait on each other and cancelling ends neither, while
  `scan_test.go:69-71` expects a scan whose context times out to return.
- **Two chains** (`Contended`): two consumers may for ever take each other's
  transactions and put them back; only a transaction that others take again and
  again is exempt.
- **Status `0x00`** (`Decidable`): README.md:38 gives the statuses as `0x01` and
  `0x00`; only `Fail` discards, so that a reverted transaction is requeued for
  ever.
- **`InitBlock`** (`NextBlock`): README.md:62 has events filtered from
  `InitBlock`; the first block scanned is the one after it.
- **`ContractsName`** (`Dispatchable` in `DispatchComplete`) is looked up with
  lower-case addresses; the keys in README.md:51-52 are in mixed case and never
  match. A contract whose name is empty is as good as not configured.
- **Gap before the subscription** (`gap` in `LossesExplained` and `EverySettles`
  of `Subscribe`): a block mined after the last query and before the
  subscription is never seen.
- **Cancelled during the catch-up**: `filterLogs` retries for ever;
  `CancelEndsSelect` is stated for the select only.
- **Nil metrics** (`PushNilMetrics`, `CallbackMined`): the embedded `Polling` of
  the subscribing scanner has no metrics, and a receipt with a callback panics
  in every run.
- **Request in flight at a read error** (`orphaned` in `WaitersKnown` and
  `CloseEnds`): it is taken off the table and, if its write succeeds, waits even
  after Close; `client.go:311` says its channel is closed when dispatch quits.
- **Subscription without owner** (`SubsOwned`): if the context ends while
  dispatch handles the answer, Subscribe returns an error and the subscription
  runs on (`client.go:461`).
- **Notifications before activation** are held back and sent
  (`held` in `EndToEnd`); the comment at `subscription.go:105-106` says dropped. A
  Notify that fails leaves the connection open (`WritesFail` changes nothing
  else); the comment at `subscription.go:122` says it is closed.
- **Stop and a connection being accepted** (`missed` in `StopCloses`): Stop may look
  between the check of `run` and the entry into the set; the connection is then
  served on, against `server.go:71-72`.
- **`handler.close` waits before it cancels** (`Stuck` in `ServeEnds`): a method
  that waits for its context, that calls back after a read error, or whose
  reverse call was in flight at the read error, and dispatch wait for each
  other; `server.go:119-121` says pending requests are
  cancelled.
- **`null` for a required argument** (`NullAsZero` in `RunsOnlyExposed`) becomes
  the zero value of an integer, a string or a `BlockNumberOrHash`; the check
  of `json.go:325-327` looks at the pointer that was just made, and its error is
  never returned.
- **Unsubscribe that cannot be sent** (`req = "failed"` in `UnsubscribeReaches` and
  `PublisherTold`): the error of the unsubscribe call is dropped
  (`subscription.go:302`). Unsubscribe returns, and the publisher goes on as long as
  the connection is open.
- **Unsubscribe without an answer** (`Unanswered` in `UnsubscribeEnds`): the request
  has no deadline. Unsubscribe waits until the connection is lost when the server's
  writes fail, for the server keeps the connection open; and it may wait for ever
  when the connection broke with the request in flight, or when the request has
  moved to another connection.
- **Negative block numbers** (`ArgumentsArrive`): `MarshalText` writes one that is
  no tag as a large hexadecimal number, which `UnmarshalJSON` refuses. A
  `BlockNumberOrHash` accepts `null` and has neither number nor hash then.
- **Stale read deadline** (`stale` in `LiveNotTimedOut`): `pingLoop` sets the read
  deadline after it has written the ping; a pong handled in between clears the
  deadline before it is set. Writes that keep putting the next ping off then let
  a connection time out whose peer has answered every ping.
- **Gone peer** (`GonePeerTimesOut`): each ping moves the read deadline, so that
  a peer that is gone is sure to be noticed by the reader only if the pong
  timeout is shorter than the ping interval. The defaults are the other way
  round (`websocket.go:38-40`: 5 s and 30 s) and can be set; the run has a setting
  of either kind.
- **Batch in flight at a read error** (`orphaned` in `WaitBounded`): it is taken off
  the table and, if its write succeeds, waits for its context, whether the
  connection is there or not.
- **Notify over HTTP** (`WaitBounded`): a server that answers it blocks the caller
  for ever; one that sends an empty body, as JSON-RPC has it, makes it return an
  error.
- **HTTP batches** (`ElementsOwn`, `WaitBounded`): nothing checks
  the ids (`client.go:379-380` says dispatch does), and one answer too many blocks
  the caller whatever its context (`client.go:337-338`).

`NoSilentLoss` and `Delivers` have no run with two chains: section 6 proves them
for any number.

`NoSilentLoss` does not say that a crash loses nothing. The start block is
stored per transaction, so that a crash can leave transactions of the same or a
lower block undistributed; the invariant says that this is the only place where
losses lie, at or below a block that a later run read back.

Only `websocket` checks for deadlock; the other systems may stop (a cancelled
scan, a closed client, a receipt that is done, a chain whose bounded number of
blocks has been scanned). That somebody waits for ever is stated as a liveness
property instead.

## 4. Bounds

- **Blocks and transactions.** Three transactions in two adjacent blocks
  (`polling_safety`): two of one block, and one of a later block that overtakes.
  One transaction per chain on a channel of capacity 1 (`polling_shared`): the
  smallest instance in which chains contend and the channel wedges
  (a third transaction, reverted for good, was tried: it passes but takes long). Two
  transactions with empty blocks between them (`Subscribe`): a window (`Window` =
  2 for the code's 500) ends inside, at and after a block with logs.
- **`ChanCap`.** 1 and 2: the full channel is where things go wrong. The proofs
  hold for every capacity.
- **`MaxRuns`.** 2 in `polling_safety`: a run and the one after its panic, whose
  consumers compete for the same transactions; 1 where liveness is checked.
- **`MaxFaults`, `MaxDrops`.** Two failures in a row and one unreadable block
  for safety; one failure for liveness.
- **`MaxConns`.** Three connections: the one that breaks, the one after the
  reconnect, and one more that a writer dials while dispatch still drains the
  first. Two requests, a call and a subscription: the one in flight and another.
- **`MaxBuffer`, `MaxNotes`.** The client's buffer overflows with its second
  pending notification; the last of three does not unmarshal. On the server
  three notifications fall before, during and after activation. Two callers
  unsubscribe. The proofs hold for any size and number.
- **Distribution.** Up to three logs over four addresses in six spellings: two
  contracts configured in lower case, one with an upper-case letter, one with an
  empty name; a method prefix that comes twice and one that is empty.
- **RpcServer.** Two connections with a call each, of any kind.
- **Handler.** Every single message, all batches of three of the seven shapes of
  message; three frames that interleave. `MaxInt64` is 7, integers of 4 bits for
  the code's 64: every block number, every hexadecimal and decimal number up to
  the first that is too large, a negative one, and every `BlockNumberOrHash` made of them. The
  proofs hold for any methods, sessions and width.
- **BatchCall.** Three elements, every list of up to four answers.
- **WsCodec.** A ping interval of 3 ticks with a pong timeout of 2, and of 2 with
  3; pongs take up to `Latency` = 1; two writes fit into the socket's buffer when
  the peer is gone. The proof holds for all timeouts above the latency.

## 5. Fairness

Goroutines that can go on do: weak fairness on the steps of producers,
consumers, dispatch, callers and call goroutines. Strong fairness is assumed

- where a `select` chooses among ready cases (Go picks at random, so that a
  case that is ready again and again is taken: `Recv`, `Stop`, `RecvLog`,
  `Tick`, `Unsubscribe`, and in the client subscription `Quit`), and for a
  goroutine waiting to send, which the runtime queues first come, first served
  (`Send`, `Requeue`);
- where the node must answer truthfully in the end, without which no scan can
  make progress: the current head (`PollAt(ch, head[ch])`,
  `FilterLogs(head)`) and a receipt (`Settle`, `PushReceipt`). A transaction
  whose receipt never has logs is exempt (`Decidable`);
- for the unsubscribe request of a client subscription and for its answer, which
  need dispatch to be free again and again;
- in `WsCodec`, for `Tick` (time passes, though writers may be ready again and
  again), `LockForPing` (a Go mutex is handed to a waiter that starves) and
  `PingLoopEnds` (a case of a select).

Of the link between two ends it is assumed that what has been written is read
while the connection is there, that a write ends by its deadline, and that an end
learns that the other has closed it. Nothing is assumed of a call that has moved to
another connection.

Nothing is assumed of new blocks, failures, panics, crashes, timeouts,
cancellation, peers or subscribers.

## 6. Proofs

Every theorem below holds for every value of the constants. The assumptions are
the `ASSUME`s of the modules (`PollingAssumptions`, `SubscribeAssumptions`,
`WsAssumptions`, ...), which TLC evaluates in the runs.

| Module | Theorem | States |
|---|---|---|
| `PollingProofs` | `TypeCorrect` | `TypeOK`, with the capacity of `newTxn` in it |
| | `NothingSilentlyLost` | `NoSilentLoss` |
| | `StartBlockFollowsScan` | `OnlyRetriesMoveBack` |
| `PollingRefinement` | `ScannerDelivers` | `Delivers`: the scanner implements `Delivery` |
| | `DistributedOncePerRun` | `OncePerRun` |
| `DistributionProofs` | `EventsKept`, `DispatchedOnce`, `ConfiguredDispatched` | `DedupKeepsEvents`, `DispatchOnce`, `DispatchComplete` |
| `SubscribeProofs` | `LossesAreExplained`, `DuplicatesOnlyAtEdges` | `LossesExplained`, `DuplicatesAtEdges` |
| `RpcClientProofs` | `OneWriter`, `ChannelsUsedOnce`, `AnswersArrive`, `WaitersAreKnown`, `SubscriptionsOwned` | `WriterIsLastOp`, `PendingOpen`, `AnswerFindsCaller`, `WaitersKnown`, `SubsOwned` |
| `BatchCallProofs` | `ElementsGetTheirOwn` | `ElementsOwn` |
| `SubscriptionProofs` | `EndsImplemented` | the link implements `ClientSubscription` and `Notifier` |
| | `ForwardsInOrder`, `ErrorSendIsSafe`, `QuietOnceUnsubscribed` | `InOrder` (the client's part of `EndToEnd`), `ErrSendSafe`, `QuietAfterUnsubscribe` |
| | `IdAlwaysFound`, `UnsubscribeGetsThrough` | `UnsubscribeFinds`, `UnsubscribeReaches` |
| | `PublishedArrives` | `EndToEnd` |
| `ServerProofs` | `MethodsEndBeforeServe`, `StopClosesConnections` | `NoCallOutlivesServe`, `StopCloses` of `RpcServer` |
| | `AnsweringPeerIsRead` | `LiveNotTimedOut` of `WsCodec` |
| | `RepliesMatchRequests`, `OnlyExposedRuns`, `ArgumentsArriveAsMeant` | `RepliesMatch`, `RunsOnlyExposed`, `ArgumentsArrive` of `Handler` |

**Polling.** `TypeOK` is not inductive. The invariant used is `TypeInv`, which
adds that a consumer past its receive holds a transaction (`Holding`; otherwise
requeueing could put `NoTx` on the channel) and that runs not yet counted have
no consumer (`FreshRuns`; otherwise `Restart` could overwrite a busy one, and
lose what it holds). `NoSilentLoss` is inductive together with `TypeInv`. The
argument follows a transaction from hand to hand: ahead of the scan, in the
producer's hand, on the channel, held by a consumer, settled.
`OwnProducerAccounts` shows that a step of the chain's producer passes it on; a
restart or the first poll after it may pass over it, but then moves `resumedAt`
to its block or above. `ConsumerAccounts` shows the same of a consumer, which
settles it or puts it back; consumers of every chain are treated alike, for they
share the channel. The remaining lemmas say that nobody else's step takes it
away.

`OnlyRetriesMoveBack` is about a single step, but that step is safe only because
of the order on the channel. `RetryInv` says that a transaction never put back
has none of a higher block of its chain before it, on the channel or already
taken from it (`QueueInOrder`), and that the start block has not passed one that
is being worked on (`HeldInOrder`). The producer
keeps this order because the scan is at or above every block it has sent
(`ScanReached`), and a consumer because whatever it puts back is marked
(`ConsumerMarks`).

`OncePerRun` counts. `Budget` says that the times a transaction was distributed,
its places on the channel, the consumers that hold it, and one more if the
current run has yet to send it, add up to at most the number of runs. Each step
moves one unit from one of these to the next, and only a restart, which counts a
run, adds one. A set is counted by the places it fits into (`Fits`), because
cardinalities would need induction.

**Refinement.** A step of a producer or of a requeueing consumer moves a
transaction within `Pending` and is a stutter of `Delivery`; the others map to the
action of their name. `Delivery` hands over only transactions of mined blocks,
so that the proof needs `AllMined`: the scan, the channel and the consumers have
only transactions of blocks at or below the head.

**Distribution.** `DistributionInv` says, for each of the two loops, what is
true of the logs looked at so far: `KeptUpTo` (one of each event, in order),
`KeysOfLogs` (the map `exist` holds their keys), `DispatchedUpTo` (the selected
contracts among them were dispatched once). That the one map serves both loops
is harmless because a key has more parts than an address. `DispatchComplete` speaks of
the entries of the configuration; `SelectedEntry` and `EntrySelected` take the
selected addresses to them and back.

**Subscribe.** `Accounted` says of every transaction above the block resumed at
that it is settled, in hand, ahead, dropped or in the gap. `RunInv` is needed for
the windows (what was asked for lies below the head or the block resumed at) and
for the checkpoint (what is stored has been distributed).

`DuplicatesAtEdges` is proved for as long as nothing fails (`Quiet`). There is
then one run (`OneRun`), which meets a transaction in one place: the catch-up has
met nothing from its next block on, except in the block its last query ended with
(`NotMetYet`), the subscription starts above what was met (`MetMined`), and what
was met is in `data`, in the feed or distributed, and in one of them only
(`OnceMet`).

**RpcClient.** The five properties are proved together, from `ClientInv`:
dispatch's lock (`Locked`), the server is asked once (`AskedOnce`), the state of
the response channels (`Open`), which connection is read and written
(`Connected`), what is in the table (`Tabled`), who waits (`Waiters`), that no
subscription outlives its connection (`Cleared`) and who owns a subscription (`Owned`). The
proof needs that dispatch adopts the connection it was handed and not the last
one dialled, which a retrying writer may have replaced.

**BatchCall.** `OwnAnswers` says that ids reach `op.resp` for the batch's own
elements only; `OncePerElement` that an id is in one place, awaited, unread, in
`op.resp` or given, so that the elements still missing are no more than the
answers still to be received: none, when the call returns nil.

**RpcServer.** `Served` follows one connection: dispatch stops reading, or ends,
only after its wait for the call goroutines, and no call starts after that.
`Stopped` says that a connection is in the set from its entry until ServeCodec
returns, and that no other passes the check of `run` once Stop has gone over the
set: one that is open then was missed.

**Subscriptions.** `EndsImplemented` lets the client's theorems be proved of
`ClientSubscription` alone. `DoneFirst` (the error channel is used, and Unsubscribe
returns, only when `run` is done) gives the two about the end; `Numbered` says
that what was read is what was received, buffered and in dispatch's hand. On the
server `Registered` says that an id is sent only for a subscription that was
created, which is in `serverSubs` until it is unsubscribed or cancelled; `AnswerLast`
that an answer to the unsubscribe request follows the end of the subscription, and
that while the connection is there `run` goes on to its end only with an answer or
a failed request. For `EndToEnd`, `WireInv` says what the
server has written and holds back, `ReadInv` how far the client has read it;
with `Numbered` the five stretches between Notify and the subscriber join up to
all that was published.

**WsCodec.** `PongDue` says that a pong under way arrives before the timer fires
again and before the deadline that its own ping has set. So there is never more
than one ping unanswered, and a read deadline that is not stale has a pong before
it.

**Handler.** The three properties are proved from one invariant, `HandlerInv`.
`ProcOK` says of each frame, after so many of its messages have been looked at,
that the calls left to its goroutine are places of messages that are not handed
on, in order (`CallsOK`), that the answers so far are possible outcomes of the
requests they name, in order (`AnswersOK`), that all of these come before what is
left (`AnswersFirst`, without which a later answer could be out of order), and
that every request seen is in one or the other (`NoneMissing`). `ReplyInv` says
that a reply has the answers of a goroutine that has ended, and that no frame has
two, and `ImmediateInv` that what `handleImmediate` was given is what has been
looked at and is to be handed on. Each step changes the record of one frame
(`FreshShape`, `LoopShape`, `CallShape`, `WriteShape`).

What a single message comes to is proved apart from the steps. `CallOutcome` and
`SubscribeOutcome` list the ways a call can go; `Parsing` says when positional
arguments parse and what to; `AvailableIs` that the registry has what `doc.go`
describes; `NameFirst` that the name in front of a subscription's arguments moves
them by one place. `DecodesAccepted` says that what is decoded without an error is
what has a documented form, or `null` for one of the types of `NullAsZero`; `NumberRead`,
`DecimalOrHexRead` and `NumberOrHashRead` do so for each type of `types.go`.
`Decoded` says of each type that what is decoded is what was
meant, for block numbers from `Wraps` (the conversion to a `uint64`) and
`TextNumber` (a negative number that is no tag is written as one too large to be
read). The assumptions are those on the shape of messages and values
(`HandlerAssumptions`): method names are unique, as the keys of a map are, only an
array has arguments, and hexadecimal texts stand for naturals, decimal ones for
integers.

Only model-checked: the liveness properties, for fairness and `ENABLED` are beyond
the prover. All invariants and action properties that the passing runs check are
proved.

## 7. Not modelled

- **IPC, stdio, in-process and HTTP plumbing; dialling; the WebSocket upgrade**:
  they open a stream and hand it to the codec; headers, status codes,
  `validateRequest` and the origin rules decide whether there is a connection at
  all and have no state.
- **`SetHeader`, and `Notify` over a connection** of the client: a lock around a
  map, and a send that nobody waits for.
- **Registering services while requests run**: the registry is behind one lock,
  and the models have it filled before the first request.
- **Error codes and texts, option checks, logging, metrics**: no state, or output
  only. That the subscribing scanner's metrics are nil is in `Subscribe`.
- **Reorganisations** of a chain: the scanners do not handle them; the modelled
  chains only grow.
- **`FilterTrans` failing**: its interface has no error, so that a failure and
  an empty block are the same to the code.

## 8. Plan

The runs and properties are kept few enough to be run after every change; what
is added below joins or replaces a run where the questions overlap.

1. `RpcClient` composed with `SubscriptionLink`: reconnects with live
   subscriptions, and dispatch blocked in `deliver`.
2. `Subscribe` implementing `Delivery` up to its named losses.
3. The registry while requests run.
