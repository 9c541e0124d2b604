----------------------------- MODULE Subscribe -----------------------------
(***************************************************************************)
(* The subscribing scanner, subscribe/subscribe.go, under the supervisor   *)
(* of scan.go: one goroutine per chain that first catches up with the      *)
(* chain in windows of blocks (filterLogs), then subscribes to new logs    *)
(* and pushes what it collected whenever a ticker fires.                   *)
(*                                                                         *)
(* The go-ethereum client and the node behind it are external: BlockNumber *)
(* and BlockByNumber may fail, a subscription delivers the logs of the     *)
(* blocks mined after it was set up.  SetMetrics sets the metrics of the   *)
(* Subscribe value only; those of the embedded Polling, which              *)
(* ReceiptDistribution uses when a contract of the receipt has a callback, *)
(* stay nil, and the call panics.                                          *)
(***************************************************************************)
EXTENDS Naturals, Sequences

CONSTANTS
  Tx,           \* transactions with logs of the configured contracts
  NoTx,
  LogsIn,       \* [1..MaxBlock -> Seq(Tx)]: a block's logs, by transaction
  HasCallback,  \* transactions whose receipt selects a callback
  ReceiptBlock, \* [Tx -> Nat], cast.ToUint64 of the receipt's BlockNumber
  InitBlock,
  Window,       \* blocks per FilterLogs query (500 in the code)
  MaxBlock,     \* bound: last block mined
  MaxFaults,    \* bound: failures of the node, panics and crashes
  MaxDrops      \* bound: logs whose block could not be read in ten tries

BlocksOf(tx) ==
  {b \in 1 .. MaxBlock : \E k \in 1 .. Len(LogsIn[b]) : LogsIn[b][k] = tx}

ASSUME SubscribeAssumptions ==
  /\ NoTx \notin Tx
  /\ MaxBlock \in Nat
  /\ LogsIn \in [1 .. MaxBlock -> Seq(Tx)]
  /\ \A tx \in Tx : \E b \in 1 .. MaxBlock :
       BlocksOf(tx) = {b} /\ ReceiptBlock[tx] \in {0, b}
  /\ HasCallback \subseteq Tx
  /\ InitBlock \in Nat
  /\ Window \in Nat \ {0}
  /\ MaxFaults \in Nat
  /\ MaxDrops \in Nat

BlockOf(tx) == CHOOSE b \in 1 .. MaxBlock : b \in BlocksOf(tx)

VARIABLES
  head,        \* the last block mined
  startBlock,  \* what GetStartBlock returns
  cancelled,   \* ctx.Done() is closed
  faults,      \* failures so far
  pc,
  edges,       \* history: the last blocks of the queries
  from,        \* filterLogs' startBlock: next query starts there
  data,        \* the map data: transactions to push
  todo,        \* the transactions the current push still has to visit
  ret,         \* where the current push returns to
  pushing,     \* the transaction distributed but not yet checkpointed
  subscribed,  \* the node sends the logs of new blocks
  feed,        \* logs sent and not yet received from the channel logs
  distributed, \* history: how often a transaction was distributed, 2 for more
  discarded,   \* history: transactions a middleware refused
  dropped,     \* history: transactions with a log given up for its block
  drops,       \* history: number of logs given up
  gap,         \* history: mined after the last query, before a subscription
  resumedAt    \* history: highest block a run resumed at

chainVars == <<head, startBlock, cancelled, faults>>
subVars == <<subscribed, feed>>
pushVars == <<todo, ret, pushing>>
lossVars == <<edges, dropped, drops, gap, resumedAt>>
vars == <<chainVars, pc, from, data, pushVars, subVars, distributed,
          discarded, lossVars>>

Greater(a, b) == IF a < b THEN b ELSE a
TxBetween(a, b) == {tx \in Tx : a <= BlockOf(tx) /\ BlockOf(tx) <= b}

Init ==
  /\ head = 0 /\ startBlock = 0 /\ cancelled = FALSE /\ faults = 0
  /\ pc = "dial" /\ from = 0 /\ data = {}
  /\ todo = {} /\ ret = "drain" /\ pushing = NoTx
  /\ subscribed = FALSE /\ feed = <<>>
  /\ distributed = [tx \in Tx |-> 0] /\ discarded = {}
  /\ edges = {} /\ dropped = {} /\ drops = 0 /\ gap = {} /\ resumedAt = 0

-----------------------------------------------------------------------------
NewBlock ==
  /\ head < MaxBlock
  /\ head' = head + 1
  /\ feed' = IF subscribed THEN feed \o LogsIn[head + 1] ELSE feed
  /\ UNCHANGED <<startBlock, cancelled, faults, pc, from, data, pushVars,
                 subscribed, distributed, discarded, lossVars>>

Cancel ==
  /\ ~cancelled
  /\ cancelled' = TRUE
  /\ UNCHANGED <<head, startBlock, faults, pc, from, data, pushVars, subVars,
                 distributed, discarded, lossVars>>

(* DialContext and the choice of the first block.                          *)
Dial ==
  /\ pc = "dial"
  /\ ~cancelled
  /\ LET start == IF startBlock = 0 THEN InitBlock ELSE startBlock
     IN  /\ from' = start
         /\ resumedAt' = Greater(resumedAt, start)
  /\ pc' = "catchup"
  /\ UNCHANGED <<chainVars, data, pushVars, subVars, distributed, discarded,
                 edges, dropped, drops, gap>>

(* WipeBlock panics or returns an error, which util.Panic turns into a     *)
(* panic; the supervisor recovers it.                                      *)
Fail ==
  /\ pc' = "failed"
  /\ UNCHANGED <<head, startBlock, cancelled, from, data, pushVars, subVars,
                 distributed, discarded, lossVars>>

(* DialContext and SubscribeFilterLogs fail when the node does, and always *)
(* under a cancelled context.                                              *)
ConnectFails ==
  /\ pc \in {"dial", "subscribe"}
  /\ \/ cancelled /\ UNCHANGED faults
     \/ faults < MaxFaults /\ faults' = faults + 1
  /\ Fail

(* push(), entered with the keys of data.                                  *)
StartPush(keys, back) ==
  /\ todo' = keys
  /\ ret' = back
  /\ pc' = "push"

-----------------------------------------------------------------------------
(* filterLogs. *)

(* BlockNumber answered n.  Neither it nor the end of the loop looks at    *)
(* ctx; FilterLogs and BlockByNumber fail once ctx is cancelled.           *)
CaughtUp ==
  /\ pc = "catchup"
  /\ \E n \in 1 .. head : n <= from
  /\ pc' = "drain"
  /\ UNCHANGED <<chainVars, from, data, pushVars, subVars, distributed,
                 discarded, lossVars>>

(* Mutants: the last block of a window left out; two blocks shared.        *)
FilterLogsShort(n) ==
  LET end == IF n - from >= Window THEN from + Window ELSE n
  IN  /\ pc = "catchup" /\ from < n /\ ~cancelled
      /\ todo' = TxBetween(from, end - 1) \ data
      /\ from' = end + 1
      /\ edges' = edges \cup {end}
      /\ pc' = "collect"
      /\ UNCHANGED <<chainVars, data, ret, pushing, subVars, distributed,
                     discarded, dropped, drops, gap, resumedAt>>

FilterLogsOverlap(n) ==
  LET end == IF n - from >= Window THEN from + Window ELSE n
  IN  /\ pc = "catchup" /\ from < n /\ ~cancelled
      /\ todo' = TxBetween(from, end) \ data
      /\ from' = end - 1
      /\ edges' = edges \cup {end}
      /\ pc' = "collect"
      /\ UNCHANGED <<chainVars, data, ret, pushing, subVars, distributed,
                     discarded, dropped, drops, gap, resumedAt>>

FilterLogs(n) ==
  LET end == IF n - from >= Window THEN from + Window ELSE n
  IN  /\ pc = "catchup"
      /\ from < n
      /\ ~cancelled
      /\ todo' = TxBetween(from, end) \ data
      /\ from' = end
      /\ edges' = edges \cup {end}
      /\ pc' = "collect"
      /\ UNCHANGED <<chainVars, data, ret, pushing, subVars, distributed,
                     discarded, dropped, drops, gap, resumedAt>>

Query == \E n \in 1 .. head : FilterLogs(n)

(* BlockByNumber for the logs found; a log whose block cannot be read is   *)
(* passed over.                                                            *)
Collect ==
  /\ pc = "collect"
  /\ \E lost \in SUBSET todo :
       /\ \/ lost = {} /\ UNCHANGED drops
          \/ cancelled /\ UNCHANGED drops
          \/ drops < MaxDrops /\ drops' = drops + 1
       /\ dropped' = dropped \cup lost
       /\ data' = data \cup (todo \ lost)
       /\ StartPush(data', "catchup")
  /\ UNCHANGED <<chainVars, from, pushing, subVars, distributed, discarded,
                 edges, gap, resumedAt>>

(* Mutant: the transactions still without a receipt are left behind.       *)
DrainLeaves ==
  /\ pc = "drain"
  /\ pc' = "subscribe"
  /\ data' = {}
  /\ UNCHANGED <<chainVars, from, pushVars, subVars, distributed, discarded,
                 lossVars>>

Drain ==
  /\ pc = "drain"
  /\ \/ /\ data # {}
        /\ StartPush(data, "drain")
     \/ /\ data = {}
        /\ pc' = "subscribe"
        /\ UNCHANGED <<todo, ret>>
  /\ UNCHANGED <<chainVars, from, data, pushing, subVars, distributed,
                 discarded, lossVars>>

-----------------------------------------------------------------------------
(* push: visits the transactions of data in any order. *)

(* No receipt yet, or in the subscribing phase too young to be pushed.     *)
PushSkip(tx) ==
  /\ pc = "push" /\ tx \in todo
  /\ todo' = todo \ {tx}
  /\ UNCHANGED <<chainVars, pc, from, data, ret, pushing, subVars,
                 distributed, discarded, lossVars>>

(* RunBeforePushMiddleware, the application's code, decides.               *)
PushRefuse(tx) ==
  /\ pc = "push" /\ tx \in todo
  /\ discarded' = discarded \cup {tx}
  /\ data' = data \ {tx}
  /\ todo' = todo \ {tx}
  /\ UNCHANGED <<chainVars, pc, from, ret, pushing, subVars, distributed,
                 lossVars>>

PushDistribute(tx) ==
  /\ pc = "push" /\ tx \in todo \ HasCallback
  /\ distributed' = [distributed EXCEPT ![tx] = IF @ = 0 THEN 1 ELSE 2]
  /\ pushing' = tx
  /\ pc' = "checkpoint"
  /\ UNCHANGED <<chainVars, from, data, todo, ret, subVars, discarded,
                 lossVars>>

SetStartBlock ==
  /\ pc = "checkpoint"
  /\ startBlock' = ReceiptBlock[pushing]
  /\ data' = data \ {pushing}
  /\ todo' = todo \ {pushing}
  /\ pushing' = NoTx
  /\ pc' = "push"
  /\ UNCHANGED <<head, cancelled, faults, from, ret, subVars, distributed,
                 discarded, lossVars>>

(* ReceiptDistribution runs into the nil metrics.                          *)
PushNilMetrics(tx) ==
  /\ pc = "push" /\ tx \in todo \cap HasCallback
  /\ Fail
  /\ UNCHANGED faults

(* ReceiptLog failed ten times.                                            *)
PushPanic ==
  /\ pc = "push" /\ todo # {}
  /\ faults < MaxFaults
  /\ faults' = faults + 1
  /\ Fail

PushDone ==
  /\ pc = "push" /\ todo = {}
  /\ pc' = ret
  /\ UNCHANGED <<chainVars, from, data, pushVars, subVars, distributed,
                 discarded, lossVars>>

-----------------------------------------------------------------------------
(* The subscription. *)

(* What was mined since the last query is in no window and in no log.      *)
SubscribeFilterLogs ==
  /\ pc = "subscribe"
  /\ ~cancelled
  /\ subscribed' = TRUE
  /\ gap' = gap \cup (TxBetween(from + 1, head))
  /\ pc' = "select"
  /\ UNCHANGED <<chainVars, from, data, pushVars, feed, distributed,
                 discarded, edges, dropped, drops, resumedAt>>

RecvLog ==
  /\ pc = "select"
  /\ feed # <<>>
  /\ feed' = Tail(feed)
  /\ LET tx == Head(feed)
     IN  \/ /\ tx \in data \/ ~cancelled
            /\ data' = data \cup {tx}
            /\ UNCHANGED <<dropped, drops>>
         \/ /\ tx \notin data
            /\ cancelled \/ drops < MaxDrops
            /\ drops' = IF cancelled THEN drops ELSE drops + 1
            /\ dropped' = dropped \cup {tx}
            /\ UNCHANGED data
  /\ UNCHANGED <<chainVars, pc, from, pushVars, subscribed, distributed,
                 discarded, edges, gap, resumedAt>>

Tick ==
  /\ pc = "select"
  /\ data # {}
  /\ StartPush(data, "select")
  /\ UNCHANGED <<chainVars, from, data, pushing, subVars, distributed,
                 discarded, lossVars>>

(* The connection is lost: a last push, and the error is returned.         *)
SubErr ==
  /\ pc = "select"
  /\ faults < MaxFaults
  /\ faults' = faults + 1
  /\ subscribed' = FALSE
  /\ StartPush(data, "failed")
  /\ UNCHANGED <<head, startBlock, cancelled, from, data, pushing, feed, distributed,
                 discarded, lossVars>>

(* Mutant: a break that leaves the select and not the loop.                *)
UnsubscribeBreaks ==
  /\ pc = "select" /\ cancelled
  /\ subscribed' = FALSE
  /\ UNCHANGED <<chainVars, pc, from, data, pushVars, feed, distributed,
                 discarded, lossVars>>

Unsubscribe ==
  /\ pc = "select"
  /\ cancelled
  /\ subscribed' = FALSE
  /\ StartPush(data, "done")
  /\ UNCHANGED <<chainVars, from, data, pushing, feed, distributed,
                 discarded, lossVars>>

-----------------------------------------------------------------------------
Fresh ==
  /\ pc' = "dial"
  /\ data' = {} /\ todo' = {} /\ ret' = "drain" /\ pushing' = NoTx
  /\ subscribed' = FALSE /\ feed' = <<>>
  /\ UNCHANGED <<head, startBlock, from, distributed, discarded, lossVars>>

(* The supervisor's recursive call, with the same context.                 *)
Restart == pc = "failed" /\ Fresh /\ UNCHANGED <<cancelled, faults>>

(* The process ends at any point and is started again.                     *)
Crash ==
  /\ faults < MaxFaults
  /\ faults' = faults + 1
  /\ cancelled' = FALSE
  /\ Fresh

(* A receipt with logs is there.                                           *)
PushReceipt(tx) == PushRefuse(tx) \/ PushDistribute(tx) \/ PushNilMetrics(tx)

Next ==
  \/ NewBlock \/ Cancel
  \/ Dial \/ ConnectFails
  \/ CaughtUp \/ Query \/ Collect \/ Drain
  \/ \E tx \in Tx : PushSkip(tx) \/ PushReceipt(tx)
  \/ PushPanic \/ SetStartBlock \/ PushDone
  \/ SubscribeFilterLogs \/ RecvLog \/ Tick \/ SubErr \/ Unsubscribe
  \/ Restart \/ Crash

Spec == Init /\ [][Next]_vars

(* The goroutine runs; the node reports its head again and again, a        *)
(* receipt visited again and again is there at last (SF on PushReceipt),   *)
(* a ready case of the select is taken at some time.                       *)
Fairness ==
  /\ SF_vars(FilterLogs(head))
  /\ WF_vars(Dial \/ CaughtUp \/ Collect \/ Drain \/ SubscribeFilterLogs)
  /\ WF_vars(Restart \/ (cancelled /\ ConnectFails))
  /\ SF_vars(RecvLog) /\ SF_vars(Tick) /\ SF_vars(Unsubscribe)
  /\ WF_vars(SetStartBlock \/ PushDone)
  /\ \A tx \in Tx :
       /\ WF_vars(PushSkip(tx) \/ PushReceipt(tx))
       /\ SF_vars(PushReceipt(tx))

FairSpec == Spec /\ Fairness

-----------------------------------------------------------------------------
Settled(tx) == distributed[tx] > 0 \/ tx \in discarded

InFeed(tx) == \E k \in 1 .. Len(feed) : feed[k] = tx

InHand(tx) == tx \in data \/ (pc = "collect" /\ tx \in todo) \/ InFeed(tx)

(* WipeBlock has ended or is on its way out: what it did not come to is    *)
(* left to the next run, if there is one.                                  *)
Leaving ==
  \/ pc \in {"dial", "failed", "done"}
  \/ pc \in {"push", "checkpoint"} /\ ret \in {"failed", "done"}

Ahead(tx) ==
  Leaving \/ head < BlockOf(tx) \/ (~subscribed /\ from < BlockOf(tx))

(* The scan accounts for every transaction above the block it last resumed *)
(* at: settled, in hand, ahead of it - or lost in one of the two ways the  *)
(* code can lose one, because its block could not be read or because it    *)
(* was mined between the last query of filterLogs and the subscription.    *)
(* Windows, restarts and lost connections lose nothing.                    *)
LossesExplained ==
  \A tx \in Tx :
    resumedAt < BlockOf(tx) =>
      Settled(tx) \/ InHand(tx) \/ Ahead(tx) \/ tx \in dropped \/ tx \in gap

(* A transaction that selects a callback has been mined: distributing it   *)
(* runs into the nil metrics, in every run that comes to it.               *)
CallbackMined == \E tx \in HasCallback : BlockOf(tx) <= head

(* Without a failure, a transaction is distributed twice only if it lies   *)
(* in a block two queries of filterLogs share, or if it has several logs,  *)
(* of which the later ones can arrive after it was pushed.                 *)
DuplicatesAtEdges ==
  faults = 0 /\ ~CallbackMined =>
    \A tx \in Tx :
      distributed[tx] = 2 =>
        \/ BlockOf(tx) \in edges
        \/ \E j, k \in 1 .. Len(LogsIn[BlockOf(tx)]) :
             j # k /\ LogsIn[BlockOf(tx)][j] = tx /\ LogsIn[BlockOf(tx)][k] = tx

(* Every transaction mined is settled in the end, unless it is lost in one *)
(* of the ways above, lies at or below a start block read back, or the     *)
(* context is cancelled - and as long as no transaction with a callback    *)
(* makes every run panic.                                                  *)
EverySettles ==
  \A tx \in Tx :
    BlockOf(tx) <= head
      ~> (\/ Settled(tx) \/ tx \in dropped \cup gap
          \/ BlockOf(tx) <= resumedAt \/ cancelled \/ CallbackMined)

(* While it waits for logs, a cancelled WipeBlock returns (or a receipt    *)
(* that cannot be had makes it panic on the way).  During the catch-up it  *)
(* does not: FilterLogs is retried for ever.                               *)
CancelEndsSelect ==
  (pc = "select" /\ cancelled) ~> (pc \in {"done", "failed"} \/ ~cancelled)
=============================================================================
