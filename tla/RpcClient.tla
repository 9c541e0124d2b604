----------------------------- MODULE RpcClient -----------------------------
(***************************************************************************)
(* The connection-oriented JSON-RPC client, util/rpc/client.go with the    *)
(* client half of util/rpc/handler.go: callers that send requests and wait *)
(* for the answers, the dispatch goroutine that owns the table of pending  *)
(* requests, the read goroutine of the current connection, and Close.      *)
(*                                                                         *)
(* A request is one CallContext or, for Subs, one Subscribe, with one id.  *)
(* Unbuffered channels are rendezvous of the two goroutines.  The network  *)
(* and the server are external: a request written on a connection that is  *)
(* up is answered at most once, on that connection; a write that reports   *)
(* an error has not reached the server; once the connection is broken a    *)
(* write may still report success.                                         *)
(***************************************************************************)
EXTENDS Naturals

CONSTANTS
  Ops,        \* requests, each made once
  Subs,       \* those made by Subscribe
  NoOp,
  Reconnects, \* reconnectFunc is set
  MaxConns    \* bound: connections made

ASSUME RpcClientAssumptions ==
  /\ NoOp \notin Ops
  /\ Subs \subseteq Ops
  /\ Reconnects \in BOOLEAN
  /\ MaxConns \in Nat \ {0}

VARIABLES
  pc,         \* per request: where its caller is
  result,     \* per request: what the caller returned
  expired,    \* requests whose ctx is done
  resp,       \* per request: op.resp: open, holding an answer, closed
  err,        \* per request: op.err is set
  retry,      \* the writer's parameter retry
  writeConn,  \* the connection to write on, 0 for nil
  dialled,    \* number of connections made
  link,       \* per connection: up, broken by the network, closed by us
  asked,      \* <<connection, request>>: received by the server, unanswered
  reader,     \* the read goroutine: none, reading, holding msg or err
  got,        \* the request whose answer the reader holds
  dpc,        \* dispatch: loop, moving to a connection, closing, quit
  conn,       \* dispatch: number of the connection
  newcodec,   \* dispatch: the connection it moves to
  reading,    \* dispatch: local of that name
  locked,     \* dispatch: reqInitLock is nil
  lastOp,     \* dispatch: local of that name
  reqSent,    \* the buffered channel: none, nil or err
  respWait,   \* the handler's table of pending requests
  clientSubs, \* the handler's table of subscriptions
  closer,     \* the caller of Close
  orphaned    \* history: in flight when a read error was handled

callerVars == <<pc, result, expired>>
opVars == <<resp, err>>
netVars == <<dialled, link, asked>>
readVars == <<reader, got>>
handlerVars == <<respWait, clientSubs>>
dispatchVars == <<dpc, conn, newcodec, reading, locked, lastOp>>
vars == <<callerVars, opVars, retry, writeConn, netVars, readVars,
          dispatchVars, reqSent, handlerVars, closer, orphaned>>

Conns == 1 .. MaxConns

Init ==
  /\ pc = [op \in Ops |-> "idle"]
  /\ result = [op \in Ops |-> "none"]
  /\ expired = {}
  /\ resp = [op \in Ops |-> "open"]
  /\ err = [op \in Ops |-> FALSE]
  /\ retry = FALSE
  /\ writeConn = 1
  /\ dialled = 1
  /\ link = [c \in Conns |-> "up"]
  /\ asked = {}
  /\ reader = "reading"
  /\ got = NoOp
  /\ dpc = "loop"
  /\ conn = 1
  /\ newcodec = 1
  /\ reading = TRUE
  /\ locked = FALSE
  /\ lastOp = NoOp
  /\ reqSent = "none"
  /\ respWait = {}
  /\ clientSubs = {}
  /\ closer = "idle"
  /\ orphaned = {}

Closing == dpc \in {"closing", "quit"}  \* c.closing is closed
DidClose == dpc = "quit"                \* c.didClose is closed

-----------------------------------------------------------------------------
(* The environment. *)

Expire(op) ==
  /\ op \notin expired /\ pc[op] # "done"
  /\ expired' = expired \cup {op}
  /\ UNCHANGED <<pc, result, opVars, retry, writeConn, netVars, readVars,
                 dispatchVars, reqSent, handlerVars, closer, orphaned>>

Break(c) ==
  /\ c <= dialled /\ link[c] = "up"
  /\ link' = [link EXCEPT ![c] = "broken"]
  /\ UNCHANGED <<callerVars, opVars, retry, writeConn, dialled, asked,
                 readVars, dispatchVars, reqSent, handlerVars, closer,
                 orphaned>>

-----------------------------------------------------------------------------
(* The caller: send, write, reconnect, wait. *)

Finish(op, r) ==
  /\ pc' = [pc EXCEPT ![op] = "done"]
  /\ result' = [result EXCEPT ![op] = r]
  /\ UNCHANGED expired

(* Mutant: reqInitLock is left in place while a request is written.        *)
SendUnlocked(op) ==
  /\ pc[op] = "idle"
  /\ dpc = "loop"
  /\ locked' = TRUE
  /\ lastOp' = op
  /\ respWait' = respWait \cup {op}
  /\ pc' = [pc EXCEPT ![op] = "write"]
  /\ retry' = FALSE
  /\ UNCHANGED <<result, expired, opVars, writeConn, netVars, readVars, dpc,
                 conn, newcodec, reading, reqSent, clientSubs, closer, orphaned>>

(* c.reqInit <- op, and what dispatch does with it.                        *)
Send(op) ==
  /\ pc[op] = "idle"
  /\ dpc = "loop" /\ ~locked
  /\ locked' = TRUE
  /\ lastOp' = op
  /\ respWait' = respWait \cup {op}
  /\ pc' = [pc EXCEPT ![op] = "write"]
  /\ retry' = FALSE
  /\ UNCHANGED <<result, expired, opVars, writeConn, netVars, readVars, dpc,
                 conn, newcodec, reading, reqSent, clientSubs, closer, orphaned>>

SendGivesUp(op) ==
  /\ pc[op] = "idle"
  /\ \/ op \in expired /\ Finish(op, "ctx")
     \/ Closing /\ Finish(op, "quit")
  /\ UNCHANGED <<opVars, retry, writeConn, netVars, readVars, dispatchVars,
                 reqSent, handlerVars, closer, orphaned>>

(* c.reqSent <- err: the channel has room for one.                         *)
SendFails(op, r) ==
  /\ reqSent' = "err"
  /\ Finish(op, r)

WriteOK(op) ==
  /\ pc[op] = "write" /\ writeConn # 0
  /\ link[writeConn] \in {"up", "broken"}
  /\ asked' = IF link[writeConn] = "up" THEN asked \cup {<<writeConn, op>>}
              ELSE asked
  /\ reqSent' = "nil"
  /\ pc' = [pc EXCEPT ![op] = "wait"]
  /\ UNCHANGED <<result, expired, opVars, retry, writeConn, dialled, link,
                 readVars, dispatchVars, handlerVars, closer, orphaned>>

(* A failed write is tried once more, on a new connection.                 *)
WriteFails(op) ==
  /\ pc[op] = "write" /\ writeConn # 0
  /\ link[writeConn] # "up"
  /\ writeConn' = 0
  /\ \/ /\ ~retry
        /\ retry' = TRUE
        /\ UNCHANGED <<callerVars, reqSent>>
     \/ /\ retry
        /\ SendFails(op, "error")
        /\ UNCHANGED retry
  /\ UNCHANGED <<opVars, netVars, readVars, dispatchVars, handlerVars,
                 closer, orphaned>>

(* reconnectFunc. *)
Dial(op) ==
  /\ pc[op] = "write" /\ writeConn = 0
  /\ Reconnects
  /\ dialled < MaxConns
  /\ dialled' = dialled + 1
  /\ pc' = [pc EXCEPT ![op] = "reconnect"]
  /\ UNCHANGED <<result, expired, opVars, retry, writeConn, link, asked,
                 readVars, dispatchVars, reqSent, handlerVars, closer,
                 orphaned>>

DialFails(op) ==
  /\ pc[op] = "write" /\ writeConn = 0
  /\ SendFails(op, "error")
  /\ UNCHANGED <<opVars, retry, writeConn, netVars, readVars, dispatchVars,
                 handlerVars, closer, orphaned>>

(* Mutant: the in-flight request is ended too and then registered again.   *)
CloseConnAll(inflight) ==
  /\ resp' = [op \in Ops |-> IF op \in respWait THEN "closed" ELSE resp[op]]
  /\ err' = [op \in Ops |-> err[op] \/ op \in respWait]
  /\ link' = [link EXCEPT ![conn] = "closed"]
  /\ clientSubs' = {}

(* handler.cancelAllRequests and codec.close of dispatch's connection: all *)
(* pending requests but the one in flight are ended and subscriptions are  *)
(* closed.  The one in flight is taken off the table like the others.      *)
CloseConn(inflight) ==
  /\ resp' = [op \in Ops |-> IF op \in respWait \ {inflight} THEN "closed"
                             ELSE resp[op]]
  /\ err' = [op \in Ops |-> err[op] \/ op \in respWait \ {inflight}]
  /\ link' = [link EXCEPT ![conn] = "closed"]
  /\ clientSubs' = {}

(* Mutant: the request in flight is not registered again.                  *)
AdoptForgets(c) ==
  /\ conn' = c
  /\ reading' = TRUE
  /\ reader' = "reading"
  /\ respWait' = {}
  /\ dpc' = "loop"

(* The new connection becomes dispatch's: a new read loop and handler.     *)
Adopt(c) ==
  /\ conn' = c
  /\ reading' = TRUE
  /\ reader' = "reading"
  /\ respWait' = {lastOp}
  /\ dpc' = "loop"

(* c.reconnected <- newconn.  If the read loop of the old connection still *)
(* runs, dispatch ends it first; the writer goes on at once.               *)
Reconnect(op) ==
  /\ pc[op] = "reconnect"
  /\ dpc = "loop"
  /\ newcodec' = dialled
  /\ writeConn' = dialled
  /\ pc' = [pc EXCEPT ![op] = "write"]
  /\ \/ /\ reading
        /\ CloseConn(lastOp)
        /\ respWait' = {}
        /\ dpc' = "moving"
        /\ UNCHANGED <<conn, reading, reader>>
     \/ /\ ~reading
        /\ Adopt(dialled)
        /\ UNCHANGED <<opVars, link, clientSubs>>
  /\ UNCHANGED <<result, expired, retry, dialled, asked, got, locked, lastOp,
                 reqSent, closer, orphaned>>

ReconnectQuits(op) ==
  /\ pc[op] = "reconnect"
  /\ DidClose
  /\ link' = [link EXCEPT ![dialled] = "closed"]
  /\ SendFails(op, "quit")
  /\ UNCHANGED <<opVars, retry, writeConn, dialled, asked, readVars,
                 dispatchVars, handlerVars, closer, orphaned>>

(* op.wait: the answer, or the closed channel and op.err.                  *)
Receive(op) ==
  /\ pc[op] = "wait"
  /\ resp[op] # "open"
  /\ Finish(op, IF err[op] THEN "error" ELSE "ok")
  /\ UNCHANGED <<opVars, retry, writeConn, netVars, readVars, dispatchVars,
                 reqSent, handlerVars, closer, orphaned>>

WaitExpires(op) ==
  /\ pc[op] = "wait"
  /\ op \in expired
  /\ pc' = [pc EXCEPT ![op] = "timeout"]
  /\ UNCHANGED <<result, expired, opVars, retry, writeConn, netVars, readVars,
                 dispatchVars, reqSent, handlerVars, closer, orphaned>>

(* Mutant: the timeout is sent without looking at c.closing.               *)
TimeoutOnly(op) ==
  /\ pc[op] = "timeout"
  /\ dpc = "loop"
  /\ respWait' = respWait \ {op}
  /\ Finish(op, "ctx")
  /\ UNCHANGED <<opVars, retry, writeConn, netVars, readVars, dispatchVars,
                 reqSent, clientSubs, closer, orphaned>>

(* c.reqTimeout <- op, or c.closing is closed.                             *)
Timeout(op) ==
  /\ pc[op] = "timeout"
  /\ \/ /\ dpc = "loop"
        /\ respWait' = respWait \ {op}
     \/ /\ Closing
        /\ UNCHANGED respWait
  /\ Finish(op, "ctx")
  /\ UNCHANGED <<opVars, retry, writeConn, netVars, readVars, dispatchVars,
                 reqSent, clientSubs, closer, orphaned>>

-----------------------------------------------------------------------------
(* The read loop. *)

Read ==
  /\ reader = "reading"
  /\ link[conn] # "closed"
  /\ \E a \in asked :
       /\ a[1] = conn
       /\ got' = a[2]
       /\ asked' = asked \ {a}
  /\ reader' = "msg"
  /\ UNCHANGED <<callerVars, opVars, retry, writeConn, dialled, link,
                 dispatchVars, reqSent, handlerVars, closer, orphaned>>

ReadFails ==
  /\ reader = "reading"
  /\ link[conn] # "up"
  /\ reader' = "err"
  /\ UNCHANGED <<callerVars, opVars, retry, writeConn, netVars, got,
                 dispatchVars, reqSent, handlerVars, closer, orphaned>>

-----------------------------------------------------------------------------
(* dispatch. *)

(* Mutant: a subscription is started although the answer is an error.      *)
HandleResponseStarts ==
  /\ dpc = "loop" /\ reader = "msg"
  /\ reader' = "reading" /\ got' = NoOp
  /\ got \in respWait \cap Subs
  /\ respWait' = respWait \ {got}
  /\ resp' = [resp EXCEPT ![got] = "closed"]
  /\ err' = [err EXCEPT ![got] = TRUE]
  /\ clientSubs' = clientSubs \cup {got}
  /\ UNCHANGED <<callerVars, retry, writeConn, netVars, dispatchVars,
                 reqSent, closer, orphaned>>

(* handleResponse.  For a subscription the answer is a subscription id or  *)
(* an error, and op.resp is closed.                                        *)
HandleResponse ==
  /\ dpc = "loop" /\ reader = "msg"
  /\ reader' = "reading" /\ got' = NoOp
  /\ respWait' = respWait \ {got}
  /\ \/ /\ got \notin respWait
        /\ UNCHANGED <<opVars, clientSubs>>
     \/ /\ got \in respWait \ Subs
        /\ resp' = [resp EXCEPT ![got] = "msg"]
        /\ UNCHANGED <<err, clientSubs>>
     \/ /\ got \in respWait \cap Subs
        /\ resp' = [resp EXCEPT ![got] = "closed"]
        /\ \/ clientSubs' = clientSubs \cup {got} /\ UNCHANGED err
           \/ err' = [err EXCEPT ![got] = TRUE] /\ UNCHANGED clientSubs
  /\ UNCHANGED <<callerVars, retry, writeConn, netVars, dispatchVars, reqSent,
                 closer, orphaned>>

HandleReadErr ==
  /\ dpc = "loop" /\ reader = "err"
  /\ reader' = "none"
  /\ reading' = FALSE
  /\ CloseConn(lastOp)
  /\ respWait' = {}
  /\ orphaned' = orphaned \cup (respWait \cap {lastOp})
  /\ UNCHANGED <<callerVars, retry, writeConn, dialled, asked, got, dpc, conn,
                 newcodec, locked, lastOp, reqSent, closer>>

(* Mutant: the request is taken off the table when it has been sent.       *)
HandleSentRemoves ==
  /\ dpc = "loop" /\ reqSent # "none"
  /\ respWait' = respWait \ {lastOp}
  /\ reqSent' = "none"
  /\ locked' = FALSE
  /\ lastOp' = NoOp
  /\ UNCHANGED <<callerVars, opVars, retry, writeConn, netVars, readVars, dpc,
                 conn, newcodec, reading, clientSubs, closer, orphaned>>

HandleSent ==
  /\ dpc = "loop" /\ reqSent # "none"
  /\ respWait' = IF reqSent = "err" THEN respWait \ {lastOp} ELSE respWait
  /\ reqSent' = "none"
  /\ locked' = FALSE
  /\ lastOp' = NoOp
  /\ UNCHANGED <<callerVars, opVars, retry, writeConn, netVars, readVars, dpc,
                 conn, newcodec, reading, clientSubs, closer, orphaned>>

(* Mutant: Close spares the request in flight, as a reconnect does.        *)
CloseSpares ==
  /\ closer = "idle"
  /\ dpc = "loop"
  /\ closer' = "wait"
  /\ \/ /\ reading
        /\ CloseConn(lastOp)
        /\ respWait' = {}
        /\ dpc' = "closing"
     \/ /\ ~reading
        /\ dpc' = "quit"
        /\ UNCHANGED <<opVars, link, handlerVars>>
  /\ UNCHANGED <<callerVars, retry, writeConn, dialled, asked, readVars, conn,
                 newcodec, reading, locked, lastOp, reqSent, orphaned>>

(* c.close <- struct{}{}, and dispatch's deferred function.                *)
Close ==
  /\ closer = "idle"
  /\ dpc = "loop"
  /\ closer' = "wait"
  /\ \/ /\ reading
        /\ CloseConn(NoOp)
        /\ respWait' = {}
        /\ dpc' = "closing"
     \/ /\ ~reading
        /\ dpc' = "quit"
        /\ UNCHANGED <<opVars, link, handlerVars>>
  /\ UNCHANGED <<callerVars, retry, writeConn, dialled, asked, readVars, conn,
                 newcodec, reading, locked, lastOp, reqSent, orphaned>>

CloseReturn ==
  /\ closer = "wait"
  /\ DidClose
  /\ closer' = "done"
  /\ UNCHANGED <<callerVars, opVars, retry, writeConn, netVars, readVars,
                 dispatchVars, reqSent, handlerVars, orphaned>>

(* drainRead: answers are dropped until the read loop ends.                *)
DrainRead ==
  /\ dpc \in {"moving", "closing"}
  /\ \/ /\ reader = "msg"
        /\ reader' = "reading" /\ got' = NoOp
        /\ UNCHANGED <<dpc, conn, reading, respWait>>
     \/ /\ reader = "err" /\ dpc = "moving"
        /\ Adopt(newcodec)
        /\ UNCHANGED got
     \/ /\ reader = "err" /\ dpc = "closing"
        /\ reader' = "none" /\ dpc' = "quit"
        /\ UNCHANGED <<got, conn, reading, respWait>>
  /\ UNCHANGED <<callerVars, opVars, retry, writeConn, netVars, newcodec,
                 locked, lastOp, reqSent, clientSubs, closer, orphaned>>

-----------------------------------------------------------------------------
Caller(op) ==
  \/ Send(op) \/ SendGivesUp(op) \/ WriteOK(op) \/ WriteFails(op) \/ Dial(op)
  \/ DialFails(op) \/ Reconnect(op) \/ ReconnectQuits(op) \/ Receive(op)
  \/ WaitExpires(op) \/ Timeout(op)

Dispatch ==
  HandleResponse \/ HandleReadErr \/ HandleSent \/ DrainRead

Next ==
  \/ \E op \in Ops : Caller(op) \/ Expire(op)
  \/ \E c \in Conns : Break(c)
  \/ Read \/ ReadFails
  \/ Dispatch
  \/ Close \/ CloseReturn

Spec == Init /\ [][Next]_vars

(* Every goroutine that can go on does.  Neither the server nor the        *)
(* network owes anything: no answer need come, no connection need break.   *)
Fairness ==
  /\ \A op \in Ops : WF_vars(Caller(op))
  /\ WF_vars(ReadFails)
  /\ WF_vars(Dispatch)
  /\ WF_vars(CloseReturn)

FairSpec == Spec /\ Fairness

-----------------------------------------------------------------------------
(* The channel of every pending request is open and empty: neither         *)
(* handleResponse nor cancelAllRequests closes a channel twice, sends on a *)
(* closed one, or blocks dispatch on a full one - also when the request in *)
(* flight is moved to a new connection.                                    *)
PendingOpen == \A op \in respWait : resp[op] = "open"

(* There is one writer: whoever writes or reconnects is dispatch's lastOp, *)
(* so that the request registered on a new connection is the one written   *)
(* on it.                                                                  *)
WriterIsLastOp ==
  \A op \in Ops :
    pc[op] \in {"write", "reconnect"} =>
      locked /\ lastOp = op /\ reqSent = "none"

(* An answer is never thrown away while its caller waits for it: the       *)
(* request is in the table when dispatch comes to the answer.              *)
AnswerFindsCaller ==
  dpc = "loop" /\ reader = "msg" /\ pc[got] = "wait" => got \in respWait

(* A caller that waits is in the table or has its answer, or is being      *)
(* moved to a new connection.  The one exception: its request was written  *)
(* while dispatch handled the read error of that connection.               *)
WaitersKnown ==
  \A op \in Ops :
    pc[op] = "wait" /\ resp[op] = "open" =>
      \/ op \in respWait
      \/ dpc = "moving" /\ lastOp = op
      \/ op \in orphaned

(* A subscription runs only for a caller that has it or is about to get    *)
(* it, or whose context ended first: then it has no owner, and runs on     *)
(* until the connection ends.                                              *)
SubsOwned ==
  \A op \in clientSubs : result[op] \in {"none", "ok"} \/ op \in expired

(* CallContext and Subscribe return when their ctx is done.                *)
ExpiredReturns == \A op \in Ops : op \in expired ~> pc[op] = "done"

(* Close returns, and all callers return after it, with the exception of   *)
(* WaitersKnown.                                                           *)
CloseEnds ==
  /\ closer = "wait" ~> closer = "done"
  /\ \A op \in Ops : DidClose ~> (pc[op] = "done" \/ op \in orphaned)
=============================================================================
