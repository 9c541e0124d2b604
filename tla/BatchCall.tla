----------------------------- MODULE BatchCall -----------------------------
(***************************************************************************)
(* Client.BatchCallContext of util/rpc/client.go: a batch of N requests,   *)
(* the channel op.resp of capacity N that collects its answers, and the    *)
(* two ways they get there: from dispatch, over a connection, or from      *)
(* sendBatchHTTP, in the caller's own goroutine.  And Client.Notify over   *)
(* HTTP, whose op has no channel for the answer that sendHTTP decodes.     *)
(***************************************************************************)
EXTENDS Naturals, Sequences, Functions

CONSTANTS N,         \* len(b); the requests have the ids 1 .. N
          Responses  \* what the server may answer: sequences of ids

ASSUME BatchAssumptions ==
  /\ N \in Nat \ {0}
  /\ \A r \in Responses : r \in Seq(Nat)

VARIABLES
  isHTTP,   \* c.isHTTP
  notify,   \* the call is a Notify
  pc,       \* the caller: send, push (sendBatchHTTP), write, wait, timeout,
            \* done
  err,      \* what BatchCallContext returned: "" or an error
  elems,    \* the id of the answer that each element got, 0 for none
  received, \* answers taken from op.resp
  respWait, \* the ids that dispatch waits for
  resp,     \* op.resp
  closed,   \* op.resp is closed
  sending,  \* the batch is dispatch's lastOp: write under way, spared by
            \* cancelAllRequests then, nil or err in reqSent; else no
  conn,     \* dispatch's connection: up, lost (its read error handled), quit
  orphaned, \* history: written, and off dispatch's table with op.resp open
  sent,     \* history: what the server answers
  answers,  \* the answers that have not been read yet
  expired   \* the context is done

given == <<isHTTP, notify, sent>>
sendVars == <<sending, conn, orphaned>>
vars == <<given, pc, err, elems, received, respWait, resp, closed, answers,
          expired, sendVars>>

Elements == 1 .. N

(* What op.resp takes: nothing when it is the nil channel of a Notify.     *)
Capacity == IF notify THEN 0 ELSE N

Init ==
  /\ isHTTP \in BOOLEAN
  /\ notify \in BOOLEAN /\ (notify => isHTTP)
  /\ pc = "send"
  /\ err = ""
  /\ elems = [i \in Elements |-> 0]
  /\ received = 0
  /\ respWait = {}
  /\ resp = <<>>
  /\ closed = FALSE
  /\ sending = "no"
  /\ conn = "up"
  /\ orphaned = FALSE
  /\ sent \in Responses
  /\ answers = sent
  /\ expired = FALSE

Return(e) == pc' = "done" /\ err' = e

Expire ==
  /\ ~expired
  /\ expired' = TRUE
  /\ UNCHANGED <<pc, err, elems, received, respWait, resp, closed, answers, sendVars>>

-----------------------------------------------------------------------------
(* Over HTTP. *)

(* doRequest: the context bounds it.                                       *)
DoRequest ==
  /\ isHTTP /\ pc = "send"
  /\ \/ pc' = "push" /\ UNCHANGED err
     \/ Return("request failed")
  /\ UNCHANGED <<elems, received, respWait, resp, closed, answers, expired, sendVars>>

(* op.resp <- &respmsgs[i], which waits while the channel is full, and for *)
(* ever when there is none.                                                *)
Push ==
  /\ pc = "push" /\ answers # <<>>
  /\ Len(resp) < Capacity
  /\ resp' = Append(resp, Head(answers))
  /\ answers' = Tail(answers)
  /\ UNCHANGED <<pc, err, elems, received, respWait, closed, expired, sendVars>>

Pushed ==
  /\ pc = "push" /\ answers = <<>>
  /\ \/ ~notify /\ pc' = "wait" /\ UNCHANGED err
     \/ notify /\ Return("no answer to decode")
  /\ UNCHANGED <<elems, received, respWait, resp, closed, answers, expired, sendVars>>

-----------------------------------------------------------------------------
(* Over a connection: Client.send and Client.write against dispatch. *)

(* c.reqInit <- op: dispatch registers the ids, and takes no other request *)
(* until it has handled this one's reqSent.  Or the context ends first, or *)
(* the client quits.                                                       *)
Register ==
  /\ ~isHTTP /\ pc = "send"
  /\ \/ /\ conn # "quit"
        /\ pc' = "write"
        /\ respWait' = Elements
        /\ sending' = "write"
        /\ UNCHANGED err
     \/ Return("send failed") /\ UNCHANGED <<respWait, sending>>
  /\ UNCHANGED <<elems, received, resp, closed, answers, expired, conn, orphaned>>

(* The batch is on the wire and reqSent holds nil.  The codec is closed    *)
(* after cancelAllRequests, so that a write that it spared may still end   *)
(* well; one that begins later fails.                                      *)
Written ==
  /\ pc = "write" /\ (conn = "up" \/ sending = "spared")
  /\ pc' = "wait"
  /\ sending' = "nil"
  /\ orphaned' = (conn # "up" /\ ~closed)
  /\ UNCHANGED <<err, elems, received, respWait, resp, closed, answers, expired, conn>>

(* The write fails, and so does the attempt to write to a new connection.  *)
WriteFails ==
  /\ pc = "write"
  /\ Return("send failed")
  /\ sending' = "err"
  /\ UNCHANGED <<elems, received, respWait, resp, closed, answers, expired, conn, orphaned>>

(* Mutant: the request in flight is not registered again.                  *)
ReconnectForgets ==
  /\ pc = "write" /\ conn # "quit"
  /\ respWait' = {}
  /\ answers' = sent
  /\ sending' = "write"
  /\ conn' = "up"
  /\ UNCHANGED <<pc, err, elems, received, resp, closed, expired, orphaned>>

(* The write fails and Client.reconnect has a new connection: dispatch     *)
(* registers the batch there, where it is going to be written.             *)
Reconnect ==
  /\ pc = "write" /\ conn # "quit"
  /\ respWait' = Elements
  /\ answers' = sent
  /\ sending' = "write"
  /\ conn' = "up"
  /\ UNCHANGED <<pc, err, elems, received, resp, closed, expired, orphaned>>

(* dispatch receives from reqSent; a batch that was not written is off.    *)
HandleSent ==
  /\ sending \in {"nil", "err"} /\ conn # "quit"
  /\ sending' = "no"
  /\ respWait' = IF sending = "err" THEN {} ELSE respWait
  /\ UNCHANGED <<pc, err, elems, received, resp, closed, answers, expired, conn, orphaned>>

(* Mutant: the answer's id is not removed from respWait.                   *)
HandleResponseKeeps ==
  /\ ~isHTTP /\ pc \notin {"send", "write"} /\ conn = "up" /\ answers # <<>>
  /\ answers' = Tail(answers)
  /\ resp' = IF Head(answers) \in respWait THEN Append(resp, Head(answers)) ELSE resp
  /\ UNCHANGED <<pc, err, elems, received, respWait, closed, expired, sendVars>>

(* handleResponse: an answer nobody waits for is dropped.                  *)
HandleResponse ==
  /\ ~isHTTP /\ pc \notin {"send", "write"} /\ conn = "up" /\ answers # <<>>
  /\ answers' = Tail(answers)
  /\ respWait' = respWait \ {Head(answers)}
  /\ resp' = IF Head(answers) \in respWait THEN Append(resp, Head(answers)) ELSE resp
  /\ UNCHANGED <<pc, err, elems, received, closed, expired, sendVars>>

(* handler.cancelAllRequests: the ids are taken off the table, and op.resp *)
(* is closed, once, if an id was still waited for and the batch is not the *)
(* request in flight.                                                      *)
CancelAllRequests(inflight) ==
  /\ respWait' = {}
  /\ answers' = <<>>
  /\ closed' = (closed \/ (respWait # {} /\ ~inflight))
  /\ sending' = IF sending = "write" THEN "spared" ELSE sending

(* dispatch handles a read error; lastOp is the request in flight.  One    *)
(* that has been written already is not written again: it is orphaned.     *)
ConnectionLost ==
  /\ ~isHTTP /\ conn = "up"
  /\ conn' = "lost"
  /\ CancelAllRequests(sending # "no")
  /\ orphaned' = (orphaned \/ (sending = "nil" /\ respWait # {}))
  /\ UNCHANGED <<pc, err, elems, received, resp, expired>>

(* Mutant: the requests are left waiting.                                  *)
QuitLeaves ==
  /\ ~isHTTP /\ conn # "quit"
  /\ conn' = "quit"
  /\ UNCHANGED <<pc, err, elems, received, respWait, resp, closed, answers,
                 expired, sending, orphaned>>

(* dispatch returns: Client.Close.  It spares no request, but the requests *)
(* of a connection that was lost have been cancelled before.               *)
Quit ==
  /\ ~isHTTP /\ conn # "quit"
  /\ conn' = "quit"
  /\ \/ conn = "up" /\ CancelAllRequests(FALSE)
     \/ /\ conn = "lost"
        /\ sending' = IF sending = "spared" THEN "write" ELSE sending
        /\ UNCHANGED <<respWait, answers, closed>>
  /\ UNCHANGED <<pc, err, elems, received, resp, expired, orphaned>>

(* removeRequestOp for the batch that timed out; or the client has quit.   *)
Timeout ==
  /\ ~isHTTP /\ pc = "timeout"
  /\ respWait' = IF conn = "quit" THEN respWait ELSE {}
  /\ Return("context")
  /\ UNCHANGED <<elems, received, resp, closed, answers, expired, sendVars>>

-----------------------------------------------------------------------------
(* The loop that waits for the answers: requestOp.wait. *)

(* The element that an answer belongs to: byID is a Go map and yields the  *)
(* first element for an id that is not one of ours.                        *)
byID(id) == IF id \in Elements THEN id ELSE 1

(* Mutant: the answers are taken to be in the order of the requests.       *)
ReceiveInOrder ==
  /\ pc = "wait" /\ received < N /\ resp # <<>>
  /\ elems' = [elems EXCEPT ![received + 1] = Head(resp)]
  /\ resp' = Tail(resp)
  /\ received' = received + 1
  /\ UNCHANGED <<pc, err, respWait, closed, answers, expired, sendVars>>

Receive ==
  /\ pc = "wait" /\ received < N /\ resp # <<>> /\ ~closed
  /\ elems' = [elems EXCEPT ![byID(Head(resp))] = Head(resp)]
  /\ resp' = Tail(resp)
  /\ received' = received + 1
  /\ UNCHANGED <<pc, err, respWait, closed, answers, expired, sendVars>>

(* Once op.err is set it is returned with whatever op.resp still yields.   *)
ReceiveClosed ==
  /\ pc = "wait" /\ received < N /\ closed
  /\ Return("connection lost")
  /\ resp' = IF resp = <<>> THEN resp ELSE Tail(resp)
  /\ UNCHANGED <<elems, received, respWait, closed, answers, expired, sendVars>>

(* Mutants: the context is not looked at over a connection; the time-out   *)
(* is handed to dispatch over HTTP too, where there is none.               *)
WaitExpiresHttp ==
  /\ pc = "wait" /\ received < N /\ expired
  /\ isHTTP /\ Return("context")
  /\ UNCHANGED <<elems, received, respWait, resp, closed, answers, expired, sendVars>>

WaitExpiresHands ==
  /\ pc = "wait" /\ received < N /\ expired
  /\ pc' = "timeout"
  /\ UNCHANGED <<err, elems, received, respWait, resp, closed, answers, expired, sendVars>>

WaitExpires ==
  /\ pc = "wait" /\ received < N /\ expired
  /\ \/ ~isHTTP /\ pc' = "timeout" /\ UNCHANGED err
     \/ isHTTP /\ Return("context")
  /\ UNCHANGED <<elems, received, respWait, resp, closed, answers, expired, sendVars>>

(* Mutant: the loop ends one answer early.                                 *)
AllReceivedShort ==
  /\ pc = "wait" /\ received >= N - 1
  /\ Return("")
  /\ UNCHANGED <<elems, received, respWait, resp, closed, answers, expired, sendVars>>

AllReceived ==
  /\ pc = "wait" /\ received = N
  /\ Return("")
  /\ UNCHANGED <<elems, received, respWait, resp, closed, answers, expired, sendVars>>

-----------------------------------------------------------------------------
Caller ==
  \/ DoRequest \/ Push \/ Pushed \/ Register \/ Written \/ WriteFails
  \/ Receive \/ ReceiveClosed \/ WaitExpires \/ AllReceived

Next ==
  /\ \/ Expire \/ Caller \/ Reconnect \/ Timeout
     \/ HandleSent \/ HandleResponse \/ ConnectionLost \/ Quit
  /\ UNCHANGED given

Spec == Init /\ [][Next]_vars

(* The caller goes on when it can (a write has a deadline and is tried     *)
(* again only once), and dispatch takes its time-out.  The server need not *)
(* answer and the context need not end.                                    *)
FairSpec == Spec /\ WF_vars(Caller /\ UNCHANGED given) /\ WF_vars(Timeout /\ UNCHANGED given)

-----------------------------------------------------------------------------
(* An element is given the answer to its own request, whatever the server  *)
(* sends twice, leaves out or invents, and when BatchCallContext returns   *)
(* nil every element has had its answer.  Over HTTP, where nothing checks  *)
(* the ids, only if the server invents none (byID yields the first element *)
(* for it) and, for the second, repeats none.                              *)
ElementsOwn ==
  (isHTTP => Range(sent) \subseteq Elements) =>
    \A i \in Elements :
      \/ elems[i] = i
      \/ elems[i] = 0 /\ (pc = "done" /\ err = "" => isHTTP /\ ~IsInjective(sent))

(* BatchCallContext returns once its context is done: the wait is bounded  *)
(* by the context's deadline (comment of BatchCallContext), except when an *)
(* HTTP server sends more answers than op.resp holds.  So does Notify,     *)
(* except when an HTTP server answers it.  A batch whose connection is     *)
(* lost, or whose client quits, returns even if its context never ends,    *)
(* with one exception: a batch that was written, and whose reqSent         *)
(* dispatch had not handled when it handled the read error, is spared as   *)
(* the request in flight, but taken off the table all the same.  It waits  *)
(* for its context.                                                        *)
WaitBounded ==
  \/ expired /\ (isHTTP => Len(sent) <= Capacity)
  \/ ~isHTTP /\ pc = "wait" /\ conn # "up" /\ ~orphaned
  ~> pc = "done"
=============================================================================
