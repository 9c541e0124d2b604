-------------------------- MODULE SubscriptionLink --------------------------
(***************************************************************************)
(* A subscription from end to end: the server's Notifier and the client's  *)
(* ClientSubscription over one connection.  The client's dispatch reads    *)
(* what the server has written, in order: first the answer to the          *)
(* subscribe call, which starts the subscription, then notifications and,  *)
(* at its place among them, the answer to the unsubscribe call that run    *)
(* makes.  That call is made by the client's send and write, as in         *)
(* RpcClient: it may fail to be written, move to a new connection, be cut  *)
(* off with the connection or be left without an answer.  Calls of others  *)
(* are not modelled here, nor what a new connection's server answers.      *)
(*                                                                         *)
(* The variables with a name of ClientSubscription are the client's; the   *)
(* server's are those of Notifier, with an s where the names clash.        *)
(***************************************************************************)
EXTENDS ClientSubscription

VARIABLES
  cpc, methodErr, created, callReturned, activated, sbuffer, published,
  serverSubs, serr, wire, writable, closed, supc,
  known,      \* dispatch has read the id and started the subscription
  answeredAt, \* messages on the wire up to the answer to unsubscribe, or 0
  req         \* the unsubscribe call: none, being written, spared by a lost
              \* connection while it is, sent, waiting for the answer,
              \* orphaned, moved to a new connection; ended with the
              \* connection, answered, failed

S == INSTANCE Notifier WITH buffer <- sbuffer, errChan <- serr, upc <- supc

serverVars == <<cpc, methodErr, created, callReturned, activated, sbuffer,
                published, serverSubs, serr, wire, writable, closed, supc>>
linkVars == <<known, answeredAt>>
allVars == <<vars, serverVars, linkVars, req>>

LinkInit ==
  Init /\ S!Init /\ known = FALSE /\ answeredAt = 0 /\ req = "none"

-----------------------------------------------------------------------------
(* The server. *)

ServerStep ==
  /\ S!Call \/ S!Notify \/ S!WritesFail \/ S!CloseBegins \/ S!CancelServerSubscriptions
  /\ UNCHANGED <<vars, linkVars, req>>

(* The unsubscribe call is served if it has been written; that of a client *)
(* that was closed may have been.  Its answer takes its place behind what  *)
(* has been written.                                                       *)
ServeUnsubscribe ==
  /\ req \in {"sent", "wait", "orphaned", "ended"}
  /\ S!Unsubscribe
  /\ answeredAt' = IF writable THEN Len(wire) ELSE 0
  /\ UNCHANGED <<vars, known, req>>

-----------------------------------------------------------------------------
(* The client. *)

(* handleResponse of the subscribe call; a refusal starts nothing.         *)
StartSubscription ==
  /\ ~known /\ dpc = "idle"
  /\ wire # <<>> /\ Head(wire) = S!Answer
  /\ known' = TRUE
  /\ UNCHANGED <<vars, serverVars, answeredAt, req>>

(* The next message on the wire is a notification.                         *)
ReadNote == read + 1 < Len(wire) /\ Notification

(* Mutant: the call waits on when the connection has ended.                *)
ConnectionEndsForgets(e) == Disconnect(e) /\ UNCHANGED req

(* The connection is lost or the client is closed: cancelAllRequests ends  *)
(* the call, but spares one that dispatch still has for the one being sent *)
(* when the connection is lost.  Nobody answers that one if it has been    *)
(* written.                                                                *)
ConnectionEnds(e) ==
  /\ Disconnect(e)
  /\ req' = IF e = "lost" /\ req = "write" THEN "spared"
            ELSE IF e = "lost" /\ req = "sent" THEN "orphaned"
            ELSE IF req \in {"write", "sent", "wait"} THEN "ended"
            ELSE req

-----------------------------------------------------------------------------
(* The unsubscribe call of run. *)

(* send: dispatch takes the request, when it is back in its loop, or has   *)
(* quit.                                                                   *)
SendUnsubscribe ==
  /\ req = "none" /\ fpc = "unsubscribe"
  /\ \/ cause # "quit" /\ dpc \in {"idle", "gone"} /\ req' = "write" /\ UNCHANGED vars
     \/ cause = "quit" /\ req' = "failed" /\ RequestUnsubscribe

(* The write succeeds, on a connection whose codec is not closed yet.      *)
Written ==
  /\ \/ req = "write" /\ dpc \notin {"close", "gone"} /\ req' = "sent"
     \/ req = "spared" /\ dpc = "close" /\ req' = "orphaned"
  /\ UNCHANGED vars

(* The write fails, by its deadline or with the connection, and so does    *)
(* the reconnect, or the second write.                                     *)
WriteFails ==
  /\ req \in {"write", "spared"}
  /\ req' = "failed"
  /\ RequestUnsubscribe

(* The write fails and the reconnect succeeds.  dispatch closes the old    *)
(* connection if it is still there, and takes the request along.           *)
Reconnect ==
  /\ req \in {"write", "spared"}
  /\ Disconnect("lost") \/ (dpc = "gone" /\ cause # "quit" /\ UNCHANGED vars)
  /\ req' = "moved"

(* dispatch learns of the write.                                           *)
HandleSent ==
  /\ req = "sent" /\ dpc = "idle"
  /\ req' = "wait"
  /\ UNCHANGED vars

(* Mutant: requestUnsubscribe sends a notification and does not wait.      *)
UnsubscribeNotified ==
  /\ req \in {"sent", "wait"}
  /\ req' = "answered"
  /\ RequestUnsubscribe

(* dispatch comes to the answer.                                           *)
UnsubscribeAnswered ==
  /\ req \in {"sent", "wait"} /\ dpc = "idle"
  /\ answeredAt > 0 /\ read + 1 >= answeredAt
  /\ req' = "answered"
  /\ RequestUnsubscribe

(* The call was ended with the connection, or is answered on another one.  *)
UnsubscribeEnded ==
  /\ req \in {"ended", "moved"}
  /\ RequestUnsubscribe
  /\ UNCHANGED req

Loop == In \/ QuitByClose \/ Report

ClientStep ==
  /\ known
  /\ \/ /\ \/ ReadNote \/ Unblocked \/ Loop \/ Forward \/ ReadErr
           \/ \E u \in Callers : Unsubscribe(u) \/ Quit(u) \/ Unsubscribed(u)
        /\ UNCHANGED req
     \/ \E e \in {"lost", "quit"} : ConnectionEnds(e)
     \/ SendUnsubscribe \/ Written \/ WriteFails \/ Reconnect \/ HandleSent
     \/ UnsubscribeAnswered \/ UnsubscribeEnded
  /\ UNCHANGED <<serverVars, linkVars>>

-----------------------------------------------------------------------------
LinkNext == ServerStep \/ ServeUnsubscribe \/ StartSubscription \/ ClientStep

Request(A) == known /\ A /\ UNCHANGED <<serverVars, linkVars>>
Client(A) == Request(A /\ UNCHANGED req)
Server(A) == A /\ UNCHANGED <<vars, linkVars, req>>

(* Goroutines that can go on do, on both ends, writes end by their         *)
(* deadline, and what is written is read while the connection is there.    *)
(* When one end has closed the connection the other comes to know of it.   *)
(* Nothing is assumed of a call that has moved to another connection.      *)
LinkFairness ==
  /\ WF_allVars(Server(S!Call \/ S!CancelServerSubscriptions))
  /\ WF_allVars(dpc = "gone" /\ Server(S!CloseBegins))
  /\ WF_allVars(dpc \notin {"close", "gone"} /\ ServeUnsubscribe)
  /\ WF_allVars(StartSubscription)
  /\ WF_allVars(Client(Unblocked)) /\ WF_allVars(Client(Loop))
  /\ WF_allVars(Client(ReadNote))
  /\ SF_allVars(Request(SendUnsubscribe)) /\ WF_allVars(Request(Written \/ WriteFails))
  /\ SF_allVars(Request(UnsubscribeAnswered))
  /\ WF_allVars(req = "ended" /\ Request(UnsubscribeEnded))
  /\ WF_allVars(closed = "closed" /\ Request(ConnectionEnds("lost")))
  /\ \A u \in Callers :
       /\ SF_allVars(Client(Quit(u)))
       /\ WF_allVars(Client(Unsubscribed(u)))
       /\ WF_allVars(once # "fresh" /\ Client(Unsubscribe(u)))

LinkSpec == LinkInit /\ [][LinkNext]_allVars /\ LinkFairness

-----------------------------------------------------------------------------
(* The id comes first, the subscriber sees what was published, in order    *)
(* and without a gap, and while writes succeed and the client's loop runs  *)
(* nothing is lost on the way: what it has not seen yet is in the client's *)
(* buffer, in dispatch's hand, on the wire or in the server's buffer.  A   *)
(* slow subscriber loses notifications only by losing the subscription.    *)
EndToEnd ==
  LET hand == IF dpc = "deliver" THEN <<read>> ELSE <<>>
      unread == SubSeq(wire, read + 2, Len(wire))
      held == IF activated THEN <<>> ELSE sbuffer
      all == received \o buffer \o hand \o unread \o held
  IN  /\ wire # <<>> => Head(wire) \in {S!Answer, S!Refusal}
      /\ InOrder
      /\ known /\ writable /\ fpc = "forward" => all = [k \in 1 .. published |-> k]

(* The server knows the id a client unsubscribes with, however soon after  *)
(* the answer to the subscribe call.                                       *)
UnsubscribeFinds == S!UnsubscribeFinds

(* An answer to the unsubscribe call means that the publisher on the       *)
(* server has been told.  While dispatch still reads this connection, run  *)
(* goes on only with that answer, or when the call could not be sent: the  *)
(* error is dropped, and then the publisher goes on as before.             *)
UnsubscribeReaches ==
  /\ req = "answered" => serr = "closed"
  /\ fpc \in {"report", "done"} /\ dpc \notin {"close", "gone"}
       => req \in {"answered", "failed"}

(* When the connection ends on the server, the publisher is told; and when *)
(* the subscriber has unsubscribed, the subscription has failed on the     *)
(* client or the connection has ended there, it is told as well, unless    *)
(* the unsubscribe call could not be sent.                                 *)
PublisherTold ==
  (created /\ (closed # "open" \/ ForwardDone))
    ~> (serr = "closed" \/ (closed = "open" /\ req = "failed"))

(* The unsubscribe call has no answer to come: it was written when the     *)
(* connection broke and is on nobody's table, it is on another connection, *)
(* or the server cannot write and yet does not close the connection.       *)
Unanswered ==
  \/ req \in {"orphaned", "moved"}
  \/ req \in {"sent", "wait"} /\ ~writable /\ closed = "open"

(* Every call of Unsubscribe returns, and sub.err is closed by then, but   *)
(* for one that waits forever on a call without an answer: requests are    *)
(* made without a deadline.                                                *)
UnsubscribeEnds ==
  LET inside == {u \in Callers : upc[u] \in {"select", "wait"}}
  IN  inside # {} ~> ((inside = {} /\ errClosed) \/ []Unanswered)
=============================================================================
