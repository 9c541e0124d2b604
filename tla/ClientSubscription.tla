------------------------- MODULE ClientSubscription -------------------------
(***************************************************************************)
(* One subscription of the JSON-RPC client, util/rpc/subscription.go: the  *)
(* client's dispatch goroutine hands it notifications and ends it when the *)
(* connection ends; its own goroutine (run) buffers them and forwards them *)
(* to the subscriber's channel; the subscriber receives them, at its own   *)
(* pace, and may call Unsubscribe, from several goroutines.                *)
(*                                                                         *)
(* Notifications are numbered in the order dispatch reads them.  Where     *)
(* they come from, and how the call that run makes to unsubscribe on the   *)
(* server comes to its answer or to an error, is in SubscriptionLink.      *)
(***************************************************************************)
EXTENDS Naturals, Sequences

CONSTANTS
  Callers,     \* goroutines that call Unsubscribe
  MaxBuffer,   \* maxClientSubscriptionBuffer, 20000 in the code
  Bad,         \* notifications that do not unmarshal
  MaxNotes     \* bound: notifications read

ASSUME ClientSubscriptionAssumptions ==
  /\ MaxBuffer \in Nat
  /\ MaxNotes \in Nat
  /\ Bad \subseteq 1 .. MaxNotes

VARIABLES
  read,      \* notifications dispatch has read
  dpc,       \* dispatch: idle, in deliver, in close, or done with it
  cause,     \* the error dispatch closes the subscription with
  fpc,       \* run: forwarding, unsubscribing, sending the error, done
  buffer,    \* forward's local of that name
  failure,   \* run's err
  received,  \* what the subscriber received
  upc,       \* per caller of Unsubscribe: where it is
  once,      \* errOnce: fresh, running or over
  errChan,   \* values in sub.err
  errClosed  \* sub.err is closed

vars == <<read, dpc, cause, fpc, buffer, failure, received, upc, once,
          errChan, errClosed>>

ForwardDone == fpc # "forward"
UnsubDone == fpc = "done"

Init ==
  /\ read = 0
  /\ dpc = "idle"
  /\ cause = "none"
  /\ fpc = "forward"
  /\ buffer = <<>>
  /\ failure = "none"
  /\ received = <<>>
  /\ upc = [u \in Callers |-> "idle"]
  /\ once = "fresh"
  /\ errChan = <<>>
  /\ errClosed = FALSE

-----------------------------------------------------------------------------
(* dispatch: handleSubscriptionResult and cancelAllRequests. *)

Notification ==
  /\ dpc = "idle" /\ read < MaxNotes
  /\ read' = read + 1
  /\ dpc' = "deliver"
  /\ UNCHANGED <<cause, fpc, buffer, failure, received, upc, once, errChan,
                 errClosed>>

(* The connection is lost, or the client is closed.                        *)
Disconnect(e) ==
  /\ dpc = "idle"
  /\ dpc' = "close"
  /\ cause' = e
  /\ UNCHANGED <<read, fpc, buffer, failure, received, upc, once, errChan,
                 errClosed>>

(* Mutant: deliver and close wait for unsubDone.                           *)
UnblockedLate ==
  /\ UnsubDone
  /\ \/ dpc = "deliver" /\ dpc' = "idle"
     \/ dpc = "close" /\ dpc' = "gone"
  /\ UNCHANGED <<read, cause, fpc, buffer, failure, received, upc, once,
                 errChan, errClosed>>

(* deliver and close find forwardDone closed.                              *)
Unblocked ==
  /\ ForwardDone
  /\ \/ dpc = "deliver" /\ dpc' = "idle"
     \/ dpc = "close" /\ dpc' = "gone"
  /\ UNCHANGED <<read, cause, fpc, buffer, failure, received, upc, once,
                 errChan, errClosed>>

-----------------------------------------------------------------------------
(* run and forward. *)

(* forward returns, and run closes forwardDone.                            *)
Leave(unsubscribe, e) ==
  /\ fpc' = IF unsubscribe THEN "unsubscribe" ELSE "report"
  /\ failure' = e

(* Mutants: the limit is off by one; a full buffer drops its oldest        *)
(* notification.                                                           *)
InLate ==
  /\ fpc = "forward" /\ dpc = "deliver"
  /\ dpc' = "idle"
  /\ \/ /\ read \in Bad
        /\ Leave(TRUE, "unmarshal") /\ UNCHANGED buffer
     \/ /\ read \notin Bad /\ Len(buffer) = MaxBuffer + 1
        /\ Leave(TRUE, "overflow") /\ UNCHANGED buffer
     \/ /\ read \notin Bad /\ Len(buffer) # MaxBuffer + 1
        /\ buffer' = Append(buffer, read) /\ UNCHANGED <<fpc, failure>>
  /\ UNCHANGED <<read, cause, received, upc, once, errChan, errClosed>>

InDrops ==
  /\ fpc = "forward" /\ dpc = "deliver"
  /\ dpc' = "idle"
  /\ buffer' = IF Len(buffer) = MaxBuffer THEN Append(Tail(buffer), read)
               ELSE Append(buffer, read)
  /\ UNCHANGED <<read, cause, fpc, failure, received, upc, once, errChan,
                 errClosed>>

(* case 1: <-sub.in *)
In ==
  /\ fpc = "forward" /\ dpc = "deliver"
  /\ dpc' = "idle"
  /\ \/ /\ read \in Bad
        /\ Leave(TRUE, "unmarshal")
        /\ UNCHANGED buffer
     \/ /\ read \notin Bad
        /\ Len(buffer) = MaxBuffer
        /\ Leave(TRUE, "overflow")
        /\ UNCHANGED buffer
     \/ /\ read \notin Bad
        /\ Len(buffer) # MaxBuffer
        /\ buffer' = Append(buffer, read)
        /\ UNCHANGED <<fpc, failure>>
  /\ UNCHANGED <<read, cause, received, upc, once, errChan, errClosed>>

(* case 0: <-sub.quit, sent by close *)
QuitByClose ==
  /\ fpc = "forward" /\ dpc = "close"
  /\ dpc' = "gone"
  /\ Leave(FALSE, cause)
  /\ UNCHANGED <<read, cause, buffer, received, upc, once, errChan,
                 errClosed>>

(* case 2: sub.channel<- *)
Forward ==
  /\ fpc = "forward" /\ buffer # <<>>
  /\ received' = Append(received, Head(buffer))
  /\ buffer' = Tail(buffer)
  /\ UNCHANGED <<read, dpc, cause, fpc, failure, upc, once, errChan,
                 errClosed>>

(* requestUnsubscribe returns; run does not look at its error.             *)
RequestUnsubscribe ==
  /\ fpc = "unsubscribe"
  /\ fpc' = "report"
  /\ UNCHANGED <<read, dpc, cause, buffer, failure, received, upc, once,
                 errChan, errClosed>>

(* The error is sent, ErrClientQuit as nil; unsubDone is closed.  sub.err  *)
(* has room for one value; a send on a closed channel panics.              *)
Report ==
  /\ fpc = "report"
  /\ \/ /\ failure = "none"
        /\ UNCHANGED errChan
     \/ /\ failure # "none"
        /\ ~errClosed /\ Len(errChan) < 1
        /\ errChan' = Append(errChan, IF failure = "quit" THEN "nil"
                                      ELSE failure)
  /\ fpc' = "done"
  /\ UNCHANGED <<read, dpc, cause, buffer, failure, received, upc, once,
                 errClosed>>

-----------------------------------------------------------------------------
(* The subscriber. *)

(* Mutant: Unsubscribe closes sub.err as soon as the loop has its request. *)
QuitClosesErr(u) ==
  /\ upc[u] = "select"
  /\ \/ /\ fpc = "forward"
        /\ Leave(TRUE, "none")
     \/ /\ fpc # "forward"
        /\ UNCHANGED <<fpc, failure>>
  /\ errClosed' = TRUE
  /\ upc' = [upc EXCEPT ![u] = "wait"]
  /\ UNCHANGED <<read, dpc, cause, buffer, received, once, errChan>>

(* Mutant: a flag instead of the sync.Once.                                *)
UnsubscribeFlag(u) ==
  /\ upc[u] = "idle"
  /\ once' = "running"
  /\ upc' = [upc EXCEPT ![u] = IF once = "fresh" THEN "select" ELSE "done"]
  /\ UNCHANGED <<read, dpc, cause, fpc, buffer, failure, received, errChan,
                 errClosed>>

(* errOnce.Do: the first caller runs the function, the others wait for it. *)
Unsubscribe(u) ==
  /\ upc[u] = "idle"
  /\ \/ /\ once = "fresh"
        /\ once' = "running"
        /\ upc' = [upc EXCEPT ![u] = "select"]
     \/ /\ once = "over"
        /\ upc' = [upc EXCEPT ![u] = "done"]
        /\ UNCHANGED once
  /\ UNCHANGED <<read, dpc, cause, fpc, buffer, failure, received, errChan,
                 errClosed>>

(* sub.quit <- errUnsubscribed, taken by case 0 of forward.                *)
Quit(u) ==
  /\ upc[u] = "select"
  /\ fpc = "forward"
  /\ Leave(TRUE, "none")
  /\ upc' = [upc EXCEPT ![u] = "wait"]
  /\ UNCHANGED <<read, dpc, cause, buffer, received, once, errChan,
                 errClosed>>

(* Mutant: the select has no case for a loop that is over.                 *)
UnsubscribedAfterQuit(u) ==
  /\ upc[u] = "wait"
  /\ UnsubDone
  /\ errClosed' = TRUE
  /\ once' = "over"
  /\ upc' = [upc EXCEPT ![u] = "done"]
  /\ UNCHANGED <<read, dpc, cause, fpc, buffer, failure, received, errChan>>

(* <-sub.unsubDone, in the select or after it.                             *)
Unsubscribed(u) ==
  /\ upc[u] \in {"select", "wait"}
  /\ UnsubDone
  /\ errClosed' = TRUE
  /\ once' = "over"
  /\ upc' = [upc EXCEPT ![u] = "done"]
  /\ UNCHANGED <<read, dpc, cause, fpc, buffer, failure, received, errChan>>

ReadErr ==
  /\ errChan # <<>>
  /\ errChan' = Tail(errChan)
  /\ UNCHANGED <<read, dpc, cause, fpc, buffer, failure, received, upc, once,
                 errClosed>>

-----------------------------------------------------------------------------
Next ==
  \/ Notification \/ (\E e \in {"lost", "quit"} : Disconnect(e)) \/ Unblocked
  \/ In \/ QuitByClose \/ Forward \/ RequestUnsubscribe \/ Report
  \/ \E u \in Callers : Unsubscribe(u) \/ Quit(u) \/ Unsubscribed(u)
  \/ ReadErr

Spec == Init /\ [][Next]_vars

-----------------------------------------------------------------------------
(* The send of run's error neither panics nor blocks: sub.err is open and  *)
(* empty at that point, whoever called Unsubscribe in the meantime.        *)
ErrSendSafe ==
  fpc = "report" /\ failure # "none" => ~errClosed /\ errChan = <<>>

(* The subscriber gets the notifications in the order dispatch read them,  *)
(* without a gap, and what waits for it stays within the buffer's limit.   *)
InOrder ==
  LET ahead == received \o buffer
  IN  (\A k \in 1 .. Len(ahead) : ahead[k] = k) /\ Len(buffer) <= MaxBuffer

(* After Unsubscribe has returned, to any of its callers, nothing is sent  *)
(* to the subscriber's channel and no error either.                        *)
QuietAfterUnsubscribe ==
  [][(\E u \in Callers : upc[u] = "done") =>
       received' = received /\ Len(errChan') <= Len(errChan)]_vars

(* dispatch never stays in deliver or close, however slow the subscriber   *)
(* is.                                                                     *)
DispatchFreed == dpc \in {"deliver", "close"} ~> dpc \in {"idle", "gone"}
=============================================================================
