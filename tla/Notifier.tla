------------------------------ MODULE Notifier ------------------------------
(***************************************************************************)
(* The server's side of one subscription, util/rpc/subscription.go and     *)
(* handler.go: the call goroutine that serves the *_subscribe request, the *)
(* application's publisher that calls Notify, the call goroutine that      *)
(* serves the client's *_unsubscribe, and dispatch closing the connection. *)
(*                                                                         *)
(* The subscribe method may fail before it creates a subscription or after *)
(* it; one that succeeds has created it.  Messages are written under the codec's   *)
(* lock, in the order of wire.  Once a write has failed, all later ones    *)
(* fail too; reading may still work.                                       *)
(***************************************************************************)
EXTENDS Naturals, Sequences

CONSTANTS MaxNotes \* bound: notifications published

VARIABLES
  cpc,          \* the subscribe call: method, returned, added, answered, done
  methodErr,    \* the method returned an error
  created,      \* n.sub is set
  callReturned, \* n.callReturned
  activated,    \* n.activated
  buffer,       \* n.buffer
  published,    \* number of calls of Notify
  serverSubs,   \* the subscription is in h.serverSubs
  errChan,      \* s.err: open, closed
  wire,         \* what the client is sent
  writable,     \* writes on the connection succeed
  closed,       \* the connection: open, closing (callWG.Wait), closed
  upc           \* the unsubscribe call: idle, found, unknown

vars == <<cpc, methodErr, created, callReturned, activated, buffer, published,
          serverSubs, errChan, wire, writable, closed, upc>>

Answer == 0             \* the answer to the subscribe call, with the id
Refusal == MaxNotes + 1 \* the answer of a method that failed

Init ==
  /\ cpc = "method"
  /\ methodErr = FALSE
  /\ created = FALSE
  /\ callReturned = FALSE
  /\ activated = FALSE
  /\ buffer = <<>>
  /\ published = 0
  /\ serverSubs = FALSE
  /\ errChan = "open"
  /\ wire = <<>>
  /\ writable = TRUE
  /\ closed = "open"
  /\ upc = "idle"

(* writeJSON of the messages ms. *)
WriteAll(ms) == wire' = IF writable THEN wire \o ms ELSE wire

-----------------------------------------------------------------------------
(* The subscribe call. *)

(* CreateSubscription panics for a second subscription or after the call   *)
(* has returned; the method runs once, so that neither can happen here.    *)
CreateSubscription ==
  /\ cpc = "method" /\ ~created /\ ~callReturned
  /\ created' = TRUE
  /\ UNCHANGED <<cpc, methodErr, callReturned, activated, buffer, published,
                 serverSubs, errChan, wire, writable, closed, upc>>

MethodReturns ==
  /\ cpc = "method"
  /\ methodErr' \in BOOLEAN
  /\ created \/ methodErr'
  /\ cpc' = "returned"
  /\ UNCHANGED <<created, callReturned, activated, buffer, published,
                 serverSubs, errChan, wire, writable, closed, upc>>

(* Mutant: the subscription is registered after the answer is sent.        *)
AddSubscriptionsLate ==
  /\ cpc = "returned"
  /\ cpc' = "added"
  /\ UNCHANGED <<methodErr, created, callReturned, activated, buffer,
                 published, serverSubs, errChan, wire, writable,
                 closed, upc>>

(* addSubscriptions with takeSubscription: what the method has created,    *)
(* whether or not it failed.                                               *)
AddSubscriptions ==
  /\ cpc = "returned"
  /\ callReturned' = TRUE
  /\ serverSubs' = created
  /\ cpc' = "added"
  /\ UNCHANGED <<methodErr, created, activated, buffer, published, errChan, wire, writable, closed, upc>>

WriteAnswer ==
  /\ cpc = "added"
  /\ WriteAll(<<IF methodErr THEN Refusal ELSE Answer>>)
  /\ cpc' = "answered"
  /\ UNCHANGED <<methodErr, created, callReturned, activated, buffer,
                 published, serverSubs, errChan, writable, closed,
                 upc>>

(* Mutant: the notifications held back are sent without n.mu: one that is  *)
(* published meanwhile overtakes them.                                     *)
ActivateUnlocked ==
  /\ cpc = "answered"
  /\ \/ /\ ~activated
        /\ activated' = TRUE
        /\ UNCHANGED <<buffer, wire, cpc>>
     \/ /\ activated
        /\ WriteAll(buffer)
        /\ buffer' = <<>>
        /\ cpc' = "done"
        /\ UNCHANGED activated
  /\ UNCHANGED <<methodErr, created, callReturned, published, serverSubs, errChan, writable, closed, upc>>

(* activate, under n.mu: it gives up at the first write that fails, after  *)
(* n of them.                                                              *)
Activate ==
  /\ cpc = "answered"
  /\ \E n \in 0 .. Len(buffer) :
       /\ ~writable => n = 0
       /\ WriteAll(SubSeq(buffer, 1, n))
       /\ writable' = (writable /\ n = Len(buffer))
       /\ activated' = (n = Len(buffer))
  /\ cpc' = "done"
  /\ UNCHANGED <<methodErr, created, callReturned, buffer, published,
                 serverSubs, errChan, closed, upc>>

-----------------------------------------------------------------------------
(* Mutant: a notification that comes before activate is lost.              *)
NotifyLoses ==
  /\ created /\ published < MaxNotes
  /\ errChan = "open"
  /\ published' = published + 1
  /\ wire' = IF activated /\ writable THEN Append(wire, published + 1) ELSE wire
  /\ UNCHANGED <<cpc, methodErr, created, callReturned, activated, buffer,
                 serverSubs, errChan, writable, closed, upc>>

(* Notify, under n.mu.  The publisher stops when s.err says so.            *)
Notify ==
  /\ created /\ published < MaxNotes
  /\ errChan = "open"
  /\ published' = published + 1
  /\ \/ /\ activated
        /\ WriteAll(<<published + 1>>)
        /\ UNCHANGED buffer
     \/ /\ ~activated
        /\ buffer' = Append(buffer, published + 1)
        /\ UNCHANGED wire
  /\ UNCHANGED <<cpc, methodErr, created, callReturned, activated, serverSubs,
                 errChan, writable, closed, upc>>

-----------------------------------------------------------------------------
(* The client knows the id from the answer.  handler.unsubscribe.          *)
Unsubscribe ==
  /\ upc = "idle" /\ closed = "open"
  /\ \E k \in 1 .. Len(wire) : wire[k] = Answer
  /\ \/ /\ serverSubs
        /\ serverSubs' = FALSE
        /\ errChan' = "closed"
        /\ upc' = "found"
     \/ /\ ~serverSubs
        /\ upc' = "unknown"
        /\ UNCHANGED <<serverSubs, errChan>>
  /\ UNCHANGED <<cpc, methodErr, created, callReturned, activated, buffer,
                 published, wire, writable, closed>>

-----------------------------------------------------------------------------
(* The connection. *)

WritesFail ==
  /\ writable
  /\ writable' = FALSE
  /\ UNCHANGED <<cpc, methodErr, created, callReturned, activated, buffer,
                 published, serverSubs, errChan, wire, closed, upc>>

(* dispatch has seen the connection end: handler.close.                    *)
CloseBegins ==
  /\ closed = "open"
  /\ closed' = "closing"
  /\ writable' = FALSE
  /\ UNCHANGED <<cpc, methodErr, created, callReturned, activated, buffer,
                 published, serverSubs, errChan, wire, upc>>

(* Mutant: subscriptions are cancelled without waiting for the calls.      *)
CancelServerSubscriptionsEarly ==
  /\ closed = "closing"
  /\ closed' = "closed"
  /\ errChan' = IF serverSubs THEN "closed" ELSE errChan
  /\ serverSubs' = FALSE
  /\ UNCHANGED <<cpc, methodErr, created, callReturned, activated, buffer,
                 published, wire, writable, upc>>

(* callWG.Wait, then cancelServerSubscriptions.                            *)
CancelServerSubscriptions ==
  /\ closed = "closing"
  /\ cpc = "done"
  /\ closed' = "closed"
  /\ errChan' = IF serverSubs THEN "closed" ELSE errChan
  /\ serverSubs' = FALSE
  /\ UNCHANGED <<cpc, methodErr, created, callReturned, activated, buffer,
                 published, wire, writable, upc>>

-----------------------------------------------------------------------------
Call ==
  \/ CreateSubscription \/ MethodReturns \/ AddSubscriptions \/ WriteAnswer
  \/ Activate

Next ==
  \/ Call \/ Notify \/ Unsubscribe
  \/ WritesFail \/ CloseBegins \/ CancelServerSubscriptions

Spec == Init /\ [][Next]_vars

-----------------------------------------------------------------------------
(* A client that has the id can unsubscribe: the id is known to the server *)
(* from before it is sent until it is unsubscribed or the connection ends. *)
UnsubscribeFinds == upc # "unknown"
=============================================================================
