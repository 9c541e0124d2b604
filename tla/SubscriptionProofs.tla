------------------------- MODULE SubscriptionProofs -------------------------
(* Proofs about SubscriptionLink, for every number of callers of           *)
(* Unsubscribe, every size of the client's buffer and every number of      *)
(* notifications: first each end by itself, then what travels between.     *)
EXTENDS SubscriptionLink, SequenceTheorems, TLAPS

(* The composition adds nothing to its two ends: what the client does is   *)
(* what ClientSubscription allows, and the server what Notifier allows.    *)
THEOREM EndsImplemented == LinkSpec => Spec /\ S!Spec
<1>1. LinkInit => Init /\ S!Init
  BY DEF LinkInit
<1>2. [LinkNext]_allVars => [Next]_vars
  <2>1. CASE ClientStep
    <3>1. CASE SendUnsubscribe \/ Written \/ WriteFails \/ Reconnect \/ HandleSent
               \/ UnsubscribeAnswered \/ UnsubscribeEnded
      <4>1. UNCHANGED vars \/ RequestUnsubscribe \/ Disconnect("lost")
        BY Zenon, <3>1 DEF SendUnsubscribe, Written, WriteFails, Reconnect, HandleSent,
           UnsubscribeAnswered, UnsubscribeEnded
      <4> QED
        BY <4>1 DEF Next
    <3>2. CASE \E e \in {"lost", "quit"} : ConnectionEnds(e)
      BY Zenon, <3>2 DEF ConnectionEnds, Next
    <3>3. CASE \/ ReadNote \/ Unblocked \/ Loop \/ Forward \/ ReadErr
               \/ \E u \in Callers : Unsubscribe(u) \/ Quit(u) \/ Unsubscribed(u)
      BY Zenon, <3>3 DEF ReadNote, Loop, Next
    <3> QED
      BY Zenon, <2>1, <3>1, <3>2, <3>3 DEF ClientStep
  <2>2. CASE ~ClientStep
    BY Zenon, <2>2 DEF LinkNext, ServerStep, ServeUnsubscribe, StartSubscription, allVars
  <2> QED
    BY <2>1, <2>2
<1>3. [LinkNext]_allVars => [S!Next]_(S!vars)
  <2>1. serverVars = S!vars
    BY DEF serverVars, S!vars
  <2>2. CASE ServerStep \/ ServeUnsubscribe
    BY Zenon, <2>2 DEF ServerStep, ServeUnsubscribe, S!Next
  <2>3. CASE ~(ServerStep \/ ServeUnsubscribe)
    BY Zenon, <2>1, <2>3 DEF LinkNext, StartSubscription, ClientStep, allVars, serverVars, S!vars
  <2> QED
    BY <2>2, <2>3
<1> QED
  BY <1>1, <1>2, <1>3, PTL DEF LinkSpec, Spec, S!Spec

-----------------------------------------------------------------------------
(* The client's end. *)

Failures == {"none", "unmarshal", "overflow", "lost", "quit"}

ClientTypes ==
  /\ cause \in Failures /\ failure \in Failures
  /\ errChan \in Seq(Failures \cup {"nil"})
  /\ upc \in [Callers -> {"idle", "select", "wait", "done"}]

(* sub.err is used, and Unsubscribe returns, only when run is done.        *)
DoneFirst ==
  /\ errClosed => fpc = "done"
  /\ errChan # <<>> => fpc = "done"
  /\ once = "over" => fpc = "done"
  /\ \A u \in Callers : upc[u] = "done" => fpc = "done"

LEMMA NextClientTypes == ClientTypes /\ [Next]_vars => ClientTypes'
<1> SUFFICES ASSUME ClientTypes, [Next]_vars PROVE ClientTypes'
  OBVIOUS
<1> USE DEF ClientTypes
<1>1. CASE \E u \in Callers : Unsubscribe(u) \/ Quit(u) \/ Unsubscribed(u)
  BY <1>1 DEF Unsubscribe, Quit, Unsubscribed, Leave, Failures
<1>2. CASE \E e \in {"lost", "quit"} : Disconnect(e)
  BY <1>2 DEF Disconnect, Failures
<1>3. CASE In \/ QuitByClose
  BY <1>3 DEF In, QuitByClose, Leave, Failures
<1>4. CASE Report
  BY <1>4, AppendProperties DEF Report, Failures
<1>5. CASE ReadErr
  BY <1>5, HeadTailProperties DEF ReadErr
<1>6. CASE Notification \/ Unblocked \/ Forward \/ RequestUnsubscribe \/ UNCHANGED vars
  BY Zenon, <1>6 DEF Notification, Unblocked, Forward, RequestUnsubscribe, vars
<1> QED
  BY Zenon, <1>1, <1>2, <1>3, <1>4, <1>5, <1>6 DEF Next

LEMMA NextDoneFirst == ClientTypes /\ DoneFirst /\ [Next]_vars => DoneFirst'
<1> SUFFICES ASSUME ClientTypes, DoneFirst, [Next]_vars PROVE DoneFirst'
  OBVIOUS
<1>1. ASSUME NEW u \in Callers, Unsubscribe(u) PROVE DoneFirst'
  BY <1>1 DEF Unsubscribe, DoneFirst, ClientTypes
<1>2. ASSUME NEW u \in Callers, Quit(u) PROVE DoneFirst'
  BY <1>2 DEF Quit, Leave, DoneFirst, ClientTypes
<1>3. ASSUME NEW u \in Callers, Unsubscribed(u) PROVE DoneFirst'
  BY Zenon, <1>3 DEF Unsubscribed, UnsubDone, DoneFirst
<1>4. CASE In \/ QuitByClose \/ RequestUnsubscribe
  <2>1. fpc # "done" /\ UNCHANGED <<errChan, errClosed, once, upc>>
    BY Zenon, <1>4 DEF In, QuitByClose, RequestUnsubscribe
  <2> QED
    BY Zenon, <2>1 DEF DoneFirst
<1>5. CASE Report
  BY Zenon, <1>5 DEF Report, DoneFirst
<1>6. CASE ReadErr
  BY Zenon, <1>6 DEF ReadErr, DoneFirst
<1>7. CASE Notification \/ (\E e \in {"lost", "quit"} : Disconnect(e)) \/ Unblocked \/ Forward
           \/ UNCHANGED vars
  <2>1. UNCHANGED <<fpc, errChan, errClosed, once, upc>>
    BY Zenon, <1>7 DEF Notification, Disconnect, Unblocked, Forward, vars
  <2> QED
    BY Zenon, <2>1 DEF DoneFirst
<1> QED
  BY Zenon, <1>1, <1>2, <1>3, <1>4, <1>5, <1>6, <1>7 DEF Next

LEMMA InitClient == Init => ClientTypes /\ DoneFirst
<1> SUFFICES ASSUME Init PROVE ClientTypes /\ DoneFirst
  OBVIOUS
<1>1. ClientTypes
  BY DEF Init, ClientTypes, Failures
<1>2. DoneFirst
  BY DEF Init, DoneFirst
<1> QED
  BY <1>1, <1>2

(* The send of run's error at the end of run finds sub.err open and empty: *)
(* it neither panics nor blocks.                                           *)
THEOREM ErrorSendIsSafe == Spec => []ErrSendSafe
<1>1. ClientTypes /\ DoneFirst /\ [Next]_vars => (ClientTypes /\ DoneFirst)'
  BY NextClientTypes, NextDoneFirst
<1>2. DoneFirst => ErrSendSafe
  BY DEF DoneFirst, ErrSendSafe
<1> QED
  BY <1>1, <1>2, InitClient, PTL DEF Spec

(* Once Unsubscribe has returned to one of its callers, the subscriber is  *)
(* sent nothing, neither on its channel nor on sub.err.                    *)
THEOREM QuietOnceUnsubscribed == Spec => QuietAfterUnsubscribe
<1> DEFINE Quiet == received' = received /\ Len(errChan') <= Len(errChan)
<1>1. ClientTypes /\ DoneFirst /\ [Next]_vars => (ClientTypes /\ DoneFirst)'
  BY NextClientTypes, NextDoneFirst
<1>2. ASSUME ClientTypes, DoneFirst, [Next]_vars, \E u \in Callers : upc[u] = "done"
      PROVE  Quiet
  <2>1. fpc = "done"
    BY Zenon, <1>2 DEF DoneFirst
  <2>2. received' = received
    <3>1. ~Forward
      BY <2>1 DEF Forward
    <3> QED
      BY Zenon, <1>2, <3>1 DEF Next, Notification, Disconnect, Unblocked, In, QuitByClose,
         RequestUnsubscribe, Report, Unsubscribe, Quit, Unsubscribed, ReadErr, vars
  <2>3. errChan' = errChan \/ (errChan # <<>> /\ errChan' = Tail(errChan))
    <3>1. ~Report
      BY <2>1 DEF Report
    <3> QED
      BY Zenon, <1>2, <3>1 DEF Next, Notification, Disconnect, Unblocked, In, QuitByClose, Forward,
         RequestUnsubscribe, Unsubscribe, Quit, Unsubscribed, ReadErr, vars
  <2>4. errChan \in Seq(Failures \cup {"nil"})
    BY <1>2 DEF ClientTypes
  <2>5. Len(errChan') <= Len(errChan)
    BY <2>3, <2>4, HeadTailProperties
  <2> QED
    BY <2>2, <2>5
<1>3. ClientTypes /\ DoneFirst /\ [Next]_vars
        => [(\E u \in Callers : upc[u] = "done") => Quiet]_vars
  BY <1>2
<1> QED
  BY <1>1, <1>3, InitClient, PTL DEF Spec, QuietAfterUnsubscribe

(* The numbers of what was received and what is buffered continue one      *)
(* another, and while the loop runs they go up to what dispatch has read.  *)
Numbered ==
  /\ received \in Seq(Nat) /\ buffer \in Seq(Nat) /\ read \in Nat
  /\ \A k \in 1 .. Len(received) : received[k] = k
  /\ \A k \in 1 .. Len(buffer) : buffer[k] = Len(received) + k
  /\ Len(buffer) <= MaxBuffer
  /\ fpc = "forward" /\ dpc # "deliver" => Len(received) + Len(buffer) = read
  /\ fpc = "forward" /\ dpc = "deliver" => Len(received) + Len(buffer) + 1 = read

LEMMA NextNumbered == Numbered /\ [Next]_vars => Numbered'
<1> SUFFICES ASSUME Numbered, [Next]_vars PROVE Numbered'
  OBVIOUS
<1>t. /\ received \in Seq(Nat) /\ buffer \in Seq(Nat) /\ read \in Nat
      /\ Len(received) \in Nat /\ Len(buffer) \in Nat
  BY DEF Numbered
<1>1. CASE Notification
  BY <1>1 DEF Notification, Numbered
<1>2. CASE (\E e \in {"lost", "quit"} : Disconnect(e))
  BY <1>2 DEF Disconnect, Numbered
<1>3. CASE Unblocked \/ RequestUnsubscribe \/ Report \/ QuitByClose
           \/ (\E u \in Callers : Quit(u))
  <2>1. UNCHANGED <<received, buffer, read>>
    BY Zenon, <1>3 DEF Unblocked, RequestUnsubscribe, Report, QuitByClose, Quit
  <2>2. fpc' # "forward"
    BY <1>3 DEF Unblocked, ForwardDone, RequestUnsubscribe, Report, QuitByClose, Quit, Leave
  <2> QED
    BY Zenon, <2>1, <2>2 DEF Numbered
<1>4. CASE In /\ UNCHANGED buffer
  <2>1. UNCHANGED <<received, buffer, read>> /\ fpc' # "forward"
    <3>1. fpc' = "unsubscribe" \/ buffer' = Append(buffer, read)
      BY Zenon, <1>4 DEF In, Leave
    <3>2. Append(buffer, read) # buffer
      <4>1. Len(Append(buffer, read)) = Len(buffer) + 1
        BY <1>t, AppendProperties
      <4> QED
        BY <1>t, <4>1
    <3> QED
      BY <1>4, <3>1, <3>2 DEF In
  <2> QED
    BY Zenon, <2>1 DEF Numbered
<1>5. CASE In /\ buffer' # buffer
  <2>1. /\ fpc = "forward" /\ dpc = "deliver" /\ dpc' = "idle"
        /\ Len(buffer) # MaxBuffer /\ buffer' = Append(buffer, read)
        /\ UNCHANGED <<read, received, fpc>>
    BY Zenon, <1>5 DEF In
  <2>2. /\ buffer' \in Seq(Nat) /\ Len(buffer') = Len(buffer) + 1
        /\ \A k \in 1 .. Len(buffer) : buffer'[k] = buffer[k]
        /\ buffer'[Len(buffer) + 1] = read
    BY <1>t, <2>1, AppendProperties
  <2>3. Len(received) + Len(buffer) + 1 = read /\ Len(buffer) <= MaxBuffer
    BY <2>1 DEF Numbered
  <2>4. \A k \in 1 .. Len(buffer') : buffer'[k] = Len(received') + k
    <3>1. \A k \in 1 .. Len(buffer) : buffer[k] = Len(received) + k
      BY DEF Numbered
    <3> SUFFICES ASSUME NEW k \in 1 .. Len(buffer')
                 PROVE  buffer'[k] = Len(received') + k
      OBVIOUS
    <3>2. k \in 1 .. Len(buffer) \/ k = Len(buffer) + 1
      BY <1>t, <2>2
    <3>3. CASE k \in 1 .. Len(buffer)
      BY Zenon, <2>1, <2>2, <3>1, <3>3
    <3>4. CASE k = Len(buffer) + 1
      BY <1>t, <2>1, <2>2, <2>3, <3>4
    <3> QED
      BY <3>2, <3>3, <3>4
  <2>5. Len(buffer') <= MaxBuffer
    BY <1>t, <2>1, <2>2, <2>3, ClientSubscriptionAssumptions
  <2>6. Len(received') + Len(buffer') = read'
    BY <1>t, <2>1, <2>2, <2>3
  <2> QED
    BY <1>t, <2>1, <2>2, <2>4, <2>5, <2>6 DEF Numbered
<1>6. CASE Forward
  <2>1. /\ buffer # <<>> /\ received' = Append(received, Head(buffer))
        /\ buffer' = Tail(buffer) /\ UNCHANGED <<read, dpc, fpc>>
    BY Zenon, <1>6 DEF Forward
  <2>2. /\ Head(buffer) \in Nat /\ Head(buffer) = buffer[1]
        /\ buffer' \in Seq(Nat) /\ Len(buffer') = Len(buffer) - 1 /\ Len(buffer') \in Nat
        /\ \A k \in 1 .. Len(buffer') : buffer'[k] = buffer[k + 1]
    BY <1>t, <2>1, HeadTailProperties
  <2>3. Head(buffer) = Len(received) + 1
    <3>1. 1 \in 1 .. Len(buffer)
      BY <1>t, <2>2
    <3> QED
      BY Zenon, <2>2, <3>1 DEF Numbered
  <2>4. /\ received' \in Seq(Nat) /\ Len(received') = Len(received) + 1
        /\ \A k \in 1 .. Len(received) : received'[k] = received[k]
        /\ received'[Len(received) + 1] = Len(received) + 1
    BY <1>t, <2>1, <2>2, <2>3, AppendProperties
  <2>5. \A k \in 1 .. Len(received') : received'[k] = k
    <3>1. \A k \in 1 .. Len(received) : received[k] = k
      BY DEF Numbered
    <3> SUFFICES ASSUME NEW k \in 1 .. Len(received') PROVE received'[k] = k
      OBVIOUS
    <3>2. k \in 1 .. Len(received) \/ k = Len(received) + 1
      BY <1>t, <2>4
    <3> QED
      BY Zenon, <2>4, <3>1, <3>2
  <2>6. \A k \in 1 .. Len(buffer') : buffer'[k] = Len(received') + k
    <3> SUFFICES ASSUME NEW k \in 1 .. Len(buffer')
                 PROVE  buffer'[k] = Len(received') + k
      OBVIOUS
    <3>1. k + 1 \in 1 .. Len(buffer)
      <4>1. Len(buffer) \in Nat /\ Len(buffer') = Len(buffer) - 1
        BY Zenon, <1>t, <2>2
      <4> QED
        BY <4>1
    <3>2. buffer'[k] = Len(received) + (k + 1)
      BY Zenon, <2>2, <3>1 DEF Numbered
    <3> QED
      BY <1>t, <2>4, <3>2
  <2>7. Len(buffer') <= MaxBuffer /\ Len(received') + Len(buffer') = Len(received) + Len(buffer)
    <3>1. Len(buffer) <= MaxBuffer
      BY DEF Numbered
    <3> QED
      BY <1>t, <2>2, <2>4, <3>1, ClientSubscriptionAssumptions
  <2> QED
    BY Zenon, <1>t, <2>1, <2>2, <2>4, <2>5, <2>6, <2>7 DEF Numbered
<1>7. CASE UNCHANGED <<received, buffer, read, fpc, dpc>>
  BY Zenon, <1>7 DEF Numbered
<1> QED
  BY Zenon, <1>1, <1>2, <1>3, <1>4, <1>5, <1>6, <1>7 DEF Next, Unsubscribe, Unsubscribed, ReadErr, vars

LEMMA NumberedInOrder == Numbered => InOrder
<1> SUFFICES ASSUME Numbered PROVE InOrder
  OBVIOUS
<1>t. /\ received \in Seq(Nat) /\ buffer \in Seq(Nat)
      /\ Len(received) \in Nat /\ Len(buffer) \in Nat
  BY DEF Numbered
<1> DEFINE ahead == received \o buffer
<1>1. ASSUME NEW k \in 1 .. Len(ahead) PROVE ahead[k] = k
  <2>1. Len(ahead) = Len(received) + Len(buffer)
    BY <1>t, ConcatProperties
  <2>2. CASE k \in 1 .. Len(received)
    <3>1. ahead[k] = received[k]
      BY <1>t, <2>2, ConcatProperties
    <3> QED
      BY Zenon, <2>2, <3>1 DEF Numbered
  <2>3. CASE k \notin 1 .. Len(received)
    <3>1. k - Len(received) \in 1 .. Len(buffer) /\ k \in Nat
      BY <1>t, <1>1, <2>1, <2>3
    <3>2. ahead[k] = buffer[k - Len(received)]
      BY <1>t, <1>1, <2>1, <2>3, ConcatProperties
    <3>3. buffer[k - Len(received)] = Len(received) + (k - Len(received))
      BY Zenon, <3>1 DEF Numbered
    <3> QED
      BY <1>t, <3>1, <3>2, <3>3
  <2> QED
    BY <2>2, <2>3
<1> QED
  BY Zenon, <1>1 DEF InOrder, Numbered

(* The loop of forward passes notifications on in the order dispatch read  *)
(* them, skips none, and never holds more than its limit.                  *)
THEOREM ForwardsInOrder == Spec => []InOrder
<1>1. Init => Numbered
  BY ClientSubscriptionAssumptions DEF Init, Numbered
<1> QED
  BY <1>1, NextNumbered, NumberedInOrder, PTL DEF Spec

-----------------------------------------------------------------------------
(* The server's end. *)

(* Nothing is on the wire before the answer to the subscribe call, and a   *)
(* subscription that was created is registered by then; it stays so until  *)
(* it is unsubscribed or the connection has been closed.  The answer with  *)
(* an id is not sent for one that was not created.                         *)
Registered ==
  /\ activated => cpc = "done"
  /\ wire \in Seq(Nat) /\ sbuffer \in Seq(Nat) /\ published \in Nat
  /\ wire # <<>> => cpc \in {"answered", "done"}
  /\ cpc # "method" => created \/ methodErr
  /\ ~created => sbuffer = <<>> /\ \A k \in 1 .. Len(wire) : wire[k] # S!Answer
  /\ cpc \in {"added", "answered", "done"} /\ created /\ supc = "idle" /\ closed # "closed"
       => serverSubs
  /\ supc = "found" => serr = "closed"
  /\ supc # "unknown"

LEMMA NextRegistered == Registered /\ [S!Next]_(S!vars) => Registered'
<1> SUFFICES ASSUME Registered, [S!Next]_(S!vars) PROVE Registered'
  OBVIOUS
<1>t. /\ wire \in Seq(Nat) /\ sbuffer \in Seq(Nat) /\ published \in Nat
      /\ (activated => cpc = "done") /\ (wire # <<>> => cpc \in {"answered", "done"})
  BY Zenon DEF Registered
<1>1. CASE S!CreateSubscription \/ S!MethodReturns \/ S!AddSubscriptions
  BY <1>1 DEF S!CreateSubscription, S!MethodReturns, S!AddSubscriptions, Registered
<1>2. CASE S!WriteAnswer
  <2> DEFINE x == IF methodErr THEN S!Refusal ELSE S!Answer
  <2>1. /\ wire = <<>> /\ wire' = (IF writable THEN wire \o <<x>> ELSE wire)
        /\ cpc = "added" /\ cpc' = "answered" /\ (created \/ methodErr)
        /\ UNCHANGED <<created, methodErr, activated, sbuffer, published, serverSubs, serr,
                       closed, supc>>
    BY <1>2 DEF S!WriteAnswer, S!WriteAll, Registered
  <2>2. x \in Nat /\ <<>> \o <<x>> = <<x>> /\ (~created => x # S!Answer)
    BY <2>1, ClientSubscriptionAssumptions, ConcatEmptySeq DEF S!Answer, S!Refusal
  <2> HIDE DEF x
  <2>3. wire' = <<>> \/ wire' = <<x>>
    BY Zenon, <2>1, <2>2
  <2>4. wire' \in Seq(Nat) /\ (~created => \A k \in 1 .. Len(wire') : wire'[k] # S!Answer)
    <3>1. CASE wire' = <<>>
      BY <3>1
    <3>2. CASE wire' = <<x>>
      <4>1. wire' \in Seq(Nat) /\ Len(wire') = 1 /\ wire'[1] = x
        BY <2>2, <3>2
      <4>2. \A k \in 1 .. Len(wire') : wire'[k] = x
        BY <4>1
      <4> QED
        BY Zenon, <2>2, <4>1, <4>2
    <3> QED
      BY <2>3, <3>1, <3>2
  <2> QED
    BY Zenon, <2>1, <2>4 DEF Registered
<1>3. CASE S!Activate
  <2>1. PICK n \in 0 .. Len(sbuffer) :
          wire' = IF writable THEN wire \o SubSeq(sbuffer, 1, n) ELSE wire
    BY Zenon, <1>3 DEF S!Activate, S!WriteAll
  <2>2. SubSeq(sbuffer, 1, n) \in Seq(Nat) /\ (sbuffer = <<>> => SubSeq(sbuffer, 1, n) = <<>>)
    BY <1>t
  <2>3. wire' \in Seq(Nat) /\ (sbuffer = <<>> => wire' = wire)
    BY <1>t, <2>1, <2>2, ConcatProperties, ConcatEmptySeq
  <2>4. /\ cpc = "answered" /\ cpc' = "done"
        /\ UNCHANGED <<created, methodErr, sbuffer, published, serverSubs, serr, closed, supc>>
    BY Zenon, <1>3 DEF S!Activate
  <2> QED
    BY <2>3, <2>4 DEF Registered
<1>4. CASE S!Notify
  <2>1. /\ created /\ published' = published + 1
        /\ UNCHANGED <<cpc, methodErr, created, activated, serverSubs, serr, closed, supc>>
    BY Zenon, <1>4 DEF S!Notify
  <2>2. /\ sbuffer' = sbuffer \/ sbuffer' = Append(sbuffer, published + 1)
        /\ wire' = wire \/ (activated /\ wire' = wire \o <<published + 1>>)
    BY Zenon, <1>4 DEF S!Notify, S!WriteAll
  <2>3. wire' \in Seq(Nat) /\ sbuffer' \in Seq(Nat) /\ published' \in Nat
    <3>1. published + 1 \in Nat /\ <<published + 1>> \in Seq(Nat)
      BY <1>t
    <3>2. wire \o <<published + 1>> \in Seq(Nat)
      BY <1>t, <3>1, ConcatProperties
    <3>3. Append(sbuffer, published + 1) \in Seq(Nat)
      BY <1>t, <3>1, AppendProperties
    <3> QED
      BY Zenon, <1>t, <2>1, <2>2, <3>1, <3>2, <3>3
  <2>4. wire' # <<>> => cpc \in {"answered", "done"}
    BY <1>t, <2>2
  <2> QED
    BY Zenon, <2>1, <2>3, <2>4 DEF Registered
<1>5. CASE S!Unsubscribe
  <2>1. wire # <<>> /\ created
    BY <1>5 DEF S!Unsubscribe, Registered
  <2>2. cpc \in {"answered", "done"} /\ supc = "idle" /\ closed = "open"
    BY <1>5, <1>t, <2>1 DEF S!Unsubscribe
  <2>3. serverSubs
    BY <2>1, <2>2 DEF Registered
  <2> QED
    BY <1>5, <2>1, <2>3 DEF S!Unsubscribe, Registered
<1>6. CASE S!WritesFail \/ UNCHANGED S!vars
  <2>1. UNCHANGED <<cpc, methodErr, created, activated, sbuffer, published, serverSubs, serr,
                    wire, closed, supc>>
    BY Zenon, <1>6 DEF S!WritesFail, S!vars
  <2> QED
    BY Zenon, <2>1 DEF Registered
<1>7. CASE S!CloseBegins
  BY <1>7 DEF S!CloseBegins, Registered
<1>8. CASE S!CancelServerSubscriptions
  BY <1>8 DEF S!CancelServerSubscriptions, Registered
<1> QED
  BY Zenon, <1>1, <1>2, <1>3, <1>4, <1>5, <1>6, <1>7, <1>8 DEF S!Next, S!Call

LEMMA InitRegistered == S!Init => Registered
  BY DEF S!Init, Registered

(* A client that unsubscribes with the id it was sent is never told that   *)
(* the subscription does not exist.                                        *)
THEOREM IdAlwaysFound == LinkSpec => []UnsubscribeFinds
<1>1. S!Spec => []Registered
  BY NextRegistered, InitRegistered, PTL DEF S!Spec
<1>2. Registered => UnsubscribeFinds
  BY Zenon DEF Registered, UnsubscribeFinds, S!UnsubscribeFinds
<1> QED
  BY <1>1, <1>2, EndsImplemented, PTL

-----------------------------------------------------------------------------
(* Both ends. *)

(* An unsubscribe call has been answered only after the publisher was      *)
(* told.  run has an answer, an error of its own or an end of the          *)
(* connection to go on with, and what ended the call, or moved it to       *)
(* another connection, ended the connection as well.                       *)
AnswerLast ==
  /\ answeredAt > 0 => serr = "closed"
  /\ req = "answered" => serr = "closed"
  /\ req \in {"ended", "moved"} => dpc \in {"close", "gone"}
  /\ fpc \in {"report", "done"} /\ dpc \notin {"close", "gone"}
       => req \in {"answered", "failed"}

LEMMA NextAnswerLast ==
  Registered /\ Registered' /\ AnswerLast /\ [LinkNext]_allVars => AnswerLast'
<1> SUFFICES ASSUME Registered, Registered', AnswerLast, [LinkNext]_allVars PROVE AnswerLast'
  OBVIOUS
<1>1. CASE ServerStep
  <2>1. UNCHANGED <<answeredAt, fpc, dpc, req>>
    BY Zenon, <1>1 DEF ServerStep, vars, linkVars
  <2>2. serr = "closed" => serr' = "closed"
    BY <1>1 DEF ServerStep, S!Call, S!CreateSubscription, S!MethodReturns, S!AddSubscriptions,
       S!WriteAnswer, S!Activate, S!Notify, S!WritesFail, S!CloseBegins,
       S!CancelServerSubscriptions
  <2> QED
    BY Zenon, <2>1, <2>2 DEF AnswerLast
<1>2. CASE ServeUnsubscribe
  <2>1. serr' = "closed"
    BY <1>2 DEF ServeUnsubscribe, S!Unsubscribe, Registered
  <2>2. UNCHANGED <<fpc, dpc, req>>
    BY Zenon, <1>2 DEF ServeUnsubscribe, vars
  <2> QED
    BY Zenon, <2>1, <2>2 DEF AnswerLast
<1>3. CASE StartSubscription \/ UNCHANGED allVars
  BY Zenon, <1>3 DEF StartSubscription, allVars, vars, serverVars, linkVars, AnswerLast
<1>4. CASE ClientStep
  <2>0. UNCHANGED <<answeredAt, serr>>
    BY Zenon, <1>4 DEF ClientStep, serverVars, linkVars
  <2>1. CASE UnsubscribeAnswered
    BY <2>0, <2>1 DEF UnsubscribeAnswered, RequestUnsubscribe, AnswerLast
  <2>2. CASE UnsubscribeEnded
    BY <2>0, <2>2 DEF UnsubscribeEnded, RequestUnsubscribe, AnswerLast
  <2>3. CASE WriteFails
    BY <2>0, <2>3 DEF WriteFails, RequestUnsubscribe, AnswerLast
  <2>4. CASE SendUnsubscribe
    <3>1. req = "none" /\ fpc = "unsubscribe" /\ dpc' = dpc
      BY Zenon, <2>4 DEF SendUnsubscribe, RequestUnsubscribe, vars
    <3>2. req' = "failed" \/ (req' = "write" /\ fpc' = fpc)
      BY Zenon, <2>4 DEF SendUnsubscribe, vars
    <3> QED
      BY <2>0, <3>1, <3>2 DEF AnswerLast
  <2>5. CASE Written \/ HandleSent
    <3>1. req \notin {"answered", "failed"} /\ req' \notin {"answered", "ended", "moved"}
      BY <2>5 DEF Written, HandleSent
    <3>2. UNCHANGED <<fpc, dpc>>
      BY Zenon, <2>5 DEF Written, HandleSent, vars
    <3> QED
      BY Zenon, <2>0, <3>1, <3>2 DEF AnswerLast
  <2>6. CASE Reconnect
    <3>1. req' = "moved" /\ dpc' \in {"close", "gone"}
      BY <2>6 DEF Reconnect, Disconnect, vars
    <3> QED
      BY <2>0, <3>1 DEF AnswerLast
  <2>7. CASE \E e \in {"lost", "quit"} : ConnectionEnds(e)
    <3>1. dpc' = "close" /\ (req' = "answered" => req = "answered")
      BY <2>7 DEF ConnectionEnds, Disconnect
    <3> QED
      BY <2>0, <3>1 DEF AnswerLast
  <2>8. CASE UNCHANGED req /\ (QuitByClose \/ Report)
    BY <2>0, <2>8 DEF QuitByClose, Report, AnswerLast
  <2>9. CASE UNCHANGED req /\ (In \/ \E u \in Callers : Quit(u))
    <3>1. fpc = "forward" /\ (fpc' = fpc \/ fpc' = "unsubscribe")
      BY Zenon, <2>9 DEF In, Quit, Leave
    <3>2. dpc \in {"close", "gone"} => dpc' = dpc
      BY <2>9 DEF In, Quit
    <3> QED
      BY <2>0, <2>9, <3>1, <3>2 DEF AnswerLast
  <2>10. CASE /\ UNCHANGED req
              /\ \/ ReadNote \/ Unblocked \/ Forward \/ ReadErr
                 \/ \E u \in Callers : Unsubscribe(u) \/ Unsubscribed(u)
    <3>1. fpc' = fpc
      BY Zenon, <2>10 DEF ReadNote, Notification, Unblocked, Forward, ReadErr,
         Unsubscribe, Unsubscribed
    <3>2. dpc \in {"close", "gone"} => dpc' \in {"close", "gone"}
      BY <2>10 DEF ReadNote, Notification, Unblocked, Forward, ReadErr,
         Unsubscribe, Unsubscribed
    <3> QED
      BY Zenon, <2>0, <2>10, <3>1, <3>2 DEF AnswerLast
  <2> QED
    BY Zenon, <1>4, <2>1, <2>2, <2>3, <2>4, <2>5, <2>6, <2>7, <2>8, <2>9, <2>10
       DEF ClientStep, Loop
<1> QED
  BY Zenon, <1>1, <1>2, <1>3, <1>4 DEF LinkNext

(* An unsubscribe call that has its answer has reached the publisher on    *)
(* the server; and while dispatch reads the connection, run is done with   *)
(* unsubscribing only with that answer, or when the call was not sent.     *)
THEOREM UnsubscribeGetsThrough == LinkSpec => []UnsubscribeReaches
<1>1. S!Spec => []Registered
  BY NextRegistered, InitRegistered, PTL DEF S!Spec
<1>2. LinkInit => AnswerLast
  BY DEF LinkInit, Init, AnswerLast
<1>3. AnswerLast => UnsubscribeReaches
  BY Zenon DEF AnswerLast, UnsubscribeReaches
<1> QED
  BY <1>1, <1>2, <1>3, NextAnswerLast, EndsImplemented, PTL DEF LinkSpec

-----------------------------------------------------------------------------
(* What was published, on its way from the server's buffer to the          *)
(* subscriber.                                                             *)

(* s is 1, 2, ..., n.                                                      *)
Counts(s, n) == s \in Seq(Nat) /\ Len(s) = n /\ \A k \in 1 .. n : s[k] = k

(* The answer to the subscribe call comes first on the wire, and then the  *)
(* notifications by their numbers; while writes succeed none is missing:   *)
(* up to activate they are in the server's buffer, from then on all have   *)
(* been written.                                                           *)
WireInv ==
  /\ wire \in Seq(Nat) /\ sbuffer \in Seq(Nat) /\ published \in Nat
  /\ wire # <<>> => wire[1] \in {S!Answer, S!Refusal}
  /\ \A k \in 1 .. Len(wire) : k # 1 => wire[k] = k - 1
  /\ ~activated => Counts(sbuffer, published)
  /\ cpc \in {"method", "returned", "added"} => wire = <<>> /\ ~activated
  /\ cpc = "answered" => ~activated /\ (writable => Len(wire) = 1)
  /\ cpc = "done" /\ writable => activated /\ Len(wire) = published + 1
  /\ cpc \in {"method", "returned", "added", "answered", "done"}

(* The client reads no more than there is on the wire, behind the answer.  *)
ReadInv == (known => read + 1 <= Len(wire)) /\ (~known => read = 0)

(* One more number.                                                        *)
LEMMA CountsMore ==
  ASSUME NEW s, NEW n \in Nat, Counts(s, n)
  PROVE  Counts(Append(s, n + 1), n + 1)
<1>1. /\ Append(s, n + 1) \in Seq(Nat) /\ Len(Append(s, n + 1)) = n + 1
      /\ \A k \in 1 .. n : Append(s, n + 1)[k] = s[k]
      /\ Append(s, n + 1)[n + 1] = n + 1
  BY AppendProperties DEF Counts
<1>2. \A k \in 1 .. n + 1 : k \in 1 .. n \/ k = n + 1
  OBVIOUS
<1> QED
  BY Zenon, <1>1, <1>2 DEF Counts

(* What a concatenation is made of.                                        *)
LEMMA Joined ==
  ASSUME NEW s \in Seq(Nat), NEW t \in Seq(Nat)
  PROVE  /\ s \o t \in Seq(Nat) /\ Len(s \o t) = Len(s) + Len(t)
         /\ \A k \in 1 .. Len(s) : (s \o t)[k] = s[k]
         /\ \A k \in 1 .. Len(s \o t) :
              k \in 1 .. Len(s) \/ (k - Len(s) \in 1 .. Len(t)
                                     /\ (s \o t)[k] = t[k - Len(s)])
<1>1. /\ s \o t \in Seq(Nat) /\ Len(s \o t) = Len(s) + Len(t)
      /\ Len(s) \in Nat /\ Len(t) \in Nat
      /\ \A i \in 1 .. Len(s) + Len(t) :
           (s \o t)[i] = IF i <= Len(s) THEN s[i] ELSE t[i - Len(s)]
  BY ConcatProperties
<1> QED
  BY <1>1

(* Numbers that go on where others end.                                    *)
LEMMA CountsOn ==
  ASSUME NEW s, NEW m \in Nat, Counts(s, m), NEW t \in Seq(Nat), NEW n \in Nat, Len(t) = n,
         \A k \in 1 .. Len(t) : t[k] = m + k
  PROVE  Counts(s \o t, m + n)
<1>0. s \in Seq(Nat) /\ Len(s) = m /\ \A k \in 1 .. Len(s) : s[k] = k
  BY DEF Counts
<1>1. s \o t \in Seq(Nat) /\ Len(s \o t) = m + n
  BY Zenon, <1>0, Joined
<1>2. ASSUME NEW k \in 1 .. Len(s \o t) PROVE (s \o t)[k] = k
  <2>1. CASE k \in 1 .. Len(s)
    <3>1. (s \o t)[k] = s[k] /\ s[k] = k
      BY <1>0, <2>1, Joined
    <3> QED
      BY <3>1
  <2>2. CASE k - Len(s) \in 1 .. Len(t) /\ (s \o t)[k] = t[k - Len(s)]
    <3>1. (s \o t)[k] = m + (k - m)
      BY Zenon, <1>0, <2>2
    <3>2. k \in Nat
      BY <1>1
    <3> QED
      BY <3>1, <3>2
  <2> QED
    BY Zenon, <1>0, <2>1, <2>2, Joined
<1> QED
  BY Zenon, <1>1, <1>2 DEF Counts

(* A notification that is written takes its place on the wire.             *)
LEMMA WireMore ==
  ASSUME NEW w \in Seq(Nat), w # <<>>, \A k \in 1 .. Len(w) : k # 1 => w[k] = k - 1,
         NEW t \in Seq(Nat), NEW n \in Nat, Len(t) = n,
         \A k \in 1 .. n : t[k] = (Len(w) - 1) + k
  PROVE  /\ w \o t \in Seq(Nat) /\ Len(w \o t) = Len(w) + n
         /\ w \o t # <<>> /\ (w \o t)[1] = w[1]
         /\ \A k \in 1 .. Len(w \o t) : k # 1 => (w \o t)[k] = k - 1
<1>0. Len(w) \in Nat /\ Len(w) # 0
  BY EmptySeq
<1>1. /\ w \o t \in Seq(Nat) /\ Len(w \o t) = Len(w) + n
      /\ \A k \in 1 .. Len(w) : (w \o t)[k] = w[k]
      /\ \A k \in 1 .. Len(w \o t) :
           k \in 1 .. Len(w) \/ (k - Len(w) \in 1 .. n /\ (w \o t)[k] = t[k - Len(w)])
  BY Zenon, Joined
<1>2. 1 \in 1 .. Len(w) /\ w \o t # <<>>
  <2>1. Len(w \o t) # 0 /\ 1 \in 1 .. Len(w)
    BY <1>0, <1>1
  <2> QED
    BY <2>1
<1>3. ASSUME NEW k \in 1 .. Len(w \o t), k # 1 PROVE (w \o t)[k] = k - 1
  <2>1. CASE k \in 1 .. Len(w)
    BY Zenon, <1>1, <1>3, <2>1
  <2>2. CASE k - Len(w) \in 1 .. n /\ (w \o t)[k] = t[k - Len(w)]
    <3>1. (w \o t)[k] = (Len(w) - 1) + (k - Len(w))
      BY Zenon, <2>2
    <3>2. k \in Nat
      BY <1>0, <1>1
    <3> QED
      BY <1>0, <3>1, <3>2
  <2> QED
    BY Zenon, <1>1, <2>1, <2>2
<1> QED
  BY Zenon, <1>1, <1>2, <1>3

LEMMA NextWireInv == WireInv /\ [S!Next]_(S!vars) => WireInv'
<1> SUFFICES ASSUME WireInv, [S!Next]_(S!vars) PROVE WireInv'
  OBVIOUS
<1>t. wire \in Seq(Nat) /\ sbuffer \in Seq(Nat) /\ published \in Nat
  BY DEF WireInv
<1>1. CASE S!CreateSubscription \/ S!MethodReturns \/ S!AddSubscriptions
  <2>1. /\ cpc \in {"method", "returned"} /\ cpc' \in {"method", "returned", "added"}
        /\ UNCHANGED <<wire, sbuffer, published, activated, writable>>
    BY <1>1 DEF S!CreateSubscription, S!MethodReturns, S!AddSubscriptions
  <2> QED
    BY <2>1 DEF WireInv
<1>2. CASE S!WriteAnswer
  <2>1. PICK x \in {S!Answer, S!Refusal} :
          wire' = IF writable THEN wire \o <<x>> ELSE wire
    BY <1>2 DEF S!WriteAnswer, S!WriteAll
  <2>2. /\ cpc' = "answered" /\ wire = <<>> /\ ~activated
        /\ UNCHANGED <<sbuffer, published, activated, writable>>
    BY <1>2 DEF S!WriteAnswer, WireInv
  <2>3. x \in Nat /\ <<>> \o <<x>> = <<x>>
    BY ClientSubscriptionAssumptions, ConcatEmptySeq DEF S!Answer, S!Refusal
  <2>4. CASE writable
    <3>1. wire' = <<x>>
      BY Zenon, <2>1, <2>2, <2>3, <2>4
    <3>2. wire' \in Seq(Nat) /\ Len(wire') = 1 /\ wire'[1] = x
      BY <2>3, <3>1
    <3>3. \A k \in 1 .. Len(wire') : k = 1
      BY <3>2
    <3> QED
      BY Zenon, <2>1, <2>2, <3>2, <3>3 DEF WireInv
  <2>5. CASE ~writable
    BY <2>1, <2>2, <2>5 DEF WireInv
  <2> QED
    BY <2>4, <2>5
<1>3. CASE S!Activate
  <2>1. PICK n \in 0 .. Len(sbuffer) :
          /\ wire' = IF writable THEN wire \o SubSeq(sbuffer, 1, n) ELSE wire
          /\ writable' = (writable /\ n = Len(sbuffer))
          /\ activated' = (n = Len(sbuffer))
    BY Zenon, <1>3 DEF S!Activate, S!WriteAll
  <2>2. /\ cpc' = "done" /\ UNCHANGED <<sbuffer, published>>
        /\ Counts(sbuffer, published) /\ (writable => Len(wire) = 1)
    BY Zenon, <1>3 DEF S!Activate, WireInv
  <2>3. CASE writable
    <3>0. wire # <<>> /\ Len(wire) = 1
      BY <2>2, <2>3
    <3> DEFINE t == SubSeq(sbuffer, 1, n)
    <3>1. /\ n \in Nat /\ t \in Seq(Nat) /\ Len(t) = n
          /\ \A k \in 1 .. n : t[k] = (Len(wire) - 1) + k
      BY <1>t, <2>2, <3>0, SubSeqProperties DEF Counts
    <3> HIDE DEF t
    <3>w. wire \in Seq(Nat) /\ \A k \in 1 .. Len(wire) : k # 1 => wire[k] = k - 1
      BY Zenon DEF WireInv
    <3>2. /\ wire \o t \in Seq(Nat) /\ Len(wire \o t) = Len(wire) + n
          /\ wire \o t # <<>> /\ (wire \o t)[1] = wire[1]
          /\ \A k \in 1 .. Len(wire \o t) : k # 1 => (wire \o t)[k] = k - 1
      BY Zenon, <3>w, <3>0, <3>1, WireMore
    <3>3. wire' = wire \o t
      BY Zenon, <2>1, <2>3 DEF t
    <3>4. writable' => activated' /\ Len(wire') = published' + 1
      <4>1. writable' => n = published /\ activated'
        BY Zenon, <2>1, <2>2 DEF Counts
      <4>2. Len(wire') = 1 + n
        BY Zenon, <3>0, <3>2, <3>3
      <4>3. 1 + published = published + 1
        BY <1>t
      <4> QED
        BY Zenon, <2>2, <4>1, <4>2, <4>3
    <3> QED
      BY Zenon, <1>t, <2>2, <3>0, <3>2, <3>3, <3>4 DEF WireInv
  <2>4. CASE ~writable
    <3>1. wire' = wire /\ ~writable'
      BY Zenon, <2>1, <2>4
    <3> QED
      BY Zenon, <2>2, <3>1 DEF WireInv
  <2> QED
    BY <2>3, <2>4
<1>4. CASE S!Notify /\ activated
  <2>1. /\ wire' = IF writable THEN wire \o <<published + 1>> ELSE wire
        /\ published' = published + 1 /\ UNCHANGED <<cpc, activated, sbuffer, writable>>
    BY Zenon, <1>4 DEF S!Notify, S!WriteAll
  <2>2. cpc = "done"
    BY <1>4 DEF WireInv
  <2>3. published' \in Nat
    BY <1>t, <2>1
  <2>4. CASE writable
    <3>0. Len(wire) = published + 1 /\ wire # <<>>
      <4>1. Len(wire) = published + 1
        BY Zenon, <2>2, <2>4 DEF WireInv
      <4> QED
        BY <1>t, <4>1
    <3> DEFINE t == <<published + 1>>
    <3>1. /\ t \in Seq(Nat) /\ Len(t) = 1 /\ 1 \in Nat
          /\ \A k \in 1 .. 1 : t[k] = (Len(wire) - 1) + k
      BY <1>t, <3>0
    <3> HIDE DEF t
    <3>2. /\ wire \o t \in Seq(Nat) /\ Len(wire \o t) = Len(wire) + 1
          /\ wire \o t # <<>> /\ (wire \o t)[1] = wire[1]
          /\ \A k \in 1 .. Len(wire \o t) : k # 1 => (wire \o t)[k] = k - 1
      BY Zenon, <1>t, <3>0, <3>1, WireMore DEF WireInv
    <3>3. wire' = wire \o t
      BY Zenon, <2>1, <2>4 DEF t
    <3>4. Len(wire') = published' + 1
      BY Zenon, <2>1, <3>0, <3>2, <3>3
    <3> QED
      BY Zenon, <1>t, <1>4, <2>1, <2>2, <2>3, <3>0, <3>2, <3>3, <3>4 DEF WireInv
  <2>5. CASE ~writable
    BY <1>4, <2>1, <2>2, <2>3, <2>5 DEF WireInv
  <2> QED
    BY <2>4, <2>5
<1>5. CASE S!Notify /\ ~activated
  <2>1. /\ sbuffer' = Append(sbuffer, published + 1) /\ published' = published + 1
        /\ UNCHANGED <<cpc, activated, wire, writable>>
    BY Zenon, <1>5 DEF S!Notify
  <2>2. Counts(sbuffer', published') /\ published' \in Nat
    <3>1. Counts(sbuffer, published)
      BY Zenon, <1>5 DEF WireInv
    <3>2. published + 1 \in Nat
      BY <1>t
    <3> QED
      BY Zenon, <1>t, <2>1, <3>1, <3>2, CountsMore
  <2>3. sbuffer' \in Seq(Nat)
    BY Zenon, <2>2 DEF Counts
  <2> QED
    BY Zenon, <1>5, <2>1, <2>2, <2>3 DEF WireInv
<1>6. CASE /\ UNCHANGED <<cpc, wire, sbuffer, published, activated>>
           /\ writable' => writable
  BY Zenon, <1>6 DEF WireInv
<1>7. CASE S!Unsubscribe \/ S!CancelServerSubscriptions \/ S!WritesFail \/ S!CloseBegins
           \/ UNCHANGED S!vars
  <2>1. UNCHANGED <<cpc, wire, sbuffer, published, activated>> /\ (writable' => writable)
    BY <1>7 DEF S!Unsubscribe, S!CancelServerSubscriptions, S!WritesFail, S!CloseBegins,
       S!vars
  <2> QED
    BY Zenon, <1>6, <2>1
<1> QED
  BY Zenon, <1>1, <1>2, <1>3, <1>4, <1>5, <1>7 DEF S!Next, S!Call

LEMMA InitWireInv == S!Init => WireInv
  BY EmptySeq DEF S!Init, WireInv, Counts

(* What is on the wire stays there.                                        *)
LEMMA WireGrows == WireInv /\ [S!Next]_(S!vars) => Len(wire) <= Len(wire')
<1> SUFFICES ASSUME WireInv, [S!Next]_(S!vars) PROVE Len(wire) <= Len(wire')
  OBVIOUS
<1>t. wire \in Seq(Nat) /\ sbuffer \in Seq(Nat) /\ published \in Nat /\ Len(wire) \in Nat
  BY DEF WireInv
<1>1. ASSUME NEW t \in Seq(Nat), wire' = IF writable THEN wire \o t ELSE wire
      PROVE  Len(wire) <= Len(wire')
  <2>1. Len(wire \o t) = Len(wire) + Len(t) /\ Len(t) \in Nat
    BY <1>t, Joined
  <2> QED
    BY <1>t, <1>1, <2>1
<1>2. CASE wire' = wire
  BY <1>t, <1>2
<1>3. CASE S!WriteAnswer
  <2>1. <<IF methodErr THEN S!Refusal ELSE S!Answer>> \in Seq(Nat)
    BY ClientSubscriptionAssumptions DEF S!Refusal, S!Answer
  <2> QED
    BY Zenon, <1>1, <1>3, <2>1 DEF S!WriteAnswer, S!WriteAll
<1>4. CASE S!Activate
  <2>1. PICK n \in 0 .. Len(sbuffer) :
          wire' = IF writable THEN wire \o SubSeq(sbuffer, 1, n) ELSE wire
    BY Zenon, <1>4 DEF S!Activate, S!WriteAll
  <2>2. SubSeq(sbuffer, 1, n) \in Seq(Nat)
    BY <1>t
  <2> QED
    BY Zenon, <1>1, <2>1, <2>2
<1>5. CASE S!Notify
  <2>1. <<published + 1>> \in Seq(Nat)
    BY <1>t
  <2> QED
    BY Zenon, <1>1, <1>2, <1>5, <2>1 DEF S!Notify, S!WriteAll
<1> QED
  BY Zenon, <1>2, <1>3, <1>4, <1>5 DEF S!Next, S!Call, S!CreateSubscription,
     S!MethodReturns, S!AddSubscriptions, S!Unsubscribe, S!WritesFail, S!CloseBegins,
     S!CancelServerSubscriptions, S!vars

LEMMA NextReadInv ==
  WireInv /\ WireInv' /\ Numbered /\ ReadInv /\ [LinkNext]_allVars => ReadInv'
<1> SUFFICES ASSUME WireInv, WireInv', Numbered, ReadInv, [LinkNext]_allVars PROVE ReadInv'
  OBVIOUS
<1>t. /\ wire \in Seq(Nat) /\ Len(wire) \in Nat /\ read \in Nat
      /\ wire' \in Seq(Nat) /\ Len(wire') \in Nat
  <2>1. wire \in Seq(Nat) /\ wire' \in Seq(Nat) /\ read \in Nat
    BY Zenon DEF WireInv, Numbered
  <2> QED
    BY <2>1
<1>1. CASE ServerStep \/ ServeUnsubscribe
  <2>1. UNCHANGED <<read, known>> /\ S!Next
    BY Zenon, <1>1 DEF ServerStep, ServeUnsubscribe, vars, linkVars, S!Next
  <2>2. Len(wire) <= Len(wire')
    BY Zenon, <2>1, WireGrows
  <2> QED
    BY <1>t, <2>1, <2>2 DEF ReadInv
<1>2. CASE StartSubscription
  <2>1. /\ wire # <<>> /\ ~known /\ known' /\ UNCHANGED <<read, wire>>
    BY Zenon, <1>2 DEF StartSubscription, vars, serverVars
  <2> QED
    BY <1>t, <2>1, EmptySeq DEF ReadInv
<1>3. CASE ClientStep
  <2>1. known /\ UNCHANGED <<known, wire>>
    BY Zenon, <1>3 DEF ClientStep, linkVars, serverVars
  <2>2. CASE ReadNote
    <3>1. read + 1 < Len(wire) /\ read' = read + 1
      BY Zenon, <2>2 DEF ReadNote, Notification
    <3> QED
      BY <1>t, <2>1, <3>1 DEF ReadInv
  <2>3. CASE read' = read
    BY Zenon, <2>1, <2>3 DEF ReadInv
  <2> QED
    <3>1. CASE SendUnsubscribe \/ Written \/ WriteFails \/ Reconnect \/ HandleSent
               \/ UnsubscribeAnswered \/ UnsubscribeEnded
      <4>1. UNCHANGED vars \/ RequestUnsubscribe \/ Disconnect("lost")
        BY Zenon, <3>1 DEF SendUnsubscribe, Written, WriteFails, Reconnect, HandleSent,
           UnsubscribeAnswered, UnsubscribeEnded
      <4> QED
        BY Zenon, <2>3, <4>1 DEF RequestUnsubscribe, Disconnect, vars
    <3>2. CASE ~(SendUnsubscribe \/ Written \/ WriteFails \/ Reconnect \/ HandleSent
                  \/ UnsubscribeAnswered \/ UnsubscribeEnded)
      BY Zenon, <1>3, <2>2, <2>3, <3>2 DEF ClientStep, ConnectionEnds, Loop, Unblocked, In,
         QuitByClose, Report, Forward, ReadErr, Disconnect, Unsubscribe, Quit, Unsubscribed
    <3> QED
      BY <3>1, <3>2
<1>4. CASE UNCHANGED allVars
  BY Zenon, <1>4 DEF allVars, vars, serverVars, linkVars, ReadInv
<1> QED
  BY Zenon, <1>1, <1>2, <1>3, <1>4 DEF LinkNext

LEMMA CountsIs ==
  ASSUME NEW s, NEW n \in Nat, Counts(s, n)
  PROVE  s = [k \in 1 .. n |-> k]
<1>1. s \in [1 .. n -> Nat] /\ \A k \in 1 .. n : s[k] = k
  BY LenProperties DEF Counts
<1> QED
  BY <1>1

LEMMA CountsNoMore ==
  ASSUME NEW s, NEW n \in Nat, Counts(s, n)
  PROVE  Counts(s \o <<>>, n)
<1>1. s \in Seq(Nat)
  BY DEF Counts
<1>2. s \o <<>> = s
  BY <1>1, ConcatEmptySeq
<1> QED
  BY Zenon, <1>2

(* What the subscriber has received, run has buffered and dispatch has in  *)
(* hand is what has been read.                                             *)
LEMMA ClientCounts ==
  ASSUME Numbered, fpc = "forward"
  PROVE  Counts((received \o buffer) \o (IF dpc = "deliver" THEN <<read>> ELSE <<>>), read)
<1> DEFINE a == received \o buffer
           m == Len(received) + Len(buffer)
<1>t. /\ received \in Seq(Nat) /\ buffer \in Seq(Nat) /\ read \in Nat
      /\ Len(received) \in Nat /\ Len(buffer) \in Nat /\ m \in Nat
      /\ Counts(received, Len(received))
  BY DEF Numbered, Counts
<1>1. Counts(a, m)
  BY Zenon, <1>t, CountsOn DEF Numbered
<1> HIDE DEF a
<1>2. CASE dpc = "deliver"
  <2>1. m + 1 = read
    BY Zenon, <1>2 DEF Numbered
  <2> HIDE DEF m
  <2>2. <<read>> \in Seq(Nat) /\ Len(<<read>>) = 1 /\ 1 \in Nat
        /\ \A k \in 1 .. Len(<<read>>) : <<read>>[k] = m + k
    BY <1>t, <2>1
  <2>3. Counts(a \o <<read>>, m + 1)
    BY Zenon, <1>t, <1>1, <2>2, CountsOn
  <2> QED
    BY Zenon, <1>2, <2>1, <2>3 DEF a
<1>3. CASE dpc # "deliver"
  <2>1. m = read
    BY Zenon, <1>3 DEF Numbered
  <2> HIDE DEF m
  <2>2. Counts(a \o <<>>, m)
    BY Zenon, <1>t, <1>1, CountsNoMore
  <2> QED
    BY Zenon, <1>3, <2>1, <2>2 DEF a
<1> QED
  BY Zenon, <1>2, <1>3

(* What is still on the wire goes on from there.                           *)
LEMMA UnreadCounts ==
  ASSUME WireInv, ReadInv, known, read \in Nat
  PROVE  /\ SubSeq(wire, read + 2, Len(wire)) \in Seq(Nat)
         /\ Len(SubSeq(wire, read + 2, Len(wire))) = Len(wire) - (read + 1)
         /\ Len(wire) - (read + 1) \in Nat
         /\ \A k \in 1 .. Len(SubSeq(wire, read + 2, Len(wire))) :
              SubSeq(wire, read + 2, Len(wire))[k] = read + k
<1> DEFINE t == SubSeq(wire, read + 2, Len(wire))
           n == Len(wire) - (read + 1)
<1>t. wire \in Seq(Nat) /\ Len(wire) \in Nat /\ read + 1 <= Len(wire)
  BY DEF WireInv, ReadInv
<1>1. n \in Nat /\ t \in Seq(Nat) /\ Len(t) = n
  BY <1>t
<1>2. ASSUME NEW k \in 1 .. Len(t) PROVE t[k] = read + k
  <2>1. t[k] = wire[read + 1 + k] /\ read + 1 + k \in 1 .. Len(wire) /\ read + 1 + k # 1
    BY <1>t, <1>1
  <2>2. wire[read + 1 + k] = (read + 1 + k) - 1
    BY Zenon, <2>1 DEF WireInv
  <2>3. k \in Nat
    BY <1>1
  <2> QED
    BY <2>1, <2>2, <2>3
<1> QED
  BY Zenon, <1>1, <1>2

LEMMA NothingMissing == Numbered /\ WireInv /\ ReadInv => EndToEnd
<1> SUFFICES ASSUME Numbered, WireInv, ReadInv PROVE EndToEnd
  OBVIOUS
<1>t. /\ wire \in Seq(Nat) /\ Len(wire) \in Nat /\ read \in Nat /\ published \in Nat
      /\ sbuffer \in Seq(Nat)
  BY DEF WireInv, Numbered
<1>1. wire # <<>> => Head(wire) \in {S!Answer, S!Refusal}
  <2>1. wire # <<>> => Head(wire) = wire[1]
    BY <1>t
  <2> QED
    BY Zenon, <2>1 DEF WireInv
<1> DEFINE hand == IF dpc = "deliver" THEN <<read>> ELSE <<>>
           unread == SubSeq(wire, read + 2, Len(wire))
           held == IF activated THEN <<>> ELSE sbuffer
           seen == (received \o buffer) \o hand
           n == Len(wire) - (read + 1)
<1>2. ASSUME known, writable, fpc = "forward"
      PROVE  (seen \o unread) \o held = [k \in 1 .. published |-> k]
  <2>1. Counts(seen, read)
    BY Zenon, <1>2, ClientCounts
  <2>2. /\ unread \in Seq(Nat) /\ Len(unread) = n /\ n \in Nat
        /\ \A k \in 1 .. Len(unread) : unread[k] = read + k
    BY Zenon, <1>t, <1>2, UnreadCounts
  <2> HIDE DEF seen, unread
  <2>3. Counts(seen \o unread, read + n)
    BY Zenon, <1>t, <2>1, <2>2, CountsOn
  <2>4. CASE activated
    <3>1. cpc = "done"
      BY <2>4 DEF WireInv
    <3>2. Len(wire) = published + 1
      BY Zenon, <1>2, <3>1 DEF WireInv
    <3>3. read + n = published
      BY <1>t, <3>2
    <3>4. Counts((seen \o unread) \o <<>>, published)
      BY Zenon, <1>t, <2>3, <3>3, CountsNoMore
    <3> QED
      BY Zenon, <1>t, <2>4, <3>4, CountsIs
  <2>5. CASE ~activated
    <3>1. wire # <<>>
      BY <1>t, <1>2 DEF ReadInv
    <3>2. cpc = "answered"
      BY <1>2, <2>5, <3>1 DEF WireInv
    <3>3. Len(wire) = 1 /\ Counts(sbuffer, published)
      BY Zenon, <1>2, <2>5, <3>2 DEF WireInv
    <3>4. read + n = 0 /\ 0 \in Nat /\ 0 + published = published
      BY <1>t, <3>3
    <3>5. Len(sbuffer) = published /\ \A k \in 1 .. Len(sbuffer) : sbuffer[k] = 0 + k
      BY <1>t, <3>3 DEF Counts
    <3>6. Counts(seen \o unread, 0)
      BY Zenon, <2>3, <3>4
    <3>7. Counts((seen \o unread) \o sbuffer, 0 + published)
      BY Zenon, <1>t, <3>4, <3>5, <3>6, CountsOn
    <3>8. Counts((seen \o unread) \o sbuffer, published)
      BY Zenon, <3>4, <3>7
    <3> QED
      BY Zenon, <1>t, <2>5, <3>8, CountsIs
  <2> QED
    BY Zenon, <2>4, <2>5
<1>3. InOrder
  BY Zenon, NumberedInOrder
<1> QED
  BY Zenon, <1>1, <1>2, <1>3 DEF EndToEnd

(* Over both ends and the wire between them: the answer with the id comes  *)
(* before every notification, the subscriber gets what Notify was called   *)
(* with in that order and without a gap, and as long as writes succeed and *)
(* run forwards, whatever it has not received yet is on its way to it.     *)
THEOREM PublishedArrives == LinkSpec => []EndToEnd
<1>1. Spec => []Numbered
  <2>1. Init => Numbered
    BY ClientSubscriptionAssumptions DEF Init, Numbered
  <2> QED
    BY <2>1, NextNumbered, PTL DEF Spec
<1>2. S!Spec => []WireInv
  BY InitWireInv, NextWireInv, PTL DEF S!Spec
<1>3. LinkInit => ReadInv
  BY DEF LinkInit, Init, ReadInv
<1> QED
  BY <1>1, <1>2, <1>3, NextReadInv, NothingMissing, EndsImplemented, PTL DEF LinkSpec
=============================================================================
