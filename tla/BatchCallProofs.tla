-------------------------- MODULE BatchCallProofs --------------------------
(***************************************************************************)
(* Proof about BatchCall, for any number of requests and anything that the *)
(* server may answer: an element is given the answer to its own request,   *)
(* and a batch that ends without an error has all of its answers.          *)
(***************************************************************************)
EXTENDS BatchCall, TLAPS

(* The sequence s repeats nothing.                                         *)
OneOfEach(s) == \A j, k \in 1 .. Len(s) : s[j] = s[k] => j = k

(* The elements that have had no answer, and that k places are enough for  *)
(* a set.                                                                  *)
Missing == {i \in Elements : elems[i] = 0}
Fits(S, k) == \E f : \A x \in S : \E i \in 1 .. k : f[i] = x

(* What ElementsOwn asks of an HTTP server: no id that was not sent, and   *)
(* none twice.                                                             *)
Known == isHTTP => Range(sent) \subseteq Elements
Distinct == isHTTP => IsInjective(sent)

BatchTypes ==
  /\ isHTTP \in BOOLEAN
  /\ elems \in [Elements -> Nat]
  /\ received \in Nat
  /\ respWait \subseteq Elements
  /\ resp \in Seq(Nat) /\ answers \in Seq(Nat) /\ sent \in Seq(Nat)
  /\ pc = "push" => isHTTP
  /\ pc = "write" => ~isHTTP
  /\ pc \in {"send", "write"} => resp = <<>> /\ Missing = Elements
  /\ pc = "done" /\ err = "" => received = N

(* Answers reach op.resp for our elements only.                            *)
OwnAnswers ==
  /\ \A i \in Elements : elems[i] \in {0, i}
  /\ Range(resp) \subseteq Elements
  /\ isHTTP => Range(answers) \subseteq Elements

(* An id is in one place: awaited, or not read yet, or in op.resp, or      *)
(* given to its element; so that no more elements miss their answers than  *)
(* answers have yet to be received.                                        *)
OncePerElement ==
  /\ OneOfEach(resp) /\ Range(resp) \subseteq Missing
  /\ ~isHTTP => respWait \subseteq Missing \ Range(resp)
  /\ isHTTP => OneOfEach(answers) /\ Range(answers) \subseteq Missing \ Range(resp)
  /\ \E n \in Nat : received + n = N /\ Fits(Missing, n)

BatchInv == BatchTypes /\ (Known => OwnAnswers /\ (Distinct => OncePerElement))

(* One element less leaves a place free.                                   *)
LEMMA FitsLess ==
  ASSUME NEW S, NEW x \in S, NEW k \in Nat, Fits(S, k)
  PROVE  \E n \in Nat : k = n + 1 /\ Fits(S \ {x}, n)
<1>1. PICK f : \A y \in S : \E i \in 1 .. k : f[i] = y
  BY Zenon DEF Fits
<1>2. PICK a \in 1 .. k : f[a] = x
  BY Zenon, <1>1
<1> DEFINE n == k - 1
           g == [i \in 1 .. n |-> IF i = a THEN f[k] ELSE f[i]]
<1>3. n \in Nat /\ k = n + 1
  OBVIOUS
<1>4. ASSUME NEW y \in S \ {x} PROVE \E i \in 1 .. n : g[i] = y
  <2>1. PICK i \in 1 .. k : f[i] = y
    BY Zenon, <1>1
  <2>2. i # a
    BY Zenon, <1>2, <2>1
  <2>3. CASE i = k
    <3>1. a \in 1 .. n /\ g[a] = f[k]
      BY <2>2, <2>3
    <3> HIDE DEF g, n
    <3> QED
      BY Zenon, <2>1, <2>3, <3>1
  <2>4. CASE i # k
    <3>1. i \in 1 .. n /\ g[i] = f[i]
      BY <2>2, <2>4
    <3> HIDE DEF g, n
    <3> QED
      BY Zenon, <2>1, <3>1
  <2> QED
    BY Zenon, <2>3, <2>4
<1> HIDE DEF g, n
<1>5. Fits(S \ {x}, n)
  BY Zenon, <1>4 DEF Fits
<1> QED
  BY Zenon, <1>3, <1>5

(* What is left when the head of a channel is received, and what is there  *)
(* when something is sent to it.                                           *)
LEMMA TailSet ==
  ASSUME NEW s \in Seq(Nat), s # <<>>
  PROVE  /\ Head(s) \in Nat /\ Tail(s) \in Seq(Nat)
         /\ Range(s) = Range(Tail(s)) \cup {Head(s)}
         /\ OneOfEach(s) => OneOfEach(Tail(s)) /\ Head(s) \notin Range(Tail(s))
<1> DEFINE t == Tail(s)
<1>1. /\ Len(s) \in Nat /\ Len(s) # 0 /\ Head(s) = s[1] /\ Head(s) \in Nat
      /\ t \in Seq(Nat) /\ Len(t) = Len(s) - 1
      /\ DOMAIN s = 1 .. Len(s) /\ DOMAIN t = 1 .. Len(t)
      /\ \A k \in 1 .. Len(s) - 1 : t[k] = s[k + 1]
  OBVIOUS
<1> HIDE DEF t
<1>2. /\ 1 \in 1 .. Len(s)
      /\ \A k \in 1 .. Len(s) : k = 1 \/ (k - 1 \in 1 .. Len(t) /\ t[k - 1] = s[k])
      /\ \A k \in 1 .. Len(t) : k + 1 \in 1 .. Len(s) /\ t[k] = s[k + 1] /\ k + 1 # 1
  <2>1. /\ 1 \in 1 .. Len(s) /\ 1 .. Len(t) = 1 .. Len(s) - 1
        /\ \A k \in 1 .. Len(s) : k = 1 \/ (k - 1 \in 1 .. Len(s) - 1 /\ (k - 1) + 1 = k)
        /\ \A k \in 1 .. Len(s) - 1 : k + 1 \in 1 .. Len(s) /\ k + 1 # 1
    <3>1. Len(s) \in Nat /\ Len(s) # 0 /\ Len(t) = Len(s) - 1
      BY Zenon, <1>1
    <3> QED
      BY <3>1
  <2>2. ASSUME NEW k \in 1 .. Len(s), k # 1
        PROVE  k - 1 \in 1 .. Len(t) /\ t[k - 1] = s[k]
    <3>1. k - 1 \in 1 .. Len(s) - 1 /\ (k - 1) + 1 = k
      BY Zenon, <2>1, <2>2
    <3>2. t[k - 1] = s[(k - 1) + 1]
      BY Zenon, <1>1, <3>1
    <3> QED
      BY Zenon, <2>1, <3>1, <3>2
  <2>3. ASSUME NEW k \in 1 .. Len(t)
        PROVE  k + 1 \in 1 .. Len(s) /\ t[k] = s[k + 1] /\ k + 1 # 1
    BY Zenon, <1>1, <2>1, <2>3
  <2> QED
    BY Zenon, <2>1, <2>2, <2>3
<1>i. \A j, k \in 1 .. Len(t) : j + 1 = k + 1 => j = k
  BY <1>1
<1>3. Range(s) = Range(t) \cup {Head(s)}
  <2>1. ASSUME NEW x \in Range(s) PROVE x \in Range(t) \cup {Head(s)}
    <3>1. PICK k \in 1 .. Len(s) : x = s[k]
      BY Zenon, <1>1, <2>1 DEF Range
    <3>2. CASE k = 1
      BY Zenon, <1>1, <3>1, <3>2
    <3>3. CASE k - 1 \in 1 .. Len(t) /\ t[k - 1] = s[k]
      BY Zenon, <1>1, <3>1, <3>3 DEF Range
    <3> QED
      BY Zenon, <1>2, <3>2, <3>3
  <2>2. ASSUME NEW x \in Range(t) \cup {Head(s)} PROVE x \in Range(s)
    <3>1. CASE x = Head(s)
      BY Zenon, <1>1, <1>2, <3>1 DEF Range
    <3>2. CASE x \in Range(t)
      <4>1. PICK k \in 1 .. Len(t) : x = t[k]
        BY Zenon, <1>1, <3>2 DEF Range
      <4> QED
        BY Zenon, <1>1, <1>2, <4>1 DEF Range
    <3> QED
      BY Zenon, <2>2, <3>1, <3>2
  <2> QED
    BY Zenon, <2>1, <2>2
<1>4. ASSUME OneOfEach(s) PROVE OneOfEach(t) /\ Head(s) \notin Range(t)
  <2>1. OneOfEach(t)
    <3> SUFFICES ASSUME NEW j \in 1 .. Len(t), NEW k \in 1 .. Len(t), t[j] = t[k] PROVE j = k
      BY Zenon DEF OneOfEach
    <3>1. j + 1 \in 1 .. Len(s) /\ k + 1 \in 1 .. Len(s) /\ s[j + 1] = s[k + 1]
      BY Zenon, <1>2
    <3> QED
      BY Zenon, <1>i, <1>4, <3>1 DEF OneOfEach
  <2>2. Head(s) \notin Range(t)
    <3> SUFFICES ASSUME NEW k \in 1 .. Len(t), s[1] = t[k] PROVE FALSE
      BY Zenon, <1>1 DEF Range
    <3>1. k + 1 \in 1 .. Len(s) /\ s[1] = s[k + 1] /\ k + 1 # 1
      BY Zenon, <1>2
    <3> QED
      BY Zenon, <1>2, <1>4, <3>1 DEF OneOfEach
  <2> QED
    BY <2>1, <2>2
<1> QED
  BY Zenon, <1>1, <1>3, <1>4 DEF t

LEMMA AppendSet ==
  ASSUME NEW s \in Seq(Nat), NEW e \in Nat
  PROVE  /\ Append(s, e) \in Seq(Nat)
         /\ Range(Append(s, e)) = Range(s) \cup {e}
         /\ OneOfEach(s) /\ e \notin Range(s) => OneOfEach(Append(s, e))
<1> DEFINE t == Append(s, e)
<1>1. /\ Len(s) \in Nat /\ t \in Seq(Nat) /\ Len(t) = Len(s) + 1
      /\ DOMAIN s = 1 .. Len(s) /\ DOMAIN t = 1 .. Len(t)
      /\ \A k \in 1 .. Len(s) : t[k] = s[k]
      /\ t[Len(s) + 1] = e
  OBVIOUS
<1> HIDE DEF t
<1>2. /\ \A k \in 1 .. Len(t) : k \in 1 .. Len(s) \/ k = Len(s) + 1
      /\ \A k \in 1 .. Len(s) : k \in 1 .. Len(t)
      /\ Len(s) + 1 \in 1 .. Len(t)
  BY <1>1
<1>3. Range(t) = Range(s) \cup {e}
  <2>1. ASSUME NEW x \in Range(t) PROVE x \in Range(s) \cup {e}
    BY Zenon, <1>1, <1>2, <2>1 DEF Range
  <2>2. ASSUME NEW x \in Range(s) \cup {e} PROVE x \in Range(t)
    BY Zenon, <1>1, <1>2, <2>2 DEF Range
  <2> QED
    BY Zenon, <2>1, <2>2
<1>4. ASSUME OneOfEach(s), e \notin Range(s) PROVE OneOfEach(t)
  <2> SUFFICES ASSUME NEW j \in 1 .. Len(t), NEW k \in 1 .. Len(t), t[j] = t[k] PROVE j = k
    BY Zenon DEF OneOfEach
  <2>1. \A m \in 1 .. Len(s) : t[m] # e
    BY Zenon, <1>1, <1>4 DEF Range
  <2> QED
    BY Zenon, <1>1, <1>2, <1>4, <2>1 DEF OneOfEach
<1> QED
  BY Zenon, <1>1, <1>3, <1>4 DEF t

LEMMA EmptySet == <<>> \in Seq(Nat) /\ Range(<<>>) = {} /\ OneOfEach(<<>>)
  BY DEF Range, OneOfEach

LEMMA BatchStepTypes == BatchTypes /\ [Next]_vars => BatchTypes'
<1> SUFFICES ASSUME BatchTypes, [Next]_vars PROVE BatchTypes'
  OBVIOUS
<1> USE DEF given, Return
<1>1. CASE UNCHANGED vars
  BY Zenon, <1>1 DEF vars, BatchTypes, Missing
<1>g. CASE UNCHANGED given
  <2>1. CASE Expire
    BY Zenon, <1>g, <2>1 DEF Expire, BatchTypes, Missing
  <2>2. CASE DoRequest \/ Pushed \/ WaitExpires \/ AllReceived
    BY Zenon, <1>g, <2>2 DEF DoRequest, Pushed, WaitExpires, AllReceived, BatchTypes, Missing
  <2>3. CASE Timeout \/ Written \/ WriteFails
    BY Zenon, <1>g, <2>3 DEF Timeout, Written, WriteFails, BatchTypes, Missing
  <2>9. CASE Register \/ Reconnect \/ HandleSent
    BY Zenon, <1>g, <2>9 DEF Register, Reconnect, HandleSent, BatchTypes, Missing
  <2>4. CASE ConnectionLost \/ Quit
    BY Zenon, <1>g, <2>4, EmptySet
       DEF ConnectionLost, Quit, CancelAllRequests, BatchTypes, Missing
  <2>5. CASE Push
    <3>1. Head(answers) \in Nat /\ Tail(answers) \in Seq(Nat) /\ resp' \in Seq(Nat)
      BY <2>5, TailSet, AppendSet DEF Push, BatchTypes
    <3> QED
      BY <1>g, <2>5, <3>1 DEF Push, BatchTypes
  <2>6. CASE HandleResponse
    <3>1. Head(answers) \in Nat /\ Tail(answers) \in Seq(Nat) /\ resp' \in Seq(Nat)
      BY Zenon, <2>6, TailSet, AppendSet DEF HandleResponse, BatchTypes
    <3> QED
      BY Zenon, <1>g, <2>6, <3>1 DEF HandleResponse, BatchTypes
  <2>7. CASE Receive
    <3>1. Head(resp) \in Nat /\ Tail(resp) \in Seq(Nat)
      BY Zenon, <2>7, TailSet DEF Receive, BatchTypes
    <3>2. elems' = [elems EXCEPT ![byID(Head(resp))] = Head(resp)] /\ received' = received + 1
          /\ resp' = Tail(resp) /\ pc = "wait" /\ UNCHANGED <<pc, respWait, answers>>
      BY Zenon, <2>7 DEF Receive
    <3>3. elems' \in [Elements -> Nat] /\ received' \in Nat
      <4>1. elems \in [Elements -> Nat] /\ received \in Nat /\ Head(resp) \in Nat
        BY Zenon, <3>1 DEF BatchTypes
      <4>2. elems' \in [Elements -> Nat]
        BY Zenon, <3>2, <4>1
      <4> QED
        BY <3>2, <4>1, <4>2
    <3> QED
      BY <1>g, <3>1, <3>2, <3>3 DEF BatchTypes
  <2>8. CASE ReceiveClosed
    <3>1. resp' \in Seq(Nat)
      BY Zenon, <2>8, TailSet DEF ReceiveClosed, BatchTypes
    <3> QED
      BY Zenon, <1>g, <2>8, <3>1 DEF ReceiveClosed, BatchTypes
  <2> QED
    BY Zenon, <2>1, <2>2, <2>3, <2>4, <2>5, <2>6, <2>7, <2>8, <2>9, <1>1 DEF Next, Caller
<1> QED
  BY Zenon, <1>1, <1>g DEF Next

LEMMA StepOwn ==
  ASSUME BatchTypes, OwnAnswers, [Next]_vars
  PROVE  OwnAnswers'
<1> USE DEF given, Return
<1>1. CASE UNCHANGED <<isHTTP, elems, resp, answers>>
  BY Zenon, <1>1 DEF OwnAnswers
<1>2. CASE Next
  <2>g. UNCHANGED given
    BY Zenon, <1>2 DEF Next
  <2>4. CASE ConnectionLost \/ Quit \/ Reconnect
    BY Zenon, <2>g, <2>4
       DEF ConnectionLost, Quit, CancelAllRequests, Reconnect, BatchTypes, OwnAnswers
  <2>5. CASE Push
    <3>1. isHTTP /\ answers # <<>> /\ answers' = Tail(answers) /\ resp' = Append(resp, Head(answers))
      BY Zenon, <2>5 DEF Push, BatchTypes
    <3>2. /\ Range(answers) = Range(Tail(answers)) \cup {Head(answers)}
          /\ Range(resp') = Range(resp) \cup {Head(answers)}
      BY Zenon, <3>1, TailSet, AppendSet DEF BatchTypes
    <3> QED
      BY Zenon, <2>g, <2>5, <3>1, <3>2 DEF Push, OwnAnswers
  <2>6. CASE HandleResponse
    <3>1. ~isHTTP /\ answers # <<>> /\ (resp' = resp \/ (Head(answers) \in respWait
                                                      /\ resp' = Append(resp, Head(answers))))
      BY Zenon, <2>6 DEF HandleResponse
    <3>2. Head(answers) \in Nat
      BY Zenon, <3>1, TailSet DEF BatchTypes
    <3>3. Range(resp') \subseteq Elements
      <4>1. CASE resp' = resp
        BY Zenon, <4>1 DEF OwnAnswers
      <4>2. CASE Head(answers) \in respWait /\ resp' = Append(resp, Head(answers))
        <5>1. Range(resp') = Range(resp) \cup {Head(answers)}
          BY Zenon, <3>2, <4>2, AppendSet DEF BatchTypes
        <5> QED
          BY Zenon, <4>2, <5>1 DEF BatchTypes, OwnAnswers
      <4> QED
        BY Zenon, <3>1, <4>1, <4>2
    <3> QED
      BY Zenon, <2>g, <2>6, <3>1, <3>3 DEF HandleResponse, OwnAnswers
  <2>7. CASE Receive
    <3>1. resp # <<>> /\ resp' = Tail(resp) /\ UNCHANGED answers
          /\ elems' = [elems EXCEPT ![byID(Head(resp))] = Head(resp)]
      BY Zenon, <2>7 DEF Receive
    <3>2. Range(resp) = Range(resp') \cup {Head(resp)}
      BY Zenon, <3>1, TailSet DEF BatchTypes
    <3>3. Head(resp) \in Elements /\ byID(Head(resp)) = Head(resp)
      BY Zenon, <3>2 DEF OwnAnswers, byID
    <3>4. \A i \in Elements : elems'[i] \in {0, i}
      BY Zenon, <3>1, <3>3 DEF BatchTypes, OwnAnswers
    <3> QED
      BY Zenon, <2>g, <3>1, <3>2, <3>4 DEF OwnAnswers
  <2>8. CASE ReceiveClosed
    <3>1. UNCHANGED <<elems, answers>> /\ (resp' = resp \/ (resp # <<>> /\ resp' = Tail(resp)))
      BY Zenon, <2>8 DEF ReceiveClosed
    <3>2. Range(resp') \subseteq Range(resp)
      <4>1. resp # <<>> => Range(resp) = Range(Tail(resp)) \cup {Head(resp)}
        BY Zenon, TailSet DEF BatchTypes
      <4> QED
        BY Zenon, <3>1, <4>1
    <3> QED
      BY Zenon, <2>g, <3>1, <3>2 DEF OwnAnswers
  <2> QED
    BY Zenon, <1>1, <1>2, <2>g, <2>4, <2>5, <2>6, <2>7, <2>8
       DEF Next, Caller, Expire, DoRequest, Pushed, Register, Written, WriteFails, HandleSent,
           WaitExpires, AllReceived, Timeout
<1> QED
  BY Zenon, <1>1, <1>2 DEF vars

LEMMA StepOnce ==
  ASSUME BatchTypes, OwnAnswers, OncePerElement, [Next]_vars
  PROVE  OncePerElement'
<1> USE DEF given, Return
<1>1. CASE UNCHANGED <<isHTTP, elems, received, respWait, resp, answers>>
  BY Zenon, <1>1 DEF OncePerElement, Missing
<1>2. CASE Next
  <2>g. UNCHANGED isHTTP
    BY Zenon, <1>2 DEF Next
  <2>1. CASE UNCHANGED <<elems, received, resp>> /\ respWait' = {} /\ answers' \in {answers, <<>>}
    BY Zenon, <2>g, <2>1, EmptySet DEF OncePerElement, Missing
  <2>2. CASE Register \/ Reconnect
    <3>1. /\ ~isHTTP /\ resp = <<>> /\ Missing = Elements
          /\ UNCHANGED <<elems, received, resp>> /\ respWait' \subseteq Elements
      BY Zenon, <2>2 DEF Register, Reconnect, BatchTypes
    <3>2. Range(resp') = {} /\ Missing' = Missing
      BY Zenon, <3>1, EmptySet DEF Missing
    <3>3. respWait' \subseteq Missing' \ Range(resp')
      BY <3>1, <3>2
    <3> QED
      BY Zenon, <2>g, <3>1, <3>2, <3>3 DEF OncePerElement
  <2>3. CASE ConnectionLost \/ Timeout \/ HandleSent \/ Quit
    BY Zenon, <1>1, <2>g, <2>1, <2>3
       DEF ConnectionLost, Timeout, HandleSent, Quit, CancelAllRequests
  <2>4. CASE Push
    <3>1. /\ isHTTP /\ answers # <<>> /\ answers' = Tail(answers)
          /\ resp' = Append(resp, Head(answers)) /\ UNCHANGED <<elems, received, respWait>>
      BY Zenon, <2>4 DEF Push, BatchTypes
    <3>2. /\ Head(answers) \in Nat /\ Range(answers) = Range(answers') \cup {Head(answers)}
          /\ OneOfEach(answers') /\ Head(answers) \notin Range(answers')
      BY Zenon, <3>1, TailSet DEF BatchTypes, OncePerElement
    <3>3. /\ Range(resp') = Range(resp) \cup {Head(answers)}
          /\ OneOfEach(resp')
      BY Zenon, <3>1, <3>2, AppendSet DEF BatchTypes, OncePerElement
    <3>4. Missing' = Missing
      BY Zenon, <3>1 DEF Missing
    <3> QED
      BY <2>g, <3>1, <3>2, <3>3, <3>4 DEF OncePerElement
  <2>5. CASE HandleResponse
    <3>1. /\ ~isHTTP /\ answers # <<>> /\ UNCHANGED <<elems, received>>
          /\ respWait' = respWait \ {Head(answers)}
      BY Zenon, <2>5 DEF HandleResponse
    <3>2. Head(answers) \in Nat /\ Missing' = Missing
      BY Zenon, <3>1, TailSet DEF BatchTypes, Missing
    <3>3. CASE Head(answers) \in respWait /\ resp' = Append(resp, Head(answers))
      <4>1. /\ Range(resp') = Range(resp) \cup {Head(answers)}
            /\ OneOfEach(resp')
        BY Zenon, <3>1, <3>2, <3>3, AppendSet DEF BatchTypes, OncePerElement
      <4> QED
        BY <2>g, <3>1, <3>2, <3>3, <4>1 DEF OncePerElement
    <3>4. CASE resp' = resp
      BY Zenon, <2>g, <3>1, <3>2, <3>4 DEF OncePerElement
    <3> QED
      BY Zenon, <2>5, <3>3, <3>4 DEF HandleResponse
  <2>6. CASE Receive
    <3>1. /\ resp # <<>> /\ resp' = Tail(resp) /\ UNCHANGED <<answers, respWait>>
          /\ elems' = [elems EXCEPT ![byID(Head(resp))] = Head(resp)]
          /\ received' = received + 1
      BY Zenon, <2>6 DEF Receive
    <3>2. /\ Range(resp) = Range(resp') \cup {Head(resp)} /\ OneOfEach(resp')
          /\ Head(resp) \notin Range(resp')
      BY Zenon, <3>1, TailSet DEF BatchTypes, OncePerElement
    <3>3. Head(resp) \in Missing /\ Head(resp) \in Elements /\ byID(Head(resp)) = Head(resp)
      BY Zenon, <3>2 DEF OwnAnswers, OncePerElement, byID
    <3>4. Missing' = Missing \ {Head(resp)}
      <4>1. Head(resp) # 0
        BY <3>3, BatchAssumptions DEF Elements
      <4>2. \A i \in Elements : elems'[i] = IF i = Head(resp) THEN Head(resp) ELSE elems[i]
        BY Zenon, <3>1, <3>3 DEF BatchTypes
      <4> QED
        BY <4>1, <4>2 DEF Missing
    <3>5. \E n \in Nat : received' + n = N /\ Fits(Missing', n)
      <4>1. PICK n \in Nat : received + n = N /\ Fits(Missing, n)
        BY Zenon DEF OncePerElement
      <4>2. PICK m \in Nat : n = m + 1 /\ Fits(Missing \ {Head(resp)}, m)
        BY Zenon, <3>3, <4>1, FitsLess
      <4>3. received' + m = N
        <5>1. received \in Nat
          BY Zenon DEF BatchTypes
        <5> QED
          BY <3>1, <4>1, <4>2, <5>1
      <4> QED
        BY Zenon, <3>4, <4>2, <4>3
    <3> QED
      BY <2>g, <3>1, <3>2, <3>3, <3>4, <3>5 DEF OncePerElement
  <2>7. CASE ReceiveClosed
    <3>1. UNCHANGED <<elems, received, answers, respWait>>
          /\ (resp' = resp \/ (resp # <<>> /\ resp' = Tail(resp)))
      BY Zenon, <2>7 DEF ReceiveClosed
    <3>2. Range(resp') \subseteq Range(resp) /\ OneOfEach(resp')
      <4>1. CASE resp' = resp
        BY Zenon, <4>1 DEF OncePerElement
      <4>2. CASE resp # <<>> /\ resp' = Tail(resp)
        <5>1. Range(resp) = Range(resp') \cup {Head(resp)} /\ OneOfEach(resp')
          BY Zenon, <4>2, TailSet DEF BatchTypes, OncePerElement
        <5> QED
          BY Zenon, <5>1
      <4> QED
        BY Zenon, <3>1, <4>1, <4>2
    <3>3. Missing' = Missing
      BY Zenon, <3>1 DEF Missing
    <3> QED
      BY <2>g, <3>1, <3>2, <3>3 DEF OncePerElement
  <2> QED
    BY Zenon, <1>1, <1>2, <2>g, <2>2, <2>3, <2>4, <2>5, <2>6, <2>7
       DEF Next, Caller, Expire, DoRequest, Pushed, Written, WriteFails, WaitExpires, AllReceived
<1> QED
  BY Zenon, <1>1, <1>2 DEF vars

LEMMA InitBatch == Init => BatchInv
<1> SUFFICES ASSUME Init PROVE BatchInv
  OBVIOUS
<1>1. sent \in Seq(Nat) /\ answers = sent
  BY Zenon, BatchAssumptions DEF Init
<1>2. Missing = Elements
  BY Zenon DEF Init, Missing
<1>3. BatchTypes
  <2>1. /\ isHTTP \in BOOLEAN /\ received = 0 /\ respWait = {} /\ resp = <<>> /\ pc = "send"
        /\ elems = [i \in Elements |-> 0]
    BY Zenon DEF Init
  <2>2. elems \in [Elements -> Nat] /\ received \in Nat /\ pc # "push" /\ pc # "done"
    BY <2>1
  <2> QED
    BY Zenon, <1>1, <1>2, <2>1, <2>2, EmptySet DEF BatchTypes
<1>4. Range(resp) = {} /\ OneOfEach(resp) /\ respWait = {} /\ received = 0
  BY Zenon, EmptySet DEF Init
<1>5. Known => OwnAnswers
  <2>1. \A i \in Elements : elems[i] \in {0, i}
    BY Zenon DEF Init
  <2> QED
    BY Zenon, <1>1, <1>4, <2>1 DEF Known, OwnAnswers
<1>6. ASSUME Known, Distinct PROVE OncePerElement
  <2>1. isHTTP => OneOfEach(answers)
    <3>1. DOMAIN sent = 1 .. Len(sent)
      BY <1>1
    <3> QED
      BY Zenon, <1>1, <1>6, <3>1 DEF IsInjective, OneOfEach, Distinct
  <2>2. 0 \in Nat /\ N \in Nat /\ 0 + N = N
    BY BatchAssumptions
  <2>3. Fits(Elements, N)
    <3> DEFINE f == [i \in 1 .. N |-> i]
    <3>1. \A x \in Elements : x \in 1 .. N /\ f[x] = x
      BY DEF Elements
    <3> HIDE DEF f
    <3> QED
      BY Zenon, <3>1 DEF Fits
  <2>4. isHTTP => Range(answers) \subseteq Elements
    BY Zenon, <1>1, <1>6 DEF Known
  <2> QED
    BY Zenon, <1>1, <1>2, <1>4, <2>1, <2>2, <2>3, <2>4 DEF Distinct, OncePerElement
<1> QED
  BY Zenon, <1>3, <1>5, <1>6 DEF BatchInv

LEMMA NextBatch == BatchInv /\ [Next]_vars => BatchInv'
<1> SUFFICES ASSUME BatchInv, [Next]_vars PROVE BatchInv'
  OBVIOUS
<1>1. UNCHANGED <<isHTTP, sent>>
  BY Zenon DEF Next, vars, given
<1>2. (Known' => Known) /\ (Distinct' => Distinct)
  BY Zenon, <1>1 DEF Known, Distinct
<1> QED
  BY Zenon, <1>2, BatchStepTypes, StepOwn, StepOnce DEF BatchInv

(* BatchCallContext gives an element the answer to its own request, and    *)
(* returns nil only when every element has had its answer, for any number  *)
(* of requests and whatever the server repeats, leaves out, reorders or    *)
(* invents (over HTTP, if it invents and repeats nothing).                 *)
THEOREM ElementsGetTheirOwn == Spec => []ElementsOwn
<1>1. BatchInv => ElementsOwn
  <2> SUFFICES ASSUME BatchInv, Known, NEW i \in Elements
               PROVE  \/ elems[i] = i
                      \/ elems[i] = 0 /\ (pc = "done" /\ err = "" => isHTTP /\ ~IsInjective(sent))
    BY Zenon DEF ElementsOwn, Known
  <2>1. elems[i] = 0 \/ elems[i] = i
    BY Zenon DEF BatchInv, OwnAnswers
  <2>2. ASSUME pc = "done", err = "", Distinct
        PROVE  elems[i] # 0
    <3>1. PICK n \in Nat : received + n = N /\ Fits(Missing, n)
      BY Zenon, <2>2 DEF BatchInv, OncePerElement
    <3>2. n = 0
      <4>1. received = N
        BY Zenon, <2>2 DEF BatchInv, BatchTypes
      <4> QED
        BY <3>1, <4>1, BatchAssumptions
    <3>3. \A k : k \notin 1 .. 0
      OBVIOUS
    <3> QED
      BY Zenon, <3>1, <3>2, <3>3 DEF Fits, Missing
  <2> QED
    BY Zenon, <2>1, <2>2 DEF Distinct
<1> QED
  BY <1>1, InitBatch, NextBatch, PTL DEF Spec
=============================================================================
