---------------------------- MODULE ServerProofs ----------------------------
(***************************************************************************)
(* Proofs about the server's side of its connections.  Of RpcServer, for   *)
(* any set of connections: no method outlives the ServeCodec that started  *)
(* it, and Stop closes all connections but those it misses.  Of WsCodec,   *)
(* the codec of one of them, for any ping interval and pong timeout above  *)
(* the latency: a peer that answers is not timed out, but for the one      *)
(* stale deadline.  Of Handler, for any methods, values and sessions, and  *)
(* any width of the integers: a reply answers the requests of its frame,   *)
(* only what is exposed runs, and it runs with what the sender meant.      *)
(***************************************************************************)
EXTENDS RpcServer, WsCodec, Handler, TLAPS

WsTypes ==
  /\ set \in Settings
  /\ timer \in Nat /\ fired \in BOOLEAN
  /\ deadline \in Nat \cup {None} /\ pong \in Nat \cup {None}
  /\ pong # None => pong <= Latency
  /\ remote \in {"there", "gone"} /\ stale \in BOOLEAN

(* The timer has stopped once it has fired, until pingLoop resets it.      *)
TimerInv ==
  /\ fired => timer = 0
  /\ pinger \in {"lock", "ping", "deadline"} => ~fired /\ timer = 0

(* The reading end of a connection that nobody has closed.                 *)
Live == remote = "there" /\ reader = "reading" /\ ~Closing

(* A pong is due before the next ping, and before the read deadline of its *)
(* own ping.                                                               *)
PongDue ==
  Live =>
    /\ pong # None /\ pinger # "deadline" =>
         pinger \in {"select", "reset"} /\ ~fired /\ pong < timer
    /\ deadline # None /\ ~stale => pong # None /\ pong < deadline

WsInv == WsTypes /\ TimerInv /\ PongDue

LEMMA Timeouts ==
  ASSUME set \in Settings
  PROVE  /\ set.ping \in Nat /\ set.ping > 0 /\ Latency < set.ping
         /\ set.pong \in Nat /\ Latency < set.pong
         /\ Latency \in Nat
BY WsAssumptions

LEMMA DueAfterZero ==
  ASSUME NEW n \in Nat \cup {None}
  PROVE  0 # None /\ ~(n # None /\ n < 0)
BY DEF None

LEMMA WsStep == WsInv /\ [WsNext]_wsVars => WsInv'
<1> SUFFICES ASSUME WsInv, [WsNext]_wsVars PROVE WsInv'
  OBVIOUS
<1> USE DEF timeVars
<1>s. /\ set.ping \in Nat /\ set.ping > 0 /\ Latency < set.ping
      /\ set.pong \in Nat /\ Latency < set.pong /\ Latency \in Nat
  BY Timeouts DEF WsInv, WsTypes
<1>1. CASE PingLoopEnds \/ ResetReceived
  BY <1>1 DEF PingLoopEnds, ResetReceived, WsInv, WsTypes, TimerInv, PongDue, Live, Closing
<1>2. CASE TimerReset
  <2>1. WsTypes'
    BY Zenon, <1>2, <1>s DEF TimerReset, WsInv, WsTypes, None
  <2>2. TimerInv'
    BY <1>2, <1>s DEF TimerReset, WsInv, WsTypes, TimerInv
  <2>3. PongDue'
    BY <1>2, <1>s DEF TimerReset, WsInv, WsTypes, TimerInv, PongDue, Live, Closing, None
  <2> QED
    BY <2>1, <2>2, <2>3 DEF WsInv
<1>3. CASE TimerFired
  BY Zenon, <1>3 DEF TimerFired, WsInv, WsTypes, TimerInv, PongDue, Live, Closing
<1>4. CASE LockForPing
  BY <1>4 DEF LockForPing, Lock, WsInv, WsTypes, TimerInv, PongDue, Live, Closing
<1>5. CASE WritePing
  <2>1. WsTypes'
    BY <1>5, <1>s DEF WritePing, WsInv, WsTypes, None
  <2>2. TimerInv'
    BY <1>5, <1>s DEF WritePing, WsInv, WsTypes, TimerInv
  <2>3. PongDue'
    BY <1>5, <1>s DEF WritePing, WsInv, WsTypes, TimerInv, PongDue, Live, Closing, None
  <2> QED
    BY <2>1, <2>2, <2>3 DEF WsInv
<1>6. CASE Pinged
  <2>1. WsTypes'
    BY <1>6, <1>s DEF Pinged, WsInv, WsTypes, None
  <2>2. TimerInv'
    BY <1>6, <1>s DEF Pinged, WsInv, WsTypes, TimerInv
  <2>3. PongDue'
    <3>1. pinger' = "select" /\ ~fired'
      BY Zenon, <1>6 DEF Pinged, WsInv, TimerInv
    <3>2. ~stale' => pong' # None
      BY Zenon, <1>6 DEF Pinged
    <3>3. pong' # None => pong' < timer' /\ pong' < deadline'
      BY <1>6, <1>s DEF Pinged, WsInv, WsTypes, None
    <3> QED
      BY Zenon, <3>1, <3>2, <3>3 DEF PongDue
  <2> QED
    BY <2>1, <2>2, <2>3 DEF WsInv
<1>7. CASE Pong
  BY Zenon, <1>7 DEF Pong, WsInv, WsTypes, TimerInv, PongDue, Live, Closing
<1>8. CASE ReadTimesOut
  <2>1. /\ reader' # "reading"
        /\ UNCHANGED <<set, timer, fired, deadline, pong, pinger, remote, stale>>
    BY Zenon, <1>8 DEF ReadTimesOut
  <2> QED
    BY Zenon, <2>1 DEF WsInv, WsTypes, TimerInv, PongDue, Live
<1>12. CASE Close \/ CloseReturns
  <2>1. /\ Closing'
        /\ UNCHANGED <<set, timer, fired, deadline, pong, pinger, remote, stale>>
    BY <1>12 DEF Close, CloseReturns, Closing
  <2> QED
    BY Zenon, <2>1 DEF WsInv, WsTypes, TimerInv, PongDue, Live
<1>9. CASE PeerGone
  BY <1>9 DEF PeerGone, WsInv, WsTypes, TimerInv, PongDue, Live, Closing
<1>10. CASE Tick
  <2>1. /\ timer' = Left(timer) /\ fired' = (fired \/ timer = 1)
        /\ deadline' = Left(deadline) /\ pong' = Left(pong)
        /\ UNCHANGED <<set, pinger, reader, closer, remote, stale>>
    BY Zenon, <1>10 DEF Tick
  <2>2. (Live => pong # 0) /\ pinger # "deadline"
    BY <1>10 DEF Tick, Ready, Live
  <2>3. WsTypes'
    BY <1>s, <2>1 DEF WsInv, WsTypes, Left, None
  <2>4. TimerInv'
    BY <2>1 DEF WsInv, WsTypes, TimerInv, Left
  <2>5. PongDue'
    BY <2>1, <2>2 DEF WsInv, WsTypes, PongDue, Live, Closing, Left, None
  <2> QED
    BY <2>3, <2>4, <2>5 DEF WsInv
<1>11. CASE UNCHANGED <<set, timer, fired, deadline, pong, pinger, remote, reader, closer, stale>>
  BY Zenon, <1>11 DEF WsInv, WsTypes, TimerInv, PongDue, Live, Closing
<1> QED
  BY Zenon, <1>1, <1>2, <1>3, <1>4, <1>5, <1>6, <1>7, <1>8, <1>9, <1>10, <1>11, <1>12
     DEF WsNext, PingLoop, WriteJSON, Lock, Encode, DelayPing, wsVars

(* Reading from a peer that answers its pings does not time out, unless    *)
(* the answer was handled before its deadline was set.                     *)
THEOREM AnsweringPeerIsRead == WsSpec => LiveNotTimedOut
<1>1. WsInit => WsInv
  <2> SUFFICES ASSUME WsInit PROVE WsInv
    OBVIOUS
  <2>1. /\ set.ping \in Nat /\ set.ping > 0
    BY Timeouts DEF WsInit
  <2> QED
    BY Zenon, <2>1 DEF WsInit, WsInv, WsTypes, TimerInv, PongDue, None
<1>2. WsInv /\ [WsNext]_wsVars =>
        [reader = "reading" /\ reader' = "timed out" => remote = "gone" \/ stale]_wsVars
  <2> SUFFICES ASSUME WsInv, WsNext, reader = "reading", reader' = "timed out"
               PROVE  remote = "gone" \/ stale
    BY Zenon
  <2>1. ReadTimesOut
    BY Zenon DEF WsNext, PingLoop, PingLoopEnds, ResetReceived, TimerReset, TimerFired, LockForPing,
           WritePing, Pinged, WriteJSON, Encode, DelayPing, Close, CloseReturns, Pong,
           PeerGone, Tick
  <2>2. deadline = 0 /\ ~Closing
    BY Zenon, <2>1 DEF ReadTimesOut
  <2>3. deadline # None /\ ~(pong # None /\ pong < deadline)
    <3>1. deadline = 0 /\ pong \in Nat \cup {None}
      BY Zenon, <2>2 DEF WsInv, WsTypes
    <3> QED
      BY Zenon, <3>1, DueAfterZero
  <2>4. ~Live \/ stale
    BY Zenon, <2>3 DEF WsInv, PongDue
  <2>5. remote = "there" \/ remote = "gone"
    BY Zenon DEF WsInv, WsTypes
  <2> QED
    BY Zenon, <2>2, <2>4, <2>5 DEF Live
<1> QED
  BY <1>1, <1>2, WsStep, PTL DEF WsSpec, LiveNotTimedOut

-----------------------------------------------------------------------------
(* The server.                                                             *)
ServerTypes ==
  /\ run \in BOOLEAN /\ swept \in BOOLEAN
  /\ spc \in [Codecs -> {"idle", "checked", "added", "serving", "closing", "done"}]
  /\ open \in [Codecs -> BOOLEAN]
  /\ dpc \in [Codecs -> {"none", "loop", "readclose", "quitclose", "end"}]
  /\ reading \in [Codecs -> BOOLEAN]
  /\ call \in [Codecs -> Kinds \cup {"none", "sending", "writing", "waiting", "done"}]

(* What holds of one connection.  dispatch exists from InitClient on, has  *)
(* ended when ServeCodec has returned, and stops reading, or ends, only    *)
(* after its wait for the call goroutines; no call is started after that.  *)
Served(c) ==
  /\ spc[c] \in {"idle", "checked", "added"} => dpc[c] = "none"
  /\ spc[c] = "done" => dpc[c] \in {"none", "end"}
  /\ dpc[c] = "none" => call[c] = "none"
  /\ dpc[c] = "end" \/ ~reading[c] => CallsFinished(c)

(* A connection is in the set from AddCodec on, until ServeCodec returns.  *)
(* When Stop has gone over the set, no other passes the check of s.run, so *)
(* that one that has passed it and is open was missed.                     *)
Stopped(c) ==
  /\ swept => ~run
  /\ spc[c] \in {"added", "serving", "closing"} => c \in codecs
  /\ swept /\ spc[c] = "checked" => c \in missed
  /\ swept /\ spc[c] \in {"added", "serving", "closing"} /\ open[c] => c \in missed

ServerInv == ServerTypes /\ \A c \in Codecs : Served(c) /\ Stopped(c)

(* The steps of one connection c.                                          *)
StepOf(c) ==
  \/ ServeCodec(c) \/ Serve(c) \/ Dispatch(c) \/ CallProc(c)
  \/ Request(c) \/ Respond(c)

LEMMA ServerStepTypes == ServerTypes /\ [Next]_vars => ServerTypes'
<1> SUFFICES ASSUME ServerTypes, [Next]_vars PROVE ServerTypes'
  OBVIOUS
<1> USE DEF stopVars, opVars
<1>1. ASSUME NEW c \in Codecs, ServeCodec(c) \/ Serve(c) PROVE ServerTypes'
  BY Zenon, <1>1 DEF ServerTypes, ServeCodec, Serve, AddCodec, InitClient, CodecClosed,
              ServeReturns
<1>2. ASSUME NEW c \in Codecs, Dispatch(c) PROVE ServerTypes'
  BY Zenon, <1>2 DEF ServerTypes, Dispatch, HandleSent, ReadErr, ReadErrClosed, Quit, QuitClosed
<1>3. ASSUME NEW c \in Codecs, CallProc(c) PROVE ServerTypes'
  BY <1>3 DEF ServerTypes, CallProc, MethodReturns, ReverseCall, Send, Write, WaitReturns
<1>4. ASSUME NEW c \in Codecs, Request(c) \/ Respond(c) PROVE ServerTypes'
  BY <1>4 DEF ServerTypes, Request, Respond
<1>5. CASE UNCHANGED <<run, swept, spc, open, dpc, reading, call>>
  BY Zenon, <1>5 DEF ServerTypes
<1>6. CASE Stop \/ CloseCodecs
  <2>1. \A c \in Codecs : (open[c] /\ c \notin codecs) \in BOOLEAN
    BY Zenon
  <2> QED
    BY Zenon, <1>6, <2>1 DEF ServerTypes, Stop, CloseCodecs
<1> QED
  BY Zenon, <1>1, <1>2, <1>3, <1>4, <1>5, <1>6 DEF Next, Hangup, vars

(* A step of one connection leaves what holds of another alone.            *)
LEMMA OthersServed ==
  ASSUME ServerTypes, NEW c \in Codecs, NEW d \in Codecs, d # c, Served(d), Stopped(d),
         StepOf(c)
  PROVE  Served(d)' /\ Stopped(d)'
<1> USE DEF stopVars, opVars
<1>1. CASE \/ ServeCodec(c) \/ AddCodec(c) \/ InitClient(c)
           \/ CodecClosed(c) \/ ServeReturns(c)
  <2>1. /\ UNCHANGED <<run, swept, missed>> /\ open'[d] = open[d]
        /\ spc'[d] = spc[d] /\ dpc'[d] = dpc[d]
        /\ reading'[d] = reading[d] /\ call'[d] = call[d] /\ (d \in codecs => d \in codecs')
    BY <1>1 DEF ServerTypes, ServeCodec, AddCodec, InitClient, CodecClosed, ServeReturns
  <2> QED
    BY Zenon, <2>1 DEF Served, Stopped, CallsFinished
<1>2. CASE \/ HandleSent(c) \/ ReadErr(c) \/ ReadErrClosed(c) \/ Quit(c) \/ QuitClosed(c)
           \/ MethodReturns(c) \/ ReverseCall(c) \/ Send(c) \/ Write(c) \/ WaitReturns(c)
           \/ Request(c) \/ Respond(c)
  <2>1. UNCHANGED <<run, swept, missed, codecs, spc>>
    BY Zenon, <1>2
       DEF HandleSent, ReadErr, ReadErrClosed, Quit, QuitClosed, MethodReturns, ReverseCall,
           Send, Write, WaitReturns, Request, Respond
  <2>2. open'[d] = open[d] /\ reading'[d] = reading[d]
    <3>1. CASE ReadErrClosed(c) \/ QuitClosed(c)
      BY <3>1 DEF ServerTypes, ReadErrClosed, QuitClosed
    <3>2. CASE UNCHANGED <<open, reading>>
      BY Zenon, <3>2
    <3> QED
      BY Zenon, <1>2, <3>1, <3>2
         DEF HandleSent, ReadErr, Quit, MethodReturns, ReverseCall, Send, Write, WaitReturns,
             Request, Respond
  <2>3. dpc'[d] = dpc[d]
    BY <1>2
       DEF ServerTypes, HandleSent, ReadErr, ReadErrClosed, Quit, QuitClosed, MethodReturns,
           ReverseCall, Send, Write, WaitReturns, Request, Respond, CancelAllRequests
  <2>4. call'[d] = call[d]
    BY <1>2
       DEF ServerTypes, HandleSent, ReadErr, ReadErrClosed, Quit, QuitClosed, MethodReturns,
           ReverseCall, Send, Write, WaitReturns, Request, Respond, CancelAllRequests
  <2> QED
    BY Zenon, <2>1, <2>2, <2>3, <2>4 DEF Served, Stopped, CallsFinished
<1> QED
  BY Zenon, <1>1, <1>2 DEF StepOf, Serve, Dispatch, CallProc

(* A step of a connection keeps what holds of it.                          *)
LEMMA OwnServed ==
  ASSUME ServerTypes, NEW d \in Codecs, Served(d), StepOf(d)
  PROVE  Served(d)'
<1> USE DEF stopVars, opVars
<1>1. CASE \/ ServeCodec(d) \/ AddCodec(d) \/ InitClient(d)
           \/ CodecClosed(d) \/ ServeReturns(d)
  BY <1>1 DEF ServerTypes, Served, CallsFinished, ServeCodec, AddCodec, InitClient,
              CodecClosed, ServeReturns
<1>2. CASE HandleSent(d) \/ ReadErr(d) \/ ReadErrClosed(d)
  BY <1>2 DEF ServerTypes, Served, CallsFinished, HandleSent, ReadErr, ReadErrClosed,
              CancelAllRequests
<1>3. CASE Quit(d) \/ QuitClosed(d)
  BY <1>3 DEF ServerTypes, Served, CallsFinished, Quit, QuitClosed, CancelAllRequests
<1>4. CASE MethodReturns(d) \/ ReverseCall(d) \/ Send(d) \/ Write(d) \/ WaitReturns(d)
  BY <1>4 DEF ServerTypes, Served, CallsFinished, MethodReturns, ReverseCall, Send, Write,
              WaitReturns
<1>5. CASE Request(d) \/ Respond(d)
  BY <1>5 DEF ServerTypes, Served, CallsFinished, Request, Respond
<1> QED
  BY Zenon, <1>1, <1>2, <1>3, <1>4, <1>5 DEF StepOf, Serve, Dispatch, CallProc

LEMMA OwnStopped ==
  ASSUME ServerTypes, NEW d \in Codecs, Stopped(d), StepOf(d)
  PROVE  Stopped(d)'
<1> USE DEF stopVars, opVars
<1>1. CASE ServeCodec(d) \/ AddCodec(d) \/ InitClient(d)
  BY <1>1 DEF ServerTypes, Stopped, ServeCodec, AddCodec, InitClient
<1>2. CASE CodecClosed(d) \/ ServeReturns(d)
  BY <1>2 DEF ServerTypes, Stopped, CodecClosed, ServeReturns
<1>3. CASE ReadErrClosed(d) \/ QuitClosed(d)
  BY <1>3 DEF ServerTypes, Stopped, ReadErrClosed, QuitClosed
<1>4. CASE UNCHANGED <<run, swept, missed, codecs, spc, open>>
  BY Zenon, <1>4 DEF Stopped
<1> QED
  BY Zenon, <1>1, <1>2, <1>3, <1>4
     DEF StepOf, Serve, Dispatch, CallProc, HandleSent, ReadErr, Quit, MethodReturns,
         ReverseCall, Send, Write, WaitReturns, Request, Respond

LEMMA ServerStep ==
  ServerInv /\ [Next]_vars => \A c \in Codecs : Served(c)' /\ Stopped(c)'
<1> SUFFICES ASSUME ServerInv, [Next]_vars, NEW d \in Codecs
             PROVE  Served(d)' /\ Stopped(d)'
  OBVIOUS
<1> USE DEF stopVars, opVars
<1>i. ServerTypes /\ Served(d) /\ Stopped(d)
  BY Zenon DEF ServerInv
<1>1. CASE StepOf(d)
  BY Zenon, <1>i, <1>1, OwnServed, OwnStopped
<1>2. ASSUME NEW c \in Codecs, c # d, StepOf(c)
      PROVE  Served(d)' /\ Stopped(d)'
  BY Zenon, <1>2, <1>i, OthersServed
<1>3. CASE UNCHANGED <<run, swept, missed, codecs, spc, open, dpc, reading, call>>
  BY Zenon, <1>3, <1>i DEF Served, Stopped, CallsFinished
<1>4. CASE Stop
  BY Zenon, <1>4, <1>i DEF Stop, Served, Stopped, CallsFinished
<1>5. CASE CloseCodecs
  <2>1. Served(d)'
    BY Zenon, <1>5, <1>i DEF CloseCodecs, Served, CallsFinished
  <2>2. /\ ~run' /\ UNCHANGED <<codecs, spc>> /\ open'[d] = (open[d] /\ d \notin codecs)
        /\ missed' = {c \in Codecs : spc[c] = "checked"}
    BY Zenon, <1>5 DEF CloseCodecs
  <2> QED
    BY Zenon, <1>i, <2>1, <2>2 DEF Stopped
<1> QED
  BY Zenon, <1>1, <1>2, <1>3, <1>4, <1>5 DEF Next, StepOf, Hangup, vars

LEMMA ServerInvariant == Spec => []ServerInv
<1>1. Init => ServerInv
  <2> SUFFICES ASSUME Init PROVE ServerInv
    OBVIOUS
  <2>1. ServerTypes
    BY Zenon DEF Init, ServerTypes
  <2>2. \A c \in Codecs : /\ spc[c] = "idle" /\ dpc[c] = "none" /\ call[c] = "none"
                         /\ ~swept
    BY Zenon DEF Init
  <2> QED
    BY Zenon, <2>1, <2>2 DEF ServerInv, Served, Stopped, CallsFinished
<1>2. ServerInv /\ [Next]_vars => ServerInv'
  BY Zenon, ServerStepTypes, ServerStep DEF ServerInv
<1> QED
  BY <1>1, <1>2, PTL DEF Spec

(* ServeCodec returns only after the method it started: its client's Close *)
(* waits for dispatch, and dispatch for the call goroutines.               *)
THEOREM MethodsEndBeforeServe == Spec => []NoCallOutlivesServe
<1>1. ServerInv => NoCallOutlivesServe
  BY DEF ServerInv, Served, CallsFinished, NoCallOutlivesServe
<1> QED
  BY <1>1, ServerInvariant, PTL

(* When Stop is through, a connection that is served and open is one that  *)
(* stood between its check of s.run and its entry into s.codecs when Stop  *)
(* went over the set.                                                      *)
THEOREM StopClosesConnections == Spec => []StopCloses
<1>1. ServerInv => StopCloses
  BY Zenon DEF ServerInv, Stopped, StopCloses
<1> QED
  BY <1>1, ServerInvariant, PTL

-----------------------------------------------------------------------------
(* What a frame is answered with.                                          *)

(* The answers that m, the message at place i of its frame, can get.       *)
AnswerTo(m, i) ==
  {[id |-> IF hasValidID(m) THEN m.id ELSE NoId,
    kind |-> o.kind, args |-> o.args, of |-> i] : o \in Outcomes(m)}

AnswersTo(m) == UNION {AnswerTo(m, i) : i \in Nat}
Answers == {EmptyBatch} \cup UNION {AnswersTo(m) : m \in Messages}
Frames == [batch : BOOLEAN, msgs : Seq(Messages)]
Procs == [calls : Seq(Nat), answers : Seq(Answers), running : BOOLEAN]

(* After the first s messages of a frame have been looked at: the calls    *)
(* left are places of these, in order, and of messages that are not handed *)
(* on; the answers are to requests, in order, and precede what is left;    *)
(* and no request is missing.                                              *)
CallsOK(c, ms, s) ==
  \A k \in 1 .. Len(c) :
    /\ c[k] \in 1 .. s /\ ~handleImmediate(ms[c[k]])
    /\ \A j \in 1 .. Len(c) : j < k => c[j] < c[k]

AnswersOK(ans, ms) ==
  \A k \in 1 .. Len(ans) :
    /\ ans[k].of \in 1 .. Len(ms) /\ ~Silent(ms[ans[k].of])
    /\ ans[k] \in AnswerTo(ms[ans[k].of], ans[k].of)
    /\ \A j \in 1 .. Len(ans) : j < k => ans[j].of < ans[k].of

AnswersFirst(c, ans) ==
  \A j \in 1 .. Len(ans) : \A k \in 1 .. Len(c) : ans[j].of < c[k]

NoneMissing(c, ans, ms, s) ==
  \A i \in 1 .. s : ~Silent(ms[i]) => \/ \E k \in 1 .. Len(c) : c[k] = i
                                      \/ \E k \in 1 .. Len(ans) : ans[k].of = i

ProcOK(p, ms, s) ==
  IF ms = <<>> THEN p.calls = <<>> /\ p.answers = <<EmptyBatch>>
  ELSE /\ CallsOK(p.calls, ms, s) /\ AnswersOK(p.answers, ms)
       /\ AnswersFirst(p.calls, p.answers)
       /\ NoneMissing(p.calls, p.answers, ms, s)
       /\ p.running => s = Len(ms)
       /\ ~p.running /\ s = Len(ms) => p.calls = <<>>
       /\ s < Len(ms) => p.answers = <<>>

(* What the reference calls handed on or silent is what handler.go does    *)
(* not answer.                                                             *)
LEMMA Silence ==
  ASSUME NEW m \in Messages
  PROVE  /\ HandedOn(m) <=> handleImmediate(m)
         /\ Silent(m) <=> handleImmediate(m) \/ isNotification(m)
<1>1. m.id \in Nat \cup {BadId}
  BY Zenon, HandlerAssumptions
<1>2. hasValidID(m) <=> m.id > 0
  BY <1>1 DEF hasValidID, NoId, BadId
<1> QED
  BY Zenon, <1>2 DEF HandedOn, Silent, handleImmediate, isNotification, isResponse

(* What Append and Tail make of a sequence, place by place.                *)
LEMMA AppendSeq ==
  ASSUME NEW S, NEW c \in Seq(S), NEW x \in S, NEW d, d = Append(c, x)
  PROVE  /\ d \in Seq(S) /\ Len(c) \in Nat /\ Len(d) = Len(c) + 1 /\ d # <<>>
         /\ \A k \in 1 .. Len(d) : \/ k = Len(d) /\ d[k] = x
                                   \/ k \in 1 .. Len(c) /\ d[k] = c[k]
         /\ \A k \in 1 .. Len(c) : k \in 1 .. Len(d) /\ k < Len(d) /\ d[k] = c[k]
         /\ Len(d) \in 1 .. Len(d) /\ d[Len(d)] = x
  OBVIOUS

LEMMA TailSeq ==
  ASSUME NEW S, NEW c \in Seq(S), c # <<>>, NEW d, d = Tail(c)
  PROVE  /\ d \in Seq(S) /\ Head(c) \in S /\ Head(c) = c[1] /\ 1 \in 1 .. Len(c)
         /\ \A k \in 1 .. Len(d) : k + 1 \in 1 .. Len(c) /\ 1 < k + 1 /\ d[k] = c[k + 1]
         /\ \A k \in 1 .. Len(c) : k = 1 \/ (k - 1 \in 1 .. Len(d) /\ d[k - 1] = c[k])
  OBVIOUS

(* A turn of handleBatch's loop keeps what is known of the frame's         *)
(* goroutine.                                                              *)
LEMMA LoopOK ==
  ASSUME NEW ms \in Seq(Messages), NEW s \in Nat, s < Len(ms),
         NEW p \in Procs, NEW q \in Procs, ProcOK(p, ms, s),
         q.answers = p.answers,
         q.calls = IF handleImmediate(ms[s + 1]) THEN p.calls ELSE Append(p.calls, s + 1),
         q.running <=> (s + 1 = Len(ms) /\ q.calls # <<>>)
  PROVE  ProcOK(q, ms, s + 1)
<1> DEFINE c == p.calls
           d == q.calls
<1>1. /\ ms # <<>> /\ s # Len(ms) /\ Len(ms) \in Nat /\ s + 1 \in 1 .. Len(ms)
      /\ \A i \in 1 .. s + 1 : i = s + 1 \/ i \in 1 .. s
      /\ \A i \in 1 .. s : i \in 1 .. s + 1 /\ i < s + 1
      /\ s + 1 \in 1 .. s + 1 /\ s + 1 \in Nat /\ ms[s + 1] \in Messages
  OBVIOUS
<1>2. c \in Seq(Nat) /\ d \in Seq(Nat) /\ q.answers = <<>> /\ CallsOK(c, ms, s)
      /\ NoneMissing(c, <<>>, ms, s)
  BY Zenon, <1>1 DEF ProcOK, Procs
<1>3. \A k \in 1 .. Len(<<>>) : FALSE
  OBVIOUS
<1>h. d = IF handleImmediate(ms[s + 1]) THEN c ELSE Append(c, s + 1)
  OBVIOUS
<1> HIDE DEF c, d
<1>a. ASSUME ~handleImmediate(ms[s + 1])
      PROVE  /\ \A k \in 1 .. Len(d) : \/ k = Len(d) /\ d[k] = s + 1
                                       \/ k \in 1 .. Len(c) /\ d[k] = c[k]
             /\ \A k \in 1 .. Len(c) : k \in 1 .. Len(d) /\ d[k] = c[k]
             /\ Len(d) \in 1 .. Len(d) /\ d[Len(d)] = s + 1
  <2>1. d = Append(c, s + 1)
    BY Zenon, <1>a, <1>h
  <2>2. s + 1 \in Nat /\ c \in Seq(Nat)
    BY Zenon, <1>1, <1>2
  <2> QED
    BY <2>1, <2>2, AppendSeq
<1>4. CallsOK(d, ms, s + 1)
  <2>1. CASE handleImmediate(ms[s + 1])
    BY Zenon, <1>1, <1>2, <1>h, <2>1 DEF CallsOK
  <2>2. CASE ~handleImmediate(ms[s + 1])
    <3>1. d = Append(c, s + 1)
      BY Zenon, <1>h, <2>2
    <3> SUFFICES ASSUME NEW k \in 1 .. Len(d)
                 PROVE  /\ d[k] \in 1 .. s + 1 /\ ~handleImmediate(ms[d[k]])
                        /\ \A j \in 1 .. Len(d) : j < k => d[j] < d[k]
      BY Zenon DEF CallsOK
    <3>2. CASE k = Len(d) /\ d[k] = s + 1
      <4>1. ASSUME NEW j \in 1 .. Len(d), j < k PROVE d[j] < d[k]
        <5>1. j \in 1 .. Len(c) /\ d[j] = c[j]
          BY <1>1, <1>2, <3>1, <3>2, <4>1, AppendSeq
        <5> QED
          BY Zenon, <1>1, <1>2, <3>2, <5>1 DEF CallsOK
      <4> QED
        BY Zenon, <1>1, <2>2, <3>2, <4>1
    <3>3. CASE k \in 1 .. Len(c) /\ d[k] = c[k]
      <4>1. ASSUME NEW j \in 1 .. Len(d), j < k PROVE d[j] < d[k]
        <5>1. j \in 1 .. Len(c) /\ d[j] = c[j]
          BY <1>1, <1>2, <3>1, <3>3, <4>1, AppendSeq
        <5> QED
          BY Zenon, <1>2, <3>3, <4>1, <5>1 DEF CallsOK
      <4> QED
        BY Zenon, <1>1, <1>2, <3>3, <4>1 DEF CallsOK
    <3> QED
      BY Zenon, <1>a, <2>2, <3>2, <3>3
  <2> QED
    BY Zenon, <2>1, <2>2
<1>5. NoneMissing(d, <<>>, ms, s + 1)
  <2> SUFFICES ASSUME NEW i \in 1 .. s + 1, ~Silent(ms[i])
               PROVE  \E k \in 1 .. Len(d) : d[k] = i
    BY Zenon DEF NoneMissing
  <2>1. CASE i = s + 1
    <3>1. ~handleImmediate(ms[s + 1])
      BY Zenon, <1>1, <2>1, Silence
    <3> QED
      BY Zenon, <1>a, <2>1, <3>1
  <2>2. CASE i \in 1 .. s
    <3>1. PICK k \in 1 .. Len(c) : c[k] = i
      BY Zenon, <1>2, <1>3, <2>2 DEF NoneMissing
    <3> QED
      BY Zenon, <1>a, <1>h, <3>1
  <2> QED
    BY Zenon, <1>1, <2>1, <2>2
<1>6. AnswersOK(<<>>, ms) /\ AnswersFirst(d, <<>>)
  BY Zenon, <1>3 DEF AnswersOK, AnswersFirst
<1> QED
  BY Zenon, <1>1, <1>2, <1>4, <1>5, <1>6 DEF ProcOK, d

(* The answer to a message is one of the answers there are.                *)
LEMMA AnswerTyped ==
  ASSUME NEW m \in Messages, NEW i \in Nat, NEW a \in AnswerTo(m, i)
  PROVE  a \in Answers
<1>1. a \in AnswersTo(m)
  BY Zenon DEF AnswersTo
<1> QED
  BY Zenon, <1>1 DEF Answers

(* A sequence with one more value at its end has it there and nowhere      *)
(* else.                                                                   *)
LEMMA OneMore ==
  ASSUME NEW S, NEW ans \in Seq(S), NEW a \in S, NEW more, more = Append(ans, a)
  PROVE  /\ more[Len(more)] = a /\ Len(more) \in 1 .. Len(more)
         /\ \A k \in 1 .. Len(more) : \/ k = Len(more)
                                      \/ k \in 1 .. Len(ans) /\ k # Len(more) /\ more[k] = ans[k]
         /\ \A k \in 1 .. Len(ans) : k \in 1 .. Len(more) /\ more[k] = ans[k]
         /\ \A k \in 1 .. Len(more) : ~(Len(more) < k)
         /\ ~(Len(more) < Len(more))
<1>1. /\ Len(ans) \in Nat /\ Len(more) = Len(ans) + 1 /\ more[Len(ans) + 1] = a
      /\ \A k \in 1 .. Len(ans) : more[k] = ans[k]
  OBVIOUS
<1>2. more[Len(more)] = a /\ Len(more) \in 1 .. Len(more) /\ ~(Len(more) < Len(more))
  BY <1>1
<1>3. \A k \in 1 .. Len(more) : \/ k = Len(more)
                                \/ k \in 1 .. Len(ans) /\ k # Len(more) /\ more[k] = ans[k]
  BY <1>1
<1>4. \A k \in 1 .. Len(ans) : k \in 1 .. Len(more) /\ more[k] = ans[k]
  BY <1>1
<1>5. \A k \in 1 .. Len(more) : ~(Len(more) < k)
  BY <1>1
<1> QED
  BY <1>2, <1>3, <1>4, <1>5

LEMMA AppendOne ==
  ASSUME NEW S, NEW c \in Seq(S), NEW x \in S
  PROVE  c \o <<x>> = Append(c, x)
  OBVIOUS

(* So does handleCallMsg: the answer it adds, if any, is to the first of   *)
(* the calls left, which comes after all that are answered.                *)
LEMMA CallOK ==
  ASSUME NEW ms \in Seq(Messages), NEW p \in Procs, NEW q \in Procs,
         ProcOK(p, ms, Len(ms)), p.running, p.calls # <<>>,
         NEW o \in Outcomes(ms[Head(p.calls)]),
         q.calls = Tail(p.calls), q.running,
         q.answers = p.answers \o Answer(ms[Head(p.calls)], Head(p.calls), o)
  PROVE  ProcOK(q, ms, Len(ms))
<1> DEFINE c == p.calls
           d == q.calls
           ans == p.answers
           more == q.answers
           i == Head(c)
           m == ms[i]
           a == [id |-> IF hasValidID(m) THEN m.id ELSE NoId,
                 kind |-> o.kind, args |-> o.args, of |-> i]
<1>1. /\ c \in Seq(Nat) /\ d \in Seq(Nat) /\ ans \in Seq(Answers) /\ more \in Seq(Answers)
      /\ c # <<>> /\ d = Tail(c)
  BY Zenon DEF Procs
<1>2. /\ ms # <<>> /\ CallsOK(c, ms, Len(ms)) /\ AnswersOK(ans, ms)
      /\ AnswersFirst(c, ans) /\ NoneMissing(c, ans, ms, Len(ms))
  BY Zenon DEF ProcOK
<1>3. more = ans \o Answer(m, i, o) /\ q.running /\ a \in AnswerTo(m, i) /\ a.of = i
  BY Zenon DEF AnswerTo
<1>4. Len(ms) \in Nat /\ ~(Len(ms) < Len(ms))
  OBVIOUS
<1> HIDE DEF c, d, ans, more, i, m, a
<1>5. /\ i = c[1] /\ 1 \in 1 .. Len(c)
      /\ \A k \in 1 .. Len(d) : k + 1 \in 1 .. Len(c) /\ 1 < k + 1 /\ d[k] = c[k + 1]
      /\ \A k \in 1 .. Len(c) : k = 1 \/ (k - 1 \in 1 .. Len(d) /\ d[k - 1] = c[k])
      /\ \A k \in 1 .. Len(d) : \A j \in 1 .. Len(d) : j < k => j + 1 < k + 1
  BY SMTT(30), <1>1, TailSeq DEF i
<1>6. i \in 1 .. Len(ms) /\ ~handleImmediate(m) /\ m \in Messages
  BY <1>2, <1>5 DEF CallsOK, m
<1>7. CallsOK(d, ms, Len(ms))
  BY Zenon, <1>2, <1>5 DEF CallsOK
<1>8. \A k \in 1 .. Len(d) : i < d[k]
  BY Zenon, <1>2, <1>5 DEF CallsOK
<1>9. CASE isNotification(m)
  <2>1. more = ans
    BY <1>1, <1>3, <1>9 DEF Answer
  <2>2. Silent(m)
    BY Zenon, <1>6, <1>9, Silence
  <2>3. AnswersFirst(d, more)
    BY Zenon, <1>2, <1>5, <2>1 DEF AnswersFirst
  <2>4. NoneMissing(d, more, ms, Len(ms))
    <3> SUFFICES ASSUME NEW h \in 1 .. Len(ms), ~Silent(ms[h]),
                        NEW k \in 1 .. Len(c), c[k] = h
                 PROVE  \E l \in 1 .. Len(d) : d[l] = h
      BY Zenon, <1>2, <2>1 DEF NoneMissing
    <3>1. k # 1
      BY Zenon, <1>5, <2>2 DEF m
    <3> QED
      BY Zenon, <1>5, <3>1
  <2> QED
    BY Zenon, <1>2, <1>3, <1>4, <1>7, <2>1, <2>3, <2>4 DEF ProcOK, d, more
<1>10. CASE ~isNotification(m)
  <2>a. a \in Answers
    <3>1. i \in Nat
      BY <1>6
    <3> QED
      BY Zenon, <1>3, <1>6, <3>1, AnswerTyped
  <2>b. Answer(m, i, o) = <<a>>
    BY <1>10 DEF Answer, a
  <2>1. more = Append(ans, a)
    BY <1>1, <1>3, <2>a, <2>b, AppendOne
  <2>2. /\ more[Len(more)] = a /\ Len(more) \in 1 .. Len(more)
        /\ \A k \in 1 .. Len(more) : \/ k = Len(more)
                                     \/ k \in 1 .. Len(ans) /\ k # Len(more) /\ more[k] = ans[k]
        /\ \A k \in 1 .. Len(ans) : k \in 1 .. Len(more) /\ more[k] = ans[k]
        /\ \A k \in 1 .. Len(more) : ~(Len(more) < k)
        /\ ~(Len(more) < Len(more))
    BY <1>1, <2>a, <2>1, OneMore
  <2>3. ~Silent(m)
    BY Zenon, <1>6, <1>10, Silence
  <2>4. \A k \in 1 .. Len(ans) : ans[k].of < i
    BY Zenon, <1>2, <1>5 DEF AnswersFirst
  <2>5. AnswersOK(more, ms)
    <3> SUFFICES ASSUME NEW k \in 1 .. Len(more)
                 PROVE  /\ more[k].of \in 1 .. Len(ms) /\ ~Silent(ms[more[k].of])
                        /\ more[k] \in AnswerTo(ms[more[k].of], more[k].of)
                        /\ \A j \in 1 .. Len(more) : j < k => more[j].of < more[k].of
      BY Zenon DEF AnswersOK
    <3>1. CASE k = Len(more)
      <4>1. \A j \in 1 .. Len(more) : j < k => more[j].of < more[k].of
        BY Zenon, <1>3, <2>2, <2>4, <3>1
      <4> QED
        BY Zenon, <1>3, <1>6, <2>2, <2>3, <3>1, <4>1 DEF m
    <3>2. CASE k \in 1 .. Len(ans) /\ more[k] = ans[k]
      <4>1. \A j \in 1 .. Len(more) : j < k => more[j].of < more[k].of
        BY Zenon, <1>2, <2>2, <3>2 DEF AnswersOK
      <4> QED
        BY Zenon, <1>2, <3>2, <4>1 DEF AnswersOK
    <3> QED
      BY Zenon, <2>2, <3>1, <3>2
  <2>6. AnswersFirst(d, more)
    <3> SUFFICES ASSUME NEW j \in 1 .. Len(more), NEW k \in 1 .. Len(d)
                 PROVE  more[j].of < d[k]
      BY Zenon DEF AnswersFirst
    <3>1. CASE j = Len(more)
      BY Zenon, <1>3, <1>8, <2>2, <3>1
    <3>2. CASE j \in 1 .. Len(ans) /\ more[j] = ans[j]
      BY Zenon, <1>2, <1>5, <3>2 DEF AnswersFirst
    <3> QED
      BY Zenon, <2>2, <3>1, <3>2
  <2>7. NoneMissing(d, more, ms, Len(ms))
    <3> SUFFICES ASSUME NEW h \in 1 .. Len(ms), ~Silent(ms[h])
                 PROVE  \/ \E l \in 1 .. Len(d) : d[l] = h
                        \/ \E l \in 1 .. Len(more) : more[l].of = h
      BY Zenon DEF NoneMissing
    <3>1. ASSUME NEW k \in 1 .. Len(c), c[k] = h
          PROVE  \/ \E l \in 1 .. Len(d) : d[l] = h
                 \/ \E l \in 1 .. Len(more) : more[l].of = h
      <4>1. CASE k = 1
        BY ZenonT(30), <1>3, <1>5, <2>2, <3>1, <4>1
      <4>2. CASE k - 1 \in 1 .. Len(d) /\ d[k - 1] = c[k]
        BY Zenon, <3>1, <4>2
      <4> QED
        BY Zenon, <1>5, <4>1, <4>2
    <3>2. CASE \E k \in 1 .. Len(ans) : ans[k].of = h
      BY Zenon, <2>2, <3>2
    <3> QED
      BY Zenon, <1>2, <3>1, <3>2 DEF NoneMissing
  <2> QED
    BY Zenon, <1>2, <1>3, <1>4, <1>7, <2>5, <2>6, <2>7 DEF ProcOK, d, more
<1> QED
  BY Zenon, <1>9, <1>10

(* What the messages can be answered with depends on the state by          *)
(* allowSubscribe alone, which never changes.                              *)
LEMMA SameAnswers ==
  ASSUME allowSubscribe' = allowSubscribe
  PROVE  /\ Answers' = Answers /\ Procs' = Procs
         /\ \A p, ms, s : ProcOK(p, ms, s)' <=> ProcOK(p, ms, s)
<1>1. ASSUME NEW m PROVE Outcomes(m)' = Outcomes(m)
  BY Zenon DEF Outcomes, handleCall, handleSubscribe
<1>2. ASSUME NEW m, NEW i PROVE AnswerTo(m, i)' = AnswerTo(m, i)
  BY Zenon, <1>1 DEF AnswerTo
<1>3. ASSUME NEW m PROVE AnswersTo(m)' = AnswersTo(m)
  BY Zenon, <1>2 DEF AnswersTo
<1>4. Answers' = Answers
  BY Zenon, <1>3 DEF Answers
<1>5. Procs' = Procs
  BY Zenon, <1>4 DEF Procs
<1>6. ASSUME NEW ans, NEW ms PROVE AnswersOK(ans, ms)' <=> AnswersOK(ans, ms)
  BY Zenon, <1>2 DEF AnswersOK
<1>7. ASSUME NEW p, NEW ms, NEW s PROVE ProcOK(p, ms, s)' <=> ProcOK(p, ms, s)
  BY Zenon, <1>6 DEF ProcOK
<1> QED
  BY Zenon, <1>4, <1>5, <1>7

-----------------------------------------------------------------------------
(* The inductive invariant.                                                *)

(* How many messages of frame n have been looked at.                       *)
Seen(n) == IF n < Len(received) THEN Len(received[n].msgs) ELSE looked

Replies == [frame : Nat, batch : BOOLEAN, answers : Seq(Answers)]
Places == [frame : Nat, at : Nat]

HandlerTypes ==
  /\ received \in Seq(Frames) /\ looked \in Nat /\ allowSubscribe \in BOOLEAN
  /\ immediate \in Seq(Places) /\ procs \in Seq(Procs) /\ wire \in Seq(Replies)
  /\ Len(procs) = Len(received)
  /\ \A n \in 1 .. Len(received) : /\ ~received[n].batch => Len(received[n].msgs) = 1
                                   /\ Seen(n) \in 0 .. Len(received[n].msgs)

ProcsInv ==
  \A n \in 1 .. Len(received) : ProcOK(procs[n], received[n].msgs, Seen(n))

(* A reply has the answers of a goroutine that has ended; no goroutine     *)
(* ends twice.                                                             *)
ReplyInv ==
  /\ \A j, k \in 1 .. Len(wire) : wire[j].frame = wire[k].frame => j = k
  /\ \A k \in 1 .. Len(wire) :
       LET n == wire[k].frame
       IN /\ n \in 1 .. Len(received) /\ ~procs[n].running
          /\ Seen(n) = Len(received[n].msgs)
          /\ wire[k].answers = procs[n].answers
          /\ wire[k].batch <=> received[n].batch /\ received[n].msgs # <<>>

ImmediateInv ==
  /\ \A k \in 1 .. Len(immediate) :
       LET n == immediate[k].frame
           i == immediate[k].at
       IN /\ n \in 1 .. Len(received) /\ i \in 1 .. Seen(n)
          /\ handleImmediate(received[n].msgs[i])
          /\ \A j \in 1 .. Len(immediate) :
               j < k => \/ immediate[j].frame < n
                        \/ immediate[j].frame = n /\ immediate[j].at < i
  /\ \A n \in 1 .. Len(received) : \A i \in 1 .. Seen(n) :
       handleImmediate(received[n].msgs[i]) =>
         \E k \in 1 .. Len(immediate) : immediate[k].frame = n /\ immediate[k].at = i

HandlerInv == HandlerTypes /\ ProcsInv /\ ReplyInv /\ ImmediateInv

(* A sequence after one of its values is replaced.                         *)
LEMMA ExceptSeq ==
  ASSUME NEW S, NEW ps \in Seq(S), NEW n \in 1 .. Len(ps), NEW q \in S,
         NEW qs, qs = [ps EXCEPT ![n] = q]
  PROVE  /\ qs \in Seq(S) /\ Len(qs) = Len(ps) /\ qs[n] = q
         /\ \A k \in 1 .. Len(ps) : k # n => qs[k] = ps[k]
<1>1. ps \in [1 .. Len(ps) -> S] /\ Len(ps) \in Nat
  OBVIOUS
<1>2. qs \in [1 .. Len(ps) -> S]
  BY Zenon, <1>1
<1>3. qs[n] = q /\ \A k \in 1 .. Len(ps) : k # n => qs[k] = ps[k]
  BY Zenon, <1>1
<1>4. qs \in Seq(S) /\ Len(qs) = Len(ps)
  BY <1>1, <1>2
<1> QED
  BY Zenon, <1>3, <1>4

(* procs after the fields of the record of frame n are assigned, in the    *)
(* three ways the actions do it.                                           *)
SetRunning(qs, ps, n, c, r) == qs = [ps EXCEPT ![n].calls = c, ![n].running = r]
SetAnswers(qs, ps, n, c, x) == qs = [ps EXCEPT ![n].calls = c, ![n].answers = x]
SetEnded(qs, ps, n) == qs = [ps EXCEPT ![n].running = FALSE]

(* The three assignments change the fields they name, of the goroutine     *)
(* they name.                                                              *)
LEMMA CallsAndRunning ==
  ASSUME NEW ps \in Seq(Procs), NEW n \in 1 .. Len(ps), NEW c \in Seq(Nat), NEW r \in BOOLEAN,
         NEW qs, SetRunning(qs, ps, n, c, r)
  PROVE  /\ qs \in Seq(Procs) /\ Len(qs) = Len(ps)
         /\ \A k \in 1 .. Len(ps) : k # n => qs[k] = ps[k]
         /\ qs[n] \in Procs /\ qs[n].calls = c /\ qs[n].answers = ps[n].answers
         /\ qs[n].running <=> r
<1> DEFINE p1 == [ps[n] EXCEPT !.calls = c]
           m1 == [ps EXCEPT ![n] = p1]
           p2 == [m1[n] EXCEPT !.running = r]
<1>1. ps[n] \in Procs
  OBVIOUS
<1>2. p1 \in Procs /\ p1.calls = c /\ p1.answers = ps[n].answers
  BY Zenon, <1>1 DEF Procs
<1>3. qs = [m1 EXCEPT ![n] = p2] /\ m1 = [ps EXCEPT ![n] = p1]
  BY Zenon DEF SetRunning, SetAnswers
<1> HIDE DEF p1, m1
<1>4. /\ m1 \in Seq(Procs) /\ Len(m1) = Len(ps) /\ m1[n] = p1
      /\ \A k \in 1 .. Len(ps) : k # n => m1[k] = ps[k]
  BY <1>2, <1>3, ExceptSeq
<1>5. p2 \in Procs /\ p2.calls = c /\ p2.answers = ps[n].answers /\ (p2.running <=> r)
  BY Zenon, <1>2, <1>4 DEF Procs
<1> HIDE DEF p2
<1>6. ASSUME NEW xs, xs = [m1 EXCEPT ![n] = p2]
      PROVE  /\ xs \in Seq(Procs) /\ Len(xs) = Len(m1) /\ xs[n] = p2
             /\ \A k \in 1 .. Len(m1) : k # n => xs[k] = m1[k]
  BY <1>4, <1>5, <1>6, ExceptSeq
<1>7. /\ qs \in Seq(Procs) /\ Len(qs) = Len(m1) /\ qs[n] = p2
      /\ \A k \in 1 .. Len(m1) : k # n => qs[k] = m1[k]
  BY Zenon, <1>3, <1>6
<1> QED
  BY Zenon, <1>4, <1>5, <1>7

LEMMA CallsAndAnswers ==
  ASSUME NEW ps \in Seq(Procs), NEW n \in 1 .. Len(ps), NEW c \in Seq(Nat), NEW x \in Seq(Answers),
         NEW qs, SetAnswers(qs, ps, n, c, x)
  PROVE  /\ qs \in Seq(Procs) /\ Len(qs) = Len(ps)
         /\ \A k \in 1 .. Len(ps) : k # n => qs[k] = ps[k]
         /\ qs[n] \in Procs /\ qs[n].calls = c /\ qs[n].answers = x
         /\ qs[n].running = ps[n].running
<1> DEFINE p1 == [ps[n] EXCEPT !.calls = c]
           m1 == [ps EXCEPT ![n] = p1]
           p2 == [m1[n] EXCEPT !.answers = x]
<1>1. ps[n] \in Procs
  OBVIOUS
<1>2. p1 \in Procs /\ p1.calls = c /\ p1.running = ps[n].running
  BY Zenon, <1>1 DEF Procs
<1>3. qs = [m1 EXCEPT ![n] = p2] /\ m1 = [ps EXCEPT ![n] = p1]
  BY Zenon DEF SetRunning, SetAnswers
<1> HIDE DEF p1, m1
<1>4. /\ m1 \in Seq(Procs) /\ Len(m1) = Len(ps) /\ m1[n] = p1
      /\ \A k \in 1 .. Len(ps) : k # n => m1[k] = ps[k]
  BY <1>2, <1>3, ExceptSeq
<1>5. p2 \in Procs /\ p2.calls = c /\ p2.answers = x /\ p2.running = ps[n].running
  BY Zenon, <1>2, <1>4 DEF Procs
<1> HIDE DEF p2
<1>6. ASSUME NEW xs, xs = [m1 EXCEPT ![n] = p2]
      PROVE  /\ xs \in Seq(Procs) /\ Len(xs) = Len(m1) /\ xs[n] = p2
             /\ \A k \in 1 .. Len(m1) : k # n => xs[k] = m1[k]
  BY <1>4, <1>5, <1>6, ExceptSeq
<1>7. /\ qs \in Seq(Procs) /\ Len(qs) = Len(m1) /\ qs[n] = p2
      /\ \A k \in 1 .. Len(m1) : k # n => qs[k] = m1[k]
  BY Zenon, <1>3, <1>6
<1> QED
  BY Zenon, <1>4, <1>5, <1>7

LEMMA OnlyRunning ==
  ASSUME NEW ps \in Seq(Procs), NEW n \in 1 .. Len(ps),
         NEW qs, SetEnded(qs, ps, n)
  PROVE  /\ qs \in Seq(Procs) /\ Len(qs) = Len(ps)
         /\ \A k \in 1 .. Len(ps) : k # n => qs[k] = ps[k]
         /\ qs[n] \in Procs /\ qs[n].calls = ps[n].calls /\ qs[n].answers = ps[n].answers
         /\ qs[n].running = FALSE
<1> DEFINE p1 == [ps[n] EXCEPT !.running = FALSE]
<1>1. ps[n] \in Procs
  OBVIOUS
<1>2. /\ p1 \in Procs /\ p1.calls = ps[n].calls /\ p1.answers = ps[n].answers
      /\ p1.running = FALSE
  BY Zenon, <1>1 DEF Procs
<1>3. qs = [ps EXCEPT ![n] = p1]
  BY Zenon DEF SetEnded
<1> HIDE DEF p1
<1>4. ASSUME NEW xs, xs = [ps EXCEPT ![n] = p1]
      PROVE  /\ xs \in Seq(Procs) /\ Len(xs) = Len(ps) /\ xs[n] = p1
             /\ \A k \in 1 .. Len(ps) : k # n => xs[k] = ps[k]
  BY <1>2, <1>4, ExceptSeq
<1> QED
  BY Zenon, <1>2, <1>3, <1>4

-----------------------------------------------------------------------------
(* What the steps do to the frames and their goroutines.                   *)

Kept(n) == received'[n] = received[n] /\ procs'[n] = procs[n] /\ Seen(n)' = Seen(n)

Fresh(f, p, l) ==
  /\ f \in Frames /\ p \in Procs /\ l \in 0 .. Len(f.msgs) /\ (~f.batch => Len(f.msgs) = 1)
  /\ ProcOK(p, f.msgs, l)
  /\ received' = Append(received, f) /\ procs' = Append(procs, p) /\ looked' = l
  /\ allowSubscribe' = allowSubscribe /\ wire' = wire
  /\ \A n \in 1 .. Len(received) : Seen(n) = Len(received[n].msgs)
  /\ \/ immediate' = immediate /\ \A i \in 1 .. l : ~handleImmediate(f.msgs[i])
     \/ /\ immediate' = Append(immediate, [frame |-> Len(received) + 1, at |-> 1])
        /\ l = 1 /\ handleImmediate(f.msgs[1])

(* A goroutine with nothing to do is right about a frame of which only     *)
(* silent messages have been looked at.                                    *)
LEMMA NothingYet ==
  ASSUME NEW ms \in Seq(Messages), NEW s \in Nat, NEW p, ms # <<>>,
         p.calls = <<>>, p.answers = <<>>, ~p.running, \A i \in 1 .. s : Silent(ms[i])
  PROVE  ProcOK(p, ms, s)
<1>1. \A k \in 1 .. Len(<<>>) : FALSE
  OBVIOUS
<1> QED
  BY Zenon, <1>1 DEF ProcOK, CallsOK, AnswersOK, AnswersFirst, NoneMissing

(* Both ways to handle a frame that has been read add it with its          *)
(* goroutine.                                                              *)
LEMMA ReadFrame ==
  ASSUME HandlerTypes, NEW f \in NextFrames, HandleBatch(f) \/ HandleMsg(f)
  PROVE  \E p \in Procs, l \in Nat : Fresh(f, p, l)
<1>1. f \in Frames /\ (~f.batch => Len(f.msgs) = 1)
  <2>1. PICK s \in Sessions : Len(s) > Len(received) /\ f = s[Len(received) + 1]
    BY Zenon DEF NextFrames
  <2>2. s \in Seq(Frames) /\ \A i \in 1 .. Len(s) : ~s[i].batch => Len(s[i].msgs) = 1
    BY Zenon, HandlerAssumptions DEF Frames
  <2>3. Len(received) \in Nat
    BY DEF HandlerTypes
  <2>4. Len(received) + 1 \in 1 .. Len(s)
    BY <2>1, <2>2, <2>3
  <2> QED
    BY <2>1, <2>2, <2>4
<1>2. f.msgs \in Seq(Messages) /\ Len(f.msgs) \in Nat /\ f.batch \in BOOLEAN
  BY <1>1 DEF Frames
<1>3. Reads(f)
  BY Zenon DEF HandleBatch, HandleMsg
<1>4. ASSUME NEW n \in 1 .. Len(received) PROVE Seen(n) = Len(received[n].msgs)
  <2>1. CASE n < Len(received)
    BY Zenon, <2>1 DEF Seen
  <2>2. CASE ~(n < Len(received))
    <3>1. Seen(n) = looked /\ looked \in 0 .. Len(received[n].msgs)
      BY Zenon, <2>2 DEF Seen, HandlerTypes
    <3>2. Len(received[n].msgs) \in Nat
      BY DEF HandlerTypes, Frames
    <3>3. \A i \in 1 .. Len(received[n].msgs) : i <= looked
      BY Zenon, <1>3, <2>2 DEF Reads, AllLookedAt, LookedAt
    <3> QED
      BY <3>1, <3>2, <3>3
  <2> QED
    BY Zenon, <2>1, <2>2
<1>5. /\ received' = Append(received, f) /\ allowSubscribe' = allowSubscribe /\ wire' = wire
  BY Zenon, <1>3 DEF Reads
<1>6. CASE HandleBatch(f) /\ f.msgs = <<>>
  <2> DEFINE p == [calls |-> <<>>, answers |-> <<EmptyBatch>>, running |-> TRUE]
  <2>1. EmptyBatch \in Answers
    BY Zenon DEF Answers
  <2>2. p \in Procs
    BY <2>1 DEF Procs
  <2>3. procs' = Append(procs, p) /\ looked' = 0 /\ immediate' = immediate
    BY Zenon, <1>6 DEF HandleBatch, StartCallProc
  <2>4. ProcOK(p, f.msgs, 0)
    BY Zenon, <1>6 DEF ProcOK
  <2>5. 0 \in 0 .. Len(f.msgs) /\ \A i \in 1 .. 0 : FALSE
    BY <1>2
  <2> HIDE DEF p
  <2> QED
    BY Zenon, <1>1, <1>4, <1>5, <2>2, <2>3, <2>4, <2>5 DEF Fresh
<1>7. CASE HandleBatch(f) /\ f.msgs # <<>>
  <2> DEFINE p == [calls |-> <<>>, answers |-> <<>>, running |-> FALSE]
  <2>2. p \in Procs
    BY DEF Procs
  <2>3. procs' = Append(procs, p) /\ looked' = 0 /\ immediate' = immediate
    BY Zenon, <1>7 DEF HandleBatch, StartCallProc
  <2>4. 0 \in 0 .. Len(f.msgs) /\ \A i \in 1 .. 0 : FALSE
    BY <1>2
  <2>5. ProcOK(p, f.msgs, 0)
    BY Zenon, <1>2, <1>7, <2>4, NothingYet
  <2> HIDE DEF p
  <2> QED
    BY Zenon, <1>1, <1>4, <1>5, <2>2, <2>3, <2>4, <2>5 DEF Fresh
<1>8. CASE HandleMsg(f) /\ handleImmediate(f.msgs[1])
  <2> DEFINE p == [calls |-> <<>>, answers |-> <<>>, running |-> FALSE]
  <2>1. Len(f.msgs) = 1
    BY Zenon, <1>1, <1>8 DEF HandleMsg
  <2>2. p \in Procs
    BY DEF Procs
  <2>3. /\ Head(f.msgs) = f.msgs[1] /\ f.msgs # <<>> /\ f.msgs[1] \in Messages
        /\ 1 \in 0 .. Len(f.msgs) /\ 1 \in Nat /\ \A i \in 1 .. 1 : i = 1
    BY <1>2, <2>1
  <2>4. /\ procs' = Append(procs, p) /\ looked' = 1
        /\ immediate' = Append(immediate, [frame |-> Len(received) + 1, at |-> 1])
    BY Zenon, <1>8, <2>3 DEF HandleMsg, StartCallProc
  <2>5. Silent(f.msgs[1])
    BY Zenon, <1>8, <2>3, Silence
  <2>6. ProcOK(p, f.msgs, 1)
    BY Zenon, <1>2, <2>3, <2>5, NothingYet
  <2> HIDE DEF p
  <2> QED
    BY Zenon, <1>1, <1>4, <1>5, <1>8, <2>2, <2>3, <2>4, <2>6 DEF Fresh
<1>9. CASE HandleMsg(f) /\ ~handleImmediate(f.msgs[1])
  <2> DEFINE p == [calls |-> <<1>>, answers |-> <<>>, running |-> TRUE]
  <2>1. Len(f.msgs) = 1
    BY Zenon, <1>1, <1>9 DEF HandleMsg
  <2>2. p \in Procs
    BY DEF Procs
  <2>3. /\ Head(f.msgs) = f.msgs[1] /\ f.msgs # <<>>
        /\ 1 \in 0 .. Len(f.msgs) /\ \A i \in 1 .. 1 : i = 1
        /\ 1 \in 1 .. 1 /\ ~(1 < 1) /\ \A k \in 1 .. Len(<<>>) : FALSE
    BY <1>2, <2>1
  <2>4. procs' = Append(procs, p) /\ looked' = 1 /\ immediate' = immediate
    BY Zenon, <1>9, <2>3 DEF HandleMsg, StartCallProc
  <2>5. Len(<<1>>) = 1 /\ <<1>>[1] = 1
    OBVIOUS
  <2>6. CallsOK(<<1>>, f.msgs, 1) /\ NoneMissing(<<1>>, <<>>, f.msgs, 1)
    BY Zenon, <1>9, <2>3, <2>5 DEF CallsOK, NoneMissing
  <2>7. AnswersOK(<<>>, f.msgs) /\ AnswersFirst(<<1>>, <<>>)
    BY Zenon, <2>3 DEF AnswersOK, AnswersFirst
  <2>8. p.calls = <<1>> /\ p.answers = <<>> /\ p.running
    BY Zenon
  <2>9. ProcOK(p, f.msgs, 1)
    BY Zenon, <2>1, <2>3, <2>6, <2>7, <2>8 DEF ProcOK
  <2>10. \A i \in 1 .. 1 : ~handleImmediate(f.msgs[i])
    BY Zenon, <1>9, <2>3
  <2> HIDE DEF p
  <2> QED
    BY Zenon, <1>1, <1>4, <1>5, <2>2, <2>3, <2>4, <2>9, <2>10 DEF Fresh
<1> QED
  BY Zenon, <1>6, <1>7, <1>8, <1>9

(* A frame that has been read is the last, and the others keep theirs.     *)
LEMMA FreshTypes ==
  ASSUME HandlerTypes, NEW f, NEW p, NEW l, Fresh(f, p, l)
  PROVE  /\ received' \in Seq(Frames) /\ procs' \in Seq(Procs)
         /\ Len(procs') = Len(received')
<1>1. /\ received \in Seq(Frames) /\ procs \in Seq(Procs) /\ Len(procs) = Len(received)
      /\ f \in Frames /\ p \in Procs
      /\ received' = Append(received, f) /\ procs' = Append(procs, p)
  BY Zenon DEF HandlerTypes, Fresh
<1> QED
  BY <1>1

LEMMA FreshShape ==
  ASSUME HandlerTypes, NEW f, NEW p, NEW l, Fresh(f, p, l), NEW N, N = Len(received) + 1
  PROVE  /\ Len(received') = N
         /\ received'[N] = f /\ procs'[N] = p /\ Seen(N)' = l
         /\ \A n \in 1 .. N : n = N \/ n \in 1 .. Len(received)
         /\ \A n \in 1 .. Len(received) : n \in 1 .. N /\ n < N /\ Kept(n)
<1>1. /\ received \in Seq(Frames) /\ procs \in Seq(Procs) /\ Len(procs) = Len(received)
      /\ f \in Frames /\ p \in Procs
      /\ received' = Append(received, f) /\ procs' = Append(procs, p)
  BY Zenon DEF HandlerTypes, Fresh
<1>2. /\ received' \in Seq(Frames) /\ Len(received') = N /\ received'[N] = f
      /\ \A n \in 1 .. Len(received) : received'[n] = received[n]
  BY <1>1
<1>3. /\ procs' \in Seq(Procs) /\ Len(procs') = N /\ procs'[N] = p
      /\ \A n \in 1 .. Len(received) : procs'[n] = procs[n]
  BY <1>1
<1>4. Len(received) \in Nat
  BY <1>1
<1>5. /\ \A n \in 1 .. N : n = N \/ n \in 1 .. Len(received)
      /\ \A n \in 1 .. Len(received) : n \in 1 .. N /\ n < N
      /\ ~(N < N)
  BY <1>4
<1>6. Seen(N)' = l
  <2>1. looked' = l
    BY Zenon DEF Fresh
  <2> QED
    BY Zenon, <1>2, <1>5, <2>1 DEF Seen
<1>7. \A n \in 1 .. Len(received) : Kept(n)
  <2> SUFFICES ASSUME NEW n \in 1 .. Len(received) PROVE Kept(n)
    OBVIOUS
  <2>1. Seen(n)' = Len(received'[n].msgs)
    BY Zenon, <1>2, <1>5 DEF Seen
  <2>2. Seen(n) = Len(received[n].msgs)
    BY Zenon DEF Fresh
  <2> QED
    BY Zenon, <1>2, <1>3, <2>1, <2>2 DEF Kept
<1> QED
  BY Zenon, <1>2, <1>3, <1>5, <1>6, <1>7

(* What a turn of the loop, a call and the end of a goroutine do to procs: *)
(* one of its records changes, that of the last frame or of the frame      *)
(* whose goroutine it is.                                                  *)
LEMMA LoopShape ==
  ASSUME HandlerTypes, BatchLoop, NEW N, N = Len(received), NEW ms, ms = received[N].msgs
  PROVE  /\ N \in 1 .. Len(received) /\ ms \in Seq(Messages) /\ Seen(N) = looked
         /\ looked < Len(ms) /\ looked + 1 \in 1 .. Len(ms)
         /\ received' = received /\ Seen(N)' = looked + 1
         /\ wire' = wire /\ allowSubscribe' = allowSubscribe
         /\ procs' \in Seq(Procs) /\ Len(procs') = Len(procs) /\ procs'[N] \in Procs
         /\ procs'[N].answers = procs[N].answers
         /\ procs'[N].calls = IF handleImmediate(ms[looked + 1]) THEN procs[N].calls
                              ELSE Append(procs[N].calls, looked + 1)
         /\ procs'[N].running <=> (looked + 1 = Len(ms) /\ procs'[N].calls # <<>>)
         /\ \A n \in 1 .. Len(received) : n # N => n < N /\ Kept(n)
         /\ immediate' = IF handleImmediate(ms[looked + 1])
                         THEN Append(immediate, [frame |-> N, at |-> looked + 1])
                         ELSE immediate
<1>1. /\ received \in Seq(Frames) /\ procs \in Seq(Procs) /\ Len(procs) = N /\ looked \in Nat
      /\ received # <<>>
  BY Zenon DEF HandlerTypes, BatchLoop, Loop
<1>2. N \in 1 .. Len(received) /\ N \in 1 .. Len(procs) /\ N \in Nat
  BY <1>1
<1>a. received[N] \in Frames /\ procs[N] \in Procs
  BY <1>1, <1>2
<1>b. ms \in Seq(Messages) /\ procs[N].calls \in Seq(Nat)
  BY Zenon, <1>a DEF Frames, Procs
<1>3. ms \in Seq(Messages) /\ Len(ms) \in Nat
  BY <1>b
<1>4. /\ looked < Len(ms) /\ looked' = looked + 1 /\ received' = received
      /\ wire' = wire /\ allowSubscribe' = allowSubscribe
  BY Zenon DEF BatchLoop, Loop
<1>5. LastFrame = ms /\ Calls = procs[N].calls
  BY Zenon, <1>1 DEF LastFrame, Calls
<1>6. looked + 1 \in 1 .. Len(ms) /\ looked + 1 \in Nat
  BY <1>1, <1>3, <1>4
<1> DEFINE c == IF handleImmediate(ms[looked + 1]) THEN procs[N].calls
                ELSE Append(procs[N].calls, looked + 1)
           r == looked + 1 = Len(ms) /\ c # <<>>
<1>7. Loop(looked + 1, c)
  BY Zenon, <1>5 DEF BatchLoop
<1>8. c \in Seq(Nat)
  <2>1. procs[N].calls \in Seq(Nat)
    BY Zenon, <1>b
  <2> QED
    BY <1>6, <2>1
<1> HIDE DEF c
<1>9. SetRunning(procs', procs, N, c, r)
  BY Zenon, <1>7 DEF Loop, SetRunning
<1>10. immediate' = IF handleImmediate(ms[looked + 1])
                    THEN Append(immediate, [frame |-> N, at |-> looked + 1]) ELSE immediate
  BY Zenon, <1>7 DEF Loop
<1>11. r \in BOOLEAN
  BY Zenon
<1> HIDE DEF r
<1>12. /\ procs' \in Seq(Procs) /\ Len(procs') = Len(procs)
       /\ \A k \in 1 .. Len(procs) : k # N => procs'[k] = procs[k]
       /\ procs'[N] \in Procs /\ procs'[N].calls = c /\ procs'[N].answers = procs[N].answers
       /\ procs'[N].running <=> r
  BY <1>1, <1>2, <1>8, <1>9, <1>11, CallsAndRunning
<1>13. ~(N < Len(received)) /\ \A n \in 1 .. Len(received) : n # N => n < N
  BY <1>1
<1>14. Seen(N) = looked /\ Seen(N)' = looked + 1
  BY Zenon, <1>4, <1>13 DEF Seen
<1>15. \A n \in 1 .. Len(received) : n # N => Kept(n)
  BY Zenon, <1>1, <1>4, <1>12, <1>13 DEF Kept, Seen
<1> QED
  BY Zenon, <1>2, <1>3, <1>4, <1>6, <1>10, <1>12, <1>13, <1>14, <1>15 DEF c, r

LEMMA CallShape ==
  ASSUME HandlerTypes, ProcsInv, NEW n \in 1 .. Len(procs), HandleCallMsg(n),
         NEW ms, ms = received[n].msgs, NEW i, i = Head(procs[n].calls)
  PROVE  /\ n \in 1 .. Len(received) /\ ms \in Seq(Messages) /\ Seen(n) = Len(ms)
         /\ procs[n] \in Procs /\ procs[n].running /\ procs[n].calls # <<>>
         /\ UNCHANGED <<allowSubscribe, received, looked, immediate, wire>>
         /\ procs' \in Seq(Procs) /\ Len(procs') = Len(procs) /\ procs'[n] \in Procs
         /\ procs'[n].calls = Tail(procs[n].calls) /\ procs'[n].running
         /\ \E o \in Outcomes(ms[i]) : procs'[n].answers = procs[n].answers \o Answer(ms[i], i, o)
         /\ \A k \in 1 .. Len(received) : Seen(k)' = Seen(k) /\ (k # n => Kept(k))
<1>1. /\ received \in Seq(Frames) /\ procs \in Seq(Procs) /\ Len(procs) = Len(received)
      /\ procs[n].running /\ procs[n].calls # <<>>
      /\ UNCHANGED <<allowSubscribe, received, looked, immediate, wire>>
  BY Zenon DEF HandlerTypes, HandleCallMsg
<1>a. n \in 1 .. Len(received) /\ procs[n] \in Procs /\ received[n] \in Frames
  BY <1>1
<1>2. n \in 1 .. Len(received) /\ procs[n] \in Procs /\ ms \in Seq(Messages)
  BY Zenon, <1>a DEF Frames
<1>3. procs[n].calls \in Seq(Nat) /\ procs[n].answers \in Seq(Answers)
  BY Zenon, <1>2 DEF Procs
<1>4. ms # <<>> /\ CallsOK(procs[n].calls, ms, Seen(n)) /\ Seen(n) = Len(ms)
  BY Zenon, <1>1, <1>2 DEF ProcsInv, ProcOK
<1>5. Tail(procs[n].calls) \in Seq(Nat) /\ i = procs[n].calls[1] /\ 1 \in 1 .. Len(procs[n].calls)
  BY <1>1, <1>3
<1>6. i \in 1 .. Len(ms)
  BY Zenon, <1>4, <1>5 DEF CallsOK
<1>7. i \in Nat /\ ms[i] \in Messages
  BY <1>2, <1>6
<1>8. PICK o \in Outcomes(ms[i]) :
        procs' = [procs EXCEPT ![n].calls = Tail(@), ![n].answers = @ \o Answer(ms[i], i, o)]
  BY Zenon DEF HandleCallMsg
<1> DEFINE x == procs[n].answers \o Answer(ms[i], i, o)
           t == Tail(procs[n].calls)
           a == [id |-> IF hasValidID(ms[i]) THEN ms[i].id ELSE NoId,
                 kind |-> o.kind, args |-> o.args, of |-> i]
<1>9. a \in AnswerTo(ms[i], i)
  BY Zenon DEF AnswerTo
<1>10. a \in Answers
  BY Zenon, <1>7, <1>9, AnswerTyped
<1>11. Answer(ms[i], i, o) = IF isNotification(ms[i]) THEN <<>> ELSE <<a>>
  BY Zenon DEF Answer
<1> HIDE DEF a
<1>b. Answer(ms[i], i, o) \in Seq(Answers)
  <2>1. <<>> \in Seq(Answers)
    OBVIOUS
  <2>2. <<a>> \in Seq(Answers)
    BY <1>10
  <2> QED
    BY Zenon, <1>11, <2>1, <2>2
<1>12. x \in Seq(Answers)
  BY SMTT(30), <1>3, <1>b
<1>13. SetAnswers(procs', procs, n, t, x)
  BY Zenon, <1>1, <1>2, <1>8 DEF SetAnswers
<1>c. t \in Seq(Nat) /\ procs \in Seq(Procs)
  BY Zenon, <1>1, <1>5
<1> HIDE DEF x, t
<1>14. /\ procs' \in Seq(Procs) /\ Len(procs') = Len(procs)
       /\ \A k \in 1 .. Len(procs) : k # n => procs'[k] = procs[k]
       /\ procs'[n] \in Procs /\ procs'[n].calls = t
       /\ procs'[n].answers = x /\ procs'[n].running = procs[n].running
  BY <1>c, <1>12, <1>13, CallsAndAnswers
<1>15. \A k \in 1 .. Len(received) : Seen(k)' = Seen(k) /\ (k # n => Kept(k))
  BY Zenon, <1>1, <1>14 DEF Kept, Seen
<1> QED
  BY Zenon, <1>1, <1>2, <1>4, <1>14, <1>15 DEF x, t

LEMMA WriteShape ==
  ASSUME HandlerTypes, ProcsInv, NEW n \in 1 .. Len(procs), WriteAnswers(n),
         NEW ms, ms = received[n].msgs
  PROVE  /\ n \in 1 .. Len(received) /\ Seen(n) = Len(ms)
         /\ procs[n] \in Procs /\ procs[n].running /\ procs[n].calls = <<>>
         /\ UNCHANGED <<allowSubscribe, received, looked, immediate>>
         /\ procs' \in Seq(Procs) /\ Len(procs') = Len(procs) /\ procs'[n] \in Procs
         /\ procs'[n].calls = <<>> /\ ~procs'[n].running
         /\ procs'[n].answers = procs[n].answers
         /\ \A k \in 1 .. Len(received) : Seen(k)' = Seen(k) /\ (k # n => Kept(k))
<1>1. /\ received \in Seq(Frames) /\ procs \in Seq(Procs) /\ Len(procs) = Len(received)
      /\ procs[n].running /\ procs[n].calls = <<>>
      /\ UNCHANGED <<allowSubscribe, received, looked, immediate>>
  BY Zenon DEF HandlerTypes, WriteAnswers
<1>2. n \in 1 .. Len(received) /\ procs[n] \in Procs
  BY <1>1
<1>3. Seen(n) = Len(ms)
  <2>1. CASE ms = <<>>
    <3>1. Seen(n) \in 0 .. Len(ms)
      BY Zenon, <1>2 DEF HandlerTypes
    <3> QED
      BY <2>1, <3>1
  <2>2. CASE ms # <<>>
    BY Zenon, <1>1, <1>2, <2>2 DEF ProcsInv, ProcOK
  <2> QED
    BY Zenon, <2>1, <2>2
<1>4. SetEnded(procs', procs, n)
  BY Zenon DEF WriteAnswers, SetEnded
<1>5. /\ procs' \in Seq(Procs) /\ Len(procs') = Len(procs)
      /\ \A k \in 1 .. Len(procs) : k # n => procs'[k] = procs[k]
      /\ procs'[n] \in Procs /\ procs'[n].calls = procs[n].calls
      /\ procs'[n].answers = procs[n].answers /\ procs'[n].running = FALSE
  <2>1. procs \in Seq(Procs)
    BY Zenon, <1>1
  <2> QED
    BY ZenonT(30), <1>4, <2>1, OnlyRunning
<1>6. \A k \in 1 .. Len(received) : Seen(k)' = Seen(k) /\ (k # n => Kept(k))
  BY Zenon, <1>1, <1>5 DEF Kept, Seen
<1> QED
  BY Zenon, <1>1, <1>2, <1>3, <1>5, <1>6

(* ProcsInv is preserved.                                                  *)
LEMMA ProcsStep ==
  ASSUME HandlerTypes, ProcsInv, [HandlerNext]_handlerVars
  PROVE  ProcsInv'
<1> SUFFICES ASSUME NEW n \in 1 .. Len(received')
             PROVE  ProcOK(procs[n], received[n].msgs, Seen(n))'
  BY Zenon DEF ProcsInv
<1>1. ASSUME allowSubscribe' = allowSubscribe, n \in 1 .. Len(received), Kept(n)
      PROVE  ProcOK(procs[n], received[n].msgs, Seen(n))'
  BY Zenon, <1>1, SameAnswers DEF ProcsInv, Kept
<1>2. ASSUME NEW f \in NextFrames, HandleBatch(f) \/ HandleMsg(f)
      PROVE  ProcOK(procs[n], received[n].msgs, Seen(n))'
  <2>1. PICK p \in Procs, l \in Nat : Fresh(f, p, l)
    BY Zenon, <1>2, ReadFrame
  <2>2. PICK N : N = Len(received) + 1
    BY Zenon
  <2>3. /\ Len(received') = N /\ received'[N] = f /\ procs'[N] = p /\ Seen(N)' = l
        /\ \A k \in 1 .. N : k = N \/ k \in 1 .. Len(received)
        /\ \A k \in 1 .. Len(received) : Kept(k)
    BY <2>1, <2>2, FreshShape
  <2>4. allowSubscribe' = allowSubscribe /\ ProcOK(p, f.msgs, l)
    BY Zenon, <2>1 DEF Fresh
  <2>5. CASE n = N
    BY Zenon, <2>3, <2>4, <2>5, SameAnswers
  <2>6. CASE n \in 1 .. Len(received)
    BY Zenon, <1>1, <2>3, <2>4, <2>6
  <2> QED
    BY Zenon, <2>3, <2>5, <2>6
<1>3. ASSUME BatchLoop PROVE ProcOK(procs[n], received[n].msgs, Seen(n))'
  <2>a. PICK N : N = Len(received)
    BY Zenon
  <2> DEFINE ms == received[N].msgs
  <2>1. /\ N \in 1 .. Len(received) /\ ms \in Seq(Messages) /\ Seen(N) = looked
        /\ looked < Len(ms) /\ received' = received /\ Seen(N)' = looked + 1
        /\ allowSubscribe' = allowSubscribe
        /\ procs'[N] \in Procs
        /\ procs'[N].answers = procs[N].answers
        /\ procs'[N].calls = IF handleImmediate(ms[looked + 1]) THEN procs[N].calls
                             ELSE Append(procs[N].calls, looked + 1)
        /\ procs'[N].running <=> (looked + 1 = Len(ms) /\ procs'[N].calls # <<>>)
        /\ \A k \in 1 .. Len(received) : k # N => Kept(k)
    BY Zenon, <1>3, <2>a, LoopShape
  <2>2. ProcOK(procs[N], ms, looked) /\ looked \in Nat
    BY Zenon, <2>1 DEF ProcsInv, HandlerTypes
  <2>3. procs[N] \in Procs
    BY <2>1 DEF HandlerTypes
  <2>4. ProcOK(procs'[N], ms, looked + 1)
    <3> HIDE DEF ms
    <3> QED
      BY Zenon, <2>1, <2>2, <2>3, LoopOK
  <2>5. CASE n = N
    BY Zenon, <2>1, <2>4, <2>5, SameAnswers
  <2>6. CASE n # N
    BY Zenon, <1>1, <2>1, <2>6
  <2> QED
    BY Zenon, <2>5, <2>6
<1>4. ASSUME NEW h \in 1 .. Len(procs), HandleCallMsg(h)
      PROVE  ProcOK(procs[n], received[n].msgs, Seen(n))'
  <2> DEFINE ms == received[h].msgs
             i == Head(procs[h].calls)
  <2>1. /\ h \in 1 .. Len(received) /\ ms \in Seq(Messages) /\ Seen(h) = Len(ms)
        /\ procs[h] \in Procs /\ procs[h].running /\ procs[h].calls # <<>>
        /\ allowSubscribe' = allowSubscribe /\ received' = received
        /\ procs'[h] \in Procs /\ procs'[h].calls = Tail(procs[h].calls) /\ procs'[h].running
        /\ \E o \in Outcomes(ms[i]) : procs'[h].answers = procs[h].answers \o Answer(ms[i], i, o)
        /\ \A k \in 1 .. Len(received) : Seen(k)' = Seen(k) /\ (k # h => Kept(k))
    BY Zenon, <1>4, CallShape
  <2>2. PICK o \in Outcomes(ms[i]) :
          procs'[h].answers = procs[h].answers \o Answer(ms[i], i, o)
    BY Zenon, <2>1
  <2>3. ProcOK(procs[h], ms, Len(ms))
    BY Zenon, <2>1 DEF ProcsInv
  <2>4. ProcOK(procs'[h], ms, Len(ms))
    <3> HIDE DEF ms
    <3> QED
      BY Zenon, <2>1, <2>2, <2>3, CallOK
  <2>5. CASE n = h
    BY Zenon, <2>1, <2>4, <2>5, SameAnswers
  <2>6. CASE n # h
    BY Zenon, <1>1, <2>1, <2>6
  <2> QED
    BY Zenon, <2>5, <2>6
<1>5. ASSUME NEW h \in 1 .. Len(procs), WriteAnswers(h)
      PROVE  ProcOK(procs[n], received[n].msgs, Seen(n))'
  <2> DEFINE ms == received[h].msgs
  <2>1. /\ h \in 1 .. Len(received) /\ Seen(h) = Len(ms) /\ procs[h].calls = <<>>
        /\ allowSubscribe' = allowSubscribe /\ received' = received
        /\ procs'[h].calls = <<>> /\ ~procs'[h].running
        /\ procs'[h].answers = procs[h].answers
        /\ \A k \in 1 .. Len(received) : Seen(k)' = Seen(k) /\ (k # h => Kept(k))
    BY Zenon, <1>5, WriteShape
  <2>2. ProcOK(procs[h], ms, Seen(h))
    BY Zenon, <2>1 DEF ProcsInv
  <2>3. ProcOK(procs'[h], ms, Seen(h))
    BY Zenon, <2>1, <2>2 DEF ProcOK
  <2>5. CASE n = h
    BY Zenon, <2>1, <2>3, <2>5, SameAnswers
  <2>6. CASE n # h
    BY Zenon, <1>1, <2>1, <2>6
  <2> QED
    BY Zenon, <2>5, <2>6
<1>6. ASSUME UNCHANGED handlerVars PROVE ProcOK(procs[n], received[n].msgs, Seen(n))'
  BY Zenon, <1>1, <1>6 DEF handlerVars, Kept, Seen
<1> QED
  BY Zenon, <1>2, <1>3, <1>4, <1>5, <1>6 DEF HandlerNext, Proc

(* A step adds at most one reply, that of the goroutine it ends.           *)
LEMMA ReplyStep ==
  ASSUME HandlerTypes, ProcsInv, ReplyInv, [HandlerNext]_handlerVars
  PROVE  ReplyInv'
<1> DEFINE Sent(k) == LET n == wire[k].frame
                      IN /\ n \in 1 .. Len(received) /\ ~procs[n].running
                         /\ Seen(n) = Len(received[n].msgs)
                         /\ wire[k].answers = procs[n].answers
                         /\ wire[k].batch <=> received[n].batch /\ received[n].msgs # <<>>
           Once == \A j, k \in 1 .. Len(wire) : wire[j].frame = wire[k].frame => j = k
<1>1. Once /\ \A k \in 1 .. Len(wire) : Sent(k)
  BY Zenon DEF ReplyInv
<1>2. (Once' /\ \A k \in 1 .. Len(wire') : Sent(k)') => ReplyInv'
  BY Zenon DEF ReplyInv
<1>3. ASSUME wire' = wire,
             \A n \in 1 .. Len(received) :
               ~procs[n].running /\ Seen(n) = Len(received[n].msgs) =>
                 n \in 1 .. Len(received') /\ Kept(n)
      PROVE  ReplyInv'
  <2>1. ASSUME NEW k \in 1 .. Len(wire) PROVE Sent(k)'
    <3>1. PICK n : n = wire[k].frame
      BY Zenon
    <3>2. n \in 1 .. Len(received') /\ Kept(n)
      BY Zenon, <1>1, <1>3, <3>1
    <3> QED
      BY Zenon, <1>1, <1>3, <3>1, <3>2 DEF Kept
  <2> QED
    BY Zenon, <1>1, <1>2, <1>3, <2>1
<1>4. ASSUME NEW f \in NextFrames, HandleBatch(f) \/ HandleMsg(f) PROVE ReplyInv'
  <2>1. PICK p \in Procs, l \in Nat : Fresh(f, p, l)
    BY Zenon, <1>4, ReadFrame
  <2>2. PICK N : N = Len(received) + 1
    BY Zenon
  <2>3. Len(received') = N /\ \A k \in 1 .. Len(received) : k \in 1 .. N /\ Kept(k)
    BY <2>1, <2>2, FreshShape
  <2>4. wire' = wire
    BY Zenon, <2>1 DEF Fresh
  <2> QED
    BY Zenon, <1>3, <2>3, <2>4
<1>5. ASSUME BatchLoop PROVE ReplyInv'
  <2>1. PICK N : N = Len(received)
    BY Zenon
  <2>2. PICK ms : ms = received[N].msgs
    BY Zenon
  <2>3. /\ received' = received /\ wire' = wire /\ Seen(N) = looked /\ looked < Len(ms)
        /\ \A k \in 1 .. Len(received) : k # N => Kept(k)
        /\ ms \in Seq(Messages)
    BY Zenon, <1>5, <2>1, <2>2, LoopShape
  <2>4. looked # Len(ms)
    <3>1. looked \in Nat
      BY Zenon DEF HandlerTypes
    <3> QED
      BY <2>3, <3>1
  <2> QED
    BY Zenon, <1>3, <2>2, <2>3, <2>4
<1>6. ASSUME NEW h \in 1 .. Len(procs), HandleCallMsg(h) PROVE ReplyInv'
  <2>1. /\ procs[h].running /\ received' = received /\ wire' = wire
        /\ \A k \in 1 .. Len(received) : k # h => Kept(k)
    BY Zenon, <1>6, CallShape
  <2> QED
    BY Zenon, <1>3, <2>1
<1>7. ASSUME NEW h \in 1 .. Len(procs), WriteAnswers(h) PROVE ReplyInv'
  <2>1. /\ h \in 1 .. Len(received) /\ Seen(h) = Len(received[h].msgs)
        /\ procs[h].running /\ received' = received /\ ~procs'[h].running
        /\ procs'[h].answers = procs[h].answers /\ procs[h] \in Procs
        /\ \A k \in 1 .. Len(received) : Seen(k)' = Seen(k) /\ (k # h => Kept(k))
    BY Zenon, <1>7, WriteShape
  <2>2. CASE wire' = wire
    BY Zenon, <1>3, <2>1, <2>2
  <2>3. CASE wire' # wire
    <3> DEFINE w == [frame |-> h, batch |-> received[h].batch /\ received[h].msgs # <<>>,
                     answers |-> procs[h].answers]
    <3>1. wire' = Append(wire, w)
      BY Zenon, <1>7, <2>3 DEF WriteAnswers
    <3>2. w \in Replies /\ w.frame = h /\ w.answers = procs[h].answers
          /\ (w.batch <=> received[h].batch /\ received[h].msgs # <<>>)
      <4>1. h \in Nat /\ procs[h].answers \in Seq(Answers)
        BY <2>1 DEF Procs
      <4> QED
        BY Zenon, <4>1 DEF Replies
    <3> HIDE DEF w
    <3>3. wire \in Seq(Replies)
      BY Zenon DEF HandlerTypes
    <3>4. PICK L : L = Len(wire')
      BY Zenon
    <3>5. /\ wire'[L] = w /\ \A k \in 1 .. Len(wire) : wire'[k] = wire[k]
          /\ \A k \in 1 .. L : k = L \/ k \in 1 .. Len(wire)
      BY <3>1, <3>2, <3>3, <3>4, OneMore
    <3>6. ASSUME NEW k \in 1 .. Len(wire) PROVE wire[k].frame # h /\ Sent(k)'
      <4>1. PICK n : n = wire[k].frame
        BY Zenon
      <4>2. n \in 1 .. Len(received) /\ n # h
        BY Zenon, <1>1, <2>1, <4>1
      <4>3. Kept(n)
        BY Zenon, <2>1, <4>2
      <4>4. wire'[k] = wire[k] /\ Sent(k)
        BY Zenon, <1>1, <3>5
      <4>5. Sent(k)'
        BY Zenon, <2>1, <4>1, <4>2, <4>3, <4>4 DEF Kept
      <4> QED
        BY Zenon, <4>1, <4>2, <4>5
    <3>7. Sent(L)'
      BY Zenon, <2>1, <3>2, <3>5
    <3>8. Once'
      <4> SUFFICES ASSUME NEW j \in 1 .. L, NEW k \in 1 .. L, wire'[j].frame = wire'[k].frame
                   PROVE  j = k
        BY Zenon, <3>4
      <4>1. CASE j \in 1 .. Len(wire) /\ k \in 1 .. Len(wire)
        BY Zenon, <1>1, <3>5, <4>1
      <4>2. CASE j = L /\ k \in 1 .. Len(wire)
        BY Zenon, <3>2, <3>5, <3>6, <4>2
      <4>3. CASE k = L /\ j \in 1 .. Len(wire)
        BY Zenon, <3>2, <3>5, <3>6, <4>3
      <4> QED
        BY Zenon, <3>5, <4>1, <4>2, <4>3
    <3> QED
      BY Zenon, <1>2, <3>4, <3>5, <3>6, <3>7, <3>8
  <2> QED
    BY Zenon, <2>2, <2>3
<1>8. ASSUME UNCHANGED handlerVars PROVE ReplyInv'
  BY Zenon, <1>3, <1>8 DEF handlerVars, Kept, Seen
<1> QED
  BY Zenon, <1>4, <1>5, <1>6, <1>7, <1>8 DEF HandlerNext, Proc

(* A step hands on at most one message, and that comes after the others.   *)
LEMMA ImmediateStep ==
  ASSUME HandlerTypes, ProcsInv, ImmediateInv, [HandlerNext]_handlerVars
  PROVE  ImmediateInv'
<1> DEFINE Old(n, i) == n \in 1 .. Len(received) /\ i \in 1 .. Seen(n)
           Needs(n, i) == Old(n, i) /\ handleImmediate(received[n].msgs[i])
           Noted(k) == /\ Needs(immediate[k].frame, immediate[k].at)
                       /\ \A j \in 1 .. Len(immediate) :
                            j < k => \/ immediate[j].frame < immediate[k].frame
                                     \/ /\ immediate[j].frame = immediate[k].frame
                                        /\ immediate[j].at < immediate[k].at
           In(n, i) == \E k \in 1 .. Len(immediate) : immediate[k].frame = n /\ immediate[k].at = i
<1>1. (\A k \in 1 .. Len(immediate) : Noted(k)) /\ (\A n, i : Needs(n, i) => In(n, i))
  BY ZenonT(30) DEF ImmediateInv
<1>2. (\A k \in 1 .. Len(immediate') : Noted(k)') /\ (\A n, i : Needs(n, i)' => In(n, i)')
        => ImmediateInv'
  <2> SUFFICES ASSUME \A k \in 1 .. Len(immediate') : Noted(k)', \A n, i : Needs(n, i)' => In(n, i)'
               PROVE  ImmediateInv'
    BY Zenon
  <2>1. ASSUME NEW n \in 1 .. Len(received'), NEW i \in 1 .. Seen(n)',
               handleImmediate(received'[n].msgs[i])
        PROVE  In(n, i)'
    <3>1. Needs(n, i)'
      BY Zenon, <2>1
    <3> HIDE DEF Needs, In
    <3> QED
      BY Zenon, <3>1
  <2> QED
    BY Zenon, <2>1 DEF ImmediateInv
<1>3. ASSUME immediate' = immediate, \A n, i : Needs(n, i)' <=> Needs(n, i)
      PROVE  ImmediateInv'
  <2> HIDE DEF Needs
  <2>1. ASSUME NEW k \in 1 .. Len(immediate') PROVE Noted(k)'
    <3>1. Noted(k)
      BY Zenon, <1>1, <1>3
    <3> QED
      BY Zenon, <1>3, <3>1
  <2>2. ASSUME NEW n, NEW i, Needs(n, i)' PROVE In(n, i)'
    <3>1. In(n, i)
      <4> HIDE DEF In
      <4> QED
        BY Zenon, <1>1, <1>3, <2>2
    <3> QED
      BY Zenon, <1>3, <3>1
  <2> HIDE DEF Noted, In
  <2> QED
    BY Zenon, <1>2, <2>1, <2>2
<1>4. ASSUME NEW N \in Nat, NEW s \in Nat,
             immediate' = Append(immediate, [frame |-> N, at |-> s]),
             \A n, i : Needs(n, i)' <=> Needs(n, i) \/ (n = N /\ i = s),
             \A n, i : Needs(n, i) => n < N \/ (n = N /\ i < s)
      PROVE  ImmediateInv'
  <2> HIDE DEF Needs
  <2>1. immediate \in Seq(Places) /\ [frame |-> N, at |-> s] \in Places
    BY Zenon DEF HandlerTypes, Places
  <2>2. PICK L : L = Len(immediate')
    BY Zenon
  <2>3. PICK a : a = [frame |-> N, at |-> s]
    BY Zenon
  <2>4. a.frame = N /\ a.at = s
    BY Zenon, <2>3
  <2>5. /\ immediate'[L] = a /\ L \in 1 .. L /\ ~(L < L)
        /\ \A k \in 1 .. L : k = L \/ (k \in 1 .. Len(immediate) /\ immediate'[k] = immediate[k])
        /\ \A k \in 1 .. Len(immediate) : k \in 1 .. L /\ immediate'[k] = immediate[k]
        /\ \A k \in 1 .. L : ~(L < k)
    BY <1>4, <2>1, <2>2, <2>3, OneMore
  <2>6. Noted(L)'
    <3>1. Needs(immediate[L].frame, immediate[L].at)'
      BY Zenon, <1>4, <2>4, <2>5
    <3>2. ASSUME NEW j \in 1 .. L, j < L
          PROVE  \/ immediate'[j].frame < immediate'[L].frame
                 \/ immediate'[j].frame = immediate'[L].frame /\ immediate'[j].at < immediate'[L].at
      <4>1. j \in 1 .. Len(immediate) /\ immediate'[j] = immediate[j]
        BY Zenon, <2>5, <3>2
      <4>2. Needs(immediate[j].frame, immediate[j].at)
        BY Zenon, <1>1, <4>1
      <4> QED
        BY Zenon, <1>4, <2>4, <2>5, <4>1, <4>2
    <3> QED
      BY Zenon, <2>2, <3>1, <3>2
  <2>7. ASSUME NEW k \in 1 .. Len(immediate), immediate'[k] = immediate[k] PROVE Noted(k)'
    <3>1. Noted(k)
      BY Zenon, <1>1
    <3>2. Needs(immediate[k].frame, immediate[k].at)'
      BY Zenon, <1>4, <2>7, <3>1
    <3>3. ASSUME NEW j \in 1 .. L, j < k
          PROVE  \/ immediate'[j].frame < immediate'[k].frame
                 \/ immediate'[j].frame = immediate'[k].frame /\ immediate'[j].at < immediate'[k].at
      <4>1. j \in 1 .. Len(immediate) /\ immediate'[j] = immediate[j]
        BY Zenon, <2>5, <3>3
      <4> QED
        BY Zenon, <2>7, <3>1, <3>3, <4>1
    <3> QED
      BY Zenon, <2>2, <3>2, <3>3
  <2>8. ASSUME NEW n, NEW i, Needs(n, i)' PROVE In(n, i)'
    <3>1. CASE n = N /\ i = s
      BY Zenon, <2>2, <2>4, <2>5, <3>1
    <3>2. CASE Needs(n, i)
      <4>a. In(n, i)
        <5> HIDE DEF In
        <5> QED
          BY Zenon, <1>1, <3>2
      <4>1. PICK k \in 1 .. Len(immediate) : immediate[k].frame = n /\ immediate[k].at = i
        BY Zenon, <4>a
      <4> QED
        BY Zenon, <2>2, <2>5, <4>1
    <3>3. Needs(n, i) \/ (n = N /\ i = s)
      BY Zenon, <1>4, <2>8
    <3> HIDE DEF In
    <3> QED
      BY Zenon, <3>1, <3>2, <3>3
  <2>9. \A k \in 1 .. Len(immediate') : Noted(k)'
    <3> HIDE DEF Noted
    <3> QED
      BY Zenon, <2>2, <2>5, <2>6, <2>7
  <2> HIDE DEF Noted, In
  <2> QED
    BY Zenon, <1>2, <2>8, <2>9
<1>5. ASSUME NEW f \in NextFrames, HandleBatch(f) \/ HandleMsg(f) PROVE ImmediateInv'
  <2>1. PICK p \in Procs, l \in Nat : Fresh(f, p, l)
    BY Zenon, <1>5, ReadFrame
  <2>2. PICK N : N = Len(received) + 1
    BY Zenon
  <2>3. /\ Len(received') = N /\ received'[N] = f /\ Seen(N)' = l
        /\ \A n \in 1 .. N : n = N \/ n \in 1 .. Len(received)
        /\ \A n \in 1 .. Len(received) : n \in 1 .. N /\ n < N /\ Kept(n)
    BY <2>1, <2>2, FreshShape
  <2>4. N \in Nat /\ 1 \in Nat /\ N \in 1 .. N /\ ~(N < N) /\ \A i \in 1 .. 1 : i = 1
        /\ 1 \in 1 .. 1
    BY <2>2 DEF HandlerTypes
  <2>5. \A n, i : Needs(n, i) => n < N /\ Needs(n, i)'
    BY Zenon, <2>3 DEF Kept
  <2>6. \A n, i : Needs(n, i)' => \/ Needs(n, i)
                                  \/ n = N /\ i \in 1 .. l /\ handleImmediate(f.msgs[i])
    BY Zenon, <2>3 DEF Kept
  <2>7. CASE immediate' = immediate /\ \A i \in 1 .. l : ~handleImmediate(f.msgs[i])
    <3> HIDE DEF Needs
    <3> QED
      BY Zenon, <1>3, <2>5, <2>6, <2>7
  <2>8. CASE /\ immediate' = Append(immediate, [frame |-> N, at |-> 1])
             /\ l = 1 /\ handleImmediate(f.msgs[1])
    <3>a. 1 \in 1 .. Seen(N)'
      BY <2>3, <2>8
    <3>1. Needs(N, 1)'
      BY Zenon, <2>3, <2>4, <2>8, <3>a
    <3> HIDE DEF Needs
    <3>2. \A n, i : Needs(n, i)' <=> Needs(n, i) \/ (n = N /\ i = 1)
      BY Zenon, <2>4, <2>5, <2>6, <2>8, <3>1
    <3>3. \A n, i : Needs(n, i) => n < N \/ (n = N /\ i < 1)
      BY Zenon, <2>5
    <3> QED
      BY Zenon, <1>4, <2>4, <2>8, <3>2, <3>3
  <2> QED
    BY Zenon, <2>1, <2>2, <2>7, <2>8 DEF Fresh
<1>6. ASSUME BatchLoop PROVE ImmediateInv'
  <2>1. PICK N : N = Len(received)
    BY Zenon
  <2>2. PICK ms : ms = received[N].msgs
    BY Zenon
  <2>3. PICK s : s = looked + 1
    BY Zenon
  <2>4. /\ received' = received /\ N \in 1 .. Len(received)
        /\ Seen(N) = looked /\ Seen(N)' = s
        /\ \A k \in 1 .. Len(received) : k # N => k < N /\ Kept(k)
        /\ immediate' = IF handleImmediate(ms[s]) THEN Append(immediate, [frame |-> N, at |-> s])
                        ELSE immediate
    BY Zenon, <1>6, <2>1, <2>2, <2>3, LoopShape
  <2>5. /\ N \in Nat /\ s \in Nat /\ s \in 1 .. s
        /\ \A i \in 1 .. looked : i \in 1 .. s /\ i < s
        /\ \A i \in 1 .. s : i \in 1 .. looked \/ i = s
    BY <2>3, <2>4 DEF HandlerTypes
  <2>6. \A n, i : Needs(n, i) => Needs(n, i)' /\ (n < N \/ (n = N /\ i < s))
    BY Zenon, <2>4, <2>5 DEF Kept
  <2>7. \A n, i : Needs(n, i)' => \/ Needs(n, i)
                                  \/ n = N /\ i = s /\ handleImmediate(ms[s])
    BY Zenon, <2>2, <2>4, <2>5 DEF Kept
  <2>8. CASE ~handleImmediate(ms[s])
    <3> HIDE DEF Needs
    <3> QED
      BY Zenon, <1>3, <2>4, <2>6, <2>7, <2>8
  <2>9. CASE handleImmediate(ms[s])
    <3>1. Needs(N, s)'
      BY Zenon, <2>2, <2>4, <2>5, <2>9
    <3> HIDE DEF Needs
    <3>2. ASSUME NEW n, NEW i PROVE Needs(n, i)' <=> Needs(n, i) \/ (n = N /\ i = s)
      <4>1. Needs(n, i) => Needs(n, i)'
        BY Zenon, <2>6
      <4>2. n = N /\ i = s => Needs(n, i)'
        BY Zenon, <3>1
      <4>3. Needs(n, i)' => Needs(n, i) \/ (n = N /\ i = s)
        BY <2>7
      <4> QED
        BY Zenon, <4>1, <4>2, <4>3
    <3>3. immediate' = Append(immediate, [frame |-> N, at |-> s])
      BY Zenon, <2>4, <2>9
    <3> QED
      BY Zenon, <1>4, <2>5, <2>6, <3>2, <3>3
  <2> QED
    BY Zenon, <2>8, <2>9
<1>7. ASSUME NEW h \in 1 .. Len(procs), Proc(h) PROVE ImmediateInv'
  <2>1. /\ received' = received /\ immediate' = immediate
        /\ \A k \in 1 .. Len(received) : Seen(k)' = Seen(k)
    BY Zenon, <1>7, CallShape, WriteShape DEF Proc
  <2>2. \A n, i : Needs(n, i)' <=> Needs(n, i)
    BY Zenon, <2>1
  <2> HIDE DEF Needs
  <2> QED
    BY Zenon, <1>3, <2>1, <2>2
<1>8. ASSUME UNCHANGED handlerVars PROVE ImmediateInv'
  <2>1. immediate' = immediate /\ \A n, i : Needs(n, i)' <=> Needs(n, i)
    BY Zenon, <1>8 DEF handlerVars, Seen
  <2> HIDE DEF Needs
  <2> QED
    BY Zenon, <1>3, <2>1
<1> QED
  BY Zenon, <1>5, <1>6, <1>7, <1>8 DEF HandlerNext

(* The steps keep the types.                                               *)
LEMMA TypesStep ==
  ASSUME HandlerTypes, ProcsInv, [HandlerNext]_handlerVars
  PROVE  HandlerTypes'
<1>0. /\ received \in Seq(Frames) /\ looked \in Nat /\ allowSubscribe \in BOOLEAN
      /\ immediate \in Seq(Places) /\ procs \in Seq(Procs) /\ wire \in Seq(Replies)
      /\ Len(procs) = Len(received)
  BY Zenon DEF HandlerTypes
<1> DEFINE Bounded(n) == /\ ~received[n].batch => Len(received[n].msgs) = 1
                         /\ Seen(n) \in 0 .. Len(received[n].msgs)
<1>1. \A n \in 1 .. Len(received) : Bounded(n)
  BY Zenon DEF HandlerTypes
<1>2. ASSUME allowSubscribe' = allowSubscribe,
             received' \in Seq(Frames), looked' \in Nat, immediate' \in Seq(Places),
             procs' \in Seq(Procs), wire' \in Seq(Replies), Len(procs') = Len(received'),
             \A n \in 1 .. Len(received') : Bounded(n)'
      PROVE  HandlerTypes'
  <2>1. Procs' = Procs /\ Answers' = Answers
    BY Zenon, <1>2, SameAnswers
  <2>2. Replies' = Replies
    BY Zenon, <2>1 DEF Replies
  <2> QED
    BY Zenon, <1>0, <1>2, <2>1, <2>2 DEF HandlerTypes
<1>3. ASSUME NEW f \in NextFrames, HandleBatch(f) \/ HandleMsg(f) PROVE HandlerTypes'
  <2>1. PICK p \in Procs, l \in Nat : Fresh(f, p, l)
    BY Zenon, <1>3, ReadFrame
  <2>2. PICK N : N = Len(received) + 1
    BY Zenon
  <2>a. /\ received' \in Seq(Frames) /\ procs' \in Seq(Procs)
        /\ Len(procs') = Len(received')
    BY Zenon, <2>1, FreshTypes
  <2>3. /\ Len(received') = N /\ received'[N] = f /\ Seen(N)' = l
        /\ \A n \in 1 .. N : n = N \/ n \in 1 .. Len(received)
        /\ \A n \in 1 .. Len(received) : Kept(n)
    BY <2>1, <2>2, FreshShape
  <2>4. /\ allowSubscribe' = allowSubscribe /\ wire' = wire /\ looked' = l
        /\ l \in 0 .. Len(f.msgs) /\ (~f.batch => Len(f.msgs) = 1)
        /\ \/ immediate' = immediate
           \/ immediate' = Append(immediate, [frame |-> Len(received) + 1, at |-> 1])
    BY Zenon, <2>1 DEF Fresh
  <2>5. immediate' \in Seq(Places)
    <3>1. [frame |-> Len(received) + 1, at |-> 1] \in Places
      BY <1>0 DEF Places
    <3>2. Append(immediate, [frame |-> Len(received) + 1, at |-> 1]) \in Seq(Places)
      BY <1>0, <3>1
    <3> QED
      BY Zenon, <1>0, <2>4, <3>2
  <2>6. \A n \in 1 .. Len(received') : Bounded(n)'
    <3> SUFFICES ASSUME NEW n \in 1 .. N PROVE Bounded(n)'
      BY Zenon, <2>3
    <3>1. CASE n = N
      BY Zenon, <2>3, <2>4, <3>1
    <3>2. CASE n \in 1 .. Len(received)
      BY Zenon, <1>1, <2>3, <3>2 DEF Kept
    <3> QED
      BY Zenon, <2>3, <3>1, <3>2
  <2> HIDE DEF Bounded
  <2> QED
    BY Zenon, <1>0, <1>2, <2>a, <2>4, <2>5, <2>6
<1>4. ASSUME BatchLoop PROVE HandlerTypes'
  <2>1. PICK N : N = Len(received)
    BY Zenon
  <2>2. PICK ms : ms = received[N].msgs
    BY Zenon
  <2>3. /\ N \in 1 .. Len(received) /\ ms \in Seq(Messages) /\ looked + 1 \in 1 .. Len(ms)
        /\ received' = received /\ Seen(N)' = looked + 1
        /\ wire' = wire /\ allowSubscribe' = allowSubscribe
        /\ procs' \in Seq(Procs) /\ Len(procs') = Len(procs)
        /\ \A n \in 1 .. Len(received) : n # N => Kept(n)
        /\ immediate' = IF handleImmediate(ms[looked + 1])
                        THEN Append(immediate, [frame |-> N, at |-> looked + 1])
                        ELSE immediate
    BY Zenon, <1>4, <2>1, <2>2, LoopShape
  <2>4. looked' = looked + 1
    BY Zenon, <1>4 DEF BatchLoop, Loop
  <2>5. looked + 1 \in Nat /\ N \in Nat /\ looked + 1 \in 0 .. Len(ms)
    BY <1>0, <2>3
  <2>6. [frame |-> N, at |-> looked + 1] \in Places
    BY Zenon, <2>5 DEF Places
  <2>7. Append(immediate, [frame |-> N, at |-> looked + 1]) \in Seq(Places)
    BY <1>0, <2>6
  <2>8. immediate' \in Seq(Places)
    BY Zenon, <1>0, <2>3, <2>7
  <2>9. \A n \in 1 .. Len(received') : Bounded(n)'
    <3> SUFFICES ASSUME NEW n \in 1 .. Len(received) PROVE Bounded(n)'
      BY Zenon, <2>3
    <3>1. CASE n = N
      BY Zenon, <1>1, <2>2, <2>3, <2>5, <3>1
    <3>2. CASE n # N
      BY Zenon, <1>1, <2>3, <3>2 DEF Kept
    <3> QED
      BY Zenon, <3>1, <3>2
  <2> HIDE DEF Bounded
  <2> QED
    BY Zenon, <1>0, <1>2, <2>3, <2>4, <2>5, <2>8, <2>9
<1>5. ASSUME NEW h \in 1 .. Len(procs), HandleCallMsg(h) PROVE HandlerTypes'
  <2>1. /\ UNCHANGED <<allowSubscribe, received, looked, immediate, wire>>
        /\ procs' \in Seq(Procs) /\ Len(procs') = Len(procs)
        /\ \A k \in 1 .. Len(received) : Seen(k)' = Seen(k)
    BY Zenon, <1>5, CallShape
  <2>2. \A n \in 1 .. Len(received') : Bounded(n)'
    BY Zenon, <1>1, <2>1
  <2> HIDE DEF Bounded
  <2> QED
    BY Zenon, <1>0, <1>2, <2>1, <2>2
<1>6. ASSUME NEW h \in 1 .. Len(procs), WriteAnswers(h) PROVE HandlerTypes'
  <2>1. /\ UNCHANGED <<allowSubscribe, received, looked, immediate>>
        /\ procs' \in Seq(Procs) /\ Len(procs') = Len(procs)
        /\ \A k \in 1 .. Len(received) : Seen(k)' = Seen(k)
        /\ procs[h] \in Procs /\ h \in 1 .. Len(received)
    BY Zenon, <1>6, WriteShape
  <2>2. \A n \in 1 .. Len(received') : Bounded(n)'
    BY Zenon, <1>1, <2>1
  <2>3. wire' \in Seq(Replies)
    <3> DEFINE w == [frame |-> h, batch |-> received[h].batch /\ received[h].msgs # <<>>,
                     answers |-> procs[h].answers]
    <3>1. wire' = wire \/ wire' = Append(wire, w)
      BY Zenon, <1>6 DEF WriteAnswers
    <3>2. procs[h].answers \in Seq(Answers)
      BY Zenon, <2>1 DEF Procs
    <3>3. h \in Nat
      BY <1>0
    <3>4. w \in Replies
      BY Zenon, <3>2, <3>3 DEF Replies
    <3> HIDE DEF w
    <3>5. Append(wire, w) \in Seq(Replies)
      BY <1>0, <3>4
    <3> QED
      BY Zenon, <1>0, <3>1, <3>5
  <2> HIDE DEF Bounded
  <2> QED
    BY Zenon, <1>0, <1>2, <2>1, <2>2, <2>3
<1>7. ASSUME UNCHANGED handlerVars PROVE HandlerTypes'
  <2>1. UNCHANGED <<allowSubscribe, received, looked, immediate, procs, wire>>
    BY Zenon, <1>7 DEF handlerVars
  <2>2. \A n \in 1 .. Len(received') : Bounded(n)'
    BY Zenon, <1>1, <2>1 DEF Seen
  <2> HIDE DEF Bounded
  <2> QED
    BY Zenon, <1>0, <1>2, <2>1, <2>2
<1> QED
  BY Zenon, <1>3, <1>4, <1>5, <1>6, <1>7 DEF HandlerNext, Proc

(* At all times the goroutine of every frame has the calls that are left   *)
(* of it and the answers to the others, a reply has the answers of a       *)
(* goroutine that has ended, and what handleImmediate has handled is what  *)
(* was to be handed on.                                                    *)
THEOREM HandlerInvariant == HandlerSpec => []HandlerInv
<1>1. HandlerInit => HandlerInv
  <2> SUFFICES ASSUME HandlerInit PROVE HandlerInv
    OBVIOUS
  <2>1. /\ received = <<>> /\ looked = 0 /\ allowSubscribe \in BOOLEAN
        /\ immediate = <<>> /\ procs = <<>> /\ wire = <<>>
    BY Zenon DEF HandlerInit
  <2>2. \A n \in 1 .. Len(<<>>) : FALSE
    OBVIOUS
  <2>3. /\ received \in Seq(Frames) /\ looked \in Nat
        /\ immediate \in Seq(Places) /\ procs \in Seq(Procs) /\ wire \in Seq(Replies)
    BY <2>1
  <2> QED
    BY Zenon, <2>1, <2>2, <2>3 DEF HandlerInv, HandlerTypes, ProcsInv, ReplyInv, ImmediateInv
<1>2. HandlerInv /\ [HandlerNext]_handlerVars => HandlerInv'
  BY Zenon, TypesStep, ProcsStep, ReplyStep, ImmediateStep DEF HandlerInv
<1> QED
  BY <1>1, <1>2, PTL DEF HandlerSpec

-----------------------------------------------------------------------------
(* What calls come to.                                                     *)

(* The kinds of errors and results.                                        *)
LEMMA ErrorIs ==
  ASSUME NEW k, NEW o \in Error(k)
  PROVE  o.kind = k /\ o.args = <<>>
  BY DEF Error

LEMMA RunIs ==
  ASSUME NEW args, NEW o \in runMethod(args)
  PROVE  o.kind \in {"result", "failed"} /\ o.args = args
  BY DEF runMethod

(* What handleSubscribe, callMethod and *_unsubscribe come to, case by     *)
(* case.                                                                   *)
LEMMA SubscribeOutcome ==
  ASSUME NEW m, NEW o \in handleSubscribe(m)
  PROVE  \/ o \in Error("unsupported") \/ o \in Error("subscription not found")
         \/ /\ o \in Error("invalid params")
            /\ \/ ~parseSubscriptionName(m.params)
               \/ \E cb \in subscription(Head(m.params.args).text.word) :
                    parsePositionalArguments(m.params, <<"string">> \o argTypes(cb)) = {}
         \/ /\ allowSubscribe /\ parseSubscriptionName(m.params)
            /\ \E cb \in subscription(Head(m.params.args).text.word) :
                 \E args \in parsePositionalArguments(m.params, <<"string">> \o argTypes(cb)) :
                   o \in runMethod(SubscriptionArgs(args))
<1> DEFINE cbs == subscription(Head(m.params.args).text.word)
           parsed == UNION {parsePositionalArguments(m.params, <<"string">> \o argTypes(cb)) :
                              cb \in cbs}
<1>1. CASE ~allowSubscribe
  BY Zenon, <1>1 DEF handleSubscribe
<1>2. CASE allowSubscribe /\ ~parseSubscriptionName(m.params)
  BY Zenon, <1>2 DEF handleSubscribe
<1>3. CASE allowSubscribe /\ parseSubscriptionName(m.params)
  <2>1. o \in IF cbs = {} THEN Error("subscription not found")
              ELSE IF parsed = {} THEN Error("invalid params")
              ELSE UNION {runMethod(SubscriptionArgs(args)) : args \in parsed}
    BY Zenon, <1>3 DEF handleSubscribe
  <2>2. CASE cbs = {}
    BY Zenon, <2>1, <2>2
  <2>3. CASE cbs # {} /\ parsed = {}
    <3>1. PICK cb \in cbs : parsePositionalArguments(m.params, <<"string">> \o argTypes(cb)) = {}
      BY Zenon, <2>3
    <3> HIDE DEF parsed
    <3>2. o \in Error("invalid params")
      BY Zenon, <2>1, <2>3
    <3> QED
      BY Zenon, <3>1, <3>2
  <2>4. CASE cbs # {} /\ parsed # {}
    <3>1. PICK args \in parsed : o \in runMethod(SubscriptionArgs(args))
      <4> HIDE DEF parsed, cbs
      <4> QED
        BY Zenon, <2>1, <2>4
    <3> QED
      BY Zenon, <1>3, <3>1
  <2> QED
    BY Zenon, <2>2, <2>3, <2>4
<1> QED
  BY Zenon, <1>1, <1>2, <1>3

LEMMA CallOutcome ==
  ASSUME NEW m, m.method \notin {"*_subscribe", "*_unsubscribe"}, NEW o \in handleCall(m)
  PROVE  \/ o \in Error("method not found") /\ callback(m.method) = {}
         \/ /\ o \in Error("invalid params")
            /\ \E cb \in callback(m.method) : TRUE
            /\ \A cb \in callback(m.method) :
                 parsePositionalArguments(m.params, argTypes(cb)) = {}
         \/ \E cb \in callback(m.method) :
              \E args \in parsePositionalArguments(m.params, argTypes(cb)) : o \in runMethod(args)
<1> DEFINE types == {argTypes(cb) : cb \in callback(m.method)}
           parsed == UNION {parsePositionalArguments(m.params, t) : t \in types}
<1>1. o \in IF types = {} THEN Error("method not found")
            ELSE IF parsed = {} THEN Error("invalid params")
            ELSE UNION {runMethod(args) : args \in parsed}
  BY Zenon DEF handleCall
<1>2. CASE types = {}
  <2>1. callback(m.method) = {}
    BY Zenon, <1>2
  <2> HIDE DEF types
  <2> QED
    BY Zenon, <1>1, <1>2, <2>1
<1>3. CASE types # {} /\ parsed = {}
  <2>1. /\ \E cb \in callback(m.method) : TRUE
        /\ \A cb \in callback(m.method) : parsePositionalArguments(m.params, argTypes(cb)) = {}
    BY Zenon, <1>3
  <2> HIDE DEF types, parsed
  <2> QED
    BY Zenon, <1>1, <1>3, <2>1
<1>4. CASE types # {} /\ parsed # {}
  <2>1. PICK args \in parsed : o \in runMethod(args)
    <3> HIDE DEF types, parsed
    <3> QED
      BY Zenon, <1>1, <1>4
  <2> QED
    BY Zenon, <2>1
<1> QED
  BY Zenon, <1>2, <1>3, <1>4

LEMMA UnsubscribeOutcome ==
  ASSUME NEW m, m.method = "*_unsubscribe", NEW o \in handleCall(m)
  PROVE  o \in Error("invalid params") \/ \E args : o \in runMethod(args)
<1> DEFINE parsed == UNION {parsePositionalArguments(m.params, t) : t \in {<<"string">>}}
<1>1. o \in IF parsed = {} THEN Error("invalid params")
            ELSE UNION {runMethod(args) : args \in parsed}
  BY Zenon DEF handleCall
<1> HIDE DEF parsed
<1> QED
  BY Zenon, <1>1

(* A request is refused as invalid if it has no method or a bad id.        *)
LEMMA InvalidRequest ==
  ASSUME NEW m \in Messages, ~Silent(m), NEW o \in Outcomes(m)
  PROVE  o.kind = "invalid request" <=> (m.method = "" \/ m.id = BadId)
<1>1. CASE isCall(m)
  <2>1. o \in handleCall(m)
    BY Zenon, <1>1 DEF Outcomes
  <2>2. o.kind # "invalid request"
    <3>1. ASSUME NEW k, o \in Error(k) PROVE o.kind = k
      BY Zenon, <3>1, ErrorIs
    <3>2. ASSUME NEW args, o \in runMethod(args) PROVE o.kind \in {"result", "failed"}
      BY Zenon, <3>2, RunIs
    <3>3. CASE m.method = "*_subscribe"
      <4>1. o \in handleSubscribe(m)
        BY Zenon, <2>1, <3>3 DEF handleCall
      <4>2. \/ o \in Error("unsupported") \/ o \in Error("subscription not found")
            \/ o \in Error("invalid params") \/ \E args : o \in runMethod(args)
        BY Zenon, <4>1, SubscribeOutcome
      <4> QED
        BY Zenon, <3>1, <3>2, <4>2
    <3>4. CASE m.method = "*_unsubscribe"
      BY Zenon, <2>1, <3>1, <3>2, <3>4, UnsubscribeOutcome
    <3>5. CASE m.method \notin {"*_subscribe", "*_unsubscribe"}
      <4>1. \/ o \in Error("method not found") \/ o \in Error("invalid params")
            \/ \E args : o \in runMethod(args)
        BY Zenon, <2>1, <3>5, CallOutcome
      <4> QED
        BY Zenon, <3>1, <3>2, <4>1
    <3> QED
      BY Zenon, <3>3, <3>4, <3>5
  <2> QED
    BY Zenon, <1>1, <2>2 DEF isCall, hasValidID
<1>2. CASE ~isCall(m)
  <2>1. ~isNotification(m)
    BY Zenon, Silence
  <2>2. o.kind = "invalid request"
    BY Zenon, <1>2, <2>1, ErrorIs DEF Outcomes
  <2> QED
    BY Zenon, <1>2, <2>1, <2>2 DEF isCall, hasValidID, isNotification
<1> QED
  BY Zenon, <1>1, <1>2

(* What the answers on the wire are.                                       *)
LEMMA OnWire ==
  ASSUME HandlerInv, NEW k \in 1 .. Len(wire), NEW n, n = wire[k].frame,
         NEW f, f = received[n], NEW ans, ans = wire[k].answers
  PROVE  /\ n \in 1 .. Len(received) /\ f \in Frames /\ wire[k] \in Replies
         /\ wire[k].batch <=> f.batch /\ f.msgs # <<>>
         /\ f.msgs = <<>> => ans = <<EmptyBatch>>
         /\ f.msgs # <<>> =>
              AnswersOK(ans, f.msgs) /\ NoneMissing(<<>>, ans, f.msgs, Len(f.msgs))
<1>1. /\ n \in 1 .. Len(received) /\ ~procs[n].running
      /\ Seen(n) = Len(received[n].msgs) /\ ans = procs[n].answers
      /\ wire[k].batch <=> received[n].batch /\ received[n].msgs # <<>>
  BY Zenon DEF HandlerInv, ReplyInv
<1>2. f \in Frames /\ wire[k] \in Replies
  BY <1>1 DEF HandlerInv, HandlerTypes
<1>3. ProcOK(procs[n], f.msgs, Len(f.msgs))
  BY Zenon, <1>1 DEF HandlerInv, ProcsInv
<1> QED
  BY Zenon, <1>1, <1>2, <1>3 DEF ProcOK

(* What RepliesMatch says of the replies is what the invariant knows of    *)
(* the goroutines that wrote them.                                         *)
LEMMA MatchFollows ==
  ASSUME HandlerInv
  PROVE  RepliesMatch
<1>1. \A j, k \in 1 .. Len(wire) : wire[j].frame = wire[k].frame => j = k
  BY Zenon DEF HandlerInv, ReplyInv
<1>2. ASSUME NEW k \in 1 .. Len(wire), NEW f, f = received[wire[k].frame],
             NEW ans, ans = wire[k].answers
      PROVE  Matches(wire[k].batch, ans, f)
  <2>1. /\ f \in Frames /\ wire[k] \in Replies
        /\ wire[k].batch <=> f.batch /\ f.msgs # <<>>
        /\ f.msgs = <<>> => ans = <<EmptyBatch>>
        /\ f.msgs # <<>> =>
             AnswersOK(ans, f.msgs) /\ NoneMissing(<<>>, ans, f.msgs, Len(f.msgs))
    BY Zenon, <1>2, OnWire
  <2>2. CASE f.msgs = <<>>
    <3>1. Len(<<EmptyBatch>>) = 1
      OBVIOUS
    <3> QED
      BY Zenon, <2>1, <2>2, <3>1 DEF Matches
  <2>3. CASE f.msgs # <<>>
    <3>1. wire[k].batch = f.batch
      <4>1. wire[k].batch \in BOOLEAN /\ f.batch \in BOOLEAN
        BY Zenon, <2>1 DEF Frames, Replies
      <4> QED
        BY <2>1, <2>3, <4>1
    <3>2. {ans[i].of : i \in 1 .. Len(ans)} = Expected(f)
      <4>1. \A l \in 1 .. Len(<<>>) : FALSE
        OBVIOUS
      <4>2. ASSUME NEW i \in 1 .. Len(ans) PROVE ans[i].of \in Expected(f)
        BY Zenon, <2>1, <2>3 DEF AnswersOK, Expected
      <4>3. ASSUME NEW i \in Expected(f) PROVE \E l \in 1 .. Len(ans) : ans[l].of = i
        BY Zenon, <2>1, <2>3, <4>1 DEF NoneMissing, Expected
      <4> QED
        BY Zenon, <4>2, <4>3
    <3>3. \A i, j \in 1 .. Len(ans) : i < j => ans[i].of < ans[j].of
      BY Zenon, <2>1, <2>3 DEF AnswersOK
    <3>4. ASSUME NEW i \in 1 .. Len(ans), NEW m, m = f.msgs[ans[i].of]
          PROVE  MatchesMessage(ans[i], m)
      <4>1. /\ ans[i].of \in 1 .. Len(f.msgs) /\ ~Silent(m)
            /\ ans[i] \in AnswerTo(m, ans[i].of)
        BY Zenon, <2>1, <2>3, <3>4 DEF AnswersOK
      <4>2. f.msgs \in Seq(Messages)
        BY Zenon, <2>1 DEF Frames
      <4>3. m \in Messages
        BY <3>4, <4>1, <4>2
      <4>4. PICK o \in Outcomes(m) :
              ans[i] = [id |-> IF hasValidID(m) THEN m.id ELSE NoId,
                        kind |-> o.kind, args |-> o.args, of |-> ans[i].of]
        BY Zenon, <4>1 DEF AnswerTo
      <4>5. ans[i].id = (IF hasValidID(m) THEN m.id ELSE NoId) /\ ans[i].kind = o.kind
        BY <4>4
      <4>6. hasValidID(m) <=> m.id > 0
        <5>1. m.id \in Nat \cup {BadId}
          BY Zenon, <4>3, HandlerAssumptions
        <5> QED
          BY <5>1 DEF hasValidID, NoId, BadId
      <4>7. o.kind = "invalid request" <=> (m.method = "" \/ m.id = BadId)
        BY Zenon, <4>1, <4>3, InvalidRequest
      <4> QED
        BY Zenon, <4>5, <4>6, <4>7 DEF MatchesMessage
    <3> QED
      BY Zenon, <2>3, <3>1, <3>2, <3>3, <3>4 DEF Matches
  <2> QED
    BY Zenon, <2>2, <2>3
<1>3. \A j, k \in 1 .. Len(immediate) :
        j < k => \/ immediate[j].frame < immediate[k].frame
                 \/ immediate[j].frame = immediate[k].frame /\ immediate[j].at < immediate[k].at
  BY Zenon DEF HandlerInv, ImmediateInv
<1> DEFINE Sent(n) == {h \in 1 .. Len(received[n].msgs) :
                         LookedAt(n, h) /\ HandedOn(received[n].msgs[h])}
           All == UNION {{[frame |-> n, at |-> i] : i \in Sent(n)} : n \in 1 .. Len(received)}
<1>4. ASSUME NEW n \in 1 .. Len(received), NEW i
      PROVE  i \in Sent(n) <=> i \in 1 .. Seen(n) /\ handleImmediate(received[n].msgs[i])
  <2>1. /\ received[n] \in Frames /\ looked \in Nat
        /\ Seen(n) \in 0 .. Len(received[n].msgs)
    BY DEF HandlerInv, HandlerTypes
  <2>2. received[n].msgs \in Seq(Messages)
    BY Zenon, <2>1 DEF Frames
  <2>3. /\ \A h \in 1 .. Len(received[n].msgs) : received[n].msgs[h] \in Messages
        /\ Len(received[n].msgs) \in Nat
    BY <2>2
  <2>4. \A h : h \in 1 .. Seen(n) <=> h \in 1 .. Len(received[n].msgs) /\ LookedAt(n, h)
    BY <2>1, <2>3 DEF Seen, LookedAt
  <2> QED
    BY Zenon, <2>3, <2>4, Silence
<1>5. {immediate[k] : k \in 1 .. Len(immediate)} = All
  <2> HIDE DEF Sent
  <2>1. ASSUME NEW k \in 1 .. Len(immediate) PROVE immediate[k] \in All
    <3>1. PICK n, i : n = immediate[k].frame /\ i = immediate[k].at
      BY Zenon
    <3>2. /\ n \in 1 .. Len(received) /\ i \in 1 .. Seen(n)
          /\ handleImmediate(received[n].msgs[i])
      BY Zenon, <3>1 DEF HandlerInv, ImmediateInv
    <3>3. i \in Sent(n)
      BY Zenon, <1>4, <3>2
    <3>4. immediate[k] = [frame |-> n, at |-> i]
      <4>1. immediate[k] \in Places
        BY DEF HandlerInv, HandlerTypes
      <4> QED
        BY <3>1, <4>1 DEF Places
    <3>5. [frame |-> n, at |-> i] \in {[frame |-> n, at |-> h] : h \in Sent(n)}
      BY Zenon, <3>3
    <3>6. [frame |-> n, at |-> i] \in All
      BY Zenon, <3>2, <3>5
    <3> QED
      BY Zenon, <3>4, <3>6
  <2>2. ASSUME NEW x \in All PROVE \E k \in 1 .. Len(immediate) : immediate[k] = x
    <3>1. PICK n \in 1 .. Len(received) : \E i \in Sent(n) : x = [frame |-> n, at |-> i]
      BY Zenon
    <3>2. PICK i \in Sent(n) : x = [frame |-> n, at |-> i]
      BY Zenon, <3>1
    <3>a. i \in 1 .. Seen(n) /\ handleImmediate(received[n].msgs[i])
      BY Zenon, <1>4
    <3>3. PICK k \in 1 .. Len(immediate) : immediate[k].frame = n /\ immediate[k].at = i
      BY ZenonT(30), <3>a DEF HandlerInv, ImmediateInv
    <3>4. immediate[k] = x
      <4>1. immediate[k] \in Places
        BY DEF HandlerInv, HandlerTypes
      <4> QED
        BY <3>2, <3>3, <4>1 DEF Places
    <3> QED
      BY Zenon, <3>4
  <2> HIDE DEF All
  <2> QED
    BY Zenon, <2>1, <2>2
<1>6. \A k \in 1 .. Len(wire) : Matches(wire[k].batch, wire[k].answers, received[wire[k].frame])
  BY Zenon, <1>2
<1> QED
  BY Zenon, <1>1, <1>3, <1>5, <1>6 DEF RepliesMatch

(* RepliesMatch, for all methods, messages and sessions: no frame is       *)
(* replied to twice, each reply answers the requests of its frame in their *)
(* order and under their ids, and the rest is handed on in the order it    *)
(* was read.                                                               *)
THEOREM RepliesMatchRequests == HandlerSpec => []RepliesMatch
  BY HandlerInvariant, MatchFollows, PTL

-----------------------------------------------------------------------------
(* The conversion of an int64 to a uint64 adds 2^64 to the negative ones.  *)
LEMMA Wraps ==
  ASSUME NEW bn \in BlockNumbers
  PROVE  /\ bn >= 0 => uint64(bn) = bn
         /\ bn < 0 => uint64(bn) = bn + MaxUint64 + 1
<1> DEFINE M == MaxUint64 + 1
<1>1. /\ MaxInt64 \in Nat /\ MaxInt64 # 0 /\ M \in Nat /\ M > 0 /\ bn \in Int
      /\ -M < bn /\ bn < M
  BY WidthAssumption DEF MaxUint64, BlockNumbers
<1> HIDE DEF M
<1>2. bn >= 0 => bn % M = bn
  BY <1>1
<1>3. bn < 0 => bn % M = bn + M
  BY <1>1
<1> QED
  BY <1>1, <1>2, <1>3, WidthAssumption DEF uint64, M, MaxUint64

(* What MarshalText writes for a block number is read as that number; but  *)
(* a negative one that is no tag is written as a number that is refused.   *)
LEMMA TextNumber ==
  ASSUME NEW bn \in BlockNumbers
  PROVE  NumberOf(MarshalText(bn)) = IF bn >= PendingBlockNumber THEN {bn} ELSE {}
<1> USE DEF PendingBlockNumber, LatestBlockNumber, EarliestBlockNumber
<1>1. bn \in Int
  BY WidthAssumption DEF BlockNumbers
<1>2. CASE bn \in {0, -1, -2}
  BY SMTT(30), <1>2 DEF MarshalText, NumberOf, Word
<1>3. CASE bn \notin {0, -1, -2}
  <2>1. MarshalText(bn) = Hex(uint64(bn))
    BY <1>3 DEF MarshalText
  <2>2. NumberOf(Hex(uint64(bn))) = {n \in DecodeUint64(Hex(uint64(bn))) : n <= MaxInt64}
    BY Zenon DEF NumberOf, Word, Hex
  <2>3. DecodeUint64(Hex(uint64(bn))) = IF uint64(bn) <= MaxUint64 THEN {uint64(bn)} ELSE {}
    BY DEF DecodeUint64, Hex
  <2>4. CASE bn > 0
    BY <1>1, <2>1, <2>2, <2>3, <2>4, Wraps, WidthAssumption DEF BlockNumbers, MaxUint64
  <2>5. CASE bn < -2
    BY <1>1, <2>1, <2>2, <2>3, <2>5, Wraps, WidthAssumption DEF BlockNumbers, MaxUint64
  <2> QED
    BY <1>1, <1>3, <2>4, <2>5
<1> QED
  BY <1>2, <1>3

(* The parts of JSON values and texts.                                     *)
LEMMA StringIs ==
  ASSUME NEW t
  PROVE  String(t).json = "string" /\ String(t).text = t
  BY DEF String, JSON

LEMMA NullIs == Null.json = "null" /\ Null.text.n = 0 /\ Null.members = << >>
  BY DEF JSON, Null, Word

LEMMA DecIs ==
  ASSUME NEW n
  PROVE  Dec(n).form = "dec" /\ Dec(n).n = n
  BY DEF Dec

LEMMA HexIs ==
  ASSUME NEW n
  PROVE  Hex(n).form = "hex" /\ Hex(n).n = n
  BY DEF Hex

LEMMA HashIs ==
  ASSUME NEW n
  PROVE  Hash(n).form = "hash" /\ Hash(n).n = n
  BY DEF Hash

(* MarshalText never writes a hash.                                        *)
LEMMA TextForm ==
  ASSUME NEW bn
  PROVE  MarshalText(bn).form # "hash"
  BY DEF MarshalText, Word, Hex

(* A BlockNumber that decodes is the one that was written.                 *)
LEMMA BlockNumberArrives ==
  ASSUME NEW v, NEW x \in UnmarshalBlockNumber(v), NEW bn \in BlockNumbers,
         v = String(MarshalText(bn))
  PROVE  x = bn
<1>1. x \in NumberOf(MarshalText(bn))
  BY Zenon, StringIs DEF UnmarshalBlockNumber
<1> QED
  BY Zenon, <1>1, TextNumber

(* So is a DecimalOrHex, in decimal or in hexadecimal.                     *)
LEMMA DecimalOrHexArrives ==
  ASSUME NEW v, NEW x \in UnmarshalDecimalOrHex(v), NEW n \in 0 .. MaxUint64,
         v.text \in {Dec(n), Hex(n)}
  PROVE  x = n
<1>1. n <= MaxUint64
  BY WidthAssumption DEF MaxUint64
<1>2. CASE v.text = Dec(n)
  <2>1. ParseUint(v.text) = {n}
    BY Zenon, <1>2, DecIs DEF ParseUint
  <2> QED
    BY Zenon, <2>1 DEF UnmarshalDecimalOrHex
<1>3. CASE v.text = Hex(n)
  <2>1. ParseUint(v.text) = {}
    BY Zenon, <1>3, HexIs DEF ParseUint
  <2>2. DecodeUint64(v.text) = {n}
    BY Zenon, <1>1, <1>3, HexIs DEF DecodeUint64
  <2> QED
    BY Zenon, <2>1, <2>2 DEF UnmarshalDecimalOrHex
<1> QED
  BY Zenon, <1>2, <1>3

(* What BlockNumberOrHash decodes to, in each of the ways it is written.   *)
LEMMA NumberStringArrives ==
  ASSUME NEW v, NEW x \in UnmarshalBlockNumberOrHash(v), NEW bn \in BlockNumbers,
         v = String(MarshalText(bn))
  PROVE  x = BlockNumberOrHashWithNumber(bn)
<1>1. v.json = "string" /\ v.text = MarshalText(bn)
  BY Zenon, StringIs
<1>2. Erased(v) = {}
  <2>1. v.json \notin {"null", "object"}
    BY <1>1
  <2> QED
    BY <2>1 DEF Erased
<1>3. x \in {BlockNumberOrHashWithNumber(n) : n \in NumberOf(v.text)}
  BY Zenon, <1>1, <1>2, TextForm DEF UnmarshalBlockNumberOrHash
<1>4. PICK n \in NumberOf(MarshalText(bn)) : x = BlockNumberOrHashWithNumber(n)
  BY Zenon, <1>1, <1>3
<1> QED
  BY Zenon, <1>4, TextNumber

(* A BlockNumberOrHash that decodes is not both, and is the one that       *)
(* json.Marshal was given.                                                 *)
LEMMA OneOfThem ==
  ASSUME NEW v, NEW x \in UnmarshalBlockNumberOrHash(v)
  PROVE  x.BlockNumber = {} \/ x.BlockHash = {}
<1>1. CASE Erased(v) # {}
  BY Zenon, <1>1 DEF UnmarshalBlockNumberOrHash
<1>2. CASE Erased(v) = {} /\ v.text.form = "hash"
  <2>1. x = BlockNumberOrHashWithHash(v.text.n, FALSE)
    BY Zenon, <1>2 DEF UnmarshalBlockNumberOrHash
  <2> QED
    BY <2>1 DEF BlockNumberOrHashWithHash, BlockNumberOrHash
<1>3. CASE Erased(v) = {} /\ v.text.form # "hash"
  <2>1. PICK n \in NumberOf(v.text) : x = BlockNumberOrHashWithNumber(n)
    BY Zenon, <1>3 DEF UnmarshalBlockNumberOrHash
  <2> QED
    BY <2>1 DEF BlockNumberOrHashWithNumber, BlockNumberOrHash
<1> QED
  BY Zenon, <1>1, <1>2, <1>3

LEMMA ObjectArrives ==
  ASSUME NEW v, NEW x \in UnmarshalBlockNumberOrHash(v), NEW b \in BlockNumberOrHashes,
         v = MarshalBlockNumberOrHash(b)
  PROVE  x = b
<1>1. PICK N \in {{}} \cup {{bn} : bn \in BlockNumbers}, H \in {{}} \cup {{h} : h \in Hashes},
           c \in BOOLEAN : b = BlockNumberOrHash(N, H, c)
  BY DEF BlockNumberOrHashes
<1>2. b.BlockNumber = N /\ b.BlockHash = H /\ (b.RequireCanonical <=> c)
  BY <1>1 DEF BlockNumberOrHash
<1> DEFINE keys == (IF b.BlockNumber # {} THEN {"blockNumber"} ELSE {})
                   \cup (IF b.BlockHash # {} THEN {"blockHash"} ELSE {})
                   \cup (IF b.RequireCanonical THEN {"requireCanonical"} ELSE {})
           ms == v.members
<1>3. /\ v.json = "object"
      /\ ms = [k \in keys |->
                 CASE k = "blockNumber" -> String(MarshalText(CHOOSE n \in b.BlockNumber : TRUE))
                   [] k = "blockHash" -> String(Hash(CHOOSE h \in b.BlockHash : TRUE))
                   [] OTHER -> Yes]
  <2> DEFINE fields == [k \in keys |->
                 CASE k = "blockNumber" -> String(MarshalText(CHOOSE n \in b.BlockNumber : TRUE))
                   [] k = "blockHash" -> String(Hash(CHOOSE h \in b.BlockHash : TRUE))
                   [] OTHER -> Yes]
         w == Word("{}")
  <2>1. v = JSON("object", w, fields)
    BY Zenon DEF MarshalBlockNumberOrHash, Object
  <2> HIDE DEF fields, w
  <2>a. JSON("object", w, fields).json = "object" /\ JSON("object", w, fields).members = fields
    BY DEF JSON
  <2>2. v.json = "object" /\ ms = fields
    BY Zenon, <2>1, <2>a DEF ms
  <2> QED
    BY Zenon, <2>2 DEF fields
<1>4. /\ "blockNumber" \in keys <=> N # {}
      /\ "blockHash" \in keys <=> H # {}
      /\ "requireCanonical" \in keys <=> c
  BY <1>2
<1>5. /\ DOMAIN ms = keys
      /\ "blockNumber" \in keys => ms["blockNumber"] = String(MarshalText(CHOOSE n \in N : TRUE))
      /\ "blockHash" \in keys => ms["blockHash"] = String(Hash(CHOOSE h \in H : TRUE))
  <2> HIDE DEF keys
  <2> QED
    BY <1>2, <1>3
<1> HIDE DEF keys, ms
<1>6. ASSUME NEW t PROVE String(t) # Null
  BY Zenon, StringIs, NullIs
<1>7. PICK n, h :
        /\ n \in Pointer(Member(v, "blockNumber"), UnmarshalBlockNumber(Member(v, "blockNumber")))
        /\ h \in Pointer(Member(v, "blockHash"), UnmarshalHash(Member(v, "blockHash")))
        /\ x = BlockNumberOrHash(n, h, "requireCanonical" \in DOMAIN v.members)
  <2>1. x \in Erased(v)
    BY Zenon, <1>3 DEF UnmarshalBlockNumberOrHash
  <2> QED
    BY <1>3, <2>1 DEF Erased
<1>8. n = N
  <2>1. CASE N = {}
    <3>1. Member(v, "blockNumber") = Null
      BY Zenon, <1>4, <1>5, <2>1 DEF Member, ms
    <3> QED
      BY Zenon, <1>7, <2>1, <3>1 DEF Pointer
  <2>2. CASE N # {}
    <3>1. PICK bn \in BlockNumbers : N = {bn}
      BY Zenon, <2>2
    <3>2. (CHOOSE y \in N : TRUE) = bn
      BY <3>1
    <3>3. Member(v, "blockNumber") = String(MarshalText(bn))
      BY Zenon, <1>4, <1>5, <2>2, <3>2 DEF Member, ms
    <3>4. PICK y \in UnmarshalBlockNumber(String(MarshalText(bn))) : n = {y}
      BY Zenon, <1>6, <1>7, <3>3 DEF Pointer
    <3> QED
      BY Zenon, <3>1, <3>4, BlockNumberArrives
  <2> QED
    BY Zenon, <2>1, <2>2
<1>9. h = H
  <2>1. CASE H = {}
    <3>1. Member(v, "blockHash") = Null
      BY Zenon, <1>4, <1>5, <2>1 DEF Member, ms
    <3> QED
      BY Zenon, <1>7, <2>1, <3>1 DEF Pointer
  <2>2. CASE H # {}
    <3>1. PICK g \in Hashes : H = {g}
      BY Zenon, <2>2
    <3>2. (CHOOSE y \in H : TRUE) = g
      BY <3>1
    <3>3. Member(v, "blockHash") = String(Hash(g))
      BY Zenon, <1>4, <1>5, <2>2, <3>2 DEF Member, ms
    <3>4. PICK y \in UnmarshalHash(String(Hash(g))) : h = {y}
      BY Zenon, <1>6, <1>7, <3>3 DEF Pointer
    <3>5. y = g
      <4>1. String(Hash(g)).text.n = g
        BY ZenonT(30), StringIs, HashIs
      <4> QED
        BY Zenon, <4>1 DEF UnmarshalHash
    <3> QED
      BY Zenon, <3>1, <3>4, <3>5
  <2> QED
    BY Zenon, <2>1, <2>2
<1>10. ("requireCanonical" \in DOMAIN v.members) = c
  BY <1>4, <1>5 DEF ms
<1> QED
  BY Zenon, <1>1, <1>7, <1>8, <1>9, <1>10


(* What an argument decodes to is what was meant by it.                    *)
LEMMA Decoded ==
  ASSUME NEW v \in Values, NEW t, NEW x \in Decode(v, t)
  PROVE  Meant(v, t, x)
<1>1. CASE t = "BlockNumber"
  <2>1. x \in UnmarshalBlockNumber(v)
    BY Zenon, <1>1 DEF Decode
  <2>2. \A bn \in BlockNumbers : v = String(MarshalText(bn)) => x = bn
    BY Zenon, <2>1, BlockNumberArrives
  <2> QED
    BY Zenon, <1>1, <2>2 DEF Meant
<1>2. CASE t = "BlockNumberOrHash"
  <2>1. x \in UnmarshalBlockNumberOrHash(v)
    BY Zenon, <1>2 DEF Decode
  <2>2. x.BlockNumber = {} \/ x.BlockHash = {}
    BY Zenon, <2>1, OneOfThem
  <2>3. \A bn \in BlockNumbers :
          v = String(MarshalText(bn)) => x = BlockNumberOrHashWithNumber(bn)
    BY Zenon, <2>1, NumberStringArrives
  <2>4. \A b \in BlockNumberOrHashes : v = MarshalBlockNumberOrHash(b) => x = b
    BY Zenon, <2>1, ObjectArrives
  <2> QED
    BY Zenon, <1>2, <2>2, <2>3, <2>4 DEF Meant
<1>3. CASE t = "DecimalOrHex"
  <2>1. x \in UnmarshalDecimalOrHex(v)
    BY Zenon, <1>3 DEF Decode
  <2>2. \A n \in 0 .. MaxUint64 : v.text \in {Dec(n), Hex(n)} => x = n
    BY Zenon, <2>1, DecimalOrHexArrives
  <2> QED
    BY Zenon, <1>3, <2>2 DEF Meant
<1>a. ASSUME v.json \in {"number", "null"}
      PROVE  v = Number(v.text.n) \/ (v = Null /\ v.text.n = 0)
  <2>1. (v.json = "null" => v = Null) /\ (v.json = "number" => v = Number(v.text.n))
    BY Zenon, HandlerAssumptions
  <2> QED
    BY Zenon, <1>a, <2>1, NullIs
<1>4. CASE t = "int"
  <2>1. v.json \in {"number", "null"} /\ x = v.text.n
    BY <1>4 DEF Decode
  <2> QED
    BY Zenon, <1>4, <1>a, <2>1 DEF Meant
<1>5. CASE t = "ptr"
  <2>1. v.json \in {"number", "null"} /\ x = IF v = Null THEN nil ELSE {v.text.n}
    BY <1>5 DEF Decode
  <2>2. (v = Null /\ x = nil) \/ \E n \in x : v = Number(n)
    BY Zenon, <1>a, <2>1
  <2> QED
    BY Zenon, <1>5, <2>2 DEF Meant
<1>6. CASE t \notin {"BlockNumber", "BlockNumberOrHash", "DecimalOrHex", "int", "ptr"}
  BY <1>6 DEF Meant
<1> QED
  BY Zenon, <1>1, <1>2, <1>3, <1>4, <1>5, <1>6

(* Exactly the tags and the numbers that are not negative decode.          *)
LEMMA TextDecodes ==
  ASSUME NEW bn \in BlockNumbers
  PROVE  Decode(String(MarshalText(bn)), "BlockNumber") # {} <=> bn >= PendingBlockNumber
<1>1. Decode(String(MarshalText(bn)), "BlockNumber") = NumberOf(MarshalText(bn))
  BY Zenon, StringIs DEF Decode, UnmarshalBlockNumber
<1>2. NumberOf(MarshalText(bn)) = IF bn >= PendingBlockNumber THEN {bn} ELSE {}
  BY Zenon, TextNumber
<1> QED
  BY Zenon, <1>1, <1>2

-----------------------------------------------------------------------------
(* Positional arguments.                                                   *)

(* What a type is written as: a string.  The provers do not know that      *)
(* "string" is one.                                                        *)
Types == STRING \cup {"string"}

(* The values of a sequence are in its set.                                *)
LEMMA ElementOf ==
  ASSUME NEW S, NEW c \in Seq(S), NEW i \in 1 .. Len(c)
  PROVE  c[i] \in S
  OBVIOUS

(* A sequence over a set is one over a larger set.                         *)
LEMMA WiderSeq ==
  ASSUME NEW S, NEW T, S \subseteq T, NEW c \in Seq(S)
  PROVE  c \in Seq(T)
  OBVIOUS

(* What is left of a sequence without its head.                            *)
LEMMA TailIs ==
  ASSUME NEW S, NEW c \in Seq(S), c # <<>>
  PROVE  /\ Tail(c) \in Seq(S) /\ Len(Tail(c)) = Len(c) - 1
         /\ \A i \in 1 .. Len(Tail(c)) : Tail(c)[i] = c[i + 1]
  OBVIOUS

(* The types of a method's arguments are those of its parameters, without  *)
(* the context in front.                                                   *)
LEMMA TypesOf ==
  ASSUME NEW p \in Methods
  PROVE  /\ Context(p) \in {0, 1} /\ p.in \in Seq(Types)
         /\ argTypes(p) \in Seq(Types) /\ Len(argTypes(p)) = Len(p.in) - Context(p)
         /\ \A i \in 1 .. Len(argTypes(p)) : argTypes(p)[i] = p.in[i + Context(p)]
         /\ hasCtx(p) <=> Context(p) = 1
<1>1. p.in \in Seq(Types)
  <2>1. p.in \in Seq(STRING)
    BY Zenon, HandlerAssumptions
  <2>2. STRING \subseteq Types
    BY Zenon DEF Types
  <2> QED
    BY Zenon, <2>1, <2>2, WiderSeq
<1>2. p.in # <<>> <=> Len(p.in) > 0
  BY <1>1
<1>3. p.in # <<>> => Head(p.in) = p.in[1]
  BY <1>1
<1>4. hasCtx(p) <=> Context(p) = 1
  BY <1>2, <1>3 DEF hasCtx, Context
<1>5. Context(p) \in {0, 1}
  BY Zenon DEF Context
<1>6. CASE hasCtx(p)
  <2>1. p.in # <<>> /\ argTypes(p) = Tail(p.in) /\ Context(p) = 1
    BY Zenon, <1>4, <1>6 DEF hasCtx, argTypes
  <2>2. /\ Tail(p.in) \in Seq(Types) /\ Len(Tail(p.in)) = Len(p.in) - 1
        /\ \A i \in 1 .. Len(Tail(p.in)) : Tail(p.in)[i] = p.in[i + 1]
    BY Zenon, <1>1, <2>1, TailIs
  <2> QED
    BY Zenon, <1>1, <1>4, <1>5, <2>1, <2>2
<1>7. CASE ~hasCtx(p)
  <2>1. argTypes(p) = p.in /\ Context(p) = 0
    BY Zenon, <1>4, <1>5, <1>7 DEF argTypes
  <2> QED
    BY <1>1, <1>4, <1>5, <2>1
<1> QED
  BY Zenon, <1>6, <1>7

(* What newCallback accepts is what doc.go describes.                      *)
LEMMA AvailableIs ==
  ASSUME NEW p \in Methods
  PROVE  p \in callback(p.name) <=> Available(p)
<1> DEFINE Outs == {<<>>, <<"err">>} \cup UNION {{<<r>>, <<r, "err">>} : r \in {"val", "sub"}}
<1>1. p.out \in Seq({"val", "err", "sub"})
  BY Zenon, HandlerAssumptions
<1>2. newCallback(p) <=> p.out \in Outs
  <2>1. \A x : x \in Outs <=> \/ x = <<>> \/ x = <<"err">> \/ x = <<"val">> \/ x = <<"sub">>
                              \/ x = <<"val", "err">> \/ x = <<"sub", "err">>
    BY SMT
  <2> HIDE DEF Outs
  <2>2. ASSUME p.out \in Outs PROVE newCallback(p)
    <3>1. \/ p.out = <<>> \/ p.out = <<"err">> \/ p.out = <<"val">> \/ p.out = <<"sub">>
          \/ p.out = <<"val", "err">> \/ p.out = <<"sub", "err">>
      BY Zenon, <2>1, <2>2
    <3>2. /\ Len(<<>>) = 0 /\ Len(<<"err">>) = 1 /\ Len(<<"val">>) = 1 /\ Len(<<"sub">>) = 1
          /\ 0 < 2 /\ 1 < 2
      OBVIOUS
    <3>3. CASE p.out = <<"val", "err">> \/ p.out = <<"sub", "err">>
      <4>1. \A x : /\ Len(<<x, "err">>) = 2 /\ <<x, "err">>[1] = x
                   /\ <<x, "err">>[2] = "err"
        BY SMT
      <4>2. PICK x \in {"val", "sub"} : p.out = <<x, "err">>
        BY Zenon, <3>3
      <4>3. x # "err"
        BY Zenon
      <4>4. Len(p.out) = 2 /\ p.out[1] = x /\ p.out[2] = "err"
        BY Zenon, <4>1, <4>2
      <4> QED
        BY Zenon, <4>3, <4>4 DEF newCallback
    <3> QED
      BY Zenon, <3>1, <3>2, <3>3 DEF newCallback
  <2>3. ASSUME newCallback(p) PROVE p.out \in Outs
    <3>1. CASE Len(p.out) = 0
      <4>1. p.out = <<>>
        BY <1>1, <3>1
      <4> QED
        BY Zenon, <2>1, <4>1
    <3>2. CASE Len(p.out) = 1
      <4>1. p.out = <<p.out[1]>> /\ p.out[1] \in {"val", "err", "sub"}
        BY <1>1, <3>2
      <4> QED
        BY Zenon, <2>1, <4>1
    <3>3. CASE Len(p.out) = 2
      <4>1. p.out = <<p.out[1], p.out[2]>> /\ p.out[1] \in {"val", "err", "sub"}
        BY <1>1, <3>3
      <4>2. p.out[1] # "err" /\ p.out[2] = "err"
        BY <2>3, <3>3 DEF newCallback
      <4>3. p.out = <<"val", "err">> \/ p.out = <<"sub", "err">>
        BY Zenon, <4>1, <4>2
      <4> QED
        BY Zenon, <2>1, <4>3
    <3>4. Len(p.out) \in {0, 1, 2}
      <4>1. Len(p.out) \in Nat
        BY <1>1
      <4>2. Len(p.out) < 2 \/ Len(p.out) = 2
        BY Zenon, <2>3 DEF newCallback
      <4>3. \A n \in Nat : (n < 2 \/ n = 2) => n \in {0, 1, 2}
        OBVIOUS
      <4> QED
        BY Zenon, <4>1, <4>2, <4>3
    <3> QED
      BY Zenon, <3>1, <3>2, <3>3, <3>4
  <2> QED
    BY Zenon, <2>2, <2>3
<1>3. isPubSub(p) <=> ForSubscribe(p)
  BY Zenon, TypesOf DEF isPubSub, ForSubscribe
<1> HIDE DEF Outs
<1>4. Available(p) <=> p.exported /\ p.out \in Outs /\ ~ForSubscribe(p)
  BY Zenon DEF Available, Outs
<1> QED
  BY Zenon, <1>2, <1>3, <1>4 DEF callback, suitableCallbacks

(* Arguments can be parsed as types, and args is what they are parsed to.  *)
CanParse(given, types) ==
  /\ Len(given) <= Len(types)
  /\ \A i \in 1 .. Len(types) :
       IF i <= Len(given) THEN Decode(given[i], types[i]) # {} ELSE types[i] = "ptr"
ParsedTo(args, given, types) ==
  /\ Len(args) = Len(types)
  /\ \A i \in 1 .. Len(types) :
       IF i <= Len(given) THEN args[i] \in Decode(given[i], types[i]) ELSE args[i] = nil

Pad(a, k) == a \o [i \in 1 .. k |-> nil]

(* nil is what is added, at the end.                                       *)
LEMMA Padded ==
  ASSUME NEW S, NEW a \in Seq(S), NEW k \in Nat, nil \in S
  PROVE  /\ Pad(a, k) \in Seq(S) /\ Len(Pad(a, k)) = Len(a) + k
         /\ \A i \in 1 .. Len(a) + k : Pad(a, k)[i] = IF i <= Len(a) THEN a[i] ELSE nil
<1> DEFINE c == [i \in 1 .. k |-> nil]
<1>1. c \in Seq(S) /\ Len(c) = k /\ \A i \in 1 .. k : c[i] = nil
  <2> USE DEF nil
  <2> QED
    OBVIOUS
<1> HIDE DEF c
<1>2. /\ a \o c \in Seq(S) /\ Len(a \o c) = Len(a) + Len(c)
      /\ \A i \in 1 .. Len(a \o c) : (a \o c)[i] = IF i <= Len(a) THEN a[i] ELSE c[i - Len(a)]
  BY <1>1
<1>3. \A i \in 1 .. Len(a) + k : (a \o c)[i] = IF i <= Len(a) THEN a[i] ELSE nil
  BY <1>1, <1>2
<1>4. Pad(a, k) = a \o c
  BY Zenon DEF Pad, c
<1> QED
  BY Zenon, <1>1, <1>2, <1>3, <1>4

(* What was decoded, completed with nil, is what the arguments are parsed  *)
(* to.                                                                     *)
LEMMA Completed ==
  ASSUME NEW S, NEW a \in Seq(S), NEW given \in Seq(Values), NEW types \in Seq(Types),
         nil \in S, Len(a) = Len(given), Len(given) <= Len(types),
         \A i \in 1 .. Len(given) : a[i] \in Decode(given[i], types[i])
  PROVE  LET w == Pad(a, Len(types) - Len(a))
         IN ParsedTo(w, given, types) /\ w \in Seq(S)
<1>1. PICK k : k = Len(types) - Len(a)
  BY Zenon
<1>2. k \in Nat /\ Len(a) + k = Len(types)
  BY <1>1
<1>3. PICK w : w = Pad(a, k)
  BY Zenon
<1>4. /\ w \in Seq(S) /\ Len(w) = Len(types)
      /\ \A i \in 1 .. Len(types) : w[i] = IF i <= Len(a) THEN a[i] ELSE nil
  BY Zenon, <1>2, <1>3, Padded
<1>5. \A i \in 1 .. Len(types) : i <= Len(given) => i \in 1 .. Len(given)
  OBVIOUS
<1>6. ASSUME NEW i \in 1 .. Len(types)
      PROVE  IF i <= Len(given) THEN w[i] \in Decode(given[i], types[i]) ELSE w[i] = nil
  BY Zenon, <1>4, <1>5
<1>7. ParsedTo(w, given, types) /\ w \in Seq(S)
  BY Zenon, <1>4, <1>6 DEF ParsedTo
<1> QED
  BY Zenon, <1>1, <1>3, <1>7

(* parsePositionalArguments succeeds just when the arguments can be parsed *)
(* and are no object, and then yields what they are parsed to.             *)
LEMMA Parsing ==
  ASSUME NEW params, params.args \in Seq(Values), NEW types \in Seq(Types)
  PROVE  /\ parsePositionalArguments(params, types) # {} <=>
              params.kind # "other" /\ CanParse(params.args, types)
         /\ \A args \in parsePositionalArguments(params, types) :
              ParsedTo(args, params.args, types) /\ \E S : args \in Seq(S)
<1> DEFINE given == params.args
           First(i) == CHOOSE x \in Decode(given[i], types[i]) : TRUE
           a == [i \in 1 .. Len(given) |-> First(i)]
           fits == /\ Len(given) <= Len(types)
                   /\ \A i \in 1 .. Len(given) : Decode(given[i], types[i]) # {}
           rest == \A i \in Len(given) + 1 .. Len(types) : types[i] = "ptr"
           S == {First(i) : i \in 1 .. Len(given)} \cup {nil}
           whole == Pad(a, Len(types) - Len(a))
<1>1. Len(given) \in Nat /\ Len(types) \in Nat
  OBVIOUS
<1>2. /\ a \in Seq(S) /\ Len(a) = Len(given)
      /\ \A i \in 1 .. Len(given) : a[i] = First(i)
  <2>1. \A i \in 1 .. Len(given) : First(i) \in S
    BY Zenon
  <2> HIDE DEF First, S
  <2> QED
    BY <1>1, <2>1
<1>3. parseArgumentArray(given, types) = IF fits THEN {a} ELSE {}
  BY Zenon DEF parseArgumentArray
<1>4. CanParse(given, types) <=> fits /\ rest
  <2>1. \A i : /\ i \in 1 .. Len(types) /\ i <= Len(given) => i \in 1 .. Len(given)
               /\ i \in 1 .. Len(types) /\ ~(i <= Len(given)) => i \in Len(given) + 1 .. Len(types)
               /\ i \in 1 .. Len(given) /\ Len(given) <= Len(types)
                    => i \in 1 .. Len(types) /\ i <= Len(given)
               /\ i \in Len(given) + 1 .. Len(types) => i \in 1 .. Len(types) /\ ~(i <= Len(given))
    BY <1>1
  <2> QED
    BY Zenon, <2>1 DEF CanParse
<1>5. parsePositionalArguments(params, types) =
        IF fits /\ rest /\ params.kind # "other" THEN {whole} ELSE {}
  <2> HIDE DEF fits, a
  <2>1. CASE fits
    <3>1. parsePositionalArguments(params, types) =
            {Pad(b, Len(types) - Len(b)) :
               b \in {x \in {a} : params.kind # "other"
                                  /\ \A i \in Len(x) + 1 .. Len(types) : types[i] = "ptr"}}
      BY Zenon, <1>3, <2>1 DEF parsePositionalArguments, Pad
    <3>2. (\A i \in Len(a) + 1 .. Len(types) : types[i] = "ptr") <=> rest
      BY Zenon, <1>2
    <3>3. parsePositionalArguments(params, types) =
            IF rest /\ params.kind # "other" THEN {whole} ELSE {}
      BY Zenon, <3>1, <3>2
    <3> QED
      BY Zenon, <2>1, <3>3
  <2>2. CASE ~fits
    BY Zenon, <1>3, <2>2 DEF parsePositionalArguments
  <2> QED
    BY Zenon, <2>1, <2>2
<1>6. ASSUME fits
      PROVE  ParsedTo(whole, given, types) /\ whole \in Seq(S)
  <2>1. Len(given) <= Len(types)
    BY Zenon, <1>6
  <2>2. nil \in S
    BY Zenon
  <2>3. ASSUME NEW i \in 1 .. Len(given) PROVE First(i) \in Decode(given[i], types[i])
    BY Zenon, <1>6
  <2> HIDE DEF a, S, First
  <2>4. \A i \in 1 .. Len(given) : a[i] \in Decode(given[i], types[i])
    BY Zenon, <1>2, <2>3
  <2> HIDE DEF given, fits, rest
  <2>5. given \in Seq(Values)
    BY Zenon DEF given
  <2> QED
    BY Zenon, <1>2, <2>1, <2>2, <2>4, <2>5, Completed
<1> HIDE DEF fits, rest, whole, S
<1> QED
  BY Zenon, <1>4, <1>5, <1>6

-----------------------------------------------------------------------------
(* What runs.                                                              *)

(* The types of a method's arguments by their places.                      *)
LEMMA PlacesOfTypes ==
  ASSUME NEW p \in Methods, NEW given \in Seq(Values)
  PROVE  \A i \in 1 .. Len(p.in) - Context(p) :
           /\ argTypes(p)[i] = p.in[i + Context(p)] /\ i \in 1 .. Len(argTypes(p))
           /\ i > Len(given) <=> ~(i <= Len(given))
           /\ i <= Len(given) => given[i] \in Values
<1>1. /\ Len(argTypes(p)) = Len(p.in) - Context(p)
      /\ \A i \in 1 .. Len(argTypes(p)) : argTypes(p)[i] = p.in[i + Context(p)]
      /\ Context(p) \in {0, 1} /\ p.in \in Seq(Types)
  BY Zenon, TypesOf
<1>2. Len(given) \in Nat /\ \A i \in 1 .. Len(given) : given[i] \in Values
  OBVIOUS
<1>3. Len(argTypes(p)) \in Int
  BY <1>1
<1>4. \A i \in 1 .. Len(argTypes(p)) : /\ i > Len(given) <=> ~(i <= Len(given))
                                       /\ i <= Len(given) => given[i] \in Values
  BY <1>2, <1>3
<1> QED
  BY Zenon, <1>1, <1>4

(* A text is read as a block number just when it is one.                   *)
LEMMA NumberRead ==
  ASSUME NEW t, t.form = "hex" => t.n \in Nat
  PROVE  NumberOf(t) # {} <=> IsBlockNumber(t)
<1>1. CASE t \in {Word("earliest"), Word("latest"), Word("pending")}
  <2>1. NumberOf(t) # {}
    BY Zenon, <1>1 DEF NumberOf
  <2> QED
    BY Zenon, <1>1, <2>1 DEF IsBlockNumber
<1>2. CASE t \notin {Word("earliest"), Word("latest"), Word("pending")}
  <2>1. NumberOf(t) = {n \in DecodeUint64(t) : n <= MaxInt64}
    BY Zenon, <1>2 DEF NumberOf
  <2>2. CASE t.form = "hex"
    <3>1. t.n <= MaxInt64 => t.n <= MaxUint64
      BY <2>2, WidthAssumption DEF MaxUint64
    <3> QED
      BY Zenon, <1>2, <2>1, <2>2, <3>1 DEF DecodeUint64, IsBlockNumber
  <2>3. CASE t.form # "hex"
    BY Zenon, <1>2, <2>1, <2>3 DEF DecodeUint64, IsBlockNumber
  <2> QED
    BY <2>2, <2>3
<1> QED
  BY <1>1, <1>2

(* A number in decimal or hexadecimal.                                     *)
LEMMA DecimalOrHexRead ==
  ASSUME NEW v, v.text.form = "hex" => v.text.n \in Nat
  PROVE  UnmarshalDecimalOrHex(v) # {} <=>
           v.text.form \in {"dec", "hex"} /\ v.text.n \in 0 .. MaxUint64
<1>1. CASE v.text.form = "hex"
  <2>1. v.text.n <= MaxUint64 <=> v.text.n \in 0 .. MaxUint64
    BY <1>1, WidthAssumption DEF MaxUint64
  <2>2. ParseUint(v.text) = {}
    BY <1>1 DEF ParseUint
  <2> QED
    BY Zenon, <1>1, <2>1, <2>2 DEF UnmarshalDecimalOrHex, DecodeUint64
<1>2. CASE v.text.form # "hex"
  <2>1. DecodeUint64(v.text) = {}
    BY Zenon, <1>2 DEF DecodeUint64
  <2> QED
    BY Zenon, <1>2, <2>1 DEF UnmarshalDecimalOrHex, ParseUint
<1> QED
  BY <1>1, <1>2

(* A block number or a hash, by itself or in an object.                    *)
LEMMA NumberOrHashRead ==
  ASSUME NEW v \in Values
  PROVE  UnmarshalBlockNumberOrHash(v) # {} <=> IsBlockNumberOrHash(v) \/ v = Null
<1> DEFINE number == Member(v, "blockNumber")
           hash == Member(v, "blockHash")
           numbers == Pointer(number, UnmarshalBlockNumber(number))
           hashes == Pointer(hash, UnmarshalHash(hash))
           canonical == "requireCanonical" \in DOMAIN v.members
<1>n. Null.json = "null" /\ Null.text.form = "word" /\ DOMAIN Null.members = {}
  BY DEF Null, JSON, Word
<1>t. /\ v.text.form = "hex" => v.text.n \in Nat
      /\ number.text.form = "hex" => number.text.n \in Nat
  <2>1. \A w \in {v} \cup {v.members[k] : k \in DOMAIN v.members} :
          w.text.form = "hex" => w.text.n \in Nat
    BY Zenon, HandlerAssumptions
  <2>2. number = Null \/ number \in {v.members[k] : k \in DOMAIN v.members}
    BY Zenon DEF Member
  <2>3. Null.text.form # "hex"
    BY <1>n
  <2> QED
    BY Zenon, <2>1, <2>2, <2>3
<1>1. CASE v.json = "string"
  <2>1. Erased(v) = {}
    BY <1>1 DEF Erased
  <2>2. v # Null /\ v.json # "object"
    BY <1>n, <1>1
  <2>3. NumberOf(v.text) # {} <=> IsBlockNumber(v.text)
    BY Zenon, <1>t, NumberRead
  <2>4. UnmarshalBlockNumberOrHash(v) # {} <=> v.text.form = "hash" \/ NumberOf(v.text) # {}
    BY Zenon, <1>1, <2>1 DEF UnmarshalBlockNumberOrHash
  <2> QED
    BY Zenon, <1>1, <2>2, <2>3, <2>4 DEF IsBlockNumberOrHash
<1>2. CASE v.json = "null"
  <2>1. v = Null
    BY Zenon, <1>2, HandlerAssumptions
  <2>2. number = Null /\ hash = Null
    BY Zenon, <1>n, <2>1 DEF Member
  <2>3. {} \in numbers /\ {} \in hashes
    BY Zenon, <2>2 DEF Pointer
  <2>a. Erased(v) = {BlockNumberOrHash(n, h, canonical) : n \in numbers, h \in hashes}
    BY <1>2 DEF Erased
  <2> HIDE DEF numbers, hashes, canonical
  <2>4. BlockNumberOrHash({}, {}, canonical) \in Erased(v)
    BY <2>3, <2>a
  <2>5. BlockNumberOrHash({}, {}, canonical).BlockNumber = {}
    BY DEF BlockNumberOrHash
  <2> QED
    BY Zenon, <2>1, <2>4, <2>5 DEF UnmarshalBlockNumberOrHash
<1>3. CASE v.json = "object"
  <2>1. v # Null /\ v.json # "string"
    BY <1>n, <1>3
  <2>2. /\ numbers # {} <=> number = Null \/ IsBlockNumber(number.text)
        /\ \A x \in numbers : x = {} <=> number = Null
    BY Zenon, <1>t, NumberRead DEF Pointer, UnmarshalBlockNumber
  <2>3. /\ hashes # {} <=> hash = Null \/ (hash.json = "string" /\ hash.text.form = "hash")
        /\ \A x \in hashes : x = {} <=> hash = Null
    BY Zenon DEF Pointer, UnmarshalHash
  <2>4. Erased(v) = {BlockNumberOrHash(n, h, canonical) : n \in numbers, h \in hashes}
    BY <1>3 DEF Erased
  <2>5. \A n, h : /\ BlockNumberOrHash(n, h, canonical).BlockNumber = n
                 /\ BlockNumberOrHash(n, h, canonical).BlockHash = h
    BY DEF BlockNumberOrHash
  <2>6. UnmarshalBlockNumberOrHash(v) = {e \in Erased(v) : e.BlockNumber = {} \/ e.BlockHash = {}}
    <3>1. CASE Erased(v) # {}
      BY Zenon, <3>1 DEF UnmarshalBlockNumberOrHash
    <3>2. CASE Erased(v) = {}
      BY Zenon, <2>1, <3>2 DEF UnmarshalBlockNumberOrHash
    <3> QED
      BY <3>1, <3>2
  <2> HIDE DEF numbers, hashes, number, hash, canonical
  <2>7. UnmarshalBlockNumberOrHash(v) # {} <=>
          \E n \in numbers, h \in hashes : n = {} \/ h = {}
    <3>1. ASSUME NEW n \in numbers, NEW h \in hashes, n = {} \/ h = {}
          PROVE  BlockNumberOrHash(n, h, canonical) \in UnmarshalBlockNumberOrHash(v)
      <4>1. BlockNumberOrHash(n, h, canonical) \in Erased(v)
        BY <2>4
      <4> QED
        BY Zenon, <2>5, <2>6, <3>1, <4>1
    <3>2. ASSUME NEW e \in UnmarshalBlockNumberOrHash(v)
          PROVE  \E n \in numbers, h \in hashes : n = {} \/ h = {}
      <4>1. e \in Erased(v) /\ (e.BlockNumber = {} \/ e.BlockHash = {})
        BY Zenon, <2>6, <3>2
      <4>2. PICK n \in numbers, h \in hashes : e = BlockNumberOrHash(n, h, canonical)
        BY <2>4, <4>1
      <4>3. e.BlockNumber = n /\ e.BlockHash = h
        BY Zenon, <2>5, <4>2
      <4> QED
        BY Zenon, <4>1, <4>3
    <3> QED
      BY Zenon, <3>1, <3>2
  <2>8. UnmarshalBlockNumberOrHash(v) # {} <=>
          numbers # {} /\ hashes # {} /\ (number = Null \/ hash = Null)
    BY Zenon, <2>2, <2>3, <2>7
  <2>9. IsBlockNumberOrHash(v) <=>
          /\ number = Null \/ IsBlockNumber(number.text)
          /\ hash = Null \/ (hash.json = "string" /\ hash.text.form = "hash")
          /\ number = Null \/ hash = Null
    BY Zenon, <1>3, <2>1 DEF IsBlockNumberOrHash, number, hash
  <2> QED
    BY Zenon, <2>1, <2>2, <2>3, <2>8, <2>9
<1>4. CASE v.json \notin {"string", "null", "object"}
  <2>1. Erased(v) = {} /\ v # Null
    BY <1>n, <1>4 DEF Erased
  <2> QED
    BY Zenon, <1>4, <2>1 DEF UnmarshalBlockNumberOrHash, IsBlockNumberOrHash
<1> QED
  BY <1>1, <1>2, <1>3, <1>4

(* So what is decoded is what is accepted.                                 *)
LEMMA DecodesAccepted ==
  ASSUME NEW v \in Values, NEW t
  PROVE  Decode(v, t) # {} <=> Accepted(v, t)
<1>n. Null.json = "null" /\ Null.text = Word("null")
  BY DEF Null, JSON
<1>t. /\ v.text.form = "hex" => v.text.n \in Nat
      /\ v.json = "null" => v = Null
  BY Zenon, HandlerAssumptions
<1>1. CASE t = "BlockNumber"
  <2>1. Decode(v, t) # {} <=> IsBlockNumber(v.text)
    BY Zenon, <1>1, <1>t, NumberRead DEF Decode, UnmarshalBlockNumber
  <2>2. Fits(v, t) <=> IsBlockNumber(v.text)
    BY Zenon, <1>1 DEF Fits
  <2>3. t \notin {"ptr"} \cup NullAsZero
    BY <1>1 DEF NullAsZero
  <2> QED
    BY Zenon, <2>1, <2>2, <2>3 DEF Accepted
<1>2. CASE t = "BlockNumberOrHash"
  <2>1. Decode(v, t) = UnmarshalBlockNumberOrHash(v)
    BY <1>2 DEF Decode
  <2>2. Fits(v, t) <=> IsBlockNumberOrHash(v)
    BY <1>2 DEF Fits
  <2>3. t \in {"ptr"} \cup NullAsZero
    BY <1>2 DEF NullAsZero
  <2> QED
    BY Zenon, <2>1, <2>2, <2>3, NumberOrHashRead DEF Accepted
<1>3. CASE t = "DecimalOrHex"
  <2>1. Decode(v, t) = UnmarshalDecimalOrHex(v)
    BY <1>3 DEF Decode
  <2>2. Fits(v, t) <=> v.text.form \in {"dec", "hex"} /\ v.text.n \in 0 .. MaxUint64
    BY <1>3 DEF Fits
  <2>3. t \notin {"ptr"} \cup NullAsZero
    BY <1>3 DEF NullAsZero
  <2> QED
    BY Zenon, <1>t, <2>1, <2>2, <2>3, DecimalOrHexRead DEF Accepted
<1>4. CASE t \in {"int", "ptr"}
  <2>1. Decode(v, t) # {} <=> v.json \in {"number", "null"}
    <3>1. CASE v.json \in {"number", "null"} /\ t = "int"
      BY Zenon, <3>1 DEF Decode
    <3>2. CASE v.json \in {"number", "null"} /\ t = "ptr"
      BY Zenon, <3>2 DEF Decode
    <3>3. CASE v.json \notin {"number", "null"}
      BY Zenon, <1>4, <3>3 DEF Decode
    <3> QED
      BY Zenon, <1>4, <3>1, <3>2, <3>3
  <2>2. Fits(v, t) <=> v.json = "number"
    BY <1>4 DEF Fits
  <2>3. t \in {"ptr"} \cup NullAsZero
    BY <1>4 DEF NullAsZero
  <2> QED
    BY Zenon, <1>n, <1>t, <2>1, <2>2, <2>3 DEF Accepted
<1>5. CASE t = "string"
  <2>1. Decode(v, t) # {} <=> v.json \in {"string", "null"}
    BY Zenon, <1>5 DEF Decode
  <2>2. Fits(v, t) <=> v.json = "string"
    BY <1>5 DEF Fits
  <2>3. t \in {"ptr"} \cup NullAsZero
    BY <1>5 DEF NullAsZero
  <2> QED
    BY Zenon, <1>n, <1>t, <2>1, <2>2, <2>3 DEF Accepted
<1>6. CASE t \notin {"BlockNumber", "BlockNumberOrHash", "DecimalOrHex", "int", "ptr", "string"}
  <2>1. Decode(v, t) = {}
    BY Zenon, <1>6 DEF Decode
  <2>2. ~Fits(v, t) /\ t \notin {"ptr"} \cup NullAsZero
    BY Zenon, <1>6 DEF Fits, NullAsZero
  <2> QED
    BY Zenon, <2>1, <2>2 DEF Accepted
<1> QED
  BY Zenon, <1>1, <1>2, <1>3, <1>4, <1>5, <1>6

(* The reference and argTypes agree on the arguments a method takes.       *)
LEMMA TakesIs ==
  ASSUME NEW p \in Methods, NEW params, params.args \in Seq(Values)
  PROVE  Takes(p, params) <=> params.kind # "other" /\ CanParse(params.args, argTypes(p))
<1>1. /\ Len(argTypes(p)) = Len(p.in) - Context(p)
      /\ \A i \in 1 .. Len(argTypes(p)) : argTypes(p)[i] = p.in[i + Context(p)]
  BY Zenon, TypesOf
<1>2. \A i \in 1 .. Len(p.in) - Context(p) :
        /\ argTypes(p)[i] = p.in[i + Context(p)]
        /\ i <= Len(params.args) => params.args[i] \in Values
  BY Zenon, PlacesOfTypes
<1>3. \A i \in 1 .. Len(p.in) - Context(p) :
        i <= Len(params.args) =>
          (Decode(params.args[i], argTypes(p)[i]) # {}
             <=> Accepted(params.args[i], p.in[i + Context(p)]))
  BY Zenon, <1>2, DecodesAccepted
<1> QED
  BY Zenon, <1>1, <1>2, <1>3 DEF Takes, CanParse

(* An ordinary call runs a method just when one of that name is available  *)
(* and takes the arguments.                                                *)
LEMMA RunsExposed ==
  ASSUME NEW m \in Messages, NEW answer, NEW o \in Outcomes(m), answer.kind = o.kind
  PROVE  OnlyExposed(answer, m)
<1> SUFFICES ASSUME isCall(m), m.method \notin {"*_subscribe", "*_unsubscribe"}
             PROVE  Ran(answer) <=> \E p \in Methods : p.name = m.method /\ Available(p)
                                                       /\ Takes(p, m.params)
  BY Zenon DEF OnlyExposed
<1>1. o \in handleCall(m)
  BY Zenon DEF Outcomes
<1>2. m.params.args \in Seq(Values)
  BY Zenon, HandlerAssumptions
<1>3. ASSUME NEW p \in Methods
      PROVE  /\ p \in callback(m.method) <=> p.name = m.method /\ Available(p)
             /\ parsePositionalArguments(m.params, argTypes(p)) # {} <=> Takes(p, m.params)
  <2>1. p \in callback(m.method) => p.name = m.method
    BY Zenon DEF callback
  <2>2. p \in callback(p.name) <=> Available(p)
    BY Zenon, AvailableIs
  <2>3. argTypes(p) \in Seq(Types)
    BY Zenon, TypesOf
  <2>4. parsePositionalArguments(m.params, argTypes(p)) # {} <=>
          m.params.kind # "other" /\ CanParse(m.params.args, argTypes(p))
    BY Zenon, <1>2, <2>3, Parsing
  <2>5. Takes(p, m.params) <=>
          m.params.kind # "other" /\ CanParse(m.params.args, argTypes(p))
    BY Zenon, <1>2, TakesIs
  <2> QED
    BY Zenon, <2>1, <2>2, <2>4, <2>5
<1>4. \A cb \in callback(m.method) : cb \in Methods
  BY Zenon DEF callback, suitableCallbacks
<1>5. \A k : o \in Error(k) => o.kind = k
  BY Zenon, ErrorIs
<1>6. CASE o \in Error("method not found") /\ callback(m.method) = {}
  <2>1. ~Ran(answer)
    BY Zenon, <1>5, <1>6 DEF Ran
  <2> QED
    BY Zenon, <1>3, <1>6, <2>1
<1>7. CASE /\ o \in Error("invalid params")
           /\ \A cb \in callback(m.method) :
                parsePositionalArguments(m.params, argTypes(cb)) = {}
  <2>1. ~Ran(answer)
    BY Zenon, <1>5, <1>7 DEF Ran
  <2> QED
    BY Zenon, <1>3, <1>7, <2>1
<1>8. CASE \E cb \in callback(m.method) :
             \E args \in parsePositionalArguments(m.params, argTypes(cb)) : o \in runMethod(args)
  <2>1. PICK cb \in callback(m.method) :
          \E args \in parsePositionalArguments(m.params, argTypes(cb)) : o \in runMethod(args)
    BY Zenon, <1>8
  <2>2. PICK args \in parsePositionalArguments(m.params, argTypes(cb)) : o \in runMethod(args)
    BY Zenon, <2>1
  <2>3. o.kind \in {"result", "failed"}
    BY Zenon, <2>2, RunIs
  <2>4. parsePositionalArguments(m.params, argTypes(cb)) # {}
    BY Zenon, <2>2
  <2> QED
    BY Zenon, <1>3, <1>4, <2>3, <2>4 DEF Ran
<1> QED
  BY Zenon, <1>1, <1>6, <1>7, <1>8, CallOutcome

(* What arrives.                                                           *)

(* A lone block number is refused just when it is negative and no tag.     *)
LEMMA LoneBlockNumber ==
  ASSUME NEW p \in Methods, NEW bn \in BlockNumbers, Len(p.in) = Context(p) + 1,
         p.in[Context(p) + 1] = "BlockNumber"
  PROVE  /\ CanParse(<<String(MarshalText(bn))>>, argTypes(p)) <=> bn >= PendingBlockNumber
         /\ bn >= PendingBlockNumber <=> ~(bn < PendingBlockNumber)
<1>1. /\ Len(argTypes(p)) = Len(p.in) - Context(p)
      /\ \A i \in 1 .. Len(argTypes(p)) : argTypes(p)[i] = p.in[i + Context(p)]
      /\ Context(p) \in {0, 1}
  BY Zenon, TypesOf
<1>2. Len(argTypes(p)) = 1 /\ 1 + Context(p) = Context(p) + 1
  BY <1>1
<1>3. 1 <= 1 /\ \A i : i \in 1 .. 1 <=> i = 1
  OBVIOUS
<1>4. argTypes(p)[1] = "BlockNumber"
  <2>1. argTypes(p)[1] = p.in[1 + Context(p)]
    BY Zenon, <1>1, <1>2, <1>3
  <2> QED
    BY Zenon, <1>2, <2>1
<1>5. PICK given : given = <<String(MarshalText(bn))>>
  BY Zenon
<1>6. Len(given) = 1 /\ given[1] = String(MarshalText(bn))
  BY <1>5
<1>7. CanParse(given, argTypes(p)) <=> Decode(given[1], argTypes(p)[1]) # {}
  BY Zenon, <1>2, <1>3, <1>6 DEF CanParse
<1>8. bn >= PendingBlockNumber <=> ~(bn < PendingBlockNumber)
  <2>1. bn \in Int
    BY WidthAssumption DEF BlockNumbers
  <2> QED
    BY <2>1 DEF PendingBlockNumber
<1> QED
  BY Zenon, <1>4, <1>5, <1>6, <1>7, <1>8, TextDecodes

(* A method that is run with what its arguments are parsed to is run with  *)
(* what was meant.                                                         *)
LEMMA ArrivesWhen ==
  ASSUME NEW p \in Methods, NEW given \in Seq(Values), NEW answer,
         Ran(answer) => /\ CanParse(given, argTypes(p))
                        /\ ParsedTo(answer.args, given, argTypes(p)),
         \A bn \in BlockNumbers :
           (given = <<String(MarshalText(bn))>> /\ answer.kind = "invalid params")
             => ~CanParse(given, argTypes(p))
  PROVE  Arrive(answer, p, given)
<1>1. ASSUME Ran(answer)
      PROVE  /\ Len(answer.args) = Len(p.in) - Context(p)
             /\ \A i \in 1 .. Len(p.in) - Context(p) :
                  IF i > Len(given) THEN answer.args[i] = nil
                  ELSE Meant(given[i], p.in[i + Context(p)], answer.args[i])
  <2>1. ParsedTo(answer.args, given, argTypes(p))
    BY Zenon, <1>1
  <2>2. Len(answer.args) = Len(p.in) - Context(p)
    BY Zenon, <2>1, TypesOf DEF ParsedTo
  <2>3. ASSUME NEW i \in 1 .. Len(p.in) - Context(p)
        PROVE  IF i > Len(given) THEN answer.args[i] = nil
               ELSE Meant(given[i], p.in[i + Context(p)], answer.args[i])
    <3>1. /\ argTypes(p)[i] = p.in[i + Context(p)] /\ i \in 1 .. Len(argTypes(p))
          /\ i > Len(given) <=> ~(i <= Len(given))
          /\ i <= Len(given) => given[i] \in Values
      BY Zenon, PlacesOfTypes
    <3>2. IF i <= Len(given) THEN answer.args[i] \in Decode(given[i], argTypes(p)[i])
          ELSE answer.args[i] = nil
      BY Zenon, <2>1, <3>1 DEF ParsedTo
    <3> QED
      BY Zenon, <3>1, <3>2, Decoded
  <2> QED
    BY Zenon, <2>2, <2>3
<1>2. ASSUME NEW bn \in BlockNumbers, Len(p.in) = Context(p) + 1,
             p.in[Context(p) + 1] = "BlockNumber", given = <<String(MarshalText(bn))>>
      PROVE  /\ Ran(answer) => bn >= PendingBlockNumber
             /\ answer.kind = "invalid params" => bn < PendingBlockNumber
  <2>1. /\ CanParse(given, argTypes(p)) <=> bn >= PendingBlockNumber
        /\ bn >= PendingBlockNumber <=> ~(bn < PendingBlockNumber)
    BY Zenon, <1>2, LoneBlockNumber
  <2> QED
    BY Zenon, <1>2, <2>1
<1> QED
  BY Zenon, <1>1, <1>2 DEF Arrive

(* The name of a subscription takes the first place, and no other.         *)
LEMMA ConsSeq ==
  ASSUME NEW S, NEW x \in S, NEW c \in Seq(S), NEW d, d = <<x>> \o c
  PROVE  /\ d \in Seq(S) /\ Len(d) = Len(c) + 1 /\ d[1] = x
         /\ \A i \in 1 .. Len(c) : d[i + 1] = c[i]
  OBVIOUS

(* Places that move by one.                                                *)
LEMMA Shifted ==
  ASSUME NEW g \in Nat, NEW t \in Nat
  PROVE  /\ g + 1 <= t + 1 <=> g <= t
         /\ 1 \in 1 .. t + 1 /\ 1 <= g + 1
         /\ \A i \in 1 .. t : i + 1 \in 1 .. t + 1 /\ (i + 1 <= g + 1 <=> i <= g)
         /\ \A i \in 1 .. t + 1 : i = 1 \/ \E j \in 1 .. t : i = j + 1
<1>1. ASSUME NEW i \in 1 .. t + 1, i # 1 PROVE i - 1 \in 1 .. t /\ i = (i - 1) + 1
  BY <1>1
<1>2. \A i \in 1 .. t + 1 : i = 1 \/ \E j \in 1 .. t : i = j + 1
  BY Zenon, <1>1
<1> QED
  BY <1>2

(* So the arguments after the name are parsed as they would be by          *)
(* themselves, and SubscriptionArgs finds them.                            *)
LEMMA NameFirst ==
  ASSUME NEW a \in Seq(Values), a # <<>>, Head(a).json = "string",
         NEW types \in Seq(Types), NEW all, all = <<"string">> \o types
  PROVE  /\ all \in Seq(Types) /\ Tail(a) \in Seq(Values)
         /\ CanParse(a, all) <=> CanParse(Tail(a), types)
         /\ \A S : \A args \in Seq(S) :
              ParsedTo(args, a, all) => ParsedTo(Tail(args), Tail(a), types)
<1>1. /\ all \in Seq(Types) /\ Len(all) = Len(types) + 1 /\ all[1] = "string"
      /\ \A i \in 1 .. Len(types) : all[i + 1] = types[i]
  <2>1. "string" \in Types
    BY Zenon DEF Types
  <2> QED
    BY <2>1, ConsSeq
<1>2. PICK given : given = Tail(a)
  BY Zenon
<1>3. /\ given \in Seq(Values) /\ Len(given) \in Nat /\ Len(a) = Len(given) + 1
      /\ a[1] = Head(a) /\ \A i \in 1 .. Len(given) : given[i] = a[i + 1]
  BY <1>2
<1>4. PICK g \in Nat, t \in Nat : g = Len(given) /\ t = Len(types)
  BY <1>3
<1>5. /\ g + 1 <= t + 1 <=> g <= t
      /\ 1 \in 1 .. t + 1 /\ 1 <= g + 1
      /\ \A i \in 1 .. t : i + 1 \in 1 .. t + 1 /\ (i + 1 <= g + 1 <=> i <= g)
      /\ \A i \in 1 .. t + 1 : i = 1 \/ \E j \in 1 .. t : i = j + 1
  BY Zenon, Shifted
<1>6. Len(a) = g + 1 /\ Len(all) = t + 1
  BY Zenon, <1>1, <1>3, <1>4
<1>7. ASSUME NEW i \in 1 .. t
      PROVE  all[i + 1] = types[i] /\ (i <= g => a[i + 1] = given[i])
  <2>1. i <= g => i \in 1 .. g
    OBVIOUS
  <2> QED
    BY Zenon, <1>1, <1>3, <1>4, <2>1
<1>8. Decode(a[1], all[1]) # {}
  <2>1. Decode(a[1], "string") # {}
    BY Zenon, <1>3 DEF Decode
  <2> QED
    BY Zenon, <1>1, <2>1
<1> DEFINE
      Decodes(i) == IF i <= g THEN Decode(given[i], types[i]) # {} ELSE types[i] = "ptr"
      DecodesAll(i) == IF i <= g + 1 THEN Decode(a[i], all[i]) # {} ELSE all[i] = "ptr"
<1>9. CanParse(a, all) <=> CanParse(given, types)
  <2>1. \A i \in 1 .. t : DecodesAll(i + 1) <=> Decodes(i)
    BY Zenon, <1>5, <1>7
  <2>2. DecodesAll(1)
    BY Zenon, <1>5, <1>8
  <2>3. CanParse(a, all) <=> g + 1 <= t + 1 /\ \A i \in 1 .. t + 1 : DecodesAll(i)
    BY Zenon, <1>6 DEF CanParse
  <2>4. CanParse(given, types) <=> g <= t /\ \A i \in 1 .. t : Decodes(i)
    BY Zenon, <1>4 DEF CanParse
  <2> HIDE DEF Decodes, DecodesAll
  <2> QED
    BY Zenon, <1>5, <2>1, <2>2, <2>3, <2>4
<1>10. ASSUME NEW S, NEW args \in Seq(S), ParsedTo(args, a, all)
       PROVE  ParsedTo(Tail(args), given, types)
  <2>1. /\ Len(args) = t + 1
        /\ \A i \in 1 .. t + 1 : IF i <= g + 1 THEN args[i] \in Decode(a[i], all[i])
                                 ELSE args[i] = nil
    BY Zenon, <1>6, <1>10 DEF ParsedTo
  <2>2. args # <<>>
    BY <2>1
  <2>3. /\ Len(Tail(args)) = Len(args) - 1
        /\ \A i \in 1 .. Len(Tail(args)) : Tail(args)[i] = args[i + 1]
    BY Zenon, <2>2, TailIs
  <2>4. Len(Tail(args)) = t
    BY <2>1, <2>3
  <2>5. ASSUME NEW i \in 1 .. t
        PROVE  IF i <= g THEN Tail(args)[i] \in Decode(given[i], types[i])
               ELSE Tail(args)[i] = nil
    <3>1. Tail(args)[i] = args[i + 1]
      BY Zenon, <2>3, <2>4
    <3>2. IF i + 1 <= g + 1 THEN args[i + 1] \in Decode(a[i + 1], all[i + 1])
          ELSE args[i + 1] = nil
      BY Zenon, <1>5, <2>1
    <3> QED
      BY Zenon, <1>5, <1>7, <3>1, <3>2
  <2> QED
    BY Zenon, <1>4, <2>4, <2>5 DEF ParsedTo
<1> QED
  BY Zenon, <1>1, <1>2, <1>3, <1>9, <1>10

(* The three ways a call can go: an ordinary method, a subscription, or a  *)
(* *_subscribe without a name.                                             *)
LEMMA ArrivesForCall ==
  ASSUME NEW m \in Messages, m.method \notin {"*_subscribe", "*_unsubscribe"},
         NEW o \in handleCall(m), NEW answer, answer.kind = o.kind, answer.args = o.args,
         NEW p \in Methods, p.name = m.method
  PROVE  Arrive(answer, p, m.params.args)
<1>1. /\ m.params.args \in Seq(Values)
      /\ m.params.kind # "array" => m.params.args = <<>>
  BY Zenon, HandlerAssumptions
<1>2. argTypes(p) \in Seq(Types)
  BY Zenon, TypesOf
<1>3. /\ parsePositionalArguments(m.params, argTypes(p)) # {} <=>
           m.params.kind # "other" /\ CanParse(m.params.args, argTypes(p))
      /\ \A args \in parsePositionalArguments(m.params, argTypes(p)) :
           ParsedTo(args, m.params.args, argTypes(p))
  BY Zenon, <1>1, <1>2, Parsing
<1>4. \A cb \in callback(m.method) : cb = p
  BY Zenon, HandlerAssumptions DEF callback, suitableCallbacks
<1>5. \A k : o \in Error(k) => o.kind = k
  BY Zenon, ErrorIs
<1>6. CASE o \in Error("method not found")
  <2>1. ~Ran(answer) /\ answer.kind # "invalid params"
    BY Zenon, <1>5, <1>6 DEF Ran
  <2> QED
    BY Zenon, <1>1, <2>1, ArrivesWhen
<1>7. CASE /\ o \in Error("invalid params")
           /\ \E cb \in callback(m.method) : TRUE
           /\ \A cb \in callback(m.method) :
                parsePositionalArguments(m.params, argTypes(cb)) = {}
  <2>1. ~Ran(answer)
    BY Zenon, <1>5, <1>7 DEF Ran
  <2>2. parsePositionalArguments(m.params, argTypes(p)) = {}
    BY Zenon, <1>4, <1>7
  <2>3. ASSUME NEW v, m.params.args = <<v>> PROVE ~CanParse(m.params.args, argTypes(p))
    <3>1. <<v>> # <<>> /\ "array" # "other"
      OBVIOUS
    <3> QED
      BY Zenon, <1>1, <1>3, <2>2, <2>3, <3>1
  <2> QED
    BY Zenon, <1>1, <2>1, <2>3, ArrivesWhen
<1>8. CASE \E cb \in callback(m.method) :
             \E args \in parsePositionalArguments(m.params, argTypes(cb)) : o \in runMethod(args)
  <2>1. PICK args \in parsePositionalArguments(m.params, argTypes(p)) : o \in runMethod(args)
    BY Zenon, <1>4, <1>8
  <2>2. o.kind \in {"result", "failed"} /\ o.args = args
    BY Zenon, <2>1, RunIs
  <2>3. answer.kind # "invalid params"
    BY Zenon, <2>2
  <2>4. CanParse(m.params.args, argTypes(p)) /\ ParsedTo(answer.args, m.params.args, argTypes(p))
    BY Zenon, <1>3, <2>1, <2>2
  <2> QED
    BY Zenon, <1>1, <2>3, <2>4, ArrivesWhen
<1> QED
  BY Zenon, <1>6, <1>7, <1>8, CallOutcome

LEMMA ArrivesForSubscribe ==
  ASSUME NEW m \in Messages, parseSubscriptionName(m.params),
         NEW o \in handleSubscribe(m), NEW answer, answer.kind = o.kind, answer.args = o.args,
         NEW p \in Methods, p.name = Head(m.params.args).text.word
  PROVE  Arrive(answer, p, Tail(m.params.args))
<1>1. /\ m.params.args \in Seq(Values) /\ m.params.kind = "array" /\ m.params.args # <<>>
      /\ Head(m.params.args).json = "string"
  BY Zenon, HandlerAssumptions DEF parseSubscriptionName
<1>2. argTypes(p) \in Seq(Types)
  BY Zenon, TypesOf
<1>3. PICK all : all = <<"string">> \o argTypes(p)
  BY Zenon
<1>4. /\ all \in Seq(Types) /\ Tail(m.params.args) \in Seq(Values)
      /\ CanParse(m.params.args, all) <=> CanParse(Tail(m.params.args), argTypes(p))
      /\ \A S : \A args \in Seq(S) :
           ParsedTo(args, m.params.args, all)
             => ParsedTo(Tail(args), Tail(m.params.args), argTypes(p))
  BY Zenon, <1>1, <1>2, <1>3, NameFirst
<1>5. /\ parsePositionalArguments(m.params, all) # {} <=>
           m.params.kind # "other" /\ CanParse(m.params.args, all)
      /\ \A args \in parsePositionalArguments(m.params, all) :
           ParsedTo(args, m.params.args, all) /\ \E S : args \in Seq(S)
  BY Zenon, <1>1, <1>4, Parsing
<1>6. \A cb \in subscription(Head(m.params.args).text.word) : cb = p
  BY Zenon, HandlerAssumptions DEF subscription, suitableCallbacks
<1>7. \A k : o \in Error(k) => o.kind = k
  BY Zenon, ErrorIs
<1>8. CASE o \in Error("unsupported") \/ o \in Error("subscription not found")
  <2>1. ~Ran(answer) /\ answer.kind # "invalid params"
    BY Zenon, <1>7, <1>8 DEF Ran
  <2> QED
    BY Zenon, <1>4, <2>1, ArrivesWhen
<1>9. CASE /\ o \in Error("invalid params")
           /\ \E cb \in subscription(Head(m.params.args).text.word) :
                parsePositionalArguments(m.params, <<"string">> \o argTypes(cb)) = {}
  <2>1. ~Ran(answer)
    BY Zenon, <1>7, <1>9 DEF Ran
  <2>2. parsePositionalArguments(m.params, all) = {}
    BY Zenon, <1>3, <1>6, <1>9
  <2>3. ~CanParse(Tail(m.params.args), argTypes(p))
    BY Zenon, <1>1, <1>4, <1>5, <2>2
  <2> QED
    BY Zenon, <1>4, <2>1, <2>3, ArrivesWhen
<1>10. CASE \E cb \in subscription(Head(m.params.args).text.word) :
              \E args \in parsePositionalArguments(m.params, <<"string">> \o argTypes(cb)) :
                o \in runMethod(SubscriptionArgs(args))
  <2>1. PICK args \in parsePositionalArguments(m.params, all) :
          o \in runMethod(SubscriptionArgs(args))
    BY Zenon, <1>3, <1>6, <1>10
  <2>2. o.kind \in {"result", "failed"} /\ o.args = Tail(args)
    BY Zenon, <2>1, RunIs DEF SubscriptionArgs
  <2>3. answer.kind # "invalid params"
    BY Zenon, <2>2
  <2>4. PICK S : args \in Seq(S)
    BY Zenon, <1>5, <2>1
  <2>5. /\ CanParse(Tail(m.params.args), argTypes(p))
        /\ ParsedTo(answer.args, Tail(m.params.args), argTypes(p))
    BY Zenon, <1>4, <1>5, <2>1, <2>2, <2>4
  <2> QED
    BY Zenon, <1>4, <2>3, <2>5, ArrivesWhen
<1> QED
  BY Zenon, <1>8, <1>9, <1>10, SubscribeOutcome

LEMMA ArrivesForMessage ==
  ASSUME NEW m \in Messages, NEW answer, NEW o \in Outcomes(m),
         answer.kind = o.kind, answer.args = o.args
  PROVE  ArriveFor(answer, m)
<1> DEFINE subscribes == m.method = "*_subscribe" /\ parseSubscriptionName(m.params)
           name == IF subscribes THEN Head(m.params.args).text.word ELSE m.method
           given == IF subscribes THEN Tail(m.params.args) ELSE m.params.args
<1> SUFFICES ASSUME isCall(m), m.method # "*_unsubscribe", NEW p \in Methods, p.name = name
             PROVE  Arrive(answer, p, given)
  BY Zenon DEF ArriveFor
<1>1. o \in handleCall(m)
  BY Zenon DEF Outcomes
<1>2. CASE subscribes
  <2>1. o \in handleSubscribe(m)
    BY Zenon, <1>1, <1>2 DEF handleCall
  <2>2. p.name = Head(m.params.args).text.word /\ given = Tail(m.params.args)
    BY Zenon, <1>2
  <2>3. Arrive(answer, p, Tail(m.params.args))
    BY Zenon, <1>2, <2>1, <2>2, ArrivesForSubscribe
  <2> QED
    BY Zenon, <2>2, <2>3
<1>3. CASE m.method = "*_subscribe" /\ ~parseSubscriptionName(m.params)
  <2>1. o \in handleSubscribe(m)
    BY Zenon, <1>1, <1>3 DEF handleCall
  <2>2. \/ o \in Error("unsupported") \/ o \in Error("subscription not found")
        \/ o \in Error("invalid params")
    BY Zenon, <1>3, <2>1, SubscribeOutcome
  <2>3. ~Ran(answer)
    BY Zenon, <2>2, ErrorIs DEF Ran
  <2>4. /\ m.params.args \in Seq(Values)
        /\ m.params.kind # "array" => m.params.args = <<>>
    BY Zenon, HandlerAssumptions
  <2>5. ASSUME NEW t, m.params.args = <<String(t)>> PROVE FALSE
    <3>1. <<String(t)>> # <<>> /\ Head(<<String(t)>>) = String(t)
      OBVIOUS
    <3>2. m.params.args # <<>> /\ Head(m.params.args) = String(t)
      BY Zenon, <2>5, <3>1
    <3>3. Head(m.params.args).json = "string"
      BY Zenon, <3>2, StringIs
    <3>4. m.params.kind = "array"
      BY Zenon, <2>4, <3>2
    <3> QED
      BY Zenon, <1>3, <3>2, <3>3, <3>4 DEF parseSubscriptionName
  <2>6. given = m.params.args
    BY Zenon, <1>3
  <2>7. Arrive(answer, p, m.params.args)
    BY Zenon, <2>3, <2>4, <2>5, ArrivesWhen
  <2> QED
    BY Zenon, <2>6, <2>7
<1>4. CASE m.method # "*_subscribe"
  <2>1. p.name = m.method /\ given = m.params.args
    BY Zenon, <1>4
  <2>2. m.method \notin {"*_subscribe", "*_unsubscribe"}
    BY Zenon, <1>4
  <2>3. Arrive(answer, p, m.params.args)
    BY Zenon, <1>1, <2>1, <2>2, ArrivesForCall
  <2> QED
    BY Zenon, <2>1, <2>3
<1> QED
  BY Zenon, <1>2, <1>3, <1>4

(* An answer on the wire is what the message it is of came to.             *)
LEMMA CameTo ==
  ASSUME HandlerInv, NEW k \in 1 .. Len(wire), NEW j \in 1 .. Len(wire[k].answers),
         NEW msgs, msgs = received[wire[k].frame].msgs, msgs # <<>>,
         NEW answer, answer = wire[k].answers[j]
  PROVE  /\ msgs[answer.of] \in Messages
         /\ \E o \in Outcomes(msgs[answer.of]) : answer.kind = o.kind /\ answer.args = o.args
<1>1. /\ received[wire[k].frame] \in Frames
      /\ AnswersOK(wire[k].answers, msgs)
  BY Zenon, OnWire
<1>2. msgs \in Seq(Messages)
  BY Zenon, <1>1 DEF Frames
<1>3. answer.of \in 1 .. Len(msgs) /\ answer \in AnswerTo(msgs[answer.of], answer.of)
  BY Zenon, <1>1 DEF AnswersOK
<1>4. PICK i : i = answer.of
  BY Zenon
<1>5. msgs[i] \in Messages
  BY Zenon, <1>2, <1>3, <1>4, ElementOf
<1>6. PICK o \in Outcomes(msgs[i]) :
        answer = [id |-> IF hasValidID(msgs[i]) THEN msgs[i].id ELSE NoId,
                  kind |-> o.kind, args |-> o.args, of |-> i]
  BY Zenon, <1>3, <1>4 DEF AnswerTo
<1>7. answer.kind = o.kind /\ answer.args = o.args
  BY <1>6
<1> QED
  BY Zenon, <1>4, <1>5, <1>7

(* Every answer on the wire is what its message came to; so what is shown  *)
(* of the messages holds of the wire.                                      *)
LEMMA ExposedFollows ==
  ASSUME HandlerInv
  PROVE  RunsOnlyExposed
  BY Zenon, CameTo, RunsExposed DEF RunsOnlyExposed

LEMMA ArrivalFollows ==
  ASSUME HandlerInv
  PROVE  ArgumentsArrive
  BY Zenon, CameTo, ArrivesForMessage DEF ArgumentsArrive

(* RunsOnlyExposed, for every set of methods: an ordinary call runs a      *)
(* method just when one of that name is available as doc.go says and takes *)
(* the arguments that were sent.                                           *)
THEOREM OnlyExposedRuns == HandlerSpec => []RunsOnlyExposed
  BY HandlerInvariant, ExposedFollows, PTL

(* ArgumentsArrive, for every set of methods and values and every width of *)
(* the integers: a method gets one argument for each of its types, what    *)
(* the sender wrote or nil, and of the block numbers exactly the negative  *)
(* ones that are no tag are refused.                                       *)
THEOREM ArgumentsArriveAsMeant == HandlerSpec => []ArgumentsArrive
  BY HandlerInvariant, ArrivalFollows, PTL
=============================================================================
