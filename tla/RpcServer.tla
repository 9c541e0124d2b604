----------------------------- MODULE RpcServer -----------------------------
(***************************************************************************)
(* The server of util/rpc: ServeCodec for each connection, the dispatch    *)
(* goroutine it starts, one request per connection whose method runs on a  *)
(* call goroutine, and Stop.                                               *)
(*                                                                         *)
(* A method is of one of three kinds: it returns by itself (quick), it     *)
(* returns when its context is cancelled (context), or it calls the peer   *)
(* back on the same connection and returns what the peer answers           *)
(* (reverse).                                                              *)
(***************************************************************************)
EXTENDS FiniteSets

CONSTANTS Codecs \* the connections

VARIABLES
  run,       \* s.run
  swept,     \* Stop has closed the codecs
  missed,    \* history: connections between the check of run and the entry
             \* into the set when it did
  codecs,    \* s.codecs
  spc,       \* ServeCodec: idle, checked, added, serving, closing (c.Close),
             \* done
  open,      \* codec.closed() is not closed
  peer,      \* the other end is there
  dpc,       \* dispatch: none, loop, readclose, quitclose (conn.close), end
  reading,   \* dispatch's reading
  call,      \* the call goroutine: none, in a method of one of the kinds,
             \* sending, writing or waiting in a reverse call, done
  op,        \* the reverse call's op: none, pending (in respWait), ended (its
             \* op.resp yields), forgotten (neither)
  inflight,  \* it is dispatch's lastOp: write under way, nil or err in
             \* reqSent; else no
  cancelled  \* h.cancelRoot has been called

stopVars == <<run, swept, missed>>
opVars == <<op, inflight>>
vars == <<stopVars, codecs, spc, open, peer, dpc, reading, call, opVars, cancelled>>

Init ==
  /\ run = TRUE
  /\ swept = FALSE
  /\ missed = {}
  /\ codecs = {}
  /\ spc = [c \in Codecs |-> "idle"]
  /\ open = [c \in Codecs |-> TRUE]
  /\ peer = [c \in Codecs |-> TRUE]
  /\ dpc = [c \in Codecs |-> "none"]
  /\ reading = [c \in Codecs |-> FALSE]
  /\ call = [c \in Codecs |-> "none"]
  /\ op = [c \in Codecs |-> "none"]
  /\ inflight = [c \in Codecs |-> "no"]
  /\ cancelled = [c \in Codecs |-> FALSE]

(* callWG.Wait *)
CallsFinished(c) == call[c] \in {"none", "done"}

(* cancelAllRequests takes a pending op off the table and closes op.resp,  *)
(* unless it is the request in flight.                                     *)
CancelAllRequests(c, spared) ==
  op' = IF op[c] # "pending" THEN op
        ELSE [op EXCEPT ![c] = IF spared THEN "forgotten" ELSE "ended"]

-----------------------------------------------------------------------------
(* ServeCodec and Stop. *)

(* Mutant: s.run is not looked at.                                         *)
ServeCodecAlways(c) ==
  /\ spc[c] = "idle"
  /\ spc' = [spc EXCEPT ![c] = "checked"]
  /\ UNCHANGED <<stopVars, codecs, open, peer, dpc, reading, call, opVars, cancelled>>

(* The check of s.run, and the deferred codec.close when it is stopped.    *)
ServeCodec(c) ==
  /\ spc[c] = "idle"
  /\ \/ run /\ spc' = [spc EXCEPT ![c] = "checked"] /\ UNCHANGED open
     \/ /\ ~run
        /\ spc' = [spc EXCEPT ![c] = "done"]
        /\ open' = [open EXCEPT ![c] = FALSE]
  /\ UNCHANGED <<stopVars, codecs, peer, dpc, reading, call, opVars, cancelled>>

(* Mutant: the codec is not entered into the set.                          *)
AddCodecForgets(c) ==
  /\ spc[c] = "checked"
  /\ spc' = [spc EXCEPT ![c] = "added"]
  /\ UNCHANGED <<stopVars, codecs, open, peer, dpc, reading, call, opVars, cancelled>>

(* s.codecs.Add *)
AddCodec(c) ==
  /\ spc[c] = "checked"
  /\ codecs' = codecs \cup {c}
  /\ spc' = [spc EXCEPT ![c] = "added"]
  /\ UNCHANGED <<stopVars, open, peer, dpc, reading, call, opVars, cancelled>>

(* initClient starts dispatch.                                             *)
InitClient(c) ==
  /\ spc[c] = "added"
  /\ spc' = [spc EXCEPT ![c] = "serving"]
  /\ dpc' = [dpc EXCEPT ![c] = "loop"]
  /\ reading' = [reading EXCEPT ![c] = TRUE]
  /\ UNCHANGED <<stopVars, codecs, open, peer, call, opVars, cancelled>>

CodecClosed(c) ==
  /\ spc[c] = "serving" /\ ~open[c]
  /\ spc' = [spc EXCEPT ![c] = "closing"]
  /\ UNCHANGED <<stopVars, codecs, open, peer, dpc, reading, call, opVars, cancelled>>

(* Mutant: ServeCodec does not wait for the client to close.               *)
ServeReturnsEarly(c) ==
  /\ spc[c] = "closing"
  /\ codecs' = codecs \ {c}
  /\ spc' = [spc EXCEPT ![c] = "done"]
  /\ UNCHANGED <<stopVars, open, peer, dpc, reading, call, opVars, cancelled>>

(* c.Close has returned: the deferred codecs.Remove and codec.close.       *)
ServeReturns(c) ==
  /\ spc[c] = "closing" /\ dpc[c] = "end"
  /\ codecs' = codecs \ {c}
  /\ spc' = [spc EXCEPT ![c] = "done"]
  /\ UNCHANGED <<stopVars, open, peer, dpc, reading, call, opVars, cancelled>>

(* Stop: the compare-and-swap of s.run, ...                                *)
Stop ==
  /\ run
  /\ run' = FALSE
  /\ UNCHANGED <<swept, missed, codecs, spc, open, peer, dpc, reading, call,
                 opVars, cancelled>>

(* ... and codecs.Each, which holds the set's lock while it closes them.   *)
CloseCodecs ==
  /\ ~run /\ ~swept
  /\ swept' = TRUE
  /\ missed' = {c \in Codecs : spc[c] = "checked"}
  /\ open' = [c \in Codecs |-> open[c] /\ c \notin codecs]
  /\ UNCHANGED <<run, codecs, spc, peer, dpc, reading, call, opVars, cancelled>>

-----------------------------------------------------------------------------
(* dispatch. *)

Kinds == {"quick", "context", "reverse"}

(* A request is read and handleMsg starts its call goroutine.              *)
Request(c) ==
  /\ dpc[c] = "loop" /\ reading[c] /\ open[c] /\ peer[c]
  /\ call[c] = "none"
  /\ \E kind \in Kinds : call' = [call EXCEPT ![c] = kind]
  /\ UNCHANGED <<stopVars, codecs, spc, open, peer, dpc, reading, opVars, cancelled>>

(* The peer's answer to the reverse call is read.                          *)
Respond(c) ==
  /\ dpc[c] = "loop" /\ reading[c] /\ open[c] /\ peer[c]
  /\ call[c] = "waiting" /\ op[c] = "pending"
  /\ op' = [op EXCEPT ![c] = "ended"]
  /\ UNCHANGED <<stopVars, codecs, spc, open, peer, dpc, reading, call, inflight,
                 cancelled>>

(* <-c.reqSent: a reverse call that was not written is taken off.          *)
HandleSent(c) ==
  /\ dpc[c] = "loop" /\ inflight[c] \in {"nil", "err"}
  /\ op' = IF inflight[c] = "err" THEN [op EXCEPT ![c] = "none"] ELSE op
  /\ inflight' = [inflight EXCEPT ![c] = "no"]
  /\ UNCHANGED <<stopVars, codecs, spc, open, peer, dpc, reading, call, cancelled>>

(* Mutant: a pending reverse call is left where it is.                     *)
ReadErrLeaves(c) ==
  /\ dpc[c] = "loop" /\ reading[c] /\ ~(open[c] /\ peer[c])
  /\ dpc' = [dpc EXCEPT ![c] = "readclose"]
  /\ UNCHANGED <<stopVars, codecs, spc, open, peer, reading, call, opVars, cancelled>>

(* <-c.readErr: conn.close, up to its wait for the call goroutines; lastOp *)
(* is spared.                                                              *)
ReadErr(c) ==
  /\ dpc[c] = "loop" /\ reading[c] /\ ~(open[c] /\ peer[c])
  /\ CancelAllRequests(c, inflight[c] # "no")
  /\ dpc' = [dpc EXCEPT ![c] = "readclose"]
  /\ UNCHANGED <<stopVars, codecs, spc, open, peer, reading, call, inflight,
                 cancelled>>

(* Mutant: the codec of a connection that broke is not closed.             *)
ReadErrClosedLeaves(c) ==
  /\ dpc[c] = "readclose" /\ CallsFinished(c)
  /\ cancelled' = [cancelled EXCEPT ![c] = TRUE]
  /\ reading' = [reading EXCEPT ![c] = FALSE]
  /\ dpc' = [dpc EXCEPT ![c] = "loop"]
  /\ UNCHANGED <<stopVars, codecs, spc, open, peer, call, opVars>>

(* The rest of conn.close: cancelRoot and codec.close.                     *)
ReadErrClosed(c) ==
  /\ dpc[c] = "readclose" /\ CallsFinished(c)
  /\ cancelled' = [cancelled EXCEPT ![c] = TRUE]
  /\ open' = [open EXCEPT ![c] = FALSE]
  /\ reading' = [reading EXCEPT ![c] = FALSE]
  /\ dpc' = [dpc EXCEPT ![c] = "loop"]
  /\ UNCHANGED <<stopVars, codecs, spc, peer, call, opVars>>

(* Client.Close hands over c.close; dispatch closes c.closing and, while   *)
(* it reads, the connection.                                               *)
Quit(c) ==
  /\ spc[c] = "closing" /\ dpc[c] = "loop"
  /\ \/ /\ reading[c]
        /\ CancelAllRequests(c, FALSE)
        /\ dpc' = [dpc EXCEPT ![c] = "quitclose"]
     \/ /\ ~reading[c]
        /\ dpc' = [dpc EXCEPT ![c] = "end"]
        /\ UNCHANGED op
  /\ UNCHANGED <<stopVars, codecs, spc, open, peer, reading, call, inflight,
                 cancelled>>

(* The rest of conn.close, and drainRead, which the closed codec ends.     *)
QuitClosed(c) ==
  /\ dpc[c] = "quitclose" /\ CallsFinished(c)
  /\ cancelled' = [cancelled EXCEPT ![c] = TRUE]
  /\ open' = [open EXCEPT ![c] = FALSE]
  /\ dpc' = [dpc EXCEPT ![c] = "end"]
  /\ UNCHANGED <<stopVars, codecs, spc, peer, reading, call, opVars>>

-----------------------------------------------------------------------------
(* The call goroutine. *)

MethodReturns(c) ==
  /\ call[c] \in {"quick", "context"}
  /\ call[c] = "context" => cancelled[c]
  /\ call' = [call EXCEPT ![c] = "done"]
  /\ UNCHANGED <<stopVars, codecs, spc, open, peer, dpc, reading, opVars, cancelled>>

ReverseCall(c) ==
  /\ call[c] = "reverse"
  /\ call' = [call EXCEPT ![c] = "sending"]
  /\ UNCHANGED <<stopVars, codecs, spc, open, peer, dpc, reading, opVars, cancelled>>

(* Client.send: dispatch registers the request, or c.closing is closed.    *)
Send(c) ==
  /\ call[c] = "sending"
  /\ \/ /\ dpc[c] = "loop"
        /\ call' = [call EXCEPT ![c] = "writing"]
        /\ op' = [op EXCEPT ![c] = "pending"]
        /\ inflight' = [inflight EXCEPT ![c] = "write"]
     \/ /\ dpc[c] \in {"quitclose", "end"}
        /\ call' = [call EXCEPT ![c] = "done"]
        /\ UNCHANGED opVars
  /\ UNCHANGED <<stopVars, codecs, spc, open, peer, dpc, reading, cancelled>>

(* Client.write, which has a deadline.  A write to a peer that is gone may *)
(* end well; after a failed one the server's end does not dial (errDead).  *)
Write(c) ==
  /\ call[c] = "writing"
  /\ \/ /\ open[c]
        /\ call' = [call EXCEPT ![c] = "waiting"]
        /\ inflight' = [inflight EXCEPT ![c] = "nil"]
     \/ /\ call' = [call EXCEPT ![c] = "done"]
        /\ inflight' = [inflight EXCEPT ![c] = "err"]
  /\ UNCHANGED <<stopVars, codecs, spc, open, peer, dpc, reading, op, cancelled>>

(* requestOp.wait with the method's context, which is cancelled only after *)
(* the method has returned.                                                *)
WaitReturns(c) ==
  /\ call[c] = "waiting" /\ op[c] = "ended"
  /\ call' = [call EXCEPT ![c] = "done"]
  /\ UNCHANGED <<stopVars, codecs, spc, open, peer, dpc, reading, opVars, cancelled>>

-----------------------------------------------------------------------------
Hangup(c) ==
  /\ peer[c]
  /\ peer' = [peer EXCEPT ![c] = FALSE]
  /\ UNCHANGED <<stopVars, codecs, spc, open, dpc, reading, call, opVars, cancelled>>

Serve(c) == AddCodec(c) \/ InitClient(c) \/ CodecClosed(c) \/ ServeReturns(c)
Dispatch(c) ==
  HandleSent(c) \/ ReadErr(c) \/ ReadErrClosed(c) \/ Quit(c) \/ QuitClosed(c)
CallProc(c) ==
  MethodReturns(c) \/ ReverseCall(c) \/ Send(c) \/ Write(c) \/ WaitReturns(c)

Next ==
  \/ Stop
  \/ CloseCodecs
  \/ \E c \in Codecs :
       \/ ServeCodec(c) \/ Serve(c) \/ Dispatch(c) \/ CallProc(c)
       \/ Request(c) \/ Respond(c) \/ Hangup(c)

Spec == Init /\ [][Next]_vars

(* Goroutines that can go on do; peers need not send, answer or hang up,   *)
(* and nobody need call Stop.                                              *)
Fairness ==
  \A c \in Codecs : WF_vars(Serve(c)) /\ WF_vars(Dispatch(c)) /\ WF_vars(CallProc(c))

FairSpec == Spec /\ Fairness

-----------------------------------------------------------------------------
(* ServeCodec returns only when the method it started has ended, whether   *)
(* the peer hung up, the server was stopped, or both at once.              *)
NoCallOutlivesServe == \A c \in Codecs : spc[c] = "done" => CallsFinished(c)

(* Stop closes the connections: when it is through, one that is served and *)
(* still open had passed the check of s.run, but was not in the set yet    *)
(* when Stop went over it.  In that case ServeCodec does less than its     *)
(* comment says ("until the codec is closed or the server is stopped"): it *)
(* serves on, and nobody closes its codec any more.                        *)
StopCloses ==
  swept =>
    \A c \in Codecs :
      spc[c] \in {"added", "serving", "closing"} /\ open[c] => c \in missed

(* dispatch waits for a method that waits for it: for the context that is  *)
(* cancelled only after the wait; for dispatch to take a reverse call; or  *)
(* for the answer to one that was spared as the request in flight.         *)
Stuck(c) ==
  \/ call[c] = "context" /\ dpc[c] \in {"readclose", "quitclose"}
  \/ call[c] = "sending" /\ dpc[c] = "readclose"
  \/ call[c] = "waiting" /\ op[c] = "forgotten" /\ dpc[c] = "readclose"

(* When the peer is gone, or the codec closed by Stop, ServeCodec returns, *)
(* unless dispatch and the method wait for each other.                     *)
ServeEnds ==
  \A c \in Codecs :
    (spc[c] \in {"checked", "added", "serving"} /\ ~(open[c] /\ peer[c])) ~>
      (spc[c] = "done" \/ Stuck(c))
=============================================================================
