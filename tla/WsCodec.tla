------------------------------ MODULE WsCodec ------------------------------
(***************************************************************************)
(* One end of a WebSocket connection, util/rpc/websocket.go over the       *)
(* jsonCodec of json.go: pingLoop with its timer, writers that put the     *)
(* next ping off, the read deadline that a ping sets and a pong clears,    *)
(* and close, which waits for pingLoop.                                    *)
(*                                                                         *)
(* Time passes in ticks, and only when no goroutine can go on: scheduling  *)
(* delays are short against seconds.  Within a tick goroutines interleave. *)
(* The peer and the network are external: as long as the peer is there it  *)
(* answers a ping within Latency ticks and takes what is written; once it  *)
(* is gone, a few writes still fit into the socket's buffer and the others *)
(* wait for their write deadline.  Timers are those of go 1.22 (go.mod).   *)
(***************************************************************************)
EXTENDS Integers

CONSTANTS
  Settings,    \* [ping, pong, write]: wsPingInterval, wsPongTimeout and the
               \* write timeouts, in ticks
  Latency,     \* a pong takes so many ticks at most
  SocketBuffer \* bound: writes that succeed when the peer is gone

ASSUME WsAssumptions ==
  /\ Settings \subseteq [ping : Nat \ {0}, pong : Nat \ {0}, write : Nat]
  /\ Latency \in Nat /\ \A s \in Settings : Latency < s.pong /\ Latency < s.ping
  /\ SocketBuffer \in Nat

VARIABLES
  set,       \* the setting
  timer,     \* ticks until the timer fires, 0 when it is not running
  fired,     \* timer.C holds a value
  pinger,    \* pingLoop: select, reset, lock, ping, deadline, done
  pingReset, \* the channel of that name holds a value
  writer,    \* writeJSON: idle, encode, written
  encMu,     \* who holds it: none, pinger or writer
  left,      \* ticks the write under way may still take
  deadline,  \* ticks until the read deadline, or None
  reader,    \* ReadJSON: reading, timed out
  closer,    \* close: open, waiting (for wg), closed
  remote,      \* there or gone
  room,      \* writes the socket's buffer still takes
  pong,      \* ticks a pong may still take, or None
  stale      \* history: the deadline was set when its ping was already answered

timeVars == <<timer, fired, deadline, left, pong>>
wsVars == <<set, timeVars, pinger, pingReset, writer, encMu, reader, closer,
          remote, room, stale>>

None == -1
Closing == closer # "open"  \* closeCh is closed

WsInit ==
  /\ set \in Settings
  /\ timer = set.ping /\ fired = FALSE
  /\ pinger = "select" /\ pingReset = FALSE
  /\ writer = "idle" /\ encMu = "none" /\ left = 0
  /\ deadline = None /\ reader = "reading" /\ closer = "open"
  /\ remote = "there" /\ room = SocketBuffer /\ pong = None /\ stale = FALSE

-----------------------------------------------------------------------------
(* The select of pingLoop. *)

PingLoopEnds ==
  /\ pinger = "select" /\ Closing
  /\ pinger' = "done"
  /\ UNCHANGED <<set, timeVars, pingReset, writer, encMu, reader, closer, remote, room, stale>>

ResetReceived ==
  /\ pinger = "select" /\ pingReset
  /\ pingReset' = FALSE
  /\ pinger' = "reset"
  /\ UNCHANGED <<set, timeVars, writer, encMu, reader, closer, remote, room, stale>>

(* timer.Stop, or a receive from timer.C when it has fired already; Reset. *)
TimerReset ==
  /\ pinger = "reset"
  /\ timer > 0 \/ fired
  /\ timer' = set.ping /\ fired' = FALSE
  /\ pinger' = "select"
  /\ UNCHANGED <<set, deadline, left, pong, pingReset, writer, encMu, reader, closer, remote,
                 room, stale>>

TimerFired ==
  /\ pinger = "select" /\ fired
  /\ fired' = FALSE
  /\ pinger' = "lock"
  /\ UNCHANGED <<set, timer, deadline, left, pong, pingReset, writer, encMu, reader, closer,
                 remote, room, stale>>

(* encMu.Lock; left says how long the write can then take.                 *)
Lock(who) ==
  /\ encMu = "none"
  /\ encMu' = who
  /\ left' = IF remote = "there" \/ Closing THEN 0 ELSE set.write

LockForPing ==
  /\ pinger = "lock"
  /\ Lock("pinger")
  /\ pinger' = "ping"
  /\ UNCHANGED <<set, timer, fired, deadline, pong, pingReset, writer, reader, closer, remote,
                 room, stale>>

(* WriteMessage, whose error is ignored.                                   *)
WritePing ==
  /\ pinger = "ping"
  /\ pinger' = "deadline"
  /\ pong' = IF remote = "there" /\ ~Closing THEN Latency ELSE pong
  /\ UNCHANGED <<set, timer, fired, deadline, left, pingReset, writer, encMu, reader, closer,
                 remote, room, stale>>

(* Mutants: without the deadline; without the timer's Reset.               *)
PingedNoDeadline ==
  /\ pinger = "deadline"
  /\ encMu' = "none" /\ timer' = set.ping
  /\ pinger' = "select"
  /\ UNCHANGED <<set, fired, deadline, left, pong, pingReset, writer, reader, closer, remote,
                 room, stale>>
PingedNoReset ==
  /\ pinger = "deadline"
  /\ deadline' = set.pong /\ stale' = (pong = None) /\ encMu' = "none"
  /\ pinger' = "select"
  /\ UNCHANGED <<set, timer, fired, left, pong, pingReset, writer, reader, closer, remote, room>>

(* SetReadDeadline, encMu.Unlock and timer.Reset.                          *)
Pinged ==
  /\ pinger = "deadline"
  /\ deadline' = set.pong /\ stale' = (pong = None) /\ encMu' = "none" /\ timer' = set.ping
  /\ pinger' = "select"
  /\ UNCHANGED <<set, fired, left, pong, pingReset, writer, reader, closer, remote, room>>

-----------------------------------------------------------------------------
(* writeJSON, and close. *)

WriteJSON ==
  /\ writer = "idle"
  /\ Lock("writer")
  /\ writer' = "encode"
  /\ UNCHANGED <<set, timer, fired, deadline, pong, pinger, pingReset, reader, closer, remote,
                 room, stale>>

(* encode; it fails on a closed connection, and in the end for a peer that *)
(* is gone.                                                                *)
Encode ==
  /\ writer = "encode"
  /\ encMu' = "none"
  /\ \/ /\ ~Closing /\ (remote = "there" \/ room > 0)
        /\ room' = IF remote = "there" THEN room ELSE room - 1
        /\ writer' = "written"
     \/ /\ Closing \/ remote = "gone"
        /\ writer' = "idle"
        /\ UNCHANGED room
  /\ UNCHANGED <<set, timeVars, pinger, pingReset, reader, closer, remote, stale>>

(* pingReset has room for one.                                             *)
DelayPing ==
  /\ writer = "written"
  /\ pingReset' = TRUE
  /\ writer' = "idle"
  /\ UNCHANGED <<set, timeVars, pinger, encMu, reader, closer, remote, room, stale>>

Close ==
  /\ closer = "open"
  /\ closer' = "waiting"
  /\ UNCHANGED <<set, timeVars, pinger, pingReset, writer, encMu, reader, remote, room, stale>>

CloseReturns ==
  /\ closer = "waiting" /\ pinger = "done"
  /\ closer' = "closed"
  /\ UNCHANGED <<set, timeVars, pinger, pingReset, writer, encMu, reader, remote, room, stale>>

-----------------------------------------------------------------------------
(* The reading goroutine. *)

(* Mutant: the deadline stays.                                             *)
PongIgnored ==
  /\ pong # None /\ reader = "reading"
  /\ pong' = None
  /\ stale' = FALSE
  /\ UNCHANGED <<set, timer, fired, deadline, left, pinger, pingReset, writer, encMu, reader,
                 closer, remote, room>>

(* The pong handler.                                                       *)
Pong ==
  /\ pong # None /\ reader = "reading"
  /\ pong' = None
  /\ deadline' = None
  /\ stale' = FALSE
  /\ UNCHANGED <<set, timer, fired, left, pinger, pingReset, writer, encMu, reader, closer,
                 remote, room>>

ReadTimesOut ==
  /\ deadline = 0 /\ reader = "reading" /\ ~Closing
  /\ reader' = "timed out"
  /\ UNCHANGED <<set, timeVars, pinger, pingReset, writer, encMu, closer, remote, room, stale>>

-----------------------------------------------------------------------------
PeerGone ==
  /\ remote = "there"
  /\ remote' = "gone" /\ pong' = None
  /\ UNCHANGED <<set, timer, fired, deadline, left, pinger, pingReset, writer, encMu, reader,
                 closer, room, stale>>

(* A goroutine, the network or the clock has something to do first.        *)
Ready ==
  \/ pinger = "select" /\ (fired \/ pingReset \/ Closing)
  \/ pinger = "reset" /\ (timer > 0 \/ fired)
  \/ pinger = "lock" /\ encMu = "none"
  \/ pinger = "deadline" \/ writer = "written"
  \/ encMu # "none" /\ (left = 0 \/ Closing)
  \/ reader = "reading" /\ ~Closing /\ (deadline = 0 \/ pong = 0)

Left(n) == IF n > 0 THEN n - 1 ELSE n

Tick ==
  /\ ~Ready
  /\ timer' = Left(timer) /\ fired' = (fired \/ timer = 1)
  /\ deadline' = Left(deadline) /\ left' = Left(left) /\ pong' = Left(pong)
  /\ UNCHANGED <<set, pinger, pingReset, writer, encMu, reader, closer, remote, room, stale>>

PingLoop ==
  PingLoopEnds \/ ResetReceived \/ TimerReset \/ TimerFired \/ LockForPing \/ WritePing \/ Pinged

WsNext ==
  \/ PingLoop \/ WriteJSON \/ Encode \/ DelayPing \/ Close \/ CloseReturns
  \/ Pong \/ ReadTimesOut \/ PeerGone \/ Tick

(* Time passes, goroutines go on, and encMu is handed to who waits for it. *)
(* The peer and the writers owe nothing.                                   *)
WsSpec ==
  /\ WsInit /\ [][WsNext]_wsVars
  /\ SF_wsVars(Tick) /\ WF_wsVars(PingLoop) /\ SF_wsVars(LockForPing) /\ SF_wsVars(PingLoopEnds)
  /\ WF_wsVars(Encode) /\ WF_wsVars(DelayPing) /\ WF_wsVars(CloseReturns)
  /\ WF_wsVars(ReadTimesOut) /\ WF_wsVars(Pong)

-----------------------------------------------------------------------------
(* As long as the peer answers, reading does not time out - unless the     *)
(* answer to a ping was handled before pingLoop had set its read deadline, *)
(* which then stays: writes can put off the next ping for longer than that *)
(* (and with a pong timeout below the ping interval nothing else need      *)
(* happen).                                                                *)
LiveNotTimedOut ==
  [][reader = "reading" /\ reader' = "timed out" => remote = "gone" \/ stale]_wsVars

(* A peer that is gone is noticed when pongs are due before the next ping. *)
(* (Otherwise every ping moves the deadline of the one before it.)         *)
GonePeerTimesOut ==
  remote = "gone" /\ set.pong < set.ping ~> (reader = "timed out" \/ Closing)

(* close returns: pingLoop comes back to its select from wherever it is,   *)
(* and never waits for a timer that is neither running nor has fired.      *)
CloseEnds == closer = "waiting" ~> closer = "closed"
=============================================================================
