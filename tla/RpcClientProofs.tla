-------------------------- MODULE RpcClientProofs --------------------------
(***************************************************************************)
(* Proofs about RpcClient, for any number of requests and connections:     *)
(* there is one writer, no response channel is used twice, every answer    *)
(* finds its caller, a waiting caller is known, and a subscription that    *)
(* runs has an owner.                                                      *)
(***************************************************************************)
EXTENDS RpcClient, TLAPS

Writing == {"write", "reconnect"}
Early == {"idle", "write", "reconnect"}

ClientTypes ==
  /\ pc \in [Ops -> Early \cup {"wait", "timeout", "done"}]
  /\ result \in [Ops -> {"none", "ok", "error", "ctx", "quit"}]
  /\ resp \in [Ops -> {"open", "msg", "closed"}]
  /\ err \in [Ops -> BOOLEAN]
  /\ link \in [Conns -> {"up", "broken", "closed"}]
  /\ expired \subseteq Ops /\ respWait \subseteq Ops /\ clientSubs \subseteq Ops
  /\ asked \subseteq Conns \X Ops
  /\ dialled \in Conns /\ conn \in Conns /\ newcodec \in Conns
  /\ writeConn \in Conns \cup {0}
  /\ got \in Ops \cup {NoOp} /\ lastOp \in Ops \cup {NoOp}
  /\ reading \in BOOLEAN /\ locked \in BOOLEAN
  /\ dpc \in {"loop", "moving", "closing", "quit"}
  /\ reader \in {"none", "reading", "msg", "err"}
  /\ reqSent \in {"none", "nil", "err"}

(* The send lock: dispatch takes no request until the one it took last is  *)
(* reported on reqSent.                                                    *)
Locked ==
  /\ WriterIsLastOp
  /\ ~locked => reqSent = "none"
  /\ locked => lastOp \in Ops
  /\ lastOp \in Ops => pc[lastOp] # "idle"
  /\ reqSent = "err" => pc[lastOp] = "done"

(* The server knows of a request only once it has been written, and        *)
(* answers it once.                                                        *)
Asked(op) == got = op \/ \E c \in Conns : <<c, op>> \in asked

AskedOnce ==
  /\ \A op \in Ops : pc[op] \in Early => ~Asked(op)
  /\ \A c, d \in Conns : \A op \in Ops :
       <<c, op>> \in asked /\ <<d, op>> \in asked => c = d
  /\ \A c \in Conns : \A op \in Ops : <<c, op>> \in asked => got # op
  /\ reader = "msg" => got \in Ops
  /\ reader # "msg" => got = NoOp

(* The response channels.                                                  *)
Open ==
  /\ PendingOpen
  /\ \A op \in Ops :
       /\ pc[op] = "idle" => op \notin respWait /\ resp[op] = "open"
       /\ pc[op] \in Writing /\ dpc \in {"loop", "moving"} => resp[op] = "open"
       /\ resp[op] = "open" => ~err[op]
  /\ dpc = "moving" => locked /\ resp[lastOp] = "open" /\ respWait = {}

(* Which connection is written on, read from, and new.                     *)
Connected ==
  /\ dpc # "moving" => writeConn \in {0, conn}
  /\ dpc = "moving" => reading /\ writeConn \in {0, newcodec}
  /\ ~reading => reader = "none" /\ link[conn] = "closed"
  /\ conn <= dialled /\ newcodec <= dialled
  /\ \A c \in Conns : \A op \in Ops : <<c, op>> \in asked => c <= dialled
  /\ \A op \in Ops :
       pc[op] = "reconnect" =>
         \A c \in Conns : \A o \in Ops : <<c, o>> \in asked => c < dialled
  /\ dpc = "moving" =>
       \A op \in Ops : <<newcodec, op>> \in asked => op = lastOp

(* A request that is written on the connection that is read is in the      *)
(* table, from before the write until its answer is handled.               *)
Tabled ==
  dpc = "loop" /\ reading =>
    /\ \A op \in Ops : pc[op] \in Writing => op \in respWait
    /\ reader \in {"reading", "msg"} =>
         \A op \in Ops :
           pc[op] = "wait" /\ (got = op \/ <<conn, op>> \in asked) => op \in respWait

Waiters ==
  /\ WaitersKnown
  /\ \A op \in Ops :
       pc[op] \in Writing /\ dpc # "moving" /\ resp[op] = "open" =>
         op \in respWait \cup orphaned
  /\ ~reading =>
       \A op \in Ops : pc[op] = "wait" /\ resp[op] = "open" => op \in orphaned

OwnedBy(op) ==
  /\ pc[op] # "done" => result[op] = "none"
  /\ pc[op] = "timeout" => op \in expired
  /\ Asked(op) => result[op] \in {"none", "ok"} \/ op \in expired \/ resp[op] # "open"
  /\ op \in clientSubs =>
       /\ op \notin respWait /\ pc[op] \notin Early /\ ~err[op]
       /\ result[op] \in {"none", "ok"} \/ op \in expired

Owned == \A op \in Ops : OwnedBy(op)

(* No subscription outlives its connection.                                *)
Cleared == dpc = "moving" \/ ~reading => clientSubs = {}

LEMMA StepTypes ==
  ASSUME ClientTypes, Locked, Open, [Next]_vars
  PROVE  ClientTypes'
<1> USE DEF callerVars, opVars, netVars, readVars, handlerVars, dispatchVars
<1>1. ASSUME NEW op \in Ops, Send(op) PROVE ClientTypes'
  BY <1>1, RpcClientAssumptions DEF ClientTypes, Conns, Early, Send
<1>2. ASSUME NEW op \in Ops, SendGivesUp(op) PROVE ClientTypes'
  BY <1>2, RpcClientAssumptions DEF ClientTypes, Conns, Early, SendGivesUp,
                                    Finish
<1>3. ASSUME NEW op \in Ops, WriteOK(op) PROVE ClientTypes'
  BY <1>3, RpcClientAssumptions DEF ClientTypes, Conns, Early, WriteOK
<1>4. ASSUME NEW op \in Ops, WriteFails(op) PROVE ClientTypes'
  BY <1>4, RpcClientAssumptions DEF ClientTypes, Conns, Early, WriteFails,
                                    SendFails, Finish
<1>5. ASSUME NEW op \in Ops, Dial(op) PROVE ClientTypes'
  BY <1>5, RpcClientAssumptions DEF ClientTypes, Conns, Early, Dial
<1>6. ASSUME NEW op \in Ops, DialFails(op) PROVE ClientTypes'
  BY <1>6, RpcClientAssumptions DEF ClientTypes, Conns, Early, DialFails,
                                    SendFails, Finish
<1>7. ASSUME NEW op \in Ops, Reconnect(op) PROVE ClientTypes'
  <2>1. lastOp \in Ops
    BY Zenon, <1>7 DEF Reconnect, Locked, WriterIsLastOp
  <2>2. resp' \in [Ops -> {"open", "msg", "closed"}] /\ err' \in [Ops -> BOOLEAN]
    BY <1>7 DEF ClientTypes, Reconnect, CloseConn
  <2>3. /\ pc' \in [Ops -> Early \cup {"wait", "timeout", "done"}]
        /\ link' \in [Conns -> {"up", "broken", "closed"}]
    BY <1>7 DEF ClientTypes, Reconnect, CloseConn, Early
  <2>4. /\ respWait' \subseteq Ops /\ clientSubs' \subseteq Ops
        /\ dpc' \in {"loop", "moving", "closing", "quit"} /\ reading' \in BOOLEAN
        /\ reader' \in {"none", "reading", "msg", "err"} /\ conn' \in Conns
    BY Zenon, <1>7, <2>1 DEF ClientTypes, Reconnect, CloseConn, Adopt
  <2>5. /\ writeConn' = dialled /\ newcodec' = dialled
        /\ UNCHANGED <<result, expired, asked, dialled, got, lastOp, locked, reqSent>>
    BY Zenon, <1>7 DEF Reconnect
  <2> QED
    BY ZenonT(30), <2>2, <2>3, <2>4, <2>5 DEF ClientTypes
<1>8. ASSUME NEW op \in Ops, ReconnectQuits(op) PROVE ClientTypes'
  BY <1>8, RpcClientAssumptions DEF ClientTypes, Conns, Early, ReconnectQuits,
                                    SendFails, Finish
<1>9. ASSUME NEW op \in Ops, Receive(op) \/ WaitExpires(op) PROVE ClientTypes'
  BY <1>9, RpcClientAssumptions DEF ClientTypes, Conns, Early, Receive,
                                    Finish, WaitExpires
<1>10. ASSUME NEW op \in Ops, Timeout(op) PROVE ClientTypes'
  BY <1>10, RpcClientAssumptions DEF ClientTypes, Conns, Early, Timeout,
                                     Finish, Closing
<1>11. ASSUME NEW op \in Ops, Expire(op) PROVE ClientTypes'
  BY <1>11, RpcClientAssumptions DEF ClientTypes, Conns, Early, Expire
<1>12. ASSUME NEW c \in Conns, Break(c) PROVE ClientTypes'
  BY <1>12, RpcClientAssumptions DEF ClientTypes, Conns, Early, Break
<1>13. CASE Read
  BY <1>13, RpcClientAssumptions DEF ClientTypes, Conns, Early, Read
<1>14. CASE ReadFails
  BY <1>14, RpcClientAssumptions DEF ClientTypes, Conns, Early, ReadFails
<1>15. CASE HandleResponse
  <2>1. /\ resp' \in [Ops -> {"open", "msg", "closed"}] /\ err' \in [Ops -> BOOLEAN]
        /\ respWait' \subseteq Ops /\ clientSubs' \subseteq Ops
    BY Zenon, <1>15 DEF ClientTypes, HandleResponse
  <2>2. /\ reader' = "reading" /\ got' = NoOp
        /\ UNCHANGED <<pc, result, expired, link, asked, dialled, conn, newcodec,
                       writeConn, lastOp, reading, locked, dpc, reqSent>>
    BY Zenon, <1>15 DEF HandleResponse
  <2> QED
    BY ZenonT(30), <2>1, <2>2 DEF ClientTypes
<1>16. CASE HandleReadErr
  BY Zenon, <1>16, RpcClientAssumptions DEF ClientTypes, Conns, Early, HandleReadErr,
                                     CloseConn
<1>17. CASE HandleSent
  BY Zenon, <1>17, RpcClientAssumptions DEF ClientTypes, Conns, Early, HandleSent
<1>18. CASE DrainRead
  <2>1. dpc = "moving" => lastOp \in Ops
    BY Zenon DEF Locked, Open
  <2> QED
    BY Zenon, <1>18, <2>1 DEF ClientTypes, Early, DrainRead, Adopt
<1>19. CASE Close
  BY <1>19, RpcClientAssumptions DEF ClientTypes, Conns, Early, Close,
                                     CloseConn
<1>20. CASE UNCHANGED <<pc, result, resp, err, link, expired, respWait,
                        clientSubs, asked, dialled, conn, newcodec, writeConn,
                        got, lastOp, reading, locked, dpc, reader, reqSent>>
  BY ZenonT(30), <1>20 DEF ClientTypes, Early
<1> QED
  BY Zenon, <1>1, <1>2, <1>3, <1>4, <1>5, <1>6, <1>7, <1>8, <1>9, <1>10,
     <1>11, <1>12, <1>13, <1>14, <1>15, <1>16, <1>17, <1>18, <1>19, <1>20
     DEF Next, Caller, Dispatch, vars, CloseReturn

LEMMA StepLocked ==
  ASSUME ClientTypes, Locked, [Next]_vars
  PROVE  Locked'
<1> USE DEF callerVars, opVars, netVars, readVars, handlerVars, dispatchVars
<1>1. ASSUME NEW op \in Ops, Send(op) PROVE Locked'
  BY <1>1, RpcClientAssumptions DEF ClientTypes, Locked, WriterIsLastOp,
                                    Early, Send
<1>2. ASSUME NEW op \in Ops, SendGivesUp(op) PROVE Locked'
  BY <1>2, RpcClientAssumptions DEF ClientTypes, Locked, WriterIsLastOp,
                                    Early, SendGivesUp, Finish
<1>3. ASSUME NEW op \in Ops, WriteOK(op) PROVE Locked'
  BY <1>3, RpcClientAssumptions DEF ClientTypes, Locked, WriterIsLastOp,
                                    Early, WriteOK
<1>4. ASSUME NEW op \in Ops, WriteFails(op) PROVE Locked'
  BY <1>4, RpcClientAssumptions DEF ClientTypes, Locked, WriterIsLastOp,
                                    Early, WriteFails, SendFails, Finish
<1>5. ASSUME NEW op \in Ops, Dial(op) \/ DialFails(op) PROVE Locked'
  BY <1>5, RpcClientAssumptions DEF ClientTypes, Locked, WriterIsLastOp,
                                    Early, Dial, DialFails, SendFails, Finish
<1>6. ASSUME NEW op \in Ops, Reconnect(op) \/ ReconnectQuits(op) PROVE Locked'
  BY <1>6, RpcClientAssumptions DEF ClientTypes, Locked, WriterIsLastOp,
                                    Early, Reconnect, CloseConn, Adopt,
                                    ReconnectQuits, SendFails, Finish
<1>7. ASSUME NEW op \in Ops, Receive(op) \/ WaitExpires(op) \/ Timeout(op) PROVE Locked'
  BY <1>7, RpcClientAssumptions DEF ClientTypes, Locked, WriterIsLastOp,
                                    Early, Receive, Finish, WaitExpires,
                                    Timeout, Closing
<1>8. CASE HandleSent
  BY <1>8, RpcClientAssumptions DEF ClientTypes, Locked, WriterIsLastOp,
                                    Early, HandleSent
<1>9. CASE UNCHANGED <<pc, locked, reqSent, lastOp>>
  BY Zenon, <1>9 DEF ClientTypes, Locked, WriterIsLastOp, Early
<1> QED
  BY Zenon, <1>1, <1>2, <1>3, <1>4, <1>5, <1>6, <1>7, <1>8, <1>9
     DEF Next, Caller, Dispatch, vars, Expire, Read, ReadFails,
         HandleResponse, HandleReadErr, CloseConn, DrainRead, Adopt, Close,
         CloseReturn, Break

LEMMA StepAskedOnce ==
  ASSUME ClientTypes, AskedOnce, Connected, [Next]_vars
  PROVE  AskedOnce'
<1> USE DEF callerVars, opVars, netVars, readVars, handlerVars, dispatchVars
<1>1. ASSUME NEW op \in Ops, Send(op) PROVE AskedOnce'
  BY Zenon, <1>1, RpcClientAssumptions DEF ClientTypes, AskedOnce, Asked, Early, Send
<1>2. ASSUME NEW op \in Ops, SendGivesUp(op) PROVE AskedOnce'
  BY Zenon, <1>2, RpcClientAssumptions DEF ClientTypes, AskedOnce, Asked, Early,
                                    SendGivesUp, Finish
<1>3. ASSUME NEW op \in Ops, WriteOK(op) PROVE AskedOnce'
  BY Zenon, <1>3, RpcClientAssumptions DEF ClientTypes, AskedOnce, Asked, Early,
                                    WriteOK
<1>4. ASSUME NEW op \in Ops, WriteFails(op) PROVE AskedOnce'
  BY Zenon, <1>4, RpcClientAssumptions DEF ClientTypes, AskedOnce, Asked, Early,
                                    WriteFails, SendFails, Finish
<1>5. ASSUME NEW op \in Ops, Dial(op) PROVE AskedOnce'
  BY <1>5, RpcClientAssumptions DEF ClientTypes, AskedOnce, Asked, Early, Dial
<1>6. ASSUME NEW op \in Ops, DialFails(op) PROVE AskedOnce'
  BY <1>6, RpcClientAssumptions DEF ClientTypes, AskedOnce, Asked, Early,
                                    DialFails, SendFails, Finish
<1>7. ASSUME NEW op \in Ops, Reconnect(op) PROVE AskedOnce'
  <2>1. (reader' # "msg" => got = NoOp) /\ (reader' = "msg" => got \in Ops)
    BY <1>7 DEF AskedOnce, Connected, Reconnect, Adopt
  <2>2. \A o \in Ops : pc'[o] \in Early => pc[o] \in Early
    BY <1>7 DEF ClientTypes, Early, Reconnect
  <2>3. UNCHANGED <<got, asked>>
    BY Zenon, <1>7 DEF Reconnect
  <2> QED
    BY Zenon, <2>1, <2>2, <2>3 DEF AskedOnce, Asked
<1>8. ASSUME NEW op \in Ops, ReconnectQuits(op) PROVE AskedOnce'
  BY Zenon, <1>8, RpcClientAssumptions DEF ClientTypes, AskedOnce, Asked, Early,
                                    ReconnectQuits, SendFails, Finish
<1>9. ASSUME NEW op \in Ops, Receive(op) PROVE AskedOnce'
  BY SMTT(30), <1>9, RpcClientAssumptions DEF ClientTypes, AskedOnce, Asked, Early,
                                    Receive, Finish
<1>10. ASSUME NEW op \in Ops, WaitExpires(op) PROVE AskedOnce'
  BY Zenon, <1>10, RpcClientAssumptions DEF ClientTypes, AskedOnce, Asked, Early,
                                     WaitExpires
<1>11. ASSUME NEW op \in Ops, Timeout(op) PROVE AskedOnce'
  BY Zenon, <1>11, RpcClientAssumptions DEF ClientTypes, AskedOnce, Asked, Early,
                                     Timeout, Finish, Closing
<1>12. CASE Read
  <2>1. PICK a \in asked : got' = a[2] /\ asked' = asked \ {a}
    BY Zenon, <1>12 DEF Read
  <2>2. reader' = "msg" /\ UNCHANGED pc
    BY Zenon, <1>12 DEF Read
  <2>3. PICK d \in Conns, o \in Ops : a = <<d, o>>
    BY DEF ClientTypes
  <2>4. got' = o /\ <<d, o>> \in asked /\ <<d, o>> \notin asked'
    BY <2>1, <2>3
  <2>5. \A c \in Conns : <<c, o>> \notin asked'
    BY Zenon, <2>1, <2>4 DEF AskedOnce
  <2>6. \A c \in Conns : \A p \in Ops : <<c, p>> \in asked' => <<c, p>> \in asked
    BY Zenon, <2>1
  <2>7. \A p \in Ops : Asked(p)' => Asked(p)
    BY Zenon, <2>4, <2>6 DEF Asked
  <2> QED
    BY Zenon, <2>2, <2>4, <2>5, <2>6, <2>7 DEF AskedOnce
<1>13. CASE ReadFails \/ HandleReadErr
  BY Zenon, <1>13, RpcClientAssumptions DEF ClientTypes, AskedOnce, Asked, Early,
                                     ReadFails, HandleReadErr, CloseConn
<1>14. CASE HandleResponse
  BY Zenon, <1>14, RpcClientAssumptions DEF ClientTypes, AskedOnce, Asked, Early,
                                     HandleResponse
<1>15. CASE DrainRead
  BY Zenon, <1>15, RpcClientAssumptions DEF ClientTypes, AskedOnce, Asked, Early,
                                     DrainRead, Adopt
<1>16. CASE UNCHANGED <<pc, got, asked, reader>>
  BY Zenon, <1>16 DEF ClientTypes, AskedOnce, Asked, Early
<1> QED
  BY Zenon, <1>1, <1>2, <1>3, <1>4, <1>5, <1>6, <1>7, <1>8, <1>9, <1>10,
     <1>11, <1>12, <1>13, <1>14, <1>15, <1>16
     DEF Next, Caller, Dispatch, vars, Expire, HandleSent, Close, CloseConn,
         CloseReturn, Break

LEMMA StepOpen ==
  ASSUME ClientTypes, Locked, AskedOnce, Open, [Next]_vars
  PROVE  Open'
<1> USE DEF callerVars, opVars, netVars, readVars, handlerVars, dispatchVars
<1>1. ASSUME NEW op \in Ops, Send(op) PROVE Open'
  BY <1>1, RpcClientAssumptions DEF ClientTypes, Locked, WriterIsLastOp,
                                    AskedOnce, Asked, Open, PendingOpen,
                                    Early, Writing, Send
<1>2. ASSUME NEW op \in Ops, SendGivesUp(op) PROVE Open'
  BY <1>2, RpcClientAssumptions DEF ClientTypes, Locked, WriterIsLastOp,
                                    AskedOnce, Asked, Open, PendingOpen,
                                    Early, Writing, SendGivesUp, Finish
<1>3. ASSUME NEW op \in Ops, WriteOK(op) PROVE Open'
  BY <1>3, RpcClientAssumptions DEF ClientTypes, Locked, WriterIsLastOp,
                                    AskedOnce, Asked, Open, PendingOpen,
                                    Early, Writing, WriteOK
<1>4. ASSUME NEW op \in Ops, WriteFails(op) PROVE Open'
  BY <1>4, RpcClientAssumptions DEF ClientTypes, Locked, WriterIsLastOp,
                                    AskedOnce, Asked, Open, PendingOpen,
                                    Early, Writing, WriteFails, SendFails,
                                    Finish
<1>5. ASSUME NEW op \in Ops, Dial(op) \/ DialFails(op) PROVE Open'
  BY <1>5, RpcClientAssumptions DEF ClientTypes, Locked, WriterIsLastOp,
                                    AskedOnce, Asked, Open, PendingOpen,
                                    Early, Writing, Dial, DialFails,
                                    SendFails, Finish
<1>6. ASSUME NEW op \in Ops, Reconnect(op) PROVE Open'
  BY <1>6, RpcClientAssumptions DEF ClientTypes, Locked, WriterIsLastOp,
                                    AskedOnce, Asked, Open, PendingOpen,
                                    Early, Writing, Reconnect, CloseConn,
                                    Adopt
<1>7. ASSUME NEW op \in Ops, ReconnectQuits(op) PROVE Open'
  BY <1>7, RpcClientAssumptions DEF ClientTypes, Locked, WriterIsLastOp,
                                    AskedOnce, Asked, Open, PendingOpen,
                                    Early, Writing, ReconnectQuits, SendFails,
                                    Finish
<1>8. ASSUME NEW op \in Ops, Receive(op) \/ WaitExpires(op) \/ Timeout(op) PROVE Open'
  BY <1>8, RpcClientAssumptions DEF ClientTypes, Locked, WriterIsLastOp,
                                    AskedOnce, Asked, Open, PendingOpen,
                                    Early, Writing, Receive, Finish,
                                    WaitExpires, Timeout, Closing
<1>9. CASE HandleReadErr
  BY <1>9, RpcClientAssumptions DEF ClientTypes, Locked, WriterIsLastOp,
                                    AskedOnce, Asked, Open, PendingOpen,
                                    Early, Writing, HandleReadErr, CloseConn
<1>10. CASE HandleResponse
  BY <1>10, RpcClientAssumptions DEF ClientTypes, Locked, WriterIsLastOp,
                                     AskedOnce, Asked, Open, PendingOpen,
                                     Early, Writing, HandleResponse
<1>11. CASE HandleSent
  BY <1>11, RpcClientAssumptions DEF ClientTypes, Locked, WriterIsLastOp,
                                     AskedOnce, Asked, Open, PendingOpen,
                                     Early, Writing, HandleSent
<1>12. CASE DrainRead
  BY <1>12, RpcClientAssumptions DEF ClientTypes, Locked, WriterIsLastOp,
                                     AskedOnce, Asked, Open, PendingOpen,
                                     Early, Writing, DrainRead, Adopt
<1>13. CASE Close
  BY <1>13, RpcClientAssumptions DEF ClientTypes, Locked, WriterIsLastOp,
                                     AskedOnce, Asked, Open, PendingOpen,
                                     Early, Writing, Close, CloseConn
<1>14. CASE UNCHANGED <<pc, respWait, resp, err, dpc, locked, lastOp>>
  BY Zenon, <1>14 DEF ClientTypes, Locked, WriterIsLastOp, AskedOnce, Asked,
                      Open, PendingOpen, Early, Writing
<1> QED
  BY Zenon, <1>1, <1>2, <1>3, <1>4, <1>5, <1>6, <1>7, <1>8, <1>9, <1>10,
     <1>11, <1>12, <1>13, <1>14
     DEF Next, Caller, Dispatch, vars, Expire, Read, ReadFails, CloseReturn,
         Break

LEMMA StepConnected ==
  ASSUME ClientTypes, Locked, Connected, [Next]_vars
  PROVE  Connected'
<1> USE DEF callerVars, opVars, netVars, readVars, handlerVars, dispatchVars
<1>1. ASSUME NEW op \in Ops, Send(op) \/ SendGivesUp(op) PROVE Connected'
  BY <1>1, RpcClientAssumptions DEF ClientTypes, Locked, WriterIsLastOp,
                                    Connected, Conns, Early, Send,
                                    SendGivesUp, Finish
<1>2. ASSUME NEW op \in Ops, WriteOK(op) PROVE Connected'
  BY <1>2, RpcClientAssumptions DEF ClientTypes, Locked, WriterIsLastOp,
                                    Connected, Conns, Early, WriteOK
<1>3. ASSUME NEW op \in Ops, WriteFails(op) PROVE Connected'
  BY <1>3, RpcClientAssumptions DEF ClientTypes, Locked, WriterIsLastOp,
                                    Connected, Conns, Early, WriteFails,
                                    SendFails, Finish
<1>4. ASSUME NEW op \in Ops, Dial(op) PROVE Connected'
  BY <1>4, RpcClientAssumptions DEF ClientTypes, Locked, WriterIsLastOp,
                                    Connected, Conns, Early, Dial
<1>5. ASSUME NEW op \in Ops, DialFails(op) PROVE Connected'
  BY <1>5, RpcClientAssumptions DEF ClientTypes, Locked, WriterIsLastOp,
                                    Connected, Conns, Early, DialFails,
                                    SendFails, Finish
<1>6. ASSUME NEW op \in Ops, Reconnect(op) PROVE Connected'
  BY <1>6, RpcClientAssumptions DEF ClientTypes, Locked, WriterIsLastOp,
                                    Connected, Conns, Early, Reconnect,
                                    CloseConn, Adopt
<1>7. ASSUME NEW op \in Ops, ReconnectQuits(op) PROVE Connected'
  BY <1>7, RpcClientAssumptions DEF ClientTypes, Locked, WriterIsLastOp,
                                    Connected, Conns, Early, ReconnectQuits,
                                    SendFails, Finish
<1>8. ASSUME NEW op \in Ops, Receive(op) \/ WaitExpires(op) \/ Timeout(op) PROVE Connected'
  BY <1>8, RpcClientAssumptions DEF ClientTypes, Locked, WriterIsLastOp,
                                    Connected, Conns, Early, Receive, Finish,
                                    WaitExpires, Timeout, Closing
<1>9. ASSUME NEW c \in Conns, Break(c) PROVE Connected'
  BY <1>9, RpcClientAssumptions DEF ClientTypes, Locked, WriterIsLastOp,
                                    Connected, Conns, Early, Break
<1>10. CASE Read
  BY <1>10, RpcClientAssumptions DEF ClientTypes, Locked, WriterIsLastOp,
                                     Connected, Conns, Early, Read
<1>11. CASE ReadFails
  BY <1>11, RpcClientAssumptions DEF ClientTypes, Locked, WriterIsLastOp,
                                     Connected, Conns, Early, ReadFails
<1>12. CASE HandleReadErr
  BY <1>12, RpcClientAssumptions DEF ClientTypes, Locked, WriterIsLastOp,
                                     Connected, Conns, Early, HandleReadErr,
                                     CloseConn
<1>13. CASE HandleResponse
  BY <1>13, RpcClientAssumptions DEF ClientTypes, Locked, WriterIsLastOp,
                                     Connected, Conns, Early, HandleResponse
<1>14. CASE HandleSent
  BY <1>14, RpcClientAssumptions DEF ClientTypes, Locked, WriterIsLastOp,
                                     Connected, Conns, Early, HandleSent
<1>15. CASE DrainRead
  BY <1>15, RpcClientAssumptions DEF ClientTypes, Locked, WriterIsLastOp,
                                     Connected, Conns, Early, DrainRead, Adopt
<1>16. CASE Close
  BY <1>16, RpcClientAssumptions DEF ClientTypes, Locked, WriterIsLastOp,
                                     Connected, Conns, Early, Close, CloseConn
<1>17. CASE UNCHANGED <<pc, dpc, writeConn, conn, newcodec, reading, reader,
                        link, dialled, asked, lastOp>>
  BY Zenon, <1>17 DEF ClientTypes, Locked, WriterIsLastOp, Connected, Early
<1> QED
  BY Zenon, <1>1, <1>2, <1>3, <1>4, <1>5, <1>6, <1>7, <1>8, <1>9, <1>10,
     <1>11, <1>12, <1>13, <1>14, <1>15, <1>16, <1>17
     DEF Next, Caller, Dispatch, vars, Expire, CloseReturn

LEMMA StepTabled ==
  ASSUME ClientTypes, Locked, AskedOnce, Connected, Tabled, [Next]_vars
  PROVE  Tabled'
<1> USE DEF callerVars, opVars, netVars, readVars, handlerVars, dispatchVars
<1>1. ASSUME NEW op \in Ops, Send(op) PROVE Tabled'
  BY <1>1 DEF ClientTypes, Tabled, Early, Writing, Locked, WriterIsLastOp,
              Send
<1>2. ASSUME NEW op \in Ops, SendGivesUp(op) PROVE Tabled'
  BY <1>2 DEF ClientTypes, Tabled, Early, Writing, SendGivesUp, Finish
<1>3. ASSUME NEW op \in Ops, WriteOK(op) PROVE Tabled'
  BY <1>3, RpcClientAssumptions DEF ClientTypes, Locked, WriterIsLastOp,
                                    AskedOnce, Asked, Connected, Tabled,
                                    Early, Writing, WriteOK
<1>4. ASSUME NEW op \in Ops, WriteFails(op) PROVE Tabled'
  BY <1>4 DEF ClientTypes, Tabled, Early, Writing, WriteFails, SendFails,
              Finish
<1>5. ASSUME NEW op \in Ops, Dial(op) \/ DialFails(op) PROVE Tabled'
  BY Zenon, <1>5 DEF ClientTypes, Tabled, Early, Writing, Dial, DialFails, SendFails,
              Finish
<1>6. ASSUME NEW op \in Ops, Reconnect(op) PROVE Tabled'
  <2>1. CASE reading
    BY <1>6, <2>1 DEF Reconnect, Tabled
  <2>2. CASE ~reading
    <3>1. conn' = dialled /\ respWait' = {lastOp} /\ UNCHANGED <<got, asked>>
      BY Zenon, <1>6, <2>2 DEF Reconnect, Adopt
    <3>2. lastOp = op /\ pc' = [pc EXCEPT ![op] = "write"]
      BY Zenon, <1>6 DEF Reconnect, Locked, WriterIsLastOp
    <3>3. \A o \in Ops : pc'[o] \in Writing => o = op
      BY <1>6, <3>2 DEF ClientTypes, Locked, WriterIsLastOp, Writing
    <3>4. got = NoOp
      BY <2>2 DEF Connected, AskedOnce
    <3>5. \A o \in Ops : <<dialled, o>> \notin asked
      BY <1>6, RpcClientAssumptions DEF Reconnect, ClientTypes, Connected, Conns
    <3> QED
      BY Zenon, <3>1, <3>2, <3>3, <3>4, <3>5, RpcClientAssumptions DEF Tabled
  <2> QED
    BY <2>1, <2>2
<1>7. ASSUME NEW op \in Ops, ReconnectQuits(op) PROVE Tabled'
  BY <1>7 DEF ClientTypes, Tabled, Early, Writing, ReconnectQuits, SendFails,
              Finish
<1>8. ASSUME NEW op \in Ops, Receive(op) \/ WaitExpires(op) PROVE Tabled'
  BY ZenonT(30), <1>8 DEF ClientTypes, Tabled, Early, Writing, Receive, Finish,
              WaitExpires
<1>9. ASSUME NEW op \in Ops, Timeout(op) PROVE Tabled'
  <2>1. pc' = [pc EXCEPT ![op] = "done"]
        /\ UNCHANGED <<got, asked, conn, reader, dpc, reading>>
    BY Zenon, <1>9 DEF Timeout, Finish
  <2>2. \A o \in Ops : o # op => pc'[o] = pc[o] /\ (o \in respWait => o \in respWait')
    BY <1>9, <2>1 DEF Timeout, ClientTypes
  <2>3. pc'[op] = "done"
    BY Zenon, <2>1 DEF ClientTypes
  <2> QED
    BY <2>1, <2>2, <2>3 DEF Tabled, Writing
<1>10. CASE Read
  BY <1>10, RpcClientAssumptions DEF ClientTypes, Locked, WriterIsLastOp,
                                     AskedOnce, Asked, Connected, Tabled,
                                     Early, Writing, Read
<1>11. CASE ReadFails
  BY <1>11 DEF ClientTypes, Tabled, Early, Writing, ReadFails
<1>12. CASE HandleReadErr
  BY <1>12 DEF ClientTypes, Tabled, Early, Writing, HandleReadErr, CloseConn
<1>13. CASE HandleResponse
  BY <1>13, RpcClientAssumptions DEF ClientTypes, Locked, WriterIsLastOp,
                                     AskedOnce, Asked, Connected, Tabled,
                                     Early, Writing, HandleResponse
<1>14. CASE HandleSent
  BY <1>14, RpcClientAssumptions DEF ClientTypes, Locked, WriterIsLastOp,
                                     AskedOnce, Asked, Connected, Tabled,
                                     Early, Writing, HandleSent
<1>15. CASE DrainRead
  <2>1. CASE dpc' = "loop"
    <3>1. /\ dpc = "moving" /\ reader = "err" /\ conn' = newcodec /\ respWait' = {lastOp}
          /\ UNCHANGED <<pc, got, asked>>
      BY <2>1, <1>15 DEF DrainRead, Adopt
    <3>2. got = NoOp /\ \A o \in Ops : <<newcodec, o>> \in asked => o = lastOp
      BY <3>1 DEF AskedOnce, Connected
    <3>3. \A o \in Ops : pc[o] \in Writing => o = lastOp
      BY DEF Locked, WriterIsLastOp, Writing
    <3> QED
      BY Zenon, <3>1, <3>2, <3>3, RpcClientAssumptions DEF Tabled
  <2> QED
    BY Zenon, <2>1 DEF Tabled
<1>16. CASE Close
  BY <1>16, RpcClientAssumptions DEF ClientTypes, Tabled, Early, Writing,
                                     Close, CloseConn
<1>17. CASE UNCHANGED <<pc, dpc, reading, reader, got, asked, conn, respWait>>
  BY Zenon, <1>17 DEF ClientTypes, Locked, WriterIsLastOp, AskedOnce, Asked,
                      Connected, Tabled, Early, Writing
<1> QED
  BY Zenon, <1>1, <1>2, <1>3, <1>4, <1>5, <1>6, <1>7, <1>8, <1>9, <1>10,
     <1>11, <1>12, <1>13, <1>14, <1>15, <1>16, <1>17
     DEF Next, Caller, Dispatch, vars, Expire, CloseReturn, Break

LEMMA StepWaiters ==
  ASSUME ClientTypes, Locked, Open, Connected, Waiters, [Next]_vars
  PROVE  Waiters'
<1> USE DEF callerVars, opVars, netVars, readVars, handlerVars, dispatchVars
<1>1. ASSUME NEW op \in Ops, Send(op) PROVE Waiters'
  BY <1>1 DEF ClientTypes, Waiters, WaitersKnown, Early, Writing, Send
<1>2. ASSUME NEW op \in Ops, SendGivesUp(op) PROVE Waiters'
  BY <1>2 DEF ClientTypes, Waiters, WaitersKnown, Early, Writing, SendGivesUp,
              Finish
<1>3. ASSUME NEW op \in Ops, WriteOK(op) PROVE Waiters'
  BY <1>3 DEF ClientTypes, Waiters, WaitersKnown, Early, Writing, Locked,
              WriterIsLastOp, Connected, WriteOK
<1>4. ASSUME NEW op \in Ops, WriteFails(op) PROVE Waiters'
  BY <1>4 DEF ClientTypes, Waiters, WaitersKnown, Early, Writing, WriteFails,
              SendFails, Finish
<1>5. ASSUME NEW op \in Ops, Dial(op) \/ DialFails(op) PROVE Waiters'
  BY <1>5 DEF ClientTypes, Waiters, WaitersKnown, Early, Writing, Dial,
              DialFails, SendFails, Finish
<1>6. ASSUME NEW op \in Ops, Reconnect(op) PROVE Waiters'
  BY <1>6 DEF ClientTypes, Waiters, WaitersKnown, Early, Writing, Locked,
              WriterIsLastOp, Reconnect, CloseConn, Adopt
<1>7. ASSUME NEW op \in Ops, ReconnectQuits(op) PROVE Waiters'
  BY <1>7 DEF ClientTypes, Waiters, WaitersKnown, Early, Writing,
              ReconnectQuits, SendFails, Finish
<1>8. ASSUME NEW op \in Ops, Receive(op) \/ WaitExpires(op) PROVE Waiters'
  BY <1>8 DEF ClientTypes, Waiters, WaitersKnown, Early, Writing, Receive,
              Finish, WaitExpires
<1>9. ASSUME NEW op \in Ops, Timeout(op) PROVE Waiters'
  BY <1>9 DEF ClientTypes, Waiters, WaitersKnown, Early, Writing, Timeout,
              Finish, Closing
<1>10. CASE HandleReadErr
  BY <1>10 DEF ClientTypes, Waiters, WaitersKnown, Early, Writing, Locked,
               WriterIsLastOp, HandleReadErr, CloseConn
<1>11. CASE HandleResponse
  BY <1>11 DEF ClientTypes, Waiters, WaitersKnown, Early, Writing,
               HandleResponse
<1>12. CASE HandleSent
  BY <1>12 DEF ClientTypes, Waiters, WaitersKnown, Early, Writing, Locked,
               WriterIsLastOp, HandleSent
<1>13. CASE DrainRead
  BY <1>13, RpcClientAssumptions DEF ClientTypes, Waiters, WaitersKnown,
                                     Early, Writing, Locked, WriterIsLastOp,
                                     Open, DrainRead, Adopt
<1>14. CASE Close
  BY <1>14, RpcClientAssumptions DEF ClientTypes, Waiters, WaitersKnown,
                                     Early, Writing, Close, CloseConn
<1>15. CASE UNCHANGED <<pc, dpc, reading, resp, respWait, orphaned, lastOp>>
  BY Zenon, <1>15 DEF Waiters, WaitersKnown
<1> QED
  BY Zenon, <1>1, <1>2, <1>3, <1>4, <1>5, <1>6, <1>7, <1>8, <1>9, <1>10,
     <1>11, <1>12, <1>13, <1>14, <1>15
     DEF Next, Caller, Dispatch, vars, Expire, Read, ReadFails, CloseReturn,
         Break

LEMMA StepCleared ==
  ASSUME ClientTypes, Connected, Cleared, [Next]_vars
  PROVE  Cleared'
<1> USE DEF callerVars, opVars, netVars, readVars, handlerVars, dispatchVars
<1>1. ASSUME NEW op \in Ops, Reconnect(op) PROVE Cleared'
  BY <1>1, RpcClientAssumptions DEF ClientTypes, Connected, Cleared,
                                    Reconnect, CloseConn, Adopt
<1>2. CASE HandleReadErr
  BY <1>2, RpcClientAssumptions DEF ClientTypes, Connected, Cleared,
                                    HandleReadErr, CloseConn
<1>3. CASE HandleResponse
  BY <1>3, RpcClientAssumptions DEF ClientTypes, Connected, Cleared,
                                    HandleResponse
<1>4. CASE DrainRead
  BY <1>4, RpcClientAssumptions DEF ClientTypes, Connected, Cleared,
                                    DrainRead, Adopt
<1>5. CASE Close
  BY <1>5, RpcClientAssumptions DEF ClientTypes, Connected, Cleared, Close,
                                    CloseConn
<1>6. CASE UNCHANGED <<dpc, reading, clientSubs>>
  BY Zenon, <1>6 DEF ClientTypes, Connected, Cleared
<1> QED
  BY Zenon, <1>1, <1>2, <1>3, <1>4, <1>5, <1>6
     DEF Next, Caller, Dispatch, vars, Send, SendGivesUp, Finish, WriteOK,
         WriteFails, SendFails, Dial, DialFails, ReconnectQuits, Receive,
         WaitExpires, Timeout, Closing, Expire, Read, ReadFails, HandleSent,
         CloseReturn, Break

LEMMA StepOwned ==
  ASSUME ClientTypes, Locked, AskedOnce, Open, Connected, Cleared, Owned, [Next]_vars
  PROVE  Owned'
<1> USE DEF callerVars, opVars, netVars, readVars, handlerVars, dispatchVars
<1> SUFFICES ASSUME NEW o \in Ops PROVE OwnedBy(o)'
  BY Zenon DEF Owned
<1>i. OwnedBy(o)
  BY ZenonT(30) DEF Owned
<1>1. ASSUME NEW op \in Ops, Send(op) \/ Dial(op) PROVE OwnedBy(o)'
  <2>1. /\ o = op => o \notin clientSubs /\ pc[o] \in Early /\ pc'[o] \in Writing
        /\ o # op => pc'[o] = pc[o] /\ (o \in respWait' => o \in respWait)
    BY <1>1, <1>i DEF ClientTypes, OwnedBy, Send, Dial, Early, Writing
  <2>2. UNCHANGED <<result, expired, resp, err, clientSubs, got, asked>>
    BY Zenon, <1>1 DEF Send, Dial
  <2>3. Asked(o)' => Asked(o)
    BY ZenonT(30), <2>2 DEF Asked
  <2> QED
    BY <1>i, <2>1, <2>2, <2>3 DEF OwnedBy, Early, Writing
<1>2. ASSUME NEW op \in Ops, NEW r \in {"ctx", "quit", "error"}, Finish(op, r),
             pc[op] \in Early,
             UNCHANGED <<resp, err, respWait, clientSubs, got, asked>>
      PROVE  OwnedBy(o)'
  <2>1. /\ o = op => ~Asked(o) /\ o \notin clientSubs /\ pc'[o] = "done"
        /\ o # op => pc'[o] = pc[o] /\ result'[o] = result[o]
    BY <1>2, <1>i DEF ClientTypes, AskedOnce, OwnedBy, Finish
  <2>2. UNCHANGED expired /\ (Asked(o)' => Asked(o))
    BY Zenon, <1>2 DEF Finish, Asked
  <2> QED
    BY Zenon, <1>2, <1>i, <2>1, <2>2 DEF OwnedBy
<1>3. ASSUME NEW op \in Ops, WriteOK(op) PROVE OwnedBy(o)'
  BY Zenon, <1>3, <1>i DEF ClientTypes, OwnedBy, Asked, WriteOK, Early
<1>4. ASSUME NEW op \in Ops, Reconnect(op) PROVE OwnedBy(o)'
  <2>1. clientSubs' = {}
    BY <1>4 DEF Reconnect, Cleared, CloseConn
  <2>2. (pc'[o] = "done" => pc[o] = "done") /\ (pc'[o] = "timeout" => pc[o] = "timeout")
        /\ (pc[o] = "done" => pc'[o] = "done")
    BY <1>4 DEF Reconnect, ClientTypes
  <2>3. UNCHANGED <<result, expired, got, asked>>
    BY Zenon, <1>4 DEF Reconnect
  <2>4. (resp[o] # "open" => resp'[o] # "open") /\ (Asked(o)' => Asked(o))
    BY <1>4, <2>3 DEF Reconnect, CloseConn, Asked
  <2> QED
    BY Zenon, <1>i, <2>1, <2>2, <2>3, <2>4 DEF OwnedBy
<1>5. ASSUME NEW op \in Ops, Receive(op) \/ WaitExpires(op) PROVE OwnedBy(o)'
  BY ZenonT(30), <1>5, <1>i DEF ClientTypes, OwnedBy, Asked, Receive, WaitExpires, Finish, Early
<1>6. ASSUME NEW op \in Ops, Timeout(op) PROVE OwnedBy(o)'
  BY Zenon, <1>6, <1>i DEF ClientTypes, OwnedBy, Asked, Timeout, Finish, Early
<1>7. ASSUME NEW op \in Ops, Expire(op) PROVE OwnedBy(o)'
  BY <1>7, <1>i DEF OwnedBy, Asked, Expire
<1>8. CASE Read
  <2>1. PICK a \in asked : got' = a[2] /\ asked' = asked \ {a}
    BY Zenon, <1>8 DEF Read
  <2>2. Asked(o)' => Asked(o)
    <3>1. PICK d \in Conns, p \in Ops : a = <<d, p>>
      BY DEF ClientTypes
    <3>2. got' = p /\ <<d, p>> \in asked
      BY <2>1, <3>1
    <3> QED
      BY Zenon, <2>1, <3>2 DEF Asked
  <2>3. UNCHANGED <<pc, result, expired, resp, err, respWait, clientSubs>>
    BY Zenon, <1>8 DEF Read
  <2> QED
    BY Zenon, <1>i, <2>2, <2>3 DEF OwnedBy
<1>9. CASE HandleResponse
  <2>1. UNCHANGED <<pc, result, expired, asked>> /\ got' = NoOp
    BY Zenon, <1>9 DEF HandleResponse
  <2>2. (Asked(o)' => Asked(o)) /\ (resp[o] # "open" => resp'[o] # "open")
    <3>1. Asked(o)' => Asked(o)
      BY Zenon, <2>1, RpcClientAssumptions DEF Asked
    <3>2. resp[o] # "open" => resp'[o] # "open"
      BY <1>9 DEF HandleResponse, ClientTypes
    <3> QED
      BY <3>1, <3>2
  <2>3. CASE o = got
    <3>1. o \in clientSubs' /\ o \notin clientSubs =>
            Asked(o) /\ pc[o] \notin Early /\ resp[o] = "open" /\ ~err'[o]
      BY <1>9, <2>3 DEF HandleResponse, Asked, AskedOnce, Open, PendingOpen
    <3>2. o \notin respWait' /\ (o \in clientSubs => err'[o] = err[o])
      BY <1>9, <2>3, <1>i DEF HandleResponse, OwnedBy
    <3> QED
      BY Zenon, <1>i, <2>1, <2>2, <3>1, <3>2 DEF OwnedBy
  <2>4. CASE o # got
    <3>1. /\ err'[o] = err[o] /\ (o \in clientSubs' => o \in clientSubs)
          /\ o \in respWait' => o \in respWait
      BY <1>9, <2>4 DEF HandleResponse, ClientTypes
    <3> QED
      BY Zenon, <1>i, <2>1, <2>2, <3>1 DEF OwnedBy
  <2> QED
    BY <2>3, <2>4
<1>10. CASE HandleReadErr \/ (Close /\ reading)
  <2>1. clientSubs' = {} /\ UNCHANGED <<pc, result, expired, got, asked>>
    BY Zenon, <1>10 DEF HandleReadErr, Close, CloseConn
  <2>2. (resp[o] # "open" => resp'[o] # "open") /\ (Asked(o)' => Asked(o))
    BY <1>10, <2>1 DEF HandleReadErr, Close, CloseConn, Asked
  <2> QED
    BY Zenon, <1>i, <2>1, <2>2 DEF OwnedBy
<1>11. CASE HandleSent
  <2>1. /\ UNCHANGED <<pc, result, expired, resp, err, clientSubs, got, asked>>
        /\ o \in respWait' => o \in respWait
    BY <1>11 DEF HandleSent
  <2>2. Asked(o)' => Asked(o)
    BY Zenon, <2>1 DEF Asked
  <2> QED
    BY Zenon, <1>i, <2>1, <2>2 DEF OwnedBy
<1>12. CASE DrainRead
  <2>1. UNCHANGED <<pc, result, expired, resp, err, clientSubs, asked>>
    BY Zenon, <1>12 DEF DrainRead
  <2>2. got' \in {got, NoOp} /\ (o \in clientSubs => respWait' = respWait)
    BY <1>12 DEF DrainRead, Cleared
  <2>3. Asked(o)' => Asked(o)
    BY Zenon, <2>1, <2>2, RpcClientAssumptions DEF Asked
  <2> QED
    BY Zenon, <1>i, <2>1, <2>2, <2>3 DEF OwnedBy
<1>13. CASE UNCHANGED <<pc, result, expired, resp, err, respWait, clientSubs, got, asked>>
  BY Zenon, <1>13, <1>i DEF OwnedBy, Asked
<1>14. ASSUME NEW op \in Ops,
              \/ SendGivesUp(op) \/ WriteFails(op) \/ DialFails(op) \/ ReconnectQuits(op)
       PROVE  OwnedBy(o)'
  <2>1. UNCHANGED <<resp, err, respWait, clientSubs, got, asked>> /\ pc[op] \in Early
    BY <1>14 DEF SendGivesUp, WriteFails, DialFails, ReconnectQuits, Early
  <2>2. \/ UNCHANGED <<pc, result, expired>>
        \/ \E r \in {"ctx", "quit", "error"} : Finish(op, r)
    BY <1>14 DEF SendGivesUp, WriteFails, DialFails, ReconnectQuits, SendFails
  <2> QED
    BY Zenon, <1>2, <1>13, <2>1, <2>2
<1> QED
  BY Zenon, <1>1, <1>3, <1>4, <1>5, <1>6, <1>7, <1>8, <1>9, <1>10, <1>11, <1>12, <1>13, <1>14
     DEF Next, Caller, Dispatch, vars, ReadFails, Close, CloseReturn, Break

ClientInv ==
  /\ ClientTypes /\ Locked /\ AskedOnce /\ Open /\ Connected /\ Tabled
  /\ Waiters /\ Cleared /\ Owned

LEMMA ClientInvariant == Spec => []ClientInv
<1>0. 1 \in Conns
  BY RpcClientAssumptions DEF Conns
<1>1. ASSUME Init PROVE ClientTypes
  <2>1. /\ pc \in [Ops -> Early \cup {"wait", "timeout", "done"}]
        /\ result \in [Ops -> {"none", "ok", "error", "ctx", "quit"}]
        /\ resp \in [Ops -> {"open", "msg", "closed"}]
        /\ err \in [Ops -> BOOLEAN]
        /\ link \in [Conns -> {"up", "broken", "closed"}]
    BY Zenon, <1>1 DEF Init, Early
  <2>2. /\ reading \in BOOLEAN /\ locked \in BOOLEAN
        /\ dpc = "loop" /\ reader = "reading" /\ reqSent = "none"
    BY Zenon, <1>1 DEF Init
  <2>3. /\ expired \subseteq Ops /\ respWait \subseteq Ops /\ clientSubs \subseteq Ops
        /\ asked \subseteq Conns \X Ops
        /\ dialled \in Conns /\ conn \in Conns /\ newcodec \in Conns
        /\ writeConn \in Conns \cup {0}
        /\ got \in Ops \cup {NoOp} /\ lastOp \in Ops \cup {NoOp}
    BY Zenon, <1>0, <1>1 DEF Init
  <2> QED
    BY Zenon, <2>1, <2>2, <2>3 DEF ClientTypes
<1>6. Init => Locked /\ Connected
  BY <1>0, RpcClientAssumptions DEF Init, Locked, WriterIsLastOp, Connected
<1>2. Init => AskedOnce /\ Owned
  BY RpcClientAssumptions DEF Init, AskedOnce, Asked, Owned, OwnedBy, Early
<1>3. Init => Open /\ Tabled /\ Waiters /\ Cleared
  BY DEF Init, Open, PendingOpen, Tabled, Waiters, WaitersKnown, Cleared, Writing
<1>4. ClientInv /\ [Next]_vars => ClientInv'
  BY Zenon, StepTypes, StepLocked, StepAskedOnce, StepOpen, StepConnected, StepTabled,
     StepWaiters, StepCleared, StepOwned DEF ClientInv
<1>5. Init => ClientInv
  BY Zenon, <1>1, <1>2, <1>3, <1>6 DEF ClientInv
<1> QED
  BY <1>4, <1>5, PTL DEF Spec

(* The send lock of dispatch admits one writer, through reconnects and     *)
(* retries: whoever writes is the request dispatch would re-register.      *)
THEOREM OneWriter == Spec => []WriterIsLastOp
<1>1. ClientInv => WriterIsLastOp
  BY Zenon DEF ClientInv, Locked
<1> QED
  BY <1>1, ClientInvariant, PTL

(* No response channel is closed twice, sent on after it was closed, or    *)
(* sent on when full.                                                      *)
THEOREM ChannelsUsedOnce == Spec => []PendingOpen
<1>1. ClientInv => PendingOpen
  BY Zenon DEF ClientInv, Open
<1> QED
  BY <1>1, ClientInvariant, PTL

(* handleResponse finds the request of every answer whose caller waits.    *)
THEOREM AnswersArrive == Spec => []AnswerFindsCaller
<1>1. ClientInv => AnswerFindsCaller
  <2> SUFFICES ASSUME ClientInv, dpc = "loop", reader = "msg", pc[got] = "wait"
               PROVE  got \in respWait
    BY Zenon DEF AnswerFindsCaller
  <2>1. reading
    BY DEF ClientInv, ClientTypes, Connected
  <2>2. got \in Ops
    BY DEF ClientInv, AskedOnce
  <2> QED
    BY Zenon, <2>1, <2>2 DEF ClientInv, Tabled
<1> QED
  BY <1>1, ClientInvariant, PTL

(* A waiting caller is in the table, answered, moved, or was in flight     *)
(* when dispatch handled the read error of its connection.                 *)
THEOREM WaitersAreKnown == Spec => []WaitersKnown
<1>1. ClientInv => WaitersKnown
  BY Zenon DEF ClientInv, Waiters
<1> QED
  BY <1>1, ClientInvariant, PTL

(* A running subscription was handed to its caller, is about to be, or its *)
(* caller's context ended first.                                           *)
THEOREM SubscriptionsOwned == Spec => []SubsOwned
<1>1. ClientInv => SubsOwned
  BY Zenon DEF ClientInv, ClientTypes, Owned, OwnedBy, SubsOwned
<1> QED
  BY <1>1, ClientInvariant, PTL
=============================================================================
