------------------------------ MODULE Handler ------------------------------
(***************************************************************************)
(* What the server answers: the classification of JSON-RPC messages        *)
(* (util/rpc/json.go), the handling of single messages and batches         *)
(* (handler.go), the lookup of methods (service.go) and the parsing of     *)
(* positional arguments, down to the types of types.go.                    *)
(*                                                                         *)
(* dispatch hands over one frame at a time, a message or a batch; each     *)
(* frame with something to call gets a call goroutine, which handles its   *)
(* calls in order and writes one reply.  The methods themselves, that of   *)
(* *_unsubscribe included, return a result or an error.  Registering and   *)
(* activating subscriptions is in Notifier.                                *)
(***************************************************************************)
EXTENDS ValueTypes, Sequences

CONSTANTS
  Methods,   \* what reflection finds on the registered object: a set of
             \* [name, exported, in, out], in without the receiver
  Values,    \* the JSON values that are sent as arguments
  Messages,  \* the messages that peers send
  Sessions,  \* sequences of frames [batch, msgs] with them
  MaxFrames  \* bound: frames read on a connection

VARIABLES
  allowSubscribe, \* FALSE over HTTP
  received,       \* the frames read by dispatch
  looked,         \* how many messages of the last one it has looked at
  immediate,      \* those that handleImmediate has handled: [frame, at]
  procs,          \* the call goroutine of each frame: [calls, answers, running],
                  \* where a call is the place of its message in the frame
  wire            \* the replies written: [frame, batch, answers]

handlerVars == <<allowSubscribe, received, looked, immediate, procs, wire>>

-----------------------------------------------------------------------------
(* Messages are [id, method, params, result], where params are [kind,      *)
(* args].  Absent fields are NoId, "", the kind "none" and FALSE; BadId    *)
(* stands for an object or an array.  A method is "*_subscribe",           *)
(* "*_unsubscribe", "*_subscription" or the name of an ordinary one.       *)
NoId == 0
BadId == -1

ASSUME HandlerAssumptions ==
  /\ MaxFrames \in Nat
  /\ \A m \in Methods : m.exported \in BOOLEAN /\ m.in \in Seq(STRING)
                        /\ m.out \in Seq({"val", "err", "sub"})
  /\ \A m, n \in Methods : m.name = n.name => m = n
  /\ \A v \in Values :
       /\ v.json = "null" => v = Null
       /\ v.json = "number" => v = Number(v.text.n)
       /\ v.json = "string" => v = String(v.text)
       /\ \A w \in {v} \cup {v.members[k] : k \in DOMAIN v.members} :
            /\ w.text.form = "hex" => w.text.n \in Nat
            /\ w.text.form = "dec" => w.text.n \in Int
  /\ \A m \in Messages :
       /\ m.id \in Nat \cup {BadId} /\ m.params.args \in Seq(Values)
       /\ m.params.kind # "array" => m.params.args = <<>>
  /\ Sessions \subseteq Seq([batch : BOOLEAN, msgs : Seq(Messages)])
  /\ \A s \in Sessions :
       /\ Len(s) <= MaxFrames
       /\ \A i \in 1 .. Len(s) : ~s[i].batch => Len(s[i].msgs) = 1

hasValidID(m) == m.id \notin {NoId, BadId}
isNotification(m) == m.id = NoId /\ m.method # ""
isCall(m) == hasValidID(m) /\ m.method # ""
(* Mutant: an answer may not carry params, and need not carry a result.    *)
isResponseLax(m) == hasValidID(m) /\ m.method = "" /\ m.params.kind = "none"
isResponse(m) ==
  hasValidID(m) /\ m.method = "" /\ m.params.kind = "none" /\ m.result

handleImmediate(m) ==
  \/ isNotification(m) /\ m.method = "*_subscription"
  \/ isResponse(m)

-----------------------------------------------------------------------------
(* The registry. *)

hasCtx(m) == m.in # <<>> /\ Head(m.in) = "ctx"
argTypes(m) == IF hasCtx(m) THEN Tail(m.in) ELSE m.in
isPubSub(m) == hasCtx(m) /\ m.out = <<"sub", "err">>

(* newCallback returns nil for other results than these.                   *)
newCallback(m) ==
  \/ Len(m.out) < 2
  \/ Len(m.out) = 2 /\ m.out[1] # "err" /\ m.out[2] = "err"

(* Mutant: methods that are not exported are registered too.               *)
suitableCallbacksAll == {m \in Methods : newCallback(m)}
suitableCallbacks == {m \in Methods : m.exported /\ newCallback(m)}

callback(name) == {m \in suitableCallbacks : m.name = name /\ ~isPubSub(m)}
subscription(name) == {m \in suitableCallbacks : m.name = name /\ isPubSub(m)}

-----------------------------------------------------------------------------
(* Positional arguments are of the kind "none", "null", "array" or "other" *)
(* (no array); only an array has args, which are JSON values.  A "ptr" is  *)
(* a *int: a set of at most one number, nil the empty one.                 *)
nil == {}

(* json.Unmarshal into a zero value of type t, which null leaves as it is  *)
(* (but an UnmarshalJSON gets to see it).                                  *)
Decode(v, t) ==
  CASE t = "BlockNumber" -> UnmarshalBlockNumber(v)
    [] t = "BlockNumberOrHash" -> UnmarshalBlockNumberOrHash(v)
    [] t = "DecimalOrHex" -> UnmarshalDecimalOrHex(v)
    [] t = "int" /\ v.json \in {"number", "null"} -> {v.text.n}
    [] t = "ptr" /\ v.json \in {"number", "null"} -> {IF v = Null THEN nil ELSE {v.text.n}}
    [] t = "string" /\ v.json \in {"string", "null"} ->
         {IF v = Null THEN Word("") ELSE v.text}
    [] OTHER -> {}

(* The check for null looks at the pointer it has just made: it never      *)
(* finds one.                                                              *)
parseArgumentArray(args, types) ==
  IF /\ Len(args) <= Len(types)
     /\ \A i \in 1 .. Len(args) : Decode(args[i], types[i]) # {}
  THEN {[i \in 1 .. Len(args) |-> CHOOSE x \in Decode(args[i], types[i]) : TRUE]}
  ELSE {}

(* Missing arguments must be optional, that is pointers, and become nil.   *)
(* Mutant: the first missing one is not looked at.                         *)
parsePositionalArgumentsShort(params, types) ==
  {args \o [i \in 1 .. Len(types) - Len(args) |-> nil] :
     args \in {a \in parseArgumentArray(params.args, types) :
                 /\ params.kind # "other"
                 /\ \A i \in Len(a) + 2 .. Len(types) : types[i] = "ptr"}}
parsePositionalArguments(params, types) ==
  {args \o [i \in 1 .. Len(types) - Len(args) |-> nil] :
     args \in {a \in parseArgumentArray(params.args, types) :
                 /\ params.kind # "other"
                 /\ \A i \in Len(a) + 1 .. Len(types) : types[i] = "ptr"}}

(* parseSubscriptionName: an array whose first value is a string.          *)
parseSubscriptionName(params) ==
  params.kind = "array" /\ params.args # <<>> /\ Head(params.args).json = "string"

-----------------------------------------------------------------------------
(* What a call comes to: the outcomes it can have, with the arguments that *)
(* a method was run with.                                                  *)

Error(kind) == {[kind |-> kind, args |-> <<>>]}
runMethod(args) == {[kind |-> kind, args |-> args] : kind \in {"result", "failed"}}

(* Mutant: the name stays in front of the arguments.                       *)
SubscriptionArgsAll(args) == args
SubscriptionArgs(args) == Tail(args)

handleSubscribe(m) ==
  IF ~allowSubscribe THEN Error("unsupported")
  ELSE IF ~parseSubscriptionName(m.params) THEN Error("invalid params")
  ELSE LET cbs == subscription(Head(m.params.args).text.word)
           parsed == UNION {parsePositionalArguments(m.params, <<"string">> \o argTypes(cb)) :
                              cb \in cbs}
       IN IF cbs = {} THEN Error("subscription not found")
          ELSE IF parsed = {} THEN Error("invalid params")
          ELSE UNION {runMethod(SubscriptionArgs(args)) : args \in parsed}

handleCall(m) ==
  LET types == IF m.method = "*_unsubscribe" THEN {<<"string">>}
               ELSE {argTypes(cb) : cb \in callback(m.method)}
      parsed == UNION {parsePositionalArguments(m.params, t) : t \in types}
  IN IF m.method = "*_subscribe" THEN handleSubscribe(m)
     ELSE IF types = {} THEN Error("method not found")
     ELSE IF parsed = {} THEN Error("invalid params")
     ELSE UNION {runMethod(args) : args \in parsed}

(* The answer to a message, none for a notification; null ids are NoId.    *)
(* As history, it has the message's place in its frame and the arguments.  *)
Answer(m, i, outcome) ==
  IF isNotification(m) THEN <<>>
  ELSE <<[id |-> IF hasValidID(m) THEN m.id ELSE NoId,
          kind |-> outcome.kind, args |-> outcome.args, of |-> i]>>

Outcomes(m) ==
  IF isNotification(m) \/ isCall(m) THEN handleCall(m) ELSE Error("invalid request")

-----------------------------------------------------------------------------
HandlerInit ==
  /\ allowSubscribe \in BOOLEAN
  /\ received = <<>>
  /\ looked = 0
  /\ immediate = <<>>
  /\ procs = <<>>
  /\ wire = <<>>

(* What the peer may send next.                                            *)
NextFrames ==
  {s[Len(received) + 1] :
     s \in {t \in Sessions : Len(t) > Len(received)
                             /\ SubSeq(t, 1, Len(received)) = received}}

LookedAt(n, i) == n < Len(received) \/ i <= looked
AllLookedAt(n) == \A i \in 1 .. Len(received[n].msgs) : LookedAt(n, i)

(* serveSingleRequest reads one frame, Client.read one after the other;    *)
(* dispatch takes the next when it is done with the last.                  *)
Reads(f) ==
  /\ Len(received) < IF allowSubscribe THEN MaxFrames ELSE 1
  /\ \A n \in 1 .. Len(received) : AllLookedAt(n)
  /\ received' = Append(received, f)
  /\ UNCHANGED <<allowSubscribe, wire>>

StartCallProc(calls, answers, running) ==
  procs' = Append(procs, [calls |-> calls, answers |-> answers, running |-> running])

EmptyBatch == [id |-> NoId, kind |-> "invalid request", args |-> <<>>, of |-> 0]

(* handleBatch.  An empty batch is answered with an error.                 *)
HandleBatch(f) ==
  /\ f.batch
  /\ Reads(f)
  /\ looked' = 0
  /\ IF f.msgs = <<>> THEN StartCallProc(<<>>, <<EmptyBatch>>, TRUE)
     ELSE StartCallProc(<<>>, <<>>, FALSE)
  /\ UNCHANGED immediate

(* Its loop over the messages, which handles what is not a call; the rest  *)
(* is for a goroutine, started at the end if there is any.                 *)
Loop(at, calls) ==
  LET n == Len(received)
      msgs == received[n].msgs
  IN /\ received # <<>>
     /\ looked < Len(msgs)
     /\ looked' = looked + 1
     /\ immediate' = IF handleImmediate(msgs[at])
                     THEN Append(immediate, [frame |-> n, at |-> at]) ELSE immediate
     /\ procs' = [procs EXCEPT ![n].calls = calls,
                               ![n].running = looked + 1 = Len(msgs) /\ calls # <<>>]
     /\ UNCHANGED <<allowSubscribe, received, wire>>

LastFrame == received[Len(received)].msgs
Calls == procs[Len(procs)].calls

(* Mutants: the batch is gone through from its end; what handleImmediate   *)
(* has handled is called as well; what comes before it is forgotten.       *)
BatchLoopBackwards ==
  LET at == Len(LastFrame) - looked
  IN Loop(at, IF handleImmediate(LastFrame[at]) THEN Calls ELSE <<at>> \o Calls)
BatchLoopAll == Loop(looked + 1, Append(Calls, looked + 1))
BatchLoopForgets ==
  Loop(looked + 1, IF handleImmediate(LastFrame[looked + 1]) THEN <<>>
                   ELSE Append(Calls, looked + 1))
BatchLoop ==
  Loop(looked + 1, IF handleImmediate(LastFrame[looked + 1]) THEN Calls
                   ELSE Append(Calls, looked + 1))

HandleMsg(f) ==
  /\ ~f.batch
  /\ Reads(f)
  /\ looked' = 1
  /\ IF handleImmediate(Head(f.msgs))
     THEN /\ immediate' = Append(immediate, [frame |-> Len(received) + 1, at |-> 1])
          /\ StartCallProc(<<>>, <<>>, FALSE)
     ELSE UNCHANGED immediate /\ StartCallProc(<<1>>, <<>>, TRUE)

(* handleCallMsg for the next call of frame n.                             *)
HandleCallMsg(n) ==
  /\ procs[n].running /\ procs[n].calls # <<>>
  /\ LET i == Head(procs[n].calls)
         m == received[n].msgs[i]
     IN \E outcome \in Outcomes(m) :
          procs' = [procs EXCEPT ![n].calls = Tail(@), ![n].answers = @ \o Answer(m, i, outcome)]
  /\ UNCHANGED <<allowSubscribe, received, looked, immediate, wire>>

(* Mutant: the answers to a batch are written one by one.                  *)
WriteAnswersSingly(n) ==
  /\ procs[n].running /\ procs[n].calls = <<>>
  /\ procs' = [procs EXCEPT ![n].running = FALSE]
  /\ wire' = wire \o [i \in 1 .. Len(procs[n].answers) |->
                        [frame |-> n, batch |-> FALSE, answers |-> <<procs[n].answers[i]>>]]
  /\ UNCHANGED <<allowSubscribe, received, looked, immediate>>

(* The answers, as one message, an array if a batch was read (but the      *)
(* error for an empty one is no array).                                    *)
WriteAnswers(n) ==
  /\ procs[n].running /\ procs[n].calls = <<>>
  /\ procs' = [procs EXCEPT ![n].running = FALSE]
  /\ wire' = IF procs[n].answers = <<>> THEN wire
             ELSE Append(wire, [frame |-> n,
                                batch |-> received[n].batch /\ received[n].msgs # <<>>,
                                answers |-> procs[n].answers])
  /\ UNCHANGED <<allowSubscribe, received, looked, immediate>>

Proc(n) == HandleCallMsg(n) \/ WriteAnswers(n)

HandlerNext ==
  \/ \E f \in NextFrames : HandleBatch(f) \/ HandleMsg(f)
  \/ BatchLoop
  \/ \E n \in 1 .. Len(procs) : Proc(n)

(* The loop and the call goroutines run on, and methods return.            *)
HandlerSpec ==
  /\ HandlerInit /\ [][HandlerNext]_handlerVars
  /\ WF_handlerVars(BatchLoop)
  /\ \A n \in 1 .. MaxFrames : WF_handlerVars(n <= Len(procs) /\ Proc(n))

-----------------------------------------------------------------------------
(* Reference: JSON-RPC 2.0 and doc.go, over messages as they are written.  *)
(* A frame is answered for its requests, valid or not, and for nothing     *)
(* else.                                                                   *)
HandedOn(m) ==
  \/ m.id = NoId /\ m.method = "*_subscription"
  \/ m.id > 0 /\ m.method = "" /\ m.params.kind = "none" /\ m.result
Silent(m) == HandedOn(m) \/ (m.id = NoId /\ m.method # "")
Expected(f) == {i \in 1 .. Len(f.msgs) : ~Silent(f.msgs[i])}

MatchesMessage(answer, m) ==
  /\ answer.id = IF m.id > 0 THEN m.id ELSE NoId
  /\ answer.kind = "invalid request" <=> (m.method = "" \/ m.id = BadId)

Matches(batch, answers, f) ==
  IF f.msgs = <<>> THEN Len(answers) = 1 /\ ~batch
  ELSE /\ batch = f.batch
       /\ {answers[i].of : i \in 1 .. Len(answers)} = Expected(f)
       /\ \A i, j \in 1 .. Len(answers) : i < j => answers[i].of < answers[j].of
       /\ \A i \in 1 .. Len(answers) : MatchesMessage(answers[i], f.msgs[answers[i].of])

(* No frame is replied to twice, and every reply answers the requests of   *)
(* its frame and no other message, in their order and under their ids,     *)
(* whatever else is in the batch and however the goroutines interleave;    *)
(* the answers to the server's own calls and the subscription              *)
(* notifications are handed on instead, in the order they were read.       *)
RepliesMatch ==
  /\ \A j, k \in 1 .. Len(wire) : wire[j].frame = wire[k].frame => j = k
  /\ \A k \in 1 .. Len(wire) : Matches(wire[k].batch, wire[k].answers, received[wire[k].frame])
  /\ \A j, k \in 1 .. Len(immediate) :
       j < k => \/ immediate[j].frame < immediate[k].frame
                \/ immediate[j].frame = immediate[k].frame /\ immediate[j].at < immediate[k].at
  /\ {immediate[k] : k \in 1 .. Len(immediate)} =
       UNION {{[frame |-> n, at |-> i] :
                 i \in {h \in 1 .. Len(received[n].msgs) :
                          LookedAt(n, h) /\ HandedOn(received[n].msgs[h])}} :
              n \in 1 .. Len(received)}

Ran(answer) == answer.kind \in {"result", "failed"}

(* doc.go: an argument of type context.Context, which has to be the first, *)
(* is none of the caller's; a method that returns a subscription and takes *)
(* a context is for *_subscribe.                                           *)
Context(p) == IF Len(p.in) > 0 /\ p.in[1] = "ctx" THEN 1 ELSE 0
ForSubscribe(p) == Context(p) = 1 /\ p.out = <<"sub", "err">>
Available(p) ==
  /\ p.exported
  /\ p.out \in {<<>>, <<"err">>} \cup UNION {{<<r>>, <<r, "err">>} : r \in {"val", "sub"}}
  /\ ~ForSubscribe(p)

(* A number of a block, and a value for an argument of type t, by their    *)
(* documentation in types.go.                                              *)
IsBlockNumber(text) ==
  \/ text \in {Word("earliest"), Word("latest"), Word("pending")}
  \/ text.form = "hex" /\ text.n <= MaxInt64
IsBlockNumberOrHash(v) ==
  LET number == Member(v, "blockNumber")
      hash == Member(v, "blockHash")
  IN \/ v.json = "string" /\ (v.text.form = "hash" \/ IsBlockNumber(v.text))
     \/ /\ v.json = "object"
        /\ number = Null \/ IsBlockNumber(number.text)
        /\ hash = Null \/ (hash.json = "string" /\ hash.text.form = "hash")
        /\ number = Null \/ hash = Null
Fits(v, t) ==
  CASE t = "BlockNumber" -> IsBlockNumber(v.text)
    [] t = "BlockNumberOrHash" -> IsBlockNumberOrHash(v)
    [] t = "DecimalOrHex" -> v.text.form \in {"dec", "hex"} /\ v.text.n \in 0 .. MaxUint64
    [] t \in {"int", "ptr"} -> v.json = "number"
    [] t = "string" -> v.json = "string"
    [] OTHER -> FALSE

(* A null stands for an optional argument that is left out.  For required  *)
(* ones of these types it is taken too, as their zero value, although      *)
(* parseArgumentArray means to refuse it ("missing value for required      *)
(* argument"): its check never finds a null.                               *)
NullAsZero == {"int", "string", "BlockNumberOrHash"}
Accepted(v, t) == Fits(v, t) \/ (v = Null /\ t \in {"ptr"} \cup NullAsZero)

(* What is there fits, and what is not is optional.                        *)
Takes(p, params) ==
  LET c == Context(p)
      given == params.args
  IN /\ params.kind # "other"
     /\ Len(given) <= Len(p.in) - c
     /\ \A i \in 1 .. Len(p.in) - c :
          IF i <= Len(given) THEN Accepted(given[i], p.in[i + c]) ELSE p.in[i + c] = "ptr"

OnlyExposed(answer, m) ==
  (isCall(m) /\ m.method \notin {"*_subscribe", "*_unsubscribe"}) =>
    (Ran(answer) <=>
       \E p \in Methods : p.name = m.method /\ Available(p) /\ Takes(p, m.params))

(* An ordinary method runs for a call only if doc.go says it is available  *)
(* (exported, with no result, a response or an error, or both), what was   *)
(* sent fits the types of its arguments and none that is required is left  *)
(* out, but for a null in the place of one of the types of NullAsZero;     *)
(* then it does run.                                                       *)
RunsOnlyExposed ==
  \A k \in 1 .. Len(wire) : \A j \in 1 .. Len(wire[k].answers) :
    LET msgs == received[wire[k].frame].msgs
        answer == wire[k].answers[j]
    IN msgs # <<>> => OnlyExposed(answer, msgs[answer.of])

(* Reference: x may be what the sender of v meant, for an argument of type *)
(* t, going by what the types are written as.                              *)
Meant(v, t, x) ==
  CASE t = "BlockNumber" ->
         \A bn \in BlockNumbers : v = String(MarshalText(bn)) => x = bn
    [] t = "BlockNumberOrHash" ->
         /\ x.BlockNumber = {} \/ x.BlockHash = {}
         /\ \A bn \in BlockNumbers :
              v = String(MarshalText(bn)) => x = BlockNumberOrHashWithNumber(bn)
         /\ \A b \in BlockNumberOrHashes : v = MarshalBlockNumberOrHash(b) => x = b
    [] t = "DecimalOrHex" ->
         \A n \in 0 .. MaxUint64 : v.text \in {Dec(n), Hex(n)} => x = n
    [] t = "int" -> v = Number(x) \/ (v = Null /\ x = 0)
    [] t = "ptr" -> \/ v = Null /\ x = nil
                    \/ \E n \in x : v = Number(n)
    [] OTHER -> TRUE

Arrive(answer, p, given) ==
  LET c == Context(p)
  IN /\ Ran(answer) =>
          /\ Len(answer.args) = Len(p.in) - c
          /\ \A i \in 1 .. Len(p.in) - c :
               IF i > Len(given) THEN answer.args[i] = nil
               ELSE Meant(given[i], p.in[i + c], answer.args[i])
     /\ \A bn \in BlockNumbers :
          (Len(p.in) = c + 1 /\ p.in[c + 1] = "BlockNumber"
             /\ given = <<String(MarshalText(bn))>>) =>
            /\ Ran(answer) => bn >= PendingBlockNumber
            /\ answer.kind = "invalid params" => bn < PendingBlockNumber

ArriveFor(answer, m) ==
  LET subscribes == m.method = "*_subscribe" /\ parseSubscriptionName(m.params)
      name == IF subscribes THEN Head(m.params.args).text.word ELSE m.method
      given == IF subscribes THEN Tail(m.params.args) ELSE m.params.args
  IN (isCall(m) /\ m.method # "*_unsubscribe") =>
       \A p \in {q \in Methods : q.name = name} : Arrive(answer, p, given)

(* A method is run with one argument of each of its types, in their order  *)
(* (the name of a subscription is none of them): with what the sender      *)
(* wrote, if it was a block number, a hash or a number, and with nil for   *)
(* what is missing.  Of the block numbers, exactly the negative ones that  *)
(* are no tag are refused: none arrives as another.                        *)
ArgumentsArrive ==
  \A k \in 1 .. Len(wire) : \A j \in 1 .. Len(wire[k].answers) :
    LET msgs == received[wire[k].frame].msgs
        answer == wire[k].answers[j]
    IN msgs # <<>> => ArriveFor(answer, msgs[answer.of])

(* Every frame with a request in it, and every empty batch, is replied to. *)
AllAnswered ==
  \A n \in 1 .. MaxFrames :
    (n <= Len(received) /\ (received[n].msgs = <<>> \/ Expected(received[n]) # {}))
      ~> \E k \in 1 .. Len(wire) : wire[k].frame = n
=============================================================================
