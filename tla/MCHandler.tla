----------------------------- MODULE MCHandler -----------------------------
EXTENDS Handler

(* A method with a required and an optional argument, one with a context   *)
(* and no result, a subscription, three that cannot be called, and one for *)
(* each of the types of types.go.                                          *)
Service ==
  { [name |-> "add", exported |-> TRUE, in |-> <<"int", "ptr">>, out |-> <<"val", "err">>],
    [name |-> "ping", exported |-> TRUE, in |-> <<"ctx">>, out |-> <<>>],
    [name |-> "news", exported |-> TRUE, in |-> <<"ctx", "int">>, out |-> <<"sub", "err">>],
    [name |-> "hidden", exported |-> FALSE, in |-> <<>>, out |-> <<"val">>],
    [name |-> "swapped", exported |-> TRUE, in |-> <<>>, out |-> <<"err", "val">>],
    [name |-> "many", exported |-> TRUE, in |-> <<>>, out |-> <<"val", "val", "err">>],
    [name |-> "block", exported |-> TRUE, in |-> <<"BlockNumber">>, out |-> <<"val">>],
    [name |-> "code", exported |-> TRUE, in |-> <<"BlockNumberOrHash">>, out |-> <<"val">>],
    [name |-> "fees", exported |-> TRUE, in |-> <<"DecimalOrHex", "ptr">>, out |-> <<"val">>] }

None == [kind |-> "none", args |-> <<>>]
Array(args) == [kind |-> "array", args |-> args]
PlainValues == {Number(1), Null, String(Word("news"))}
AllParams ==
  {[kind |-> k, args |-> <<>>] : k \in {"none", "null", "other"}} \cup
  {Array(args) : args \in {<<>>} \cup {<<u>> : u \in PlainValues}
                          \cup {<<u, v>> : u, v \in PlainValues}
                          \cup {<<u, v, Number(1)>> : u, v \in PlainValues}}

Msg(id, method, params) == [id |-> id, method |-> method, params |-> params, result |-> FALSE]
Response(id) == [id |-> id, method |-> "", params |-> None, result |-> TRUE]
Notification == Msg(NoId, "*_subscription", None)

(* Block numbers and hashes as they are sent, or written by hand: every    *)
(* number, and one that is too large.                                      *)
BlockNumberTexts ==
  {MarshalText(bn) : bn \in BlockNumbers} \cup {Hex(n) : n \in 0 .. MaxUint64 + 1}
OrHashes ==
  {BlockNumberOrHashWithNumber(bn) : bn \in BlockNumbers}
  \cup {BlockNumberOrHashWithHash(1, c) : c \in BOOLEAN}
  \cup {BlockNumberOrHash({}, {}, TRUE), BlockNumberOrHash({1}, {1}, FALSE)}
TypedValues ==
  {Null, String(Word("news")), String(Hash(1)), Number(-1), String(Dec(-1))}
  \cup {String(t) : t \in BlockNumberTexts}
  \cup UNION {{Number(n), String(Dec(n))} : n \in 0 .. MaxUint64 + 1}
  \cup {MarshalBlockNumberOrHash(b) : b \in OrHashes}

(* Every call with every kind of arguments, and messages of every shape.   *)
Singles ==
  {Msg(1, name, params) : name \in {"add", "ping", "hidden", "swapped", "many", "absent",
                                    "*_subscribe", "*_unsubscribe"}, params \in AllParams}
  \cup {Msg(1, name, Array(<<v>>)) : name \in {"block", "code", "fees"}, v \in TypedValues}
  \cup {Msg(1, name, None) : name \in {"block", "code", "fees"}}
  \cup {Msg(id, "", None) : id \in {NoId, BadId, 1}}
  \cup {Msg(NoId, "ping", None), Msg(BadId, "ping", None), Response(1), Notification}
  \cup {[Response(1) EXCEPT !.params = Array(<<>>)]}

Shapes == {Msg(1, "ping", None), Msg(2, "add", None), Msg(NoId, "ping", None),
           Msg(BadId, "ping", None), Msg(3, "", None), Response(1), Notification}

One(m) == [batch |-> FALSE, msgs |-> <<m>>]
Batches == {[batch |-> TRUE, msgs |-> <<>>]} \cup {[batch |-> TRUE, msgs |-> <<a>>] : a \in Shapes}
             \cup {[batch |-> TRUE, msgs |-> <<a, b, c>>] : a, b, c \in Shapes}

AllShapes == {One(m) : m \in Singles} \cup Batches
(* Frames that follow one another on a connection.                         *)
MixedFrames ==
  {One(m) : m \in {Msg(1, "ping", None), Response(1), Notification}}
  \cup {[batch |-> TRUE, msgs |-> <<>>],
        [batch |-> TRUE, msgs |-> <<Notification, Msg(2, "add", None), Response(2)>>],
        [batch |-> TRUE, msgs |-> <<Msg(3, "ping", None), Msg(4, "ping", None)>>]}

AllValues == PlainValues \cup TypedValues
AllMessages == Singles \cup Shapes \cup {Response(2), Msg(3, "ping", None), Msg(4, "ping", None)}

(* One frame of any shape, or three that follow one another.               *)
AllSessions == {<<f>> : f \in AllShapes} \cup {<<f, g, h>> : f, g, h \in MixedFrames}
=============================================================================
