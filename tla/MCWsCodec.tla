----------------------------- MODULE MCWsCodec -----------------------------
EXTENDS WsCodec

(* Pongs due before the next ping, and after it as with the defaults.      *)
ShortAndLong == {[ping |-> 3, pong |-> 2, write |-> 1], [ping |-> 2, pong |-> 3, write |-> 1]}
=============================================================================
