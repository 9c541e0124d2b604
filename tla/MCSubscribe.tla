---------------------------- MODULE MCSubscribe ----------------------------
(* Small instances of Subscribe. *)
EXTENDS Subscribe

CONSTANTS t1, t2

(* Logs of t1 in the first block, of t2 three blocks later: more than a    *)
(* window.                                                                 *)
LogsApart == <<<<t1>>, << >>, << >>, <<t2>>>>
BlocksApart == [tx \in Tx |-> IF tx = t1 THEN 1 ELSE 4]

(* A log of t1, two blocks later two of t2, whose receipt's BlockNumber    *)
(* does not parse.                                                         *)
LogsTwice == <<<<t1>>, << >>, <<t2, t2>>>>
BlocksTwice == [tx \in Tx |-> IF tx = t1 THEN 1 ELSE 0]
=============================================================================
