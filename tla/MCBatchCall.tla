---------------------------- MODULE MCBatchCall ----------------------------
EXTENDS BatchCall

(* Up to one answer too many: repeated, left out, in any order, and with   *)
(* an id that was never sent.                                              *)
AnyAnswers == UNION {[1 .. k -> 1 .. N + 1] : k \in 0 .. N + 1}
=============================================================================
