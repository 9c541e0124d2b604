--------------------------- MODULE MCDistribution ---------------------------
(* Receipts of up to MaxLogs logs over four addresses in six spellings.    *)
EXTENDS Distribution

CONSTANT MaxLogs

Spellings == {"a", "A", "b", "B", "c", "d"}
Lower == [x \in Spellings |->
            CASE x \in {"a", "A"} -> "a" [] x \in {"b", "B"} -> "b" [] OTHER -> x]
Names == {"token", "Token", "land", "Land", ""}
Folded == [x \in Names |->
             CASE x \in {"token", "Token"} -> "token"
               [] x \in {"land", "Land"} -> "land" [] OTHER -> x]

(* Four contracts configured: two in lower case, one with an upper-case    *)
(* letter, one with an empty name; a prefix that comes twice, one that is  *)
(* empty.                                                                  *)
Configured == [x \in {"a", "B", "c", "d"} |->
                 CASE x = "a" -> "token" [] x \in {"B", "c"} -> "land" [] OTHER -> ""]
Prefixes == <<"Land", "Token", "token", "">>

Sample == UNION {[1 .. k -> Log] : k \in 0 .. MaxLogs}
SampleReceipts == [Logs : Sample, Solidity : BOOLEAN]
=============================================================================
