---------------------------- MODULE Distribution ----------------------------
(***************************************************************************)
(* What becomes of one receipt: Polling.RunBeforePushMiddleware and        *)
(* Polling.ReceiptDistribution of scan/scan.go, FilterBlock.Do and         *)
(* TronSolidityProcess of services/scan.go.                                *)
(*                                                                         *)
(* Addresses and names are abstract; their spellings in upper and lower    *)
(* case are told apart, for the code lower-cases some of them.  The body   *)
(* of a log stands for its data and topics, which the code joins into the  *)
(* key it deduplicates by (topics have a fixed width, so that the join     *)
(* separates them).                                                        *)
(***************************************************************************)
EXTENDS Naturals, Sequences

CONSTANTS
  Address,              \* spellings of contract addresses
  Body,                 \* data and topics of a log
  Name,                 \* spellings of contract names and method prefixes
  ToLower,              \* [Address -> Address], strings.ToLower
  Fold,                 \* [Name -> Name], equal for names equal under folding
  ContractsName,        \* [S -> Name] with S a subset of Address: the map
  CallbackMethodPrefix, \* Seq(Name)
  Receipts,             \* the receipts to distribute: records as below
  Middlewares           \* number of BeforePushMiddleware functions

Log == [address : Address, body : Body]

ASSUME DistributionAssumptions ==
  /\ ToLower \in [Address -> Address]
  /\ \A a \in Address : ToLower[ToLower[a]] = ToLower[a]
  /\ Fold \in [Name -> Name]
  /\ DOMAIN ContractsName \subseteq Address
  /\ \A a \in DOMAIN ContractsName : ContractsName[a] \in Name
  /\ CallbackMethodPrefix \in Seq(Name)
  /\ Receipts \subseteq [Logs : Seq(Log), Solidity : BOOLEAN]
  /\ Middlewares \in Nat

VARIABLES
  receipt, \* the receipt, as the code goes on with it
  given,   \* history: the receipt's logs as they came
  pc,
  n,       \* index of the loop at hand
  logs,    \* the logs kept so far
  exist,   \* the map exist: keys of logs and, later, addresses
  done,    \* history: <<address, prefix>> of the calls of fb.Do, in order
  jobs,    \* history: the calls of Do that enqueued a job
  invoked  \* history: the calls of Do that ran the callback's method

vars == <<receipt, given, pc, n, logs, exist, done, jobs, invoked>>

(* strings.EqualFold finds the first prefix that is the contract's name.   *)
Matches(name) ==
  {k \in 1 .. Len(CallbackMethodPrefix) :
     Fold[CallbackMethodPrefix[k]] = Fold[name]}

First(K) == CHOOSE k \in K : \A m \in K : k <= m

(* Mutant: an empty name taken for one.                                    *)
SelectedEmpty(a) ==
  /\ ToLower[a] \in DOMAIN ContractsName
  /\ Matches(ContractsName[ToLower[a]]) # {}

(* The map is looked up with the lower-case spelling; an entry whose name  *)
(* is empty is like none.                                                  *)
Selected(a) ==
  /\ ToLower[a] \in DOMAIN ContractsName
  /\ ContractsName[ToLower[a]] # ""
  /\ Matches(ContractsName[ToLower[a]]) # {}

PrefixFor(a) ==
  CallbackMethodPrefix[First(Matches(ContractsName[ToLower[a]]))]

(* Mutants: the address as it is spelled; a key without data and topics;   *)
(* one that is taken for an address, which the same map holds.             *)
SeenSpelling(a) == <<a>>
KeyNoBody(l) == <<ToLower[l.address], "">>
KeyAddress(l) == <<ToLower[l.address]>>

(* The map exist holds keys "address_data_topics" and, later, addresses:   *)
(* the parts of the text between its '_', of which addresses have none.    *)
Seen(a) == <<ToLower[a]>>
Key(l) == <<ToLower[l.address], l.body>>

Init ==
  /\ receipt \in Receipts
  /\ given = receipt.Logs
  /\ pc = "middleware"
  /\ n = 1
  /\ logs = <<>>
  /\ exist = {}
  /\ done = <<>>
  /\ jobs = {}
  /\ invoked = {}

(* The n-th middleware answers; the first that refuses ends it.            *)
RunBeforePushMiddleware ==
  /\ pc = "middleware"
  /\ \/ /\ n <= Middlewares
        /\ n' = n + 1
        /\ UNCHANGED pc
     \/ /\ n <= Middlewares
        /\ pc' = "refused"
        /\ UNCHANGED n
     \/ /\ n > Middlewares
        /\ pc' = "dedup"
        /\ n' = 1
  /\ UNCHANGED <<receipt, given, logs, exist, done, jobs, invoked>>

Dedup ==
  /\ pc = "dedup"
  /\ n <= Len(receipt.Logs)
  /\ LET l == receipt.Logs[n]
     IN  \/ /\ Key(l) \in exist
            /\ UNCHANGED <<logs, exist>>
         \/ /\ Key(l) \notin exist
            /\ exist' = exist \cup {Key(l)}
            /\ logs' = Append(logs, l)
  /\ n' = n + 1
  /\ UNCHANGED <<receipt, given, pc, done, jobs, invoked>>

(* Past the first loop; a receipt without logs is left alone.              *)
Deduped ==
  /\ pc = "dedup"
  /\ n > Len(receipt.Logs)
  /\ \/ /\ Len(receipt.Logs) < 1
        /\ pc' = "end"
        /\ UNCHANGED <<receipt, n>>
     \/ /\ Len(receipt.Logs) >= 1
        /\ receipt' = [receipt EXCEPT !.Logs = logs]
        /\ pc' = "dispatch"
        /\ n' = 1
  /\ UNCHANGED <<given, logs, exist, done, jobs, invoked>>

(* TronSolidityProcess looks the callback's method up through the          *)
(* interface{} variable that holds the callback: the methods of the type   *)
(* interface{}, not of the object's.                                       *)
MethodsFound == {}

TronSolidityProcess(call) ==
  invoked' = IF call[2] \in MethodsFound THEN invoked \cup {call} ELSE invoked

(* FilterBlock.Do: with Solidity a job is enqueued.  An Enqueue that fails *)
(* is an error ReceiptDistribution drops.                                  *)
Do(call) ==
  /\ done' = Append(done, call)
  /\ \/ /\ receipt.Solidity
        /\ jobs' \in {jobs, jobs \cup {call}}
        /\ UNCHANGED invoked
     \/ /\ ~receipt.Solidity
        /\ TronSolidityProcess(call)
        /\ UNCHANGED jobs

Dispatch ==
  /\ pc = "dispatch"
  /\ n <= Len(receipt.Logs)
  /\ LET a == receipt.Logs[n].address
     IN  \/ /\ Seen(a) \in exist
            /\ UNCHANGED <<exist, done, jobs, invoked>>
         \/ /\ Seen(a) \notin exist
            /\ exist' = exist \cup {Seen(a)}
            /\ \/ Selected(a) /\ Do(<<ToLower[a], PrefixFor(a)>>)
               \/ ~Selected(a) /\ UNCHANGED <<done, jobs, invoked>>
  /\ n' = n + 1
  /\ UNCHANGED <<receipt, given, pc, logs>>

Dispatched ==
  /\ pc = "dispatch"
  /\ n > Len(receipt.Logs)
  /\ pc' = "end"
  /\ UNCHANGED <<receipt, given, n, logs, exist, done, jobs, invoked>>

Next ==
  RunBeforePushMiddleware \/ Dedup \/ Deduped \/ Dispatch \/ Dispatched

Spec == Init /\ [][Next]_vars

-----------------------------------------------------------------------------
(* Two logs the application cannot tell apart.                             *)
SameEvent(l, m) == ToLower[l.address] = ToLower[m.address] /\ l.body = m.body

(* Deduplication keeps one log of every event, and the order of the first  *)
(* occurrences: for each kept log, the logs kept before it stand before it *)
(* in the receipt, and every log before its first occurrence is kept.      *)
DedupKeepsEvents ==
  pc \in {"dispatch", "end"} =>
    /\ \A i \in 1 .. Len(given) :
         \E k \in 1 .. Len(logs) : SameEvent(given[i], logs[k])
    /\ \A k, m \in 1 .. Len(logs) : SameEvent(logs[k], logs[m]) => k = m
    /\ \A k, m \in 1 .. Len(logs) :
         k < m =>
           \E i, j \in 1 .. Len(given) :
             /\ i < j /\ given[i] = logs[k] /\ given[j] = logs[m]
             /\ \A h \in 1 .. j - 1 : ~SameEvent(given[h], logs[m])

(* Each contract address of a receipt is dispatched at most once, however  *)
(* many of its logs and spellings the receipt has.                         *)
DispatchOnce ==
  \A k, m \in 1 .. Len(done) : done[k][1] = done[m][1] => k = m

(* An entry of ContractsName that is dispatched when its contract has a    *)
(* log: its address is written in lower case, and its name is a prefix.    *)
Dispatchable(k) ==
  /\ ToLower[k] = k
  /\ ContractsName[k] # ""
  /\ Matches(ContractsName[k]) # {}

(* In the end exactly the entries of ContractsName that are written in     *)
(* lower case and whose contract has a log in the receipt were dispatched, *)
(* each with the first method prefix that is its name: however the logs    *)
(* spell the address, and deduplication hides none of them.  The exception *)
(* is what ReceiptDistribution does less than its configuration says: an   *)
(* entry whose address has an upper-case letter, as both entries of the    *)
(* README's example have, is never looked up and never dispatched.         *)
DispatchComplete ==
  pc = "end" =>
    {done[k] : k \in 1 .. Len(done)} =
      {<<a, PrefixFor(a)>> :
         a \in {b \in DOMAIN ContractsName :
                  /\ Dispatchable(b)
                  /\ \E i \in 1 .. Len(given) : ToLower[given[i].address] = b}}

(* The callback object's method runs for every dispatched contract of a    *)
(* receipt that is not enqueued (README: the object returned by            *)
(* GetCallbackFunc must have the method).                                  *)
CallbackInvoked ==
  pc = "end" /\ ~receipt.Solidity => invoked = {done[k] : k \in 1 .. Len(done)}
=============================================================================
