------------------------- MODULE DistributionProofs -------------------------
(***************************************************************************)
(* Proofs about Distribution, for receipts of any length, any spelling of  *)
(* addresses and any configuration: deduplication keeps one log of every   *)
(* event in order, and the contracts configured in lower case are          *)
(* dispatched, each once.                                                  *)
(***************************************************************************)
EXTENDS Distribution, SequenceTheorems, TLAPS

Call(a) == <<ToLower[a], PrefixFor(a)>>

Calls == {Call(a) : a \in Address}

(* Deduplication has looked at the first m logs of the receipt.            *)
KeptUpTo(all, kept, m) ==
  /\ \A i \in 1 .. m : \E k \in 1 .. Len(kept) : SameEvent(all[i], kept[k])
  /\ \A k \in 1 .. Len(kept) : \E i \in 1 .. m : all[i] = kept[k]
  /\ \A k, l \in 1 .. Len(kept) :
       k < l =>
         \E i, j \in 1 .. m :
           /\ i < j /\ all[i] = kept[k] /\ all[j] = kept[l]
           /\ \A h \in 1 .. j - 1 : ~SameEvent(all[h], kept[l])

(* The map exist while it holds keys of logs only.                         *)
KeysOfLogs ==
  /\ \A x \in exist : \E k \in 1 .. Len(logs) : x = Key(logs[k])
  /\ \A k \in 1 .. Len(logs) : Key(logs[k]) \in exist

(* The second loop has looked at the first m of the logs kept.             *)
DispatchedUpTo(kept, seen, calls, m) ==
  /\ \A a \in Address :
       Seen(a) \in seen <=> \E i \in 1 .. m : ToLower[kept[i].address] = ToLower[a]
  /\ \A k \in 1 .. Len(calls) :
       \E i \in 1 .. m : Selected(kept[i].address) /\ calls[k] = Call(kept[i].address)
  /\ \A i \in 1 .. m :
       Selected(kept[i].address) =>
         \E k \in 1 .. Len(calls) : calls[k] = Call(kept[i].address)
  /\ \A k, l \in 1 .. Len(calls) : calls[k][1] = calls[l][1] => k = l

DistributionTypes ==
  /\ receipt \in [Logs : Seq(Log), Solidity : BOOLEAN]
  /\ given \in Seq(Log) /\ logs \in Seq(Log) /\ done \in Seq(Calls)
  /\ n \in Nat \ {0}
  /\ pc \in {"middleware", "refused", "dedup", "dispatch", "end"}

DistributionInv ==
  /\ DistributionTypes
  /\ pc \in {"middleware", "refused"} =>
       receipt.Logs = given /\ logs = <<>> /\ exist = {} /\ done = <<>>
  /\ pc = "dedup" =>
       /\ receipt.Logs = given /\ n <= Len(given) + 1
       /\ KeptUpTo(given, logs, n - 1) /\ KeysOfLogs /\ done = <<>>
  /\ pc = "dispatch" =>
       /\ receipt.Logs = logs /\ n <= Len(logs) + 1
       /\ KeptUpTo(given, logs, Len(given)) /\ DispatchedUpTo(logs, exist, done, n - 1)
  /\ pc = "end" =>
       KeptUpTo(given, logs, Len(given)) /\ DispatchedUpTo(logs, exist, done, Len(logs))

(* Lower case decides: the contract and its prefix are looked up with it.  *)
LEMMA LowerDecides ==
  ASSUME NEW a \in Address, NEW b \in Address, ToLower[a] = ToLower[b]
  PROVE  (Selected(a) <=> Selected(b)) /\ Call(a) = Call(b)
BY DEF Selected, Call, PrefixFor

(* What the lookup finds is an entry written in lower case, ...            *)
LEMMA SelectedEntry ==
  ASSUME NEW a \in Address, Selected(a)
  PROVE  /\ ToLower[a] \in DOMAIN ContractsName /\ Dispatchable(ToLower[a])
         /\ Call(a) = <<ToLower[a], PrefixFor(ToLower[a])>>
<1>1. ToLower[ToLower[a]] = ToLower[a]
  BY DistributionAssumptions
<1> QED
  BY Zenon, <1>1 DEF Selected, Dispatchable, Call, PrefixFor

(* ... and such an entry is found from every spelling of its address.      *)
LEMMA EntrySelected ==
  ASSUME NEW a \in Address, ToLower[a] \in DOMAIN ContractsName,
         Dispatchable(ToLower[a])
  PROVE  Selected(a) /\ Call(a) = <<ToLower[a], PrefixFor(ToLower[a])>>
BY Zenon DEF Selected, Dispatchable, Call, PrefixFor

LEMMA KeysTell ==
  ASSUME NEW l, NEW m PROVE Key(l) = Key(m) <=> SameEvent(l, m)
BY DEF Key, SameEvent

LEMMA KeysAreNotAddresses == ASSUME NEW l, NEW a PROVE Key(l) # Seen(a)
BY DEF Key, Seen

LEMMA AddressesOfLogs ==
  ASSUME NEW s \in Seq(Log) PROVE \A i \in 1 .. Len(s) : s[i].address \in Address
<1> SUFFICES ASSUME NEW i \in 1 .. Len(s) PROVE s[i].address \in Address
  OBVIOUS
<1>1. s[i] \in Log
  OBVIOUS
<1> QED
  BY <1>1 DEF Log

(* An empty range: nothing has been looked at.                             *)
LEMMA NothingYet ==
  ASSUME logs = <<>> PROVE KeptUpTo(given, logs, 0) /\ (exist = {} => KeysOfLogs)
<1>1. Len(logs) = 0 /\ 1 .. 0 = {}
  OBVIOUS
<1> QED
  BY <1>1 DEF KeptUpTo, KeysOfLogs

LEMMA DedupStep == DistributionInv /\ Dedup => DistributionInv'
<1> SUFFICES ASSUME DistributionInv, Dedup PROVE DistributionInv'
  OBVIOUS
<1> DEFINE l == given[n]
<1>1. /\ given \in Seq(Log) /\ logs \in Seq(Log) /\ n \in Nat \ {0}
      /\ Len(given) \in Nat /\ Len(logs) \in Nat
  BY DEF DistributionInv, DistributionTypes
<1>2. /\ pc = "dedup" /\ receipt.Logs = given /\ n \in 1 .. Len(given)
      /\ KeptUpTo(given, logs, n - 1) /\ KeysOfLogs /\ done = <<>>
      /\ n' = n + 1 /\ UNCHANGED <<receipt, given, pc, done>>
  BY <1>1 DEF DistributionInv, Dedup
<1>3. DistributionTypes'
  <2>1. l \in Log
    BY <1>1, <1>2
  <2>2. logs' \in {logs, Append(logs, l)}
    BY Zenon, <1>2 DEF Dedup
  <2>3. logs' \in Seq(Log)
    BY <1>1, <2>1, <2>2, AppendProperties
  <2> QED
    BY <1>2, <2>3 DEF DistributionInv, DistributionTypes
<1>4. n' <= Len(given') + 1 /\ n' - 1 = n
  BY <1>1, <1>2
<1>5. CASE Key(l) \in exist
  <2>1. UNCHANGED <<logs, exist>>
    BY Zenon, <1>2, <1>5 DEF Dedup
  <2>2. PICK k0 \in 1 .. Len(logs) : SameEvent(l, logs[k0])
    BY Zenon, <1>2, <1>5, KeysTell DEF KeysOfLogs
  <2>3. \A i \in 1 .. n : i \in 1 .. n - 1 \/ i = n
    BY <1>1
  <2>4. \A i \in 1 .. n - 1 : i \in 1 .. n
    BY <1>1
  <2>5. \A i \in 1 .. n : \E k \in 1 .. Len(logs) : SameEvent(given[i], logs[k])
    BY Zenon, <1>2, <2>2, <2>3 DEF KeptUpTo
  <2>6. /\ \A k \in 1 .. Len(logs) : \E i \in 1 .. n : given[i] = logs[k]
        /\ \A k, m \in 1 .. Len(logs) :
             k < m =>
               \E i, j \in 1 .. n :
                 /\ i < j /\ given[i] = logs[k] /\ given[j] = logs[m]
                 /\ \A h \in 1 .. j - 1 : ~SameEvent(given[h], logs[m])
    <3>1. \A k \in 1 .. Len(logs) : \E i \in 1 .. n : given[i] = logs[k]
      BY Zenon, <1>2, <2>4 DEF KeptUpTo
    <3>2. ASSUME NEW k \in 1 .. Len(logs), NEW m \in 1 .. Len(logs), k < m
          PROVE  \E i, j \in 1 .. n :
                   /\ i < j /\ given[i] = logs[k] /\ given[j] = logs[m]
                   /\ \A h \in 1 .. j - 1 : ~SameEvent(given[h], logs[m])
      <4>1. PICK i \in 1 .. n - 1, j \in 1 .. n - 1 :
              /\ i < j /\ given[i] = logs[k] /\ given[j] = logs[m]
              /\ \A h \in 1 .. j - 1 : ~SameEvent(given[h], logs[m])
        BY Zenon, <1>2, <3>2 DEF KeptUpTo
      <4> QED
        BY Zenon, <2>4, <4>1
    <3> QED
      BY Zenon, <3>1, <3>2
  <2>7. KeptUpTo(given, logs, n - 1)'
    <3>1. KeptUpTo(given, logs, n)
      BY Zenon, <2>5, <2>6 DEF KeptUpTo
    <3> QED
      BY Zenon, <1>2, <1>4, <2>1, <3>1
  <2>8. KeysOfLogs'
    BY Zenon, <1>2, <2>1 DEF KeysOfLogs, Key
  <2> QED
    BY <1>2, <1>3, <1>4, <2>7, <2>8 DEF DistributionInv
<1>6. CASE Key(l) \notin exist
  <2>1. logs' = Append(logs, l) /\ exist' = exist \cup {Key(l)}
    BY Zenon, <1>2, <1>6 DEF Dedup
  <2> DEFINE N == Len(logs) + 1
  <2>2. /\ Len(logs') = N /\ logs'[N] = l
        /\ \A k \in 1 .. Len(logs) : logs'[k] = logs[k]
    BY <1>1, <1>2, <2>1, AppendProperties
  <2>3. \A k \in 1 .. N : k \in 1 .. Len(logs) \/ k = N
    BY <1>1
  <2>4. (\A k \in 1 .. Len(logs) : k \in 1 .. N /\ k < N) /\ N \in 1 .. N
    BY <1>1
  <2>5. /\ \A i \in 1 .. n : i \in 1 .. n - 1 \/ i = n
        /\ \A i \in 1 .. n - 1 : i \in 1 .. n /\ i < n
        /\ n \in 1 .. n
    BY <1>1
  <2>6. \A h \in 1 .. n - 1 : ~SameEvent(given[h], l)
    <3> SUFFICES ASSUME NEW h \in 1 .. n - 1, SameEvent(given[h], l) PROVE FALSE
      OBVIOUS
    <3>1. PICK k \in 1 .. Len(logs) : SameEvent(given[h], logs[k])
      BY Zenon, <1>2 DEF KeptUpTo
    <3>2. SameEvent(logs[k], l)
      BY Zenon, <3>1 DEF SameEvent
    <3> QED
      BY Zenon, <1>2, <1>6, <3>2, KeysTell DEF KeysOfLogs
  <2>7. \A i \in 1 .. n : \E k \in 1 .. N : SameEvent(given[i], logs'[k])
    <3>1. SameEvent(l, l)
      BY DEF SameEvent
    <3> QED
      BY Zenon, <1>2, <2>2, <2>4, <2>5, <3>1 DEF KeptUpTo
  <2>8. \A k \in 1 .. N : \E i \in 1 .. n : given[i] = logs'[k]
    <3>1. \A k \in 1 .. Len(logs) : \E i \in 1 .. n : given[i] = logs[k]
      BY Zenon, <1>2, <2>5 DEF KeptUpTo
    <3>2. given[n] = logs'[N]
      BY Zenon, <2>2
    <3> QED
      BY Zenon, <2>2, <2>3, <2>5, <3>1, <3>2
  <2>9. ASSUME NEW k \in 1 .. N, NEW m \in 1 .. N, k < m
        PROVE  \E i, j \in 1 .. n :
                 /\ i < j /\ given[i] = logs'[k] /\ given[j] = logs'[m]
                 /\ \A h \in 1 .. j - 1 : ~SameEvent(given[h], logs'[m])
    <3>1. k \in 1 .. Len(logs)
      BY <1>1, <2>9
    <3>2. CASE m = N
      <4>1. PICK i \in 1 .. n - 1 : given[i] = logs[k]
        BY Zenon, <1>2, <3>1 DEF KeptUpTo
      <4> QED
        BY Zenon, <2>2, <2>5, <2>6, <3>1, <3>2, <4>1
    <3>3. CASE m \in 1 .. Len(logs)
      <4>1. PICK i \in 1 .. n - 1, j \in 1 .. n - 1 :
              /\ i < j /\ given[i] = logs[k] /\ given[j] = logs[m]
              /\ \A h \in 1 .. j - 1 : ~SameEvent(given[h], logs[m])
        BY Zenon, <1>2, <2>9, <3>1, <3>3 DEF KeptUpTo
      <4> QED
        BY Zenon, <2>2, <2>5, <3>1, <3>3, <4>1
    <3> QED
      BY <2>3, <3>2, <3>3
  <2>10. KeptUpTo(given, logs, n - 1)'
    <3>1. KeptUpTo(given, logs', n)
      <4>1. \A k, m \in 1 .. N :
              k < m =>
                \E i, j \in 1 .. n :
                  /\ i < j /\ given[i] = logs'[k] /\ given[j] = logs'[m]
                  /\ \A h \in 1 .. j - 1 : ~SameEvent(given[h], logs'[m])
        BY Zenon, <2>9
      <4>2. N = Len(logs')
        BY Zenon, <2>2
      <4> HIDE DEF N
      <4> QED
        BY Zenon, <2>7, <2>8, <4>1, <4>2 DEF KeptUpTo
    <3> QED
      BY Zenon, <1>2, <1>4, <3>1
  <2>11. KeysOfLogs'
    <3>1. \A x \in exist' : \E k \in 1 .. N : x = Key(logs'[k])
      <4>1. \A x \in exist : \E k \in 1 .. N : x = Key(logs'[k])
        BY Zenon, <1>2, <2>2, <2>4 DEF KeysOfLogs
      <4>2. Key(l) = Key(logs'[N])
        BY Zenon, <2>2
      <4> QED
        BY Zenon, <2>1, <2>4, <4>1, <4>2
    <3>2. \A k \in 1 .. N : Key(logs'[k]) \in exist'
      BY Zenon, <1>2, <2>1, <2>2, <2>3 DEF KeysOfLogs
    <3> QED
      BY Zenon, <2>2, <3>1, <3>2 DEF KeysOfLogs, Key
  <2> QED
    BY <1>2, <1>3, <1>4, <2>10, <2>11 DEF DistributionInv
<1> QED
  BY <1>5, <1>6

LEMMA DedupedStep == DistributionInv /\ Deduped => DistributionInv'
<1> SUFFICES ASSUME DistributionInv, Deduped PROVE DistributionInv'
  OBVIOUS
<1>1. /\ given \in Seq(Log) /\ logs \in Seq(Log) /\ n \in Nat \ {0}
      /\ Len(given) \in Nat /\ Len(logs) \in Nat
  BY DEF DistributionInv, DistributionTypes
<1>2. /\ receipt.Logs = given /\ n = Len(given) + 1 /\ done = <<>>
      /\ KeptUpTo(given, logs, Len(given)) /\ KeysOfLogs
      /\ UNCHANGED <<given, logs, exist, done>>
  BY <1>1 DEF DistributionInv, Deduped
<1>3. DispatchedUpTo(logs, exist, done, 0)
  <2>1. 1 .. 0 = {} /\ Len(done) = 0
    BY <1>2
  <2>2. \A a \in Address : Seen(a) \notin exist
    BY Zenon, <1>2, KeysAreNotAddresses DEF KeysOfLogs
  <2> QED
    BY Zenon, <2>1, <2>2 DEF DispatchedUpTo
<1>4. CASE Len(given) < 1
  <2>1. pc' = "end" /\ n' = n /\ DistributionTypes'
    BY <1>1, <1>2, <1>4 DEF Deduped, DistributionInv, DistributionTypes
  <2>2. Len(logs) = 0
    <3>1. 1 .. Len(given) = {}
      BY <1>1, <1>4
    <3>2. 1 .. Len(logs) = {}
      BY Zenon, <1>2, <3>1 DEF KeptUpTo
    <3> QED
      BY <1>1, <3>2
  <2> QED
    BY <1>2, <1>3, <2>1, <2>2 DEF DistributionInv
<1>5. CASE Len(given) >= 1
  <2>1. /\ pc' = "dispatch" /\ n' = 1 /\ receipt' = [receipt EXCEPT !.Logs = logs]
    BY <1>1, <1>2, <1>5 DEF Deduped
  <2>2. receipt'.Logs = logs /\ n' - 1 = 0 /\ n' <= Len(logs) + 1
    BY <1>1, <2>1 DEF DistributionInv, DistributionTypes
  <2>3. DistributionTypes'
    BY <1>1, <1>2, <2>1 DEF DistributionInv, DistributionTypes
  <2> QED
    BY <1>2, <1>3, <2>1, <2>2, <2>3 DEF DistributionInv
<1> QED
  BY <1>1, <1>4, <1>5

LEMMA DispatchStep == DistributionInv /\ Dispatch => DistributionInv'
<1> SUFFICES ASSUME DistributionInv, Dispatch PROVE DistributionInv'
  OBVIOUS
<1> DEFINE a == logs[n].address
<1>1. /\ logs \in Seq(Log) /\ n \in Nat \ {0} /\ Len(logs) \in Nat
      /\ done \in Seq(Calls) /\ Len(done) \in Nat
  BY DEF DistributionInv, DistributionTypes
<1>2. /\ pc = "dispatch" /\ receipt.Logs = logs /\ n \in 1 .. Len(logs)
      /\ KeptUpTo(given, logs, Len(given)) /\ DispatchedUpTo(logs, exist, done, n - 1)
      /\ n' = n + 1 /\ UNCHANGED <<receipt, given, pc, logs>>
  BY <1>1 DEF DistributionInv, Dispatch
<1>3. n' <= Len(logs) + 1 /\ n' - 1 = n
  BY <1>1, <1>2
<1>4. \A i \in 1 .. Len(logs) : logs[i].address \in Address
  BY <1>1, AddressesOfLogs
<1>5. /\ \A i \in 1 .. n : i \in 1 .. n - 1 \/ i = n
      /\ \A i \in 1 .. n - 1 : i \in 1 .. n /\ i \in 1 .. Len(logs)
      /\ n \in 1 .. n
  BY <1>1, <1>2
<1>8. \A b \in Address :
        Seen(b) \in exist <=> \E i \in 1 .. n - 1 : ToLower[logs[i].address] = ToLower[b]
  BY Zenon, <1>2 DEF DispatchedUpTo
<1>9. \A k \in 1 .. Len(done) :
        \E i \in 1 .. n - 1 : Selected(logs[i].address) /\ done[k] = Call(logs[i].address)
  BY Zenon, <1>2 DEF DispatchedUpTo
<1>10. \A i \in 1 .. n - 1 :
         Selected(logs[i].address) =>
           \E k \in 1 .. Len(done) : done[k] = Call(logs[i].address)
  BY Zenon, <1>2 DEF DispatchedUpTo
<1>6. CASE Seen(a) \in exist
  <2>1. UNCHANGED <<exist, done>>
    BY Zenon, <1>2, <1>6 DEF Dispatch
  <2>2. PICK i0 \in 1 .. n - 1 : ToLower[logs[i0].address] = ToLower[a]
    BY Zenon, <1>2, <1>4, <1>6, <1>8
  <2>3. (Selected(logs[i0].address) <=> Selected(a)) /\ Call(logs[i0].address) = Call(a)
    BY Zenon, <1>2, <1>4, <1>5, <2>2, LowerDecides
  <2>4. \A b \in Address :
          Seen(b) \in exist <=> \E i \in 1 .. n : ToLower[logs[i].address] = ToLower[b]
    BY Zenon, <1>5, <1>8, <2>2
  <2>5. \A k \in 1 .. Len(done) :
          \E i \in 1 .. n : Selected(logs[i].address) /\ done[k] = Call(logs[i].address)
    BY Zenon, <1>5, <1>9
  <2>6. \A i \in 1 .. n :
          Selected(logs[i].address) =>
            \E k \in 1 .. Len(done) : done[k] = Call(logs[i].address)
    BY Zenon, <1>5, <1>10, <2>3
  <2>7. DispatchedUpTo(logs, exist, done, n)
    BY Zenon, <1>2, <2>4, <2>5, <2>6 DEF DispatchedUpTo
  <2>8. DispatchedUpTo(logs, exist, done, n - 1)'
    BY Zenon, <1>2, <1>3, <2>1, <2>7
  <2>9. DistributionTypes'
    BY <1>2, <2>1 DEF DistributionInv, DistributionTypes
  <2> QED
    BY <1>2, <1>3, <2>8, <2>9 DEF DistributionInv
<1>7. CASE Seen(a) \notin exist
  <2>1. exist' = exist \cup {Seen(a)}
    BY Zenon, <1>2, <1>7 DEF Dispatch
  <2>2. a \in Address
    BY Zenon, <1>2, <1>4
  <2>3. \A b \in Address :
          Seen(b) \in exist' <=> \E i \in 1 .. n : ToLower[logs[i].address] = ToLower[b]
    <3>1. \A b \in Address : Seen(b) = Seen(a) <=> ToLower[a] = ToLower[b]
      BY DEF Seen
    <3> QED
      BY Zenon, <1>5, <1>8, <2>1, <3>1
  <2>4. CASE ~Selected(a)
    <3>1. UNCHANGED done
      BY Zenon, <1>2, <1>7, <2>4 DEF Dispatch
    <3>2. \A k \in 1 .. Len(done) :
            \E i \in 1 .. n : Selected(logs[i].address) /\ done[k] = Call(logs[i].address)
      BY Zenon, <1>5, <1>9
    <3>3. \A i \in 1 .. n :
            Selected(logs[i].address) =>
              \E k \in 1 .. Len(done) : done[k] = Call(logs[i].address)
      BY Zenon, <1>5, <1>10, <2>4
    <3>4. DispatchedUpTo(logs, exist', done, n)
      BY Zenon, <1>2, <2>3, <3>2, <3>3 DEF DispatchedUpTo
    <3>5. DispatchedUpTo(logs, exist, done, n - 1)'
      BY Zenon, <1>2, <1>3, <3>1, <3>4
    <3>6. DistributionTypes'
      BY <1>2, <3>1 DEF DistributionInv, DistributionTypes
    <3> QED
      BY <1>2, <1>3, <3>5, <3>6 DEF DistributionInv
  <2>5. CASE Selected(a)
    <3> DEFINE N == Len(done) + 1
    <3>1. done' = Append(done, Call(a))
      BY Zenon, <1>2, <1>7, <2>5 DEF Dispatch, Do, Call
    <3>2. Call(a) \in Calls
      BY Zenon, <2>2 DEF Calls
    <3>3. /\ done' \in Seq(Calls) /\ Len(done') = N /\ done'[N] = Call(a)
          /\ \A k \in 1 .. Len(done) : done'[k] = done[k]
      BY <1>1, <3>1, <3>2, AppendProperties
    <3>4. /\ \A k \in 1 .. N : k \in 1 .. Len(done) \/ k = N
          /\ \A k \in 1 .. Len(done) : k \in 1 .. N
          /\ N \in 1 .. N
      BY <1>1
    <3> HIDE DEF N
    <3>5. \A k \in 1 .. Len(done) : done[k][1] # Call(a)[1]
      <4> SUFFICES ASSUME NEW k \in 1 .. Len(done), done[k][1] = Call(a)[1] PROVE FALSE
        OBVIOUS
      <4>1. PICK i \in 1 .. n - 1 : done[k] = Call(logs[i].address)
        BY Zenon, <1>9
      <4>2. ToLower[logs[i].address] = ToLower[a]
        BY <4>1 DEF Call
      <4> QED
        BY Zenon, <1>7, <1>8, <2>2, <4>2
    <3>6. \A k \in 1 .. N :
            \E i \in 1 .. n : Selected(logs[i].address) /\ done'[k] = Call(logs[i].address)
      <4>1. \A k \in 1 .. Len(done) :
              \E i \in 1 .. n : Selected(logs[i].address) /\ done[k] = Call(logs[i].address)
        BY Zenon, <1>5, <1>9
      <4>2. \E i \in 1 .. n : Selected(logs[i].address) /\ done'[N] = Call(logs[i].address)
        BY Zenon, <1>5, <2>5, <3>3
      <4>3. \A k \in 1 .. Len(done) :
              \E i \in 1 .. n : Selected(logs[i].address) /\ done'[k] = Call(logs[i].address)
        BY Zenon, <3>3, <4>1
      <4> QED
        BY Zenon, <3>4, <4>2, <4>3
    <3>7. \A i \in 1 .. n :
            Selected(logs[i].address) =>
              \E k \in 1 .. N : done'[k] = Call(logs[i].address)
      <4> SUFFICES ASSUME NEW i \in 1 .. n, Selected(logs[i].address)
                   PROVE  \E k \in 1 .. N : done'[k] = Call(logs[i].address)
        OBVIOUS
      <4>1. CASE i = n
        BY Zenon, <3>3, <3>4, <4>1
      <4>2. CASE i \in 1 .. n - 1
        BY Zenon, <1>10, <3>3, <3>4, <4>2
      <4> QED
        BY Zenon, <1>5, <4>1, <4>2
    <3>8. \A k, l \in 1 .. N : done'[k][1] = done'[l][1] => k = l
      <4>1. \A k, l \in 1 .. Len(done) : done[k][1] = done[l][1] => k = l
        BY Zenon, <1>2 DEF DispatchedUpTo
      <4>2. \A k, l \in 1 .. Len(done) : done'[k][1] = done'[l][1] => k = l
        BY Zenon, <3>3, <4>1
      <4>3. \A k \in 1 .. Len(done) : done'[k][1] # done'[N][1]
        BY Zenon, <3>3, <3>5
      <4> SUFFICES ASSUME NEW k \in 1 .. N, NEW l \in 1 .. N, done'[k][1] = done'[l][1]
                   PROVE  k = l
        BY Zenon
      <4> QED
        BY Zenon, <3>4, <4>2, <4>3
    <3>9. DispatchedUpTo(logs, exist', done', n)
      BY Zenon, <2>3, <3>3, <3>6, <3>7, <3>8 DEF DispatchedUpTo
    <3>10. DispatchedUpTo(logs, exist, done, n - 1)'
      BY Zenon, <1>2, <1>3, <3>9
    <3>11. DistributionTypes'
      BY <1>2, <3>3 DEF DistributionInv, DistributionTypes
    <3> QED
      BY <1>2, <1>3, <3>10, <3>11 DEF DistributionInv
  <2> QED
    BY <2>4, <2>5
<1> QED
  BY <1>6, <1>7

LEMMA DistributionInvariant == Spec => []DistributionInv
<1>1. Init => DistributionInv
  <2> SUFFICES ASSUME Init PROVE DistributionInv
    OBVIOUS
  <2>1. given \in Seq(Log)
    BY DistributionAssumptions DEF Init
  <2>3. receipt \in [Logs : Seq(Log), Solidity : BOOLEAN]
    BY Zenon, DistributionAssumptions DEF Init
  <2>2. logs \in Seq(Log) /\ done \in Seq(Calls)
    BY EmptySeq DEF Init
  <2> QED
    BY <2>1, <2>2, <2>3 DEF Init, DistributionInv, DistributionTypes
<1>2. ASSUME DistributionInv, RunBeforePushMiddleware PROVE DistributionInv'
  <2>1. /\ receipt.Logs = given /\ logs = <<>> /\ exist = {} /\ done = <<>>
        /\ DistributionTypes /\ pc = "middleware"
        /\ UNCHANGED <<receipt, given, logs, exist, done>>
    BY <1>2 DEF DistributionInv, RunBeforePushMiddleware
  <2>2. DistributionTypes'
    BY <1>2, <2>1, DistributionAssumptions DEF RunBeforePushMiddleware, DistributionTypes
  <2>3. CASE pc' = "dedup"
    <3>1. n' = 1 /\ n' <= Len(given) + 1 /\ n' - 1 = 0
      BY <1>2, <2>1, <2>3 DEF RunBeforePushMiddleware, DistributionTypes
    <3>2. KeptUpTo(given, logs, 0) /\ KeysOfLogs
      BY Zenon, <2>1, NothingYet
    <3>3. KeptUpTo(given, logs, n - 1)'
      BY Zenon, <2>1, <3>1, <3>2
    <3>4. KeysOfLogs'
      BY Zenon, <2>1, <3>2 DEF KeysOfLogs, Key
    <3> QED
      BY <2>1, <2>2, <2>3, <3>1, <3>3, <3>4 DEF DistributionInv
  <2>4. CASE pc' \in {"middleware", "refused"}
    BY <2>1, <2>2, <2>4 DEF DistributionInv
  <2> QED
    BY Zenon, <1>2, <2>1, <2>3, <2>4 DEF RunBeforePushMiddleware
<1>3. ASSUME DistributionInv, Dispatched PROVE DistributionInv'
  <2>1. /\ n = Len(logs) + 1 /\ DistributionTypes /\ pc' = "end"
        /\ KeptUpTo(given, logs, Len(given)) /\ DispatchedUpTo(logs, exist, done, n - 1)
        /\ UNCHANGED <<given, n, logs, exist, done>>
    BY <1>3 DEF DistributionInv, DistributionTypes, Dispatched
  <2>2. n - 1 = Len(logs)
    BY <2>1 DEF DistributionTypes
  <2>3. DistributionTypes'
    BY <1>3, <2>1 DEF Dispatched, DistributionTypes
  <2> QED
    BY <2>1, <2>2, <2>3 DEF DistributionInv
<1>4. ASSUME DistributionInv, UNCHANGED vars PROVE DistributionInv'
  <2>1. UNCHANGED <<receipt, given, pc, n, logs, exist, done>>
    BY Zenon, <1>4 DEF vars
  <2> QED
    BY Zenon, <1>4, <2>1 DEF DistributionInv, DistributionTypes, KeysOfLogs, Key
<1>5. DistributionInv /\ [Next]_vars => DistributionInv'
  BY Zenon, <1>2, <1>3, <1>4, DedupStep, DedupedStep, DispatchStep DEF Next
<1> QED
  BY <1>1, <1>5, PTL DEF Spec

(* Deduplication keeps one log of every event of the receipt, in the order *)
(* of first occurrence.                                                    *)
THEOREM EventsKept == Spec => []DedupKeepsEvents
<1>1. DistributionInv => DedupKeepsEvents
  <2> SUFFICES ASSUME DistributionInv, pc \in {"dispatch", "end"} PROVE DedupKeepsEvents
    BY Zenon DEF DedupKeepsEvents
  <2>1. KeptUpTo(given, logs, Len(given)) /\ Len(given) \in Nat /\ Len(logs) \in Nat
    BY DEF DistributionInv, DistributionTypes
  <2>2. ASSUME NEW k \in 1 .. Len(logs), NEW m \in 1 .. Len(logs), k < m
        PROVE  ~SameEvent(logs[k], logs[m]) /\ ~SameEvent(logs[m], logs[k])
    <3>1. PICK i \in 1 .. Len(given), j \in 1 .. Len(given) :
            /\ i < j /\ given[i] = logs[k] /\ given[j] = logs[m]
            /\ \A h \in 1 .. j - 1 : ~SameEvent(given[h], logs[m])
      BY Zenon, <2>1, <2>2 DEF KeptUpTo
    <3>2. i \in 1 .. j - 1
      BY <2>1, <3>1
    <3>3. ~SameEvent(logs[k], logs[m])
      BY Zenon, <3>1, <3>2
    <3> QED
      BY Zenon, <3>3 DEF SameEvent
  <2>3. \A k, m \in 1 .. Len(logs) : k = m \/ k < m \/ m < k
    BY <2>1
  <2>4. \A k, m \in 1 .. Len(logs) : SameEvent(logs[k], logs[m]) => k = m
    BY Zenon, <2>2, <2>3
  <2> QED
    BY Zenon, <2>1, <2>4 DEF KeptUpTo, DedupKeepsEvents
<1> QED
  BY <1>1, DistributionInvariant, PTL

(* Each contract address of a receipt is dispatched at most once.          *)
THEOREM DispatchedOnce == Spec => []DispatchOnce
<1>1. DistributionInv => DispatchOnce
  <2> SUFFICES ASSUME DistributionInv PROVE DispatchOnce
    OBVIOUS
  <2>1. CASE done = <<>>
    BY <2>1 DEF DispatchOnce
  <2>2. CASE pc \in {"dispatch", "end"}
    BY Zenon, <2>2 DEF DistributionInv, DispatchedUpTo, DispatchOnce
  <2> QED
    BY Zenon, <2>1, <2>2 DEF DistributionInv, DistributionTypes
<1> QED
  BY <1>1, DistributionInvariant, PTL

(* The entries of ContractsName written in lower case whose contract has a *)
(* log are dispatched, with the first prefix that is their name, and       *)
(* nothing else is: an entry with an upper-case letter never.              *)
THEOREM ConfiguredDispatched == Spec => []DispatchComplete
<1>1. DistributionInv => DispatchComplete
  <2> SUFFICES ASSUME DistributionInv, pc = "end" PROVE DispatchComplete
    BY Zenon DEF DispatchComplete
  <2>1. KeptUpTo(given, logs, Len(given)) /\ DispatchedUpTo(logs, exist, done, Len(logs))
    BY Zenon DEF DistributionInv
  <2>2. /\ \A i \in 1 .. Len(given) : given[i].address \in Address
        /\ \A k \in 1 .. Len(logs) : logs[k].address \in Address
    BY Zenon, AddressesOfLogs DEF DistributionInv, DistributionTypes
  <2> DEFINE wanted == {b \in DOMAIN ContractsName :
                          /\ Dispatchable(b)
                          /\ \E i \in 1 .. Len(given) : ToLower[given[i].address] = b}
  <2>3. ASSUME NEW k \in 1 .. Len(done)
        PROVE  \E b \in wanted : done[k] = <<b, PrefixFor(b)>>
    <3>1. PICK m \in 1 .. Len(logs) :
            Selected(logs[m].address) /\ done[k] = Call(logs[m].address)
      BY Zenon, <2>1 DEF DispatchedUpTo
    <3>2. PICK i \in 1 .. Len(given) : given[i] = logs[m]
      BY Zenon, <2>1 DEF KeptUpTo
    <3>3. /\ ToLower[logs[m].address] \in wanted
          /\ Call(logs[m].address) =
               <<ToLower[logs[m].address], PrefixFor(ToLower[logs[m].address])>>
      BY Zenon, <2>2, <3>1, <3>2, SelectedEntry
    <3> QED
      BY Zenon, <3>1, <3>3
  <2>4. ASSUME NEW b \in wanted
        PROVE  \E k \in 1 .. Len(done) : done[k] = <<b, PrefixFor(b)>>
    <3>1. PICK i \in 1 .. Len(given) : ToLower[given[i].address] = b
      BY Zenon
    <3>2. PICK m \in 1 .. Len(logs) : ToLower[logs[m].address] = b
      BY Zenon, <2>1, <3>1 DEF KeptUpTo, SameEvent
    <3>3. Selected(logs[m].address) /\ Call(logs[m].address) = <<b, PrefixFor(b)>>
      BY Zenon, <2>2, <3>2, EntrySelected
    <3>4. \E k \in 1 .. Len(done) : done[k] = Call(logs[m].address)
      BY Zenon, <2>1, <3>3 DEF DispatchedUpTo
    <3> QED
      BY Zenon, <3>3, <3>4
  <2>5. {done[k] : k \in 1 .. Len(done)} \subseteq {<<b, PrefixFor(b)>> : b \in wanted}
    <3> SUFFICES ASSUME NEW k \in 1 .. Len(done)
                 PROVE  done[k] \in {<<b, PrefixFor(b)>> : b \in wanted}
      BY Zenon
    <3> HIDE DEF wanted
    <3> QED
      BY Zenon, <2>3
  <2>6. {<<b, PrefixFor(b)>> : b \in wanted} \subseteq {done[k] : k \in 1 .. Len(done)}
    <3> HIDE DEF wanted
    <3> SUFFICES ASSUME NEW b \in wanted
                 PROVE  <<b, PrefixFor(b)>> \in {done[k] : k \in 1 .. Len(done)}
      BY Zenon
    <3> QED
      BY Zenon, <2>4
  <2> QED
    BY Zenon, <2>5, <2>6 DEF DispatchComplete
<1> QED
  BY <1>1, DistributionInvariant, PTL
=============================================================================
