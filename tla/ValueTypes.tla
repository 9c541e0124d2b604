----------------------------- MODULE ValueTypes -----------------------------
(***************************************************************************)
(* The argument types of util/rpc/types.go: BlockNumber, BlockNumberOrHash *)
(* and DecimalOrHex, to and from JSON.  What may fail yields a set, empty  *)
(* for an error.                                                           *)
(***************************************************************************)
EXTENDS Integers

CONSTANTS
  MaxInt64,  \* math.MaxInt64
  Hashes     \* block hashes

ASSUME WidthAssumption == MaxInt64 \in Nat \ {0}

(* What a uint64 and an int64 can be, and the conversion between them.     *)
MaxUint64 == 2 * MaxInt64 + 1
BlockNumbers == -(MaxInt64 + 1) .. MaxInt64
uint64(n) == n % (MaxUint64 + 1)

(* A text, without its quotes: a word, hexadecimal digits as hexutil       *)
(* writes them, decimal digits, or the 64 digits of a hash.                *)
Word(w) == [form |-> "word", word |-> w, n |-> 0]
Hex(n) == [form |-> "hex", word |-> "", n |-> n]
Dec(n) == [form |-> "dec", word |-> "", n |-> n]
Hash(h) == [form |-> "hash", word |-> "", n |-> h]

(* A JSON value: null, a number, a string, true or an object's members.    *)
JSON(kind, text, members) == [json |-> kind, text |-> text, members |-> members]
Null == JSON("null", Word("null"), << >>)
Number(n) == JSON("number", Dec(n), << >>)
String(t) == JSON("string", t, << >>)
Yes == JSON("bool", Word("true"), << >>)
Object(members) == JSON("object", Word("{}"), members)

(* External: hexutil.DecodeUint64 and strconv.ParseUint in base 10.        *)
DecodeUint64(t) == IF t.form = "hex" /\ t.n <= MaxUint64 THEN {t.n} ELSE {}
ParseUint(t) == IF t.form = "dec" /\ t.n \in 0 .. MaxUint64 THEN {t.n} ELSE {}

-----------------------------------------------------------------------------
(* BlockNumber. *)

PendingBlockNumber == -2
LatestBlockNumber == -1
EarliestBlockNumber == 0

(* A tag, or a number that DecodeUint64 reads.  Mutant: a number above     *)
(* MaxInt64 is converted.                                                  *)
NumberOfWraps(t) ==
  CASE t = Word("earliest") -> {EarliestBlockNumber}
    [] t = Word("latest") -> {LatestBlockNumber}
    [] t = Word("pending") -> {PendingBlockNumber}
    [] OTHER -> {IF n > MaxInt64 THEN n - (MaxUint64 + 1) ELSE n : n \in DecodeUint64(t)}
NumberOf(t) ==
  CASE t = Word("earliest") -> {EarliestBlockNumber}
    [] t = Word("latest") -> {LatestBlockNumber}
    [] t = Word("pending") -> {PendingBlockNumber}
    [] OTHER -> {n \in DecodeUint64(t) : n <= MaxInt64}

(* BlockNumber.UnmarshalJSON does not tell a string from another value.    *)
UnmarshalBlockNumber(v) == NumberOf(v.text)

(* Mutant: PendingBlockNumber has no case.                                 *)
MarshalTextTwo(bn) ==
  CASE bn = EarliestBlockNumber -> Word("earliest")
    [] bn = LatestBlockNumber -> Word("latest")
    [] OTHER -> Hex(uint64(bn))
MarshalText(bn) ==
  CASE bn = EarliestBlockNumber -> Word("earliest")
    [] bn = LatestBlockNumber -> Word("latest")
    [] bn = PendingBlockNumber -> Word("pending")
    [] OTHER -> Hex(uint64(bn))

-----------------------------------------------------------------------------
(* BlockNumberOrHash: BlockNumber and BlockHash are pointers, that is sets *)
(* of at most one value.                                                   *)

BlockNumberOrHash(number, hash, canonical) ==
  [BlockNumber |-> number, BlockHash |-> hash, RequireCanonical |-> canonical]
BlockNumberOrHashes ==
  {BlockNumberOrHash(n, h, c) : n \in {{}} \cup {{bn} : bn \in BlockNumbers},
                                h \in {{}} \cup {{x} : x \in Hashes}, c \in BOOLEAN}
BlockNumberOrHashWithNumber(n) == BlockNumberOrHash({n}, {}, FALSE)
BlockNumberOrHashWithHash(h, canonical) == BlockNumberOrHash({}, {h}, canonical)

(* A member that is missing is left as nil, as is one that is null; xs is  *)
(* what another decodes to.                                                *)
Member(v, key) == IF key \in DOMAIN v.members THEN v.members[key] ELSE Null
Pointer(v, xs) == IF v = Null THEN {{}} ELSE {{x} : x \in xs}

UnmarshalHash(v) == IF v.json = "string" /\ v.text.form = "hash" THEN {v.text.n} ELSE {}

(* The first json.Unmarshal, into the struct; null leaves it as it is.     *)
Erased(v) ==
  IF v.json \notin {"null", "object"} THEN {}
  ELSE {BlockNumberOrHash(n, h, "requireCanonical" \in DOMAIN v.members) :
          n \in Pointer(Member(v, "blockNumber"), UnmarshalBlockNumber(Member(v, "blockNumber"))),
          h \in Pointer(Member(v, "blockHash"), UnmarshalHash(Member(v, "blockHash")))}

(* Mutant: both may be given.                                              *)
UnmarshalBlockNumberOrHashBoth(v) ==
  IF Erased(v) # {} THEN Erased(v)
  ELSE IF v.json # "string" THEN {}
  ELSE IF v.text.form = "hash" THEN {BlockNumberOrHashWithHash(v.text.n, FALSE)}
  ELSE {BlockNumberOrHashWithNumber(n) : n \in NumberOf(v.text)}

(* An object or null; or else a tag, a hash or a number as a string.       *)
UnmarshalBlockNumberOrHash(v) ==
  IF Erased(v) # {} THEN {e \in Erased(v) : e.BlockNumber = {} \/ e.BlockHash = {}}
  ELSE IF v.json # "string" THEN {}
  ELSE IF v.text.form = "hash" THEN {BlockNumberOrHashWithHash(v.text.n, FALSE)}
  ELSE {BlockNumberOrHashWithNumber(n) : n \in NumberOf(v.text)}

(* External: json.Marshal follows the tags of the struct, omitempty.       *)
MarshalBlockNumberOrHash(b) ==
  Object([k \in (IF b.BlockNumber # {} THEN {"blockNumber"} ELSE {})
                \cup (IF b.BlockHash # {} THEN {"blockHash"} ELSE {})
                \cup (IF b.RequireCanonical THEN {"requireCanonical"} ELSE {}) |->
            CASE k = "blockNumber" -> String(MarshalText(CHOOSE n \in b.BlockNumber : TRUE))
              [] k = "blockHash" -> String(Hash(CHOOSE h \in b.BlockHash : TRUE))
              [] OTHER -> Yes])

-----------------------------------------------------------------------------
(* DecimalOrHex.UnmarshalJSON. *)
UnmarshalDecimalOrHex(v) ==
  IF ParseUint(v.text) # {} THEN ParseUint(v.text) ELSE DecodeUint64(v.text)
=============================================================================
