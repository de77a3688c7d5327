----------------------------- MODULE TypedParams -----------------------------
(***************************************************************************)
(* The typed parameters of common/parser (ValueParser.hpp, TypedParams.hpp) *)
(* and the matchers of path parameters, which are the same parsers         *)
(* (PathParamType.hpp).                                                    *)
(*                                                                         *)
(* A value is a word: a number stands for the text std::to_string gives    *)
(* it.  An optional is a set of at most one value.                         *)
(***************************************************************************)
EXTENDS Integers

CONSTANTS
    IntBits,        \* the width of int
    Int64Bits,      \* the width of int64_t
    DoubleLimit     \* the least whole number that rounds to no finite double

ASSUME WidthAssumption ==
    IntBits \in Nat \ {0} /\ Int64Bits \in Nat \ {0} /\ IntBits <= Int64Bits

Number(n) == [number |-> n]
Text(t) == [text |-> t]

IsNumber(word) == DOMAIN word = {"number"}

\* The integers of a width, which std::from_chars keeps to.
Signed(bits) == -(2 ^ (bits - 1)) .. 2 ^ (bits - 1) - 1

\* The whole numbers that std::from_chars finds a double for.
Doubles == 1 - DoubleLimit .. DoubleLimit - 1

\* What is an int64_t is a double.
ASSUME DoubleAssumption == DoubleLimit \in Nat /\ Signed(Int64Bits) \subseteq Doubles

\* Every integer is read as an int64_t and cut to the width asked for.
SlipTruncate(type, word) ==
    CASE type \in {"int", "int64"} ->
            LET half == 2 ^ (IntBits - 1)
            IN  IF IsNumber(word) /\ word.number \in Signed(Int64Bits)
                THEN {IF type = "int" THEN ((word.number + half) % (2 * half)) - half
                      ELSE word.number}
                ELSE {}
      [] type = "double" ->
            IF IsNumber(word) /\ word.number \in Doubles THEN {word.number} ELSE {}
      [] type = "bool" ->
            IF word \in {Text("true"), Number(1)} THEN {TRUE}
            ELSE IF word \in {Text("false"), Number(0)} THEN {FALSE} ELSE {}
      [] type = "string" -> {word}

\* value_parser::TryParse: a number is taken whole and in range or not at all,
\* an integer stands for the double nearest to it as well, unless it is too large
\* for one, and a string is whatever there is.
TryParse(type, word) ==
    CASE type \in {"int", "int64"} ->
            LET bits == IF type = "int" THEN IntBits ELSE Int64Bits
            IN  IF IsNumber(word) /\ word.number \in Signed(bits)
                THEN {word.number} ELSE {}
      [] type = "double" ->
            IF IsNumber(word) /\ word.number \in Doubles THEN {word.number} ELSE {}
      [] type = "bool" ->
            IF word \in {Text("true"), Number(1)} THEN {TRUE}
            ELSE IF word \in {Text("false"), Number(0)} THEN {FALSE} ELSE {}
      [] type = "string" -> {word}

MatchInt(word) == TryParse("int64", word) # {}

MatchFloat(word) == TryParse("double", word) # {}

\* TypedParams::TryGet.  Required throws InvalidParameterException when it
\* finds nothing.
TryGet(params, name, type) ==
    IF name \in DOMAIN params THEN TryParse(type, params[name]) ELSE {}
=============================================================================
