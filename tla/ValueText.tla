------------------------------ MODULE ValueText ------------------------------
(***************************************************************************)
(* value_parser::TryParse (ValueParser.hpp) on texts, where TypedParams    *)
(* takes numbers.  A text is a sequence of tokens, characters but for the  *)
(* words the parsers know; it is written one token after the other, and    *)
(* the properties hold at every one.                                       *)
(***************************************************************************)
EXTENDS TypedParams, SequencesExt

CONSTANTS
    Tokens,         \* what texts are made of
    Extremes,       \* the fractions too large or too small for a double
    MaxLength       \* bound: the tokens of a text

VARIABLE text

Digits == {"0", "1", "4", "8"}
DigitOf(t) == CASE t = "0" -> 0 [] t = "1" -> 1 [] t = "4" -> 4 [] t = "8" -> 8

\* std::tolower, and the characters of a token.
Lower(s) ==
    LET lower(t) == CASE t = "INF" -> "inf" [] t = "True" -> "true" [] OTHER -> t
    IN  [i \in DOMAIN s |-> lower(s[i])]
Size(s) ==
    LET chars(t) == CASE t \in {"inf", "INF", "nan"} -> 3 [] t \in {"true", "True"} -> 4
                      [] t \in {"inity", "false"} -> 5 [] OTHER -> 1
    IN  FoldLeft(LAMBDA n, t : n + chars(t), 0, s)

-----------------------------------------------------------------------------
(* std::from_chars: the longest beginning of a text that is a number. *)

Unsigned(s) == IF s # << >> /\ Head(s) = "-" THEN Tail(s) ELSE s

IsInteger(s) == Unsigned(s) # << >> /\ ToSet(Unsigned(s)) \subseteq Digits

\* Digits, with a point somewhere or without.
IsDecimal(s) ==
    /\ ToSet(s) \subseteq Digits \cup {"."} /\ ToSet(s) \cap Digits # {}
    /\ \A i, j \in DOMAIN s : s[i] = "." /\ s[j] = "." => i = j

\* A fraction, an exponent, or one of the names of what is not finite.
IsSpecial(s) == Lower(Unsigned(s)) \in {<<"inf">>, <<"inf", "inity">>, <<"nan">>}
IsFloat(s) ==
    \/ IsSpecial(s)
    \/ \E k \in 1..Len(Unsigned(s)) :
          LET u == Unsigned(s)
              exponent == SubSeq(u, k + 2, Len(u))
          IN  IsDecimal(SubSeq(u, 1, k))
              /\ (k = Len(u) \/ (u[k + 1] = "e" /\ IsInteger(exponent)))

NumberOf(s) ==
    LET abs == FoldLeft(LAMBDA n, t : 10 * n + DigitOf(t), 0, Unsigned(s))
    IN  IF s = Unsigned(s) THEN abs ELSE -abs

Value(s) ==
    IF IsInteger(s) THEN <<"whole", NumberOf(s)>>
    ELSE IF IsSpecial(s) THEN <<"special">> ELSE <<"fraction">>

InRange(type, s) ==
    CASE type = "int" -> NumberOf(s) \in Signed(IntBits)
      [] type = "int64" -> NumberOf(s) \in Signed(Int64Bits)
      [] type = "double" -> IF IsInteger(s) THEN NumberOf(s) \in Doubles ELSE s \notin Extremes

\* ptr: how much was read; {} if nothing, or a number out of range.
FromChars(type, s) ==
    LET reads(k) == IF type = "double" THEN IsFloat(SubSeq(s, 1, k))
                    ELSE IsInteger(SubSeq(s, 1, k))
    IN  {[ptr |-> k, value |-> Value(SubSeq(s, 1, k))] :
            k \in {k \in 1..Len(s) : /\ reads(k) /\ \A j \in k + 1..Len(s) : ~reads(j)
                                     /\ InRange(type, SubSeq(s, 1, k))}}

-----------------------------------------------------------------------------
(* TryParse *)

\* What follows the number is not looked at.
SlipNumberPrefix(type, s) == {r.value : r \in FromChars(type, s)}

\* Two literals are refused by name.
TryParseNumber(type, s) ==
    IF type = "double" /\ Size(s) = 3 /\ Lower(s) \in {<<"inf">>, <<"nan">>} THEN {}
    ELSE {r.value : r \in {r \in FromChars(type, s) : r.ptr = Len(s)}}

TryParseBool(s) ==
    IF s = << >> \/ Size(s) > 5 THEN {}
    ELSE IF Lower(s) \in {<<"true">>, <<"1">>} THEN {TRUE}
    ELSE IF Lower(s) \in {<<"false">>, <<"0">>} THEN {FALSE} ELSE {}

-----------------------------------------------------------------------------

TextInit == text = << >>

TextNext ==
    \/ Len(text) < MaxLength /\ \E t \in Tokens : text' = Append(text, t)
    \/ text # << >> /\ text' = << >>

TextSpec == TextInit /\ [][TextNext]_text

\* The number a text spells, up to zeros in front.
Spells(s) == IF IsInteger(s) THEN {NumberOf(s)} ELSE {}

\* What TypedParams says of a word holds of every text that spells it.  A number is
\* read whole and in range or not at all, whichever its type: nothing is cut,
\* wraps or is read half.  Integers are doubles too (PathParamTypeTest.cpp:47), those
\* of int64_t all of them, which the routing table relies on when it tries int
\* first, and longer ones up to where the doubles end.  Case makes no
\* difference to a truth value, zeros in front do
\* (ValueParser.hpp:38-77, PathParamType.hpp:17-23).
ImplementsTypedParams ==
    /\ \A type \in {"int", "int64"} :
           TryParseNumber(type, text)
               = {<<"whole", v>> : v \in UNION {TryParse(type, Number(n)) :
                                                  n \in Spells(text)}}
    /\ \A n \in Spells(text) :
           TryParseNumber("double", text) = {<<"whole", v>> : v \in TryParse("double", Number(n))}
    /\ TryParseBool(text) =
           IF Len(text) # 1 THEN {}
           ELSE UNION {TryParse("bool", word) :
                          word \in {Number(n) : n \in Spells(text)}
                                       \cup {Text(t) : t \in ToSet(Lower(text))}}
=============================================================================
