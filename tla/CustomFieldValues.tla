--------------------------- MODULE CustomFieldValues ---------------------------
(***************************************************************************)
(* The value conversions of the custom-field forms (src/frontend/src/app/  *)
(* custom-fields/new/page.tsx and [fieldId]/edit/page.tsx):                *)
(* parseDefaultValue (the text typed as a default -> the JSON value sent), *)
(* formatDefaultValue (a stored default -> the text the edit form starts  *)
(* from) and canonicalJson (the comparison of the edit form's diff).      *)
(*                                                                         *)
(* A text is a sequence of one-character strings.  A number is a record   *)
(* [neg, m, e] for (-1)^neg * m * 10^e with m free of trailing zeros: the *)
(* decimal form in which JavaScript prints a double, exact for the short  *)
(* decimals used here.  A JSON value is a record with a `kind`; objects   *)
(* and arrays are kept only as their kind, because JSON.parse of          *)
(* JSON.stringify is the identity on them.                                *)
(***************************************************************************)
EXTENDS Integers, Sequences, SequencesExt

DigitChars == <<"0", "1", "2", "3", "4", "5", "6", "7", "8", "9">>
IsDigit(c) == c \in ToSet(DigitChars)
DigitVal(c) == CHOOSE d \in 0..9 : DigitChars[d + 1] = c
AllDigits(s) == s # <<>> /\ \A i \in DOMAIN s : IsDigit(s[i])

\* String.prototype.trim over the blank characters of the model.
Blanks == {" ", "\n"}
RECURSIVE TrimStart(_)
TrimStart(s) == IF s # <<>> /\ Head(s) \in Blanks THEN TrimStart(Tail(s)) ELSE s
Trim(s) == Reverse(TrimStart(Reverse(TrimStart(s))))

\* The text with its leading "-" removed, if it has one.
Unsigned(t) == IF t # <<>> /\ Head(t) = "-" THEN Tail(t) ELSE t

\* /^-?\d+$/
IsIntegerText(t) == AllDigits(Unsigned(t))

\* /^-?\d+(\.\d+)?$/: digits, or digits "." digits.
IsDecimalText(t) ==
    LET b == Unsigned(t) IN
    \/ AllDigits(b)
    \/ \E p \in DOMAIN b : /\ b[p] = "."
                          /\ AllDigits(SubSeq(b, 1, p - 1))
                          /\ AllDigits(SubSeq(b, p + 1, Len(b)))

-----------------------------------------------------------------------------
(* Numbers.                                                                *)

RECURSIVE DigitsToNat(_, _)
DigitsToNat(ds, acc) ==
    IF ds = <<>> THEN acc ELSE DigitsToNat(Tail(ds), 10 * acc + DigitVal(Head(ds)))

RECURSIVE NatToDigits(_)
NatToDigits(n) ==
    IF n < 10 THEN <<DigitChars[n + 1]>>
    ELSE NatToDigits(n \div 10) \o <<DigitChars[(n % 10) + 1]>>

RECURSIVE StripLeadingZeros(_)
StripLeadingZeros(ds) ==
    IF ds # <<>> /\ Head(ds) = "0" THEN StripLeadingZeros(Tail(ds)) ELSE ds

\* The number (-1)^neg * ds * 10^e, in canonical form.
RECURSIVE NumOf(_, _, _)
NumOf(neg, ds, e) ==
    LET s == StripLeadingZeros(ds) IN
    IF s = <<>> THEN [neg |-> neg, m |-> 0, e |-> 0]
    ELSE IF Last(s) = "0" THEN NumOf(neg, Front(s), e + 1)
    ELSE [neg |-> neg, m |-> DigitsToNat(s, 0), e |-> e]

\* Number.parseInt(t, 10) of a text matching /^-?\d+$/.
ParseIntText(t) == NumOf(Unsigned(t) # t, Unsigned(t), 0)

\* Number.parseFloat(t) of a text matching /^-?\d+(\.\d+)?$/.
ParseFloatText(t) ==
    LET b == Unsigned(t)
        dot == IF "." \in ToSet(b) THEN CHOOSE i \in DOMAIN b : b[i] = "." ELSE 0
        ip == IF dot = 0 THEN b ELSE SubSeq(b, 1, dot - 1)
        fp == IF dot = 0 THEN <<>> ELSE SubSeq(b, dot + 1, Len(b))
    IN NumOf(b # t, ip \o fp, -Len(fp))

Zeros(k) == [i \in 1..k |-> "0"]

(***************************************************************************)
(* Number::toString (ECMA-262 6.1.6.1.20), which JSON.stringify uses: with *)
(* k digits and the point after n of them, plain notation for -6 < n <= 21 *)
(* and exponent notation otherwise; -0 prints as "0".                      *)
(***************************************************************************)
NumberToString(x) ==
    LET ds == NatToDigits(x.m)
        k == Len(ds)
        n == k + x.e
        sign == IF x.neg THEN <<"-">> ELSE <<>>
        ex == n - 1
        expo == <<"e", IF ex < 0 THEN "-" ELSE "+">>
                \o NatToDigits(IF ex < 0 THEN -ex ELSE ex)
    IN IF x.m = 0 THEN <<"0">>
       ELSE sign \o
            CASE k <= n /\ n <= 21 -> ds \o Zeros(n - k)
              [] 0 < n /\ n <= 21  -> SubSeq(ds, 1, n) \o <<".">> \o SubSeq(ds, n + 1, k)
              [] -6 < n /\ n <= 0  -> <<"0", ".">> \o Zeros(-n) \o ds
              [] OTHER -> IF k = 1 THEN ds \o expo
                          ELSE <<Head(ds), ".">> \o Tail(ds) \o expo

-----------------------------------------------------------------------------
(* JSON values.                                                            *)

Null == [kind |-> "null"]
Str(s) == [kind |-> "str", s |-> s]
NumV(x) == [kind |-> "num", x |-> x]
BoolV(b) == [kind |-> "bool", b |-> b]
ObjV == [kind |-> "obj"]
ArrV == [kind |-> "arr"]

TrueText == <<"t", "r", "u", "e">>
FalseText == <<"f", "a", "l", "s", "e">>

\* toLowerCase over the letters of the model.
LowerOf == [c \in {"T", "R", "U", "E", "F", "A", "L", "S"} |->
              CASE c = "T" -> "t" [] c = "R" -> "r" [] c = "U" -> "u"
                [] c = "E" -> "e" [] c = "F" -> "f" [] c = "A" -> "a"
                [] c = "L" -> "l" [] c = "S" -> "s"]
ToLower(s) == [i \in DOMAIN s |-> IF s[i] \in DOMAIN LowerOf THEN LowerOf[s[i]] ELSE s[i]]

\* JSON.parse restricted to what the json branch accepts: an object or an
\* array (blanks allowed inside the empty brackets); any other text is a
\* non-object JSON value or a syntax error, both rejected by that branch.
JsonObjectOrArray(t) ==
    /\ Len(t) >= 2
    /\ <<Head(t), Last(t)>> \in {<<"{", "}">>, <<"[", "]">>}
    /\ \A i \in 2..Len(t) - 1 : t[i] \in Blanks

StringFieldTypes == {"text", "text_long", "date", "date_time", "url"}

(***************************************************************************)
(* parseDefaultValue(fieldType, value): [ok, value]; ok = FALSE stands for *)
(* the returned error message.  Blank text is no default (null); text and *)
(* date-like types keep the trimmed text; integer and decimal must match  *)
(* their pattern; boolean is true/false in any case; json must parse to   *)
(* an object or an array.                                                 *)
(***************************************************************************)
Parsed(v) == [ok |-> TRUE, value |-> v]
Rejected == [ok |-> FALSE, value |-> Null]

parseDefaultValue(fieldType, value) ==
    LET t == Trim(value) IN
    CASE t = <<>> -> Parsed(Null)
      [] fieldType \in StringFieldTypes -> Parsed(Str(t))
      [] fieldType = "integer" ->
            IF IsIntegerText(t) THEN Parsed(NumV(ParseIntText(t))) ELSE Rejected
      [] fieldType = "decimal" ->
            IF IsDecimalText(t) THEN Parsed(NumV(ParseFloatText(t))) ELSE Rejected
      [] fieldType = "boolean" ->
            CASE ToLower(t) = TrueText -> Parsed(BoolV(TRUE))
              [] ToLower(t) = FalseText -> Parsed(BoolV(FALSE))
              [] OTHER -> Rejected
      [] fieldType = "json" ->
            IF JsonObjectOrArray(t)
            THEN Parsed(IF Head(t) = "{" THEN ObjV ELSE ArrV) ELSE Rejected

(***************************************************************************)
(* formatDefaultValue: null -> "", a string as it is, anything else        *)
(* JSON.stringify(value, null, 2) (the empty object and array print as    *)
(* {} and []).                                                             *)
(***************************************************************************)
\* Mutant: String(value) for every value, so an object prints as
\* "[object Object]" and an array of none as "".
formatDefaultValueString(v) ==
    CASE v.kind = "null" -> <<>>
      [] v.kind = "str" -> v.s
      [] v.kind = "num" -> NumberToString(v.x)
      [] v.kind = "bool" -> IF v.b THEN TrueText ELSE FalseText
      [] v.kind = "obj" -> <<"[", "o", "]">>
      [] v.kind = "arr" -> <<>>

formatDefaultValue(v) ==
    CASE v.kind = "null" -> <<>>
      [] v.kind = "str" -> v.s
      [] v.kind = "num" -> NumberToString(v.x)
      [] v.kind = "bool" -> IF v.b THEN TrueText ELSE FalseText
      [] v.kind = "obj" -> <<"{", "}">>
      [] v.kind = "arr" -> <<"[", "]">>

\* JSON.stringify(value) as a comparison key: -0 prints as 0.
canonicalJson(v) ==
    IF v.kind = "num" /\ v.x.m = 0 THEN NumV([neg |-> FALSE, m |-> 0, e |-> 0]) ELSE v
=============================================================================
