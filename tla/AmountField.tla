---------------------------- MODULE AmountField -----------------------------
(***************************************************************************)
(* The amount field: every keystroke, deletion and paste is cleaned before *)
(* the form reads it, and the finished string is parsed to minor units.    *)
(* Here the text is the subject, so it is a sequence of characters.        *)
(***************************************************************************)
EXTENDS Integers, SequencesExt

CONSTANTS
    Value,         \* the digits typed, with their values
    Other,         \* characters that are neither a digit nor the point
    MaxWhole,      \* digits before the point
    MaxDecimals,   \* digits after the point
    MaxPaste       \* bound: characters of a paste

VARIABLE field

vars == <<field>>

Point == "."
Zero == "0"
Nine == "9"
Digit == DOMAIN Value
Char == Digit \cup Other \cup {Point}
NaN == -1

HasPoint(s) == \E i \in DOMAIN s : s[i] = Point
PointAt(s) == CHOOSE i \in DOMAIN s : s[i] = Point
Whole(s) == IF HasPoint(s) THEN SubSeq(s, 1, PointAt(s) - 1) ELSE s
Frac(s) == IF HasPoint(s) THEN SubSeq(s, PointAt(s) + 1, Len(s)) ELSE <<>>

\* Mutant: digits after the point are not counted.
TakeLong(out, ch) ==
    CASE ch = Point -> IF HasPoint(out) THEN out ELSE Append(out, Point)
      [] ch \notin Digit \cup {Point} -> out
      [] ch \in Digit /\ HasPoint(out) -> IF Len(Frac(out)) > MaxDecimals THEN out ELSE Append(out, ch)
      [] ch \in Digit /\ ~HasPoint(out) -> IF Len(out) < MaxWhole THEN Append(out, ch) ELSE out

\* One character of sanitizeDecimal's loop.
Take(out, ch) ==
    CASE ch = Point -> IF MaxDecimals = 0 \/ HasPoint(out) THEN out
                           ELSE IF out = <<>> THEN <<Zero, Point>> ELSE Append(out, Point)
      [] ch \notin Digit \cup {Point} -> out
      [] ch \in Digit /\ HasPoint(out) -> IF Len(Frac(out)) >= MaxDecimals THEN out ELSE Append(out, ch)
      [] ch \in Digit /\ ~HasPoint(out) -> IF out = <<Zero>> THEN <<ch>>
                                           ELSE IF Len(out) < MaxWhole THEN Append(out, ch) ELSE out

SanitizeDecimal(raw) == FoldLeft(Take, <<>>, raw)

Number(digits) == FoldLeft(LAMBDA n, d : 10 * n + Value[d], 0, digits)

\* parseAmountToMinor: digits, then a point with one or two; cents from padding.
ParseAmountToMinor(s) ==
    LET whole == Whole(s)
        frac == Frac(s)
        cents == IF Len(frac) = 1 THEN Append(frac, Zero) ELSE frac
        minor == 100 * Number(whole) + Number(cents)
        wellFormed == /\ whole # <<>> /\ \A i \in DOMAIN whole : whole[i] # Point
                      /\ \A i \in DOMAIN frac : frac[i] # Point
                      /\ HasPoint(s) => Len(frac) \in 1..2
    IN IF wellFormed /\ minor > 0 THEN minor ELSE NaN

TypeOK == field \in Seq(Digit \cup {Point})

Init == field = <<>>

\* withSanitizer: text is put in at a place, or taken out, and the whole cleaned.
Insert(at, text) ==
    field' = SanitizeDecimal(SubSeq(field, 1, at) \o text \o SubSeq(field, at + 1, Len(field)))

Delete(at) ==
    field' = SanitizeDecimal(SubSeq(field, 1, at - 1) \o SubSeq(field, at + 1, Len(field)))

Paste == UNION {[1..n -> Char] : n \in 1..MaxPaste}

Next ==
    \/ \E at \in 0..Len(field), text \in Paste : Insert(at, text)
    \/ \E at \in DOMAIN field : Delete(at)

Spec == Init /\ [][Next]_vars

-----------------------------------------------------------------------------
(* Properties.                                                             *)

\* Every place taken by a nine: 999999999.99.
Largest == [i \in 1..(MaxWhole + 1 + MaxDecimals) |-> IF i = MaxWhole + 1 THEN Point ELSE Nine]

\* Whatever was typed, deleted in the middle or pasted, a field that does not
\* end at the point and is not all zeros is an amount the form can send: the
\* schema never meets a text the field let through and the parser refuses, or
\* one that is more than the largest amount the field has room for.
FieldParses ==
    (field # <<>> /\ field[Len(field)] # Point
     /\ \E i \in DOMAIN field : field[i] \notin {Zero, Point})
        => ParseAmountToMinor(field) \in 1..ParseAmountToMinor(Largest)
=============================================================================
