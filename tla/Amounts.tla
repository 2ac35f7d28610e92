------------------------------- MODULE Amounts -------------------------------
(***************************************************************************)
(* Amounts are decimal strings of any length, never machine numbers: the   *)
(* minimum of a notification rule is compared, and the amount of an event  *)
(* is shifted by the decimals of its asset, digit by digit.  Here a string *)
(* is a sequence of digits, in any base, and of one character that is not. *)
(***************************************************************************)
EXTENDS SequencesExt, Integers

CONSTANTS
    Base,           \* the digits are 0..Base-1; Base is another character
    MaxLength,      \* bound on the strings
    None            \* no string

Assumptions == Base \in Nat \ {0, 1} /\ MaxLength \in Nat

VARIABLE amounts    \* amount_raw of an event, min_amount_raw of a rule, decimals

Strings == BoundedSeq(0..Base, MaxLength)

\* A minimum is saved only if validate_notification_rule_request accepts it.
IsNumber(string) == string # <<>> /\ \A i \in DOMAIN string : string[i] < Base
Minima == {string \in Strings : IsNumber(string)} \cup {None}

Init == amounts \in [raw : Strings \cup {None}, minimum : Minima, decimals : 0..MaxLength]

\* normalize_non_negative_integer
\* A faulty one keeps leading zeros.
NormalizedNot(digits) == digits
Normalized(digits) ==
    LET leading == {i \in DOMAIN digits : digits[i] # 0}
    IN IF leading = {} THEN <<0>> ELSE SubSeq(digits, Min(leading), Len(digits))

\* The order of two strings of one length.
NotBelow(a, b) ==
    a = b \/ \E i \in DOMAIN a : a[i] > b[i] /\ \A j \in 1..(i - 1) : a[j] = b[j]

\* amount_raw_meets_minimum
MeetsMinimum(raw, minimum) ==
    \/ minimum = None
    \/ /\ raw # None
       /\ IsNumber(raw) /\ IsNumber(minimum)
       /\ LET a == Normalized(raw)
              b == Normalized(minimum)
          IN Len(a) > Len(b) \/ (Len(a) = Len(b) /\ NotBelow(a, b))

Zeros(n) == [i \in 1..n |-> 0]

\* wei_to_decimal_string of a canonical raw amount: the parts around the point.
Padded(raw, decimals) ==
    IF Len(raw) <= decimals THEN Zeros(decimals + 1 - Len(raw)) \o raw ELSE raw
TrimmedEnd(digits) ==
    SubSeq(digits, 1, Max({0} \cup {i \in DOMAIN digits : digits[i] # 0}))
Decimal(raw, decimals) ==
    LET padded == Padded(raw, decimals)
        point == Len(padded) - decimals
        fraction == TrimmedEnd(SubSeq(padded, point + 1, Len(padded)))
    IN [integer |-> SubSeq(padded, 1, point),
        fraction |-> IF decimals > 0 /\ fraction = <<>> THEN <<0>> ELSE fraction]

-----------------------------------------------------------------------------
Value(digits) == FoldLeft(LAMBDA v, d : Base * v + d, 0, digits)
Canonical(digits) == digits # <<>> /\ (digits[1] # 0 \/ Len(digits) = 1)

\* An event meets a minimum if its amount is a number not below it, however the
\* two are written.
MinimumIsNumeric ==
    amounts.minimum # None =>
      (MeetsMinimum(amounts.raw, amounts.minimum) <=>
         /\ amounts.raw # None
         /\ IsNumber(amounts.raw)
         /\ Value(amounts.raw) >= Value(amounts.minimum))

\* The decimal string is the raw amount over the power of its decimals, without
\* superfluous zeros.
DecimalIsExact ==
    amounts.raw # None /\ IsNumber(amounts.raw) /\ Canonical(amounts.raw) =>
      LET d == amounts.decimals
          decimal == Decimal(amounts.raw, d)
      IN /\ Canonical(decimal.integer)
         /\ Len(decimal.fraction) <= d
         /\ Len(decimal.fraction) > 1 => Last(decimal.fraction) # 0
         /\ Value(decimal.integer \o decimal.fraction \o Zeros(d - Len(decimal.fraction)))
              = Value(amounts.raw)
=============================================================================
