------------------------------- MODULE Texts -------------------------------
(***************************************************************************)
(* Texts are sequences of characters, except that a run of letters is one  *)
(* element of them; numbers are written in them digit by digit.            *)
(***************************************************************************)
EXTENDS Integers, Sequences

DigitSeq == <<"0", "1", "2", "3", "4", "5", "6", "7", "8", "9">>
DigitSet == {DigitSeq[i] : i \in DOMAIN DigitSeq}
DigitValue(d) == (CHOOSE i \in DOMAIN DigitSeq : DigitSeq[i] = d) - 1

\* The digits of a natural number.
Decimal(n) ==
    LET decimal[k \in 0..n] ==
            IF k < 10 THEN <<DigitSeq[k + 1]>>
            ELSE decimal[k \div 10] \o <<DigitSeq[(k % 10) + 1]>>
    IN  decimal[n]

\* The number that digits are the digits of.
DecimalValue(digits) ==
    LET value[k \in 0..Len(digits)] ==
            IF k = 0 THEN 0 ELSE 10 * value[k - 1] + DigitValue(digits[k])
    IN  value[Len(digits)]

=============================================================================
