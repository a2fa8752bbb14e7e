---------------------------- MODULE ExactAmounts ----------------------------
\* The arithmetic behind a vote's power: the Gateway's amounts, the fixed-point numbers
\* of the shape pools (i192.ts), the big decimals of everything else and the text by which
\* the database sorts them (exactDecimal.ts).  An amount is a natural number of the
\* smallest unit: the 18 places of an amount on the ledger are one digit here, and so
\* are the 20 that BigNumber keeps in a division.  Nothing on the ledger is negative.
EXTENDS Naturals, SequencesExt

CONSTANTS Base,           \* of the digits: ten in the code
          IntegerDigits   \* that a sort key has room for: 80 in the code

ASSUME BaseAssumption == Base \in Nat \ {0, 1}
ASSUME IntegerDigitsAssumption == IntegerDigits \in Nat \ {0}

\* One, in units of an amount; and in units of a product of three, which keep all digits.
Unit == Base
Whole == Unit * Unit * Unit

\* I192.multiply and I192.divide truncate each result; what is divided by zero is zero.
Multiply(a, b) == (a * b) \div Unit
Divide(a, b) == IF b = 0 THEN 0 ELSE (a * Unit) \div b

\* BigNumber.dividedBy rounds half up; a quotient that is not finite counts as zero.
DividedBy(a, b) == IF b = 0 THEN 0 ELSE (2 * a * Unit + b) \div (2 * b)

\* decimalPlaces(2): half up to a whole cent, of a value in units of Whole.
Cent == Unit * Unit
ToCents(value) == ((2 * value + Cent) \div (2 * Cent)) * Cent

-----------------------------------------------------------------------------
\* What a digit is worth that has so many behind it.
PlaceValue[n \in Nat] == IF n = 0 THEN 1 ELSE Base * PlaceValue[n - 1]

\* The digits of a number, the greatest place first.
Digits(number, places) == [i \in 1 .. places |-> (number \div PlaceValue[places - i]) % Base]

\* parseExactDecimal refuses all but finite, non-negative decimals with so many digits
\* before the point; behind it there is always room.
IsExactDecimal(value) == value \in Nat /\ value \div Whole < PlaceValue[IntegerDigits]

\* toFixed: the fraction without its trailing zeros.
Fraction(value) ==
  LET digits == Digits(value % Whole, 3)
      last == {i \in DOMAIN digits : digits[i] # 0}
  IN  IF last = {} THEN <<>> ELSE SubSeq(digits, 1, Max(last))

\* Mutant: the fraction is padded like the integer part.
SortKeyPaddedAtStart(value) ==
  Digits(value \div Whole, IntegerDigits) \o
    [i \in 1 .. 3 - Len(Fraction(value)) |-> 0] \o Fraction(value)

\* decimalSortKey: padded with zeros before the integer part and after the fraction.
SortKey(value) ==
  Digits(value \div Whole, IntegerDigits) \o
    Fraction(value) \o [i \in 1 .. 3 - Len(Fraction(value)) |-> 0]

\* The order of texts of one length.
Precedes(k, l) ==
  \E i \in DOMAIN k : k[i] < l[i] /\ \A j \in 1 .. i - 1 : k[j] = l[j]
=============================================================================
