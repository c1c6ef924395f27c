---------------------------- MODULE CheckDigits ----------------------------
(***************************************************************************)
(* The two check digits of the system: the last digit of a cedula (modulo  *)
(* 10) and that of the SRI access key (modulo 11).  A digit string is a    *)
(* sequence of numbers.                                                    *)
(***************************************************************************)
EXTENDS Naturals, Sequences

Digits == 0..9

SumUpTo(term(_), n) ==
  LET sum[i \in 0..n] == IF i = 0 THEN 0 ELSE sum[i - 1] + term(i)
  IN  sum[n]

-----------------------------------------------------------------------------
(* Fault: a product of two digits is kept. *)
KeepsBoth(product) == product

(* The cedula: of nine digits every other one is doubled, and a product of *)
(* two digits loses nine.                                                  *)
Reduced(product) == IF product > 9 THEN product - 9 ELSE product

Coefficient(i) == IF i % 2 = 1 THEN 2 ELSE 1
CedulaTotal(body) == SumUpTo(LAMBDA i : Reduced(body[i] * Coefficient(i)), 9)
CedulaVerifier(body) == (10 - (CedulaTotal(body) % 10)) % 10

ProvinceCodes == (1..24) \cup {30}

IsValidCedula(value) ==
  /\ Len(value) = 10 /\ \A i \in 1..10 : value[i] \in Digits
  /\ 10 * value[1] + value[2] \in ProvinceCodes
  /\ CedulaVerifier(value) = value[10]

(* What the payloads do to a cedula before they validate it: spaces and    *)
(* dashes, written as a ten here, go.                                      *)
Separator == 10
Cleaned(value) == SelectSeq(value, LAMBDA ch : ch # Separator)

-----------------------------------------------------------------------------
(* Fault: the weights go on to 1 before they start over. *)
DownToOne(multiple) == IF multiple < 2 THEN 7 ELSE multiple - 1

(* The access key: the loop's multiple runs down from 7 to 2 and over      *)
(* again, from the left.                                                   *)
NextMultiple(multiple) == IF multiple <= 2 THEN 7 ELSE multiple - 1

Addition(key) ==
  LET loop[i \in 0..Len(key)] ==
        IF i = 0 THEN [addition |-> 0, multiple |-> 7]
        ELSE LET before == loop[i - 1]
             IN  [addition |-> before.addition + key[i] * before.multiple,
                  multiple |-> NextMultiple(before.multiple)]
  IN  loop[Len(key)].addition

(* Fault: the remainder of a division by ten. *)
VerificatorModTen(addition) == (10 - (addition % 10)) % 10

VerificatorOf(addition) ==
  LET result == 11 - (addition % 11)
  IN  CASE result = 10 -> 1 [] result = 11 -> 0 [] OTHER -> result

GenerateVerificatorDigit(key) == VerificatorOf(Addition(key))

(* n as a number of so many digits.                                        *)
Padded(n, width) == [i \in 1..width |-> (n \div 10 ^ (width - i)) % 10]

(* Date, document, RUC, environment, establishment, emission point,        *)
(* sequential, numeric code, emission type: 48 digits, and the check digit. *)
GenerateAccessKey(date, ruc, environment, sequential, numericCode) ==
  LET base == date \o <<0, 1>> \o ruc \o <<environment>> \o Padded(1, 3) \o Padded(1, 3)
              \o Padded(sequential, 9) \o Padded(numericCode, 8) \o <<1>>
  IN  Append(base, GenerateVerificatorDigit(base))
=============================================================================
