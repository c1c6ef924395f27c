---------------------------- MODULE Identifiers ----------------------------
(***************************************************************************)
(* The two check digits against what they are for: a person types an       *)
(* identifier, digit by digit, and may get a digit wrong or swap two.      *)
(***************************************************************************)
EXTENDS CheckDigits

CONSTANT Typed(_)      (* the digits that may follow what is typed         *)

VARIABLE text

NothingTyped == text = <<>>
Types == \E d \in Typed(text) : text' = Append(text, d)
Typing == NothingTyped /\ [][Types]_text

-----------------------------------------------------------------------------
Places == 1..Len(text)
Mistyped == {[text EXCEPT ![i] = d] : i \in Places, d \in Digits} \ {text}
Swap(i) == [text EXCEPT ![i] = text[i + 1], ![i + 1] = text[i]]
Swapped == {Swap(i) : i \in Places \ {Len(text)}} \ {text}

(* The SRI's definition: weights 2 to 7, over and over, from the right.    *)
FromTheRight ==
  LET sum == SumUpTo(LAMBDA i : text[Len(text) + 1 - i] * (2 + ((i - 1) % 6)), Len(text))
      digit == (11 - (sum % 11)) % 11
  IN  IF digit = 10 THEN 1 ELSE digit

(* generate_verificator_digit starts at the left with 7 where the SRI      *)
(* starts at the right with 2: the same digit because the 48 digits of a   *)
(* key are a whole number of rounds.                                       *)
VerificatorIsTheStandard ==
  Len(text) % 6 = 0 => GenerateVerificatorDigit(text) = FromTheRight

(* A wrong digit or two swapped neighbours change the verificator of an    *)
(* access key, unless the two remainders are those it writes alike: 1 and  *)
(* 10.                                                                     *)
KeyTyposShow ==
  Len(text) = 48 =>
    \A other \in Mistyped \cup Swapped :
      GenerateVerificatorDigit(other) = GenerateVerificatorDigit(text) =>
        {Addition(other) % 11, Addition(text) % 11} = {1, 10}

(* No wrong digit turns a valid cedula into another; two swapped digits    *)
(* are only overlooked where one is 0 and the other 9.                     *)
CedulaTyposShow ==
  IsValidCedula(text) =>
    /\ \A other \in Mistyped : ~IsValidCedula(other)
    /\ \A i \in 1..9 : IsValidCedula(Swap(i)) =>
         text[i] = text[i + 1] \/ {text[i], text[i + 1]} = {0, 9}
=============================================================================
