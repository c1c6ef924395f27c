--------------------------- MODULE MCIdentifiers ---------------------------
(***************************************************************************)
(* TLC instance of Identifiers.  Ten digits are a cedula: all ten last     *)
(* digits are tried after several beginnings.  One beginning goes on to a  *)
(* whole access key.                                                       *)
(***************************************************************************)
EXTENDS Identifiers

KeyLike ==   (* date, 01, RUC, environment, 001001, sequential, code, 1 *)
  <<1, 7, 0, 5, 2, 0, 2, 6>> \o <<0, 1>> \o <<1, 7, 1, 2, 3, 4, 5, 6, 7, 8, 0, 0, 1>> \o <<1>>
  \o <<0, 0, 1, 0, 0, 1>> \o <<0, 0, 0, 0, 0, 0, 0, 1, 0>> \o <<4, 8, 1, 5, 1, 6, 2, 3>> \o <<1>>
FreeInKey == {24, 39, 41, 46}

TypedHere(typed) ==
  LET place == Len(typed) + 1
  IN  CASE place = 1 -> {1, 3}
        [] place \in 2..6 -> {KeyLike[place], 9}
        [] place \in 7..9 -> {0, KeyLike[place]}
        [] place = 10 -> Digits
        [] place \in 11..48 /\ SubSeq(typed, 1, 10) = SubSeq(KeyLike, 1, 10) ->
             {KeyLike[place]} \cup (IF place \in FreeInKey THEN {2, 5, 9} ELSE {})
        [] OTHER -> {}
=============================================================================
