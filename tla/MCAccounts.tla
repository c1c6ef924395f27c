----------------------------- MODULE MCAccounts -----------------------------
(***************************************************************************)
(* TLC instances of Accounts: roles that are given, exchanged and taken    *)
(* away.                                                                   *)
(***************************************************************************)
EXTENDS Accounts

CONSTANTS admin, seller

OneOrTheOther == {{admin}, {seller}}

GivenOrTaken == {{admin}, {}}
=============================================================================
