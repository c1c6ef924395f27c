---------------------------- MODULE MCDocuments ----------------------------
(***************************************************************************)
(* TLC instances of Documents.                                             *)
(***************************************************************************)
EXTENDS Documents, TLC

CONSTANTS p1, p2, vat, ice, ana

Symmetry == Permutations(Cashiers)

Item(p, quantity, taxes) == [product |-> p, quantity |-> quantity, taxes |-> taxes]
Cart(who, items) == [client |-> who, items |-> items]

(* One line untaxed, one taxed twice, the same tax on both, one after      *)
(* another, the same product twice, no client.                             *)
SomeCarts ==
  {Cart(ana, <<Item(p1, 1, <<vat>>), Item(p2, 3, <<vat>>)>>),
   Cart(None, <<Item(p1, 3, <<>>), Item(p2, 1, <<vat>>)>>),
   Cart(ana, <<Item(p1, 1, <<vat, ice>>), Item(p2, 1, <<vat>>)>>),
   Cart(ana, <<Item(p2, 2, <<>>)>>),
   Cart(None, <<Item(p1, 1, <<>>), Item(p1, 1, <<>>)>>)}

SomeStates ==
  {[price |-> 33, enough |-> TRUE, active |-> TRUE], [price |-> 0, enough |-> TRUE, active |-> TRUE],
   [price |-> 105, enough |-> FALSE, active |-> TRUE]}
SomeCedulas == {<<1, 7, 1, 0, 10, 0, 3, 4, 0, 6, 5>>, <<1, 7, 1, 0, 0, 3, 4, 0, 6, 6>>}
SomeDate == <<0, 1, 0, 6, 2, 0, 2, 6>>
SomeRuc == <<1, 7, 1, 2, 3, 4, 5, 6, 7, 8, 0, 0, 1>>
=============================================================================
