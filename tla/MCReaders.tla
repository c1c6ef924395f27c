----------------------------- MODULE MCReaders -----------------------------
(***************************************************************************)
(* TLC instance of Readers.  Two products have no name and two entries of  *)
(* the error log are of one moment; an invoice has no line, another two    *)
(* products, and another neither client nor seller.                        *)
(***************************************************************************)
EXTENDS Readers

SomeNames == {1, 3, 7}
FirstNames == [i \in Ids |-> IF i \in {2, 4} THEN 99 ELSE ((2 * i) % 7) + 1]
SomeMoments == [i \in Ids |-> IF i = 3 THEN 4 ELSE (2 * i) % 7]
ProductsOf == [i \in Ids |-> IF i = 1 THEN {} ELSE IF i = 4 THEN {1, 2} ELSE {i \div 2}]
ClientOf == [i \in Ids |-> IF i = 2 THEN None ELSE i % 3]
SellerOf == [i \in Ids |-> IF i = 2 THEN None ELSE i % 2]
DayOf == [i \in Ids |-> (i + 1) \div 2]
SomeLimits == {None, -1, 7}
=============================================================================
