------------------------------ MODULE Readers ------------------------------
(***************************************************************************)
(* Readers of many rows while others write: somebody pages through a       *)
(* listing, or downloads the sales workbook.  Every statement sees what is *)
(* committed when it runs, so that the pages of a listing, a page and its  *)
(* total, and the sheets of a workbook are of different moments.           *)
(*                                                                         *)
(* A row is its id.  Ids are drawn at the insert and become visible at the *)
(* commit, in any order.  A row is in the listing while it matches the     *)
(* filter: active, for sale, of a status, confirmed in a window of days.   *)
(* A product may be renamed, and the list of what is for sale is by name.  *)
(***************************************************************************)
EXTENDS Integers, FiniteSets, Sequences, FiniteSetsExt

CONSTANTS MaxId,          (* bounds the inserts                            *)
          MaxMoves,       (* bounds the rows that come, leave or come back *)
          Limits,         (* what a request may say for limit              *)
          DefaultLimit, MaxLimit,
          DefaultAuditLimit, MaxAuditLimit,
          Names, Unnamed, (* products.name, in order; a missing one is last *)
          FirstName,      (* of a product, until somebody renames it       *)
          Created,        (* of an entry of the error log                  *)
          Products,       (* on the lines of an invoice                    *)
          Client, Seller, Day,   (* of an invoice                          *)
          TopN,           (* the limit of the top lists                    *)
          None

ASSUME ReaderConstants ==
  /\ MaxId \in Nat /\ MaxMoves \in Nat
  /\ DefaultLimit \in 1..MaxLimit /\ MaxLimit \in Nat /\ Limits \subseteq Int \cup {None}
  /\ DefaultAuditLimit \in 1..MaxAuditLimit /\ MaxAuditLimit \in Nat
  /\ TopN \in Nat

Ids == 1..MaxId

(* Entries may be of the same moment, and any number of products may have  *)
(* no name; a name is unique.                                              *)
ASSUME KeysAreNumbers ==
  /\ Created \in [Ids -> Int]
  /\ Names \subseteq Int /\ Unnamed \in Int /\ \A n \in Names : n < Unnamed
  /\ FirstName \in [Ids -> Names \cup {Unnamed}]
  /\ \A i, j \in Ids : FirstName[i] = FirstName[j] /\ FirstName[i] # Unnamed => i = j

(* The listings: ordered by a column, upwards or downwards; a scoped one   *)
(* shows a seller his own rows; a strict one refuses a limit out of bounds. *)
Listing(by, downwards, scoped, strict) ==
  [by |-> by, downwards |-> downwards, scoped |-> scoped, strict |-> strict]

ListUsers == Listing("id", FALSE, FALSE, FALSE)
ListClients == Listing("id", FALSE, FALSE, FALSE)
ListProducts == Listing("id", FALSE, FALSE, FALSE)
ListProductsForSale == Listing("name", FALSE, FALSE, FALSE)
ListInvoices == {Listing("id", TRUE, scoped, FALSE) : scoped \in BOOLEAN}
ListAuditLogs == Listing("id", TRUE, FALSE, TRUE)
ListErrorLogs == Listing("created_at", TRUE, FALSE, FALSE)
Listings ==
  {ListUsers, ListClients, ListProducts, ListProductsForSale, ListAuditLogs, ListErrorLogs}
  \cup ListInvoices

VARIABLES shown,       (* committed and in the listing                     *)
          hidden,      (* committed, but not in the listing                *)
          drawn,       (* ids drawn so far                                 *)
          name,        (* of the products                                  *)
          reader,      (* what is read, and how far                        *)
          start,       (* shown when the reading began                     *)
          came, left   (* since then: how many rows came, how many left    *)

rows == <<shown, hidden, drawn, name>>
vars == <<shown, hidden, drawn, name, reader, start, came, left>>

NotReading == [doing |-> "nothing"]
Moves == came + left

Init ==
  /\ drawn \in Ids
  /\ shown \in SUBSET (1..drawn) /\ hidden = (1..drawn) \ shown
  /\ name = FirstName /\ reader = NotReading
  /\ start = {} /\ came = 0 /\ left = 0

-----------------------------------------------------------------------------
(* The writers.                                                            *)
Pending == (1..drawn) \ (shown \cup hidden)

Inserts ==
  /\ drawn < MaxId /\ drawn' = drawn + 1
  /\ UNCHANGED <<shown, hidden, name, reader, start, came, left>>

Comes(i) ==
  /\ Moves < MaxMoves /\ came' = came + 1
  /\ i \in Pending \cup hidden
  /\ shown' = shown \cup {i} /\ hidden' = hidden \ {i}
  /\ UNCHANGED <<drawn, name, reader, start, left>>

Leaves(i) ==
  /\ Moves < MaxMoves /\ left' = left + 1
  /\ i \in shown
  /\ shown' = shown \ {i} /\ hidden' = hidden \cup {i}
  /\ UNCHANGED <<drawn, name, reader, start, came>>

(* To a free name.  A product that is shown leaves its place in the list   *)
(* and comes to another.  Who does not read by name does not see it.       *)
ByName == reader.doing = "listing" /\ reader.of.by = "name"
Renames(i) ==
  /\ ByName /\ i \in shown \cup hidden
  /\ \E n \in Names : (\A j \in Ids : name[j] # n) /\ name' = [name EXCEPT ![i] = n]
  /\ IF i \in shown THEN /\ Moves + 2 <= MaxMoves
                         /\ came' = came + 1 /\ left' = left + 1
     ELSE UNCHANGED <<came, left>>
  /\ UNCHANGED <<shown, hidden, drawn, reader, start>>

-----------------------------------------------------------------------------
(* parse_page: nothing or zero means the default; then into bounds.  The   *)
(* audit log has bounds of its own and refuses what is out of them.        *)
ParseLimit(limit) ==
  LET asked == IF limit \in {None, 0} THEN DefaultLimit ELSE limit
  IN  Min({MaxLimit, Max({1, asked})})

Accepts(listing, limit) == listing.strict => limit \in {None} \cup 1..MaxAuditLimit
LimitOf(listing, limit) ==
  IF ~listing.strict THEN ParseLimit(limit) ELSE IF limit = None THEN DefaultAuditLimit ELSE limit

(* Fault: the offset is that of the limit asked for. *)
OffsetAsAsked(r) == (r.page - 1) * (IF r.asked = None THEN DefaultLimit ELSE r.asked)

Offset(r) == (r.page - 1) * LimitOf(r.of, r.asked)

(* ORDER BY: what a row is sorted by.                                      *)
Column(by) ==
  CASE by = "id" -> [i \in Ids |-> i] [] by = "name" -> name [] by = "created_at" -> Created
SortKey(of) == [i \in Ids |-> IF of.downwards THEN -Column(of.by)[i] ELSE Column(of.by)[i]]

(* The first n rows, OFFSET and LIMIT.  Rows that sort alike fall either   *)
(* way, and another way for the next page.                                 *)
Firsts(key, n) ==
  {S \in SUBSET shown : /\ Cardinality(S) = Min({n, Cardinality(shown)})
                        /\ \A i \in S, j \in shown \ S : key[i] <= key[j]}
Alike(key) == \E i, j \in shown : i # j /\ key[i] = key[j]

(* Fault: one row too many. *)
PagesAndOne(r) ==
  {S \ T : S \in Firsts(SortKey(r.of), Offset(r) + LimitOf(r.of, r.asked) + 1),
           T \in Firsts(SortKey(r.of), Offset(r))}

PagesOf(r) ==
  UNION {{S \ T : T \in {U \in Firsts(SortKey(r.of), Offset(r)) : U \subseteq S}} :
           S \in Firsts(SortKey(r.of), Offset(r) + LimitOf(r.of, r.asked))}

BeginsListing ==
  /\ reader.doing = "nothing"
  /\ \E listing \in Listings, limit \in Limits :
       /\ Accepts(listing, limit)
       /\ reader' = [doing |-> "listing", of |-> listing, asked |-> limit, page |-> 1, counts |-> FALSE,
                     got |-> {}, times |-> [i \in Ids |-> 0], total |-> 0, alike |-> FALSE]
  /\ start' = shown /\ came' = 0 /\ left' = 0
  /\ UNCHANGED rows

(* Fault: nobody is told more than the page he gets. *)
TotalOfPage(r) == Cardinality(r.got)

(* A seller's invoices come with the length of the page for a total.       *)
Total(r) == IF r.of.scoped THEN Cardinality(r.got) ELSE Cardinality(shown)

(* find_all runs two statements.  The reader goes on until a page is empty.*)
ReadsPage ==
  /\ reader.doing = "listing" /\ ~reader.counts
  /\ \E page \in PagesOf(reader) :
       reader' = [reader EXCEPT !.counts = TRUE, !.got = page,
                    !.alike = @ \/ Alike(SortKey(reader.of)),
                    !.times = [i \in Ids |-> IF i \in page THEN @[i] + 1 ELSE @[i]]]
  /\ UNCHANGED <<rows, start, came, left>>

ReadsCount ==
  /\ reader.doing = "listing" /\ reader.counts
  /\ reader' = [reader EXCEPT !.counts = FALSE, !.total = Total(reader), !.page = @ + 1,
                  !.doing = IF reader.got = {} THEN "listed" ELSE @]
  /\ UNCHANGED <<rows, start, came, left>>

-----------------------------------------------------------------------------
(* The workbook: six statements about invoices, the listing of which is    *)
(* those confirmed in the window.  An aggregate stands as the set of rows  *)
(* it is made of, per group.                                               *)
Sheets == <<"totals", "by_status", "products", "clients", "sellers", "days">>

(* GROUP BY a column; an inner join leaves out what has no partner.        *)
GroupBy(key) == {{i \in shown : key[i] = k} : k \in {key[i] : i \in shown}}
Joined(partners) == {{i \in shown : p \in partners[i]} : p \in UNION {partners[i] : i \in shown}}

(* ORDER BY an amount DESC, LIMIT.  Which groups are at the top depends on *)
(* the amounts: it may be any.                                             *)
Tops(groups) == {top \in SUBSET groups : Cardinality(top) = Min({TopN, Cardinality(groups)})}

Sellers == [i \in Ids |-> {Seller[i]} \ {None}]

(* Fault: joined with clients, as the sellers are with users. *)
TopKnownClients == Tops(Joined([i \in Ids |-> {Client[i]} \ {None}]))

(* The counts by status are of every invoice, whatever its status and day. *)
SalesSummary == {{shown}}
CountsByStatus == {{shown \cup hidden}}
TopProducts == Tops(Joined(Products))
TopClients == Tops(GroupBy(Client))
TopSellers == Tops(Joined(Sellers))
SalesByDay == {GroupBy(Day)}

Results(sheet) ==
  CASE sheet = "totals"    -> SalesSummary
    [] sheet = "by_status" -> CountsByStatus
    [] sheet = "products"  -> TopProducts
    [] sheet = "clients"   -> TopClients
    [] sheet = "sellers"   -> TopSellers
    [] sheet = "days"      -> SalesByDay

BeginsWorkbook ==
  /\ reader.doing = "nothing"
  /\ reader' = [doing |-> "workbook", sheets |-> <<>>]
  /\ start' = shown /\ came' = 0 /\ left' = 0
  /\ UNCHANGED rows

(* The rows of a sheet are the groups.                                     *)
Sheet(groups) == [groups |-> groups, moves |-> Moves]

ReadsSheet ==
  /\ reader.doing = "workbook" /\ Len(reader.sheets) < Len(Sheets)
  /\ \E result \in Results(Sheets[Len(reader.sheets) + 1]) :
       reader' = [reader EXCEPT !.sheets = Append(@, Sheet(result))]
  /\ UNCHANGED <<rows, start, came, left>>

Next ==
  \/ Inserts
  \/ \E i \in Ids : Comes(i) \/ Leaves(i) \/ Renames(i)
  \/ BeginsListing \/ ReadsPage \/ ReadsCount
  \/ BeginsWorkbook \/ ReadsSheet

Spec == Init /\ [][Next]_vars

-----------------------------------------------------------------------------
Listed == reader.doing = "listed"
Repeats == MapThenSumSet(LAMBDA i : IF reader.times[i] > 1 THEN reader.times[i] - 1 ELSE 0, Ids)

(* Whether every page was cut out of rows of which no two sorted alike.    *)
(* Ids always are; names are but for the missing ones, which any number of *)
(* products may have; entries of the error log are but for those of one    *)
(* moment.  Otherwise pages may overlap although nobody writes.            *)
InOneOrder == ~reader.alike

TypeOK ==
  /\ shown \subseteq Ids /\ hidden \subseteq Ids /\ shown \cap hidden = {}
  /\ drawn \in Ids /\ shown \cup hidden \subseteq 1..drawn
  /\ name \in [Ids -> Names \cup {Unnamed}]
  /\ reader.doing \in {"nothing", "listing", "listed", "workbook"}
  /\ Moves \in 0..MaxMoves

(* A reader who pages to the end, of rows that sort in one order, has      *)
(* missed no more of the rows that were there all along than rows left     *)
(* meanwhile: none if none did, whatever was inserted and whatever limit   *)
(* was asked.  A renamed product leaves its place and comes to another.    *)
MissesOnlyWhatMoved ==
  Listed /\ InOneOrder => Cardinality({i \in start \cap shown : reader.times[i] = 0}) <= left

(* He has seen no more rows twice than rows came.                          *)
RepeatsOnlyWhatMoved == Listed /\ InOneOrder => Repeats <= came

(* The last total is off from the rows he saw by no more than what moved;  *)
(* a seller never learns how many invoices he has.                         *)
TotalIsNearby ==
  Listed /\ InOneOrder /\ ~reader.of.scoped =>
    LET distinct == Cardinality({i \in Ids : reader.times[i] > 0})
    IN  distinct - reader.total \in -Moves .. Moves

(* The invoices a sheet is over: confirmed in the window; the products     *)
(* leave out invoices without lines, the sellers those without a seller.   *)
Covered(sheet) ==
  CASE sheet = "products" -> {i \in Ids : Products[i] # {}}
    [] sheet = "sellers"  -> {i \in Ids : Seller[i] # None}
    [] OTHER              -> Ids

(* Two sheets of one workbook, of lists not cut short, differ by what      *)
(* moved between the two statements, among the invoices both are over; of  *)
(* those in a sheet, the counts by status lack no more than what moved.    *)
Whole(sheet) == Cardinality(sheet.groups) < TopN
Rows(sheet) == UNION sheet.groups
Differing(S, T) == (S \ T) \cup (T \ S)
Agree(k, l, a, b) ==
  LET apart == CASE Sheets[k] = "by_status" -> Rows(b) \ Rows(a)
                 [] Sheets[l] = "by_status" -> Rows(a) \ Rows(b)
                 [] OTHER -> Differing(Rows(a), Rows(b)) \cap Covered(Sheets[k]) \cap Covered(Sheets[l])
  IN  Cardinality(apart) <= b.moves - a.moves
SheetsDifferByWhatMoved ==
  reader.doing = "workbook" =>
    \A k, l \in DOMAIN reader.sheets :
      k < l /\ Whole(reader.sheets[k]) /\ Whole(reader.sheets[l])
        => Agree(k, l, reader.sheets[k], reader.sheets[l])
=============================================================================
