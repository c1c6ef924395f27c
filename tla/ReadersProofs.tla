---------------------------- MODULE ReadersProofs ----------------------------
(***************************************************************************)
(* Proofs about Readers, for any number of rows, any listing and limit,    *)
(* any grouping of them and any length of the top lists.                   *)
(*                                                                         *)
(* What a reader who pages to the end has missed or seen twice is not      *)
(* inductive: it speaks of the end only.  ReadInOrder compares what moved  *)
(* so far with the rows behind the pages already read.                     *)
(***************************************************************************)
EXTENDS Readers, FiniteSetTheorems, WellFoundedInduction, TLAPS

-----------------------------------------------------------------------------
(* Types.                                                                  *)
ListingReader ==
  [doing : {"listing", "listed"}, of : Listings, asked : Limits, page : Nat, counts : BOOLEAN,
   got : SUBSET Ids, times : [Ids -> Nat], total : Nat, alike : BOOLEAN]
SheetType == [groups : SUBSET SUBSET Ids, moves : Nat]
WorkbookReader == [doing : {"workbook"}, sheets : Seq(SheetType)]

Typed ==
  /\ TypeOK
  /\ reader \in {NotReading} \cup ListingReader \cup WorkbookReader
  /\ reader.doing \in {"listing", "listed"} => Accepts(reader.of, reader.asked)
  /\ came \in Nat /\ left \in Nat

LEMMA FiniteRows ==
  ASSUME NEW S, S \subseteq Ids
  PROVE  IsFiniteSet(S) /\ Cardinality(S) \in Nat
  <1>1. IsFiniteSet(Ids)
    BY ReaderConstants, FS_Interval DEF Ids
  <1>2. IsFiniteSet(S)
    BY <1>1, FS_Subset
  <1>3. QED
    BY <1>2, FS_CardinalityType

LEMMA InitTyped == Init => Typed
  <1> SUFFICES ASSUME Init PROVE Typed
    OBVIOUS
  <1>1. drawn \in 1 .. MaxId /\ shown \subseteq 1 .. drawn /\ hidden = (1 .. drawn) \ shown
    BY DEF Init, Ids
  <1>2. 1 .. drawn \subseteq Ids
    BY <1>1, ReaderConstants DEF Ids
  <1>3. QED
    BY <1>1, <1>2, ReaderConstants, KeysAreNumbers DEF Init, Typed, TypeOK, NotReading, Moves, Ids

LEMMA Sizes ==
  ASSUME NEW S, S \subseteq Ids
  PROVE  /\ Cardinality(S) \in Nat
         /\ \A T : T \subseteq S => Cardinality(T) <= Cardinality(S) /\ Cardinality(T) \in Nat
         /\ \A T : \A y \in Ids : T \subseteq S \cup {y} =>
              Cardinality(T) <= Cardinality(S) + 1 /\ Cardinality(T) \in Nat
  <1>1. IsFiniteSet(S) /\ Cardinality(S) \in Nat
    BY FiniteRows
  <1>2. ASSUME NEW T, T \subseteq S PROVE Cardinality(T) <= Cardinality(S) /\ Cardinality(T) \in Nat
    BY <1>1, <1>2, FS_Subset, FiniteRows
  <1>3. ASSUME NEW T, NEW y \in Ids, T \subseteq S \cup {y}
        PROVE  Cardinality(T) <= Cardinality(S) + 1 /\ Cardinality(T) \in Nat
    <2>1. IsFiniteSet(S \cup {y}) /\ Cardinality(S \cup {y}) <= Cardinality(S) + 1
      <3>1. /\ IsFiniteSet(S \cup {y})
            /\ Cardinality(S \cup {y}) = IF y \in S THEN Cardinality(S) ELSE Cardinality(S) + 1
        BY <1>1, FS_AddElement
      <3>2. QED
        BY <1>1, <3>1
    <2>2. Cardinality(T) <= Cardinality(S \cup {y}) /\ Cardinality(T) \in Nat /\ Cardinality(S \cup {y}) \in Nat
      BY <1>1, <1>3, <2>1, FS_Subset, FS_CardinalityType, FiniteRows
    <2>3. QED
      BY <1>1, <2>1, <2>2
  <1>4. QED
    BY <1>1, <1>2, <1>3

(* The smaller of two numbers. *)
LEMMA MinOfTwo ==
  ASSUME NEW a \in Int, NEW b \in Int
  PROVE  Min({a, b}) = IF a <= b THEN a ELSE b
  <1> DEFINE least == IF a <= b THEN a ELSE b
  <1>1. least \in {a, b} /\ \A y \in {a, b} : least <= y
    OBVIOUS
  <1>2. \A x \in {a, b} : (\A y \in {a, b} : x <= y) => x = least
    OBVIOUS
  <1> HIDE DEF least
  <1>3. Min({a, b}) = least
    BY <1>1, <1>2 DEF Min
  <1>4. QED
    BY <1>3 DEF least

-----------------------------------------------------------------------------
(* What a sheet is made of.                                                *)
RowsOf(sheet) == IF sheet = "by_status" THEN shown \cup hidden ELSE shown \cap Covered(sheet)

(* A top list that is not cut short is over every group. *)
LEMMA TopsAreWhole ==
  ASSUME shown \subseteq Ids, NEW groups, groups \subseteq SUBSET shown, NEW top \in Tops(groups)
  PROVE  /\ top \subseteq groups
         /\ Cardinality(top) < TopN => top = groups
  <1>1. IsFiniteSet(groups) /\ Cardinality(groups) \in Nat
    <2>1. IsFiniteSet(SUBSET shown)
      BY FiniteRows, FS_SUBSET
    <2>2. QED
      BY <2>1, FS_Subset, FS_CardinalityType
  <1>2. top \subseteq groups /\ Cardinality(top) = Min({TopN, Cardinality(groups)})
    BY DEF Tops
  <1>3. Cardinality(top) < TopN => Cardinality(top) = Cardinality(groups)
    BY <1>1, <1>2, MinOfTwo, ReaderConstants
  <1>4. QED
    BY <1>1, <1>2, <1>3, FS_Subset

LEMMA ResultsAreWhole ==
  ASSUME Typed, NEW k \in 1 .. Len(Sheets), NEW groups \in Results(Sheets[k])
  PROVE  /\ groups \in SUBSET SUBSET Ids /\ UNION groups \subseteq shown \cup hidden
         /\ Cardinality(groups) < TopN => UNION groups = RowsOf(Sheets[k])
  <1>0. shown \subseteq Ids /\ hidden \subseteq Ids
    BY DEF Typed, TypeOK
  <1>1. Sheets[k] \in {"totals", "by_status", "products", "clients", "sellers", "days"}
    BY DEF Sheets
  <1>2. CASE Sheets[k] = "totals"
    <2>1. groups = {shown}
      BY <1>2 DEF Results, SalesSummary
    <2>2. QED
      BY <1>0, <1>2, <2>1 DEF RowsOf, Covered
  <1>3. CASE Sheets[k] = "by_status"
    <2>1. groups = {shown \cup hidden}
      BY <1>3 DEF Results, CountsByStatus
    <2>2. QED
      BY <1>0, <1>3, <2>1 DEF RowsOf
  <1>4. CASE Sheets[k] = "products"
    <2>1. groups \in Tops(Joined(Products))
      BY <1>4 DEF Results, TopProducts
    <2>2. Joined(Products) \subseteq SUBSET shown
      BY DEF Joined
    <2>3. UNION Joined(Products) = {i \in shown : Products[i] # {}}
      BY DEF Joined
    <2>4. RowsOf(Sheets[k]) = {i \in shown : Products[i] # {}}
      BY <1>0, <1>4 DEF RowsOf, Covered
    <2>5. QED
      BY <1>0, <2>1, <2>2, <2>3, <2>4, TopsAreWhole
  <1>5. CASE Sheets[k] = "clients"
    <2>1. groups \in Tops(GroupBy(Client))
      BY <1>5 DEF Results, TopClients
    <2>2. GroupBy(Client) \subseteq SUBSET shown /\ UNION GroupBy(Client) = shown
      BY DEF GroupBy
    <2>3. RowsOf(Sheets[k]) = shown
      BY <1>0, <1>5 DEF RowsOf, Covered
    <2>4. QED
      BY <1>0, <2>1, <2>2, <2>3, TopsAreWhole
  <1>6. CASE Sheets[k] = "sellers"
    <2>1. groups \in Tops(Joined(Sellers))
      BY <1>6 DEF Results, TopSellers
    <2>2. Joined(Sellers) \subseteq SUBSET shown
      BY DEF Joined
    <2>3. UNION Joined(Sellers) = {i \in shown : Sellers[i] # {}}
      BY DEF Joined
    <2>4. \A i \in Ids : Sellers[i] # {} <=> Seller[i] # None
      BY DEF Sellers
    <2>5. RowsOf(Sheets[k]) = {i \in shown : Sellers[i] # {}}
      BY <1>0, <1>6, <2>4 DEF RowsOf, Covered
    <2>6. QED
      BY <1>0, <2>1, <2>2, <2>3, <2>5, TopsAreWhole
  <1>7. CASE Sheets[k] = "days"
    <2>1. groups = GroupBy(Day)
      BY <1>7 DEF Results, SalesByDay
    <2>2. groups \subseteq SUBSET shown /\ UNION groups = shown
      BY <2>1 DEF GroupBy
    <2>3. QED
      BY <1>0, <1>7, <2>2 DEF RowsOf, Covered
  <1>8. QED
    BY <1>1, <1>2, <1>3, <1>4, <1>5, <1>6, <1>7

-----------------------------------------------------------------------------
(* How the reader changes.                                                 *)
LEMMA PagesAreRows ==
  ASSUME NEW r, NEW page \in PagesOf(r)
  PROVE  page \subseteq shown
  BY DEF PagesOf, Firsts

LEMMA ListingStep ==
  ASSUME Typed, BeginsListing \/ ReadsPage \/ ReadsCount
  PROVE  reader' \in ListingReader /\ Accepts(reader'.of, reader'.asked) /\ UNCHANGED rows
         /\ ((came' = 0 /\ left' = 0) \/ (came' = came /\ left' = left))
  <1>1. CASE BeginsListing
    <2> DEFINE times == [i \in Ids |-> 0]
    <2>1. PICK listing \in Listings, limit \in Limits :
            /\ Accepts(listing, limit)
            /\ reader' = [doing |-> "listing", of |-> listing, asked |-> limit, page |-> 1,
                          counts |-> FALSE, got |-> {}, times |-> times, total |-> 0, alike |-> FALSE]
      BY <1>1 DEF BeginsListing
    <2>2. times \in [Ids -> Nat]
      OBVIOUS
    <2> HIDE DEF times
    <2>3. reader' \in ListingReader /\ reader'.of = listing /\ reader'.asked = limit
      BY <2>1, <2>2 DEF ListingReader
    <2>4. QED
      BY <1>1, <2>1, <2>3 DEF BeginsListing
  <1>2. CASE ReadsPage
    <2>0. reader.doing = "listing"
      BY <1>2 DEF ReadsPage
    <2>1. reader \in ListingReader /\ reader.doing = "listing"
      BY <2>0 DEF Typed, NotReading, WorkbookReader
    <2>2. PICK page \in PagesOf(reader) :
            reader' = [reader EXCEPT !.counts = TRUE, !.got = page,
                         !.alike = reader.alike \/ Alike(SortKey(reader.of)),
                         !.times = [i \in Ids |-> IF i \in page THEN reader.times[i] + 1 ELSE reader.times[i]]]
      BY <1>2 DEF ReadsPage
    <2> DEFINE times == [i \in Ids |-> IF i \in page THEN reader.times[i] + 1 ELSE reader.times[i]]
               alike == reader.alike \/ Alike(SortKey(reader.of))
    <2>3. page \subseteq Ids
      BY PagesAreRows DEF Typed, TypeOK
    <2>4. times \in [Ids -> Nat]
      BY <2>1 DEF ListingReader
    <2>5. alike \in BOOLEAN
      BY DEF Alike
    <2>6. reader' = [reader EXCEPT !.counts = TRUE, !.got = page, !.alike = alike, !.times = times]
      BY <2>2
    <2> HIDE DEF times, alike
    <2>7. reader' \in ListingReader /\ reader'.of = reader.of /\ reader'.asked = reader.asked
      BY <2>1, <2>3, <2>4, <2>5, <2>6 DEF ListingReader
    <2>8. QED
      BY <1>2, <2>1, <2>7 DEF ReadsPage, Typed
  <1>3. CASE ReadsCount
    <2>1. reader \in ListingReader /\ reader.doing = "listing"
      BY <1>3 DEF ReadsCount, Typed, NotReading, WorkbookReader
    <2> DEFINE total == Total(reader)
               doing == IF reader.got = {} THEN "listed" ELSE reader.doing
               page == reader.page + 1
    <2>2. total \in Nat
      BY <2>1, FiniteRows DEF Total, Typed, TypeOK, ListingReader
    <2>3. doing \in {"listing", "listed"} /\ page \in Nat
      BY <2>1 DEF ListingReader
    <2>4. reader' = [reader EXCEPT !.counts = FALSE, !.total = total, !.page = page, !.doing = doing]
      BY <1>3 DEF ReadsCount
    <2> HIDE DEF total, doing, page
    <2>5. reader' \in ListingReader /\ reader'.of = reader.of /\ reader'.asked = reader.asked
      BY <2>1, <2>2, <2>3, <2>4 DEF ListingReader
    <2>6. QED
      BY <1>3, <2>1, <2>5 DEF ReadsCount, Typed
  <1>4. QED
    BY <1>1, <1>2, <1>3

(* A sheet is added at the end; what it is over is there now. *)
LEMMA SheetStep ==
  ASSUME Typed, ReadsSheet
  PROVE  /\ reader \in WorkbookReader /\ reader' \in WorkbookReader /\ UNCHANGED <<rows, came, left>>
         /\ Len(reader.sheets) + 1 \in 1 .. Len(Sheets)
         /\ \E s \in SheetType : /\ reader'.sheets = Append(reader.sheets, s) /\ s.moves = Moves
                                 /\ Rows(s) \subseteq shown \cup hidden
                                 /\ Whole(s) => Rows(s) = RowsOf(Sheets[Len(reader.sheets) + 1])
  <1>1. reader \in WorkbookReader
    BY DEF ReadsSheet, Typed, NotReading, ListingReader
  <1>2. reader.sheets \in Seq(SheetType) /\ Len(reader.sheets) \in Nat
    BY <1>1 DEF WorkbookReader
  <1>3. PICK groups \in Results(Sheets[Len(reader.sheets) + 1]) :
          reader' = [reader EXCEPT !.sheets = Append(reader.sheets, Sheet(groups))]
    BY DEF ReadsSheet
  <1>4. Len(reader.sheets) + 1 \in 1 .. Len(Sheets)
    BY <1>2 DEF ReadsSheet, Sheets
  <1>5. /\ groups \in SUBSET SUBSET Ids /\ UNION groups \subseteq shown \cup hidden
        /\ Cardinality(groups) < TopN => UNION groups = RowsOf(Sheets[Len(reader.sheets) + 1])
    BY <1>3, <1>4, ResultsAreWhole
  <1> DEFINE s == Sheet(groups)
             sheets == Append(reader.sheets, s)
  <1>6. s \in SheetType /\ s.moves = Moves /\ Rows(s) \subseteq shown \cup hidden
        /\ (Whole(s) => Rows(s) = RowsOf(Sheets[Len(reader.sheets) + 1]))
    BY <1>5 DEF Sheet, SheetType, Whole, Rows, Typed, Moves
  <1> HIDE DEF s
  <1>7. sheets \in Seq(SheetType)
    BY <1>2, <1>6
  <1>8. reader' = [reader EXCEPT !.sheets = sheets]
    BY <1>3 DEF s
  <1> HIDE DEF sheets
  <1>9. reader' \in WorkbookReader /\ reader'.sheets = sheets
    BY <1>1, <1>7, <1>8 DEF WorkbookReader
  <1>10. UNCHANGED <<rows, came, left>>
    BY DEF ReadsSheet
  <1>11. QED
    BY <1>1, <1>4, <1>6, <1>9, <1>10 DEF sheets

(* A writer moves one row at most, or renames one that is read by name. *)
LEMMA WriterStep ==
  ASSUME Typed, Inserts \/ \E i \in Ids : Comes(i) \/ Leaves(i) \/ Renames(i)
  PROVE  /\ shown' \subseteq Ids /\ hidden' \subseteq Ids /\ shown' \cap hidden' = {}
         /\ drawn' \in Ids /\ (shown' \cup hidden') \subseteq 1 .. drawn' /\ reader' = reader
         /\ name' \in [Ids -> Names \cup {Unnamed}]
         /\ shown \cup hidden \subseteq shown' \cup hidden'
         /\ came' \in Nat /\ left' \in Nat /\ Moves' \in 0 .. MaxMoves
         /\ \/ shown' = shown /\ Moves' = Moves
            \/ Moves' = Moves + 1 /\ \E i \in Ids : shown' = shown \cup {i} \/ shown' = shown \ {i}
            \/ ByName
  <1>0. Moves \in Nat /\ came \in Nat /\ left \in Nat /\ drawn \in Ids /\ shown \cup hidden \subseteq 1 .. drawn
    BY DEF Typed, TypeOK, Moves
  <1>1. CASE Inserts
    BY <1>1, ReaderConstants DEF Inserts, Typed, TypeOK, Ids, Moves
  <1>2. ASSUME NEW i \in Ids, Comes(i) PROVE /\ shown' \subseteq Ids /\ hidden' \subseteq Ids /\ shown' \cap hidden' = {}
                                             /\ i \in 1 .. drawn /\ drawn' = drawn /\ left' = left /\ name' = name
                                             /\ reader' = reader /\ came' = came + 1 /\ Moves < MaxMoves
                                             /\ shown' = shown \cup {i} /\ hidden' \subseteq hidden
                                             /\ shown \cup hidden \subseteq shown' \cup hidden'
    BY <1>2 DEF Comes, Typed, TypeOK, Pending
  <1>3. ASSUME NEW i \in Ids, Leaves(i) PROVE /\ shown' \subseteq Ids /\ hidden' \subseteq Ids /\ shown' \cap hidden' = {}
                                              /\ drawn' = drawn /\ came' = came /\ reader' = reader /\ name' = name
                                              /\ left' = left + 1 /\ Moves < MaxMoves
                                              /\ shown' = shown \ {i} /\ shown' \cup hidden' = shown \cup hidden
    BY <1>3 DEF Leaves, Typed, TypeOK
  <1>4. ASSUME NEW i \in Ids, Renames(i)
        PROVE  /\ shown' = shown /\ hidden' = hidden /\ drawn' = drawn /\ reader' = reader /\ ByName
               /\ name' \in [Ids -> Names \cup {Unnamed}]
               /\ \/ came' = came /\ left' = left
                  \/ came' = came + 1 /\ left' = left + 1 /\ Moves + 2 <= MaxMoves
    <2>1. PICK n \in Names : name' = [name EXCEPT ![i] = n]
      BY <1>4 DEF Renames
    <2>2. name \in [Ids -> Names \cup {Unnamed}]
      BY DEF Typed, TypeOK
    <2>3. name' \in [Ids -> Names \cup {Unnamed}]
      BY <2>1, <2>2
    <2>4. QED
      BY <1>4, <2>3 DEF Renames
  <1>5. CASE \E i \in Ids : Comes(i)
    <2>1. PICK i \in Ids : Comes(i)
      BY <1>5
    <2>2. QED
      BY <1>0, <1>2, <2>1, ReaderConstants DEF Moves, Typed, TypeOK
  <1>6. CASE \E i \in Ids : Leaves(i)
    <2>1. PICK i \in Ids : Leaves(i)
      BY <1>6
    <2>2. QED
      BY <1>0, <1>3, <2>1, ReaderConstants DEF Moves, Typed, TypeOK
  <1>7. CASE \E i \in Ids : Renames(i)
    <2>1. PICK i \in Ids : Renames(i)
      BY <1>7
    <2>2. Moves' \in 0 .. MaxMoves /\ came' \in Nat /\ left' \in Nat
      BY <1>0, <1>4, <2>1, ReaderConstants DEF Moves, Typed, TypeOK
    <2>3. QED
      BY <1>4, <2>1, <2>2 DEF Typed, TypeOK
  <1>8. QED
    BY <1>1, <1>5, <1>6, <1>7

LEMMA NextTyped == Typed /\ [Next]_vars => Typed'
  <1> SUFFICES ASSUME Typed, [Next]_vars PROVE Typed'
    OBVIOUS
  <1>1. CASE UNCHANGED vars
    BY <1>1 DEF vars, Typed, TypeOK, Moves
  <1>2. CASE Inserts \/ \E i \in Ids : Comes(i) \/ Leaves(i) \/ Renames(i)
    BY <1>2, WriterStep DEF Typed, TypeOK
  <1>3. ASSUME reader' \in ListingReader \cup WorkbookReader, UNCHANGED rows,
               reader'.doing # "workbook" => Accepts(reader'.of, reader'.asked),
               (came' = 0 /\ left' = 0) \/ (came' = came /\ left' = left)
        PROVE  Typed'
    BY <1>3, ReaderConstants DEF rows, Typed, TypeOK, Moves, ListingReader, WorkbookReader, Accepts
  <1>4. CASE BeginsListing \/ ReadsPage \/ ReadsCount
    BY <1>3, <1>4, ListingStep
  <1>5. CASE BeginsWorkbook
    BY <1>3, <1>5 DEF BeginsWorkbook, WorkbookReader
  <1>6. CASE ReadsSheet
    <2>1. reader' \in WorkbookReader /\ UNCHANGED <<rows, came, left>>
      BY <1>6, SheetStep
    <2>2. reader'.doing = "workbook"
      BY <2>1 DEF WorkbookReader
    <2>3. QED
      BY <1>3, <2>1, <2>2
  <1>7. QED
    BY <1>1, <1>2, <1>4, <1>5, <1>6 DEF Next

-----------------------------------------------------------------------------
(* The invariant: the rows a sheet is over differ from those there are now *)
(* by what moved since.                                                    *)
Off(k, sheet, S) ==
  IF Sheets[k] = "by_status" THEN S \ Rows(sheet)
  ELSE Differing(Rows(sheet), S) \cap Covered(Sheets[k])

IsNear(k, sheet) ==
  /\ sheet.moves <= Moves
  /\ Rows(sheet) \subseteq shown \cup hidden
  /\ Whole(sheet) => Cardinality(Off(k, sheet, shown)) <= Moves - sheet.moves

SheetsAreNear ==
  reader.doing = "workbook" =>
    /\ Len(reader.sheets) <= Len(Sheets)
    /\ \A k \in DOMAIN reader.sheets : IsNear(k, reader.sheets[k])

LEMMA OffGrows ==
  ASSUME NEW k, NEW sheet, Rows(sheet) \subseteq Ids, NEW T, T \subseteq Ids, NEW U, NEW i \in Ids,
         U = T \cup {i} \/ U = T \ {i}
  PROVE  /\ Cardinality(Off(k, sheet, U)) <= Cardinality(Off(k, sheet, T)) + 1
         /\ Cardinality(Off(k, sheet, T)) \in Nat /\ Cardinality(Off(k, sheet, U)) \in Nat
  <1>1. Off(k, sheet, T) \subseteq Ids /\ Off(k, sheet, U) \subseteq Off(k, sheet, T) \cup {i}
    <2>1. CASE Sheets[k] = "by_status"
      BY <2>1 DEF Off
    <2>2. CASE Sheets[k] # "by_status"
      BY <2>2 DEF Off, Differing
    <2>3. QED
      BY <2>1, <2>2
  <1>2. QED
    BY <1>1, Sizes

LEMMA StaysNear ==
  ASSUME Typed, Inserts \/ \E i \in Ids : Comes(i) \/ Leaves(i) \/ Renames(i), ~ ByName,
         NEW k, NEW sheet \in SheetType, IsNear(k, sheet)
  PROVE  /\ sheet.moves <= Moves' /\ Rows(sheet) \subseteq shown' \cup hidden'
         /\ Whole(sheet) => Cardinality(Off(k, sheet, shown')) <= Moves' - sheet.moves
  <1>1. /\ sheet.moves \in Nat /\ Moves \in Nat /\ sheet.moves <= Moves /\ Rows(sheet) \subseteq Ids
        /\ Rows(sheet) \subseteq shown \cup hidden /\ shown \subseteq Ids
        /\ Whole(sheet) => Cardinality(Off(k, sheet, shown)) <= Moves - sheet.moves
    BY DEF SheetType, IsNear, Typed, TypeOK, Moves, Rows
  <1>2. Rows(sheet) \subseteq shown' \cup hidden'
    BY <1>1, WriterStep
  <1>3. CASE shown' = shown /\ Moves' = Moves
    BY <1>1, <1>2, <1>3
  <1>4. CASE Moves' = Moves + 1 /\ \E i \in Ids : shown' = shown \cup {i} \/ shown' = shown \ {i}
    <2>1. PICK i \in Ids : shown' = shown \cup {i} \/ shown' = shown \ {i}
      BY <1>4
    <2> DEFINE old == Cardinality(Off(k, sheet, shown))
               new == Cardinality(Off(k, sheet, shown'))
    <2>2. new <= old + 1 /\ old \in Nat /\ new \in Nat
      BY <1>1, <2>1, OffGrows
    <2>3. Whole(sheet) => old <= Moves - sheet.moves
      BY <1>1
    <2> HIDE DEF old, new
    <2>4. /\ sheet.moves <= Moves'
          /\ Whole(sheet) => new <= Moves' - sheet.moves
      BY <1>1, <1>4, <2>2, <2>3
    <2>5. QED
      BY <1>2, <2>4 DEF new
  <1>5. QED
    BY <1>3, <1>4, WriterStep

(* A new sheet against itself now, and against one before it. *)
LEMMA NewIsNear ==
  ASSUME Typed, NEW l, NEW s \in SheetType, s.moves = Moves, Rows(s) \subseteq shown \cup hidden,
         Whole(s) => Rows(s) = RowsOf(Sheets[l])
  PROVE  IsNear(l, s)
  <1>1. s.moves <= Moves /\ Moves - s.moves = 0
    BY DEF Typed, Moves
  <1>2. Whole(s) => Off(l, s, shown) = {}
    BY DEF Off, RowsOf, Differing
  <1>3. QED
    BY <1>1, <1>2, FS_EmptySet DEF IsNear

LEMMA NewAgrees ==
  ASSUME Typed, NEW k \in 1 .. Len(Sheets), NEW l \in 1 .. Len(Sheets), k < l,
         NEW a \in SheetType, IsNear(k, a), Whole(a),
         NEW s \in SheetType, s.moves = Moves, Rows(s) = RowsOf(Sheets[l])
  PROVE  Agree(k, l, a, s)
  <1>1. /\ Rows(a) \subseteq Ids /\ Rows(a) \subseteq shown \cup hidden /\ shown \subseteq Ids
        /\ Cardinality(Off(k, a, shown)) <= Moves - a.moves /\ a.moves <= Moves
        /\ a.moves \in Nat /\ Moves \in Nat
    BY DEF IsNear, Typed, TypeOK, SheetType, Rows, Moves
  <1>2. \A i, j \in 1 .. Len(Sheets) : i < j => ~ (Sheets[i] = "by_status" /\ Sheets[j] = "by_status")
    BY DEF Sheets
  <1> DEFINE both == Covered(Sheets[k]) \cap Covered(Sheets[l])
             apart == CASE Sheets[k] = "by_status" -> Rows(s) \ Rows(a)
                        [] Sheets[l] = "by_status" -> Rows(a) \ Rows(s)
                        [] OTHER -> Differing(Rows(a), Rows(s)) \cap Covered(Sheets[k]) \cap Covered(Sheets[l])
  <1>3. apart \subseteq Off(k, a, shown) /\ Off(k, a, shown) \subseteq Ids
    <2>1. CASE Sheets[k] = "by_status"
      <3>0. Sheets[l] # "by_status"
        BY <1>2, <2>1
      <3>1. Rows(s) \subseteq shown
        BY <3>0 DEF RowsOf
      <3>2. apart = Rows(s) \ Rows(a)
        BY <2>1, <3>0
      <3>3. QED
        BY <1>1, <2>1, <3>1, <3>2 DEF Off
    <2>2. CASE Sheets[k] # "by_status" /\ Sheets[l] = "by_status"
      <3>1. Rows(s) = shown \cup hidden
        BY <2>2 DEF RowsOf
      <3>2. apart = Rows(a) \ Rows(s)
        BY <2>2
      <3>3. QED
        BY <1>1, <2>2, <3>1, <3>2 DEF Off, Differing
    <2>3. CASE Sheets[k] # "by_status" /\ Sheets[l] # "by_status"
      <3>1. Rows(s) = shown \cap Covered(Sheets[l])
        BY <2>3 DEF RowsOf
      <3>2. apart = Differing(Rows(a), Rows(s)) \cap Covered(Sheets[k]) \cap Covered(Sheets[l])
        BY <2>3
      <3>3. QED
        BY <1>1, <2>3, <3>1, <3>2 DEF Off, Differing
    <2>4. QED
      BY <2>1, <2>2, <2>3
  <1> HIDE DEF apart
  <1>4. Cardinality(apart) <= Cardinality(Off(k, a, shown)) /\ Cardinality(apart) \in Nat
        /\ Cardinality(Off(k, a, shown)) \in Nat
    BY <1>3, Sizes
  <1>5. Cardinality(apart) <= s.moves - a.moves
    BY <1>1, <1>4
  <1>6. QED
    BY <1>5 DEF Agree, apart

LEMMA NextNear == Typed /\ SheetsAreNear /\ SheetsDifferByWhatMoved /\ [Next]_vars
                    => SheetsAreNear' /\ SheetsDifferByWhatMoved'
  <1> SUFFICES ASSUME Typed, SheetsAreNear, SheetsDifferByWhatMoved, [Next]_vars
               PROVE  SheetsAreNear' /\ SheetsDifferByWhatMoved'
    OBVIOUS
  <1>1. CASE UNCHANGED vars
    BY <1>1 DEF vars, SheetsAreNear, SheetsDifferByWhatMoved, IsNear, Moves, Whole, Off, Agree, Rows,
                Differing, Covered
  <1>2. CASE Inserts \/ \E i \in Ids : Comes(i) \/ Leaves(i) \/ Renames(i)
    <2>1. reader' = reader
      BY <1>2, WriterStep
    <2>2. SheetsDifferByWhatMoved'
      BY <2>1 DEF SheetsDifferByWhatMoved, Whole, Agree, Rows, Differing, Covered
    <2>3. ASSUME reader.doing = "workbook", NEW k \in DOMAIN reader.sheets
          PROVE  IsNear(k, reader.sheets[k])'
      <3>1. reader \in WorkbookReader /\ ~ ByName
        BY <2>3 DEF Typed, NotReading, ListingReader, ByName
      <3> DEFINE sheet == reader.sheets[k]
      <3>2. sheet \in SheetType
        BY <2>3, <3>1 DEF WorkbookReader
      <3>3. IsNear(k, sheet) /\ reader'.sheets[k] = sheet
        BY <2>1, <2>3 DEF SheetsAreNear
      <3> HIDE DEF sheet
      <3>4. /\ sheet.moves <= Moves' /\ Rows(sheet) \subseteq shown' \cup hidden'
            /\ Whole(sheet) => Cardinality(Off(k, sheet, shown')) <= Moves' - sheet.moves
        BY <1>2, <3>1, <3>2, <3>3, StaysNear
      <3>5. QED
        BY <3>3, <3>4 DEF IsNear, Whole, Off, Rows, Differing, Covered
    <2>4. QED
      BY <2>1, <2>2, <2>3 DEF SheetsAreNear
  <1>3. CASE BeginsListing \/ ReadsPage \/ ReadsCount
    <2>1. reader'.doing # "workbook"
      BY <1>3, ListingStep DEF ListingReader
    <2>2. QED
      BY <2>1 DEF SheetsAreNear, SheetsDifferByWhatMoved
  <1>4. CASE BeginsWorkbook
    <2>1. reader'.sheets = <<>>
      BY <1>4 DEF BeginsWorkbook
    <2>2. DOMAIN reader'.sheets = {} /\ Len(reader'.sheets) <= Len(Sheets)
      BY <2>1 DEF Sheets
    <2>3. QED
      BY <2>2 DEF SheetsAreNear, SheetsDifferByWhatMoved
  <1>5. CASE ReadsSheet
    <2> DEFINE n == Len(reader.sheets)
               old == reader.sheets
    <2>1. /\ reader \in WorkbookReader /\ UNCHANGED <<rows, came, left>>
          /\ old \in Seq(SheetType) /\ n \in Nat /\ n + 1 \in 1 .. Len(Sheets)
      BY <1>5, SheetStep DEF WorkbookReader
    <2>2. PICK s \in SheetType : /\ reader'.sheets = Append(old, s) /\ s.moves = Moves
                                 /\ Rows(s) \subseteq shown \cup hidden
                                 /\ Whole(s) => Rows(s) = RowsOf(Sheets[n + 1])
      BY <1>5, SheetStep
    <2> DEFINE new == Append(old, s)
    <2>3. /\ DOMAIN old = 1 .. n /\ DOMAIN new = 1 .. n + 1 /\ n \in Nat /\ Len(new) = n + 1
          /\ \A k \in 1 .. n : new[k] = old[k] /\ old[k] \in SheetType
          /\ new[n + 1] = s
      <3>1. old \in Seq(SheetType) /\ s \in SheetType /\ n \in Nat /\ n = Len(old)
        BY <2>1
      <3> HIDE DEF old, n
      <3>2. new \in Seq(SheetType) /\ Len(new) = n + 1
        BY <3>1
      <3>3. \A k \in 1 .. n : new[k] = old[k] /\ old[k] \in SheetType
        BY <3>1
      <3>4. new[n + 1] = s
        BY <3>1
      <3>5. QED
        BY <3>1, <3>2, <3>3, <3>4
    <2>4. reader'.sheets = new /\ \A k \in DOMAIN old : IsNear(k, old[k])
      BY <2>1, <2>2 DEF SheetsAreNear, WorkbookReader
    <2>5. \A k, l \in DOMAIN old : k < l /\ Whole(old[k]) /\ Whole(old[l]) => Agree(k, l, old[k], old[l])
      BY <2>1 DEF SheetsDifferByWhatMoved, WorkbookReader
    <2> HIDE DEF n, old, new
    <2>6. Moves' = Moves /\ shown' = shown /\ hidden' = hidden /\ Len(Sheets) = 6
      BY <2>1 DEF Moves, rows, Sheets
    <2>7. IsNear(n + 1, s)
      BY <2>2, NewIsNear
    <2>8. \A k \in DOMAIN new : IsNear(k, new[k])
      BY <2>3, <2>4, <2>7
    <2>9. SheetsAreNear'
      <3>1. Len(reader'.sheets) <= Len(Sheets)
        BY <2>1, <2>3, <2>4, <2>6
      <3>2. QED
        BY <2>4, <2>6, <2>8, <3>1 DEF SheetsAreNear, IsNear, Whole, Off, Rows, Differing, Covered
    <2>10. ASSUME NEW k \in DOMAIN new, NEW l \in DOMAIN new, k < l, Whole(new[k]), Whole(new[l])
           PROVE  Agree(k, l, new[k], new[l])
      <3>1. CASE l = n + 1
        <4>1. k \in DOMAIN old /\ k \in 1 .. Len(Sheets) /\ l \in 1 .. Len(Sheets)
          BY <2>1, <2>3, <2>6, <2>10, <3>1
        <4>2. new[k] = old[k] /\ new[l] = s /\ old[k] \in SheetType
          BY <2>3, <3>1, <4>1
        <4>3. IsNear(k, old[k]) /\ Whole(old[k]) /\ Rows(s) = RowsOf(Sheets[l])
          BY <2>2, <2>4, <2>10, <3>1, <4>1, <4>2
        <4>4. Agree(k, l, old[k], s)
          BY <2>2, <2>10, <4>1, <4>2, <4>3, NewAgrees
        <4>5. QED
          BY <4>2, <4>4
      <3>2. CASE l # n + 1
        <4>1. k \in DOMAIN old /\ l \in DOMAIN old
          BY <2>3, <2>10, <3>2
        <4>2. new[k] = old[k] /\ new[l] = old[l]
          BY <2>3, <4>1
        <4>3. QED
          BY <2>5, <2>10, <4>1, <4>2
      <3>3. QED
        BY <3>1, <3>2
    <2>11. SheetsDifferByWhatMoved'
      BY <2>4, <2>10 DEF SheetsDifferByWhatMoved, Whole, Agree, Rows, Differing, Covered
    <2>12. QED
      BY <2>9, <2>11
  <1>6. QED
    BY <1>1, <1>2, <1>3, <1>4, <1>5 DEF Next

-----------------------------------------------------------------------------
(* Types, for any listings, writers and constants.                         *)
THEOREM TypeCorrect == Spec => []TypeOK
  <1>1. Typed => TypeOK
    BY DEF Typed
  <1>2. QED
    BY <1>1, InitTyped, NextTyped, PTL DEF Spec

(* Two sheets of one workbook are over sets of invoices that differ by no  *)
(* more than what moved between the two statements, for any number of      *)
(* invoices, groups and moves.                                             *)
THEOREM SheetsStayClose == Spec => []SheetsDifferByWhatMoved
  <1>1. Init => SheetsAreNear /\ SheetsDifferByWhatMoved
    BY DEF Init, NotReading, SheetsAreNear, SheetsDifferByWhatMoved
  <1>2. QED
    BY <1>1, InitTyped, NextTyped, NextNear, PTL DEF Spec

-----------------------------------------------------------------------------
(* Sums.  A fold is a recursive function, seen as a CHOOSE; what it is at  *)
(* every subset follows by induction on their size.                        *)

(* Induction, with sets for predicates. *)
LEMMA NumbersFromZero ==
  ASSUME NEW T, 0 \in T, \A n \in Nat : n \in T => n + 1 \in T
  PROVE  Nat \subseteq T
  <1> SUFFICES ASSUME Nat \ T # {} PROVE FALSE
    OBVIOUS
  <1>1. PICK n \in Nat \ T : \A m \in Nat \ T : ~ (<<m, n>> \in OpToRel(<, Nat))
    BY NatLessThanWellFounded, WFMin
  <1>2. \A m \in Nat \ T : ~ m < n
    BY <1>1 DEF OpToRel
  <1>3. n \in Nat /\ n # 0 /\ n - 1 \in Nat /\ n - 1 < n
    OBVIOUS
  <1>4. n - 1 \in T
    BY <1>2, <1>3
  <1>5. (n - 1) + 1 = n
    BY <1>3
  <1>6. QED
    BY <1>3, <1>4, <1>5

First(s) == CHOOSE x \in s : TRUE

LEMMA FirstOut ==
  ASSUME NEW S, IsFiniteSet(S), NEW s \in SUBSET S
  PROVE  /\ Cardinality(s) \in Nat
         /\ s = {} <=> Cardinality(s) = 0
         /\ s # {} => /\ First(s) \in s /\ s \ {First(s)} \in SUBSET S
                      /\ Cardinality(s \ {First(s)}) = Cardinality(s) - 1
  <1>1. IsFiniteSet(s)
    BY FS_Subset
  <1>2. s # {} => First(s) \in s
    BY DEF First
  <1>3. QED
    BY <1>1, <1>2, FS_CardinalityType, FS_EmptySet, FS_RemoveElement

LEMMA SubsetsFromEmpty ==
  ASSUME NEW S, IsFiniteSet(S), NEW T, {} \in T,
         \A s \in SUBSET S : s # {} /\ s \ {First(s)} \in T => s \in T
  PROVE  SUBSET S \subseteq T
  <1> DEFINE N == {n \in Nat : \A s \in SUBSET S : Cardinality(s) = n => s \in T}
  <1>1. 0 \in N
    BY FirstOut
  <1>2. ASSUME NEW n \in Nat, n \in N PROVE n + 1 \in N
    <2> SUFFICES ASSUME NEW s \in SUBSET S, Cardinality(s) = n + 1 PROVE s \in T
      OBVIOUS
    <2>1. s # {} /\ s \ {First(s)} \in SUBSET S /\ Cardinality(s \ {First(s)}) = n
      BY FirstOut
    <2>2. QED
      BY <1>2, <2>1
  <1> HIDE DEF N
  <1>3. Nat \subseteq N
    BY <1>1, <1>2, NumbersFromZero
  <1>4. QED
    BY <1>3, FirstOut DEF N

(* The running sums of w over the subsets of S. *)
Adds(w, g, s) == IF s = {} THEN 0 ELSE w[First(s)] + g[s \ {First(s)}]
Sums(w, S) == CHOOSE g : g = [s \in SUBSET S |-> Adds(w, g, s)]

LEMMA SumsExist ==
  ASSUME NEW S, IsFiniteSet(S), NEW w
  PROVE  \A s \in SUBSET S : Sums(w, S)[s] = Adds(w, Sums(w, S), s)
  <1> DEFINE N == {n \in Nat : \E g : \A s \in SUBSET S :
                                 Cardinality(s) <= n => g[s] = Adds(w, g, s)}
  <1>1. 0 \in N
    <2> DEFINE g == [s \in SUBSET S |-> 0]
    <2>1. ASSUME NEW s \in SUBSET S, Cardinality(s) <= 0 PROVE g[s] = Adds(w, g, s)
      <3>1. Cardinality(s) \in Nat /\ (s = {} <=> Cardinality(s) = 0)
        BY FirstOut
      <3>2. s = {}
        BY <2>1, <3>1
      <3>3. QED
        BY <3>2 DEF Adds
    <2> HIDE DEF g
    <2>2. QED
      BY <2>1
  <1>2. ASSUME NEW n \in Nat, n \in N PROVE n + 1 \in N
    <2>1. PICK g : \A s \in SUBSET S : Cardinality(s) <= n => g[s] = Adds(w, g, s)
      BY <1>2
    <2> DEFINE h == [s \in SUBSET S |-> Adds(w, g, s)]
    <2>2. ASSUME NEW s \in SUBSET S, Cardinality(s) <= n + 1 PROVE h[s] = Adds(w, h, s)
      <3>1. CASE s = {}
        BY <3>1 DEF Adds
      <3>2. CASE s # {}
        <4>1. s \ {First(s)} \in SUBSET S /\ Cardinality(s \ {First(s)}) <= n
          BY <2>2, <3>2, FirstOut
        <4>2. h[s \ {First(s)}] = g[s \ {First(s)}]
          BY <2>1, <4>1
        <4> HIDE DEF h
        <4>3. Adds(w, h, s) = Adds(w, g, s)
          BY <4>2 DEF Adds
        <4>4. QED
          BY <4>3 DEF h
      <3>3. QED
        BY <3>1, <3>2
    <2> HIDE DEF h
    <2>3. QED
      BY <2>2
  <1> HIDE DEF N
  <1>3. Cardinality(S) \in N
    BY <1>1, <1>2, NumbersFromZero, FS_CardinalityType
  <1>4. PICK g : \A s \in SUBSET S : Cardinality(s) <= Cardinality(S) => g[s] = Adds(w, g, s)
    BY <1>3 DEF N
  <1> DEFINE h == [s \in SUBSET S |-> g[s]]
  <1>5. h = [s \in SUBSET S |-> Adds(w, h, s)]
    <2>1. ASSUME NEW s \in SUBSET S PROVE h[s] = Adds(w, h, s)
      <3>1. Cardinality(s) <= Cardinality(S)
        BY FS_Subset
      <3>2. s # {} => s \ {First(s)} \in SUBSET S
        OBVIOUS
      <3>3. QED
        BY <1>4, <3>1, <3>2 DEF Adds
    <2>2. QED
      BY <2>1
  <1> HIDE DEF h
  <1>6. Sums(w, S) = [s \in SUBSET S |-> Adds(w, Sums(w, S), s)]
    BY <1>5 DEF Sums
  <1>7. QED
    BY <1>6

(* Weights that are one more on the elements of A. *)
OneMoreOn(A, v, w, S) == \A x \in S : w[x] = v[x] + (IF x \in A THEN 1 ELSE 0)

LEMMA SumsOfMore ==
  ASSUME NEW S, IsFiniteSet(S), NEW v \in [S -> Int], NEW w \in [S -> Int], NEW A,
         OneMoreOn(A, v, w, S)
  PROVE  Sums(v, S)[S] \in Int /\ Sums(w, S)[S] = Sums(v, S)[S] + Cardinality(A \cap S)
  <1> DEFINE T == {s \in SUBSET S :
               /\ Sums(v, S)[s] \in Int
               /\ Sums(w, S)[s] = Sums(v, S)[s] + Cardinality(A \cap s)}
  <1>1. {} \in T
    <2>1. Sums(v, S)[{}] = 0 /\ Sums(w, S)[{}] = 0
      BY SumsExist DEF Adds
    <2>2. A \cap {} = {} /\ Cardinality({}) = 0
      BY FS_EmptySet
    <2>3. QED
      BY <2>1, <2>2
  <1>2. ASSUME NEW s \in SUBSET S, s # {}, s \ {First(s)} \in T PROVE s \in T
    <2> DEFINE x == First(s)
               rest == s \ {x}
    <2>1. x \in S /\ x \in s
      BY <1>2, FirstOut
    <2>2. Sums(v, S)[s] = v[x] + Sums(v, S)[rest] /\ Sums(w, S)[s] = w[x] + Sums(w, S)[rest]
      <3>1. /\ Sums(v, S)[s] = Adds(v, Sums(v, S), s)
            /\ Sums(w, S)[s] = Adds(w, Sums(w, S), s)
        BY SumsExist
      <3>2. QED
        BY <1>2, <3>1 DEF Adds
    <2>3. v[x] \in Int /\ w[x] = v[x] + (IF x \in A THEN 1 ELSE 0)
      BY <2>1 DEF OneMoreOn
    <2>4. /\ Sums(v, S)[rest] \in Int
          /\ Sums(w, S)[rest] = Sums(v, S)[rest] + Cardinality(A \cap rest)
      BY <1>2
    <2> HIDE DEF x
    <2>5. IsFiniteSet(A \cap s) /\ Cardinality(A \cap s) \in Nat
      BY FS_Subset, FS_CardinalityType
    <2>6. A \cap rest = (A \cap s) \ {x}
      OBVIOUS
    <2>7. Cardinality(A \cap rest) = IF x \in A THEN Cardinality(A \cap s) - 1 ELSE Cardinality(A \cap s)
      BY <2>1, <2>5, <2>6, FS_RemoveElement, ZenonT(40)
    <2>8. QED
      BY <2>2, <2>3, <2>4, <2>5, <2>7
  <1> HIDE DEF T
  <1>3. S \in T
    BY <1>1, <1>2, SubsetsFromEmpty
  <1>4. QED
    BY <1>3 DEF T

LEMMA SumsOfNothing ==
  ASSUME NEW S, IsFiniteSet(S), NEW w, \A x \in S : w[x] = 0
  PROVE  Sums(w, S)[S] = 0
  <1> DEFINE T == {s \in SUBSET S : Sums(w, S)[s] = 0}
  <1>1. \A s \in SUBSET S : Sums(w, S)[s] = Adds(w, Sums(w, S), s)
    BY SumsExist
  <1>2. {} \in T
    BY <1>1 DEF Adds
  <1>3. ASSUME NEW s \in SUBSET S, s # {}, s \ {First(s)} \in T PROVE s \in T
    <2>1. First(s) \in S
      BY <1>3, FirstOut
    <2>2. QED
      BY <1>1, <1>3, <2>1 DEF Adds
  <1> HIDE DEF T
  <1>4. S \in T
    BY <1>2, <1>3, SubsetsFromEmpty
  <1>5. QED
    BY <1>4 DEF T

(* How often beyond the first time a row was seen. *)
Beyond(times) == [i \in Ids |-> IF times[i] > 1 THEN times[i] - 1 ELSE 0]

LEMMA RepeatsAreSums == Repeats = Sums(Beyond(reader.times), Ids)[Ids]
  <1> DEFINE Body(g, s) ==
               IF s = {} THEN 0
               ELSE LET x == CHOOSE y \in s : TRUE
                    IN  (IF reader.times[x] > 1 THEN reader.times[x] - 1 ELSE 0) + g[s \ {x}]
             w == Beyond(reader.times)
  <1>1. Repeats = (CHOOSE g : g = [s \in SUBSET Ids |-> Body(g, s)])[Ids]
    BY DEF Repeats, MapThenSumSet, MapThenFoldSet
  <1>2. ASSUME NEW g, NEW s \in SUBSET Ids PROVE Body(g, s) = Adds(w, g, s)
    <2>1. s # {} => First(s) \in Ids
      BY DEF First
    <2>2. QED
      BY <2>1 DEF Adds, First, Beyond
  <1> HIDE DEF Body
  <1>3. \A g : [s \in SUBSET Ids |-> Body(g, s)] = [s \in SUBSET Ids |-> Adds(w, g, s)]
    BY <1>2
  <1>4. QED
    BY <1>1, <1>3 DEF Sums

-----------------------------------------------------------------------------
(* Ranks.  Rows that sort alike are taken by id, so that rows have ranks.  *)
(* The rows behind a frontier stay behind it when a row comes, and at most *)
(* one more row falls behind; when a row leaves, the other way round.      *)
IsKey(K) == K \in [Ids -> Int]
Precedes(K, i, j) == K[i] < K[j] \/ (K[i] = K[j] /\ i < j)
Before(K, S, i) == {j \in S : Precedes(K, j, i)}
Rank(K, S, i) == Cardinality(Before(K, S, i))
Behind(K, S, f) == {i \in S : Rank(K, S, i) >= f}

LEMMA TotalOrder ==
  ASSUME NEW K, IsKey(K), NEW i \in Ids, NEW j \in Ids
  PROVE  /\ ~ Precedes(K, i, i)
         /\ i = j \/ Precedes(K, i, j) \/ Precedes(K, j, i)
         /\ \A k \in Ids : Precedes(K, i, j) /\ Precedes(K, j, k) => Precedes(K, i, k)
  <1>1. K[i] \in Int /\ K[j] \in Int /\ i \in Int /\ j \in Int /\ \A k \in Ids : K[k] \in Int /\ k \in Int
    BY DEF IsKey, Ids
  <1>2. QED
    BY <1>1 DEF Precedes

LEMMA RankType ==
  ASSUME NEW K, NEW S, S \subseteq Ids, NEW i
  PROVE  Rank(K, S, i) \in Nat /\ IsFiniteSet(Before(K, S, i)) /\ Before(K, S, i) \subseteq S
  <1>1. Before(K, S, i) \subseteq S
    BY DEF Before
  <1>2. QED
    BY <1>1, FiniteRows DEF Rank

LEMMA RanksRise ==
  ASSUME NEW K, IsKey(K), NEW S, S \subseteq Ids, NEW i \in S, NEW j \in Ids, Precedes(K, i, j)
  PROVE  Rank(K, S, i) < Rank(K, S, j)
  <1>2. i \notin Before(K, S, i) /\ Before(K, S, i) \cup {i} \subseteq Before(K, S, j)
    BY TotalOrder DEF Before
  <1>3. Cardinality(Before(K, S, i) \cup {i}) = Rank(K, S, i) + 1
    BY <1>2, RankType, FS_AddElement DEF Rank
  <1>4. Cardinality(Before(K, S, i) \cup {i}) <= Rank(K, S, j)
    BY <1>2, RankType, FS_Subset DEF Rank
  <1>5. QED
    BY <1>3, <1>4, RankType

LEMMA RanksDiffer ==
  ASSUME NEW K, IsKey(K), NEW S, S \subseteq Ids, NEW i \in S, NEW j \in S,
         Rank(K, S, i) = Rank(K, S, j)
  PROVE  i = j
  <1>1. i \in Ids /\ j \in Ids /\ Rank(K, S, i) \in Nat /\ Rank(K, S, j) \in Nat
    BY RankType
  <1>2. ~ Precedes(K, i, j) /\ ~ Precedes(K, j, i)
    BY <1>1, RanksRise
  <1>3. QED
    BY <1>1, <1>2, TotalOrder

LEMMA RankWithOneMore ==
  ASSUME NEW K, NEW S, S \subseteq Ids, NEW x \in Ids \ S, NEW i \in Ids
  PROVE  Rank(K, S \cup {x}, i) = Rank(K, S, i) + (IF Precedes(K, x, i) THEN 1 ELSE 0)
  <1>1. CASE Precedes(K, x, i)
    <2>1. Before(K, S \cup {x}, i) = Before(K, S, i) \cup {x} /\ x \notin Before(K, S, i)
      BY <1>1 DEF Before
    <2>2. QED
      BY <1>1, <2>1, RankType, FS_AddElement DEF Rank
  <1>2. CASE ~ Precedes(K, x, i)
    <2>1. Before(K, S \cup {x}, i) = Before(K, S, i)
      BY <1>2 DEF Before
    <2>2. QED
      BY <1>2, <2>1, RankType DEF Rank
  <1>3. QED
    BY <1>1, <1>2

LEMMA OneMoreBehind ==
  ASSUME NEW K, IsKey(K), NEW S, S \subseteq Ids, NEW x \in Ids \ S, NEW f \in Int
  PROVE  /\ Behind(K, S, f) \subseteq Behind(K, S \cup {x}, f)
         /\ \E y \in Ids : Behind(K, S \cup {x}, f) \subseteq Behind(K, S, f) \cup {y}
  <1> DEFINE T == S \cup {x}
             old == Behind(K, S, f)
             new == Behind(K, T, f)
  <1>1. \A i \in Ids : /\ Rank(K, S, i) \in Nat /\ Rank(K, T, i) \in Nat
                       /\ Rank(K, T, i) = Rank(K, S, i) + (IF Precedes(K, x, i) THEN 1 ELSE 0)
    BY RankType, RankWithOneMore
  <1>2. \A i \in Ids : (i \in old <=> i \in S /\ Rank(K, S, i) >= f)
                       /\ (i \in new <=> i \in T /\ Rank(K, T, i) >= f)
    BY DEF Behind
  <1>3. S \subseteq Ids /\ T \subseteq Ids /\ old \subseteq Ids /\ new \subseteq Ids /\ x \in Ids
        /\ (\A i \in T : i \in S \/ i = x)
    BY DEF Behind
  <1>5. \A i \in S : \A j \in S : Rank(K, S, i) = Rank(K, S, j) => i = j
    BY RanksDiffer
  <1>6. \A i \in S : Precedes(K, x, i) => Rank(K, T, x) < Rank(K, T, i)
    BY <1>3, RanksRise
  <1> HIDE DEF old, new, T
  <1>7. old \subseteq new
    <2>1. S \subseteq T
      BY DEF T
    <2>2. QED
      BY <1>1, <1>2, <1>3, <2>1
  <1>8. ASSUME NEW i \in new \ old, i # x
        PROVE  Rank(K, S, i) = f - 1 /\ Rank(K, T, i) = f /\ Precedes(K, x, i) /\ i \in S
    <2>1. i \in Ids /\ i \in T /\ i \in S
      BY <1>2, <1>3, <1>8
    <2>2. Rank(K, T, i) >= f /\ ~ Rank(K, S, i) >= f
      BY <1>2, <1>8, <2>1
    <2>3. /\ Rank(K, S, i) \in Nat /\ Rank(K, T, i) \in Nat
          /\ Rank(K, T, i) = Rank(K, S, i) + (IF Precedes(K, x, i) THEN 1 ELSE 0)
      BY <1>1, <2>1
    <2>4. QED
      BY <2>1, <2>2, <2>3
  <1>9. CASE x \in new
    <2>1. ASSUME NEW i \in new \ old, i # x PROVE FALSE
      <3>1. Rank(K, T, i) = f /\ Rank(K, T, x) < Rank(K, T, i)
        BY <1>6, <1>8, <2>1
      <3>2. Rank(K, T, x) >= f /\ Rank(K, T, x) \in Nat
        BY <1>1, <1>2, <1>3, <1>9
      <3>3. QED
        BY <3>1, <3>2
    <2>2. new \subseteq old \cup {x}
      BY <2>1
    <2>3. QED
      BY <1>3, <1>7, <2>2 DEF old, new, T
  <1>10. CASE x \notin new
    <2>1. CASE new \subseteq old
      BY <1>3, <1>7, <2>1 DEF old, new, T
    <2>2. CASE ~ new \subseteq old
      <3>1. PICK y \in new : y \notin old
        BY <2>2
      <3>2. \A i \in new \ old : i = y
        BY <1>5, <1>8, <1>10, <3>1
      <3>3. new \subseteq old \cup {y} /\ y \in Ids
        BY <1>3, <3>2
      <3>4. QED
        BY <1>7, <3>3 DEF old, new, T
    <2>3. QED
      BY <2>1, <2>2
  <1>11. QED
    BY <1>9, <1>10

(* The first n rows, when no two sort alike, are those of ranks below n.   *)
LEMMA FirstsAreRanks ==
  ASSUME NEW K, IsKey(K), shown \subseteq Ids, ~ Alike(K), NEW n \in Nat, NEW S \in Firsts(K, n)
  PROVE  shown \ S = Behind(K, shown, n)
  <1>1. S \subseteq shown /\ Cardinality(S) = Min({n, Cardinality(shown)})
        /\ \A i \in S, j \in shown \ S : K[i] <= K[j]
    BY DEF Firsts
  <1>2. IsFiniteSet(S) /\ Cardinality(S) \in Nat /\ IsFiniteSet(shown) /\ Cardinality(shown) \in Nat
    BY <1>1, FiniteRows
  <1>3. Cardinality(S) = IF n <= Cardinality(shown) THEN n ELSE Cardinality(shown)
    BY <1>1, <1>2, MinOfTwo
  <1>4. \A i, j \in shown : K[i] = K[j] => i = j
    BY DEF Alike
  <1>5. \A i \in shown : K[i] \in Int
    BY DEF IsKey
  <1>6. ASSUME NEW i \in S PROVE Rank(K, shown, i) < n
    <2>1. Before(K, shown, i) \subseteq S \ {i}
      <3>1. ASSUME NEW j \in shown, Precedes(K, j, i) PROVE j \in S /\ j # i
        <4>1. K[j] < K[i] \/ K[j] = K[i]
          BY <3>1 DEF Precedes
        <4>2. j # i
          BY <1>1, <3>1, TotalOrder
        <4>3. K[j] # K[i]
          BY <1>1, <1>4, <4>2
        <4>4. ~ K[i] <= K[j]
          BY <1>1, <1>5, <4>1, <4>3
        <4>5. QED
          BY <1>1, <4>2, <4>4
      <3>2. QED
        BY <3>1 DEF Before
    <2>2. Cardinality(S \ {i}) = Cardinality(S) - 1 /\ IsFiniteSet(S \ {i})
      BY <1>2, FS_RemoveElement
    <2>3. Rank(K, shown, i) <= Cardinality(S) - 1
      BY <2>1, <2>2, FS_Subset DEF Rank
    <2>4. Rank(K, shown, i) \in Nat
      BY RankType
    <2>5. QED
      BY <1>2, <1>3, <2>3, <2>4
  <1>7. ASSUME NEW i \in shown \ S PROVE Rank(K, shown, i) >= n
    <2>1. S \subseteq Before(K, shown, i)
      <3>1. ASSUME NEW j \in S PROVE Precedes(K, j, i)
        <4>1. K[j] <= K[i] /\ j # i /\ K[j] # K[i]
          BY <1>1, <1>4
        <4>2. QED
          BY <1>1, <1>5, <4>1 DEF Precedes
      <3>2. QED
        BY <1>1, <3>1 DEF Before
    <2>2. Cardinality(S) <= Rank(K, shown, i) /\ Rank(K, shown, i) \in Nat
      BY <2>1, RankType, FS_Subset DEF Rank
    <2>3. Cardinality(S) # Cardinality(shown)
      <3>1. Cardinality(S) = Cardinality(shown) => S = shown
        BY <1>1, <1>2, FS_Subset
      <3>2. QED
        BY <1>7, <3>1
    <2>4. QED
      BY <1>2, <1>3, <2>2, <2>3
  <1>8. ASSUME NEW i \in shown PROVE i \in shown \ S <=> Rank(K, shown, i) >= n
    <2>1. Rank(K, shown, i) \in Nat
      BY RankType
    <2>2. QED
      BY <1>6, <1>7, <2>1
  <1>9. shown \ S \subseteq Behind(K, shown, n) /\ Behind(K, shown, n) \subseteq shown \ S
    BY <1>8 DEF Behind
  <1>10. QED
    BY <1>9

(* Where the first f rows are the first f + n of them, nothing is behind.  *)
LEMMA FirstsEnd ==
  ASSUME NEW K, shown \subseteq Ids, NEW f \in Nat, NEW n \in Nat, n >= 1,
         NEW S \in Firsts(K, f), S \in Firsts(K, f + n)
  PROVE  S = shown
  <1>1. /\ S \subseteq shown /\ Cardinality(S) = Min({f, Cardinality(shown)})
        /\ Cardinality(S) = Min({f + n, Cardinality(shown)})
    BY DEF Firsts
  <1>2. IsFiniteSet(shown) /\ Cardinality(shown) \in Nat /\ f + n \in Nat
    BY FiniteRows
  <1>3. /\ Cardinality(S) = IF f <= Cardinality(shown) THEN f ELSE Cardinality(shown)
        /\ Cardinality(S) = IF f + n <= Cardinality(shown) THEN f + n ELSE Cardinality(shown)
    <2> DEFINE m == f + n
    <2>1. m \in Int /\ f \in Int /\ Cardinality(shown) \in Int
      BY <1>2
    <2>2. Cardinality(S) = Min({f, Cardinality(shown)}) /\ Cardinality(S) = Min({m, Cardinality(shown)})
      BY <1>1
    <2> HIDE DEF m
    <2>3. Min({f, Cardinality(shown)}) = IF f <= Cardinality(shown) THEN f ELSE Cardinality(shown)
      BY <2>1, MinOfTwo
    <2>4. Min({m, Cardinality(shown)}) = IF m <= Cardinality(shown) THEN m ELSE Cardinality(shown)
      BY <2>1, MinOfTwo
    <2>5. QED
      BY <2>2, <2>3, <2>4 DEF m
  <1>4. Cardinality(S) = Cardinality(shown)
    BY <1>2, <1>3
  <1>5. QED
    BY <1>1, <1>2, <1>4, FS_Subset

(* A page, when no two rows sort alike, is what lies between two frontiers. *)
LEMMA PageIsBetween ==
  ASSUME NEW r, LimitOf(r.of, r.asked) \in Nat, LimitOf(r.of, r.asked) >= 1, Offset(r) \in Nat,
         IsKey(SortKey(r.of)), shown \subseteq Ids, ~ Alike(SortKey(r.of)), NEW page \in PagesOf(r)
  PROVE  LET K == SortKey(r.of)
             f == Offset(r)
         IN  /\ page \subseteq Behind(K, shown, f)
             /\ Behind(K, shown, f + LimitOf(r.of, r.asked)) = Behind(K, shown, f) \ page
             /\ page = {} => Behind(K, shown, f) = {}
  <1> DEFINE K == SortKey(r.of)
             f == Offset(r)
             n == LimitOf(r.of, r.asked)
  <1>1. PICK S \in Firsts(K, f + n) : page \in {S \ T : T \in {U \in Firsts(K, f) : U \subseteq S}}
    BY DEF PagesOf
  <1>2. PICK T \in Firsts(K, f) : T \subseteq S /\ page = S \ T
    BY <1>1
  <1>3. S \subseteq shown /\ T \subseteq shown
    BY DEF Firsts
  <1> HIDE DEF K, f, n
  <1>4. f + n \in Nat /\ f \in Nat /\ n \in Nat /\ n >= 1
    BY DEF f, n
  <1>5. shown \ S = Behind(K, shown, f + n) /\ shown \ T = Behind(K, shown, f)
    BY <1>4, FirstsAreRanks DEF K
  <1>6. page = {} => T = S
    BY <1>2
  <1>7. page = {} => T = shown
    BY <1>4, <1>6, FirstsEnd
  <1>8. QED
    BY <1>2, <1>3, <1>5, <1>7 DEF K, f, n

-----------------------------------------------------------------------------
(* A listing, on S, sorted by K, after l rows left and c came.  A view v   *)
(* is what the reader has done: his frontier, what he has seen, what was   *)
(* there first, how many repeats he saw, and whether he met the empty page.*)
(* The rows behind the frontier are those he has still to come to.  What   *)
(* he has lost, what he will see again and what he has skipped grows by a  *)
(* row at most when a row moves, and not when he reads a page; the empty   *)
(* page tells him that no row is left.                                     *)
Views == [frontier : Nat, seen : SUBSET Ids, first : SUBSET Ids, repeats : Int, ended : BOOLEAN]

InOrder(S, K, v, l, c) ==
  LET rest == Behind(K, S, v.frontier)
  IN  /\ Cardinality((v.first \ v.seen) \ rest) <= l
      /\ v.repeats + Cardinality(rest \cap v.seen) <= c
      /\ Cardinality(v.seen \ S) <= l
      /\ Cardinality((S \ rest) \ v.seen) <= l + c
      /\ v.ended => /\ Cardinality(v.first \ v.seen) <= l
                    /\ Cardinality(S \ v.seen) <= l + c

LEMMA ViewTypes ==
  ASSUME NEW v \in Views
  PROVE  v.frontier \in Nat /\ v.seen \subseteq Ids /\ v.first \subseteq Ids /\ v.repeats \in Int
         /\ v.ended \in BOOLEAN
  BY DEF Views

LEMMA RowComes ==
  ASSUME NEW K, IsKey(K), NEW S, S \subseteq Ids, NEW x \in Ids \ S, NEW v \in Views,
         NEW l \in Nat, NEW c \in Nat, InOrder(S, K, v, l, c)
  PROVE  InOrder(S \cup {x}, K, v, l, c + 1)
  <1> DEFINE T == S \cup {x}
             old == Behind(K, S, v.frontier)
             new == Behind(K, T, v.frontier)
  <1>1. v.frontier \in Int /\ v.seen \subseteq Ids /\ v.first \subseteq Ids /\ v.repeats \in Int
    BY ViewTypes
  <1>2. old \subseteq new /\ old \subseteq S /\ new \subseteq T /\ \E y \in Ids : new \subseteq old \cup {y}
    BY <1>1, OneMoreBehind DEF Behind
  <1>3. PICK y \in Ids : new \subseteq old \cup {y}
    BY <1>2
  <1> HIDE DEF old, new
  <1>4. /\ (v.first \ v.seen) \ new \subseteq (v.first \ v.seen) \ old
        /\ new \cap v.seen \subseteq (old \cap v.seen) \cup {y}
        /\ v.seen \ T \subseteq v.seen \ S
        /\ (T \ new) \ v.seen \subseteq ((S \ old) \ v.seen) \cup {x}
        /\ T \ v.seen \subseteq (S \ v.seen) \cup {x}
    BY <1>2, <1>3
  <1> HIDE DEF T
  <1>5. /\ Cardinality((v.first \ v.seen) \ new) <= Cardinality((v.first \ v.seen) \ old)
        /\ Cardinality((v.first \ v.seen) \ new) \in Nat /\ Cardinality((v.first \ v.seen) \ old) \in Nat
    BY <1>1, <1>4, Sizes
  <1>6. /\ Cardinality(new \cap v.seen) <= Cardinality(old \cap v.seen) + 1
        /\ Cardinality(new \cap v.seen) \in Nat /\ Cardinality(old \cap v.seen) \in Nat
    <2>1. old \cap v.seen \subseteq Ids
      BY <1>1
    <2>2. QED
      BY <1>4, <2>1, Sizes
  <1>7. /\ Cardinality(v.seen \ T) <= Cardinality(v.seen \ S)
        /\ Cardinality(v.seen \ T) \in Nat /\ Cardinality(v.seen \ S) \in Nat
    BY <1>1, <1>4, Sizes
  <1>8. /\ Cardinality((T \ new) \ v.seen) <= Cardinality((S \ old) \ v.seen) + 1
        /\ Cardinality((T \ new) \ v.seen) \in Nat /\ Cardinality((S \ old) \ v.seen) \in Nat
    <2>1. (S \ old) \ v.seen \subseteq Ids
      OBVIOUS
    <2>2. QED
      BY <1>4, <2>1, Sizes
  <1>9. /\ Cardinality(T \ v.seen) <= Cardinality(S \ v.seen) + 1
        /\ Cardinality(T \ v.seen) \in Nat /\ Cardinality(S \ v.seen) \in Nat
    <2>1. S \ v.seen \subseteq Ids
      OBVIOUS
    <2>2. QED
      BY <1>4, <2>1, Sizes
  <1>10. /\ Cardinality((v.first \ v.seen) \ old) <= l
         /\ v.repeats + Cardinality(old \cap v.seen) <= c
         /\ Cardinality(v.seen \ S) <= l
         /\ Cardinality((S \ old) \ v.seen) <= l + c
         /\ v.ended => Cardinality(v.first \ v.seen) <= l /\ Cardinality(S \ v.seen) <= l + c
    BY DEF InOrder, old
  <1>11. /\ Cardinality((v.first \ v.seen) \ new) <= l
         /\ v.repeats + Cardinality(new \cap v.seen) <= c + 1
         /\ Cardinality(v.seen \ T) <= l
         /\ Cardinality((T \ new) \ v.seen) <= l + (c + 1)
         /\ v.ended => Cardinality(v.first \ v.seen) <= l /\ Cardinality(T \ v.seen) <= l + (c + 1)
    BY <1>1, <1>5, <1>6, <1>7, <1>8, <1>9, <1>10
  <1>12. QED
    BY <1>11 DEF InOrder, new, T

LEMMA RowLeaves ==
  ASSUME NEW K, IsKey(K), NEW S, S \subseteq Ids, NEW x \in Ids \ S, NEW v \in Views,
         NEW l \in Nat, NEW c \in Nat, InOrder(S \cup {x}, K, v, l, c)
  PROVE  InOrder(S, K, v, l + 1, c)
  <1> DEFINE T == S \cup {x}
             old == Behind(K, T, v.frontier)
             new == Behind(K, S, v.frontier)
  <1>1. v.frontier \in Int /\ v.seen \subseteq Ids /\ v.first \subseteq Ids /\ v.repeats \in Int
    BY ViewTypes
  <1>2. new \subseteq old /\ old \subseteq T /\ new \subseteq S /\ \E y \in Ids : old \subseteq new \cup {y}
    BY <1>1, OneMoreBehind DEF Behind
  <1>3. PICK y \in Ids : old \subseteq new \cup {y}
    BY <1>2
  <1> HIDE DEF old, new
  <1>4. /\ (v.first \ v.seen) \ new \subseteq ((v.first \ v.seen) \ old) \cup {y}
        /\ new \cap v.seen \subseteq old \cap v.seen
        /\ v.seen \ S \subseteq (v.seen \ T) \cup {x}
        /\ (S \ new) \ v.seen \subseteq ((T \ old) \ v.seen) \cup {y}
        /\ S \ v.seen \subseteq T \ v.seen
    BY <1>2, <1>3
  <1>0. T \subseteq Ids
    OBVIOUS
  <1> HIDE DEF T
  <1>5. /\ Cardinality((v.first \ v.seen) \ new) <= Cardinality((v.first \ v.seen) \ old) + 1
        /\ Cardinality((v.first \ v.seen) \ new) \in Nat /\ Cardinality((v.first \ v.seen) \ old) \in Nat
    <2>1. (v.first \ v.seen) \ old \subseteq Ids
      BY <1>1
    <2>2. QED
      BY <1>4, <2>1, Sizes
  <1>6. /\ Cardinality(new \cap v.seen) <= Cardinality(old \cap v.seen)
        /\ Cardinality(new \cap v.seen) \in Nat /\ Cardinality(old \cap v.seen) \in Nat
    <2>1. old \cap v.seen \subseteq Ids
      BY <1>1
    <2>2. QED
      BY <1>4, <2>1, Sizes
  <1>7. /\ Cardinality(v.seen \ S) <= Cardinality(v.seen \ T) + 1
        /\ Cardinality(v.seen \ S) \in Nat /\ Cardinality(v.seen \ T) \in Nat
    <2>1. v.seen \ T \subseteq Ids
      BY <1>1
    <2>2. QED
      BY <1>4, <2>1, Sizes
  <1>8. /\ Cardinality((S \ new) \ v.seen) <= Cardinality((T \ old) \ v.seen) + 1
        /\ Cardinality((S \ new) \ v.seen) \in Nat /\ Cardinality((T \ old) \ v.seen) \in Nat
    <2>1. (T \ old) \ v.seen \subseteq Ids
      BY <1>0
    <2>2. QED
      BY <1>4, <2>1, Sizes
  <1>9. /\ Cardinality(S \ v.seen) <= Cardinality(T \ v.seen)
        /\ Cardinality(S \ v.seen) \in Nat /\ Cardinality(T \ v.seen) \in Nat
    <2>1. T \ v.seen \subseteq Ids
      BY <1>0
    <2>2. QED
      BY <1>4, <2>1, Sizes
  <1>10. /\ Cardinality((v.first \ v.seen) \ old) <= l
         /\ v.repeats + Cardinality(old \cap v.seen) <= c
         /\ Cardinality(v.seen \ T) <= l
         /\ Cardinality((T \ old) \ v.seen) <= l + c
         /\ v.ended => Cardinality(v.first \ v.seen) <= l /\ Cardinality(T \ v.seen) <= l + c
    BY DEF InOrder, old, T
  <1>12. Cardinality(v.first \ v.seen) \in Nat
    BY <1>1, Sizes
  <1>11. /\ Cardinality((v.first \ v.seen) \ new) <= l + 1
         /\ v.repeats + Cardinality(new \cap v.seen) <= c
         /\ Cardinality(v.seen \ S) <= l + 1
         /\ Cardinality((S \ new) \ v.seen) <= (l + 1) + c
         /\ v.ended => Cardinality(v.first \ v.seen) <= l + 1 /\ Cardinality(S \ v.seen) <= (l + 1) + c
    BY <1>1, <1>5, <1>6, <1>7, <1>8, <1>9, <1>10, <1>12
  <1>13. QED
    BY <1>11 DEF InOrder, new

(* A product that is renamed leaves its place and comes to another: what is *)
(* left without it is in the same order under the old names and the new.   *)
LEMMA RowMovesUp ==
  ASSUME NEW K, IsKey(K), NEW L, IsKey(L), NEW S, S \subseteq Ids, NEW x \in S, NEW v \in Views,
         \A i \in Ids : i # x => L[i] = K[i],
         NEW l \in Nat, NEW c \in Nat, InOrder(S, K, v, l, c)
  PROVE  InOrder(S, L, v, l + 1, c + 1)
  <1> DEFINE T == S \ {x}
  <1>1. T \subseteq Ids /\ x \in Ids \ T /\ S = T \cup {x}
    OBVIOUS
  <1> HIDE DEF T
  <1>2. InOrder(T, K, v, l + 1, c)
    BY <1>1, RowLeaves
  <1>3. Behind(K, T, v.frontier) = Behind(L, T, v.frontier)
    <2>1. \A i, j \in T : Precedes(K, i, j) <=> Precedes(L, i, j)
      BY <1>1 DEF Precedes
    <2>2. \A i \in T : Before(K, T, i) = Before(L, T, i)
      BY <2>1 DEF Before
    <2>3. \A i \in T : Rank(K, T, i) = Rank(L, T, i)
      BY <2>2 DEF Rank
    <2>4. QED
      BY <2>3 DEF Behind
  <1>4. InOrder(T, L, v, l + 1, c)
    BY <1>2, <1>3 DEF InOrder
  <1>5. l + 1 \in Nat
    OBVIOUS
  <1>6. InOrder(T \cup {x}, L, v, l + 1, c + 1)
    BY <1>1, <1>4, <1>5, RowComes
  <1>7. QED
    BY <1>1, <1>6

(* A page: rows behind the frontier, up to the next. *)
LEMMA PageOfRows ==
  ASSUME NEW K, NEW S, S \subseteq Ids, NEW v \in Views, NEW w \in Views, NEW page,
         NEW l \in Nat, NEW c \in Nat, InOrder(S, K, v, l, c),
         page \subseteq Behind(K, S, v.frontier),
         Behind(K, S, w.frontier) = Behind(K, S, v.frontier) \ page,
         page = {} => Behind(K, S, v.frontier) = {},
         w.seen = v.seen \cup page, w.first = v.first, w.ended => page = {},
         w.repeats = v.repeats + Cardinality(page \cap v.seen)
  PROVE  InOrder(S, K, w, l, c)
  <1> DEFINE old == Behind(K, S, v.frontier)
             new == Behind(K, S, w.frontier)
             seen == page \cap v.seen
  <1>1. v.seen \subseteq Ids /\ v.first \subseteq Ids /\ v.repeats \in Int
    BY ViewTypes
  <1>2. old \subseteq S
    BY DEF Behind
  <1>3. /\ Cardinality((v.first \ v.seen) \ old) <= l
        /\ v.repeats + Cardinality(old \cap v.seen) <= c
        /\ Cardinality(v.seen \ S) <= l
        /\ Cardinality((S \ old) \ v.seen) <= l + c
    BY DEF InOrder
  <1>4. page \subseteq old /\ new = old \ page /\ (page = {} => old = {})
    OBVIOUS
  <1> HIDE DEF old, new
  <1>5. /\ (w.first \ w.seen) \ new \subseteq (v.first \ v.seen) \ old
        /\ w.seen \ S = v.seen \ S
        /\ (S \ new) \ w.seen \subseteq (S \ old) \ v.seen
        /\ new \cap w.seen = (old \cap v.seen) \ seen /\ seen \subseteq old \cap v.seen
    BY <1>2, <1>4
  <1>6. /\ Cardinality((w.first \ w.seen) \ new) <= Cardinality((v.first \ v.seen) \ old)
        /\ Cardinality((w.first \ w.seen) \ new) \in Nat /\ Cardinality((v.first \ v.seen) \ old) \in Nat
    <2>1. (v.first \ v.seen) \ old \subseteq Ids
      BY <1>1
    <2>2. QED
      BY <1>5, <2>1, Sizes
  <1>7. /\ Cardinality((S \ new) \ w.seen) <= Cardinality((S \ old) \ v.seen)
        /\ Cardinality((S \ new) \ w.seen) \in Nat /\ Cardinality((S \ old) \ v.seen) \in Nat
    <2>1. (S \ old) \ v.seen \subseteq Ids
      OBVIOUS
    <2>2. QED
      BY <1>5, <2>1, Sizes
  <1>8. /\ Cardinality(new \cap w.seen) = Cardinality(old \cap v.seen) - Cardinality(seen)
        /\ Cardinality(seen) \in Nat /\ Cardinality(old \cap v.seen) \in Nat
    <2> DEFINE again == old \cap v.seen
    <2>1. again \subseteq Ids /\ seen \subseteq Ids
      BY <1>1
    <2>2. IsFiniteSet(again) /\ Cardinality(again) \in Nat /\ Cardinality(seen) \in Nat
      BY <2>1, FiniteRows
    <2>3. again \cap seen = seen
      BY <1>5
    <2> HIDE DEF again
    <2>4. Cardinality(again \ seen) = Cardinality(again) - Cardinality(again \cap seen)
      BY <2>2, FS_Difference
    <2>5. QED
      BY <1>5, <2>2, <2>3, <2>4 DEF again
  <1>9. /\ Cardinality((w.first \ w.seen) \ new) <= l
        /\ w.repeats + Cardinality(new \cap w.seen) <= c
        /\ Cardinality(w.seen \ S) <= l
        /\ Cardinality((S \ new) \ w.seen) <= l + c
    <2>1. w.repeats = v.repeats + Cardinality(seen)
      OBVIOUS
    <2> HIDE DEF seen
    <2>2. Cardinality((w.first \ w.seen) \ new) <= l
      BY <1>3, <1>6
    <2>3. w.repeats + Cardinality(new \cap w.seen) <= c
      <3> DEFINE a == Cardinality(new \cap w.seen)
                 b == Cardinality(old \cap v.seen)
                 d == Cardinality(seen)
      <3>1. a = b - d /\ b \in Nat /\ d \in Nat /\ v.repeats + b <= c /\ v.repeats \in Int
            /\ w.repeats = v.repeats + d
        BY <1>1, <1>3, <1>8, <2>1
      <3> HIDE DEF a, b, d
      <3>2. w.repeats + a <= c
        BY <3>1
      <3>3. QED
        BY <3>2 DEF a
    <2>4. Cardinality(w.seen \ S) <= l
      BY <1>3, <1>5
    <2>5. Cardinality((S \ new) \ w.seen) <= l + c
      BY <1>3, <1>7
    <2>6. QED
      BY <2>2, <2>3, <2>4, <2>5
  <1>10. ASSUME w.ended PROVE Cardinality(w.first \ w.seen) <= l /\ Cardinality(S \ w.seen) <= l + c
    <2>1. page = {} /\ old = {}
      BY <1>4, <1>10
    <2>2. w.first \ w.seen = (v.first \ v.seen) \ old /\ S \ w.seen = (S \ old) \ v.seen
      BY <2>1
    <2>3. QED
      BY <1>3, <2>2
  <1>11. QED
    BY <1>9, <1>10 DEF InOrder, new

-----------------------------------------------------------------------------
(* The reader.                                                             *)
Seen == {i \in Ids : reader.times[i] > 0}
Frontier == (IF reader.counts THEN reader.page ELSE reader.page - 1) * LimitOf(reader.of, reader.asked)
View == [frontier |-> Frontier, seen |-> Seen, first |-> start, repeats |-> Repeats,
         ended |-> reader.counts /\ reader.got = {}]

ReadInOrder == InOrder(shown, SortKey(reader.of), View, left, came)

ListedAll == Cardinality(start \ Seen) <= left /\ Repeats <= came /\ TotalIsNearby

PagesInv ==
  /\ reader.doing \in {"listing", "listed"} => start \subseteq Ids /\ reader.page >= 1
  /\ reader.doing = "listing" /\ InOneOrder => ReadInOrder
  /\ Listed /\ InOneOrder => ListedAll

LEMMA LimitType ==
  ASSUME NEW listing \in Listings, NEW limit \in Limits, Accepts(listing, limit)
  PROVE  LimitOf(listing, limit) \in Nat /\ LimitOf(listing, limit) >= 1
  <1> DEFINE asked == IF limit \in {None, 0} THEN DefaultLimit ELSE limit
             atLeast == IF asked >= 1 THEN asked ELSE 1
  <1>1. CASE listing.strict
    BY <1>1, ReaderConstants DEF LimitOf, Accepts
  <1>2. CASE ~ listing.strict
    <2>1. asked \in Int
      BY ReaderConstants
    <2> HIDE DEF asked
    <2>2. atLeast \in {1, asked} /\ \A y \in {1, asked} : atLeast >= y
      BY <2>1
    <2>3. atLeast \in Nat /\ atLeast >= 1
      BY <2>1
    <2> HIDE DEF atLeast
    <2>4. Max({1, asked}) = atLeast
      <3>1. \A x \in {1, asked} : (\A y \in {1, asked} : x >= y) => x = atLeast
        BY <2>1, <2>2, <2>3
      <3>2. QED
        BY <2>2, <3>1 DEF Max
    <2>5. Min({MaxLimit, atLeast}) = IF MaxLimit <= atLeast THEN MaxLimit ELSE atLeast
      BY <2>3, MinOfTwo, ReaderConstants
    <2>6. ParseLimit(limit) = Min({MaxLimit, atLeast})
      BY <2>4 DEF ParseLimit, asked
    <2>7. ParseLimit(limit) \in Nat /\ ParseLimit(limit) >= 1
      BY <2>3, <2>5, <2>6, ReaderConstants
    <2>8. QED
      BY <1>2, <2>7 DEF LimitOf
  <1>3. QED
    BY <1>1, <1>2

LEMMA SortKeyType ==
  name \in [Ids -> Names \cup {Unnamed}] => \A of \in Listings : IsKey(SortKey(of))
  <1> SUFFICES ASSUME name \in [Ids -> Names \cup {Unnamed}], NEW of \in Listings
               PROVE  IsKey(SortKey(of))
    OBVIOUS
  <1>1. of.by \in {"id", "name", "created_at"}
    <2>1. \A by, down, scoped, strict : Listing(by, down, scoped, strict).by = by
      BY DEF Listing
    <2>2. \E by \in {"id", "name", "created_at"} : \E down, scoped, strict \in BOOLEAN :
            of = Listing(by, down, scoped, strict)
      BY DEF Listings, ListUsers, ListClients, ListProducts, ListProductsForSale,
             ListInvoices, ListAuditLogs, ListErrorLogs
    <2>3. QED
      BY <2>1, <2>2
  <1>2. Column(of.by) \in [Ids -> Int]
    <2>1. [i \in Ids |-> i] \in [Ids -> Int]
      BY DEF Ids
    <2>2. Names \cup {Unnamed} \subseteq Int /\ Created \in [Ids -> Int]
      BY KeysAreNumbers
    <2>3. name \in [Ids -> Int]
      BY <2>2
    <2>4. QED
      BY <1>1, <2>1, <2>2, <2>3 DEF Column
  <1> DEFINE c == Column(of.by)
  <1>3. c \in [Ids -> Int]
    BY <1>2
  <1>4. SortKey(of) = [i \in Ids |-> IF of.downwards THEN -c[i] ELSE c[i]]
    BY DEF SortKey
  <1> HIDE DEF c
  <1>5. QED
    BY <1>3, <1>4 DEF IsKey

LEMMA RepeatsAreSumsNext == Repeats' = Sums(Beyond(reader'.times), Ids)[Ids]
  <1>1. (Repeats = Sums(Beyond(reader.times), Ids)[Ids])'
    BY RepeatsAreSums, PTL
  <1>2. QED
    BY <1>1 DEF Beyond

LEMMA RepeatsType ==
  ASSUME reader.times \in [Ids -> Nat]
  PROVE  Repeats \in Int /\ Beyond(reader.times) \in [Ids -> Int]
  <1>1. Beyond(reader.times) \in [Ids -> Int]
    BY DEF Beyond
  <1>2. Sums(Beyond(reader.times), Ids)[Ids] \in Int
    <2> DEFINE v == Beyond(reader.times)
               none == {}
    <2>1. \A x \in Ids : x \notin none
      OBVIOUS
    <2> HIDE DEF v, none
    <2>2. v \in [Ids -> Int]
      BY <1>1 DEF v
    <2>3. OneMoreOn(none, v, v, Ids)
      BY <2>1, <2>2 DEF OneMoreOn
    <2>4. IsFiniteSet(Ids)
      BY FiniteRows
    <2>5. Sums(v, Ids)[Ids] \in Int
      BY <2>2, <2>3, <2>4, SumsOfMore
    <2>6. QED
      BY <2>5 DEF v
  <1>3. QED
    BY <1>1, <1>2, RepeatsAreSums

LEMMA IsListing ==
  ASSUME Typed, reader.doing \in {"listing", "listed"}
  PROVE  /\ reader \in ListingReader /\ IsKey(SortKey(reader.of)) /\ Seen \subseteq Ids
         /\ LimitOf(reader.of, reader.asked) \in Nat /\ LimitOf(reader.of, reader.asked) >= 1
         /\ reader.page \in Nat /\ shown \subseteq Ids /\ Repeats \in Int
         /\ reader.of \in Listings /\ reader.times \in [Ids -> Nat]
  <1>1. reader \in ListingReader
    BY DEF Typed, NotReading, WorkbookReader
  <1>2. /\ reader.of \in Listings /\ reader.asked \in Limits /\ reader.page \in Nat
        /\ reader.times \in [Ids -> Nat]
    BY <1>1 DEF ListingReader
  <1>3. IsKey(SortKey(reader.of))
    BY <1>2, SortKeyType DEF Typed, TypeOK
  <1>4. LimitOf(reader.of, reader.asked) \in Nat /\ LimitOf(reader.of, reader.asked) >= 1
    BY <1>2, LimitType DEF Typed
  <1>5. QED
    BY <1>1, <1>2, <1>3, <1>4, RepeatsType DEF Seen, Typed, TypeOK

LEMMA ProductsAreNat == \A a, b \in Nat : a * b \in Nat
  OBVIOUS

LEMMA ViewType ==
  ASSUME Typed, reader.doing \in {"listing", "listed"}, reader.page >= 1, start \subseteq Ids
  PROVE  View \in Views
  <1>1. Seen \subseteq Ids /\ Repeats \in Int
    BY IsListing
  <1>2. Frontier \in Nat
    <2> DEFINE p == IF reader.counts THEN reader.page ELSE reader.page - 1
               n == LimitOf(reader.of, reader.asked)
    <2>1. p \in Nat /\ n \in Nat
      BY IsListing
    <2>2. Frontier = p * n
      BY DEF Frontier
    <2> HIDE DEF p, n
    <2>3. QED
      BY <2>1, <2>2, ProductsAreNat
  <1>3. QED
    BY <1>1, <1>2 DEF View, Views

(* What a reader at the end has read stays true when more rows move. *)
LEMMA ListedStays ==
  ASSUME Typed, PagesInv, Listed, InOneOrder, UNCHANGED <<reader, start>>,
         came' \in Nat, left' \in Nat, came' >= came, left' >= left
  PROVE  ListedAll'
  <1>1. Seen' = Seen /\ ListedAll /\ reader.doing = "listed" /\ Seen \subseteq Ids /\ start \subseteq Ids
    BY DEF PagesInv, Listed, Seen
  <1>2. Repeats' = Repeats /\ Repeats \in Int
    BY <1>1, IsListing, RepeatsAreSums, RepeatsAreSumsNext
  <1>0. came \in Nat /\ left \in Nat
    BY DEF Typed
  <1>3. came \in Nat /\ left \in Nat /\ Moves \in Nat /\ Moves' \in Nat /\ Moves' >= Moves
    <2>1. \A a, b, c, d \in Nat : a + b \in Nat /\ (c >= a /\ d >= b => c + d >= a + b)
      OBVIOUS
    <2>2. Moves = came + left /\ Moves' = came' + left'
      BY DEF Moves
    <2>3. QED
      BY <1>0, <2>1, <2>2
  <1>4. Repeats' <= came'
    BY <1>1, <1>2, <1>3 DEF ListedAll
  <1>5. TotalIsNearby'
    <2>1. ~ reader.of.scoped => Cardinality(Seen) - reader.total \in -Moves .. Moves
      BY <1>1 DEF ListedAll, TotalIsNearby, Seen, Listed
    <2>2. ~ reader.of.scoped => Cardinality(Seen) - reader.total \in -Moves' .. Moves'
      BY <1>3, <2>1
    <2>3. QED
      BY <1>1, <2>2 DEF TotalIsNearby, Seen
  <1>6. Cardinality(start \ Seen)' <= left'
    <2>1. Cardinality(start \ Seen) <= left /\ Cardinality(start \ Seen) \in Nat
      BY <1>1, Sizes DEF ListedAll
    <2>2. QED
      BY <1>1, <1>3, <2>1
  <1>7. QED
    BY <1>4, <1>5, <1>6 DEF ListedAll

(* When a row moves, or a product is renamed. *)
LEMMA ViewStays ==
  ASSUME UNCHANGED <<reader, start>>
  PROVE  View' = View
  <1>1. Repeats' = Repeats
    BY RepeatsAreSums, RepeatsAreSumsNext
  <1>2. QED
    BY <1>1 DEF View, Seen, Frontier

LEMMA RowMoves ==
  ASSUME Typed, PagesInv, \E i \in Ids : Comes(i) \/ Leaves(i) \/ Renames(i)
  PROVE  PagesInv'
  <1>0. UNCHANGED <<reader, start>>
    BY DEF Comes, Leaves, Renames
  <1>1. came \in Nat /\ left \in Nat /\ shown \subseteq Ids
    BY DEF Typed, TypeOK
  <1>2. came' \in Nat /\ left' \in Nat /\ came' >= came /\ left' >= left
    BY <1>1 DEF Comes, Leaves, Renames
  <1>3. ASSUME Listed, InOneOrder PROVE ListedAll'
    BY <1>0, <1>2, <1>3, ListedStays
  <1>4. ASSUME reader.doing = "listing", InOneOrder PROVE ReadInOrder'
    <2> DEFINE K == SortKey(reader.of)
               L == SortKey(reader.of)'
    <2>0. reader.page >= 1 /\ start \subseteq Ids /\ ReadInOrder
      BY <1>4 DEF PagesInv
    <2>1. /\ IsKey(K) /\ View \in Views /\ View' = View
          /\ InOrder(shown, K, View, left, came)
      BY <1>0, <1>4, <2>0, IsListing, ViewType, ViewStays DEF ReadInOrder
    <2>2. name' = name => L = K
      BY <1>0 DEF SortKey, Column
    <2>3. ReadInOrder' <=> InOrder(shown', L, View', left', came')
      BY DEF ReadInOrder, InOrder, Behind, Rank, Before, Precedes
    <2>4. ASSUME NEW i \in Ids, Comes(i) PROVE InOrder(shown', L, View', left', came')
      <3>1. i \in Ids \ shown /\ shown' = shown \cup {i} /\ came' = came + 1 /\ left' = left /\ L = K
        BY <2>2, <2>4 DEF Comes, Pending, Typed, TypeOK
      <3> HIDE DEF K, L
      <3>2. InOrder(shown \cup {i}, K, View, left, came + 1)
        BY <1>1, <2>1, <3>1, RowComes
      <3>3. QED
        BY <2>1, <3>1, <3>2
    <2>5. ASSUME NEW i \in Ids, Leaves(i) PROVE InOrder(shown', L, View', left', came')
      <3>1. i \in shown /\ shown' = shown \ {i} /\ came' = came /\ left' = left + 1 /\ L = K
        BY <2>2, <2>5 DEF Leaves
      <3> DEFINE S == shown \ {i}
      <3>2. S \subseteq Ids /\ i \in Ids \ S /\ shown = S \cup {i}
        BY <1>1, <3>1
      <3> HIDE DEF K, L, S
      <3>3. InOrder(S, K, View, left + 1, came)
        BY <1>1, <2>1, <3>2, RowLeaves
      <3>4. QED
        BY <2>1, <3>1, <3>3 DEF S
    <2>6. ASSUME NEW i \in Ids, Renames(i) PROVE InOrder(shown', L, View', left', came')
      <3>1. /\ shown' = shown /\ \A j \in Ids : j # i => name'[j] = name[j]
            /\ name' \in [Ids -> Names \cup {Unnamed}]
        <4>1. PICK n \in Names : name' = [name EXCEPT ![i] = n]
          BY <2>6 DEF Renames
        <4>2. name \in [Ids -> Names \cup {Unnamed}]
          BY DEF Typed, TypeOK
        <4>3. QED
          BY <2>6, <4>1, <4>2 DEF Renames
      <3>2. IsKey(L)
        <4>1. reader.of \in Listings
          BY <1>4, IsListing
        <4>2. (name \in [Ids -> Names \cup {Unnamed}] => \A of \in Listings : IsKey(SortKey(of)))'
          BY SortKeyType, PTL
        <4>3. \A of \in Listings : IsKey(SortKey(of)')
          BY <3>1, <4>2 DEF IsKey
        <4>4. reader'.of = reader.of
          BY <1>0
        <4>5. QED
          BY <4>1, <4>3, <4>4 DEF SortKey
      <3>3. \A j \in Ids : j # i => L[j] = K[j]
        <4> DEFINE by == reader.of.by
                   down == reader.of.downwards
        <4>1. by = "name" /\ Column(by) = name /\ Column(by)' = name'
          <5>1. by = "name"
            BY <2>6 DEF Renames, ByName
          <5>2. Column("name") = name /\ Column("name")' = name'
            BY DEF Column
          <5>3. by' = by
            BY <1>0
          <5> HIDE DEF by
          <5>4. Column(by) = name /\ Column(by)' = name'
            BY <5>1, <5>2, <5>3 DEF Column
          <5>5. QED
            BY <5>1, <5>4
        <4>2. K = [j \in Ids |-> IF down THEN -name[j] ELSE name[j]]
          BY <4>1 DEF SortKey
        <4>3. L = [j \in Ids |-> IF down THEN -name'[j] ELSE name'[j]]
          BY <1>0, <4>1 DEF SortKey
        <4> HIDE DEF by, down, K, L
        <4>4. QED
          BY <3>1, <4>2, <4>3
      <3> HIDE DEF K, L
      <3>4. CASE i \in shown
        <4>1. left' = left + 1 /\ came' = came + 1
          BY <2>6, <3>4 DEF Renames
        <4>2. InOrder(shown, L, View, left + 1, came + 1)
          BY <1>1, <2>1, <3>2, <3>3, <3>4, RowMovesUp
        <4>3. QED
          BY <2>1, <3>1, <4>1, <4>2
      <3>5. CASE i \notin shown
        <4>1. left' = left /\ came' = came
          BY <2>6, <3>5 DEF Renames
        <4>2. Behind(K, shown, View.frontier) = Behind(L, shown, View.frontier)
          <5>1. \A j, k \in shown : Precedes(K, j, k) <=> Precedes(L, j, k)
            BY <1>1, <3>3, <3>5 DEF Precedes
          <5>2. \A j \in shown : Before(K, shown, j) = Before(L, shown, j)
            BY <5>1 DEF Before
          <5>3. \A j \in shown : Rank(K, shown, j) = Rank(L, shown, j)
            BY <5>2 DEF Rank
          <5>4. QED
            BY <5>3 DEF Behind
        <4>3. InOrder(shown, L, View, left, came)
          BY <2>1, <4>2 DEF InOrder
        <4>4. QED
          BY <2>1, <3>1, <4>1, <4>3
      <3>6. QED
        BY <3>4, <3>5
    <2>7. QED
      BY <2>3, <2>4, <2>5, <2>6
  <1>5. QED
    BY <1>0, <1>3, <1>4 DEF PagesInv, Listed, InOneOrder

LEMMA NextFrontier ==
  ASSUME NEW p \in Nat, p >= 1, NEW n \in Nat
  PROVE  p * n = (p - 1) * n + n /\ (p - 1) * n \in Nat
  <1>1. \A a, b \in Int : a * b = (a - 1) * b + b
    OBVIOUS
  <1>2. p - 1 \in Nat
    OBVIOUS
  <1>3. QED
    BY <1>1, <1>2, ProductsAreNat

(* What reading a page does to the reader. *)
LEMMA PageStep ==
  ASSUME Typed, ReadsPage
  PROVE  /\ reader \in ListingReader /\ reader.doing = "listing" /\ ~ reader.counts
         /\ UNCHANGED <<rows, start, came, left>>
         /\ \E page \in PagesOf(reader) :
              /\ page \subseteq Ids
              /\ reader'.doing = "listing" /\ reader'.page = reader.page /\ reader'.counts /\ reader'.got = page
              /\ reader'.of = reader.of /\ reader'.asked = reader.asked
              /\ reader'.alike = (reader.alike \/ Alike(SortKey(reader.of)))
              /\ reader'.times \in [Ids -> Nat]
              /\ \A i \in Ids : reader'.times[i] = reader.times[i] + (IF i \in page THEN 1 ELSE 0)
  <1>1. reader.doing = "listing" /\ ~ reader.counts /\ UNCHANGED <<rows, start, came, left>>
    BY DEF ReadsPage
  <1>2. reader \in ListingReader /\ reader.times \in [Ids -> Nat]
    BY <1>1, IsListing
  <1>3. PICK page \in PagesOf(reader) :
          reader' = [reader EXCEPT !.counts = TRUE, !.got = page,
                       !.alike = reader.alike \/ Alike(SortKey(reader.of)),
                       !.times = [i \in Ids |-> IF i \in page THEN reader.times[i] + 1 ELSE reader.times[i]]]
    BY DEF ReadsPage
  <1> DEFINE times == [i \in Ids |-> IF i \in page THEN reader.times[i] + 1 ELSE reader.times[i]]
             alike == reader.alike \/ Alike(SortKey(reader.of))
  <1>4. times \in [Ids -> Nat] /\ \A i \in Ids : times[i] = reader.times[i] + (IF i \in page THEN 1 ELSE 0)
    BY <1>2
  <1>5. reader' = [reader EXCEPT !.counts = TRUE, !.got = page, !.alike = alike, !.times = times]
    BY <1>3
  <1>6. page \subseteq Ids
    BY PagesAreRows DEF Typed, TypeOK
  <1> HIDE DEF times, alike
  <1>7. /\ reader'.doing = "listing" /\ reader'.page = reader.page /\ reader'.counts /\ reader'.got = page
        /\ reader'.of = reader.of /\ reader'.asked = reader.asked
        /\ reader'.alike = alike /\ reader'.times = times
    BY <1>1, <1>2, <1>5 DEF ListingReader
  <1>8. QED
    BY <1>1, <1>2, <1>4, <1>6, <1>7 DEF alike

(* The rows of a page that were seen before are repeats. *)
LEMMA PageRepeats ==
  ASSUME reader.times \in [Ids -> Nat], reader'.times \in [Ids -> Nat], NEW page, page \subseteq Ids,
         \A i \in Ids : reader'.times[i] = reader.times[i] + (IF i \in page THEN 1 ELSE 0)
  PROVE  Repeats' = Repeats + Cardinality(page \cap Seen)
  <1> DEFINE v == Beyond(reader.times)
             w == Beyond(reader'.times)
             A == page \cap Seen
  <1>3. v \in [Ids -> Int] /\ w \in [Ids -> Int]
    BY DEF Beyond
  <1>4. ASSUME NEW i \in Ids PROVE w[i] = v[i] + (IF i \in A THEN 1 ELSE 0)
    <2>1. /\ v[i] = IF reader.times[i] > 1 THEN reader.times[i] - 1 ELSE 0
          /\ w[i] = IF reader'.times[i] > 1 THEN reader'.times[i] - 1 ELSE 0
      BY DEF Beyond
    <2>2. i \in A <=> i \in page /\ reader.times[i] > 0
      BY DEF Seen
    <2>3. reader'.times[i] = reader.times[i] + (IF i \in page THEN 1 ELSE 0) /\ reader.times[i] \in Nat
      OBVIOUS
    <2> HIDE DEF v, w, A
    <2>4. QED
      BY <2>1, <2>2, <2>3
  <1>5. A \subseteq Ids /\ A \cap Ids = A
    BY DEF Seen
  <1>6. Repeats = Sums(v, Ids)[Ids] /\ Repeats' = Sums(w, Ids)[Ids]
    BY RepeatsAreSums, RepeatsAreSumsNext
  <1>7. IsFiniteSet(Ids)
    BY FiniteRows
  <1> HIDE DEF v, w, A
  <1>8. Sums(w, Ids)[Ids] = Sums(v, Ids)[Ids] + Cardinality(A \cap Ids)
    <2>1. OneMoreOn(A, v, w, Ids)
      BY <1>4 DEF OneMoreOn
    <2>2. QED
      BY <1>3, <1>7, <2>1, SumsOfMore
  <1>9. QED
    BY <1>5, <1>6, <1>8 DEF A

LEMMA PagePages ==
  ASSUME Typed, PagesInv, ReadsPage
  PROVE  PagesInv'
  <1>1. /\ reader \in ListingReader /\ reader.doing = "listing" /\ ~ reader.counts
        /\ UNCHANGED <<rows, start, came, left>>
    BY PageStep
  <1>2. PICK page \in PagesOf(reader) :
          /\ page \subseteq Ids
          /\ reader'.doing = "listing" /\ reader'.page = reader.page /\ reader'.counts /\ reader'.got = page
          /\ reader'.of = reader.of /\ reader'.asked = reader.asked
          /\ reader'.alike = (reader.alike \/ Alike(SortKey(reader.of)))
          /\ reader'.times \in [Ids -> Nat]
          /\ \A i \in Ids : reader'.times[i] = reader.times[i] + (IF i \in page THEN 1 ELSE 0)
    BY PageStep
  <1>3. start \subseteq Ids /\ reader.page >= 1
    BY <1>1 DEF PagesInv
  <1>4. ASSUME ~ reader'.alike PROVE ReadInOrder'
    <2> DEFINE K == SortKey(reader.of)
               n == LimitOf(reader.of, reader.asked)
               f == Offset(reader)
               v == View
               w == View'
    <2>1. ~ Alike(K) /\ InOneOrder
      BY <1>2, <1>4 DEF InOneOrder
    <2>2. InOrder(shown, K, v, left, came)
      BY <1>1, <2>1 DEF PagesInv, ReadInOrder
    <2>3. /\ IsKey(K) /\ n \in Nat /\ n >= 1 /\ shown \subseteq Ids /\ reader.page \in Nat
          /\ reader.times \in [Ids -> Nat] /\ Seen \subseteq Ids /\ Repeats \in Int
      BY <1>1, IsListing
    <2>4. reader.page * n = f + n /\ f \in Nat
      BY <1>3, <2>3, NextFrontier DEF Offset
    <2>5. /\ page \subseteq Behind(K, shown, f)
          /\ Behind(K, shown, f + n) = Behind(K, shown, f) \ page
          /\ page = {} => Behind(K, shown, f) = {}
      BY <2>1, <2>3, <2>4, PageIsBetween
    <2>6. Seen' = Seen \cup page
      BY <1>2, <2>3 DEF Seen
    <2>7. Repeats' = Repeats + Cardinality(page \cap Seen)
      BY <1>2, <2>3, PageRepeats
    <2>8. v.frontier = f /\ v.seen = Seen /\ v.first = start /\ v.repeats = Repeats /\ v \in Views
      <3>1. Frontier = f
        BY <1>1 DEF Frontier, Offset
      <3>2. v \in Views
        BY <1>1, <1>3, ViewType
      <3>3. QED
        BY <3>1, <3>2 DEF View
    <2>9. Cardinality(page \cap Seen) \in Nat
      BY <1>2, <2>3, FiniteRows
    <2>10. Repeats' \in Int /\ Seen' \subseteq Ids /\ start' = start /\ f + n \in Nat
      BY <1>1, <1>2, <2>3, <2>4, <2>6, <2>7, <2>9
    <2>11. /\ w.frontier = f + n /\ w.seen = Seen \cup page /\ w.first = start
           /\ w.repeats = Repeats + Cardinality(page \cap Seen) /\ (w.ended => page = {})
           /\ w \in Views
      <3>1. Frontier' = f + n
        <4>1. Frontier' = reader.page * LimitOf(reader.of, reader.asked)
          BY <1>2 DEF Frontier, LimitOf, ParseLimit
        <4>2. QED
          BY <2>4, <4>1
      <3> HIDE DEF f, n, K, v
      <3>2. View' = [frontier |-> Frontier', seen |-> Seen', first |-> start', repeats |-> Repeats',
                     ended |-> (reader.counts /\ reader.got = {})']
        BY DEF View
      <3>3. (reader.counts /\ reader.got = {})' <=> page = {}
        BY <1>2
      <3> DEFINE ended == (reader.counts /\ reader.got = {})'
      <3>4. ended \in BOOLEAN /\ (ended => page = {})
        BY <3>3
      <3> HIDE DEF ended
      <3>5. w = [frontier |-> Frontier', seen |-> Seen', first |-> start', repeats |-> Repeats', ended |-> ended]
        BY <3>2 DEF ended
      <3>6. Frontier' \in Nat /\ Repeats' \in Int /\ Seen' \in SUBSET Ids /\ start' \in SUBSET Ids
        BY <1>3, <2>10, <3>1
      <3> HIDE DEF w
      <3>7. w \in Views
        BY <3>4, <3>5, <3>6 DEF Views
      <3>8. QED
        BY <2>6, <2>7, <2>10, <3>1, <3>4, <3>5, <3>7
    <2>12. SortKey(reader.of)' = K /\ shown' = shown /\ left' = left /\ came' = came
      BY <1>1, <1>2 DEF SortKey, Column, rows
    <2>13. left \in Nat /\ came \in Nat
      BY DEF Typed
    <2>14. ReadInOrder' <=> InOrder(shown', SortKey(reader.of)', w, left', came')
      BY DEF ReadInOrder, InOrder, Behind, Rank, Before, Precedes
    <2> HIDE DEF K, n, f, v, w
    <2>15. InOrder(shown, K, w, left, came)
      <3>1. page \subseteq Behind(K, shown, v.frontier)
        BY <2>5, <2>8
      <3>2. Behind(K, shown, w.frontier) = Behind(K, shown, v.frontier) \ page
        BY <2>5, <2>8, <2>11
      <3>3. page = {} => Behind(K, shown, v.frontier) = {}
        BY <2>5, <2>8
      <3>4. w.seen = v.seen \cup page /\ w.first = v.first /\ (w.ended => page = {})
        BY <2>8, <2>11
      <3>5. w.repeats = v.repeats + Cardinality(page \cap v.seen)
        BY <2>8, <2>11
      <3>6. v \in Views /\ w \in Views
        BY <2>8, <2>11
      <3>7. QED
        BY <2>2, <2>3, <2>13, <3>1, <3>2, <3>3, <3>4, <3>5, <3>6, PageOfRows
    <2>16. QED
      BY <2>12, <2>14, <2>15
  <1>5. QED
    BY <1>1, <1>2, <1>3, <1>4 DEF PagesInv, Listed, InOneOrder

LEMMA BeginPages ==
  ASSUME Typed, BeginsListing
  PROVE  PagesInv'
  <1> DEFINE times == [i \in Ids |-> 0]
  <1>1. PICK listing \in Listings, limit \in Limits :
          reader' = [doing |-> "listing", of |-> listing, asked |-> limit, page |-> 1, counts |-> FALSE,
                     got |-> {}, times |-> times, total |-> 0, alike |-> FALSE]
    BY DEF BeginsListing
  <1>2. start' = shown /\ came' = 0 /\ left' = 0 /\ shown' = shown /\ shown \subseteq Ids
    BY DEF BeginsListing, rows, Typed, TypeOK
  <1>3. \A i \in Ids : times[i] = 0
    OBVIOUS
  <1> HIDE DEF times
  <1>4. /\ reader'.doing = "listing" /\ reader'.asked = limit /\ reader'.of = listing /\ reader'.page = 1
        /\ ~ reader'.counts /\ reader'.times = times
    BY <1>1
  <1>5. Seen' = {}
    BY <1>3, <1>4 DEF Seen
  <1>6. Frontier' = 0
    <2>1. LimitOf(listing, limit) \in Nat
      <3>1. Accepts(reader'.of, reader'.asked)
        BY ListingStep
      <3>2. QED
        BY <1>4, <3>1, LimitType
    <2>2. Frontier' = (1 - 1) * LimitOf(listing, limit)
      BY <1>4 DEF Frontier, LimitOf, ParseLimit
    <2>3. QED
      BY <2>1, <2>2
  <1>7. Repeats' = 0
    <2> DEFINE w == Beyond(times)
    <2>1. \A i \in Ids : w[i] = 0
      BY <1>3 DEF Beyond
    <2> HIDE DEF w
    <2>2. Sums(w, Ids)[Ids] = 0
      BY <2>1, FiniteRows, SumsOfNothing
    <2>3. QED
      BY <1>4, <2>2, RepeatsAreSumsNext DEF w
  <1> DEFINE w == View'
             K == SortKey(reader.of)'
  <1>8. w.frontier = 0 /\ w.seen = {} /\ w.first = shown /\ w.repeats = 0 /\ ~ w.ended
    BY <1>2, <1>4, <1>5, <1>6, <1>7 DEF View
  <1>9. ReadInOrder' <=> InOrder(shown', K, w, left', came')
    BY DEF ReadInOrder, InOrder, Behind, Rank, Before, Precedes
  <1> HIDE DEF w, K
  <1>10. Behind(K, shown, 0) = shown
    <2>1. \A i : Rank(K, shown, i) \in Nat
      BY <1>2, RankType
    <2>2. QED
      BY <2>1 DEF Behind
  <1>11. Cardinality({}) = 0
    BY FS_EmptySet
  <1>12. InOrder(shown, K, w, 0, 0)
    <2> DEFINE rest == Behind(K, shown, w.frontier)
    <2>1. rest = shown
      BY <1>8, <1>10
    <2> HIDE DEF rest
    <2>2. /\ (w.first \ w.seen) \ rest = {} /\ rest \cap w.seen = {} /\ w.seen \ shown = {}
          /\ (shown \ rest) \ w.seen = {}
      BY <1>8, <2>1
    <2>3. QED
      BY <1>8, <1>11, <2>2 DEF InOrder, rest
  <1>13. ReadInOrder'
    BY <1>2, <1>9, <1>12
  <1>14. QED
    BY <1>2, <1>4, <1>13 DEF PagesInv, Listed

(* The count, after the page. *)
LEMMA CountPages ==
  ASSUME Typed, PagesInv, ReadsCount
  PROVE  PagesInv'
  <1> DEFINE total == Total(reader)
             doing == IF reader.got = {} THEN "listed" ELSE reader.doing
             page == reader.page + 1
  <1>0. reader.doing = "listing" /\ reader.counts
    BY DEF ReadsCount
  <1>1. reader \in ListingReader /\ reader.page \in Nat /\ shown \subseteq Ids /\ Seen \subseteq Ids
        /\ Repeats \in Int
    BY <1>0, IsListing
  <1>2. /\ reader' = [reader EXCEPT !.counts = FALSE, !.total = total, !.page = page, !.doing = doing]
        /\ UNCHANGED <<rows, shown, start, came, left>>
    BY DEF ReadsCount, rows
  <1>3. start \subseteq Ids /\ reader.page >= 1
    BY <1>0 DEF PagesInv
  <1> HIDE DEF total, doing, page
  <1>4. /\ reader'.doing = doing /\ reader'.page = page /\ ~ reader'.counts /\ reader'.total = total
        /\ reader'.times = reader.times /\ reader'.of = reader.of /\ reader'.asked = reader.asked
        /\ reader'.alike = reader.alike /\ reader'.got = reader.got
    BY <1>1, <1>2 DEF ListingReader
  <1>5. Seen' = Seen
    BY <1>4 DEF Seen
  <1>6. Repeats' = Repeats
    BY <1>4, RepeatsAreSums, RepeatsAreSumsNext
  <1>7. Frontier' = Frontier
    <2>1. page - 1 = reader.page
      BY <1>1 DEF page
    <2>2. QED
      BY <1>0, <1>4, <2>1 DEF Frontier, LimitOf, ParseLimit
  <1>8. page >= 1
    BY <1>1, <1>3 DEF page
  <1>9. came \in Nat /\ left \in Nat /\ Moves = came + left /\ Moves' = Moves
    BY <1>2 DEF Typed, Moves
  <1>10. CASE ~ InOneOrder
    <2>1. ~ InOneOrder'
      BY <1>4, <1>10 DEF InOneOrder
    <2>2. QED
      BY <1>2, <1>3, <1>4, <1>8, <2>1 DEF PagesInv
  <1>11. CASE InOneOrder
    <2> DEFINE K == SortKey(reader.of)
               v == View
               w == View'
    <2>1. InOrder(shown, K, v, left, came)
      BY <1>0, <1>11 DEF PagesInv, ReadInOrder
    <2>2. /\ v.frontier = Frontier /\ v.seen = Seen /\ v.first = start /\ v.repeats = Repeats
          /\ (v.ended <=> reader.got = {})
      BY <1>0 DEF View
    <2>3. /\ w.frontier = Frontier /\ w.seen = Seen /\ w.first = start /\ w.repeats = Repeats /\ ~ w.ended
      BY <1>2, <1>4, <1>5, <1>6, <1>7 DEF View
    <2>4. K' = K /\ shown' = shown /\ left' = left /\ came' = came
      <3>1. name' = name /\ shown' = shown /\ left' = left /\ came' = came
        BY <1>2 DEF rows
      <3>2. SortKey(reader.of)' = SortKey(reader.of)
        BY <1>4, <3>1 DEF SortKey, Column
      <3>3. QED
        BY <3>1, <3>2
    <2>5. ReadInOrder' <=> InOrder(shown', K', w, left', came')
      BY DEF ReadInOrder, InOrder, Behind, Rank, Before, Precedes
    <2> HIDE DEF K, v, w
    <2>6. InOrder(shown, K, w, left, came)
      BY <2>1, <2>2, <2>3 DEF InOrder
    <2>7. ReadInOrder'
      BY <2>4, <2>5, <2>6
    <2>8. CASE reader.got # {}
      <3>1. doing = "listing"
        BY <1>0, <2>8 DEF doing
      <3>2. QED
        BY <1>2, <1>3, <1>4, <1>8, <2>7, <3>1 DEF PagesInv, Listed
    <2>9. CASE reader.got = {}
      <3>1. doing = "listed"
        BY <2>9 DEF doing
      <3> DEFINE gone == Seen \ shown
                 fresh == shown \ Seen
                 both == Seen \cap shown
                 rest == Behind(K, shown, v.frontier)
                 again == rest \cap Seen
      <3>2. /\ Cardinality(start \ Seen) <= left /\ Cardinality(fresh) <= left + came
            /\ Cardinality(gone) <= left /\ Repeats + Cardinality(again) <= came
        BY <2>1, <2>2, <2>9 DEF InOrder
      <3>3. IsFiniteSet(Seen) /\ IsFiniteSet(shown) /\ Cardinality(Seen) \in Nat /\ Cardinality(shown) \in Nat
            /\ Cardinality(gone) \in Nat /\ Cardinality(fresh) \in Nat /\ Cardinality(both) \in Nat
            /\ Cardinality(again) \in Nat
        <4>1. again \subseteq Ids /\ gone \subseteq Ids /\ fresh \subseteq Ids /\ both \subseteq Ids
          BY <1>1
        <4> HIDE DEF gone, fresh, both, again
        <4>2. QED
          BY <1>1, <4>1, FiniteRows
      <3>4. Cardinality(gone) = Cardinality(Seen) - Cardinality(both)
            /\ Cardinality(fresh) = Cardinality(shown) - Cardinality(both)
        <4>1. shown \cap Seen = both
          OBVIOUS
        <4>2. QED
          BY <3>3, <4>1, FS_Difference, ZenonT(40)
      <3> HIDE DEF gone, fresh, both, again
      <3>5. Cardinality(Seen) - Cardinality(shown) \in -Moves .. Moves
        BY <1>9, <3>2, <3>3, <3>4
      <3>6. TotalIsNearby'
        <4>1. ~ reader.of.scoped => total = Cardinality(shown)
          BY DEF total, Total
        <4>2. ~ reader.of.scoped => Cardinality(Seen') - reader'.total \in -Moves' .. Moves'
          BY <1>4, <1>5, <1>9, <3>5, <4>1
        <4>3. QED
          BY <1>4, <4>2 DEF TotalIsNearby, Seen
      <3>7. Repeats' <= came'
        BY <1>1, <1>6, <1>9, <2>4, <3>2, <3>3
      <3>8. Cardinality(start \ Seen)' <= left'
        BY <1>2, <1>5, <3>2
      <3>9. ListedAll'
        BY <3>6, <3>7, <3>8 DEF ListedAll
      <3>10. QED
        BY <1>2, <1>3, <1>4, <1>8, <3>1, <3>9 DEF PagesInv, Listed
    <2>10. QED
      BY <2>8, <2>9
  <1>12. QED
    BY <1>10, <1>11

LEMMA NextPages == Typed /\ PagesInv /\ [Next]_vars => PagesInv'
  <1> SUFFICES ASSUME Typed, PagesInv, [Next]_vars PROVE PagesInv'
    OBVIOUS
  <1>1. CASE UNCHANGED <<shown, name, reader, start, came, left>>
    <2>1. Repeats' = Repeats /\ View' = View /\ Seen' = Seen
      BY <1>1, RepeatsAreSums, RepeatsAreSumsNext, ViewStays DEF Seen
    <2>2. SortKey(reader.of)' = SortKey(reader.of)
      BY <1>1 DEF SortKey, Column
    <2>3. ReadInOrder' <=> ReadInOrder
      BY <1>1, <2>1, <2>2 DEF ReadInOrder, InOrder, Behind, Rank, Before, Precedes
    <2>4. ListedAll' <=> ListedAll
      BY <1>1, <2>1 DEF ListedAll, TotalIsNearby, Listed, InOneOrder, Moves
    <2>5. QED
      BY <1>1, <2>3, <2>4 DEF PagesInv, Listed, InOneOrder
  <1>2. CASE BeginsWorkbook \/ ReadsSheet
    <2>1. reader'.doing = "workbook"
      BY <1>2, SheetStep DEF BeginsWorkbook, WorkbookReader
    <2>2. QED
      BY <2>1 DEF PagesInv, Listed
  <1>3. QED
    BY <1>1, <1>2, BeginPages, PagePages, CountPages, RowMoves DEF Next, vars, Inserts

LEMMA AlwaysPages == Spec => [](Typed /\ PagesInv)
  <1>1. Init => Typed /\ PagesInv
    BY InitTyped DEF Init, NotReading, PagesInv, Listed
  <1>2. QED
    BY <1>1, NextTyped, NextPages, PTL DEF Spec

(* A reader who pages to the end, of rows that sort in one order, has      *)
(* missed no more of the rows that were there all along than rows left     *)
(* meanwhile, for any number of rows, any names they are given, any limit  *)
(* he may ask for and any of the listings.                                 *)
THEOREM FewMissed == Spec => []MissesOnlyWhatMoved
  <1>1. Typed /\ PagesInv => MissesOnlyWhatMoved
    <2> SUFFICES ASSUME Typed, PagesInv, Listed, InOneOrder
                 PROVE  Cardinality({i \in start \cap shown : reader.times[i] = 0}) <= left
      BY DEF MissesOnlyWhatMoved
    <2> DEFINE missed == {i \in start \cap shown : reader.times[i] = 0}
    <2>1. start \subseteq Ids /\ Cardinality(start \ Seen) <= left /\ left \in Nat
      BY DEF PagesInv, Listed, ListedAll, Typed
    <2>2. missed \subseteq start \ Seen /\ start \ Seen \subseteq Ids
      BY <2>1 DEF Seen
    <2> HIDE DEF missed
    <2>3. Cardinality(missed) <= Cardinality(start \ Seen) /\ Cardinality(missed) \in Nat
          /\ Cardinality(start \ Seen) \in Nat
      BY <2>2, Sizes
    <2>4. Cardinality(missed) <= left
      BY <2>1, <2>3
    <2>5. QED
      BY <2>4 DEF missed
  <1>2. QED
    BY <1>1, AlwaysPages, PTL

(* He has seen no more rows twice than rows came.                          *)
THEOREM FewRepeated == Spec => []RepeatsOnlyWhatMoved
  <1>1. PagesInv => RepeatsOnlyWhatMoved
    BY DEF PagesInv, ListedAll, RepeatsOnlyWhatMoved
  <1>2. QED
    BY <1>1, AlwaysPages, PTL

(* The last total is off from the rows he saw by no more than what moved.  *)
THEOREM TotalStaysNear == Spec => []TotalIsNearby
  <1>1. PagesInv => TotalIsNearby
    BY DEF PagesInv, ListedAll, TotalIsNearby
  <1>2. QED
    BY <1>1, AlwaysPages, PTL
=============================================================================
