----------------------------- MODULE Site_proofs -----------------------------
(***************************************************************************)
(* What the pages of internal/web work out for themselves is what the rest *)
(* of the program says, for any group, any months and any clock.  One      *)
(* section proves each part of PagesAgree, and the last puts them          *)
(* together.                                                               *)
(*                                                                         *)
(* All but the arrows follow in one state from what Standings_proofs shows *)
(* of the board, the tables and the days.  The arrows compare boards of    *)
(* two days: each is shown to be one function of its histories and its     *)
(* day, and the histories and the days to be the same.                     *)
(***************************************************************************)
EXTENDS Standings_proofs, Site

-----------------------------------------------------------------------------
(* Who is on the board, and where.                                         *)

RankedPlayers == {p \in OnBoard : Reason(p) = "ranked"}

\* The rows of the board's ranking are those of the ranked, each at the rank that is
\* told of it.
BoardIsRanked ==
  /\ IsFiniteSet(RankedPlayers) /\ RankedPlayers \subseteq Players
  /\ Compute.ranked \in Seq(BoardRows)
  /\ Range(Compute.ranked) = {Row(p) : p \in RankedPlayers}
  /\ {a.player : a \in Range(Compute.ranked)} = RankedPlayers
  /\ \A p \in RankedPlayers : Row(p).player = p /\ Row(p) \in Range(Compute.ranked)
  /\ \A p \in RankedPlayers : (CHOOSE a \in Range(Compute.ranked) : a.player = p) = Row(p)
  /\ DOMAIN RanksOn(Compute) = RankedPlayers
  /\ \A p \in RankedPlayers : /\ RanksOn(Compute)[p] \in DOMAIN Compute.ranked
                              /\ Compute.ranked[RanksOn(Compute)[p]] = Row(p)

\* Everybody ranked has one row on the board, at their rank.
LEMMA RankedIsBoard == TypeOK => BoardIsRanked
<1> SUFFICES ASSUME TypeOK PROVE BoardIsRanked
  OBVIOUS
<1>1. \A p \in Players : Row(p).player = p /\ Row(p).reason = Reason(p)
  BY RowIs
<1>2. RankedPlayers \subseteq Players /\ RankedPlayers \subseteq OnBoard
  BY DEF RankedPlayers, OnBoard
<1>3. IsFiniteSet(RankedPlayers)
  BY <1>2, PlayersAreNumbered, FS_Subset
<1>4. Range(Compute.ranked) = {a \in BoardRows : a.reason = "ranked"} /\ Compute.ranked \in Seq(BoardRows)
  BY BoardIs
<1>5. Range(Compute.ranked) = {Row(p) : p \in RankedPlayers}
  BY <1>1, <1>4 DEF RankedPlayers, BoardRows, OnBoard
<1>6. \A p \in RankedPlayers : Row(p).player = p /\ Row(p) \in Range(Compute.ranked)
  BY <1>1, <1>2, <1>5
<1>7. \A a \in Range(Compute.ranked) : a.player \in RankedPlayers /\ a = Row(a.player)
  BY <1>5, <1>6
<1>8. {a.player : a \in Range(Compute.ranked)} = RankedPlayers
  BY <1>6, <1>7
<1>9. \A p \in RankedPlayers : (CHOOSE a \in Range(Compute.ranked) : a.player = p) = Row(p)
  <2> SUFFICES ASSUME NEW p \in RankedPlayers
               PROVE  (CHOOSE a \in Range(Compute.ranked) : a.player = p) = Row(p)
    OBVIOUS
  <2> DEFINE c == CHOOSE a \in Range(Compute.ranked) : a.player = p
  <2>1. c \in Range(Compute.ranked) /\ c.player = p
    BY <1>6
  <2> HIDE DEF c
  <2>2. c = Row(p)
    BY <1>7, <2>1
  <2> QED BY <2>2 DEF c
<1>10. DOMAIN RanksOn(Compute) = RankedPlayers
  BY <1>8 DEF RanksOn
<1>11. \A p \in RankedPlayers : /\ RanksOn(Compute)[p] \in DOMAIN Compute.ranked
                               /\ Compute.ranked[RanksOn(Compute)[p]] = Row(p)
  <2> SUFFICES ASSUME NEW p \in RankedPlayers
               PROVE  /\ RanksOn(Compute)[p] \in DOMAIN Compute.ranked
                      /\ Compute.ranked[RanksOn(Compute)[p]] = Row(p)
    OBVIOUS
  <2> DEFINE k == CHOOSE i \in DOMAIN Compute.ranked : Compute.ranked[i].player = p
  <2>1. \E i \in DOMAIN Compute.ranked : Compute.ranked[i] = Row(p)
    BY <1>6 DEF Range
  <2>2. k \in DOMAIN Compute.ranked /\ Compute.ranked[k].player = p
    BY <1>6, <2>1
  <2>3. RanksOn(Compute)[p] = k
    BY <1>8 DEF RanksOn
  <2> HIDE DEF k
  <2>4. Compute.ranked[k] = Row(p)
    BY <1>7, <2>2 DEF Range
  <2> QED BY <2>2, <2>3, <2>4
<1> QED BY <1>2, <1>3, <1>4, <1>5, <1>6, <1>8, <1>9, <1>10, <1>11 DEF BoardIsRanked

-----------------------------------------------------------------------------
(* The day.                                                                *)

\* The day's headline names somebody just when the bot's best solved it.
LEMMA HeadlineNamesTheBest ==
  ASSUME TypeOK
  PROVE  DayHeadline(now) \in {"best", "shared"} <=>
           BestOver(now) # {} /\ \A p \in BestOver(now) : Solved(history[p][now])
<1>1. /\ BestOver(now) = {p \in Filers(now) : OnDay(now)[p] = BestOn(now)}
      /\ \A p \in Filers(now) : OnDay(now)[p] = Value(history[p][now])
      /\ Filers(now) # {} => \E p \in Filers(now) : OnDay(now)[p] = BestOn(now)
  BY BestOverIs, DayIs
<1>2. /\ Filers(now) = {} => Today(now).best = {}
      /\ Filers(now) # {} /\ BestOn(now) < 7 => Today(now).best = BestOver(now) /\ BestOver(now) # {}
      /\ Filers(now) # {} /\ ~ (BestOn(now) < 7) => /\ Today(now).best = {}
                                                    /\ \A p \in BestOver(now) : ~ Solved(history[p][now])
      /\ Range(Today(now).filed) = Filers(now)
  BY TodayIs
<1>3. Today(now).filed = <<>> => Filers(now) = {}
  BY <1>2, RangeOfOne
<1>4. CASE Filers(now) = {}
  <2>1. DayHeadline(now) \in {"empty", "noneSolved"}
    BY <1>2, <1>4 DEF DayHeadline
  <2> QED BY <1>1, <1>4, <2>1
<1>5. CASE Filers(now) # {} /\ BestOn(now) < 7
  <2>1. DayHeadline(now) \in {"best", "shared"}
    BY <1>2, <1>3, <1>5 DEF DayHeadline
  <2>2. \A p \in BestOver(now) : Solved(history[p][now])
    BY <1>1, <1>5 DEF Value, FailedAsSeven
  <2> QED BY <1>2, <1>5, <2>1, <2>2
<1>6. CASE Filers(now) # {} /\ ~ (BestOn(now) < 7)
  <2>1. DayHeadline(now) \in {"empty", "noneSolved"}
    BY <1>2, <1>6 DEF DayHeadline
  <2> QED BY <1>1, <1>2, <1>6, <2>1
<1> QED BY <1>4, <1>5, <1>6

\* The first of the ranked in the order of a day has no worse a result than the other
\* ranked have.
LEMMA FirstIsBest ==
  ASSUME TypeOK, NEW row \in Range(DayRows(now, Compute)), row.pos = 1,
         NEW p \in DOMAIN RanksOn(Compute) \cap DOMAIN OnDay(now)
  PROVE  OnDay(now)[row.player] <= OnDay(now)[p]
<1> DEFINE filed == Today(now).filed
           n == Cardinality(Filers(now))
           Up(i) == {j \in 1..i : filed[j] \in RankedPlayers}
<1>1. /\ FiledOn(now) \in [1..n -> Filers(now)] /\ Range(FiledOn(now)) = Filers(now)
      /\ \A i, j \in 1..n : i < j => OnDay(now)[FiledOn(now)[i]] <= OnDay(now)[FiledOn(now)[j]]
  BY FiledSorts
<1>2. filed = FiledOn(now)
  BY DEF Today
<1>3. /\ {a.player : a \in Range(Compute.ranked)} = RankedPlayers
      /\ DOMAIN RanksOn(Compute) = RankedPlayers
  BY RankedIsBoard DEF BoardIsRanked
<1>4. DOMAIN OnDay(now) = Filers(now) /\ n \in Nat /\ \A q \in Filers(now) : OnDay(now)[q] \in 1..7
  BY DayIs
<1>5. PICK i \in 1..n : /\ row.player = filed[i]
                        /\ row.pos = IF filed[i] \notin RankedPlayers THEN 0 ELSE Cardinality(Up(i))
  <2>1. DOMAIN DayRows(now, Compute) = 1..n
    BY <1>1, <1>2 DEF DayRows
  <2>2. \A i \in 1..n : /\ DayRows(now, Compute)[i].player = filed[i]
                        /\ DayRows(now, Compute)[i].pos =
                             IF filed[i] \notin RankedPlayers THEN 0 ELSE Cardinality(Up(i))
    <3> DEFINE Pos(who, i) == IF filed[i] \notin who THEN 0 ELSE Cardinality({j \in 1..i : filed[j] \in who})
               who == {a.player : a \in Range(Compute.ranked)}
    <3>1. \A i \in DOMAIN filed : DayRows(now, Compute)[i].player = filed[i] /\ DayRows(now, Compute)[i].pos = Pos(who, i)
      BY DEF DayRows
    <3>2. who = RankedPlayers /\ DOMAIN filed = 1..n
      BY <1>1, <1>2, <1>3
    <3> HIDE DEF Pos, who, filed, n
    <3>3. \A i \in 1..n : DayRows(now, Compute)[i].player = filed[i] /\ DayRows(now, Compute)[i].pos = Pos(RankedPlayers, i)
      BY <3>1, <3>2
    <3> QED BY <3>3 DEF Pos
  <2>3. PICK i \in 1..n : row = DayRows(now, Compute)[i]
    BY <2>1 DEF Range
  <2> HIDE DEF filed, n, Up
  <2> QED BY <2>2, <2>3
<1>6. filed[i] \in RankedPlayers /\ Cardinality(Up(i)) = 1
  BY <1>5
<1>7. PICK k \in 1..n : filed[k] = p
  BY <1>1, <1>2, <1>4 DEF Range
<1>8. ~ (k < i)
  <2> SUFFICES ASSUME k < i PROVE FALSE
    OBVIOUS
  <2>1. k \in Up(i) /\ i \in Up(i)
    BY <1>3, <1>4, <1>6, <1>7
  <2>2. IsFiniteSet(Up(i))
    <3>1. IsFiniteSet(1..i)
      BY <1>4, FS_Interval
    <3>2. Up(i) \in SUBSET (1..i)
      OBVIOUS
    <3> QED BY <3>1, <3>2, FS_Subset
  <2> HIDE DEF Up
  <2>3. PICK x : Up(i) = {x}
    BY <1>6, <2>2, FS_Singleton
  <2> QED BY <2>1, <2>3
<1>9. i = k \/ i < k
  BY <1>4, <1>8
<1> QED
  <2>1. CASE i = k
    BY <1>4, <1>5, <1>7, <2>1
  <2>2. CASE i < k
    BY <1>1, <1>2, <1>5, <1>7, <2>2
  <2> QED BY <1>9, <2>1, <2>2

\* The day page agrees with the bot.
LEMMA DayPageState == TypeOK => DayPageAgrees(Compute)
BY HeadlineNamesTheBest, FirstIsBest DEF DayPageAgrees

-----------------------------------------------------------------------------
(* A player's records.                                                     *)

\* A place is the first when the player is among the winners.
LEMMA FirstPlaceWins ==
  ASSUME TypeOK, NEW m \in Months, NEW p \in InTable(m)
  PROVE  PlaceOf(Tables[m], p) = 1 <=> p \in Tables[m].winners
<1> DEFINE ranked == Month(m).ranked
           at == {i \in DOMAIN ranked : ranked[i].player = p}
<1>1. Tables[m] = Month(m)
  BY DaysAre
<1>2. /\ Range(ranked) = {MonthLine(m, q) : q \in InTable(m)}
      /\ \A q \in InTable(m) : MonthLine(m, q).player = q
      /\ \E n \in Nat : Sorted(ranked, n)
  BY MonthTables DEF MonthsAreTables
<1>3. /\ \A i \in DOMAIN ranked : Month(m).places[i] =
           1 + Cardinality({j \in DOMAIN ranked : Lower(ranked[j], ranked[i])})
      /\ Month(m).winners = {ranked[i].player : i \in {j \in DOMAIN ranked : Month(m).places[j] = 1}}
  BY RanksAreEarnedState DEF RanksAreEarned
<1>4. \A i \in at : ranked[i] = MonthLine(m, p)
  BY <1>2 DEF Range
<1>5. at # {} /\ at \subseteq Int /\ IsFiniteSet(at)
  <2>1. at # {}
    BY <1>2 DEF Range
  <2>2. PICK n \in Nat : DOMAIN ranked = 1..n
    BY <1>2 DEF Sorted
  <2>3. IsFiniteSet(1..n)
    BY FS_Interval
  <2>4. at \in SUBSET (1..n)
    BY <2>2
  <2>5. IsFiniteSet(at)
    BY <2>3, <2>4, FS_Subset
  <2> QED BY <2>1, <2>4, <2>5
<1>6. \A i, j \in at : Month(m).places[i] = Month(m).places[j]
  <2> SUFFICES ASSUME NEW i \in at, NEW j \in at PROVE Month(m).places[i] = Month(m).places[j]
    OBVIOUS
  <2>1. ranked[i] = ranked[j] /\ i \in DOMAIN ranked /\ j \in DOMAIN ranked
    BY <1>4
  <2>2. {k \in DOMAIN ranked : Lower(ranked[k], ranked[i])} = {k \in DOMAIN ranked : Lower(ranked[k], ranked[j])}
    BY <2>1
  <2> QED BY <1>3, <2>1, <2>2
<1>7. p \in Month(m).winners <=> \E i \in at : Month(m).places[i] = 1
  BY <1>3
<1>8. PlaceOf(Month(m), p) = Month(m).places[Min(at)]
  BY <1>5 DEF PlaceOf
<1> HIDE DEF at
<1>9. Min(at) \in at
  BY <1>5, MinIs
<1> QED BY <1>1, <1>6, <1>7, <1>8, <1>9

\* The months a player's page has as won are the season's titles.
LEMMA TitlesAreWins ==
  ASSUME TypeOK, NEW p \in Players
  PROVE  MonthRanks(p, Tables).won = SeasonRow(p, Tables).wins
<1> DEFINE ranked == {m \in DOMAIN Tables : PlaceOf(Tables[m], p) > 0}
<1>1. DOMAIN Tables = Months
  BY DEF Tables
<1>2. \A m \in ranked : PlaceOf(Tables[m], p) = 1 <=> p \in Tables[m].winners
  BY <1>1, PlaceIs, FirstPlaceWins
<1>3. MonthRanks(p, Tables).won = Cardinality({m \in ranked : Complete(m) /\ PlaceOf(Tables[m], p) = 1})
  BY DEF MonthRanks
<1>4. SeasonRow(p, Tables).wins = Cardinality({m \in ranked : Complete(m) /\ p \in Tables[m].winners})
  BY DEF SeasonRow
<1> HIDE DEF ranked
<1>5. {m \in ranked : Complete(m) /\ PlaceOf(Tables[m], p) = 1} =
        {m \in ranked : Complete(m) /\ p \in Tables[m].winners}
  BY <1>2
<1> QED BY <1>3, <1>4, <1>5

\* A player's best month that is over is no better than the season's best of any.
LEMMA BestMonthIsNoBetter ==
  ASSUME TypeOK, NEW p \in Players, Has(BestMonth(p, Tables))
  PROVE  ~ Lower(BestMonth(p, Tables), SeasonRow(p, Tables).best)
<1> DEFINE D == {m \in DOMAIN Tables : Complete(m) /\ PlaceOf(Tables[m], p) > 0}
           f == [m \in Months |-> AverageOf(Tables[m], p)]
           S == {f[m] : m \in D}
<1>1. DOMAIN Tables = Months
  BY DEF Tables
<1>2. D \subseteq Months
  BY <1>1
<1>3. BestMonth(p, Tables) = LowestOf(S)
  BY <1>2 DEF BestMonth
<1>4. \A m \in D : p \in InTable(m) /\ f[m].sum \in Nat /\ f[m].count \in Nat \ {0}
  <2> SUFFICES ASSUME NEW m \in D PROVE p \in InTable(m) /\ f[m].sum \in Nat /\ f[m].count \in Nat \ {0}
    OBVIOUS
  <2>1. p \in InTable(m) /\ AverageOf(Tables[m], p) \in Averages /\ AverageOf(Tables[m], p).count \in Nat \ {0}
    BY <1>1, PlaceIs
  <2> QED BY <1>2, <2>1 DEF Averages
<1>5. IsFiniteSet(D)
  BY <1>2, MonthsAreFew, FS_Subset
<1>6. \A m \in D : f[m] = AverageOf(Tables[m], p)
  BY <1>2
<1> HIDE DEF D, f
<1>7. IsFiniteSet(S)
  BY <1>5, ImagesFinite
<1>8. \A a \in S : a.sum \in Nat /\ a.count \in Nat \ {0}
  BY <1>4
<1> HIDE DEF S
<1>9. S # {}
  BY <1>3 DEF Has, LowestOf, None
<1>10. LowestOf(S) \in S
  BY <1>7, <1>8, <1>9, LowestIs
<1>11. PICK m \in D : LowestOf(S) = AverageOf(Tables[m], p)
  BY <1>6, <1>10 DEF S
<1>12. \A x \in Months : p \in InTable(x) => ~ Lower(AverageOf(Tables[x], p), SeasonRow(p, Tables).best)
  BY SeasonRowIs
<1> QED BY <1>2, <1>3, <1>4, <1>11, <1>12

\* A player's records agree with the season.
LEMMA RecordsAgreeState == TypeOK => RecordsAgree(Tables)
BY TitlesAreWins, BestMonthIsNoBetter DEF RecordsAgree

-----------------------------------------------------------------------------
(* Sorting, once more.                                                     *)

\* What a sort makes of a set, by an order given as a relation.
Sorting(S, R) ==
  CHOOSE s \in [1..Cardinality(S) -> S] : \A i, j \in 1..Cardinality(S) : i < j => <<s[i], s[j]>> \in R

\* It is in order, and has everything once.
LEMMA SortsInto ==
  ASSUME NEW S, IsFiniteSet(S), NEW R,
         \A x \in S : <<x, x>> \notin R,
         \A x, y \in S : x # y => <<x, y>> \in R \/ <<y, x>> \in R,
         \A x, y, z \in S : <<x, y>> \in R /\ <<y, z>> \in R => <<x, z>> \in R
  PROVE  /\ Cardinality(S) \in Nat
         /\ Sorting(S, R) \in [1..Cardinality(S) -> S] /\ Range(Sorting(S, R)) = S
         /\ \A i, j \in 1..Cardinality(S) : i < j => <<Sorting(S, R)[i], Sorting(S, R)[j]>> \in R
         /\ \A i, j \in 1..Cardinality(S) : Sorting(S, R)[i] = Sorting(S, R)[j] => i = j
<1>1. Cardinality(S) \in Nat
  BY FS_CardinalityType
<1>2. \E s \in [1..Cardinality(S) -> S] : \A i, j \in 1..Cardinality(S) : i < j => <<s[i], s[j]>> \in R
  BY SortedExists
<1>3. /\ Sorting(S, R) \in [1..Cardinality(S) -> S]
      /\ \A i, j \in 1..Cardinality(S) : i < j => <<Sorting(S, R)[i], Sorting(S, R)[j]>> \in R
  BY <1>2 DEF Sorting
<1>4. /\ Range(Sorting(S, R)) = S
      /\ \A i, j \in 1..Cardinality(S) : Sorting(S, R)[i] = Sorting(S, R)[j] => i = j
  BY <1>3, OrderedHasAll
<1> QED BY <1>1, <1>3, <1>4

-----------------------------------------------------------------------------
(* The board's page.                                                       *)

\* The rows of the board are in the order of the ranking, each of them once.
LEMMA BoardClimbs ==
  ASSUME TypeOK
  PROVE  LET n == Cardinality(Range(Compute.ranked))
         IN  /\ n \in Nat /\ Compute.ranked \in [1..n -> Range(Compute.ranked)]
             /\ \A i, j \in 1..n : i < j => RankedAbove(Compute.ranked[i], Compute.ranked[j])
             /\ \A i, j \in 1..n : Compute.ranked[i] = Compute.ranked[j] => i = j
             /\ \A a \in Range(Compute.ranked) :
                  a.player \in Int /\ a.games \in Nat /\ a.average \in Averages /\ a.form \in Averages
             /\ \A a, b \in Range(Compute.ranked) : a.player = b.player => a = b
             /\ IsFiniteSet(Range(Compute.ranked))
<1> DEFINE S == Range(Compute.ranked)
           n == Cardinality(S)
           R == {ab \in S \X S : RankedAbove(ab[1], ab[2])}
           first == Compute.ranked
           U == {a \in BoardRows : a.reason = "ranked"}
<1>1. S = U /\ IsFiniteSet(BoardRows)
  BY BoardIs
<1>2. IsFiniteSet(S)
  BY <1>1, FS_Subset
<1>3. /\ \A a \in S : a.player \in Int /\ a.games \in Nat /\ a.average \in Averages /\ a.form \in Averages
      /\ \A a, b \in S : a.player = b.player => a = b
  BY <1>1, RowIs DEF BoardRows, OnBoard
<1>4. first = CHOOSE s \in [1..Cardinality(U) -> U] : \A i, j \in DOMAIN s : i < j => RankedAbove(s[i], s[j])
  BY DEF Compute, InOrder, BoardRows, OnBoard
<1>5. first = CHOOSE s \in [1..n -> S] : \A i, j \in DOMAIN s : i < j => RankedAbove(s[i], s[j])
  BY <1>1, <1>4
<1>6. /\ \A a \in S : ~ RankedAbove(a, a)
      /\ \A a, b \in S : a # b => RankedAbove(a, b) \/ RankedAbove(b, a)
      /\ \A a, b, c \in S : RankedAbove(a, b) /\ RankedAbove(b, c) => RankedAbove(a, c)
  <2> HIDE DEF S
  <2> QED BY <1>3, RankedAboveOrders
<1>7. \A a, b \in S : <<a, b>> \in R <=> RankedAbove(a, b)
  OBVIOUS
<1> HIDE DEF S, R, first
<1>8. first = Sorting(S, R)
  <2>1. \A s \in [1..n -> S] : (\A i, j \in DOMAIN s : i < j => RankedAbove(s[i], s[j]))
                                 <=> (\A i, j \in 1..n : i < j => <<s[i], s[j]>> \in R)
    BY <1>7
  <2> QED BY <1>5, <2>1 DEF Sorting
<1>9. \A x \in S : <<x, x>> \notin R
  BY <1>6, <1>7
<1>10. \A x, y \in S : x # y => <<x, y>> \in R \/ <<y, x>> \in R
  BY <1>6, <1>7
<1>11. \A x, y, z \in S : <<x, y>> \in R /\ <<y, z>> \in R => <<x, z>> \in R
  BY <1>6, <1>7
<1>12. /\ n \in Nat /\ first \in [1..n -> S]
       /\ \A i, j \in 1..n : i < j => <<first[i], first[j]>> \in R
       /\ \A i, j \in 1..n : first[i] = first[j] => i = j
  BY <1>2, <1>8, <1>9, <1>10, <1>11, SortsInto
<1>13. \A i, j \in 1..n : i < j => RankedAbove(first[i], first[j])
  <2> HIDE DEF n
  <2> QED BY <1>7, <1>12
<1> QED BY <1>2, <1>3, <1>12, <1>13 DEF S, first

\* A row without an average is under all that have one, and an average under another
\* is no better.
LEMMA RankedByAverage ==
  ASSUME NEW a, NEW b, RankedAbove(a, b), a.average \in Averages, b.average \in Averages
  PROVE  /\ Has(b.average) => Has(a.average)
         /\ Has(b.average) => ~ Lower(b.average, a.average)
<1>1. Has(b.average) => Has(a.average)
  BY DEF RankedAbove
<1>2. ASSUME Has(b.average) PROVE ~ Lower(b.average, a.average)
  <2>1. Lower(a.average, b.average) \/ Level(a.average, b.average)
    BY <1>1, <1>2 DEF RankedAbove
  <2>2. /\ a.average.sum \in Nat /\ a.average.count \in Nat \ {0}
        /\ b.average.sum \in Nat /\ b.average.count \in Nat \ {0}
    BY <1>1, <1>2 DEF Has, Averages
  <2> DEFINE x == a.average
             y == b.average
  <2>3. Lower(x, y) => ~ Lower(y, x)
    <3>1. x.sum \in Nat /\ y.sum \in Nat /\ x.count \in Nat \ {0} /\ y.count \in Nat \ {0}
      BY <2>2
    <3> HIDE DEF x, y
    <3> QED BY <3>1, AveragesOrder
  <2> QED BY <2>1, <2>3 DEF Level
<1> QED BY <1>1, <1>2

\* A row said to be level has the average printed above it.
LEMMA GapsAgreeState == TypeOK => GapsAgree(Compute)
<1> DEFINE rows == Compute.ranked
           n == Cardinality(Range(Compute.ranked))
<1> SUFFICES ASSUME TypeOK, NEW i \in DOMAIN rows, i > 1, GapLine(rows, i) = "level", Has(rows[i].average)
             PROVE  Hundredths(rows[i].average) = Hundredths(rows[i - 1].average)
  BY DEF GapsAgree
<1>1. /\ n \in Nat /\ rows \in [1..n -> Range(rows)]
      /\ \A j, k \in 1..n : j < k => RankedAbove(rows[j], rows[k])
      /\ \A a \in Range(rows) : a.average \in Averages
  BY BoardClimbs
<1>2. i \in 1..n /\ i - 1 \in 1..n /\ i - 1 < i /\ rows[i] \in Range(rows) /\ rows[i - 1] \in Range(rows)
  <2>1. i \in 1..n
    BY <1>1
  <2>2. i - 1 \in 1..n /\ i - 1 < i
    BY <1>1, <2>1
  <2> HIDE DEF n, rows
  <2> QED BY <1>1, <2>1, <2>2
<1> DEFINE a == rows[i - 1]
           b == rows[i]
<1>3. RankedAbove(a, b) /\ a.average \in Averages /\ b.average \in Averages
  BY <1>1, <1>2
<1>4. Has(a.average) /\ ~ Lower(b.average, a.average)
  <2> HIDE DEF a
  <2> QED BY <1>3, RankedByAverage
<1> DEFINE x == a.average
           y == b.average
<1>5. x.sum \in Nat /\ y.sum \in Nat /\ x.count \in Nat \ {0} /\ y.count \in Nat \ {0} /\ ~ Lower(y, x)
  BY <1>3, <1>4 DEF Has, Averages
<1>6. ~ (Hundredths(y) > Hundredths(x))
  BY <1>4 DEF GapLine
<1> HIDE DEF x, y
<1>7. Hundredths(x) <= Hundredths(y) /\ Hundredths(x) \in Int /\ Hundredths(y) \in Int
  BY <1>5, HundredthsGrow
<1>8. Hundredths(x) = Hundredths(y)
  BY <1>6, <1>7
<1> QED BY <1>8 DEF x, y

-----------------------------------------------------------------------------
(* The months page.                                                        *)

\* The lines of a month's table by their indices: each is one player's.
LEMMA MonthIsTable ==
  ASSUME TypeOK, NEW m \in Months
  PROVE  LET ranked == Tables[m].ranked
         IN  \E n \in Nat :
               /\ Sorted(ranked, n) /\ Len(ranked) = n /\ DOMAIN ranked = 1..n
               /\ \A i, j \in 1..n : ranked[i].player = ranked[j].player => i = j
               /\ Tables[m].winners = {ranked[i].player : i \in {j \in 1..n : Level(ranked[j], ranked[1])}}
               /\ \A i \in 1..n : ranked[i] \in Lines
<1> DEFINE ranked == Tables[m].ranked
<1>1. Tables[m] = Month(m)
  BY DaysAre
<1>2. /\ Range(ranked) = {MonthLine(m, q) : q \in InTable(m)}
      /\ \A q \in InTable(m) : MonthLine(m, q).player = q
      /\ \E n \in Nat : Sorted(ranked, n)
  BY <1>1, MonthTables DEF MonthsAreTables
<1>3. Tables[m].winners = {ranked[i].player : i \in {j \in DOMAIN ranked : Tables[m].places[j] = 1}}
  BY <1>1, RanksAreEarnedState DEF RanksAreEarned
<1>4. PICK n \in Nat : Sorted(ranked, n)
  BY <1>2
<1>5. DOMAIN ranked = 1..n /\ ranked \in [1..n -> Lines] /\ Len(ranked) = n
  <2>1. ranked \in Seq(Lines) /\ DOMAIN ranked = 1..n
    BY <1>4 DEF Sorted
  <2> QED BY <1>4, <2>1 DEF Sorted
<1>6. \A i \in 1..n : Tables[m].places[i] = 1 + Cardinality({j \in DOMAIN ranked : Lower(ranked[j], ranked[i])})
  <2> DEFINE table == Tables[m]
  <2>1. \A i \in DOMAIN ranked : table.places[i] = 1 + Cardinality({j \in DOMAIN ranked : Lower(ranked[j], ranked[i])})
    BY <1>1, RanksAreEarnedState DEF RanksAreEarned
  <2> HIDE DEF ranked, table
  <2> QED BY <1>5, <2>1 DEF table
<1>7. \A i \in 1..n : Tables[m].places[i] = Places(ranked)[i]
  <2>1. \A i \in 1..n : Places(ranked)[i] = 1 + Cardinality(Better(ranked, i))
    BY <1>4, PlacesAreEarned
  <2> QED BY <1>6, <2>1 DEF Better
<1>8. \A i \in 1..n : Level(ranked[i], ranked[1]) <=> Tables[m].places[i] = 1
  BY <1>4, <1>7, FirstPlace
<1>9. Tables[m].winners = {ranked[i].player : i \in {j \in 1..n : Level(ranked[j], ranked[1])}}
  BY <1>3, <1>5, <1>8
<1>10. \A i, j \in 1..n : ranked[i].player = ranked[j].player => ranked[i] = ranked[j]
  <2>1. \A i \in 1..n : ranked[i] \in Range(ranked)
    BY <1>5 DEF Range
  <2>2. \A a \in Range(ranked) : a = MonthLine(m, a.player)
    BY <1>2
  <2> HIDE DEF ranked
  <2> QED BY <2>1, <2>2
<1>11. \A i, j \in 1..n : ranked[i].player = ranked[j].player => i = j
  <2> SUFFICES ASSUME NEW i \in 1..n, NEW j \in 1..n, ranked[i].player = ranked[j].player, i < j PROVE FALSE
    OBVIOUS
  <2>1. ranked[i] = ranked[j] /\ ranked[i] \in Lines
    BY <1>5, <1>10
  <2>2. Above(ranked[i], ranked[j])
    BY <1>4 DEF Sorted
  <2> HIDE DEF ranked
  <2> DEFINE a == ranked[i]
  <2>3. Above(a, a) /\ a \in Lines
    BY <2>1, <2>2
  <2> HIDE DEF a
  <2>4. ~ Lower(a, a)
    BY <2>3, LowerOrders
  <2> QED BY <2>3, <2>4 DEF Above, Lines
<1> QED BY <1>4, <1>5, <1>9, <1>11

\* Those level with the first line of a sorted table come before all the others.
LEMMA LevelsAreFirst ==
  ASSUME NEW ranked, NEW n, Sorted(ranked, n), NEW k \in 1..n, ~ Level(ranked[k], ranked[1]),
         \A i \in 1..n : ~ Level(ranked[i], ranked[1]) => k <= i
  PROVE  {j \in 1..n : Level(ranked[j], ranked[1])} = 1..(k - 1)
<1>1. n \in Nat /\ ranked \in [1..n -> Lines] /\ 1 \in 1..n
  BY DEF Sorted
<1>2. ASSUME NEW i \in 1..n, k <= i PROVE ~ Level(ranked[i], ranked[1])
  <2>1. ~ Lower(ranked[k], ranked[1]) /\ ~ Lower(ranked[i], ranked[k])
    BY <1>1, <1>2, SortedLines
  <2>2. Lower(ranked[1], ranked[k])
    BY <2>1 DEF Level
  <2> DEFINE a == ranked[1]
             b == ranked[k]
             c == ranked[i]
  <2>3. a \in Lines /\ b \in Lines /\ c \in Lines
    BY <1>1
  <2>4. Lower(a, b) /\ ~ Lower(c, b)
    BY <2>1, <2>2
  <2> HIDE DEF a, b, c
  <2>5. Lower(a, c)
    BY <2>3, <2>4, LowerOrders
  <2> QED BY <2>5 DEF Level, a, c
<1>3. \A i \in 1..n : i < k => Level(ranked[i], ranked[1])
  BY <1>1
<1> QED BY <1>1, <1>2, <1>3

\* Who the headline names for second, the bot has for a runner-up.
LEMMA SecondIsNext ==
  ASSUME TypeOK, NEW m \in Months
  PROVE  Headline(m, Tables[m]).second \subseteq RunnersUp(Tables[m])
<1> DEFINE ranked == Tables[m].ranked
           winners == Tables[m].winners
           second == {i \in DOMAIN ranked : ~ Level(ranked[i], ranked[1])}
           k == Min(second)
<1>1. PICK n \in Nat :
        /\ Sorted(ranked, n) /\ Len(ranked) = n /\ DOMAIN ranked = 1..n
        /\ \A i, j \in 1..n : ranked[i].player = ranked[j].player => i = j
        /\ winners = {ranked[i].player : i \in {j \in 1..n : Level(ranked[j], ranked[1])}}
        /\ \A i \in 1..n : ranked[i] \in Lines
  BY MonthIsTable
<1>2. Headline(m, Tables[m]).second = IF second = {} THEN {} ELSE {ranked[k].player}
  BY DEF Headline
<1>3. SUFFICES ASSUME second # {} PROVE ranked[k].player \in RunnersUp(Tables[m])
  BY <1>2
<1>4. k \in second /\ \A i \in second : k <= i
  <2>1. second \subseteq Int /\ second \in SUBSET (1..n)
    BY <1>1
  <2>2. IsFiniteSet(1..n)
    BY FS_Interval
  <2> HIDE DEF second
  <2>3. IsFiniteSet(second)
    BY <2>1, <2>2, FS_Subset
  <2> QED BY <1>3, <2>1, <2>3, MinIs
<1>5. k \in 1..n /\ ~ Level(ranked[k], ranked[1]) /\ \A i \in 1..n : ~ Level(ranked[i], ranked[1]) => k <= i
  BY <1>1, <1>4
<1> DEFINE first == {j \in 1..n : Level(ranked[j], ranked[1])}
           h == [i \in first |-> ranked[i].player]
           zeros == [i \in first |-> 0]
           none == [p \in winners |-> 0]
<1>6. first = 1..(k - 1)
  <2> HIDE DEF k, ranked
  <2> QED BY <1>1, <1>5, LevelsAreFirst
<1>7. h \in [first -> winners] /\ (\A t \in winners : \E x \in first : h[x] = t)
      /\ (\A x, y \in first : h[x] = h[y] => x = y)
  <2> HIDE DEF ranked, winners
  <2> QED BY <1>1
<1>8. IsFiniteSet(first) /\ Cardinality(first) = k - 1
  <2>1. 1 \in Int /\ k - 1 \in Int /\ k - 1 >= 0
    BY <1>5
  <2>2. IsFiniteSet(1..(k - 1)) /\ Cardinality(1..(k - 1)) = k - 1
    <3> HIDE DEF k
    <3> QED BY <2>1, FS_Interval
  <2> QED BY <1>6, <2>2
<1>9. \A x \in first : zeros[x] \in Nat /\ none[h[x]] = zeros[x]
  <2>1. \A x \in first : h[x] \in winners
    BY <1>7
  <2> HIDE DEF h, winners
  <2> QED BY <2>1
<1>10. Cardinality(winners) = k - 1
  <2> HIDE DEF first, h, zeros, none, winners, k
  <2> QED BY <1>7, <1>8, <1>9, SumAlong
<1>11. RunnersUp(Tables[m]) = {a.player : a \in {b \in Range(ranked) : Level(b, ranked[k])}}
  <2>1. Cardinality(winners) + 1 = k /\ k <= Len(ranked)
    BY <1>1, <1>5, <1>10
  <2>2. ~ (Cardinality(winners) + 1 > Len(ranked))
    BY <1>1, <1>5, <2>1
  <2> QED BY <2>1, <2>2 DEF RunnersUp
<1>12. Level(ranked[k], ranked[k])
  <2> DEFINE a == ranked[k]
  <2>1. a \in Lines
    BY <1>1, <1>5
  <2> HIDE DEF a
  <2>2. ~ Lower(a, a)
    BY <2>1, LowerOrders
  <2> QED BY <2>2 DEF Level, a
<1>13. ranked[k] \in Range(ranked)
  BY <1>1, <1>5 DEF Range
<1> QED BY <1>11, <1>12, <1>13

\* A month in the list has a day that somebody has a result of.
LEMMA ListedIsPlayed ==
  ASSUME TypeOK, NEW m \in Listed(Tables)
  PROVE  m \in Months /\ \E p \in Players : \E z \in DOMAIN history[p] : m.first <= z /\ z < m.end
<1>1. m \in Months /\ RankedIn(Tables[m]) \cup Tables[m].thin # {}
  BY DEF Listed, Tables
<1>2. PICK p \in Players : DOMAIN Rows(m.first, m.end)[p] # {}
  <2>1. CASE RankedIn(Tables[m]) # {}
    BY <1>1, <2>1, RankedAre DEF InTable
  <2>2. CASE Tables[m].thin # {}
    <3>1. Tables[m].thin = Month(m).thin
      BY <1>1, DaysAre
    <3>2. PICK p \in Month(m).thin : TRUE
      BY <2>2, <3>1
    <3> DEFINE rows == Rows(m.first, m.end)
               scored == {MonthPlayer(q, rows[q], Concluded(m.first, m.end, now)) : q \in {x \in Players : DOMAIN rows[x] # {}}}
    <3>3. Month(m).thin = {a.player : a \in {b \in scored : b.count = 0}}
      BY DEF Month, MonthAsOf, ScoreSpan
    <3>4. scored # {}
      BY <3>2, <3>3
    <3> QED BY <3>4
  <2> QED BY <1>1, <2>1, <2>2
<1>3. DOMAIN Rows(m.first, m.end)[p] = {z \in DOMAIN Counted(p) : m.first <= z /\ z < m.end}
  BY RowsAreResults
<1>4. DOMAIN Counted(p) \subseteq DOMAIN history[p]
  BY FewResults
<1> QED BY <1>1, <1>2, <1>3, <1>4

\* The running month is the newest in the list when nobody has posted ahead.
LEMMA RunningIsNewest ==
  ASSUME TypeOK, NobodyAhead, NEW m \in Listed(Tables), Running(m)
  PROVE  Newest(Tables) = {m}
<1>0. now \in Nat
  BY LastDayIsADay DEF TypeOK
<1>1. \A c \in Listed(Tables) :
        /\ c \in Months /\ c.first \in Nat /\ c.end \in Nat /\ c.first < c.end
        /\ \E p \in Players : \E z \in DOMAIN history[p] : c.first <= z
  BY ListedIsPlayed, MonthsAreSpans
<1>2. \A p \in Players : \A z \in DOMAIN history[p] : z <= now /\ z \in Int
  <2> SUFFICES ASSUME NEW p \in Players, NEW z \in DOMAIN history[p] PROVE z <= now /\ z \in Int
    OBVIOUS
  <2>1. z \in 1..(now + 1) /\ z # now + 1
    BY FewResults DEF NobodyAhead
  <2> QED BY <1>0, <2>1
<1>3. \A c \in Listed(Tables) : c.first <= now
  BY <1>0, <1>1, <1>2
<1>4. m.first <= now /\ now < m.end
  BY <1>0, <1>1 DEF Running
<1>5. \A c \in Listed(Tables) : c # m => c.first < m.first
  <2> SUFFICES ASSUME NEW c \in Listed(Tables), c # m PROVE c.first < m.first
    OBVIOUS
  <2>1. c.end <= m.first \/ m.end <= c.first
    BY <1>1, MonthsAreApart
  <2> QED BY <1>0, <1>1, <1>3, <1>4, <2>1
<1>6. \A c \in Listed(Tables) : c.first \in Nat
  BY <1>1
<1> QED BY <1>5, <1>6 DEF Newest

\* The standing of the running month is what the bot tells of its leader.
LEMMA StandingIsTold ==
  ASSUME TypeOK, NobodyAhead, NEW m \in Listed(Tables), Running(m)
  PROVE  Standing(Tables) = (IF Tables[m].ranked = <<>> THEN [says |-> "nothing", who |-> {}]
                             ELSE [says |-> Leader(Tables[m]).says, who |-> Tables[m].winners])
<1> DEFINE open == {x \in Newest(Tables) : Running(x) /\ Tables[x].ranked # <<>>}
<1>1. Newest(Tables) = {m} /\ m \in Months
  BY RunningIsNewest, ListedIsPlayed
<1>2. CASE Tables[m].ranked = <<>>
  <2>1. open = {}
    BY <1>1, <1>2
  <2> QED BY <1>2, <2>1 DEF Standing
<1>3. CASE Tables[m].ranked # <<>>
  <2>1. open = {m}
    BY <1>1, <1>3
  <2>2. Tables[m].winners # {}
    <3>1. PICK n \in Nat : /\ Sorted(Tables[m].ranked, n) /\ DOMAIN Tables[m].ranked = 1..n
                           /\ Len(Tables[m].ranked) = n
      BY <1>1, MonthIsTable
    <3>2. /\ Range(Tables[m].ranked) = {MonthLine(m, q) : q \in InTable(m)}
          /\ InTable(m) # {} => \E p \in Tables[m].winners : Tables[m].ranked[1] = MonthLine(m, p)
      BY <1>1, MonthTables, DaysAre DEF MonthsAreTables
    <3>3. n # 0
      <4> SUFFICES ASSUME n = 0 PROVE FALSE
        OBVIOUS
      <4>1. Tables[m].ranked \in Seq(Lines) /\ Len(Tables[m].ranked) = 0
        BY <3>1 DEF Sorted
      <4>2. \A s \in Seq(Lines) : Len(s) = 0 => s = <<>>
        OBVIOUS
      <4> QED BY <1>3, <4>1, <4>2
    <3>4. Range(Tables[m].ranked) # {}
      <4>1. 1 \in 1..n
        BY <3>3
      <4>2. 1 \in DOMAIN Tables[m].ranked
        BY <3>1, <4>1
      <4> QED BY <4>2 DEF Range
    <3> QED BY <3>2, <3>4
  <2>3. Standing(Tables) =
          [says |-> IF Cardinality(Tables[m].winners) > 1 THEN "tie"
                    ELSE IF RunnersUp(Tables[m]) = {} THEN "alone" ELSE "margin",
           who  |-> Tables[m].winners]
    <3>1. (CHOOSE x \in {m} : TRUE) = m
      OBVIOUS
    <3>2. Standing(Tables) =
            LET table == Tables[CHOOSE x \in open : TRUE]
            IN  [says |-> IF Cardinality(table.winners) > 1 THEN "tie"
                          ELSE IF RunnersUp(table) = {} THEN "alone" ELSE "margin",
                 who  |-> table.winners]
      BY <2>1 DEF Standing
    <3> QED BY <2>1, <3>1, <3>2
  <2>4. Leader(Tables[m]).says =
          IF Cardinality(Tables[m].winners) > 1 THEN "tie"
          ELSE IF RunnersUp(Tables[m]) = {} THEN "alone" ELSE "margin"
    BY <2>2 DEF Leader
  <2> QED BY <1>3, <2>3, <2>4
<1> QED BY <1>2, <1>3

\* The months page and the front page agree with the bot on the months.
LEMMA MonthPagesState == TypeOK => MonthPagesAgree(Tables)
<1> SUFFICES ASSUME TypeOK PROVE MonthPagesAgree(Tables)
  OBVIOUS
<1>1. ASSUME NEW m \in Listed(Tables)
      PROVE  /\ Headline(m, Tables[m]).who = Leader(Tables[m]).who
             /\ Headline(m, Tables[m]).second \subseteq RunnersUp(Tables[m])
  <2>1. m \in Months
    BY ListedIsPlayed
  <2>2. Headline(m, Tables[m]).who = Leader(Tables[m]).who
    BY DEF Headline, Leader
  <2> QED BY <2>1, <2>2, SecondIsNext
<1>2. ASSUME NEW m \in Months, Running(m), NobodyAhead, m \in Listed(Tables)
      PROVE  Standing(Tables) = (IF Tables[m].ranked = <<>> THEN [says |-> "nothing", who |-> {}]
                                 ELSE [says |-> Leader(Tables[m]).says, who |-> Tables[m].winners])
  BY <1>2, StandingIsTold
<1> QED BY <1>1, <1>2 DEF MonthPagesAgree

-----------------------------------------------------------------------------
(* The hardest day.                                                        *)

\* A mean of natural numbers is their sum over how many they are.
LEMMA MeanIsSum ==
  ASSUME NEW v, IsFiniteSet(DOMAIN v), \A x \in DOMAIN v : v[x] \in Nat
  PROVE  /\ MeanOf(v).sum = SumOver(v, DOMAIN v) /\ MeanOf(v).count = Cardinality(DOMAIN v)
         /\ MeanOf(v).sum \in Nat /\ MeanOf(v).count \in Nat
<1> DEFINE S == DOMAIN v
<1>1. Cardinality(S) \in Nat
  BY FS_CardinalityType
<1>2. MapThenSumSet(LAMBDA p : v[p], S) = SumOver(v, S)
  BY MapSumIs
<1>3. MeanOf(v).sum = MapThenSumSet(LAMBDA p : v[p], S) /\ MeanOf(v).count = Cardinality(S)
  BY DEF MeanOf
<1>4. SumOver(v, S) \in Nat
  BY SumIsNat
<1> QED BY <1>1, <1>2, <1>3, <1>4

\* The mean of a day is the one of the day's puzzle in the bot's answers.
LEMMA DayMeanIs ==
  ASSUME TypeOK, NEW z
  PROVE  /\ DayMean(z).sum = MeanOf(OnDay(z)).sum /\ DayMean(z).count = MeanOf(OnDay(z)).count
         /\ MeanOf(OnDay(z)).count = Cardinality(DOMAIN OnDay(z))
         /\ DayMean(z).sum \in Nat /\ DayMean(z).count \in Nat
         /\ DayMean(z).count > 0 => z \in 1..(now + 1)
<1> DEFINE S == Filers(z)
           slots == {s \in Players \X {z} : s[2] \in DOMAIN history[s[1]]}
           f == OnDay(z)
           e == [s \in slots |-> Value(history[s[1]][s[2]])]
           h == [p \in S |-> <<p, z>>]
<1>1. DayMean(z) = MeanOf(e)
  BY DEF DayMean, ResultsOf
<1>2. /\ IsFiniteSet(S) /\ DOMAIN f = S
      /\ \A p \in S : f[p] = Value(history[p][z]) /\ f[p] \in 1..7
  BY DayIs
<1>3. h \in [S -> slots] /\ (\A t \in slots : \E x \in S : h[x] = t)
      /\ (\A x, y \in S : h[x] = h[y] => x = y)
  BY DEF Filers
<1>4. \A x \in S : f[x] \in Nat /\ e[h[x]] = f[x]
  <2> SUFFICES ASSUME NEW x \in S PROVE f[x] \in Nat /\ e[h[x]] = f[x]
    OBVIOUS
  <2>1. h[x] = <<x, z>> /\ <<x, z>> \in slots
    BY DEF Filers
  <2>2. e[<<x, z>>] = Value(history[x][z])
    BY <2>1
  <2> HIDE DEF e, h, slots, f
  <2> QED BY <1>2, <2>1, <2>2
<1>5. DOMAIN e = slots
  OBVIOUS
<1>6. \A s \in slots : e[s] \in Nat
  <2> HIDE DEF e, f, h, slots
  <2> QED BY <1>3, <1>4
<1> HIDE DEF e, f, h, slots, S
<1>7. IsFiniteSet(slots) /\ Cardinality(slots) = Cardinality(S) /\ SumOver(e, slots) = SumOver(f, S)
  BY <1>2, <1>3, <1>4, SumAlong
<1>8. /\ MeanOf(e).sum = SumOver(e, slots) /\ MeanOf(e).count = Cardinality(slots)
      /\ MeanOf(e).sum \in Nat /\ MeanOf(e).count \in Nat
  BY <1>5, <1>6, <1>7, MeanIsSum
<1>9. MeanOf(f).sum = SumOver(f, S) /\ MeanOf(f).count = Cardinality(S)
  <2>1. MeanOf(OnDay(z)).sum = SumOver(OnDay(z), Filers(z)) /\ MeanOf(OnDay(z)).count = Cardinality(Filers(z))
    BY MeanIs
  <2> QED BY <2>1 DEF f, S
<1>10. ASSUME DayMean(z).count > 0 PROVE z \in 1..(now + 1)
  <2>1. S # {}
    BY <1>1, <1>7, <1>8, <1>10, FS_EmptySet
  <2>2. PICK p \in Players : z \in DOMAIN history[p]
    BY <2>1 DEF S, Filers
  <2> QED BY <2>2, FewResults
<1>11. MeanOf(OnDay(z)).sum = DayMean(z).sum /\ MeanOf(OnDay(z)).count = DayMean(z).count
  BY <1>1, <1>7, <1>8, <1>9 DEF f
<1>12. MeanOf(OnDay(z)).count = Cardinality(DOMAIN OnDay(z))
  BY <1>2, <1>9 DEF f
<1> QED BY <1>1, <1>8, <1>10, <1>11, <1>12

\* The bot's hardest puzzle is the page's, but for today and the thin days.
LEMMA HardestAgreesState == TypeOK => HardestAgrees
<1> DEFINE window == (now - HardestWindow + 1)..now
           hard == Puzzle(window, FALSE)
<1> SUFFICES ASSUME TypeOK, hard # 0, Difficulty(hard) > 1
             PROVE  \E z \in 1..now : /\ Lower(DayMean(hard), DayMean(z))
                                      /\ z = now \/ Cardinality(DOMAIN OnDay(z)) < DayMinFiled
  BY DEF HardestAgrees
<1>0. now \in Nat
  BY LastDayIsADay DEF TypeOK
<1>1. PICK y \in window \ {hard} : Has(DayMean(y)) /\ Lower(DayMean(hard), DayMean(y))
  <2> DEFINE harder == {x \in window \ {hard} : Has(DayMean(x)) /\ Lower(DayMean(hard), DayMean(x))}
  <2>1. Difficulty(hard) = 1 + Cardinality(harder)
    BY DEF Difficulty
  <2>2. harder # {}
    <3> HIDE DEF harder, hard
    <3> QED BY <2>1, FS_EmptySet
  <2> QED BY <2>2
<1>2. y \in 1..(now + 1) /\ y <= now /\ y \in Int
  <2>1. DayMean(y).count > 0
    BY <1>1 DEF Has
  <2>2. y \in 1..(now + 1)
    BY <2>1, DayMeanIs
  <2>3. y \in window
    BY <1>1
  <2> QED BY <1>0, <2>2, <2>3
<1>3. y \in 1..now
  BY <1>0, <1>2
<1>4. y = now \/ Cardinality(DOMAIN OnDay(y)) < DayMinFiled
  <2> SUFFICES ASSUME y # now, ~ (Cardinality(DOMAIN OnDay(y)) < DayMinFiled) PROVE FALSE
    OBVIOUS
  <2>1. Cardinality(DOMAIN OnDay(y)) \in Nat
    <3>1. DayMean(y).count = MeanOf(OnDay(y)).count /\ MeanOf(OnDay(y)).count = Cardinality(DOMAIN OnDay(y))
          /\ DayMean(y).count \in Nat
      BY DayMeanIs
    <3> QED BY <3>1
  <2>2. y < now /\ Cardinality(DOMAIN OnDay(y)) >= DayMinFiled
    BY <1>0, <1>3, <2>1, DayMinFiledIsPositive
  <2>3. y \in PlayedIn(window)
    BY <1>1, <2>2 DEF PlayedIn
  <2> HIDE DEF window
  <2>4. ~ Lower(MeanOf(OnDay(hard)), MeanOf(OnDay(y)))
    BY <2>3, PuzzleIs
  <2>5. /\ DayMean(y).sum = MeanOf(OnDay(y)).sum /\ DayMean(y).count = MeanOf(OnDay(y)).count
        /\ DayMean(hard).sum = MeanOf(OnDay(hard)).sum /\ DayMean(hard).count = MeanOf(OnDay(hard)).count
    BY DayMeanIs
  <2> QED BY <1>1, <2>4, <2>5 DEF Lower
<1> QED BY <1>1, <1>3, <1>4

-----------------------------------------------------------------------------
(* Form.                                                                   *)

Recently(p) == {z \in DOMAIN history[p] : z \in WindowStart..now}

\* Of the window everything counts, while failures do and the filter is off.
LEMMA WindowIs ==
  ASSUME TypeOK, NEW p \in Players, opts.countXAsSeven, ~ opts.hardModeOnly
  PROVE  /\ DOMAIN InWindow(p) = Recently(p) /\ IsFiniteSet(Recently(p))
         /\ \A z \in Recently(p) : InWindow(p)[z] = history[p][z] /\ history[p][z] \in Result
         /\ \A missed : /\ Average(InWindow(p), missed).sum =
                             Total(history[p], Recently(p)) + 7 * Cardinality(missed)
                        /\ Average(InWindow(p), missed).count = Cardinality(Recently(p)) + Cardinality(missed)
<1>1. Counted(p) = history[p]
  BY DEF Counted
<1>2. DOMAIN InWindow(p) = Recently(p) /\ \A z \in Recently(p) : InWindow(p)[z] = history[p][z]
  BY <1>1 DEF InWindow, RestrictDomain, Restrict, Recently
<1>3. IsFiniteSet(DOMAIN history[p]) /\ \A z \in DOMAIN history[p] : history[p][z] \in Result
  BY <1>1, FewResults
<1>4. IsFiniteSet(Recently(p)) /\ \A z \in Recently(p) : history[p][z] \in Result
  <2>1. Recently(p) \in SUBSET DOMAIN history[p]
    BY DEF Recently
  <2> QED BY <1>3, <2>1, FS_Subset
<1>5. ASSUME NEW missed
      PROVE  /\ Average(InWindow(p), missed).sum =
                  Total(history[p], Recently(p)) + 7 * Cardinality(missed)
             /\ Average(InWindow(p), missed).count = Cardinality(Recently(p)) + Cardinality(missed)
  <2> DEFINE valued == {z \in DOMAIN InWindow(p) : Counts(InWindow(p)[z])}
  <2>1. valued = Recently(p)
    BY <1>2 DEF Counts
  <2>2. Total(InWindow(p), Recently(p)) = Total(history[p], Recently(p))
    <3> DEFINE other == InWindow(p)
    <3>1. \A z \in Recently(p) : other[z] = history[p][z]
      BY <1>2
    <3> HIDE DEF other
    <3>2. Total(other, Recently(p)) = Total(history[p], Recently(p))
      BY <1>4, <3>1, TotalSame
    <3> QED BY <3>2 DEF other
  <2>3. /\ Average(InWindow(p), missed).sum = Total(InWindow(p), valued) + 7 * Cardinality(missed)
        /\ Average(InWindow(p), missed).count = Cardinality(valued) + Cardinality(missed)
    BY DEF Average, FailedAsSeven
  <2> QED BY <2>1, <2>2, <2>3
<1> QED BY <1>2, <1>4, <1>5

\* The missed days of the window are so many.
LEMMA GapsAreFew ==
  ASSUME TypeOK, NEW p \in Players, DOMAIN history[p] # {}
  PROVE  IsFiniteSet(Gaps(p)) /\ Cardinality(Gaps(p)) \in Nat
<1>0. now \in Nat /\ WindowStart \in Int
  BY LastDayIsADay, FormWindowIsPositive DEF TypeOK, WindowStart
<1>1. Min(DOMAIN history[p]) \in Int
  BY FewResults, MinIs
<1>2. Later(WindowStart, Min(DOMAIN history[p])) \in Int /\ now - 1 \in Int
  BY <1>0, <1>1 DEF Later
<1> DEFINE span == Later(WindowStart, Min(DOMAIN history[p]))..(now - 1)
<1>3. IsFiniteSet(span)
  BY <1>2, FS_Interval
<1>4. Gaps(p) \in SUBSET span
  BY DEF Gaps
<1> QED BY <1>3, <1>4, FS_Subset, FS_CardinalityType

\* Sevens for missed days make no mean better.
LEMMA SevensWeigh ==
  ASSUME NEW s \in Nat, NEW n \in Nat, s <= 7 * n, NEW g \in Nat
  PROVE  ~ ((s + 7 * g) * n < s * (n + g))
<1>1. s * g <= (7 * n) * g
  BY Z3
<1>2. (s + 7 * g) * n = s * n + (7 * n) * g /\ s * (n + g) = s * n + s * g
  BY Z3
<1> DEFINE a == s * n
           b == (7 * n) * g
           c == s * g
<1>3. a \in Int /\ b \in Int /\ c \in Int
  OBVIOUS
<1> HIDE DEF a, b, c
<1>4. c <= b /\ (s + 7 * g) * n = a + b /\ s * (n + g) = a + c
  BY <1>1, <1>2 DEF a, b, c
<1> QED BY <1>3, <1>4

\* A player's form is the mean of the strip with a seven for each gap, so no better.
LEMMA FormOfStrip ==
  ASSUME TypeOK, NEW p \in Players, HasForm(p), opts.countXAsSeven, ~ opts.hardModeOnly,
         NEW played, played = {z \in DOMAIN Strip(p) : Strip(p)[z] > 0},
         NEW mean, mean = MeanOf([z \in played |-> Strip(p)[z]])
  PROVE  ~ Lower(Form(p), mean) /\ (Gaps(p) = {} => Level(Form(p), mean))
<1> DEFINE D == Recently(p)
           v == [z \in D |-> Value(history[p][z])]
           e == [z \in played |-> Strip(p)[z]]
           g == Cardinality(Gaps(p))
           s == Total(history[p], D)
           n == Cardinality(D)
<1>1. /\ DOMAIN InWindow(p) = D /\ IsFiniteSet(D)
      /\ \A z \in D : history[p][z] \in Result
      /\ Form(p).sum = s + 7 * g /\ Form(p).count = n + g
  BY WindowIs DEF Form
<1>2. \A z \in D : Value(history[p][z]) \in 1..7
  BY <1>1 DEF Value, Solved, Result, FailedAsSeven
<1>3. played = D /\ \A z \in D : Strip(p)[z] = Value(history[p][z])
  <2>1. DOMAIN Strip(p) = WindowStart..now
        /\ \A z \in WindowStart..now : Strip(p)[z] = IF z \in DOMAIN history[p] THEN Value(history[p][z]) ELSE 0
    BY DEF Strip
  <2>2. \A z : z \in D <=> z \in DOMAIN history[p] /\ z \in WindowStart..now
    BY DEF Recently
  <2> HIDE DEF D
  <2>3. \A z \in D : Strip(p)[z] = Value(history[p][z]) /\ Strip(p)[z] > 0
    BY <1>2, <2>1, <2>2
  <2> QED BY <2>1, <2>2, <2>3
<1>4. DOMAIN e = D /\ \A z \in D : e[z] = v[z] /\ e[z] \in Nat /\ v[z] = Value(history[p][z])
  <2>1. \A z \in D : Strip(p)[z] = Value(history[p][z]) /\ Value(history[p][z]) \in Nat
    BY <1>2, <1>3
  <2> HIDE DEF D
  <2> QED BY <1>3, <2>1
<1>5. s = SumOver(v, D) /\ s \in Nat /\ s <= 7 * n
  BY <1>1, TotalIsSum, TotalBound
<1>6. n \in Nat /\ n > 0
  <2>1. n \in Nat
    BY <1>1, FS_CardinalityType
  <2>2. n >= MinGames
    BY <1>1 DEF HasForm
  <2> QED BY <2>1, <2>2, MinGamesIsPositive
<1>7. g \in Nat
  <2>1. D # {}
    BY <1>6, FS_EmptySet
  <2>2. DOMAIN history[p] # {}
    BY <2>1 DEF Recently
  <2> QED BY <2>2, GapsAreFew
<1>8. mean.sum = s /\ mean.count = n
  <2> HIDE DEF e, v, D
  <2>1. SumOver(e, D) = SumOver(v, D)
    BY <1>1, <1>4, SumSame
  <2>2. MeanOf(e).sum = SumOver(e, D) /\ MeanOf(e).count = Cardinality(D)
    BY <1>1, <1>4, MeanIsSum
  <2>3. mean = MeanOf(e)
    BY DEF e
  <2> QED BY <1>5, <2>1, <2>2, <2>3
<1> HIDE DEF s, n, g
<1>9. ~ Lower(Form(p), mean)
  <2>1. ~ ((s + 7 * g) * n < s * (n + g))
    BY <1>5, <1>6, <1>7, SevensWeigh
  <2> QED BY <1>1, <1>8, <2>1 DEF Lower
<1>10. ASSUME Gaps(p) = {} PROVE Level(Form(p), mean)
  <2>1. g = 0
    BY <1>10, FS_EmptySet DEF g
  <2>2. Form(p).sum = s /\ Form(p).count = n
    BY <1>1, <1>5, <1>6, <2>1
  <2>3. s * n \in Int
    BY <1>5, <1>6
  <2> QED BY <1>8, <2>2, <2>3 DEF Level, Lower
<1> QED BY <1>9, <1>10

\* Under the rules the bot goes by, and with no day missed, the form on a row is the
\* player's form.
LEMMA FormOnTheRow ==
  ASSUME TypeOK, opts = DefaultOptions, NEW p \in Players
  PROVE  /\ HasForm(p) => Has(Row(p).form) /\ Row(p).form \in Averages
         /\ HasForm(p) /\ Gaps(p) = {} => Form(p) = Row(p).form
         /\ ~ HasForm(p) => ~ Has(Row(p).form)
<1>0. opts.countXAsSeven /\ ~ opts.hardModeOnly
  BY DEF DefaultOptions
<1>1. Row(p).form = IF HasForm(p) THEN Average(InWindow(p), {}) ELSE [sum |-> 0, count |-> 0]
  BY DEF Row, WindowForm
<1>2. Row(p).form \in Averages
  BY RowIs
<1>3. ASSUME HasForm(p) PROVE Has(Row(p).form)
  <2> DEFINE n == Cardinality(Recently(p))
  <2>1. /\ DOMAIN InWindow(p) = Recently(p) /\ IsFiniteSet(Recently(p))
        /\ Average(InWindow(p), {}).count = n + Cardinality({})
    BY <1>0, WindowIs
  <2>2. Cardinality({}) = 0
    BY FS_EmptySet
  <2>3. n \in Nat /\ n >= MinGames
    BY <1>3, <2>1, FS_CardinalityType DEF HasForm
  <2> HIDE DEF n
  <2>4. Row(p).form.count = n + 0
    BY <1>1, <1>3, <2>1, <2>2
  <2> QED BY <2>3, <2>4, MinGamesIsPositive DEF Has
<1>4. HasForm(p) /\ Gaps(p) = {} => Form(p) = Row(p).form
  BY <1>1 DEF Form
<1>5. ~ HasForm(p) => ~ Has(Row(p).form)
  BY <1>1 DEF Has
<1> QED BY <1>2, <1>3, <1>4, <1>5

\* Who is first of the form table is on form to the bot.
LEMMA FirstOnForm ==
  ASSUME TypeOK, opts = DefaultOptions, \A p \in RankedPlayers : Gaps(p) = {},
         NEW p \in RankedPlayers, FormPlaces(Compute)[p] = 1
  PROVE  p \in OnFormNow(Compute)
<1> DEFINE board == Compute
           formed == {q \in RankedPlayers : HasForm(q)}
           rows == {a \in Range(board.ranked) : Has(a.form)}
           figure == [q \in {a.player : a \in rows} |-> Hundredths((CHOOSE a \in rows : a.player = q).form)]
           lower == {q \in formed : Lower(Form(q), Form(p))}
<1>1. /\ IsFiniteSet(RankedPlayers) /\ RankedPlayers \subseteq Players
      /\ Range(board.ranked) = {Row(q) : q \in RankedPlayers}
      /\ {a.player : a \in Range(board.ranked)} = RankedPlayers
      /\ \A q \in RankedPlayers : Row(q).player = q
  BY RankedIsBoard DEF BoardIsRanked
<1>2. FormPlaces(board)[p] = IF p \notin formed THEN 0 ELSE 1 + Cardinality(lower)
  BY <1>1 DEF FormPlaces
<1>3. p \in formed /\ Cardinality(lower) = 0
  <2>1. IsFiniteSet(lower)
    <3>1. lower \in SUBSET RankedPlayers
      OBVIOUS
    <3> QED BY <1>1, <3>1, FS_Subset
  <2>2. Cardinality(lower) \in Nat
    BY <2>1, FS_CardinalityType
  <2> HIDE DEF formed, lower
  <2> QED BY <1>2, <2>2
<1>4. lower = {}
  <2>1. IsFiniteSet(lower)
    <3>1. lower \in SUBSET RankedPlayers
      OBVIOUS
    <3> QED BY <1>1, <3>1, FS_Subset
  <2> HIDE DEF lower
  <2> QED BY <1>3, <2>1, FS_EmptySet
<1>5. \A q \in RankedPlayers : /\ HasForm(q) <=> Has(Row(q).form)
                               /\ HasForm(q) => Form(q) = Row(q).form /\ Row(q).form \in Averages
  BY <1>1, FormOnTheRow
<1>6. rows = {Row(q) : q \in formed}
  BY <1>1, <1>5
<1>7. {a.player : a \in rows} = formed
  BY <1>1, <1>6
<1>8. \A q \in formed : (CHOOSE a \in rows : a.player = q) = Row(q)
  <2> SUFFICES ASSUME NEW q \in formed PROVE (CHOOSE a \in rows : a.player = q) = Row(q)
    OBVIOUS
  <2> DEFINE c == CHOOSE a \in rows : a.player = q
  <2>1. Row(q) \in rows /\ Row(q).player = q
    BY <1>1, <1>6
  <2> HIDE DEF rows, formed
  <2>2. c \in rows /\ c.player = q
    BY <2>1
  <2> HIDE DEF c
  <2>3. c = Row(q)
    BY <1>1, <1>6, <2>2 DEF formed
  <2> QED BY <2>3 DEF c
<1>9. DOMAIN figure = formed /\ \A q \in formed : figure[q] = Hundredths(Form(q))
  <2>1. DOMAIN figure = formed
    BY <1>7
  <2>2. \A q \in formed : figure[q] = Hundredths((CHOOSE a \in rows : a.player = q).form)
    BY <1>7
  <2>3. \A q \in formed : Form(q) = Row(q).form
    BY <1>5
  <2> HIDE DEF rows, formed, figure
  <2> QED BY <1>8, <2>1, <2>2, <2>3
<1>10. \A q \in formed : figure[p] <= figure[q]
  <2> SUFFICES ASSUME NEW q \in formed PROVE figure[p] <= figure[q]
    OBVIOUS
  <2> DEFINE x == Form(p)
             y == Form(q)
  <2>1. ~ Lower(y, x)
    BY <1>4
  <2>2. Has(x) /\ Has(y) /\ x \in Averages /\ y \in Averages
    BY <1>3, <1>5
  <2>3. x.sum \in Int /\ y.sum \in Int /\ x.count \in Nat \ {0} /\ y.count \in Nat \ {0}
    BY <2>2 DEF Has, Averages
  <2> HIDE DEF x, y
  <2>4. Hundredths(x) <= Hundredths(y)
    BY <2>1, <2>3, HundredthsGrow
  <2> HIDE DEF figure, formed
  <2> QED BY <1>3, <1>9, <2>4 DEF x, y
<1>11. OnFormNow(board) = LeastOf(figure)
  BY DEF OnFormNow
<1> HIDE DEF figure, formed
<1> QED BY <1>3, <1>9, <1>10, <1>11 DEF LeastOf

\* The form table agrees with the strip beside it and with the bot.
LEMMA FormsAgreeState == TypeOK => FormsAgree(Compute)
<1> SUFFICES ASSUME TypeOK PROVE FormsAgree(Compute)
  OBVIOUS
<1>1. DOMAIN RanksOn(Compute) = RankedPlayers /\ RankedPlayers \subseteq Players
      /\ {a.player : a \in Range(Compute.ranked)} = RankedPlayers
  BY RankedIsBoard DEF BoardIsRanked
<1>2. DOMAIN FormPlaces(Compute) = RankedPlayers
  BY <1>1 DEF FormPlaces
<1>3. ASSUME NEW p \in RankedPlayers, HasForm(p), opts.countXAsSeven, ~ opts.hardModeOnly,
             NEW played, played = {z \in DOMAIN Strip(p) : Strip(p)[z] > 0},
             NEW mean, mean = MeanOf([z \in played |-> Strip(p)[z]])
      PROVE  ~ Lower(Form(p), mean) /\ (Gaps(p) = {} => Level(Form(p), mean))
  BY <1>1, <1>3, FormOfStrip
<1>4. ASSUME opts = DefaultOptions, \A p \in RankedPlayers : Gaps(p) = {}, NEW p \in RankedPlayers,
             FormPlaces(Compute)[p] = 1
      PROVE  p \in OnFormNow(Compute)
  BY <1>4, FirstOnForm
<1> QED BY <1>1, <1>2, <1>3, <1>4 DEF FormsAgree

-----------------------------------------------------------------------------
(* The days of the week.                                                   *)

\* The figures told of some days of the week, the known ones, with the means M.
Worst(K, M) == {d \in K : \A e \in K : ~ Lower(M[d], M[e])}
Best(K, M)  == {d \in K : \A e \in K : ~ Lower(M[e], M[d])}
ToldOf(K, M) ==
  IF K = {} \/ Min(Worst(K, M) \cup {7}) = Min(Best(K, M) \cup {7})
  THEN [hardest |-> None, easiest |-> None]
  ELSE [hardest |-> M[Min(Worst(K, M))], easiest |-> M[Min(Best(K, M))]]

AreMeans(K, M) ==
  K \subseteq 0..6 /\ M = [d \in 0..6 |-> M[d]] /\ \A d \in K : M[d].sum \in Nat /\ M[d].count \in Nat \ {0}

\* There is something to tell when two of the known days differ, and it is a day that
\* none is harder than, and one that none is easier than.
LEMMA ToldIs ==
  ASSUME NEW K, NEW M, AreMeans(K, M)
  PROVE  /\ K # {} => Min(Worst(K, M)) \in K /\ Min(Best(K, M)) \in K
         /\ (\A d, e \in K : ~ Lower(M[d], M[e])) => ToldOf(K, M) = [hardest |-> None, easiest |-> None]
         /\ (\E d, e \in K : Lower(M[d], M[e])) =>
              /\ \E d \in K : ToldOf(K, M).hardest = M[d] /\ \A e \in K : ~ Lower(M[d], M[e])
              /\ \E d \in K : ToldOf(K, M).easiest = M[d] /\ \A e \in K : ~ Lower(M[e], M[d])
<1> DEFINE W == Worst(K, M)
           B == Best(K, M)
<1>0. K \subseteq 0..6 /\ \A d \in K : M[d].sum \in Nat /\ M[d].count \in Nat \ {0}
  BY DEF AreMeans
<1>1. IsFiniteSet(K) /\ IsFiniteSet(W) /\ IsFiniteSet(B) /\ IsFiniteSet(W \cup {7}) /\ IsFiniteSet(B \cup {7})
  <2>1. IsFiniteSet(0..6)
    <3>1. 0 \in Int /\ 6 \in Int
      OBVIOUS
    <3> QED BY <3>1, FS_Interval
  <2>2. IsFiniteSet(K)
    BY <1>0, <2>1, FS_Subset
  <2>3. W \in SUBSET K /\ B \in SUBSET K
    BY DEF Worst, Best
  <2>4. IsFiniteSet(W) /\ IsFiniteSet(B)
    BY <2>2, <2>3, FS_Subset
  <2> HIDE DEF W, B
  <2> QED BY <2>2, <2>4, FS_AddElement
<1>2. W \subseteq K /\ B \subseteq K /\ (\A d \in W, e \in K : ~ Lower(M[d], M[e]))
      /\ (\A d \in B, e \in K : ~ Lower(M[e], M[d]))
  BY DEF Worst, Best
<1>3. K # {} => W # {} /\ B # {}
  <2> SUFFICES ASSUME K # {} PROVE W # {} /\ B # {}
    OBVIOUS
  <2> DEFINE S == {M[d] : d \in K}
  <2>1. S # {} /\ \A a \in S : a.sum \in Nat /\ a.sum \in Int /\ a.count \in Nat \ {0}
    <3>1. \A a \in S : a.sum \in Nat /\ a.count \in Nat \ {0}
      BY <1>0
    <3>2. S # {}
      OBVIOUS
    <3> QED BY <3>1, <3>2
  <2>2. IsFiniteSet(S)
    BY <1>1, ImagesFinite
  <2>3. (\E a \in S : \A b \in S : ~ Lower(a, b)) /\ (\E a \in S : \A b \in S : ~ Lower(b, a))
    <3> HIDE DEF S
    <3>1. \E a \in S : \A b \in S : ~ Lower(a, b)
      BY <2>1, <2>2, HighestIs
    <3>2. LowestOf(S) \in S /\ \A b \in S : ~ Lower(b, LowestOf(S))
      BY <2>1, <2>2, LowestIs
    <3> QED BY <3>1, <3>2
  <2> QED BY <2>3 DEF Worst, Best
<1>4. W # {} => Min(W) \in W /\ Min(W \cup {7}) \in W
  <2>0. \A w \in W : w \in 0..6
    BY <1>0, <1>2
  <2> HIDE DEF W
  <2>1. W \subseteq Int /\ W \cup {7} \subseteq Int /\ W \cup {7} # {} /\ \A w \in W : w < 7
    BY <2>0
  <2>2. Min(W \cup {7}) \in W \cup {7} /\ \A w \in W \cup {7} : Min(W \cup {7}) <= w
    BY <1>1, <2>1, MinIs
  <2>3. W # {} => Min(W) \in W
    BY <1>1, <2>1, MinIs
  <2>4. ASSUME NEW w \in W PROVE Min(W \cup {7}) \in W
    <3>1. Min(W \cup {7}) <= w /\ w \in 0..6
      BY <2>0, <2>2
    <3>2. Min(W \cup {7}) # 7
      BY <3>1
    <3> QED BY <2>2, <3>2
  <2> QED BY <2>3, <2>4
<1>5. B # {} => Min(B) \in B /\ Min(B \cup {7}) \in B
  <2>0. \A w \in B : w \in 0..6
    BY <1>0, <1>2
  <2> HIDE DEF B
  <2>1. B \subseteq Int /\ B \cup {7} \subseteq Int /\ B \cup {7} # {} /\ \A w \in B : w < 7
    BY <2>0
  <2>2. Min(B \cup {7}) \in B \cup {7} /\ \A w \in B \cup {7} : Min(B \cup {7}) <= w
    BY <1>1, <2>1, MinIs
  <2>3. B # {} => Min(B) \in B
    BY <1>1, <2>1, MinIs
  <2>4. ASSUME NEW w \in B PROVE Min(B \cup {7}) \in B
    <3>1. Min(B \cup {7}) <= w /\ w \in 0..6
      BY <2>0, <2>2
    <3>2. Min(B \cup {7}) # 7
      BY <3>1
    <3> QED BY <2>2, <3>2
  <2> QED BY <2>3, <2>4
<1>6. ASSUME \A d, e \in K : ~ Lower(M[d], M[e]) PROVE ToldOf(K, M) = [hardest |-> None, easiest |-> None]
  <2>1. Worst(K, M) = K /\ Best(K, M) = K
    BY <1>6 DEF Worst, Best
  <2>2. Min(Worst(K, M) \cup {7}) = Min(Best(K, M) \cup {7})
    BY <2>1
  <2> QED BY <2>2 DEF ToldOf
<1>7. ASSUME NEW d \in K, NEW e \in K, Lower(M[d], M[e])
      PROVE  /\ \E x \in K : ToldOf(K, M).hardest = M[x] /\ \A y \in K : ~ Lower(M[x], M[y])
             /\ \E x \in K : ToldOf(K, M).easiest = M[x] /\ \A y \in K : ~ Lower(M[y], M[x])
  <2>1. W # {} /\ B # {}
    BY <1>3
  <2>2. Min(W \cup {7}) # Min(B \cup {7})
    <3> SUFFICES ASSUME Min(W \cup {7}) = Min(B \cup {7}) PROVE FALSE
      OBVIOUS
    <3> DEFINE k == Min(W \cup {7})
    <3>1. k \in W /\ k \in B /\ k \in K
      BY <1>2, <1>4, <1>5, <2>1
    <3> HIDE DEF k, W, B
    <3> DEFINE a == M[d]
               b == M[k]
               c == M[e]
    <3>2. ~ Lower(b, c) /\ ~ Lower(a, b) /\ Lower(a, c)
      BY <1>2, <1>7, <3>1
    <3>3. /\ a.sum \in Nat /\ b.sum \in Nat /\ c.sum \in Nat
          /\ a.count \in Nat \ {0} /\ b.count \in Nat \ {0} /\ c.count \in Nat \ {0}
      BY <1>0, <3>1
    <3> HIDE DEF a, b, c
    <3>4. ~ Lower(b, c) /\ ~ Lower(a, b) => ~ Lower(a, c)
      BY <3>3, AveragesOrder
    <3> QED BY <3>2, <3>4
  <2>3. ToldOf(K, M) = [hardest |-> M[Min(W)], easiest |-> M[Min(B)]]
    BY <2>2 DEF ToldOf
  <2>4. Min(W) \in W /\ Min(B) \in B
    BY <1>4, <1>5, <2>1
  <2> HIDE DEF W, B
  <2> QED BY <1>2, <2>3, <2>4
<1> QED BY <1>2, <1>3, <1>4, <1>5, <1>6, <1>7

\* The same means in another order are told alike.
LEMMA ToldAlike ==
  ASSUME NEW K, NEW M, AreMeans(K, M), NEW L, NEW N, AreMeans(L, N),
         \A d \in K : \E e \in L : M[d] = N[e], \A e \in L : \E d \in K : M[d] = N[e]
  PROVE  /\ Has(ToldOf(K, M).hardest) = Has(ToldOf(L, N).hardest)
         /\ Has(ToldOf(K, M).easiest) = Has(ToldOf(L, N).easiest)
         /\ Level(ToldOf(K, M).hardest, ToldOf(L, N).hardest)
         /\ Level(ToldOf(K, M).easiest, ToldOf(L, N).easiest)
<1>1. CASE \A d, e \in K : ~ Lower(M[d], M[e])
  <2>1. \A d, e \in L : ~ Lower(N[d], N[e])
    BY <1>1
  <2>2. ToldOf(K, M) = [hardest |-> None, easiest |-> None]
    BY <1>1, ToldIs
  <2>3. ToldOf(L, N) = [hardest |-> None, easiest |-> None]
    BY <2>1, ToldIs
  <2>4. Level(None, None)
    BY DEF Level, Lower, None
  <2> QED BY <2>2, <2>3, <2>4
<1>2. CASE \E d, e \in K : Lower(M[d], M[e])
  <2>1. \E d, e \in L : Lower(N[d], N[e])
    BY <1>2
  <2>2. /\ \E d \in K : ToldOf(K, M).hardest = M[d] /\ \A e \in K : ~ Lower(M[d], M[e])
        /\ \E d \in K : ToldOf(K, M).easiest = M[d] /\ \A e \in K : ~ Lower(M[e], M[d])
    BY <1>2, ToldIs
  <2>3. /\ \E d \in L : ToldOf(L, N).hardest = N[d] /\ \A e \in L : ~ Lower(N[d], N[e])
        /\ \E d \in L : ToldOf(L, N).easiest = N[d] /\ \A e \in L : ~ Lower(N[e], N[d])
    BY <2>1, ToldIs
  <2>4. /\ \A d \in K : M[d].count > 0
        /\ \A d \in L : N[d].count > 0
    BY DEF AreMeans
  <2> QED BY <2>2, <2>3, <2>4 DEF Has, Level
<1> QED BY <1>1, <1>2

\* The means of a player's results on the days of the week, however they are numbered.
LEMMA DaysHaveMeans ==
  ASSUME TypeOK, NEW p \in Players, NEW On, \A d \in 0..6 : On[d] \subseteq DOMAIN history[p],
         NEW K, K = {d \in 0..6 : Cardinality(On[d]) >= 1},
         NEW M, M = [d \in 0..6 |-> [sum |-> Total(history[p], On[d]), count |-> Cardinality(On[d])]]
  PROVE  AreMeans(K, M)
<1>1. IsFiniteSet(DOMAIN history[p]) /\ \A z \in DOMAIN history[p] : history[p][z] \in Result
  BY FewResults DEF TypeOK
<1>2. ASSUME NEW d \in K PROVE M[d].sum \in Nat /\ M[d].count \in Nat \ {0}
  <2> DEFINE S == On[d]
  <2>1. d \in 0..6 /\ Cardinality(S) >= 1 /\ S \in SUBSET DOMAIN history[p]
    OBVIOUS
  <2>2. M[d].sum = Total(history[p], S) /\ M[d].count = Cardinality(S)
    BY <2>1
  <2> HIDE DEF S
  <2>3. IsFiniteSet(S) /\ \A z \in S : history[p][z] \in Result
    BY <1>1, <2>1, FS_Subset
  <2>4. Total(history[p], S) \in Nat /\ Cardinality(S) \in Nat
    BY <2>3, TotalBound, FS_CardinalityType
  <2> QED BY <2>1, <2>2, <2>4
<1> QED BY <1>2 DEF AreMeans

\* The week may begin on a Monday or on a Sunday.
LEMMA WeekdaysShift ==
  ASSUME NEW z \in Int, NEW d \in 0..6
  PROVE  /\ (z - 2) % 7 = d <=> (z - 1) % 7 = (d + 1) % 7
         /\ (z - 1) % 7 = d <=> (z - 2) % 7 = (d + 6) % 7
         /\ (d + 1) % 7 \in 0..6 /\ (d + 6) % 7 \in 0..6
BY Z3

\* The page and the bot agree on the hardest day of the week and the easiest.
LEMMA WeekdaysAgreeState == TypeOK => WeekdaysAgree
<1> SUFFICES ASSUME TypeOK, NobodyAhead, now <= YearWindow, NEW p \in Players
             PROVE  LET page == PageWeekday(p)
                        bot  == BotWeekday(p, 1)
                    IN  /\ Has(page.hardest) = Has(bot.hardest) /\ Has(page.easiest) = Has(bot.easiest)
                        /\ Level(page.hardest, bot.hardest) /\ Level(page.easiest, bot.easiest)
  BY DEF WeekdaysAgree
<1> DEFINE D == DOMAIN history[p]
           OnM == [d \in 0..6 |-> {z \in D : (z - 2) % 7 = d}]
           OnS == [d \in 0..6 |-> {z \in D : (z - 1) % 7 = d}]
           M == [d \in 0..6 |-> [sum |-> Total(history[p], OnM[d]), count |-> Cardinality(OnM[d])]]
           N == [d \in 0..6 |-> [sum |-> Total(history[p], OnS[d]), count |-> Cardinality(OnS[d])]]
           K == {d \in 0..6 : Cardinality(OnM[d]) >= 1}
           L == {d \in 0..6 : Cardinality(OnS[d]) >= 1}
<1>0. now \in Nat /\ YearWindow \in Nat
  BY LastDayIsADay, WindowsAreCounts DEF TypeOK
<1>1. D \subseteq 1..(now + 1) /\ now + 1 \notin D
  BY FewResults DEF NobodyAhead
<1>2. ((now - YearWindow + 1)..now) \cap D = D /\ (1..(now + 1)) \cap D = D
  <2> HIDE DEF D
  <2>1. \A z \in D : z \in Int /\ 1 <= z /\ z <= now
    BY <1>0, <1>1
  <2>2. \A z \in D : z \in (now - YearWindow + 1)..now /\ z \in 1..(now + 1)
    BY <1>0, <2>1
  <2> QED BY <2>2
<1>3. AreMeans(K, M) /\ AreMeans(L, N)
  <2>1. \A d \in 0..6 : OnM[d] \subseteq DOMAIN history[p] /\ OnS[d] \subseteq DOMAIN history[p]
    OBVIOUS
  <2> HIDE DEF OnM, OnS
  <2>2. AreMeans(K, M)
    BY <2>1, DaysHaveMeans
  <2>3. AreMeans(L, N)
    BY <2>1, DaysHaveMeans
  <2> QED BY <2>2, <2>3
<1>4. PageWeekday(p) = ToldOf(K, M)
  <2> DEFINE On(d) == {z \in ((now - YearWindow + 1)..now) \cap D : MondayFirst(z) = d}
             Mean(d) == [sum |-> Total(history[p], On(d)), count |-> Cardinality(On(d))]
             known == {d \in 0..6 : Cardinality(On(d)) >= 1}
             worst == {d \in known : \A e \in known : ~ Lower(Mean(d), Mean(e))}
             best == {d \in known : \A e \in known : ~ Lower(Mean(e), Mean(d))}
  <2>1. PageWeekday(p) =
          IF known = {} \/ Min(worst \cup {7}) = Min(best \cup {7}) THEN [hardest |-> None, easiest |-> None]
          ELSE [hardest |-> Mean(Min(worst)), easiest |-> Mean(Min(best))]
    BY DEF PageWeekday, WeekdayOf
  <2>2. \A d \in 0..6 : On(d) = OnM[d]
    BY <1>2 DEF MondayFirst
  <2>3. known = K
    <3> HIDE DEF On, OnM
    <3> QED BY <2>2
  <2>4. \A d \in K : Mean(d) = M[d]
    <3> HIDE DEF On, OnM
    <3> QED BY <2>2
  <2> HIDE DEF On, OnM, K, M, known, Mean
  <2>5. worst = Worst(K, M) /\ best = Best(K, M)
    BY <2>3, <2>4 DEF Worst, Best
  <2>6. K # {} => Min(worst) \in K /\ Min(best) \in K
    BY <1>3, <2>5, ToldIs
  <2> HIDE DEF worst, best
  <2>7. K # {} => Mean(Min(worst)) = M[Min(worst)] /\ Mean(Min(best)) = M[Min(best)]
    BY <2>4, <2>6
  <2> QED BY <2>1, <2>3, <2>5, <2>7 DEF ToldOf
<1>5. BotWeekday(p, 1) = ToldOf(L, N)
  <2> DEFINE On(d) == {z \in (1..(now + 1)) \cap D : SundayFirst(z) = d}
             Mean(d) == [sum |-> Total(history[p], On(d)), count |-> Cardinality(On(d))]
             known == {d \in 0..6 : Cardinality(On(d)) >= 1}
             worst == {d \in known : \A e \in known : ~ Lower(Mean(d), Mean(e))}
             best == {d \in known : \A e \in known : ~ Lower(Mean(e), Mean(d))}
  <2>1. BotWeekday(p, 1) =
          IF known = {} \/ Min(worst \cup {7}) = Min(best \cup {7}) THEN [hardest |-> None, easiest |-> None]
          ELSE [hardest |-> Mean(Min(worst)), easiest |-> Mean(Min(best))]
    BY DEF BotWeekday, WeekdayOf
  <2>2. \A d \in 0..6 : On(d) = OnS[d]
    BY <1>2 DEF SundayFirst
  <2>3. known = L
    <3> HIDE DEF On, OnS
    <3> QED BY <2>2
  <2>4. \A d \in L : Mean(d) = N[d]
    <3> HIDE DEF On, OnS
    <3> QED BY <2>2
  <2> HIDE DEF On, OnS, L, N, known, Mean
  <2>5. worst = Worst(L, N) /\ best = Best(L, N)
    BY <2>3, <2>4 DEF Worst, Best
  <2>6. L # {} => Min(worst) \in L /\ Min(best) \in L
    BY <1>3, <2>5, ToldIs
  <2> HIDE DEF worst, best
  <2>7. L # {} => Mean(Min(worst)) = N[Min(worst)] /\ Mean(Min(best)) = N[Min(best)]
    BY <2>4, <2>6
  <2> QED BY <2>1, <2>3, <2>5, <2>7 DEF ToldOf
<1>6. \A z \in D : z \in Int
  BY <1>1
<1>7. \A d \in K : (d + 1) % 7 \in L /\ M[d] = N[(d + 1) % 7]
  <2> SUFFICES ASSUME NEW d \in K PROVE (d + 1) % 7 \in L /\ M[d] = N[(d + 1) % 7]
    OBVIOUS
  <2> DEFINE c == (d + 1) % 7
  <2>1. c \in 0..6
    BY WeekdaysShift
  <2>2. OnM[d] = {z \in D : (z - 2) % 7 = d} /\ OnS[c] = {z \in D : (z - 1) % 7 = c}
    BY <2>1
  <2>3. \A z \in D : (z - 2) % 7 = d <=> (z - 1) % 7 = c
    BY <1>6, WeekdaysShift
  <2> HIDE DEF c, OnM, OnS, D
  <2>4. OnM[d] = OnS[c]
    BY <2>2, <2>3
  <2>5. c \in L /\ M[d] = N[c]
    BY <2>1, <2>4
  <2> QED BY <2>5 DEF c
<1>8. \A d \in L : (d + 6) % 7 \in K /\ N[d] = M[(d + 6) % 7]
  <2> SUFFICES ASSUME NEW d \in L PROVE (d + 6) % 7 \in K /\ N[d] = M[(d + 6) % 7]
    OBVIOUS
  <2> DEFINE c == (d + 6) % 7
  <2>1. c \in 0..6
    BY WeekdaysShift
  <2>2. OnS[d] = {z \in D : (z - 1) % 7 = d} /\ OnM[c] = {z \in D : (z - 2) % 7 = c}
    BY <2>1
  <2>3. \A z \in D : (z - 1) % 7 = d <=> (z - 2) % 7 = c
    BY <1>6, WeekdaysShift
  <2> HIDE DEF c, OnM, OnS, D
  <2>4. OnS[d] = OnM[c]
    BY <2>2, <2>3
  <2>5. c \in K /\ N[d] = M[c]
    BY <2>1, <2>4
  <2> QED BY <2>5 DEF c
<1> HIDE DEF K, L, M, N
<1>9. /\ Has(ToldOf(K, M).hardest) = Has(ToldOf(L, N).hardest)
      /\ Has(ToldOf(K, M).easiest) = Has(ToldOf(L, N).easiest)
      /\ Level(ToldOf(K, M).hardest, ToldOf(L, N).hardest)
      /\ Level(ToldOf(K, M).easiest, ToldOf(L, N).easiest)
  <2>1. /\ \A d \in K : \E e \in L : M[d] = N[e]
        /\ \A e \in L : \E d \in K : M[d] = N[e]
    BY <1>7, <1>8
  <2> QED BY <1>3, <2>1, ToldAlike
<1> QED BY <1>4, <1>5, <1>9

-----------------------------------------------------------------------------
(* Rivals.                                                                 *)

\* When nobody is ahead everything that is known is of today or before.
LEMMA NoneAhead ==
  ASSUME TypeOK, NobodyAhead, NEW p \in Players, NEW z \in DOMAIN history[p]
  PROVE  z \in 1..now
<1>1. /\ now \in 1..(LastDay + 1) /\ <<p, z>> \in Slots /\ WithinWindow(z) /\ z # now + 1
  BY DEF TypeOK, NobodyAhead
<1> QED BY <1>1, SlotsArePlayerDays, LastDayIsADay DEF WithinWindow

\* What the bot tells of two players.
LEMMA DuelIs ==
  ASSUME TypeOK, NEW p \in Players, NEW q \in Players, NEW days
  PROVE  /\ Duel(p, q, days).days = Cardinality(Shared(p, q, days))
         /\ Duel(p, q, days).wins = Cardinality(WinsOver(p, q, days))
         /\ Duel(p, q, days).losses = Cardinality(WinsOver(q, p, days))
         /\ Duel(p, q, days).says = "first" =>
              3 * Cardinality(WinsOver(p, q, days)) >= 2 * Cardinality(Shared(p, q, days))
         /\ Duel(p, q, days).says = "second" =>
              3 * Cardinality(WinsOver(q, p, days)) >= 2 * Cardinality(Shared(p, q, days))
         /\ Cardinality(WinsOver(p, q, days)) \in Nat /\ Cardinality(WinsOver(q, p, days)) \in Nat
         /\ Cardinality(Shared(p, q, days)) \in Nat
         /\ Cardinality(WinsOver(p, q, days)) + Cardinality(WinsOver(q, p, days))
              <= Cardinality(Shared(p, q, days))
<1>1. Shared(q, p, days) = Shared(p, q, days)
  BY DEF Shared
<1> DEFINE S == Shared(p, q, days)
           A == WinsOver(p, q, days)
           B == WinsOver(q, p, days)
<1>2. IsFiniteSet(S) /\ IsFiniteSet(A) /\ IsFiniteSet(B)
  BY SharedIsFinite
<1>3. A \in SUBSET S /\ B \in SUBSET S
  BY <1>1 DEF WinsOver
<1>4. A \cap B = {}
  <2>1. ASSUME NEW z \in A \cap B PROVE FALSE
    <3>1. z \in Shared(p, q, days) /\ OnDay(z)[p] < OnDay(z)[q] /\ OnDay(z)[q] < OnDay(z)[p]
      BY <2>1 DEF WinsOver
    <3>2. p \in Filers(z) /\ q \in Filers(z)
      BY <3>1, DayIs DEF Shared
    <3>3. OnDay(z)[p] \in 1..7 /\ OnDay(z)[q] \in 1..7
      BY <3>2, DayIs
    <3> QED BY <3>1, <3>3
  <2> QED BY <2>1
<1>5. /\ Duel(p, q, days).days = Cardinality(S)
      /\ Duel(p, q, days).wins = Cardinality(A)
      /\ Duel(p, q, days).losses = Cardinality(B)
      /\ Duel(p, q, days).says = "first" => 3 * Cardinality(A) >= 2 * Cardinality(S)
      /\ Duel(p, q, days).says = "second" => 3 * Cardinality(B) >= 2 * Cardinality(S)
  <2>1. B = {z \in Shared(p, q, days) : OnDay(z)[q] < OnDay(z)[p]}
    BY <1>1 DEF WinsOver
  <2> QED BY <2>1 DEF Duel, Shared, WinsOver
<1> HIDE DEF S, A, B
<1>6. Cardinality(S) \in Nat /\ Cardinality(A) \in Nat /\ Cardinality(B) \in Nat
  BY <1>2, FS_CardinalityType
<1>7. Cardinality(A) + Cardinality(B) <= Cardinality(S)
  <2>1. IsFiniteSet(A \cup B) /\ A \cup B \in SUBSET S
    BY <1>2, <1>3, FS_Union
  <2>2. Cardinality(A \cap B) = 0
    BY <1>4, FS_EmptySet
  <2>3. Cardinality(A \cup B) = Cardinality(A) + Cardinality(B) - Cardinality(A \cap B)
    BY <1>2, FS_Union
  <2>4. Cardinality(A \cup B) <= Cardinality(S)
    BY <1>2, <2>1, FS_Subset
  <2> QED BY <1>6, <2>2, <2>3, <2>4
<1> QED BY <1>5, <1>6, <1>7 DEF S, A, B

\* The page compares two players over the days the bot does, and finds the same.
LEMMA HeadToHeadIs ==
  ASSUME TypeOK, NobodyAhead, NEW p \in Players, NEW q \in Players
  PROVE  /\ HeadToHead(p, q, history).days = Duel(p, q, 1..now).days
         /\ HeadToHead(p, q, history).wins = Duel(p, q, 1..now).wins
         /\ HeadToHead(p, q, history).losses = Duel(p, q, 1..now).losses
<1> DEFINE shared == DOMAIN history[p] \cap DOMAIN history[q]
           days == 1..now
<1>1. shared = Shared(p, q, days)
  <2>1. \A z : p \in DOMAIN OnDay(z) <=> z \in DOMAIN history[p]
    BY DEF OnDay
  <2>2. \A z : q \in DOMAIN OnDay(z) <=> z \in DOMAIN history[q]
    BY DEF OnDay
  <2>3. \A z \in DOMAIN history[p] : z \in days
    BY NoneAhead
  <2> QED BY <2>1, <2>2, <2>3 DEF Shared
<1>2. \A z \in shared : OnDay(z)[p] = Value(history[p][z]) /\ OnDay(z)[q] = Value(history[q][z])
  BY DEF OnDay
<1>3. {z \in shared : Value(history[p][z]) < Value(history[q][z])} = WinsOver(p, q, days)
  BY <1>1, <1>2 DEF WinsOver
<1>4. {z \in shared : Value(history[q][z]) < Value(history[p][z])} = WinsOver(q, p, days)
  <2>1. Shared(q, p, days) = shared
    BY <1>1 DEF Shared
  <2> QED BY <2>1, <1>2 DEF WinsOver
<1> DEFINE won  == {z \in shared : Value(history[p][z]) < Value(history[q][z])}
           lost == {z \in shared : Value(history[q][z]) < Value(history[p][z])}
           lead == IF MapThenSumSet(LAMBDA z : Value(history[p][z]) - Value(history[q][z]), shared) > 0
                   THEN q ELSE p
<1>5. HeadToHead(p, q, history) =
        [days |-> Cardinality(shared), wins |-> Cardinality(won), losses |-> Cardinality(lost), lead |-> lead]
  BY Zenon DEF HeadToHead
<1>6. /\ HeadToHead(p, q, history).days = Cardinality(shared)
      /\ HeadToHead(p, q, history).wins = Cardinality(won)
      /\ HeadToHead(p, q, history).losses = Cardinality(lost)
  <2> HIDE DEF shared, won, lost, lead
  <2> QED BY <1>5
<1>7. won = WinsOver(p, q, days) /\ lost = WinsOver(q, p, days)
  BY <1>3, <1>4
<1>8. /\ Duel(p, q, days).days = Cardinality(Shared(p, q, days))
      /\ Duel(p, q, days).wins = Cardinality(WinsOver(p, q, days))
      /\ Duel(p, q, days).losses = Cardinality(WinsOver(q, p, days))
  <2> HIDE DEF days
  <2> QED BY DuelIs
<1> HIDE DEF won, lost, shared
<1> QED BY <1>1, <1>6, <1>7, <1>8

\* A player's rivals, and how the last year went between them.
Won(p, q) == Cardinality(WinsOver(p, q, (now - YearWindow + 1)..now))

\* The rivals have the wins and the losses the bot counts in the same year.
LEMMA RivalsAre ==
  ASSUME TypeOK, NobodyAhead, NEW p \in Players, NEW board
  PROVE  LET rivals == Rivals(p, board)
         IN  /\ DOMAIN rivals \subseteq Players /\ p \notin DOMAIN rivals
             /\ \A q \in DOMAIN rivals :
                  /\ rivals[q] = [won |-> Won(p, q), lost |-> Won(q, p)]
                  /\ Won(p, q) \in Nat /\ Won(q, p) \in Nat /\ Won(p, q) + Won(q, p) > 0
<1> DEFINE year == (now - YearWindow + 1)..now
           Year(q) == {z \in DOMAIN history[q] : z > now - YearWindow}
           Beaten(a, b) == {z \in Year(a) \cap Year(b) : Value(history[a][z]) < Value(history[b][z])}
<1>1. \A a, b \in Players : Beaten(a, b) = WinsOver(a, b, year)
  <2> SUFFICES ASSUME NEW a \in Players, NEW b \in Players PROVE Beaten(a, b) = WinsOver(a, b, year)
    OBVIOUS
  <2>1. \A z : /\ a \in DOMAIN OnDay(z) <=> z \in DOMAIN history[a]
               /\ b \in DOMAIN OnDay(z) <=> z \in DOMAIN history[b]
               /\ a \in DOMAIN OnDay(z) => OnDay(z)[a] = Value(history[a][z])
               /\ b \in DOMAIN OnDay(z) => OnDay(z)[b] = Value(history[b][z])
    BY DEF OnDay
  <2>2. \A z \in DOMAIN history[a] : z > now - YearWindow <=> z \in year
    <3>1. now \in Int /\ YearWindow \in Nat
      BY WindowsAreCounts DEF TypeOK
    <3>2. \A z \in DOMAIN history[a] : z \in 1..now
      BY NoneAhead
    <3> QED BY <3>1, <3>2
  <2>3. Year(a) \cap Year(b) = Shared(a, b, year)
    <3>1. \A z \in DOMAIN history[b] : z > now - YearWindow <=> z \in year
      <4>1. now \in Int /\ YearWindow \in Nat
        BY WindowsAreCounts DEF TypeOK
      <4>2. \A z \in DOMAIN history[b] : z \in 1..now
        BY NoneAhead
      <4> QED BY <4>1, <4>2
    <3> HIDE DEF year
    <3> QED BY <2>1, <2>2, <3>1 DEF Shared
  <2>4. \A z \in Shared(a, b, year) : OnDay(z)[a] = Value(history[a][z]) /\ OnDay(z)[b] = Value(history[b][z])
    BY <2>1 DEF Shared
  <2> HIDE DEF year, Year
  <2> QED BY <2>3, <2>4 DEF WinsOver
<1>2. Active \subseteq Players
  BY ActiveArePlayers
<1> DEFINE rivals == Rivals(p, board)
           D == {q \in Active \ {p} : HasPage(q, board)
                   /\ Cardinality(Beaten(p, q)) + Cardinality(Beaten(q, p)) > 0}
<1>3. rivals = [q \in D |-> [won |-> Cardinality(Beaten(p, q)), lost |-> Cardinality(Beaten(q, p))]]
  BY DEF Rivals
<1>4. \A a, b \in Players : Cardinality(Beaten(a, b)) = Won(a, b)
  <2> HIDE DEF Beaten, year
  <2> SUFFICES ASSUME NEW a \in Players, NEW b \in Players PROVE Cardinality(Beaten(a, b)) = Won(a, b)
    OBVIOUS
  <2>1. Beaten(a, b) = WinsOver(a, b, year)
    BY <1>1
  <2> QED BY <2>1 DEF Won, year
<1>5. \A a, b \in Players : Won(a, b) \in Nat
  BY SharedIsFinite DEF Won
<1>6. D \subseteq Players /\ p \notin D
  BY <1>2
<1>7. \A q \in D : Cardinality(Beaten(p, q)) + Cardinality(Beaten(q, p)) > 0
  OBVIOUS
<1> HIDE DEF Beaten, D, rivals
<1>8. DOMAIN rivals = D /\ \A q \in D : rivals[q] = [won |-> Won(p, q), lost |-> Won(q, p)]
  BY <1>3, <1>4, <1>6
<1> QED BY <1>4, <1>5, <1>6, <1>7, <1>8 DEF rivals

\* A rival before another: beaten less of the time, ties by slug.
WorseOf(rivals, a, b) ==
  \/ rivals[a].won * rivals[b].lost < rivals[b].won * rivals[a].lost
  \/ rivals[a].won * rivals[b].lost = rivals[b].won * rivals[a].lost /\ a < b

\* It is an order: the shares won compare as averages do.
LEMMA WorseOrders ==
  ASSUME NEW rivals, DOMAIN rivals \subseteq Int,
         \A q \in DOMAIN rivals : /\ rivals[q].won \in Nat /\ rivals[q].lost \in Nat
                                  /\ rivals[q].won + rivals[q].lost > 0
  PROVE  /\ \A a \in DOMAIN rivals : ~ WorseOf(rivals, a, a)
         /\ \A a, b \in DOMAIN rivals : a # b => WorseOf(rivals, a, b) \/ WorseOf(rivals, b, a)
         /\ \A a, b, c \in DOMAIN rivals :
              WorseOf(rivals, a, b) /\ WorseOf(rivals, b, c) => WorseOf(rivals, a, c)
<1> DEFINE ShareOf(q) == [sum |-> rivals[q].won, count |-> rivals[q].won + rivals[q].lost]
<1>1. \A q \in DOMAIN rivals : ShareOf(q).sum \in Nat /\ ShareOf(q).count \in Nat \ {0}
  OBVIOUS
<1>2. \A a, b \in DOMAIN rivals :
        /\ WorseOf(rivals, a, b) <=> \/ Lower(ShareOf(a), ShareOf(b))
                                     \/ ~ Lower(ShareOf(b), ShareOf(a)) /\ a < b
        /\ WorseOf(rivals, a, b) \/ WorseOf(rivals, b, a) \/ a = b
        /\ a \in Int
  <2> SUFFICES ASSUME NEW a \in DOMAIN rivals, NEW b \in DOMAIN rivals
               PROVE  /\ WorseOf(rivals, a, b) <=> \/ Lower(ShareOf(a), ShareOf(b))
                                                   \/ ~ Lower(ShareOf(b), ShareOf(a)) /\ a < b
                      /\ WorseOf(rivals, a, b) \/ WorseOf(rivals, b, a) \/ a = b
                      /\ a \in Int
    OBVIOUS
  <2> DEFINE w == rivals[a].won
             l == rivals[a].lost
             x == rivals[b].won
             y == rivals[b].lost
  <2>1. w \in Nat /\ l \in Nat /\ x \in Nat /\ y \in Nat /\ a \in Int /\ b \in Int
    OBVIOUS
  <2>2. WorseOf(rivals, a, b) <=> w * y < x * l \/ (w * y = x * l /\ a < b)
    BY DEF WorseOf
  <2>3. WorseOf(rivals, b, a) <=> x * l < w * y \/ (x * l = w * y /\ b < a)
    BY DEF WorseOf
  <2>4. /\ Lower(ShareOf(a), ShareOf(b)) <=> w * (x + y) < x * (w + l)
        /\ Lower(ShareOf(b), ShareOf(a)) <=> x * (w + l) < w * (x + y)
    BY DEF Lower
  <2> HIDE DEF w, l, x, y
  <2>5. w * y \in Int /\ x * l \in Int /\ w * x \in Int /\ w * (x + y) = w * x + w * y /\ x * (w + l) = w * x + x * l
    BY <2>1, SMTT(30)
  <2> HIDE DEF ShareOf
  <2> QED BY <2>1, <2>2, <2>3, <2>4, <2>5
<1>3. ASSUME NEW a \in DOMAIN rivals, NEW b \in DOMAIN rivals, NEW c \in DOMAIN rivals,
             WorseOf(rivals, a, b), WorseOf(rivals, b, c)
      PROVE  WorseOf(rivals, a, c)
  <2> DEFINE x == ShareOf(a)
             y == ShareOf(b)
             z == ShareOf(c)
  <2>1. /\ Lower(x, y) \/ (~ Lower(y, x) /\ a < b)
        /\ Lower(y, z) \/ (~ Lower(z, y) /\ b < c)
        /\ (Lower(x, z) \/ (~ Lower(z, x) /\ a < c)) => WorseOf(rivals, a, c)
        /\ a \in Int /\ b \in Int /\ c \in Int
    <3> HIDE DEF ShareOf
    <3> QED BY <1>2, <1>3
  <2>2. /\ x.sum \in Nat /\ y.sum \in Nat /\ z.sum \in Nat
        /\ x.count \in Nat \ {0} /\ y.count \in Nat \ {0} /\ z.count \in Nat \ {0}
    BY <1>1
  <2> HIDE DEF x, y, z
  <2>3. /\ Lower(x, y) => ~ Lower(y, x)
        /\ Lower(y, z) => ~ Lower(z, y)
        /\ ~ Lower(y, x) /\ ~ Lower(z, y) => ~ Lower(z, x)
        /\ Lower(x, y) /\ ~ Lower(z, y) => Lower(x, z)
        /\ ~ Lower(y, x) /\ Lower(y, z) => Lower(x, z)
    BY <2>2, AveragesOrder
  <2> QED BY <2>1, <2>3
<1>4. ASSUME NEW a \in DOMAIN rivals PROVE ~ WorseOf(rivals, a, a)
  <2> DEFINE x == ShareOf(a)
  <2>1. WorseOf(rivals, a, a) <=> Lower(x, x) \/ (~ Lower(x, x) /\ a < a)
    <3> HIDE DEF ShareOf
    <3> QED BY <1>2
  <2>2. x.sum \in Nat /\ x.count \in Nat \ {0} /\ a \in Int
    BY <1>1
  <2> HIDE DEF x
  <2>3. ~ Lower(x, x)
    BY <2>2, AveragesOrder
  <2> QED BY <2>1, <2>2, <2>3
<1> HIDE DEF ShareOf
<1> QED BY <1>2, <1>3, <1>4

\* A nemesis is a rival the player has beaten no more of the time than the favourite.
LEMMA NemesisIs ==
  ASSUME TypeOK, NobodyAhead, NEW p \in Players, NEW board, Nemesis(p, board) # <<>>
  PROVE  /\ Nemesis(p, board)[1] \in DOMAIN Rivals(p, board)
         /\ Nemesis(p, board)[2] \in DOMAIN Rivals(p, board)
         /\ WorseOf(Rivals(p, board), Nemesis(p, board)[1], Nemesis(p, board)[2])
<1> DEFINE rivals == Rivals(p, board)
           S == DOMAIN rivals
           n == Cardinality(S)
           R == {ab \in S \X S : WorseOf(rivals, ab[1], ab[2])}
           order == Sorting(S, R)
           found == CHOOSE s \in [1..Cardinality(S) -> S] :
                      \A i, j \in DOMAIN s : i < j => WorseOf(rivals, s[i], s[j])
<1>1. /\ S \subseteq Players /\ S \subseteq Int
      /\ \A q \in S : rivals[q].won \in Nat /\ rivals[q].lost \in Nat /\ rivals[q].won + rivals[q].lost > 0
  <2>1. /\ S \subseteq Players
        /\ \A q \in S : /\ rivals[q] = [won |-> Won(p, q), lost |-> Won(q, p)]
                        /\ Won(p, q) \in Nat /\ Won(q, p) \in Nat /\ Won(p, q) + Won(q, p) > 0
    BY RivalsAre
  <2> HIDE DEF rivals
  <2> QED BY <2>1, PlayersAreNumbered
<1>2. IsFiniteSet(S)
  <2>1. S \in SUBSET Players /\ IsFiniteSet(Players)
    BY <1>1, PlayersAreNumbered
  <2> HIDE DEF S
  <2> QED BY <2>1, FS_Subset
<1>3. Nemesis(p, board) =
        IF Len(found) < 2 THEN <<>> ELSE <<found[1], found[Len(found)]>>
  BY DEF Nemesis, InOrder, WorseOf
<1>4. \A a, b \in S : <<a, b>> \in R <=> WorseOf(rivals, a, b)
  OBVIOUS
<1> HIDE DEF rivals
<1>5. /\ \A a \in S : ~ WorseOf(rivals, a, a)
      /\ \A a, b \in S : a # b => WorseOf(rivals, a, b) \/ WorseOf(rivals, b, a)
      /\ \A a, b, c \in S : WorseOf(rivals, a, b) /\ WorseOf(rivals, b, c) => WorseOf(rivals, a, c)
  BY <1>1, WorseOrders
<1> HIDE DEF R, S
<1>6. order = found
  <2>1. \A s \in [1..n -> S] : (\A i, j \in DOMAIN s : i < j => WorseOf(rivals, s[i], s[j]))
                                 <=> (\A i, j \in 1..n : i < j => <<s[i], s[j]>> \in R)
    BY <1>4
  <2> QED BY <2>1 DEF Sorting
<1>7. /\ \A x \in S : <<x, x>> \notin R
      /\ \A x, y \in S : x # y => <<x, y>> \in R \/ <<y, x>> \in R
      /\ \A x, y, z \in S : <<x, y>> \in R /\ <<y, z>> \in R => <<x, z>> \in R
  BY <1>4, <1>5
<1>8. /\ n \in Nat /\ order \in [1..n -> S]
      /\ \A i, j \in 1..n : i < j => <<order[i], order[j]>> \in R
  <2> HIDE DEF n, order
  <2> QED BY <1>2, <1>7, SortsInto DEF n, order
<1> HIDE DEF order, n, found
<1>9. Len(order) = n
  <2>1. order \in Seq(S) /\ DOMAIN order = 1..n
    BY <1>8
  <2> QED BY <1>8, <2>1
<1>10. n >= 2 /\ Nemesis(p, board) = <<order[1], order[n]>>
  BY <1>3, <1>6, <1>8, <1>9
<1>11. 1 \in 1..n /\ n \in 1..n /\ 1 < n
  BY <1>8, <1>10
<1>12. order[1] \in S /\ order[n] \in S /\ <<order[1], order[n]>> \in R
  BY <1>8, <1>11
<1>13. WorseOf(rivals, order[1], order[n])
  BY <1>4, <1>12
<1> QED BY <1>10, <1>12, <1>13 DEF S, rivals

\* Who owns a nemesis is owned by no favourite.
LEMMA SharesMeet ==
  ASSUME NEW w \in Nat, NEW l \in Nat, NEW x \in Nat, NEW y \in Nat, NEW d \in Nat, NEW e \in Nat,
         w + l > 0, x + y > 0, w + l <= d, x + y <= e,
         3 * w >= 2 * d, 3 * y >= 2 * e
  PROVE  ~ (w * y <= x * l)
<1>1. w >= 2 * l /\ y >= 2 * x /\ w >= 1 /\ y >= 1
  OBVIOUS
<1>2. w * y >= (2 * l) * y /\ (2 * l) * y >= (2 * l) * (2 * x) /\ w * y >= 1
  <2>1. /\ w * y \in Int /\ (2 * l) * y \in Int /\ (2 * l) * (2 * x) \in Int
    OBVIOUS
  <2>2. w * y >= (2 * l) * y
    <3> DEFINE k == 2 * l
    <3>1. k \in Int /\ w >= k
      BY <1>1
    <3> HIDE DEF k
    <3>2. \A a, b \in Int : a >= b => a * y >= b * y
      BY SMTT(30)
    <3>3. w * y >= k * y
      BY <3>1, <3>2
    <3> QED BY <3>3 DEF k
  <2>3. (2 * l) * y >= (2 * l) * (2 * x)
    <3> DEFINE k == 2 * l
               m == 2 * x
    <3>1. k \in Nat /\ m \in Int /\ y >= m
      BY <1>1
    <3> HIDE DEF k, m
    <3>2. k * y >= k * m
      BY <3>1, SMTT(30)
    <3> QED BY <3>2 DEF k, m
  <2>4. w * y >= 1
    BY <1>1, SMTT(30)
  <2> QED BY <2>2, <2>3, <2>4
<1>3. (2 * l) * (2 * x) = 4 * (x * l) /\ x * l \in Nat
  BY SMTT(30)
<1> DEFINE a == w * y
           b == x * l
           c == (2 * l) * y
<1>4. a \in Int /\ b \in Nat /\ c \in Int /\ a >= c /\ c >= 4 * b /\ a >= 1
  BY <1>2, <1>3
<1> HIDE DEF a, b, c
<1>5. ~ (a <= b)
  BY <1>4
<1> QED BY <1>5 DEF a, b

\* The page and the bot agree on any two players.
LEMMA RivalsAgreeState == TypeOK => RivalsAgree(Compute)
<1> DEFINE year == (now - YearWindow + 1)..now
           board == Compute
<1> HIDE DEF board
<1> SUFFICES ASSUME TypeOK PROVE RivalsAgree(board)
  BY DEF board
<1>1. ASSUME NobodyAhead, NEW p \in Players, NEW q \in Players
      PROVE  \E h \in {HeadToHead(p, q, history)}, duel \in {Duel(p, q, 1..now)} :
               h.days = duel.days /\ h.wins = duel.wins /\ h.losses = duel.losses
  BY <1>1, HeadToHeadIs
<1>2. ASSUME NobodyAhead, NEW p \in Players, NEW q \in DOMAIN Rivals(p, board)
      PROVE  Rivals(p, board)[q] = [won |-> Duel(p, q, year).wins, lost |-> Duel(p, q, year).losses]
  <2>1. /\ q \in Players
        /\ Rivals(p, board)[q] = [won |-> Won(p, q), lost |-> Won(q, p)]
    BY <1>2, RivalsAre
  <2>2. /\ Duel(p, q, year).wins = Cardinality(WinsOver(p, q, year))
        /\ Duel(p, q, year).losses = Cardinality(WinsOver(q, p, year))
    <3> HIDE DEF year
    <3> QED BY <2>1, DuelIs
  <2> QED BY <2>1, <2>2 DEF Won
<1>3. ASSUME NobodyAhead, NEW p \in Players, Nemesis(p, board) # <<>>,
             Duel(p, Nemesis(p, board)[1], year).says = "first",
             Duel(p, Nemesis(p, board)[2], year).says = "second"
      PROVE  FALSE
  <2> DEFINE a == Nemesis(p, board)[1]
             b == Nemesis(p, board)[2]
             rivals == Rivals(p, board)
  <2>1. a \in DOMAIN rivals /\ b \in DOMAIN rivals /\ WorseOf(rivals, a, b)
    BY <1>3, NemesisIs
  <2>2. Duel(p, a, year).says = "first" /\ Duel(p, b, year).says = "second"
    BY <1>3
  <2>3. /\ a \in Players /\ b \in Players
        /\ rivals[a] = [won |-> Won(p, a), lost |-> Won(a, p)] /\ Won(p, a) + Won(a, p) > 0
        /\ rivals[b] = [won |-> Won(p, b), lost |-> Won(b, p)] /\ Won(p, b) + Won(b, p) > 0
    <3> HIDE DEF a, b
    <3> QED BY <1>3, <2>1, RivalsAre
  <2> HIDE DEF a, b, rivals, year
  <2> DEFINE w == Cardinality(WinsOver(p, a, year))
             l == Cardinality(WinsOver(a, p, year))
             x == Cardinality(WinsOver(p, b, year))
             y == Cardinality(WinsOver(b, p, year))
             d == Cardinality(Shared(p, a, year))
             e == Cardinality(Shared(p, b, year))
  <2>4. w \in Nat /\ l \in Nat /\ d \in Nat /\ w + l <= d /\ 3 * w >= 2 * d
    BY <2>2, <2>3, DuelIs
  <2>5. x \in Nat /\ y \in Nat /\ e \in Nat /\ x + y <= e /\ 3 * y >= 2 * e
    BY <2>2, <2>3, DuelIs
  <2>6. Won(p, a) = w /\ Won(a, p) = l /\ Won(p, b) = x /\ Won(b, p) = y
    BY DEF Won, year
  <2> HIDE DEF w, l, x, y, d, e
  <2>7. w + l > 0 /\ x + y > 0
    BY <2>3, <2>6
  <2>8. ~ (w * y <= x * l)
    BY <2>4, <2>5, <2>7, SharesMeet
  <2>9. w * y < x * l \/ w * y = x * l
    BY <2>1, <2>3, <2>6 DEF WorseOf
  <2>10. w * y \in Int /\ x * l \in Int
    BY <2>4, <2>5
  <2> QED BY <2>8, <2>9, <2>10
<1> HIDE DEF year
<1> QED BY <1>1, <1>2, <1>3 DEF RivalsAgree, year

-----------------------------------------------------------------------------
(* The orderings of the board.                                             *)

\* There is one way to put a set in order.
LEMMA SortedOnce ==
  ASSUME NEW S, IsFiniteSet(S), NEW R,
         \A x \in S : <<x, x>> \notin R,
         \A x, y, z \in S : <<x, y>> \in R /\ <<y, z>> \in R => <<x, z>> \in R,
         NEW f \in [1..Cardinality(S) -> S], \A i, j \in 1..Cardinality(S) : i < j => <<f[i], f[j]>> \in R,
         NEW g \in [1..Cardinality(S) -> S], \A i, j \in 1..Cardinality(S) : i < j => <<g[i], g[j]>> \in R
  PROVE  f = g
<1> DEFINE n == Cardinality(S)
           apart == {k \in 1..n : f[k] # g[k]}
<1>1. n \in Nat
  BY FS_CardinalityType
<1>2. Range(f) = S /\ Range(g) = S
  BY OrderedHasAll
<1>0. ASSUME apart = {} PROVE f = g
  <2>1. f \in [1..n -> S] /\ g \in [1..n -> S]
    OBVIOUS
  <2>2. \A k \in 1..n : f[k] = g[k]
    BY <1>0
  <2> DEFINE D == 1..n
  <2>3. f = [k \in D |-> f[k]] /\ g = [k \in D |-> g[k]] /\ \A k \in D : f[k] = g[k]
    BY <2>1, <2>2
  <2> HIDE DEF D
  <2> QED BY <2>3
<1> SUFFICES ASSUME apart # {} PROVE FALSE
  BY <1>0
<1>3. IsFiniteSet(apart) /\ apart \subseteq Int
  <2>1. IsFiniteSet(1..n)
    BY <1>1, FS_Interval
  <2>2. apart \in SUBSET (1..n)
    OBVIOUS
  <2> HIDE DEF apart, n
  <2>3. IsFiniteSet(apart)
    BY <2>1, <2>2, FS_Subset
  <2> QED BY <2>2, <2>3
<1> PICK k \in apart : \A z \in apart : k <= z
  <2> HIDE DEF apart
  <2> QED BY <1>3, MinIs
<1>4. k \in 1..n /\ f[k] # g[k] /\ \A z \in 1..n : z < k => f[z] = g[z]
  BY <1>1
<1>5. PICK i \in 1..n : g[i] = f[k]
  BY <1>2, <1>4 DEF Range
<1>6. PICK j \in 1..n : f[j] = g[k]
  BY <1>2, <1>4 DEF Range
<1> HIDE DEF n
<1>7. \A a, b \in 1..n : (a < b => <<f[a], f[b]>> \in R) /\ (a < b => <<g[a], g[b]>> \in R)
  BY DEF n
<1>8. f \in [1..n -> S] /\ g \in [1..n -> S]
  BY DEF n
<1>9. ~ (i < k)
  <2>1. ASSUME i < k PROVE FALSE
    <3>1. f[i] = f[k] /\ <<f[i], f[k]>> \in R
      BY <1>4, <1>5, <1>7, <2>1
    <3> QED BY <1>4, <1>8, <3>1
  <2> QED BY <2>1
<1>10. ~ (j < k)
  <2>1. ASSUME j < k PROVE FALSE
    <3>1. g[j] = g[k] /\ <<g[j], g[k]>> \in R
      BY <1>4, <1>6, <1>7, <2>1
    <3> QED BY <1>4, <1>8, <3>1
  <2> QED BY <2>1
<1>11. k < i /\ k < j
  BY <1>1, <1>4, <1>5, <1>6, <1>9, <1>10
<1>12. <<g[k], f[k]>> \in R /\ <<f[k], g[k]>> \in R
  BY <1>4, <1>5, <1>6, <1>7, <1>11
<1> QED BY <1>4, <1>8, <1>12

\* What stands at the end of an order is the same in another that has it at the end.
LEMMA EndsAreSame ==
  ASSUME NEW S, IsFiniteSet(S), NEW G \in SUBSET S,
         NEW f \in [1..Cardinality(S) -> S], Range(f) = S,
         \A i, j \in 1..Cardinality(S) : f[i] = f[j] => i = j,
         \A i, j \in 1..Cardinality(S) : f[i] \in G /\ i < j => f[j] \in G,
         NEW g \in [1..Cardinality(S) -> S], Range(g) = S,
         \A i, j \in 1..Cardinality(S) : g[i] = g[j] => i = j,
         \A i, j \in 1..Cardinality(S) : g[i] \in G /\ i < j => g[j] \in G
  PROVE  {i \in 1..Cardinality(S) : f[i] \in G} = {i \in 1..Cardinality(S) : g[i] \in G}
<1> DEFINE n == Cardinality(S)
           At(h) == {i \in 1..n : h[i] \in G}
<1>1. n \in Nat
  BY FS_CardinalityType
<1>2. ASSUME NEW h \in [1..n -> S], Range(h) = S, \A i, j \in 1..n : h[i] = h[j] => i = j
      PROVE  /\ At(h) \in SUBSET (1..n) /\ IsFiniteSet(At(h))
             /\ Cardinality(At(h)) = Cardinality(G)
  <2>1. At(h) \in SUBSET (1..n)
    OBVIOUS
  <2>2. IsFiniteSet(1..n)
    BY <1>1, FS_Interval
  <2>3. IsFiniteSet(At(h))
    <3> HIDE DEF At, n
    <3> QED BY <2>1, <2>2, FS_Subset
  <2> DEFINE b == [i \in At(h) |-> h[i]]
  <2>4. b \in [At(h) -> G] /\ \A i \in At(h) : b[i] = h[i]
    OBVIOUS
  <2>5. \A i, j \in At(h) : b[i] = b[j] => i = j
    BY <1>2
  <2>6. \A x \in G : \E i \in At(h) : b[i] = x
    BY <1>2 DEF Range
  <2> HIDE DEF b, At
  <2>7. b \in Surjection(At(h), G)
    BY <2>4, <2>6 DEF Surjection
  <2>8. b \in Injection(At(h), G)
    BY <2>4, <2>5 DEF Injection, IsInjective
  <2>9. Cardinality(G) = Cardinality(At(h))
    BY <2>3, <2>7, <2>8, FS_Surjection
  <2> QED BY <2>1, <2>3, <2>9
<1> DEFINE A == At(f)
           B == At(g)
<1>3. /\ A \in SUBSET (1..n) /\ IsFiniteSet(A) /\ Cardinality(A) = Cardinality(G)
      /\ B \in SUBSET (1..n) /\ IsFiniteSet(B) /\ Cardinality(B) = Cardinality(G)
  <2> HIDE DEF At
  <2> QED BY <1>2
<1>4. /\ \A i, j \in 1..n : i \in A /\ i < j => j \in A
      /\ \A i, j \in 1..n : i \in B /\ i < j => j \in B
  OBVIOUS
<1> HIDE DEF A, B, n
<1>5. A \in SUBSET B \/ B \in SUBSET A
  <2>1. ASSUME NEW x \in A, x \notin B, NEW y \in B, y \notin A PROVE FALSE
    <3>1. x \in 1..n /\ y \in 1..n
      BY <1>3
    <3>2. ~ (x < y) /\ ~ (y < x)
      BY <1>4, <2>1, <3>1
    <3> QED BY <1>1, <2>1, <3>1, <3>2
  <2> QED BY <2>1
<1>6. A = B
  <2>1. CASE A \in SUBSET B
    BY <1>3, <2>1, FS_Subset
  <2>2. CASE B \in SUBSET A
    BY <1>3, <2>2, FS_Subset
  <2> QED BY <1>5, <2>1, <2>2
<1> QED BY <1>6 DEF A, B, n

\* An ordering of a column, from less to more or the other way: L is who has less of
\* it than whom, G who has none.
ColumnOrder(S, G, L, desc) ==
  {ab \in S \X S :
     IF ~ (ab[1] \in G <=> ab[2] \in G) THEN ab[2] \in G
     ELSE IF <<ab[1], ab[2]>> \notin L /\ <<ab[2], ab[1]>> \notin L THEN ab[1].player < ab[2].player
     ELSE IF desc THEN <<ab[2], ab[1]>> \in L ELSE <<ab[1], ab[2]>> \in L}

\* Such an ordering is an order that no two rows share a place in.
LEMMA ColumnsOrder ==
  ASSUME NEW S, NEW G, NEW L, NEW desc \in BOOLEAN,
         \A a \in S : a.player \in Int,
         \A a, b \in S : a.player = b.player => a = b,
         \A a, b \in S : <<a, b>> \in L => <<b, a>> \notin L,
         \A a, b \in S : <<a, b>> \in L => a \notin G /\ b \notin G,
         \A a, b, c \in S : a \notin G /\ b \notin G /\ c \notin G /\ <<a, b>> \notin L /\ <<b, c>> \notin L
                              => <<a, c>> \notin L
  PROVE  LET R == ColumnOrder(S, G, L, desc)
         IN  /\ \A x \in S : <<x, x>> \notin R
             /\ \A x, y \in S : x # y => <<x, y>> \in R \/ <<y, x>> \in R
             /\ \A x, y, z \in S : <<x, y>> \in R /\ <<y, z>> \in R => <<x, z>> \in R
<1> DEFINE R == ColumnOrder(S, G, L, desc)
<1>1. \A a, b \in S : <<a, b>> \in R <=>
        IF ~ (a \in G <=> b \in G) THEN b \in G
        ELSE IF <<a, b>> \notin L /\ <<b, a>> \notin L THEN a.player < b.player
        ELSE IF desc THEN <<b, a>> \in L ELSE <<a, b>> \in L
  BY DEF ColumnOrder
<1> HIDE DEF R
<1>2. \A x \in S : <<x, x>> \notin R
  BY <1>1
<1>3. ASSUME NEW x \in S, NEW y \in S, x # y PROVE <<x, y>> \in R \/ <<y, x>> \in R
  <2>1. x.player \in Int /\ y.player \in Int /\ x.player # y.player
    BY <1>3
  <2> QED BY <1>1, <2>1
<1>4. ASSUME NEW x \in S, NEW y \in S, NEW z \in S, <<x, y>> \in R, <<y, z>> \in R
      PROVE  <<x, z>> \in R
  <2>1. x.player \in Int /\ y.player \in Int /\ z.player \in Int
    OBVIOUS
  <2>2. CASE x \in G
    <3>1. y \in G
      BY <1>1, <1>4, <2>2
    <3>2. z \in G
      BY <1>1, <1>4, <3>1
    <3>3. x.player < y.player /\ y.player < z.player
      BY <1>1, <1>4, <2>2, <3>1, <3>2
    <3>4. x.player < z.player
      BY <2>1, <3>3
    <3> QED BY <1>1, <2>2, <3>2, <3>4
  <2>3. CASE x \notin G /\ z \in G
    BY <1>1, <2>3
  <2>4. CASE x \notin G /\ z \notin G
    <3>1. y \notin G
      BY <1>1, <1>4, <2>4
    <3> DEFINE M(a, b) == IF desc THEN <<b, a>> \in L ELSE <<a, b>> \in L
    <3>2. /\ M(x, y) \/ (~ M(x, y) /\ ~ M(y, x) /\ x.player < y.player)
          /\ M(y, z) \/ (~ M(y, z) /\ ~ M(z, y) /\ y.player < z.player)
          /\ (M(x, z) \/ (~ M(x, z) /\ ~ M(z, x) /\ x.player < z.player)) => <<x, z>> \in R
      BY <1>1, <1>4, <2>4, <3>1
    <3>3. /\ M(x, y) => ~ M(y, x)
          /\ M(y, z) => ~ M(z, y)
          /\ M(x, z) => ~ M(z, x)
      OBVIOUS
    <3>4. \A a, b, c \in {x, y, z} : ~ M(a, b) /\ ~ M(b, c) => ~ M(a, c)
      BY <2>4, <3>1
    <3> HIDE DEF M
    <3>5. /\ ~ M(y, x) /\ ~ M(z, y) => ~ M(z, x)
          /\ ~ M(x, z) /\ ~ M(z, y) => ~ M(x, y)
          /\ ~ M(y, x) /\ ~ M(x, z) => ~ M(y, z)
      BY <3>4
    <3> QED BY <2>1, <3>2, <3>3, <3>5
  <2> QED BY <2>2, <2>3, <2>4
<1> QED BY <1>2, <1>3, <1>4 DEF R

\* A column of the board: who has less of it than whom, and who has none.
LessIn(column) ==
  {ab \in Range(Compute.ranked) \X Range(Compute.ranked) : LessOn(column, RanksOn(Compute), ab[1], ab[2])}
NoneIn(column) == {a \in Range(Compute.ranked) : Absent(column, a)}

\* The streaks of the board are counts.
LEMMA StreaksAreCounts ==
  ASSUME TypeOK, NEW p \in Players, NEW solving \in BOOLEAN
  PROVE  CurrentStreak(history[p], solving) \in Nat
<1> DEFINE good == Good(history[p], solving)
           run == RunAt(history[p], solving)
<1>1. 0 \notin good /\ Walk(good, now, run)
  BY RunsWalk DEF RunsAreWalks
<1>2. now \in Nat /\ now >= 1
  BY DEF TypeOK
<1> HIDE DEF good, run
<1>3. \A z \in 0..now : run[z] \in Nat
  BY <1>1, <1>2, WalkGrows
<1>4. (IF now \in DOMAIN history[p] THEN now ELSE now - 1) \in 0..now
  BY <1>2
<1> QED BY <1>3, <1>4 DEF CurrentStreak, run

\* The columns of the board are such: less goes one way only, whoever has no figure
\* is in none of it, and those level with one are level with each other.
LEMMA ColumnIs ==
  ASSUME TypeOK, NEW column \in SortColumns
  PROVE  LET S == Range(Compute.ranked)
             G == NoneIn(column)
             L == LessIn(column)
         IN  /\ IsFiniteSet(S) /\ G \in SUBSET S
             /\ \A a \in S : a.player \in Int
             /\ \A a, b \in S : a.player = b.player => a = b
             /\ \A a, b \in S : <<a, b>> \in L => <<b, a>> \notin L
             /\ \A a, b \in S : <<a, b>> \in L => a \notin G /\ b \notin G
             /\ \A a, b, c \in S : a \notin G /\ b \notin G /\ c \notin G /\ <<a, b>> \notin L /\ <<b, c>> \notin L
                                     => <<a, c>> \notin L
<1> DEFINE S == Range(Compute.ranked)
           ranks == RanksOn(Compute)
           Less(a, b) == LessOn(column, ranks, a, b)
<1>1. /\ IsFiniteSet(S)
      /\ \A a \in S : a.player \in Int /\ a.games \in Nat /\ a.average \in Averages /\ a.form \in Averages
      /\ \A a, b \in S : a.player = b.player => a = b
      /\ Compute.ranked \in [1..Cardinality(S) -> S] /\ Cardinality(S) \in Nat
  BY BoardClimbs
<1>2. \A a \in S : ranks[a.player] \in Int
  <2>1. BoardIsRanked
    BY RankedIsBoard
  <2>2. \A a \in S : a.player \in RankedPlayers
    BY <2>1 DEF BoardIsRanked
  <2>3. \A i \in DOMAIN Compute.ranked : i \in Int
    BY <1>1
  <2> QED BY <2>1, <2>2, <2>3 DEF BoardIsRanked
<1>3. \A a \in S : a.playing \in Nat
  <2>1. S = {Row(p) : p \in RankedPlayers} /\ RankedPlayers \subseteq Players
    BY RankedIsBoard DEF BoardIsRanked
  <2>2. \A p \in Players : Row(p).playing = CurrentStreak(history[p], FALSE)
    BY DEF Row
  <2> QED BY <2>1, <2>2, StreaksAreCounts
<1>4. \A a, b \in S : <<a, b>> \in LessIn(column) <=> Less(a, b)
  BY DEF LessIn
<1>5. \A a \in S : a \in NoneIn(column) <=> Absent(column, a)
  BY DEF NoneIn
<1>6. \A a \in S : /\ Has(a.average) => a.average.sum \in Nat /\ a.average.count \in Nat \ {0}
                   /\ Has(a.form) => a.form.sum \in Nat /\ a.form.count \in Nat \ {0}
  BY <1>1 DEF Has, Averages
<1> SUFFICES /\ \A a, b \in S : Less(a, b) => ~ Less(b, a)
             /\ \A a, b \in S : Less(a, b) => ~ Absent(column, a) /\ ~ Absent(column, b)
             /\ \A a, b, c \in S : ~ Absent(column, a) /\ ~ Absent(column, b) /\ ~ Absent(column, c)
                                     /\ ~ Less(a, b) /\ ~ Less(b, c) => ~ Less(a, c)
  <2>1. NoneIn(column) \in SUBSET S
    BY DEF NoneIn
  <2>2. /\ \A a \in S : a.player \in Int
        /\ \A a, b \in S : a.player = b.player => a = b
    BY <1>1
  <2> HIDE DEF Less
  <2>3. /\ \A a, b \in S : <<a, b>> \in LessIn(column) => <<b, a>> \notin LessIn(column)
        /\ \A a, b \in S : <<a, b>> \in LessIn(column) => a \notin NoneIn(column) /\ b \notin NoneIn(column)
    BY <1>4, <1>5
  <2>4. ASSUME NEW a \in S, NEW b \in S, NEW c \in S,
               a \notin NoneIn(column), b \notin NoneIn(column), c \notin NoneIn(column),
               <<a, b>> \notin LessIn(column), <<b, c>> \notin LessIn(column)
        PROVE  <<a, c>> \notin LessIn(column)
    BY <1>4, <1>5, <2>4
  <2> QED BY <1>1, <2>1, <2>2, <2>3, <2>4
<1> HIDE DEF S, ranks
<1>7. CASE column = "rank"
  <2>1. \A a, b \in S : Less(a, b) <=> ranks[a.player] < ranks[b.player]
    BY <1>7 DEF LessOn
  <2>2. \A a \in S : ~ Absent(column, a)
    BY <1>7 DEF Absent
  <2> HIDE DEF Less
  <2> QED BY <1>2, <2>1, <2>2
<1>8. CASE column = "player"
  <2>1. \A a, b \in S : Less(a, b) <=> a.player < b.player
    BY <1>8 DEF LessOn
  <2>2. \A a \in S : ~ Absent(column, a)
    BY <1>8 DEF Absent
  <2> HIDE DEF Less
  <2> QED BY <1>1, <2>1, <2>2
<1>9. CASE column = "streak"
  <2>1. \A a, b \in S : Less(a, b) <=> a.playing < b.playing
    BY <1>9 DEF LessOn
  <2>2. \A a \in S : ~ Absent(column, a)
    BY <1>9 DEF Absent
  <2> HIDE DEF Less
  <2> QED BY <1>3, <2>1, <2>2
<1>10. CASE column = "games"
  <2>1. \A a, b \in S : Less(a, b) <=> a.games < b.games
    BY <1>10 DEF LessOn
  <2>2. \A a \in S : ~ Absent(column, a)
    BY <1>10 DEF Absent
  <2> HIDE DEF Less
  <2> QED BY <1>1, <2>1, <2>2
<1>11. CASE column = "average"
  <2>1. \A a, b \in S : Less(a, b) <=> Has(a.average) /\ Has(b.average) /\ Lower(a.average, b.average)
    BY <1>11 DEF LessOn
  <2>2. \A a \in S : Absent(column, a) <=> ~ Has(a.average)
    BY <1>11 DEF Absent
  <2>3. ASSUME NEW x, NEW y, NEW z, x.sum \in Nat, y.sum \in Nat, z.sum \in Nat,
               x.count \in Nat \ {0}, y.count \in Nat \ {0}, z.count \in Nat \ {0}
        PROVE  /\ Lower(x, y) => ~ Lower(y, x)
               /\ ~ Lower(x, y) /\ ~ Lower(y, z) => ~ Lower(x, z)
    BY <2>3, AveragesOrder
  <2> HIDE DEF Less
  <2> QED BY <1>6, <2>1, <2>2, <2>3
<1>12. CASE column = "form"
  <2>1. \A a, b \in S : Less(a, b) <=> Has(a.form) /\ Has(b.form) /\ Lower(a.form, b.form)
    BY <1>12 DEF LessOn
  <2>2. \A a \in S : Absent(column, a) <=> ~ Has(a.form)
    BY <1>12 DEF Absent
  <2>3. ASSUME NEW x, NEW y, NEW z, x.sum \in Nat, y.sum \in Nat, z.sum \in Nat,
               x.count \in Nat \ {0}, y.count \in Nat \ {0}, z.count \in Nat \ {0}
        PROVE  /\ Lower(x, y) => ~ Lower(y, x)
               /\ ~ Lower(x, y) /\ ~ Lower(y, z) => ~ Lower(x, z)
    BY <2>3, AveragesOrder
  <2> HIDE DEF Less
  <2> QED BY <1>6, <2>1, <2>2, <2>3
<1> QED BY <1>7, <1>8, <1>9, <1>10, <1>11, <1>12 DEF SortColumns

\* An ordering of the board is what a sort makes of its rows by the column.
LEMMA SortIs ==
  ASSUME TypeOK, NEW column \in SortColumns, NEW desc \in BOOLEAN
  PROVE  LET S == Range(Compute.ranked)
             R == ColumnOrder(S, NoneIn(column), LessIn(column), desc)
             s == SortRows(Compute.ranked, RanksOn(Compute), column, desc)
         IN  /\ s = Sorting(S, R)
             /\ \A x \in S : <<x, x>> \notin R
             /\ \A x, y, z \in S : <<x, y>> \in R /\ <<y, z>> \in R => <<x, z>> \in R
             /\ Cardinality(S) \in Nat
             /\ s \in [1..Cardinality(S) -> S] /\ Range(s) = S
             /\ \A i, j \in 1..Cardinality(S) : i < j => <<s[i], s[j]>> \in R
             /\ \A i, j \in 1..Cardinality(S) : s[i] = s[j] => i = j
<1> DEFINE S == Range(Compute.ranked)
           G == NoneIn(column)
           L == LessIn(column)
           R == ColumnOrder(S, G, L, desc)
           n == Cardinality(S)
           ranks == RanksOn(Compute)
           s == SortRows(Compute.ranked, ranks, column, desc)
           First(a, b) ==
             IF Absent(column, a) # Absent(column, b) THEN Absent(column, b)
             ELSE IF ~LessOn(column, ranks, a, b) /\ ~LessOn(column, ranks, b, a) THEN a.player < b.player
             ELSE IF desc THEN LessOn(column, ranks, b, a) ELSE LessOn(column, ranks, a, b)
<1>1. /\ IsFiniteSet(S)
      /\ \A x \in S : <<x, x>> \notin R
      /\ \A x, y \in S : x # y => <<x, y>> \in R \/ <<y, x>> \in R
      /\ \A x, y, z \in S : <<x, y>> \in R /\ <<y, z>> \in R => <<x, z>> \in R
  <2>1. /\ IsFiniteSet(S)
        /\ \A a \in S : a.player \in Int
        /\ \A a, b \in S : a.player = b.player => a = b
        /\ \A a, b \in S : <<a, b>> \in L => <<b, a>> \notin L
        /\ \A a, b \in S : <<a, b>> \in L => a \notin G /\ b \notin G
        /\ \A a, b, c \in S : a \notin G /\ b \notin G /\ c \notin G /\ <<a, b>> \notin L /\ <<b, c>> \notin L
                                => <<a, c>> \notin L
    BY ColumnIs
  <2> HIDE DEF S, G, L
  <2> QED BY <2>1, ColumnsOrder
<1>2. \A a, b \in S : <<a, b>> \in R <=> First(a, b)
  <2>1. \A a, b \in S : /\ <<a, b>> \in L <=> LessOn(column, ranks, a, b)
                        /\ a \in G <=> Absent(column, a)
                        /\ Absent(column, a) \in BOOLEAN
    BY DEF LessIn, NoneIn, Absent
  <2> HIDE DEF S, G, L, ranks
  <2>2. \A a, b \in S : <<a, b>> \in R <=>
          IF ~ (a \in G <=> b \in G) THEN b \in G
          ELSE IF <<a, b>> \notin L /\ <<b, a>> \notin L THEN a.player < b.player
          ELSE IF desc THEN <<b, a>> \in L ELSE <<a, b>> \in L
    BY DEF ColumnOrder
  <2>3. \A a, b \in S : Absent(column, a) # Absent(column, b) <=> ~ (a \in G <=> b \in G)
    BY <2>1, Zenon
  <2> HIDE DEF R
  <2> SUFFICES ASSUME NEW a \in S, NEW b \in S PROVE <<a, b>> \in R <=> First(a, b)
    OBVIOUS
  <2>4. CASE a \in G <=> b \in G
    <3>1. ~ (Absent(column, a) # Absent(column, b))
      BY <2>3, <2>4
    <3> QED BY <2>1, <2>2, <2>4, <3>1
  <2>5. CASE ~ (a \in G <=> b \in G)
    <3>1. Absent(column, a) # Absent(column, b)
      BY <2>3, <2>5
    <3> QED BY <2>1, <2>2, <2>5, <3>1
  <2> QED BY <2>4, <2>5
<1>3. s = CHOOSE t \in [1..n -> S] : \A i, j \in DOMAIN t : i < j => First(t[i], t[j])
  BY DEF SortRows, InOrder
<1> HIDE DEF First, R, S, s
<1>4. s = Sorting(S, R)
  <2>1. \A t \in [1..n -> S] : (\A i, j \in DOMAIN t : i < j => First(t[i], t[j]))
                                 <=> (\A i, j \in 1..n : i < j => <<t[i], t[j]>> \in R)
    BY <1>2
  <2> QED BY <1>3, <2>1 DEF Sorting
<1>5. /\ n \in Nat /\ s \in [1..n -> S] /\ Range(s) = S
      /\ \A i, j \in 1..n : i < j => <<s[i], s[j]>> \in R
      /\ \A i, j \in 1..n : s[i] = s[j] => i = j
  BY <1>1, <1>4, SortsInto
<1> QED BY <1>1, <1>4, <1>5 DEF R, S, s

\* A row with its own streak is itself.
LEMMA RowKeepsItsStreak ==
  ASSUME NEW p PROVE [Row(p) EXCEPT !.playing = Row(p).playing] = Row(p)
<1> DEFINE counted == Counted(p)
           missed  == IF opts.countMissed THEN MissedDays(counted, history[p]) ELSE {}
           games == Cardinality(DOMAIN counted)
           hardGames == Cardinality(DOMAIN FilterHardMode(history[p]))
           dist == [g \in 1..FailedAsSeven |-> HowMany(counted, g)]
           average == Average(counted, missed)
           variance == Variance(counted, missed)
           form == IF HasForm(p) THEN WindowForm(p) ELSE [sum |-> 0, count |-> 0]
           current == CurrentStreak(history[p], TRUE)
           longest == LongestStreak(history[p], TRUE)
           playing == CurrentStreak(history[p], FALSE)
           since == IF history[p] = <<>> THEN 0 ELSE now - Max(DOMAIN history[p])
           reason == Reason(p)
<1>1. Row(p) = [player |-> p, games |-> games, hardGames |-> hardGames, dist |-> dist, average |-> average,
                variance |-> variance, form |-> form, current |-> current, longest |-> longest,
                playing |-> playing, since |-> since, reason |-> reason]
  BY DEF Row
<1> HIDE DEF counted, missed, games, hardGames, dist, average, variance, form, current, longest, playing, since,
             reason
<1> QED BY <1>1

\* The streaks of the board of all results are those of its own rows.
LEMMA RowsAreTheBoard ==
  ASSUME TypeOK PROVE WholeStreaks(Compute.ranked, Compute) = Compute.ranked
<1> DEFINE rows == Compute.ranked
           all == Range(Everyone(Compute))
           n == Cardinality(Range(rows))
           Whole(i) == CHOOSE whole \in all : whole.player = rows[i].player
<1>1. /\ rows \in [1..n -> Range(rows)]
      /\ \A a \in Range(rows) : a \in all
      /\ all = BoardRows
  <2>1. all = BoardRows /\ Range(rows) = {a \in BoardRows : a.reason = "ranked"}
    BY BoardIs
  <2>2. rows \in [1..n -> Range(rows)]
    BY BoardClimbs
  <2> HIDE DEF rows, all
  <2> QED BY <2>1, <2>2
<1>2. \A a \in BoardRows : \E p \in Players : a = Row(p)
  BY DEF BoardRows, OnBoard
<1>3. \A p \in Players : Row(p).player = p
  BY RowIs
<1>4. \A a, b \in BoardRows : a.player = b.player => a = b
  BY <1>2, <1>3
<1>5. WholeStreaks(rows, Compute) =
        [i \in DOMAIN rows |-> IF \E whole \in all : whole.player = rows[i].player
                               THEN [rows[i] EXCEPT !.playing = Whole(i).playing] ELSE rows[i]]
  BY DEF WholeStreaks
<1> HIDE DEF rows, all
<1>6. \A i \in DOMAIN rows : /\ \E whole \in all : whole.player = rows[i].player
                             /\ [rows[i] EXCEPT !.playing = Whole(i).playing] = rows[i]
  <2> SUFFICES ASSUME NEW i \in DOMAIN rows
               PROVE  /\ \E whole \in all : whole.player = rows[i].player
                      /\ [rows[i] EXCEPT !.playing = Whole(i).playing] = rows[i]
    OBVIOUS
  <2>1. rows[i] \in all
    BY <1>1
  <2> DEFINE w == CHOOSE whole \in all : whole.player = rows[i].player
  <2>2. w \in all /\ w.player = rows[i].player
    BY <2>1
  <2> HIDE DEF w
  <2>3. w = rows[i]
    BY <1>1, <1>4, <2>1, <2>2
  <2> PICK p \in Players : rows[i] = Row(p)
    BY <1>1, <1>2, <2>1
  <2>4. Whole(i) = rows[i]
    BY <2>3 DEF w
  <2>5. [rows[i] EXCEPT !.playing = rows[i].playing] = rows[i]
    BY RowKeepsItsStreak
  <2> QED BY <2>1, <2>4, <2>5
<1> HIDE DEF Whole
<1>7. WholeStreaks(rows, Compute) = [i \in DOMAIN rows |-> rows[i]]
  BY <1>5, <1>6
<1>8. rows = [i \in DOMAIN rows |-> rows[i]]
  BY <1>1
<1> QED BY <1>7, <1>8 DEF rows

\* The orderings of the board agree with the ranking, and with one another on who has no figure.
LEMMA OrderingsAgreeState == TypeOK => OrderingsAgree(Compute)
<1> SUFFICES ASSUME TypeOK PROVE OrderingsAgree(Compute)
  OBVIOUS
<1> DEFINE S == Range(Compute.ranked)
           n == Cardinality(S)
           ranks == RanksOn(Compute)
           rows == Compute.ranked
           Sorted1(column, desc) == SortRows(rows, ranks, column, desc)
           Order(column, desc) == ColumnOrder(S, NoneIn(column), LessIn(column), desc)
<1>1. WholeStreaks(rows, Compute) = rows
  BY RowsAreTheBoard
<1>2. /\ n \in Nat /\ rows \in [1..n -> S] /\ \A i, j \in 1..n : rows[i] = rows[j] => i = j
      /\ \A a, b \in S : a.player = b.player => a = b
      /\ IsFiniteSet(S)
  BY BoardClimbs
<1>3. \A i \in 1..n : ranks[rows[i].player] = i
  <2> SUFFICES ASSUME NEW i \in 1..n PROVE ranks[rows[i].player] = i
    OBVIOUS
  <2>1. rows[i].player \in RankedPlayers /\ rows[i] \in S
    BY <1>2, RankedIsBoard DEF BoardIsRanked
  <2> DEFINE p == rows[i].player
  <2>2. ranks[p] \in DOMAIN rows /\ rows[ranks[p]] = Row(p) /\ Row(p).player = p /\ Row(p) \in S
    BY <2>1, RankedIsBoard DEF BoardIsRanked
  <2> HIDE DEF p, S, ranks, rows
  <2>3. Row(p) = rows[i]
    BY <1>2, <2>1, <2>2 DEF p
  <2> QED BY <1>2, <2>2, <2>3 DEF p
<1>4. Sorted1("rank", FALSE) = rows
  <2> DEFINE R == Order("rank", FALSE)
             s == Sorted1("rank", FALSE)
  <2>1. /\ \A x \in S : <<x, x>> \notin R
        /\ \A x, y, z \in S : <<x, y>> \in R /\ <<y, z>> \in R => <<x, z>> \in R
        /\ s \in [1..n -> S]
        /\ \A i, j \in 1..n : i < j => <<s[i], s[j]>> \in R
    BY SortIs DEF SortColumns
  <2>2. \A i, j \in 1..n : i < j => <<rows[i], rows[j]>> \in R
    <3> SUFFICES ASSUME NEW i \in 1..n, NEW j \in 1..n, i < j PROVE <<rows[i], rows[j]>> \in R
      OBVIOUS
    <3> DEFINE a == rows[i]
               b == rows[j]
    <3>1. a \in S /\ b \in S /\ ranks[a.player] = i /\ ranks[b.player] = j
      BY <1>2, <1>3
    <3> HIDE DEF a, b, ranks, S
    <3>2. LessOn("rank", ranks, a, b)
      BY <3>1 DEF LessOn
    <3>3. <<a, b>> \in LessIn("rank") /\ a \notin NoneIn("rank") /\ b \notin NoneIn("rank")
      BY <3>1, <3>2 DEF LessIn, NoneIn, Absent, ranks, S
    <3>4. <<a, b>> \in R
      BY <3>1, <3>3 DEF ColumnOrder
    <3> QED BY <3>4 DEF a, b
  <2> HIDE DEF R, s, S, rows
  <2>3. s = rows
    BY <1>2, <2>1, <2>2, SortedOnce
  <2> QED BY <2>3 DEF s
<1>5. ASSUME NEW column \in SortColumns
      PROVE  LET up   == Sorted1(column, FALSE)
                 down == Sorted1(column, TRUE)
                 Gone(order) == {i \in DOMAIN order : Absent(column, order[i])}
             IN  /\ Gone(up) = Gone(down)
                 /\ \A i, j \in DOMAIN up \ Gone(up) : i < j =>
                      /\ ~LessOn(column, ranks, up[j], up[i])
                      /\ ~LessOn(column, ranks, down[i], down[j])
  <2> DEFINE up   == Sorted1(column, FALSE)
             down == Sorted1(column, TRUE)
             Gone(order) == {i \in DOMAIN order : Absent(column, order[i])}
             G == NoneIn(column)
             L == LessIn(column)
             Up == Order(column, FALSE)
             Down == Order(column, TRUE)
  <2>1. /\ up \in [1..n -> S] /\ Range(up) = S
        /\ \A i, j \in 1..n : i < j => <<up[i], up[j]>> \in Up
        /\ \A i, j \in 1..n : up[i] = up[j] => i = j
    BY SortIs
  <2>2. /\ down \in [1..n -> S] /\ Range(down) = S
        /\ \A i, j \in 1..n : i < j => <<down[i], down[j]>> \in Down
        /\ \A i, j \in 1..n : down[i] = down[j] => i = j
    BY SortIs
  <2>3. /\ G \in SUBSET S
        /\ \A a, b \in S : <<a, b>> \in L => <<b, a>> \notin L
    BY ColumnIs
  <2>4. \A a, b \in S : /\ <<a, b>> \in L <=> LessOn(column, ranks, a, b)
                        /\ a \in G <=> Absent(column, a)
    BY DEF LessIn, NoneIn
  <2>5. \A a, b \in S : /\ <<a, b>> \in Up => /\ a \in G => b \in G
                                              /\ a \notin G /\ b \notin G => <<b, a>> \notin L
                        /\ <<a, b>> \in Down => /\ a \in G => b \in G
                                                /\ a \notin G /\ b \notin G => <<a, b>> \notin L
    <3> HIDE DEF S
    <3>1. \A a, b \in S : <<a, b>> \in Up =>
            IF ~ (a \in G <=> b \in G) THEN b \in G
            ELSE IF <<a, b>> \notin L /\ <<b, a>> \notin L THEN a.player < b.player
            ELSE <<a, b>> \in L
      BY DEF ColumnOrder
    <3>2. \A a, b \in S : <<a, b>> \in Down =>
            IF ~ (a \in G <=> b \in G) THEN b \in G
            ELSE IF <<a, b>> \notin L /\ <<b, a>> \notin L THEN a.player < b.player
            ELSE <<b, a>> \in L
      BY DEF ColumnOrder
    <3> HIDE DEF Up, Down, G, L
    <3> SUFFICES ASSUME NEW a \in S, NEW b \in S
                 PROVE  /\ <<a, b>> \in Up => /\ a \in G => b \in G
                                              /\ a \notin G /\ b \notin G => <<b, a>> \notin L
                        /\ <<a, b>> \in Down => /\ a \in G => b \in G
                                                /\ a \notin G /\ b \notin G => <<a, b>> \notin L
      OBVIOUS
    <3>3. <<a, b>> \in L => <<b, a>> \notin L
      BY <2>3
    <3> QED BY <3>1, <3>2, <3>3
  <2> HIDE DEF up, down, S, G, L, Up, Down, n, ranks
  <2>6. /\ \A i, j \in 1..n : up[i] \in G /\ i < j => up[j] \in G
        /\ \A i, j \in 1..n : down[i] \in G /\ i < j => down[j] \in G
    BY <2>1, <2>2, <2>5
  <2>7. {i \in 1..n : up[i] \in G} = {i \in 1..n : down[i] \in G}
    BY <1>2, <2>1, <2>2, <2>3, <2>6, EndsAreSame DEF n
  <2>8. Gone(up) = {i \in 1..n : up[i] \in G} /\ Gone(down) = {i \in 1..n : down[i] \in G}
    BY <2>1, <2>2, <2>4
  <2>9. DOMAIN up = 1..n
    BY <2>1
  <2>10. Gone(up) = Gone(down)
    BY <2>7, <2>8
  <2>11. ASSUME NEW i \in 1..n, NEW j \in 1..n, i \notin Gone(up), j \notin Gone(up), i < j
         PROVE  ~LessOn(column, ranks, up[j], up[i]) /\ ~LessOn(column, ranks, down[i], down[j])
    <3>1. up[i] \notin G /\ up[j] \notin G /\ down[i] \notin G /\ down[j] \notin G
      BY <2>7, <2>8, <2>11
    <3>2. /\ up[i] \in S /\ up[j] \in S /\ down[i] \in S /\ down[j] \in S
          /\ <<up[i], up[j]>> \in Up /\ <<down[i], down[j]>> \in Down
      BY <2>1, <2>2, <2>11
    <3> QED BY <2>4, <2>5, <3>1, <3>2
  <2> HIDE DEF Gone
  <2>12. \A i, j \in DOMAIN up \ Gone(up) : i < j =>
           ~LessOn(column, ranks, up[j], up[i]) /\ ~LessOn(column, ranks, down[i], down[j])
    BY <2>9, <2>11
  <2> QED BY <2>10, <2>12 DEF up, down, ranks, Gone
<1> HIDE DEF S, n, Order
<1> QED BY <1>1, <1>4, <1>5 DEF OrderingsAgree

-----------------------------------------------------------------------------
(* The board as what it is computed from: some histories, and a day.       *)

CountedOf(r) == IF opts.hardModeOnly THEN FilterHardMode(r) ELSE r

MissedOf(r) == IF opts.countMissed THEN MissedDays(CountedOf(r), r) ELSE {}

WindowOf(r, n) == RestrictDomain(CountedOf(r), LAMBDA z : z \in (n - FormWindow + 1)..n)

\* The run that stands at the end of each day up to the nth.
RunsOf(r, n, solving) ==
  LET run[z \in 0..n] ==
        IF z \notin {y \in DOMAIN r : y <= n /\ (solving => Solved(r[y]))} THEN 0 ELSE run[z - 1] + 1
  IN  run

StreakOf(r, n, solving) == RunsOf(r, n, solving)[IF n \in DOMAIN r THEN n ELSE n - 1]

ReasonOf(r, n) ==
  IF DOMAIN r = {} THEN "inactive"
  ELSE IF \A z \in DOMAIN r : z < n - FormWindow + 1 THEN "no recent games"
  ELSE IF Cardinality(DOMAIN r) < MinGames THEN "low data"
  ELSE "ranked"

RowOf(p, r, n) ==
  [player    |-> p,
   games     |-> Cardinality(DOMAIN CountedOf(r)),
   hardGames |-> Cardinality(DOMAIN FilterHardMode(r)),
   dist      |-> [g \in 1..FailedAsSeven |-> HowMany(CountedOf(r), g)],
   average   |-> Average(CountedOf(r), MissedOf(r)),
   variance  |-> Variance(CountedOf(r), MissedOf(r)),
   form      |-> IF Cardinality(DOMAIN WindowOf(r, n)) >= MinGames THEN Average(WindowOf(r, n), {})
                 ELSE [sum |-> 0, count |-> 0],
   current   |-> StreakOf(r, n, TRUE),
   longest   |-> Max({RunsOf(r, n, TRUE)[z] : z \in 0..n}),
   playing   |-> StreakOf(r, n, FALSE),
   since     |-> IF r = <<>> THEN 0 ELSE n - Max(DOMAIN r),
   reason    |-> ReasonOf(r, n)]

RowsOf(h, n) ==
  {a \in {RowOf(p, h[p], n) : p \in {q \in Players : opts.hardModeOnly => DOMAIN CountedOf(h[q]) # {}}} :
     a.reason = "ranked"}

RankedOf(h, n) == InOrder(RowsOf(h, n), RankedAbove)

\* The board of all results.
LEMMA WholeBoardIs == Compute.ranked = RankedOf(history, now)
<1> DEFINE h == history
           n == now
<1>8. \A p : Counted(p) = CountedOf(h[p])
  BY DEF Counted, CountedOf
<1>9. \A p : (IF opts.countMissed THEN MissedDays(Counted(p), h[p]) ELSE {}) = MissedOf(h[p])
  BY <1>8 DEF MissedOf
<1>10. \A p : InWindow(p) = WindowOf(h[p], n)
  BY <1>8 DEF InWindow, WindowStart, WindowOf, RestrictDomain, Restrict
<1>11. \A p : /\ HasForm(p) <=> Cardinality(DOMAIN WindowOf(h[p], n)) >= MinGames
             /\ WindowForm(p) = Average(WindowOf(h[p], n), {})
  BY <1>10 DEF HasForm, WindowForm
<1>12. \A r : \A solving : RunAt(r, solving) = RunsOf(r, n, solving)
  BY DEF RunAt, Good, RunsOf
<1>13. \A p : /\ \A solving : CurrentStreak(h[p], solving) = StreakOf(h[p], n, solving)
             /\ LongestStreak(h[p], TRUE) = Max({RunsOf(h[p], n, TRUE)[z] : z \in 0..n})
  BY <1>12 DEF CurrentStreak, LongestStreak, StreakOf
<1>14. \A p : Reason(p) = ReasonOf(h[p], n)
  BY DEF Reason, WindowStart, ReasonOf
<1>15. \A p : Row(p) = RowOf(p, h[p], n)
  BY <1>8, <1>9, <1>11, <1>13, <1>14 DEF Row, RowOf
<1> DEFINE U == {Row(p) : p \in {q \in Players : opts.hardModeOnly => DOMAIN Counted(q) # {}}}
           S == {a \in U : a.reason = "ranked"}
<1>16. S = RowsOf(h, n)
  BY <1>8, <1>15 DEF RowsOf
<1>17. Compute.ranked = CHOOSE s \in [1..Cardinality(S) -> S] : \A i, j \in DOMAIN s : i < j => RankedAbove(s[i], s[j])
  BY DEF Compute, InOrder
<1> HIDE DEF S, h, n
<1>18. RankedOf(h, n) = CHOOSE s \in [1..Cardinality(S) -> S] : \A i, j \in DOMAIN s : i < j => RankedAbove(s[i], s[j])
  BY <1>16 DEF RankedOf, InOrder
<1> QED BY <1>17, <1>18 DEF h, n


\* The board of the latest puzzles.
LEMMA LatestIs == Latest!Compute.ranked = RankedOf(GridWindow(BoardRecent), now)
<1> DEFINE h == GridWindow(BoardRecent)
           n == now
<1>0. \A S : Latest!Cardinality(S) = Cardinality(S)
  BY DEF Latest!Cardinality, Cardinality
<1>1. \A r : Latest!FilterHardMode(r) = FilterHardMode(r)
  BY DEF Latest!FilterHardMode, FilterHardMode, Latest!Restrict, Restrict, Latest!RestrictDomain, RestrictDomain, Latest!RestrictValues, RestrictValues
<1>2. \A r, m : Latest!Average(r, m) = Average(r, m)
  BY <1>0 DEF Latest!Average, Average, Latest!Counts, Counts, Latest!Total, Total, Latest!MapThenSumSet, MapThenSumSet, Latest!MapThenFoldSet, MapThenFoldSet, Latest!Value, Value, Latest!Solved, Solved, Latest!FailedAsSeven, FailedAsSeven
<1>3. \A r, m : Latest!Variance(r, m) = Variance(r, m)
  BY <1>0 DEF Latest!Variance, Variance, Latest!Average, Average, Latest!Counts, Counts, Latest!Total, Total, Latest!MapThenSumSet, MapThenSumSet, Latest!MapThenFoldSet, MapThenFoldSet, Latest!Value, Value, Latest!Solved, Solved, Latest!FailedAsSeven, FailedAsSeven
<1>4. \A r, g : Latest!HowMany(r, g) = HowMany(r, g)
  BY <1>0 DEF Latest!HowMany, HowMany, Latest!Value, Value, Latest!Solved, Solved, Latest!FailedAsSeven, FailedAsSeven
<1>5. \A r, c : Latest!MissedDays(c, r) = MissedDays(c, r)
  BY <1>0 DEF Latest!MissedDays, MissedDays, Latest!Min, Min, Latest!Max, Max
<1>6. \A a, b : Latest!RankedAbove(a, b) <=> RankedAbove(a, b)
  BY DEF Latest!RankedAbove, RankedAbove, Latest!Has, Has, Latest!Lower, Lower, Latest!Level, Level
<1>7. \A S : Latest!Max(S) = Max(S)
  BY DEF Latest!Max, Max
<1>8. \A p : Latest!Counted(p) = CountedOf(h[p])
  BY <1>1 DEF Latest!Counted, CountedOf
<1>9. \A p : (IF opts.countMissed THEN Latest!MissedDays(Latest!Counted(p), h[p]) ELSE {}) = MissedOf(h[p])
  BY <1>5, <1>8 DEF MissedOf
<1>10. \A p : Latest!InWindow(p) = WindowOf(h[p], n)
  BY <1>8 DEF Latest!InWindow, Latest!WindowStart, WindowOf, Latest!RestrictDomain, RestrictDomain, Latest!Restrict, Restrict
<1>11. \A p : /\ Latest!HasForm(p) <=> Cardinality(DOMAIN WindowOf(h[p], n)) >= MinGames
             /\ Latest!WindowForm(p) = Average(WindowOf(h[p], n), {})
  BY <1>0, <1>2, <1>10 DEF Latest!HasForm, Latest!WindowForm
<1>12. \A r : \A solving : Latest!RunAt(r, solving) = RunsOf(r, n, solving)
  BY DEF Latest!RunAt, Latest!Good, RunsOf, Latest!Solved, Solved
<1>13. \A p : /\ \A solving : Latest!CurrentStreak(h[p], solving) = StreakOf(h[p], n, solving)
             /\ Latest!LongestStreak(h[p], TRUE) = Max({RunsOf(h[p], n, TRUE)[z] : z \in 0..n})
  BY <1>7, <1>12 DEF Latest!CurrentStreak, Latest!LongestStreak, StreakOf
<1>14. \A p : Latest!Reason(p) = ReasonOf(h[p], n)
  BY <1>0 DEF Latest!Reason, Latest!WindowStart, ReasonOf
<1>15. \A p : Latest!Row(p) = RowOf(p, h[p], n)
  BY <1>0, <1>1, <1>2, <1>3, <1>4, <1>5, <1>7, <1>8, <1>9, <1>11, <1>13, <1>14 DEF Latest!Row, RowOf, Latest!FailedAsSeven, FailedAsSeven
<1> DEFINE U == {Latest!Row(p) : p \in {q \in Players : opts.hardModeOnly => DOMAIN Latest!Counted(q) # {}}}
           S == {a \in U : a.reason = "ranked"}
<1>16. S = RowsOf(h, n)
  BY <1>8, <1>15 DEF RowsOf
<1>17. Latest!Compute.ranked = CHOOSE s \in [1..Cardinality(S) -> S] : \A i, j \in DOMAIN s : i < j => Latest!RankedAbove(s[i], s[j])
  BY <1>0 DEF Latest!Compute, Latest!InOrder
<1> HIDE DEF S, h, n
<1>18. RankedOf(h, n) = CHOOSE s \in [1..Cardinality(S) -> S] : \A i, j \in DOMAIN s : i < j => RankedAbove(s[i], s[j])
  BY <1>16 DEF RankedOf, InOrder
<1> QED BY <1>6, <1>17, <1>18 DEF h, n


\* The board of all results a page will compare with.
LEMMA HenceThenIs == Hence!Then!Compute.ranked = RankedOf(Hence!KnownThen, Hence!DayThen)
<1> DEFINE h == Hence!KnownThen
           n == Hence!DayThen
<1>0. \A S : Hence!Then!Cardinality(S) = Cardinality(S)
  BY DEF Hence!Then!Cardinality, Cardinality
<1>1. \A r : Hence!Then!FilterHardMode(r) = FilterHardMode(r)
  BY DEF Hence!Then!FilterHardMode, FilterHardMode, Hence!Then!Restrict, Restrict, Hence!Then!RestrictDomain, RestrictDomain, Hence!Then!RestrictValues, RestrictValues
<1>2. \A r, m : Hence!Then!Average(r, m) = Average(r, m)
  BY <1>0 DEF Hence!Then!Average, Average, Hence!Then!Counts, Counts, Hence!Then!Total, Total, Hence!Then!MapThenSumSet, MapThenSumSet, Hence!Then!MapThenFoldSet, MapThenFoldSet, Hence!Then!Value, Value, Hence!Then!Solved, Solved, Hence!Then!FailedAsSeven, FailedAsSeven
<1>3. \A r, m : Hence!Then!Variance(r, m) = Variance(r, m)
  BY <1>0 DEF Hence!Then!Variance, Variance, Hence!Then!Average, Average, Hence!Then!Counts, Counts, Hence!Then!Total, Total, Hence!Then!MapThenSumSet, MapThenSumSet, Hence!Then!MapThenFoldSet, MapThenFoldSet, Hence!Then!Value, Value, Hence!Then!Solved, Solved, Hence!Then!FailedAsSeven, FailedAsSeven
<1>4. \A r, g : Hence!Then!HowMany(r, g) = HowMany(r, g)
  BY <1>0 DEF Hence!Then!HowMany, HowMany, Hence!Then!Value, Value, Hence!Then!Solved, Solved, Hence!Then!FailedAsSeven, FailedAsSeven
<1>5. \A r, c : Hence!Then!MissedDays(c, r) = MissedDays(c, r)
  BY <1>0 DEF Hence!Then!MissedDays, MissedDays, Hence!Then!Min, Min, Hence!Then!Max, Max
<1>6. \A a, b : Hence!Then!RankedAbove(a, b) <=> RankedAbove(a, b)
  BY DEF Hence!Then!RankedAbove, RankedAbove, Hence!Then!Has, Has, Hence!Then!Lower, Lower, Hence!Then!Level, Level
<1>7. \A S : Hence!Then!Max(S) = Max(S)
  BY DEF Hence!Then!Max, Max
<1>8. \A p : Hence!Then!Counted(p) = CountedOf(h[p])
  BY <1>1 DEF Hence!Then!Counted, CountedOf
<1>9. \A p : (IF opts.countMissed THEN Hence!Then!MissedDays(Hence!Then!Counted(p), h[p]) ELSE {}) = MissedOf(h[p])
  BY <1>5, <1>8 DEF MissedOf
<1>10. \A p : Hence!Then!InWindow(p) = WindowOf(h[p], n)
  BY <1>8 DEF Hence!Then!InWindow, Hence!Then!WindowStart, WindowOf, Hence!Then!RestrictDomain, RestrictDomain, Hence!Then!Restrict, Restrict
<1>11. \A p : /\ Hence!Then!HasForm(p) <=> Cardinality(DOMAIN WindowOf(h[p], n)) >= MinGames
             /\ Hence!Then!WindowForm(p) = Average(WindowOf(h[p], n), {})
  BY <1>0, <1>2, <1>10 DEF Hence!Then!HasForm, Hence!Then!WindowForm
<1>12. \A r : \A solving : Hence!Then!RunAt(r, solving) = RunsOf(r, n, solving)
  BY DEF Hence!Then!RunAt, Hence!Then!Good, RunsOf, Hence!Then!Solved, Solved
<1>13. \A p : /\ \A solving : Hence!Then!CurrentStreak(h[p], solving) = StreakOf(h[p], n, solving)
             /\ Hence!Then!LongestStreak(h[p], TRUE) = Max({RunsOf(h[p], n, TRUE)[z] : z \in 0..n})
  BY <1>7, <1>12 DEF Hence!Then!CurrentStreak, Hence!Then!LongestStreak, StreakOf
<1>14. \A p : Hence!Then!Reason(p) = ReasonOf(h[p], n)
  BY <1>0 DEF Hence!Then!Reason, Hence!Then!WindowStart, ReasonOf
<1>15. \A p : Hence!Then!Row(p) = RowOf(p, h[p], n)
  BY <1>0, <1>1, <1>2, <1>3, <1>4, <1>5, <1>7, <1>8, <1>9, <1>11, <1>13, <1>14 DEF Hence!Then!Row, RowOf, Hence!Then!FailedAsSeven, FailedAsSeven
<1> DEFINE U == {Hence!Then!Row(p) : p \in {q \in Players : opts.hardModeOnly => DOMAIN Hence!Then!Counted(q) # {}}}
           S == {a \in U : a.reason = "ranked"}
<1>16. S = RowsOf(h, n)
  BY <1>8, <1>15 DEF RowsOf
<1>17. Hence!Then!Compute.ranked = CHOOSE s \in [1..Cardinality(S) -> S] : \A i, j \in DOMAIN s : i < j => Hence!Then!RankedAbove(s[i], s[j])
  BY <1>0 DEF Hence!Then!Compute, Hence!Then!InOrder
<1> HIDE DEF S, h, n
<1>18. RankedOf(h, n) = CHOOSE s \in [1..Cardinality(S) -> S] : \A i, j \in DOMAIN s : i < j => RankedAbove(s[i], s[j])
  BY <1>16 DEF RankedOf, InOrder
<1> QED BY <1>6, <1>17, <1>18 DEF h, n


\* The board of the latest puzzles a page will compare with.
LEMMA HenceLatestIs == Hence!LatestThen!Compute.ranked = RankedOf(Hence!Then!GridWindow(BoardRecent), Hence!DayThen)
<1> DEFINE h == Hence!Then!GridWindow(BoardRecent)
           n == Hence!DayThen
<1>0. \A S : Hence!LatestThen!Cardinality(S) = Cardinality(S)
  BY DEF Hence!LatestThen!Cardinality, Cardinality
<1>1. \A r : Hence!LatestThen!FilterHardMode(r) = FilterHardMode(r)
  BY DEF Hence!LatestThen!FilterHardMode, FilterHardMode, Hence!LatestThen!Restrict, Restrict, Hence!LatestThen!RestrictDomain, RestrictDomain, Hence!LatestThen!RestrictValues, RestrictValues
<1>2. \A r, m : Hence!LatestThen!Average(r, m) = Average(r, m)
  BY <1>0 DEF Hence!LatestThen!Average, Average, Hence!LatestThen!Counts, Counts, Hence!LatestThen!Total, Total, Hence!LatestThen!MapThenSumSet, MapThenSumSet, Hence!LatestThen!MapThenFoldSet, MapThenFoldSet, Hence!LatestThen!Value, Value, Hence!LatestThen!Solved, Solved, Hence!LatestThen!FailedAsSeven, FailedAsSeven
<1>3. \A r, m : Hence!LatestThen!Variance(r, m) = Variance(r, m)
  BY <1>0 DEF Hence!LatestThen!Variance, Variance, Hence!LatestThen!Average, Average, Hence!LatestThen!Counts, Counts, Hence!LatestThen!Total, Total, Hence!LatestThen!MapThenSumSet, MapThenSumSet, Hence!LatestThen!MapThenFoldSet, MapThenFoldSet, Hence!LatestThen!Value, Value, Hence!LatestThen!Solved, Solved, Hence!LatestThen!FailedAsSeven, FailedAsSeven
<1>4. \A r, g : Hence!LatestThen!HowMany(r, g) = HowMany(r, g)
  BY <1>0 DEF Hence!LatestThen!HowMany, HowMany, Hence!LatestThen!Value, Value, Hence!LatestThen!Solved, Solved, Hence!LatestThen!FailedAsSeven, FailedAsSeven
<1>5. \A r, c : Hence!LatestThen!MissedDays(c, r) = MissedDays(c, r)
  BY <1>0 DEF Hence!LatestThen!MissedDays, MissedDays, Hence!LatestThen!Min, Min, Hence!LatestThen!Max, Max
<1>6. \A a, b : Hence!LatestThen!RankedAbove(a, b) <=> RankedAbove(a, b)
  BY DEF Hence!LatestThen!RankedAbove, RankedAbove, Hence!LatestThen!Has, Has, Hence!LatestThen!Lower, Lower, Hence!LatestThen!Level, Level
<1>7. \A S : Hence!LatestThen!Max(S) = Max(S)
  BY DEF Hence!LatestThen!Max, Max
<1>8. \A p : Hence!LatestThen!Counted(p) = CountedOf(h[p])
  BY <1>1 DEF Hence!LatestThen!Counted, CountedOf
<1>9. \A p : (IF opts.countMissed THEN Hence!LatestThen!MissedDays(Hence!LatestThen!Counted(p), h[p]) ELSE {}) = MissedOf(h[p])
  BY <1>5, <1>8 DEF MissedOf
<1>10. \A p : Hence!LatestThen!InWindow(p) = WindowOf(h[p], n)
  BY <1>8 DEF Hence!LatestThen!InWindow, Hence!LatestThen!WindowStart, WindowOf, Hence!LatestThen!RestrictDomain, RestrictDomain, Hence!LatestThen!Restrict, Restrict
<1>11. \A p : /\ Hence!LatestThen!HasForm(p) <=> Cardinality(DOMAIN WindowOf(h[p], n)) >= MinGames
             /\ Hence!LatestThen!WindowForm(p) = Average(WindowOf(h[p], n), {})
  BY <1>0, <1>2, <1>10 DEF Hence!LatestThen!HasForm, Hence!LatestThen!WindowForm
<1>12. \A r : \A solving : Hence!LatestThen!RunAt(r, solving) = RunsOf(r, n, solving)
  BY DEF Hence!LatestThen!RunAt, Hence!LatestThen!Good, RunsOf, Hence!LatestThen!Solved, Solved
<1>13. \A p : /\ \A solving : Hence!LatestThen!CurrentStreak(h[p], solving) = StreakOf(h[p], n, solving)
             /\ Hence!LatestThen!LongestStreak(h[p], TRUE) = Max({RunsOf(h[p], n, TRUE)[z] : z \in 0..n})
  BY <1>7, <1>12 DEF Hence!LatestThen!CurrentStreak, Hence!LatestThen!LongestStreak, StreakOf
<1>14. \A p : Hence!LatestThen!Reason(p) = ReasonOf(h[p], n)
  BY <1>0 DEF Hence!LatestThen!Reason, Hence!LatestThen!WindowStart, ReasonOf
<1>15. \A p : Hence!LatestThen!Row(p) = RowOf(p, h[p], n)
  BY <1>0, <1>1, <1>2, <1>3, <1>4, <1>5, <1>7, <1>8, <1>9, <1>11, <1>13, <1>14 DEF Hence!LatestThen!Row, RowOf, Hence!LatestThen!FailedAsSeven, FailedAsSeven
<1> DEFINE U == {Hence!LatestThen!Row(p) : p \in {q \in Players : opts.hardModeOnly => DOMAIN Hence!LatestThen!Counted(q) # {}}}
           S == {a \in U : a.reason = "ranked"}
<1>16. S = RowsOf(h, n)
  BY <1>8, <1>15 DEF RowsOf
<1>17. Hence!LatestThen!Compute.ranked = CHOOSE s \in [1..Cardinality(S) -> S] : \A i, j \in DOMAIN s : i < j => Hence!LatestThen!RankedAbove(s[i], s[j])
  BY <1>0 DEF Hence!LatestThen!Compute, Hence!LatestThen!InOrder
<1> HIDE DEF S, h, n
<1>18. RankedOf(h, n) = CHOOSE s \in [1..Cardinality(S) -> S] : \A i, j \in DOMAIN s : i < j => RankedAbove(s[i], s[j])
  BY <1>16 DEF RankedOf, InOrder
<1> QED BY <1>6, <1>17, <1>18 DEF h, n

\* A board is the same of histories that are the same for everybody.
LEMMA SameBoard ==
  ASSUME NEW h, NEW g, \A p \in Players : h[p] = g[p], NEW n
  PROVE  RankedOf(h, n) = RankedOf(g, n)
<1>1. RowsOf(h, n) = RowsOf(g, n)
  <2> DEFINE On(f) == {q \in Players : opts.hardModeOnly => DOMAIN CountedOf(f[q]) # {}}
  <2>1. On(h) = On(g)
    OBVIOUS
  <2>2. {RowOf(p, h[p], n) : p \in On(h)} = {RowOf(p, g[p], n) : p \in On(g)}
    BY <2>1
  <2> QED BY <2>2 DEF RowsOf
<1> DEFINE S == RowsOf(h, n)
<1>2. /\ RankedOf(h, n) = CHOOSE s \in [1..Cardinality(S) -> S] :
                            \A i, j \in DOMAIN s : i < j => RankedAbove(s[i], s[j])
      /\ RankedOf(g, n) = CHOOSE s \in [1..Cardinality(S) -> S] :
                            \A i, j \in DOMAIN s : i < j => RankedAbove(s[i], s[j])
  BY <1>1 DEF RankedOf, InOrder
<1> HIDE DEF S
<1> QED BY <1>2

\* The results of the latest puzzles anybody played.
PlayedOf(h) == UNION {DOMAIN CountedOf(h[p]) : p \in Players}
SpanOf(played, span) ==
  IF span = 0 THEN played ELSE {z \in played : Cardinality({y \in played : y > z}) < span}
CellsOf(r, days) == [z \in {y \in DOMAIN CountedOf(r) : y \in days} |-> CountedOf(r)[z]]

\* The latest results of a player, from the histories of all.
LEMMA GridIs ==
  \A p \in Players : GridWindow(BoardRecent)[p] = CellsOf(history[p], SpanOf(PlayedOf(history), BoardRecent))
<1>1. \A p : Counted(p) = CountedOf(history[p])
  BY DEF Counted, CountedOf
<1>2. GridDays(BoardRecent) = SpanOf(PlayedOf(history), BoardRecent)
  <2>1. UNION {DOMAIN Counted(p) : p \in Players} = PlayedOf(history)
    BY <1>1 DEF PlayedOf
  <2> QED BY <2>1 DEF GridDays, SpanOf
<1> QED BY <1>1, <1>2 DEF GridWindow, CellsOf, RestrictDomain, Restrict

\* The latest results of what was known, as a later page has them.
LEMMA HenceGridIs ==
  \A p \in Players :
    Hence!Then!GridWindow(BoardRecent)[p] = CellsOf(Hence!KnownThen[p], SpanOf(PlayedOf(Hence!KnownThen), BoardRecent))
<1>1. \A r : Hence!Then!FilterHardMode(r) = FilterHardMode(r)
  BY DEF Hence!Then!FilterHardMode, FilterHardMode, Hence!Then!RestrictValues, RestrictValues,
         Hence!Then!Restrict, Restrict
<1>2. \A p : Hence!Then!Counted(p) = CountedOf(Hence!KnownThen[p])
  BY <1>1 DEF Hence!Then!Counted, CountedOf
<1>3. \A S : Hence!Then!Cardinality(S) = Cardinality(S)
  BY DEF Hence!Then!Cardinality, Cardinality
<1>4. Hence!Then!GridDays(BoardRecent) = SpanOf(PlayedOf(Hence!KnownThen), BoardRecent)
  <2>1. UNION {DOMAIN Hence!Then!Counted(p) : p \in Players} = PlayedOf(Hence!KnownThen)
    BY <1>2 DEF PlayedOf
  <2> QED BY <1>3, <2>1 DEF Hence!Then!GridDays, SpanOf
<1> QED BY <1>2, <1>4 DEF Hence!Then!GridWindow, CellsOf, Hence!Then!RestrictDomain, Hence!Then!Restrict

\* What is known of some days from now, of so many days before it, is what is known.
LEMMA HenceIsNow ==
  ASSUME TypeOK, HistoriesAreFunctions, NobodyAhead
  PROVE  /\ Hence!DayThen = now
         /\ \A p \in Players : Hence!KnownThen[p] = history[p]
         /\ \A p \in Players : Hence!Then!GridWindow(BoardRecent)[p] = GridWindow(BoardRecent)[p]
<1>1. Hence!DayThen = now
  BY RangesAreCounts, LastDayIsADay DEF Hence!DayThen, TypeOK
<1>2. \A p \in Players : Hence!KnownThen[p] = history[p]
  <2> SUFFICES ASSUME NEW p \in Players PROVE Hence!KnownThen[p] = history[p]
    OBVIOUS
  <2>1. Hence!KnownThen[p] = [z \in {y \in DOMAIN history[p] : y <= Hence!DayThen} |-> history[p][z]]
    BY DEF Hence!KnownThen, Hence!RestrictDomain, Hence!Restrict
  <2>2. {y \in DOMAIN history[p] : y <= Hence!DayThen} = DOMAIN history[p]
    <3>1. \A y \in DOMAIN history[p] : y \in 1..now
      BY NoneAhead
    <3>2. \A y \in DOMAIN history[p] : y <= Hence!DayThen
      BY <1>1, <3>1
    <3> QED BY <3>2
  <2>3. history[p] = [z \in DOMAIN history[p] |-> history[p][z]]
    BY DEF HistoriesAreFunctions
  <2> QED BY <2>1, <2>2, <2>3
<1>3. PlayedOf(Hence!KnownThen) = PlayedOf(history)
  BY <1>2 DEF PlayedOf
<1>4. \A p \in Players : Hence!Then!GridWindow(BoardRecent)[p] = GridWindow(BoardRecent)[p]
  BY <1>2, <1>3, GridIs, HenceGridIs
<1> QED BY <1>1, <1>2, <1>4

\* The ranks are those of the ranked.
RanksIn(ranked) ==
  [p \in {a.player : a \in Range(ranked)} |-> CHOOSE i \in DOMAIN ranked : ranked[i].player = p]

\* The arrows compare with the board that was.
LEMMA ArrowsAgreeState == TypeOK /\ HistoriesAreFunctions => ArrowsAgree
<1> SUFFICES ASSUME TypeOK, HistoriesAreFunctions, NobodyAhead, NEW recent \in BOOLEAN
             PROVE  RanksOn(Hence!BoardThen(recent)) = RanksOn(BoardOf(recent))
  BY DEF ArrowsAgree
<1>1. \A board : RanksOn(board) = RanksIn(board.ranked)
  BY DEF RanksOn, RanksIn
<1>2. Hence!BoardThen(recent).ranked = BoardOf(recent).ranked
  <2>1. CASE recent = FALSE
    <3>1. RankedOf(Hence!KnownThen, now) = RankedOf(history, now)
      <4> DEFINE h == Hence!KnownThen
      <4>1. \A p \in Players : h[p] = history[p]
        BY HenceIsNow
      <4> HIDE DEF h
      <4>2. RankedOf(h, now) = RankedOf(history, now)
        BY <4>1, SameBoard
      <4> QED BY <4>2 DEF h
    <3>2. Hence!Then!Compute.ranked = Compute.ranked
      BY <3>1, HenceIsNow, HenceThenIs, WholeBoardIs
    <3> QED BY <2>1, <3>2 DEF Hence!BoardThen, BoardOf
  <2>2. CASE recent = TRUE
    <3>1. RankedOf(Hence!Then!GridWindow(BoardRecent), now) = RankedOf(GridWindow(BoardRecent), now)
      <4> DEFINE h == Hence!Then!GridWindow(BoardRecent)
                 g == GridWindow(BoardRecent)
      <4>1. \A p \in Players : h[p] = g[p]
        BY HenceIsNow
      <4> HIDE DEF h, g
      <4>2. RankedOf(h, now) = RankedOf(g, now)
        BY <4>1, SameBoard
      <4> QED BY <4>2 DEF h, g
    <3>2. Hence!LatestThen!Compute.ranked = Latest!Compute.ranked
      BY <3>1, HenceIsNow, HenceLatestIs, LatestIs
    <3> QED BY <2>2, <3>2 DEF Hence!BoardThen, BoardOf
  <2> QED BY <2>1, <2>2
<1> QED BY <1>1, <1>2

-----------------------------------------------------------------------------
(* The streaks of the board's page.                                        *)

\* The board of some histories has a row for everybody ranked by them.
LEMMA RankedHasRows ==
  ASSUME NEW h, NEW n,
         \A p \in Players : /\ IsFiniteSet(DOMAIN h[p]) /\ DOMAIN h[p] \subseteq Int
                            /\ \A z \in DOMAIN h[p] : h[p][z] \in Result
  PROVE  \E k \in Nat : RankedOf(h, n) \in [1..k -> RowsOf(h, n)]
<1>1. ASSUME NEW p \in Players
      PROVE  /\ RowOf(p, h[p], n).player = p
             /\ RowOf(p, h[p], n).games \in Nat
             /\ RowOf(p, h[p], n).average \in Averages
  <2> DEFINE r == h[p]
             D == DOMAIN CountedOf(r)
  <2>1. /\ IsFiniteSet(DOMAIN r) /\ D \in SUBSET DOMAIN r /\ DOMAIN r \subseteq Int
        /\ \A z \in D : CountedOf(r)[z] \in Result
    <3>1. /\ IsFiniteSet(DOMAIN r) /\ DOMAIN r \subseteq Int
          /\ \A z \in DOMAIN r : r[z] \in Result
      OBVIOUS
    <3> HIDE DEF r
    <3> QED BY <3>1 DEF CountedOf, FilterHardMode, RestrictValues, Restrict
  <2> HIDE DEF r, D
  <2>2. IsFiniteSet(D) /\ D \subseteq Int
    BY <2>1, FS_Subset
  <2>3. IsFiniteSet(MissedDays(CountedOf(r), r))
    <3>1. CASE Cardinality(D) < 2
      BY <3>1, FS_EmptySet DEF MissedDays, D
    <3>2. CASE ~(Cardinality(D) < 2)
      <4>1. D # {}
        <5> SUFFICES ASSUME D = {} PROVE FALSE
          OBVIOUS
        <5>1. Cardinality({}) = 0
          BY FS_EmptySet
        <5> QED BY <3>2, <5>1
      <4> DEFINE low == Min(D)
                 high == Max(D)
      <4>2. low \in D /\ high \in D
        BY <2>2, <4>1, MinIs, MaxIs
      <4>3. MissedDays(CountedOf(r), r) = (low..high) \ DOMAIN r
        BY <3>2 DEF MissedDays, D
      <4> HIDE DEF low, high
      <4>4. IsFiniteSet(low..high)
        BY <2>2, <4>2, FS_Interval
      <4> QED BY <4>3, <4>4, FS_Difference
    <3> QED BY <3>1, <3>2
  <2>4. IsFiniteSet(MissedOf(r))
    BY <2>3, FS_EmptySet DEF MissedOf
  <2>5. Average(CountedOf(r), MissedOf(r)) \in Averages
    BY <2>1, <2>2, <2>4, AverageIs DEF D
  <2>6. Cardinality(D) \in Nat
    BY <2>2, FS_CardinalityType
  <2>7. /\ RowOf(p, r, n).player = p
        /\ RowOf(p, r, n).games = Cardinality(D)
        /\ RowOf(p, r, n).average = Average(CountedOf(r), MissedOf(r))
    BY DEF RowOf, D
  <2> QED BY <2>5, <2>6, <2>7 DEF r
<1> DEFINE S == RowsOf(h, n)
           R == {ab \in S \X S : RankedAbove(ab[1], ab[2])}
           rows == {RowOf(p, h[p], n) : p \in Players}
<1>2. S \in SUBSET rows
  BY DEF RowsOf
<1>3. IsFiniteSet(rows)
  <2> DEFINE f == [p \in Players |-> RowOf(p, h[p], n)]
  <2>1. rows = Range(f) /\ DOMAIN f = Players /\ f = [p \in DOMAIN f |-> f[p]]
    BY DEF Range
  <2> HIDE DEF f
  <2>2. f \in Surjection(Players, Range(f))
    BY <2>1 DEF Surjection, Range
  <2> QED BY <2>1, <2>2, FS_Surjection, PlayersAreNumbered
<1>4. IsFiniteSet(S)
  <2> HIDE DEF S, rows
  <2> QED BY <1>2, <1>3, FS_Subset
<1>5. /\ \A a \in S : a.player \in Int /\ a.games \in Nat /\ a.average \in Averages
      /\ \A a, b \in S : a.player = b.player => a = b
  <2>1. \A a \in S : \E p \in Players : a = RowOf(p, h[p], n)
    BY <1>2
  <2> HIDE DEF S
  <2> QED BY <1>1, <2>1, PlayersAreNumbered
<1>6. \A a, b \in S : <<a, b>> \in R <=> RankedAbove(a, b)
  OBVIOUS
<1> HIDE DEF S, R
<1>7. /\ \A a \in S : ~ RankedAbove(a, a)
      /\ \A a, b \in S : a # b => RankedAbove(a, b) \/ RankedAbove(b, a)
      /\ \A a, b, c \in S : RankedAbove(a, b) /\ RankedAbove(b, c) => RankedAbove(a, c)
  BY <1>5, RankedAboveOrders
<1>8. /\ \A x \in S : <<x, x>> \notin R
      /\ \A x, y \in S : x # y => <<x, y>> \in R \/ <<y, x>> \in R
      /\ \A x, y, z \in S : <<x, y>> \in R /\ <<y, z>> \in R => <<x, z>> \in R
  BY <1>6, <1>7
<1>9. RankedOf(h, n) = Sorting(S, R)
  <2>1. RankedOf(h, n) = CHOOSE s \in [1..Cardinality(S) -> S] :
                           \A i, j \in DOMAIN s : i < j => RankedAbove(s[i], s[j])
    BY DEF RankedOf, InOrder, S
  <2>2. \A s \in [1..Cardinality(S) -> S] :
          (\A i, j \in DOMAIN s : i < j => RankedAbove(s[i], s[j]))
            <=> (\A i, j \in 1..Cardinality(S) : i < j => <<s[i], s[j]>> \in R)
    BY <1>6
  <2> QED BY <2>1, <2>2 DEF Sorting
<1>10. Cardinality(S) \in Nat /\ RankedOf(h, n) \in [1..Cardinality(S) -> S]
  BY <1>4, <1>8, <1>9, SortsInto
<1> QED BY <1>10 DEF S

\* The results of the latest puzzles are among a player's own.
LEMMA LatestAreResults ==
  ASSUME TypeOK, NEW p \in Players
  PROVE  LET g == GridWindow(BoardRecent)
         IN  /\ IsFiniteSet(DOMAIN g[p]) /\ DOMAIN g[p] \subseteq Int
             /\ DOMAIN g[p] \subseteq DOMAIN Counted(p)
             /\ \A z \in DOMAIN g[p] : g[p][z] \in Result
<1> DEFINE cells == GridWindow(BoardRecent)[p]
<1>1. /\ DOMAIN history[p] \subseteq 1..(now + 1) /\ IsFiniteSet(DOMAIN history[p])
      /\ DOMAIN Counted(p) \subseteq DOMAIN history[p]
      /\ \A z \in DOMAIN Counted(p) : Counted(p)[z] \in Result
  BY FewResults
<1>2. /\ DOMAIN cells \subseteq DOMAIN Counted(p)
      /\ \A z \in DOMAIN cells : cells[z] = Counted(p)[z]
  BY DEF GridWindow, RestrictDomain, Restrict
<1> HIDE DEF cells
<1>3. DOMAIN cells \in SUBSET DOMAIN history[p]
  BY <1>1, <1>2
<1>4. IsFiniteSet(DOMAIN cells)
  BY <1>1, <1>3, FS_Subset
<1> QED BY <1>1, <1>2, <1>3, <1>4 DEF cells

\* A row keeps all but the streak.
LEMMA OnlyTheStreak ==
  ASSUME NEW p, NEW r, NEW x
  PROVE  /\ [RowOf(p, r, now) EXCEPT !.playing = x].player = p
         /\ [RowOf(p, r, now) EXCEPT !.playing = x].playing = x
         /\ RowOf(p, r, now).player = p
         /\ RowOf(p, r, now).reason = ReasonOf(r, now)
BY DEF RowOf

\* Every row has the streak of the whole history.
LEMMA StreaksAgreeState == TypeOK => StreaksAgree
<1> SUFFICES ASSUME TypeOK, NEW recent \in BOOLEAN, NEW row \in Range(PageRows(recent))
             PROVE  row.playing = CurrentStreak(history[row.player], FALSE)
  BY DEF StreaksAgree
<1>1. \A p \in Players : Row(p).player = p /\ Row(p).playing = CurrentStreak(history[p], FALSE)
  BY DEF Row
<1>2. CASE recent = FALSE
  <2>1. PageRows(recent) = Compute.ranked
    BY <1>2, RowsAreTheBoard DEF PageRows, BoardOf
  <2>2. row \in BoardRows
    BY <2>1, BoardIs
  <2>3. PICK p \in Players : row = Row(p)
    BY <2>2 DEF BoardRows, OnBoard
  <2> QED BY <1>1, <2>3
<1>3. CASE recent = TRUE
  <2> DEFINE g == GridWindow(BoardRecent)
             rows == Latest!Compute.ranked
             all == Range(Everyone(Compute))
             Whole(i) == CHOOSE whole \in all : whole.player = rows[i].player
  <2>1. rows = RankedOf(g, now)
    BY LatestIs
  <2>2. \A p \in Players : /\ IsFiniteSet(DOMAIN g[p]) /\ DOMAIN g[p] \subseteq Int
                           /\ DOMAIN g[p] \subseteq DOMAIN Counted(p)
                           /\ \A z \in DOMAIN g[p] : g[p][z] \in Result
    BY LatestAreResults
  <2>3. all = BoardRows
    BY BoardIs
  <2>4. PageRows(recent) =
          [i \in DOMAIN rows |-> IF \E whole \in all : whole.player = rows[i].player
                                 THEN [rows[i] EXCEPT !.playing = Whole(i).playing] ELSE rows[i]]
    BY <1>3 DEF PageRows, BoardOf, WholeStreaks
  <2> HIDE DEF g, rows, all
  <2>5. \E k \in Nat : rows \in [1..k -> RowsOf(g, now)]
    BY <2>1, <2>2, RankedHasRows
  <2>6. PICK i \in DOMAIN rows :
          row = IF \E whole \in all : whole.player = rows[i].player
                THEN [rows[i] EXCEPT !.playing = Whole(i).playing] ELSE rows[i]
    <3> HIDE DEF Whole
    <3> QED BY <2>4 DEF Range
  <2>7. rows[i] \in RowsOf(g, now)
    BY <2>5
  <2>8. PICK p \in Players : rows[i] = RowOf(p, g[p], now) /\ rows[i].reason = "ranked"
    BY <2>7 DEF RowsOf
  <2>9. rows[i].player = p /\ ReasonOf(g[p], now) = "ranked"
    BY <2>8, OnlyTheStreak
  <2>10. DOMAIN Counted(p) # {}
    <3>1. DOMAIN g[p] # {}
      BY <2>9 DEF ReasonOf
    <3> QED BY <2>2, <3>1
  <2>11. Row(p) \in all /\ Row(p).player = p
    BY <1>1, <2>3, <2>10 DEF BoardRows, OnBoard
  <2> DEFINE w == CHOOSE whole \in all : whole.player = rows[i].player
  <2>12. w \in all /\ w.player = p
    BY <2>9, <2>11
  <2>13. Whole(i) = w
    OBVIOUS
  <2> HIDE DEF w, Whole
  <2>14. w.playing = CurrentStreak(history[p], FALSE)
    <3>1. PICK q \in Players : w = Row(q)
      BY <2>3, <2>12 DEF BoardRows, OnBoard
    <3> QED BY <1>1, <2>12, <3>1
  <2>15. row = [rows[i] EXCEPT !.playing = w.playing]
    BY <2>6, <2>9, <2>11, <2>13
  <2>16. row.player = p /\ row.playing = w.playing
    BY <2>8, <2>15, OnlyTheStreak
  <2> QED BY <2>14, <2>16
<1> QED BY <1>2, <1>3

-----------------------------------------------------------------------------
(* All of it.                                                              *)

\* The parts together.
LEMMA PagesAgreeState == TypeOK /\ HistoriesAreFunctions => PagesAgree
BY StreaksAgreeState, ArrowsAgreeState, OrderingsAgreeState, GapsAgreeState, RivalsAgreeState, MonthPagesState,
   HardestAgreesState, WeekdaysAgreeState, RecordsAgreeState, DayPageState, FormsAgreeState DEF PagesAgree

\* What a page works out for itself is what the rest of the program says: whatever the
\* results and the toggles are, the board's rows, gaps, orderings and arrows, a
\* player's rivals, records and days of the week, the months, the hardest day, the day
\* and the form table agree with the board, the tables and the bot's answers.
THEOREM PagesAgreeHolds == Spec => []PagesAgree
<1> USE HistoriesStayFunctions
<1>1. Init => TypeOK /\ HistoriesAreFunctions
  BY InitType
<1>2. TypeOK /\ HistoriesAreFunctions /\ [Next]_vars => TypeOK' /\ HistoriesAreFunctions'
  BY NextType
<1>3. TypeOK /\ HistoriesAreFunctions => PagesAgree
  BY PagesAgreeState
<1> QED BY <1>1, <1>2, <1>3, PTL DEF Spec
=============================================================================
