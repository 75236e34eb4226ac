---------------------------- MODULE SalesReview -----------------------------
(***************************************************************************)
(* The admin portal's two pages of figures, the dashboard and the sales     *)
(* review.  A page runs its queries one after the other, each with its own  *)
(* reading of the clock and its own snapshot of the orders, while orders    *)
(* are stored, refunded and the store's day ends.  Time is the store's      *)
(* local day, a position in Calendar; cents are integers.                   *)
(***************************************************************************)
EXTENDS Integers, Sequences, FiniteSets

CONSTANTS
  MonthLengths,    \* days of the months modelled
  FirstMonth,      \* the first of them, 1 .. 12
  DaysPerWeek,     \* of date_trunc('week'); 7
  Sellers,         \* vendors with items
  TrailingMonths,  \* TRAILING_MONTHS_COUNT; 8
  TopVendors,      \* TOP_VENDORS_LIMIT; 5
  RecentLimit,     \* RECENT_SALES_LIMIT; 10
  Prices,          \* cents of the orders, in which they are stored; bounds their number
  MaxMoves         \* bound on the changes while a page is read

Unfiled == "unfiled"  \* the seller of an item no vendor has

VARIABLES
  ledger,   \* the orders by id, of one line each: day, paid, seller, cents
  today,    \* the current day
  page,     \* the query a page runs next, or none, shown, board
  figures,  \* what its queries returned
  moved     \* changes since the page began
salesVars == <<ledger, today, page, figures, moved>>

SumTo(f, last) ==
  LET upTo[n \in 0 .. last] == IF n = 0 THEN 0 ELSE upTo[n - 1] + f[n]
  IN  upTo[last]

-----------------------------------------------------------------------------
(* The store's calendar.                                                    *)

Length(f) == SumTo(f, Len(f))
Days == 1 .. Length(MonthLengths)

\* The last day of a month, by its place in MonthLengths, and the first.
MonthEnd(m)   == SumTo(MonthLengths, m)
MonthStart(m) == MonthEnd(m - 1) + 1

\* date_trunc('month'): the month a day is in.
MonthOf(day) ==
  CHOOSE m \in DOMAIN MonthLengths : MonthStart(m) <= day /\ day <= MonthEnd(m)
DayOfMonth(day) == day - MonthStart(MonthOf(day)) + 1
WeekStart(day) == day - ((day - 1) % DaysPerWeek)

\* extract(year) and extract(month), counting years from the first.
YearOf(m) == (FirstMonth + m - 2) \div 12
NameOf(m) == ((FirstMonth + m - 2) % 12) + 1

-----------------------------------------------------------------------------
(* Of the orders that a query sees.                                         *)

\* The cents of a set of ids.
Gross(orders, ids) ==
  SumTo([k \in 1 .. Len(orders) |-> IF k \in ids THEN orders[k].cents ELSE 0], Len(orders))

\* The paid orders of the days from first up to, and without, end.
PaidIn(orders, first, end) ==
  {k \in DOMAIN orders : orders[k].paid /\ orders[k].day >= first /\ orders[k].day < end}

MonthToDate(orders, now) == PaidIn(orders, MonthStart(MonthOf(now)), now + 1)

-----------------------------------------------------------------------------
(* The sales review's queries.                                              *)

Least(a, b) == IF a < b THEN a ELSE b

\* Slip: the same number of days, whether the previous month has them or not.
PaceWindowUnclamped(orders, now, m) ==
  PaidIn(orders, MonthStart(m - 1), MonthStart(m - 1) + DayOfMonth(now))

\* As many days of the previous month as this one has had, none of this month.
PaceWindow(orders, now, m) ==
  PaidIn(orders, MonthStart(m - 1), Least(MonthStart(m - 1) + DayOfMonth(now), MonthStart(m)))

Metrics(orders, now) ==
  LET m     == MonthOf(now)
      sales == MonthToDate(orders, now)
      gross == Gross(orders, sales)
  IN [count |-> Cardinality(sales), gross |-> gross, net |-> gross,
      pace |-> IF m = 1 THEN 0 ELSE Gross(orders, PaceWindow(orders, now, m)),
      year |-> YearOf(m), month |-> NameOf(m)]

\* The days with sales, and fillDays: every day up to today, 0 where there is none.
Daily(orders, now) ==
  [d \in 1 .. DayOfMonth(now) |->
     Gross(orders, {k \in MonthToDate(orders, now) : DayOfMonth(orders[k].day) = d})]

\* Items no vendor has drop out of the join; the best sellers first, ties in any order.
SoldBy(orders, now, s) ==
  Gross(orders, {k \in MonthToDate(orders, now) : orders[k].seller = s})
IsRanking(orders, now, rows) ==
  LET selling == {orders[k].seller : k \in MonthToDate(orders, now)} \ {Unfiled}
      sold(s) == SoldBy(orders, now, s)
  IN /\ Len(rows) = Least(TopVendors, Cardinality(selling))
     /\ \A i \in DOMAIN rows : rows[i] \in selling
     /\ \A i, j \in DOMAIN rows : i < j => rows[i] # rows[j] /\ sold(rows[i]) >= sold(rows[j])
     /\ \A s \in selling \ {rows[i] : i \in DOMAIN rows}, i \in DOMAIN rows : sold(rows[i]) >= sold(s)
Rankings(orders, now) ==
  {rows \in UNION {[1 .. n -> Sellers] : n \in 0 .. TopVendors} : IsRanking(orders, now, rows)}
VendorRows(orders, now, rows) ==
  [i \in DOMAIN rows |-> [name |-> rows[i], gross |-> SoldBy(orders, now, rows[i])]]

\* The months that have sales, from the oldest asked for on; nothing bounds them above.
SalesOf(orders, m) == {k \in DOMAIN orders : orders[k].paid /\ MonthOf(orders[k].day) = m}
SparseMonths(orders, now) ==
  {[year |-> YearOf(m), month |-> NameOf(m), gross |-> Gross(orders, SalesOf(orders, m)),
    count |-> Cardinality(SalesOf(orders, m))] :
     m \in {n \in DOMAIN MonthLengths :
            n >= MonthOf(now) - (TrailingMonths - 1) /\ SalesOf(orders, n) # {}}}

\* A month counted back from another, over the turn of the year.
MonthBack(year, month, back) ==
  LET total == year * 12 + (month - 1) - back
  IN [year |-> total \div 12, month |-> (total % 12) + 1]

\* fillMonths: the anchor's month first, then back.
Filled(sparse, entry) ==
  LET found == {s \in sparse : s.year = entry.year /\ s.month = entry.month}
      none  == [year |-> entry.year, month |-> entry.month, gross |-> 0, count |-> 0]
  IN  IF found = {} THEN none ELSE CHOOSE s \in found : TRUE
History(orders, now) ==
  LET m == MonthOf(now)
  IN [i \in 1 .. TrailingMonths |->
        Filled(SparseMonths(orders, now), MonthBack(YearOf(m), NameOf(m), i - 1))]

-----------------------------------------------------------------------------
(* The dashboard's queries: open windows, up to whatever is stored.         *)

Since(orders, day) == PaidIn(orders, day, Length(MonthLengths) + 1)

Board(orders, now) ==
  [salesToday |-> Cardinality(Since(orders, now)),
   revenueToday |-> Gross(orders, Since(orders, now)),
   salesWeek |-> Cardinality(Since(orders, WeekStart(now))),
   revenueWeek |-> Gross(orders, Since(orders, WeekStart(now)))]

\* The newest paid orders, by day and then id.
Before(orders, j, k) ==
  orders[j].day > orders[k].day \/ (orders[j].day = orders[k].day /\ j < k)
Rank(orders, k) == Cardinality({j \in Since(orders, 1) : Before(orders, j, k)}) + 1
Recent(orders) ==
  [i \in 1 .. Least(RecentLimit, Cardinality(Since(orders, 1))) |->
     orders[CHOOSE k \in Since(orders, 1) : Rank(orders, k) = i]]

\* formatDayLabel: the calendar days between a sale and the page's last clock reading.
DayLabel(day, now) ==
  CASE now - day = 0 -> "Today"
    [] now - day = 1 -> "Yesterday"
    [] now - day \in 2 .. DaysPerWeek - 1 -> "weekday"
    [] OTHER -> "date"
DayLabels(sales, now) == [i \in DOMAIN sales |-> DayLabel(sales[i].day, now)]

-----------------------------------------------------------------------------
(* The pages.                                                               *)

Init ==
  /\ ledger = <<>>
  /\ today = 1
  /\ page = "none"
  /\ figures = <<>>
  /\ moved = 0

\* A request for a page; what it shows stays as it is until the next.
Begin(first) ==
  /\ page = "none"
  /\ page' = first
  /\ UNCHANGED <<ledger, today, figures, moved>>

Leave ==
  /\ page = "shown"
  /\ page' = "none"
  /\ figures' = <<>>
  /\ moved' = 0
  /\ UNCHANGED <<ledger, today>>

Query(step, next, result) ==
  /\ page = step
  /\ page' = next
  /\ figures' = Append(figures, result)
  /\ UNCHANGED <<ledger, today, moved>>

\* page.tsx of the sales review.
ReadMetrics == Query("metrics", "daily", Metrics(ledger, today))
ReadDaily   == Query("daily", "vendors", Daily(ledger, today))
ReadVendors == \E rows \in Rankings(ledger, today) :
                 Query("vendors", "history", VendorRows(ledger, today, rows))
ReadHistory == Query("history", "shown", History(ledger, today))

\* page.tsx of the dashboard.
ReadBoard  == Query("board", "recent", Board(ledger, today))
ReadRecent == Query("recent", "labels", Recent(ledger))
ReadLabels == Query("labels", "shown", DayLabels(figures[2], today))

-----------------------------------------------------------------------------
(* What happens meanwhile.                                                  *)

Move(change) ==
  /\ page # "shown"
  /\ page # "none" => moved < MaxMoves
  /\ moved' = IF page = "none" THEN 0 ELSE moved + 1
  /\ change
  /\ UNCHANGED <<page, figures>>

\* An order of today or an earlier day is stored.
StoreOrder(day, paid, seller) ==
  /\ Len(ledger) < Len(Prices)
  /\ day <= today
  /\ Move(/\ ledger' = Append(ledger, [day |-> day, paid |-> paid, seller |-> seller,
                                       cents |-> Prices[Len(ledger) + 1]])
          /\ UNCHANGED today)

\* It is paid, or refunded.
Restate(k) ==
  Move(/\ ledger' = [ledger EXCEPT ![k].paid = ~@]
       /\ UNCHANGED today)

Midnight ==
  /\ today + 1 \in Days
  /\ Move(today' = today + 1 /\ UNCHANGED ledger)

Next ==
  \/ Begin("metrics") \/ Begin("board") \/ Leave
  \/ ReadMetrics \/ ReadDaily \/ ReadVendors \/ ReadHistory
  \/ ReadBoard \/ ReadRecent \/ ReadLabels
  \/ \E day \in Days, paid \in BOOLEAN, seller \in Sellers \cup {Unfiled} :
       StoreOrder(day, paid, seller)
  \/ \E k \in DOMAIN ledger : Restate(k)
  \/ Midnight

Spec == Init /\ [][Next]_salesVars

-----------------------------------------------------------------------------
(* Properties.                                                              *)

\* What the sales review shows of one month agrees, however its four queries were
\* asked: the bars add up to the gross, the first of the trailing months is the
\* gross and the count, none of the months is named twice, the pace is no more than
\* the whole month it is the pace of, and no vendor sold more than all did.
ReviewAgrees ==
  LET metrics == figures[1]
      daily   == figures[2]
      vendors == figures[3]
      history == figures[4]
  IN /\ Length(daily) = metrics.gross
     /\ history[1] = [year |-> metrics.year, month |-> metrics.month,
                      gross |-> metrics.gross, count |-> metrics.count]
     /\ \A i, j \in DOMAIN history : i # j =>
          <<history[i].year, history[i].month>> # <<history[j].year, history[j].month>>
     /\ \A i \in DOMAIN history : history[i].month \in 1 .. 12
     /\ metrics.pace <= history[2].gross
     /\ Length([i \in DOMAIN vendors |-> vendors[i].gross]) <= metrics.gross

\* On the dashboard the rows labelled as today's are today's sales, as many as fit.
BoardAgrees ==
  LET board  == figures[1]
      recent == figures[2]
      todays == {i \in DOMAIN recent : figures[3][i] = "Today"}
  IN /\ Cardinality(todays) = Least(RecentLimit, board.salesToday)
     /\ \A i \in todays : recent[i].cents <= board.revenueToday
     /\ \A i \in DOMAIN recent : figures[3][i] = "Yesterday" => board.salesToday < RecentLimit

\* A page that nothing was stored under and no midnight divided shows one state of the
\* store: its queries (page.tsx of the sales review, lines 36-39; of the dashboard,
\* lines 17-21) bound the same days, weeks and months.
PageAgrees ==
  page = "shown" /\ moved = 0 =>
    IF Len(figures) = 4 THEN ReviewAgrees ELSE BoardAgrees
=============================================================================
