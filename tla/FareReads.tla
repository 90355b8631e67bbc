------------------------------ MODULE FareReads ------------------------------
(***************************************************************************)
(* What users see of the fares of one search: pages of the offers of the   *)
(* latest run, pages of the price history and of the calendar, the latest  *)
(* fare of a subscription, the trends of the comparison and the dashboard, *)
(* and the prices that alerts are judged by.  Runs are saved meanwhile,    *)
(* some of them later than they observed, some of them failed afterwards.  *)
(*                                                                         *)
(* Prices that may be missing are sets of at most one.  A trend is a set   *)
(* of samples <<run, price>>, tagged with the statement it comes from, so  *)
(* that nothing counted twice is lost in the set.                          *)
(***************************************************************************)
EXTENDS Intake

CONSTANTS Runs,       \* numbers, in the order of their ids
          Answers,    \* bound: the provider's answers
          Provided,   \* what they are, [itineraries, calendar, after]: after is how many
                      \* diagnostics about other things follow those of the itineraries
          Filters,    \* bound: the filters of subscriptions and searches
          Nothing,
          RoundTrip,  \* whether the search has a return flight
          DayLength, MaxTime, PageLimit,
          Window,     \* the days of a trend, in units of time
          ReadAt,     \* bound: lists are read from this moment on, to the next one
          Readings    \* bound: the lists that are read, with their filters

Lists == {"offers", "raw", "days", "calendar"}

IsSequence(s) == s \in Seq(ToSet(s))

\* What the provider sends, whatever is missing in it.
AnswerOK(answer) ==
  /\ IsSequence(answer.itineraries) /\ IsSequence(answer.calendar)
  /\ \A raw \in ToSet(answer.itineraries) :
       /\ IsFiniteSet(raw.prices) /\ raw.prices \subseteq {NoPrice} \cup Nat
       /\ IsSequence(raw.legs) /\ \A leg \in ToSet(raw.legs) : IsSequence(leg)
       /\ raw.remarks \in Nat \X Nat
  /\ answer.after \in Nat
  /\ \A cell \in ToSet(answer.calendar) :
       /\ {cell.out, cell.back} \subseteq {NoDate} \cup Nat
       /\ cell.price \in {NoPrice} \cup Nat

ASSUME FareReadsAssumption ==
  /\ Runs \subseteq Nat /\ {DayLength, PageLimit} \subseteq Nat \ {0}
  /\ {MaxTime, Window, ReadAt, MaxDiagnostics} \subseteq Nat
  /\ Readings \subseteq Lists \X Filters
  /\ RoundTrip \in BOOLEAN /\ IsFiniteSet(Runs) /\ IsFiniteSet(Filters)
  /\ \A f \in Filters : f.direct \in BOOLEAN /\ f.maxPrice \in {Nothing} \cup Nat
  /\ \A answer \in Answers : AnswerOK(Provided[answer])

VARIABLES now,
          directOnly, \* of the search
          run,        \* [stage, at: observed_at, answer, finished, failed]
          calendar,   \* latest calendar prices: the run of each pair of dates
          covered,    \* the days whose trend is aggregated
          reader      \* a client that reads a list page by page

readsVars == <<now, directOnly, run, calendar, covered, reader>>

Day(t) == t \div DayLength
Days == 0..Day(MaxTime)

Saved == {r \in Runs : run[r].stage = "saved"}
Succeeded == {r \in Saved : ~run[r].failed}

\* What an answer becomes in a search, for direct flights or for all, calculated once.
Searches == {<<answer, direct>> : answer \in Answers, direct \in BOOLEAN}
Stored == [x \in Searches |-> Rows(Provided[x[1]].itineraries, x[2])]
CalendarOf == [a \in Answers |-> ReadCalendar(Provided[a].calendar)]

\* The offers of an answer's rows as <<price, row>>; the row stands for the offer's id.
Offers(rows) == UNION {{<<p, i>> : p \in rows[i].prices} : i \in DOMAIN rows}

Cheapest(prices) == IF prices = {} THEN {} ELSE {Min(prices)}

----------------------------------------------------------------------------
(* Filters, in the two ways that the queries state them.                   *)

NeedsScan(f) ==
  \/ f.airlines # {} \/ f.departures # {} \/ f.arrivals # {}
  \/ f.maxStops # Nothing \/ f.maxMinutes # Nothing \/ f.window # <<>>

Outbound(row) == {k \in DOMAIN row.segments : row.segments[k].leg = 0}

\* itinerary_filter_conditions
Admits(f, row) ==
  /\ f.direct => row.direct
  /\ f.maxStops # Nothing => row.stops <= f.maxStops
  /\ f.maxMinutes # Nothing => row.minutes <= f.maxMinutes
  /\ f.airlines # {} =>
       \E k \in DOMAIN row.segments : row.segments[k].segment.airline \in f.airlines
  /\ f.departures # {} \/ f.window # <<>> =>
       /\ 1 \in Outbound(row)
       /\ f.departures # {} => row.segments[1].segment.from \in f.departures
       /\ f.window # <<>> => /\ f.window[1] <= row.segments[1].segment.departs
                             /\ row.segments[1].segment.departs < f.window[2]
  /\ f.arrivals # {} =>
       \E k \in Outbound(row) : /\ row.segments[k].segment.to \in f.arrivals
                                /\ \A later \in Outbound(row) : later <= k

\* _set_based_itinerary_filter_conditions
FirstMatches(f, row) ==
  \E k \in Outbound(row) :
    LET first == row.segments[k].segment IN
    /\ k = 1
    /\ f.departures = {} \/ first.from \in f.departures
    /\ f.window = <<>> \/ (f.window[1] <= first.departs /\ first.departs < f.window[2])

AdmitsRow(f, row) ==
  LET airlines == {row.segments[k].segment.airline : k \in DOMAIN row.segments}
      last == {k \in Outbound(row) : ~\E later \in Outbound(row) : later > k} IN
  /\ ~f.direct \/ row.direct
  /\ f.maxStops = Nothing \/ row.stops <= f.maxStops
  /\ f.maxMinutes = Nothing \/ row.minutes <= f.maxMinutes
  /\ f.airlines = {} \/ airlines \cap f.airlines # {}
  /\ (f.departures = {} /\ f.window = <<>>) \/ FirstMatches(f, row)
  /\ f.arrivals = {} \/ \E k \in last : row.segments[k].segment.to \in f.arrivals

WithinPrice(f, price) == f.maxPrice = Nothing \/ price <= f.maxPrice

----------------------------------------------------------------------------
(* The cheapest fare of an answer, as each of the queries finds it.        *)

\* An answer in a search, seen through a filter.
Cases == {<<x[1], x[2], f>> : x \in Searches, f \in Filters}
RowsFor(c) == Stored[<<c[1], c[2]>>]

\* A mistake that the mutation runs put in place of the definition it is named for.
LowestOfRun(rows, offer) == \A other \in Offers(rows) : offer[1] <= other[1]

\* is_lowest: the cheapest of the run among the direct, or among the other itineraries.
IsLowest(rows, offer) ==
  \A other \in Offers(rows) :
    rows[other[2]].direct = rows[offer[2]].direct => offer[1] <= other[1]

\* A scan of the itineraries if the filter needs one, or else the flagged observations.
RunMinimum(rows, f, admitted) ==
  Cheapest({offer[1] : offer \in {o \in Offers(rows) :
    /\ WithinPrice(f, o[1]) /\ (f.direct => rows[o[2]].direct)
    /\ IF NeedsScan(f) THEN o[2] \in admitted ELSE IsLowest(rows, o)}})

HistoryMinimum(rows, f) == RunMinimum(rows, f, {i \in DOMAIN rows : Admits(f, rows[i])})
InHistory == [c \in Cases |-> HistoryMinimum(RowsFor(c), c[3])]

DashboardMinimum(rows, f) == RunMinimum(rows, f, {i \in DOMAIN rows : AdmitsRow(f, rows[i])})
OnDashboard == [c \in Cases |-> DashboardMinimum(RowsFor(c), c[3])]

FoundIn(rows, f) == {o \in Offers(rows) : WithinPrice(f, o[1]) /\ Admits(f, rows[o[2]])}
Found == [c \in Cases |-> FoundIn(RowsFor(c), c[3])]

BestOfferIn(rows, f) ==
  Cheapest({o[1] : o \in {x \in Offers(rows) : WithinPrice(f, x[1]) /\ AdmitsRow(f, rows[x[2]])}})
BestOffer == [c \in Cases |-> BestOfferIn(RowsFor(c), c[3])]

\* What an alert goes by.
CurrentPriceIn(rows, f) ==
  Cheapest({o[1] : o \in {x \in Offers(rows) :
    /\ WithinPrice(f, x[1]) /\ (f.direct => rows[x[2]].direct)
    /\ NeedsScan(f) => Admits(f, rows[x[2]])}})
CurrentPrice == [c \in Cases |-> CurrentPriceIn(RowsFor(c), c[3])]

----------------------------------------------------------------------------
(* The queries over the runs of the search.                                *)

Of(r, f) == <<run[r].answer, directOnly, f>>

\* The runs observed from one moment up to another, with their minima.
RunMinima(minimum, f, from, until) ==
  UNION {{<<r, p>> : p \in minimum[Of(r, f)]} :
           r \in {s \in Saved : from <= run[s].at /\ run[s].at < until}}

\* The latest run by its end; failed ones do not count.
LatestRun ==
  {r \in Succeeded : \A s \in Succeeded :
     run[s].finished < run[r].finished \/ (run[s].finished = run[r].finished /\ s <= r)}

SearchOffers(r, f) == Found[Of(r, f)]
LatestFare(f) == UNION {BestOffer[Of(r, f)] : r \in LatestRun}

\* What an alert compares with: the other runs observed before this one ended.
PreviousMinimum(r, f, span) ==
  Cheapest({x[2] : x \in {y \in RunMinima(InHistory, f, run[r].finished - span, run[r].finished) :
                            y[1] # r}})

----------------------------------------------------------------------------
(* Trends.  Both views add up the same pieces: the days in between from    *)
(* their aggregates, if every one of them is covered, and what is left of  *)
(* the first and the last day from the observations.                       *)

CeilDay(t) == (t + DayLength - 1) \div DayLength
Tagged(piece, samples) == {<<piece, sample[1], sample[2]>> : sample \in samples}

\* A mistake that the mutation runs put in place of the definition it is named for.
FullDaysRoundedDown(since, asOf) == Day(since)..(Day(asOf) - 1)

\* _full_utc_day_range
FullDays(since, asOf) == CeilDay(since)..(Day(asOf) - 1)

DayMinimumIn(rows, direct) ==
  Cheapest({o[1] : o \in {x \in Offers(rows) : direct => rows[x[2]].direct}})
DailyMinimum ==
  [c \in {<<x[1], x[2], direct>> : x \in Searches, direct \in BOOLEAN} |-> DayMinimumIn(RowsFor(c), c[3])]

\* The aggregate of a covered day, which is kept equal to the day's observations
\* (TrendIsExact of Observations); it has no use for the flags.
Aggregate(d, direct) ==
  UNION {{<<r, p>> : p \in DailyMinimum[Of(r, direct)]} :
           r \in {s \in Saved : Day(run[s].at) = d}}

\* A trend is asked for the time since Window before asOf, both ends included.
Trend(f, asOf) ==
  LET since == asOf - Window
      full == FullDays(since, asOf)
      fullStart == DayLength * Min(full)
      fullEnd == DayLength * (Max(full) + 1) IN
  IF NeedsScan(f) \/ f.maxPrice # Nothing \/ full = {} \/ ~(full \subseteq covered)
  THEN Tagged("observed", RunMinima(OnDashboard, f, since, asOf + 1))
  ELSE UNION {Tagged("days", UNION {Aggregate(d, f.direct) : d \in full}),
              Tagged("start", RunMinima(OnDashboard, f, since, fullStart)),
              Tagged("end", RunMinima(OnDashboard, f, fullEnd, asOf + 1))}

Price(x) == x[Len(x)]

\* The sum of a function's values, numbers: so many pairs there are.
SumOf(number) == Cardinality(UNION {{x} \X (1..number[x]) : x \in DOMAIN number})

\* A row of a statement: the samples of one day, added up.
Row(samples) ==
  [lowest |-> Min({Price(x) : x \in samples}), highest |-> Max({Price(x) : x \in samples}),
   sum |-> SumOf([x \in samples |-> Price(x)]), count |-> Cardinality(samples)]

\* The rows of every filter, day and piece, and the points of the dashboard: the rows of
\* a day put together.
RowsOf(samples) ==
  [key \in {<<x[1], x[2], x[3]>> : x \in samples} |->
     Row({x \in samples : <<x[1], x[2], x[3]>> = key})]

Point(row, keys) ==
  LET Total(field) == SumOf([key \in keys |-> row[key][field]]) IN
  [lowest |-> Min({row[key].lowest : key \in keys}), highest |-> Max({row[key].highest : key \in keys}),
   sum |-> Total("sum"), count |-> Total("count")]

PointsOf(row) ==
  [day \in {key[3] : key \in DOMAIN row} |-> Point(row, {key \in DOMAIN row : key[3] = day})]

Points(filters, asOf) ==
  PointsOf(RowsOf(UNION {{<<f, x[1], Day(run[x[2]].at), x[2], x[3]>> : x \in Trend(f, asOf)} :
                           f \in filters}))

----------------------------------------------------------------------------
(* The calendar: the fare of a pair of dates by itself, and its trend.     *)

Fare(r, pair) == CalendarOf[run[r].answer][pair]

LatestCalendarFare(pair) == IF pair \in DOMAIN calendar THEN {Fare(calendar[pair], pair)} ELSE {}

\* What a fare costs: of a round trip its total, where there is one.
Cost(fare) == (IF RoundTrip THEN {fare.total} ELSE {fare.price}) \ {NoPrice}

CalendarTrend(pair, asOf) ==
  UNION {{<<r, p>> : p \in Cost(Fare(r, pair))} :
           r \in {s \in Saved : /\ pair \in DOMAIN CalendarOf[run[s].answer]
                                /\ asOf - Window <= run[s].at /\ run[s].at <= asOf}}

----------------------------------------------------------------------------
(* Lists that are read page by page.  The first page fixes the moment of   *)
(* the list, or its run, and the cursor is the key of the last row.        *)

\* The keys of a list, pairs that order it.
Keys(list, f, asOf, pinned) ==
  CASE list = "offers"   -> UNION {SearchOffers(r, f) : r \in pinned}
    [] list = "raw"      -> {<<run[x[1]].at, x[1]>> : x \in RunMinima(InHistory, f, asOf - Window, asOf + 1)}
    [] list = "days"     -> {<<Day(run[x[1]].at), 0>> : x \in RunMinima(InHistory, f, asOf - Window, asOf + 1)}
    [] list = "calendar" -> {pair \in DOMAIN calendar : RoundTrip <=> pair[2] # 0}

\* A mistake that the mutation runs put in place of the definition it is named for.
AfterFirstOnly(keys, cursor) == {k \in keys : cursor = <<>> \/ cursor[1] < k[1]}

After(keys, cursor) == {k \in keys : cursor = <<>> \/ Precedes(cursor, k)}

Idle == [list |-> Nothing]

StartsReading(list, f) ==
  LET pinned == IF list = "offers" THEN LatestRun ELSE {} IN
  /\ reader = Idle /\ now = ReadAt
  /\ list = "offers" => pinned # {}
  /\ reader' = [list |-> list, filter |-> f, asOf |-> now, pinned |-> pinned,
                first |-> Keys(list, f, now, pinned), got |-> <<>>, done |-> FALSE]
  /\ UNCHANGED <<now, directOnly, run, calendar, covered>>

ReadsPage ==
  LET rest == InOrder(After(Keys(reader.list, reader.filter, reader.asOf, reader.pinned),
                            IF reader.got = <<>> THEN <<>> ELSE Last(reader.got)))
      page == SubSeq(rest, 1, Min({PageLimit, Len(rest)})) IN
  /\ reader # Idle /\ ~reader.done
  /\ reader.pinned \subseteq Succeeded
  /\ reader' = [reader EXCEPT !.got = @ \o page, !.done = Len(rest) <= PageLimit]
  /\ UNCHANGED <<now, directOnly, run, calendar, covered>>

\* The next page is refused when the run has been failed since; a client may also stop.
StopsReading ==
  /\ reader # Idle
  /\ reader' = Idle
  /\ UNCHANGED <<now, directOnly, run, calendar, covered>>

----------------------------------------------------------------------------
(* Runs and time.                                                          *)

Unobserved == [stage |-> "none"]

ReadsInit ==
  /\ now = 0
  /\ directOnly \in BOOLEAN
  /\ run = [r \in Runs |-> Unobserved]
  /\ calendar = <<>>
  /\ covered = {}
  /\ reader = Idle

Captures(r, answer) ==
  /\ run[r].stage = "none"
  /\ run' = [run EXCEPT ![r] = [stage |-> "captured", at |-> now, answer |-> answer]]
  /\ UNCHANGED <<now, directOnly, calendar, covered, reader>>

\* A date keeps the fare that was observed last, whenever it was saved.
Newest(r) ==
  LET mine == DOMAIN CalendarOf[run[r].answer] IN
  [pair \in DOMAIN calendar \cup mine |->
     IF pair \in mine /\ (pair \in DOMAIN calendar => run[calendar[pair]].at <= run[r].at)
     THEN r ELSE calendar[pair]]

\* The end of a run that succeeds is the end of its capture, whenever it is saved.
Saves(r) ==
  /\ run[r].stage = "captured"
  /\ run' = [run EXCEPT ![r] = [stage |-> "saved", at |-> @.at, answer |-> @.answer,
                                finished |-> @.at, failed |-> FALSE]]
  /\ calendar' = Newest(r)
  /\ covered' = covered \cup {Day(run[r].at)}
  /\ UNCHANGED <<now, directOnly, reader>>

\* A claim error recorded on a run that has ended: its rows remain, its end is now.
FailsLate(r) ==
  /\ r \in Succeeded
  /\ run' = [run EXCEPT ![r].failed = TRUE, ![r].finished = now]
  /\ UNCHANGED <<now, directOnly, calendar, covered, reader>>

\* maintain_daily_trend_aggregates, of a whole range of days.
Maintains ==
  /\ covered # Days
  /\ covered' = Days
  /\ UNCHANGED <<now, directOnly, run, calendar, reader>>

Tick ==
  /\ now < MaxTime
  /\ reader # Idle => now <= ReadAt
  /\ now' = now + 1
  /\ UNCHANGED <<directOnly, run, calendar, covered, reader>>

\* Filters that can be asked for: a search for direct flights has only those.
Asked == {f \in Filters : directOnly => f.direct}

ReadsNext ==
  \/ \E r \in Runs, answer \in Answers : Captures(r, answer)
  \/ \E r \in Runs : Saves(r) \/ FailsLate(r)
  \/ \E reading \in Readings : reading[2] \in Asked /\ StartsReading(reading[1], reading[2])
  \/ ReadsPage \/ StopsReading \/ Maintains \/ Tick

ReadsSpec == ReadsInit /\ [][ReadsNext]_readsVars

----------------------------------------------------------------------------
\* Whatever is saved, failed or maintained between two pages, a list that is read to
\* its end is in order, repeats nothing, misses nothing that it held at the start, and
\* adds nothing that is not in it.
PagesAreWhole ==
  reader # Idle /\ reader.done =>
    /\ \A i \in 1..(Len(reader.got) - 1) : Precedes(reader.got[i], reader.got[i + 1])
    /\ reader.first \subseteq ToSet(reader.got)
    /\ ToSet(reader.got) \subseteq Keys(reader.list, reader.filter, reader.asOf, reader.pinned)

\* What a run offers at best under a filter, with nothing but its offers to go by.
BestOf == [c \in Cases |-> Cheapest({o[1] : o \in Found[c]})]
Best(r, f) == BestOf[Of(r, f)]

\* One price has one value everywhere: the first offer of the search, the latest fare
\* of the subscription, the run's entry in the history and in the trend, and the price
\* an alert is judged by, though some go by flags set on saving and some by a scan of
\* the itineraries; what an alert compares it with is the best of the other runs; and
\* the calendar shows of every date the fare that was observed last, where its trend ends.
ViewsAgree ==
  \A f \in Asked :
    /\ LatestFare(f) = UNION {Best(r, f) : r \in LatestRun}
    /\ LET all == UNION {{<<r, p>> : p \in Best(r, f)} : r \in Saved} IN
       /\ RunMinima(InHistory, f, 0, MaxTime + 1) = all
       /\ RunMinima(OnDashboard, f, 0, MaxTime + 1) = all
    /\ \A r \in Saved :
         /\ CurrentPrice[Of(r, f)] = Best(r, f)
         /\ PreviousMinimum(r, f, Window) = Cheapest(UNION {Best(s, f) : s \in
              {q \in Saved \ {r} : run[r].finished - Window <= run[q].at /\ run[q].at < run[r].finished}})
    /\ \A pair \in {x \in DOMAIN calendar : RoundTrip <=> x[2] # 0} :
         LET trend == CalendarTrend(pair, now)
             last == {x \in trend : \A y \in trend : run[y[1]].at <= run[x[1]].at} IN
         /\ \A x \in trend : run[x[1]].at <= run[calendar[pair]].at
         /\ run[calendar[pair]].at >= now - Window =>
              UNION {Cost(fare) : fare \in LatestCalendarFare(pair)} \subseteq {x[2] : x \in last}

\* A trend has every run of its time once, with its best price, whether it is put
\* together from aggregated days and what is left of the first and the last or read
\* from the observations alone; and a point of the dashboard weighs every one alike.
\* (A reader changes none of this, so it is enough to look while there is none.)
TrendsAreExact == reader = Idle =>
  LET recent == {r \in Saved : run[r].at >= now - Window}
      all == UNION {{<<f, r, p>> : p \in Best(r, f)} : f \in Asked, r \in recent}
      On(day) == {x \in all : Day(run[x[2]].at) = day} IN
  /\ \A f \in Asked :
       LET trend == Trend(f, now) IN
       /\ {<<f, x[2], x[3]>> : x \in trend} = {x \in all : x[1] = f}
       /\ Cardinality(trend) = Cardinality({x \in all : x[1] = f})
  /\ Points(Asked, now) = [day \in {Day(run[x[2]].at) : x \in all} |-> Row(On(day))]

\* Every itinerary is stored with all of its segments and offers, or the run has a
\* diagnostic about what is missing of it (a report, not a remark, of one of its parts).
\* The exception: reports of more than a run keeps, of which the first are lost.
Explained == [x \in Searches |->
  LET answer == Provided[x[1]]
      page == answer.itineraries
      rows == Stored[x] IN
  \/ Cardinality(Reports(page, x[2])) + answer.after > MaxDiagnostics
  \/ \A i \in DOMAIN page :
       \/ /\ i \in DOMAIN rows
          /\ rows[i].prices = page[i].prices
          /\ \A leg \in DOMAIN page[i].legs : \A k \in DOMAIN page[i].legs[leg] :
               [leg |-> leg - 1, segment |-> page[i].legs[leg][k]] \in ToSet(rows[i].segments)
       \/ \E report \in Diagnostics(page, x[2], answer.after) :
            report[2] = i /\ report[3] \in 1..(Len(page[i].legs) + 1)]

\* Nothing the provider answered gets lost in silence, as long as there is not more to
\* report than a run keeps: what is not stored has a diagnostic about it.
LossIsExplained == \A r \in Saved : Explained[<<run[r].answer, directOnly>>]
=============================================================================
