------------------------------- MODULE Intake -------------------------------
(***************************************************************************)
(* From the provider's answer to the rows of a run.  The adapter reads     *)
(* itineraries, legs, segments and offers and leaves out what it cannot    *)
(* read; persistence leaves out what it cannot place in time; both report  *)
(* what they leave out, and the last MaxDiagnostics reports are stored with*)
(* the run.  A report is <<stage, itinerary, leg, part>>, and the order of *)
(* these numbers is the order of the reports.                              *)
(*                                                                         *)
(* An answer has itineraries, in order: [id, legs, minutes, prices,        *)
(* remarks], where remarks has the numbers of reports by the adapter and   *)
(* by persistence that cost no segment and no offer (of durations, taxes   *)
(* and seats, and further ones of what is reported already).  A leg is a   *)
(* sequence of segments [airline, from, to, departs, minutes, stops,       *)
(* fault]; departs is the local minute of the day, minutes is 0 where the  *)
(* provider gives none, and fault is none, unread (a required field is     *)
(* missing), untimed (without a time zone) or unfit (no airline, or a      *)
(* duration that is not positive).  An offer is its price.  A calendar is  *)
(* a sequence of cells [out, back, price, total]; back is 0 if one-way,    *)
(* total is NoPrice where there is none.                                   *)
(***************************************************************************)
EXTENDS Integers, Sequences, FiniteSets, SequencesExt, FiniteSetsExt

CONSTANTS NoId,       \* an itinerary without identifier
          NoPrice,    \* an offer without a valid total
          NoDate,     \* a date that cannot be read
          MaxDiagnostics  \* how many diagnostics a run keeps, 100 in the code

----------------------------------------------------------------------------
(* Rows in order.                                                          *)

\* Pairs of numbers, by the first and then by the second.
Precedes(a, b) == a[1] < b[1] \/ (a[1] = b[1] /\ a[2] < b[2])

\* The sequence of a finite set of them.
InOrder(pairs) ==
  [n \in 1..Cardinality(pairs) |->
     CHOOSE x \in pairs : Cardinality({y \in pairs : Precedes(y, x)}) = n - 1]

----------------------------------------------------------------------------
(* The adapter.  The place of a segment is the number of its leg and its   *)
(* own in there, and stays the same whatever is left out beside it.        *)

Parses(segment) == segment.fault # "unread"

At(raw, place) == raw.legs[place[1]][place[2]]

Places(raw) == UNION {{leg} \X DOMAIN raw.legs[leg] : leg \in DOMAIN raw.legs}

Read(raw) == {place \in Places(raw) : Parses(At(raw, place))}

\* A leg without any segment left is left out.
ReadLegs(raw) == {place[1] : place \in Read(raw)}

ReadPrices(raw) == raw.prices \ {NoPrice}

\* The first readable itinerary of an id is kept; those without id are distinct.
Kept(page) ==
  {i \in DOMAIN page :
     /\ ReadLegs(page[i]) # {}
     /\ \A j \in 1..(i - 1) :
          page[j].id = page[i].id /\ page[i].id # NoId => ReadLegs(page[j]) = {}}

\* A report for every part of an itinerary.
Reported(stage, i, parts) == {<<stage, i, part[1], part[2]>> : part \in parts}

\* What else there is to remark of an itinerary comes last.
Remarks(raw, stage) == {<<Len(raw.legs) + 2, n>> : n \in 1..raw.remarks[stage]}

\* What the adapter cannot read: the id, segments, every leg, or an offer.
Unread(raw) ==
  UNION {{<<0, 0>> : id \in {raw.id} \cap {NoId}},
         Places(raw) \ Read(raw),
         IF ReadLegs(raw) = {} THEN {<<Len(raw.legs) + 1, 0>>}
         ELSE {<<Len(raw.legs) + 1, 1>> : price \in raw.prices \cap {NoPrice}},
         Remarks(raw, 1)}

\* Readable itineraries that repeat an id, which are reported after all were read.
Repeated(page) == {i \in DOMAIN page : ReadLegs(page[i]) # {}} \ Kept(page)

ReportsOfAdapter(page) ==
  {<<2, i, 1, 0>> : i \in Repeated(page)}
  \cup UNION {Reported(1, i, Unread(page[i])) : i \in DOMAIN page}

\* Of cells with the same dates the first of the cheapest is kept.
FirstCheapest(cells, calendar) ==
  Min({i \in cells : \A j \in cells : calendar[i].price <= calendar[j].price})

\* A return date that cannot be read is left out, and the cell is a one-way fare.
ReadCalendar(calendar) ==
  LET read == {i \in DOMAIN calendar : calendar[i].out # NoDate /\ calendar[i].price # NoPrice}
      Dates(i) == <<calendar[i].out, IF calendar[i].back = NoDate THEN 0 ELSE calendar[i].back>>
  IN [pair \in {Dates(i) : i \in read} |->
        calendar[FirstCheapest({i \in read : Dates(i) = pair}, calendar)]]

----------------------------------------------------------------------------
(* Persistence.                                                            *)

Timed(segment) == segment.fault # "untimed"

Placed(segment) == Timed(segment) /\ segment.fault # "unfit"

PlacedIn(raw) == {place \in Read(raw) : Placed(At(raw, place))}

PlacedLegs(raw) == {place[1] : place \in PlacedIn(raw)}

\* The rows of an itinerary, numbered through all of its legs.
Segments(raw) ==
  LET at == InOrder(PlacedIn(raw)) IN
  [n \in DOMAIN at |-> [leg |-> at[n][1] - 1, segment |-> At(raw, at[n])]]

\* A leg without any segment left takes the itinerary with it.
Normalizes(raw) == ReadLegs(raw) = PlacedLegs(raw)

IsDirect(raw) ==
  /\ \A place \in PlacedIn(raw) : At(raw, place).stops = 0
  /\ Cardinality(PlacedIn(raw)) = Cardinality(ReadLegs(raw))

Sum(f) == FoldLeft(LAMBDA a, b : a + b, 0, f)

\* A change of flights within a leg is a stop, too.
Stops(raw) ==
  Cardinality(PlacedIn(raw)) - Cardinality(ReadLegs(raw))
  + Sum([k \in DOMAIN Segments(raw) |-> Segments(raw)[k].segment.stops])

Minutes(raw) ==
  IF raw.minutes > 0 THEN raw.minutes
  ELSE Sum([k \in DOMAIN Segments(raw) |-> Segments(raw)[k].segment.minutes])

Itinerary(raw) ==
  [segments |-> Segments(raw), direct |-> IsDirect(raw), stops |-> Stops(raw),
   minutes |-> Minutes(raw), prices |-> ReadPrices(raw)]

\* A search for direct flights keeps nothing else.
Persisted(page, direct) ==
  {i \in Kept(page) : Normalizes(page[i]) /\ (direct => IsDirect(page[i]))}

\* What persistence leaves out: segments, legs without any left, the itinerary.
LeftOut(page, direct, i) ==
  LET raw == page[i] IN
  UNION {Read(raw) \ PlacedIn(raw),
         {<<leg, Len(raw.legs[leg]) + 1>> : leg \in ReadLegs(raw) \ PlacedLegs(raw)},
         {<<Len(raw.legs) + 1, 0>> : skipped \in {i} \ Persisted(page, direct)},
         Remarks(raw, 2)}

\* A mistake that the mutation runs put in place of the definition it is named for.
ReportsOfSkipped(page, direct) ==
  {<<3, i, Len(page[i].legs) + 1, 0>> : i \in Kept(page) \ Persisted(page, direct)}

ReportsOfPersistence(page, direct) ==
  UNION {Reported(3, i, LeftOut(page, direct, i)) : i \in Kept(page)}

Rows(page, direct) == [i \in Persisted(page, direct) |-> Itinerary(page[i])]

Reports(page, direct) == ReportsOfAdapter(page) \cup ReportsOfPersistence(page, direct)

\* The order of the reports.
ReportedBefore(a, b) == \E k \in 1..4 : a[k] < b[k] /\ \A j \in 1..(k - 1) : a[j] = b[j]

\* The run keeps the last ones; after is how many others follow, about the calendar if
\* it was captured last and about the capture itself if it was incomplete.
Diagnostics(page, direct, after) ==
  LET reports == Reports(page, direct) IN
  {x \in reports : Cardinality({y \in reports : ReportedBefore(x, y)}) + after < MaxDiagnostics}
=============================================================================
