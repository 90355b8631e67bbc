----------------------------- MODULE MCFareReads -----------------------------
(***************************************************************************)
(* TLC instances of FareReads: answers with every fault the adapter and    *)
(* persistence tell apart, and filters of every kind.                      *)
(***************************************************************************)
EXTENDS FareReads

CONSTANTS a1, a2, a3,             \* answers
          ax, bx,                 \* airlines
          pek, pkx, sha, pvg, wuh \* airports: origin (two), destination (two), in between

Flight(airline, from, to, departs, minutes) ==
  [airline |-> airline, from |-> from, to |-> to, departs |-> departs,
   minutes |-> minutes, stops |-> 0, fault |-> "none"]

Direct == Flight(ax, pek, sha, 2, 3)
Early == Flight(bx, pkx, sha, 1, 3)
First == Flight(bx, pek, wuh, 2, 2)
Second == Flight(ax, wuh, pvg, 5, 2)
Back == Flight(ax, sha, pek, 6, 3)

Faulty(segment, fault) == [segment EXCEPT !.fault = fault]

Plan(id, legs, prices) ==
  [id |-> id, legs |-> legs, minutes |-> 0, prices |-> prices, remarks |-> <<0, 0>>]

Cell(out, back, price, total) == [out |-> out, back |-> back, price |-> price, total |-> total]

\* The cheapest is a connection, the cheapest direct flight costs more than another one.
\* If only that is searched for, the diagnostics that follow displace the connection's.
A1 ==
  [itineraries |-> <<Plan(1, <<<<Direct>>>>, {5, 6}), Plan(2, <<<<First, Second>>>>, {3, 5})>>,
   calendar |-> <<Cell(1, 0, 4, 4), Cell(2, 3, 6, 8), Cell(2, 3, 5, 9), Cell(NoDate, 3, 1, 1)>>,
   after |-> 7]

\* A stop on the way, a leg without flights, an id twice, an offer without a price.
A2 ==
  [itineraries |-> <<[Plan(1, <<<<[Early EXCEPT !.stops = 1]>>>>, {2}) EXCEPT !.remarks = <<1, 1>>],
                     Plan(NoId, <<<<Early>>, <<>>>>, {4, NoPrice}),
                     Plan(1, <<<<Direct>>>>, {1})>>,
   calendar |-> <<Cell(2, 3, 7, 7), Cell(1, NoDate, 3, 3), Cell(3, 0, 2, 2), Cell(3, 4, 2, NoPrice)>>,
   after |-> 1]

\* Flights that cannot be read or placed, alone and beside others: as many reports as
\* a run keeps.
A3 ==
  [itineraries |-> <<Plan(1, <<<<Faulty(Direct, "untimed")>>, <<Back>>>>, {1}),
                     Plan(2, <<<<Direct>>, <<Faulty(Back, "unread")>>>>, {6}),
                     Plan(3, <<<<Faulty(Early, "unread")>>>>, {1}),
                     Plan(4, <<<<First, Faulty(Second, "unfit")>>>>, {4})>>,
   calendar |-> <<Cell(2, 3, NoPrice, 6), Cell(3, 0, 5, 5), Cell(3, 4, 6, 9)>>,
   after |-> 0]

TheProvided == a1 :> A1 @@ a2 :> A2 @@ a3 :> A3

AnyFare == [direct |-> FALSE, airlines |-> {}, departures |-> {}, arrivals |-> {},
        maxPrice |-> Nothing, maxStops |-> Nothing, maxMinutes |-> Nothing, window |-> <<>>]

TheFilters == {
  AnyFare,
  [AnyFare EXCEPT !.direct = TRUE],
  [AnyFare EXCEPT !.maxPrice = 4],
  [AnyFare EXCEPT !.direct = TRUE, !.airlines = {ax}, !.maxStops = 0],
  [AnyFare EXCEPT !.departures = {pek}, !.window = <<2, 4>>, !.maxMinutes = 4],
  [AnyFare EXCEPT !.arrivals = {pvg}, !.maxPrice = 5]}

TheReadings == {"offers", "raw", "days", "calendar"} \X {AnyFare}
=============================================================================
