---------------------------- MODULE TableAnswers -----------------------------
(***************************************************************************)
(* What the table lookups of a tile promise: a caller asks, and the answer *)
(* is one the whole table justifies, however the lookup goes about it.     *)
(* TileLookup implements this, with one kind of wrong answer (Stray).      *)
(***************************************************************************)
EXTENDS TileTables

VARIABLES
  tile,   \* the tile that is asked, which never changes
  req,    \* the last request
  busy,   \* it has not been answered
  ans     \* the last answer, Nullptr until there is one

vars == <<tile, req, busy, ans>>

Row(i) == Table(tile, req).row[i]
Match  == Matches(tile, req)
Hit    == Hits(tile, req)

\* All signs of the edge, or an exception if one has no text.
AllSigns(a) == IF \A i \in Match : Row(i).has_text THEN a = Match ELSE a = Thrown

\* Where the transfers from the stop begin, and how many there are.
TransferRange(a) ==
  \/ Match = {} /\ a = [start |-> Nullptr, n |-> 0]
  \/ /\ Match # {}
     /\ a = [start |-> a.start, n |-> a.n]
     /\ a.start \in Int /\ a.n \in Int
     /\ Match = a.start .. a.start + a.n - 1

\* The transfer between two stops.
ThatTransfer(a) == IF Hit = {} THEN a = Nullptr ELSE a \in Hit

\* The earliest departure of the line that still runs.
EarliestDeparture(a) ==
  \/ Hit = {} /\ a = Nullptr
  \/ /\ a \in Hit
     /\ \A i \in Hit : Row(a).departure_time <= Row(i).departure_time

\* The departure of the line with the trip.
TripDeparture(a) == IF Hit = {} THEN a = Nullptr ELSE a \in Hit

RightAnswer(a) ==
  \/ req.op = "GetSigns" /\ AllSigns(a)
  \/ req.op = "GetAccessRestrictions" /\ a = Hit
  \/ req.op = "GetTransfers" /\ TransferRange(a)
  \/ req.op = "GetTransfer" /\ ThatTransfer(a)
  \/ req.op = "GetNextDeparture" /\ EarliestDeparture(a)
  \/ req.op = "GetTransitDeparture" /\ TripDeparture(a)

Init == tile \in Tiles /\ req = NoRequest /\ ~busy /\ ans = Nullptr

Ask(r) == /\ ~busy
          /\ req' = r
          /\ busy'
          /\ ans' = Nullptr
          /\ UNCHANGED tile

Answer == /\ busy /\ ~busy'
          /\ RightAnswer(ans')
          /\ UNCHANGED <<tile, req>>

\* No right answer, and told apart from them: asked for a trip that a line with
\* departures does not have, the code scans on without a look at the line
\* (graphtile.cc:513-518) and may return a departure of another line that has
\* the trip, or what lies behind the table.
Stray ==
  /\ busy /\ ~busy'
  /\ req.op = "GetTransitDeparture" /\ Hit = {} /\ Match # {}
  /\ ans' \in 0 .. Table(tile, req).count
  /\ Row(ans').tripid = req.arg
  /\ UNCHANGED <<tile, req>>

Next == Answer \/ Stray \/ \E r \in Requests : Ask(r)

Spec == Init /\ [][Next]_vars
=============================================================================
