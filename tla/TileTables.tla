----------------------------- MODULE TileTables ------------------------------
(***************************************************************************)
(* The tables of a tile that are searched by a key - signs, transit        *)
(* departures, transit transfers and access restrictions - and the six     *)
(* calls of graphtile.cc that do it.                                       *)
(*                                                                         *)
(* A table holds rows 0 .. count-1, sorted.  row[count] stands for the     *)
(* bytes that follow the table in memory, which loops do read: whatever    *)
(* the next section of the tile, or the heap, happens to hold there.       *)
(***************************************************************************)
EXTENDS Integers

CONSTANTS
  Tiles,        \* the tiles in the cache
  Requests,     \* the calls that get made
  Nullptr, Thrown

Ops == {"GetSigns", "GetAccessRestrictions", "GetTransfers", "GetTransfer",
        "GetNextDeparture", "GetTransitDeparture"}

TableOf(op) ==
  CASE op = "GetSigns" -> "signs"
    [] op = "GetAccessRestrictions" -> "access_restrictions"
    [] op \in {"GetTransfers", "GetTransfer"} -> "transfers"
    [] op \in {"GetNextDeparture", "GetTransitDeparture"} -> "departures"

Table(tile, r) == tile[TableOf(r.op)]

\* key: edgeindex of signs and access restrictions, lineid of departures,
\* from_stopid of transfers.  has_text: text_offset < textlist_size_.
Sign              == [key : Nat, has_text : BOOLEAN]
AccessRestriction == [key : Nat, modes : SUBSET Nat]
TransitTransfer   == [key : Nat, to_stopid : Nat]
TransitDeparture  == [key : Nat, tripid : Nat, departure_time : Nat,
                      end_day : Nat, days : SUBSET Nat, days_of_week : SUBSET Nat]

\* Rows sorted by the operator< of their type.
IsTable(t, RowType) ==
  /\ t.count \in Nat
  /\ \A i \in 0 .. t.count : t.row[i] \in RowType
  /\ \A i, j \in 0 .. t.count - 1 : i < j => t.row[i].key <= t.row[j].key

SortedByTime(t) ==
  \A i, j \in 0 .. t.count - 1 :
    i < j /\ t.row[i].key = t.row[j].key
      => t.row[i].departure_time <= t.row[j].departure_time

\* arg of a call: nothing for GetSigns and GetTransfers, the modes of access,
\* the to_stopid, the tripid, or when to depart.
When == [current_time : Nat, day : Nat, dow : SUBSET Nat, date_before_tile : BOOLEAN]

ASSUME TableTypes ==
  /\ \A tile \in Tiles :
       /\ IsTable(tile["signs"], Sign)
       /\ IsTable(tile["access_restrictions"], AccessRestriction)
       /\ IsTable(tile["transfers"], TransitTransfer)
       /\ IsTable(tile["departures"], TransitDeparture)
       /\ SortedByTime(tile["departures"])
  /\ \A r \in Requests :
       /\ r.op \in Ops
       /\ r.key \in Nat
       /\ r.op = "GetNextDeparture" => r.arg \in When
  /\ Nullptr \notin Int /\ Thrown \notin Int /\ Nullptr # Thrown

\* Before the first call.
NoRequest == [op |-> "none"]

\* A departure runs on a day by the mask of days while that reaches,
\* otherwise by the days of the week.
Runs(dep, when) ==
  IF ~when.date_before_tile /\ when.day <= dep.end_day
    THEN when.day \in dep.days
    ELSE dep.days_of_week \cap when.dow # {}

\* The row is one that request r looks for, once the key is right.
Fits(r, row) ==
  \/ r.op \in {"GetSigns", "GetTransfers"}
  \/ r.op = "GetAccessRestrictions" /\ row.modes \cap r.arg # {}
  \/ r.op = "GetTransfer" /\ row.to_stopid = r.arg
  \/ r.op = "GetTransitDeparture" /\ row.tripid = r.arg
  \/ /\ r.op = "GetNextDeparture"
     /\ row.departure_time >= r.arg.current_time
     /\ Runs(row, r.arg)

\* The rows with the key, and those of them that fit.
Matches(tile, r) ==
  {i \in 0 .. Table(tile, r).count - 1 : Table(tile, r).row[i].key = r.key}
Hits(tile, r) ==
  {i \in Matches(tile, r) : Fits(r, Table(tile, r).row[i])}
=============================================================================
