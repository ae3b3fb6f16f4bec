---------------------------- MODULE MCTileLookup -----------------------------
(***************************************************************************)
(* A tile for every sorted list of up to MaxRows rows.  A row is a key, a  *)
(* time and a bit; each of the four tables takes what it needs of it, the  *)
(* bit being the text, the mode, the stop or the trip and its days.        *)
(***************************************************************************)
EXTENDS TileLookup, FiniteSets, TLC

CONSTANT MaxRows

\* Requests are for keys between, below and above those of the rows.
RowKeys     == {1, 3}
RequestKeys == 0 .. 3

Rows == [key : RowKeys, time : {1, 2}, bit : {1, 2}]
InOrder(a, b) == a.key < b.key \/ (a.key = b.key /\ a.time <= b.time)

\* What lies after the end of each table looks like a row with the last key.
After == [key |-> 3, time |-> 2, bit |-> 2]

Lists == UNION {{f \in [0 .. n - 1 -> Rows] :
                   \A i \in 1 .. n - 1 : InOrder(f[i - 1], f[i])} : n \in 0 .. MaxRows}

TileFrom(n, list) ==
  [signs |-> [count |-> n, row |->
     [i \in 0 .. n |-> [key |-> list[i].key, has_text |-> list[i].bit = 1]]],
   access_restrictions |-> [count |-> n, row |->
     [i \in 0 .. n |-> [key |-> list[i].key, modes |-> {list[i].bit}]]],
   transfers |-> [count |-> n, row |->
     [i \in 0 .. n |-> [key |-> list[i].key, to_stopid |-> list[i].bit]]],
   departures |-> [count |-> n, row |->
     [i \in 0 .. n |->
        [key |-> list[i].key, tripid |-> list[i].bit, departure_time |-> list[i].time,
         end_day |-> 1, days |-> {list[i].bit - 1}, days_of_week |-> {list[i].bit}]]]]

MCTiles == {TileFrom(Cardinality(DOMAIN f), f @@ (Cardinality(DOMAIN f) :> After)) :
            f \in Lists}

Request(op, key, arg) == [op |-> op, key |-> key, arg |-> arg]

\* A day the masks of days reach, one they do not, and one before the tile.
Days == {[day |-> 0, dow |-> {2}, before |-> FALSE],
         [day |-> 2, dow |-> {1}, before |-> FALSE],
         [day |-> 1, dow |-> {1}, before |-> TRUE]}

MCRequests == UNION {
  {Request("GetSigns", key, {}), Request("GetTransfers", key, {}),
   Request("GetAccessRestrictions", key, {1})}
  \cup {Request(op, key, id) : op \in {"GetTransfer", "GetTransitDeparture"},
                               id \in {1, 2}}
  \cup {Request("GetNextDeparture", key,
                [current_time |-> time, day |-> d.day, dow |-> d.dow,
                 date_before_tile |-> d.before]) : time \in {1, 2}, d \in Days} :
  key \in RequestKeys}
=============================================================================
