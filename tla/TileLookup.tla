----------------------------- MODULE TileLookup ------------------------------
(***************************************************************************)
(* graphtile.cc:347-702: the lookups in the sorted tables of a tile, loop  *)
(* iteration by loop iteration.  Each is a binary search for any row with  *)
(* the key, a loop that backs up to the first row of interest, and a loop  *)
(* that scans forward.  low, high, mid and m are the code's variables.     *)
(***************************************************************************)
EXTENDS TileTables

VARIABLES
  tile,   \* the tile the calls are made on
  req,    \* the call in progress, or the last one
  pc,     \* the loop it is in
  low, high, mid,
  m,      \* GetTransfer's m, GetTransfers' start
  rows,   \* the rows copied into the result vector, which is in table order
  ans     \* what the last call returned or threw

vars == <<tile, req, pc, low, high, mid, m, rows, ans>>

Row(i) == Table(tile, req).row[i]
count  == Table(tile, req).count
SameKey(i) == Row(i).key = req.key

Init ==
  /\ tile \in Tiles
  /\ req = NoRequest
  /\ pc = "idle"
  /\ low = 0 /\ high = 0 /\ mid = 0 /\ m = 0
  /\ rows = {}
  /\ ans = Nullptr

Call(r) ==
  /\ pc = "idle"
  /\ req' = r
  /\ pc' = "start"
  /\ ans' = Nullptr
  /\ UNCHANGED <<tile, low, high, mid, m, rows>>

\* The call returns a, its local variables are gone.
Return(a) ==
  /\ pc' = "idle"
  /\ ans' = a
  /\ low' = 0 /\ high' = 0 /\ mid' = 0 /\ m' = 0
  /\ rows' = {}
  /\ UNCHANGED <<tile, req>>

\* What a call returns that finds no row with the key.
None ==
  IF req.op \in {"GetSigns", "GetAccessRestrictions"} THEN {}
  ELSE IF req.op = "GetTransfers" THEN [start |-> Nullptr, n |-> 0]
  ELSE Nullptr

\* The loop goes on in pc l with the cursor at i.
Goto(l, i) ==
  /\ pc' = l
  /\ mid' = i
  /\ UNCHANGED <<tile, req, low, high, m, rows, ans>>

-----------------------------------------------------------------------------
(* The binary search, the same in all six.                                 *)

\* Mutant of Start: high is the count.
StartHigh ==
  /\ pc = "start"
  /\ \/ count = 0 /\ Return(None)
     \/ /\ count # 0
        /\ pc' = "search"
        /\ low' = 0 /\ high' = count
        /\ UNCHANGED <<tile, req, mid, m, rows, ans>>

Start ==
  /\ pc = "start"
  /\ \/ count = 0 /\ Return(None)
     \/ /\ count # 0
        /\ pc' = "search"
        /\ low' = 0 /\ high' = count - 1
        /\ UNCHANGED <<tile, req, mid, m, rows, ans>>

\* m = mid belongs to GetTransfer and happens before it backs up.
Found(i) ==
  /\ SameKey(i)
  /\ pc' = "backup"
  /\ mid' = i
  /\ m' = i
  /\ UNCHANGED <<tile, req, low, high, rows, ans>>

\* Mutant of Search: the probed row stays in the range.
SearchKeepsMid ==
  /\ pc = "search" /\ low <= high
  /\ LET i == (low + high) \div 2 IN
     \/ Found(i)
     \/ /\ req.key < Row(i).key
        /\ high' = i
        /\ mid' = i
        /\ UNCHANGED <<tile, req, pc, low, m, rows, ans>>
     \/ /\ req.key > Row(i).key
        /\ low' = i + 1
        /\ mid' = i
        /\ UNCHANGED <<tile, req, pc, high, m, rows, ans>>

Search ==
  /\ pc = "search" /\ low <= high
  /\ LET i == (low + high) \div 2 IN
     \/ Found(i)
     \/ /\ req.key < Row(i).key
        /\ high' = i - 1
        /\ mid' = i
        /\ UNCHANGED <<tile, req, pc, low, m, rows, ans>>
     \/ /\ req.key > Row(i).key
        /\ low' = i + 1
        /\ mid' = i
        /\ UNCHANGED <<tile, req, pc, high, m, rows, ans>>

NotFound ==
  /\ pc = "search" /\ low > high
  /\ Return(None)

-----------------------------------------------------------------------------
(* Back up.                                                                *)

PriorIsSame == mid > 0 /\ SameKey(mid - 1)

\* GetSigns, GetTransfers and GetAccessRestrictions: to the first row with
\* the key.  There GetTransfers sets start.
BackUp ==
  /\ pc = "backup"
  /\ req.op \in {"GetSigns", "GetTransfers", "GetAccessRestrictions"}
  /\ \/ PriorIsSame /\ Goto("backup", mid - 1)
     \/ /\ ~PriorIsSame
        /\ pc' = "scan"
        /\ m' = mid
        /\ UNCHANGED <<tile, req, low, high, mid, rows, ans>>

\* GetNextDeparture: until the prior departure has left.
PriorIsLater ==
  PriorIsSame /\ Row(mid - 1).departure_time >= req.arg.current_time

BackUpNextDeparture ==
  /\ pc = "backup"
  /\ req.op = "GetNextDeparture"
  /\ \/ PriorIsLater /\ Goto("backup", mid - 1)
     \/ ~PriorIsLater /\ Goto("scan", mid)

\* GetTransitDeparture: it looks at the rows on the way.
BackUpTransitDeparture ==
  /\ pc = "backup"
  /\ req.op = "GetTransitDeparture"
  /\ \/ PriorIsSame /\ Fits(req, Row(mid)) /\ Return(mid)
     \/ PriorIsSame /\ ~Fits(req, Row(mid)) /\ Goto("backup", mid - 1)
     \/ ~PriorIsSame /\ Goto("scan", mid)

\* GetTransfer: it looks at the rows before m on the way, and then returns
\* to m.
BackUpTransfer ==
  /\ pc = "backup"
  /\ req.op = "GetTransfer"
  /\ \/ PriorIsSame /\ Fits(req, Row(mid - 1)) /\ Return(mid - 1)
     \/ PriorIsSame /\ ~Fits(req, Row(mid - 1)) /\ Goto("backup", mid - 1)
     \/ ~PriorIsSame /\ Goto("scan", m)

-----------------------------------------------------------------------------
(* Scan.  The loops test the row before they test mid < count.             *)

\* Mutant of InRange: no test for the end.
InRangeByKey == SameKey(mid)

InRange == SameKey(mid) /\ mid < count

ScanSigns ==
  /\ pc = "scan"
  /\ req.op = "GetSigns"
  /\ \/ /\ InRange /\ Row(mid).has_text
        /\ rows' = rows \cup {mid}
        /\ mid' = mid + 1
        /\ UNCHANGED <<tile, req, pc, low, high, m, ans>>
     \/ InRange /\ ~Row(mid).has_text /\ Return(Thrown)
     \/ ~InRange /\ Return(rows)

ScanAccessRestrictions ==
  /\ pc = "scan"
  /\ req.op = "GetAccessRestrictions"
  /\ \/ /\ InRange
        /\ rows' = IF Fits(req, Row(mid)) THEN rows \cup {mid} ELSE rows
        /\ mid' = mid + 1
        /\ UNCHANGED <<tile, req, pc, low, high, m, ans>>
     \/ ~InRange /\ Return(rows)

ScanTransfers ==
  /\ pc = "scan"
  /\ req.op = "GetTransfers"
  /\ \/ InRange /\ Goto("scan", mid + 1)
     \/ ~InRange /\ Return([start |-> m, n |-> mid - m])

ScanTransfer ==
  /\ pc = "scan"
  /\ req.op = "GetTransfer"
  /\ \/ InRange /\ Fits(req, Row(mid)) /\ Return(mid)
     \/ InRange /\ ~Fits(req, Row(mid)) /\ Goto("scan", mid + 1)
     \/ ~InRange /\ Return(Nullptr)

\* This one tests for the end first.
ScanNextDeparture ==
  /\ pc = "scan"
  /\ req.op = "GetNextDeparture"
  /\ \/ Fits(req, Row(mid)) /\ Return(mid)
     \/ /\ ~Fits(req, Row(mid))
        /\ mid + 1 < count /\ SameKey(mid + 1)
        /\ Goto("scan", mid + 1)
     \/ /\ ~Fits(req, Row(mid))
        /\ ~(mid + 1 < count /\ SameKey(mid + 1))
        /\ Return(Nullptr)

\* This one does not test for the line.
ScanTransitDeparture ==
  /\ pc = "scan"
  /\ req.op = "GetTransitDeparture"
  /\ \/ ~Fits(req, Row(mid)) /\ mid < count /\ Goto("scan", mid + 1)
     \/ Fits(req, Row(mid)) /\ Return(mid)
     \/ ~Fits(req, Row(mid)) /\ mid >= count /\ Return(Nullptr)

-----------------------------------------------------------------------------
Step ==
  \/ Start \/ Search \/ NotFound
  \/ BackUp \/ BackUpNextDeparture \/ BackUpTransitDeparture \/ BackUpTransfer
  \/ ScanSigns \/ ScanAccessRestrictions \/ ScanTransfers \/ ScanTransfer
  \/ ScanNextDeparture \/ ScanTransitDeparture

Next == Step \/ \E r \in Requests : Call(r)

\* A call once made runs on; nobody has to make one.
Spec == Init /\ [][Next]_vars /\ WF_vars(Step)
-----------------------------------------------------------------------------
RequestType == /\ req.op \in Ops \cup {"none"}
               /\ req.op = "none" => pc = "idle"
LocalTypes  == /\ low \in Nat /\ high \in Nat \cup {-1}
               /\ mid \in Nat /\ m \in Nat
               /\ rows \subseteq Nat
               /\ pc \in {"idle", "start", "search", "backup", "scan"}
TypeOK == RequestType /\ LocalTypes

(***************************************************************************)
(* The loops stay within the table and one row: the search and the back up *)
(* read rows of the table only, and no scan gets further than the row that *)
(* follows it (graphtile.cc:361-382 and alike).                            *)
(***************************************************************************)
CursorInTable ==
  /\ pc = "search" => low <= count /\ high < count
  /\ pc = "backup" => mid < count /\ m < count /\ mid <= m /\ SameKey(mid)
  /\ pc = "scan" => mid <= count

(***************************************************************************)
(* Whatever the binary search drops does not hold the key: all rows with   *)
(* the key stay between low and high, so that "not found" is right.        *)
(***************************************************************************)
WindowHoldsMatches ==
  pc = "search" => Matches(tile, req) \subseteq low .. high

(***************************************************************************)
(* Each call answers what the whole table justifies (TableAnswers), but    *)
(* for GetTransitDeparture asked for a trip that the line does not have    *)
(* (Stray there); DepartureIsOfLine is about that one.                     *)
(***************************************************************************)
Answers == INSTANCE TableAnswers WITH busy <- pc # "idle"
ImplementsTableAnswers == Answers!Spec

(***************************************************************************)
(* "Get the departure given the directed edge Id and tripid" (graphtile.h  *)
(* :191-199): what GetTransitDeparture returns is a departure of the line  *)
(* with the trip.  The code breaks this: it scans past the line.           *)
(***************************************************************************)
DepartureIsOfLine ==
  pc = "idle" /\ req.op = "GetTransitDeparture" /\ ans # Nullptr =>
    ans \in Hits(tile, req)

(***************************************************************************)
(* Every loop ends.                                                        *)
(***************************************************************************)
EveryCallReturns == pc # "idle" ~> pc = "idle"

=============================================================================
