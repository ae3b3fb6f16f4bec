--------------------------- MODULE TileLookupProofs --------------------------
(***************************************************************************)
(* The table lookups are right for tables of any length and contents, and  *)
(* whatever follows a table in memory.                                     *)
(***************************************************************************)
EXTENDS TileLookup, TLAPS

\* What the searches need to know of a table.
IsSearchable(t) ==
  /\ t.count \in Nat
  /\ \A i \in 0 .. t.count : t.row[i].key \in Nat
  /\ \A i, j \in 0 .. t.count - 1 : i <= j => t.row[i].key <= t.row[j].key

LEMMA TablesAreSearchable ==
  ASSUME NEW t, NEW R, IsTable(t, R), \A row \in R : row.key \in Nat
  PROVE  IsSearchable(t)
<1>1. \A i \in 0 .. t.count : t.row[i].key \in Nat
  BY DEF IsTable
<1>2. t.count \in Nat
  BY DEF IsTable
<1>3. ASSUME NEW i \in 0 .. t.count - 1, NEW j \in 0 .. t.count - 1, i <= j
      PROVE  t.row[i].key <= t.row[j].key
  <2>1. CASE i < j
    BY <2>1 DEF IsTable
  <2>2. CASE i = j
    <3>1. i \in 0 .. t.count
      BY <1>2
    <3> QED BY <2>2, <3>1, <1>1
  <2> QED BY <1>3, <2>1, <2>2
<1> QED BY <1>1, <1>2, <1>3 DEF IsSearchable

LEMMA TableFacts ==
  ASSUME NEW t \in Tiles, NEW r \in Requests
  PROVE  IsSearchable(Table(t, r)) /\ r.key \in Nat /\ r.op \in Ops
<1>1. r.op \in Ops /\ r.key \in Nat
  BY TableTypes
<1>2. IsSearchable(t["signs"])
  <2>1. \A row \in Sign : row.key \in Nat
    BY DEF Sign
  <2> QED BY <2>1, TableTypes, TablesAreSearchable
<1>3. IsSearchable(t["access_restrictions"])
  <2>1. \A row \in AccessRestriction : row.key \in Nat
    BY DEF AccessRestriction
  <2> QED BY <2>1, TableTypes, TablesAreSearchable
<1>4. IsSearchable(t["transfers"])
  <2>1. \A row \in TransitTransfer : row.key \in Nat
    BY DEF TransitTransfer
  <2> QED BY <2>1, TableTypes, TablesAreSearchable
<1>5. IsSearchable(t["departures"])
  <2>1. \A row \in TransitDeparture : row.key \in Nat
    BY DEF TransitDeparture
  <2> QED BY <2>1, TableTypes, TablesAreSearchable
<1>6. TableOf(r.op) \in {"signs", "access_restrictions", "transfers", "departures"}
  BY <1>1 DEF TableOf, Ops
<1>7. IsSearchable(t[TableOf(r.op)])
  BY <1>2, <1>3, <1>4, <1>5, <1>6
<1> QED BY <1>1, <1>7 DEF Table

\* Departures are also in the order of time.
LEMMA DeparturesInOrder ==
  ASSUME NEW t \in Tiles, NEW r \in Requests, r.op = "GetNextDeparture",
         NEW i \in Matches(t, r), NEW j \in Matches(t, r), i <= j
  PROVE  /\ Table(t, r).row[i].departure_time \in Nat
         /\ Table(t, r).row[j].departure_time \in Nat
         /\ Table(t, r).row[i].departure_time <= Table(t, r).row[j].departure_time
<1> DEFINE d == Table(t, r)
<1>1. d = t["departures"]
  BY DEF Table, TableOf
<1>2. IsTable(d, TransitDeparture) /\ SortedByTime(d)
  BY <1>1, TableTypes
<1> HIDE DEF d
<1>3. /\ i \in 0 .. d.count - 1 /\ j \in 0 .. d.count - 1
      /\ d.row[i].key = d.row[j].key
  BY DEF Matches, d
<1>4. d.count \in Nat /\ d.row[i] \in TransitDeparture /\ d.row[j] \in TransitDeparture
  BY <1>2, <1>3 DEF IsTable
<1>5. d.row[i].departure_time \in Nat /\ d.row[j].departure_time \in Nat
  BY <1>4 DEF TransitDeparture
<1>6. i < j => d.row[i].departure_time <= d.row[j].departure_time
  BY <1>2, <1>3 DEF SortedByTime
<1>7. i = j => d.row[i].departure_time <= d.row[j].departure_time
  BY <1>5
<1>8. i < j \/ i = j
  BY <1>3, <1>4
<1> QED BY <1>5, <1>6, <1>7, <1>8 DEF d

-----------------------------------------------------------------------------
(* The inductive invariant: what each loop has established so far.         *)

CallInv == /\ tile \in Tiles
           /\ req \in Requests \cup {NoRequest}
           /\ pc # "idle" => req \in Requests

SearchInv ==
  pc = "search" =>
    /\ low \in Nat /\ high \in Int /\ low <= high + 1 /\ high < count
    /\ \A i \in Matches(tile, req) : low <= i /\ i <= high

BackupInv ==
  pc = "backup" =>
    /\ mid \in Nat /\ m \in Nat /\ mid <= m /\ m < count
    /\ SameKey(mid)
    /\ \A i \in Hits(tile, req) : req.op = "GetTransfer" => ~(mid <= i /\ i < m)

\* Rows not yet scanned have the key or a greater one.
Ahead == mid < count => Row(mid).key >= req.key

\* All matches before the cursor, and at least one, were seen.
ScanInv ==
  pc = "scan" =>
    /\ mid \in Nat /\ mid <= count
    /\ Ahead
    /\ Matches(tile, req) # {}
    /\ req.op = "GetSigns" =>
         /\ rows = {i \in Matches(tile, req) : i < mid}
         /\ \A i \in rows : Row(i).has_text
    /\ req.op = "GetAccessRestrictions" => rows = {i \in Hits(tile, req) : i < mid}
    /\ req.op = "GetTransfers" =>
         /\ m \in Nat /\ m <= mid
         /\ m .. mid - 1 = {i \in Matches(tile, req) : i < mid}
    /\ req.op \in {"GetTransfer", "GetNextDeparture", "GetTransitDeparture"} =>
         \A i \in Hits(tile, req) : mid <= i
    /\ req.op = "GetNextDeparture" => mid < count /\ SameKey(mid)

LocalInv == pc # "scan" => rows = {}

IInv == /\ TypeOK
        /\ CallInv
        /\ SearchInv
        /\ BackupInv
        /\ ScanInv
        /\ LocalInv

\* The facts about the table of the call in progress.
LEMMA TableNow ==
  ASSUME CallInv, pc # "idle"
  PROVE  /\ count \in Nat /\ req.key \in Nat /\ req.op \in Ops
         /\ \A i \in 0 .. count : Row(i).key \in Nat
         /\ \A i, j \in 0 .. count - 1 : i <= j => Row(i).key <= Row(j).key
         /\ Matches(tile, req) = {i \in 0 .. count - 1 : Row(i).key = req.key}
         /\ Hits(tile, req) = {i \in Matches(tile, req) : Fits(req, Row(i))}
  BY TableFacts DEF CallInv, IsSearchable, count, Row, Matches, Hits

\* When a scan has left the rows with the key, all of them are behind it.
LEMMA BehindCursor ==
  ASSUME CallInv, pc # "idle", mid \in Nat, mid <= count, Ahead, ~InRange
  PROVE  \A i \in Matches(tile, req) : i < mid
<1>1. CASE mid < count
  <2>1. Row(mid).key > req.key
    <3>1. Row(mid).key \in Nat /\ req.key \in Nat
      BY <1>1, TableNow
    <3> QED BY <1>1, <3>1 DEF Ahead, InRange, SameKey
  <2>2. ASSUME NEW i \in Matches(tile, req), mid <= i
        PROVE  FALSE
    <3>1. /\ i \in 0 .. count - 1 /\ Row(i).key = req.key /\ count \in Nat
          /\ mid \in 0 .. count - 1
      BY <1>1, TableNow
    <3>2. Row(mid).key <= Row(i).key /\ Row(mid).key \in Nat /\ Row(i).key \in Nat
      BY <3>1, <2>2, TableNow
    <3> QED BY <2>1, <3>1, <3>2
  <2>3. \A i \in Matches(tile, req) : i \in Nat
    BY TableNow
  <2> QED BY <2>2, <2>3
<1>2. CASE mid = count
  BY <1>2, TableNow
<1> QED BY <1>1, <1>2, TableNow

LEMMA InitInv == ASSUME Init PROVE IInv
  BY DEF Init, IInv, TypeOK, RequestType, LocalTypes, CallInv, SearchInv,
         BackupInv, ScanInv, LocalInv, NoRequest

\* A return leads to a state where little is claimed.
LEMMA ReturnInv ==
  ASSUME IInv, NEW a, Return(a)
  PROVE  IInv'
  BY DEF IInv, Return, TypeOK, RequestType, LocalTypes, CallInv, SearchInv,
         BackupInv, ScanInv, LocalInv

LEMMA CallStep ==
  ASSUME IInv, NEW r \in Requests, Call(r)
  PROVE  IInv'
<1>1. r.op \in Ops
  BY TableTypes
<1>2. r.op # "none"
  BY <1>1 DEF Ops
<1> QED BY <1>1, <1>2 DEF IInv, Call, TypeOK, RequestType, LocalTypes, CallInv,
           SearchInv, BackupInv, ScanInv, LocalInv

LEMMA StartStep ==
  ASSUME IInv, Start
  PROVE  IInv'
<1>1. CASE Return(None)
  BY <1>1, ReturnInv
<1>2. CASE /\ pc = "start" /\ count # 0
           /\ pc' = "search"
           /\ low' = 0 /\ high' = count - 1
           /\ UNCHANGED <<tile, req, mid, m, rows, ans>>
  <2>1. /\ count \in Nat
        /\ \A i \in Matches(tile, req) : 0 <= i /\ i <= count - 1
    BY <1>2, TableNow DEF IInv
  <2>2. SearchInv'
    BY <1>2, <2>1 DEF SearchInv, count
  <2> QED BY <1>2, <2>1, <2>2 DEF IInv, TypeOK, RequestType, LocalTypes, CallInv,
             BackupInv, ScanInv, LocalInv
<1> QED BY <1>1, <1>2 DEF Start

LEMMA SearchStep ==
  ASSUME IInv, Search
  PROVE  IInv'
<1> DEFINE i == (low + high) \div 2
<1>1. /\ pc = "search" /\ low <= high
      /\ low \in Nat /\ high \in Int /\ high < count /\ count \in Nat
      /\ req.key \in Nat
  BY TableNow DEF Search, IInv, SearchInv
<1>2. low <= i /\ i <= high /\ i \in 0 .. count - 1
  BY <1>1
<1>3. Row(i).key \in Nat
  BY <1>1, <1>2, TableNow DEF IInv
<1>4. \A j \in Matches(tile, req) : low <= j /\ j <= high /\ j \in 0 .. count - 1
                                    /\ Row(j).key = req.key
  BY <1>1, TableNow DEF IInv, SearchInv
<1> HIDE DEF i
<1>5. CASE Found(i)
  <2>1. BackupInv'
    <3>1. mid' = i /\ m' = i /\ i \in Nat /\ i < count /\ UNCHANGED <<tile, req>>
      BY <1>1, <1>2, <1>5 DEF Found
    <3>2. Row(i).key = req.key
      BY <1>5 DEF Found, SameKey
    <3>3. \A h \in Hits(tile, req) : ~(i <= h /\ h < i)
      <4>1. \A h \in Hits(tile, req) : h \in Nat
        BY <1>1, TableNow DEF IInv
      <4> QED BY <4>1, <1>2
    <3> QED BY <3>1, <3>2, <3>3 DEF BackupInv, SameKey, Row, count
  <2> QED BY <1>1, <1>2, <1>5, <2>1 DEF Found, IInv, TypeOK, RequestType,
             LocalTypes, CallInv, SearchInv, ScanInv, LocalInv
<1>6. CASE /\ req.key < Row(i).key
           /\ high' = i - 1 /\ mid' = i
           /\ UNCHANGED <<tile, req, pc, low, m, rows, ans>>
  <2>1. ASSUME NEW j \in Matches(tile, req)
        PROVE  j <= i - 1
    <3>1. ~(i <= j)
      <4>1. i <= j => Row(i).key <= Row(j).key
        BY <1>1, <1>2, <1>4, TableNow DEF IInv
      <4> QED BY <1>3, <1>4, <1>6, <4>1, <1>1
    <3> QED BY <1>2, <1>4, <3>1
  <2>2. SearchInv'
    BY <1>1, <1>2, <1>4, <1>6, <2>1 DEF SearchInv, count
  <2> QED BY <1>1, <1>2, <1>6, <2>2 DEF IInv, TypeOK, RequestType, LocalTypes,
             CallInv, BackupInv, ScanInv, LocalInv
<1>7. CASE /\ req.key > Row(i).key
           /\ low' = i + 1 /\ mid' = i
           /\ UNCHANGED <<tile, req, pc, high, m, rows, ans>>
  <2>1. ASSUME NEW j \in Matches(tile, req)
        PROVE  i + 1 <= j
    <3>1. ~(j <= i)
      <4>1. j <= i => Row(j).key <= Row(i).key
        BY <1>1, <1>2, <1>4, TableNow DEF IInv
      <4> QED BY <1>3, <1>4, <1>7, <4>1, <1>1
    <3> QED BY <1>2, <1>4, <3>1
  <2>2. SearchInv'
    BY <1>1, <1>2, <1>4, <1>7, <2>1 DEF SearchInv, count, IInv
  <2> QED BY <1>1, <1>2, <1>7, <2>2 DEF IInv, TypeOK, RequestType, LocalTypes,
             CallInv, BackupInv, ScanInv, LocalInv
<1> QED BY <1>5, <1>6, <1>7 DEF Search, i

-----------------------------------------------------------------------------
(* Backing up.                                                             *)

\* With no row of the key just before the cursor there is none before it.
LEMMA FirstMatch ==
  ASSUME CallInv, pc # "idle", mid \in Nat, mid < count, SameKey(mid), ~PriorIsSame
  PROVE  \A i \in Matches(tile, req) : mid <= i
<1>1. ASSUME NEW i \in Matches(tile, req), i < mid
      PROVE  FALSE
  <2>1. i \in 0 .. count - 1 /\ Row(i).key = req.key /\ count \in Nat
    BY TableNow
  <2>2. mid - 1 \in 0 .. count - 1 /\ mid \in 0 .. count - 1 /\ i <= mid - 1
    BY <1>1, <2>1
  <2>3. Row(i).key <= Row(mid - 1).key /\ Row(mid - 1).key <= Row(mid).key
    BY <2>1, <2>2, TableNow
  <2>4. Row(mid - 1).key \in Nat /\ req.key \in Nat
    BY <2>2, <2>1, TableNow
  <2>5. Row(mid - 1).key = req.key
    BY <2>1, <2>3, <2>4 DEF SameKey
  <2> QED BY <1>1, <2>1, <2>5 DEF PriorIsSame, SameKey
<1>2. \A i \in Matches(tile, req) : i \in Nat
  BY TableNow
<1> QED BY <1>1, <1>2

\* Moving the cursor one row down within the rows of the key.
LEMMA OneDown ==
  ASSUME IInv, pc = "backup", PriorIsSame, Goto("backup", mid - 1),
         req.op = "GetTransfer" => ~Fits(req, Row(mid - 1))
  PROVE  IInv'
<1>1. /\ mid \in Nat /\ m \in Nat /\ mid <= m /\ m < count /\ mid > 0
      /\ SameKey(mid - 1)
      /\ \A i \in Hits(tile, req) : req.op = "GetTransfer" => ~(mid <= i /\ i < m)
  BY DEF IInv, BackupInv, PriorIsSame
<1>2. \A i \in Hits(tile, req) : i \in Nat /\ Fits(req, Row(i))
  BY TableNow DEF IInv
<1>3. ASSUME NEW i \in Hits(tile, req), req.op = "GetTransfer",
             mid - 1 <= i, i < m
      PROVE  FALSE
  BY <1>1, <1>2, <1>3
<1>4. BackupInv'
  BY <1>1, <1>3 DEF BackupInv, Goto, SameKey, Row, count
<1> QED BY <1>1, <1>4 DEF Goto, IInv, TypeOK, RequestType, LocalTypes, CallInv,
           SearchInv, ScanInv, LocalInv

\* What a back up hands to the scan that starts at row i.
LEMMA EnterScan ==
  ASSUME IInv, pc = "backup", NEW i, i \in {mid, m},
         pc' = "scan", mid' = i, UNCHANGED <<tile, req, low, high, rows, ans>>,
         m' \in Nat,
         req.op \in {"GetSigns", "GetAccessRestrictions", "GetTransfers"} =>
           m' = mid /\ i = mid /\ ~PriorIsSame,
         req.op \in {"GetTransfer", "GetNextDeparture", "GetTransitDeparture"} =>
           \A h \in Hits(tile, req) : i <= h,
         req.op = "GetNextDeparture" => i = mid
  PROVE  IInv'
<1>1. /\ mid \in Nat /\ m \in Nat /\ mid <= m /\ m < count /\ SameKey(mid)
      /\ count \in Nat /\ req.key \in Nat /\ rows = {}
  BY TableNow DEF IInv, BackupInv, LocalInv
<1>2. i \in Nat /\ i < count
  BY <1>1
<1>3. Row(i).key >= req.key
  <2>1. mid \in 0 .. count - 1 /\ i \in 0 .. count - 1 /\ mid <= i
    BY <1>1
  <2> QED BY <1>1, <2>1, TableNow DEF IInv, SameKey
<1>4. mid \in Matches(tile, req)
  BY <1>1, TableNow DEF IInv, SameKey
<1>5. Hits(tile, req) \subseteq Matches(tile, req)
  BY DEF Hits
<1>6. ASSUME ~PriorIsSame, m' = mid, i = mid
      PROVE  /\ {h \in Matches(tile, req) : h < i} = {}
             /\ {h \in Hits(tile, req) : h < i} = {}
             /\ m' .. i - 1 = {}
  <2>1. \A h \in Matches(tile, req) : mid <= h /\ h \in Nat
    BY <1>1, <1>6, FirstMatch, TableNow DEF IInv
  <2> QED BY <1>1, <1>5, <1>6, <2>1
<1>7. ScanInv'
  <2>1. /\ Ahead' /\ Matches(tile, req)' # {} /\ mid' \in Nat /\ (mid <= count)'
    BY <1>1, <1>2, <1>3, <1>4 DEF Ahead, Row, count
  <2>2. (req.op = "GetSigns" =>
          /\ rows = {h \in Matches(tile, req) : h < mid}
          /\ \A h \in rows : Row(h).has_text)'
    BY <1>1, <1>6
  <2>3. (req.op = "GetAccessRestrictions" =>
          rows = {h \in Hits(tile, req) : h < mid})'
    BY <1>1, <1>6
  <2>4. (req.op = "GetTransfers" =>
          /\ m \in Nat /\ m <= mid
          /\ m .. mid - 1 = {h \in Matches(tile, req) : h < mid})'
    BY <1>1, <1>6
  <2>5. (req.op \in {"GetTransfer", "GetNextDeparture", "GetTransitDeparture"} =>
          \A h \in Hits(tile, req) : mid <= h)'
    OBVIOUS
  <2>6. (req.op = "GetNextDeparture" => mid < count /\ SameKey(mid))'
    BY <1>1, <1>2 DEF SameKey, Row, count
  <2> QED BY <2>1, <2>2, <2>3, <2>4, <2>5, <2>6 DEF ScanInv
<1> QED BY <1>1, <1>2, <1>7 DEF IInv, TypeOK, RequestType, LocalTypes, CallInv,
           SearchInv, BackupInv, LocalInv

LEMMA BackUpStep ==
  ASSUME IInv, BackUp
  PROVE  IInv'
<1>1. mid \in Nat
  BY DEF IInv, BackupInv, BackUp
<1>2. CASE PriorIsSame /\ Goto("backup", mid - 1)
  BY <1>2, OneDown DEF BackUp
<1>3. CASE /\ ~PriorIsSame
           /\ pc' = "scan" /\ m' = mid
           /\ UNCHANGED <<tile, req, low, high, mid, rows, ans>>
  BY <1>1, <1>3, EnterScan DEF BackUp
<1> QED BY <1>2, <1>3 DEF BackUp

LEMMA BackUpNextDepartureStep ==
  ASSUME IInv, BackUpNextDeparture
  PROVE  IInv'
<1>1. /\ mid \in Nat /\ mid < count /\ SameKey(mid) /\ m \in Nat /\ count \in Nat
      /\ pc = "backup" /\ req.op = "GetNextDeparture"
      /\ tile \in Tiles /\ req \in Requests
  BY TableNow DEF IInv, BackupInv, BackUpNextDeparture, CallInv
<1>2. CASE PriorIsLater /\ Goto("backup", mid - 1)
  BY <1>1, <1>2, OneDown DEF PriorIsLater
<1>3. CASE ~PriorIsLater /\ Goto("scan", mid)
  <2>1. ASSUME NEW i \in Hits(tile, req), i < mid
        PROVE  FALSE
    <3>1. i \in Matches(tile, req) /\ Fits(req, Row(i)) /\ i \in Nat
      BY <1>1, TableNow DEF IInv
    <3>2. CASE ~PriorIsSame
      BY <1>1, <2>1, <3>1, <3>2, FirstMatch DEF IInv
    <3>3. CASE PriorIsSame
      <4>1. mid - 1 \in Matches(tile, req) /\ i <= mid - 1
        BY <1>1, <2>1, <3>1, <3>3, TableNow DEF IInv, PriorIsSame, SameKey
      <4>2. /\ Row(i).departure_time \in Nat
            /\ Row(mid - 1).departure_time \in Nat
            /\ Row(i).departure_time <= Row(mid - 1).departure_time
        BY <1>1, <3>1, <4>1, DeparturesInOrder DEF Row
      <4>3. req.arg.current_time \in Nat
        BY <1>1, TableTypes DEF When
      <4>4. Row(mid - 1).departure_time < req.arg.current_time
        BY <1>3, <3>3, <4>2, <4>3 DEF PriorIsLater
      <4>5. Row(i).departure_time >= req.arg.current_time
        BY <1>1, <3>1 DEF Fits
      <4> QED BY <4>2, <4>3, <4>4, <4>5
    <3> QED BY <3>2, <3>3
  <2>2. \A i \in Hits(tile, req) : mid <= i
    <3>1. \A i \in Hits(tile, req) : i \in Nat
      BY <1>1, TableNow DEF IInv
    <3> QED BY <1>1, <2>1, <3>1
  <2> QED BY <1>1, <1>3, <2>2, EnterScan DEF Goto
<1> QED BY <1>2, <1>3 DEF BackUpNextDeparture

LEMMA BackUpTransitDepartureStep ==
  ASSUME IInv, BackUpTransitDeparture
  PROVE  IInv'
<1>1. /\ mid \in Nat /\ mid < count /\ SameKey(mid) /\ m \in Nat
      /\ pc = "backup" /\ req.op = "GetTransitDeparture"
  BY TableNow DEF IInv, BackupInv, BackUpTransitDeparture
<1>2. CASE Return(mid)
  BY <1>2, ReturnInv
<1>3. CASE PriorIsSame /\ Goto("backup", mid - 1)
  BY <1>1, <1>3, OneDown
<1>4. CASE ~PriorIsSame /\ Goto("scan", mid)
  <2>1. \A i \in Hits(tile, req) : mid <= i
    BY <1>1, <1>4, FirstMatch DEF IInv, Hits
  <2> QED BY <1>1, <1>4, <2>1, EnterScan DEF Goto
<1> QED BY <1>2, <1>3, <1>4 DEF BackUpTransitDeparture

LEMMA BackUpTransferStep ==
  ASSUME IInv, BackUpTransfer
  PROVE  IInv'
<1>1. /\ mid \in Nat /\ mid <= m /\ m < count /\ SameKey(mid) /\ m \in Nat
      /\ pc = "backup" /\ req.op = "GetTransfer" /\ count \in Nat
      /\ \A i \in Hits(tile, req) : ~(mid <= i /\ i < m)
  BY TableNow DEF IInv, BackupInv, BackUpTransfer
<1>2. CASE Return(mid - 1)
  BY <1>2, ReturnInv
<1>3. CASE PriorIsSame /\ ~Fits(req, Row(mid - 1)) /\ Goto("backup", mid - 1)
  BY <1>1, <1>3, OneDown
<1>4. CASE ~PriorIsSame /\ Goto("scan", m)
  <2>0. /\ pc' = "scan" /\ mid' = m /\ m' \in Nat
        /\ UNCHANGED <<tile, req, low, high, rows, ans>>
    BY <1>1, <1>4 DEF Goto
  <2>1. \A i \in Hits(tile, req) : mid <= i /\ i \in Nat
    BY <1>1, <1>4, FirstMatch, TableNow DEF IInv
  <2>2. \A i \in Hits(tile, req) : m <= i
    BY <1>1, <2>1
  <2> QED BY <1>1, <2>0, <2>2, EnterScan
<1> QED BY <1>2, <1>3, <1>4 DEF BackUpTransfer

-----------------------------------------------------------------------------
(* Scanning.                                                               *)

\* The next row has the key of this one or a greater one.
LEMMA NextAhead ==
  ASSUME IInv, pc = "scan", mid < count, SameKey(mid)
  PROVE  mid + 1 < count => Row(mid + 1).key >= req.key
<1>1. count \in Nat /\ mid \in 0 .. count - 1
  BY TableNow DEF IInv, ScanInv
<1>2. ASSUME mid + 1 < count
      PROVE  Row(mid).key <= Row(mid + 1).key
  BY <1>1, <1>2, TableNow DEF IInv
<1> QED BY <1>2 DEF SameKey

\* What holds at the cursor of every scan.
LEMMA AtCursor ==
  ASSUME IInv, pc = "scan"
  PROVE  /\ mid \in Nat /\ count \in Nat /\ mid <= count
         /\ \A i \in Matches(tile, req) : i \in 0 .. count - 1 /\ SameKey(i)
         /\ \A i \in Hits(tile, req) : i \in Matches(tile, req) /\ Fits(req, Row(i))
         /\ InRange => mid \in Matches(tile, req)
         /\ InRange /\ Fits(req, Row(mid)) => mid \in Hits(tile, req)
         /\ ~InRange => \A i \in Matches(tile, req) : i < mid
         /\ Matches(tile, req) # {}
<1>1. /\ mid \in Nat /\ count \in Nat /\ mid <= count /\ Ahead
      /\ Matches(tile, req) # {}
  BY TableNow DEF IInv, ScanInv
<1>2. ~InRange => \A i \in Matches(tile, req) : i < mid
  BY <1>1, BehindCursor DEF IInv
<1>3. mid < count => mid \in 0 .. count - 1
  BY <1>1
<1> QED BY <1>1, <1>2, <1>3, TableNow DEF IInv, InRange, SameKey

\* One row further within the rows of the key.
LEMMA OneUp ==
  ASSUME IInv, pc = "scan", InRange, pc' = "scan", mid' = mid + 1,
         UNCHANGED <<tile, req, low, high, m, ans>>,
         req.op = "GetSigns" => rows' = rows \cup {mid} /\ Row(mid).has_text,
         req.op = "GetAccessRestrictions" =>
           rows' = IF Fits(req, Row(mid)) THEN rows \cup {mid} ELSE rows,
         req.op \notin {"GetSigns", "GetAccessRestrictions"} => rows' = rows,
         req.op \in {"GetTransfer", "GetTransitDeparture"} => ~Fits(req, Row(mid)),
         req.op # "GetNextDeparture"
  PROVE  IInv'
<1>1. /\ mid \in Nat /\ mid < count /\ count \in Nat /\ SameKey(mid)
      /\ mid \in Matches(tile, req) /\ req.op \in Ops
  BY AtCursor, TableNow DEF InRange, IInv
<1>2. Ahead'
  BY <1>1, NextAhead DEF Ahead, Row, count
<1>3. \A i \in Matches(tile, req) : i \in Nat /\ (i < mid + 1 <=> i < mid \/ i = mid)
  BY <1>1, AtCursor
<1>4. Hits(tile, req) = {i \in Matches(tile, req) : Fits(req, Row(i))}
  BY TableNow DEF IInv
<1>5. ScanInv'
  <2>1. mid' \in Nat /\ (mid <= count)' /\ Matches(tile, req)' # {}
    BY <1>1 DEF count
  <2>2. (req.op = "GetSigns" =>
          /\ rows = {i \in Matches(tile, req) : i < mid}
          /\ \A i \in rows : Row(i).has_text)'
    BY <1>1, <1>3 DEF IInv, ScanInv, Row
  <2>3. (req.op = "GetAccessRestrictions" =>
          rows = {i \in Hits(tile, req) : i < mid})'
    BY <1>1, <1>3, <1>4 DEF IInv, ScanInv
  <2>4. (req.op = "GetTransfers" =>
          /\ m \in Nat /\ m <= mid
          /\ m .. mid - 1 = {i \in Matches(tile, req) : i < mid})'
    <3>1. ASSUME req.op = "GetTransfers"
          PROVE  /\ m \in Nat /\ m <= mid
                 /\ m .. mid - 1 = {i \in Matches(tile, req) : i < mid}
      BY <3>1 DEF IInv, ScanInv
    <3>2. ASSUME req.op = "GetTransfers"
          PROVE  m .. mid = {i \in Matches(tile, req) : i < mid + 1}
      <4>1. m .. mid = (m .. mid - 1) \cup {mid}
        BY <1>1, <3>1, <3>2
      <4> QED BY <1>1, <1>3, <3>1, <3>2, <4>1
    <3> QED BY <1>1, <3>1, <3>2
  <2>5. (req.op \in {"GetTransfer", "GetNextDeparture", "GetTransitDeparture"} =>
          \A i \in Hits(tile, req) : mid <= i)'
    <3>1. ASSUME req.op \in {"GetTransfer", "GetTransitDeparture"},
                 NEW i \in Hits(tile, req)
          PROVE  mid + 1 <= i
      <4>1. mid <= i
        BY <3>1 DEF IInv, ScanInv
      <4>2. ~Fits(req, Row(mid)) /\ Fits(req, Row(i))
        BY <3>1, <1>4
      <4>3. i # mid /\ i \in Nat
        BY <3>1, <1>3, <1>4, <4>2
      <4> QED BY <1>1, <4>1, <4>3
    <3> QED BY <3>1
  <2> QED BY <1>2, <2>1, <2>2, <2>3, <2>4, <2>5 DEF ScanInv
<1>6. rows' \subseteq Nat
  BY <1>1 DEF IInv, TypeOK, LocalTypes, Ops
<1> QED BY <1>1, <1>5, <1>6 DEF IInv, TypeOK, RequestType, LocalTypes, CallInv,
           SearchInv, BackupInv, LocalInv

LEMMA ScanSteps ==
  ASSUME IInv,
         ScanSigns \/ ScanAccessRestrictions \/ ScanTransfers \/ ScanTransfer
  PROVE  IInv'
<1>1. CASE ScanSigns
  <2>1. CASE /\ InRange /\ Row(mid).has_text
             /\ rows' = rows \cup {mid} /\ mid' = mid + 1
             /\ UNCHANGED <<tile, req, pc, low, high, m, ans>>
    BY <1>1, <2>1, OneUp DEF ScanSigns
  <2> QED BY <1>1, <2>1, ReturnInv DEF ScanSigns
<1>2. CASE ScanAccessRestrictions
  <2>1. CASE /\ InRange
             /\ rows' = IF Fits(req, Row(mid)) THEN rows \cup {mid} ELSE rows
             /\ mid' = mid + 1
             /\ UNCHANGED <<tile, req, pc, low, high, m, ans>>
    BY <1>2, <2>1, OneUp DEF ScanAccessRestrictions
  <2> QED BY <1>2, <2>1, ReturnInv DEF ScanAccessRestrictions
<1>3. CASE ScanTransfers
  <2>1. CASE InRange /\ Goto("scan", mid + 1)
    BY <1>3, <2>1, OneUp DEF ScanTransfers, Goto
  <2> QED BY <1>3, <2>1, ReturnInv DEF ScanTransfers
<1>4. CASE ScanTransfer
  <2>1. CASE InRange /\ ~Fits(req, Row(mid)) /\ Goto("scan", mid + 1)
    BY <1>4, <2>1, OneUp DEF ScanTransfer, Goto
  <2> QED BY <1>4, <2>1, ReturnInv DEF ScanTransfer
<1> QED BY <1>1, <1>2, <1>3, <1>4

\* The two scans that do not stop at the first row of another key.
LEMMA OneUpDeparture ==
  ASSUME IInv, pc = "scan", Goto("scan", mid + 1), mid < count,
         ~Fits(req, Row(mid)),
         \/ req.op = "GetNextDeparture" /\ mid + 1 < count /\ SameKey(mid + 1)
         \/ req.op = "GetTransitDeparture"
  PROVE  IInv'
<1>1. /\ mid \in Nat /\ count \in Nat /\ req.key \in Nat
      /\ mid < count => Row(mid).key >= req.key
      /\ Matches(tile, req) # {}
  BY AtCursor, TableNow DEF IInv, ScanInv, Ahead
<1>2. \A i \in Hits(tile, req) : mid + 1 <= i
  <2>1. ASSUME NEW i \in Hits(tile, req)
        PROVE  mid + 1 <= i
    <3>1. mid <= i
      BY DEF IInv, ScanInv
    <3>2. Fits(req, Row(i)) /\ i \in Nat
      BY AtCursor
    <3>3. i # mid
      BY <3>2
    <3> QED BY <1>1, <3>1, <3>2, <3>3
  <2> QED BY <2>1
<1>3. mid + 1 < count => Row(mid + 1).key >= req.key
  <2>1. ASSUME mid + 1 < count
        PROVE  Row(mid + 1).key >= req.key
    <3>1. mid \in 0 .. count - 1 /\ mid + 1 \in 0 .. count - 1
      BY <1>1, <2>1
    <3>2. /\ Row(mid).key <= Row(mid + 1).key
          /\ Row(mid).key \in Nat /\ Row(mid + 1).key \in Nat
      BY <1>1, <3>1, TableNow DEF IInv
    <3> QED BY <1>1, <3>2
  <2> QED BY <2>1
<1>4. ScanInv'
  BY <1>1, <1>2, <1>3 DEF ScanInv, Goto, Ahead, Row, count, SameKey
<1> QED BY <1>1, <1>4 DEF Goto, IInv, TypeOK, RequestType, LocalTypes, CallInv,
           SearchInv, BackupInv, LocalInv

LEMMA ScanDepartureSteps ==
  ASSUME IInv, ScanNextDeparture \/ ScanTransitDeparture
  PROVE  IInv'
<1>1. CASE ScanNextDeparture
  <2>1. CASE /\ ~Fits(req, Row(mid))
             /\ mid + 1 < count /\ SameKey(mid + 1)
             /\ Goto("scan", mid + 1)
    <3>1. mid < count
      BY <1>1 DEF IInv, ScanInv, ScanNextDeparture
    <3> QED BY <1>1, <2>1, <3>1, OneUpDeparture DEF ScanNextDeparture
  <2> QED BY <1>1, <2>1, ReturnInv DEF ScanNextDeparture
<1>2. CASE ScanTransitDeparture
  <2>1. CASE ~Fits(req, Row(mid)) /\ mid < count /\ Goto("scan", mid + 1)
    BY <1>2, <2>1, OneUpDeparture DEF ScanTransitDeparture
  <2> QED BY <1>2, <2>1, ReturnInv DEF ScanTransitDeparture
<1> QED BY <1>1, <1>2

LEMMA InvariantStep == IInv /\ [Next]_vars => IInv'
<1> SUFFICES ASSUME IInv, [Next]_vars PROVE IInv'
  OBVIOUS
<1>1. CASE Step
  BY <1>1, StartStep, SearchStep, ReturnInv, BackUpStep, BackUpNextDepartureStep,
     BackUpTransitDepartureStep, BackUpTransferStep, ScanSteps, ScanDepartureSteps
     DEF Step, NotFound
<1>2. CASE \E r \in Requests : Call(r)
  BY <1>2, CallStep
<1>3. CASE UNCHANGED vars
  BY <1>3 DEF vars, IInv, TypeOK, RequestType, LocalTypes, CallInv, SearchInv,
     BackupInv, ScanInv, LocalInv, Ahead, SameKey, Row, count
<1> QED BY <1>1, <1>2, <1>3 DEF Next

THEOREM LookupInvariant == Spec => []IInv
<1>1. Init => IInv
  BY InitInv
<1> QED BY <1>1, InvariantStep, PTL DEF Spec

(***************************************************************************)
(* Every local of every lookup keeps its type (graphtile.cc:347-702).      *)
(***************************************************************************)
THEOREM TypesAreKept == Spec => []TypeOK
<1>1. IInv => TypeOK
  BY DEF IInv
<1> QED BY <1>1, LookupInvariant, PTL

(***************************************************************************)
(* However long the table is, the search probes rows of the table only and *)
(* no scan gets further than one row past the end.                         *)
(***************************************************************************)
THEOREM CursorStaysInTable == Spec => []CursorInTable
<1>1. IInv => CursorInTable
  <2> SUFFICES ASSUME IInv PROVE CursorInTable
    OBVIOUS
  <2>1. CASE pc = "backup"
    BY <2>1, TableNow DEF IInv, BackupInv, CursorInTable
  <2>2. CASE pc = "search"
    <3>1. low \in Nat /\ high \in Int /\ low <= high + 1 /\ high < count /\ count \in Nat
      BY <2>2, TableNow DEF IInv, SearchInv
    <3> QED BY <2>2, <3>1 DEF CursorInTable
  <2>3. CASE pc \notin {"backup", "search"}
    BY <2>3 DEF IInv, ScanInv, CursorInTable
  <2> QED BY <2>1, <2>2, <2>3
<1> QED BY <1>1, LookupInvariant, PTL

(***************************************************************************)
(* A row that has the key is never discarded by the binary search, in any  *)
(* sorted table.                                                           *)
(***************************************************************************)
THEOREM SearchKeepsMatches == Spec => []WindowHoldsMatches
<1>1. IInv => WindowHoldsMatches
  <2> SUFFICES ASSUME IInv, pc = "search"
               PROVE  Matches(tile, req) \subseteq low .. high
    BY DEF WindowHoldsMatches
  <2>1. \A i \in Matches(tile, req) : i \in Nat /\ low <= i /\ i <= high
    BY TableNow DEF IInv, SearchInv
  <2>2. low \in Nat /\ high \in Int
    BY DEF IInv, SearchInv
  <2> QED BY <2>1, <2>2
<1> QED BY <1>1, LookupInvariant, PTL

-----------------------------------------------------------------------------
(* Every call ends: with each iteration of a loop fewer are left.          *)

\* Every step of a call, but the last, leaves the answer alone.
LEMMA StepShape ==
  ASSUME Step
  PROVE  /\ pc # "idle"
         /\ UNCHANGED <<tile, req>>
         /\ pc' # "idle" => ans' = ans
<1>1. CASE Start \/ Search \/ NotFound
  BY <1>1 DEF Start, Search, NotFound, Found, Return
<1>2. CASE BackUp \/ BackUpNextDeparture \/ BackUpTransitDeparture \/ BackUpTransfer
  BY <1>2 DEF BackUp, BackUpNextDeparture, BackUpTransitDeparture, BackUpTransfer,
     Goto, Return
<1>3. CASE ScanSigns \/ ScanAccessRestrictions \/ ScanTransfers \/ ScanTransfer
  BY <1>3 DEF ScanSigns, ScanAccessRestrictions, ScanTransfers, ScanTransfer,
     Goto, Return
<1>4. CASE ScanNextDeparture \/ ScanTransitDeparture
  BY <1>4 DEF ScanNextDeparture, ScanTransitDeparture, Goto, Return
<1> QED BY <1>1, <1>2, <1>3, <1>4 DEF Step

\* The most iterations that may be left.
LoopsLeft ==
  CASE pc = "start"  -> 3 * count + 3
    [] pc = "search" -> 2 * count + 2 + (high + 1 - low)
    [] pc = "backup" -> count + 2 + mid
    [] pc = "scan"   -> count + 1 - mid
    [] OTHER         -> 0
LoopsCounted == LoopsLeft \in Nat
CountsDown == LoopsCounted' /\ LoopsLeft' < LoopsLeft

LEMMA AtLeastOneLeft ==
  ASSUME IInv, pc # "idle"
  PROVE  LoopsLeft \in Nat /\ LoopsLeft > 0
<1>1. count \in Nat
  BY TableNow DEF IInv
<1>2. pc \in {"start", "search", "backup", "scan"} /\ mid \in Nat
  BY DEF IInv, TypeOK, LocalTypes
<1>3. CASE pc = "start"
  BY <1>1, <1>3 DEF LoopsLeft
<1>4. CASE pc = "search"
  <2>1. low \in Nat /\ high \in Int /\ low <= high + 1
    BY <1>4 DEF IInv, SearchInv
  <2>2. LoopsLeft = 2 * count + 2 + (high + 1 - low)
    BY <1>4 DEF LoopsLeft
  <2> QED BY <1>1, <2>1, <2>2
<1>5. CASE pc = "backup"
  BY <1>1, <1>2, <1>5 DEF LoopsLeft
<1>6. CASE pc = "scan"
  <2>1. mid <= count
    BY <1>6 DEF IInv, ScanInv
  <2>2. LoopsLeft = count + 1 - mid
    BY <1>6 DEF LoopsLeft
  <2> QED BY <1>1, <1>2, <2>1, <2>2
<1> QED BY <1>2, <1>3, <1>4, <1>5, <1>6

\* A step that stays in the same table and is not the last.
LEMMA LoopsLeftNext ==
  ASSUME IInv, IInv', Step, pc' # "idle"
  PROVE  LoopsLeft' < LoopsLeft
<1>1. count \in Nat /\ count' = count
  BY TableNow, StepShape DEF IInv, count, Table
<1>2. CASE Start
  <2>1. pc = "start" /\ pc' = "search" /\ low' = 0 /\ high' = count - 1
    BY <1>2 DEF Start, Return
  <2>2. LoopsLeft = 3 * count + 3 /\ LoopsLeft' = 2 * count + 2 + (high' + 1 - low')
    BY <1>1, <2>1 DEF LoopsLeft
  <2> QED BY <1>1, <2>1, <2>2
<1>3. CASE Search
  <2> DEFINE i == (low + high) \div 2
  <2>1. pc = "search" /\ low <= high
    BY <1>3 DEF Search
  <2>2. low \in Nat /\ high \in Nat /\ high < count
    BY <2>1 DEF IInv, SearchInv
  <2>3. i \in Nat /\ low <= i /\ i <= high
    BY <2>1, <2>2
  <2>4. LoopsLeft = 2 * count + 2 + (high + 1 - low)
    BY <2>1 DEF LoopsLeft
  <2>5. CASE Found(i)
    <3>1. LoopsLeft' = count + 2 + i
      BY <1>1, <2>5 DEF Found, LoopsLeft
    <3> HIDE DEF i
    <3> QED BY <1>1, <2>1, <2>2, <2>3, <2>4, <3>1
  <2>6. CASE /\ pc' = "search"
             /\ \/ low' = low /\ high' = i - 1
                \/ low' = i + 1 /\ high' = high
    <3>1. LoopsLeft' = 2 * count + 2 + (high' + 1 - low')
      BY <1>1, <2>6 DEF LoopsLeft
    <3> HIDE DEF i
    <3> QED BY <1>1, <2>2, <2>3, <2>4, <2>6, <3>1
  <2> QED BY <1>3, <2>1, <2>5, <2>6 DEF Search
<1>4. ASSUME NEW next, pc = "backup", pc' = "backup", mid' = next, next = mid - 1
      PROVE  LoopsLeft' < LoopsLeft
  <2>1. mid \in Nat
    BY DEF IInv, TypeOK, LocalTypes
  <2> QED BY <1>1, <1>4, <2>1 DEF LoopsLeft
<1>5. ASSUME pc = "backup", pc' = "scan"
      PROVE  LoopsLeft' < LoopsLeft
  <2>1. mid \in Nat /\ mid' \in Nat
    BY DEF IInv, TypeOK, LocalTypes
  <2> QED BY <1>1, <1>5, <2>1 DEF LoopsLeft
<1>6. ASSUME pc = "scan", pc' = "scan", mid' = mid + 1
      PROVE  LoopsLeft' < LoopsLeft
  <2>1. mid \in Nat
    BY DEF IInv, TypeOK, LocalTypes
  <2> QED BY <1>1, <1>6, <2>1 DEF LoopsLeft
<1>7. CASE BackUp \/ BackUpNextDeparture \/ BackUpTransitDeparture \/ BackUpTransfer
  <2>1. pc = "backup" /\ (pc' = "scan" \/ (pc' = "backup" /\ mid' = mid - 1))
    BY <1>7 DEF BackUp, BackUpNextDeparture, BackUpTransitDeparture, BackUpTransfer,
       Goto, Return
  <2> QED BY <1>4, <1>5, <2>1
<1>8. CASE ScanSigns \/ ScanAccessRestrictions \/ ScanTransfers \/ ScanTransfer
  <2>1. pc = "scan" /\ pc' = "scan" /\ mid' = mid + 1
    BY <1>8 DEF ScanSigns, ScanAccessRestrictions, ScanTransfers, ScanTransfer, Goto, Return
  <2> QED BY <1>6, <2>1
<1>9. CASE ScanNextDeparture \/ ScanTransitDeparture
  <2>1. pc = "scan" /\ pc' = "scan" /\ mid' = mid + 1
    BY <1>9 DEF ScanNextDeparture, ScanTransitDeparture, Goto, Return
  <2> QED BY <1>6, <2>1
<1>10. ~ NotFound
  BY DEF NotFound, Return
<1> QED BY <1>2, <1>3, <1>7, <1>8, <1>9, <1>10 DEF Step

(***************************************************************************)
(* No loop goes round without getting nearer to its end, so a call takes   *)
(* at most three iterations for each row of its table and three more, for  *)
(* tables of any length.                                                   *)
(***************************************************************************)
THEOREM CallsCountDown == Spec => [][Step => CountsDown]_vars
<1>1. IInv => LoopsCounted
  BY AtLeastOneLeft DEF LoopsCounted, LoopsLeft
<1>2. IInv /\ IInv' /\ LoopsCounted' /\ Step => CountsDown
  <2> SUFFICES ASSUME IInv, IInv', LoopsCounted', Step PROVE CountsDown
    OBVIOUS
  <2>1. CASE pc' = "idle"
    <3>1. LoopsLeft' = 0
      BY <2>1 DEF LoopsLeft
    <3>2. LoopsLeft \in Nat /\ LoopsLeft > 0
      BY AtLeastOneLeft, StepShape
    <3> QED BY <3>1, <3>2 DEF CountsDown
  <2>2. CASE pc' # "idle"
    BY <2>2, LoopsLeftNext DEF CountsDown
  <2> QED BY <2>1, <2>2
<1> QED BY <1>1, <1>2, LookupInvariant, PTL DEF Spec

-----------------------------------------------------------------------------
(* Every answer is a right one.                                            *)

Right(a) == Answers!RightAnswer(a)

\* TableAnswers speaks of the same tables.
LEMMA SameTables ==
  /\ Answers!Match = Matches(tile, req)
  /\ Answers!Hit = Hits(tile, req)
  /\ \A i : Answers!Row(i) = Row(i)
  /\ Answers!Table(tile, req).count = count
<1>1. Answers!Table(tile, req) = Table(tile, req)
  BY DEF Table, Answers!Table, TableOf, Answers!TableOf
<1>2. \A row : Answers!Fits(req, row) <=> Fits(req, row)
  BY DEF Fits, Answers!Fits, Runs, Answers!Runs
<1>3. Answers!Match = Matches(tile, req)
  BY <1>1 DEF Matches, Answers!Matches, Answers!Match
<1>4. Answers!Hit = Hits(tile, req)
  BY <1>1, <1>2, <1>3 DEF Hits, Answers!Hits, Answers!Hit, Answers!Match
<1> QED BY <1>1, <1>3, <1>4 DEF Row, Answers!Row, count

LEMMA NoneIsRight ==
  ASSUME CallInv, pc # "idle", Matches(tile, req) = {}
  PROVE  Right(None)
<1>1. Hits(tile, req) = {} /\ req.op \in Ops
  BY TableNow
<1> QED BY <1>1, SameTables DEF None, Ops, Right, Answers!RightAnswer,
           Answers!AllSigns, Answers!TransferRange, Answers!ThatTransfer,
           Answers!EarliestDeparture, Answers!TripDeparture

\* The searches that find nothing.
LEMMA NotFoundAnswers ==
  ASSUME IInv, Start \/ NotFound, pc' = "idle"
  PROVE  Right(ans')
<1>1. CASE Start
  <2>1. count = 0 /\ ans' = None /\ pc = "start"
    BY <1>1 DEF Start, Return
  <2>2. Matches(tile, req) = {}
    BY <2>1, TableNow DEF IInv
  <2> QED BY <2>1, <2>2, NoneIsRight DEF IInv
<1>2. CASE NotFound
  <2>1. /\ ans' = None /\ pc = "search" /\ low > high
        /\ low \in Nat /\ high \in Int
        /\ \A i \in Matches(tile, req) : i \in Nat /\ low <= i /\ i <= high
    BY <1>2, TableNow DEF NotFound, Return, IInv, SearchInv
  <2>2. Matches(tile, req) = {}
    BY <2>1
  <2> QED BY <2>1, <2>2, NoneIsRight DEF IInv
<1> QED BY <1>1, <1>2

\* GetSigns.
LEMMA SignsAnswer ==
  ASSUME IInv, ScanSigns, pc' = "idle"
  PROVE  Right(ans')
<1>1. /\ pc = "scan" /\ req.op = "GetSigns"
      /\ rows = {i \in Matches(tile, req) : i < mid}
      /\ \A i \in rows : Row(i).has_text
  BY DEF ScanSigns, IInv, ScanInv
<1>2. CASE InRange /\ ~Row(mid).has_text /\ ans' = Thrown
  BY <1>1, <1>2, AtCursor, SameTables DEF Right, Answers!RightAnswer, Answers!AllSigns
<1>3. CASE ~InRange /\ ans' = rows
  <2>1. rows = Matches(tile, req)
    BY <1>1, <1>3, AtCursor
  <2> QED BY <1>1, <1>3, <2>1, SameTables DEF Right, Answers!RightAnswer, Answers!AllSigns
<1> QED BY <1>1, <1>2, <1>3 DEF ScanSigns, Return

LEMMA AccessRestrictionsAnswer ==
  ASSUME IInv, ScanAccessRestrictions, pc' = "idle"
  PROVE  Right(ans')
<1>1. /\ pc = "scan" /\ req.op = "GetAccessRestrictions"
      /\ rows = {i \in Hits(tile, req) : i < mid}
      /\ ~InRange /\ ans' = rows
  BY DEF ScanAccessRestrictions, IInv, ScanInv, Return
<1>2. rows = Hits(tile, req)
  BY <1>1, AtCursor
<1> QED BY <1>1, <1>2, SameTables DEF Right, Answers!RightAnswer

LEMMA TransfersAnswer ==
  ASSUME IInv, ScanTransfers, pc' = "idle"
  PROVE  Right(ans')
<1>1. /\ pc = "scan" /\ req.op = "GetTransfers"
      /\ m \in Nat /\ mid \in Nat
      /\ m .. mid - 1 = {i \in Matches(tile, req) : i < mid}
      /\ ~InRange /\ ans' = [start |-> m, n |-> mid - m]
      /\ Matches(tile, req) # {}
  BY DEF ScanTransfers, IInv, ScanInv, Return, Goto
<1>2. Matches(tile, req) = m .. mid - 1
  BY <1>1, AtCursor
<1>3. m + (mid - m) - 1 = mid - 1 /\ mid - m \in Int
  BY <1>1
<1>4. Answers!TransferRange(ans')
  BY <1>1, <1>2, <1>3, SameTables DEF Answers!TransferRange
<1> QED BY <1>1, <1>4, SameTables DEF Right, Answers!RightAnswer

LEMMA TransferAnswer ==
  ASSUME IInv, BackUpTransfer \/ ScanTransfer, pc' = "idle"
  PROVE  Right(ans')
<1>1. CASE BackUpTransfer
  <2>1. /\ pc = "backup" /\ req.op = "GetTransfer" /\ PriorIsSame
        /\ Fits(req, Row(mid - 1)) /\ ans' = mid - 1
        /\ mid \in Nat /\ mid <= m /\ m < count /\ m \in Nat /\ count \in Nat
    BY <1>1, TableNow DEF BackUpTransfer, Return, Goto, IInv, BackupInv
  <2>2. mid - 1 \in Hits(tile, req)
    <3>1. mid - 1 \in 0 .. count - 1 /\ Row(mid - 1).key = req.key
      BY <2>1 DEF PriorIsSame, SameKey
    <3> QED BY <2>1, <3>1, TableNow DEF IInv
  <2> QED BY <2>1, <2>2, SameTables DEF Right, Answers!RightAnswer, Answers!ThatTransfer
<1>2. CASE ScanTransfer
  <2>1. /\ pc = "scan" /\ req.op = "GetTransfer"
        /\ \A i \in Hits(tile, req) : mid <= i
    BY <1>2 DEF ScanTransfer, IInv, ScanInv
  <2>2. CASE InRange /\ Fits(req, Row(mid)) /\ ans' = mid
    BY <2>1, <2>2, AtCursor, SameTables DEF Right, Answers!RightAnswer, Answers!ThatTransfer
  <2>3. CASE ~InRange /\ ans' = Nullptr
    <3>1. \A i \in Hits(tile, req) : i \in Nat /\ i < mid /\ mid <= i /\ mid \in Nat
      BY <2>1, <2>3, AtCursor
    <3>2. Hits(tile, req) = {}
      BY <3>1
    <3> QED BY <2>1, <2>3, <3>2, SameTables DEF Right, Answers!RightAnswer,
               Answers!ThatTransfer
  <2> QED BY <1>2, <2>1, <2>2, <2>3 DEF ScanTransfer, Return, Goto
<1> QED BY <1>1, <1>2

LEMMA NextDepartureAnswer ==
  ASSUME IInv, ScanNextDeparture, pc' = "idle"
  PROVE  Right(ans')
<1>1. /\ pc = "scan" /\ req.op = "GetNextDeparture"
      /\ mid < count /\ SameKey(mid)
      /\ \A i \in Hits(tile, req) : mid <= i
      /\ tile \in Tiles /\ req \in Requests
  BY DEF ScanNextDeparture, IInv, ScanInv, CallInv
<1>2. InRange
  BY <1>1 DEF InRange
<1>3. CASE Fits(req, Row(mid)) /\ ans' = mid
  <2>1. mid \in Hits(tile, req)
    BY <1>1, <1>2, <1>3, AtCursor
  <2>2. \A i \in Hits(tile, req) : Row(mid).departure_time <= Row(i).departure_time
    BY <1>1, <2>1, DeparturesInOrder DEF Hits, Row
  <2>3. Answers!EarliestDeparture(ans')
    BY <1>3, <2>1, <2>2, SameTables DEF Answers!EarliestDeparture
  <2> QED BY <1>1, <2>3 DEF Right, Answers!RightAnswer
<1>4. CASE /\ ~Fits(req, Row(mid))
           /\ ~(mid + 1 < count /\ SameKey(mid + 1))
           /\ ans' = Nullptr
  <2>1. /\ mid \in Nat /\ count \in Nat
        /\ \A i \in Hits(tile, req) :
             i \in 0 .. count - 1 /\ Row(i).key = req.key /\ Fits(req, Row(i))
    BY <1>1, AtCursor DEF SameKey
  <2>2. ASSUME NEW i \in Hits(tile, req)
        PROVE  FALSE
    <3>1. i # mid
      BY <1>4, <2>1
    <3>2. mid <= i /\ i \in 0 .. count - 1
      BY <1>1, <2>1
    <3>3. mid + 1 <= i /\ mid + 1 < count /\ mid + 1 \in 0 .. count - 1
          /\ mid \in 0 .. count - 1
      BY <2>1, <3>1, <3>2
    <3>4. Row(mid).key <= Row(mid + 1).key /\ Row(mid + 1).key <= Row(i).key
      BY <1>1, <3>2, <3>3, TableNow DEF IInv
    <3>5. Row(mid).key = req.key /\ Row(i).key = req.key
      BY <1>1, <2>1 DEF SameKey
    <3>6. Row(mid + 1).key \in Nat /\ req.key \in Nat
      BY <1>1, <2>1, <3>3, TableNow DEF IInv
    <3>7. Row(mid + 1).key = req.key
      BY <3>4, <3>5, <3>6
    <3> QED BY <1>4, <3>3, <3>7 DEF SameKey
  <2>3. Hits(tile, req) = {}
    BY <2>2
  <2> QED BY <1>1, <1>4, <2>3, SameTables DEF Right, Answers!RightAnswer,
             Answers!EarliestDeparture
<1> QED BY <1>1, <1>3, <1>4 DEF ScanNextDeparture, Return, Goto

\* The answers that are not: the trip, but not of the line.
Strays(a) ==
  /\ req.op = "GetTransitDeparture" /\ Hits(tile, req) = {} /\ Matches(tile, req) # {}
  /\ a \in 0 .. count /\ Row(a).tripid = req.arg

LEMMA TransitDepartureAnswer ==
  ASSUME IInv, BackUpTransitDeparture \/ ScanTransitDeparture, pc' = "idle"
  PROVE  Right(ans') \/ Strays(ans')
<1>1. CASE BackUpTransitDeparture
  <2>1. /\ pc = "backup" /\ req.op = "GetTransitDeparture"
        /\ Fits(req, Row(mid)) /\ ans' = mid /\ SameKey(mid)
        /\ mid \in Nat /\ mid <= m /\ m < count /\ m \in Nat /\ count \in Nat
    BY <1>1, TableNow DEF BackUpTransitDeparture, Return, Goto, IInv, BackupInv
  <2>2. mid \in Hits(tile, req)
    <3>1. mid \in 0 .. count - 1
      BY <2>1
    <3> QED BY <2>1, <3>1, TableNow DEF IInv, SameKey
  <2> QED BY <2>1, <2>2, SameTables DEF Right, Answers!RightAnswer,
             Answers!TripDeparture
<1>2. CASE ScanTransitDeparture
  <2>1. /\ pc = "scan" /\ req.op = "GetTransitDeparture"
        /\ mid \in Nat /\ mid <= count /\ count \in Nat /\ Ahead
        /\ Matches(tile, req) # {} /\ req.key \in Nat
        /\ \A i \in Hits(tile, req) :
             mid <= i /\ i \in 0 .. count - 1 /\ Row(i).key = req.key
    BY <1>2, AtCursor, TableNow DEF ScanTransitDeparture, IInv, ScanInv, SameKey
  <2>2. CASE Fits(req, Row(mid)) /\ ans' = mid
    <3>1. CASE Hits(tile, req) = {}
      <4>1. Row(mid).tripid = req.arg
        BY <2>1, <2>2 DEF Fits
      <4>2. mid \in 0 .. count
        BY <2>1
      <4> QED BY <2>1, <2>2, <3>1, <4>1, <4>2, SameTables DEF Strays
    <3>2. CASE Hits(tile, req) # {}
      <4>1. PICK i \in Hits(tile, req) : TRUE
        BY <3>2
      <4>2. mid <= i /\ i \in 0 .. count - 1 /\ mid \in 0 .. count - 1
        BY <2>1, <4>1
      <4>3. Row(mid).key <= Row(i).key /\ Row(i).key = req.key
        BY <2>1, <4>1, <4>2, TableNow DEF IInv
      <4>4. Row(mid).key \in Nat /\ Row(mid).key >= req.key
        BY <2>1, <4>2, TableNow DEF IInv, Ahead
      <4>5. Row(mid).key = req.key
        BY <2>1, <4>3, <4>4
      <4>6. mid \in Hits(tile, req)
        BY <2>1, <2>2, <4>2, <4>5, TableNow DEF IInv
      <4> QED BY <2>1, <2>2, <4>6, SameTables DEF Right, Answers!RightAnswer,
                 Answers!TripDeparture
    <3> QED BY <3>1, <3>2
  <2>3. CASE mid >= count /\ ans' = Nullptr
    <3>1. Hits(tile, req) = {}
      BY <2>1, <2>3
    <3> QED BY <2>1, <2>3, <3>1, SameTables DEF Right, Answers!RightAnswer,
               Answers!TripDeparture
  <2> QED BY <1>2, <2>1, <2>2, <2>3 DEF ScanTransitDeparture, Return, Goto
<1> QED BY <1>1, <1>2

LEMMA StepAnswers ==
  ASSUME IInv, Step, pc' = "idle"
  PROVE  Right(ans') \/ Strays(ans')
<1>1. ~Search /\ ~BackUp /\ ~BackUpNextDeparture
  BY DEF Search, Found, BackUp, BackUpNextDeparture, Goto
<1> QED BY <1>1, NotFoundAnswers, SignsAnswer, AccessRestrictionsAnswer,
           TransfersAnswer, TransferAnswer, NextDepartureAnswer,
           TransitDepartureAnswer DEF Step

(***************************************************************************)
(* The lookups implement TableAnswers: for every tile, whatever its tables *)
(* hold and whatever follows them in memory, each of the six calls gives   *)
(* an answer that the whole table justifies (graphtile.cc:347-702), except *)
(* GetTransitDeparture asked for a trip its line does not have.  That call *)
(* is the only one that strays, and only for such a request.               *)
(***************************************************************************)
THEOREM LookupsAnswerRight == Spec => ImplementsTableAnswers
<1>1. Init => Answers!Init
  BY DEF Init, Answers!Init, NoRequest, Answers!NoRequest
<1>2. IInv /\ [Next]_vars => [Answers!Next]_(Answers!vars)
  <2> SUFFICES ASSUME IInv, [Next]_vars PROVE [Answers!Next]_(Answers!vars)
    OBVIOUS
  <2>1. CASE Step
    <3>1. CASE pc' = "idle"
      <4>1. CASE Right(ans')
        BY <2>1, <3>1, <4>1, StepShape DEF Right, Answers!Next, Answers!Answer
      <4>2. CASE Strays(ans')
        BY <2>1, <3>1, <4>2, StepShape, SameTables DEF Strays, Answers!Next, Answers!Stray
      <4> QED BY <2>1, <3>1, <4>1, <4>2, StepAnswers
    <3>2. CASE pc' # "idle"
      BY <2>1, <3>2, StepShape DEF Answers!vars
    <3> QED BY <3>1, <3>2
  <2>2. CASE \E r \in Requests : Call(r)
    BY <2>2 DEF Call, Answers!Next, Answers!Ask
  <2>3. CASE UNCHANGED vars
    BY <2>3 DEF vars, Answers!vars
  <2> QED BY <2>1, <2>2, <2>3 DEF Next
<1> QED BY <1>1, <1>2, LookupInvariant, PTL DEF Spec, ImplementsTableAnswers,
           Answers!Spec
=============================================================================
