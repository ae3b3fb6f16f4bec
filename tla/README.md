# Baldr, verified

TLA+ models of baldr, the tile access library of the Valhalla routing engine
(C++), the TLC runs that check them on small instances, and TLAPS proofs of what
matters most for every value of the constants. Source paths are relative to the
directory that holds `src/`; `graphreader.cc:55` is line 55 of
`src/src/baldr/graphreader.cc`, a `.h` file is under `src/valhalla/baldr/`.

## 1. The system

Baldr reads a road and transit network that another program cut into files, one
per tile of a level of a hierarchy, and answers queries about it.  It is a
library that starts no threads.  A GraphReader belongs to one thread ("It is
NOT thread-safe!", graphreader.h:16), a process may have several; what they share
is the connectivity map inside AreConnected.  It writes no files.

| Component | State | Operations | What makes it correct |
|---|---|---|---|
| GraphId (graphid.{h,cc}) | bit fields: tile 24, level 3, id 37 bits | constructor, Set, Set_id, Tile_Base, Is_Valid, `+`, `++` | fields in range, no set id turns invalid, stepping stays in the tile |
| GraphReader (graphreader.{h,cc}) | map from tile base to GraphTile, size counter | GetGraphTile, DoesTileExist, GetOpposingEdgeId, GetOpposingEdge, GetEdgeDensity, Clear, OverCommitted, AreConnected | tiles handed out are stable, the counter matches the map, the opposing edge is the opposing edge |
| GraphTile, loading (graphtile.cc 43-233) | the bytes of a file, pointers to arrays in them | constructor, FileSuffix, GetTileId | the file of a tile id is that tile's, pointers lead to the tables written |
| GraphTile, indexed accessors (graphtile.cc 235-345, 530-545, 700-709) | none of its own | node, directededge, edgeinfo, GetDirectedEdges, GetNames, admininfo, admin, GetName, GetTransitStop, GetTransitRoute, GetCell | a record handed out is the one written with that index |
| GraphTile, lookups (graphtile.cc 347-702) | none of its own | GetSigns, GetNextDeparture, GetTransitDeparture, GetTransfers, GetTransfer, GetAccessRestrictions | the searches answer what the whole sorted table justifies, end, and stay in the table |
| GraphTileHeader | counts, offsets, tile date | getters, setters, cell_offset | counts fit their fields, cells share out the edges |
| NodeInfo, DirectedEdge | packed bit fields, some shared by several local edges or by a union | getters and setters | a value that fits reads back, one beyond a limit does not wrap, a setter changes its own value only |
| EdgeInfo (edgeinfo.{h,cc}) | pointers into the tile; the shape once decoded | wayid, GetNames, shape, encoded_shape | the names and the shape are those written, before and after decoding |
| DateTime (datetime.{h,cc}) | none; 64 bit masks of service days; the clock | get_service_days, add_service_day, remove_service_day, is_service_available, iso_date_time, seconds_since_epoch, seconds_to_date, get_duration, ... | bit x of a mask is day x after the tile date; dates, seconds and durations agree with the clock |
| TileHierarchy (tilehierarchy.{h,cc}) | levels and tile directory, read once | levels, tile_dir, HasLevel, GetGraphId | a position's tile is a tile of its level |
| ConnectivityMap (connectivity_map.{h,cc}) | colour of each tile by level | constructor, get_color, to_geojson, to_image | tiles have one colour exactly when listed tiles join them |
| PathLocation, Location | edges a location is correlated to, the node flag, the correlated point | CorrelateEdge, CorrelateVertex, ClearEdges, IsNode, `==`, ToPtree, FromPtree | the flag says the location is at an end of all its edges; a tree reads back as what was written |
| StreetNames (streetname*.{h,cc}) | the names of one edge, US or not | directions, GetBaseName, FindCommonStreetNames, FindCommonBaseNames | what is left along a road are the names all its edges share |
| VerbalTextFormatter, Turn, SignInfo, Admin, transit records, JSON, constants | values | getters, formatting | |

How they interact.  GraphReader calls TileHierarchy for the directory and the
levels, GraphTile's constructor to read a file, and GraphTile's accessors for
nodes and edges; GraphTile's transit lookups use DateTime's masks, which the
transit tile builder made with DateTime's functions and stored in the tile;
ConnectivityMap is a function-local static of `GraphReader::AreConnected`.  All
are direct calls.  The only state shared with another process is the tile
directory; a PathLocation passes from one process to the next as a property
tree.  StreetNames are made by a caller from the texts of an EdgeInfo.

What is hard. There are no messages in this library, and one point where threads
meet: the first call of AreConnected lists the tile files while other threads
wait for it and files come and go. What else goes wrong in it is: a query that
needs several tiles reads several files, between which the directory may be
rebuilt or a tile may be missing; pointers into the cache are kept across
further loads; a counter is kept beside the map it measures; hand written binary
searches, with walks to either side after a match; masks
of days whose bits are counted from two different dates; local times that a
clock shows twice or skips; values packed into bit fields and clamped, wrapped
or shifted out; offsets into a file that may be shorter than its header says.
Section "hazards" of PROJECT.json lists them line by line.

## 2. Modules and the code

`EXTENDS` and `INSTANCE`:

    GraphId <- TilePath <- GraphIdOps <- GraphIdProofs
               TilePath <- Connectivity <- MCConnectivity
                           Connectivity <- ConnectivityProofs
                           Connectivity --implements--> ConnectedRegions
    GraphId <- GraphReader <- MCGraphReader
               GraphReader <- GraphReaderProofs
               GraphReader --implements--> TileStore
    TileTables <- TableAnswers
    TileTables <- TileLookup <- MCTileLookup
                  TileLookup <- TileLookupProofs
                  TileLookup --implements--> TableAnswers
    LocalEdges <- LocalEdgesProofs
    GraphIdOps, LocalEdges <- MCPackedFields
    RecordFields, TileLayout <- MCTileRecords
    RecordFields, TileLayout <- TileRecordsProofs
    Calendar <- ServiceDays, LocalTime
                ServiceDays, LocalTime <- DateTimeProofs
    PathLocation, StreetNames <- EdgeByEdgeProofs
    ServiceDays, LocalTime, PathLocation, StreetNames <- MCValues

Modules that are checked or proved about together name their state machines
apart: LayoutInit, ClockNext, PathSpec, WordsTypeOK and so on.

**GraphId, TilePath, GraphIdOps** (graphid.{h,cc}, graphtile.cc 161-233,
tilehierarchy.cc 51-62).  An id is a record of its three fields.  `Set` is the
constructor with its tests (a field at or above its limit is stored as 0),
`Tile_Base` the id 0 element of a tile, `Is_Valid` the comparison with the invalid
bits.  TilePath has the names of files: FileSuffix prints one 32 bit number,
level * 10^digits + tile id, with a slash between groups of three digits, and for
level 0 prints a 1 in front that it overwrites with 0; GetTileId multiplies the
groups out again.  A name is the sequence of the numbers between its slashes.  A
position is the cell midgard's grid gives it, or -1 outside the grid.  GraphIdOps
walks one id through Set, `+`, `++`, Tile_Base, positions, and names written and
read, with field arithmetic modulo the field's width.  `value()`, ordering and
hashing are left out: nothing here depends on the order.  A comment
(graphid.cc:13) counts eight hierarchies; Set makes level 7 level 0, so there
are seven.  The comment above FileSuffix's digits speaks of level 8 and eleven
digits; the number is 32 bits wide and holds nine.

**ConnectedRegions, Connectivity** (connectivity_map.cc, graphreader.cc 40-48).
`build` is how far the constructor of the function-local static is: not begun,
listing a level, colouring, done.  A level is opened, its files are given one at
a time in any order, and it ends or is cut short by an error, which the code
swallows.  `disk` changes in between; a file that comes or goes while its level
is open may be given or not.  `kept` and `seen` record which files stayed and
which were there at some time: the properties need them, the code does not have
them.  The grid's neighbours and Tiles::ColorMap are midgard's, hence external:
one colour for each region, in any order.  The image and the GeoJSON throw for a
level that the hierarchy or the colours do not have (`IsMapped`).  `call` is the call of each thread;
those that come while the static is made wait.  ConnectedRegions is the promise:
one division, made once, that every answer comes from.  All readers have the
same directory.

**TileStore, GraphReader** (graphreader.cc, graphtile.cc 43-158,
`GraphTile::node` and `directededge`).  `disk` is the tile directory, `cache_`
the map, `cache_size_` the counter, `call` the program counter and the locals of
the call in progress, `last` the result of the last call.  Everything up to and
including one read of a file is one action, so `GetOpposingEdgeId` takes one or
two and `GetEdgeDensity` up to three; between them `Publish` may replace any
file by that of another build.  `Load` is the part of GetGraphTile that touches
the cache, in all of them.  A `GraphTile*` is the key of the cache entry, so a
pointer kept over a step is read again through the cache.  Throws and null
pointer dereferences are results (`Thrown`) and states (`Crashed`).  Of an empty
file the constructor reads the header from an empty buffer (graphtile.cc:81-99),
which is undefined: the process dies, or the tile of size 0 is not taken
(`Overruns`).  A tile is its size, its nodes (edge index, edge count, density) and its edges (end
node, leaves_tile, opp_index).  TileStore is what a reader promises: a view that
gains snapshots of files one at a time, never changes one it has, and is
dropped as a whole.

**TileTables, TableAnswers, TileLookup** (graphtile.cc 347-702).  TileTables
defines the four sorted tables: signs and access restrictions by edge index,
transfers by stop, departures by line id and time.  TableAnswers says what each
of the six lookups should answer given the whole table, TileLookup has the
loops: the binary search with its `low`, `high`, `mid`; the walk back
after a match, the forward scan; one iteration is one step.  Rows are read
through `Row`, where the row after the table is whatever the memory holds (the
worst case: it looks like the last key).  A sign is whether it has a text; the
text is data.  In one case GetTransitDeparture does not keep the promise: asked
for a trip that a line with departures lacks, its last scan compares only the
trip (graphtile.cc:513), and the answer may be a departure of a later line, or the
row after the table.  That step is `Stray`, apart from the right answers; the run
departure_of_line shows it.

**TileLayout** (graphtile.cc 43-158, 235-345, 530-545, 700-709; edgeinfo.{h,cc};
graphtileheader.cc 138-223).  `content` is what a builder wrote, `size` the bytes
its file has left, `tile` the pointers the constructor derives, as offsets from
the start of the file.  A header keeps counts modulo what their bits hold, so the
tables after an overflowed one are looked for in the wrong place; the properties
say what holds of the tables before it.  The accessors
answer a place, a throw, a null pointer, or Undefined for memory that is gone.
`info` is an EdgeInfo a caller keeps; it points into the tile until shape() has
decoded it, and Free (Clear, from its side) takes the tile away.  GetTransitRoute
tests its index against the number of stops (graphtile.cc:539), as the model
does (run route_index); admininfo's texts are left out.

**LocalTime, Calendar** (datetime.cc 236-330, 377-450, 508-540). An instant is a
number of seconds in UTC, a local time a number of seconds on the wall clock; a
zone has an offset and one summer time. The zones are Boost's: Local, Skipped,
OnlySummer and Utc are external. `now` runs on between calls, `kept` is a time a
caller got earlier, `ret` the last answer. iso_date_time keeps seconds of the
day in a uint8_t (datetime.cc:312), so that "in the past" compares remainders of
256; seconds_since_epoch says of every time that it is not in summer time (409),
so that Boost throws in summer and 0 is answered; get_duration adds on the wall
clock (532).

**StreetNames** (streetname*.cc).  A name is the sequence of its words.  `edges`
are the edges a caller has gone along, `common` and `base` the names left by
FindCommonStreetNames and FindCommonBaseNames.  Both are one loop over a list
that copies names in order, `Kept`.  A US name may begin and end with
a direction; the base name is what is between.  In a name that is two directions
the blank belongs to both, the length given to substr is -1, and the rest of the
name is taken: GetBaseName does the same.  Of two names with one base the code
keeps the one that ends in a cardinal direction.  Where the road crosses from US
edges to others the exchange may lose a name: "Main North" replaces "Main" in a
list that is not US, for which it is a name of its own, and no later "Main"
matches it.

**ServiceDays** (datetime.cc 86-193; the tests of graphtile.cc 436-455 on a
departure). A mask is the set of its one bits, 0 to 63. `feed` is what the
transit feed asks for: start, end, weekdays, and the exceptions applied so far;
GetServiceDays moves the two dates by reference and builds the mask; a shift by
64 or more is undefined, and `Shifted` takes both what compilers and processors
make of it, no bit or the amount modulo 64. The sixty day loop reaches bit 118,
so a service that starts later may get days before its start, although the
comment at line 75 has the bits begin with it. Exceptions count from the moved
start date (158, 173), the mask from the tile date (transitdeparture.h:95): they
agree only for a service that has started (`CountsAgree`); after an exception to
a later one the mask is wrong. Each exception rewrites the whole mask, the
removal with two complements (174). GetNextDeparture goes back to the weekdays
after the end day, also within the sixty days in which its comment says the mask
decides (graphtile.cc:442), so that a departure runs on after its service has
ended; ReadersFollowSchedule is about dates up to the end. `EndDay`, the six bit
field the builder stores, is external; so is the order of the calls, which is
that of the transit builder.

**LocalEdges** (nodeinfo.cc 51-64, 195-212, 309-378; directededge.cc 32-45,
502-585). The words in which a node and a directed edge keep a value for each of
the first eight local edges, or for each of their 28 pairs. A word is the set of
its one bits; `Layout` gives the bits of each field and so the two unions,
`Load` and `Store` are the bit field accesses with their truncation,
OverwriteBits the helper of that name. set_heading ORs its bits in
(nodeinfo.cc:376), so a second heading is mixed with the first, where
nodeinfo.h:310 says it is set. Every setter but set_stopimpact ignores an index
beyond the eighth edge. That one shifts the bits out of its field, or, from
index 11 on, shifts a 32 bit number by 33 or more, which is undefined: no bit,
or the amount modulo 32, which comes round to the impacts of other edges
(`StopImpactTooFar`; run far_stop_impacts). `blurred` are the slots so
overwritten, and those of second headings; ReadsBack and HeadingReadsBack are
about the others. `given` is not in the code: it records what callers stored
last and which half of a union still holds. A behaviour follows one word, since
the words are separate memory. Headings are shrunk and expanded with the
rounding of the code; the quotients are never halves (359 is prime and 255 is
odd), so single precision rounds them as integers do.

**RecordFields** (nodeinfo.cc 97-306, directededge.cc 53-499 and 586-700,
graphtileheader.cc 52-162; the bits in nodeinfo.h, directededge.h and
graphtileheader.h, the limits and enumerators in graphconstants.h). `stored`
holds the bits of every field of one value, `given` what each setter last
accepted. A setter is one of four kinds: it stores whatever it gets, clamps it,
replaces it by a neutral value, or throws (and then changes nothing); in each
the assignment keeps the low bits. Setters that are none of these have
definitions of their own: the local edge count, kept less one, and the two
shortcut masks. `set_superseded(0)`, the documented way to say "not superseded",
shifts by 2^32 - 1, which is undefined; the model leaves any mask, where a build
for x86 of today happens to leave 0, and MasksMatch says nothing of it. The
argument of set_admin_index has 16 bits, so that 65536 is 0 before it is tested
(`Passed`). The transit counts of the header are not tested at all: of 4096
routes it says there are none, and the tables behind them are looked for in the
wrong place. The curvature is limited to 15, and directededge.h:105 speaks of a
range from 0 to 16: 16 comes out as 0.

**PathLocation** (pathlocation.cc). `location` is what each holder has, `ptree`
the tree last written, which any holder may read, more than once. Distances
along an edge are integers in units that Close, midgard's tolerant comparison,
tells apart. The constructors inherited from Location leave `node_`
uninitialized, so Construct chooses either value. A tree carries the index of
its location, which FromPtree does not test (pathlocation.cc:89-90): beyond the
end it copies what lies there, or the process dies and its successor begins with
a new location. Vertices are compared by midgard's ApproximatelyEqual, of which
the model knows that a point is close to itself and that closeness is mutual,
and no more. `operator==` looks for its own edges in the other location and not
the reverse; it is not symmetric in general (a location without edges equals any
with the same flag and vertex), and EqualIsSymmetric says when it is.

## 3. Runs

| Run | Module | Bounds | Shows |
|---|---|---|---|
| reader | GraphReader | one level, tiles A and B, a third one that no build holds, four builds: full, later (nodes and edges numbered otherwise), region (B missing), failed (empty files); `max_cache_size_` 3 with tiles of size 1 to 3 | held pointers stay good, the counter counts each byte of the cached tiles once, opposing edges and densities are right, the reader is a TileStore, on every interleaving of calls and publications of single files |
| lookups | TileLookup | every sorted table of up to 4 rows of 2 keys and 2 times, every lookup with present and absent keys | each lookup gives the answer TableAnswers derives from the whole table (or strays, see above), stays in the table, and ends |
| connectivity | Connectivity | two threads; level 0 of two tiles, level 1 a row of three and one apart; four files, the middle of the row not there at first; two changes on disk; any listing may fail | tiles are connected only by files that were there, never rejected when joined by files that stayed while listings did not fail; image, GeoJSON and answers agree; answers come from one division; every call is answered |
| packed_fields | GraphIdOps | limits 1677 / 7 / 1 for tile, level, id, groups of one digit, a printed type of 4295 values; levels 0, 1, 2, 3, 5 with largest tiles 40, 64, 103, 0, 999, level 4 missing; arguments at and beyond each limit and power | ids set, located, or taken from names stay valid; the name of each tile of a level whose numbers fit reads back as that tile |
| packed_fields | LocalEdges | local indexes 0, 1, 7 and, beyond the last, 8, 10 and 11; all values of driveability and turn types; stop impacts 0, 3, 7, 12; headings 0, 1, 185, 359, 719 degrees | each value reads back as set, whatever is set beside it, unless blurred; headings within one degree |
| tile_records | RecordFields | for each field 0, 1, the largest value it has room for and the two after it; for enumerations the end of each run of enumerators; shortcut numbers 0 to 8; two fields set, in any order | enumerators and values that fit read back, values beyond a limit do not wrap, the masks of shortcut and superseded edge match |
| tile_records | TileLayout | records of 1 to 3 bytes; count ranges 4, 3, 2, 2 for departures, stops, routes, transfers, with counts within and beyond; a grid of 2 x 2 cells, two of them empty; files short of 0, 1, 3, 4 bytes; edge infos within and beyond the bits of their counts; indices up to 4 | records, edges, cells, names and edge infos handed out are those written, wherever no count before them overflowed; a decoded shape outlives its tile |
| values | ServiceDays | real constants 59, 64, 7; feed dates at -70, -1, 0, 1, 4, 5, 30, 59, 60, 64, 130 from the tile date; weekdays none, weekend, all; exceptions in any order | the mask is the feed's schedule, and its readers follow it, where the two counts agree |
| values | LocalTime | two zones; 15 instants around both changes, the hours shown twice and the end of a day; eight times of day, some of which one byte confuses; five durations | weekdays, seconds, dates and durations agree with the clock, with the exceptions the properties name |
| values | PathLocation | two holders, up to two edges each out of five: both ends of one edge, three distances and both sides on another, two of them within the tolerance; two vertices and none, two of them close; a location index that the list it is read from has or lacks | the node flag follows the edges, trees read back equal, equality is symmetric for distinct edges |
| values | StreetNames | three edges, US or not; every list of up to two of six names, with two cardinal directions and a diagonal one | the names left are those shared, with the first direction met |

packed_fields, tile_records and values each run two or four modules that have no
variable in common.  Their MC modules have one more variable, `part`: a
behaviour follows one of them through all its actions while the others rest in an
initial state.  The reachable states are those of each module, side by side.

Why the bounds are enough.  The field limits and the group size appear only in
comparisons and in powers, so small ones reach every case: numbers of one to four
groups, around each power, one that no longer fits the type, and a grid
of a single tile.  A call of the reader reads at most three files; the builds hold
an edge within a tile, edges across, nodes whose edge indices differ between
builds, edges to a tile and to a level that do not exist, and a missing and an
empty file, so each outcome of each branch occurs.  Search windows of 0 to 4 rows
are the ones in which halving rounds differently or the walks meet an end of the
table.  The date offsets lie on both sides of each comparison in
get_service_days.  Local edges 0 and 1 are neighbours in every word, 7 is the last
slot, and the pairs of them lie at both ends of the same row and of different rows
of ContinuityLookup; the theorems cover the other indexes.  Every limit of a field
is a power of two or one less, and the arguments stand on both sides of it; two
fields are enough for the only properties that relate two, those of the shortcut
masks.  Two edges are enough for the node flag to be set, lost and stale, and for
one location's edges to be part of the other's.  Two threads are the one that
lists and one that waits, two changes let a file come and go within one listing,
and a row of three has a middle whose file decides whether the ends are joined.
In TileLayout each count that can overflow does so in some content and not in
another.  Three edges let a name be exchanged and then meet a third; two names in
a list let the second match when the first does not.

Type invariants: TypeOK of every module (WordsTypeOK, PathTypeOK) is proved; TileLayout's, LayoutTypeOK, is
checked by its run as well.  LocalTime and StreetNames state none: their
properties pin the answers down, and the types are part of the invariants their
proofs use (ClockTypeOK, NamesTyped).

Six runs end in a violation.  Each states a sentence of the repository and shows
that the code does otherwise (PROJECT.json "findings" quotes both); they use the
constants of the passing run of their module:

| Run | The sentence | The code |
|---|---|---|
| density_at_border | the opposing edge may not exist at the border of an extract (graphreader.h:99) | GetEdgeDensity dereferences the nullptr (graphreader.cc:132) |
| departure_of_line | the departure with a line and a trip, or nullptr (graphtile.h:192, 196) | the last scan does not compare the line (graphtile.cc:513) |
| route_index | the route with an index, or nullptr (graphtile.h:208-211) | the index is tested against the stops (graphtile.cc:539) |
| time_past | "is the desired time in the past?" (datetime.cc:319) | times of day are compared in a byte (datetime.cc:312) |
| summer_seconds | seconds of a date and time adjusted to the zone (datetime.h:135) | none in summer (datetime.cc:409) |
| far_stop_impacts | the impact of the edge from a local index (directededge.h:533) | an index of 11 or more may change another's (directededge.cc:547) |

Every property of a passing run has a mutant in PROJECT.json: an operator in the
module beside the one it replaces, written as a plausible bug (a size counted
twice, a walk back that stops early, an eviction in the middle of a call, ...),
under which TLC finds that property violated.

**Deadlock** is checked in every run: a caller may always call again.  Where one
really stops, when the tile is freed and no edge info is kept, or after MaxStretch
edges, the MC module says so with a step of its own that changes nothing
(LayoutDone, NamesDone).

**Fairness.**  TileLookup has `WF_vars(Step)`, that a call goes on through its
loop.  Connectivity has weak fairness of Construct and, for each thread, of Enter
or Answer: whoever is in AreConnected goes on listing and colouring, or enters and
answers when it may.  All of it is sequential code that nothing in the process
suspends.  Nobody is obliged to start a call or to change a file, so Call and
Change have none.  Under it EveryCallReturns says that every search ends,
EveryCallAnswered that every AreConnected is answered, also one that waits and one
whose listing fails.

## 4. Proofs

All proofs are for every value of the constants that satisfies the named ASSUMEs.

**GraphIdProofs**, from GraphIdLimits, PathNumbers and ArgumentTypes.
NamesReadBack is arithmetic on the groups of a number: DivisionIsUnique (a
quotient and a remainder determine each other), GroupsReadBack (the groups of a
number of up to four groups, multiplied out, are the number), LeastPower and
NameReadsBack, which splits off the level, or the 1 that becomes 0 in level 0.
`IInv` is TypeOK with InAskedTile (the id lies in the tile last asked for) and
FileIsNamed (a name kept is FileSuffix of the canonical id kept beside it);
without the first, `++` could reach the invalid bits.  TypesKept, SetIdsStayValid,
TileNamesReadBack, StepsStayInTile.

**ConnectivityProofs**, from ConnectivityTypes, PathNumbers and GraphIdLimits.
Regions are defined by closure (a tile is in every set that contains the start and
is closed under neighbours); JoinedGrows, JoinedBack and JoinedOn make it
monotone, symmetric and transitive, OneRegion makes equal regions the same as
joined tiles, and ColorsAreRegions carries that over to colours.  `IInv` is TypeOK
with ListedWereSeen, KeptAreListed (of a level that was left and not cut),
ColorsAreOfListed and AnswerIsOfColors: what an answer says follows from what was
listed, long after the files have changed.  MapsShowTheAnswers rests on
FeaturesOfColors and FeaturesCoverTiles: the pairs of a size and a colour that the
multimap holds lose no colour, also when regions are of one size.  ListingEnds
gives a count that every step of the construction lowers and no other step
touches: it ends after one step for each level, one for each file and two more,
whatever comes, goes or fails.  TypesKept, ConnectedIsByFiles,
JoinedNeverRejected, MapsShowTheAnswers, AnswersAreOfRegions (the refinement),
ListingEnds.

**GraphReaderProofs**, from ConstantTypes, GraphIdLimits and BuildsAreConsistent
(what the graph builder guarantees of one complete build: opposing edges are
mutual, leaves_tile is right, end nodes are canonical ids; any tile may lack).
`IInv` is TypeOK with HeldPointersLive and CacheSizeCovers: TypeOK alone is not
inductive, since FindEndNode reads the held edge through the cache, and that
read is defined only because the tile is still there. From it TypeCorrect,
PointersHeldAreLive, CacheSizeIsCover, TilePointersAreStable and the refinement
ReaderIsTileStore follow. CacheSizeExact is stated without a sum: CachedBytes
has one element for each byte of each cached tile, and the counter is its
cardinality; OneMoreTile, from the library's facts on unions and products of
finite sets, says that Load adds as many as the new tile has, and adds none for
a tile already there, from which CacheSizeIsExact follows. `AInv` adds what the
answer properties need: for every build the cache agrees with, the call in
progress and the last result are right about that build. It is quantified over
builds because a later load can only remove builds from those the cache agrees
with, so a statement proved when the result was computed stays true. From it
OpposingEdgeIsOpposite, OneBuildDoesNotThrow and DensityIsOfBeginNode.

**TileLookupProofs**, from TableTypes (tables are sorted). `IInv` says of each
pc where the window stands relative to the matching rows: in the search every
match is within low..high, in the walk back every row between the cursor and the
match matches, in the forward scan all rows passed were taken or rightly left
out. The answer at the end follows from the sortedness. LoopsLeft bounds the
iterations that may follow: at most three for each row and three more at first,
fewer with each step (CallsCountDown), which is what EveryCallReturns needs
beside fairness. TypesAreKept, CursorStaysInTable, SearchKeepsMatches,
LookupsAnswerRight, CallsCountDown.

**DateTimeProofs**, from FeedsAreDated and ClockTypes. For ServiceDays `Inv`
ties the moved dates to the feed's (Unmoved before the first step, Moved after),
bounds them by the window, and gives MaskIsSchedule for services that do not
start after the tile date. TypesKept, MaskFollowsSchedule, DatesBoundWindow,
ReadersAgree.

For LocalTime, ClockTypes says that zones have offsets and changes in whole
minutes, as Boost's have, one summer time, and times of day asked for in whole
minutes; instants, zones and durations are otherwise any. `ClockInv` adds to the
four properties that the time a caller keeps is what the zone's clock showed, to
the minute, at some instant (KeptIsOfClock), and that seconds answered are those
of such a time (SecondsAreOfKept): without the first nothing is known of the
text that seconds_since_epoch and get_duration are given later, when the clock
has moved on. The arithmetic is in lemmas of its own: WholeMinutesMoveOut
(cutting to minutes commutes with a zone's offset), WeekdayCounted and
NextDayComes (counting forward to a weekday), LabelOfSeconds (a time that
seconds are answered for turns back into itself). WeekdaysAreNext,
SecondsOfTheClock, SecondsTurnBack, LaterOnTheClock.

**LocalEdgesProofs**, from LocalArguments (indexes and values are any numbers).
SlotsDisjoint says that two slots of a word overlap only as halves of a union; it
rests on PairPositions, that ContinuityLookup gives each pair a bit of its own.
OverwriteOnlySlot says that OverwriteBits, behind the truncation of the field,
writes the bits of its slot and no others.  `IInv` adds to WordsTypeOK that every slot
holds what is written down (`Held`), for headings the byte of the shrunk degrees:
HeadingReadsBack alone is not inductive, because the next heading is ORed to
the bits, which must be known to be zero.  ByteIsItsBits turns the bits
back into the number.  TypesKept, ValuesReadBack, HeadingsReadBack.

**TileRecordsProofs**, from ArgumentTypes (callers pass natural numbers, for
enumerations enumerators) and LayoutTypes. For RecordFields `IInv` adds to
TypeOK, FitsReadsBack and NeverWraps what the masks hold (`Held`), because
MasksMatch relates two masks through the numbers given for them. There is one
lemma for each kind of setter, with the relation of its limit to the room of the
field as hypothesis, and one step for each setter that cites it. TypesKept,
FittingValuesReadBack, LimitsHold, ShortcutMasksMatch.

For TileLayout the contents, the bytes cut off a file, the sizes of records and
the ranges of counts are any; LayoutTypes says that what a builder writes are
lists of records, names and sizes.  `LayoutInv` says that a tile in memory is what
the constructor makes of its file (TileIsOfFile), an edge info kept is the one at
its place, decoded or not (InfoIsOfTile), and the last answer is the one this tile
or this edge info gives (AnswerIsOfTile, AnswerIsOfInfo); the last two are needed
because the tile may be freed between an answer and the next question.  Offsets
are a recursive function, Starts: StartsExist shows that it exists, StartsFollow
that each part begins where the one before ends, SameStarts that counts which did
not overflow put a table where the builder put it.  OneColumnAndRow and
EdgeInOneCell show that the ranges of the cells neither overlap nor leave an edge
out, whichever cells are empty.  LayoutTypesKept, RecordsAreTheBuilders,
EdgesAreTheNodes, EachEdgeInOneCell, NamesLieInTheFile, EdgeInfosAreTheBuilders,
DecodedShapesLast.

**EdgeByEdgeProofs**, from EdgeTypes and NameTypes. For PathLocation `IInv` is
PathTypeOK with NodeIsAtEnds, which holds of the tree too, or reading it would not
keep it. Symmetry of equality is a counting argument: a location with distinct
edges, each matched in another with as many distinct edges, matches one to one
(an injection between finite sets of one size is onto). TypesKept,
NodeFlagIsRight, TreesReadBackEqual, EqualityIsSymmetric.

For StreetNames any words are directions and any lists of names are met, on any
number of edges. `NamesInv` is what narrowing down has left of the first edge's
names (the two properties), with the side of the border the list stays on. That
one more edge keeps it is algebra of Kept: KeptTwice (narrowing down twice is
narrowing down to what both leave), KeptAlike (only membership of the names in
the list matters) and KeptOfExchanged (narrowing down exchanged names is
exchanging what is left). AllSequences is the induction on the length of a list
they use, stated for a set instead of a predicate. ComesOutWithBase and
ComesOutOneMore say that a name exchanged keeps its base and is exchanged once
at most: what later edges match is therefore the same as if nothing had been
exchanged. CommonNamesAreThose, BaseNamesAreThose.

The theorems about CacheSizeCovers, PointersStable, WindowHoldsMatches,
DatesAreMovedIntoWindow, StaysInItsTile and the types state formulas that no run
repeats: stronger properties of the runs, or the proof alone, cover them.

Only model-checked: EveryCallReturns and EveryCallAnswered, which are liveness
properties.  Their safety half is proved: CallsCountDown and ListingEnds give
each a count of the steps left that every step lowers, so that nothing but a
thread that stops running can keep a call from its end; that a step can be taken
(ENABLED) and will be (fairness) is left to TLC.

## 5. What is not modelled

**Behaviour the models have and no property states.**  GetGraphTile searches the
cache before anything tests Is_Valid, so the invalid id, whose tile base is that
of 0/0/0, gets that tile once it is cached.  Colours are numbered in each level by
itself and AreConnected does not compare the levels of its two ids
(graphreader.cc:47), so tiles of different levels are connected when their numbers
happen to be equal; the properties are about two tiles of one level.  What the
other properties exclude by a condition is described with their modules above.

**Left out.** - Readers with different tile directories in one process, which
share the static all the same: the answers of all are those of the first one's
directory. - Turn: one chain of comparisons from an angle to a type, without
state or order. - What is read at the offset of an edge info that a cut file no
longer has (edgeinfo does not test it, graphtile.cc:297), and admininfo's texts
(320): undefined, and TileLayout does not follow it. - JSON and CSV parsing and
writing, VerbalTextFormatter (regular expressions over wording), formatting of
dates and times, is_iso_local and seconds_from_midnight (text), the time zone
database, reading of the configuration. - The plain value records: SignInfo,
Admin, the fields of transit stops and routes.

**What could follow.**  The composition of TileLayout with TileLookup, so that a
lookup's table is the range of bytes the header gives it; readers of several
directories in Connectivity.
