---------------------------- MODULE Connectivity -----------------------------
(***************************************************************************)
(* baldr/connectivity_map.cc and GraphReader::AreConnected.  The map of    *)
(* connected regions is a function-local static: the first call in the     *)
(* process lists the tile files of the reader's directory, level by level, *)
(* and colours each level; every later call, of any reader and at any      *)
(* time, is answered from those colours.  Files come and go in the         *)
(* directory all the while.  Here all readers have the same directory.     *)
(***************************************************************************)
EXTENDS TilePath, FiniteSets

CONSTANTS
  Readers,     \* threads of the process, each with its GraphReader
  Questions,   \* pairs of ids that callers ask about
  Adjacent,    \* neighbouring tiles of each level's grid, from midgard
  FirstFiles,  \* the files in tile_dir at first
  Files,       \* files that are written or removed at any time
  MaxChanges,  \* bound on how many times a file comes or goes
  LevelNotFound   \* the exception of the maps

ASSUME ConnectivityTypes ==
  /\ Levels # {}
  /\ Questions \subseteq GraphIds \X GraphIds
  /\ Adjacent \in [Levels -> SUBSET (Nat \X Nat)]
  /\ \A l \in Levels : \A e \in Adjacent[l] : <<e[2], e[1]>> \in Adjacent[l]
  /\ Files \subseteq Seq(Nat)
  /\ FirstFiles \subseteq Files
  /\ IsFiniteSet(Files)
  /\ \A f \in Files : IsTilePath(f)
  /\ MaxChanges \in Nat

VARIABLES
  disk,     \* the files in tile_dir
  changes,  \* how often a file came or went
  build,    \* the constructor of the static: how far it is
  colors,   \* connectivity_map_t::colors: level -> (tile -> color)
  call,     \* the ids each reader's AreConnected is called with, or Idle
  last,     \* the last answer given
  kept,     \* files that stayed in the directory while their level was listed
  seen      \* files that were in it at some time of that

vars == <<disk, changes, build, colors, call, last, kept, seen>>

Idle     == <<>>
NoColors == [l \in {} |-> [t \in {} |-> 0]]
NoAnswer == [of |-> Idle, connected |-> FALSE]

OfLevel(files, level) == {f \in files : f[1] = level}
TilesOf(files, level) == {GetTileId(f).tileid : f \in OfLevel(files, level)}

\* a and b are joined by a chain of neighbours within tiles.
Joined(tiles, level, a, b) ==
  /\ a \in tiles /\ b \in tiles
  /\ \A region \in SUBSET tiles :
       (/\ a \in region
        /\ \A e \in Adjacent[level] :
             e[1] \in region /\ e[2] \in tiles => e[2] \in region)
       => b \in region

\* Tiles::ColorMap: one colour for each region, counted from 1 in the order
\* in which an unordered map meets them.
ColorMap(tiles, level) ==
  LET region(a) == {b \in tiles : Joined(tiles, level, a, b)}
      regions   == {region(a) : a \in tiles}
      numberings == {n \in [regions -> 1 .. Cardinality(regions)] :
                       \A r, s \in regions : r # s => n[r] # n[s]}
  IN  {[t \in tiles |-> n[region(t)]] : n \in numberings}

Init ==
  /\ disk = FirstFiles
  /\ changes = 0
  /\ build = [phase |-> "none"]
  /\ colors = NoColors
  /\ call = [r \in Readers |-> Idle]
  /\ last = NoAnswer
  /\ kept = {} /\ seen = {}
-----------------------------------------------------------------------------
Call(r) ==
  /\ call[r] = Idle
  /\ \E ids \in Questions : call' = [call EXCEPT ![r] = ids]
  /\ UNCHANGED <<disk, changes, build, colors, last, kept, seen>>

Lowest(levels) == CHOOSE l \in levels : \A m \in levels : l <= m

\* The iterator for a level is opened.  todo is the levels from this one on,
\* listed the files found so far, cut the levels whose listing failed.
Open(todo, listed, cut) ==
  LET files == OfLevel(disk, Lowest(todo))
  IN  /\ build' = [phase |-> "list", todo |-> todo,
                   listed |-> listed, cut |-> cut]
      /\ kept' = kept \cup files
      /\ seen' = seen \cup files

\* The first call constructs the static; other threads wait for it.
Enter(r) ==
  /\ call[r] # Idle
  /\ build.phase = "none"
  /\ Open(Levels, {}, {})
  /\ UNCHANGED <<disk, changes, colors, call, last>>

\* The iterator gives files in any order, each once; one that came or went
\* since it was opened may be given or not.
ListFile ==
  /\ build.phase = "list"
  /\ \E f \in OfLevel(seen, Lowest(build.todo)) \ build.listed :
       build' = [build EXCEPT !.listed = @ \cup {f}]
  /\ UNCHANGED <<disk, changes, colors, call, last, kept, seen>>

\* On to the next level, or to the colours after the last.
Leave(cut) ==
  LET todo == build.todo \ {Lowest(build.todo)}
  IN  IF todo # {}
        THEN Open(todo, build.listed, cut)
        ELSE /\ build' = [phase |-> "color",
                          listed |-> build.listed, cut |-> cut]
             /\ UNCHANGED <<kept, seen>>

\* Mutant of EndLevel: the loop ends without waiting for all files.
EndLevelEarly ==
  /\ build.phase = "list"
  /\ Leave(build.cut)
  /\ UNCHANGED <<disk, changes, colors, call, last>>

EndLevel ==
  /\ build.phase = "list"
  /\ OfLevel(kept, Lowest(build.todo)) \subseteq build.listed
  /\ Leave(build.cut)
  /\ UNCHANGED <<disk, changes, colors, call, last>>

\* Mutant of CutLevel: the listing starts again from the first level.
CutLevelRetries ==
  /\ build.phase = "list"
  /\ Open(Levels, {}, {})
  /\ UNCHANGED <<disk, changes, colors, call, last>>

\* The iterator throws, as when a directory is removed under it: catch (...)
\* leaves the level with what was listed of it.
CutLevel ==
  /\ build.phase = "list"
  /\ Leave(build.cut \cup {Lowest(build.todo)})
  /\ UNCHANGED <<disk, changes, colors, call, last>>

Color ==
  /\ build.phase = "color"
  /\ build' = [phase |-> "done", listed |-> build.listed, cut |-> build.cut]
  /\ \E c \in [Levels -> UNION {ColorMap(TilesOf(build.listed, l), l) : l \in Levels}] :
       /\ \A l \in Levels : c[l] \in ColorMap(TilesOf(build.listed, l), l)
       /\ colors' = c
  /\ UNCHANGED <<disk, changes, call, last, kept, seen>>

get_color(id) ==
  IF id.level \in DOMAIN colors /\ id.tileid \in DOMAIN colors[id.level]
    THEN colors[id.level][id.tileid] ELSE 0

\* Mutant of AreConnected: colour 0 counts as a colour.
AreConnectedZero(first, second) ==
  get_color(Tile_Base(first)) = get_color(Tile_Base(second))

AreConnected(first, second) ==
  /\ get_color(Tile_Base(first)) = get_color(Tile_Base(second))
  /\ get_color(Tile_Base(first)) # 0

\* Mutant of Answer: the map is a local, built for each call.
AnswerAndForget(r) ==
  /\ call[r] # Idle /\ build.phase = "done"
  /\ last' = [of |-> call[r], connected |-> AreConnected(call[r][1], call[r][2])]
  /\ call' = [call EXCEPT ![r] = Idle]
  /\ build' = [phase |-> "none"] /\ colors' = NoColors
  /\ kept' = {} /\ seen' = {}
  /\ UNCHANGED <<disk, changes>>

Answer(r) ==
  /\ call[r] # Idle /\ build.phase = "done"
  /\ last' = [of |-> call[r], connected |-> AreConnected(call[r][1], call[r][2])]
  /\ call' = [call EXCEPT ![r] = Idle]
  /\ UNCHANGED <<disk, changes, build, colors, kept, seen>>

\* The tile builder, or whoever cleans up after it, works in the directory.
Listed(f) == build.phase = "list" /\ f[1] = Lowest(build.todo)
Change(f) ==
  /\ changes < MaxChanges
  /\ changes' = changes + 1
  /\ \/ /\ f \notin disk
        /\ disk' = disk \cup {f}
        /\ seen' = IF Listed(f) THEN seen \cup {f} ELSE seen
        /\ UNCHANGED kept
     \/ /\ f \in disk
        /\ disk' = disk \ {f}
        /\ kept' = IF Listed(f) THEN kept \ {f} ELSE kept
        /\ UNCHANGED seen
  /\ UNCHANGED <<build, colors, call, last>>

\* Both maps throw for a level that is not in the hierarchy or has no colours.
IsMapped(level) == HasLevel(level) /\ level \in DOMAIN colors

\* to_image: a colour for each cell of the grid, 0 where there is no tile.
to_image(level) ==
  IF ~IsMapped(level) THEN LevelNotFound
  ELSE [i \in 0 .. MaxTileId[level] |->
          IF i \in DOMAIN colors[level] THEN colors[level][i] ELSE 0]

\* to_geojson: the tiles of each colour, and the entries (number of tiles,
\* colour) of the ordered multimap it takes the features from.
\* Mutant of arities: a map, which keeps one colour for each number.
region_tiles(level, color) == {t \in DOMAIN colors[level] : colors[level][t] = color}
colors_of(level) == {colors[level][t] : t \in DOMAIN colors[level]}
size_of(level, color) == Cardinality(region_tiles(level, color))
arities_by_size(level) ==
  {<<size_of(level, c), c>> : c \in
     {d \in colors_of(level) : \A e \in colors_of(level) :
        size_of(level, e) = size_of(level, d) => d <= e}}
arities(level) == {<<size_of(level, c), c>> : c \in colors_of(level)}
to_geojson(level) ==
  IF ~IsMapped(level) THEN LevelNotFound
  ELSE {region_tiles(level, a[2]) : a \in arities(level)}

Construct == ListFile \/ EndLevel \/ CutLevel \/ Color

Next == \/ \E r \in Readers : Call(r) \/ Enter(r) \/ Answer(r)
        \/ Construct
        \/ \E f \in Files : Change(f)

\* A thread in AreConnected keeps running; nobody need call or change files.
Spec == /\ Init /\ [][Next]_vars
        /\ WF_vars(Construct)
        /\ \A r \in Readers : WF_vars(Enter(r) \/ Answer(r))
-----------------------------------------------------------------------------
Builds ==
  [phase : {"none"}]
  \cup [phase : {"list"}, todo : (SUBSET Levels) \ {{}},
        listed : SUBSET Files, cut : SUBSET Levels]
  \cup [phase : {"color", "done"}, listed : SUBSET Files, cut : SUBSET Levels]

TypeOK ==
  /\ disk \subseteq Files
  /\ changes \in 0 .. MaxChanges
  /\ build \in Builds
  /\ call \in [Readers -> Questions \cup {Idle}]
  /\ last \in [of : Questions \cup {Idle}, connected : BOOLEAN]
  /\ kept \subseteq Files /\ seen \subseteq Files

\* The tile and level an answer was asked about.
Asked(i)    == Tile_Base(last.of[i])
SameLevel   == last # NoAnswer /\ Asked(1).level = Asked(2).level

(***************************************************************************)
(* Two tiles of a level are said to be connected only if a chain of        *)
(* neighbours joins them, each of which had a file in the directory while  *)
(* it was listed (connectivity_map.cc:89-113, graphreader.cc:45-47).       *)
(***************************************************************************)
ConnectedByFiles ==
  SameLevel /\ last.connected =>
    /\ Asked(1).level \in Levels
    /\ Joined(TilesOf(seen, Asked(1).level), Asked(1).level,
              Asked(1).tileid, Asked(2).tileid)

(***************************************************************************)
(* "The main use case is to quickly reject two disjoint locations"         *)
(* (graphreader.h:36): two tiles are never rejected that files joined      *)
(* which were there all the time their level was listed, whatever else     *)
(* came or went; unless the listing of the level was cut short.            *)
(***************************************************************************)
JoinedIsNotRejected ==
  /\ SameLevel
  /\ Asked(1).level \in Levels \ build.cut
  /\ Joined(TilesOf(kept, Asked(1).level), Asked(1).level,
            Asked(1).tileid, Asked(2).tileid)
  => last.connected

(***************************************************************************)
(* The image and the GeoJSON of the map (connectivity_map.cc:123-166) say  *)
(* of two tiles of the grid what the answers say, and show every tile.     *)
(***************************************************************************)
MapsAgreeWithAnswers ==
  /\ build.phase = "done" => \A l \in Levels :
       LET image    == to_image(l)
           features == to_geojson(l)
       IN  /\ UNION features = DOMAIN colors[l]
           /\ \A i, j \in DOMAIN image :
                (image[i] = image[j] /\ image[i] # 0)
                  <=> \E region \in features : {i, j} \subseteq region
  /\ SameLevel /\ InGrid(Asked(1)) /\ InGrid(Asked(2)) =>
       LET image == to_image(Asked(1).level)
       IN  last.connected <=> /\ image[Asked(1).tileid] = image[Asked(2).tileid]
                              /\ image[Asked(1).tileid] # 0

(***************************************************************************)
(* All answers of the process come from one division of the tiles made     *)
(* before the first of them: they never contradict each other, although    *)
(* files come and go (graphreader.cc:41-42).                               *)
(***************************************************************************)
ColorIn(map, id) ==
  LET t == Tile_Base(id)
  IN  IF t.level \in DOMAIN map /\ t.tileid \in DOMAIN map[t.level]
        THEN map[t.level][t.tileid] ELSE 0
Regions == INSTANCE ConnectedRegions WITH
             Pairs <- Questions, RegionOf <- ColorIn,
             regions <- colors, made <- build.phase = "done", answer <- last
ImplementsRegions == Regions!Spec

(***************************************************************************)
(* Every call of AreConnected is answered, that of a thread that waits for *)
(* another one's listing too, and also when a listing fails.               *)
(***************************************************************************)
EveryCallAnswered == \A r \in Readers : call[r] # Idle ~> call[r] = Idle
=============================================================================
