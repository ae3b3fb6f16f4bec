----------------------------- MODULE TileLayout ------------------------------
(***************************************************************************)
(* The bytes of a tile: where GraphTile's constructor takes its tables to  *)
(* be (baldr/graphtile.cc) from the counts and offsets of the header       *)
(* (graphtileheader.{h,cc}), what the accessors hand out of them, and the  *)
(* edge info records that point into the tile and decode their shape on    *)
(* first use (edgeinfo.{h,cc}).  The sizes are constants, so that TLC can  *)
(* run with short records and counts that overflow.                        *)
(***************************************************************************)
EXTENDS Integers, Sequences

CONSTANTS
  Contents,      \* what the tile builder writes into tiles
  Cuts,          \* how many bytes a file may lack at its end
  HeaderSize,    \* sizeof(GraphTileHeader)
  RecordSize,    \* sizes of the records of the tables
  CountRange,    \* number of values the header's count of each table has
  NameCounts,    \* 2^4, the values of an edge info's name count
  ShapeSizes,    \* 2^16, and of the size of its shape
  SizeRange,     \* 2^64, and of size_t
  kGridDim,      \* rows and columns of the cells
  MaxIndex       \* bound of the indices callers ask for

\* The tables in the order of the file; the edge cells are the last.
Order == <<"node", "directededge", "departure", "stop", "route", "transfer",
           "access_restriction", "sign", "admin", "edge_cell">>
Tables == {Order[i] : i \in DOMAIN Order}
kCellCount == kGridDim * kGridDim

\* What a builder writes: the number of records of each table, the edges of
\* each node, the end of each cell in the list of edge ids, the edge infos
\* with the offsets of their names and the size of their shape, and the size
\* of the text list.
IsContent(c) ==
  /\ c.count \in [Tables -> Nat]
  /\ c.edges \in Seq([edge_index : Nat, edge_count : Nat])
  /\ Len(c.edges) = c.count["node"]
  /\ \A n \in DOMAIN c.edges :
       c.edges[n].edge_index + c.edges[n].edge_count <= c.count["directededge"]
  /\ c.cells \in [0 .. kCellCount - 1 -> Nat]
  /\ \A i, j \in 0 .. kCellCount - 1 : i <= j => c.cells[i] <= c.cells[j]
  /\ c.cells[kCellCount - 1] = c.count["edge_cell"]
  /\ c.infos \in Seq([names : Seq(Nat), shape : Nat])
  /\ c.text \in Nat

ASSUME LayoutTypes ==
  /\ \A c \in Contents : IsContent(c)
  /\ Cuts \subseteq Nat
  /\ HeaderSize \in Nat
  /\ RecordSize \in [Tables -> Nat \ {0}]
  /\ CountRange \in [Tables -> Nat \ {0}]
  /\ NameCounts \in Nat \ {0} /\ ShapeSizes \in Nat \ {0}
  /\ SizeRange \in Nat \ {0} /\ kGridDim \in Nat \ {0}
  /\ MaxIndex \in Nat

VARIABLES
  content,  \* what the builder wrote
  size,     \* the bytes the file has of it
  tile,     \* the GraphTile, or NotLoaded
  freed,    \* its memory is freed
  info,     \* an EdgeInfo the caller keeps, or NoInfo
  decoded,  \* its shape() was called
  ret       \* the last call and its answer

layout_vars == <<content, size, tile, freed, info, decoded, ret>>

NotLoaded == <<>>
NoInfo    == <<>>

\* Where parts of these sizes begin that follow each other from the first
\* byte on, and where the last ends.
Starts(first, sizes) ==
  LET at[i \in 1 .. Len(sizes) + 1] ==
        IF i = 1 THEN first ELSE at[i - 1] + sizes[i - 1]
  IN  at

\* The byte where each table begins, and where the last ends.
TableAt(counts) ==
  Starts(HeaderSize, [i \in DOMAIN Order |-> counts[Order[i]] * RecordSize[Order[i]]])
Place(t) == CHOOSE i \in DOMAIN Order : Order[i] = t

\* An edge info: way id, packed counts, name offsets, shape.
NamesAt(k)  == k + 12
InfoSize(i) == 12 + 4 * Len(i.names) + i.shape
InfoAt(c) ==
  Starts(TableAt(c.count)[Len(Order) + 1], [k \in DOMAIN c.infos |-> InfoSize(c.infos[k])])
TextAt(c)  == InfoAt(c)[Len(c.infos) + 1]
FileSize(c) == TextAt(c) + c.text

\* The header the builder sets: the counts lose what their bits cannot hold.
Header(c) ==
  [count |-> [t \in Tables |-> c.count[t] % CountRange[t]],
   edgeinfo_offset |-> TableAt(c.count)[Len(Order) + 1],
   textlist_offset |-> TextAt(c),
   cell_offsets |-> c.cells]
-----------------------------------------------------------------------------
\* Mutant of Load: the routes are taken to stand before the stops.
LoadSwapped(c, filesize) ==
  LET h  == Header(c)
      at == TableAt(h.count)
  IN  [at |-> [t \in Tables |->
                 IF t = "stop" THEN at[Place("stop")] + h.count["route"] * RecordSize["route"]
                 ELSE IF t = "route" THEN at[Place("stop")]
                 ELSE at[Place(t)]],
       header |-> h, edgeinfo |-> h.edgeinfo_offset, textlist |-> h.textlist_offset,
       textlist_size |-> (filesize - h.textlist_offset) % SizeRange]

\* The constructor: pointers as offsets from the start of the memory.  The
\* size of the text list is unsigned.
Load(c, filesize) ==
  LET h  == Header(c)
      at == TableAt(h.count)
  IN  [at |-> [t \in Tables |-> at[Place(t)]],
       header |-> h,
       edgeinfo |-> h.edgeinfo_offset,
       textlist |-> h.textlist_offset,
       textlist_size |-> (filesize - h.textlist_offset) % SizeRange]

Throw      == [kind |-> "throw"]
Null       == [kind |-> "null"]
Undefined  == [kind |-> "undefined"]
At(p)      == [kind |-> "at", at |-> p]
NoCall     == [call |-> "none", arg |-> 0, answer |-> Null]
Answer(call, arg, answer) ==
  ret' = [call |-> call, arg |-> arg, answer |-> answer]

Row(t, idx) == tile.at[t] + idx * RecordSize[t]
count(t)    == tile.header.count[t]

\* node(idx), directededge(idx) and admin(idx).
Indexed(t, idx) == IF idx < count(t) THEN At(Row(t, idx)) ELSE Throw

\* GetTransitStop and GetTransitRoute, which both count the stops.
Transit(t, idx) ==
  IF count("stop") = 0 THEN Null
  ELSE IF idx < count("stop") THEN At(Row(t, idx)) ELSE Throw

\* The other tables are read by the lookups of module TileLookup, which take
\* the count from the header.
Record(t, idx) ==
  CASE t \in {"node", "directededge", "admin"} -> Indexed(t, idx)
    [] t \in {"stop", "route"} -> Transit(t, idx)
    [] OTHER -> IF idx < count(t) THEN At(Row(t, idx)) ELSE Null

\* The nodes are the first table: their records are always the builder's.
\* Mutant of GetDirectedEdges: the edges are counted from the node's index.
GetDirectedEdgesAtNode(n) ==
  IF Indexed("node", n) = Throw THEN Throw ELSE Indexed("directededge", n)
GetDirectedEdges(n) ==
  IF Indexed("node", n) = Throw THEN Throw
  ELSE Indexed("directededge", content.edges[n + 1].edge_index)

\* cell_offset and GetCell: the range of a cell in the list of edge ids.
\* Mutant of cell_offset: the cells are taken column by column.
cell_offset_by_column(column, row) ==
  LET i == column * kGridDim + row
  IN  IF i < kCellCount
        THEN <<IF i = 0 THEN 0 ELSE tile.header.cell_offsets[i - 1],
               tile.header.cell_offsets[i] + 1>>
        ELSE <<>>
cell_offset(column, row) ==
  LET i == row * kGridDim + column
  IN  IF i < kCellCount
        THEN <<IF i = 0 THEN 0 ELSE tile.header.cell_offsets[i - 1],
               tile.header.cell_offsets[i]>>
        ELSE <<>>
GetCell(column, row) ==
  LET offsets == cell_offset(column, row)
  IN  IF offsets = <<>> THEN Throw
      ELSE [kind |-> "range", from |-> Row("edge_cell", offsets[1]),
                              to   |-> Row("edge_cell", offsets[2])]

\* GetName tests the offset; admininfo takes its text without a test.
\* Mutant of GetName: the offset after the last is let through.
GetNameOneMore(offset) ==
  IF offset <= tile.textlist_size THEN At(tile.textlist + offset) ELSE Throw
GetName(offset) ==
  IF offset < tile.textlist_size THEN At(tile.textlist + offset) ELSE Throw

\* Mutants of EdgeInfo: the name count is as wide as the list of names; the
\* shape is taken to begin a byte for each name further on.
EdgeInfoWide(k) ==
  LET names == Len(content.infos[k].names)
      at    == tile.edgeinfo + (InfoAt(content)[k] - InfoAt(content)[1])
  IN  [of |-> k, name_count |-> names,
       encoded_shape_size |-> content.infos[k].shape % ShapeSizes,
       encoded_shape |-> NamesAt(at) + 4 * names, shape |-> <<>>]
EdgeInfoNameBytes(k) ==
  LET names == Len(content.infos[k].names) % NameCounts
      at    == tile.edgeinfo + (InfoAt(content)[k] - InfoAt(content)[1])
  IN  [of |-> k, name_count |-> names,
       encoded_shape_size |-> content.infos[k].shape % ShapeSizes,
       encoded_shape |-> NamesAt(at) + names, shape |-> <<>>]

\* EdgeInfo's constructor: the counts at this place in the file, and the
\* pointers that follow from them.
EdgeInfo(k) ==
  LET names == Len(content.infos[k].names) % NameCounts
      at    == tile.edgeinfo + (InfoAt(content)[k] - InfoAt(content)[1])
  IN  [of |-> k,
       name_count |-> names,
       encoded_shape_size |-> content.infos[k].shape % ShapeSizes,
       encoded_shape |-> NamesAt(at) + 4 * names,
       shape |-> <<>>]

\* The bytes of the shape, that the tile must be there for.
Bytes(i) == <<i.encoded_shape, i.encoded_shape + i.encoded_shape_size>>

\* shape(): decoded from the tile at first, kept in the object from then on.
Shape ==
  /\ info' = IF info.encoded_shape # 0 /\ ~ freed
               THEN [info EXCEPT !.shape = Bytes(info), !.encoded_shape = 0] ELSE info
  /\ Answer("shape", info.of,
            IF info.encoded_shape # 0
              THEN IF freed THEN Undefined ELSE [kind |-> "shape", bytes |-> Bytes(info)]
              ELSE [kind |-> "shape", bytes |-> info.shape])

\* encoded_shape(): from the tile, or encoded again once decoded.
\* Mutant of EncodedShape: always from the tile.
EncodedShapeOfTile ==
  /\ Answer("encoded_shape", info.of,
            IF freed THEN Undefined ELSE [kind |-> "shape", bytes |-> Bytes(info)])
  /\ UNCHANGED info
EncodedShape ==
  /\ Answer("encoded_shape", info.of,
            IF info.encoded_shape = 0
              THEN [kind |-> "shape", bytes |-> info.shape]
            ELSE IF freed THEN Undefined
              ELSE [kind |-> "shape", bytes |-> Bytes(info)])
  /\ UNCHANGED info

\* GetNames() reads the offsets in the tile and tests each against the text.
InfoNames(i) == SubSeq(content.infos[i.of].names, 1, i.name_count)
GetNames ==
  /\ Answer("names", info.of,
            IF freed THEN Undefined
            ELSE IF \E j \in 1 .. info.name_count :
                      InfoNames(info)[j] >= tile.textlist_size
              THEN Throw
              ELSE [kind |-> "names", offsets |-> InfoNames(info)])
  /\ UNCHANGED info
-----------------------------------------------------------------------------
LayoutInit ==
  /\ content \in Contents
  /\ size \in {FileSize(content) - cut : cut \in Cuts}
  /\ tile = NotLoaded /\ freed = FALSE
  /\ info = NoInfo /\ decoded = FALSE
  /\ ret = NoCall

LoadTile ==
  /\ tile = NotLoaded
  /\ tile' = Load(content, size)
  /\ UNCHANGED <<content, size, freed, info, decoded, ret>>

InMemory == tile # NotLoaded /\ ~ freed

AskRecord == \E t \in Tables, idx \in 0 .. MaxIndex :
  /\ InMemory
  /\ Answer(t, idx, Record(t, idx))
  /\ UNCHANGED <<content, size, tile, freed, info, decoded>>

AskEdges == \E n \in 0 .. MaxIndex :
  /\ InMemory
  /\ Answer("edges", n, GetDirectedEdges(n))
  /\ UNCHANGED <<content, size, tile, freed, info, decoded>>

AskCell == \E column, row \in 0 .. kGridDim :
  /\ InMemory
  /\ Answer("cell", <<column, row>>, GetCell(column, row))
  /\ UNCHANGED <<content, size, tile, freed, info, decoded>>

AskName == \E offset \in 0 .. MaxIndex :
  /\ InMemory
  /\ Answer("name", offset, GetName(offset))
  /\ UNCHANGED <<content, size, tile, freed, info, decoded>>

\* The caller has the offset of an edge info from an edge.  Where the file
\* was cut before its end, what is read is undefined and not followed.
GetEdgeInfo == \E k \in DOMAIN content.infos :
  /\ InMemory
  /\ InfoAt(content)[k + 1] <= size
  /\ info' = EdgeInfo(k)
  /\ decoded' = FALSE
  /\ Answer("edgeinfo", k, Null)
  /\ UNCHANGED <<content, size, tile, freed>>

AskInfo ==
  /\ info # NoInfo
  /\ \/ Shape /\ decoded' = (decoded \/ ~ freed)
     \/ (EncodedShape \/ GetNames) /\ UNCHANGED decoded
  /\ UNCHANGED <<content, size, tile, freed>>

\* GraphReader::Clear, while the caller still has the edge info.
Free ==
  /\ InMemory
  /\ freed' = TRUE
  /\ UNCHANGED <<content, size, tile, info, decoded, ret>>

LayoutNext ==
  \/ LoadTile \/ AskRecord \/ AskEdges \/ AskCell \/ AskName
  \/ GetEdgeInfo \/ AskInfo \/ Free

LayoutSpec == LayoutInit /\ [][LayoutNext]_layout_vars
-----------------------------------------------------------------------------
LayoutTypeOK ==
  /\ content \in Contents
  /\ size \in Int
  /\ tile # NotLoaded =>
       /\ tile.at \in [Tables -> Nat]
       /\ tile.edgeinfo \in Nat /\ tile.textlist \in Nat
       /\ tile.textlist_size \in 0 .. SizeRange - 1
  /\ freed \in BOOLEAN /\ decoded \in BOOLEAN
  /\ info # NoInfo =>
       /\ info.of \in DOMAIN content.infos
       /\ info.name_count \in 0 .. NameCounts - 1
       /\ info.encoded_shape_size \in 0 .. ShapeSizes - 1
       /\ info.encoded_shape \in Nat
  /\ ret.answer.kind \in {"throw", "null", "undefined", "at", "range", "shape", "names"}

\* No table before place i has more records than its header count can say.
FitsBefore(i) ==
  \A j \in 1 .. i - 1 : content.count[Order[j]] < CountRange[Order[j]]

(***************************************************************************)
(* A record handed out is the one the builder wrote with that index,       *)
(* unless the count of an earlier table did not fit its bits in the header *)
(* (graphtileheader.h:298-301 are 24, 16, 12 and 12 bits): the nodes,      *)
(* edges and departures are always right.  An index of GetTransitRoute     *)
(* beyond the routes is left out here: see RoutesAreRoutes.                *)
(***************************************************************************)
RecordIsItsOwn ==
  ret.call \in Tables /\ ret.answer.kind = "at" =>
    LET i == Place(ret.call)
    IN  (/\ FitsBefore(i)
         /\ ret.call = "route" => ret.arg < content.count["route"])
        => /\ ret.arg < content.count[ret.call]
           /\ ret.answer.at = TableAt(content.count)[i]
                                + ret.arg * RecordSize[ret.call]
           /\ ret.answer.at + RecordSize[ret.call] <= TableAt(content.count)[i + 1]

(***************************************************************************)
(* graphtile.h, "Get the transit route given its route Id." and "Returns   *)
(* nullptr if the route is not found.": a route of the tile is handed out, *)
(* and nothing for an index beyond the routes.  Violated, though every     *)
(* count fits: the index is tested against the number of the stops         *)
(* (graphtile.cc:539).                                                     *)
(***************************************************************************)
RoutesAreRoutes ==
  ret.call = "route" /\ FitsBefore(Place("route") + 1) =>
    IF ret.arg < content.count["route"]
      THEN ret.answer = At(TableAt(content.count)[Place("route")]
                             + ret.arg * RecordSize["route"])
      ELSE ret.answer.kind # "at"

(***************************************************************************)
(* A node that has edges gets its own first edge, whatever overflowed;     *)
(* GetDirectedEdges throws only for a node without edges whose place is    *)
(* the end of the list (graphtile.cc:301-308), and for no node.            *)
(***************************************************************************)
NodesReachTheirEdges ==
  ret.call = "edges" /\ FitsBefore(3) =>
    IF ret.answer = Throw
      THEN ret.arg < content.count["node"] =>
             content.edges[ret.arg + 1].edge_count = 0
      ELSE /\ ret.arg < content.count["node"]
           /\ ret.answer.at = TableAt(content.count)[Place("directededge")]
                + content.edges[ret.arg + 1].edge_index * RecordSize["directededge"]

(***************************************************************************)
(* The cells of the grid share out the list of edge ids: each entry of it  *)
(* lies in the range of exactly one column and row, whatever cells are     *)
(* empty (graphtileheader.cc:218-223, graphtile.cc:705-708).               *)
(***************************************************************************)
CellsShareOutEdges ==
  InMemory /\ FitsBefore(Len(Order)) =>
    \A e \in 0 .. content.count["edge_cell"] - 1 :
      LET p    == TableAt(content.count)[Place("edge_cell")] + e * RecordSize["edge_cell"]
          cells == {c \in (0 .. kGridDim - 1) \X (0 .. kGridDim - 1) :
                     GetCell(c[1], c[2]).from <= p /\ p < GetCell(c[1], c[2]).to}
      IN  \E c \in cells : cells = {c}

(***************************************************************************)
(* A name is taken from the bytes of the text list the file really has,    *)
(* and so are those of an edge info, when the file was cut within the text *)
(* list.  A file that ends before it makes textlist_size_ huge             *)
(* (graphtile.cc:148), and every offset passes.                            *)
(***************************************************************************)
NamesStartInText ==
  size >= TextAt(content) =>
    /\ ret.call = "name" /\ ret.answer.kind = "at" =>
         ret.answer.at \in TextAt(content) .. size - 1
    /\ ret.call = "names" /\ ret.answer.kind = "names" =>
         \A j \in DOMAIN ret.answer.offsets :
           TextAt(content) + ret.answer.offsets[j] < size

(***************************************************************************)
(* The shape and the names an edge info gives are the bytes and offsets    *)
(* written for it, before and after it was decoded, if the builder kept to *)
(* the 15 names and 65535 bytes of edgeinfo.h:19-20.                       *)
(***************************************************************************)
EdgeInfoIsItsOwn ==
  info # NoInfo =>
    LET written == content.infos[info.of]
        at      == NamesAt(InfoAt(content)[info.of]) + 4 * Len(written.names)
    IN  Len(written.names) < NameCounts /\ written.shape < ShapeSizes =>
          /\ ret.answer.kind = "shape" =>
               ret.answer.bytes = <<at, at + written.shape>>
          /\ ret.answer.kind = "names" =>
               ret.answer.offsets = written.names

(***************************************************************************)
(* An edge info whose shape was decoded gives it, encoded too, when the    *)
(* tile is gone: neither reads the tile again (edgeinfo.cc:82-101).  The    *)
(* names and a shape not yet decoded are gone with the tile.               *)
(***************************************************************************)
DecodedShapeOutlivesTile ==
  decoded /\ ret.call \in {"shape", "encoded_shape"} => ret.answer # Undefined
=============================================================================
