---------------------------- MODULE MCTileRecords ----------------------------
(***************************************************************************)
(* The bytes of a tile in memory: the fields of its fixed size records,    *)
(* and the places of its tables and records.  The two components have no   *)
(* variable in common, and a behaviour follows one of them while the other *)
(* rests in an initial state.                                              *)
(***************************************************************************)
EXTENDS RecordFields, TileLayout, TLC

\* Arguments on both sides of what each field has room for.
MCArguments ==
  [f \in Fields |->
     IF f \in DOMAIN Enumerators THEN {v \in Enumerators[f] : v + 1 \notin Enumerators[f]}
     ELSE IF f \in Flags THEN {0, 1}
     ELSE IF f \in Masks THEN 0 .. 8
     ELSE IF f = "admin_index" THEN {0, 1, 63, 64, 65, 65536}
     ELSE {0, 1, Room[f] - 1, Room[f], Room[f] + 1} \cup (IF f = "forwardaccess" THEN {255} ELSE {})]

\* Short records of different sizes; counts of departures, stops, routes and
\* transfers that overflow at 4, 3, 2 and 2; cells of a two by two grid.
Sizes == <<2, 3, 1, 2, 3, 1, 2, 1, 2, 3>>
MCRecordSize == [t \in Tables |-> Sizes[Place(t)]]
MCCountRange == [t \in Tables |->
  CASE t = "departure" -> 4 [] t = "stop" -> 3
    [] t \in {"route", "transfer"} -> 2 [] OTHER -> 100]

Counted(departures, stops, routes, transfers) ==
  [t \in Tables |->
     CASE t = "node" -> 3 [] t = "directededge" -> 2
       [] t = "departure" -> departures [] t = "stop" -> stops
       [] t = "route" -> routes [] t = "transfer" -> transfers
       [] t = "edge_cell" -> 3 [] OTHER -> 1]

\* The last node has no edges, the second two; two cells are empty.
Nodes == <<[edge_index |-> 0, edge_count |-> 0], [edge_index |-> 0, edge_count |-> 2],
           [edge_index |-> 2, edge_count |-> 0]>>
Cells == (0 :> 1) @@ (1 :> 1) @@ (2 :> 3) @@ (3 :> 3)

\* Two edge infos: with two names and with none; or with more names or a
\* longer shape than the counts can say.
Infos == {<<[names |-> <<0, 2>>, shape |-> 2], [names |-> <<>>, shape |-> 3]>>,
          <<[names |-> <<1, 1, 0, 2>>, shape |-> 1], [names |-> <<1>>, shape |-> 5]>>}

MCContents ==
  {[count |-> Counted(d, s, r, x), edges |-> Nodes, cells |-> Cells,
    infos |-> i, text |-> 3] :
     d \in {2, 5}, s \in {0, 2, 3}, r \in {1, 2}, x \in {1, 2}, i \in Infos}

VARIABLE part
mc_vars == <<part, vars, layout_vars>>

AnyContent == CHOOSE c \in Contents : TRUE
LayoutAtRest == content = AnyContent /\ size = FileSize(AnyContent) /\ LayoutInit

MCInit == \/ part = "fields" /\ Init /\ LayoutAtRest
          \/ part = "layout" /\ Init /\ LayoutInit

\* A tile that is freed, of which the caller has nothing left to ask.
LayoutDone == part = "layout" /\ freed /\ info = NoInfo /\ UNCHANGED mc_vars

MCNext == \/ part = "fields" /\ Next /\ UNCHANGED <<part, layout_vars>>
          \/ part = "layout" /\ LayoutNext /\ UNCHANGED <<part, vars>>
          \/ LayoutDone

MCSpec == MCInit /\ [][MCNext]_mc_vars
==============================================================================
