----------------------------- MODULE StreetNames ------------------------------
(***************************************************************************)
(* baldr/streetname.{h,cc}, streetname_us.{h,cc}, streetnames.{h,cc},      *)
(* streetnames_us.{h,cc} and streetnames_factory.cc: the names that the    *)
(* edges of a stretch of road have in common, whole or without their       *)
(* directions.  A caller, who builds maneuvers, goes along the edges and   *)
(* narrows the names down with each.                                       *)
(*                                                                         *)
(* A name is the sequence of its words; the code finds the directions by   *)
(* the blank after or before them.                                         *)
(***************************************************************************)
EXTENDS Naturals, Sequences

CONSTANTS
  Words,       \* the words of names
  Cardinals,   \* North, East, South, West
  Diagonals,   \* Northeast, Southeast, Southwest, Northwest
  Lists,       \* the lists of names that edges have
  MaxStretch   \* bound: edges the caller goes along

ASSUME NameTypes ==
  /\ Cardinals \cap Diagonals = {}
  /\ \A l \in Lists : l \in Seq(Seq(Words)) /\ \A i \in DOMAIN l : l[i] # <<>>
  /\ MaxStretch \in Nat

VARIABLES
  edges,    \* the lists of names of the edges so far
  common,   \* the names they have in common
  base      \* the names whose base name they have in common
names_vars == <<edges, common, base>>

Directions == Cardinals \cup Diagonals
Last(name) == name[Len(name)]

\* Only StreetNameUs knows directions; a name of one word has none.
HasPreDir(us, name)  == us /\ Len(name) > 1 /\ name[1] \in Directions
HasPostDir(us, name) == us /\ Len(name) > 1 /\ Last(name) \in Directions
HasPostCardinalDir(us, name) == us /\ Len(name) > 1 /\ Last(name) \in Cardinals

\* In a name of two directions the blank between them belongs to both: the
\* length given to substr is -1, unsigned, and the rest of the name is taken.
GetBaseName(us, name) ==
  IF HasPreDir(us, name) /\ HasPostDir(us, name) /\ Len(name) = 2
    THEN <<name[2]>>
    ELSE SubSeq(name, IF HasPreDir(us, name) THEN 2 ELSE 1,
                      Len(name) - (IF HasPostDir(us, name) THEN 1 ELSE 0))

\* StreetNamesFactory::Create.
Create(us, names) == [us |-> us, names |-> names]

NamesOf(list) == {list.names[i] : i \in DOMAIN list.names}
BasesOf(list) == {GetBaseName(list.us, n) : n \in NamesOf(list)}

\* The loop over the names of a list: those in S are copied, in their order.
Kept(names, S) ==
  LET copied[i \in 0 .. Len(names)] ==
        IF i = 0 THEN <<>>
        ELSE IF names[i] \in S THEN Append(copied[i - 1], names[i])
        ELSE copied[i - 1]
  IN  copied[Len(names)]

\* Mutant of FindCommonStreetNames: only the other's first name is tried.
FindCommonStreetNamesFirst(a, b) ==
  [us |-> a.us, names |-> Kept(a.names, {b.names[j] : j \in DOMAIN b.names \cap {1}})]
FindCommonStreetNames(a, b) ==
  [us |-> a.us, names |-> Kept(a.names, NamesOf(b))]

Matches(a, n, b) ==
  {j \in DOMAIN b.names : GetBaseName(a.us, n) = GetBaseName(b.us, b.names[j])}
FirstMatch(a, n, b) ==
  b.names[CHOOSE j \in Matches(a, n, b) : \A k \in Matches(a, n, b) : j <= k]

\* Of the two names the one that ends in a direction, or else the own one.
\* Mutant of Preferred: the other name is taken always.
PreferredOther(a, n, b) == FirstMatch(a, n, b)
Preferred(a, n, b) ==
  IF ~ HasPostCardinalDir(a.us, n) /\ HasPostCardinalDir(b.us, FirstMatch(a, n, b))
    THEN FirstMatch(a, n, b) ELSE n

FindCommonBaseNames(a, b) ==
  LET found == Kept(a.names, {n \in NamesOf(a) : Matches(a, n, b) # {}})
  IN  [us |-> a.us, names |-> [i \in DOMAIN found |-> Preferred(a, found[i], b)]]
-----------------------------------------------------------------------------
Nothing == Create(FALSE, <<>>)

NamesInit == edges = <<>> /\ common = Nothing /\ base = Nothing

\* Both lists start as copies of the names of the first edge.
FirstEdge(us, names) ==
  /\ edges = <<>>
  /\ edges' = <<Create(us, names)>>
  /\ common' = Create(us, names)
  /\ base' = Create(us, names)

NextEdge(us, names) ==
  /\ Len(edges) \in 1 .. MaxStretch - 1
  /\ edges' = Append(edges, Create(us, names))
  /\ common' = FindCommonStreetNames(common, Create(us, names))
  /\ base' = FindCommonBaseNames(base, Create(us, names))

NamesNext ==
  \E us \in BOOLEAN, names \in Lists : FirstEdge(us, names) \/ NextEdge(us, names)

NamesSpec == NamesInit /\ [][NamesNext]_names_vars
-----------------------------------------------------------------------------
OneKind == \A i \in DOMAIN edges : edges[i].us = edges[1].us

\* The names of the first edge that all have, and those whose base all have.
HadByAll(es) == {n \in NamesOf(es[1]) : \A i \in DOMAIN es : n \in NamesOf(es[i])}
BaseHadByAll(es) ==
  {n \in NamesOf(es[1]) :
     \A i \in DOMAIN es : GetBaseName(es[1].us, n) \in BasesOf(es[i])}

\* The name that is met for n at edge i, and the one that n comes out with.
Met(es, n, i) == IF i = 1 THEN n ELSE FirstMatch(es[1], n, es[i])
Directed(es, n) == {i \in DOMAIN es : HasPostCardinalDir(es[1].us, Met(es, n, i))}
ComesOutAs(es, n) ==
  IF Directed(es, n) = {} THEN n
  ELSE Met(es, n, CHOOSE i \in Directed(es, n) : \A j \in Directed(es, n) : i <= j)

(***************************************************************************)
(* Narrowed down edge by edge, the common names are those of the first     *)
(* edge that every edge has, in the order of the first                     *)
(* (streetnames.cc:77-92).                                                 *)
(***************************************************************************)
CommonNamesAreShared ==
  edges # <<>> => common.names = Kept(edges[1].names, HadByAll(edges))

(***************************************************************************)
(* Narrowed down edge by edge, the names found by their base are one for   *)
(* each name of the first edge whose base every edge has, in that order:   *)
(* that a name is exchanged for one with a direction on the way            *)
(* (streetnames_us.cc:52-77) loses no name later on.  The direction a name *)
(* comes out with is the first one met along the edges, its own before all *)
(* others; a later edge never exchanges it again, and only the first name  *)
(* of an edge with that base is looked at.  Where the edges lie on both    *)
(* sides of a border the exchange may lose a name, but never makes one up: *)
(* each is a name that some edge has.                                      *)
(***************************************************************************)
BaseNamesAreShared ==
  /\ NamesOf(base) \subseteq UNION {NamesOf(edges[i]) : i \in DOMAIN edges}
  /\ edges # <<>> /\ OneKind =>
       LET kept == Kept(edges[1].names, BaseHadByAll(edges))
       IN  base.names = [k \in DOMAIN kept |-> ComesOutAs(edges, kept[k])]
=============================================================================
