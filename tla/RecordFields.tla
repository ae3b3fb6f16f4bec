---------------------------- MODULE RecordFields ----------------------------
(***************************************************************************)
(* The fields with one value in the fixed size records of a tile:          *)
(* baldr/nodeinfo.{h,cc}, directededge.{h,cc} and graphtileheader.{h,cc}.  *)
(* A field has a number of bits, its setter a limit and something to do    *)
(* beyond it, and the two are written far apart.                           *)
(*                                                                         *)
(* The records of a tile that meet in the properties are one record here;  *)
(* the values for each local edge are in module LocalEdges.                *)
(***************************************************************************)
EXTENDS Integers, FiniteSets

CONSTANTS
  Arguments,    \* the values callers pass for each field
  MaxFields     \* bound: how many fields a behaviour sets

(* How many values the bits of a field can tell apart.                     *)

NodeRoom ==
  [edge_index |-> 4194304, node_access |-> 4096, edge_count |-> 128,
   bestrc |-> 8, admin_index |-> 64, timezone |-> 512, intersection |-> 32,
   density |-> 16, type |-> 16, local_edge_count |-> 8]

EdgeRoom ==
  [edgeinfo_offset |-> 33554432, access_restriction |-> 4096, speed |-> 256,
   truck_speed |-> 256, restrictions |-> 256, lanecount |-> 16,
   bike_network |-> 16, use |-> 64, speed_type |-> 4, opp_index |-> 128,
   cycle_lane |-> 4, forwardaccess |-> 4096, reverseaccess |-> 4096,
   classification |-> 8, surface |-> 8, length |-> 16777216,
   weighted_grade |-> 16, curvature |-> 16, localedgeidx |-> 128,
   opp_local_idx |-> 128, shortcut |-> 128, superseded |-> 128]

HeaderRoom ==
  [tile_density |-> 16, name_quality |-> 16, speed_quality |-> 16,
   exit_quality |-> 16, departurecount |-> 16777216, stopcount |-> 65536,
   routecount |-> 4096, transfercount |-> 4096]

NodeFlags == {"parent", "child", "mode_change", "traffic_signal"}
EdgeFlags ==
  {"exitsign", "drive_on_right", "toll", "seasonal", "dest_only", "tunnel",
   "bridge", "roundabout", "unreachable", "traffic_signal_at_end", "forward",
   "not_thru", "truck_route", "ctry_crossing", "link", "internal",
   "trans_up", "trans_down", "leaves_tile", "is_shortcut"}
Flags == NodeFlags \cup EdgeFlags

Fields == UNION {DOMAIN NodeRoom, DOMAIN EdgeRoom, DOMAIN HeaderRoom, Flags}
Room == [f \in Fields |->
           IF f \in Flags THEN 2
           ELSE IF f \in DOMAIN NodeRoom THEN NodeRoom[f]
           ELSE IF f \in DOMAIN EdgeRoom THEN EdgeRoom[f]
           ELSE HeaderRoom[f]]

\* The enumerators of graphconstants.h.
RoadClass        == 0 .. 7
NodeType         == 0 .. 10
IntersectionType == 0 .. 3
Use              == UNION {0 .. 9, 20 .. 21, 25 .. 26, 40 .. 42, 50 .. 54}
SpeedType        == 0 .. 3
CycleLane        == 0 .. 3
Surface          == 0 .. 7

\* What the setter of a field takes, where that is an enumeration.
Enumerators ==
  [bestrc |-> RoadClass, classification |-> RoadClass, type |-> NodeType,
   intersection |-> IntersectionType, use |-> Use, speed_type |-> SpeedType,
   cycle_lane |-> CycleLane, surface |-> Surface]

ASSUME ArgumentTypes ==
  /\ Arguments \in [Fields -> SUBSET Nat]
  /\ \A f \in DOMAIN Enumerators : Arguments[f] \subseteq Enumerators[f]
  /\ \A f \in Flags : Arguments[f] \subseteq {0, 1}

kMaxTileEdgeCount     == 4194303
kMaxEdgesPerNode      == 127
kMaxAdminsPerTile     == 63
kMaxTimeZonesPerTile  == 511
kMaxLocalEdgeIndex    == 7
kMaxDensity           == 15
kMaxEdgeInfoOffset    == 33554431
kMaxEdgeLength        == 16777215
kMaxBicycleNetwork    == 15
kMaxSpeed             == 255
kMaxLaneCount         == 15
kMaxShortcutsFromNode == 7
kMaxGradeFactor       == 15
kMaxCurvatureFactor   == 15
kAllAccess            == 255
-----------------------------------------------------------------------------
VARIABLES
  stored,       \* the bits of each field, as a number
  given         \* the last value each setter was given and took

vars == <<stored, given>>

Init ==
  /\ stored = [f \in Fields |-> IF f = "weighted_grade" THEN 6 ELSE 0]
  /\ given = [f \in {} |-> 0]

Remember(f, v) ==
  /\ Cardinality(DOMAIN given \cup {f}) <= MaxFields
  /\ given' = [g \in DOMAIN given \cup {f} |-> IF g = f THEN v ELSE given[g]]

\* Assigning to a bit field, which keeps the low bits.
Keep(f, v, kept) ==
  /\ v \in Arguments[f]
  /\ stored' = [stored EXCEPT ![f] = kept % Room[f]]
  /\ Remember(f, v)

\* What a call makes of an argument: all parameters are as wide as the values
\* but that of set_admin_index, which has 16 bits.
Passed(f, v) == IF f = "admin_index" THEN v % 65536 ELSE v

\* The kinds of setters.
Unlimited(f, v) == Keep(f, v, v)
Limited(f, v, max) == Keep(f, v, IF v > max THEN max ELSE v)
OrElse(f, v, max, default) == Keep(f, v, IF v > max THEN default ELSE v)
OrThrow(f, v, max) == v <= max /\ Keep(f, v, v)
-----------------------------------------------------------------------------
(* NodeInfo.                                                               *)

set_edge_index(v)  == OrThrow("edge_index", v, kMaxTileEdgeCount)
set_edge_count(v)  == Limited("edge_count", v, kMaxEdgesPerNode)
set_bestrc(v)      == Unlimited("bestrc", v)
set_access(v)      == Unlimited("node_access", v)
set_intersection(v) == Unlimited("intersection", v)
set_admin_index(v) ==
  LET index == Passed("admin_index", v)
  IN  Keep("admin_index", v, IF index > kMaxAdminsPerTile THEN kMaxAdminsPerTile ELSE index)
set_timezone(v)    == Limited("timezone", v, kMaxTimeZonesPerTile)
set_density(v)     == Limited("density", v, kMaxDensity)
set_type(v)        == Unlimited("type", v)
SetNodeFlag(f, b)  == Unlimited(f, b)

\* Mutant of set_local_edge_count: as if the count itself were kept.
set_local_edge_countKept(n) ==
  /\ n # 0
  /\ Keep("local_edge_count", n, IF n > kMaxLocalEdgeIndex THEN kMaxLocalEdgeIndex ELSE n)

\* The count less one is kept; zero, an error, is not.
set_local_edge_count(n) ==
  /\ n # 0
  /\ Keep("local_edge_count", n,
          IF n > kMaxLocalEdgeIndex + 1 THEN kMaxLocalEdgeIndex ELSE n - 1)

SetNode ==
  \/ \E v \in Arguments["edge_index"] : set_edge_index(v)
  \/ \E v \in Arguments["edge_count"] : set_edge_count(v)
  \/ \E v \in Arguments["bestrc"] : set_bestrc(v)
  \/ \E v \in Arguments["node_access"] : set_access(v)
  \/ \E v \in Arguments["intersection"] : set_intersection(v)
  \/ \E v \in Arguments["admin_index"] : set_admin_index(v)
  \/ \E v \in Arguments["timezone"] : set_timezone(v)
  \/ \E v \in Arguments["density"] : set_density(v)
  \/ \E v \in Arguments["type"] : set_type(v)
  \/ \E n \in Arguments["local_edge_count"] : set_local_edge_count(n)
  \/ \E f \in NodeFlags : \E b \in Arguments[f] : SetNodeFlag(f, b)
-----------------------------------------------------------------------------
(* DirectedEdge.                                                           *)

set_edgeinfo_offset(v)    == OrThrow("edgeinfo_offset", v, kMaxEdgeInfoOffset)
set_access_restriction(v) == Unlimited("access_restriction", v)
set_length(v)             == Limited("length", v, kMaxEdgeLength)
set_weighted_grade(v)     == OrElse("weighted_grade", v, kMaxGradeFactor, 6)
set_curvature(v)          == OrElse("curvature", v, kMaxCurvatureFactor, 0)
SetEdgeFlag(f, b)         == Unlimited(f, b)
set_opp_index(v)          == Unlimited("opp_index", v)
set_cyclelane(v)          == Unlimited("cycle_lane", v)
set_bike_network(v)       == OrElse("bike_network", v, kMaxBicycleNetwork, 0)

\* Mutant of set_lanecount: one lane too many for the field.
set_lanecountOneMore(v) == Limited("lanecount", v, kMaxLaneCount + 1)
set_lanecount(v) == Limited("lanecount", v, kMaxLaneCount)

set_restrictions(mask)    == Keep("restrictions", mask, mask % 256)
set_use(v)                == Unlimited("use", v)
set_speed_type(v)         == Unlimited("speed_type", v)
set_forwardaccess(v)      == Unlimited("forwardaccess", v)
set_all_forward_access    == Keep("forwardaccess", kAllAccess, kAllAccess)
set_reverseaccess(v)      == Unlimited("reverseaccess", v)
set_speed(v)              == Limited("speed", v, kMaxSpeed)
set_truck_speed(v)        == Limited("truck_speed", v, kMaxSpeed)
set_classification(v)     == Unlimited("classification", v)
set_surface(v)            == Unlimited("surface", v)
set_localedgeidx(v)       == Limited("localedgeidx", v, kMaxEdgesPerNode)
set_opp_local_idx(v)      == Limited("opp_local_idx", v, kMaxEdgesPerNode)

OneBit == <<1, 2, 4, 8, 16, 32, 64>>

\* 0 is refused; beyond the last mask only the flag is set.
set_shortcut(shortcut) ==
  /\ shortcut \in Arguments["shortcut"] \ {0}
  /\ \/ /\ shortcut <= kMaxShortcutsFromNode
        /\ stored' = [stored EXCEPT !["shortcut"] = OneBit[shortcut], !["is_shortcut"] = 1]
        /\ Remember("shortcut", shortcut)
     \/ /\ shortcut > kMaxShortcutsFromNode
        /\ stored' = [stored EXCEPT !["is_shortcut"] = 1]
        /\ UNCHANGED given

\* Mutant of set_superseded: the shift is not one less than the number.
set_supersededShifted(superseded) ==
  /\ superseded \in Arguments["superseded"]
  /\ superseded <= kMaxShortcutsFromNode
  /\ \E mask \in 0 .. Room["superseded"] - 1 :
       /\ superseded # 0 => mask = (2 * OneBit[superseded]) % Room["superseded"]
       /\ stored' = [stored EXCEPT !["superseded"] = mask]
  /\ Remember("superseded", superseded)

\* 0, not superseded, is not refused: the shift by 2^32 - 1 is undefined, and
\* leaves any mask.
set_superseded(superseded) ==
  /\ superseded \in Arguments["superseded"]
  /\ superseded <= kMaxShortcutsFromNode
  /\ \E mask \in 0 .. Room["superseded"] - 1 :
       /\ superseded # 0 => mask = OneBit[superseded]
       /\ stored' = [stored EXCEPT !["superseded"] = mask]
  /\ Remember("superseded", superseded)

SetEdge ==
  \/ \E v \in Arguments["edgeinfo_offset"] : set_edgeinfo_offset(v)
  \/ \E v \in Arguments["access_restriction"] : set_access_restriction(v)
  \/ \E v \in Arguments["length"] : set_length(v)
  \/ \E v \in Arguments["weighted_grade"] : set_weighted_grade(v)
  \/ \E v \in Arguments["curvature"] : set_curvature(v)
  \/ \E f \in EdgeFlags \ {"is_shortcut"} : \E b \in Arguments[f] : SetEdgeFlag(f, b)
  \/ \E v \in Arguments["opp_index"] : set_opp_index(v)
  \/ \E v \in Arguments["cycle_lane"] : set_cyclelane(v)
  \/ \E v \in Arguments["bike_network"] : set_bike_network(v)
  \/ \E v \in Arguments["lanecount"] : set_lanecount(v)
  \/ \E v \in Arguments["restrictions"] : set_restrictions(v)
  \/ \E v \in Arguments["use"] : set_use(v)
  \/ \E v \in Arguments["speed_type"] : set_speed_type(v)
  \/ \E v \in Arguments["forwardaccess"] : set_forwardaccess(v)
  \/ set_all_forward_access
  \/ \E v \in Arguments["reverseaccess"] : set_reverseaccess(v)
  \/ \E v \in Arguments["speed"] : set_speed(v)
  \/ \E v \in Arguments["truck_speed"] : set_truck_speed(v)
  \/ \E v \in Arguments["classification"] : set_classification(v)
  \/ \E v \in Arguments["surface"] : set_surface(v)
  \/ \E v \in Arguments["localedgeidx"] : set_localedgeidx(v)
  \/ \E v \in Arguments["opp_local_idx"] : set_opp_local_idx(v)
  \/ \E v \in Arguments["shortcut"] : set_shortcut(v)
  \/ \E v \in Arguments["superseded"] : set_superseded(v)
-----------------------------------------------------------------------------
(* GraphTileHeader, the fields narrower than their setters' arguments.     *)

SetHeader(f, v) == Unlimited(f, v)

Next ==
  \/ SetNode
  \/ SetEdge
  \/ \E f \in DOMAIN HeaderRoom : \E v \in Arguments[f] : SetHeader(f, v)

Spec == Init /\ [][Next]_vars
-----------------------------------------------------------------------------
(* What readers get.                                                       *)

Get(f) == IF f = "local_edge_count" THEN stored[f] + 1 ELSE stored[f]

\* The largest value that the getter can return, and the smallest.
Largest(f)  == IF f = "local_edge_count" THEN Room[f] ELSE Room[f] - 1
Smallest(f) == IF f = "local_edge_count" THEN 1 ELSE 0

Masks == {"shortcut", "superseded"}
Tested ==
  {"edge_index", "edge_count", "admin_index", "timezone", "density",
   "local_edge_count", "edgeinfo_offset", "length", "weighted_grade",
   "curvature", "bike_network", "lanecount", "speed", "truck_speed",
   "localedgeidx", "opp_local_idx"}
Neutral == [weighted_grade |-> 6, curvature |-> 0, bike_network |-> 0]

\* No field holds more than its bits.
TypeOK ==
  /\ stored \in [Fields -> Nat]
  /\ \A f \in Fields : stored[f] < Room[f]
  /\ DOMAIN given \subseteq Fields
  /\ \A f \in DOMAIN given : given[f] \in Arguments[f]

\* An enumerator is always read back as it was given, and so is any other value
\* the field has room for: no limit is below what the bits can hold, and no
\* enumeration has outgrown its field.
FitsReadsBack ==
  \A f \in DOMAIN given \ Masks :
    f \in DOMAIN Enumerators \/ given[f] \in Smallest(f) .. Largest(f) =>
      Get(f) = given[f]

\* A value beyond the limit that a setter tests is read as the largest there
\* is, or as the neutral value of the setter, never as what the truncation of
\* some limited value leaves. The test is of the parameter: an admin index of
\* 65536 is 0 before it is tested.
NeverWraps ==
  \A f \in DOMAIN given \cap Tested :
    Passed(f, given[f]) > Largest(f) =>
      Get(f) = IF f \in DOMAIN Neutral THEN Neutral[f] ELSE Largest(f)

\* directededge.h: the mask of a superseded edge is that of the shortcut that
\* supersedes it and of no other, one bit; an edge with a shortcut mask is a
\* shortcut. What set_superseded(0) leaves, which 1 is shifted for by 2^32 - 1,
\* is not part of this (directededge.cc:658).
MasksMatch ==
  /\ stored["shortcut"] # 0 => stored["is_shortcut"] = 1
  /\ \A f \in Masks \cap DOMAIN given :
       given[f] # 0 => \E k \in DOMAIN OneBit : stored[f] = OneBit[k]
  /\ Masks \subseteq DOMAIN given /\ given["superseded"] # 0 =>
       (stored["shortcut"] = stored["superseded"] <=> given["shortcut"] = given["superseded"])
=============================================================================
