------------------------- MODULE TileRecordsProofs --------------------------
(***************************************************************************)
(* The records of a tile and the bytes they lie in.  For any arguments of  *)
(* the setters: no field overflows, enumerators and what else fits read    *)
(* back, what does not is limited, and the masks of shortcuts match        *)
(* (RecordFields).  For any contents of a file, wherever it is cut:        *)
(* records, edges, cells, names and edge infos are the ones the builder    *)
(* wrote (TileLayout).                                                     *)
(***************************************************************************)
EXTENDS RecordFields, TileLayout, TLAPS, WellFoundedInduction, SequenceTheorems

(* The sizes of the fields, read off the tables.                           *)

LEMMA NodeRooms ==
  /\ Room["edge_index"] = 4194304 /\ Room["edge_count"] = 128
  /\ Room["admin_index"] = 64 /\ Room["timezone"] = 512
  /\ Room["density"] = 16 /\ Room["local_edge_count"] = 8
  /\ Room["bestrc"] = 8 /\ Room["intersection"] = 32 /\ Room["type"] = 16
  BY DEF Room, Fields, NodeRoom, EdgeRoom, HeaderRoom, Flags, NodeFlags, EdgeFlags

LEMMA EdgeRooms ==
  /\ Room["edgeinfo_offset"] = 33554432 /\ Room["length"] = 16777216
  /\ Room["weighted_grade"] = 16 /\ Room["curvature"] = 16
  /\ Room["bike_network"] = 16 /\ Room["lanecount"] = 16
  /\ Room["speed"] = 256 /\ Room["truck_speed"] = 256
  /\ Room["restrictions"] = 256 /\ Room["forwardaccess"] = 4096
  /\ Room["localedgeidx"] = 128 /\ Room["opp_local_idx"] = 128
  /\ Room["shortcut"] = 128 /\ Room["superseded"] = 128
  BY DEF Room, Fields, NodeRoom, EdgeRoom, HeaderRoom, Flags, NodeFlags, EdgeFlags

LEMMA FlagRooms == \A f \in Flags : Room[f] = 2
  BY DEF Room, Fields

LEMMA RoomTypes == Room \in [Fields -> Nat \ {0}]
<1>1. \A f \in DOMAIN NodeRoom : NodeRoom[f] \in Nat \ {0}
  BY DEF NodeRoom
<1>2. \A f \in DOMAIN EdgeRoom : EdgeRoom[f] \in Nat \ {0}
  BY DEF EdgeRoom
<1>3. \A f \in DOMAIN HeaderRoom : HeaderRoom[f] \in Nat \ {0}
  BY DEF HeaderRoom
<1>4. Room = [f \in Fields |->
           IF f \in Flags THEN 2
           ELSE IF f \in DOMAIN NodeRoom THEN NodeRoom[f]
           ELSE IF f \in DOMAIN EdgeRoom THEN EdgeRoom[f]
           ELSE HeaderRoom[f]]
  BY DEF Room
<1>5. \A f \in Fields : \/ f \in Flags
                        \/ f \in DOMAIN NodeRoom
                        \/ f \in DOMAIN EdgeRoom
                        \/ f \in DOMAIN HeaderRoom
  BY DEF Fields
<1>6. \A f \in Fields : Room[f] \in Nat \ {0}
  BY <1>1, <1>2, <1>3, <1>4, <1>5
<1> QED
  BY <1>4, <1>6

LEMMA FieldNames ==
  /\ Masks \subseteq Fields /\ "is_shortcut" \in Fields /\ "is_shortcut" \notin Masks
  /\ "local_edge_count" \notin Masks /\ "weighted_grade" \in Fields \ Masks
  BY DEF Masks, Fields, EdgeRoom, NodeRoom, HeaderRoom, Flags, EdgeFlags
-----------------------------------------------------------------------------
\* The masks are those of the numbers given, and the flag follows.
Held ==
  /\ \A f \in Masks : /\ f \notin DOMAIN given => stored[f] = 0
                      /\ f \in DOMAIN given => given[f] \in 0 .. 7
                      /\ f \in DOMAIN given /\ given[f] # 0 =>
                           stored[f] = OneBit[given[f]]
  /\ "shortcut" \in DOMAIN given => given["shortcut"] # 0 /\ stored["is_shortcut"] = 1
  /\ "is_shortcut" \notin DOMAIN given

IInv == TypeOK /\ FitsReadsBack /\ NeverWraps /\ Held

\* What the getter of f makes of its bits, and when that is right for v.
Shown(f, bits) == IF f = "local_edge_count" THEN bits + 1 ELSE bits
Right(f, v, bits) ==
  /\ f \in DOMAIN Enumerators \/ v \in Smallest(f) .. Largest(f) => Shown(f, bits) = v
  /\ f \in Tested /\ Passed(f, v) > Largest(f) =>
       Shown(f, bits) = IF f \in DOMAIN Neutral THEN Neutral[f] ELSE Largest(f)

LEMMA MasksOfNumbers ==
  /\ \A k \in 1 .. 7 : OneBit[k] \in 1 .. 64
  /\ \A j, k \in 1 .. 7 : OneBit[j] = OneBit[k] <=> j = k
  /\ DOMAIN OneBit = 1 .. 7
  BY DEF OneBit

\* Every enumeration of graphconstants.h is within the bits of its field.
LEMMA EnumeratorsFit ==
  \A f \in DOMAIN Enumerators : \A v \in Enumerators[f] : v \in Nat /\ v < Room[f]
<1>1. /\ Room["bestrc"] = 8 /\ Room["classification"] = 8 /\ Room["type"] = 16
      /\ Room["intersection"] = 32 /\ Room["surface"] = 8
      /\ Room["speed_type"] = 4 /\ Room["cycle_lane"] = 4 /\ Room["use"] = 64
  BY DEF Room, Fields, NodeRoom, EdgeRoom, HeaderRoom, Flags, NodeFlags, EdgeFlags
<1> QED
  BY <1>1 DEF Enumerators, RoadClass, NodeType, IntersectionType, Use, SpeedType,
              CycleLane, Surface

LEMMA ArgumentsAreNumbers ==
  ASSUME NEW f \in Fields, NEW v \in Arguments[f]
  PROVE  v \in Nat
  BY ArgumentTypes

LEMMA InitIInv == Init => IInv
<1> SUFFICES ASSUME Init PROVE IInv
  OBVIOUS
<1>1. DOMAIN given = {}
  BY DEF Init
<1>2. \A f \in Fields : stored[f] = IF f = "weighted_grade" THEN 6 ELSE 0
  BY DEF Init
<1>3. stored \in [Fields -> Nat]
  BY DEF Init
<1>4. \A f \in Fields : stored[f] < Room[f]
  BY <1>2, RoomTypes, EdgeRooms
<1>5. Held
  BY <1>1, <1>2, FieldNames DEF Held
<1> QED
  BY <1>1, <1>3, <1>4, <1>5 DEF IInv, TypeOK, FitsReadsBack, NeverWraps

\* Keeping a value in a field that is no mask: right if the bits are.
LEMMA KeepStep ==
  ASSUME IInv, NEW f \in Fields \ (Masks \cup {"is_shortcut"}),
         NEW v, NEW kept \in Nat, Keep(f, v, kept),
         Right(f, v, kept % Room[f])
  PROVE  IInv'
<1> DEFINE bits == kept % Room[f]
<1>1. v \in Arguments[f] /\ v \in Nat
  BY ArgumentTypes DEF Keep
<1>2. bits \in Nat /\ bits < Room[f]
  BY RoomTypes
<1>3. stored' = [stored EXCEPT ![f] = bits]
  BY DEF Keep
<1>4. /\ DOMAIN given' = DOMAIN given \cup {f}
      /\ \A g \in DOMAIN given' : given'[g] = IF g = f THEN v ELSE given[g]
  BY DEF Keep, Remember
<1> HIDE DEF bits
<1>5. /\ stored' \in [Fields -> Nat]
      /\ \A g \in Fields : stored'[g] = IF g = f THEN bits ELSE stored[g]
  BY <1>2, <1>3 DEF IInv, TypeOK
<1>6. TypeOK'
  <2>1. \A g \in Fields : stored'[g] < Room[g]
    BY <1>2, <1>5 DEF IInv, TypeOK
  <2>2. DOMAIN given' \subseteq Fields
    BY <1>4 DEF IInv, TypeOK
  <2>3. \A g \in DOMAIN given' : given'[g] \in Arguments[g]
    BY <1>1, <1>4 DEF IInv, TypeOK
  <2> QED
    BY <1>5, <2>1, <2>2, <2>3 DEF TypeOK
<1>7. DOMAIN given' \subseteq Fields
  BY <1>6 DEF TypeOK
<1>8. Right(f, v, bits)
  BY DEF bits
<1>9. FitsReadsBack'
  <2> SUFFICES ASSUME NEW g \in DOMAIN given' \ Masks,
                      g \in DOMAIN Enumerators \/ given'[g] \in Smallest(g) .. Largest(g)
               PROVE  Shown(g, stored'[g]) = given'[g]
    BY DEF FitsReadsBack, Get, Shown
  <2>1. CASE g = f
    BY <1>4, <1>5, <1>7, <1>8, <2>1 DEF Right
  <2>2. CASE g # f
    BY <1>4, <1>5, <1>7, <2>2 DEF IInv, FitsReadsBack, Get, Shown
  <2> QED
    BY <2>1, <2>2
<1>10. NeverWraps'
  <2> SUFFICES ASSUME NEW g \in DOMAIN given' \cap Tested,
                      Passed(g, given'[g]) > Largest(g)
               PROVE  Shown(g, stored'[g]) =
                        IF g \in DOMAIN Neutral THEN Neutral[g] ELSE Largest(g)
    BY DEF NeverWraps, Get, Shown
  <2>1. CASE g = f
    BY <1>4, <1>5, <1>7, <1>8, <2>1 DEF Right
  <2>2. CASE g # f
    BY <1>4, <1>5, <1>7, <2>2 DEF IInv, NeverWraps, Get, Shown
  <2> QED
    BY <2>1, <2>2
<1>11. Held'
  <2>1. \A m \in Masks : /\ m \in DOMAIN given' <=> m \in DOMAIN given
                         /\ m \in DOMAIN given => given'[m] = given[m]
                         /\ stored'[m] = stored[m]
    BY <1>4, <1>5, FieldNames
  <2>2. stored'["is_shortcut"] = stored["is_shortcut"]
    BY <1>5, FieldNames
  <2>3. "is_shortcut" \notin DOMAIN given'
    BY <1>4 DEF IInv, Held
  <2> QED
    BY <2>1, <2>2, <2>3 DEF IInv, Held, Masks
<1> QED
  BY <1>6, <1>9, <1>10, <1>11 DEF IInv
-----------------------------------------------------------------------------
(* The kinds of setters.                                                   *)

Plain == Fields \ (Masks \cup {"is_shortcut"})

LEMMA Kinds ==
  /\ Tested \subseteq Plain
  /\ DOMAIN Neutral = {"weighted_grade", "curvature", "bike_network"}
  /\ Tested \cap DOMAIN Enumerators = {}
  BY DEF Tested, Plain, Enumerators, Neutral, Masks, Fields, NodeRoom, EdgeRoom, HeaderRoom,
         Flags, NodeFlags, EdgeFlags

LEMMA UnlimitedStep ==
  ASSUME IInv, NEW f \in Plain \ Tested, NEW v, Unlimited(f, v)
  PROVE  IInv'
<1>1. Keep(f, v, v) /\ v \in Nat /\ f \in Plain
  BY ArgumentTypes DEF Unlimited, Keep, Plain
<1>2. Room[f] \in Nat \ {0} /\ f # "local_edge_count"
  BY RoomTypes DEF Plain, Tested
<1>3. v < Room[f] => v % Room[f] = v
  BY <1>1, <1>2
<1>4. f \in DOMAIN Enumerators => v < Room[f]
  BY <1>1, ArgumentTypes, EnumeratorsFit DEF Keep
<1>5. Right(f, v, v % Room[f])
  BY <1>1, <1>2, <1>3, <1>4 DEF Right, Shown, Smallest, Largest
<1> QED
  BY <1>1, <1>5, KeepStep DEF Plain

LEMMA OrThrowStep ==
  ASSUME IInv, NEW f \in Tested \ {"local_edge_count", "admin_index"}, NEW v, NEW max,
         max = Room[f] - 1, OrThrow(f, v, max)
  PROVE  IInv'
<1>1. Keep(f, v, v) /\ v \in Nat /\ f \in Plain /\ v <= max
  BY ArgumentTypes, Kinds DEF OrThrow, Keep, Plain
<1>2. Room[f] \in Nat \ {0}
  BY <1>1, RoomTypes DEF Plain
<1>3. v % Room[f] = v
  BY <1>1, <1>2
<1>4. Right(f, v, v % Room[f])
  BY <1>1, <1>2, <1>3, Kinds DEF Right, Shown, Smallest, Largest, Passed
<1> QED
  BY <1>1, <1>4, KeepStep DEF Plain

LEMMA LimitedStep ==
  ASSUME IInv, NEW f \in Tested \ ({"local_edge_count", "admin_index"} \cup DOMAIN Neutral),
         NEW v, NEW max, max = Room[f] - 1, Limited(f, v, max)
  PROVE  IInv'
<1> DEFINE kept == IF v > max THEN max ELSE v
<1>1. Keep(f, v, kept) /\ v \in Nat /\ f \in Plain
  BY ArgumentTypes, Kinds DEF Limited, Keep, Plain
<1>2. Room[f] \in Nat \ {0}
  BY <1>1, RoomTypes DEF Plain
<1>3. kept \in Nat /\ kept % Room[f] = kept
  BY <1>1, <1>2
<1>4. Right(f, v, kept % Room[f])
  BY <1>1, <1>2, <1>3, Kinds DEF Right, Shown, Smallest, Largest, Passed
<1> HIDE DEF kept
<1> QED
  BY <1>1, <1>3, <1>4, KeepStep DEF Plain

LEMMA OrElseStep ==
  ASSUME IInv, NEW f \in DOMAIN Neutral, f \in Tested, NEW v, NEW max,
         max = Room[f] - 1, Neutral[f] \in 0 .. max, OrElse(f, v, max, Neutral[f])
  PROVE  IInv'
<1> DEFINE kept == IF v > max THEN Neutral[f] ELSE v
<1>1. Keep(f, v, kept) /\ v \in Nat /\ f \in Plain
  BY ArgumentTypes, Kinds DEF OrElse, Keep, Plain
<1>2. Room[f] \in Nat \ {0} /\ f # "local_edge_count"
  BY <1>1, RoomTypes, Kinds DEF Plain
<1>3. kept \in Nat /\ kept % Room[f] = kept
  BY <1>1, <1>2
<1>4. Right(f, v, kept % Room[f])
  BY <1>1, <1>2, <1>3, Kinds DEF Right, Shown, Smallest, Largest, Passed
<1> HIDE DEF kept
<1> QED
  BY <1>1, <1>3, <1>4, KeepStep DEF Plain
-----------------------------------------------------------------------------
LEMMA LocalEdgeCountStep ==
  ASSUME IInv, NEW n, set_local_edge_count(n)
  PROVE  IInv'
<1> DEFINE f == "local_edge_count"
           kept == IF n > kMaxLocalEdgeIndex + 1 THEN kMaxLocalEdgeIndex ELSE n - 1
<1>1. Keep(f, n, kept) /\ n \in Nat /\ n # 0 /\ f \in Plain /\ f \in Tested
  BY ArgumentTypes, Kinds DEF set_local_edge_count, Keep, Plain, Tested
<1>2. Room[f] = 8 /\ f \notin DOMAIN Neutral
  BY NodeRooms, Kinds
<1>3. kept \in Nat /\ kept % Room[f] = kept
  BY <1>1, <1>2 DEF kMaxLocalEdgeIndex
<1>4. Right(f, n, kept % Room[f])
  BY <1>1, <1>2, <1>3, Kinds DEF Right, Shown, Smallest, Largest, Passed, kMaxLocalEdgeIndex
<1> HIDE DEF kept
<1> QED
  BY <1>1, <1>3, <1>4, KeepStep DEF Plain

\* set_admin_index, whose test is of the 16 bits that are passed.
LEMMA AdminIndexStep ==
  ASSUME IInv, NEW v, set_admin_index(v)
  PROVE  IInv'
<1> DEFINE f == "admin_index"
           index == Passed(f, v)
           kept == IF index > kMaxAdminsPerTile THEN kMaxAdminsPerTile ELSE index
<1>1. Keep(f, v, kept) /\ v \in Nat /\ f \in Plain /\ f \in Tested
  BY ArgumentTypes, Kinds DEF set_admin_index, Keep, Plain, Tested
<1>2. Room[f] = 64 /\ f \notin DOMAIN Neutral /\ f \notin DOMAIN Enumerators
  BY <1>1, NodeRooms, Kinds
<1>3. index = v % 65536 /\ index \in Nat /\ (v < 65536 => index = v)
  BY <1>1 DEF Passed
<1>4. kept \in Nat /\ kept % Room[f] = kept
  BY <1>2, <1>3 DEF kMaxAdminsPerTile
<1>5. Right(f, v, kept % Room[f])
  BY <1>1, <1>2, <1>3, <1>4 DEF Right, Shown, Smallest, Largest, kMaxAdminsPerTile
<1> HIDE DEF kept
<1> QED
  BY <1>1, <1>4, <1>5, KeepStep DEF Plain

\* set_restrictions, the one setter that cuts off what does not fit.
LEMMA RestrictionsStep ==
  ASSUME IInv, NEW mask, set_restrictions(mask)
  PROVE  IInv'
<1>1. /\ "restrictions" \in Plain \ Tested
      /\ Keep("restrictions", mask, mask % 256)
  BY DEF set_restrictions, Plain, Masks, Tested, Fields, EdgeRoom
<1>2. mask \in Nat
  BY <1>1, ArgumentTypes DEF Keep, Plain
<1>3. Right("restrictions", mask, (mask % 256) % Room["restrictions"])
  BY <1>1, <1>2, EdgeRooms DEF Right, Shown, Smallest, Largest, Enumerators
<1> QED
  BY <1>1, <1>2, <1>3, KeepStep DEF Plain

LEMMA NodeStep ==
  ASSUME IInv, SetNode
  PROVE  IInv'
<1>1. CASE \E v \in Arguments["edge_index"] : set_edge_index(v)
  BY <1>1, OrThrowStep, NodeRooms DEF set_edge_index, kMaxTileEdgeCount, Tested
<1>2. CASE \E v \in Arguments["edge_count"] : set_edge_count(v)
  BY <1>2, LimitedStep, NodeRooms, Kinds DEF set_edge_count, kMaxEdgesPerNode, Tested
<1>3. CASE \E v \in Arguments["bestrc"] : set_bestrc(v)
  BY <1>3, UnlimitedStep DEF set_bestrc, Plain, Tested, Masks, Fields, NodeRoom
<1>4. CASE \E v \in Arguments["node_access"] : set_access(v)
  BY <1>4, UnlimitedStep DEF set_access, Plain, Tested, Masks, Fields, NodeRoom
<1>5. CASE \E v \in Arguments["intersection"] : set_intersection(v)
  BY <1>5, UnlimitedStep DEF set_intersection, Plain, Tested, Masks, Fields, NodeRoom
<1>6. CASE \E v \in Arguments["admin_index"] : set_admin_index(v)
  BY <1>6, AdminIndexStep
<1>7. CASE \E v \in Arguments["timezone"] : set_timezone(v)
  BY <1>7, LimitedStep, NodeRooms, Kinds DEF set_timezone, kMaxTimeZonesPerTile, Tested
<1>8. CASE \E v \in Arguments["density"] : set_density(v)
  BY <1>8, LimitedStep, NodeRooms, Kinds DEF set_density, kMaxDensity, Tested
<1>9. CASE \E v \in Arguments["type"] : set_type(v)
  BY <1>9, UnlimitedStep DEF set_type, Plain, Tested, Masks, Fields, NodeRoom
<1>10. CASE \E n \in Arguments["local_edge_count"] : set_local_edge_count(n)
  BY <1>10, LocalEdgeCountStep
<1>11. CASE \E f \in NodeFlags : \E b \in Arguments[f] : SetNodeFlag(f, b)
  <2>1. NodeFlags \subseteq Plain \ Tested
    BY DEF Plain, Tested, Masks, Fields, Flags, NodeFlags
  <2> QED
    BY <1>11, <2>1, UnlimitedStep DEF SetNodeFlag
<1> QED
  BY <1>1, <1>2, <1>3, <1>4, <1>5, <1>6, <1>7, <1>8, <1>9, <1>10, <1>11 DEF SetNode
-----------------------------------------------------------------------------
\* A step that sets a mask: the bit of k, or any for 0.
LEMMA MaskStep ==
  ASSUME IInv, NEW f \in Masks, NEW k, k \in Arguments[f], k \in 0 .. 7,
         NEW mask \in 0 .. 127, k # 0 => mask = OneBit[k],
         NEW b \in {0, 1}, f = "shortcut" => k # 0 /\ b = 1,
         stored["is_shortcut"] = 1 => b = 1,
         stored' = [stored EXCEPT ![f] = mask, !["is_shortcut"] = b],
         Remember(f, k)
  PROVE  IInv'
<1>1. /\ DOMAIN given' = DOMAIN given \cup {f}
      /\ \A g \in DOMAIN given' : given'[g] = IF g = f THEN k ELSE given[g]
  BY DEF Remember
<1>2. mask \in 0 .. 127 /\ f \in Fields /\ f # "is_shortcut"
  BY FieldNames
<1>3. /\ stored' \in [Fields -> Nat]
      /\ stored'[f] = mask
      /\ stored'["is_shortcut"] = b
      /\ \A g \in Fields \ {f, "is_shortcut"} : stored'[g] = stored[g]
  BY <1>2, FieldNames DEF IInv, TypeOK
<1>4. Room[f] = 128 /\ Room["is_shortcut"] = 2
  BY EdgeRooms, FlagRooms DEF Masks, Flags, EdgeFlags
<1>5. TypeOK'
  <2>1. \A g \in Fields : stored'[g] < Room[g]
    BY <1>2, <1>3, <1>4 DEF IInv, TypeOK
  <2>2. DOMAIN given' \subseteq Fields
    BY <1>1, <1>2 DEF IInv, TypeOK
  <2>3. \A g \in DOMAIN given' : given'[g] \in Arguments[g]
    BY <1>1 DEF IInv, TypeOK
  <2> QED
    BY <1>3, <2>1, <2>2, <2>3 DEF TypeOK
<1>6. "is_shortcut" \notin DOMAIN given'
  BY <1>1, <1>2 DEF IInv, Held
<1>7. \A g \in DOMAIN given' \ Masks : /\ g \in DOMAIN given
                                       /\ stored'[g] = stored[g]
                                       /\ given'[g] = given[g]
  BY <1>1, <1>3, <1>5, <1>6 DEF TypeOK
<1>8. FitsReadsBack'
  BY <1>7 DEF IInv, FitsReadsBack, Get
<1>9. NeverWraps'
  <2>1. Tested \cap Masks = {}
    BY DEF Tested, Masks
  <2> QED
    BY <1>7, <2>1 DEF IInv, NeverWraps, Get
<1>10. Held'
  <2>1. \A m \in Masks : m # f => /\ m \in DOMAIN given' <=> m \in DOMAIN given
                                  /\ m \in DOMAIN given => given'[m] = given[m]
                                  /\ stored'[m] = stored[m]
    BY <1>1, <1>3, FieldNames
  <2>2. \A m \in Masks : /\ m \notin DOMAIN given' => stored'[m] = 0
                         /\ m \in DOMAIN given' => given'[m] \in 0 .. 7
                         /\ m \in DOMAIN given' /\ given'[m] # 0 =>
                              stored'[m] = OneBit[given'[m]]
    <3> SUFFICES ASSUME NEW m \in Masks
                 PROVE  /\ m \notin DOMAIN given' => stored'[m] = 0
                        /\ m \in DOMAIN given' => given'[m] \in 0 .. 7
                        /\ m \in DOMAIN given' /\ given'[m] # 0 =>
                             stored'[m] = OneBit[given'[m]]
      OBVIOUS
    <3>1. CASE m = f
      <4>1. m \in DOMAIN given' /\ given'[m] = k /\ stored'[m] = mask
        BY <1>1, <1>3, <3>1
      <4> QED
        BY <4>1
    <3>2. CASE m # f
      <4>1. /\ m \notin DOMAIN given => stored[m] = 0
            /\ m \in DOMAIN given => given[m] \in 0 .. 7
            /\ m \in DOMAIN given /\ given[m] # 0 => stored[m] = OneBit[given[m]]
        BY DEF IInv, Held
      <4> QED
        BY <2>1, <3>2, <4>1
    <3> QED
      BY <3>1, <3>2
  <2>3. "shortcut" \in DOMAIN given' => given'["shortcut"] # 0 /\ stored'["is_shortcut"] = 1
    BY <1>1, <1>3 DEF IInv, Held, Masks
  <2> QED
    BY <1>6, <2>2, <2>3 DEF Held
<1> QED
  BY <1>5, <1>8, <1>9, <1>10 DEF IInv

\* Beyond the last mask set_shortcut sets the flag only.
LEMMA FlagOnlyStep ==
  ASSUME IInv, stored' = [stored EXCEPT !["is_shortcut"] = 1], UNCHANGED given
  PROVE  IInv'
<1>1. /\ stored' \in [Fields -> Nat]
      /\ stored'["is_shortcut"] = 1
      /\ \A g \in Fields \ {"is_shortcut"} : stored'[g] = stored[g]
  BY FieldNames DEF IInv, TypeOK
<1>2. Room["is_shortcut"] = 2
  BY FlagRooms DEF Flags, EdgeFlags
<1>3. TypeOK'
  BY <1>1, <1>2 DEF IInv, TypeOK
<1>4. \A g \in DOMAIN given' : stored'[g] = stored[g]
  BY <1>1 DEF IInv, TypeOK, Held
<1>5. FitsReadsBack' /\ NeverWraps'
  BY <1>4 DEF IInv, FitsReadsBack, NeverWraps, Get
<1>6. Held'
  BY <1>1, FieldNames DEF IInv, Held
<1> QED
  BY <1>3, <1>5, <1>6 DEF IInv

LEMMA ShortcutStep ==
  ASSUME IInv, NEW k, set_shortcut(k)
  PROVE  IInv'
<1>1. k \in Nat /\ k # 0 /\ k \in Arguments["shortcut"]
  BY ArgumentTypes, FieldNames DEF set_shortcut, Masks
<1>2. CASE k <= kMaxShortcutsFromNode
  <2>1. k \in 1 .. 7 /\ OneBit[k] \in 0 .. 127
    BY <1>1, <1>2, MasksOfNumbers DEF kMaxShortcutsFromNode
  <2>2. ~(k > kMaxShortcutsFromNode)
    BY <1>1, <1>2 DEF kMaxShortcutsFromNode
  <2>3. /\ stored' = [stored EXCEPT !["shortcut"] = OneBit[k], !["is_shortcut"] = 1]
        /\ Remember("shortcut", k)
    BY <2>2, Zenon DEF set_shortcut
  <2>4. k \in 0 .. 7 /\ "shortcut" \in Masks /\ 1 \in {0, 1} /\ k # 0
    BY <2>1 DEF Masks
  <2> QED
    BY <1>1, <2>1, <2>3, <2>4, MaskStep, Zenon
<1>3. CASE ~(k <= kMaxShortcutsFromNode)
  BY <1>1, <1>3, FlagOnlyStep DEF set_shortcut
<1> QED
  BY <1>2, <1>3

LEMMA SupersededStep ==
  ASSUME IInv, NEW k, set_superseded(k)
  PROVE  IInv'
<1>1. k \in 0 .. 7 /\ k \in Arguments["superseded"] /\ Remember("superseded", k)
  BY ArgumentTypes, FieldNames DEF set_superseded, Masks, kMaxShortcutsFromNode
<1> DEFINE Left(mask) == /\ k # 0 => mask = OneBit[k]
                         /\ stored' = [stored EXCEPT !["superseded"] = mask]
<1>a. \E mask \in 0 .. Room["superseded"] - 1 : Left(mask)
  BY Zenon DEF set_superseded
<1>b. Room["superseded"] - 1 = 127
  BY EdgeRooms
<1> HIDE DEF Left
<1>c. PICK mask \in 0 .. 127 : Left(mask)
  BY <1>a, <1>b
<1>2. /\ k # 0 => mask = OneBit[k]
      /\ stored' = [stored EXCEPT !["superseded"] = mask]
  BY <1>c DEF Left
<1>3. stored["is_shortcut"] \in {0, 1}
  BY FlagRooms, FieldNames DEF IInv, TypeOK, Flags, EdgeFlags
<1>4. stored' = [stored EXCEPT !["superseded"] = mask,
                               !["is_shortcut"] = stored["is_shortcut"]]
  BY <1>2, FieldNames DEF IInv, TypeOK
<1>5. "superseded" \in Masks /\ "superseded" # "shortcut"
  BY DEF Masks
<1>6. stored["is_shortcut"] = 1 => stored["is_shortcut"] = 1
  OBVIOUS
<1> QED
  BY <1>1, <1>2, <1>3, <1>4, <1>5, <1>6, MaskStep, Zenon

LEMMA EdgeStep ==
  ASSUME IInv, SetEdge
  PROVE  IInv'
<1>1. CASE \E v \in Arguments["edgeinfo_offset"] : set_edgeinfo_offset(v)
  BY <1>1, OrThrowStep, EdgeRooms DEF set_edgeinfo_offset, kMaxEdgeInfoOffset, Tested
<1>2. CASE \E v \in Arguments["length"] : set_length(v)
  BY <1>2, LimitedStep, EdgeRooms, Kinds DEF set_length, kMaxEdgeLength, Tested
<1>3. CASE \E v \in Arguments["lanecount"] : set_lanecount(v)
  BY <1>3, LimitedStep, EdgeRooms, Kinds DEF set_lanecount, kMaxLaneCount, Tested
<1>4. CASE \E v \in Arguments["speed"] : set_speed(v)
  BY <1>4, LimitedStep, EdgeRooms, Kinds DEF set_speed, kMaxSpeed, Tested
<1>5. CASE \E v \in Arguments["truck_speed"] : set_truck_speed(v)
  BY <1>5, LimitedStep, EdgeRooms, Kinds DEF set_truck_speed, kMaxSpeed, Tested
<1>6. CASE \E v \in Arguments["localedgeidx"] : set_localedgeidx(v)
  BY <1>6, LimitedStep, EdgeRooms, Kinds DEF set_localedgeidx, kMaxEdgesPerNode, Tested
<1>7. CASE \E v \in Arguments["opp_local_idx"] : set_opp_local_idx(v)
  BY <1>7, LimitedStep, EdgeRooms, Kinds DEF set_opp_local_idx, kMaxEdgesPerNode, Tested
<1>8. CASE \E v \in Arguments["weighted_grade"] : set_weighted_grade(v)
  BY <1>8, OrElseStep, EdgeRooms, Kinds DEF set_weighted_grade, kMaxGradeFactor, Tested, Neutral
<1>9. CASE \E v \in Arguments["curvature"] : set_curvature(v)
  BY <1>9, OrElseStep, EdgeRooms, Kinds DEF set_curvature, kMaxCurvatureFactor, Tested, Neutral
<1>10. CASE \E v \in Arguments["bike_network"] : set_bike_network(v)
  BY <1>10, OrElseStep, EdgeRooms, Kinds DEF set_bike_network, kMaxBicycleNetwork, Tested, Neutral
<1>11. CASE \E v \in Arguments["access_restriction"] : set_access_restriction(v)
  BY <1>11, UnlimitedStep DEF set_access_restriction, Plain, Tested, Masks, Fields, EdgeRoom
<1>12. CASE \E v \in Arguments["opp_index"] : set_opp_index(v)
  BY <1>12, UnlimitedStep DEF set_opp_index, Plain, Tested, Masks, Fields, EdgeRoom
<1>13. CASE \E v \in Arguments["cycle_lane"] : set_cyclelane(v)
  BY <1>13, UnlimitedStep DEF set_cyclelane, Plain, Tested, Masks, Fields, EdgeRoom
<1>14. CASE \E v \in Arguments["use"] : set_use(v)
  BY <1>14, UnlimitedStep DEF set_use, Plain, Tested, Masks, Fields, EdgeRoom
<1>15. CASE \E v \in Arguments["speed_type"] : set_speed_type(v)
  BY <1>15, UnlimitedStep DEF set_speed_type, Plain, Tested, Masks, Fields, EdgeRoom
<1>16. CASE \E v \in Arguments["forwardaccess"] : set_forwardaccess(v)
  BY <1>16, UnlimitedStep DEF set_forwardaccess, Plain, Tested, Masks, Fields, EdgeRoom
<1>17. CASE \E v \in Arguments["reverseaccess"] : set_reverseaccess(v)
  BY <1>17, UnlimitedStep DEF set_reverseaccess, Plain, Tested, Masks, Fields, EdgeRoom
<1>18. CASE \E v \in Arguments["classification"] : set_classification(v)
  BY <1>18, UnlimitedStep DEF set_classification, Plain, Tested, Masks, Fields, EdgeRoom
<1>19. CASE \E v \in Arguments["surface"] : set_surface(v)
  BY <1>19, UnlimitedStep DEF set_surface, Plain, Tested, Masks, Fields, EdgeRoom
<1>20. CASE \E v \in Arguments["restrictions"] : set_restrictions(v)
  BY <1>20, RestrictionsStep
<1>21. CASE set_all_forward_access
  <2>1. Unlimited("forwardaccess", kAllAccess)
    BY <1>21 DEF set_all_forward_access, Unlimited
  <2> QED
    BY <2>1, UnlimitedStep DEF Plain, Tested, Masks, Fields, EdgeRoom
<1>22. CASE \E f \in EdgeFlags \ {"is_shortcut"} : \E b \in Arguments[f] : SetEdgeFlag(f, b)
  <2>1. EdgeFlags \ {"is_shortcut"} \subseteq Plain \ Tested
    BY DEF Plain, Tested, Masks, Fields, Flags, EdgeFlags
  <2> QED
    BY <1>22, <2>1, UnlimitedStep DEF SetEdgeFlag
<1>23. CASE \E v \in Arguments["shortcut"] : set_shortcut(v)
  BY <1>23, ShortcutStep
<1>24. CASE \E v \in Arguments["superseded"] : set_superseded(v)
  BY <1>24, SupersededStep
<1> QED
  BY <1>1, <1>2, <1>3, <1>4, <1>5, <1>6, <1>7, <1>8, <1>9, <1>10, <1>11,
     <1>12, <1>13, <1>14, <1>15, <1>16, <1>17, <1>18, <1>19, <1>20,
     <1>21, <1>22, <1>23, <1>24
     DEF SetEdge

LEMMA HeaderStep ==
  ASSUME IInv, NEW f \in DOMAIN HeaderRoom, NEW v, SetHeader(f, v)
  PROVE  IInv'
<1>1. f \in Plain \ Tested
  BY DEF Plain, Tested, Masks, Fields, HeaderRoom
<1> QED
  BY <1>1, UnlimitedStep DEF SetHeader

LEMMA StepIInv == IInv /\ [Next]_vars => IInv'
<1> SUFFICES ASSUME IInv, [Next]_vars PROVE IInv'
  OBVIOUS
<1>1. CASE SetNode
  BY <1>1, NodeStep
<1>2. CASE SetEdge
  BY <1>2, EdgeStep
<1>3. CASE \E f \in DOMAIN HeaderRoom : \E v \in Arguments[f] : SetHeader(f, v)
  BY <1>3, HeaderStep
<1>4. CASE UNCHANGED vars
  BY <1>4 DEF vars, IInv, TypeOK, FitsReadsBack, NeverWraps, Held, Get
<1> QED
  BY <1>1, <1>2, <1>3, <1>4 DEF Next

LEMMA InvariantHolds == Spec => []IInv
  BY InitIInv, StepIInv, PTL DEF Spec

LEMMA HeldMasksMatch == IInv => MasksMatch
<1> SUFFICES ASSUME IInv PROVE MasksMatch
  OBVIOUS
<1>1. \A f \in Masks \cap DOMAIN given :
        given[f] # 0 => given[f] \in 1 .. 7 /\ stored[f] = OneBit[given[f]]
  BY DEF IInv, Held
<1>2. \A f \in Masks \cap DOMAIN given :
        given[f] # 0 => \E k \in DOMAIN OneBit : stored[f] = OneBit[k]
  BY <1>1, MasksOfNumbers
<1>3. stored["shortcut"] # 0 => stored["is_shortcut"] = 1
  BY DEF IInv, Held, Masks
<1>4. Masks \subseteq DOMAIN given /\ given["superseded"] # 0 =>
        (stored["shortcut"] = stored["superseded"] <=> given["shortcut"] = given["superseded"])
  BY <1>1, MasksOfNumbers DEF IInv, Held, Masks
<1> QED
  BY <1>2, <1>3, <1>4 DEF MasksMatch
-----------------------------------------------------------------------------
\* No setter makes a field hold more than its bits.
THEOREM TypesKept == Spec => []TypeOK
  BY InvariantHolds, PTL DEF IInv

\* Every enumerator reads back as it was given, and so does every other value
\* that fits the bits: no setter's limit is too low, no enumerator too large,
\* and no other setter disturbs it. Counts that do not fit are not part of it.
THEOREM FittingValuesReadBack == Spec => []FitsReadsBack
  BY InvariantHolds, PTL DEF IInv

\* A setter with a limit never lets a value wrap around.
THEOREM LimitsHold == Spec => []NeverWraps
  BY InvariantHolds, PTL DEF IInv

\* Shortcuts and the edges they supersede, by a number other than 0, have the
\* same mask, and only they.
THEOREM ShortcutMasksMatch == Spec => []MasksMatch
  BY InvariantHolds, HeldMasksMatch, PTL
-----------------------------------------------------------------------------
(***************************************************************************)
(* The layout of a tile: for any contents, sizes of records, ranges of the *)
(* counts and places where a file was cut.                                 *)
(*                                                                         *)
(* The inductive invariant: a tile in memory is what the constructor makes *)
(* of the file, an edge info is the one written there, decoded or not, and *)
(* the last answer is the one this tile or this edge info gives.           *)
(***************************************************************************)
TileIsOfFile == /\ \E cut \in Cuts : size = FileSize(content) - cut
                /\ tile # NotLoaded => tile = Load(content, size)

Decoded(i) == [i EXCEPT !.shape = Bytes(i), !.encoded_shape = 0]
InfoIsOfTile ==
  info # NoInfo =>
    /\ tile # NotLoaded
    /\ info.of \in DOMAIN content.infos
    /\ info = IF decoded THEN Decoded(EdgeInfo(info.of)) ELSE EdgeInfo(info.of)

AnswerIsOfTile ==
  /\ tile = NotLoaded => ret = NoCall
  /\ ret.call \in Tables => ret.arg \in Nat /\ ret.answer = Record(ret.call, ret.arg)
  /\ ret.call = "edges" => ret.arg \in Nat /\ ret.answer = GetDirectedEdges(ret.arg)
  /\ ret.call = "name" => ret.arg \in Nat /\ ret.answer = GetName(ret.arg)

AnswerIsOfInfo ==
  /\ ret.call \in {"shape", "encoded_shape"} =>
       /\ \/ ret.answer = Undefined
          \/ ret.answer = [kind |-> "shape", bytes |-> Bytes(EdgeInfo(info.of))]
       /\ decoded => ret.answer # Undefined
  /\ ret.call = "names" =>
       \/ ret.answer \in {Undefined, Throw}
       \/ /\ ret.answer = [kind |-> "names", offsets |-> InfoNames(info)]
          /\ \A j \in DOMAIN InfoNames(info) :
               InfoNames(info)[j] \in 0 .. tile.textlist_size - 1
  /\ ret.answer.kind = "shape" => ret.call \in {"shape", "encoded_shape"}
  /\ ret.answer.kind = "names" => ret.call = "names"

LayoutInv == LayoutTypeOK /\ TileIsOfFile /\ InfoIsOfTile /\ AnswerIsOfTile /\ AnswerIsOfInfo
-----------------------------------------------------------------------------
\* A set of natural numbers has a least one: what the proofs by induction on
\* places and cells below start from.
LEMMA LeastNumber ==
  ASSUME NEW T, T \subseteq Nat, T # {}
  PROVE  \E x \in T : \A y \in T : x <= y
<1> DEFINE R == {ss \in Nat \X Nat : ss[1] < ss[2]}
<1>1. R = OpToRel(<, Nat)
  BY DEF OpToRel
<1>2. IsWellFoundedOn(R, Nat)
  BY <1>1, NatLessThanWellFounded
<1> HIDE DEF R
<1>3. PICK x \in T : \A y \in T : ~ (<<y, x>> \in R)
  BY <1>2, WFMin, Zenon
<1>4. \A y \in T : ~ (y < x)
  BY <1>3 DEF R
<1> QED
  BY <1>4

\* at has the places where parts of the given sizes start.
StartsOf(at, first, sizes, n) ==
  /\ at \in [1 .. n + 1 -> Nat]
  /\ at[1] = first
  /\ \A i \in 1 .. n : at[i + 1] = at[i] + sizes[i]

LEMMA StartsExist ==
  ASSUME NEW first \in Nat, NEW n \in Nat, NEW sizes \in [1 .. n -> Nat]
  PROVE  \E at : StartsOf(at, first, sizes, n)
<1> DEFINE T == {m \in 0 .. n : ~ \E at : StartsOf(at, first, sizes, m)}
<1>1. SUFFICES ASSUME ~ \E at : StartsOf(at, first, sizes, n) PROVE FALSE
  OBVIOUS
<1>2. PICK m \in T : \A k \in T : m <= k
  <2>1. T \subseteq Nat /\ n \in T
    BY <1>1
  <2> HIDE DEF T
  <2> QED
    BY <2>1, LeastNumber
<1>3. m \in 0 .. n /\ ~ \E at : StartsOf(at, first, sizes, m)
  BY <1>2
<1>4. CASE m = 0
  <2>1. StartsOf([i \in 1 .. 1 |-> first], first, sizes, 0)
    BY DEF StartsOf
  <2> QED
    BY <1>3, <1>4, <2>1
<1>5. CASE m # 0
  <2>1. m - 1 \in 0 .. n /\ m - 1 \notin T
    BY <1>2, <1>3, <1>5
  <2>2. PICK at : StartsOf(at, first, sizes, m - 1)
    BY <2>1
  <2> DEFINE next == [i \in 1 .. m + 1 |-> IF i = m + 1 THEN at[m] + sizes[m] ELSE at[i]]
  <2>3. /\ at \in [1 .. m -> Nat] /\ at[1] = first
        /\ \A i \in 1 .. m - 1 : at[i + 1] = at[i] + sizes[i]
    BY <1>3, <2>2 DEF StartsOf
  <2>4. sizes[m] \in Nat /\ at[m] \in Nat
    BY <1>3, <1>5, <2>3
  <2>5. next \in [1 .. m + 1 -> Nat] /\ next[1] = first
    BY <1>3, <1>5, <2>3, <2>4
  <2>6. ASSUME NEW i \in 1 .. m
        PROVE  next[i + 1] = next[i] + sizes[i]
    <3>1. CASE i = m
      BY <1>3, <2>6, <3>1
    <3>2. CASE i # m
      <4>1. i \in 1 .. m - 1 /\ i + 1 # m + 1 /\ i + 1 \in 1 .. m + 1
        BY <1>3, <2>6, <3>2
      <4> QED
        BY <1>3, <2>3, <4>1
    <3> QED
      BY <3>1, <3>2
  <2> HIDE DEF next
  <2>7. StartsOf(next, first, sizes, m)
    BY <2>5, <2>6 DEF StartsOf
  <2> QED
    BY <1>3, <2>7
<1> QED
  BY <1>4, <1>5

\* What Starts computes: each part starts where the one before it ends.
LEMMA StartsFollow ==
  ASSUME NEW first \in Nat, NEW n \in Nat, NEW sizes \in [1 .. n -> Nat], Len(sizes) = n
  PROVE  StartsOf(Starts(first, sizes), first, sizes, n)
<1> DEFINE Eq(at) == at = [i \in 1 .. n + 1 |-> IF i = 1 THEN first ELSE at[i - 1] + sizes[i - 1]]
<1>1. PICK at : StartsOf(at, first, sizes, n)
  BY StartsExist
<1>2. Eq(at)
  <2>1. at \in [1 .. n + 1 -> Nat] /\ at[1] = first
    BY <1>1 DEF StartsOf
  <2>2. ASSUME NEW i \in 1 .. n + 1
        PROVE  at[i] = IF i = 1 THEN first ELSE at[i - 1] + sizes[i - 1]
    <3>1. CASE i # 1
      <4>1. i - 1 \in 1 .. n /\ (i - 1) + 1 = i
        BY <2>2, <3>1
      <4>2. at[(i - 1) + 1] = at[i - 1] + sizes[i - 1]
        BY <1>1, <4>1 DEF StartsOf
      <4> QED
        BY <3>1, <4>1, <4>2
    <3> QED
      BY <2>1, <3>1
  <2> QED
    BY <2>1, <2>2
<1>3. Starts(first, sizes) = CHOOSE f : Eq(f)
  BY DEF Starts
<1>4. Eq(Starts(first, sizes))
  <2> HIDE DEF Eq
  <2> QED
    BY <1>2, <1>3
<1>5. ASSUME NEW f, Eq(f)
      PROVE  StartsOf(f, first, sizes, n)
  <2>1. f[1] = first
    BY <1>5
  <2>2. \A i \in 1 .. n : f[i + 1] = f[i] + sizes[i]
    <3>1. ASSUME NEW i \in 1 .. n
          PROVE  f[i + 1] = f[i] + sizes[i]
      <4>1. i + 1 \in 1 .. n + 1 /\ i + 1 # 1 /\ (i + 1) - 1 = i
        BY <3>1
      <4> QED
        BY <1>5, <4>1
    <3> QED
      BY <3>1
  <2>3. \A i \in 1 .. n + 1 : f[i] \in Nat
    <3> DEFINE T == {i \in 1 .. n + 1 : f[i] \notin Nat}
    <3>1. SUFFICES ASSUME T # {} PROVE FALSE
      OBVIOUS
    <3>2. PICK i \in T : \A k \in T : i <= k
      <4>1. T \subseteq Nat
        OBVIOUS
      <4> HIDE DEF T
      <4> QED
        BY <3>1, <4>1, LeastNumber
    <3>3. i \in 1 .. n + 1 /\ f[i] \notin Nat
      BY <3>2
    <3>4. i # 1
      BY <2>1, <3>3
    <3>5. i - 1 \in 1 .. n /\ (i - 1) + 1 = i /\ i - 1 \notin T
      BY <3>2, <3>3, <3>4
    <3>6. f[i - 1] \in Nat /\ sizes[i - 1] \in Nat
      BY <3>5
    <3>7. f[i] = f[i - 1] + sizes[i - 1]
      BY <2>2, <3>5
    <3> QED
      BY <3>3, <3>6, <3>7
  <2>4. f \in [1 .. n + 1 -> Nat]
    <3>1. f = [i \in 1 .. n + 1 |-> f[i]]
      BY <1>5
    <3> QED
      BY <2>3, <3>1
  <2> QED
    BY <2>1, <2>2, <2>4 DEF StartsOf
<1> QED
  BY <1>4, <1>5

\* Parts of the same sizes before place i start there at the same byte.
SameBefore(v, w, i) == \A j \in 1 .. i - 1 : v[j] = w[j]

LEMMA SameStarts ==
  ASSUME NEW first, NEW n \in Nat, NEW a, NEW sizesA, NEW b, NEW sizesB,
         StartsOf(a, first, sizesA, n), StartsOf(b, first, sizesB, n),
         NEW i \in 1 .. n + 1, SameBefore(sizesA, sizesB, i)
  PROVE  a[i] = b[i]
<1> DEFINE T == {k \in 1 .. i : a[k] # b[k]}
<1>1. SUFFICES ASSUME T # {} PROVE FALSE
  OBVIOUS
<1>2. PICK k \in T : \A m \in T : k <= m
  <2>1. T \subseteq Nat
    OBVIOUS
  <2> HIDE DEF T
  <2> QED
    BY <1>1, <2>1, LeastNumber
<1>3. k \in 1 .. i /\ a[k] # b[k]
  BY <1>2
<1>4. k # 1
  BY <1>3 DEF StartsOf
<1>5. /\ k - 1 \in 1 .. i - 1 /\ k - 1 \in 1 .. n /\ (k - 1) + 1 = k
      /\ a[k - 1] = b[k - 1]
  BY <1>2, <1>3, <1>4
<1>6. a[k] = a[k - 1] + sizesA[k - 1] /\ b[k] = b[k - 1] + sizesB[k - 1]
  BY <1>5 DEF StartsOf
<1> QED
  BY <1>3, <1>5, <1>6 DEF SameBefore
-----------------------------------------------------------------------------
LEMMA TablesAre ==
  /\ Len(Order) = 10 /\ DOMAIN Order = 1 .. 10
  /\ \A i, j \in 1 .. 10 : Order[i] = Order[j] => i = j
  /\ Tables = {"node", "directededge", "departure", "stop", "route", "transfer",
               "access_restriction", "sign", "admin", "edge_cell"}
  /\ Order[1] = "node" /\ Order[2] = "directededge" /\ Order[10] = "edge_cell"
  BY DEF Order, Tables

LEMMA PlacesAre ==
  /\ \A i \in 1 .. 10 : Order[i] \in Tables /\ Place(Order[i]) = i
  /\ \A t \in Tables : Place(t) \in 1 .. 10 /\ Order[Place(t)] = t
<1>1. \A i \in 1 .. 10 : Order[i] \in Tables /\ Place(Order[i]) = i
  BY TablesAre DEF Tables, Place
<1>2. ASSUME NEW t \in Tables
      PROVE  Place(t) \in 1 .. 10 /\ Order[Place(t)] = t
  <2>1. PICK i \in 1 .. 10 : t = Order[i]
    BY TablesAre DEF Tables
  <2> QED
    BY <1>1, <2>1
<1> QED
  BY <1>1, <1>2

\* The bytes of each table, in the order of the file.
Widths(counts) == [i \in 1 .. 10 |-> counts[Order[i]] * RecordSize[Order[i]]]

LEMMA WidthsAre ==
  ASSUME NEW counts \in [Tables -> Nat]
  PROVE  Widths(counts) \in [1 .. 10 -> Nat] /\ Len(Widths(counts)) = 10
<1>1. ASSUME NEW i \in 1 .. 10
      PROVE  counts[Order[i]] * RecordSize[Order[i]] \in Nat
  <2>1. counts[Order[i]] \in Nat /\ RecordSize[Order[i]] \in Nat
    BY PlacesAre, LayoutTypes
  <2> QED
    BY <2>1
<1> QED
  BY <1>1 DEF Widths

LEMMA TablesFollow ==
  ASSUME NEW counts \in [Tables -> Nat]
  PROVE  StartsOf(TableAt(counts), HeaderSize, Widths(counts), 10)
<1>1. TableAt(counts) = Starts(HeaderSize, Widths(counts))
  BY TablesAre DEF TableAt, Widths
<1> QED
  BY <1>1, WidthsAre, StartsFollow, LayoutTypes

\* What the bits of a header's count can hold is what it holds.
LEMMA Remainder ==
  ASSUME NEW n \in Nat, NEW r \in Nat \ {0}
  PROVE  /\ n % r \in Nat /\ n % r <= n /\ n % r \in 0 .. r - 1
         /\ n < r => n % r = n
  OBVIOUS

LEMMA ContentTypes ==
  ASSUME NEW c \in Contents
  PROVE  IsContent(c)
  BY LayoutTypes

LEMMA CountTypes ==
  ASSUME NEW c \in Contents
  PROVE  /\ c.count \in [Tables -> Nat]
         /\ Header(c).count \in [Tables -> Nat]
         /\ \A t \in Tables : /\ Header(c).count[t] = c.count[t] % CountRange[t]
                              /\ Header(c).count[t] <= c.count[t]
                              /\ c.count[t] < CountRange[t] =>
                                   Header(c).count[t] = c.count[t]
<1>1. c.count \in [Tables -> Nat] /\ CountRange \in [Tables -> Nat \ {0}]
  BY ContentTypes, LayoutTypes DEF IsContent
<1>2. \A t \in Tables : Header(c).count[t] = c.count[t] % CountRange[t]
  BY DEF Header
<1>3. \A t \in Tables : c.count[t] \in Nat /\ CountRange[t] \in Nat \ {0}
  BY <1>1
<1>4. \A t \in Tables :
        /\ c.count[t] % CountRange[t] \in Nat
        /\ c.count[t] % CountRange[t] <= c.count[t]
        /\ c.count[t] < CountRange[t] => c.count[t] % CountRange[t] = c.count[t]
  BY <1>3, Remainder
<1>5. Header(c).count \in [Tables -> Nat]
  BY <1>4 DEF Header
<1> QED
  BY <1>1, <1>2, <1>4, <1>5

\* A table begins where the builder put it if the counts before it fit.
LEMMA PlacesKept ==
  ASSUME content \in Contents, NEW i \in 1 .. 11, FitsBefore(i)
  PROVE  TableAt(Header(content).count)[i] = TableAt(content.count)[i]
<1>1. /\ StartsOf(TableAt(Header(content).count), HeaderSize, Widths(Header(content).count), 10)
      /\ StartsOf(TableAt(content.count), HeaderSize, Widths(content.count), 10)
  BY CountTypes, TablesFollow
<1>2. ASSUME NEW j \in 1 .. i - 1
      PROVE  Widths(Header(content).count)[j] = Widths(content.count)[j]
  <2>1. j \in 1 .. 10 /\ Order[j] \in Tables
    BY <1>2, PlacesAre
  <2>2. Header(content).count[Order[j]] = content.count[Order[j]]
    BY <2>1, <1>2, CountTypes DEF FitsBefore
  <2> QED
    BY <2>1, <2>2 DEF Widths
<1>3. SameBefore(Widths(Header(content).count), Widths(content.count), i)
  BY <1>2 DEF SameBefore
<1>4. 10 \in Nat /\ i \in 1 .. 10 + 1
  OBVIOUS
<1> QED
  BY <1>1, <1>3, <1>4, SameStarts

LEMMA TableEnds ==
  ASSUME NEW counts \in [Tables -> Nat], NEW i \in 1 .. 10
  PROVE  /\ TableAt(counts)[i] \in Nat /\ TableAt(counts)[i + 1] \in Nat
         /\ TableAt(counts)[i + 1] = TableAt(counts)[i] + counts[Order[i]] * RecordSize[Order[i]]
  BY TablesFollow DEF StartsOf, Widths

\* An edge info begins where the one before it ends.
InfoWidths(c) == [k \in 1 .. Len(c.infos) |-> InfoSize(c.infos[k])]

LEMMA InfosFollow ==
  ASSUME NEW c \in Contents
  PROVE  /\ Len(c.infos) \in Nat
         /\ DOMAIN c.infos = 1 .. Len(c.infos)
         /\ StartsOf(InfoAt(c), TableAt(c.count)[11],
                     InfoWidths(c), Len(c.infos))
<1> DEFINE n == Len(c.infos)
<1>1. c.infos \in Seq([names : Seq(Nat), shape : Nat])
  BY ContentTypes DEF IsContent
<1>2. n \in Nat /\ DOMAIN c.infos = 1 .. n
  BY <1>1
<1>3. \A k \in 1 .. n : c.infos[k] \in [names : Seq(Nat), shape : Nat]
  BY <1>1, ElementOfSeq
<1>4. ASSUME NEW k \in 1 .. n
      PROVE  InfoSize(c.infos[k]) \in Nat
  <2>1. c.infos[k].names \in Seq(Nat) /\ c.infos[k].shape \in Nat
    BY <1>3
  <2>2. Len(c.infos[k].names) \in Nat
    BY <2>1
  <2> QED
    BY <2>1, <2>2 DEF InfoSize
<1>5. InfoWidths(c) \in [1 .. n -> Nat] /\ Len(InfoWidths(c)) = n
  BY <1>2, <1>4 DEF InfoWidths
<1>6. TableAt(c.count)[11] \in Nat
  BY CountTypes, TableEnds
<1>7. InfoAt(c) = Starts(TableAt(c.count)[11], InfoWidths(c))
  BY <1>2, TablesAre DEF InfoAt, InfoWidths
<1> HIDE DEF n
<1> QED
  BY <1>2, <1>5, <1>6, <1>7, StartsFollow DEF n

LEMMA InfoPlaces ==
  ASSUME NEW c \in Contents
  PROVE  /\ InfoAt(c)[1] = TableAt(c.count)[11]
         /\ InfoAt(c)[1] \in Nat /\ TextAt(c) \in Nat
         /\ \A k \in DOMAIN c.infos : InfoAt(c)[k] \in Nat
<1> DEFINE n == Len(c.infos)
<1>1. /\ n \in Nat /\ DOMAIN c.infos = 1 .. n
      /\ InfoAt(c) \in [1 .. n + 1 -> Nat]
      /\ InfoAt(c)[1] = TableAt(c.count)[11]
  BY InfosFollow DEF StartsOf
<1>2. 1 \in 1 .. n + 1 /\ n + 1 \in 1 .. n + 1 /\ 1 .. n \subseteq 1 .. n + 1
  BY <1>1
<1> QED
  BY <1>1, <1>2 DEF TextAt
-----------------------------------------------------------------------------
(* The invariant holds of each step.                                       *)

LEMMA FileTypes ==
  ASSUME NEW c \in Contents
  PROVE  FileSize(c) \in Nat
  BY ContentTypes, InfoPlaces DEF IsContent, FileSize

LEMMA LoadTypes ==
  ASSUME NEW c \in Contents, NEW s \in Int
  PROVE  LET ld == Load(c, s) IN
         /\ ld # NotLoaded
         /\ ld.at \in [Tables -> Nat]
         /\ \A t \in Tables : ld.at[t] = TableAt(Header(c).count)[Place(t)]
         /\ ld.header = Header(c)
         /\ ld.edgeinfo = InfoAt(c)[1] /\ ld.edgeinfo \in Nat
         /\ ld.textlist = TextAt(c) /\ ld.textlist \in Nat
         /\ ld.textlist_size = (s - TextAt(c)) % SizeRange
         /\ ld.textlist_size \in 0 .. SizeRange - 1
<1> DEFINE ld == Load(c, s)
<1>1. Header(c).count \in [Tables -> Nat]
  BY CountTypes
<1>2. /\ ld.at = [t \in Tables |-> TableAt(Header(c).count)[Place(t)]]
      /\ ld.header = Header(c)
      /\ ld.edgeinfo = TableAt(c.count)[11]
      /\ ld.textlist = TextAt(c)
      /\ ld.textlist_size = (s - TextAt(c)) % SizeRange
  BY TablesAre DEF Load, Header
<1>3. \A t \in Tables : TableAt(Header(c).count)[Place(t)] \in Nat
  BY <1>1, PlacesAre, TableEnds
<1>4. ld.edgeinfo = InfoAt(c)[1] /\ InfoAt(c)[1] \in Nat /\ TextAt(c) \in Nat
  BY <1>2, InfoPlaces
<1>5. SizeRange \in Nat \ {0}
  BY LayoutTypes
<1>6. (s - TextAt(c)) % SizeRange \in 0 .. SizeRange - 1
  BY <1>4, <1>5
<1>7. ld # NotLoaded
  BY DEF Load, NotLoaded
<1> QED
  BY <1>2, <1>3, <1>4, <1>6, <1>7

LEMMA EdgeInfoTypes ==
  ASSUME content \in Contents, size \in Int, tile = Load(content, size),
         NEW k \in DOMAIN content.infos
  PROVE  LET i == EdgeInfo(k)
         IN  /\ i.of = k
             /\ i.name_count = Len(content.infos[k].names) % NameCounts
             /\ i.name_count \in 0 .. NameCounts - 1
             /\ i.encoded_shape_size = content.infos[k].shape % ShapeSizes
             /\ i.encoded_shape_size \in 0 .. ShapeSizes - 1
             /\ i.encoded_shape = NamesAt(InfoAt(content)[k]) + 4 * i.name_count
             /\ i.encoded_shape \in Nat \ {0}
             /\ content.infos[k].names \in Seq(Nat) /\ content.infos[k].shape \in Nat
             /\ Len(content.infos[k].names) \in Nat
<1> DEFINE w == content.infos[k]
<1>1. w.names \in Seq(Nat) /\ w.shape \in Nat
  <2>1. /\ content.infos \in Seq([names : Seq(Nat), shape : Nat])
        /\ k \in 1 .. Len(content.infos)
    BY ContentTypes, InfosFollow DEF IsContent
  <2>2. w \in [names : Seq(Nat), shape : Nat]
    BY <2>1, ElementOfSeq
  <2> QED
    BY <2>2
<1>2. Len(w.names) \in Nat
  BY <1>1
<1>3. Len(w.names) % NameCounts \in 0 .. NameCounts - 1 /\ w.shape % ShapeSizes \in 0 .. ShapeSizes - 1
  <2>1. NameCounts \in Nat \ {0} /\ ShapeSizes \in Nat \ {0}
    BY LayoutTypes
  <2>2. Len(w.names) % NameCounts \in 0 .. NameCounts - 1
    BY <1>2, <2>1, Remainder
  <2>3. w.shape % ShapeSizes \in 0 .. ShapeSizes - 1
    BY <1>1, <2>1, Remainder
  <2> QED
    BY <2>2, <2>3
<1>4. /\ InfoAt(content)[k] \in Nat /\ InfoAt(content)[1] \in Nat
      /\ tile.edgeinfo = InfoAt(content)[1]
  BY InfoPlaces, LoadTypes
<1>5. tile.edgeinfo + (InfoAt(content)[k] - InfoAt(content)[1]) = InfoAt(content)[k]
  BY <1>4
<1>6. EdgeInfo(k) =
        [of |-> k, name_count |-> Len(w.names) % NameCounts,
         encoded_shape_size |-> w.shape % ShapeSizes,
         encoded_shape |-> NamesAt(InfoAt(content)[k]) + 4 * (Len(w.names) % NameCounts),
         shape |-> <<>>]
  BY <1>5 DEF EdgeInfo
<1>7. Len(w.names) % NameCounts \in Nat
  <2> DEFINE r == Len(w.names) % NameCounts
  <2>1. r \in 0 .. NameCounts - 1
    BY <1>3
  <2>2. NameCounts \in Nat
    BY LayoutTypes
  <2> HIDE DEF r
  <2>3. r \in Nat
    BY <2>1, <2>2
  <2> QED
    BY <2>3 DEF r
<1>8. NamesAt(InfoAt(content)[k]) + 4 * (Len(w.names) % NameCounts) \in Nat \ {0}
  BY <1>4, <1>7 DEF NamesAt
<1> HIDE DEF w
<1> QED
  BY <1>1, <1>2, <1>3, <1>6, <1>8 DEF w

LEMMA LayoutInitInv == LayoutInit => LayoutInv
<1> SUFFICES ASSUME LayoutInit PROVE LayoutInv
  OBVIOUS
<1>1. PICK cut \in Cuts : size = FileSize(content) - cut
  BY DEF LayoutInit
<1>2. content \in Contents /\ FileSize(content) \in Nat /\ cut \in Nat
  BY FileTypes, LayoutTypes DEF LayoutInit
<1>3. LayoutTypeOK
  <2>1. ret.answer.kind = "null" /\ size \in Int
    BY <1>1, <1>2 DEF LayoutInit, NoCall, Null
  <2> QED
    BY <1>2, <2>1 DEF LayoutInit, LayoutTypeOK
<1>4. TileIsOfFile /\ InfoIsOfTile
  BY <1>1 DEF LayoutInit, TileIsOfFile, InfoIsOfTile
<1>5. AnswerIsOfTile
  BY TablesAre DEF LayoutInit, AnswerIsOfTile, NoCall
<1>6. AnswerIsOfInfo
  BY DEF LayoutInit, AnswerIsOfInfo, NoCall, Null
<1> QED
  BY <1>3, <1>4, <1>5, <1>6 DEF LayoutInv

LEMMA LoadKeeps == LayoutInv /\ LoadTile => LayoutInv'
<1> SUFFICES ASSUME LayoutInv, LoadTile PROVE LayoutInv'
  OBVIOUS
<1> USE DEF LayoutInv
<1>1. /\ tile' = Load(content', size') /\ content' \in Contents /\ size' \in Int
      /\ UNCHANGED <<content, size, freed, info, decoded, ret>>
  BY DEF LoadTile, LayoutTypeOK
<1>2. info = NoInfo /\ ret = NoCall
  BY DEF LoadTile, InfoIsOfTile, AnswerIsOfTile
<1>3. /\ tile'.at \in [Tables -> Nat]
      /\ tile'.edgeinfo \in Nat /\ tile'.textlist \in Nat
      /\ tile'.textlist_size \in 0 .. SizeRange - 1 /\ tile' # NotLoaded
  BY <1>1, LoadTypes
<1>4. LayoutTypeOK'
  BY <1>1, <1>2, <1>3 DEF LayoutTypeOK
<1>5. TileIsOfFile'
  BY <1>1 DEF TileIsOfFile
<1>6. InfoIsOfTile'
  BY <1>1, <1>2 DEF InfoIsOfTile
<1>7. AnswerIsOfTile'
  BY <1>1, <1>2, TablesAre DEF AnswerIsOfTile, NoCall
<1>8. AnswerIsOfInfo'
  BY <1>1, <1>2 DEF AnswerIsOfInfo, NoCall, Null
<1> QED
  BY <1>4, <1>5, <1>6, <1>7, <1>8

\* What an answer about the tile rests on does not change with the others.
LEMMA TileKeeps ==
  ASSUME LayoutInv, UNCHANGED <<content, size, tile>>
  PROVE  /\ TileIsOfFile' /\ content' \in Contents /\ size' \in Int
         /\ tile' # NotLoaded =>
              /\ tile'.at \in [Tables -> Nat]
              /\ tile'.edgeinfo \in Nat /\ tile'.textlist \in Nat
              /\ tile'.textlist_size \in 0 .. SizeRange - 1
  BY DEF LayoutInv, LayoutTypeOK, TileIsOfFile

LEMMA InfoKeeps ==
  ASSUME LayoutInv, UNCHANGED <<content, size, tile, info, decoded>>
  PROVE  /\ InfoIsOfTile'
         /\ info' # NoInfo =>
              /\ info'.of \in DOMAIN content'.infos
              /\ info'.name_count \in 0 .. NameCounts - 1
              /\ info'.encoded_shape_size \in 0 .. ShapeSizes - 1
              /\ info'.encoded_shape \in Nat
         /\ decoded' \in BOOLEAN
<1>1. \A k : EdgeInfo(k)' = EdgeInfo(k)
  BY DEF EdgeInfo
<1>2. \A i : Decoded(i)' = Decoded(i)
  BY DEF Decoded, Bytes
<1>3. InfoIsOfTile'
  BY <1>1, <1>2 DEF LayoutInv, InfoIsOfTile
<1> QED
  BY <1>3 DEF LayoutInv, LayoutTypeOK

AnswerKinds == {"throw", "null", "undefined", "at", "range", "shape", "names"}

\* A call of the tile answers from it, and changes nothing else.
LEMMA AskedTile ==
  ASSUME LayoutInv, InMemory, NEW call, NEW arg, NEW answer,
         Answer(call, arg, answer),
         UNCHANGED <<content, size, tile, freed, info, decoded>>,
         answer.kind \in AnswerKinds \ {"shape", "names"},
         call \notin {"shape", "encoded_shape", "names"},
         call \in Tables => arg \in Nat /\ answer = Record(call, arg),
         call = "edges" => arg \in Nat /\ answer = GetDirectedEdges(arg),
         call = "name" => arg \in Nat /\ answer = GetName(arg)
  PROVE  LayoutInv'
<1>1. ret' = [call |-> call, arg |-> arg, answer |-> answer]
  BY DEF Answer
<1>2. ret'.call = call /\ ret'.arg = arg /\ ret'.answer = answer
  BY <1>1
<1>3. LayoutTypeOK'
  BY <1>2, TileKeeps, InfoKeeps DEF LayoutInv, LayoutTypeOK, AnswerKinds
<1>4. TileIsOfFile' /\ InfoIsOfTile'
  BY TileKeeps, InfoKeeps
<1>5. AnswerIsOfTile'
  <2>1. \A t, n : Record(t, n)' = Record(t, n)
    BY DEF Record, Indexed, Transit, Row, count
  <2>2. \A n : GetDirectedEdges(n)' = GetDirectedEdges(n) /\ GetName(n)' = GetName(n)
    BY DEF GetDirectedEdges, Indexed, GetName, Row, count
  <2>3. tile' # NotLoaded
    BY DEF InMemory
  <2> QED
    BY <1>2, <2>1, <2>2, <2>3 DEF AnswerIsOfTile
<1>6. AnswerIsOfInfo'
  BY <1>2 DEF AnswerIsOfInfo, AnswerKinds
<1> QED
  BY <1>3, <1>4, <1>5, <1>6 DEF LayoutInv

LEMMA RecordKinds ==
  \A t, n : Record(t, n).kind \in {"at", "throw", "null"}
<1>1. At(0).kind = "at" /\ Throw.kind = "throw" /\ Null.kind = "null" /\ \A p : At(p).kind = "at"
  BY DEF At, Throw, Null
<1> HIDE DEF Throw, Null
<1> QED
  BY <1>1 DEF Record, Indexed, Transit

LEMMA AskRecordKeeps == LayoutInv /\ AskRecord => LayoutInv'
<1> SUFFICES ASSUME LayoutInv, AskRecord PROVE LayoutInv'
  OBVIOUS
<1>1. PICK t \in Tables, idx \in 0 .. MaxIndex :
        /\ InMemory /\ Answer(t, idx, Record(t, idx))
        /\ UNCHANGED <<content, size, tile, freed, info, decoded>>
  BY DEF AskRecord
<1>2. t \notin {"shape", "encoded_shape", "names", "edges", "name"} /\ idx \in Nat
  BY TablesAre
<1>3. Record(t, idx).kind \in AnswerKinds \ {"shape", "names"}
  BY RecordKinds DEF AnswerKinds
<1> QED
  BY <1>1, <1>2, <1>3, AskedTile

LEMMA AskEdgesKeeps == LayoutInv /\ AskEdges => LayoutInv'
<1> SUFFICES ASSUME LayoutInv, AskEdges PROVE LayoutInv'
  OBVIOUS
<1>1. PICK n \in 0 .. MaxIndex :
        /\ InMemory /\ Answer("edges", n, GetDirectedEdges(n))
        /\ UNCHANGED <<content, size, tile, freed, info, decoded>>
  BY DEF AskEdges
<1>2. "edges" \notin Tables \cup {"shape", "encoded_shape", "names", "name"} /\ n \in Nat
  BY TablesAre
<1>3. GetDirectedEdges(n).kind \in AnswerKinds \ {"shape", "names"}
  BY DEF GetDirectedEdges, Indexed, At, Throw, AnswerKinds
<1> QED
  BY <1>1, <1>2, <1>3, AskedTile

LEMMA AskCellKeeps == LayoutInv /\ AskCell => LayoutInv'
<1> SUFFICES ASSUME LayoutInv, AskCell PROVE LayoutInv'
  OBVIOUS
<1>1. PICK column \in 0 .. kGridDim, row \in 0 .. kGridDim :
        /\ InMemory /\ Answer("cell", <<column, row>>, GetCell(column, row))
        /\ UNCHANGED <<content, size, tile, freed, info, decoded>>
  BY DEF AskCell
<1>2. "cell" \notin Tables \cup {"shape", "encoded_shape", "names", "name", "edges"}
  BY TablesAre
<1>3. GetCell(column, row).kind \in AnswerKinds \ {"shape", "names"}
  BY DEF GetCell, Throw, AnswerKinds
<1> QED
  BY <1>1, <1>2, <1>3, AskedTile

LEMMA AskNameKeeps == LayoutInv /\ AskName => LayoutInv'
<1> SUFFICES ASSUME LayoutInv, AskName PROVE LayoutInv'
  OBVIOUS
<1>1. PICK offset \in 0 .. MaxIndex :
        /\ InMemory /\ Answer("name", offset, GetName(offset))
        /\ UNCHANGED <<content, size, tile, freed, info, decoded>>
  BY DEF AskName
<1>2. "name" \notin Tables \cup {"shape", "encoded_shape", "names", "edges"} /\ offset \in Nat
  BY TablesAre
<1>3. GetName(offset).kind \in AnswerKinds \ {"shape", "names"}
  BY DEF GetName, At, Throw, AnswerKinds
<1> QED
  BY <1>1, <1>2, <1>3, AskedTile

\* What the last answer says stays true of a tile that stays what it is.
LEMMA AnswerKeeps ==
  ASSUME LayoutInv, UNCHANGED <<content, size, tile, info, decoded, ret>>
  PROVE  AnswerIsOfTile' /\ AnswerIsOfInfo'
<1>1. \A t, n : Record(t, n)' = Record(t, n)
  BY DEF Record, Indexed, Transit, Row, count
<1>2. \A n : GetDirectedEdges(n)' = GetDirectedEdges(n) /\ GetName(n)' = GetName(n)
  BY DEF GetDirectedEdges, Indexed, GetName, Row, count
<1>3. \A k : EdgeInfo(k)' = EdgeInfo(k)
  BY DEF EdgeInfo
<1>4. \A i : Bytes(i)' = Bytes(i) /\ InfoNames(i)' = InfoNames(i)
  BY DEF Bytes, InfoNames
<1>5. AnswerIsOfTile'
  BY <1>1, <1>2 DEF LayoutInv, AnswerIsOfTile
<1>6. AnswerIsOfInfo'
  BY <1>3, <1>4 DEF LayoutInv, AnswerIsOfInfo
<1> QED
  BY <1>5, <1>6

LEMMA FreeKeeps == LayoutInv /\ Free => LayoutInv'
<1> SUFFICES ASSUME LayoutInv, Free PROVE LayoutInv'
  OBVIOUS
<1>1. freed' = TRUE /\ UNCHANGED <<content, size, tile, info, decoded, ret>>
  BY DEF Free
<1>2. LayoutTypeOK'
  BY <1>1, TileKeeps, InfoKeeps DEF LayoutInv, LayoutTypeOK
<1> QED
  BY <1>1, <1>2, TileKeeps, InfoKeeps, AnswerKeeps DEF LayoutInv

LEMMA LayoutStutter == LayoutInv /\ UNCHANGED layout_vars => LayoutInv'
<1> SUFFICES ASSUME LayoutInv, UNCHANGED layout_vars PROVE LayoutInv'
  OBVIOUS
<1>1. UNCHANGED <<content, size, tile, freed, info, decoded, ret>>
  BY DEF layout_vars
<1>2. LayoutTypeOK'
  BY <1>1, TileKeeps, InfoKeeps DEF LayoutInv, LayoutTypeOK
<1> QED
  BY <1>1, <1>2, TileKeeps, InfoKeeps, AnswerKeeps DEF LayoutInv

LEMMA GetEdgeInfoKeeps == LayoutInv /\ GetEdgeInfo => LayoutInv'
<1> SUFFICES ASSUME LayoutInv, GetEdgeInfo PROVE LayoutInv'
  OBVIOUS
<1>1. PICK k \in DOMAIN content.infos :
        /\ InMemory /\ info' = EdgeInfo(k) /\ decoded' = FALSE
        /\ Answer("edgeinfo", k, Null)
        /\ UNCHANGED <<content, size, tile, freed>>
  BY DEF GetEdgeInfo
<1>2. /\ content \in Contents /\ size \in Int
      /\ tile = Load(content, size) /\ tile # NotLoaded
  BY <1>1 DEF LayoutInv, LayoutTypeOK, TileIsOfFile, InMemory
<1>3. /\ info'.of = k
      /\ info'.name_count \in 0 .. NameCounts - 1
      /\ info'.encoded_shape_size \in 0 .. ShapeSizes - 1
      /\ info'.encoded_shape \in Nat
  BY <1>1, <1>2, EdgeInfoTypes
<1>4. ret'.call = "edgeinfo" /\ ret'.answer.kind = "null"
  BY <1>1 DEF Answer, Null
<1>5. EdgeInfo(k)' = EdgeInfo(k)
  BY <1>1 DEF EdgeInfo
<1>6. LayoutTypeOK'
  BY <1>1, <1>3, <1>4, TileKeeps DEF LayoutInv, LayoutTypeOK
<1>7. InfoIsOfTile'
  BY <1>1, <1>2, <1>3, <1>5 DEF InfoIsOfTile
<1>8. AnswerIsOfTile'
  BY <1>1, <1>2, <1>4, TablesAre DEF AnswerIsOfTile
<1>9. AnswerIsOfInfo'
  BY <1>4 DEF AnswerIsOfInfo
<1> QED
  BY <1>1, <1>6, <1>7, <1>8, <1>9, TileKeeps DEF LayoutInv

\* An edge info before and after its shape is decoded.
LEMMA InfoIs ==
  ASSUME LayoutInv, info # NoInfo
  PROVE  /\ content \in Contents /\ size \in Int
         /\ tile = Load(content, size) /\ tile # NotLoaded
         /\ info.of \in DOMAIN content.infos
         /\ info.name_count = EdgeInfo(info.of).name_count
         /\ info.encoded_shape_size = EdgeInfo(info.of).encoded_shape_size
         /\ info = IF decoded THEN Decoded(EdgeInfo(info.of)) ELSE EdgeInfo(info.of)
         /\ decoded => info.encoded_shape = 0 /\ info.shape = Bytes(EdgeInfo(info.of))
         /\ ~decoded => info.encoded_shape # 0 /\ info = EdgeInfo(info.of)
<1>1. /\ content \in Contents /\ size \in Int
      /\ tile = Load(content, size) /\ tile # NotLoaded
      /\ info.of \in DOMAIN content.infos
      /\ info = IF decoded THEN Decoded(EdgeInfo(info.of)) ELSE EdgeInfo(info.of)
  BY DEF LayoutInv, LayoutTypeOK, TileIsOfFile, InfoIsOfTile
<1>2. \A k : LET d == Decoded(EdgeInfo(k))
             IN  /\ d.name_count = EdgeInfo(k).name_count
                 /\ d.encoded_shape_size = EdgeInfo(k).encoded_shape_size
                 /\ d.encoded_shape = 0 /\ d.shape = Bytes(EdgeInfo(k))
                 /\ d.of = k
  BY DEF Decoded, EdgeInfo
<1>3. EdgeInfo(info.of).encoded_shape # 0
  BY <1>1, EdgeInfoTypes
<1> QED
  BY <1>1, <1>2, <1>3

\* A call of the edge info leaves it the one written there.
LEMMA AskedInfo ==
  ASSUME LayoutInv, info # NoInfo, UNCHANGED <<content, size, tile, freed>>,
         decoded' \in BOOLEAN,
         info' = IF decoded' THEN Decoded(EdgeInfo(info.of)) ELSE EdgeInfo(info.of),
         ret'.call \in {"shape", "encoded_shape", "names"},
         ret'.answer.kind \in AnswerKinds, AnswerIsOfInfo'
  PROVE  LayoutInv'
<1> DEFINE k == info.of
<1>1. /\ content \in Contents /\ size \in Int
      /\ tile = Load(content, size) /\ tile # NotLoaded /\ k \in DOMAIN content.infos
  BY InfoIs
<1>2. /\ EdgeInfo(k).of = k /\ EdgeInfo(k).name_count \in 0 .. NameCounts - 1
      /\ EdgeInfo(k).encoded_shape_size \in 0 .. ShapeSizes - 1
      /\ EdgeInfo(k).encoded_shape \in Nat
  BY <1>1, EdgeInfoTypes
<1>3. LET d == Decoded(EdgeInfo(k))
      IN  /\ d.of = EdgeInfo(k).of /\ d.name_count = EdgeInfo(k).name_count
          /\ d.encoded_shape_size = EdgeInfo(k).encoded_shape_size /\ d.encoded_shape = 0
  BY DEF Decoded, EdgeInfo
<1>4. /\ info'.of = k /\ info'.name_count \in 0 .. NameCounts - 1
      /\ info'.encoded_shape_size \in 0 .. ShapeSizes - 1
      /\ info'.encoded_shape \in Nat
  BY <1>2, <1>3
<1>5. InfoIsOfTile'
  <2>1. info'.of = k /\ tile' # NotLoaded /\ k \in DOMAIN content'.infos
    BY <1>1, <1>4
  <2>2. EdgeInfo(info.of)' = EdgeInfo(k) /\ Decoded(EdgeInfo(info.of))' = Decoded(EdgeInfo(k))
    BY <1>4 DEF EdgeInfo, Decoded, Bytes
  <2> QED
    BY <2>1, <2>2 DEF InfoIsOfTile
<1>6. LayoutTypeOK'
  <2>1. freed' \in BOOLEAN
    BY DEF LayoutInv, LayoutTypeOK
  <2> QED
    BY <1>1, <1>4, <2>1, TileKeeps DEF LayoutTypeOK, AnswerKinds
<1>7. AnswerIsOfTile'
  BY <1>1, TablesAre DEF AnswerIsOfTile
<1> QED
  BY <1>5, <1>6, <1>7, TileKeeps DEF LayoutInv

LEMMA NamesOfInfo ==
  ASSUME LayoutInv, info # NoInfo
  PROVE  /\ InfoNames(info) \in Seq(Nat) /\ Len(InfoNames(info)) = info.name_count
         /\ \A j \in 1 .. info.name_count : InfoNames(info)[j] = content.infos[info.of].names[j]
         /\ \A j \in 1 .. info.name_count : InfoNames(info)[j] \in Nat
         /\ info.name_count \in Nat
<1> DEFINE names == content.infos[info.of].names
           n == info.name_count
<1>1. names \in Seq(Nat) /\ Len(names) \in Nat /\ n = Len(names) % NameCounts
  BY InfoIs, EdgeInfoTypes
<1>2. n \in Nat /\ n <= Len(names)
  BY <1>1, LayoutTypes, Remainder
<1> HIDE DEF n, names
<1>3. ASSUME NEW j \in 1 .. n PROVE names[j] \in Nat
  <2>1. j \in 1 .. Len(names)
    BY <1>1, <1>2
  <2> QED
    BY <1>1, <2>1, ElementOfSeq
<1>4. /\ SubSeq(names, 1, n) \in Seq(Nat)
      /\ Len(SubSeq(names, 1, n)) = IF 1 <= n THEN n - 1 + 1 ELSE 0
      /\ \A j \in 1 .. n - 1 + 1 : SubSeq(names, 1, n)[j] = names[1 + j - 1]
  BY <1>2, <1>3, SubSeqProperties
<1>5. InfoNames(info) = SubSeq(names, 1, n)
  BY DEF InfoNames, names, n
<1>6. Len(InfoNames(info)) = n
  BY <1>2, <1>4, <1>5
<1>7. ASSUME NEW j \in 1 .. n
      PROVE  InfoNames(info)[j] = names[j] /\ names[j] \in Nat
  <2>1. j \in 1 .. n - 1 + 1 /\ 1 + j - 1 = j
    BY <1>2
  <2> QED
    BY <1>3, <1>4, <1>5, <2>1
<1> QED
  BY <1>2, <1>4, <1>5, <1>6, <1>7 DEF names, n

LEMMA AskInfoKeeps == LayoutInv /\ AskInfo => LayoutInv'
<1> SUFFICES ASSUME LayoutInv, AskInfo PROVE LayoutInv'
  OBVIOUS
<1> DEFINE k == info.of
           shape == [kind |-> "shape", bytes |-> Bytes(EdgeInfo(k))]
<1>1. /\ info # NoInfo /\ UNCHANGED <<content, size, tile, freed>>
      /\ decoded \in BOOLEAN /\ freed \in BOOLEAN
  BY DEF AskInfo, LayoutInv, LayoutTypeOK
<1>2. Bytes(EdgeInfo(k))' = IF info'.of = k THEN Bytes(EdgeInfo(k)) ELSE Bytes(EdgeInfo(k))'
  BY <1>1 DEF Bytes, EdgeInfo
<1>3. EdgeInfo(k).of = k /\ Decoded(EdgeInfo(k)).of = EdgeInfo(k).of
  BY DEF EdgeInfo, Decoded
<1>4. Undefined.kind = "undefined" /\ Throw.kind = "throw" /\ shape.kind = "shape"
  BY DEF Undefined, Throw
<1>5. CASE Shape /\ decoded' = (decoded \/ ~freed)
  <2>1. ret'.call = "shape" /\ ret'.answer \in {Undefined, shape} /\ (decoded' => ret'.answer = shape)
    BY <1>1, <1>5, InfoIs DEF Shape, Answer
  <2>2. info' = IF decoded' THEN Decoded(EdgeInfo(k)) ELSE EdgeInfo(k)
    BY <1>1, <1>5, InfoIs DEF Shape, Decoded
  <2>3. info'.of = k /\ ret'.answer.kind \in {"undefined", "shape"}
    BY <1>3, <1>4, <2>1, <2>2
  <2>4. shape # Undefined
    BY <1>4
  <2>5. AnswerIsOfInfo'
    BY <1>2, <2>1, <2>3, <2>4 DEF AnswerIsOfInfo
  <2> QED
    BY <1>1, <1>5, <2>1, <2>2, <2>3, <2>5, AskedInfo DEF AnswerKinds
<1>6. CASE EncodedShape /\ UNCHANGED decoded
  <2>1. /\ ret'.call = "encoded_shape" /\ ret'.answer \in {Undefined, shape}
        /\ decoded' => ret'.answer = shape
    BY <1>1, <1>6, InfoIs DEF EncodedShape, Answer
  <2>2. info' = IF decoded' THEN Decoded(EdgeInfo(k)) ELSE EdgeInfo(k)
    BY <1>1, <1>6, InfoIs DEF EncodedShape
  <2>3. info'.of = k /\ ret'.answer.kind \in {"undefined", "shape"}
    BY <1>3, <1>4, <2>1, <2>2
  <2>4. shape # Undefined
    BY <1>4
  <2>5. AnswerIsOfInfo'
    BY <1>2, <2>1, <2>3, <2>4 DEF AnswerIsOfInfo
  <2> QED
    BY <1>1, <1>6, <2>1, <2>2, <2>3, <2>5, AskedInfo DEF AnswerKinds
<1>7. CASE GetNames /\ UNCHANGED decoded
  <2>1. UNCHANGED info
    BY <1>7 DEF GetNames
  <2>2. /\ ret'.call = "names"
        /\ \/ ret'.answer \in {Undefined, Throw}
           \/ /\ ret'.answer = [kind |-> "names", offsets |-> InfoNames(info)]
              /\ ~ \E j \in 1 .. info.name_count : InfoNames(info)[j] >= tile.textlist_size
    BY <1>7 DEF GetNames, Answer
  <2>3. ret'.answer.kind \in {"undefined", "throw", "names"}
    BY <1>4, <2>2
  <2>4. info' = IF decoded' THEN Decoded(EdgeInfo(k)) ELSE EdgeInfo(k)
    BY <1>1, <1>7, <2>1, InfoIs
  <2>5. ASSUME NEW j \in DOMAIN InfoNames(info),
               ~ \E i \in 1 .. info.name_count : InfoNames(info)[i] >= tile.textlist_size
        PROVE  InfoNames(info)[j] \in 0 .. tile.textlist_size - 1
    <3>1. j \in 1 .. info.name_count /\ InfoNames(info)[j] \in Nat
      BY <1>1, NamesOfInfo, LenProperties
    <3>2. tile.textlist_size \in Nat
      BY <1>1, InfoIs, LayoutTypes DEF LayoutInv, LayoutTypeOK
    <3> QED
      BY <2>5, <3>1, <3>2
  <2>6. InfoNames(info)' = InfoNames(info)
    BY <1>1, <2>1 DEF InfoNames
  <2>7. AnswerIsOfInfo'
    BY <1>1, <2>1, <2>2, <2>3, <2>5, <2>6 DEF AnswerIsOfInfo
  <2> QED
    BY <1>1, <1>7, <2>2, <2>3, <2>4, <2>7, AskedInfo DEF AnswerKinds
<1> QED
  BY <1>5, <1>6, <1>7 DEF AskInfo

LEMMA LayoutStep == LayoutInv /\ [LayoutNext]_layout_vars => LayoutInv'
  BY LoadKeeps, AskRecordKeeps, AskEdgesKeeps, AskCellKeeps, AskNameKeeps,
     GetEdgeInfoKeeps, AskInfoKeeps, FreeKeeps, LayoutStutter DEF LayoutNext

LEMMA LayoutInvHolds == LayoutSpec => []LayoutInv
  BY LayoutInitInv, LayoutStep, PTL DEF LayoutSpec
-----------------------------------------------------------------------------
(* What the invariant says of the answers.                                 *)

LEMMA FileInMemory ==
  ASSUME LayoutInv, tile # NotLoaded
  PROVE  /\ content \in Contents /\ size \in Int
         /\ tile.header = Header(content)
         /\ \A t \in Tables :
              /\ tile.at[t] = TableAt(Header(content).count)[Place(t)] /\ tile.at[t] \in Nat
              /\ count(t) = Header(content).count[t] /\ count(t) \in Nat
              /\ count(t) <= content.count[t] /\ content.count[t] \in Nat
              /\ RecordSize[t] \in Nat \ {0}
<1>1. content \in Contents /\ size \in Int /\ tile = Load(content, size)
  BY DEF LayoutInv, LayoutTypeOK, TileIsOfFile
<1>2. ASSUME NEW t \in Tables
      PROVE  /\ Header(content).count[t] \in Nat /\ content.count[t] \in Nat
             /\ Header(content).count[t] <= content.count[t]
             /\ RecordSize[t] \in Nat \ {0}
  BY <1>1, CountTypes, LayoutTypes
<1> QED
  BY <1>1, <1>2, LoadTypes DEF count

\* A record inside a table lies before the next table.
LEMMA RecordInTable ==
  ASSUME NEW a \in Nat, NEW n \in Nat, NEW r \in Nat, NEW idx \in Nat, idx < n
  PROVE  (a + idx * r) + r <= a + n * r
<1>1. (idx + 1) * r <= n * r
  OBVIOUS
<1>2. (idx + 1) * r = idx * r + r
  OBVIOUS
<1>3. idx * r \in Nat /\ n * r \in Nat
  OBVIOUS
<1> QED
  BY <1>1, <1>2, <1>3

LEMMA AnswersAreRecords == LayoutInv => RecordIsItsOwn
<1> SUFFICES ASSUME LayoutInv, ret.call \in Tables, ret.answer.kind = "at",
                    FitsBefore(Place(ret.call)),
                    ret.call = "route" => ret.arg < content.count["route"]
             PROVE  /\ ret.arg < content.count[ret.call]
                    /\ ret.answer.at = TableAt(content.count)[Place(ret.call)]
                                         + ret.arg * RecordSize[ret.call]
                    /\ ret.answer.at + RecordSize[ret.call]
                         <= TableAt(content.count)[Place(ret.call) + 1]
  BY DEF RecordIsItsOwn
<1> DEFINE t == ret.call
           idx == ret.arg
<1>1. tile # NotLoaded /\ idx \in Nat /\ ret.answer = Record(t, idx)
  BY TablesAre DEF LayoutInv, AnswerIsOfTile, NoCall
<1>2. ret.answer = At(Row(t, idx)) /\ (t # "route" => idx < count(t))
  BY <1>1 DEF Record, Indexed, Transit, Throw, Null
<1>3. idx < content.count[t]
  <2>1. t # "route" => idx < count(t) /\ count(t) <= content.count[t] /\ count(t) \in Nat
                       /\ content.count[t] \in Nat
    BY <1>1, <1>2, FileInMemory
  <2> QED
    BY <1>1, <2>1
<1>4. Place(t) \in 1 .. 10 /\ Order[Place(t)] = t
  BY PlacesAre
<1>5. tile.at[t] = TableAt(content.count)[Place(t)]
  <2>1. Place(t) \in 1 .. 11
    BY <1>4
  <2> QED
    BY <1>1, <2>1, FileInMemory, PlacesKept
<1>6. /\ TableAt(content.count)[Place(t)] \in Nat
      /\ TableAt(content.count)[Place(t) + 1] =
           TableAt(content.count)[Place(t)] + content.count[t] * RecordSize[t]
  BY <1>1, <1>4, FileInMemory, CountTypes, TableEnds
<1>7. content.count[t] \in Nat /\ RecordSize[t] \in Nat
  BY <1>1, FileInMemory
<1>8. ret.answer.at = TableAt(content.count)[Place(t)] + idx * RecordSize[t]
  BY <1>2, <1>5 DEF At, Row
<1> HIDE DEF t, idx
<1>9. ret.answer.at + RecordSize[t] <= TableAt(content.count)[Place(t) + 1]
  BY <1>1, <1>3, <1>6, <1>7, <1>8, RecordInTable
<1> QED
  BY <1>3, <1>8, <1>9 DEF t, idx

LEMMA AnswersAreEdges == LayoutInv => NodesReachTheirEdges
<1> SUFFICES ASSUME LayoutInv, ret.call = "edges", FitsBefore(3)
             PROVE  IF ret.answer = Throw
                      THEN ret.arg < content.count["node"] =>
                             content.edges[ret.arg + 1].edge_count = 0
                      ELSE /\ ret.arg < content.count["node"]
                           /\ ret.answer.at = TableAt(content.count)[Place("directededge")]
                                + content.edges[ret.arg + 1].edge_index * RecordSize["directededge"]
  BY DEF NodesReachTheirEdges
<1> DEFINE n == ret.arg
           first == content.edges[n + 1].edge_index
           edges == content.edges[n + 1].edge_count
<1>1. tile # NotLoaded /\ n \in Nat /\ ret.answer = GetDirectedEdges(n)
  BY DEF LayoutInv, AnswerIsOfTile, NoCall
<1>2. /\ content \in Contents /\ {"node", "directededge"} \subseteq Tables
      /\ Place("node") = 1 /\ Place("directededge") = 2
  BY <1>1, FileInMemory, TablesAre, PlacesAre
<1>3. /\ count("node") = content.count["node"]
      /\ count("directededge") = content.count["directededge"]
  <2>1. /\ content.count[Order[1]] < CountRange[Order[1]]
        /\ content.count[Order[2]] < CountRange[Order[2]]
    BY DEF FitsBefore
  <2> QED
    BY <1>1, <1>2, <2>1, FileInMemory, CountTypes, TablesAre
<1>4. tile.at["directededge"] = TableAt(content.count)[2]
  <2>1. FitsBefore(2) /\ 2 \in 1 .. 11
    BY DEF FitsBefore
  <2> QED
    BY <1>1, <1>2, <2>1, FileInMemory, PlacesKept
<1>5. content.count["node"] \in Nat /\ content.count["directededge"] \in Nat
  BY <1>1, <1>2, FileInMemory
<1>6. n < content.count["node"] => /\ first \in Nat /\ edges \in Nat
                                   /\ first + edges <= content.count["directededge"]
  <2>1. /\ content.edges \in Seq([edge_index : Nat, edge_count : Nat])
        /\ Len(content.edges) = content.count["node"]
        /\ \A m \in DOMAIN content.edges :
             content.edges[m].edge_index + content.edges[m].edge_count
               <= content.count["directededge"]
    BY <1>2, ContentTypes DEF IsContent
  <2>2. ASSUME n < content.count["node"]
        PROVE  n + 1 \in 1 .. Len(content.edges)
    BY <1>1, <1>5, <2>1, <2>2
  <2>3. ASSUME n < content.count["node"]
        PROVE  /\ content.edges[n + 1] \in [edge_index : Nat, edge_count : Nat]
               /\ n + 1 \in DOMAIN content.edges
    BY <2>1, <2>2, <2>3, ElementOfSeq, LenProperties
  <2> QED
    BY <2>1, <2>3
<1>7. /\ Indexed("node", n) = Throw <=> ~ (n < content.count["node"])
      /\ Indexed("directededge", first) = Throw <=> ~ (first < content.count["directededge"])
  BY <1>3 DEF Indexed, At, Throw
<1>8. first < content.count["directededge"] =>
        Indexed("directededge", first).at =
          TableAt(content.count)[2] + first * RecordSize["directededge"]
  BY <1>3, <1>4 DEF Indexed, At, Row
<1> HIDE DEF n, first, edges, Throw
<1>9. ret.answer = IF ~ (n < content.count["node"]) THEN Throw
                   ELSE Indexed("directededge", first)
  BY <1>1, <1>7 DEF GetDirectedEdges, first
<1>10. ret.answer = Throw =>
         (n < content.count["node"] => edges = 0)
  BY <1>5, <1>6, <1>7, <1>9
<1>11. ret.answer # Throw =>
         /\ n < content.count["node"]
         /\ ret.answer.at = TableAt(content.count)[2] + first * RecordSize["directededge"]
  BY <1>7, <1>8, <1>9
<1> QED
  BY <1>2, <1>10, <1>11 DEF n, first, edges

\* The text list of a file that has some of it ends where the file does.
LEMMA TextEnds ==
  ASSUME LayoutInv, tile # NotLoaded, size >= TextAt(content)
  PROVE  /\ tile.textlist = TextAt(content) /\ TextAt(content) \in Nat /\ size \in Int
         /\ tile.textlist_size \in Nat
         /\ TextAt(content) + tile.textlist_size <= size
<1>1. content \in Contents /\ size \in Int /\ tile = Load(content, size)
  BY DEF LayoutInv, LayoutTypeOK, TileIsOfFile
<1>2. /\ tile.textlist = TextAt(content) /\ TextAt(content) \in Nat
      /\ tile.textlist_size = (size - TextAt(content)) % SizeRange
  BY <1>1, LoadTypes
<1>3. size - TextAt(content) \in Nat /\ SizeRange \in Nat \ {0}
  BY <1>1, <1>2, LayoutTypes
<1>4. tile.textlist_size \in Nat /\ tile.textlist_size <= size - TextAt(content)
  BY <1>2, <1>3, Remainder
<1> HIDE DEF LayoutInv
<1> QED
  BY <1>1, <1>2, <1>4

LEMMA AnswersAreNames == LayoutInv => NamesStartInText
<1> SUFFICES ASSUME LayoutInv, size >= TextAt(content) PROVE NamesStartInText
  BY DEF NamesStartInText
<1>1. ASSUME ret.call = "name", ret.answer.kind = "at"
      PROVE  ret.answer.at \in TextAt(content) .. size - 1
  <2>1. tile # NotLoaded /\ ret.arg \in Nat /\ ret.answer = GetName(ret.arg)
    BY <1>1 DEF LayoutInv, AnswerIsOfTile, NoCall
  <2>2. ret.arg < tile.textlist_size /\ ret.answer.at = tile.textlist + ret.arg
    BY <1>1, <2>1 DEF GetName, At, Throw
  <2> QED
    BY <2>1, <2>2, TextEnds
<1>2. ASSUME ret.call = "names", ret.answer.kind = "names", NEW j \in DOMAIN ret.answer.offsets
      PROVE  TextAt(content) + ret.answer.offsets[j] < size
  <2>1. /\ ret.answer.offsets = InfoNames(info)
        /\ \A i \in DOMAIN InfoNames(info) : InfoNames(info)[i] \in 0 .. tile.textlist_size - 1
    BY <1>2 DEF LayoutInv, AnswerIsOfInfo, Undefined, Throw
  <2>2. tile # NotLoaded
    BY <1>2 DEF LayoutInv, AnswerIsOfTile, NoCall
  <2>3. InfoNames(info)[j] \in 0 .. tile.textlist_size - 1
    BY <1>2, <2>1
  <2> QED
    BY <2>1, <2>2, <2>3, TextEnds
<1> QED
  BY <1>1, <1>2 DEF NamesStartInText

LEMMA AnswersAreOfInfo == LayoutInv => EdgeInfoIsItsOwn
<1> DEFINE w == content.infos[info.of]
           at == NamesAt(InfoAt(content)[info.of]) + 4 * Len(w.names)
<1> SUFFICES ASSUME LayoutInv, info # NoInfo,
                    Len(w.names) < NameCounts, w.shape < ShapeSizes
             PROVE  /\ ret.answer.kind = "shape" => ret.answer.bytes = <<at, at + w.shape>>
                    /\ ret.answer.kind = "names" => ret.answer.offsets = w.names
  BY DEF EdgeInfoIsItsOwn
<1>1. /\ content \in Contents /\ size \in Int /\ tile = Load(content, size)
      /\ info.of \in DOMAIN content.infos
      /\ info.name_count = EdgeInfo(info.of).name_count
  BY InfoIs
<1>2. /\ w.names \in Seq(Nat) /\ w.shape \in Nat /\ Len(w.names) \in Nat
      /\ info.name_count = Len(w.names) % NameCounts
      /\ EdgeInfo(info.of).name_count = Len(w.names) % NameCounts
      /\ EdgeInfo(info.of).encoded_shape_size = w.shape % ShapeSizes
      /\ EdgeInfo(info.of).encoded_shape =
           NamesAt(InfoAt(content)[info.of]) + 4 * EdgeInfo(info.of).name_count
  BY <1>1, EdgeInfoTypes
<1>3. Len(w.names) % NameCounts = Len(w.names) /\ w.shape % ShapeSizes = w.shape
  BY <1>2, LayoutTypes, Remainder
<1>4. Bytes(EdgeInfo(info.of)) = <<at, at + w.shape>>
  BY <1>2, <1>3 DEF Bytes
<1>5. InfoNames(info) = w.names
  BY <1>2, <1>3, SubSeqFull DEF InfoNames
<1>6. ret.answer.kind = "shape" => ret.answer.bytes = Bytes(EdgeInfo(info.of))
  BY DEF LayoutInv, AnswerIsOfInfo, Undefined
<1>7. ret.answer.kind = "names" => ret.answer.offsets = InfoNames(info)
  BY DEF LayoutInv, AnswerIsOfInfo, Undefined, Throw
<1> QED
  BY <1>4, <1>5, <1>6, <1>7

LEMMA DecodedAnswers == LayoutInv => DecodedShapeOutlivesTile
  BY DEF LayoutInv, AnswerIsOfInfo, DecodedShapeOutlivesTile
-----------------------------------------------------------------------------
\* Each place in the list of cells is that of one column and row.
LEMMA OneColumnAndRow ==
  ASSUME NEW d \in Nat \ {0}
  PROVE  /\ \A c, r \in 0 .. d - 1 : r * d + c \in 0 .. d * d - 1
         /\ \A i \in 0 .. d * d - 1 : \E c, r \in 0 .. d - 1 : i = r * d + c
         /\ \A c, r, b, q \in 0 .. d - 1 : r * d + c = q * d + b => c = b /\ r = q
<1>1. ASSUME NEW c \in 0 .. d - 1, NEW r \in 0 .. d - 1
      PROVE  r * d + c \in 0 .. d * d - 1
  <2>1. (r + 1) * d <= d * d /\ (r + 1) * d = r * d + d /\ r * d >= 0
    OBVIOUS
  <2>2. r * d \in Int /\ d * d \in Int
    OBVIOUS
  <2> QED
    BY <2>1, <2>2
<1>2. ASSUME NEW i \in 0 .. d * d - 1
      PROVE  \E c, r \in 0 .. d - 1 : i = r * d + c
  <2> DEFINE c == i % d
             r == i \div d
  <2>1. c \in 0 .. d - 1 /\ r \in Int /\ i = r * d + c
    OBVIOUS
  <2>2. i >= 0 /\ i < d * d /\ d * d \in Int
    OBVIOUS
  <2> HIDE DEF c, r
  <2>3. r * d \in Int /\ (r + 1) * d = r * d + d
    BY <2>1
  <2>4. ~ (r < 0)
    <3>1. r < 0 => (r + 1) * d <= 0
      BY <2>1
    <3> QED
      BY <2>1, <2>2, <2>3, <3>1
  <2>5. ~ (r >= d)
    <3>1. r >= d => r * d >= d * d
      BY <2>1
    <3> QED
      BY <2>1, <2>2, <2>3, <3>1
  <2> QED
    BY <2>1, <2>4, <2>5
<1>3. ASSUME NEW c \in 0 .. d - 1, NEW r \in 0 .. d - 1,
             NEW b \in 0 .. d - 1, NEW q \in 0 .. d - 1, r * d + c = q * d + b
      PROVE  ~ (r < q)
  <2>1. r < q => (r + 1) * d <= q * d
    OBVIOUS
  <2>2. (r + 1) * d = r * d + d /\ r * d \in Int /\ q * d \in Int
    OBVIOUS
  <2> QED
    BY <1>3, <2>1, <2>2
<1>4. ASSUME NEW c \in 0 .. d - 1, NEW r \in 0 .. d - 1,
             NEW b \in 0 .. d - 1, NEW q \in 0 .. d - 1, r * d + c = q * d + b
      PROVE  c = b /\ r = q
  <2>1. ~ (r < q) /\ ~ (q < r)
    BY <1>3, <1>4
  <2>2. r = q
    BY <2>1
  <2>3. r * d \in Int
    OBVIOUS
  <2> QED
    BY <1>4, <2>2, <2>3
<1> QED
  BY <1>1, <1>2, <1>4

\* Rows of a table that begins at a are in the order of their numbers.
LEMMA RowsInOrder ==
  ASSUME NEW a \in Nat, NEW r \in Nat \ {0}, NEW m \in Nat, NEW n \in Nat
  PROVE  a + m * r <= a + n * r <=> m <= n
<1>1. m <= n => m * r <= n * r
  OBVIOUS
<1>2. m > n => m * r > n * r
  OBVIOUS
<1>3. m * r \in Nat /\ n * r \in Nat
  OBVIOUS
<1> QED
  BY <1>1, <1>2, <1>3

\* Where a cell begins in the list of edge ids: at the end of the one before.
CellStart(i) == IF i = 0 THEN 0 ELSE content.cells[i - 1]

LEMMA EdgeInOneCell ==
  ASSUME content \in Contents, NEW e \in 0 .. content.count["edge_cell"] - 1
  PROVE  /\ \E i \in 0 .. kCellCount - 1 : CellStart(i) <= e /\ e < content.cells[i]
         /\ \A i, j \in 0 .. kCellCount - 1 :
              /\ CellStart(i) <= e /\ e < content.cells[i]
              /\ CellStart(j) <= e /\ e < content.cells[j]
              => ~ (i < j)
<1> DEFINE n == kCellCount
           T == {i \in 0 .. n - 1 : e < content.cells[i]}
<1>1. /\ content.cells \in [0 .. n - 1 -> Nat]
      /\ \A i, j \in 0 .. n - 1 : i <= j => content.cells[i] <= content.cells[j]
      /\ content.cells[n - 1] = content.count["edge_cell"]
      /\ content.count["edge_cell"] \in Nat
  BY ContentTypes, TablesAre DEF IsContent
<1>2. n \in Nat \ {0}
  BY LayoutTypes DEF kCellCount
<1> HIDE DEF n
<1>3. PICK i \in T : \A j \in T : i <= j
  <2>1. T \subseteq Nat
    BY <1>2
  <2>2. n - 1 \in T
    BY <1>1, <1>2
  <2> HIDE DEF T
  <2> QED
    BY <2>1, <2>2, LeastNumber
<1>4. i \in 0 .. n - 1 /\ e < content.cells[i] /\ CellStart(i) <= e
  <2>1. i \in 0 .. n - 1 /\ e < content.cells[i]
    BY <1>3
  <2>2. CASE i # 0
    <3>1. i - 1 \in 0 .. n - 1 /\ i - 1 \notin T
      BY <1>2, <1>3, <2>1, <2>2
    <3>2. content.cells[i - 1] \in Nat /\ ~ (e < content.cells[i - 1])
      BY <1>1, <3>1
    <3> QED
      BY <2>1, <2>2, <3>2 DEF CellStart
  <2> QED
    BY <2>1, <2>2 DEF CellStart
<1>5. ASSUME NEW k \in 0 .. n - 1, NEW j \in 0 .. n - 1, e < content.cells[k],
             CellStart(j) <= e, k < j
      PROVE  FALSE
  <2>1. j # 0 /\ j - 1 \in 0 .. n - 1 /\ k <= j - 1
    BY <1>2, <1>5
  <2>2. content.cells[k] <= content.cells[j - 1] /\ content.cells[j - 1] <= e
    BY <1>1, <1>5, <2>1 DEF CellStart
  <2>3. content.cells[k] \in Nat /\ content.cells[j - 1] \in Nat
    BY <1>1, <2>1
  <2> QED
    BY <1>5, <2>2, <2>3
<1> QED
  BY <1>4, <1>5 DEF n

LEMMA CellsAreShared == LayoutInv => CellsShareOutEdges
<1> SUFFICES ASSUME LayoutInv, InMemory, FitsBefore(Len(Order)),
                    NEW e \in 0 .. content.count["edge_cell"] - 1
             PROVE  LET p    == TableAt(content.count)[Place("edge_cell")] + e * RecordSize["edge_cell"]
                        cells == {c \in (0 .. kGridDim - 1) \X (0 .. kGridDim - 1) :
                                   GetCell(c[1], c[2]).from <= p /\ p < GetCell(c[1], c[2]).to}
                    IN  \E c \in cells : cells = {c}
  BY DEF CellsShareOutEdges
<1> DEFINE g == 0 .. kGridDim - 1
           a == TableAt(content.count)[10]
           r == RecordSize["edge_cell"]
           p == a + e * r
           In(i) == CellStart(i) <= e /\ e < content.cells[i]
           at(c) == c[2] * kGridDim + c[1]
           cells == {c \in g \X g : In(at(c))}
<1>1. tile # NotLoaded /\ content \in Contents /\ tile.header = Header(content)
  BY FileInMemory DEF InMemory
<1>2. "edge_cell" \in Tables /\ Place("edge_cell") = 10 /\ Len(Order) = 10
  BY TablesAre, PlacesAre
<1>3. tile.at["edge_cell"] = a /\ a \in Nat /\ r \in Nat \ {0}
  <2>1. FitsBefore(10) /\ 10 \in 1 .. 11
    BY <1>2
  <2> QED
    BY <1>1, <1>2, <2>1, FileInMemory, PlacesKept
<1>4. kGridDim \in Nat \ {0}
  BY LayoutTypes
<1>5. ASSUME NEW i \in 0 .. kCellCount - 1
      PROVE  content.cells[i] \in Nat /\ CellStart(i) \in Nat
  <2>1. content.cells \in [0 .. kCellCount - 1 -> Nat]
    BY <1>1, ContentTypes DEF IsContent
  <2>2. i # 0 => i - 1 \in 0 .. kCellCount - 1
    BY <1>4 DEF kCellCount
  <2> QED
    BY <2>1, <2>2 DEF CellStart
<1>6. \A c \in g \X g : at(c) \in 0 .. kCellCount - 1
  BY <1>4, OneColumnAndRow DEF kCellCount
<1>7. ASSUME NEW c \in g \X g
      PROVE  GetCell(c[1], c[2]).from <= p /\ p < GetCell(c[1], c[2]).to <=> In(at(c))
  <2>1. at(c) \in 0 .. kCellCount - 1 /\ at(c) < kCellCount
    BY <1>6, <1>4 DEF kCellCount
  <2>2. cell_offset(c[1], c[2]) = <<CellStart(at(c)), content.cells[at(c)]>>
    BY <1>1, <2>1 DEF cell_offset, CellStart, Header
  <2>3. GetCell(c[1], c[2]) = [kind |-> "range", from |-> a + CellStart(at(c)) * r,
                                                 to |-> a + content.cells[at(c)] * r]
    BY <1>3, <2>2 DEF GetCell, Row
  <2>4. content.cells[at(c)] \in Nat /\ CellStart(at(c)) \in Nat /\ e \in Nat
    BY <1>5, <2>1
  <2> HIDE DEF at, a, r
  <2>5. a + CellStart(at(c)) * r <= p <=> CellStart(at(c)) <= e
    BY <1>3, <2>4, RowsInOrder
  <2>6. a + content.cells[at(c)] * r <= p <=> content.cells[at(c)] <= e
    BY <1>3, <2>4, RowsInOrder
  <2>7. p \in Int /\ a + content.cells[at(c)] * r \in Int
    BY <1>3, <2>4
  <2> QED
    BY <2>3, <2>4, <2>5, <2>6, <2>7
<1>8. \E c \in cells : cells = {c}
  <2>1. PICK i \in 0 .. kCellCount - 1 : In(i)
    BY <1>1, EdgeInOneCell
  <2>2. PICK c \in g \X g : at(c) = i
    <3>1. PICK col \in g, row \in g : i = row * kGridDim + col
      BY <1>4, OneColumnAndRow DEF kCellCount
    <3>2. <<col, row>> \in g \X g /\ at(<<col, row>>) = i
      BY <3>1
    <3> QED
      BY <3>2
  <2>3. ASSUME NEW d \in cells PROVE d = c
    <3>1. d \in g \X g /\ In(at(d)) /\ at(d) \in 0 .. kCellCount - 1
      BY <1>6
    <3>2. at(d) = i
      <4>1. ~ (at(d) < i) /\ ~ (i < at(d))
        BY <1>1, <2>1, <3>1, EdgeInOneCell
      <4>2. at(d) \in Int /\ i \in Int
        BY <3>1
      <4> HIDE DEF at
      <4> QED
        BY <4>1, <4>2
    <3>3. d[1] = c[1] /\ d[2] = c[2]
      <4>1. /\ d[1] \in g /\ d[2] \in g /\ c[1] \in g /\ c[2] \in g
            /\ d[2] * kGridDim + d[1] = c[2] * kGridDim + c[1]
        BY <2>2, <3>1, <3>2
      <4>2. \A k, l, m, n \in g :
              l * kGridDim + k = n * kGridDim + m => k = m /\ l = n
        BY <1>4, OneColumnAndRow
      <4> HIDE DEF g
      <4> QED
        BY <4>1, <4>2
    <3> QED
      BY <2>2, <3>1, <3>3
  <2>4. c \in cells
    BY <2>1, <2>2
  <2> HIDE DEF cells
  <2> QED
    BY <2>3, <2>4
<1>9. {c \in g \X g : GetCell(c[1], c[2]).from <= p /\ p < GetCell(c[1], c[2]).to} = cells
  BY <1>7
<1> QED
  BY <1>2, <1>8, <1>9
-----------------------------------------------------------------------------
\* The places and sizes the constructor and EdgeInfo take from a file are of
\* their types, whatever was cut off it and whatever count overflowed.
THEOREM LayoutTypesKept == LayoutSpec => []LayoutTypeOK
  BY LayoutInvHolds, PTL DEF LayoutInv

\* node(), directededge(), admin() and the lookups hand out the record the
\* builder wrote there, inside its table, when the counts before it fit; so
\* does GetTransitRoute for the indexes of routes, and for no others.
THEOREM RecordsAreTheBuilders == LayoutSpec => []RecordIsItsOwn
  BY LayoutInvHolds, AnswersAreRecords, PTL

\* GetDirectedEdges hands out the node's own first edge, and throws only for
\* a node that has none or does not exist.
THEOREM EdgesAreTheNodes == LayoutSpec => []NodesReachTheirEdges
  BY LayoutInvHolds, AnswersAreEdges, PTL

\* GetCell puts each entry of the list of edge ids in exactly one cell, for a
\* grid of any size and cells that may be empty.
THEOREM EachEdgeInOneCell == LayoutSpec => []CellsShareOutEdges
  BY LayoutInvHolds, CellsAreShared, PTL

\* GetName and GetNames give no offset past the end of a file that has its
\* text list or the beginning of it.
THEOREM NamesLieInTheFile == LayoutSpec => []NamesStartInText
  BY LayoutInvHolds, AnswersAreNames, PTL

\* shape(), encoded_shape() and GetNames give what was written for this edge.
THEOREM EdgeInfosAreTheBuilders == LayoutSpec => []EdgeInfoIsItsOwn
  BY LayoutInvHolds, AnswersAreOfInfo, PTL

\* A decoded shape is given when the tile is gone.
THEOREM DecodedShapesLast == LayoutSpec => []DecodedShapeOutlivesTile
  BY LayoutInvHolds, DecodedAnswers, PTL
=============================================================================
