------------------------- MODULE ConnectivityProofs --------------------------
(***************************************************************************)
(* Proofs about Connectivity: the answers of AreConnected agree with the   *)
(* files that were there while they were listed, and come from one         *)
(* division of the tiles, for any grids, files and readers.                *)
(***************************************************************************)
EXTENDS Connectivity, TLAPS, FiniteSetTheorems, WellFoundedInduction

\* The iteration over the levels begins with one of them.
LEMMA LowestIsIn ==
  ASSUME NEW T, T \subseteq Nat, T # {}
  PROVE  Lowest(T) \in T
<1> DEFINE R == {ss \in Nat \X Nat : ss[1] < ss[2]}
<1>0. R = OpToRel(<, Nat)
  BY DEF OpToRel
<1>1. IsWellFoundedOn(R, Nat)
  BY <1>0, NatLessThanWellFounded
<1> HIDE DEF R
<1>2. PICK x \in T : \A y \in T : ~ (<<y, x>> \in R)
  BY <1>1, WFMin, Zenon
<1>3. \A y \in T : ~ (y < x)
  BY <1>2 DEF R
<1>4. \A y \in T : x <= y
  BY <1>3
<1> QED
  BY <1>4 DEF Lowest

\* A region of a set of tiles: what can be reached from a tile.
Closed(region, tiles, level) ==
  \A e \in Adjacent[level] : e[1] \in region /\ e[2] \in tiles => e[2] \in region
Region(tiles, level, a) == {b \in tiles : Joined(tiles, level, a, b)}

LEMMA JoinedDef ==
  ASSUME NEW tiles, NEW level, NEW a, NEW b
  PROVE  Joined(tiles, level, a, b) <=>
           /\ a \in tiles /\ b \in tiles
           /\ \A region \in SUBSET tiles :
                a \in region /\ Closed(region, tiles, level) => b \in region
BY DEF Joined, Closed

\* More files only join more tiles.
LEMMA JoinedGrows ==
  ASSUME NEW few, NEW many, few \subseteq many, NEW level, NEW a, NEW b,
         Joined(few, level, a, b)
  PROVE  Joined(many, level, a, b)
<1>1. SUFFICES ASSUME NEW region \in SUBSET many, a \in region, Closed(region, many, level)
               PROVE  b \in region
  BY JoinedDef
<1>2. Closed(region \cap few, few, level)
  BY <1>1 DEF Closed
<1>3. a \in few /\ (\A part \in SUBSET few : a \in part /\ Closed(part, few, level) => b \in part)
  BY JoinedDef
<1>4. b \in region \cap few
  BY <1>1, <1>2, <1>3
<1> QED
  BY <1>4

LEMMA JoinedBack ==
  ASSUME ConnectivityTypes, NEW level \in Levels, NEW tiles, NEW a, NEW b,
         Joined(tiles, level, a, b)
  PROVE  Joined(tiles, level, b, a)
<1>1. SUFFICES ASSUME NEW region \in SUBSET tiles, b \in region, Closed(region, tiles, level),
                      a \notin region
               PROVE  FALSE
  BY JoinedDef
<1> DEFINE rest == tiles \ region
<1>2. Closed(rest, tiles, level)
  <2>1. SUFFICES ASSUME NEW e \in Adjacent[level], e[1] \in rest, e[2] \in tiles, e[2] \in region
                 PROVE  FALSE
    BY DEF Closed
  <2>2. <<e[2], e[1]>> \in Adjacent[level]
    BY DEF ConnectivityTypes
  <2>3. e[1] \in tiles => e[1] \in region
    BY <1>1, <2>1, <2>2 DEF Closed
  <2> QED
    BY <2>1, <2>3
<1>3. a \in rest /\ rest \in SUBSET tiles
  BY <1>1, JoinedDef
<1>4. \A part \in SUBSET tiles : a \in part /\ Closed(part, tiles, level) => b \in part
  BY JoinedDef
<1>5. b \in rest
  BY <1>2, <1>3, <1>4
<1> QED
  BY <1>1, <1>5

LEMMA JoinedOn ==
  ASSUME NEW tiles, NEW level, NEW a, NEW b, NEW c,
         Joined(tiles, level, a, b), Joined(tiles, level, b, c)
  PROVE  Joined(tiles, level, a, c)
<1>1. \A region \in SUBSET tiles : a \in region /\ Closed(region, tiles, level) => b \in region
  BY JoinedDef
<1>2. \A region \in SUBSET tiles : b \in region /\ Closed(region, tiles, level) => c \in region
  BY JoinedDef
<1>3. a \in tiles /\ c \in tiles
  BY JoinedDef
<1> QED
  BY <1>1, <1>2, <1>3, JoinedDef

\* Two tiles are joined exactly if they have one region.
LEMMA OneRegion ==
  ASSUME ConnectivityTypes, NEW level \in Levels, NEW tiles, NEW a \in tiles, NEW b \in tiles
  PROVE  Joined(tiles, level, a, b) <=> Region(tiles, level, a) = Region(tiles, level, b)
<1>1. ASSUME Joined(tiles, level, a, b)
      PROVE  Region(tiles, level, a) = Region(tiles, level, b)
  <2>1. Joined(tiles, level, b, a)
    BY <1>1, JoinedBack
  <2>2. \A c \in tiles : Joined(tiles, level, a, c) => Joined(tiles, level, b, c)
    BY <2>1, JoinedOn
  <2>3. \A c \in tiles : Joined(tiles, level, b, c) => Joined(tiles, level, a, c)
    BY <1>1, JoinedOn
  <2> QED
    BY <2>2, <2>3 DEF Region
<1>2. ASSUME Region(tiles, level, a) = Region(tiles, level, b)
      PROVE  Joined(tiles, level, a, b)
  <2>1. Joined(tiles, level, b, b)
    BY JoinedDef
  <2> QED
    BY <1>2, <2>1 DEF Region
<1> QED
  BY <1>1, <1>2

-----------------------------------------------------------------------------
(***************************************************************************)
(* The inductive invariant.  A level is Finished when its iterator has     *)
(* been left; unless it was cut short, the files that stayed are then      *)
(* listed.  Every file listed was there at some time.  The colours are     *)
(* those of the listed files, and the last answer is theirs.               *)
(***************************************************************************)
Finished(l) == \/ build.phase \in {"color", "done"}
               \/ build.phase = "list" /\ l \notin build.todo

ListedWereSeen == build.phase # "none" => build.listed \subseteq seen

KeptAreListed ==
  build.phase # "none" =>
    \A l \in Levels : Finished(l) /\ l \notin build.cut =>
      OfLevel(kept, l) \subseteq build.listed

ColorsAreOfListed ==
  build.phase = "done" =>
    /\ DOMAIN colors = Levels
    /\ \A l \in Levels : colors[l] \in ColorMap(TilesOf(build.listed, l), l)

AnswerIsOfColors ==
  last # NoAnswer =>
    /\ build.phase = "done"
    /\ last.of \in Questions
    /\ last.connected <=> AreConnected(last.of[1], last.of[2])

IInv == TypeOK /\ ListedWereSeen /\ KeptAreListed /\ ColorsAreOfListed /\ AnswerIsOfColors

LEMMA LowestLevel ==
  ASSUME ConnectivityTypes, PathNumbers, NEW T \in SUBSET Levels, T # {}
  PROVE  Lowest(T) \in T
<1>1. T \subseteq Nat
  BY GraphIdLimits DEF PathNumbers
<1> QED
  BY <1>1, LowestIsIn

LEMMA InitHolds == Init => IInv
<1> SUFFICES ASSUME Init PROVE IInv
  OBVIOUS
<1> USE DEF Init, Idle, NoAnswer
<1>1. TypeOK
  BY ConnectivityTypes DEF TypeOK, Builds
<1>2. ListedWereSeen /\ KeptAreListed /\ ColorsAreOfListed /\ AnswerIsOfColors
  BY DEF ListedWereSeen, KeptAreListed, ColorsAreOfListed, AnswerIsOfColors
<1> QED
  BY <1>1, <1>2 DEF IInv
-----------------------------------------------------------------------------
\* What Open leaves behind, for the two actions that open a level's iterator.
LEMMA OpenKeeps ==
  ASSUME TypeOK, NEW todo \in SUBSET Levels, todo # {},
         NEW listed \in SUBSET Files, listed \subseteq seen,
         NEW cut \in SUBSET Levels,
         Open(todo, listed, cut),
         \A l \in Levels \ (todo \cup cut) : OfLevel(kept, l) \subseteq listed
  PROVE  /\ build' \in Builds
         /\ kept' \subseteq Files /\ seen' \subseteq Files
         /\ build'.phase = "list"
         /\ ListedWereSeen' /\ KeptAreListed'
<1>1. build' = [phase |-> "list", todo |-> todo, listed |-> listed, cut |-> cut]
  BY DEF Open
<1>2. kept' = kept \cup OfLevel(disk, Lowest(todo)) /\ seen' = seen \cup OfLevel(disk, Lowest(todo))
  BY DEF Open
<1>3. OfLevel(disk, Lowest(todo)) \subseteq Files
  BY DEF OfLevel, TypeOK
<1>4. build' \in Builds /\ build'.phase = "list"
  BY <1>1 DEF Builds
<1>5. ListedWereSeen'
  BY <1>1, <1>2 DEF ListedWereSeen
<1>6. KeptAreListed'
  <2>1. SUFFICES ASSUME NEW l \in Levels, l \notin todo, l \notin cut
                 PROVE  OfLevel(kept', l) \subseteq listed
    BY <1>1 DEF KeptAreListed, Finished
  <2>2. Lowest(todo) # l
    BY <2>1, LowestLevel, ConnectivityTypes, PathNumbers
  <2>3. OfLevel(kept', l) = OfLevel(kept, l)
    BY <1>2, <2>2 DEF OfLevel
  <2> QED
    BY <2>1, <2>3
<1> QED
  BY <1>2, <1>3, <1>4, <1>5, <1>6 DEF TypeOK

\* What Leave leaves behind, if what stayed of the level left was listed or
\* the level counts as cut.
LEMMA LeaveKeeps ==
  ASSUME IInv, build.phase = "list", NEW cut \in SUBSET Levels,
         build.cut \subseteq cut, Leave(cut),
         \/ OfLevel(kept, Lowest(build.todo)) \subseteq build.listed
         \/ Lowest(build.todo) \in cut
  PROVE  /\ build' \in Builds
         /\ kept' \subseteq Files /\ seen' \subseteq Files
         /\ build'.phase \in {"list", "color"}
         /\ ListedWereSeen' /\ KeptAreListed'
<1> DEFINE todo == build.todo \ {Lowest(build.todo)}
<1>1. build.todo \in SUBSET Levels /\ build.listed \in SUBSET Files
  BY DEF IInv, TypeOK, Builds
<1>2. build.listed \subseteq seen
  BY DEF IInv, ListedWereSeen
<1>3. \A l \in Levels \ (todo \cup cut) : OfLevel(kept, l) \subseteq build.listed
  <2>1. SUFFICES ASSUME NEW l \in Levels, l \notin todo, l \notin cut
                 PROVE  OfLevel(kept, l) \subseteq build.listed
    OBVIOUS
  <2>2. CASE l = Lowest(build.todo)
    BY <2>1, <2>2
  <2>3. CASE l # Lowest(build.todo)
    <3>1. l \notin build.todo /\ l \notin build.cut
      BY <2>1, <2>3
    <3> QED
      BY <3>1 DEF IInv, KeptAreListed, Finished
  <2> QED
    BY <2>2, <2>3
<1>4. CASE todo # {}
  <2>1. Open(todo, build.listed, cut)
    BY <1>4 DEF Leave
  <2>2. todo \in SUBSET Levels
    BY <1>1
  <2> HIDE DEF todo
  <2>3. TypeOK
    BY DEF IInv
  <2> QED
    BY <1>1, <1>2, <1>3, <1>4, <2>1, <2>2, <2>3, OpenKeeps
<1>5. CASE todo = {}
  <2>1. build' = [phase |-> "color", listed |-> build.listed, cut |-> cut]
    BY <1>5 DEF Leave
  <2>2. UNCHANGED <<kept, seen>>
    BY <1>5 DEF Leave
  <2>3. build' \in Builds
    BY <1>1, <2>1 DEF Builds
  <2>4. ListedWereSeen'
    BY <1>2, <2>1, <2>2 DEF ListedWereSeen
  <2>5. KeptAreListed'
    BY <1>3, <1>5, <2>1, <2>2 DEF KeptAreListed, OfLevel
  <2> QED
    BY <2>1, <2>2, <2>3, <2>4, <2>5 DEF IInv, TypeOK
<1> QED
  BY <1>4, <1>5

\* An action that leaves the static and the listing alone keeps what the
\* invariant says of them.
LEMMA ListingUnchanged ==
  ASSUME IInv, UNCHANGED <<build, colors, kept, seen>>
  PROVE  ListedWereSeen' /\ KeptAreListed' /\ ColorsAreOfListed'
<1>1. ListedWereSeen'
  BY DEF IInv, ListedWereSeen
<1>2. KeptAreListed'
  BY DEF IInv, KeptAreListed, Finished, OfLevel
<1>3. ColorsAreOfListed'
  BY DEF IInv, ColorsAreOfListed
<1> QED
  BY <1>1, <1>2, <1>3

\* Before there are colours there is no answer.
LEMMA NoAnswerYet ==
  ASSUME IInv, build.phase # "done", UNCHANGED last
  PROVE  last = NoAnswer /\ AnswerIsOfColors'
BY DEF IInv, AnswerIsOfColors, NoAnswer, Idle

\* The answers depend on the colours only.
LEMMA SameColorsSameAnswers ==
  ASSUME IInv, UNCHANGED <<build, colors, last>>
  PROVE  AnswerIsOfColors'
<1>1. \A a, b : AreConnected(a, b)' <=> AreConnected(a, b)
  BY DEF AreConnected, get_color
<1> QED
  BY <1>1 DEF IInv, AnswerIsOfColors, NoAnswer, Idle

LEMMA CallStep ==
  ASSUME IInv, NEW r \in Readers, Call(r)
  PROVE  IInv'
<1> USE DEF Call
<1>1. TypeOK'
  BY DEF IInv, TypeOK
<1> QED
  BY <1>1, ListingUnchanged, SameColorsSameAnswers DEF IInv

LEMMA EnterStep ==
  ASSUME IInv, NEW r \in Readers, Enter(r)
  PROVE  IInv'
<1>0. TypeOK
  BY DEF IInv
<1>1. Open(Levels, {}, {}) /\ build.phase = "none"
  BY DEF Enter
<1>2. Levels \in SUBSET Levels /\ {} \in SUBSET Files /\ {} \subseteq seen /\ {} \in SUBSET Levels
  OBVIOUS
<1>3. \A l \in Levels \ (Levels \cup {}) : OfLevel(kept, l) \subseteq {}
  OBVIOUS
<1>4. /\ build' \in Builds /\ kept' \subseteq Files /\ seen' \subseteq Files
      /\ build'.phase = "list" /\ ListedWereSeen' /\ KeptAreListed'
  BY <1>0, <1>1, <1>2, <1>3, OpenKeeps, ConnectivityTypes
<1>5. TypeOK'
  BY <1>0, <1>4 DEF Enter, TypeOK
<1>6. ColorsAreOfListed'
  BY <1>4 DEF ColorsAreOfListed
<1>7. AnswerIsOfColors'
  BY <1>1, NoAnswerYet DEF Enter
<1> QED
  BY <1>4, <1>5, <1>6, <1>7 DEF IInv

LEMMA ListFileStep ==
  ASSUME IInv, ListFile
  PROVE  IInv'
<1>1. PICK f \in OfLevel(seen, Lowest(build.todo)) \ build.listed :
             build' = [build EXCEPT !.listed = @ \cup {f}]
  BY DEF ListFile
<1>2. build.phase = "list" /\ UNCHANGED <<disk, changes, colors, call, last, kept, seen>>
  BY DEF ListFile
<1>3. f \in seen /\ seen \subseteq Files
  BY <1>1 DEF OfLevel, IInv, TypeOK
<1>4. build \in [phase : {"list"}, todo : (SUBSET Levels) \ {{}},
                 listed : SUBSET Files, cut : SUBSET Levels]
  BY <1>2 DEF IInv, TypeOK, Builds
<1>5. /\ build'.phase = "list" /\ build'.todo = build.todo /\ build'.cut = build.cut
      /\ build'.listed = build.listed \cup {f}
  BY <1>1, <1>2, <1>4
<1>6. build' \in Builds
  BY <1>1, <1>3, <1>4 DEF Builds
<1>7. TypeOK'
  BY <1>2, <1>6 DEF IInv, TypeOK
<1>8. ListedWereSeen'
  BY <1>2, <1>3, <1>5 DEF IInv, ListedWereSeen
<1>9. KeptAreListed'
  BY <1>2, <1>5 DEF IInv, KeptAreListed, Finished, OfLevel
<1>10. ColorsAreOfListed' /\ AnswerIsOfColors'
  BY <1>2, <1>5, NoAnswerYet DEF ColorsAreOfListed
<1> QED
  BY <1>7, <1>8, <1>9, <1>10 DEF IInv

\* EndLevel and CutLevel.
LEMMA LeaveStep ==
  ASSUME IInv, EndLevel \/ CutLevel
  PROVE  IInv'
<1>0. build.phase = "list" /\ UNCHANGED <<disk, changes, colors, call, last>>
  BY DEF EndLevel, CutLevel
<1>1. build.todo \in SUBSET Levels /\ build.todo # {} /\ build.cut \in SUBSET Levels
  BY <1>0 DEF IInv, TypeOK, Builds
<1>2. Lowest(build.todo) \in Levels
  BY <1>1, LowestLevel, ConnectivityTypes, PathNumbers
<1>3. /\ build' \in Builds /\ kept' \subseteq Files /\ seen' \subseteq Files
      /\ build'.phase \in {"list", "color"} /\ ListedWereSeen' /\ KeptAreListed'
  <2>1. CASE EndLevel
    BY <1>0, <1>1, <2>1, LeaveKeeps DEF EndLevel
  <2>2. CASE CutLevel
    <3> DEFINE cut == build.cut \cup {Lowest(build.todo)}
    <3>1. cut \in SUBSET Levels /\ build.cut \subseteq cut /\ Lowest(build.todo) \in cut
      BY <1>1, <1>2
    <3>2. Leave(cut)
      BY <2>2 DEF CutLevel
    <3> HIDE DEF cut
    <3> QED
      BY <1>0, <3>1, <3>2, LeaveKeeps
  <2> QED
    BY <2>1, <2>2
<1>4. TypeOK'
  BY <1>0, <1>3 DEF IInv, TypeOK
<1>5. ColorsAreOfListed' /\ AnswerIsOfColors'
  BY <1>0, <1>3, NoAnswerYet DEF ColorsAreOfListed
<1> QED
  BY <1>3, <1>4, <1>5 DEF IInv

LEMMA ColorStep ==
  ASSUME IInv, Color
  PROVE  IInv'
<1>1. build.phase = "color" /\ UNCHANGED <<disk, changes, call, last, kept, seen>>
  BY DEF Color
<1>2. build' = [phase |-> "done", listed |-> build.listed, cut |-> build.cut]
  BY DEF Color
<1>3. build.listed \in SUBSET Files /\ build.cut \in SUBSET Levels
  BY <1>1 DEF IInv, TypeOK, Builds
<1>4. build' \in Builds
  BY <1>2, <1>3 DEF Builds
<1>5. TypeOK'
  BY <1>1, <1>4 DEF IInv, TypeOK
<1>6. ListedWereSeen' /\ KeptAreListed'
  BY <1>1, <1>2 DEF IInv, ListedWereSeen, KeptAreListed, Finished, OfLevel
<1>7. /\ DOMAIN colors' = Levels
      /\ \A l \in Levels : colors'[l] \in ColorMap(TilesOf(build.listed, l), l)
  <2> DEFINE U == UNION {ColorMap(TilesOf(build.listed, l), l) : l \in Levels}
             Of(l) == ColorMap(TilesOf(build.listed, l), l)
  <2>1. \E c \in [Levels -> U] : (\A l \in Levels : c[l] \in Of(l)) /\ colors' = c
    BY DEF Color
  <2> HIDE DEF U, Of
  <2>2. DOMAIN colors' = Levels /\ \A l \in Levels : colors'[l] \in Of(l)
    BY <2>1
  <2> QED
    BY <2>2 DEF Of
<1>8. ColorsAreOfListed'
  <2>1. build'.listed = build.listed
    BY <1>2
  <2> QED
    BY <1>7, <2>1 DEF ColorsAreOfListed
<1>9. AnswerIsOfColors'
  BY <1>1, NoAnswerYet
<1> QED
  BY <1>5, <1>6, <1>8, <1>9 DEF IInv

LEMMA AnswerStep ==
  ASSUME IInv, NEW r \in Readers, Answer(r)
  PROVE  IInv'
<1>1. /\ call[r] # Idle /\ build.phase = "done"
      /\ last' = [of |-> call[r], connected |-> AreConnected(call[r][1], call[r][2])]
      /\ call' = [call EXCEPT ![r] = Idle]
      /\ UNCHANGED <<disk, changes, build, colors, kept, seen>>
  BY DEF Answer
<1>2. call[r] \in Questions
  BY <1>1 DEF IInv, TypeOK
<1>3. \A a, b : AreConnected(a, b) \in BOOLEAN
  BY DEF AreConnected
<1>4. last' \in [of : Questions \cup {Idle}, connected : BOOLEAN]
  BY <1>1, <1>2, <1>3
<1>5. TypeOK'
  BY <1>1, <1>4 DEF IInv, TypeOK
<1>6. AnswerIsOfColors'
  <2>1. \A a, b : AreConnected(a, b)' <=> AreConnected(a, b)
    BY <1>1 DEF AreConnected, get_color
  <2>2. last'.of = call[r] /\ last'.connected = AreConnected(call[r][1], call[r][2])
    BY <1>1
  <2>3. build'.phase = "done"
    BY <1>1
  <2> QED
    BY <1>2, <2>1, <2>2, <2>3 DEF AnswerIsOfColors
<1> QED
  BY <1>1, <1>5, <1>6, ListingUnchanged DEF IInv

LEMMA ChangeStep ==
  ASSUME IInv, NEW f \in Files, Change(f)
  PROVE  IInv'
<1>1. /\ UNCHANGED <<build, colors, call, last>>
      /\ changes' = changes + 1 /\ changes < MaxChanges
      /\ kept' \subseteq kept /\ seen \subseteq seen' /\ seen' \subseteq seen \cup {f}
      /\ disk' \subseteq disk \cup {f}
  BY DEF Change
<1>2. changes' \in 0 .. MaxChanges
  BY <1>1, ConnectivityTypes DEF IInv, TypeOK
<1>3. TypeOK'
  BY <1>1, <1>2 DEF IInv, TypeOK
<1>4. ListedWereSeen'
  BY <1>1 DEF IInv, ListedWereSeen
<1>5. KeptAreListed'
  <2>1. \A l : OfLevel(kept', l) \subseteq OfLevel(kept, l)
    BY <1>1 DEF OfLevel
  <2> QED
    BY <1>1, <2>1 DEF IInv, KeptAreListed, Finished
<1>6. ColorsAreOfListed'
  BY <1>1 DEF IInv, ColorsAreOfListed
<1> QED
  BY <1>1, <1>3, <1>4, <1>5, <1>6, SameColorsSameAnswers DEF IInv

LEMMA StepKeeps ==
  ASSUME IInv, [Next]_vars
  PROVE  IInv'
<1>1. CASE UNCHANGED vars
  <2>1. TypeOK'
    BY <1>1 DEF IInv, TypeOK, vars
  <2> QED
    BY <1>1, <2>1, ListingUnchanged, SameColorsSameAnswers DEF IInv, vars
<1>2. CASE Next
  BY <1>2, CallStep, EnterStep, ListFileStep, LeaveStep, ColorStep, AnswerStep, ChangeStep
     DEF Next, Construct
<1> QED
  BY <1>1, <1>2

LEMMA InvHolds == Spec => []IInv
BY InitHolds, StepKeeps, PTL DEF Spec
-----------------------------------------------------------------------------
\* A colouring gives each tile a colour other than 0, and one colour to
\* exactly the tiles that are joined.
LEMMA ColorsAreRegions ==
  ASSUME ConnectivityTypes, NEW level \in Levels, NEW tiles,
         NEW c \in ColorMap(tiles, level)
  PROVE  /\ DOMAIN c = tiles
         /\ \A a \in tiles : c[a] # 0
         /\ \A a, b \in tiles : c[a] = c[b] <=> Joined(tiles, level, a, b)
<1> DEFINE R(a) == Region(tiles, level, a)
           regions == {R(a) : a \in tiles}
<1>1. PICK n \in [regions -> 1 .. Cardinality(regions)] :
           /\ \A r, s \in regions : r # s => n[r] # n[s]
           /\ c = [t \in tiles |-> n[R(t)]]
  BY DEF ColorMap, Region
<1>2. \A a \in tiles : R(a) \in regions
  OBVIOUS
<1>3. \A r \in regions : n[r] # 0
  <2>1. SUFFICES ASSUME NEW r \in regions PROVE n[r] # 0
    OBVIOUS
  <2>2. n[r] \in 1 .. Cardinality(regions)
    BY <1>1, <2>1
  <2> QED
    BY <2>2
<1>4. \A a, b \in tiles : R(a) = R(b) <=> Joined(tiles, level, a, b)
  BY OneRegion
<1> HIDE DEF R, regions
<1>5. DOMAIN c = tiles /\ \A a \in tiles : c[a] = n[R(a)]
  BY <1>1
<1>6. \A a, b \in tiles : c[a] = c[b] <=> R(a) = R(b)
  BY <1>1, <1>2, <1>5
<1>7. \A a \in tiles : c[a] # 0
  BY <1>2, <1>3, <1>5
<1> QED
  BY <1>4, <1>5, <1>6, <1>7

\* What an answer about two tiles of one level says.
LEMMA AnswerIsJoined ==
  ASSUME IInv, SameLevel
  PROVE  last.connected <=>
           /\ Asked(1).level \in Levels
           /\ Joined(TilesOf(build.listed, Asked(1).level), Asked(1).level,
                     Asked(1).tileid, Asked(2).tileid)
<1> DEFINE l == Asked(1).level
           tiles == TilesOf(build.listed, l)
           a == Asked(1).tileid
           b == Asked(2).tileid
<1>1. /\ build.phase = "done"
      /\ last.connected <=> AreConnected(last.of[1], last.of[2])
  BY DEF IInv, AnswerIsOfColors, SameLevel
<1>2. Asked(2).level = l
  BY DEF SameLevel
<1>3. last.connected <=> get_color(Asked(1)) = get_color(Asked(2)) /\ get_color(Asked(1)) # 0
  BY <1>1 DEF AreConnected, Asked
<1>4. DOMAIN colors = Levels
  BY <1>1 DEF IInv, ColorsAreOfListed
<1>5. CASE l \notin Levels
  BY <1>2, <1>3, <1>4, <1>5 DEF get_color
<1>6. CASE l \in Levels
  <2>1. colors[l] \in ColorMap(tiles, l)
    BY <1>1, <1>6 DEF IInv, ColorsAreOfListed
  <2>2. /\ get_color(Asked(1)) = IF a \in DOMAIN colors[l] THEN colors[l][a] ELSE 0
        /\ get_color(Asked(2)) = IF b \in DOMAIN colors[l] THEN colors[l][b] ELSE 0
    BY <1>2, <1>4, <1>6 DEF get_color
  <2>3. Joined(tiles, l, a, b) => a \in tiles /\ b \in tiles
    BY JoinedDef
  <2> HIDE DEF l, tiles, a, b
  <2>4. /\ DOMAIN colors[l] = tiles
        /\ \A t \in tiles : colors[l][t] # 0
        /\ \A t, u \in tiles : colors[l][t] = colors[l][u] <=> Joined(tiles, l, t, u)
    BY <1>6, <2>1, ColorsAreRegions, ConnectivityTypes
  <2>5. last.connected <=> Joined(tiles, l, a, b)
    BY <1>3, <2>2, <2>3, <2>4
  <2> QED
    BY <1>6, <2>5 DEF l, tiles, a, b
<1> QED
  BY <1>5, <1>6

(***************************************************************************)
(* The types of the map, the listing and the answers.                      *)
(***************************************************************************)
THEOREM TypesKept == Spec => []TypeOK
<1>1. IInv => TypeOK
  BY DEF IInv
<1> QED
  BY <1>1, InvHolds, PTL

(***************************************************************************)
(* For any grids, files and callers, tiles are said to be connected only   *)
(* if tiles that had a file while it was listed join them.                 *)
(***************************************************************************)
THEOREM ConnectedIsByFiles == Spec => []ConnectedByFiles
<1>1. IInv => ConnectedByFiles
  <2>1. SUFFICES ASSUME IInv, SameLevel, last.connected
                 PROVE  /\ Asked(1).level \in Levels
                        /\ Joined(TilesOf(seen, Asked(1).level), Asked(1).level,
                                  Asked(1).tileid, Asked(2).tileid)
    BY DEF ConnectedByFiles
  <2>2. build.listed \subseteq seen
    BY <2>1 DEF IInv, ListedWereSeen, AnswerIsOfColors, SameLevel
  <2>3. TilesOf(build.listed, Asked(1).level) \subseteq TilesOf(seen, Asked(1).level)
    BY <2>2 DEF TilesOf, OfLevel
  <2> QED
    BY <2>1, <2>3, AnswerIsJoined, JoinedGrows
<1> QED
  BY <1>1, InvHolds, PTL

(***************************************************************************)
(* For any grids, files and callers, tiles are not rejected that files     *)
(* joined which stayed while their level was listed to its end.            *)
(***************************************************************************)
THEOREM JoinedNeverRejected == Spec => []JoinedIsNotRejected
<1>1. IInv => JoinedIsNotRejected
  <2>1. SUFFICES ASSUME IInv, SameLevel, Asked(1).level \in Levels \ build.cut,
                        Joined(TilesOf(kept, Asked(1).level), Asked(1).level,
                               Asked(1).tileid, Asked(2).tileid)
                 PROVE  last.connected
    BY DEF JoinedIsNotRejected
  <2>2. build.phase = "done"
    BY <2>1 DEF IInv, AnswerIsOfColors, SameLevel
  <2>3. OfLevel(kept, Asked(1).level) \subseteq build.listed
    BY <2>1, <2>2 DEF IInv, KeptAreListed, Finished
  <2>4. TilesOf(kept, Asked(1).level) \subseteq TilesOf(build.listed, Asked(1).level)
    BY <2>3 DEF TilesOf, OfLevel
  <2> QED
    BY <2>1, <2>4, AnswerIsJoined, JoinedGrows
<1> QED
  BY <1>1, InvHolds, PTL

\* The tile of an id has a number.
LEMMA TileNumber ==
  ASSUME NEW g \in GraphIds
  PROVE  Tile_Base(g).tileid \in Nat
BY GraphIdLimits DEF Tile_Base, Set, GraphIds

\* Two tiles are in one feature of the GeoJSON exactly if they have one colour.
LEMMA FeaturesOfColors ==
  ASSUME NEW l, IsMapped(l), NEW i, NEW j
  PROVE  (\E region \in to_geojson(l) : {i, j} \subseteq region)
           <=> i \in DOMAIN colors[l] /\ j \in DOMAIN colors[l] /\ colors[l][i] = colors[l][j]
<1>1. \A c \in colors_of(l) : <<size_of(l, c), c>> \in arities(l)
  BY DEF arities
<1>2. \A a \in arities(l) : a[2] \in colors_of(l)
  BY DEF arities
<1>3. ASSUME NEW region \in to_geojson(l), {i, j} \subseteq region
      PROVE  i \in DOMAIN colors[l] /\ j \in DOMAIN colors[l] /\ colors[l][i] = colors[l][j]
  BY <1>2, <1>3 DEF to_geojson, region_tiles
<1>4. ASSUME i \in DOMAIN colors[l], j \in DOMAIN colors[l], colors[l][i] = colors[l][j]
      PROVE  \E region \in to_geojson(l) : {i, j} \subseteq region
  <2> DEFINE a == <<size_of(l, colors[l][i]), colors[l][i]>>
  <2>1. colors[l][i] \in colors_of(l)
    BY <1>4 DEF colors_of
  <2>2. a \in arities(l) /\ a[2] = colors[l][i]
    BY <1>1, <2>1
  <2>3. region_tiles(l, a[2]) \in to_geojson(l)
    BY <2>2 DEF to_geojson
  <2>4. {i, j} \subseteq region_tiles(l, a[2])
    BY <1>4, <2>2 DEF region_tiles
  <2> QED
    BY <2>3, <2>4
<1> QED
  BY <1>3, <1>4

LEMMA FeaturesCoverTiles ==
  ASSUME NEW l, IsMapped(l)
  PROVE  UNION to_geojson(l) = DOMAIN colors[l]
<1>1. UNION to_geojson(l) \subseteq DOMAIN colors[l]
  BY DEF to_geojson, region_tiles
<1>2. ASSUME NEW t \in DOMAIN colors[l]
      PROVE  t \in UNION to_geojson(l)
  <2>1. PICK region \in to_geojson(l) : {t, t} \subseteq region
    BY FeaturesOfColors
  <2> QED
    BY <2>1
<1> QED
  BY <1>1, <1>2

(***************************************************************************)
(* For any grids, files and callers, the image and the GeoJSON show the    *)
(* division the answers come from: two tiles have one colour in the image  *)
(* exactly if a feature has both, no tile is left out, and the answers     *)
(* about tiles of the grid are those the image gives.                      *)
(***************************************************************************)
THEOREM MapsShowTheAnswers == Spec => []MapsAgreeWithAnswers
<1>1. ASSUME IInv, build.phase = "done", NEW l \in Levels
      PROVE  /\ UNION to_geojson(l) = DOMAIN colors[l]
             /\ \A i, j \in DOMAIN to_image(l) :
                  (to_image(l)[i] = to_image(l)[j] /\ to_image(l)[i] # 0)
                    <=> \E region \in to_geojson(l) : {i, j} \subseteq region
  <2>1. colors[l] \in ColorMap(TilesOf(build.listed, l), l)
    BY <1>1 DEF IInv, ColorsAreOfListed
  <2>0. IsMapped(l)
    BY <1>1 DEF IInv, ColorsAreOfListed, IsMapped, HasLevel
  <2>2. \A t \in DOMAIN colors[l] : colors[l][t] # 0
    BY <2>1, ColorsAreRegions, ConnectivityTypes
  <2>3. \A i \in DOMAIN to_image(l) :
          to_image(l)[i] = IF i \in DOMAIN colors[l] THEN colors[l][i] ELSE 0
    BY <2>0 DEF to_image
  <2>4. ASSUME NEW i \in DOMAIN to_image(l), NEW j \in DOMAIN to_image(l)
        PROVE  (to_image(l)[i] = to_image(l)[j] /\ to_image(l)[i] # 0)
                 <=> \E region \in to_geojson(l) : {i, j} \subseteq region
    <3>1. (\E region \in to_geojson(l) : {i, j} \subseteq region)
            <=> i \in DOMAIN colors[l] /\ j \in DOMAIN colors[l] /\ colors[l][i] = colors[l][j]
      BY <2>0, FeaturesOfColors
    <3> QED
      BY <2>2, <2>3, <3>1
  <2> QED
    BY <2>0, <2>4, FeaturesCoverTiles
<1>2. ASSUME IInv, SameLevel, InGrid(Asked(1)), InGrid(Asked(2))
      PROVE  last.connected <=>
               /\ to_image(Asked(1).level)[Asked(1).tileid]
                    = to_image(Asked(1).level)[Asked(2).tileid]
               /\ to_image(Asked(1).level)[Asked(1).tileid] # 0
  <2> DEFINE l == Asked(1).level
  <2>1. /\ build.phase = "done"
        /\ last.connected <=> AreConnected(last.of[1], last.of[2])
    BY <1>2 DEF IInv, AnswerIsOfColors, SameLevel
  <2>2. Asked(2).level = l /\ l \in DOMAIN colors /\ IsMapped(l)
    <3>1. Asked(2).level = l
      BY <1>2 DEF SameLevel
    <3>2. l \in Levels
      BY <1>2 DEF InGrid, HasLevel
    <3>3. DOMAIN colors = Levels
      BY <1>2, <2>1 DEF IInv, ColorsAreOfListed
    <3> QED
      BY <3>1, <3>2, <3>3 DEF IsMapped, HasLevel
  <2>3. /\ Asked(1).tileid \in DOMAIN to_image(l)
        /\ Asked(2).tileid \in DOMAIN to_image(l)
    <3>1. last.of \in GraphIds \X GraphIds
      BY <1>2, ConnectivityTypes DEF IInv, AnswerIsOfColors, SameLevel
    <3>2. Asked(1).tileid \in Nat /\ Asked(2).tileid \in Nat
      BY <3>1, TileNumber DEF Asked
    <3>3. Asked(1).tileid <= MaxTileId[l] /\ Asked(2).tileid <= MaxTileId[l]
      BY <1>2, <2>2 DEF InGrid
    <3>4. l \in Levels /\ MaxTileId[l] \in Nat
      <4>1. \A k \in Levels : MaxTileId[k] \in Nat
        BY PathNumbers, GraphIdLimits
      <4> QED
        BY <1>2, <4>1 DEF InGrid, HasLevel
    <3>5. DOMAIN to_image(l) = 0 .. MaxTileId[l]
      BY <2>2 DEF to_image
    <3> HIDE DEF l
    <3> QED
      BY <3>2, <3>3, <3>4, <3>5
  <2>4. \A t \in DOMAIN to_image(l) :
          to_image(l)[t] = IF t \in DOMAIN colors[l] THEN colors[l][t] ELSE 0
    BY <2>2 DEF to_image
  <2>5. /\ get_color(Asked(1)) = to_image(l)[Asked(1).tileid]
        /\ get_color(Asked(2)) = to_image(l)[Asked(2).tileid]
    BY <2>2, <2>3, <2>4 DEF get_color
  <2>6. last.connected <=> get_color(Asked(1)) = get_color(Asked(2)) /\ get_color(Asked(1)) # 0
    BY <2>1 DEF AreConnected, Asked
  <2> QED
    BY <2>5, <2>6
<1>3. IInv => MapsAgreeWithAnswers
  BY <1>1, <1>2 DEF MapsAgreeWithAnswers
<1> QED
  BY <1>3, InvHolds, PTL

(***************************************************************************)
(* The static implements one division of the tiles into regions: making    *)
(* the colours is Make, answering is Reply, all else is a stutter.         *)
(***************************************************************************)
THEOREM AnswersAreOfRegions == Spec => ImplementsRegions
<1>1. Init => Regions!Init
  BY DEF Init, Regions!Init, Regions!None, NoAnswer, Idle
<1>2. IInv /\ [Next]_vars
        => [Regions!Next]_<<colors, build.phase = "done", last>>
  <2>1. SUFFICES ASSUME IInv, [Next]_vars
                 PROVE  [Regions!Next]_<<colors, build.phase = "done", last>>
    OBVIOUS
  <2>2. ASSUME UNCHANGED <<colors, last>>, build'.phase = "done" <=> build.phase = "done"
        PROVE  [Regions!Next]_<<colors, build.phase = "done", last>>
    BY <2>2
  <2>3. ASSUME Color
        PROVE  Regions!Next
    <3>1. build.phase = "color" /\ build'.phase = "done" /\ last' = last
      BY <2>3 DEF Color
    <3>2. Regions!Make
      BY <3>1 DEF Regions!Make
    <3> QED
      BY <3>2 DEF Regions!Next
  <2>4. ASSUME NEW r \in Readers, Answer(r)
        PROVE  Regions!Next
    <3>1. /\ build.phase = "done" /\ UNCHANGED <<build, colors>>
          /\ last' = [of |-> call[r], connected |-> AreConnected(call[r][1], call[r][2])]
      BY <2>4 DEF Answer
    <3>2. call[r] \in Questions
      BY <2>1, <2>4 DEF Answer, IInv, TypeOK
    <3>3. \A id : get_color(Tile_Base(id)) = ColorIn(colors, id)
      BY DEF get_color, ColorIn
    <3>4. \A p : AreConnected(p[1], p[2]) =
                  (/\ ColorIn(colors, p[1]) = ColorIn(colors, p[2])
                   /\ ColorIn(colors, p[1]) # 0)
      BY <3>3 DEF AreConnected
    <3>5. last' = [of |-> call[r],
                   connected |-> /\ ColorIn(colors, call[r][1]) = ColorIn(colors, call[r][2])
                                 /\ ColorIn(colors, call[r][1]) # 0]
      BY <3>1, <3>4
    <3>6. UNCHANGED <<colors, build.phase = "done">>
      BY <3>1
    <3>7. Regions!Reply(call[r])
      BY <3>1, <3>5, <3>6 DEF Regions!Reply
    <3> QED
      BY <3>2, <3>7 DEF Regions!Next
  <2>5. ASSUME \E r \in Readers : Enter(r)
        PROVE  UNCHANGED <<colors, last>> /\ (build'.phase = "done" <=> build.phase = "done")
    BY <2>5 DEF Enter, Open
  <2>6. ASSUME EndLevel \/ CutLevel
        PROVE  UNCHANGED <<colors, last>> /\ (build'.phase = "done" <=> build.phase = "done")
    BY <2>6 DEF EndLevel, CutLevel, Leave, Open
  <2>7. ASSUME ListFile
        PROVE  UNCHANGED <<colors, last>> /\ (build'.phase = "done" <=> build.phase = "done")
    BY <2>1, <2>7 DEF ListFile, IInv, TypeOK, Builds
  <2>8. ASSUME \/ \E r \in Readers : Call(r)
               \/ \E f \in Files : Change(f)
               \/ UNCHANGED vars
        PROVE  UNCHANGED <<colors, last>> /\ (build'.phase = "done" <=> build.phase = "done")
    BY <2>8 DEF Call, Change, vars
  <2> QED
    BY <2>1, <2>2, <2>3, <2>4, <2>5, <2>6, <2>7, <2>8 DEF Next, Construct
<1> QED
  BY <1>1, <1>2, InvHolds, PTL DEF Spec, ImplementsRegions, Regions!Spec

-----------------------------------------------------------------------------
(* The static gets made: with each step of the listing fewer are left.     *)

\* The most steps the constructor has left: levels to end or cut, files to be
\* given, and the colouring.
StepsLeft(b) ==
  CASE b.phase = "none"  -> Cardinality(Levels) + Cardinality(Files) + 2
    [] b.phase = "list"  -> Cardinality(b.todo) + Cardinality(Files \ b.listed) + 1
    [] b.phase = "color" -> 1
    [] OTHER             -> 0

ListingCountsDown ==
  /\ StepsLeft(build') \in Nat
  /\ Construct \/ build' # build => StepsLeft(build') < StepsLeft(build)

LEMMA LevelsAreFinite == IsFiniteSet(Levels)
<1>1. kMaxGraphHierarchy - 1 \in Int
  BY GraphIdLimits
<1>2. IsFiniteSet(0 .. kMaxGraphHierarchy - 1)
  BY <1>1, FS_Interval
<1> QED
  BY <1>2, PathNumbers, FS_Subset

LEMMA StepsAreCounted ==
  ASSUME NEW b \in Builds
  PROVE  StepsLeft(b) \in Nat
<1>1. /\ Cardinality(Levels) \in Nat /\ Cardinality(Files) \in Nat
  BY LevelsAreFinite, ConnectivityTypes, FS_CardinalityType
<1>2. CASE b.phase = "list"
  <2>1. b.todo \in SUBSET Levels
    BY <1>2 DEF Builds
  <2>2. Cardinality(b.todo) \in Nat
    BY <2>1, LevelsAreFinite, FS_Subset, FS_CardinalityType
  <2>3. Cardinality(Files \ b.listed) \in Nat
    BY ConnectivityTypes, FS_Difference, FS_CardinalityType
  <2> QED
    BY <1>2, <2>2, <2>3 DEF StepsLeft
<1>3. CASE b.phase # "list"
  BY <1>1, <1>3 DEF StepsLeft
<1> QED
  BY <1>2, <1>3

LEMMA LeaveCountsDown ==
  ASSUME IInv, build.phase = "list", NEW cut, Leave(cut)
  PROVE  StepsLeft(build') < StepsLeft(build)
<1> DEFINE todo == build.todo \ {Lowest(build.todo)}
<1>1. build.todo \in SUBSET Levels /\ build.todo # {}
  BY DEF IInv, TypeOK, Builds
<1>2. Lowest(build.todo) \in build.todo
  BY <1>1, LowestLevel, ConnectivityTypes, PathNumbers
<1>3. IsFiniteSet(build.todo)
  BY <1>1, LevelsAreFinite, FS_Subset
<1>4. /\ Cardinality(todo) = Cardinality(build.todo) - 1
      /\ Cardinality(todo) \in Nat /\ Cardinality(build.todo) \in Nat
  BY <1>2, <1>3, FS_RemoveElement, FS_CardinalityType
<1>5. Cardinality(Files \ build.listed) \in Nat
  BY ConnectivityTypes, FS_Difference, FS_CardinalityType
<1>6. StepsLeft(build) = Cardinality(build.todo) + Cardinality(Files \ build.listed) + 1
  BY DEF StepsLeft
<1>7. CASE todo # {}
  <2>1. build' = [phase |-> "list", todo |-> todo, listed |-> build.listed, cut |-> cut]
    BY <1>7 DEF Leave, Open
  <2> HIDE DEF todo
  <2>2. StepsLeft(build') = Cardinality(todo) + Cardinality(Files \ build.listed) + 1
    BY <2>1 DEF StepsLeft
  <2> QED
    BY <1>4, <1>5, <1>6, <2>2
<1>8. CASE todo = {}
  <2>1. build' = [phase |-> "color", listed |-> build.listed, cut |-> cut]
    BY <1>8 DEF Leave
  <2>2. StepsLeft(build') = 1
    BY <2>1 DEF StepsLeft
  <2> HIDE DEF todo
  <2> QED
    BY <1>4, <1>5, <1>6, <2>2
<1> QED
  BY <1>7, <1>8

LEMMA ListFileCountsDown ==
  ASSUME IInv, ListFile
  PROVE  StepsLeft(build') < StepsLeft(build)
<1>1. PICK f \in OfLevel(seen, Lowest(build.todo)) \ build.listed :
        build' = [build EXCEPT !.listed = @ \cup {f}]
  BY DEF ListFile
<1>2. build.phase = "list" /\ f \in Files /\ f \notin build.listed
  BY <1>1 DEF ListFile, IInv, TypeOK, OfLevel
<1>3. /\ build'.phase = "list" /\ build'.todo = build.todo
      /\ build'.listed = build.listed \cup {f}
  <2>1. build \in [phase : {"list"}, todo : (SUBSET Levels) \ {{}},
                   listed : SUBSET Files, cut : SUBSET Levels]
    BY <1>2 DEF IInv, TypeOK, Builds
  <2> QED
    BY <1>1, <1>2, <2>1
<1> DEFINE rest == Files \ build.listed
<1>4. Files \ build'.listed = rest \ {f} /\ f \in rest
  BY <1>2, <1>3
<1>5. IsFiniteSet(rest)
  BY ConnectivityTypes, FS_Difference
<1> HIDE DEF rest
<1>6. /\ Cardinality(rest \ {f}) = Cardinality(rest) - 1
      /\ Cardinality(rest) \in Nat
  BY <1>4, <1>5, FS_RemoveElement, FS_CardinalityType
<1>7. Cardinality(build.todo) \in Nat
  <2>1. build.todo \in SUBSET Levels
    BY <1>2 DEF IInv, TypeOK, Builds
  <2> QED
    BY <2>1, LevelsAreFinite, FS_Subset, FS_CardinalityType
<1>8. /\ StepsLeft(build) = Cardinality(build.todo) + Cardinality(rest) + 1
      /\ StepsLeft(build') = Cardinality(build.todo) + Cardinality(rest \ {f}) + 1
  BY <1>2, <1>3, <1>4 DEF StepsLeft, rest
<1> QED
  BY <1>6, <1>7, <1>8

LEMMA EnterCountsDown ==
  ASSUME IInv, NEW r \in Readers, Enter(r)
  PROVE  StepsLeft(build') < StepsLeft(build)
<1>1. /\ build.phase = "none"
      /\ build' = [phase |-> "list", todo |-> Levels, listed |-> {}, cut |-> {}]
  BY DEF Enter, Open
<1>2. Cardinality(Levels) \in Nat /\ Cardinality(Files) \in Nat /\ Files \ {} = Files
  BY LevelsAreFinite, ConnectivityTypes, FS_CardinalityType
<1>3. /\ StepsLeft(build) = Cardinality(Levels) + Cardinality(Files) + 2
      /\ StepsLeft(build') = Cardinality(Levels) + Cardinality(Files) + 1
  BY <1>1, <1>2 DEF StepsLeft
<1> QED
  BY <1>2, <1>3

LEMMA ColorCountsDown ==
  ASSUME Color
  PROVE  StepsLeft(build') < StepsLeft(build)
  BY DEF Color, StepsLeft

(***************************************************************************)
(* Whatever comes and goes in the directory and whichever levels are cut   *)
(* short, each step of the static's construction leaves fewer (the loops   *)
(* of connectivity_map.cc:89-113): it is done after one for each file, one *)
(* for each level and two more, and never begins again.                    *)
(***************************************************************************)
THEOREM ListingEnds == Spec => [][ListingCountsDown]_vars
<1>1. IInv /\ TypeOK' /\ [Next]_vars => ListingCountsDown
  <2> SUFFICES ASSUME IInv, TypeOK', [Next]_vars PROVE ListingCountsDown
    OBVIOUS
  <2>1. StepsLeft(build') \in Nat
    BY StepsAreCounted DEF TypeOK
  <2>2. CASE ListFile
    BY <2>1, <2>2, ListFileCountsDown DEF ListingCountsDown
  <2>3. CASE EndLevel
    BY <2>1, <2>3, LeaveCountsDown DEF EndLevel, ListingCountsDown
  <2>4. CASE CutLevel
    BY <2>1, <2>4, LeaveCountsDown DEF CutLevel, ListingCountsDown
  <2>5. CASE Color
    BY <2>1, <2>5, ColorCountsDown DEF ListingCountsDown
  <2>6. CASE \E r \in Readers : Enter(r)
    BY <2>1, <2>6, EnterCountsDown DEF ListingCountsDown
  <2>7. CASE UNCHANGED build /\ ~ Construct
    BY <2>1, <2>7 DEF ListingCountsDown
  <2>8. ASSUME ~ Construct, ~ \E r \in Readers : Enter(r)
        PROVE  UNCHANGED build
    BY <2>8 DEF Next, Call, Answer, Change, vars
  <2> QED
    BY <2>2, <2>3, <2>4, <2>5, <2>6, <2>7, <2>8 DEF Construct
<1>2. IInv => TypeOK
  BY DEF IInv
<1> QED
  BY <1>1, <1>2, InvHolds, PTL DEF Spec
=============================================================================
