----------------------------- MODULE LocalEdges -----------------------------
(***************************************************************************)
(* baldr/nodeinfo.{h,cc}, baldr/directededge.{h,cc}: the words in which a  *)
(* node and a directed edge keep one value for each of the first eight     *)
(* local edges, or for each pair of them.                                  *)
(*                                                                         *)
(* The words are separate memory, so a behaviour follows one of them.  A   *)
(* word is the set of its one bits, and so is the value of a field, except *)
(* that a heading is given and read in degrees.                            *)
(***************************************************************************)
EXTENDS Integers

CONSTANTS
  Indexes,          \* the local edge indexes callers use
  StopIndexes,      \* transit stop indexes and line ids, as sets of bits
  StopImpacts,      \* stop impacts, as sets of bits
  Degrees           \* headings

kMaxLocalEdgeIndex == 7
Local == 0 .. kMaxLocalEdgeIndex
kMaxStopImpact == 0 .. 2        \* 7

ASSUME LocalArguments ==
  /\ Indexes \subseteq Nat
  /\ StopIndexes \subseteq SUBSET (0 .. 31)
  /\ StopImpacts \subseteq SUBSET (0 .. 31)
  /\ Degrees \subseteq Nat

-----------------------------------------------------------------------------
(* A field is room bits of a word, from bit origin on, len for each value. *)

Field(word, origin, room, len) ==
  [word |-> word, origin |-> origin, room |-> room, len |-> len]

\* stop_index and name_consistency are a union, as are lineid and the pair
\* of stopimpact and edge_to_right.
Layout ==
  [local_driveability |-> Field("local_driveability", 0, 16, 2),
   name_consistency   |-> Field("stop", 0, 32, 1),
   stop_index         |-> Field("stop", 0, 32, 32),
   heading            |-> Field("headings", 0, 64, 8),
   turntype           |-> Field("turntype", 0, 24, 3),
   edge_to_left       |-> Field("edge_to_left", 0, 8, 1),
   stopimpact         |-> Field("stopimpact", 0, 24, 3),
   edge_to_right      |-> Field("stopimpact", 24, 8, 1),
   lineid             |-> Field("stopimpact", 0, 32, 32)]

Fields == DOMAIN Layout
Whole  == {"stop_index", "lineid"}
OfEdge == Fields \ (Whole \cup {"name_consistency"})
Words  == {Layout[f].word : f \in Fields}

\* What a caller can name: the value of a local edge (from = to), of a pair
\* of them (from < to), or a whole word.
Slots == {s \in [field : Fields, from : Local, to : Local] :
            /\ s.field \in OfEdge => s.from = s.to
            /\ s.field = "name_consistency" => s.from < s.to
            /\ s.field \in Whole => s.from = 0 /\ s.to = 0}
Slot(field, from, to) == [field |-> field, from |-> from, to |-> to]
SlotsOf(w) == {s \in Slots : Layout[s.field].word = w}

\* The other half of a union.
Shares(s, t) ==
  /\ s # t
  /\ Layout[s.field].word = Layout[t.field].word
  /\ s.field \in Whole \/ t.field \in Whole

\* from = 0 .. 6
ContinuityLookup == <<0, 7, 13, 18, 22, 25, 27>>
PairPosition(from, to) == ContinuityLookup[from + 1] + (to - from - 1)

Position(s) == IF s.field = "name_consistency" THEN PairPosition(s.from, s.to)
                                               ELSE s.from
-----------------------------------------------------------------------------
VARIABLES
  word,       \* the word followed
  bits,       \* its one bits
  given,      \* what callers last stored and the union still holds, by slot
  blurred     \* the slots that something else was written into: headings
              \* that were set more than once, stop impacts under a shift
              \* too far

words_vars == <<word, bits, given, blurred>>

\* The whole record is zeroed by its constructor.
Zero(s) == IF s.field = "heading" THEN 0 ELSE {}
WordsInit ==
  /\ word \in Words
  /\ bits = {}
  /\ given = [s \in SlotsOf(word) |-> Zero(s)]
  /\ blurred = {}

\* Reading and assigning a bit field.
Load(f) == {b \in 0 .. f.room - 1 : b + f.origin \in bits}
Store(f, v) ==
  bits' = {b \in 0 .. 63 : IF b >= f.origin /\ b < f.origin + f.room
                             THEN b - f.origin \in v
                             ELSE b \in bits}

\* Mutant of OverwriteBits: the old value is not masked out.
OrBits(dst, src, pos, len) ==
  {b \in 0 .. 31 : b \in dst \/ b - pos * len \in src}

\* (dst & ~mask) | (src << shift) on 32 bits: bits beyond 31 are lost.
Merge(dst, src, shift, len) ==
  {b \in 0 .. 31 : \/ b \in dst /\ ~(b >= shift /\ b < shift + len)
                   \/ b - shift \in src}

OverwriteBits(dst, src, pos, len) == Merge(dst, src, pos * len, len)

Overwrite(s, v) ==
  LET f == Layout[s.field] IN
  Store(f, OverwriteBits(Load(f), v, Position(s), f.len))

Remember(s, v) ==
  /\ given' = [t \in {t \in DOMAIN given : ~Shares(s, t)} \cup {s} |->
                 IF t = s THEN v ELSE given[t]]
  /\ UNCHANGED word
-----------------------------------------------------------------------------
(* Setters.                                                                *)

\* Setters of one value per local edge that skip what they cannot store.
SetOfEdge(field, localidx, v) ==
  /\ word = Layout[field].word
  /\ \/ localidx > kMaxLocalEdgeIndex /\ UNCHANGED words_vars
     \/ /\ localidx <= kMaxLocalEdgeIndex
        /\ Overwrite(Slot(field, localidx, localidx), v)
        /\ Remember(Slot(field, localidx, localidx), v)
        /\ UNCHANGED blurred

set_local_driveability(localidx, t) == SetOfEdge("local_driveability", localidx, t)
set_turntype(localidx, turntype)    == SetOfEdge("turntype", localidx, turntype)
set_edge_to_left(localidx, left)    == SetOfEdge("edge_to_left", localidx, left)
set_edge_to_right(localidx, right)  == SetOfEdge("edge_to_right", localidx, right)

\* An index beyond the eighth edge: the bits are shifted out of the 24 bit
\* field, but from index 11 on a 32 bit number is shifted by 33 or more, which
\* is undefined.  The shift instructions of x86-64 and ARM64 take the amount
\* modulo 32, a shift the compiler evaluates gives no bit.  (A product beyond
\* 32 bits is the first case again.)
StopImpactTooFar(localidx, v) ==
  LET f == Layout["stopimpact"] IN
  \E shift \in {localidx * f.len, (localidx * f.len) % 32} :
    /\ Store(f, Merge(Load(f), v, shift, f.len))
    /\ blurred' = blurred \cup {t \in DOMAIN given :
                                  /\ t.field = "stopimpact"
                                  /\ t.from * f.len < shift + f.len
                                  /\ shift < t.from * f.len + f.len}
    /\ given' = [t \in DOMAIN given \ {Slot("lineid", 0, 0)} |-> given[t]]
    /\ UNCHANGED word

\* The impact is limited, the index is not tested.
set_stopimpact(localidx, stopimpact) ==
  LET v == IF stopimpact \subseteq kMaxStopImpact THEN stopimpact
                                                  ELSE kMaxStopImpact
      s == Slot("stopimpact", localidx, localidx)
  IN  /\ word = "stopimpact"
      /\ \/ /\ localidx <= kMaxLocalEdgeIndex
            /\ Overwrite(s, v)
            /\ Remember(s, v)
            /\ blurred' = blurred \ {s}
         \/ localidx > kMaxLocalEdgeIndex /\ StopImpactTooFar(localidx, v)

set_name_consistency(from, to, c) ==
  /\ word = "stop"
  /\ \/ /\ from = to \/ from > kMaxLocalEdgeIndex \/ to > kMaxLocalEdgeIndex
        /\ UNCHANGED words_vars
     \/ /\ from # to /\ from <= kMaxLocalEdgeIndex /\ to <= kMaxLocalEdgeIndex
        /\ LET s == IF from < to THEN Slot("name_consistency", from, to)
                                 ELSE Slot("name_consistency", to, from)
           IN  Overwrite(s, c) /\ Remember(s, c)
        /\ UNCHANGED blurred

SetWhole(field, v) ==
  /\ word = Layout[field].word
  /\ Store(Layout[field], v)
  /\ Remember(Slot(field, 0, 0), v)
  /\ UNCHANGED blurred

set_stop_index(stop_index) == SetWhole("stop_index", stop_index)
set_lineid(lineid)         == SetWhole("lineid", lineid)

\* std::round of the degrees times 255/359, and back.
Shrink(degrees) == (510 * degrees + 359) \div 718
Expand(code)    == (718 * code + 255) \div 510
Weight == <<1, 2, 4, 8, 16, 32, 64, 128, 256>>
Byte == [code \in 0 .. 255 |-> {b \in 0 .. 7 : (code \div Weight[b + 1]) % 2 = 1}]

\* Mutant of set_heading: degrees beyond 359.
set_headingUnlimited(localidx, degrees) ==
  /\ word = "headings"
  /\ \/ localidx > kMaxLocalEdgeIndex /\ UNCHANGED words_vars
     \/ /\ localidx <= kMaxLocalEdgeIndex
        /\ bits' = bits \cup {b + 8 * localidx : b \in
                      {b \in 0 .. 8 : (Shrink(degrees) \div Weight[b + 1]) % 2 = 1}}
        /\ Remember(Slot("heading", localidx, localidx), degrees % 360)
        /\ UNCHANGED blurred

\* The bits of the heading are added to those that are there.
set_heading(localidx, degrees) ==
  LET s == Slot("heading", localidx, localidx) IN
  /\ word = "headings"
  /\ \/ localidx > kMaxLocalEdgeIndex /\ UNCHANGED words_vars
     \/ /\ localidx <= kMaxLocalEdgeIndex
        /\ bits' = bits \cup {b + 8 * localidx : b \in Byte[Shrink(degrees % 360)]}
        /\ Remember(s, degrees % 360)
        /\ blurred' = IF given[s] = 0 THEN blurred ELSE blurred \cup {s}

WordsNext ==
  \/ \E i \in Indexes :
       \/ \E t \in SUBSET (0 .. 1) : set_local_driveability(i, t)
       \/ \E t \in SUBSET (0 .. 2) : set_turntype(i, t)
       \/ \E left \in SUBSET {0} : set_edge_to_left(i, left)
       \/ \E right \in SUBSET {0} : set_edge_to_right(i, right)
       \/ \E impact \in StopImpacts : set_stopimpact(i, impact)
       \/ \E j \in Indexes, c \in SUBSET {0} : set_name_consistency(i, j, c)
       \/ \E d \in Degrees : set_heading(i, d)
  \/ \E v \in StopIndexes : set_stop_index(v) \/ set_lineid(v)

WordsSpec == WordsInit /\ [][WordsNext]_words_vars
-----------------------------------------------------------------------------
(* Getters.                                                                *)

\* (field & mask << shift) >> shift
ValueOf(s) ==
  LET f == Layout[s.field] IN
  {b \in 0 .. f.len - 1 : b + Position(s) * f.len \in Load(f)}

name_consistency(from, to) ==
  IF from = to THEN {0}
  ELSE IF from > kMaxLocalEdgeIndex \/ to > kMaxLocalEdgeIndex THEN {}
  ELSE IF from < to THEN ValueOf(Slot("name_consistency", from, to))
                    ELSE ValueOf(Slot("name_consistency", to, from))

heading(s) == Expand(CHOOSE code \in 0 .. 255 : Byte[code] = ValueOf(s))

-----------------------------------------------------------------------------
Size == [local_driveability |-> 16, stop |-> 32, headings |-> 64,
         turntype |-> 24, edge_to_left |-> 8, stopimpact |-> 32]
WordsTypeOK ==
  /\ word \in Words
  /\ bits \subseteq 0 .. Size[word] - 1
  /\ DOMAIN given \subseteq SlotsOf(word)
  /\ \A s \in DOMAIN given :
       IF s.field = "heading" THEN given[s] \in 0 .. 359
                              ELSE given[s] \subseteq 0 .. Layout[s.field].len - 1
  /\ blurred \subseteq SlotsOf(word)

(***************************************************************************)
(* Every value reads back as it was last set, for every local edge and     *)
(* pair and in both orders of a pair, however many others were set in the  *)
(* same word since, whatever index they named, until the other half of its *)
(* union is written (nodeinfo.cc:59-64, 195-212, 309-355,                  *)
(* directededge.cc:502-585).  Not so the one or two stop impacts that lie  *)
(* where a shift too far of another came round: StopImpactsReadBack is     *)
(* about those.                                                            *)
(***************************************************************************)
ReadsBack ==
  \A s \in DOMAIN given \ blurred :
    /\ s.field # "heading" => ValueOf(s) = given[s]
    /\ s.field = "name_consistency" =>
         /\ name_consistency(s.from, s.to) = given[s]
         /\ name_consistency(s.to, s.from) = given[s]

(***************************************************************************)
(* "Get the stop impact when transitioning from the prior edge"            *)
(* (directededge.h:532-536): the impact of each local edge is the one that *)
(* was set for it.  The code breaks this: the impact of an edge with index *)
(* 11 or more, which set_stopimpact does not reject as its sisters do, can *)
(* come round to the bits of another (directededge.cc:547-558).            *)
(***************************************************************************)
StopImpactsReadBack ==
  \A s \in DOMAIN given : s.field = "stopimpact" => ValueOf(s) = given[s]

CloseTo(s) == heading(s) - given[s] \in -1 .. 1

(***************************************************************************)
(* The heading of a local edge that was set once, to any number of         *)
(* degrees, reads back within one degree, with those of the other local    *)
(* edges set before or after it (nodeinfo.cc:359-378).                     *)
(***************************************************************************)
HeadingReadsBack ==
  \A s \in DOMAIN given \ blurred : s.field = "heading" => CloseTo(s)
=============================================================================
