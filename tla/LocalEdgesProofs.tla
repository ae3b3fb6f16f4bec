-------------------------- MODULE LocalEdgesProofs --------------------------
(***************************************************************************)
(* Values read back as set, for all eight local edges and all 28 pairs of  *)
(* them, whatever the arguments.                                           *)
(***************************************************************************)
EXTENDS LocalEdges, TLAPS

\* A slot is the bits First(s) .. First(s) + Width(s) - 1 of its word.
First(s) == Layout[s.field].origin + Position(s) * Layout[s.field].len
Width(s) == Layout[s.field].len

\* The layout, field by field.
LEMMA Fieldwise ==
  /\ Fields = {"local_driveability", "name_consistency", "stop_index", "heading",
               "turntype", "edge_to_left", "stopimpact", "edge_to_right", "lineid"}
  /\ Layout["local_driveability"] = Field("local_driveability", 0, 16, 2)
  /\ Layout["name_consistency"] = Field("stop", 0, 32, 1)
  /\ Layout["stop_index"] = Field("stop", 0, 32, 32)
  /\ Layout["heading"] = Field("headings", 0, 64, 8)
  /\ Layout["turntype"] = Field("turntype", 0, 24, 3)
  /\ Layout["edge_to_left"] = Field("edge_to_left", 0, 8, 1)
  /\ Layout["stopimpact"] = Field("stopimpact", 0, 24, 3)
  /\ Layout["edge_to_right"] = Field("stopimpact", 24, 8, 1)
  /\ Layout["lineid"] = Field("stopimpact", 0, 32, 32)
  BY DEF Fields, Layout

LEMMA WordNames ==
  Words = {"local_driveability", "stop", "headings",
           "turntype", "edge_to_left", "stopimpact"}
  BY Fieldwise DEF Words, Field

LEMMA Sizes ==
  /\ Size["local_driveability"] = 16 /\ Size["stop"] = 32
  /\ Size["headings"] = 64 /\ Size["turntype"] = 24
  /\ Size["edge_to_left"] = 8 /\ Size["stopimpact"] = 32
  BY DEF Size

\* ContinuityLookup gives each pair a bit of its own among 28.
LEMMA PairPositions ==
  ASSUME NEW i \in Local, NEW j \in Local, i < j
  PROVE  /\ PairPosition(i, j) \in 0 .. 27
         /\ \A k \in Local, l \in Local :
              k < l /\ PairPosition(k, l) = PairPosition(i, j) => k = i /\ l = j
<1>1. i \in 0 .. 6
  BY DEF Local, kMaxLocalEdgeIndex
<1>2. \A a \in 0 .. 6 : \/ a = 0 /\ ContinuityLookup[a + 1] = 0
                        \/ a = 1 /\ ContinuityLookup[a + 1] = 7
                        \/ a = 2 /\ ContinuityLookup[a + 1] = 13
                        \/ a = 3 /\ ContinuityLookup[a + 1] = 18
                        \/ a = 4 /\ ContinuityLookup[a + 1] = 22
                        \/ a = 5 /\ ContinuityLookup[a + 1] = 25
                        \/ a = 6 /\ ContinuityLookup[a + 1] = 27
  BY DEF ContinuityLookup
<1>3. PairPosition(i, j) \in 0 .. 27
  BY <1>1, <1>2 DEF PairPosition, Local, kMaxLocalEdgeIndex
<1>4. ASSUME NEW k \in Local, NEW l \in Local, k < l,
             PairPosition(k, l) = PairPosition(i, j)
      PROVE  k = i /\ l = j
  <2>1. k \in 0 .. 6
    BY <1>4 DEF Local, kMaxLocalEdgeIndex
  <2> QED
    BY <1>1, <1>2, <1>4, <2>1 DEF PairPosition, Local, kMaxLocalEdgeIndex
<1> QED
  BY <1>3, <1>4

\* Every slot lies in its field, and its field in its word.
LEMMA SlotFits ==
  ASSUME NEW s \in Slots
  PROVE  LET f == Layout[s.field] IN
         /\ Position(s) \in Nat
         /\ f.origin \in Nat /\ f.room \in Nat /\ f.len \in Nat \ {0}
         /\ f.word \in Words
         /\ Position(s) * f.len \in Nat
         /\ Position(s) * f.len + f.len <= f.room
         /\ f.origin + f.room <= Size[f.word]
         /\ Size[f.word] \in 0 .. 64
         /\ s.field # "heading" => Size[f.word] <= 32
<1>1. /\ s.field \in Fields /\ s.from \in Local /\ s.to \in Local
      /\ s.field \in Whole => s.from = 0
      /\ s.field = "name_consistency" => s.from < s.to
  BY DEF Slots
<1>2. s.from \in 0 .. 7 /\ s.to \in 0 .. 7
  BY <1>1 DEF Local, kMaxLocalEdgeIndex
<1>3. CASE s.field = "name_consistency"
  <2>1. Position(s) \in 0 .. 27
    BY <1>1, <1>3, PairPositions DEF Position
  <2> QED
    BY <1>3, <2>1, Fieldwise, Sizes, WordNames DEF Field
<1>4. CASE s.field # "name_consistency"
  <2>1. Position(s) = s.from
    BY <1>4 DEF Position
  <2>2. CASE s.field \in Whole
    <3>1. Position(s) = 0
      BY <1>1, <2>1, <2>2
    <3>2. CASE s.field = "stop_index"
      BY <3>1, <3>2, Fieldwise, Sizes, WordNames DEF Field
    <3>3. CASE s.field = "lineid"
      BY <3>1, <3>3, Fieldwise, Sizes, WordNames DEF Field
    <3> QED
      BY <2>2, <3>2, <3>3 DEF Whole
  <2>3. CASE s.field \in {"local_driveability", "turntype", "stopimpact"}
    BY <1>2, <2>1, <2>3, Fieldwise, Sizes, WordNames DEF Field
  <2>4. CASE s.field \in {"edge_to_left", "edge_to_right"}
    BY <1>2, <2>1, <2>4, Fieldwise, Sizes, WordNames DEF Field
  <2>5. CASE s.field = "heading"
    BY <1>2, <2>1, <2>5, Fieldwise, Sizes, WordNames DEF Field
  <2> QED
    BY <1>1, <1>4, <2>2, <2>3, <2>4, <2>5, Fieldwise DEF Whole
<1> QED
  BY <1>3, <1>4

\* Slots of a word that are not halves of a union do not overlap.
LEMMA SlotsDisjoint ==
  ASSUME NEW s \in Slots, NEW t \in Slots, s # t, ~Shares(s, t),
         Layout[s.field].word = Layout[t.field].word
  PROVE  First(s) + Width(s) <= First(t) \/ First(t) + Width(t) <= First(s)
<1>1. /\ s.field \in Fields /\ s.from \in 0 .. 7 /\ s.to \in 0 .. 7
      /\ t.field \in Fields /\ t.from \in 0 .. 7 /\ t.to \in 0 .. 7
      /\ s = [field |-> s.field, from |-> s.from, to |-> s.to]
      /\ t = [field |-> t.field, from |-> t.from, to |-> t.to]
  BY DEF Slots, Local, kMaxLocalEdgeIndex
<1>2. s.field \notin Whole /\ t.field \notin Whole
  BY DEF Shares
<1>3. CASE s.field = "name_consistency"
  <2>1. t.field = "name_consistency"
    BY <1>1, <1>2, <1>3, Fieldwise DEF Field, Whole
  <2>2. /\ s.from \in Local /\ s.to \in Local /\ s.from < s.to
        /\ t.from \in Local /\ t.to \in Local /\ t.from < t.to
    BY <1>3, <2>1 DEF Slots
  <2>3. Position(s) \in Nat /\ Position(t) \in Nat /\ Position(s) # Position(t)
    BY <1>1, <1>3, <2>1, <2>2, PairPositions DEF Position
  <2> QED
    BY <1>3, <2>1, <2>3, Fieldwise DEF First, Width, Field
<1>4. CASE s.field # "name_consistency"
  <2>1. t.field # "name_consistency"
    BY <1>1, <1>2, <1>4, Fieldwise DEF Field, Whole
  <2>2. Position(s) = s.from /\ Position(t) = t.from
    BY <1>4, <2>1 DEF Position
  <2>3. s.from = s.to /\ t.from = t.to
    BY <1>1, <1>2, <1>4, <2>1 DEF Slots, OfEdge
  <2>4. CASE s.field = t.field
    <3>1. s.from # t.from
      BY <1>1, <2>3, <2>4
    <3> QED
      BY <1>1, <1>2, <1>4, <2>2, <2>4, <3>1, Fieldwise DEF First, Width, Field, Whole
  <2>5. CASE s.field # t.field
    <3>1. {s.field, t.field} = {"stopimpact", "edge_to_right"}
      BY <1>1, <1>2, <1>4, <2>1, <2>5, Fieldwise DEF Field, Whole
    <3>2. CASE s.field = "stopimpact" /\ t.field = "edge_to_right"
      BY <1>1, <2>2, <3>2, Fieldwise DEF First, Width, Field
    <3>3. CASE t.field = "stopimpact" /\ s.field = "edge_to_right"
      BY <1>1, <2>2, <3>3, Fieldwise DEF First, Width, Field
    <3> QED
      BY <2>5, <3>1, <3>2, <3>3
  <2> QED
    BY <2>4, <2>5
<1> QED
  BY <1>3, <1>4
-----------------------------------------------------------------------------
(* What a slot holds.                                                      *)

\* The value in slot s of the bits B.
Chunk(B, s) == {b \in 0 .. Width(s) - 1 : First(s) + b \in B}

LEMMA ValueIsChunk ==
  ASSUME NEW s \in Slots, NEW B
  PROVE  LET f == Layout[s.field] IN
         {b \in 0 .. f.len - 1 :
            b + Position(s) * f.len \in {c \in 0 .. f.room - 1 : c + f.origin \in B}}
         = Chunk(B, s)
<1> DEFINE f == Layout[s.field]
<1>1. /\ f.origin \in Nat /\ f.room \in Nat /\ f.len \in Nat
      /\ Position(s) * f.len \in Nat /\ Position(s) * f.len + f.len <= f.room
  BY SlotFits
<1>2. \A b \in 0 .. f.len - 1 :
        /\ b + Position(s) * f.len \in 0 .. f.room - 1
        /\ b + Position(s) * f.len + f.origin = First(s) + b
  BY <1>1 DEF First
<1> QED
  BY <1>2 DEF Chunk, Width

\* Writing s writes the bits of s, and no others.
LEMMA OverwriteOnlySlot ==
  ASSUME NEW s \in Slots, s.field \notin {"heading"},
         NEW v, v \subseteq 0 .. Width(s) - 1,
         word = Layout[s.field].word, bits \subseteq 0 .. Size[word] - 1,
         Overwrite(s, v)
  PROVE  /\ bits' \subseteq 0 .. Size[word] - 1
         /\ \A c \in 0 .. 63 :
              c \in bits' <=> IF First(s) <= c /\ c < First(s) + Width(s)
                                THEN c - First(s) \in v ELSE c \in bits
<1> DEFINE f == Layout[s.field]
           at == Position(s) * f.len
<1>1. /\ f.origin \in Nat /\ f.room \in Nat /\ f.len \in Nat \ {0}
      /\ at \in Nat /\ at + f.len <= f.room
      /\ f.origin + f.room <= Size[word] /\ Size[word] \in 0 .. 32
      /\ First(s) = f.origin + at /\ Width(s) = f.len
  BY SlotFits DEF First, Width
<1>a. ASSUME NEW c \in 0 .. 63
      PROVE  /\ First(s) <= c /\ c < First(s) + Width(s)
                => /\ c >= f.origin /\ c < f.origin + f.room
                   /\ c - f.origin \in 0 .. 31
                   /\ c - f.origin >= at /\ c - f.origin < at + f.len
                   /\ (c - f.origin) - at = c - First(s)
             /\ /\ ~(First(s) <= c /\ c < First(s) + Width(s))
                /\ c >= f.origin /\ c < f.origin + f.room
                => /\ c - f.origin \in 0 .. f.room - 1
                   /\ c - f.origin \in 0 .. 31
                   /\ (c - f.origin) + f.origin = c
                   /\ ~(c - f.origin >= at /\ c - f.origin < at + f.len)
                   /\ (c - f.origin) - at \notin 0 .. Width(s) - 1
  <2> DEFINE origin == f.origin
             room == f.room
             len == f.len
             size == Size[word]
  <2>1. /\ origin \in Nat /\ room \in Nat /\ at \in Nat /\ len \in Nat \ {0}
        /\ size \in 0 .. 32 /\ at + len <= room /\ origin + room <= size
        /\ First(s) = origin + at /\ Width(s) = len
    BY <1>1
  <2> HIDE DEF f, at, origin, room, len, size
  <2>2. /\ First(s) <= c /\ c < First(s) + Width(s)
            => /\ c >= origin /\ c < origin + room
               /\ c - origin \in 0 .. 31
               /\ c - origin >= at /\ c - origin < at + len
               /\ (c - origin) - at = c - First(s)
    BY <2>1
  <2>3. /\ ~(First(s) <= c /\ c < First(s) + Width(s))
        /\ c >= origin /\ c < origin + room
        => /\ c - origin \in 0 .. room - 1
           /\ c - origin \in 0 .. 31
           /\ (c - origin) + origin = c
           /\ ~(c - origin >= at /\ c - origin < at + len)
           /\ (c - origin) - at \notin 0 .. Width(s) - 1
    BY <2>1
  <2> QED
    BY <2>2, <2>3 DEF origin, room, len
<1> DEFINE old == Load(f)
           new == OverwriteBits(old, v, Position(s), f.len)
<1>2. \A b : b \in old <=> b \in 0 .. f.room - 1 /\ b + f.origin \in bits
  BY DEF Load
<1>3. \A b : b \in new <=> /\ b \in 0 .. 31
                           /\ \/ b \in old /\ ~(b >= at /\ b < at + f.len)
                              \/ b - at \in v
  BY DEF OverwriteBits, Merge
<1>4. bits' = {b \in 0 .. 63 : IF b >= f.origin /\ b < f.origin + f.room
                                 THEN b - f.origin \in new ELSE b \in bits}
  BY DEF Overwrite, Store
<1>5. bits' \subseteq 0 .. Size[word] - 1
  <2>1. \A b \in 0 .. 63 : b < f.origin + f.room => b \in 0 .. Size[word] - 1
    BY <1>1
  <2> HIDE DEF f, at, old, new
  <2>2. \A b \in bits' : b \in 0 .. Size[word] - 1
    <3> TAKE b \in bits'
    <3>1. b \in 0 .. 63
      BY <1>4
    <3>2. CASE b >= f.origin /\ b < f.origin + f.room
      BY <2>1, <3>1, <3>2
    <3>3. CASE ~(b >= f.origin /\ b < f.origin + f.room)
      BY <1>4, <3>3
    <3> QED
      BY <3>2, <3>3
  <2> QED
    BY <2>2
<1>6. ASSUME NEW c \in 0 .. 63
      PROVE  c \in bits' <=> IF First(s) <= c /\ c < First(s) + Width(s)
                               THEN c - First(s) \in v ELSE c \in bits
  <2> HIDE DEF f, at, old, new
  <2>1. CASE First(s) <= c /\ c < First(s) + Width(s)
    <3>1. /\ c >= f.origin /\ c < f.origin + f.room
          /\ c - f.origin \in 0 .. 31
          /\ c - f.origin >= at /\ c - f.origin < at + f.len
          /\ (c - f.origin) - at = c - First(s)
      BY <1>a, <2>1
    <3> QED
      BY <1>3, <1>4, <2>1, <3>1
  <2>2. CASE ~(First(s) <= c /\ c < First(s) + Width(s))
    <3>1. CASE c >= f.origin /\ c < f.origin + f.room
      <4>1. /\ c - f.origin \in 0 .. f.room - 1
            /\ c - f.origin \in 0 .. 31
            /\ (c - f.origin) + f.origin = c
            /\ ~(c - f.origin >= at /\ c - f.origin < at + f.len)
            /\ (c - f.origin) - at \notin 0 .. Width(s) - 1
        BY <1>a, <2>2, <3>1
      <4>2. (c - f.origin) - at \notin v
        BY <4>1
      <4>3. c \in bits' <=> c - f.origin \in new
        BY <1>4, <3>1
      <4>4. c - f.origin \in new <=> c - f.origin \in old
        BY <1>3, <4>1, <4>2
      <4>5. c - f.origin \in old <=> c \in bits
        BY <1>2, <4>1
      <4> QED
        BY <2>2, <4>3, <4>4, <4>5
    <3>2. CASE ~(c >= f.origin /\ c < f.origin + f.room)
      BY <1>4, <2>2, <3>2
    <3> QED
      BY <3>1, <3>2
  <2> QED
    BY <2>1, <2>2
<1> QED
  BY <1>5, <1>6

\* So s then holds v, and the slots beside it what they held.
LEMMA OverwriteChunks ==
  ASSUME NEW s \in Slots, NEW v, v \subseteq 0 .. Width(s) - 1,
         \A c \in 0 .. 63 :
           c \in bits' <=> IF First(s) <= c /\ c < First(s) + Width(s)
                         THEN c - First(s) \in v ELSE c \in bits
  PROVE  /\ Chunk(bits', s) = v
         /\ \A t \in Slots :
              /\ t # s /\ ~Shares(s, t)
              /\ Layout[s.field].word = Layout[t.field].word
              => Chunk(bits', t) = Chunk(bits, t)
<1>1. ASSUME NEW t \in Slots
      PROVE  /\ First(t) \in Nat /\ Width(t) \in Nat \ {0}
             /\ \A b \in 0 .. Width(t) - 1 : First(t) + b \in 0 .. 63
  <2> DEFINE f == Layout[t.field]
             at == Position(t) * f.len
  <2>1. /\ f.origin \in Nat /\ f.room \in Nat /\ f.len \in Nat \ {0}
        /\ at \in Nat /\ at + f.len <= f.room
        /\ f.origin + f.room <= Size[f.word] /\ Size[f.word] \in 0 .. 64
        /\ First(t) = f.origin + at /\ Width(t) = f.len
    BY SlotFits DEF First, Width
  <2> HIDE DEF f, at
  <2>2. First(t) \in Nat /\ Width(t) \in Nat \ {0} /\ First(t) + Width(t) <= 64
    BY <2>1
  <2> QED
    BY <2>2
<1>2. Chunk(bits', s) = v
  <2>1. \A b \in 0 .. Width(s) - 1 : First(s) + b \in bits' <=> b \in v
    <3> TAKE b \in 0 .. Width(s) - 1
    <3>1. /\ First(s) + b \in 0 .. 63
          /\ First(s) <= First(s) + b /\ First(s) + b < First(s) + Width(s)
          /\ (First(s) + b) - First(s) = b
      BY <1>1
    <3> QED
      BY <3>1
  <2> QED
    BY <2>1 DEF Chunk
<1>3. ASSUME NEW t \in Slots, t # s, ~Shares(s, t),
             Layout[s.field].word = Layout[t.field].word
      PROVE  Chunk(bits', t) = Chunk(bits, t)
  <2>1. First(s) + Width(s) <= First(t) \/ First(t) + Width(t) <= First(s)
    BY <1>3, SlotsDisjoint
  <2>2. \A b \in 0 .. Width(t) - 1 : First(t) + b \in bits' <=> First(t) + b \in bits
    <3> TAKE b \in 0 .. Width(t) - 1
    <3>1. /\ First(t) + b \in 0 .. 63
          /\ ~(First(s) <= First(t) + b /\ First(t) + b < First(s) + Width(s))
      BY <1>1, <2>1
    <3> QED
      BY <3>1
  <2> QED
    BY <2>2 DEF Chunk
<1> QED
  BY <1>2, <1>3
-----------------------------------------------------------------------------
(* The invariant.                                                          *)

\* Slot s of the bits B holds what is written down for it, if nothing else was
\* written into it.
Holds(B, s, value, isblurred) ==
  isblurred \/ IF s.field = "heading" THEN Chunk(B, s) = Byte[Shrink(value)]
                                     ELSE Chunk(B, s) = value
Held == \A s \in DOMAIN given : Holds(bits, s, given[s], s \in blurred)
HeadingsKnown == word = "headings" => DOMAIN given = SlotsOf(word)
IInv == WordsTypeOK /\ HeadingsKnown /\ Held

\* The values a slot takes.
IsValue(s, v) == IF s.field = "heading" THEN v \in 0 .. 359
                                        ELSE v \subseteq 0 .. Width(s) - 1

LEMMA ShrunkHeading ==
  ASSUME NEW d \in 0 .. 359
  PROVE  /\ Shrink(d) \in 0 .. 255
         /\ Expand(Shrink(d)) - d \in -1 .. 1
  BY DEF Shrink, Expand

LEMMA ZeroByte == Shrink(0) = 0 /\ Byte[0] = {}
<1>1. Shrink(0) = 0
  BY DEF Shrink
<1>2. \A b \in 0 .. 7 : Weight[b + 1] \in Nat \ {0}
  BY DEF Weight
<1>3. \A w \in Nat \ {0} : (0 \div w) % 2 = 0
  OBVIOUS
<1>4. Byte[0] = {b \in 0 .. 7 : (0 \div Weight[b + 1]) % 2 = 1}
  BY DEF Byte
<1>5. \A b \in 0 .. 7 : ~((0 \div Weight[b + 1]) % 2 = 1)
  BY <1>2, <1>3
<1> QED
  BY <1>1, <1>4, <1>5

THEOREM Initially == WordsInit => IInv
<1> SUFFICES ASSUME WordsInit PROVE IInv
  OBVIOUS
<1>1. \A s \in SlotsOf(word) : given[s] = Zero(s) /\ Chunk(bits, s) = {}
  BY DEF WordsInit, Chunk
<1>2. WordsTypeOK
  <2>1. bits \subseteq 0 .. Size[word] - 1 /\ blurred \subseteq SlotsOf(word)
        /\ word \in Words /\ DOMAIN given = SlotsOf(word)
    BY DEF WordsInit
  <2>2. \A s \in SlotsOf(word) : IF s.field = "heading" THEN given[s] \in 0 .. 359
                           ELSE given[s] \subseteq 0 .. Layout[s.field].len - 1
    BY <1>1 DEF Zero
  <2> QED
    BY <2>1, <2>2 DEF WordsTypeOK
<1>3. Held
  BY <1>1, ZeroByte DEF WordsInit, Held, Holds, Zero
<1> QED
  BY <1>2, <1>3 DEF IInv, WordsInit, HeadingsKnown

\* What is written down after s was set to v.
LEMMA Remembered ==
  ASSUME WordsTypeOK, NEW s \in SlotsOf(word), NEW v, IsValue(s, v), Remember(s, v)
  PROVE  /\ word' = word
         /\ s \in DOMAIN given' /\ DOMAIN given' \subseteq SlotsOf(word)
         /\ given'[s] = v
         /\ \A t \in DOMAIN given' \ {s} :
              /\ t \in DOMAIN given /\ ~Shares(s, t) /\ given'[t] = given[t]
         /\ \A t \in DOMAIN given' : IsValue(t, given'[t])
         /\ \A t \in DOMAIN given : ~Shares(s, t) => t \in DOMAIN given'
<1> DEFINE left == {t \in DOMAIN given : ~Shares(s, t)}
<1>1. /\ DOMAIN given' = left \cup {s}
      /\ \A t \in left \cup {s} : given'[t] = IF t = s THEN v ELSE given[t]
  BY DEF Remember
<1>2. DOMAIN given \subseteq SlotsOf(word)
  BY DEF WordsTypeOK
<1>3. \A t \in DOMAIN given : IsValue(t, given[t])
  BY DEF WordsTypeOK, IsValue, Width
<1> QED
  BY <1>1, <1>2, <1>3 DEF Remember

\* Setting a value of a local edge or of a pair.
LEMMA SetValue ==
  ASSUME IInv, NEW s \in SlotsOf(word), s.field # "heading",
         NEW v, v \subseteq 0 .. Width(s) - 1,
         Overwrite(s, v), Remember(s, v),
         blurred' \subseteq blurred, blurred \ {s} \subseteq blurred'
  PROVE  IInv'
<1>1. WordsTypeOK /\ s \in Slots /\ Layout[s.field].word = word /\ IsValue(s, v)
  BY DEF IInv, SlotsOf, IsValue
<1>2. /\ bits' \subseteq 0 .. Size[word] - 1
      /\ \A c \in 0 .. 63 :
           c \in bits' <=> IF First(s) <= c /\ c < First(s) + Width(s)
                             THEN c - First(s) \in v ELSE c \in bits
  BY <1>1, OverwriteOnlySlot DEF WordsTypeOK
<1>3. /\ Chunk(bits', s) = v
      /\ \A t \in Slots :
           /\ t # s /\ ~Shares(s, t) /\ Layout[s.field].word = Layout[t.field].word
           => Chunk(bits', t) = Chunk(bits, t)
  BY <1>1, <1>2, OverwriteChunks, Zenon
<1>4. WordsTypeOK'
  BY <1>1, <1>2, Remembered DEF WordsTypeOK, IsValue, Width
<1>5. HeadingsKnown'
  <2>1. word # "headings"
    BY <1>1, Fieldwise DEF Slots, Field
  <2> QED
    BY <1>1, <2>1, Remembered DEF HeadingsKnown
<1>6. Held'
  <2>1. ASSUME NEW t \in DOMAIN given'
        PROVE  Holds(bits', t, given'[t], t \in blurred')
    <3>1. CASE t = s
      BY <1>1, <1>3, <3>1, Remembered DEF Holds
    <3>2. CASE t # s
      <4>1. /\ t \in DOMAIN given /\ ~Shares(s, t) /\ given'[t] = given[t]
            /\ t \in SlotsOf(word)
        BY <1>1, <3>2, Remembered DEF WordsTypeOK
      <4>2. Chunk(bits', t) = Chunk(bits, t)
        BY <1>1, <1>3, <3>2, <4>1 DEF SlotsOf
      <4>3. Holds(bits, t, given[t], t \in blurred)
        BY <4>1 DEF IInv, Held
      <4>4. t \in blurred => t \in blurred'
        BY <3>2
      <4> QED
        BY <4>1, <4>2, <4>3, <4>4 DEF Holds
    <3> QED
      BY <3>1, <3>2
  <2> QED
    BY <2>1 DEF Held
<1> QED
  BY <1>4, <1>5, <1>6 DEF IInv

\* Setting the whole word of a union.
LEMMA SetUnion ==
  ASSUME IInv, NEW field \in Whole, NEW v \in SUBSET (0 .. 31), SetWhole(field, v)
  PROVE  IInv'
<1> DEFINE s == Slot(field, 0, 0)
<1>1. /\ s \in Slots /\ s.field = field /\ field # "heading"
      /\ word = Layout[field].word /\ word # "headings" /\ Size[word] = 32
      /\ Layout[field].origin = 0 /\ Layout[field].room = 32 /\ Layout[field].len = 32
  BY Fieldwise, Sizes
     DEF SetWhole, Whole, Slot, Slots, OfEdge, Local, kMaxLocalEdgeIndex, Field
<1>2. s \in SlotsOf(word) /\ IsValue(s, v) /\ WordsTypeOK /\ Remember(s, v) /\ blurred' = blurred
  BY <1>1 DEF SlotsOf, IsValue, Width, IInv, SetWhole
<1> HIDE DEF s
<1>3. bits' = {b \in 0 .. 63 : IF b >= 0 /\ b < 0 + 32 THEN b - 0 \in v ELSE b \in bits}
  BY <1>1 DEF SetWhole, Store
<1>4. bits' = v
  <2>1. \A b \in bits : b \in 0 .. 31
    BY <1>1 DEF IInv, WordsTypeOK
  <2>2. \A b \in 0 .. 63 :
          (IF b >= 0 /\ b < 0 + 32 THEN b - 0 \in v ELSE b \in bits) <=> b \in v
    <3> TAKE b \in 0 .. 63
    <3>1. CASE b < 32
      <4>1. b >= 0 /\ b < 0 + 32 /\ b - 0 = b
        BY <3>1
      <4> QED
        BY <4>1
    <3>2. CASE ~(b < 32)
      <4>1. ~(b < 0 + 32) /\ b \notin v /\ b \notin bits
        BY <2>1, <3>2
      <4> QED
        BY <4>1
    <3> QED
      BY <3>1, <3>2
  <2>3. v \subseteq 0 .. 63
    OBVIOUS
  <2> QED
    BY <1>3, <2>2, <2>3
<1>5. Chunk(bits', s) = v
  <2>1. First(s) = 0 /\ Width(s) = 32
    <3>1. Position(s) \in Nat /\ Position(s) = s.from
      BY <1>1, SlotFits DEF Position, Whole
    <3>2. s.from = 0
      BY <1>1 DEF Slots
    <3> QED
      BY <1>1, <3>1, <3>2 DEF First, Width
  <2>2. Chunk(bits', s) = {b \in 0 .. 31 : 0 + b \in v}
    BY <1>4, <2>1 DEF Chunk
  <2>3. \A b \in 0 .. 31 : 0 + b = b
    OBVIOUS
  <2> QED
    BY <2>2, <2>3
<1>6. DOMAIN given' = {s}
  <2>1. \A t \in SlotsOf(word) \ {s} : Shares(s, t)
    BY <1>1 DEF SlotsOf, Shares
  <2> QED
    BY <1>2, <2>1, Remembered
<1>7. WordsTypeOK'
  BY <1>1, <1>2, <1>4, Remembered DEF WordsTypeOK, IsValue, Width
<1> QED
  BY <1>1, <1>2, <1>5, <1>6, <1>7, Remembered DEF IInv, HeadingsKnown, Held, Holds

\* A heading adds its byte to the bits of its slot.
LEMMA HeadingBits ==
  ASSUME NEW i \in Local, NEW code, code \subseteq 0 .. 7,
         bits' = bits \cup {b + 8 * i : b \in code}, bits \subseteq 0 .. 63
  PROVE  LET s == Slot("heading", i, i) IN
         /\ bits' \subseteq 0 .. 63
         /\ Chunk(bits', s) = Chunk(bits, s) \cup code
         /\ \A t \in SlotsOf("headings") \ {s} : Chunk(bits', t) = Chunk(bits, t)
<1> DEFINE s == Slot("heading", i, i)
<1>1. i \in 0 .. 7
  BY DEF Local, kMaxLocalEdgeIndex
<1>2. ASSUME NEW t \in SlotsOf("headings")
      PROVE  /\ t.from \in 0 .. 7 /\ t = Slot("heading", t.from, t.from)
             /\ First(t) = 8 * t.from /\ Width(t) = 8
  <2>1. t \in Slots /\ t.field = "heading"
    BY Fieldwise DEF SlotsOf, Slots, Field
  <2>2. t.from = t.to /\ t.from \in 0 .. 7
    BY <2>1, Fieldwise DEF Slots, OfEdge, Whole, Local, kMaxLocalEdgeIndex
  <2>3. t = Slot("heading", t.from, t.from)
    BY <2>1, <2>2 DEF Slots, Slot
  <2> QED
    BY <2>1, <2>2, <2>3, Fieldwise DEF First, Width, Position, Field
<1>3. s \in SlotsOf("headings") /\ s.from = i
  BY Fieldwise DEF SlotsOf, Slots, Slot, OfEdge, Whole, Field
<1> HIDE DEF s
<1>4. bits' \subseteq 0 .. 63
  <2>1. \A b \in code : b + 8 * i \in 0 .. 63
    BY <1>1
  <2> QED
    BY <2>1
<1>5. \A c : c \in bits' <=> c \in bits \/ \E b \in code : c = b + 8 * i
  OBVIOUS
<1>6. Chunk(bits', s) = Chunk(bits, s) \cup code
  <2>1. First(s) = 8 * i /\ Width(s) = 8
    BY <1>2, <1>3
  <2>2. \A c \in 0 .. 7 : First(s) + c \in bits' <=> First(s) + c \in bits \/ c \in code
    <3> TAKE c \in 0 .. 7
    <3>1. \A b \in code : First(s) + c = b + 8 * i <=> b = c
      BY <1>1, <2>1
    <3> QED
      BY <1>5, <3>1
  <2>3. /\ Chunk(bits', s) = {c \in 0 .. 7 : First(s) + c \in bits'}
        /\ Chunk(bits, s) = {c \in 0 .. 7 : First(s) + c \in bits}
    BY <2>1 DEF Chunk
  <2>4. \A c \in 0 .. 7 :
          c \in Chunk(bits', s) <=> c \in Chunk(bits, s) \/ c \in code
    BY <2>2, <2>3
  <2>5. Chunk(bits', s) \subseteq 0 .. 7 /\ Chunk(bits, s) \subseteq 0 .. 7
    BY <2>3
  <2> QED
    BY <2>4, <2>5
<1>7. ASSUME NEW t \in SlotsOf("headings") \ {s}
      PROVE  Chunk(bits', t) = Chunk(bits, t)
  <2>1. /\ t.from \in 0 .. 7 /\ First(t) = 8 * t.from /\ Width(t) = 8
        /\ t.from # i
    BY <1>2, <1>3
  <2>2. \A c \in 0 .. 7 : First(t) + c \in bits' <=> First(t) + c \in bits
    <3> TAKE c \in 0 .. 7
    <3>1. \A b \in code : First(t) + c # b + 8 * i
      <4> TAKE b \in code
      <4>1. b \in 0 .. 7
        OBVIOUS
      <4> QED
        BY <1>1, <2>1, <4>1
    <3> QED
      BY <1>5, <3>1
  <2> QED
    BY <2>1, <2>2 DEF Chunk
<1> QED
  BY <1>4, <1>6, <1>7 DEF s

LEMMA ByteTypes ==
  ASSUME NEW d \in Nat
  PROVE  /\ d % 360 \in 0 .. 359
         /\ Byte[Shrink(d % 360)] \subseteq 0 .. 7
<1>1. d % 360 \in 0 .. 359
  OBVIOUS
<1>2. Shrink(d % 360) \in 0 .. 255
  BY <1>1, ShrunkHeading
<1> QED
  BY <1>1, <1>2 DEF Byte

LEMMA SetHeading ==
  ASSUME IInv, NEW i \in Indexes, NEW d \in Degrees, set_heading(i, d),
         i <= kMaxLocalEdgeIndex
  PROVE  IInv'
<1> DEFINE s == Slot("heading", i, i)
           code == Byte[Shrink(d % 360)]
<1>1. i \in Local /\ i \in 0 .. 7
  BY LocalArguments DEF Local, kMaxLocalEdgeIndex
<1>2. /\ word = "headings" /\ bits' = bits \cup {b + 8 * i : b \in code}
      /\ Remember(s, d % 360)
      /\ blurred' = IF given[s] = 0 THEN blurred ELSE blurred \cup {s}
  BY <1>1 DEF set_heading, kMaxLocalEdgeIndex
<1>3. /\ s \in SlotsOf("headings") /\ s.field = "heading"
      /\ \A t \in SlotsOf("headings") : t.field = "heading" /\ ~Shares(s, t)
  BY <1>1, Fieldwise DEF SlotsOf, Slots, Slot, OfEdge, Whole, Field, Shares
<1>4. code \subseteq 0 .. 7 /\ d % 360 \in 0 .. 359 /\ IsValue(s, d % 360)
  BY <1>3, ByteTypes, LocalArguments DEF IsValue
<1>5. bits \subseteq 0 .. 63 /\ Size[word] = 64
  BY <1>2, Sizes DEF IInv, WordsTypeOK
<1>6. /\ bits' \subseteq 0 .. 63
      /\ Chunk(bits', s) = Chunk(bits, s) \cup code
      /\ \A t \in SlotsOf("headings") \ {s} : Chunk(bits', t) = Chunk(bits, t)
  BY <1>1, <1>2, <1>4, <1>5, HeadingBits
<1> HIDE DEF s
<1>7. /\ word' = word /\ s \in DOMAIN given' /\ DOMAIN given' \subseteq SlotsOf(word)
      /\ given'[s] = d % 360
      /\ \A t \in DOMAIN given' \ {s} : t \in DOMAIN given /\ given'[t] = given[t]
      /\ \A t \in DOMAIN given' : IsValue(t, given'[t])
      /\ \A t \in DOMAIN given : ~Shares(s, t) => t \in DOMAIN given'
  BY <1>2, <1>3, <1>4, Remembered DEF IInv
<1>8. WordsTypeOK'
  <2>1. blurred' \subseteq SlotsOf(word)
    BY <1>2, <1>3 DEF IInv, WordsTypeOK
  <2> QED
    BY <1>2, <1>5, <1>6, <1>7, <2>1 DEF IInv, WordsTypeOK, IsValue, Width
<1>9. DOMAIN given' = SlotsOf(word)
  BY <1>2, <1>3, <1>7 DEF IInv, HeadingsKnown
<1>10. Held'
  <2>1. ASSUME NEW t \in DOMAIN given'
        PROVE  Holds(bits', t, given'[t], t \in blurred')
    <3>1. t \in SlotsOf("headings") /\ t \in DOMAIN given /\ t.field = "heading"
      BY <1>2, <1>3, <1>7 DEF IInv, HeadingsKnown
    <3>2. t \in blurred \/ Chunk(bits, t) = Byte[Shrink(given[t])]
      BY <3>1 DEF IInv, Held, Holds
    <3>3. CASE t = s
      <4>1. CASE s \in blurred'
        BY <3>1, <3>3, <4>1 DEF Holds
      <4>2. CASE s \notin blurred'
        <5>1. s \notin blurred /\ given[s] = 0
          BY <1>2, <4>2
        <5>2. Chunk(bits', s) = code
          BY <1>6, <3>2, <3>3, <5>1, ZeroByte
        <5> QED
          BY <1>7, <3>1, <3>3, <5>2 DEF Holds
      <4> QED
        BY <4>1, <4>2
    <3>4. CASE t # s
      <4>1. Chunk(bits', t) = Chunk(bits, t) /\ given'[t] = given[t]
        BY <1>6, <1>7, <3>1, <3>4
      <4>2. t \in blurred => t \in blurred'
        BY <1>2
      <4> QED
        BY <3>1, <3>2, <4>1, <4>2 DEF Holds
    <3> QED
      BY <3>3, <3>4
  <2> QED
    BY <2>1 DEF Held
<1> QED
  BY <1>7, <1>8, <1>9, <1>10 DEF IInv, HeadingsKnown

\* Merging into the 24 bits of the stop impacts changes three of them.
LEMMA MergeBits ==
  ASSUME NEW shift \in Nat, NEW v, v \subseteq 0 .. 2, bits \subseteq 0 .. 31,
         Store(Layout["stopimpact"], Merge(Load(Layout["stopimpact"]), v, shift, 3))
  PROVE  /\ bits' \subseteq 0 .. 31
         /\ \A b \in 0 .. 63 :
              ~(shift <= b /\ b < shift + 3 /\ b < 24) => (b \in bits' <=> b \in bits)
<1> DEFINE f == Layout["stopimpact"]
           new == Merge(Load(f), v, shift, 3)
<1>1. f.origin = 0 /\ f.room = 24
  BY Fieldwise DEF Field
<1>2. bits' = {b \in 0 .. 63 : IF b >= 0 /\ b < 0 + 24 THEN b - 0 \in new ELSE b \in bits}
  BY <1>1 DEF Store
<1>3. ASSUME NEW b \in 0 .. 63, ~(shift <= b /\ b < shift + 3 /\ b < 24)
      PROVE  b \in bits' <=> b \in bits
  <2>1. CASE b < 24
    <3>1. /\ b \in 0 .. 31 /\ b - 0 = b /\ b >= 0 /\ b < 0 + 24
          /\ ~(b >= shift /\ b < shift + 3) /\ b - shift \notin v
      BY <1>3, <2>1
    <3>2. b \in Load(f) <=> b \in bits
      <4>1. b \in 0 .. 24 - 1 /\ b + 0 = b
        BY <2>1
      <4> QED
        BY <1>1, <4>1 DEF Load
    <3>3. b \in new <=> b \in Load(f)
      BY <3>1 DEF Merge
    <3> QED
      BY <1>2, <3>1, <3>2, <3>3
  <2>2. CASE ~(b < 24)
    BY <1>2, <2>2
  <2> QED
    BY <2>1, <2>2
<1>4. bits' \subseteq 0 .. 31
  <2>1. \A b \in bits' : b \in 0 .. 63 /\ (b < 24 \/ b \in bits)
    BY <1>2
  <2> QED
    BY <2>1
<1> QED
  BY <1>3, <1>4

\* So a stop impact too far leaves what is not blurred as it is.
LEMMA TooFarChunks ==
  ASSUME NEW shift \in Nat, NEW t \in SlotsOf("stopimpact"), t.field # "lineid",
         \A b \in 0 .. 63 :
           ~(shift <= b /\ b < shift + 3 /\ b < 24) => (b \in bits' <=> b \in bits),
         ~(t.field = "stopimpact" /\ t.from * 3 < shift + 3 /\ shift < t.from * 3 + 3)
  PROVE  Chunk(bits', t) = Chunk(bits, t)
<1>1. /\ t \in Slots /\ t.from \in 0 .. 7
      /\ t.field \in {"stopimpact", "edge_to_right"} /\ Position(t) = t.from
  BY Fieldwise DEF SlotsOf, Slots, Local, kMaxLocalEdgeIndex, Field, Position
<1>2. CASE t.field = "stopimpact"
  <2>1. First(t) = t.from * 3 /\ Width(t) = 3
    BY <1>1, <1>2, Fieldwise DEF First, Width, Field
  <2>2. \A b \in 0 .. 2 : First(t) + b \in bits' <=> First(t) + b \in bits
    BY <1>1, <1>2, <2>1
  <2> QED
    BY <2>1, <2>2 DEF Chunk
<1>3. CASE t.field = "edge_to_right"
  <2>1. First(t) = 24 + t.from /\ Width(t) = 1
    BY <1>1, <1>3, Fieldwise DEF First, Width, Field
  <2>2. \A b \in 0 .. 0 : First(t) + b \in bits' <=> First(t) + b \in bits
    BY <1>1, <2>1
  <2> QED
    BY <2>1, <2>2 DEF Chunk
<1> QED
  BY <1>1, <1>2, <1>3
-----------------------------------------------------------------------------
(* Every setter keeps the invariant.                                       *)

LEMMA SetOfEdgeKeeps ==
  ASSUME IInv, NEW i \in Indexes, NEW v,
         NEW field \in {"local_driveability", "turntype", "edge_to_left",
                        "edge_to_right"},
         v \subseteq 0 .. Layout[field].len - 1, SetOfEdge(field, i, v)
  PROVE  IInv'
<1> DEFINE s == Slot(field, i, i)
<1>1. CASE i > kMaxLocalEdgeIndex
  <2>1. UNCHANGED words_vars
    BY <1>1, LocalArguments DEF SetOfEdge, kMaxLocalEdgeIndex
  <2> QED
    BY <2>1 DEF IInv, WordsTypeOK, HeadingsKnown, Held, words_vars
<1>2. CASE ~(i > kMaxLocalEdgeIndex)
  <2>1. i \in Local
    BY <1>2, LocalArguments DEF Local, kMaxLocalEdgeIndex
  <2>2. /\ s \in SlotsOf(word) /\ s.field # "heading" /\ Width(s) = Layout[field].len
    BY <2>1, Fieldwise
       DEF SetOfEdge, SlotsOf, Slots, Slot, OfEdge, Whole, Field, Width
  <2>3. Overwrite(s, v) /\ Remember(s, v) /\ blurred' = blurred
    BY <1>2 DEF SetOfEdge
  <2>4. v \subseteq 0 .. Width(s) - 1
    BY <2>2
  <2> HIDE DEF s
  <2> QED
    BY <2>2, <2>3, <2>4, SetValue
<1> QED
  BY <1>1, <1>2

LEMMA SetStopImpactKeeps ==
  ASSUME IInv, NEW i \in Indexes, NEW impact \in StopImpacts,
         set_stopimpact(i, impact)
  PROVE  IInv'
<1> DEFINE v == IF impact \subseteq kMaxStopImpact THEN impact ELSE kMaxStopImpact
           s == Slot("stopimpact", i, i)
<1>1. v \subseteq 0 .. 2
  BY DEF kMaxStopImpact
<1>2. word = "stopimpact"
  BY DEF set_stopimpact
<1>3. CASE /\ i <= kMaxLocalEdgeIndex
           /\ Overwrite(s, v) /\ Remember(s, v) /\ blurred' = blurred \ {s}
  <2>1. i \in Local
    BY <1>3, LocalArguments DEF Local, kMaxLocalEdgeIndex
  <2>2. /\ s \in SlotsOf(word) /\ s.field # "heading" /\ Width(s) = 3
    BY <1>2, <2>1, Fieldwise DEF SlotsOf, Slots, Slot, OfEdge, Whole, Field, Width
  <2>3. v \subseteq 0 .. Width(s) - 1
    BY <1>1, <2>2
  <2>4. blurred' \subseteq blurred /\ blurred \ {s} \subseteq blurred'
    BY <1>3
  <2> HIDE DEF s, v
  <2> QED
    BY <1>3, <2>2, <2>3, <2>4, SetValue
<1>4. CASE StopImpactTooFar(i, v)
  <2> DEFINE f == Layout["stopimpact"]
             left == DOMAIN given \ {Slot("lineid", 0, 0)}
  <2>1. f.len = 3
    BY Fieldwise DEF Field
  <2> HIDE DEF v
  <2>2. PICK shift \in {i * 3, (i * 3) % 32} :
          /\ Store(f, Merge(Load(f), v, shift, 3))
          /\ blurred' = blurred \cup {t \in DOMAIN given :
                                        /\ t.field = "stopimpact"
                                        /\ t.from * 3 < shift + 3
                                        /\ shift < t.from * 3 + 3}
          /\ given' = [t \in left |-> given[t]]
          /\ word' = word
    BY <1>4, <2>1 DEF StopImpactTooFar
  <2>3. shift \in Nat
    BY LocalArguments
  <2>4. bits \subseteq 0 .. 31 /\ Size[word] = 32
    BY <1>2, Sizes DEF IInv, WordsTypeOK
  <2>5. /\ bits' \subseteq 0 .. 31
        /\ \A b \in 0 .. 63 :
             ~(shift <= b /\ b < shift + 3 /\ b < 24) => (b \in bits' <=> b \in bits)
    BY <1>1, <2>2, <2>3, <2>4, MergeBits
  <2>6. DOMAIN given' = left /\ \A t \in left : given'[t] = given[t]
    BY <2>2
  <2>7. WordsTypeOK'
    BY <2>2, <2>4, <2>5, <2>6 DEF IInv, WordsTypeOK
  <2>8. ASSUME NEW t \in DOMAIN given'
        PROVE  Holds(bits', t, given'[t], t \in blurred')
    <3>1. t \in left /\ given'[t] = given[t] /\ t \in SlotsOf("stopimpact")
      BY <1>2, <2>6 DEF IInv, WordsTypeOK
    <3>2. t.field # "lineid"
      BY <3>1, Fieldwise DEF SlotsOf, Slots, Slot, Whole
    <3>3. Holds(bits, t, given[t], t \in blurred)
      BY <3>1 DEF IInv, Held
    <3>4. CASE t \in blurred'
      BY <3>4 DEF Holds
    <3>5. CASE t \notin blurred'
      <4>1. t \notin blurred
        BY <2>2, <3>5
      <4>2. ~(t.field = "stopimpact" /\ t.from * 3 < shift + 3 /\ shift < t.from * 3 + 3)
        BY <2>2, <3>1, <3>5
      <4>3. Chunk(bits', t) = Chunk(bits, t)
        BY <2>3, <2>5, <3>1, <3>2, <4>2, TooFarChunks
      <4> QED
        BY <3>1, <3>3, <4>1, <4>3 DEF Holds
    <3> QED
      BY <3>4, <3>5
  <2>9. Held'
    BY <2>8 DEF Held
  <2> QED
    BY <1>2, <2>2, <2>7, <2>9 DEF IInv, HeadingsKnown
<1> QED
  BY <1>3, <1>4 DEF set_stopimpact

LEMMA SetNameConsistencyKeeps ==
  ASSUME IInv, NEW i \in Indexes, NEW j \in Indexes, NEW c \in SUBSET {0},
         set_name_consistency(i, j, c)
  PROVE  IInv'
<1>1. CASE UNCHANGED words_vars
  BY <1>1 DEF IInv, WordsTypeOK, HeadingsKnown, Held, words_vars
<1>2. CASE /\ i # j /\ i <= kMaxLocalEdgeIndex /\ j <= kMaxLocalEdgeIndex
           /\ LET s == IF i < j THEN Slot("name_consistency", i, j)
                                ELSE Slot("name_consistency", j, i)
              IN  Overwrite(s, c) /\ Remember(s, c)
           /\ UNCHANGED blurred
  <2> DEFINE s == IF i < j THEN Slot("name_consistency", i, j)
                           ELSE Slot("name_consistency", j, i)
  <2>1. i \in Local /\ j \in Local /\ (i < j \/ j < i)
    BY <1>2, LocalArguments DEF Local, kMaxLocalEdgeIndex
  <2>2. s \in Slots /\ s.field = "name_consistency"
    BY <2>1, Fieldwise DEF Slots, Slot, OfEdge, Whole
  <2>3. s \in SlotsOf(word) /\ Width(s) = 1 /\ c \subseteq 0 .. Width(s) - 1
    BY <2>2, Fieldwise DEF set_name_consistency, SlotsOf, Field, Width
  <2>4. Overwrite(s, c) /\ Remember(s, c) /\ blurred' = blurred
    BY <1>2
  <2> HIDE DEF s
  <2> QED
    BY <2>2, <2>3, <2>4, SetValue
<1> QED
  BY <1>1, <1>2 DEF set_name_consistency

THEOREM Step == IInv /\ [WordsNext]_words_vars => IInv'
<1> SUFFICES ASSUME IInv, [WordsNext]_words_vars PROVE IInv'
  OBVIOUS
<1>1. Layout["local_driveability"].len = 2 /\ Layout["turntype"].len = 3
      /\ Layout["edge_to_left"].len = 1 /\ Layout["edge_to_right"].len = 1
  BY Fieldwise DEF Field
<1>2. ASSUME NEW i \in Indexes, NEW t \in SUBSET (0 .. 1), set_local_driveability(i, t)
      PROVE  IInv'
  <2>1. t \subseteq 0 .. Layout["local_driveability"].len - 1
    BY <1>1
  <2>2. SetOfEdge("local_driveability", i, t)
    BY <1>2 DEF set_local_driveability
  <2> QED
    BY <2>1, <2>2, SetOfEdgeKeeps, Zenon
<1>3. ASSUME NEW i \in Indexes, NEW t \in SUBSET (0 .. 2), set_turntype(i, t)
      PROVE  IInv'
  <2>1. t \subseteq 0 .. Layout["turntype"].len - 1
    BY <1>1
  <2>2. SetOfEdge("turntype", i, t)
    BY <1>3 DEF set_turntype
  <2> QED
    BY <2>1, <2>2, SetOfEdgeKeeps, Zenon
<1>4. ASSUME NEW i \in Indexes, NEW left \in SUBSET {0}, set_edge_to_left(i, left)
      PROVE  IInv'
  <2>1. left \subseteq 0 .. Layout["edge_to_left"].len - 1
    BY <1>1
  <2>2. SetOfEdge("edge_to_left", i, left)
    BY <1>4 DEF set_edge_to_left
  <2> QED
    BY <2>1, <2>2, SetOfEdgeKeeps, Zenon
<1>5. ASSUME NEW i \in Indexes, NEW right \in SUBSET {0}, set_edge_to_right(i, right)
      PROVE  IInv'
  <2>1. right \subseteq 0 .. Layout["edge_to_right"].len - 1
    BY <1>1
  <2>2. SetOfEdge("edge_to_right", i, right)
    BY <1>5 DEF set_edge_to_right
  <2> QED
    BY <2>1, <2>2, SetOfEdgeKeeps, Zenon
<1>6. ASSUME NEW i \in Indexes, NEW d \in Degrees, set_heading(i, d)
      PROVE  IInv'
  <2>1. CASE i <= kMaxLocalEdgeIndex
    BY <1>6, <2>1, SetHeading
  <2>2. CASE UNCHANGED words_vars
    BY <2>2 DEF IInv, WordsTypeOK, HeadingsKnown, Held, words_vars
  <2> QED
    BY <1>6, <2>1, <2>2 DEF set_heading
<1>7. ASSUME NEW v \in StopIndexes, set_stop_index(v) PROVE IInv'
  BY <1>7, LocalArguments, SetUnion DEF set_stop_index, Whole
<1>8. ASSUME NEW v \in StopIndexes, set_lineid(v) PROVE IInv'
  BY <1>8, LocalArguments, SetUnion DEF set_lineid, Whole
<1>9. CASE UNCHANGED words_vars
  BY <1>9 DEF IInv, WordsTypeOK, HeadingsKnown, Held, words_vars
<1> QED
  BY <1>2, <1>3, <1>4, <1>5, <1>6, <1>7, <1>8, <1>9,
     SetStopImpactKeeps, SetNameConsistencyKeeps DEF WordsNext

THEOREM Invariance == WordsSpec => []IInv
  BY Initially, Step, PTL DEF WordsSpec

(***************************************************************************)
(* Words stay within their bits, and what is written down is of the type   *)
(* of its field.                                                           *)
(***************************************************************************)
THEOREM TypesKept == WordsSpec => []WordsTypeOK
<1>1. IInv => WordsTypeOK
  BY DEF IInv
<1> QED
  BY <1>1, Invariance, PTL

(***************************************************************************)
(* Each value of each of the eight local edges and of each pair of them    *)
(* reads back as last set, whatever indexes the others were set for, but   *)
(* for a stop impact that one with an index of 11 or more came round to    *)
(* (nodeinfo.cc:195-212, 309-355, directededge.cc:502-585).                *)
(***************************************************************************)
THEOREM ValuesReadBack == WordsSpec => []ReadsBack
<1>1. IInv => ReadsBack
  <2> SUFFICES ASSUME IInv, NEW s \in DOMAIN given \ blurred
               PROVE  /\ s.field # "heading" => ValueOf(s) = given[s]
                      /\ s.field = "name_consistency" =>
                           /\ name_consistency(s.from, s.to) = given[s]
                           /\ name_consistency(s.to, s.from) = given[s]
    BY DEF ReadsBack
  <2>1. s \in Slots
    BY DEF IInv, WordsTypeOK, SlotsOf
  <2>2. ValueOf(s) = Chunk(bits, s)
    BY <2>1, ValueIsChunk DEF ValueOf, Load
  <2>3. s.field # "heading" => ValueOf(s) = given[s]
    BY <2>2 DEF IInv, Held, Holds
  <2>4. ASSUME s.field = "name_consistency"
        PROVE  name_consistency(s.from, s.to) = ValueOf(s)
               /\ name_consistency(s.to, s.from) = ValueOf(s)
    <3>1. /\ s.from \in 0 .. 7 /\ s.to \in 0 .. 7 /\ s.from < s.to
          /\ s = Slot("name_consistency", s.from, s.to)
      BY <2>1, <2>4 DEF Slots, Slot, Local, kMaxLocalEdgeIndex
    <3>2. /\ s.from # s.to /\ ~(s.to < s.from)
          /\ ~(s.from > kMaxLocalEdgeIndex) /\ ~(s.to > kMaxLocalEdgeIndex)
      BY <3>1 DEF kMaxLocalEdgeIndex
    <3> QED
      BY <3>1, <3>2 DEF name_consistency
  <2> QED
    BY <2>3, <2>4
<1> QED
  BY <1>1, Invariance, PTL

\* A byte is known by its bits.
LEMMA BitsOfByte ==
  ASSUME NEW k \in 0 .. 255
  PROVE  /\ 0 \in Byte[k] <=> (k \div 1) % 2 = 1
         /\ 1 \in Byte[k] <=> (k \div 2) % 2 = 1
         /\ 2 \in Byte[k] <=> (k \div 4) % 2 = 1
         /\ 3 \in Byte[k] <=> (k \div 8) % 2 = 1
         /\ 4 \in Byte[k] <=> (k \div 16) % 2 = 1
         /\ 5 \in Byte[k] <=> (k \div 32) % 2 = 1
         /\ 6 \in Byte[k] <=> (k \div 64) % 2 = 1
         /\ 7 \in Byte[k] <=> (k \div 128) % 2 = 1
<1>1. \A b \in 0 .. 7 : b \in Byte[k] <=> (k \div Weight[b + 1]) % 2 = 1
  BY DEF Byte
<1>2. 0 \in Byte[k] <=> (k \div 1) % 2 = 1
  BY <1>1, 0 \in 0 .. 7 DEF Weight
<1>3. 1 \in Byte[k] <=> (k \div 2) % 2 = 1
  BY <1>1, 1 \in 0 .. 7 DEF Weight
<1>4. 2 \in Byte[k] <=> (k \div 4) % 2 = 1
  BY <1>1, 2 \in 0 .. 7 DEF Weight
<1>5. 3 \in Byte[k] <=> (k \div 8) % 2 = 1
  BY <1>1, 3 \in 0 .. 7 DEF Weight
<1>6. 4 \in Byte[k] <=> (k \div 16) % 2 = 1
  BY <1>1, 4 \in 0 .. 7 DEF Weight
<1>7. 5 \in Byte[k] <=> (k \div 32) % 2 = 1
  BY <1>1, 5 \in 0 .. 7 DEF Weight
<1>8. 6 \in Byte[k] <=> (k \div 64) % 2 = 1
  BY <1>1, 6 \in 0 .. 7 DEF Weight
<1>9. 7 \in Byte[k] <=> (k \div 128) % 2 = 1
  BY <1>1, 7 \in 0 .. 7 DEF Weight
<1> QED
  BY <1>2, <1>3, <1>4, <1>5, <1>6, <1>7, <1>8, <1>9

LEMMA SumOfBits ==
  ASSUME NEW k \in 0 .. 255
  PROVE  k = ((k \div 1) % 2) + 2 * ((k \div 2) % 2) + 4 * ((k \div 4) % 2)
             + 8 * ((k \div 8) % 2) + 16 * ((k \div 16) % 2)
             + 32 * ((k \div 32) % 2) + 64 * ((k \div 64) % 2)
             + 128 * ((k \div 128) % 2)
  OBVIOUS

LEMMA ByteIsItsBits ==
  ASSUME NEW m \in 0 .. 255, NEW n \in 0 .. 255, Byte[m] = Byte[n]
  PROVE  m = n
<1>1. (m \div 1) % 2 = (n \div 1) % 2
  <2>1. (m \div 1) % 2 = 1 <=> (n \div 1) % 2 = 1
    BY BitsOfByte, Zenon
  <2> QED
    BY <2>1
<1>2. (m \div 2) % 2 = (n \div 2) % 2
  <2>1. (m \div 2) % 2 = 1 <=> (n \div 2) % 2 = 1
    BY BitsOfByte, Zenon
  <2> QED
    BY <2>1
<1>3. (m \div 4) % 2 = (n \div 4) % 2
  <2>1. (m \div 4) % 2 = 1 <=> (n \div 4) % 2 = 1
    BY BitsOfByte, Zenon
  <2> QED
    BY <2>1
<1>4. (m \div 8) % 2 = (n \div 8) % 2
  <2>1. (m \div 8) % 2 = 1 <=> (n \div 8) % 2 = 1
    BY BitsOfByte, Zenon
  <2> QED
    BY <2>1
<1>5. (m \div 16) % 2 = (n \div 16) % 2
  <2>1. (m \div 16) % 2 = 1 <=> (n \div 16) % 2 = 1
    BY BitsOfByte, Zenon
  <2> QED
    BY <2>1
<1>6. (m \div 32) % 2 = (n \div 32) % 2
  <2>1. (m \div 32) % 2 = 1 <=> (n \div 32) % 2 = 1
    BY BitsOfByte, Zenon
  <2> QED
    BY <2>1
<1>7. (m \div 64) % 2 = (n \div 64) % 2
  <2>1. (m \div 64) % 2 = 1 <=> (n \div 64) % 2 = 1
    BY BitsOfByte, Zenon
  <2> QED
    BY <2>1
<1>8. (m \div 128) % 2 = (n \div 128) % 2
  <2>1. (m \div 128) % 2 = 1 <=> (n \div 128) % 2 = 1
    BY BitsOfByte, Zenon
  <2> QED
    BY <2>1
<1> QED
  BY <1>1, <1>2, <1>3, <1>4, <1>5, <1>6, <1>7, <1>8, SumOfBits

(***************************************************************************)
(* A heading that was set once reads back within one degree, for every     *)
(* local edge and every number of degrees (nodeinfo.cc:359-378).           *)
(***************************************************************************)
THEOREM HeadingsReadBack == WordsSpec => []HeadingReadsBack
<1>1. IInv => HeadingReadsBack
  <2> SUFFICES ASSUME IInv, NEW s \in DOMAIN given \ blurred, s.field = "heading"
               PROVE  CloseTo(s)
    BY DEF HeadingReadsBack
  <2>1. s \in Slots /\ given[s] \in 0 .. 359
    BY DEF IInv, WordsTypeOK, SlotsOf
  <2>2. ValueOf(s) = Chunk(bits, s)
    BY <2>1, ValueIsChunk DEF ValueOf, Load
  <2>3. Chunk(bits, s) = Byte[Shrink(given[s])]
    BY DEF IInv, Held, Holds
  <2>4. Shrink(given[s]) \in 0 .. 255
    BY <2>1, ShrunkHeading
  <2>5. \A code \in 0 .. 255 : Byte[code] = ValueOf(s) <=> code = Shrink(given[s])
    BY <2>2, <2>3, <2>4, ByteIsItsBits
  <2>6. (CHOOSE code \in 0 .. 255 : Byte[code] = ValueOf(s)) = Shrink(given[s])
    BY <2>4, <2>5
  <2>7. heading(s) = Expand(Shrink(given[s]))
    BY <2>6 DEF heading
  <2> QED
    BY <2>1, <2>7, ShrunkHeading DEF CloseTo
<1> QED
  BY <1>1, Invariance, PTL
=============================================================================
