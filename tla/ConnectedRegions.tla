-------------------------- MODULE ConnectedRegions ---------------------------
(***************************************************************************)
(* What AreConnected promises its callers (graphreader.h:33-44): there is  *)
(* one division of the tiles into regions, made before the first answer    *)
(* and never changed, and two tiles are connected when they lie in the     *)
(* same region.  Region 0 stands for no region.                            *)
(***************************************************************************)
EXTENDS Naturals

CONSTANTS Pairs, RegionOf(_, _)   \* RegionOf(regions, id)

VARIABLES regions, made, answer

None == [of |-> <<>>, connected |-> FALSE]

Init == made = FALSE /\ answer = None

Make == /\ ~ made
        /\ made' = TRUE
        /\ UNCHANGED answer

Reply(pair) ==
  /\ made
  /\ answer' = [of |-> pair,
                connected |-> /\ RegionOf(regions, pair[1]) = RegionOf(regions, pair[2])
                              /\ RegionOf(regions, pair[1]) # 0]
  /\ UNCHANGED <<regions, made>>

Next == Make \/ \E pair \in Pairs : Reply(pair)

Spec == Init /\ [][Next]_<<regions, made, answer>>
=============================================================================
