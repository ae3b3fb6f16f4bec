------------------------------ MODULE MCValues -------------------------------
(***************************************************************************)
(* The classes that callers of the tiles keep their values in: dates and   *)
(* service days, times of the clock, locations on the graph, and street    *)
(* names.  They have no variable in common, and a behaviour follows one of *)
(* them while the others rest in an initial state.                         *)
(***************************************************************************)
EXTENDS ServiceDays, LocalTime, PathLocation, StreetNames, TLC

\* Feeds around every boundary of the sixty day window and of the mask: ended,
\* running, starting later, starting so late that the window leaves the mask,
\* and too late.
MCTileDate == 1000
MCDates == {MCTileDate + n : n \in {-70, -1, 0, 1, 4, 5, 30, 59, 60, 64, 130}}
MCDowMasks == {{}, {0, 6}, Weekdays}

\* Five hours behind UTC, with a summer time of a day; and one without.
MCZones == {[base |-> -18000, from |-> 194400, to |-> 280800, shift |-> 3600],
            [base |-> 0, from |-> 0, to |-> 7200, shift |-> 3600]}

\* Before, at, within and after the change in both directions, in both of the
\* hours shown twice, and where a day ends; with and without seconds.
MCInstants == {100000, 194350, 194400, 195000, 197990, 230400, 259210, 277250,
               280799, 280800, 281230, 284400, 300000, 363600, 432000}

\* Among them two that one byte does not tell apart, or tells in the wrong order.
MCTimes == {0, 300, 3840, 7680, 7860, 28800, 46800, 86340}
MCDurations == {0, 45, 600, 3600, 90000}

\* Two processes; an edge at whose ends the location may lie, by distances
\* that are ends, equal up to the tolerance, or apart; a second edge.
CONSTANTS e1, e2, h1, h2, v1, v2
Edge(id, dist, sos) == [id |-> id, dist |-> dist, sos |-> sos]
MCEdges == {Edge(e1, 0, NONE), Edge(e1, 1, NONE), Edge(e2, 10, LEFT),
            Edge(e2, 4, RIGHT), Edge(e2, 5, RIGHT)}
\* Two points that are taken for one.
MCApproximatelyEqual == {v1, v2} \X {v1, v2} \cup {<<NoVertex, NoVertex>>}
MCSymmetry == Permutations({h1, h2})

\* A road with and without directions, two directions alone, and one; all
\* lists of up to two names.
MCNames == {<<"Main">>, <<"Main", "North">>, <<"North", "Main">>,
            <<"Main", "Northeast">>, <<"North", "West">>, <<"West">>}
MCLists == {<<>>} \cup {<<n>> : n \in MCNames} \cup (MCNames \X MCNames)

VARIABLE part
mc_vars == <<part, vars, clock_vars, path_vars, names_vars>>

DaysAtRest  == feed = [start |-> TileDate, end |-> TileDate, dow |-> {}] /\ Init
ClockAtRest == now = 100000 /\ zone = NoZone /\ ClockInit
PathAtRest  == location = [h \in Holders |-> Uncorrelated(FALSE)] /\ PathInit
NamesAtRest == NamesInit

MCInit ==
  \/ part = "days"  /\ Init       /\ ClockAtRest /\ PathAtRest /\ NamesAtRest
  \/ part = "clock" /\ DaysAtRest /\ ClockInit   /\ PathAtRest /\ NamesAtRest
  \/ part = "path"  /\ DaysAtRest /\ ClockAtRest /\ PathInit   /\ NamesAtRest
  \/ part = "names" /\ DaysAtRest /\ ClockAtRest /\ PathAtRest /\ NamesInit

\* The end of the stretch of road.
NamesDone == part = "names" /\ Len(edges) = MaxStretch /\ UNCHANGED mc_vars

MCNext ==
  \/ part = "days"  /\ Next      /\ UNCHANGED <<part, clock_vars, path_vars, names_vars>>
  \/ part = "clock" /\ ClockNext /\ UNCHANGED <<part, vars, path_vars, names_vars>>
  \/ part = "path"  /\ PathNext  /\ UNCHANGED <<part, vars, clock_vars, names_vars>>
  \/ part = "names" /\ NamesNext /\ UNCHANGED <<part, vars, clock_vars, path_vars>>
  \/ NamesDone

MCSpec == MCInit /\ [][MCNext]_mc_vars
==============================================================================
