----------------------------- MODULE SmallGraphs -----------------------------
(***************************************************************************)
(* The graphs the searches are checked on.                                 *)
(***************************************************************************)
EXTENDS Integers, Sequences, TLC

To(x, wt) == [vertex |-> x, weight |-> wt]

\* A diamond with a zero-weight cycle between 1 and 2, as in row 0 of a LifeGraph:
\* the cheaper way to 2 leads over 1, and 1 and 2 both lead to 3.
DiamondVertex == 0..3
DiamondNeighbors ==
    0 :> <<To(1, 2), To(2, 3)>> @@ 1 :> <<To(3, 1), To(2, 0)>>
      @@ 2 :> <<To(1, 0), To(3, 1)>> @@ 3 :> <<>>
DiamondHeuristic == 0 :> 2 @@ 1 :> 1 @@ 2 :> 1 @@ 3 :> 0

\* The destination 3 has no arc into it.
CutNeighbors ==
    0 :> <<To(1, 1), To(2, 3)>> @@ 1 :> <<To(2, 1), To(0, 1)>>
      @@ 2 :> <<To(1, 1)>> @@ 3 :> <<To(2, 1)>>
CutHeuristic == 0 :> 2 @@ 1 :> 0 @@ 2 :> 0 @@ 3 :> 0

\* The map  . . . # #   numbered  0 1 2 - -
\*          . # . # #             3 - 4 - -
\*          . . . # .             5 6 7 - 8
\* with arcs of length 2 and 3 for 10000 and 14142.
R == INSTANCE Grid WITH Height <- 3, Width <- 5, Straight <- 2, Diagonal <- 3
RingMap ==
    R!load(<<"free", "free", "free", "obstacle", "obstacle", "newline",
             "free", "obstacle", "free", "obstacle", "obstacle", "newline",
             "free", "free", "free", "obstacle", "free", "newline">>)
RingVertex == 0..8
RingNeighbors ==
    0 :> <<To(1, 2), To(3, 2)>> @@ 1 :> <<To(0, 2), To(2, 2), To(3, 3), To(4, 3)>>
      @@ 2 :> <<To(1, 2), To(4, 2)>> @@ 3 :> <<To(0, 2), To(1, 3), To(5, 2), To(6, 3)>>
      @@ 4 :> <<To(1, 3), To(2, 2), To(6, 3), To(7, 2)>> @@ 5 :> <<To(3, 2), To(6, 2)>>
      @@ 6 :> <<To(3, 3), To(4, 3), To(5, 2), To(7, 2)>> @@ 7 :> <<To(4, 2), To(6, 2)>>
      @@ 8 :> <<>>
ASSUME RingFromMap ==
    /\ DOMAIN RingMap.vertices = RingVertex
    /\ \A x \in RingVertex :
          RingNeighbors[x] = R!arcsFrom(FALSE, RingMap.grid, RingMap.vertices, x)

\* No estimate, as LifeGraph::weighted_manhattan computes it, which gives many
\* ties; and the distance on a map without obstacles, which is consistent and
\* too small around the obstacle in the middle
RingNoEstimate == [u \in RingVertex |-> [x \in RingVertex |-> 0]]
RingOctile ==
    [u \in RingVertex |-> [x \in RingVertex |->
        LET dr == R!Abs(RingMap.vertices[u][1] - RingMap.vertices[x][1])
            dc == R!Abs(RingMap.vertices[u][2] - RingMap.vertices[x][2])
        IN  IF dr < dc THEN 3 * dr + 2 * (dc - dr) ELSE 3 * dc + 2 * (dr - dc)]]
RingEstimates == {RingNoEstimate, RingOctile}
RingHeuristic == [x \in RingVertex |-> 0]   \* astar takes its heuristic from the estimates

\* For pase: 1 and 2 can be expanded in parallel, 3 has to wait for 1.  The
\* estimates are the distances, and 3 where there is no path.
FanVertex == 0..4
FanNeighbors ==
    0 :> <<To(1, 1), To(2, 1), To(3, 3)>> @@ 1 :> <<To(3, 1), To(0, 1)>>
      @@ 2 :> <<To(4, 2)>> @@ 3 :> <<To(4, 1)>> @@ 4 :> <<>>
FanHeuristic == 0 :> 3 @@ 1 :> 2 @@ 2 :> 2 @@ 3 :> 1 @@ 4 :> 0
FanEstimate ==
    [u \in FanVertex |-> [x \in FanVertex |->
        CASE u = x -> 0
          [] x = 4 -> FanHeuristic[u]
          [] <<u, x>> \in {<<0, 1>>, <<0, 2>>, <<1, 3>>, <<1, 0>>} -> 1
          [] <<u, x>> \in {<<0, 3>>, <<1, 2>>} -> 2
          [] OTHER -> 3]]

\* For the parallel ARA*: 3 looks nearer over 2, and is expanded, before the
\* shorter way over 1 is found.
DetourVertex == 0..4
DetourNeighbors ==
    0 :> <<To(1, 1), To(2, 1)>> @@ 1 :> <<To(3, 2)>> @@ 2 :> <<To(3, 3)>>
      @@ 3 :> <<To(4, 4), To(2, 3)>> @@ 4 :> <<>>
DetourHeuristic == 0 :> 2 @@ 1 :> 3 @@ 2 :> 1 @@ 3 :> 1 @@ 4 :> 0
DetourEstimate == [u \in DetourVertex |-> [x \in DetourVertex |-> IF u = x THEN 0 ELSE 1]]

\* For the SBPL planner: 0 and 1 share an array of the table; expanding them
\* needs 2 and 3, which share the next one; 4 is in a third.
ForkVertex == 0..4
ForkNeighbors ==
    0 :> <<To(1, 1), To(2, 2)>> @@ 1 :> <<To(3, 1), To(2, 0)>>
      @@ 2 :> <<To(4, 2)>> @@ 3 :> <<To(2, 1), To(4, 2)>> @@ 4 :> <<To(0, 1)>>
ForkHeuristic == [x \in ForkVertex |-> 0]

==============================================================================
