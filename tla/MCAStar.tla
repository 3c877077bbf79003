------------------------------- MODULE MCAStar -------------------------------
(***************************************************************************)
(* astar on a small map, and the map loader on all small maps.             *)
(***************************************************************************)
EXTENDS AStar, SmallGraphs

\* All 3 by 3 maps of free cells and obstacles
T == INSTANCE Grid WITH Height <- 3, Width <- 3, Straight <- 2, Diagonal <- 3
Rows == [1..3 -> {"free", "obstacle"}]
Maps == {a \o <<"newline">> \o b \o <<"newline">> \o c : a, b, c \in Rows}

\* A map is loaded into the graph of its touching cells: a cell that is no
\* obstacle holds the id of its vertex, and two vertices have an arc, in both
\* classes of graphs, exactly if their cells touch.
ASSUME MapsLoaded ==
    \A chars \in Maps :
       LET m   == T!load(chars)
           at  == m.vertices
           ids == DOMAIN at
       IN  /\ \A c \in T!Cell : m.grid[c] # T!OBSTACLE => m.grid[c] \in ids /\ at[m.grid[c]] = c
           /\ \A life \in BOOLEAN : \A u \in ids :
                 LET arcs == T!arcsFrom(life, m.grid, at, u)
                 IN  {arcs[k].vertex : k \in DOMAIN arcs} =
                     {x \in ids \ {u} : /\ T!Abs(at[u][1] - at[x][1]) <= 1
                                       /\ T!Abs(at[u][2] - at[x][2]) <= 1}

\* Graph::pathlen charges a step from u to x, by weight_between(x, u), what the
\* arc from u to x weighs, so it measures paths as they were searched.
ASSUME GraphMeasured ==
    \A chars \in Maps :
       LET m == T!load(chars)
       IN  \A u \in DOMAIN m.vertices :
              LET arcs == T!arcsFrom(FALSE, m.grid, m.vertices, u)
              IN  \A k \in DOMAIN arcs :
                     arcs[k].weight = T!weight_between(FALSE, m.vertices, arcs[k].vertex, u)

==============================================================================
