--------------------------------- MODULE Grid ---------------------------------
(***************************************************************************)
(* The grid graphs of src/src/shared/weighted_graph.hpp: how a constructor *)
(* reads a map, which arcs populate_neighbors makes out of it, and what    *)
(* weight_between says of them.  Graph has unit costs; LifeGraph (life)    *)
(* multiplies by the row.  All of it is sequential, hence operators.       *)
(***************************************************************************)
EXTENDS Integers, FiniteSets, SequencesExt

CONSTANTS
    Height, Width,
    Straight,     \* 10000 in the code
    Diagonal      \* 14142 in the code

OBSTACLE == -1

Cell == (0..Height - 1) \X (0..Width - 1)

drow == <<-1, -1, -1, 0, 0, 1, 1, 1>>
dcol == <<-1, 0, 1, -1, 1, -1, 0, 1>>
dist == <<Diagonal, Straight, Diagonal, Straight, Straight, Diagonal, Straight, Diagonal>>

\* A map that is being read: the cell the next character is for, row by row; the
\* grid, which vector::resize fills with zeros; the coordinates of the vertices,
\* whose ids are 0, 1, ...
NoChars == [pos |-> 0, grid |-> [c \in Cell |-> 0], vertices |-> [x \in {} |-> <<0, 0>>]]

next_id(m) == Cardinality(DOMAIN m.vertices)

\* One character of the map: free, an obstacle, a newline, which does not
\* advance, or another one, which is reported and leaves its cell as it was.
readChar(m, c) ==
    LET cell == <<m.pos \div Width, m.pos % Width>>
        id   == next_id(m)
    IN  CASE c = "free"     -> [pos      |-> m.pos + 1,
                                grid     |-> [m.grid EXCEPT ![cell] = id],
                                vertices |-> [x \in 0..id |-> IF x = id THEN cell ELSE m.vertices[x]]]
          [] c = "obstacle" -> [m EXCEPT !.pos = @ + 1, !.grid[cell] = OBSTACLE]
          [] c = "newline"  -> m
          [] OTHER          -> [m EXCEPT !.pos = @ + 1]

\* The loops of the constructors over the characters of a map
load(chars) == FoldLeft(readChar, NoChars, chars)

Abs(n) == IF n < 0 THEN -n ELSE n

\* The cell in direction i of the coordinates c
Toward(c, i) == <<c[1] + drow[i], c[2] + dcol[i]>>

\* The arcs populate_neighbors appends for vertex v, in the order of the
\* directions.  A LifeGraph arc costs the row it leads to.
arcsFrom(life, grid, vertices, v) ==
    LET ok(i) == Toward(vertices[v], i) \in Cell /\ grid[Toward(vertices[v], i)] # OBSTACLE
        dirs  == SelectSeq(<<1, 2, 3, 4, 5, 6, 7, 8>>, ok)
    IN  [k \in 1..Len(dirs) |->
           [vertex |-> grid[Toward(vertices[v], dirs[k])],
            weight |-> (IF life THEN Toward(vertices[v], dirs[k])[1] ELSE 1) * dist[dirs[k]]]]

\* weight_between(u, v): by the distance of the coordinates, in LifeGraph times
\* the row of u; a larger distance ends the program.
NotAdjacent == -1
weight_between(life, vertices, u, v) ==
    LET diff == Abs(vertices[u][1] - vertices[v][1]) + Abs(vertices[u][2] - vertices[v][2])
        cost == IF life THEN vertices[u][1] ELSE 1
    IN  CASE diff = 0 -> 0
          [] diff = 1 -> cost * Straight
          [] diff = 2 -> cost * Diagonal
          [] OTHER    -> NotAdjacent

==============================================================================
