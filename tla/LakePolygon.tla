---------------------------- MODULE LakePolygon -----------------------------
(***************************************************************************)
(* check_field_bounds() decides with half-planes: it is right only if each *)
(* "convex" edge supports the field and each "concave" pair meets in an    *)
(* inward corner.  FieldIsPolygon of AA241xMissionProofs compares it with  *)
(* the even-odd rule, which needs neither, over every whole metre.         *)
(***************************************************************************)
EXTENDS RaceGeometry

Vertex(i) == LakeBoundaries[i % 9]

Between(x, a, b) == (a <= x /\ x <= b) \/ (b <= x /\ x <= a)

OnEdge(i, p) ==
    /\ LineSide(Vertex(i), Vertex(i + 1), p) = 0
    /\ Between(p.N, Vertex(i).N, Vertex(i + 1).N)
    /\ Between(p.E, Vertex(i).E, Vertex(i + 1).E)

\* Whether the ray from p to the east crosses edge i.
Crosses(i, p) ==
    LET low == IF Vertex(i).N < Vertex(i + 1).N THEN Vertex(i) ELSE Vertex(i + 1)
        high == IF Vertex(i).N < Vertex(i + 1).N THEN Vertex(i + 1) ELSE Vertex(i)
    IN  low.N <= p.N /\ p.N < high.N /\ LineSide(low, high, p) > 0

a \oplus b == ~(a <=> b)

InLake(p) ==
    \/ \E i \in 0..8 : OnEdge(i, p)
    \/ Crosses(0, p) \oplus Crosses(1, p) \oplus Crosses(2, p) \oplus Crosses(3, p)
         \oplus Crosses(4, p) \oplus Crosses(5, p) \oplus Crosses(6, p)
         \oplus Crosses(7, p) \oplus Crosses(8, p)
=============================================================================
