----------------------------- MODULE MCCatalog -----------------------------
(* Instances of Catalog for TLC: two sports with a facility of the same name. *)
EXTENDS Catalog

I(s, f, c) == [sport |-> s, facility |-> f, court |-> c]

\* All list the sports in one order; the second finds one court less and one
\* facility more, the third misses the first sport.
InOrder == [p1 |-> <<I("s1", "f1", "c1"), I("s2", "f1", "c1"), I("s2", "f1", "c2")>>,
            p2 |-> <<I("s1", "f1", "c1"), I("s2", "f1", "c1"), I("s2", "f2", None)>>,
            p3 |-> <<I("s2", "f1", "c1"), I("s3", "f1", None)>>]

\* The second lists them in the opposite order, the third finds nothing.
Crossed == [p1 |-> <<I("s1", "f1", "c1"), I("s2", "f1", "c1")>>,
            p2 |-> <<I("s2", "f1", "c1"), I("s1", "f1", "c1")>>,
            p3 |-> << >>]

\* Each begins with the sport another one ends with: a circle of three.
Circle == [p1 |-> <<I("s1", "f1", None), I("s2", "f1", None)>>,
           p2 |-> <<I("s2", "f1", None), I("s3", "f1", None)>>,
           p3 |-> <<I("s3", "f1", None), I("s1", "f1", None)>>]

Listed == [s1 |-> 1, s2 |-> 2, s3 |-> 3, f1 |-> 0, f2 |-> 0, c1 |-> 0, c2 |-> 0]

\* At once and without faults, one after the other with faults, at once in opposite
\* orders with faults, and in a circle.
SmallSettings == {[items |-> InOrder, overlap |-> TRUE, faults |-> FALSE],
                  [items |-> InOrder, overlap |-> FALSE, faults |-> TRUE],
                  [items |-> Crossed, overlap |-> TRUE, faults |-> TRUE],
                  [items |-> Circle, overlap |-> TRUE, faults |-> FALSE]}
=============================================================================
