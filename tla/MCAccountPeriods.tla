-------------------------- MODULE MCAccountPeriods --------------------------
(***************************************************************************)
(* Instances of AccountPeriods for TLC.                                    *)
(***************************************************************************)
EXTENDS AccountPeriods, TLC

CONSTANTS u0, u1, v1, k1, k2, k3, m1, m2, m3

Update(k, expected, active) == [key |-> k, expected |-> expected, active |-> active]
Window(k, id, from, to, expected) ==
  [key |-> k, id |-> id, from |-> from, to |-> to, expected |-> expected]

\* Create, then disable or change: u1 and v1 compete for revision 1.
Updates == {Update(u0, 0, TRUE), Update(u1, 1, FALSE), Update(v1, 1, TRUE)}

\* One period for revisions 1 and 2; a window that overlaps the first one; the key and
\* the id of the first one used again; a window that is empty once stored.
Closes == {Window(k1, m1, 0, 4, 1), Window(k1, m3, 4, 8, 1), Window(k2, m2, 3, 6, 1),
           Window(k2, m1, 4, 8, 2), Window(k3, m3, 6, 7, 1)}

\* Two windows that overlap by less than the database can tell.
Adjacent == {Window(k1, m1, 0, 3, 1), Window(k2, m2, 2, 5, 1)}

\* The calls of one kind are interchangeable.
Interchangeable == Permutations(Putters) \cup Permutations(Closers)
=============================================================================
