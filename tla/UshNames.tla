------------------------------ MODULE UshNames ------------------------------
(***************************************************************************)
(* What the names of a path mean, said of all of them at once: the         *)
(* reference for the code that resolves ".." and "." one name at a time.   *)
(***************************************************************************)
EXTENDS Integers, FiniteSetsExt

CONSTANTS Up, Same  \* the names ".." and "."

\* A name survives when the ".." that follow it never outnumber the names that
\* follow it.
Ups(p, i, j)      == Cardinality({k \in i + 1 .. j : p[k] = Up})
Ordinary(p, i, j) == Cardinality({k \in i + 1 .. j : p[k] \notin {Up, Same}})
Survives(p, i) ==
  /\ p[i] \notin {Up, Same}
  /\ \A j \in i .. Cardinality(DOMAIN p) : Ups(p, i, j) <= Ordinary(p, i, j)

Resolve(p) ==
  LET kept == {i \in DOMAIN p : Survives(p, i)}
      Nth(n) == CHOOSE i \in kept : Cardinality({k \in kept : k <= i}) = n
  IN  [n \in 1 .. Cardinality(kept) |-> p[Nth(n)]]

=============================================================================
