----------------------------- MODULE MCEntityReads -----------------------------
(* EntityReads with four services, three of them in one cluster and the fourth  *)
(* in a cluster of the same name elsewhere, and one or two of each other kind.  *)
EXTENDS EntityReads, TLC

MCArns ==
  {[name |-> "one", kind |-> "service", cluster |-> "c", place |-> "a", items |-> 3],
   [name |-> "two", kind |-> "service", cluster |-> "c", place |-> "a", items |-> 0],
   [name |-> "three", kind |-> "service", cluster |-> "c", place |-> "a", items |-> 1],
   [name |-> "four", kind |-> "service", cluster |-> "c", place |-> "b", items |-> 1],
   [name |-> "five", kind |-> "repository", cluster |-> "no", place |-> "a", items |-> 5],
   [name |-> "six", kind |-> "pipeline", cluster |-> "no", place |-> "a", items |-> 5],
   [name |-> "seven", kind |-> "pipeline", cluster |-> "no", place |-> "b", items |-> 3],
   [name |-> "eight", kind |-> "project", cluster |-> "no", place |-> "b", items |-> 3]}
MCHub == [name |-> "hub", kind |-> "findings", cluster |-> "no", place |-> "hub", items |-> 3]

\* Pages within the list, at its end and beyond it, and three no list has.
MCAsks ==
  {[page |-> 1, size |-> 2], [page |-> 2, size |-> 1], [page |-> 2, size |-> 3],
   [page |-> 0, size |-> 2], [page |-> -1, size |-> 1], [page |-> 1, size |-> -1]}
=============================================================================
