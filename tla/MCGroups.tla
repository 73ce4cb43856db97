------------------------------ MODULE MCGroups ------------------------------
(* Groups with one member whose link collides, breaks and is closed, with    *)
(* one whose invite may come from another instance, with two members of      *)
(* whom one is removed, and with all three connected and one renamed.        *)
EXTENDS Groups

CONSTANTS o, a, b

MCOrder == <<a, o, b>>

Plain == [who |-> {o, a, b}, pairs |-> {}, breaks |-> 0, leaves |-> 0, crosses |-> 0,
          fails |-> 0, removes |-> 0, renames |-> 0, elsewhere |-> 0]
Pair(m) == [Plain EXCEPT !.who = {o, m}, !.pairs = {{o, m}}]
Star == [Plain EXCEPT !.pairs = {{o, a}, {o, b}}]
Mesh == [Star EXCEPT !.pairs = @ \cup {{a, b}}]

MCBudgets ==
  { [Pair(a) EXCEPT !.breaks = 1, !.crosses = 1, !.fails = 1, !.leaves = 1],
    [Pair(b) EXCEPT !.crosses = 2, !.elsewhere = 1, !.leaves = 1],
    [Pair(a) EXCEPT !.removes = 1, !.crosses = 1, !.leaves = 1],
    [Star EXCEPT !.removes = 1],
    [Mesh EXCEPT !.renames = 1] }
=============================================================================
