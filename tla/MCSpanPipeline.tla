--------------------------- MODULE MCSpanPipeline ---------------------------
(* Small instances of SpanPipeline for TLC: a chain whose middle node did not *)
(* run and whose lowest had a parallel worker, a plan whose root did not run, *)
(* and a statement that failed after it was planned.                          *)
EXTENDS SpanPipeline, TLC

Chain == [size |-> 3, up |-> <<0, 1, 2>>, ran |-> {1, 3}, helpers |-> <<0, 0, 1>>]
Headless == [size |-> 2, up |-> <<0, 1>>, ran |-> {2}, helpers |-> <<0, 0>>]

SomeExecutions ==
    {[plan |-> Chain, planned |-> FALSE, succeeded |-> TRUE],
     [plan |-> Headless, planned |-> TRUE, succeeded |-> TRUE],
     [plan |-> Headless, planned |-> TRUE, succeeded |-> FALSE]}

Symmetry == Permutations(Backends)
=============================================================================
