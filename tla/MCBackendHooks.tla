--------------------------- MODULE MCBackendHooks ---------------------------
(* Small instances of BackendHooks for TLC: query texts without a traceparent, *)
(* with a sampled and with an unsampled one.                                    *)
EXTENDS BackendHooks, TLC

Plain == [trace |-> 0, sampled |-> FALSE]
Sampled(t) == [trace |-> t, sampled |-> TRUE]
Unsampled(t) == [trace |-> t, sampled |-> FALSE]

AllTexts == {Plain, Sampled(1), Unsampled(2)}
TracedTexts == {Plain, Sampled(1)}
TwoTraces == {Plain, Sampled(1), Sampled(2)}

Symmetry == Permutations(QueryDescs) \cup Permutations(PlannedStmts)
=============================================================================
