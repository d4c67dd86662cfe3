----------------------- MODULE MCProjectUnderstanding ------------------------
(* Values for TLC: a document and a second version that replaces it, with     *)
(* another value of the same field, which the owner may review.                 *)
EXTENDS ProjectUnderstanding

CONSTANTS first, second

MCValueOf    == [d \in Documents |-> IF d = first THEN "u" ELSE "v"]
MCReplaces   == [d \in Documents |-> IF d = second THEN first ELSE None]
MCReviewable == {<<second, "field">>}
MCChain      == <<"fields", "works", "reconciliation">>
==============================================================================
