----------------------------- MODULE MCRagIndex -----------------------------
(* Instances of RagIndex for TLC: two contents of the same size.           *)
EXTENDS RagIndex, TLC

CONSTANTS p1, a, b, blank, w1, s1

MCPaths == {p1}
MCContents == {a, b, blank}
MCSize == [c \in Contents |-> IF c = blank THEN 0 ELSE 1]
MCWorkers == {w1}
MCSync == {s1}
MCSymmetry == Permutations({a, b})
=============================================================================
