--------------------------- MODULE MCTokenAuth ---------------------------
(* Instances of TokenAuth for TLC: tokens of one client and of another,    *)
(* one without an exp claim and one that expires while the clock runs.     *)
EXTENDS TokenAuth, TLC

CONSTANTS r1, r2, t1, t2, t3, c1, c2

TwoRequests == {r1, r2}
TwoTokens   == {t1, t2}
ThreeTokens == {t1, t2, t3}

Owners2 == (t1 :> c1) @@ (t2 :> c2)
Owners3 == Owners2 @@ (t3 :> c1)

Exps2 == (t1 :> 1) @@ (t2 :> 0)
Exps3 == (t1 :> 1) @@ (t2 :> 0) @@ (t3 :> 2)

\* Requests are interchangeable in the safety properties.
Symmetry == Permutations(Requests)
==========================================================================
