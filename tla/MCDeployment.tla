---------------------------- MODULE MCDeployment --------------------------
(* Instances of Deployment for TLC.                                        *)
EXTENDS Deployment, TLC

CONSTANTS r1, r2, c1, c2, t1, t2, read

OneGrant  == c1 :> {read}
Owners    == (t1 :> c1) @@ (t2 :> c2)
Expiries  == (t1 :> 0) @@ (t2 :> 1)
AskedSize == {0}

\* A tool call by the client that has the right to it, and a handshake, which any
\* client may send; OPA may fail for both.
Post(t, c) == [health |-> FALSE, post |-> TRUE, sse |-> FALSE, json |-> TRUE, cut |-> "no",
               text |-> t, owner |-> c, reads |-> TRUE]
FewShapes == {Post([method |-> "tools/call", tool |-> read], c1),
              Post([method |-> "handshake", tool |-> NoTool], c2)}

\* The runs check safety only.
Interchangeable == Permutations({r1, r2})
==========================================================================
