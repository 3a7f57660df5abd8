---------------------------- MODULE MCGateway ----------------------------
(* Instances of Gateway for TLC.                                           *)
EXTENDS Gateway, TLC

CONSTANTS r1, c1, c2, c3, read, write

\* One client with a single tool, one with the wildcard, one without grants.
ThreeClients == {c1, c2, c3}
TwoTools     == {read, write}
DefaultGrants == (c1 :> {read}) @@ (c2 :> {Wildcard})
==========================================================================
