--------------------------- MODULE MCAuditStore ---------------------------
(* Instances of AuditStore for TLC.                                        *)
EXTENDS AuditStore, TLC

CONSTANTS w1, w2

\* No size, and one beyond the maximum.
AskedSizes == {0, 5}
==========================================================================
