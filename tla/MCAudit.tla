------------------------------ MODULE MCAudit ------------------------------
(* Instance of AuditLog for TLC: two trades of one market, one of another. *)
EXTENDS AuditLog, TLC

CONSTANTS m1, m2

MCMarketOf == 1 :> m1 @@ 2 :> m1 @@ 3 :> m2
=============================================================================
