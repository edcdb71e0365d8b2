--------------------------- MODULE MCAuditOutbox ----------------------------
(* Two operations, one with two events, two API instances and one legacy call. *)
EXTENDS AuditOutbox

MCSize == <<2, 1>>
=============================================================================
