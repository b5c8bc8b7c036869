--------------------------- MODULE MCAuditLedger ---------------------------
(***************************************************************************)
(* Small instances of AuditLedger.                                         *)
(***************************************************************************)
EXTENDS AuditLedger, TLC

Whole == {<<1, None>>}
Parts == {<<1, None>>, <<2, None>>, <<1, 2>>, <<2, 3>>}

Symmetric == Permutations(Callers) \cup Permutations(Contents)

=============================================================================
