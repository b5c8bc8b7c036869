--------------------------- MODULE AppendOnlyLog ---------------------------
(***************************************************************************)
(* What an audit ledger promises its callers: entries appear one at a      *)
(* time, behind all others, under the next number; none is changed or      *)
(* taken away; and an acknowledgement names an entry that is there.        *)
(*                                                                         *)
(* AuditLedger is shown to implement this.                                 *)
(***************************************************************************)
EXTENDS Naturals, Sequences

VARIABLES
  log,   \* the entries, by sequence number
  acked  \* <<number, entry>> pairs that callers were given

Init == log = <<>> /\ acked = {}

Add ==
  LET next == Len(log) + 1
  IN /\ DOMAIN log' = 1..next
     /\ \A n \in DOMAIN log : log'[n] = log[n]
     /\ acked' = acked \/ acked' = acked \cup {<<next, log'[next]>>}

Spec == Init /\ [][Add]_<<log, acked>>

=============================================================================
