-------------------------- MODULE MCScanLifecycle --------------------------
(* ScanLifecycle for TLC: a DNS step records nothing, or two errors, one of  *)
(* them of the kind the deadline also uses (an attempt's request timeout).   *)
EXTENDS ScanLifecycle

DnsError(kind) == [stage |-> "dns", kind |-> kind, recoverable |-> TRUE]

MCErrorBatches == {<<>>, <<DnsError("timeout"), DnsError("network")>>}
=============================================================================
