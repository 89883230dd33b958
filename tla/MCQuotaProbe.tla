--------------------------- MODULE MCQuotaProbe ---------------------------
(* Two background goroutines of a daemon and a command beside it. *)
EXTENDS QuotaProbe

CONSTANTS b1, b2, c1, daemon, cli

MCProcOf == [p \in Probes |-> IF p \in {b1, b2} THEN daemon ELSE cli]
MCDelay == [s \in Restricted |-> IF s = "auth_error" THEN 1 ELSE 2]
MCBackoff == <<1, 2>>

\* Bound: the command runs in the first second.
CommandEarly == pc[c1] # "idle" => now = 1
=============================================================================
