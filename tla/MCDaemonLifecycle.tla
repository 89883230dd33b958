------------------------- MODULE MCDaemonLifecycle -------------------------
(***************************************************************************)
(* One operation of each kind; the automatic start comes from another      *)
(* configuration file and an older binary.                                 *)
(***************************************************************************)
EXTENDS DaemonLifecycle, TLC

CONSTANTS start, auto, stop, restart

MCKind == [o \in Ops |-> CASE o = start -> "start" [] o = auto -> "auto"
                           [] o = stop -> "stop" [] o = restart -> "restart"]
MCVersion == [o \in Ops |-> IF o \in {start, auto} THEN 1 ELSE 2]
OneConfig == [o \in Ops |-> 1]
AutoElsewhere == [o \in Ops |-> IF o = auto THEN 2 ELSE 1]

PidSymmetry == Permutations(Pids)

=============================================================================
