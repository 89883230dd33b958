--------------------------- MODULE MCCredentials ---------------------------
(* The two protocols about credentials for TLC: in some behaviours the       *)
(* refresh of an access token (TokenRefresh), in the others one call of each *)
(* operation on the native token file (NativeSync). *)
EXTENDS NativeSync, TokenRefresh

CONSTANTS o1, o2, o3

MCOps == {o1, o2, o3}
MCKind == [o \in MCOps |-> CASE o = o1 -> "sync" [] o = o2 -> "switch" [] OTHER -> "remove"]

VARIABLE part  \* which of the two a behaviour is about

allVars == <<vars, tokenVars, part>>

Tokens(A)    == part = "tokens" /\ A /\ UNCHANGED <<vars, part>>
TokenFile(A) == part = "token file" /\ A /\ UNCHANGED <<tokenVars, part>>

MCInit ==
    /\ Init /\ TokenInit
    /\ part \in {"tokens", "token file"}
    \* The pool and the token file are of no account to a refresh.
    /\ part = "tokens" => pool = <<>> /\ active = NoAccount /\ file = None

MCNext == Tokens(TokenNext) \/ TokenFile(Next)

MCSpec == MCInit /\ [][MCNext]_allVars

\* The fairness of FairSpec and of FairTokenSpec.
FairMCSpec ==
    /\ MCSpec
    /\ \A o \in Ops : WF_allVars(TokenFile(Step(o)))
    /\ \A t \in Callers : WF_allVars(Tokens(RefreshToken(t)))

\* Every call of RefreshToken returns (EveryCallReturns, where there are calls).
RefreshesReturn == part = "tokens" => EveryCallReturns

\* Every call on the token file ends (EveryOperationEnds, where there are calls).
OperationsEnd == part = "token file" => EveryOperationEnds
=============================================================================
