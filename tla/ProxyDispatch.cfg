SPECIFICATION Spec
CONSTANTS
    Requests = {r1, r2}
    Accounts = {a1, a2}
    NoAccount = NoAccount
SYMMETRY Symmetry
INVARIANTS
    AtMostOnceUpstream
    ResponseIsTrue
    UsageNotOvercounted
PROPERTIES
    EveryRequestEnds
