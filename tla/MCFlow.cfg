SPECIFICATION FairSpec
CONSTANTS
    Caller = {c1, c2}
    Outsider = {o1}
    NoOne = NoOne
    Rejected = Rejected
    Task = {"complete", "fail", "delete", "init", "invalidate"}
    Type = {"mcp_get_tokens", "mcp_oauth", "oauth"}
    Mishap = {"error", "crash"}
    MaxMishaps = 1
INVARIANTS OneFlight SpentIsNotServed
PROPERTIES EveryCallReturns
CHECK_DEADLOCK FALSE
