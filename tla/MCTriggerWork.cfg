SPECIFICATION Spec
CONSTANTS
    d1 = d1  d2 = d2
    s1 = s1  s2 = s2
    e1 = e1  e2 = e2
    Delivery = {d1, d2}
    Slot = {s1, s2}
    Engine = {e1, e2}
    EngineOf <- MCTwoEngines
    NoDelivery = NoDelivery
    NoSlot = NoSlot
    Home = e1
    MaxAttempts = 2
    Mishap = {"crash", "lapse", "error", "source", "persist", "notready", "stop"}
    MaxMishaps = 1
    MaxRequeues = 0
    MaxFences = 1
INVARIANTS BudgetIsHonest InTurn SourceFirst DrainedIsQuiet
