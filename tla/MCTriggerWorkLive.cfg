SPECIFICATION FairSpec
CONSTANTS
    d1 = d1  d2 = d2
    s1 = s1  s2 = s2
    e1 = e1  e2 = e2
    Delivery = {d1, d2}
    Slot = {s1}
    Engine = {e1}
    EngineOf <- MCOneEngine
    NoDelivery = NoDelivery
    NoSlot = NoSlot
    Home = e1
    MaxAttempts = 2
    Mishap = {"crash", "lapse"}
    MaxMishaps = 1
    MaxRequeues = 1
    MaxFences = 1
PROPERTIES EveryDeliverySettles
