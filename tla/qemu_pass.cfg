SPECIFICATION Spec
CONSTANTS
    Guest = {g1, g2}
    Port = {p1, p2}
    NoPort = NoPort
    Patience = 2
INVARIANTS
    TypeOK
    NoLeftover
    ReadyIsSteady
PROPERTIES
    StartEnds
    StopEnds
CHECK_DEADLOCK FALSE
