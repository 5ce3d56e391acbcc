SPECIFICATION Spec
CONSTANTS
    Guest = {g1, g2}
    Port = {p1, p2}
    NoPort = NoPort
    Patience = 2
PROPERTIES
    NoWastedWait
CHECK_DEADLOCK FALSE
