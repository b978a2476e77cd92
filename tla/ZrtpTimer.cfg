CONSTANTS
    HelloBase = 50
    HelloCap = 200
    HelloMax = 20
    NonHelloBase = 150
    NonHelloCap = 1200
    NonHelloMax = 10
    TickSizes = {10, 25}
SPECIFICATION Spec
CHECK_DEADLOCK FALSE
INVARIANTS TypeOK RetransmissionsBounded
