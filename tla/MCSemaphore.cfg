SPECIFICATION FairSpec
CONSTANTS
    Client = {c1, c2, c3, c4, c5}
    Capacity = 2
    MaxExcess = 2
INVARIANTS
    IInv
PROPERTIES
    NobodyOvertakes
    WaiterServed
