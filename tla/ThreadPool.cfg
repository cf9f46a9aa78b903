SPECIFICATION Spec
\* The program may end.
CHECK_DEADLOCK FALSE
CONSTANTS
    Worker = {"w1"}
    Client = {"c1", "c2"}
    Job = {"a", "b", "d", "e", "k", "k2", "l1", "l2", "l3"}
    Leaf = {"l1", "l2", "l3"}
    Throws = {"e", "k2"}
    Script <- Scripts
INVARIANTS
    WaitWaits
    WaitTellsErrors
    OwnerIsThere
    NoFalseLeaf
PROPERTIES
    AllReturn
