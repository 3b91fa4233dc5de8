SPECIFICATION FairSpec
CONSTANTS
    Producers = {p1, p2}
    Nodes = {n1, n2, n3}
    NoNode = NoNode
    Values = {a, b}
    NoValue = NoValue
    Nothing = Nothing
    Something = Something
INVARIANTS NoUseAfterFree NoLeak
PROPERTIES ImplementsFifo EveryNodeConsumed
