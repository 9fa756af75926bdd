SPECIFICATION FairSpec
CONSTANTS
    mug = mug
    cap = cap
    w1 = w1
    Actor = {a1, a2}
    Worker = {w1}
    On <- MCOn
    Item = {mug, cap}
    OrderId = {o1, o2}
    ReturnId = {r1, r2}
    Carts <- MCCarts
    Opening = 1
    Amounts = {1}
    Adjustments = {1}
    None = none
    MaxCalls = 4
INVARIANTS
    StockReconciles
    
PROPERTIES
    CallsReturn
CHECK_DEADLOCK FALSE
