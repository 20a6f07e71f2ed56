SPECIFICATION LiveSpec
CONSTANTS
    chase = chase  momentum = momentum  w1 = w1  w2 = w2
    NoStrategy = NoStrategy
    Strategies = {chase, momentum}
    Workers = {w1, w2}
    Quantities <- SmallQuantities
    Prices <- Market
    QuietClears = TRUE
    SharedRows = FALSE
    MaxFills = 3
    MaxClears = 2
    MaxFailures = 1
CHECK_DEADLOCK FALSE
INVARIANTS BookOwnsQuantity TradesMatchRows RealizedIsTrades FlatIsCash NamedStaysNamed
PROPERTY FillsApplied
