SPECIFICATION Spec
CONSTANTS
    usr1 = usr1
    usr2 = usr2
    WithPlain = FALSE
    App = {usr1, usr2}
    Requests <- MCRequests
    HandlerRequests <- MCHandlerRequests
    HandlerMasks <- MCHandlerMasks
    LateMasks <- MCLateMasks
    MaxChanges = 4
    MaxDepth = 3
INVARIANT TypeOK
INVARIANT ArmedUnblocked
INVARIANT RearmOnTheWay
INVARIANT MaskAsAsked
CHECK_DEADLOCK FALSE
