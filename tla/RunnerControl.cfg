\* entry points of small collections, and the division of 0 to 12 iterations
SPECIFICATION RunnerSpec
CONSTANTS
    Iterations <- MCIterations
    Concurrencies <- MCConcurrencies
    Ids <- MCIds
    Inherited = {}
    Missing = Missing
    Collections <- MCCollections
    Options <- MCOptions
    I1 = I1 I2 = I2 I3 = I3 I4 = I4
    A = A
    B = B
INVARIANT Divided
INVARIANT FirstMatch
INVARIANT EntrypointsRun
\* A run that is made is the end of the model.
CHECK_DEADLOCK FALSE
