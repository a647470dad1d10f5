SPECIFICATION PathsSpec
CONSTANTS
    a = a
    b = b
    c = c
    d = d
    e = e
    f = f
    nowhere = nowhere
    empty = empty
    void = void
    then = then
    prior = prior
    like = like
    NodePtrs <- MCNodes
    Arrows <- MCArrows
    Nowhere = nowhere
    FirstArrow = empty
    INVERSE_ARROWS <- MCInverse
    Graphs <- MCGraphs
    Queries <- MCQueries
INVARIANTS
    ConeExact
    SplicesAreWalks
    MeetingsFound
    ShortestFound
    SuperNodesExact
CHECK_DEADLOCK FALSE
