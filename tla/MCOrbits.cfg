SPECIFICATION OrbitsSpec
CONSTANTS
    a = a
    b = b
    c = c
    d = d
    e = e
    nowhere = nowhere
    empty = empty
    void = void
    then = then
    prior = prior
    next = next
    last = last
    like = like
    NodePtrs <- MCNodes
    Arrows <- MCArrows
    Nowhere = nowhere
    FirstArrow = empty
    INVERSE_ARROWS <- MCInverse
    Graphs <- MCGraphs
    Queries <- MCQueries
    STtype <- MCSTtype
INVARIANTS
    OrbitExact
    AxisFollowsArrow
