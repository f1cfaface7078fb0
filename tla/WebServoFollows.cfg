SPECIFICATION Spec
CONSTANTS
    m1 = m1
    m2 = m2
    Positions <- MCPositions
    Typed <- MCTyped
    Moves = {m1, m2}
INVARIANTS
    TypeOK
    PageAgrees
    ServoFollows
    PinIsReleased
