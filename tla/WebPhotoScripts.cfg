SPECIFICATION FairSpec
CONSTANTS
    g1 = g1
    g2 = g2
    p1 = p1
    p2 = p2
    p3 = p3
    Motion = Motion
    Nobody = Nobody
    Pages = {g1, g2}
    Photos = {p1, p2, p3}
INVARIANTS
    TypeOK
    MotionIsOwed
    CameraIsThere
PROPERTIES
    MotionComesBack
