CONSTANTS
    Tasks = {t1, t2, t3}
    Handles = {h1, h2, h3}
    Arbiters = {A, B}
    h1 = h1
    h2 = h2
    h3 = h3
    A = A
    B = B
    NoHandle = NoHandle
    ArbiterOf <- MCArbiterOf
    BufferChoices <- MCBufferChoicesDup
SYMMETRY MCSymmetry
SPECIFICATION Spec
INVARIANT PushedAtMostOnce
