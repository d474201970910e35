CONSTANTS
    Items = {k0, k1, k2}
    Zero = k0
    Size = 4
SPECIFICATION Spec
INVARIANTS
    RingInv
PROPERTIES
    UnreadUntouched
    FifoSpec
