CONSTANTS
    IntBits = 3
    LongBits = 4
    ByteBits = 1
    ShortBits = 2
    FloatTop = 2
    DoubleTop = 3
    MaxStack = 6
    MaxLocals = 3
    Null = 0
    NewThrown = 2
    Methods <- MCMethods
SPECIFICATION Spec
INVARIANTS
    FrameIsJavas
    StaysOnInstructions
CHECK_DEADLOCK FALSE
