CONSTANTS
    Object = "Object"
    NoClass = "none"
    Definers = {}
    ArrayInterfaces = {}
    Primitives = {"boolean", "byte", "char", "short", "int", "float", "long", "double"}
    ByteBits = 2
    NextThreadIdOffset <- CounterOffset
    t1 = t1
    t2 = t2
    Threads = {t1, t2}
    Programs <- AllPrograms
SPECIFICATION Spec
INVARIANTS
    StepsAreJavas
    ArraysHoldTheirComponents
CHECK_DEADLOCK FALSE
