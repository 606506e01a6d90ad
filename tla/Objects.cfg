CONSTANTS
    Object = "Object"
    NoClass = "none"
    Definers = {d1, d2}
    ArrayInterfaces = {"Cloneable"}
    Primitives = {"int"}
    Box = "Integer"
    MethodHandle = "MethodHandle"
    DirectMethodHandle = "DirectMethodHandle"
    Programs <- AllPrograms
    Values = {1, 2}
SPECIFICATION Spec
INVARIANTS
    AnswersAreJavas
    ObjectsKeepTheirFields
CHECK_DEADLOCK FALSE
