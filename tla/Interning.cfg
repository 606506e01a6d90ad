SPECIFICATION Spec
CONSTANTS
  Threads = {t1, t2}
  Keys = {String, Module, Class, Array}
  Parts <- MirrorParts
  None = None
  MaxCalls = 3
  String = String
  Module = Module
  Class = Class
  Array = Array
SYMMETRY Symmetry
INVARIANTS EntriesAreOfTheirKey SoundUnlessRaced
PROPERTIES SettledForGood
CHECK_DEADLOCK FALSE
