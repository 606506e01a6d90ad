SPECIFICATION Spec
CONSTANTS
  Methods = {Guarded, Plain}
  Guarded = Guarded
  Plain = Plain
  Pcs = {0, 1}
  Table <- Tables
  StackLimit = 2
  MaxFrames = 3
INVARIANTS TypeOK StacksAgree TraceHasTheCallers
PROPERTIES ImplementsUnwinding
