\* Class paths as bytes: closures over several calls of two of them, and one path
\* for every packing, arrangement and damage.
SPECIFICATION Spec
CONSTANTS
  Names <- AllNames
  Stubs <- StubNames
  StubRefs <- RefsOfStubs
  Open <- OpenedPath
  ClassIn <- LoadClass
  NameOf <- ThisClassName
  NamesIn <- ReferencedNames
  IsSound <- Sound
  Unreadable <- Fails
  NotFound <- Absent
  IsArrayName <- IsArray
  NoModuleName <- NoName
  DescriptionOf <- View
  RefersTo <- ReferencesToNames
  Packed <- ContentOf
  PackedModules <- ModulesOf
  Nothing <- NoClass
  Damaged <- BrokenClass
  Refused <- IsClosed
  Programs <- AllPrograms
  Attributes <- AttributeNames
  CodeName <- CodeAttribute
  LineNumbersName <- LinesAttribute
  BootstrapName <- BootstrapAttribute
  SourceName <- SourceAttribute
  ModuleName <- ModuleAttribute
  ClassSuffix <- Suffix
  ClassesPrefix <- Prefix
  ModuleInfo <- Info
INVARIANTS ClosuresComplete NothingForgotten
PROPERTIES LoopEnds LoadsWhatWasPacked FailsOnDamage
CHECK_DEADLOCK FALSE
