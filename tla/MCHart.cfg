CONSTANTS
  Types = {"timer", "external"}
  Exceptions <- MCExceptions
  Configs <- MCConfigs
  Code = {"a"}
  MaxDepth = 3
SPECIFICATION Spec
INVARIANTS
  TypeOK
  TrapContextIntact
PROPERTIES
  ReturnResumes
  TrapsNeverLowerPrivilege
