CONSTANTS
  ModuleNames = {"a", "m"}
  NamespaceNames = {"n"}
  TypeNames = {"T", "int32"}
  VarNames = {"x"}
  Messages = {":=", "print"}
  Temps <- NodeNames
  NoName = "-"
  Primitives = {"int32"}
  MaxArgs = 1
  MaxFiles = 2
  MaxScopes = 5
  MaxSize = 5
SPECIFICATION Spec
INVARIANT DeclaredInModule
CHECK_DEADLOCK FALSE
