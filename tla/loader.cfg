SPECIFICATION Spec
CONSTANTS
  Mods = {"b", "c"}
  Closed = {"c"}
  File <- TwoFiles
  Plugins = {"io"}
  MaxTable = 3
INVARIANT MarksAreRunning
INVARIANT OneNamespacePerPath
INVARIANT RefcountIsOwners
INVARIANT ClosuresKeepGlobals
INVARIANT OwnImportsResolve
CHECK_DEADLOCK FALSE
