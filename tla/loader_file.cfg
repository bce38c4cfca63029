SPECIFICATION Spec
CONSTANTS
  Mods = {"b", "c"}
  Closed = {"c"}
  File <- PackageAndEntry
  Plugins = {"io"}
  MaxTable = 3
INVARIANT OneNamespacePerFile
CHECK_DEADLOCK FALSE
