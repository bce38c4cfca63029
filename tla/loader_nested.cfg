SPECIFICATION Spec
CONSTANTS
  Mods = {"b", "c"}
  Closed = {"c"}
  File <- TwoFiles
  Plugins = {"io"}
  MaxTable = 3
INVARIANT ImportsResolve
CHECK_DEADLOCK FALSE
