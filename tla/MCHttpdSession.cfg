SPECIFICATION Spec
CONSTANTS
  Conns = {c1}
  Clients = {a1}
  WEB_MAX_CLIENT = 1
  LuaStates = {l1, l2}
  Files <- AjaxSite
  MaxPieces = 2
  Nothing = Nothing
SYMMETRY Symmetry
INVARIANTS SessionKept
