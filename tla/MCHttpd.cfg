SPECIFICATION Spec
CONSTANTS
  Conns = {c1, c2}
  Clients = {a1, a2, a3}
  WEB_MAX_CLIENT = 2
  LuaStates = {l1, l2}
  Files <- SmallSite
  MaxPieces = 4
  Nothing = Nothing
SYMMETRY AllSymmetry
INVARIANTS TableSound ClientIsolation PagesStartFresh NoLeak
