CONSTANTS
  p1 = p1
  p2 = p2
  Procs <- TwoProcs
  NoProc = NoProc
  Ifaces = {eth0}
  AnyIface = AnyIface
  MaxMissed = 1
  Tools = {t1}
  Keys = {k1, k2}
  EnvKey = EnvKey
  NoKey = NoKey
SPECIFICATION StartSpec
SYMMETRY Symmetry
INVARIANTS ServingIsConfigured RulesDoNotPileUp 
 
