CONSTANTS
  Caller = {c1, c2}
  Popper = {p1, p2}
  Job = {j1, j2}
  None = None
  Configs <- MCConfigs
SPECIFICATION Spec
PROPERTY PauseTakesEffect
SYMMETRY Symmetry
