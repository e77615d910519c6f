SPECIFICATION Spec
CONSTANTS
  c1 = c1
  c2 = c2
  v1 = v1
  v2 = v2
  d1 = d1
  d2 = d2
  d3 = d3
  b1 = b1
  b2 = b2
  b3 = b3
  Broadcast = Broadcast
  None = None
  Clients = {c1, c2}
  Views = {v1, v2}
  Deltas = {d1, d2, d3}
  Buffers = {b1, b2, b3}
INVARIANTS
  TypeOK
  NoForeignClusters
SYMMETRY Alike
