SPECIFICATION Spec
CONSTANTS
  d1 = d1
  d2 = d2
  d3 = d3
  Documentos = {d1, d2, d3}
  Pedidos = {p1, p2}
  Bytes <- Tamanhos
  LimiteBytes = 3
  MaxRepostos = 1
  MaxAvarias = 2
SYMMETRY Simetria
INVARIANTS ProvaIntacta PlanoRespeitado SemFuga
CHECK_DEADLOCK FALSE
