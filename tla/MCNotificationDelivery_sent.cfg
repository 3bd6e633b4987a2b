SPECIFICATION Spec
CONSTANTS
  Workers = {w1, w2}
  Canais = {"EMAIL"}
  MaxFila = 2
  LOTE = 2
  STALE = 1
  MaxPerdidos = 1
  MaxRoubos = 0
  MaxAvarias = 0
INVARIANTS SentSaiu
CHECK_DEADLOCK FALSE
