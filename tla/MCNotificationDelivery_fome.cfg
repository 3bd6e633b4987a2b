SPECIFICATION SpecJusta
CONSTANTS
  Workers = {w1, w2}
  Canais = {"IN_APP", "EMAIL", "PUSH"}
  MaxFila = 3
  LOTE = 2
  STALE = 1
  MaxPerdidos = 1
  MaxRoubos = 0
  MaxAvarias = 0
PROPERTIES NuncaFicaPendente
CHECK_DEADLOCK FALSE
