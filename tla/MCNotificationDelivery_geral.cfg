SPECIFICATION SpecJusta
CONSTANTS
  Workers = {w1, w2}
  Canais = {"EMAIL", "PUSH"}
  MaxFila = 3
  LOTE = 2
  STALE = 1
  MaxPerdidos = 1
  MaxRoubos = 1
  MaxAvarias = 1
INVARIANTS EnvioContado EstadoVerdadeiro
PROPERTIES SaiDaFila
CHECK_DEADLOCK FALSE
