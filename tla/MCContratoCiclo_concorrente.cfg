SPECIFICATION Spec
CONSTANTS
  Contratos = {c1, c2}
  SemContrato = SemContrato
  Pedidos = {p1, p2}
  EstadosIniciais = {"ACTIVO"}
  Operacoes = {"create", "transitar", "softDelete", "terminar", "adenda", "assinar", "partes"}
SYMMETRY Simetria
INVARIANTS CronologiaAteVigorar
PROPERTIES SemRegresso TerminacaoDefinitiva
CHECK_DEADLOCK FALSE
