SPECIFICATION Spec
CONSTANTS
  Contratos = {c1, c2}
  SemContrato = SemContrato
  Pedidos = {p1}
  EstadosIniciais = {"ACTIVO"}
  Operacoes = {"create", "transitar", "adenda", "assinar"}
INVARIANTS PaiLibertado
CHECK_DEADLOCK FALSE
