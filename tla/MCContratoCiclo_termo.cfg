SPECIFICATION Spec
CONSTANTS
  Contratos = {c1}
  SemContrato = SemContrato
  Pedidos = {p1, p2}
  EstadosIniciais = {"ACTIVO"}
  Operacoes = {"create", "transitar", "terminar"}
PROPERTIES RefinaCiclo
CHECK_DEADLOCK FALSE
