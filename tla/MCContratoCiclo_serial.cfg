SPECIFICATION Spec
CONSTANTS
  Contratos = {c1, c2}
  SemContrato = SemContrato
  Pedidos = {p1}
  EstadosIniciais = {"INTAKE", "DRAFTING", "REPOSITORIO", "ACTIVO", "ASSINADO"}
  Operacoes = {"create", "update", "transitar", "softDelete", "terminar", "adenda", "assinar", "partes"}
PROPERTIES RefinaCiclo
CHECK_DEADLOCK FALSE
