SPECIFICATION Spec
CONSTANTS
  Pessoas = {a, b}
  Fundadores = {a, b}
  Limite = 2
  Pedidos = {p1, p2}
  MaxConvites = 0
  Operacoes = {"updateRole", "remove"}
INVARIANTS AdminSempre
CHECK_DEADLOCK FALSE
