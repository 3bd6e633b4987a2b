SPECIFICATION Spec
CONSTANTS
  Pessoas = {a, b, c}
  Fundadores = {a}
  Limite = 1
  Pedidos = {p1, p2}
  MaxConvites = 2
  Operacoes = {"invite", "accept", "acceptByToken", "updateRole", "remove", "falhar"}
SYMMETRY Simetria
INVARIANTS AdminSempreSereno UsadoNoLimite LugaresFieis
PROPERTIES AceiteEstavel
CHECK_DEADLOCK FALSE
