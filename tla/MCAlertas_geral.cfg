SPECIFICATION AlertasSpec
CONSTANTS
  Regras = {"r1"}
  Actos = {a1, a2}
  Chaves = {k1}
  Pedidos = {p1, p2}
  Prazos = {1, 2}
  MaxEdicoes = 1
  MaxErros = 1
  Execucoes = {cron, manual}
  MaxDia = 1
  AlertaDias = {0, 1}
  JANELA = 2
  CRITICO = 1
SYMMETRY Simetria
INVARIANTS ActoUnico AlertaUmaVez
PROPERTIES Agrava
CHECK_DEADLOCK FALSE
