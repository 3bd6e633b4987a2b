SPECIFICATION RenovacaoSpec
CONSTANTS
  Contratos = {c1}
  Corridas = {cron, manual}
  Utilizadores = {u1}
  Accoes = {}
  MaxDia = 1
  MaxEventos = 2
  Prazos = {0, 1}
CHECK_DEADLOCK FALSE
SYMMETRY Simetria
INVARIANT NuncaDuasNoDia
