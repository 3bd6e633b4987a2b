SPECIFICATION RenovacaoSpec
CONSTANTS
  Contratos = {c1}
  Corridas = {cron, manual}
  Utilizadores = {u1}
  Accoes = {"denunciar", "update", "estado"}
  MaxDia = 2
  MaxEventos = 3
  Prazos = {0, 1}
SYMMETRY Simetria
INVARIANTS RenovacaoTypeOK RenovaUmaVez TermoCoerente DenunciaTrava
CHECK_DEADLOCK FALSE
