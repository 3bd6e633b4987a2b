SPECIFICATION ImportacaoSpec
CONSTANTS
  Linhas = {l1}
  SemLinha = SemLinha
  Arranques = {p1}
  Operario = Operario
  Modos = {TRUE}
  Avarias = {}
  MaxAvarias = 0
INVARIANTS SemZombie
CHECK_DEADLOCK FALSE
