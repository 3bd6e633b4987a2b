SPECIFICATION ImportacaoJusta
CONSTANTS
  Linhas = {l1, l2}
  SemLinha = SemLinha
  Arranques = {p1, p2}
  Operario = Operario
  Modos = {TRUE, FALSE}
  Avarias = {"queda", "bd", "redis"}
  MaxAvarias = 2
INVARIANTS ImportacaoTypeOK SobrasSoPorAvaria ZombieExplicado RelatorioFiel
PROPERTIES Progresso
CHECK_DEADLOCK FALSE
