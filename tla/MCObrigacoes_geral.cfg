SPECIFICATION Spec
CONSTANTS
  Obrigacoes = {o1}
  Pedidos = {p1, p2}
  Datas <- DatasTodas
  Periodos = {0, 1, 2, 3, 6, 12}
  Operacoes = {"cumprir", "dispensar", "desactivar"}
  MaxInstancias = 5
SYMMETRY Simetria
INVARIANTS UmaPorCiclo ProximaEmAberto CadenciaMantida
CHECK_DEADLOCK FALSE
