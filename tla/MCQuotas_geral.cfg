SPECIFICATION Spec
CONSTANTS
  Contratos = {s1, c1, c2, c3}
  Semeados = {s1}
  Pedidos = {p1, p2}
  Mensagens = {m1, m2, m3}
  Limite = 2
  TENTATIVAS = 2
  Numeros = {2, 3}
  MaxAvarias = 1
SYMMETRY Simetria
INVARIANTS NumeroLivre ContratosContados
PROPERTIES RefinaIa
CHECK_DEADLOCK FALSE
