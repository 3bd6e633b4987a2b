SPECIFICATION Spec
CONSTANTS
  Colaboradores = {k1}
  Pedidos = {p1, p2}
  Corpos = {x, y}
  Percurso = {"APROVACAO", "PRONTO_ASSINATURA", "ASSINADO"}
  MaxVersoes = 3
  MaxAssinaturas = 3
SYMMETRY Simetria
INVARIANTS AssinaturaFiel OrdemSeguida UmaPorSignatario RevogacaoFica
CHECK_DEADLOCK FALSE
