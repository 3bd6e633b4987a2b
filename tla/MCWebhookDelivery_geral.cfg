SPECIFICATION SpecJusta
CONSTANTS
  Entregas = {d1, d2}
  Webhooks = {h1, h2}
  Workers = {w1}
  Avarias = {"queda", "bd", "rede"}
  MAX_TENTATIVAS = 3
  BACKOFF_SECONDS = 3
  MaxAvarias = 2
INVARIANTS DuplicadosSoComAvaria DesisteEsgotada
PROPERTIES Definitivo Termina
CHECK_DEADLOCK FALSE
