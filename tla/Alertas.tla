------------------------------ MODULE Alertas ------------------------------
(***************************************************************************)
(* The daily scheduler of alerts (AlertsScheduler) over the key dates and  *)
(* regulatory acts that users change meanwhile (Compliance).  An execution *)
(* reads the key dates, and for each that is due today looks in the        *)
(* timeline for its alert and emits it in a transaction; then the acts.    *)
(* Only the cron has a flag: the endpoint of the administrator runs along. *)
(***************************************************************************)
EXTENDS Compliance

CONSTANTS
  Execucoes,   \* one is the cron, each of the others a call of runOnce
  MaxDia,      \* bound: days
  AlertaDias,  \* alertaDias of the key dates
  JANELA,      \* days ahead the acts are read for: 30
  CRITICO      \* days ahead an act is critical: 7

ASSUME ExecucoesAssumption == IsFiniteSet(Execucoes)
ASSUME DiaAssumption == MaxDia \in Nat
ASSUME CriticoAssumption == CRITICO \in Nat /\ JANELA \in Nat /\ CRITICO <= JANELA

VARIABLES
  hoje,         \* today
  exec,         \* [pc, resto, alvo]: where each execution is, and what it has to serve
  lidas,        \* what each execution had to serve when it read the key dates
  emitidos,     \* ALERTA_DISPARADO of each key date, by diasAntes
  escalao,      \* bucket of the latest ALERTA_DISPARADO of each act
  repetidos,    \* an act was alerted again in the bucket of its latest alert
  sobrepostas   \* two executions were under way at once

alertas == <<exec, lidas, emitidos, escalao, repetidos, sobrepostas>>
alertasVars == <<compliance, hoje, alertas>>

Dias == 0..MaxDia
Parada == [pc |-> "parada", resto |-> {}, alvo |-> {}]
Buckets == {"IS_PENDENTE", "IS_PRAZO_CRITICO", "OBRIGACAO_EM_ATRASO"}

AlertasTypeOK ==
  /\ ComplianceTypeOK
  /\ hoje \in Dias
  /\ \A e \in Execucoes : exec[e].pc \in {"parada", "chaves", "emitirChave", "actos", "emitirActo"}
  /\ emitidos \in [Chaves -> [AlertaDias -> Nat]]
  /\ escalao \in [Actos -> Buckets \cup {"nenhum"}]
  /\ repetidos \in BOOLEAN /\ sobrepostas \in BOOLEAN

AlertasInit ==
  /\ ComplianceInit
  /\ hoje = 0
  /\ exec = [e \in Execucoes |-> Parada]
  /\ lidas = [e \in Execucoes |-> {}]
  /\ emitidos = [c \in Chaves |-> [d \in AlertaDias |-> 0]]
  /\ escalao = [a \in Actos |-> "nenhum"]
  /\ repetidos = FALSE /\ sobrepostas = FALSE

Avanca(e, pc, resto, alvo) == exec' = [exec EXCEPT ![e] = [pc |-> pc, resto |-> resto, alvo |-> alvo]]

(***************************************************************************)
(* scanDatasChave: what is read is served from memory, whatever the user   *)
(* or the clock do meanwhile.                                              *)
(***************************************************************************)
vencidas ==
  {[chave |-> c, dias |-> chave[c].data - hoje] :
     c \in {k \in Chaves : ~chave[k].cumprida /\ chave[k].data >= hoje}}

LerChaves(e) ==
  LET disparam == {x \in vencidas : x.dias \in AlertaDias}
  IN  /\ exec[e] = Parada
      /\ Avanca(e, "chaves", disparam, {})
      /\ lidas' = [lidas EXCEPT ![e] = disparam]
      /\ sobrepostas' = (sobrepostas \/ \E f \in Execucoes : exec[f] # Parada)
      /\ UNCHANGED <<compliance, hoje, emitidos, escalao, repetidos>>

jaEmitido_QualquerDia(x) ==               \* mutant: diasAntes is not in the where
  \E d \in AlertaDias : emitidos[x.chave][d] > 0
jaEmitido(x) == emitidos[x.chave][x.dias] > 0

SaltarChave(e) ==
  /\ exec[e].pc = "chaves"
  /\ \E x \in exec[e].resto :
       /\ jaEmitido(x)
       /\ Avanca(e, "chaves", exec[e].resto \ {x}, {})
  /\ UNCHANGED <<compliance, hoje, lidas, emitidos, escalao, repetidos, sobrepostas>>

VerChave(e) ==
  /\ exec[e].pc = "chaves"
  /\ \E x \in exec[e].resto :
       /\ ~jaEmitido(x)
       /\ Avanca(e, "emitirChave", exec[e].resto \ {x}, {x})
  /\ UNCHANGED <<compliance, hoje, lidas, emitidos, escalao, repetidos, sobrepostas>>

(* Notifications, webhook and ALERTA_DISPARADO, in one transaction. *)
EmitirChave(e) ==
  /\ exec[e].pc = "emitirChave"
  /\ \E x \in exec[e].alvo :
       emitidos' = [emitidos EXCEPT ![x.chave][x.dias] = @ + 1]
  /\ Avanca(e, "chaves", exec[e].resto, {})
  /\ UNCHANGED <<compliance, hoje, lidas, escalao, repetidos, sobrepostas>>

(***************************************************************************)
(* scanActosRegulatorios.                                                  *)
(***************************************************************************)
bucket_SoDepois(dias) ==                  \* mutant: late only from the next day
  IF dias < 0 THEN "OBRIGACAO_EM_ATRASO"
  ELSE IF dias \in 1..CRITICO THEN "IS_PRAZO_CRITICO" ELSE "IS_PENDENTE"
bucket(dias) ==
  IF dias <= 0 THEN "OBRIGACAO_EM_ATRASO"
  ELSE IF dias <= CRITICO THEN "IS_PRAZO_CRITICO" ELSE "IS_PENDENTE"

LerActos(e) ==
  LET emJanela == {a \in Actos : acto[a].estado \in Abertos
                                 /\ acto[a].prazo \in hoje..(hoje + JANELA)}
  IN  /\ exec[e].pc = "chaves" /\ exec[e].resto = {}
      /\ Avanca(e, "actos", {[acto |-> a, bucket |-> bucket(acto[a].prazo - hoje)] : a \in emJanela}, {})
      /\ UNCHANGED <<compliance, hoje, lidas, emitidos, escalao, repetidos, sobrepostas>>

jaNoEscalao(x) == escalao[x.acto] = x.bucket

SaltarActo(e) ==
  /\ exec[e].pc = "actos"
  /\ \E x \in exec[e].resto :
       /\ jaNoEscalao(x)
       /\ Avanca(e, "actos", exec[e].resto \ {x}, {})
  /\ UNCHANGED <<compliance, hoje, lidas, emitidos, escalao, repetidos, sobrepostas>>

VerActo(e) ==
  /\ exec[e].pc = "actos"
  /\ \E x \in exec[e].resto :
       /\ ~jaNoEscalao(x)
       /\ Avanca(e, "emitirActo", exec[e].resto \ {x}, {x})
  /\ UNCHANGED <<compliance, hoje, lidas, emitidos, escalao, repetidos, sobrepostas>>

EmitirActo(e) ==
  /\ exec[e].pc = "emitirActo"
  /\ \E x \in exec[e].alvo :
       /\ escalao' = [escalao EXCEPT ![x.acto] = x.bucket]
       /\ repetidos' = (repetidos \/ escalao[x.acto] = x.bucket)
  /\ Avanca(e, "actos", exec[e].resto, {})
  /\ UNCHANGED <<compliance, hoje, lidas, emitidos, sobrepostas>>

Parar(e) ==
  /\ exec' = [exec EXCEPT ![e] = Parada]
  /\ lidas' = [lidas EXCEPT ![e] = {}]

Fim(e) ==
  /\ exec[e].pc = "actos" /\ exec[e].resto = {}
  /\ Parar(e)
  /\ UNCHANGED <<compliance, hoje, emitidos, escalao, repetidos, sobrepostas>>

(* An error ends the execution, the acts not reached included. *)
ExecucaoFalha(e) ==
  /\ exec[e] # Parada
  /\ Erro
  /\ Parar(e)
  /\ UNCHANGED <<tabelas, pedido, avaliacoesJuntas, hoje, emitidos, escalao, repetidos,
                 sobrepostas>>

NovoDia ==
  /\ hoje < MaxDia
  /\ hoje' = hoje + 1
  /\ UNCHANGED <<compliance, alertas>>

Executar(e) ==
  \/ LerChaves(e) \/ SaltarChave(e) \/ VerChave(e) \/ EmitirChave(e)
  \/ LerActos(e) \/ SaltarActo(e) \/ VerActo(e) \/ EmitirActo(e)
  \/ Fim(e) \/ ExecucaoFalha(e)

AlertasNext ==
  \/ ComplianceNext /\ UNCHANGED <<hoje, alertas>>
  \/ \E e \in Execucoes : Executar(e)
  \/ NovoDia

AlertasSpec == AlertasInit /\ [][AlertasNext]_alertasVars
-----------------------------------------------------------------------------
(* No alert is missed and none is repeated.  An execution that reaches the *)
(* acts has left no key date it had read without the alert of that day,    *)
(* earlier alerts of the same date or not; and the alert is emitted once,  *)
(* as an act is alerted once in a row in each bucket, unless two           *)
(* executions ran along, and then not more times than there are of them.   *)
AlertaUmaVez ==
  /\ \A e \in Execucoes :
       exec[e].pc \in {"actos", "emitirActo"} =>
         \A x \in lidas[e] : emitidos[x.chave][x.dias] > 0
  /\ \A c \in Chaves, d \in AlertaDias : emitidos[c][d] <= Cardinality(Execucoes)
  /\ ~sobrepostas =>
       /\ \A c \in Chaves, d \in AlertaDias : emitidos[c][d] <= 1
       /\ ~repetidos

(* The alerts of an act whose deadline nobody moved only become more       *)
(* urgent, as long as executions do not overlap.                           *)
gravidade == [IS_PENDENTE |-> 1, IS_PRAZO_CRITICO |-> 2, OBRIGACAO_EM_ATRASO |-> 3, nenhum |-> 0]
Agrava ==
  [][\A a \in Actos \ reagendado :
       ~sobrepostas => gravidade[escalao'[a]] >= gravidade[escalao[a]]]_alertasVars
=============================================================================
