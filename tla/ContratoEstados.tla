--------------------------- MODULE ContratoEstados ---------------------------
(***************************************************************************)
(* The contract state machine and the phase gates of                       *)
(* packages/shared-types/src/index.ts: pure data and pure functions, used  *)
(* by the API services (and by the web client) as their single source of   *)
(* truth.  No state lives here; the modules that model services EXTEND     *)
(* this one.                                                               *)
(***************************************************************************)

(* The edges of the life cycle: canTransition(de, para) is membership. *)
CONTRATO_TRANSITIONS ==
  [ INTAKE            |-> {"DRAFTING", "EM_NEGOCIACAO", "REPOSITORIO", "CANCELADO"},
    DRAFTING          |-> {"REV_INTERNA", "CANCELADO"},
    REV_INTERNA       |-> {"DRAFTING", "REV_CLIENTE", "CANCELADO"},
    REV_CLIENTE       |-> {"DRAFTING", "EM_NEGOCIACAO", "CANCELADO"},
    EM_NEGOCIACAO     |-> {"EM_NEGOCIACAO", "REV_CLIENTE", "APROVACAO", "CANCELADO"},
    APROVACAO         |-> {"EM_NEGOCIACAO", "PRONTO_ASSINATURA", "CANCELADO"},
    PRONTO_ASSINATURA |-> {"ASSINADO", "APROVACAO", "CANCELADO"},
    ASSINADO          |-> {"POS_ASSINATURA"},
    POS_ASSINATURA    |-> {"ACTIVO"},
    ACTIVO            |-> {"EM_DISPUTA", "EM_ADENDA", "EM_TERMINACAO", "ACTIVO"},
    EM_DISPUTA        |-> {"ACTIVO", "EM_TERMINACAO"},
    EM_ADENDA         |-> {"ACTIVO"},
    EM_TERMINACAO     |-> {"TERMINADO"},
    TERMINADO         |-> {"ARQUIVADO"},
    ARQUIVADO         |-> {},
    REPOSITORIO       |-> {"ACTIVO", "ARQUIVADO"},
    CANCELADO         |-> {} ]

ContratoEstado ==
  { "INTAKE", "DRAFTING", "REV_INTERNA", "REV_CLIENTE", "EM_NEGOCIACAO",
    "APROVACAO", "PRONTO_ASSINATURA", "ASSINADO", "POS_ASSINATURA", "ACTIVO",
    "EM_DISPUTA", "EM_ADENDA", "EM_TERMINACAO", "TERMINADO", "ARQUIVADO",
    "REPOSITORIO", "CANCELADO" }

canTransition(de, para) == para \in CONTRATO_TRANSITIONS[de]

(***************************************************************************)
(* The states of the six display phases.                                   *)
(***************************************************************************)
contratoFase ==
  [ RASCUNHO   |-> {"INTAKE", "DRAFTING", "REV_INTERNA", "REV_CLIENTE"},
    NEGOCIACAO |-> {"EM_NEGOCIACAO", "APROVACAO"},
    ASSINATURA |-> {"PRONTO_ASSINATURA", "ASSINADO"},
    EM_VIGOR   |-> {"POS_ASSINATURA", "ACTIVO", "REPOSITORIO"},
    SUBCICLO   |-> {"EM_DISPUTA", "EM_ADENDA", "EM_TERMINACAO"},
    ENCERRADO  |-> {"TERMINADO", "ARQUIVADO", "CANCELADO"} ]

(***************************************************************************)
(* For every action, the states whose accoesPermitidas hold it: the first  *)
(* three phases decide by phase, the others by state.  (origem selects the *)
(* rail that is drawn and permits nothing, so it is not a parameter.)      *)
(***************************************************************************)
estadosQuePermitem ==
  LET fase == contratoFase IN
  [ EDITAR_CORPO        |-> fase.RASCUNHO \cup fase.NEGOCIACAO,
    NOVA_VERSAO         |-> fase.RASCUNHO \cup fase.NEGOCIACAO,
    ENVIAR_NEGOCIACAO   |-> fase.RASCUNHO \cup fase.NEGOCIACAO,
    NOVO_PONTO          |-> fase.NEGOCIACAO,
    COMPARAR            |-> fase.NEGOCIACAO,
    COMENTAR            |-> fase.RASCUNHO \cup fase.NEGOCIACAO,
    APROVAR             |-> fase.NEGOCIACAO,
    PEDIR_ASSINATURA    |-> fase.ASSINATURA,
    PARTILHAR_LINK      |-> fase.ASSINATURA,
    REGISTAR_ASSINATURA |-> fase.ASSINATURA,
    ADICIONAR_ADENDA    |-> {"ACTIVO"},
    ACTIVAR             |-> {"REPOSITORIO"},
    CONCLUIR_SUBCICLO   |-> fase.SUBCICLO,
    GERIR_DATAS         |-> fase.RASCUNHO \cup fase.NEGOCIACAO \cup fase.EM_VIGOR,
    GERIR_OBRIGACOES    |-> fase.EM_VIGOR,
    RENOVAR             |-> {"ACTIVO"},
    TERMINAR            |-> {"ACTIVO", "EM_DISPUTA"},
    REVER_COMPLIANCE    |-> fase.EM_VIGOR \cup {"EM_ADENDA", "EM_DISPUTA"},
    ARQUIVAR            |-> {"REPOSITORIO", "TERMINADO"},
    DESCARREGAR         |-> fase.ASSINATURA \cup fase.EM_VIGOR \cup fase.SUBCICLO
                              \cup fase.ENCERRADO ]

contratoPode(estado, accao) == estado \in estadosQuePermitem[accao]

(***************************************************************************)
(* A contract took effect once it was signed, registered as already        *)
(* signed, or taken from the repository: every state but those of          *)
(* drafting, negotiation and signature, and CANCELADO.                     *)
(***************************************************************************)
PreAssinatura ==
  {"INTAKE", "DRAFTING", "REV_INTERNA", "REV_CLIENTE", "EM_NEGOCIACAO",
   "APROVACAO", "PRONTO_ASSINATURA"}
Vigentes == ContratoEstado \ (PreAssinatura \cup {"CANCELADO"})
=============================================================================
