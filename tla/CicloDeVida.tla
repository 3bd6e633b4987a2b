----------------------------- MODULE CicloDeVida -----------------------------
(***************************************************************************)
(* What the life cycle of contracts promises, whatever the requests that   *)
(* drive it: a contract enters in one of the entry states, moves along one *)
(* edge of CONTRATO_TRANSITIONS at a time while it is not deleted, is      *)
(* terminated from a state the graph lets terminate, and gives an adenda   *)
(* only while ACTIVO.  ContratoCiclo refines it when requests are served   *)
(* one at a time.                                                          *)
(***************************************************************************)
EXTENDS ContratoEstados

CONSTANTS Contratos, EstadosIniciais

VARIABLES estado, apagado
vars == <<estado, apagado>>

Inexistente == "INEXISTENTE"

Init ==
  /\ estado = [c \in Contratos |-> Inexistente]
  /\ apagado = [c \in Contratos |-> FALSE]

Criar(c) ==
  /\ estado[c] = Inexistente
  /\ \E e \in EstadosIniciais : estado' = [estado EXCEPT ![c] = e]
  /\ UNCHANGED apagado

Avancar(c) ==
  /\ estado[c] # Inexistente /\ ~apagado[c]
  /\ \E e \in CONTRATO_TRANSITIONS[estado[c]] : estado' = [estado EXCEPT ![c] = e]
  /\ UNCHANGED apagado

(* EM_TERMINACAO may be crossed within the same step. *)
Terminar(c) ==
  /\ estado[c] # Inexistente /\ ~apagado[c]
  /\ \/ canTransition(estado[c], "TERMINADO")
     \/ canTransition(estado[c], "EM_TERMINACAO")
  /\ estado' = [estado EXCEPT ![c] = "TERMINADO"]
  /\ UNCHANGED apagado

AbrirAdenda(c, a) ==
  /\ estado[c] = "ACTIVO" /\ ~apagado[c]
  /\ estado[a] = Inexistente
  /\ estado' = [estado EXCEPT ![c] = "EM_ADENDA", ![a] = "DRAFTING"]
  /\ UNCHANGED apagado

(* The signature of an adenda gives its parent back, deleted or not. *)
FecharAdenda(c) ==
  /\ estado[c] = "EM_ADENDA"
  /\ estado' = [estado EXCEPT ![c] = "ACTIVO"]
  /\ UNCHANGED apagado

Apagar(c) ==
  /\ estado[c] # Inexistente /\ ~apagado[c]
  /\ apagado' = [apagado EXCEPT ![c] = TRUE]
  /\ UNCHANGED estado

Next == \E c \in Contratos :
  \/ Criar(c) \/ Avancar(c) \/ Terminar(c) \/ FecharAdenda(c) \/ Apagar(c)
  \/ \E a \in Contratos : AbrirAdenda(c, a)

Spec == Init /\ [][Next]_vars
=============================================================================
