------------------------- MODULE ContratoCiclo_proofs -------------------------
(***************************************************************************)
(* Theorems about ContratoCiclo, for every set of contracts and every      *)
(* number of concurrent requests.                                          *)
(***************************************************************************)
EXTENDS ContratoCiclo, TLAPS

(* An edge of the graph leads to a state. *)
LEMMA GrafoTipo ==
  \A e \in ContratoEstado : CONTRATO_TRANSITIONS[e] \subseteq ContratoEstado
BY DEF CONTRATO_TRANSITIONS, ContratoEstado

(* No edge of the graph leaves the states of a contract that took effect. *)
LEMMA GrafoFechado ==
  \A e \in Vigentes : CONTRATO_TRANSITIONS[e] \subseteq Vigentes
BY DEF CONTRATO_TRANSITIONS, ContratoEstado, PreAssinatura, Vigentes

(* A contract that may be terminated, or given an adenda, took effect. *)
LEMMA PortasVigentes ==
  \A e \in ContratoEstado :
    /\ podeTerminar(e) => e \in Vigentes
    /\ contratoPode(e, "ADICIONAR_ADENDA") => e = "ACTIVO"
BY DEF podeTerminar, canTransition, CONTRATO_TRANSITIONS, contratoPode,
       estadosQuePermitem, contratoFase, ContratoEstado, PreAssinatura, Vigentes

(* A request that goes on to its next statement keeps what it knows. *)
LEMMA SegueTipo ==
  ASSUME NEW r \in Pedido, NEW x \in Paragens
  PROVE  LET s == [r EXCEPT !.pc = x] IN
         s \in Pedido /\ s.pc = x /\ s.c = r.c /\ s.ref = r.ref
BY DEF Pedido

(* The same, of the request in the state that follows. *)
LEMMA SegueCampos ==
  ASSUME TypeOK, NEW p \in Pedidos, NEW x \in Paragens, Segue(p, x)
  PROVE  /\ pedido'[p].pc = x
         /\ pedido'[p].c = pedido[p].c /\ pedido'[p].ref = pedido[p].ref
BY SegueTipo DEF Segue, Passa, TypeOK

(* A finished request knows nothing. *)
LEMMA LivreTipo == Livre \in Pedido /\ Livre.pc = "livre"
BY DEF Livre, Req, Pedido, Paragens

-----------------------------------------------------------------------------
(* Rows and requests keep their types. *)
THEOREM TypeCorrect == Spec => []TypeOK
<1> USE NullAssumption, IniciaisAssumption
<1>1. Init => TypeOK
  BY DEF Init, TypeOK, Livre, Req, Pedido, Paragens, Inexistente
<1>2. TypeOK /\ [Next]_vars => TypeOK'
  <2> SUFFICES ASSUME TypeOK, [Next]_vars PROVE TypeOK'
    OBVIOUS
  <2> USE DEF TypeOK
  <2>1. CASE UNCHANGED vars
    BY <2>1 DEF vars
  <2>2. ASSUME NEW p \in Pedidos, NEW c \in Contratos, Inicia(p, c) PROVE TypeOK'
    <3>1. CASE Create(p, c)
      <4>1. PICK e \in EstadosIniciais : /\ estado' = [estado EXCEPT ![c] = e]
                                         /\ ultimo' = [ultimo EXCEPT ![c] = e]
        BY <3>1 DEF Create, Regista
      <4>2. e \in ContratoEstado
        BY DEF EstadoInicialDto, ContratoEstado
      <4>3. pai' \in [Contratos -> Contratos \cup {SemContrato}]
        BY <3>1 DEF Create
      <4>4. principais' \in [Contratos -> BOOLEAN]
        BY <3>1 DEF Create
      <4> QED
        BY <3>1, <4>1, <4>2, <4>3, <4>4 DEF Create
    <3>2. CASE LerUpdate(p, c)
      BY <3>2 DEF LerUpdate, Passa, Req, Pedido, Paragens
    <3>3. CASE LerTransitar(p, c)
      BY <3>3 DEF LerTransitar, Passa, Req, Pedido, Paragens
    <3>4. CASE LerSoftDelete(p, c)
      BY <3>4 DEF LerSoftDelete, Passa, Req, Pedido, Paragens
    <3>5. CASE LerTerminar(p, c)
      BY <3>5 DEF LerTerminar, Passa, Req, Pedido, Paragens
    <3>6. CASE LerAdenda(p, c)
      BY <3>6 DEF LerAdenda, Passa, Req, Pedido, Paragens
    <3>7. CASE Assinar(p, c)
      BY <3>7 DEF Assinar, Passa, Req, Pedido, Paragens
    <3>8. CASE AlterarPartes(p, c)
      BY <3>8 DEF AlterarPartes
    <3> QED
      BY <2>2, <3>1, <3>2, <3>3, <3>4, <3>5, <3>6, <3>7, <3>8 DEF Inicia
  <2>3. ASSUME NEW p \in Pedidos, Continua(p) PROVE TypeOK'
    <3> USE LivreTipo DEF Acaba, Passa, Parado
    <3>1. CASE GravarUpdate(p)
      BY <3>1 DEF GravarUpdate, Pedido
    <3>2. CASE GravarTransitar(p)
      BY <3>2 DEF GravarTransitar, Regista, Pedido
    <3>3. CASE ConflitoTransitar(p)
      BY <3>3 DEF ConflitoTransitar
    <3>4. CASE GravarSoftDelete(p)
      BY <3>4 DEF GravarSoftDelete
    <3>5. CASE GravarTerminar(p)
      BY <3>5 DEF GravarTerminar, Regista, ContratoEstado
    <3>6. CASE RecusarTerminar(p)
      BY <3>6 DEF RecusarTerminar
    <3>7. ASSUME NEW a \in Contratos, GravarAdenda(p, a) PROVE TypeOK'
      <4>1. pedido[p].c \in Contratos /\ pedido[p].partes \in BOOLEAN
        BY <3>7 DEF GravarAdenda, Pedido
      <4>2. {"DRAFTING", "EM_ADENDA"} \subseteq ContratoEstado
        BY DEF ContratoEstado
      <4>3. estado' \in [Contratos -> ContratoEstado \cup {Inexistente}]
        BY <3>7, <4>1, <4>2 DEF GravarAdenda, EstadoAdenda
      <4>4. ultimo' \in [Contratos -> ContratoEstado \cup {Inexistente}]
        BY <3>7, <4>1, <4>2 DEF GravarAdenda, EstadoAdenda
      <4>5. /\ pai' \in [Contratos -> Contratos \cup {SemContrato}]
            /\ principais' \in [Contratos -> BOOLEAN]
        BY <3>7, <4>1 DEF GravarAdenda
      <4> QED
        BY <3>7, <4>3, <4>4, <4>5 DEF GravarAdenda
    <3>8. CASE AssinarVerificar(p)
      <4> DEFINE c == pedido[p].c
                 r == Req("marcar", c, Inexistente, Inexistente, pai[c], FALSE)
      <4>1. c \in Contratos
        BY <3>8 DEF AssinarVerificar
      <4>2. r \in Pedido /\ r.c = c
        BY <4>1 DEF Req, Pedido, Paragens
      <4> HIDE DEF r
      <4>3. Passa(p, r) \/ Acaba(p)
        BY <3>8 DEF AssinarVerificar, r
      <4> QED
        BY <3>8, <4>1, <4>2, <4>3 DEF AssinarVerificar
    <3>9. CASE AssinarMarcar(p)
      <4>1. /\ [pedido[p] EXCEPT !.pc = "evento"] \in Pedido
            /\ [pedido[p] EXCEPT !.pc = "evento"].c = pedido[p].c
        BY SegueTipo DEF Paragens
      <4> QED
        BY <3>9, <4>1 DEF AssinarMarcar, Segue, ContratoEstado
    <3>10. CASE AssinarEvento(p)
      <4>1. /\ [pedido[p] EXCEPT !.pc = "lerPai"] \in Pedido
            /\ [pedido[p] EXCEPT !.pc = "lerPai"].c = pedido[p].c
        BY SegueTipo DEF Paragens
      <4> QED
        BY <3>10, <4>1 DEF AssinarEvento, Segue, ContratoEstado
    <3>11. CASE AssinarLerPai(p)
      <4>1. /\ [pedido[p] EXCEPT !.pc = "marcarPai"] \in Pedido
            /\ [pedido[p] EXCEPT !.pc = "marcarPai"].c = pedido[p].c
        BY SegueTipo DEF Paragens
      <4> QED
        BY <3>11, <4>1 DEF AssinarLerPai, Segue
    <3>12. CASE AssinarMarcarPai(p)
      <4>1. /\ [pedido[p] EXCEPT !.pc = "eventoPai"] \in Pedido
            /\ [pedido[p] EXCEPT !.pc = "eventoPai"].c = pedido[p].c
        BY SegueTipo DEF Paragens
      <4> QED
        BY <3>12, <4>1 DEF AssinarMarcarPai, Segue, ContratoEstado
    <3>13. CASE AssinarEventoPai(p)
      BY <3>13 DEF AssinarEventoPai, ContratoEstado
    <3> QED
      BY <2>3, <3>1, <3>2, <3>3, <3>4, <3>5, <3>6, <3>7, <3>8, <3>9, <3>10, <3>11,
         <3>12, <3>13 DEF Continua
  <2>4. ASSUME NEW p \in Pedidos, Falhar(p) PROVE TypeOK'
    BY <2>4 DEF Falhar, Acaba, Passa, Livre, Req, Pedido, Paragens
  <2> QED
    BY <2>1, <2>2, <2>3, <2>4 DEF Next
<1> QED
  BY <1>1, <1>2, PTL DEF Spec

-----------------------------------------------------------------------------
(***************************************************************************)
(* The rows only move forward: a row that exists keeps existing, and one   *)
(* that took effect stays so.  Stale reads do not matter because every     *)
(* unconditional write (TERMINADO, EM_ADENDA, ASSINADO, ACTIVO) lands on a *)
(* state of a contract that took effect; the inductive invariant says that *)
(* those prepared by a request are only prepared where they may land.      *)
(***************************************************************************)
Avanca == \A c \in Contratos :
            /\ estado[c] # Inexistente => estado'[c] # Inexistente
            /\ estado[c] \in Vigentes => estado'[c] \in Vigentes

(* An unconditional write of a state of effect moves rows forward. *)
LEMMA EscritaAvanca ==
  ASSUME TypeOK, NEW d \in Contratos, NEW e \in Vigentes,
         estado' = [estado EXCEPT ![d] = e]
  PROVE  Avanca
BY DEF TypeOK, Avanca, Vigentes, ContratoEstado, Inexistente

(* Every step moves the rows forward. *)
LEMMA PassoAvanca ==
  ASSUME TypeOK, PedidosCoerentes, [Next]_vars
  PROVE  Avanca
<1>1. CASE UNCHANGED estado
  BY <1>1 DEF Avanca
<1>2. ASSUME NEW p \in Pedidos, NEW c \in Contratos, Create(p, c) PROVE Avanca
  <2>1. PICK e \in EstadosIniciais : estado' = [estado EXCEPT ![c] = e]
    BY <1>2 DEF Create, Regista
  <2>2. estado[c] = Inexistente /\ e # Inexistente /\ Inexistente \notin Vigentes
    BY <1>2, IniciaisAssumption
    DEF Create, Existe, EstadoInicialDto, Inexistente, Vigentes, ContratoEstado
  <2> QED
    BY <2>1, <2>2 DEF TypeOK, Avanca
<1>3. ASSUME NEW p \in Pedidos, GravarTransitar(p) PROVE Avanca
  <2> DEFINE r == pedido[p]
  <2>1. r.c \in Contratos /\ r.lido = estado[r.c] /\ r.lido \in ContratoEstado
        /\ r.para \in CONTRATO_TRANSITIONS[r.lido]
        /\ estado' = [estado EXCEPT ![r.c] = r.para]
    BY <1>3 DEF GravarTransitar, Intacto, Regista, Parado, TypeOK, PedidosCoerentes, Coerente, canTransition
  <2>2. r.para \in ContratoEstado /\ r.para # Inexistente
    BY <2>1, GrafoTipo DEF ContratoEstado, Inexistente
  <2>3. r.lido \in Vigentes => r.para \in Vigentes
    BY <2>1, GrafoFechado
  <2> QED
    BY <2>1, <2>2, <2>3 DEF TypeOK, Avanca
<1>4. ASSUME NEW p \in Pedidos, GravarTerminar(p) PROVE Avanca
  <2>1. pedido[p].c \in Contratos /\ "TERMINADO" \in Vigentes
    BY <1>4 DEF GravarTerminar, Parado, TypeOK, Vigentes, ContratoEstado, PreAssinatura
  <2> QED
    BY <1>4, <2>1, EscritaAvanca DEF GravarTerminar, Regista
<1>5. ASSUME NEW p \in Pedidos, NEW a \in Contratos, GravarAdenda(p, a) PROVE Avanca
  <2> DEFINE d == pedido[p].c
  <2>1. d \in Contratos /\ estado[d] \in Vigentes /\ estado[a] = Inexistente
    BY <1>5 DEF GravarAdenda, Parado, TypeOK, PedidosCoerentes, Coerente, Existe
  <2>2. "EM_ADENDA" \in Vigentes /\ Inexistente \notin Vigentes
    BY DEF Vigentes, ContratoEstado, PreAssinatura, Inexistente
  <2>3. \A c \in Contratos : estado'[c] = estado[c] \/ c = a
                           \/ (c = d /\ estado'[c] = "EM_ADENDA")
    BY <1>5, <2>1 DEF GravarAdenda, TypeOK
  <2>4. estado'[a] \in {"DRAFTING", "EM_ADENDA"}
    BY <1>5, <2>1, <2>2 DEF GravarAdenda, EstadoAdenda, TypeOK
  <2> QED
    BY <2>1, <2>2, <2>3, <2>4 DEF Avanca, Inexistente
<1>6. ASSUME NEW p \in Pedidos, AssinarMarcar(p) PROVE Avanca
  <2>1. pedido[p].c \in Contratos /\ "ASSINADO" \in Vigentes
    BY <1>6 DEF AssinarMarcar, Parado, TypeOK, Vigentes, ContratoEstado, PreAssinatura
  <2> QED
    BY <1>6, <2>1, EscritaAvanca DEF AssinarMarcar
<1>7. ASSUME NEW p \in Pedidos, AssinarMarcarPai(p) PROVE Avanca
  <2>1. pedido[p].ref \in Contratos /\ "ACTIVO" \in Vigentes
    BY <1>7 DEF AssinarMarcarPai, Parado, PedidosCoerentes, Coerente, Vigentes,
                ContratoEstado, PreAssinatura
  <2> QED
    BY <1>7, <2>1, EscritaAvanca DEF AssinarMarcarPai
<1> QED
  BY <1>1, <1>2, <1>3, <1>4, <1>5, <1>6, <1>7
  DEF Next, vars, Inicia, Continua, LerUpdate, LerTransitar, LerSoftDelete, LerTerminar,
      LerAdenda, Assinar, AlterarPartes, GravarUpdate, ConflitoTransitar,
      GravarSoftDelete, RecusarTerminar, AssinarVerificar, AssinarEvento,
      AssinarLerPai, AssinarEventoPai, Falhar

(* A request no step touches stays coherent while the rows move forward. *)
LEMMA OutroCoerente ==
  ASSUME TypeOK, Avanca, NEW q \in Pedidos, Coerente(q), pedido'[q] = pedido[q]
  PROVE  Coerente(q)'
BY DEF TypeOK, Pedido, Avanca, Coerente, Existe

(* A finished request is coherent. *)
LEMMA LivreCoerente ==
  ASSUME NEW q \in Pedidos, pedido'[q] = Livre
  PROVE  Coerente(q)'
BY DEF Coerente, Livre, Req

(* The step of a request leaves that request coherent. *)
LEMMA ProprioCoerente ==
  ASSUME TypeOK, TypeOK', Avanca, NEW p \in Pedidos, Coerente(p),
         \/ \E c \in Contratos : Inicia(p, c)
         \/ Continua(p)
         \/ Falhar(p)
  PROVE  Coerente(p)'
<1>1. ASSUME Acaba(p) PROVE Coerente(p)'
  BY <1>1, LivreCoerente DEF Acaba, Passa, TypeOK
<1>2. ASSUME NEW c \in Contratos, Inicia(p, c) PROVE Coerente(p)'
  <2> USE DEF TypeOK, Passa, Coerente, Existe
  <2>1. CASE Create(p, c)
    BY <2>1, OutroCoerente DEF Create
  <2>2. CASE LerUpdate(p, c)
    BY <2>2 DEF LerUpdate, Req, Visivel
  <2>3. CASE LerTransitar(p, c)
    BY <2>3 DEF LerTransitar, Req, Visivel, Inexistente
  <2>4. CASE LerSoftDelete(p, c)
    BY <2>4 DEF LerSoftDelete, Req, Visivel
  <2>5. CASE LerTerminar(p, c)
    BY <2>5, PortasVigentes DEF LerTerminar, Req, Visivel
  <2>6. CASE LerAdenda(p, c)
    BY <2>6, PortasVigentes
    DEF LerAdenda, Req, Visivel, Vigentes, ContratoEstado, PreAssinatura
  <2>7. CASE Assinar(p, c)
    BY <2>7 DEF Assinar, Req, Visivel
  <2>8. CASE AlterarPartes(p, c)
    BY <2>8, OutroCoerente DEF AlterarPartes
  <2> QED
    BY <1>2, <2>1, <2>2, <2>3, <2>4, <2>5, <2>6, <2>7, <2>8 DEF Inicia
<1>3. ASSUME Continua(p) PROVE Coerente(p)'
  <2>1. CASE AssinarVerificar(p)
    <3>1. CASE Passa(p, Req("marcar", pedido[p].c, Inexistente, Inexistente,
                            pai[pedido[p].c], FALSE))
      BY <2>1, <3>1
      DEF AssinarVerificar, Parado, Passa, Req, TypeOK, Coerente, Existe
    <3> QED
      BY <1>1, <2>1, <3>1 DEF AssinarVerificar
  <2>2. CASE AssinarMarcar(p)
    <3>1. pedido'[p].pc = "evento" /\ pedido'[p].c = pedido[p].c
      BY <2>2, SegueCampos DEF AssinarMarcar, Paragens
    <3>2. /\ pedido[p].c \in Contratos /\ "ASSINADO" \in Vigentes
          /\ estado'[pedido[p].c] = "ASSINADO" /\ "ASSINADO" # Inexistente
      BY <2>2 DEF AssinarMarcar, Parado, TypeOK, Vigentes, ContratoEstado, PreAssinatura,
                  Inexistente
    <3> QED
      BY <3>1, <3>2 DEF Coerente, Existe
  <2>3. CASE AssinarEvento(p)
    <3>1. CASE Segue(p, "lerPai") /\ pedido[p].ref # SemContrato
      <4>1. pedido[p].ref \in Contratos
        BY <3>1 DEF TypeOK, Pedido
      <4>2. /\ pedido'[p].pc = "lerPai"
            /\ pedido'[p].c = pedido[p].c /\ pedido'[p].ref = pedido[p].ref
        BY <3>1, SegueCampos DEF Paragens
      <4> QED
        BY <2>3, <4>1, <4>2 DEF AssinarEvento, Parado, Coerente, Existe
    <3> QED
      BY <1>1, <2>3, <3>1 DEF AssinarEvento
  <2>4. CASE AssinarLerPai(p)
    <3>1. CASE Segue(p, "marcarPai") /\ PaiEspera(pedido[p].ref)
      <4>1. "EM_ADENDA" \in Vigentes
        BY DEF Vigentes, ContratoEstado, PreAssinatura
      <4>2. /\ pedido'[p].pc = "marcarPai"
            /\ pedido'[p].c = pedido[p].c /\ pedido'[p].ref = pedido[p].ref
        BY <3>1, SegueCampos DEF Paragens
      <4> QED
        BY <2>4, <3>1, <4>1, <4>2 DEF AssinarLerPai, PaiEspera, Parado, Coerente, Existe
    <3> QED
      BY <1>1, <2>4, <3>1 DEF AssinarLerPai
  <2>5. CASE AssinarMarcarPai(p)
    <3>1. /\ pedido'[p].pc = "eventoPai"
          /\ pedido'[p].c = pedido[p].c /\ pedido'[p].ref = pedido[p].ref
      BY <2>5, SegueCampos DEF AssinarMarcarPai, Paragens
    <3> QED
      BY <2>5, <3>1 DEF AssinarMarcarPai, Parado, TypeOK, Coerente, Existe, Avanca
  <2> QED
    BY <1>1, <1>3, <2>1, <2>2, <2>3, <2>4, <2>5
    DEF Continua, GravarUpdate, GravarTransitar, ConflitoTransitar, GravarSoftDelete,
        GravarTerminar, RecusarTerminar, GravarAdenda, AssinarEventoPai
<1> QED
  BY <1>1, <1>2, <1>3 DEF Falhar

(* What requests in flight know stays coherent, in every reachable state. *)
THEOREM Coerencia == Spec => []PedidosCoerentes
<1>1. Init => PedidosCoerentes
  BY DEF Init, PedidosCoerentes, Coerente, Livre, Req
<1>2. TypeOK /\ TypeOK' /\ PedidosCoerentes /\ [Next]_vars => PedidosCoerentes'
  <2> SUFFICES ASSUME TypeOK, TypeOK', PedidosCoerentes, [Next]_vars,
                      NEW q \in Pedidos
               PROVE  Coerente(q)'
    BY DEF PedidosCoerentes
  <2>1. Avanca /\ Coerente(q)
    BY PassoAvanca DEF PedidosCoerentes
  <2>2. CASE pedido'[q] = pedido[q]
    BY <2>1, <2>2, OutroCoerente
  <2>3. CASE pedido'[q] # pedido[q]
    <3>1. PICK p \in Pedidos : \/ \E c \in Contratos : Inicia(p, c)
                              \/ Continua(p)
                              \/ Falhar(p)
      BY <2>3 DEF Next, vars
    <3>2. p = q
      BY <2>3, <3>1
      DEF TypeOK, Inicia, Continua, Falhar, Create, AlterarPartes, LerUpdate,
          LerTransitar, LerSoftDelete, LerTerminar, LerAdenda, Assinar,
          GravarUpdate, GravarTransitar, ConflitoTransitar, GravarSoftDelete,
          GravarTerminar, RecusarTerminar, GravarAdenda, AssinarVerificar,
          AssinarMarcar, AssinarEvento, AssinarLerPai, AssinarMarcarPai,
          AssinarEventoPai, Segue, Acaba, Passa
    <3> QED
      BY <2>1, <3>1, <3>2, ProprioCoerente
  <2> QED
    BY <2>2, <2>3
<1> QED
  BY <1>1, <1>2, TypeCorrect, PTL DEF Spec

-----------------------------------------------------------------------------
(* A contract that took effect never returns to drafting, negotiation or   *)
(* signature and is never cancelled, however many requests act on it at    *)
(* once with stale reads.                                                  *)
THEOREM Vigencia == Spec => SemRegresso
<1>1. TypeOK /\ PedidosCoerentes /\ [Next]_vars
        => [\A c \in Contratos : estado[c] \in Vigentes => estado'[c] \in Vigentes]_vars
  BY PassoAvanca DEF Avanca
<1> QED
  BY <1>1, TypeCorrect, Coerencia, PTL DEF Spec, SemRegresso

(* transitar never commits on a stale read.                                *)
THEOREM Optimista == Spec => TransitarOptimista
<1>1. TypeOK /\ PedidosCoerentes /\ [Next]_vars
        => [\A p \in Pedidos : LET r == pedido[p] IN
              (r.pc = "transitar" /\ pedido'[p] = Livre /\ estado' # estado) =>
                /\ ~apagado[r.c]
                /\ canTransition(estado[r.c], r.para)
                /\ estado' = [estado EXCEPT ![r.c] = r.para]]_vars
  <2> SUFFICES ASSUME TypeOK, PedidosCoerentes, Next, NEW p \in Pedidos,
                      pedido[p].pc = "transitar", pedido'[p] = Livre, estado' # estado
               PROVE  LET r == pedido[p] IN
                        /\ ~apagado[r.c]
                        /\ canTransition(estado[r.c], r.para)
                        /\ estado' = [estado EXCEPT ![r.c] = r.para]
    OBVIOUS
  <2>1. PICK q \in Pedidos : \/ \E c \in Contratos : Inicia(q, c)
                            \/ Continua(q)
                            \/ Falhar(q)
    BY DEF Next
  <2>2. q = p
    <3>1. pedido'[p] # pedido[p]
      BY DEF Livre, Req
    <3> QED
      BY <2>1, <3>1
      DEF TypeOK, Inicia, Continua, Falhar, Create, AlterarPartes, LerUpdate,
          LerTransitar, LerSoftDelete, LerTerminar, LerAdenda, Assinar,
          GravarUpdate, GravarTransitar, ConflitoTransitar, GravarSoftDelete,
          GravarTerminar, RecusarTerminar, GravarAdenda, AssinarVerificar,
          AssinarMarcar, AssinarEvento, AssinarLerPai, AssinarMarcarPai,
          AssinarEventoPai, Segue, Acaba, Passa
  <2>3. GravarTransitar(p)
    <3>1. pedido[p] # Livre
      BY DEF Livre, Req
    <3> QED
      BY <2>1, <2>2, <3>1
      DEF Inicia, Continua, Falhar, Create, AlterarPartes, LerUpdate,
          LerTransitar, LerSoftDelete, LerTerminar, LerAdenda, Assinar, Atende, Parado,
          GravarUpdate, ConflitoTransitar, GravarSoftDelete, GravarTerminar,
          RecusarTerminar, GravarAdenda, AssinarVerificar, AssinarMarcar,
          AssinarEvento, AssinarLerPai, AssinarMarcarPai, AssinarEventoPai
  <2> QED
    BY <2>3 DEF GravarTransitar, Intacto, Regista, PedidosCoerentes, Coerente
<1> QED
  BY <1>1, TypeCorrect, Coerencia, PTL DEF Spec, TransitarOptimista

-----------------------------------------------------------------------------
(* Until it takes effect, a contract and its timeline tell the same state: *)
(* the writes of the signature, which are not in a transaction, only touch *)
(* contracts that took effect, at the latest with that very write.         *)
THEOREM CronologiaAntes == Spec => []CronologiaAteVigorar
<1>1. Init => CronologiaAteVigorar
  BY DEF Init, CronologiaAteVigorar
<1>2. TypeOK /\ PedidosCoerentes /\ CronologiaAteVigorar /\ [Next]_vars
        => CronologiaAteVigorar'
  <2> SUFFICES ASSUME TypeOK, PedidosCoerentes, CronologiaAteVigorar, [Next]_vars
               PROVE  CronologiaAteVigorar'
    OBVIOUS
  <2>1. CASE UNCHANGED <<estado, ultimo>>
    BY <2>1 DEF CronologiaAteVigorar
  <2>2. ASSUME NEW c \in Contratos, NEW e \in ContratoEstado, Regista(c, e)
        PROVE  CronologiaAteVigorar'
    BY <2>2 DEF Regista, CronologiaAteVigorar, TypeOK
  <2>3. ASSUME NEW p \in Pedidos, NEW c \in Contratos, Create(p, c)
        PROVE  CronologiaAteVigorar'
    BY <2>2, <2>3, IniciaisAssumption DEF Create, EstadoInicialDto, ContratoEstado
  <2>4. ASSUME NEW p \in Pedidos, GravarTransitar(p) PROVE CronologiaAteVigorar'
    <3> DEFINE r == pedido[p]
    <3>1. r.c \in Contratos /\ r.para \in ContratoEstado
      BY <2>4, GrafoTipo
      DEF GravarTransitar, Parado, TypeOK, PedidosCoerentes, Coerente, canTransition
    <3> QED
      BY <2>2, <2>4, <3>1 DEF GravarTransitar
  <2>5. ASSUME NEW p \in Pedidos, GravarTerminar(p) PROVE CronologiaAteVigorar'
    <3>1. pedido[p].c \in Contratos /\ "TERMINADO" \in ContratoEstado
      BY <2>5 DEF GravarTerminar, Parado, TypeOK, ContratoEstado
    <3> QED
      BY <2>2, <2>5, <3>1 DEF GravarTerminar
  <2>6. ASSUME NEW p \in Pedidos, NEW a \in Contratos, GravarAdenda(p, a)
        PROVE  CronologiaAteVigorar'
    BY <2>6 DEF GravarAdenda, CronologiaAteVigorar, TypeOK
  <2>7. ASSUME NEW p \in Pedidos, AssinarMarcar(p) PROVE CronologiaAteVigorar'
    <3>1. "ASSINADO" \in Vigentes
      BY DEF Vigentes, ContratoEstado, PreAssinatura
    <3> QED
      BY <2>7, <3>1 DEF AssinarMarcar, CronologiaAteVigorar, TypeOK
  <2>8. ASSUME NEW p \in Pedidos, AssinarMarcarPai(p) PROVE CronologiaAteVigorar'
    <3>1. "ACTIVO" \in Vigentes
      BY DEF Vigentes, ContratoEstado, PreAssinatura
    <3> QED
      BY <2>8, <3>1 DEF AssinarMarcarPai, CronologiaAteVigorar, TypeOK
  <2>9. ASSUME NEW p \in Pedidos, AssinarEvento(p) PROVE CronologiaAteVigorar'
    <3>1. estado[pedido[p].c] \in Vigentes
      BY <2>9 DEF AssinarEvento, Parado, PedidosCoerentes, Coerente
    <3> QED
      BY <2>9, <3>1 DEF AssinarEvento, CronologiaAteVigorar, TypeOK
  <2>10. ASSUME NEW p \in Pedidos, AssinarEventoPai(p) PROVE CronologiaAteVigorar'
    <3>1. estado[pedido[p].ref] \in Vigentes
      BY <2>10 DEF AssinarEventoPai, Parado, PedidosCoerentes, Coerente
    <3> QED
      BY <2>10, <3>1 DEF AssinarEventoPai, CronologiaAteVigorar, TypeOK
  <2> QED
    BY <2>1, <2>3, <2>4, <2>5, <2>6, <2>7, <2>8, <2>9, <2>10
    DEF Next, vars, Inicia, Continua, LerUpdate, LerTransitar, LerSoftDelete, LerTerminar,
        LerAdenda, Assinar, AlterarPartes, GravarUpdate, ConflitoTransitar,
        GravarSoftDelete, RecusarTerminar, AssinarVerificar, AssinarLerPai, Falhar
<1> QED
  BY <1>1, <1>2, TypeCorrect, Coerencia, PTL DEF Spec

-----------------------------------------------------------------------------
(***************************************************************************)
(* Without the signature endpoint, whose writes are not in a transaction,  *)
(* every write of a state comes with its evento.  The inductive invariant  *)
(* adds that no request is ever at a statement of the signature.           *)
(***************************************************************************)
SemAssinatura ==
  \A p \in Pedidos : pedido[p].pc \notin
    {"verificar", "marcar", "evento", "lerPai", "marcarPai", "eventoPai"}

(* The row and the timeline tell the same state, if nothing is signed.     *)
THEOREM Cronologia ==
  ASSUME "assinar" \notin Operacoes
  PROVE  Spec => []CronologiaFiel
<1> DEFINE IInv == CronologiaFiel /\ SemAssinatura
<1>1. Init => IInv
  BY DEF Init, CronologiaFiel, SemAssinatura, Livre, Req
<1>2. TypeOK /\ IInv /\ [Next]_vars => IInv'
  <2> SUFFICES ASSUME TypeOK, IInv, [Next]_vars PROVE IInv'
    OBVIOUS
  <2>1. CASE UNCHANGED vars
    BY <2>1 DEF vars, CronologiaFiel, SemAssinatura
  <2>2. ASSUME NEW p \in Pedidos, NEW c \in Contratos, Inicia(p, c) PROVE IInv'
    <3>1. CronologiaFiel'
      BY <2>2 DEF Inicia, Create, Regista, LerUpdate, LerTransitar, LerSoftDelete,
                  LerTerminar, LerAdenda, Assinar, AlterarPartes, CronologiaFiel, TypeOK
    <3>2. SemAssinatura'
      BY <2>2 DEF Inicia, Create, LerUpdate, LerTransitar, LerSoftDelete, LerTerminar,
                  LerAdenda, Assinar, Atende, AlterarPartes, Passa, Req, SemAssinatura,
                  TypeOK
    <3> QED
      BY <3>1, <3>2
  <2>3. ASSUME NEW p \in Pedidos, Continua(p) PROVE IInv'
    <3>1. PICK a \in Contratos \cup {SemContrato} :
            \/ GravarUpdate(p) \/ GravarTransitar(p) \/ ConflitoTransitar(p)
            \/ GravarSoftDelete(p) \/ GravarTerminar(p) \/ RecusarTerminar(p)
            \/ a \in Contratos /\ GravarAdenda(p, a)
      BY <2>3 DEF Continua, SemAssinatura, Parado, AssinarVerificar, AssinarMarcar,
                  AssinarEvento, AssinarLerPai, AssinarMarcarPai, AssinarEventoPai
    <3>2. CronologiaFiel'
      BY <3>1 DEF GravarUpdate, GravarTransitar, ConflitoTransitar, GravarSoftDelete,
                  GravarTerminar, RecusarTerminar, GravarAdenda, Regista,
                  CronologiaFiel, TypeOK
    <3>3. pedido' = [pedido EXCEPT ![p] = Livre]
      BY <3>1 DEF GravarUpdate, GravarTransitar, ConflitoTransitar, GravarSoftDelete,
                  GravarTerminar, RecusarTerminar, GravarAdenda, Acaba, Passa
    <3> QED
      BY <3>2, <3>3 DEF SemAssinatura, Livre, Req, TypeOK
  <2>4. ASSUME NEW p \in Pedidos, Falhar(p) PROVE IInv'
    BY <2>4 DEF Falhar, Acaba, Passa, CronologiaFiel, SemAssinatura, Livre, Req, TypeOK
  <2> QED
    BY <2>1, <2>2, <2>3, <2>4 DEF Next
<1> QED
  BY <1>1, <1>2, TypeCorrect, PTL DEF Spec

-----------------------------------------------------------------------------
(***************************************************************************)
(* Requests served one at a time.  What a request decided on still holds   *)
(* when it writes, for no other request ran in between; so every write is  *)
(* a step of the life cycle.                                               *)
(***************************************************************************)
Serial == \A p, q \in Pedidos : p = q

Fresco(p) == LET r == pedido[p] IN
  /\ r.pc = "terminar" => podeTerminar(estado[r.c]) /\ ~apagado[r.c]
  /\ r.pc = "adenda" => r.lido = "ACTIVO" /\ estado[r.c] = "ACTIVO" /\ ~apagado[r.c]
  /\ r.pc \in {"verificar", "softDelete"} => ~apagado[r.c]
  /\ r.pc = "marcar" => estado[r.c] = "PRONTO_ASSINATURA" /\ ~apagado[r.c]
  /\ r.pc = "marcarPai" => estado[r.ref] = "EM_ADENDA"
PedidosFrescos == \A p \in Pedidos : Fresco(p)

(* A request that ends, or that only goes on to write an evento or to read *)
(* the parent, has nothing left to be stale about.                         *)
LEMMA SemPrazo ==
  ASSUME NEW p \in Pedidos, pedido'[p].pc \in {"livre", "evento", "lerPai", "eventoPai",
                                               "update", "transitar"}
  PROVE  Fresco(p)'
BY DEF Fresco

(* Served one at a time, requests never act on a stale read.               *)
LEMMA Frescura ==
  ASSUME Serial
  PROVE  Spec => []PedidosFrescos
<1>1. Init => PedidosFrescos
  BY DEF Init, PedidosFrescos, Fresco, Livre, Req
<1>2. TypeOK /\ PedidosFrescos /\ [Next]_vars => PedidosFrescos'
  <2> SUFFICES ASSUME TypeOK, PedidosFrescos, [Next]_vars, NEW p \in Pedidos
               PROVE  Fresco(p)'
    BY DEF PedidosFrescos
  <2>1. CASE UNCHANGED vars
    BY <2>1 DEF vars, PedidosFrescos, Fresco
  <2>2. ASSUME NEW c \in Contratos, Inicia(p, c) PROVE Fresco(p)'
    <3> USE <2>2 DEF TypeOK, Passa
    <3>1. CASE Create(p, c)
      BY <3>1, SemPrazo DEF Create, Atende, Livre, Req
    <3>2. CASE LerUpdate(p, c)
      BY <3>2, SemPrazo DEF LerUpdate, Req
    <3>3. CASE LerTransitar(p, c)
      BY <3>3, SemPrazo DEF LerTransitar, Req
    <3>4. CASE LerSoftDelete(p, c)
      BY <3>4 DEF LerSoftDelete, Req, Visivel, Fresco
    <3>5. CASE LerTerminar(p, c)
      BY <3>5 DEF LerTerminar, Req, Visivel, Fresco
    <3>6. CASE LerAdenda(p, c)
      <4>1. estado[c] = "ACTIVO"
        BY <3>6, PortasVigentes DEF LerAdenda, Visivel, Existe
      <4> QED
        BY <3>6, <4>1 DEF LerAdenda, Req, Visivel, Fresco
    <3>7. CASE Assinar(p, c)
      BY <3>7 DEF Assinar, Req, Visivel, Fresco
    <3>8. CASE AlterarPartes(p, c)
      BY <3>8, SemPrazo DEF AlterarPartes, Atende, Livre, Req
    <3> QED
      BY <3>1, <3>2, <3>3, <3>4, <3>5, <3>6, <3>7, <3>8 DEF Inicia
  <2>3. ASSUME Acaba(p) PROVE Fresco(p)'
    BY <2>3, SemPrazo, LivreTipo DEF Acaba, Passa, TypeOK
  <2>4. ASSUME Continua(p) PROVE Fresco(p)'
    <3>1. CASE AssinarVerificar(p)
      <4>1. CASE Passa(p, Req("marcar", pedido[p].c, Inexistente, Inexistente,
                              pai[pedido[p].c], FALSE))
                 /\ estado[pedido[p].c] = "PRONTO_ASSINATURA"
        BY <3>1, <4>1
        DEF AssinarVerificar, Parado, Passa, Req, TypeOK, PedidosFrescos, Fresco
      <4> QED
        BY <2>3, <3>1, <4>1 DEF AssinarVerificar
    <3>2. CASE AssinarMarcar(p)
      BY <3>2, SegueCampos, SemPrazo DEF AssinarMarcar, Paragens
    <3>3. CASE AssinarEvento(p)
      <4>1. CASE Segue(p, "lerPai")
        BY <4>1, SegueCampos, SemPrazo DEF Paragens
      <4> QED
        BY <2>3, <3>3, <4>1 DEF AssinarEvento
    <3>4. CASE AssinarLerPai(p)
      <4>1. CASE Segue(p, "marcarPai") /\ PaiEspera(pedido[p].ref)
        <5>1. pedido'[p].pc = "marcarPai" /\ pedido'[p].ref = pedido[p].ref
          BY <4>1, SegueCampos DEF Paragens
        <5> QED
          BY <3>4, <4>1, <5>1 DEF AssinarLerPai, PaiEspera, Fresco
      <4> QED
        BY <2>3, <3>4, <4>1 DEF AssinarLerPai
    <3>5. CASE AssinarMarcarPai(p)
      BY <3>5, SegueCampos, SemPrazo DEF AssinarMarcarPai, Paragens
    <3> QED
      BY <2>3, <2>4, <3>1, <3>2, <3>3, <3>4, <3>5
      DEF Continua, GravarUpdate, GravarTransitar, ConflitoTransitar, GravarSoftDelete,
          GravarTerminar, RecusarTerminar, GravarAdenda, AssinarEventoPai
  <2> QED
    BY <2>1, <2>2, <2>3, <2>4, Serial DEF Next, Serial, Falhar
<1> QED
  BY <1>1, <1>2, TypeCorrect, PTL DEF Spec

-----------------------------------------------------------------------------
(* Served one at a time, the requests implement the life cycle: every step *)
(* is one of its steps or leaves it alone.                                 *)
THEOREM Refinamento ==
  ASSUME Serial
  PROVE  Spec => RefinaCiclo
<1> DEFINE PassoCiclo == Ciclo!Next \/ UNCHANGED <<estado, apagado>>
<1>1. Init => Ciclo!Init
  BY DEF Init, Ciclo!Init, Inexistente, Ciclo!Inexistente
<1>2. TypeOK /\ PedidosCoerentes /\ PedidosFrescos /\ [Next]_vars
        => [Ciclo!Next]_(Ciclo!vars)
  <2> SUFFICES ASSUME TypeOK, PedidosCoerentes, PedidosFrescos, [Next]_vars
               PROVE  PassoCiclo
    BY DEF Ciclo!vars
  <2>1. ASSUME NEW p \in Pedidos, NEW c \in Contratos, Create(p, c) PROVE PassoCiclo
    <3>1. Ciclo!Criar(c)
      BY <2>1 DEF Create, Regista, Existe, Inexistente, Ciclo!Criar, Ciclo!Inexistente
    <3> QED
      BY <3>1 DEF Ciclo!Next
  <2>2. ASSUME NEW p \in Pedidos, GravarTransitar(p) PROVE PassoCiclo
    <3>1. pedido[p].c \in Contratos
      BY <2>2 DEF GravarTransitar, Parado, TypeOK
    <3>2. Ciclo!Avancar(pedido[p].c)
      BY <2>2
      DEF GravarTransitar, Parado, Intacto, Regista, PedidosCoerentes, Coerente, Existe,
          Inexistente, canTransition, Ciclo!Avancar, Ciclo!Inexistente,
          Ciclo!CONTRATO_TRANSITIONS, CONTRATO_TRANSITIONS
    <3> QED
      BY <3>1, <3>2 DEF Ciclo!Next
  <2>3. ASSUME NEW p \in Pedidos, GravarSoftDelete(p) PROVE PassoCiclo
    <3>1. pedido[p].c \in Contratos
      BY <2>3 DEF GravarSoftDelete, Parado, TypeOK
    <3>2. Ciclo!Apagar(pedido[p].c)
      BY <2>3
      DEF GravarSoftDelete, Parado, PedidosCoerentes, Coerente, PedidosFrescos, Fresco,
          Existe, Inexistente, Ciclo!Apagar, Ciclo!Inexistente
    <3> QED
      BY <3>1, <3>2 DEF Ciclo!Next
  <2>4. ASSUME NEW p \in Pedidos, GravarTerminar(p) PROVE PassoCiclo
    <3>1. pedido[p].c \in Contratos
      BY <2>4 DEF GravarTerminar, Parado, TypeOK
    <3>2. Ciclo!Terminar(pedido[p].c)
      BY <2>4
      DEF GravarTerminar, Parado, Regista, PedidosCoerentes, Coerente, PedidosFrescos,
          Fresco, Existe, Inexistente, podeTerminar, canTransition, Ciclo!canTransition,
          Ciclo!Terminar, Ciclo!Inexistente, Ciclo!CONTRATO_TRANSITIONS,
          CONTRATO_TRANSITIONS
    <3> QED
      BY <3>1, <3>2 DEF Ciclo!Next
  <2>5. ASSUME NEW p \in Pedidos, NEW a \in Contratos, GravarAdenda(p, a)
        PROVE  PassoCiclo
    <3> DEFINE c == pedido[p].c
    <3>1. /\ c \in Contratos /\ pedido[p].lido = "ACTIVO"
          /\ estado[c] = "ACTIVO" /\ ~apagado[c]
      BY <2>5 DEF GravarAdenda, Parado, TypeOK, PedidosFrescos, Fresco
    <3>2. estado[a] = Inexistente
      BY <2>5 DEF GravarAdenda, Existe
    <3>3. canTransition("ACTIVO", "EM_ADENDA")
      BY DEF canTransition, CONTRATO_TRANSITIONS
    <3>4. estado' = [estado EXCEPT ![a] = "DRAFTING", ![c] = "EM_ADENDA"]
      BY <2>5, <3>1, <3>3 DEF GravarAdenda, EstadoAdenda
    <3>5. estado' = [estado EXCEPT ![c] = "EM_ADENDA", ![a] = "DRAFTING"]
      BY <3>1, <3>2, <3>4 DEF TypeOK, Inexistente
    <3>6. Ciclo!AbrirAdenda(c, a)
      BY <2>5, <3>1, <3>2, <3>5
      DEF GravarAdenda, Inexistente, Ciclo!AbrirAdenda, Ciclo!Inexistente
    <3> QED
      BY <3>1, <3>6 DEF Ciclo!Next
  <2>6. ASSUME NEW p \in Pedidos, AssinarMarcar(p) PROVE PassoCiclo
    <3>1. /\ pedido[p].c \in Contratos
          /\ estado[pedido[p].c] = "PRONTO_ASSINATURA" /\ ~apagado[pedido[p].c]
      BY <2>6 DEF AssinarMarcar, Parado, TypeOK, PedidosFrescos, Fresco
    <3>2. "ASSINADO" \in Ciclo!CONTRATO_TRANSITIONS[estado[pedido[p].c]]
      BY <3>1 DEF Ciclo!CONTRATO_TRANSITIONS
    <3>3. estado[pedido[p].c] # Ciclo!Inexistente
      BY <3>1 DEF Ciclo!Inexistente
    <3>4. Ciclo!Avancar(pedido[p].c)
      BY <2>6, <3>1, <3>2, <3>3 DEF AssinarMarcar, Ciclo!Avancar
    <3> QED
      BY <3>1, <3>4 DEF Ciclo!Next
  <2>7. ASSUME NEW p \in Pedidos, AssinarMarcarPai(p) PROVE PassoCiclo
    <3>1. pedido[p].ref \in Contratos /\ estado[pedido[p].ref] = "EM_ADENDA"
      BY <2>7 DEF AssinarMarcarPai, Parado, PedidosCoerentes, Coerente, PedidosFrescos,
                  Fresco
    <3>2. Ciclo!FecharAdenda(pedido[p].ref)
      BY <2>7, <3>1 DEF AssinarMarcarPai, Ciclo!FecharAdenda
    <3> QED
      BY <3>1, <3>2 DEF Ciclo!Next
  <2> QED
    BY <2>1, <2>2, <2>3, <2>4, <2>5, <2>6, <2>7
    DEF Next, vars, Inicia, Continua, LerUpdate, LerTransitar, LerSoftDelete, LerTerminar,
        LerAdenda, Assinar, AlterarPartes, GravarUpdate, ConflitoTransitar,
        RecusarTerminar, AssinarVerificar, AssinarEvento, AssinarLerPai,
        AssinarEventoPai, Falhar
<1> QED
  BY <1>1, <1>2, TypeCorrect, Coerencia, Frescura, PTL DEF Spec, RefinaCiclo, Ciclo!Spec

-----------------------------------------------------------------------------
(***************************************************************************)
(* Any number of requests, interleaved in any way.  What keeps a finished  *)
(* termination final: each endpoint that could write over it either refuses *)
(* the state it reads now, or (transitar) finds the row changed since.     *)
(***************************************************************************)
LEMMA NaoReabre ==
  ASSUME TypeOK, PedidosCoerentes, NEW c \in Contratos, Encerrado(c), Next
  PROVE  terminacao'[c] /\ estado'[c] \in {"TERMINADO", "ARQUIVADO"}
<1> USE DEF TypeOK
<1>0. terminacao[c] /\ estado[c] \in {"TERMINADO", "ARQUIVADO"} /\ \A p \in Pedidos : ~Ameaca(p, c)
  BY DEF Encerrado
<1>1. ASSUME NEW p \in Pedidos, NEW d \in Contratos, Create(p, d)
      PROVE  terminacao'[c] /\ estado'[c] \in {"TERMINADO", "ARQUIVADO"}
  BY <1>0, <1>1 DEF Create, Regista, Existe, Inexistente
<1>2. ASSUME NEW p \in Pedidos, GravarTransitar(p)
      PROVE  terminacao'[c] /\ estado'[c] \in {"TERMINADO", "ARQUIVADO"}
  <2>1. /\ UNCHANGED terminacao /\ estado' = [estado EXCEPT ![pedido[p].c] = pedido[p].para]
        /\ pedido[p].para \in CONTRATO_TRANSITIONS[estado[pedido[p].c]]
    BY <1>2 DEF GravarTransitar, Parado, Intacto, Regista, PedidosCoerentes, Coerente, canTransition
  <2> QED
    BY <1>0, <2>1 DEF CONTRATO_TRANSITIONS
<1>3. ASSUME NEW p \in Pedidos, GravarTerminar(p)
      PROVE  terminacao'[c] /\ estado'[c] \in {"TERMINADO", "ARQUIVADO"}
  BY <1>0, <1>3 DEF GravarTerminar, Parado, Regista
<1>4. ASSUME NEW p \in Pedidos, NEW a \in Contratos, GravarAdenda(p, a)
      PROVE  terminacao'[c] /\ estado'[c] \in {"TERMINADO", "ARQUIVADO"}
  <2>1. a # c /\ pedido[p].c # c
    BY <1>0, <1>4 DEF GravarAdenda, Parado, Existe, Inexistente, Ameaca
  <2> QED
    BY <1>0, <1>4, <2>1 DEF GravarAdenda
<1>5. ASSUME NEW p \in Pedidos, AssinarMarcar(p) \/ AssinarMarcarPai(p)
      PROVE  terminacao'[c] /\ estado'[c] \in {"TERMINADO", "ARQUIVADO"}
  BY <1>0, <1>5 DEF AssinarMarcar, AssinarMarcarPai, Parado, Ameaca
<1> QED
  BY <1>0, <1>1, <1>2, <1>3, <1>4, <1>5
  DEF Next, Inicia, Continua, LerUpdate, LerTransitar, LerSoftDelete, LerTerminar,
      LerAdenda, Assinar, AlterarPartes, GravarUpdate, ConflitoTransitar,
      GravarSoftDelete, RecusarTerminar, AssinarVerificar, AssinarEvento,
      AssinarLerPai, AssinarEventoPai, Falhar

LEMMA NaoAmeaca ==
  ASSUME TypeOK, NEW c \in Contratos, Encerrado(c), Next, NEW q \in Pedidos
  PROVE  ~Ameaca(q, c)'
<1> USE DEF TypeOK
<1>0. estado[c] \in {"TERMINADO", "ARQUIVADO"} /\ ~Ameaca(q, c)
  BY DEF Encerrado
<1>1. PICK p \in Pedidos : (\E d \in Contratos : Inicia(p, d)) \/ Continua(p) \/ Falhar(p)
  BY DEF Next
<1>2. CASE pedido'[q] = pedido[q]
  BY <1>0, <1>2 DEF Ameaca
<1>3. CASE pedido'[q].pc \notin {"adenda", "marcar", "marcarPai"}
  BY <1>3 DEF Ameaca
<1>4. ASSUME NEW d \in Contratos, Inicia(p, d) PROVE ~Ameaca(q, c)'
  <2>1. CASE LerAdenda(p, d)
    <3>1. estado[d] = "ACTIVO"
      BY <2>1, PortasVigentes DEF LerAdenda, Visivel, Existe
    <3>2. d # c
      BY <1>0, <3>1
    <3> QED
      BY <1>2, <2>1, <3>2 DEF LerAdenda, Passa, Req, Ameaca
  <2>2. CASE Create(p, d) \/ AlterarPartes(p, d)
    BY <1>2, <2>2 DEF Create, AlterarPartes
  <2>3. CASE LerUpdate(p, d) \/ LerTransitar(p, d) \/ LerSoftDelete(p, d) \/ LerTerminar(p, d)
             \/ Assinar(p, d)
    BY <1>2, <1>3, <2>3
    DEF LerUpdate, LerTransitar, LerSoftDelete, LerTerminar, Assinar, Passa, Req
  <2> QED
    BY <1>4, <2>1, <2>2, <2>3 DEF Inicia
<1>5. ASSUME Acaba(p) PROVE ~Ameaca(q, c)'
  BY <1>2, <1>3, <1>5, LivreTipo DEF Acaba, Passa
<1>6. ASSUME NEW ponto \in {"evento", "lerPai", "eventoPai"}, Segue(p, ponto) PROVE ~Ameaca(q, c)'
  BY <1>2, <1>3, <1>6 DEF Segue, Passa, Pedido
<1>7. ASSUME Continua(p) PROVE ~Ameaca(q, c)'
  <2>1. CASE AssinarVerificar(p)
    <3>1. CASE estado[pedido[p].c] = "PRONTO_ASSINATURA"
               /\ Passa(p, Req("marcar", pedido[p].c, Inexistente, Inexistente, pai[pedido[p].c], FALSE))
      <4>1. pedido[p].c # c
        BY <1>0, <3>1
      <4> QED
        BY <1>2, <3>1, <4>1 DEF Passa, Req, Ameaca
    <3> QED
      BY <1>5, <2>1, <3>1 DEF AssinarVerificar
  <2>2. CASE AssinarMarcar(p)
    BY <1>6, <2>2 DEF AssinarMarcar
  <2>3. CASE AssinarEvento(p)
    BY <1>5, <1>6, <2>3 DEF AssinarEvento
  <2>4. CASE AssinarLerPai(p)
    <3>1. CASE PaiEspera(pedido[p].ref) /\ Segue(p, "marcarPai")
      <4>1. pedido[p].ref # c
        BY <1>0, <3>1 DEF PaiEspera
      <4>2. pedido'[p].pc = "marcarPai" /\ pedido'[p].ref = pedido[p].ref
        BY <3>1, SegueCampos DEF Paragens
      <4>3. CASE q = p
        BY <4>1, <4>2, <4>3 DEF Ameaca
      <4>4. CASE q # p
        BY <1>2, <3>1, <4>4 DEF Segue, Passa
      <4> QED
        BY <4>3, <4>4
    <3> QED
      BY <1>5, <2>4, <3>1 DEF AssinarLerPai
  <2>5. CASE AssinarMarcarPai(p)
    BY <1>6, <2>5 DEF AssinarMarcarPai
  <2> QED
    BY <1>5, <1>7, <2>1, <2>2, <2>3, <2>4, <2>5
    DEF Continua, GravarUpdate, GravarTransitar, ConflitoTransitar, GravarSoftDelete,
        GravarTerminar, RecusarTerminar, GravarAdenda, AssinarEventoPai
<1> QED
  BY <1>1, <1>4, <1>5, <1>7 DEF Falhar

(* Once the requests that read the contract before its termination have    *)
(* gone, the termination is final, whatever starts afterwards.             *)
THEOREM Definitiva == Spec => TerminacaoDefinitiva
<1>1. ASSUME TypeOK, PedidosCoerentes, [Next]_vars, NEW c \in Contratos, Encerrado(c)
      PROVE  Encerrado(c)'
  <2>1. CASE UNCHANGED vars
    BY <1>1, <2>1 DEF vars, Encerrado, Ameaca
  <2>2. CASE Next
    <3>1. terminacao'[c] /\ estado'[c] \in {"TERMINADO", "ARQUIVADO"}
      BY <1>1, <2>2, NaoReabre
    <3>2. \A q \in Pedidos : ~Ameaca(q, c)'
      BY <1>1, <2>2, NaoAmeaca
    <3> QED
      BY <3>1, <3>2 DEF Encerrado
  <2> QED
    BY <1>1, <2>1, <2>2
<1>2. TypeOK /\ PedidosCoerentes /\ [Next]_vars => [\A c \in Contratos : Encerrado(c) => Encerrado(c)']_vars
  BY <1>1
<1> QED
  BY <1>2, TypeCorrect, Coerencia, PTL DEF Spec, TerminacaoDefinitiva
=============================================================================
