---------------------------- MODULE ContratoCiclo ----------------------------
(***************************************************************************)
(* The life cycle of contracts as the API really runs it: every HTTP       *)
(* request reads the contract in one database statement, decides, and      *)
(* writes later, in another statement or transaction.  Isolation is READ   *)
(* COMMITTED, so anything may happen between the two.                      *)
(*                                                                         *)
(* pedido[p] is one request in flight: where it stopped and what it        *)
(* remembers of the database.  A database transaction is one action; two   *)
(* statements outside a transaction are two actions, and the request may   *)
(* die between them (Falhar).                                              *)
(*                                                                         *)
(* Services: contratos (create, update, transitar, softDelete),            *)
(* terminacao (registar), adendas (criar), assinaturas (assinar and        *)
(* maybeTransitionToAssinado), partes (add, remove).                       *)
(***************************************************************************)
EXTENDS ContratoEstados

CONSTANTS
  Contratos,        \* contract ids, those of adendas included
  SemContrato,      \* the null reference
  Pedidos,          \* the requests the API serves at a time
  EstadosIniciais,  \* the estadoInicial values create is called with
  Operacoes         \* the endpoints in use: all of them, unless a run says less

EstadoInicialDto == {"INTAKE", "DRAFTING", "REPOSITORIO", "ACTIVO", "ASSINADO"}
TodasOperacoes == {"create", "update", "transitar", "softDelete", "terminar",
                   "adenda", "assinar", "partes"}

ASSUME IniciaisAssumption == EstadosIniciais \subseteq EstadoInicialDto
ASSUME OperacoesAssumption == Operacoes \subseteq TodasOperacoes
ASSUME NullAssumption == SemContrato \notin Contratos

VARIABLES
  estado,      \* Contrato.estado, "INEXISTENTE" before the row is inserted
  apagado,     \* Contrato.deletedAt is set
  pai,         \* Contrato.parentContratoId
  principais,  \* the contract has a PARTE_PRINCIPAL or a CONTRAPARTE
  terminacao,  \* a ContratoTerminacao row exists for the contract
  ultimo,      \* the state named by its latest state-bearing ContratoEvento
  pedido       \* the requests in flight

vars == <<estado, apagado, pai, principais, terminacao, ultimo, pedido>>

Inexistente == "INEXISTENTE"
Existe(c) == estado[c] # Inexistente
Visivel(c) == Existe(c) /\ ~apagado[c]   \* findFirst({ id, deletedAt: null })

(***************************************************************************)
(* pc: the statement the request runs next; c: the contract it is about;   *)
(* lido: the estado it read; para: the estado it asks for; ref: the parent *)
(* id it read or was given; partes: it read at least one principal party.  *)
(***************************************************************************)
Paragens == {"livre", "update", "transitar", "softDelete", "terminar", "adenda",
             "verificar", "marcar", "evento", "lerPai", "marcarPai", "eventoPai"}
Req(pc, c, lido, para, ref, partes) ==
  [pc |-> pc, c |-> c, lido |-> lido, para |-> para, ref |-> ref, partes |-> partes]
Livre == Req("livre", SemContrato, Inexistente, Inexistente, SemContrato, FALSE)

Atende(p, op) == op \in Operacoes /\ pedido[p] = Livre
Parado(p, ponto) == pedido[p].pc = ponto
Passa(p, r) == pedido' = [pedido EXCEPT ![p] = r]
Segue(p, ponto) == Passa(p, [pedido[p] EXCEPT !.pc = ponto])
Acaba(p) == Passa(p, Livre)

(* The state and the evento that names it, written in one transaction. *)
Regista_SoLinha(c, e) ==   \* mutant: the evento is forgotten
  estado' = [estado EXCEPT ![c] = e] /\ UNCHANGED ultimo
Regista(c, e) ==
  /\ estado' = [estado EXCEPT ![c] = e]
  /\ ultimo' = [ultimo EXCEPT ![c] = e]

Init ==
  /\ estado = [c \in Contratos |-> Inexistente]
  /\ apagado = [c \in Contratos |-> FALSE]
  /\ pai = [c \in Contratos |-> SemContrato]
  /\ principais = [c \in Contratos |-> FALSE]
  /\ terminacao = [c \in Contratos |-> FALSE]
  /\ ultimo = [c \in Contratos |-> Inexistente]
  /\ pedido = [p \in Pedidos |-> Livre]

(***************************************************************************)
(* create: one transaction inserts the row, its parties and the evento     *)
(* CRIADO.  The DTO lets the caller name any existing parent.              *)
(***************************************************************************)
Create(p, c) ==
  /\ Atende(p, "create")
  /\ ~Existe(c)
  /\ \E e \in EstadosIniciais : Regista(c, e)
  /\ \E ref \in {SemContrato} \cup {d \in Contratos : Existe(d)} :
       pai' = [pai EXCEPT ![c] = ref]
  /\ \E b \in BOOLEAN : principais' = [principais EXCEPT ![c] = b]
  /\ UNCHANGED <<apagado, terminacao, pedido>>

(***************************************************************************)
(* update (PATCH): the fields of the DTO include parentContratoId.         *)
(***************************************************************************)
LerUpdate(p, c) ==
  /\ Atende(p, "update") /\ Visivel(c)
  /\ \E ref \in {d \in Contratos : Existe(d)} :
       Passa(p, Req("update", c, Inexistente, Inexistente, ref, FALSE))
  /\ UNCHANGED <<estado, apagado, pai, principais, terminacao, ultimo>>

GravarUpdate(p) ==
  /\ Parado(p, "update")
  /\ pai' = IF apagado[pedido[p].c] THEN pai
            ELSE [pai EXCEPT ![pedido[p].c] = pedido[p].ref]
  /\ Acaba(p)
  /\ UNCHANGED <<estado, apagado, principais, terminacao, ultimo>>

(***************************************************************************)
(* transitar: the transition is checked on the estado read; the            *)
(* transaction writes only if the row still has it (optimistic lock).      *)
(***************************************************************************)
LerTransitar(p, c) ==
  /\ Atende(p, "transitar") /\ Visivel(c)
  /\ \E para \in ContratoEstado :
       /\ canTransition(estado[c], para)
       /\ Passa(p, Req("transitar", c, estado[c], para, SemContrato, FALSE))
  /\ UNCHANGED <<estado, apagado, pai, principais, terminacao, ultimo>>

Intacto_SemEstado(c, lido) == ~apagado[c]        \* mutant: half of the where
Intacto(c, lido) == ~apagado[c] /\ estado[c] = lido

GravarTransitar(p) ==
  LET r == pedido[p] IN
  /\ Parado(p, "transitar")
  /\ Intacto(r.c, r.lido)
  /\ Regista(r.c, r.para)
  /\ Acaba(p)
  /\ UNCHANGED <<apagado, pai, principais, terminacao>>

ConflitoTransitar(p) ==
  LET r == pedido[p] IN
  /\ Parado(p, "transitar")
  /\ ~Intacto(r.c, r.lido)
  /\ Acaba(p)
  /\ UNCHANGED <<estado, apagado, pai, principais, terminacao, ultimo>>

(***************************************************************************)
(* softDelete: the evento ARQUIVADO it writes bears no new estado.         *)
(***************************************************************************)
LerSoftDelete(p, c) ==
  /\ Atende(p, "softDelete") /\ Visivel(c)
  /\ Passa(p, Req("softDelete", c, Inexistente, Inexistente, SemContrato, FALSE))
  /\ UNCHANGED <<estado, apagado, pai, principais, terminacao, ultimo>>

GravarSoftDelete(p) ==
  /\ Parado(p, "softDelete")
  /\ apagado' = [apagado EXCEPT ![pedido[p].c] = TRUE]
  /\ Acaba(p)
  /\ UNCHANGED <<estado, pai, principais, terminacao, ultimo>>

(***************************************************************************)
(* registar: directo or viaIntermedio is decided on the estado read; the   *)
(* transaction passes through EM_TERMINACAO unseen and updates by id only. *)
(* A second ContratoTerminacao row violates its unique key and rolls back. *)
(***************************************************************************)
podeTerminar_SemGrafo(e) == e # "TERMINADO"     \* mutant: any open contract
podeTerminar(e) == canTransition(e, "TERMINADO") \/ canTransition(e, "EM_TERMINACAO")

LerTerminar(p, c) ==
  /\ Atende(p, "terminar") /\ Visivel(c)
  /\ podeTerminar(estado[c])
  /\ Passa(p, Req("terminar", c, Inexistente, Inexistente, SemContrato, FALSE))
  /\ UNCHANGED <<estado, apagado, pai, principais, terminacao, ultimo>>

GravarTerminar(p) ==
  LET c == pedido[p].c IN
  /\ Parado(p, "terminar")
  /\ ~terminacao[c]
  /\ terminacao' = [terminacao EXCEPT ![c] = TRUE]
  /\ Regista(c, "TERMINADO")
  /\ Acaba(p)
  /\ UNCHANGED <<apagado, pai, principais>>

RecusarTerminar(p) ==
  /\ Parado(p, "terminar")
  /\ terminacao[pedido[p].c]
  /\ Acaba(p)
  /\ UNCHANGED <<estado, apagado, pai, principais, terminacao, ultimo>>

(***************************************************************************)
(* criar: an adenda over contract c.  The gate and the transition of the   *)
(* parent are decided on the estado read; the transaction inserts the      *)
(* adenda (with the parent's parties, if herdarPartes) and moves the       *)
(* parent to EM_ADENDA by id only.                                         *)
(***************************************************************************)
LerAdenda(p, c) ==
  /\ Atende(p, "adenda") /\ Visivel(c)
  /\ contratoPode(estado[c], "ADICIONAR_ADENDA")
  /\ pai[c] = SemContrato
  /\ \E herdarPartes \in BOOLEAN :
       Passa(p, Req("adenda", c, estado[c], Inexistente, SemContrato,
                    herdarPartes /\ principais[c]))
  /\ UNCHANGED <<estado, apagado, pai, principais, terminacao, ultimo>>

EstadoAdenda == "DRAFTING"

GravarAdenda(p, a) ==
  LET r == pedido[p]
      movePai == canTransition(r.lido, "EM_ADENDA")
  IN  /\ Parado(p, "adenda")
      /\ ~Existe(a)
      /\ estado' = [estado EXCEPT ![a] = EstadoAdenda,
                               ![r.c] = IF movePai THEN "EM_ADENDA" ELSE @]
      /\ ultimo' = [ultimo EXCEPT ![a] = EstadoAdenda,
                               ![r.c] = IF movePai THEN "EM_ADENDA" ELSE @]
      /\ pai' = [pai EXCEPT ![a] = r.c]
      /\ principais' = [principais EXCEPT ![a] = r.partes]
      /\ Acaba(p)
      /\ UNCHANGED <<apagado, terminacao>>

(***************************************************************************)
(* assinar: reads the version (of a contract not deleted) and checks the   *)
(* phase, then records the signature.  Its one caller, the public link,    *)
(* signs as a colaborador and never as a parte, so that no parte ever      *)
(* counts as having signed and allSigned holds exactly when there is no    *)
(* principal parte.  The signature itself changes nothing kept here.       *)
(***************************************************************************)
Assinar(p, c) ==
  /\ Atende(p, "assinar") /\ Visivel(c)
  /\ contratoPode(estado[c], "REGISTAR_ASSINATURA")
  /\ Passa(p, Req("verificar", c, Inexistente, Inexistente, SemContrato, FALSE))
  /\ UNCHANGED <<estado, apagado, pai, principais, terminacao, ultimo>>

(* maybeTransitionToAssinado, statement by statement. *)
AssinarVerificar(p) ==
  LET c == pedido[p].c
      allSigned == ~principais[c]
  IN  /\ Parado(p, "verificar")
      /\ IF estado[c] = "PRONTO_ASSINATURA" /\ allSigned
           THEN Passa(p, Req("marcar", c, Inexistente, Inexistente, pai[c], FALSE))
           ELSE Acaba(p)
      /\ UNCHANGED <<estado, apagado, pai, principais, terminacao, ultimo>>

AssinarMarcar(p) ==
  /\ Parado(p, "marcar")
  /\ estado' = [estado EXCEPT ![pedido[p].c] = "ASSINADO"]
  /\ Segue(p, "evento")
  /\ UNCHANGED <<apagado, pai, principais, terminacao, ultimo>>

AssinarEvento(p) ==
  LET r == pedido[p] IN
  /\ Parado(p, "evento")
  /\ ultimo' = [ultimo EXCEPT ![r.c] = "ASSINADO"]
  /\ IF r.ref # SemContrato THEN Segue(p, "lerPai") ELSE Acaba(p)
  /\ UNCHANGED <<estado, apagado, pai, principais, terminacao>>

PaiEspera_Sempre(d) == Existe(d)   \* mutant: any parent is released
PaiEspera(d) == estado[d] = "EM_ADENDA"

AssinarLerPai(p) ==
  LET r == pedido[p] IN
  /\ Parado(p, "lerPai")
  /\ IF PaiEspera(r.ref) THEN Segue(p, "marcarPai") ELSE Acaba(p)
  /\ UNCHANGED <<estado, apagado, pai, principais, terminacao, ultimo>>

AssinarMarcarPai(p) ==
  LET r == pedido[p] IN
  /\ Parado(p, "marcarPai")
  /\ estado' = [estado EXCEPT ![r.ref] = "ACTIVO"]
  /\ Segue(p, "eventoPai")
  /\ UNCHANGED <<apagado, pai, principais, terminacao, ultimo>>

AssinarEventoPai(p) ==
  /\ Parado(p, "eventoPai")
  /\ ultimo' = [ultimo EXCEPT ![pedido[p].ref] = "ACTIVO"]
  /\ Acaba(p)
  /\ UNCHANGED <<estado, apagado, pai, principais, terminacao>>

(***************************************************************************)
(* partes.add and partes.remove: in any state of a contract not deleted.   *)
(***************************************************************************)
AlterarPartes(p, c) ==
  /\ Atende(p, "partes") /\ Visivel(c)
  /\ principais' = [principais EXCEPT ![c] = ~@]
  /\ UNCHANGED <<estado, apagado, pai, terminacao, ultimo, pedido>>

(* The process dies, or the database refuses the statement. *)
Falhar(p) ==
  /\ pedido[p] # Livre
  /\ Acaba(p)
  /\ UNCHANGED <<estado, apagado, pai, principais, terminacao, ultimo>>

Inicia(p, c) ==
  \/ Create(p, c) \/ LerUpdate(p, c) \/ LerTransitar(p, c) \/ LerSoftDelete(p, c)
  \/ LerTerminar(p, c) \/ LerAdenda(p, c) \/ Assinar(p, c) \/ AlterarPartes(p, c)

Continua(p) ==
  \/ GravarUpdate(p) \/ GravarTransitar(p) \/ ConflitoTransitar(p)
  \/ GravarSoftDelete(p) \/ GravarTerminar(p) \/ RecusarTerminar(p)
  \/ \E a \in Contratos : GravarAdenda(p, a)
  \/ AssinarVerificar(p) \/ AssinarMarcar(p) \/ AssinarEvento(p)
  \/ AssinarLerPai(p) \/ AssinarMarcarPai(p) \/ AssinarEventoPai(p)

Next == \E p \in Pedidos : \/ \E c \in Contratos : Inicia(p, c)
                           \/ Continua(p)
                           \/ Falhar(p)

Spec == Init /\ [][Next]_vars

-----------------------------------------------------------------------------
(* Type correctness of the rows and of the requests in flight. *)
Pedido == [pc : Paragens, c : Contratos \cup {SemContrato},
           lido : ContratoEstado \cup {Inexistente},
           para : ContratoEstado \cup {Inexistente},
           ref : Contratos \cup {SemContrato}, partes : BOOLEAN]
TypeOK ==
  /\ estado \in [Contratos -> ContratoEstado \cup {Inexistente}]
  /\ apagado \in [Contratos -> BOOLEAN]
  /\ pai \in [Contratos -> Contratos \cup {SemContrato}]
  /\ principais \in [Contratos -> BOOLEAN]
  /\ terminacao \in [Contratos -> BOOLEAN]
  /\ ultimo \in [Contratos -> ContratoEstado \cup {Inexistente}]
  /\ pedido \in [Pedidos -> Pedido]
  /\ \A p \in Pedidos : pedido[p].pc # "livre" => pedido[p].c \in Contratos

(***************************************************************************)
(* What the requests in flight know stays true enough: the contract a      *)
(* request works on exists, a termination or an adenda is only prepared    *)
(* for a contract that took effect (and still has), and so is the release  *)
(* of a parent.                                                            *)
(***************************************************************************)
Coerente(p) == LET r == pedido[p] IN
  /\ r.pc # "livre" => Existe(r.c)
  /\ r.pc = "transitar" => r.lido \in ContratoEstado /\ canTransition(r.lido, r.para)
  /\ r.pc \in {"terminar", "adenda"} => estado[r.c] \in Vigentes
  /\ r.pc \in {"lerPai", "marcarPai", "eventoPai"} => r.ref \in Contratos
  /\ r.pc \in {"marcarPai", "eventoPai"} => estado[r.ref] \in Vigentes
  /\ r.pc = "evento" => estado[r.c] \in Vigentes
PedidosCoerentes == \A p \in Pedidos : Coerente(p)

(* A contract that took effect (signed, registered as signed, or taken     *)
(* from the repository) never returns to drafting, negotiation or          *)
(* signature, nor is it cancelled, whatever stale reads are in flight: the *)
(* gates that let its body be edited stay closed.                          *)
SemRegresso ==
  [][\A c \in Contratos : estado[c] \in Vigentes => estado'[c] \in Vigentes]_vars

(* transitar never acts on a stale read: what it commits is an edge of the *)
(* graph from the state the contract has at that moment, not deleted.      *)
TransitarOptimista ==
  [][\A p \in Pedidos : LET r == pedido[p] IN
       (r.pc = "transitar" /\ pedido'[p] = Livre /\ estado' # estado) =>
         /\ ~apagado[r.c]
         /\ canTransition(estado[r.c], r.para)
         /\ estado' = [estado EXCEPT ![r.c] = r.para]]_vars

(* A request that read the contract before its termination, and may still  *)
(* write over it: an adenda, the signature of the contract, the release of *)
(* the parent of an adenda.  All three write by id alone.                  *)
Ameaca(p, c) == LET r == pedido[p] IN
  \/ r.pc \in {"adenda", "marcar"} /\ r.c = c
  \/ r.pc = "marcarPai" /\ r.ref = c

(* A termination is final once those have gone: whatever requests start    *)
(* afterwards, and however they interleave, none of them, and no stale     *)
(* transitar or update, takes the contract out of TERMINADO but to archive *)
(* it, nor reads it in a state that would let it.                          *)
Encerrado(c) ==
  /\ terminacao[c] /\ estado[c] \in {"TERMINADO", "ARQUIVADO"}
  /\ \A p \in Pedidos : ~Ameaca(p, c)
TerminacaoDefinitiva ==
  [][\A c \in Contratos : Encerrado(c) => Encerrado(c)']_vars

(* Until it takes effect, a contract and its timeline tell the same state, *)
(* however many requests act on it and die half-way.                       *)
CronologiaAteVigorar ==
  \A c \in Contratos : estado[c] \notin Vigentes => ultimo[c] = estado[c]

(* The same for good, of contracts in force too: state and evento are      *)
(* written together, or neither is.  The signature breaks it, whose two    *)
(* statements are not in a transaction.                                    *)
CronologiaFiel == \A c \in Contratos : ultimo[c] = estado[c]

(* Once an adenda is signed and no request is in flight, its parent is out *)
(* of EM_ADENDA, unless another adenda of it is still to be signed.        *)
PaiLibertado ==
  (\A p \in Pedidos : pedido[p] = Livre) =>
    \A a \in Contratos :
      (pai[a] # SemContrato /\ estado[a] = "ASSINADO" /\ estado[pai[a]] = "EM_ADENDA") =>
        \E b \in Contratos : pai[b] = pai[a] /\ estado[b] \in PreAssinatura

(* Requests served one at a time refine the life cycle.                    *)
Ciclo == INSTANCE CicloDeVida WITH
    Contratos <- Contratos, EstadosIniciais <- EstadosIniciais,
    estado <- estado, apagado <- apagado
RefinaCiclo == Ciclo!Spec
=============================================================================
