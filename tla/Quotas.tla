------------------------------- MODULE Quotas -------------------------------
(***************************************************************************)
(* The counters of UsageQuota that requests take units from, for one       *)
(* tenant, and the numbers of its contracts.                               *)
(*                                                                         *)
(* Contracts: ContratosService.create is one transaction: advisory lock,   *)
(* count of the numbers of the year, first free number, unit of the quota, *)
(* row.  Under READ COMMITTED each statement sees what the others have     *)
(* committed; the lock serialises the creates and nothing else: adendas    *)
(* have a lock of their own and take no unit, a restore of a backup        *)
(* inserts rows with the numbers they had, under no lock.  softDelete      *)
(* gives a unit back whatever contract it deletes.                         *)
(*                                                                         *)
(* Assistant: a unit is reserved before the model is called and refunded   *)
(* if no answer is delivered, each in a statement of its own.              *)
(***************************************************************************)
EXTENDS Naturals, FiniteSets

CONSTANTS
  Contratos,     \* contract ids, adendas and seeded contracts included
  Semeados,      \* those of the demo seed, numbered CT-ano-D0001 and so on
  Pedidos,       \* creates the API serves at a time
  Mensagens,     \* requests to the assistant
  Limite,        \* limit of the limited plan, for both counters
  TENTATIVAS,    \* 10: candidates that are tried before the fallback
  Numeros,       \* bound: the numbers a restored contract may have
  MaxAvarias     \* bound: failures of a behaviour

ASSUME SemeadosAssumption == Semeados \subseteq Contratos
ASSUME FinitosAssumption == IsFiniteSet(Contratos) /\ IsFiniteSet(Mensagens)
ASSUME LimiteAssumption == Limite \in Nat
ASSUME TentativasAssumption == TENTATIVAS \in Nat
ASSUME NumerosAssumption == Numeros \subseteq Nat \ {0}

VARIABLES
  plano,          \* of the tenant: limited, unlimited, or no UsageQuota row
  contratosUsado, \* UsageQuota.contratosUsado
  vida,           \* of a contract: "nenhuma", "viva", "apagada" (deletedAt)
  origem,         \* where its row came from
  numero,         \* the NNNNN of CT-ano-NNNNN; 0 for every other number
  trinco,         \* the create that holds the tenant's advisory lock
  pedido,         \* [pc, seq]: a create in flight and its candidate
  restauro,       \* a restore committed while the lock was held
  iaUsado,        \* UsageQuota.iaMessagesUsado
  mensagem,       \* how far a request to the assistant is
  avarias         \* failures so far

contratos == <<contratosUsado, vida, origem, numero, trinco, pedido, restauro>>
ia == <<iaUsado, mensagem, avarias>>
vars == <<plano, contratos, ia>>

Livre == [pc |-> "livre", seq |-> 0]
Existe(c) == vida[c] # "nenhuma"
Passa(p, r) == pedido' = [pedido EXCEPT ![p] = r]

Init ==
  /\ plano \in {"limitado", "ilimitado", "semLinha"}
  /\ contratosUsado = 0 /\ iaUsado = 0
  /\ vida = [c \in Contratos |-> IF c \in Semeados THEN "viva" ELSE "nenhuma"]
  /\ origem = [c \in Contratos |-> IF c \in Semeados THEN "seed" ELSE "nenhuma"]
  /\ numero = [c \in Contratos |-> 0]
  /\ trinco = {}
  /\ pedido = [p \in Pedidos |-> Livre]
  /\ restauro = FALSE
  /\ mensagem = [m \in Mensagens |-> "nenhuma"]
  /\ avarias = 0

(***************************************************************************)
(* The number.  The LIKE has five wildcards: it counts CT-ano-D0001 of the *)
(* seed, and leaves out the longer numbers of adendas.                     *)
(***************************************************************************)
CasaPadrao(c) == Existe(c) /\ origem[c] # "adenda"
contagem == Cardinality({c \in Contratos : CasaPadrao(c)})
Ocupado(n) == \E c \in Contratos : Existe(c) /\ numero[c] = n

(* The transaction waits for the lock. *)
Entra_SemTrinco(p) == TRUE             \* mutant: no lock
Entra(p) == trinco = {}

Contar(p) ==
  /\ pedido[p] = Livre
  /\ Entra(p)
  /\ trinco' = trinco \cup {p}
  /\ Passa(p, [pc |-> "escolher", seq |-> contagem + 1])
  /\ restauro' = FALSE
  /\ UNCHANGED <<plano, contratosUsado, vida, origem, numero, ia>>

(* findUnique over the candidates; 0 is the fallback, a suffix in base 36. *)
candidato(seq) ==
  LET livres == {n \in seq..(seq + TENTATIVAS - 1) : ~Ocupado(n)}
  IN  IF livres = {} THEN 0 ELSE CHOOSE n \in livres : \A k \in livres : n <= k

Escolher(p) ==
  /\ pedido[p].pc = "escolher"
  /\ Passa(p, [pc |-> "gravar", seq |-> candidato(pedido[p].seq)])
  /\ UNCHANGED <<plano, contratosUsado, vida, origem, numero, trinco, restauro, ia>>

(* The unit, with the guard in the where, then the row.  Without an        *)
(* UsageQuota row the create goes on and counts nothing.                   *)
Cabe_Igual(usado) == plano = "ilimitado" \/ (plano = "limitado" /\ usado <= Limite)
Cabe(usado) == plano = "ilimitado" \/ (plano = "limitado" /\ usado < Limite)
Esgotado(usado) == plano = "limitado" /\ usado >= Limite

GravarCreate(p, c) ==
  LET n == pedido[p].seq IN
  /\ pedido[p].pc = "gravar"
  /\ ~Existe(c)
  /\ n = 0 \/ ~Ocupado(n)
  /\ \/ Cabe(contratosUsado) /\ contratosUsado' = contratosUsado + 1
     \/ plano = "semLinha" /\ UNCHANGED contratosUsado
  /\ vida' = [vida EXCEPT ![c] = "viva"]
  /\ origem' = [origem EXCEPT ![c] = "create"]
  /\ numero' = [numero EXCEPT ![c] = n]
  /\ trinco' = trinco \ {p}
  /\ Passa(p, Livre)
  /\ UNCHANGED <<plano, restauro, ia>>

(* The transaction rolls back, and the lock with it: quota exhausted, the  *)
(* unique key on the number, or a failure.                                 *)
Recusar(p) ==
  /\ pedido[p].pc = "gravar"
  /\ \/ Esgotado(contratosUsado)
     \/ pedido[p].seq # 0 /\ Ocupado(pedido[p].seq)
  /\ trinco' = trinco \ {p}
  /\ Passa(p, Livre)
  /\ UNCHANGED <<plano, contratosUsado, vida, origem, numero, restauro, ia>>

Queda(p) ==
  /\ pedido[p].pc # "livre"
  /\ trinco' = trinco \ {p}
  /\ Passa(p, Livre)
  /\ UNCHANGED <<plano, contratosUsado, vida, origem, numero, restauro, ia>>

(* AdendasService.criar: another lock, a number of another form, no unit.  *)
CriarAdenda(c) ==
  /\ ~Existe(c)
  /\ \E d \in Contratos : vida[d] = "viva" /\ origem[d] # "adenda"
  /\ vida' = [vida EXCEPT ![c] = "viva"]
  /\ origem' = [origem EXCEPT ![c] = "adenda"]
  /\ UNCHANGED <<plano, contratosUsado, numero, trinco, pedido, restauro, ia>>

(* BackupService.applyRestore: createMany with skipDuplicates, the unique  *)
(* key on the number included.                                             *)
Restaurar(c, n) ==
  /\ ~Existe(c) /\ ~Ocupado(n)
  /\ vida' = [vida EXCEPT ![c] = "viva"]
  /\ origem' = [origem EXCEPT ![c] = "restauro"]
  /\ numero' = [numero EXCEPT ![c] = n]
  /\ restauro' = (restauro \/ trinco # {})
  /\ UNCHANGED <<plano, contratosUsado, trinco, pedido, ia>>

(* softDelete: mark, event and refund in one transaction; a contract that  *)
(* is already deleted gives nothing back.                                  *)
Removivel_Qualquer(c) == Existe(c)     \* mutant: deletedAt is not looked at again
Removivel(c) == vida[c] = "viva"

Devolve(u) == IF u > 0 THEN u - 1 ELSE u

SoftDelete(c) ==
  /\ Removivel(c)
  /\ vida' = [vida EXCEPT ![c] = "apagada"]
  /\ contratosUsado' = IF plano = "semLinha" THEN contratosUsado ELSE Devolve(contratosUsado)
  /\ UNCHANGED <<plano, origem, numero, trinco, pedido, restauro, ia>>

(***************************************************************************)
(* The assistant: extrairContrato, sendMessage, the two streams and the    *)
(* drafting.  Without an UsageQuota row the reserve finds nothing to       *)
(* update and the request is refused.                                      *)
(***************************************************************************)
Avaria == avarias < MaxAvarias /\ avarias' = avarias + 1
Fica(m, e) == mensagem' = [mensagem EXCEPT ![m] = e]

reserveIaQuota(m) ==
  /\ mensagem[m] = "nenhuma"
  /\ Cabe(iaUsado)
  /\ iaUsado' = iaUsado + 1
  /\ Fica(m, "reservada")
  /\ UNCHANGED <<plano, contratos, avarias>>

(* The answer is delivered; or there is none (an error of the model, no    *)
(* key, a client that went away) and the unit is to be refunded.           *)
Responder(m) ==
  /\ mensagem[m] = "reservada"
  /\ \E e \in {"entregue", "semResposta"} : Fica(m, e)
  /\ UNCHANGED <<plano, contratos, iaUsado, avarias>>

Estorno(u) == IF u > 0 THEN u - 1 ELSE u

refundIaQuota(m) ==
  /\ mensagem[m] = "semResposta"
  /\ iaUsado' = Estorno(iaUsado)
  /\ Fica(m, "estornada")
  /\ UNCHANGED <<plano, contratos, avarias>>

(* A statement that fails between the reserve and the model, a refund that *)
(* fails (it is swallowed), a process that dies: the unit stays counted.   *)
PerderIa(m) ==
  /\ mensagem[m] \in {"reservada", "semResposta"}
  /\ Avaria
  /\ Fica(m, "perdida")
  /\ UNCHANGED <<plano, contratos, iaUsado>>

Next ==
  \/ \E p \in Pedidos : \/ Contar(p) \/ Escolher(p) \/ Recusar(p) \/ Queda(p)
                        \/ \E c \in Contratos : GravarCreate(p, c)
  \/ \E c \in Contratos : \/ CriarAdenda(c) \/ SoftDelete(c)
                          \/ \E n \in Numeros : Restaurar(c, n)
  \/ \E m \in Mensagens : \/ reserveIaQuota(m) \/ Responder(m)
                          \/ refundIaQuota(m) \/ PerderIa(m)

Spec == Init /\ [][Next]_vars

-----------------------------------------------------------------------------
(* Type correctness: no counter below zero. *)
TypeOK ==
  /\ plano \in {"limitado", "ilimitado", "semLinha"}
  /\ contratosUsado \in Nat /\ iaUsado \in Nat
  /\ vida \in [Contratos -> {"nenhuma", "viva", "apagada"}]
  /\ origem \in [Contratos -> {"nenhuma", "seed", "create", "adenda", "restauro"}]
  /\ numero \in [Contratos -> Nat]
  /\ trinco \subseteq Pedidos
  /\ pedido \in [Pedidos -> [pc : {"livre", "escolher", "gravar"}, seq : Nat]]
  /\ restauro \in BOOLEAN
  /\ mensagem \in [Mensagens -> {"nenhuma", "reservada", "entregue", "semResposta",
                                 "estornada", "perdida"}]
  /\ avarias \in Nat

(* A create under way will not meet the unique key of the number, unless a *)
(* restore committed in the middle.                                        *)
NumeroLivre ==
  \A p \in Pedidos :
    (pedido[p].pc = "gravar" /\ ~restauro) => pedido[p].seq = 0 \/ ~Ocupado(pedido[p].seq)

(* What the counter of contracts is worth, with any interleaving of        *)
(* creates, deletes, adendas and restores: it never exceeds the live       *)
(* contracts that create made nor the plan, and falls short of them only   *)
(* by one per deleted contract that had taken no unit (an adenda, a seeded *)
(* or restored one), so the live ones exceed the plan by no more than that.*)
ContratosContados ==
  LET vivos == {c \in Contratos : vida[c] = "viva" /\ origem[c] = "create"}
      semUnidade == {c \in Contratos : vida[c] = "apagada" /\ origem[c] # "create"}
  IN  plano # "semLinha" =>
        /\ contratosUsado <= Cardinality(vivos)
        /\ Cardinality(vivos) <= contratosUsado + Cardinality(semUnidade)
        /\ plano = "limitado" => contratosUsado <= Limite

(* The assistant's counter is an implementation of Contador: units are     *)
(* taken only within the plan, given back once by who took them, and       *)
(* stay with whoever got an answer.                                        *)
Ia == INSTANCE Contador WITH
  Titulares <- Mensagens, Limite <- Limite, plano <- plano, usado <- iaUsado,
  detidos <- {m \in Mensagens : mensagem[m] \in {"reservada", "semResposta", "entregue"}}
RefinaIa == Ia!Spec
=============================================================================
