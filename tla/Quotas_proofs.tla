---------------------------- MODULE Quotas_proofs ----------------------------
(***************************************************************************)
(* Proofs about Quotas for any finite set of contracts and requests, any   *)
(* limit and any number of creates at a time.                              *)
(***************************************************************************)
EXTENDS Quotas, FiniteSetTheorems, WellFoundedInduction, TLAPS

PedidoTipo == [pc : {"livre", "escolher", "gravar"}, seq : Nat]

LEMMA LivreTipo == Livre \in PedidoTipo /\ Livre.pc = "livre"
BY DEF Livre, PedidoTipo

LEMMA PassaTipo ==
  ASSUME NEW p \in Pedidos, NEW r, Passa(p, r), pedido \in [Pedidos -> PedidoTipo]
  PROVE  /\ r \in PedidoTipo => pedido' \in [Pedidos -> PedidoTipo]
         /\ pedido'[p] = r
         /\ \A q \in Pedidos : q # p => pedido'[q] = pedido[q]
BY DEF Passa

(* Every non-empty set of naturals has a least element.                    *)
LEMMA Menor ==
  ASSUME NEW S \in SUBSET Nat, S # {}
  PROVE  \E n \in S : \A k \in S : n <= k
<1>1. \E n \in S : \A k \in S : <<k, n>> \notin OpToRel(<, Nat)
  BY NatLessThanWellFounded, WFMin
<1>2. PICK n \in S : \A k \in S : <<k, n>> \notin OpToRel(<, Nat)
  BY <1>1
<1>3. \A k \in S : ~(k < n)
  BY <1>2 DEF OpToRel
<1> QED
  BY <1>3

(* The candidate is a free number, or the fallback.                        *)
LEMMA CandidatoLivre ==
  ASSUME NEW seq \in Nat
  PROVE  /\ candidato(seq) \in Nat
         /\ candidato(seq) = 0 \/ ~Ocupado(candidato(seq))
<1> DEFINE livres == {n \in seq..(seq + TENTATIVAS - 1) : ~Ocupado(n)}
<1>1. livres \in SUBSET Nat
  BY TentativasAssumption
<1>2. candidato(seq) =
        IF livres = {} THEN 0 ELSE CHOOSE n \in livres : \A k \in livres : n <= k
  BY DEF candidato
<1>3. \A n \in livres : ~Ocupado(n)
  OBVIOUS
<1> HIDE DEF livres
<1>4. CASE livres = {}
  BY <1>2, <1>4
<1>5. CASE livres # {}
  <2>1. \E n \in livres : \A k \in livres : n <= k
    BY <1>1, <1>5, Menor
  <2>2. candidato(seq) \in livres
    BY <1>2, <1>5, <2>1
  <2> QED
    BY <1>1, <1>3, <2>2
<1> QED
  BY <1>4, <1>5

LEMMA ContagemTipo == contagem \in Nat
<1>1. IsFiniteSet({c \in Contratos : CasaPadrao(c)})
  BY FinitosAssumption, FS_Subset
<1> QED
  BY <1>1, FS_CardinalityType DEF contagem

-----------------------------------------------------------------------------
LEMMA TypeInicio == Init => TypeOK
<1> SUFFICES ASSUME Init PROVE TypeOK
  OBVIOUS
<1>1. pedido \in [Pedidos -> PedidoTipo]
  BY LivreTipo DEF Init
<1> QED
  BY <1>1 DEF Init, TypeOK, PedidoTipo

LEMMA TypePasso == TypeOK /\ [Next]_vars => TypeOK'
<1> USE LimiteAssumption, NumerosAssumption
<1> SUFFICES ASSUME TypeOK, [Next]_vars PROVE TypeOK'
  OBVIOUS
<1>0. /\ pedido \in [Pedidos -> PedidoTipo]
      /\ Livre \in PedidoTipo
  BY LivreTipo DEF TypeOK, PedidoTipo
(* A create that moves, and what its transaction wrote.                    *)
<1>1. ASSUME NEW p \in Pedidos, NEW r \in PedidoTipo, Passa(p, r),
             trinco' = trinco \cup {p} \/ trinco' = trinco \ {p} \/ trinco' = trinco,
             contratosUsado' \in Nat, restauro' \in BOOLEAN,
             vida' \in [Contratos -> {"nenhuma", "viva", "apagada"}],
             origem' \in [Contratos -> {"nenhuma", "seed", "create", "adenda", "restauro"}],
             numero' \in [Contratos -> Nat],
             UNCHANGED <<plano, ia>>
      PROVE  TypeOK'
  <2>1. pedido' \in [Pedidos -> PedidoTipo]
    BY <1>0, <1>1, PassaTipo
  <2> QED
    BY <1>1, <2>1 DEF TypeOK, PedidoTipo, ia
<1>2. CASE UNCHANGED vars
  BY <1>2 DEF vars, contratos, ia, TypeOK
<1>3. ASSUME NEW p \in Pedidos, Contar(p)
      PROVE  TypeOK'
  <2>1. [pc |-> "escolher", seq |-> contagem + 1] \in PedidoTipo
    BY ContagemTipo DEF PedidoTipo
  <2> QED
    BY <1>1, <1>3, <2>1 DEF Contar, TypeOK
<1>4. ASSUME NEW p \in Pedidos, Escolher(p)
      PROVE  TypeOK'
  <2>1. pedido[p].seq \in Nat
    BY <1>0 DEF PedidoTipo
  <2>2. [pc |-> "gravar", seq |-> candidato(pedido[p].seq)] \in PedidoTipo
    BY <2>1, CandidatoLivre DEF PedidoTipo
  <2> QED
    BY <1>1, <1>4, <2>2 DEF Escolher, TypeOK
<1>5. ASSUME NEW p \in Pedidos, NEW c \in Contratos, GravarCreate(p, c)
      PROVE  TypeOK'
  <2>1. pedido[p].seq \in Nat
    BY <1>0 DEF PedidoTipo
  <2>2. contratosUsado' \in Nat
    BY <1>5 DEF GravarCreate, TypeOK
  <2>3. numero' \in [Contratos -> Nat]
    BY <1>5, <2>1 DEF GravarCreate, TypeOK
  <2> QED
    BY <1>0, <1>1, <1>5, <2>2, <2>3 DEF GravarCreate, TypeOK
<1>6. ASSUME NEW p \in Pedidos, Recusar(p) \/ Queda(p)
      PROVE  TypeOK'
  BY <1>0, <1>1, <1>6 DEF Recusar, Queda, TypeOK
<1>7. ASSUME NEW c \in Contratos, CriarAdenda(c)
      PROVE  TypeOK'
  BY <1>7 DEF CriarAdenda, TypeOK, ia
<1>8. ASSUME NEW c \in Contratos, NEW n \in Numeros, Restaurar(c, n)
      PROVE  TypeOK'
  BY <1>8 DEF Restaurar, TypeOK, ia
<1>9. ASSUME NEW c \in Contratos, SoftDelete(c)
      PROVE  TypeOK'
  <2>1. contratosUsado' \in Nat
    BY <1>9 DEF SoftDelete, Devolve, TypeOK
  <2> QED
    BY <1>9, <2>1 DEF SoftDelete, TypeOK, ia
<1>10. ASSUME NEW m \in Mensagens,
              reserveIaQuota(m) \/ Responder(m) \/ refundIaQuota(m) \/ PerderIa(m)
       PROVE  TypeOK'
  <2>1. iaUsado' \in Nat /\ avarias' \in Nat
    BY <1>10 DEF reserveIaQuota, Responder, refundIaQuota, PerderIa, Avaria, Estorno, TypeOK
  <2>2. mensagem' \in [Mensagens -> {"nenhuma", "reservada", "entregue", "semResposta",
                                     "estornada", "perdida"}]
    BY <1>10 DEF reserveIaQuota, Responder, refundIaQuota, PerderIa, Fica, TypeOK
  <2>3. UNCHANGED <<plano, contratos>>
    BY <1>10 DEF reserveIaQuota, Responder, refundIaQuota, PerderIa
  <2> QED
    BY <2>1, <2>2, <2>3 DEF TypeOK, contratos
<1> QED
  BY <1>2, <1>3, <1>4, <1>5, <1>6, <1>7, <1>8, <1>9, <1>10 DEF Next

(* Type correctness, and with it that no counter goes below zero.          *)
THEOREM TypeCorrect == Spec => []TypeOK
BY TypeInicio, TypePasso, PTL DEF Spec

-----------------------------------------------------------------------------
(* The sums of ContratosContados are an inductive invariant: the contracts *)
(* that create made and are alive, and the deleted ones that took no unit. *)
Vivos == {c \in Contratos : vida[c] = "viva" /\ origem[c] = "create"}
SemUnidade == {c \in Contratos : vida[c] = "apagada" /\ origem[c] # "create"}

LEMMA Finitos ==
  /\ IsFiniteSet(Vivos) /\ Cardinality(Vivos) \in Nat
  /\ IsFiniteSet(SemUnidade) /\ Cardinality(SemUnidade) \in Nat
<1>1. Vivos \in SUBSET Contratos /\ SemUnidade \in SUBSET Contratos
  BY DEF Vivos, SemUnidade
<1> QED
  BY <1>1, FinitosAssumption, FS_Subset, FS_CardinalityType

LEMMA ContadosDef ==
  ContratosContados <=>
    (plano # "semLinha" =>
       /\ contratosUsado <= Cardinality(Vivos)
       /\ Cardinality(Vivos) <= contratosUsado + Cardinality(SemUnidade)
       /\ plano = "limitado" => contratosUsado <= Limite)
BY DEF ContratosContados, Vivos, SemUnidade

LEMMA ContadosInicio == Init => ContratosContados
<1> SUFFICES ASSUME Init PROVE ContratosContados
  OBVIOUS
<1>1. Vivos = {} /\ SemUnidade = {}
  BY DEF Init, Vivos, SemUnidade
<1> QED
  BY <1>1, FS_EmptySet, ContadosDef, LimiteAssumption DEF Init

LEMMA ContadosPasso == TypeOK /\ ContratosContados /\ [Next]_vars => ContratosContados'
<1> SUFFICES ASSUME TypeOK, ContratosContados, [Next]_vars PROVE ContratosContados'
  OBVIOUS
<1>0. /\ Cardinality(Vivos) \in Nat /\ Cardinality(SemUnidade) \in Nat
      /\ contratosUsado \in Nat /\ Limite \in Nat
      /\ vida \in [Contratos -> {"nenhuma", "viva", "apagada"}]
      /\ origem \in [Contratos -> {"nenhuma", "seed", "create", "adenda", "restauro"}]
  BY Finitos, LimiteAssumption DEF TypeOK
<1>1. ContratosContados' <=>
        (plano' # "semLinha" =>
           /\ contratosUsado' <= Cardinality(Vivos')
           /\ Cardinality(Vivos') <= contratosUsado' + Cardinality(SemUnidade')
           /\ plano' = "limitado" => contratosUsado' <= Limite)
  BY DEF ContratosContados, Vivos, SemUnidade
<1>2. ASSUME UNCHANGED <<plano, contratosUsado>>, Vivos' = Vivos, SemUnidade' = SemUnidade
      PROVE  ContratosContados'
  BY <1>1, <1>2, ContadosDef
<1>3. CASE UNCHANGED <<plano, contratosUsado, vida, origem>>
  BY <1>2, <1>3 DEF Vivos, SemUnidade
<1>4. CASE UNCHANGED vars
  BY <1>3, <1>4 DEF vars, contratos
<1>5. ASSUME NEW p \in Pedidos, Contar(p) \/ Escolher(p) \/ Recusar(p) \/ Queda(p)
      PROVE  ContratosContados'
  BY <1>3, <1>5 DEF Contar, Escolher, Recusar, Queda
<1>6. ASSUME NEW p \in Pedidos, NEW c \in Contratos, GravarCreate(p, c)
      PROVE  ContratosContados'
  <2>1. /\ plano' = plano /\ vida[c] = "nenhuma"
        /\ \/ Cabe(contratosUsado) /\ contratosUsado' = contratosUsado + 1
           \/ plano = "semLinha"
    BY <1>6 DEF GravarCreate, Existe
  <2>2. Vivos' = Vivos \cup {c} /\ c \notin Vivos /\ SemUnidade' = SemUnidade
    BY <1>0, <1>6, <2>1 DEF GravarCreate, Vivos, SemUnidade
  <2>3. Cardinality(Vivos') = Cardinality(Vivos) + 1
    BY <2>2, Finitos, FS_AddElement
  <2> QED
    BY <1>0, <1>1, <2>1, <2>2, <2>3, ContadosDef DEF Cabe
<1>7. ASSUME NEW c \in Contratos, CriarAdenda(c) \/ \E n \in Numeros : Restaurar(c, n)
      PROVE  ContratosContados'
  <2>1. /\ vida[c] = "nenhuma"
        /\ vida' = [vida EXCEPT ![c] = "viva"]
        /\ \E o \in {"adenda", "restauro"} : origem' = [origem EXCEPT ![c] = o]
        /\ UNCHANGED <<plano, contratosUsado>>
    BY <1>7 DEF CriarAdenda, Restaurar, Existe
  <2>2. Vivos' = Vivos /\ SemUnidade' = SemUnidade
    BY <1>0, <2>1 DEF Vivos, SemUnidade
  <2> QED
    BY <1>2, <2>1, <2>2
<1>8. ASSUME NEW c \in Contratos, SoftDelete(c)
      PROVE  ContratosContados'
  <2>1. /\ vida[c] = "viva" /\ plano' = plano /\ origem' = origem
        /\ vida' = [vida EXCEPT ![c] = "apagada"]
        /\ plano # "semLinha" => contratosUsado' = Devolve(contratosUsado)
    BY <1>8 DEF SoftDelete, Removivel
  <2>2. CASE origem[c] = "create"
    <3>1. Vivos' = Vivos \ {c} /\ c \in Vivos /\ SemUnidade' = SemUnidade
      BY <1>0, <2>1, <2>2 DEF Vivos, SemUnidade
    <3>2. Cardinality(Vivos') = Cardinality(Vivos) - 1 /\ Cardinality(Vivos') \in Nat
      BY <3>1, Finitos, FS_RemoveElement, FS_CardinalityType
    <3> QED
      BY <1>0, <1>1, <2>1, <3>1, <3>2, ContadosDef DEF Devolve
  <2>3. CASE origem[c] # "create"
    <3>1. Vivos' = Vivos /\ SemUnidade' = SemUnidade \cup {c} /\ c \notin SemUnidade
      BY <1>0, <2>1, <2>3 DEF Vivos, SemUnidade
    <3>2. Cardinality(SemUnidade') = Cardinality(SemUnidade) + 1
      BY <3>1, Finitos, FS_AddElement
    <3> QED
      BY <1>0, <1>1, <2>1, <3>1, <3>2, ContadosDef DEF Devolve
  <2> QED
    BY <2>2, <2>3
<1>9. ASSUME NEW m \in Mensagens,
             reserveIaQuota(m) \/ Responder(m) \/ refundIaQuota(m) \/ PerderIa(m)
      PROVE  ContratosContados'
  BY <1>3, <1>9 DEF reserveIaQuota, Responder, refundIaQuota, PerderIa, contratos
<1> QED
  BY <1>4, <1>5, <1>6, <1>7, <1>8, <1>9 DEF Next

(* What the counter of contracts is worth, for every interleaving.         *)
THEOREM ContratosContadosCorrect == Spec => []ContratosContados
<1>1. Init => TypeOK /\ ContratosContados
  BY TypeInicio, ContadosInicio
<1>2. TypeOK /\ ContratosContados /\ [Next]_vars => (TypeOK /\ ContratosContados)'
  BY TypePasso, ContadosPasso
<1> QED
  BY <1>1, <1>2, PTL DEF Spec

-----------------------------------------------------------------------------
(* The lock is held by every create under way, so by one at a time; and a  *)
(* contract that does not exist has no number.                             *)
UmDeCada ==
  /\ \A p, q \in trinco : p = q
  /\ \A p \in Pedidos : pedido[p].pc # "livre" => p \in trinco
  /\ \A c \in Contratos : ~Existe(c) => numero[c] = 0
Numerado == UmDeCada /\ NumeroLivre

LEMMA NumeradoInicio == Init => Numerado
<1>1. Init => \A p \in Pedidos : pedido[p].pc = "livre"
  BY LivreTipo DEF Init
<1> QED
  BY <1>1 DEF Init, Numerado, UmDeCada, NumeroLivre

LEMMA NumeradoPasso == TypeOK /\ Numerado /\ [Next]_vars => Numerado'
<1> USE NumerosAssumption
<1> SUFFICES ASSUME TypeOK, Numerado, [Next]_vars PROVE Numerado'
  OBVIOUS
<1>0. /\ pedido \in [Pedidos -> PedidoTipo]
      /\ vida \in [Contratos -> {"nenhuma", "viva", "apagada"}]
      /\ numero \in [Contratos -> Nat]
  BY DEF TypeOK, PedidoTipo
<1>1. CASE UNCHANGED <<vida, numero, trinco, pedido, restauro>>
  BY <1>1 DEF Numerado, UmDeCada, NumeroLivre, Existe, Ocupado
<1>2. CASE UNCHANGED vars
  BY <1>1, <1>2 DEF vars, contratos
<1>3. ASSUME NEW p \in Pedidos, Contar(p)
      PROVE  Numerado'
  <2>1. /\ pedido'[p] = [pc |-> "escolher", seq |-> contagem + 1]
        /\ \A q \in Pedidos : q # p => pedido'[q] = pedido[q]
    BY <1>0, <1>3, PassaTipo DEF Contar
  <2>2. pedido'[p].pc = "escolher"
    BY <2>1
  <2>3. trinco = {} /\ trinco' = {p} /\ UNCHANGED <<vida, numero>>
    BY <1>3 DEF Contar, Entra
  <2>4. \A q \in Pedidos : q # p => pedido[q].pc = "livre"
    BY <2>3 DEF Numerado, UmDeCada
  <2>5. \A q \in Pedidos : pedido'[q].pc # "gravar"
    BY <2>1, <2>2, <2>4
  <2>6. UmDeCada'
    BY <2>1, <2>3, <2>4 DEF Numerado, UmDeCada, Existe
  <2> QED
    BY <2>5, <2>6 DEF Numerado, NumeroLivre
<1>4. ASSUME NEW p \in Pedidos, Escolher(p)
      PROVE  Numerado'
  <2>1. /\ pedido'[p] = [pc |-> "gravar", seq |-> candidato(pedido[p].seq)]
        /\ \A q \in Pedidos : q # p => pedido'[q] = pedido[q]
    BY <1>0, <1>4, PassaTipo DEF Escolher
  <2>2. pedido[p].pc = "escolher" /\ UNCHANGED <<vida, numero, trinco, restauro>>
    BY <1>4 DEF Escolher
  <2>3. pedido[p].seq \in Nat
    BY <1>0 DEF PedidoTipo
  <2>4. pedido'[p].seq = 0 \/ ~Ocupado(pedido'[p].seq)
    BY <2>1, <2>3, CandidatoLivre
  <2>5. UmDeCada'
    BY <2>1, <2>2 DEF Numerado, UmDeCada, Existe
  <2>6. NumeroLivre'
    BY <2>1, <2>2, <2>4 DEF Numerado, NumeroLivre, Ocupado, Existe
  <2> QED
    BY <2>5, <2>6 DEF Numerado
(* A create that ends frees the lock, and was the only one under way.      *)
<1>5. ASSUME NEW p \in Pedidos, pedido[p].pc # "livre", Passa(p, Livre),
             trinco' = trinco \ {p},
             \A c \in Contratos : ~Existe(c)' => numero'[c] = 0
      PROVE  Numerado'
  <2>1. /\ pedido'[p].pc = "livre"
        /\ \A q \in Pedidos : q # p => pedido'[q] = pedido[q]
    BY <1>0, <1>5, LivreTipo, PassaTipo
  <2>2. p \in trinco /\ \A q \in Pedidos : q # p => q \notin trinco
    BY <1>5 DEF Numerado, UmDeCada
  <2>3. \A q \in Pedidos : pedido'[q].pc = "livre"
    BY <2>1, <2>2 DEF Numerado, UmDeCada
  <2> QED
    BY <1>5, <2>2, <2>3 DEF Numerado, UmDeCada, NumeroLivre
<1>6. ASSUME NEW p \in Pedidos, NEW c \in Contratos, GravarCreate(p, c)
      PROVE  Numerado'
  <2>1. \A d \in Contratos : ~Existe(d)' => numero'[d] = 0
    BY <1>0, <1>6 DEF GravarCreate, Existe, Numerado, UmDeCada
  <2> QED
    BY <1>5, <1>6, <2>1 DEF GravarCreate
<1>7. ASSUME NEW p \in Pedidos, Recusar(p) \/ Queda(p)
      PROVE  Numerado'
  <2>1. \A d \in Contratos : ~Existe(d)' => numero'[d] = 0
    BY <1>7 DEF Recusar, Queda, Existe, Numerado, UmDeCada
  <2>2. pedido[p].pc # "livre"
    BY <1>7 DEF Recusar, Queda
  <2> QED
    BY <1>5, <1>7, <2>1, <2>2 DEF Recusar, Queda
<1>8. ASSUME NEW c \in Contratos, CriarAdenda(c)
      PROVE  Numerado'
  <2>1. /\ numero[c] = 0 /\ vida' = [vida EXCEPT ![c] = "viva"]
        /\ UNCHANGED <<numero, trinco, pedido, restauro>>
    BY <1>8 DEF CriarAdenda, Numerado, UmDeCada
  <2>2. \A n \in Nat : n # 0 => (Ocupado(n)' <=> Ocupado(n))
    BY <1>0, <2>1 DEF Ocupado, Existe
  <2>3. \A p \in Pedidos : pedido[p].seq \in Nat
    BY <1>0 DEF PedidoTipo
  <2>4. UmDeCada'
    BY <1>0, <2>1 DEF Numerado, UmDeCada, Existe
  <2>5. NumeroLivre'
    BY <2>1, <2>2, <2>3 DEF Numerado, NumeroLivre
  <2> QED
    BY <2>4, <2>5 DEF Numerado
<1>9. ASSUME NEW c \in Contratos, NEW n \in Numeros, Restaurar(c, n)
      PROVE  Numerado'
  <2>1. /\ restauro' = (restauro \/ trinco # {})
        /\ UNCHANGED <<trinco, pedido>>
    BY <1>9 DEF Restaurar
  <2>2. UmDeCada'
    BY <1>0, <1>9 DEF Restaurar, Numerado, UmDeCada, Existe
  <2>3. NumeroLivre'
    BY <2>1 DEF Numerado, UmDeCada, NumeroLivre
  <2> QED
    BY <2>2, <2>3 DEF Numerado
<1>10. ASSUME NEW c \in Contratos, SoftDelete(c)
       PROVE  Numerado'
  <2>1. /\ vida[c] = "viva" /\ vida' = [vida EXCEPT ![c] = "apagada"]
        /\ UNCHANGED <<numero, trinco, pedido, restauro>>
    BY <1>10 DEF SoftDelete, Removivel
  <2>2. \A d \in Contratos : Existe(d)' <=> Existe(d)
    BY <1>0, <2>1 DEF Existe
  <2> QED
    BY <2>1, <2>2 DEF Numerado, UmDeCada, NumeroLivre, Ocupado
<1>11. ASSUME NEW m \in Mensagens,
              reserveIaQuota(m) \/ Responder(m) \/ refundIaQuota(m) \/ PerderIa(m)
       PROVE  Numerado'
  BY <1>1, <1>11 DEF reserveIaQuota, Responder, refundIaQuota, PerderIa, contratos
<1> QED
  BY <1>2, <1>3, <1>4, <1>6, <1>7, <1>8, <1>9, <1>10, <1>11 DEF Next

(* A create meets the unique key of the number only if a restore committed *)
(* while it held the lock.                                                 *)
THEOREM NumeroLivreCorrect == Spec => []NumeroLivre
<1>1. Init => TypeOK /\ Numerado
  BY TypeInicio, NumeradoInicio
<1>2. TypeOK /\ Numerado /\ [Next]_vars => (TypeOK /\ Numerado)'
  BY TypePasso, NumeradoPasso
<1>3. Numerado => NumeroLivre
  BY DEF Numerado
<1> QED
  BY <1>1, <1>2, <1>3, PTL DEF Spec

-----------------------------------------------------------------------------
(* The units that are held are all counted, so a refund always finds one.  *)
Detidos == {m \in Mensagens : mensagem[m] \in {"reservada", "semResposta", "entregue"}}
Contado == Cardinality(Detidos) <= iaUsado

LEMMA DetidosFinitos == IsFiniteSet(Detidos) /\ Cardinality(Detidos) \in Nat
<1>1. Detidos \in SUBSET Mensagens
  BY DEF Detidos
<1> QED
  BY <1>1, FinitosAssumption, FS_Subset, FS_CardinalityType

(* What a request to the assistant does to the units that are held.        *)
LEMMA IaPasso ==
  ASSUME TypeOK, Contado, NEW m \in Mensagens,
         reserveIaQuota(m) \/ Responder(m) \/ refundIaQuota(m) \/ PerderIa(m)
  PROVE  /\ Contado'
         /\ plano' = plano
         /\ \/ m \notin Detidos /\ Detidos' = Detidos \cup {m} /\ Cabe(iaUsado)
               /\ iaUsado' = iaUsado + 1
            \/ m \in Detidos /\ Detidos' = Detidos \ {m} /\ iaUsado' = iaUsado - 1
            \/ m \in Detidos /\ Detidos' = Detidos \ {m} /\ iaUsado' = iaUsado
            \/ Detidos' = Detidos /\ iaUsado' = iaUsado
<1>0. /\ mensagem \in [Mensagens -> {"nenhuma", "reservada", "entregue", "semResposta",
                                     "estornada", "perdida"}]
      /\ iaUsado \in Nat /\ Cardinality(Detidos) \in Nat
  BY DetidosFinitos DEF TypeOK
<1>1. CASE reserveIaQuota(m)
  <2>1. m \notin Detidos /\ Detidos' = Detidos \cup {m}
    BY <1>0, <1>1 DEF reserveIaQuota, Fica, Detidos
  <2>2. Cardinality(Detidos') = Cardinality(Detidos) + 1
    BY <2>1, DetidosFinitos, FS_AddElement
  <2> QED
    BY <1>0, <1>1, <2>1, <2>2 DEF reserveIaQuota, Contado
<1>2. CASE Responder(m)
  <2>1. Detidos' = Detidos
    BY <1>0, <1>2 DEF Responder, Fica, Detidos
  <2> QED
    BY <1>2, <2>1 DEF Responder, Contado
<1>3. ASSUME m \in Detidos, Detidos' = Detidos \ {m}
      PROVE  Cardinality(Detidos') = Cardinality(Detidos) - 1 /\ Cardinality(Detidos) > 0
  BY <1>0, <1>3, DetidosFinitos, FS_RemoveElement, FS_CardinalityType, FS_EmptySet
<1>4. CASE refundIaQuota(m)
  <2>1. m \in Detidos /\ Detidos' = Detidos \ {m}
    BY <1>0, <1>4 DEF refundIaQuota, Fica, Detidos
  <2>2. iaUsado' = iaUsado - 1
    BY <1>0, <1>3, <1>4, <2>1 DEF refundIaQuota, Estorno, Contado
  <2> QED
    BY <1>0, <1>3, <1>4, <2>1, <2>2 DEF refundIaQuota, Contado
<1>5. CASE PerderIa(m)
  <2>1. m \in Detidos /\ Detidos' = Detidos \ {m}
    BY <1>0, <1>5 DEF PerderIa, Fica, Detidos
  <2> QED
    BY <1>0, <1>3, <1>5, <2>1 DEF PerderIa, Contado
<1> QED
  BY <1>1, <1>2, <1>4, <1>5

(* The assistant's counter implements the abstract one.                    *)
THEOREM RefinaIaCorrect == Spec => RefinaIa
<1>1. Init => Contado /\ Ia!Init
  <2> SUFFICES ASSUME Init PROVE Contado /\ Ia!Init
    OBVIOUS
  <2>1. Detidos = {} /\ iaUsado = 0
    BY DEF Init, Detidos
  <2> QED
    BY <2>1, FS_EmptySet DEF Init, Contado, Detidos, Ia!Init, Ia!Planos
<1>2. TypeOK /\ Contado /\ [Next]_vars => Contado' /\ [Ia!Next]_(Ia!vars)
  <2> SUFFICES ASSUME TypeOK, Contado, [Next]_vars
               PROVE  Contado' /\ (Ia!Next \/ UNCHANGED <<plano, iaUsado, Detidos>>)
    BY DEF Ia!vars, Detidos
  <2>1. CASE UNCHANGED <<plano, iaUsado, mensagem>>
    BY <2>1 DEF Contado, Detidos
  <2>2. CASE UNCHANGED vars
    BY <2>1, <2>2 DEF vars, ia
  <2>3. ASSUME NEW p \in Pedidos,
               \/ Contar(p) \/ Escolher(p) \/ Recusar(p) \/ Queda(p)
               \/ \E c \in Contratos : GravarCreate(p, c)
        PROVE  UNCHANGED <<plano, iaUsado, mensagem>>
    BY <2>3 DEF Contar, Escolher, Recusar, Queda, GravarCreate, ia
  <2>4. ASSUME NEW c \in Contratos,
               CriarAdenda(c) \/ SoftDelete(c) \/ \E n \in Numeros : Restaurar(c, n)
        PROVE  UNCHANGED <<plano, iaUsado, mensagem>>
    BY <2>4 DEF CriarAdenda, SoftDelete, Restaurar, ia
  <2>5. ASSUME NEW m \in Mensagens,
               reserveIaQuota(m) \/ Responder(m) \/ refundIaQuota(m) \/ PerderIa(m)
        PROVE  Contado' /\ (Ia!Next \/ UNCHANGED <<plano, iaUsado, Detidos>>)
    BY <2>5, IaPasso DEF Cabe, Detidos, Ia!Next, Ia!Tomar, Ia!Largar, Ia!Perder
  <2> QED
    BY <2>1, <2>2, <2>3, <2>4, <2>5 DEF Next
<1> QED
  BY <1>1, <1>2, TypeInicio, TypePasso, PTL DEF Spec, RefinaIa, Ia!Spec
=============================================================================
