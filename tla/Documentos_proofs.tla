------------------------- MODULE Documentos_proofs -------------------------
(***************************************************************************)
(* Proofs about Documentos for any documents, sizes, limit and number of   *)
(* requests.                                                               *)
(***************************************************************************)
EXTENDS Documentos, FiniteSetTheorems, TLAPS

PedidoTipo == [pc : Paragens, d : SUBSET Documentos]

LEMMA LivreTipo == Livre \in PedidoTipo
BY DEF Livre, PedidoTipo, Paragens

LEMMA TipoBooleano ==
  ASSUME NEW S, NEW f \in [S -> BOOLEAN], NEW e \in S, NEW b \in BOOLEAN
  PROVE  [f EXCEPT ![e] = b] \in [S -> BOOLEAN]
OBVIOUS

(* A request that moves is at its new statement and nowhere else; the      *)
(* others are where they were.                                             *)
LEMMA PassaFaz ==
  ASSUME TypeOK, NEW p \in Pedidos, NEW x \in Paragens, NEW d \in Documentos, Passa(p, x, d)
  PROVE  /\ pedido' \in [Pedidos -> PedidoTipo]
         /\ \A y \in Paragens, e \in Documentos : Em(p, y, e)' <=> y = x /\ e = d
         /\ \A q \in Pedidos : q # p => pedido'[q] = pedido[q]
         /\ pedido'[p].d = {d}
<1>1. [pc |-> x, d |-> {d}] \in PedidoTipo
  BY DEF PedidoTipo
<1>2. /\ pedido' \in [Pedidos -> PedidoTipo]
      /\ pedido'[p] = [pc |-> x, d |-> {d}]
      /\ \A q \in Pedidos : q # p => pedido'[q] = pedido[q]
  BY <1>1 DEF Passa, TypeOK, PedidoTipo
<1> QED
  BY <1>2 DEF Em

LEMMA AcabaFaz ==
  ASSUME TypeOK, NEW p \in Pedidos, Acaba(p)
  PROVE  /\ pedido' \in [Pedidos -> PedidoTipo]
         /\ \A y \in Paragens, e \in Documentos : ~Em(p, y, e)'
         /\ \A q \in Pedidos : q # p => pedido'[q] = pedido[q]
         /\ pedido'[p].d = {}
<1>1. /\ pedido' \in [Pedidos -> PedidoTipo]
      /\ pedido'[p] = Livre
      /\ \A q \in Pedidos : q # p => pedido'[q] = pedido[q]
  BY LivreTipo DEF Acaba, TypeOK, PedidoTipo
<1> QED
  BY <1>1 DEF Em, Livre

LEMMA TiraTipo ==
  ASSUME TypeOK, NEW d \in Documentos
  PROVE  Tira(Bytes[d]) \in Nat /\ Tira(Bytes[d]) <= storageUsado
<1>1. Bytes[d] \in Nat
  BY BytesAssumption
<1> QED
  BY <1>1 DEF Tira, TypeOK

-----------------------------------------------------------------------------
(* The counter within the plan, together with the types.                   *)
NoLimite == plano = "limitado" => storageUsado <= LimiteBytes
Tipos == TypeOK /\ NoLimite

LEMMA TiposInicio == Init => Tipos
<1>1. Init => pedido \in [Pedidos -> PedidoTipo]
  BY LivreTipo DEF Init
<1> QED
  BY <1>1, LimiteAssumption DEF Init, Tipos, TypeOK, NoLimite, PedidoTipo

(* What a request does restores nothing.                                   *)
LEMMA TiposServir ==
  ASSUME Tipos, UNCHANGED <<repostos, vazios>>, NEW r \in Pedidos, Servir(r)
  PROVE  Tipos'
<1> USE LimiteAssumption
<1>0. TypeOK /\ NoLimite
  BY DEF Tipos
(* A request that moves, and the rows it wrote.                            *)
<1>2. ASSUME NEW p \in Pedidos, NEW d \in Documentos,
             Acaba(p) \/ \E x \in Paragens : Passa(p, x, d),
             plano' = plano, storageUsado' \in Nat, NoLimite',
             vida' \in [Documentos -> {"nenhuma", "viva", "apagada"}],
             guardado' \in [Documentos -> BOOLEAN],
             provas' \in [Documentos -> Nat], libertacoes' \in [Documentos -> Nat],
             tardias' \subseteq Documentos, perdidas' \subseteq Documentos, avarias' \in Nat
      PROVE  Tipos'
  <2>1. pedido' \in [Pedidos -> PedidoTipo]
    BY <1>0, <1>2, PassaFaz, AcabaFaz
  <2> QED
    BY <1>0, <1>2, <2>1 DEF Tipos, TypeOK, PedidoTipo
<1>3. ASSUME NEW p \in Pedidos, Queda(p)
      PROVE  Tipos'
  <2>1. pedido' \in [Pedidos -> PedidoTipo]
    BY <1>0, <1>3, AcabaFaz DEF Queda
  <2>2. perdidas' \subseteq Documentos
    <3>1. pedido[p].d \subseteq Documentos
      BY <1>0 DEF TypeOK
    <3> QED
      BY <1>0, <1>3, <3>1 DEF Queda, TypeOK
  <2> QED
    BY <1>0, <1>3, <2>1, <2>2 DEF Queda, Avaria, quota, Tipos, TypeOK, NoLimite, PedidoTipo
<1>4. ASSUME NEW p \in Pedidos, NEW d \in Documentos, Reservar(p, d)
      PROVE  Tipos'
  <2>1. Bytes[d] \in Nat
    BY BytesAssumption
  <2>2. storageUsado' \in Nat /\ NoLimite'
    BY <1>0, <1>4, <2>1 DEF Reservar, CabeBytes, TypeOK, NoLimite
  <2> QED
    BY <1>0, <1>2, <1>4, <2>2 DEF Reservar, Paragens, TypeOK
<1>5. ASSUME NEW p \in Pedidos, NEW d \in Documentos, Put(p, d)
      PROVE  Tipos'
  <2>1. avarias' \in Nat /\ \E x \in Paragens : Passa(p, x, d)
    BY <1>0, <1>5 DEF Put, Avaria, TypeOK, Paragens
  <2>2. guardado' \in [Documentos -> BOOLEAN]
    BY <1>0, <1>5, TipoBooleano DEF Put, TypeOK
  <2> QED
    BY <1>0, <1>2, <1>5, <2>1, <2>2 DEF Put, quota, TypeOK, NoLimite
<1>6. ASSUME NEW p \in Pedidos, NEW d \in Documentos, Inserir(p, d)
      PROVE  Tipos'
  <2>1. /\ vida' \in [Documentos -> {"nenhuma", "viva", "apagada"}] /\ avarias' \in Nat
        /\ Acaba(p) \/ \E x \in Paragens : Passa(p, x, d)
    BY <1>0, <1>6 DEF Inserir, Avaria, TypeOK, Paragens
  <2> QED
    BY <1>0, <1>2, <1>6, <2>1 DEF Inserir, quota, TypeOK, NoLimite
<1>7. ASSUME NEW p \in Pedidos, NEW d \in Documentos, Estornar(p, d)
      PROVE  Tipos'
  <2>1. storageUsado' \in Nat /\ storageUsado' <= storageUsado /\ avarias' \in Nat
    BY <1>0, <1>7, TiraTipo DEF Estornar, Estorna, Avaria, TypeOK
  <2>2. NoLimite'
    BY <1>0, <1>7, <2>1 DEF Estornar, NoLimite, TypeOK
  <2>3. perdidas' \subseteq Documentos
    BY <1>0, <1>7 DEF Estornar, TypeOK
  <2> QED
    BY <1>0, <1>2, <1>7, <2>1, <2>2, <2>3 DEF Estornar, TypeOK
<1>8. ASSUME NEW p \in Pedidos, NEW d \in Documentos,
             LerRemover(p, d) \/ VerDocumento(p, d) \/ ContarProvas(p, d)
      PROVE  Tipos'
  <2>1. /\ Acaba(p) \/ \E x \in Paragens : Passa(p, x, d)
        /\ UNCHANGED <<quota, vida, guardado, provas, tardias, perdidas, avarias>>
    BY <1>8 DEF LerRemover, VerDocumento, ContarProvas, Paragens
  <2> QED
    BY <1>0, <1>2, <2>1 DEF quota, TypeOK, NoLimite
<1>9. ASSUME NEW p \in Pedidos, NEW d \in Documentos, Marcar(p, d)
      PROVE  Tipos'
  BY <1>0, <1>2, <1>9 DEF Marcar, quota, Paragens, TypeOK, NoLimite
<1>10. ASSUME NEW p \in Pedidos, NEW d \in Documentos, Apagar(p, d)
       PROVE  Tipos'
  <2>1. avarias' \in Nat /\ (Acaba(p) \/ \E x \in Paragens : Passa(p, x, d))
    BY <1>0, <1>10 DEF Apagar, Avaria, TypeOK, Paragens
  <2>2. guardado' \in [Documentos -> BOOLEAN]
    BY <1>0, <1>10, TipoBooleano DEF Apagar, TypeOK
  <2> QED
    BY <1>0, <1>2, <1>10, <2>1, <2>2 DEF Apagar, quota, TypeOK, NoLimite
<1>11. ASSUME NEW p \in Pedidos, NEW d \in Documentos, Libertar(p, d)
       PROVE  Tipos'
  <2>1. storageUsado' \in Nat /\ storageUsado' <= storageUsado /\ avarias' \in Nat
    BY <1>0, <1>11, TiraTipo DEF Libertar, Avaria, TypeOK
  <2>2. libertacoes' \in [Documentos -> Nat]
    BY <1>0, <1>11 DEF Libertar, TypeOK
  <2>3. NoLimite'
    BY <1>0, <1>11, <2>1 DEF Libertar, NoLimite, TypeOK
  <2>4. perdidas' \subseteq Documentos
    BY <1>0, <1>11 DEF Libertar, TypeOK
  <2> QED
    BY <1>0, <1>2, <1>11, <2>1, <2>2, <2>3, <2>4 DEF Libertar, TypeOK
<1>12. ASSUME NEW p \in Pedidos, NEW d \in Documentos, Anexar(p, d)
       PROVE  Tipos'
  <2>1. provas' \in [Documentos -> Nat] /\ tardias' \subseteq Documentos
    BY <1>0, <1>12 DEF Anexar, TypeOK
  <2> QED
    BY <1>0, <1>2, <1>12, <2>1 DEF Anexar, quota, TypeOK, NoLimite
<1> QED
  BY <1>3, <1>4, <1>5, <1>6, <1>7, <1>8, <1>9, <1>10, <1>11, <1>12 DEF Servir

LEMMA TiposPasso == Tipos /\ [Next]_vars => Tipos'
<1> SUFFICES ASSUME Tipos, [Next]_vars PROVE Tipos'
  OBVIOUS
<1>1. CASE UNCHANGED vars
  BY <1>1 DEF vars, Tipos, TypeOK, NoLimite
<1>2. ASSUME NEW d \in Documentos, Restaurar(d)
      PROVE  Tipos'
  <2>1. /\ vida' \in [Documentos -> {"nenhuma", "viva", "apagada"}]
        /\ provas' \in [Documentos -> Nat] /\ guardado' \in [Documentos -> BOOLEAN]
    <3>1. guardado' = [guardado EXCEPT ![d] = TRUE] \/ guardado' = guardado
      BY <1>2 DEF Restaurar
    <3>2. PICK v \in {"viva", "apagada"} : vida' = [vida EXCEPT ![d] = v]
      BY <1>2 DEF Restaurar
    <3>3. PICK n \in 0..1 : provas' = [provas EXCEPT ![d] = n]
      BY <1>2 DEF Restaurar
    <3>4. guardado' \in [Documentos -> BOOLEAN]
      BY <3>1, TipoBooleano DEF Tipos, TypeOK
    <3>5. n \in Nat /\ provas' \in [Documentos -> Nat]
      BY <3>3 DEF Tipos, TypeOK
    <3> QED
      BY <3>2, <3>4, <3>5 DEF Tipos, TypeOK
  <2>2. repostos' \subseteq Documentos /\ vazios' \subseteq Documentos
    BY <1>2 DEF Restaurar, Tipos, TypeOK
  <2>3. UNCHANGED <<plano, storageUsado, libertacoes, pedido, tardias, perdidas, avarias>>
    BY <1>2 DEF Restaurar, quota
  <2> QED
    BY <2>1, <2>2, <2>3 DEF Tipos, TypeOK, NoLimite
<1> QED
  BY <1>1, <1>2, TiposServir DEF Next

(* Type correctness: the counter of bytes is a natural, whatever fails.    *)
THEOREM TypeCorrect == Spec => []TypeOK
<1>1. Spec => []Tipos
  BY TiposInicio, TiposPasso, PTL DEF Spec
<1>2. Tipos => TypeOK
  BY DEF Tipos
<1> QED
  BY <1>1, <1>2, PTL

(* A tenant with a limited plan never counts more bytes than its plan.     *)
THEOREM LimiteCorrect == Spec => []NoLimite
<1>1. Spec => []Tipos
  BY TiposInicio, TiposPasso, PTL DEF Spec
<1>2. Tipos => NoLimite
  BY DEF Tipos
<1> QED
  BY <1>1, <1>2, PTL

-----------------------------------------------------------------------------
(* Where a request may be, by the life of its document: one that creates   *)
(* it is alone with it; one that deletes its bytes has marked its row and  *)
(* has found nothing that refers to it, then.                              *)
Criando == {"put", "inserir", "estornar"}
Boa(p, d) ==
  /\ \A x \in Criando : Em(p, x, d) =>
       vida[d] = "nenhuma" /\ \A q \in Pedidos : q # p => pedido[q].d # {d}
  /\ Em(p, "inserir", d) => guardado[d]
  /\ \A x \in {"marcar", "anexar"} : Em(p, x, d) => vida[d] # "nenhuma"
  /\ \A x \in {"contar", "apagar", "libertar"} : Em(p, x, d) => vida[d] = "apagada"
  /\ Em(p, "apagar", d) => provas[d] = 0 \/ d \in tardias
Intacto(d) ==
  d \notin vazios =>
    /\ vida[d] = "viva" => guardado[d]
    /\ provas[d] > 0 /\ d \notin tardias => guardado[d]
Intacta ==
  /\ \A p \in Pedidos, d \in Documentos : Boa(p, d)
  /\ \A d \in Documentos : Intacto(d)

LEMMA IntactaInicio == Init => Intacta
<1> SUFFICES ASSUME Init PROVE Intacta
  OBVIOUS
<1>1. \A p \in Pedidos, x \in Paragens, d \in Documentos : ~Em(p, x, d)
  BY DEF Init, Em, Livre
<1>2. \A p \in Pedidos, d \in Documentos : Boa(p, d)
  BY <1>1 DEF Boa, Paragens, Criando
<1> QED
  BY <1>2 DEF Init, Intacta, Intacto

LEMMA IntactaServir ==
  ASSUME TypeOK, Intacta, UNCHANGED <<repostos, vazios>>, NEW z \in Pedidos, Servir(z)
  PROVE  Intacta'
<1>0. /\ vida \in [Documentos -> {"nenhuma", "viva", "apagada"}]
      /\ guardado \in [Documentos -> BOOLEAN] /\ provas \in [Documentos -> Nat]
      /\ tardias \subseteq Documentos
      /\ \A p \in Pedidos, d \in Documentos : Boa(p, d)
      /\ \A d \in Documentos : Intacto(d)
  BY DEF TypeOK, Intacta
<1>1. ASSUME NEW p, NEW x, NEW d, Em(p, x, d)
      PROVE  /\ pedido[p].d = {d}
             /\ \A y, e : Em(p, y, e) => y = x /\ e = d
  <2>1. pedido[p].d = {d} /\ pedido[p].pc = x
    BY <1>1 DEF Em
  <2>2. ASSUME NEW y, NEW e, Em(p, y, e)
        PROVE  y = x /\ {e} = {d}
    BY <2>1, <2>2 DEF Em
  <2>3. \A e : {e} = {d} => e = d
    OBVIOUS
  <2> QED
    BY <2>1, <2>2, <2>3
(* A request that moves with a document disturbs what is said of that      *)
(* document only.                                                          *)
<1>3. ASSUME NEW p \in Pedidos, NEW d \in Documentos,
             Acaba(p) \/ \E x \in Paragens : Passa(p, x, d),
             \A e \in Documentos : e # d =>
               /\ vida'[e] = vida[e] /\ guardado'[e] = guardado[e] /\ provas'[e] = provas[e]
               /\ e \in tardias' <=> e \in tardias,
             \A q \in Pedidos : Boa(q, d)',
             Intacto(d)'
      PROVE  Intacta'
  <2>1. /\ \A q \in Pedidos : q # p => pedido'[q] = pedido[q]
        /\ \A y \in Paragens, e \in Documentos : e # d => ~Em(p, y, e)'
        /\ \A e \in Documentos : e # d => pedido'[p].d # {e}
    <3>1. CASE Acaba(p)
      BY <3>1, AcabaFaz
    <3>2. ASSUME NEW x \in Paragens, Passa(p, x, d)
          PROVE  <2>1!1 /\ <2>1!2 /\ <2>1!3
      BY <3>2, PassaFaz
    <3> QED
      BY <1>3, <3>1, <3>2
  <2>2. ASSUME NEW q \in Pedidos, NEW e \in Documentos, e # d
        PROVE  Boa(q, e)'
    <3>1. CASE q = p
      BY <2>1, <2>2, <3>1 DEF Boa, Paragens, Criando
    <3>2. CASE q # p
      <4>1. \A y : Em(q, y, e)' <=> Em(q, y, e)
        BY <2>1, <3>2 DEF Em
      <4>2. \A r \in Pedidos : pedido[r].d # {e} => pedido'[r].d # {e}
        BY <2>1, <2>2
      <4> QED
        BY <1>0, <1>3, <2>2, <4>1, <4>2 DEF Boa
    <3> QED
      BY <3>1, <3>2
  <2>3. \A e \in Documentos : e # d => Intacto(e)'
    BY <1>0, <1>3 DEF Intacto
  <2> QED
    BY <1>3, <2>2, <2>3 DEF Intacta
(* Only where the request is changes.  Those that create are alone with    *)
(* their document, so a request that starts with one finds none of them.   *)
<1>4. ASSUME NEW p \in Pedidos, NEW d \in Documentos,
             Acaba(p) \/ \E x \in Paragens : Passa(p, x, d),
             UNCHANGED <<vida, guardado, provas, tardias>>,
             Boa(p, d)',
             \A q \in Pedidos, x \in Criando : q # p => ~Em(q, x, d) \/ Acaba(p)
      PROVE  Intacta'
  <2>1. \A q \in Pedidos : q # p => pedido'[q] = pedido[q]
    BY <1>4, AcabaFaz, PassaFaz
  <2>2. Acaba(p) => pedido'[p].d # {d}
    BY AcabaFaz
  <2>3. ASSUME NEW q \in Pedidos, q # p
        PROVE  Boa(q, d)'
    <3>1. \A y : Em(q, y, d)' <=> Em(q, y, d)
      BY <2>1, <2>3 DEF Em
    <3>2. \A x \in Criando : Em(q, x, d)' =>
            \A r \in Pedidos : r # q => pedido'[r].d # {d}
      BY <1>0, <1>4, <2>1, <2>2, <2>3, <3>1 DEF Boa
    <3> QED
      BY <1>0, <1>4, <3>1, <3>2 DEF Boa
  <2>4. Intacto(d)'
    BY <1>0, <1>4 DEF Intacto
  <2> QED
    BY <1>3, <1>4, <2>3, <2>4
<1>5. ASSUME NEW p \in Pedidos, NEW d \in Documentos, Acaba(p),
             UNCHANGED <<vida, guardado, provas, tardias>>
      PROVE  Intacta'
  <2>1. Boa(p, d)'
    BY <1>5, AcabaFaz DEF Boa, Paragens, Criando
  <2> QED
    BY <1>4, <1>5, <2>1
(* A request that is with a document in the lists, or that was, is not     *)
(* with one that is being created.                                         *)
<1>6. ASSUME NEW d \in Documentos, vida[d] # "nenhuma"
      PROVE  \A q \in Pedidos, x \in Criando : ~Em(q, x, d)
  BY <1>0, <1>6 DEF Boa
<1>7. ASSUME NEW p \in Pedidos, Queda(p)
      PROVE  Intacta'
  <2>1. CASE Documentos = {}
    BY <2>1 DEF Intacta
  <2>2. CASE Documentos # {}
    BY <1>5, <1>7, <2>2 DEF Queda
  <2> QED
    BY <2>1, <2>2
<1>8. ASSUME NEW p \in Pedidos, NEW d \in Documentos, Reservar(p, d)
      PROVE  Intacta'
  <2>1. /\ vida[d] = "nenhuma" /\ \A q \in Pedidos : pedido[q].d # {d}
        /\ Passa(p, "put", d) /\ UNCHANGED <<vida, guardado, provas, tardias>>
    BY <1>8 DEF Reservar, Novo
  <2>2. Boa(p, d)'
    BY <2>1, PassaFaz DEF Boa, Paragens, Criando
  <2>3. \A q \in Pedidos, x \in Criando : ~Em(q, x, d)
    BY <1>1, <2>1
  <2> QED
    BY <1>4, <2>1, <2>2, <2>3 DEF Paragens
<1>9. ASSUME NEW p \in Pedidos, NEW d \in Documentos, Put(p, d)
      PROVE  Intacta'
  <2>1. /\ vida[d] = "nenhuma" /\ \A q \in Pedidos : q # p => pedido[q].d # {d}
        /\ vida' = vida /\ provas' = provas /\ tardias' = tardias
    BY <1>0, <1>9 DEF Put, Boa, Criando
  <2>2. \A q \in Pedidos, y \in Paragens : q # p => ~Em(q, y, d)
    BY <1>1, <2>1
  <2>3. CASE guardado' = [guardado EXCEPT ![d] = TRUE] /\ Passa(p, "inserir", d)
    <3>1. guardado'[d] /\ \A e \in Documentos : e # d => guardado'[e] = guardado[e]
      BY <1>0, <2>3
    <3>2. /\ \A y \in Paragens : Em(p, y, d)' <=> y = "inserir"
          /\ \A q \in Pedidos : q # p => pedido'[q] = pedido[q]
      BY <2>3, PassaFaz DEF Paragens
    <3>3. \A q \in Pedidos, y \in Paragens : q # p => ~Em(q, y, d)'
      BY <2>2, <3>2 DEF Em
    <3>4. \A q \in Pedidos : Boa(q, d)'
      BY <2>1, <3>1, <3>2, <3>3 DEF Boa, Paragens, Criando
    <3>5. Intacto(d)'
      BY <3>1 DEF Intacto
    <3> QED
      BY <1>3, <2>1, <2>3, <3>1, <3>4, <3>5 DEF Paragens
  <2>4. CASE guardado' = guardado /\ Passa(p, "estornar", d)
    <3>1. Boa(p, d)'
      BY <2>1, <2>4, PassaFaz DEF Boa, Paragens, Criando
    <3> QED
      BY <1>4, <2>1, <2>2, <2>4, <3>1 DEF Paragens, Criando
  <2> QED
    BY <1>9, <2>3, <2>4 DEF Put
<1>10. ASSUME NEW p \in Pedidos, NEW d \in Documentos, Inserir(p, d)
       PROVE  Intacta'
  <2>1. /\ vida[d] = "nenhuma" /\ \A q \in Pedidos : q # p => pedido[q].d # {d}
        /\ guardado[d]
        /\ guardado' = guardado /\ provas' = provas /\ tardias' = tardias
    BY <1>0, <1>10 DEF Inserir, Boa, Criando
  <2>2. \A q \in Pedidos, y \in Paragens : q # p => ~Em(q, y, d)
    BY <1>1, <2>1
  <2>3. CASE vida' = [vida EXCEPT ![d] = "viva"] /\ Acaba(p)
    <3>1. vida'[d] = "viva" /\ \A e \in Documentos : e # d => vida'[e] = vida[e]
      BY <1>0, <2>3
    <3>2. /\ \A y \in Paragens : ~Em(p, y, d)'
          /\ \A q \in Pedidos : q # p => pedido'[q] = pedido[q]
      BY <2>3, AcabaFaz
    <3>3. \A q \in Pedidos, y \in Paragens : ~Em(q, y, d)'
      BY <2>2, <3>2 DEF Em
    <3>4. \A q \in Pedidos : Boa(q, d)'
      BY <3>3 DEF Boa, Paragens, Criando
    <3>5. Intacto(d)'
      BY <2>1 DEF Intacto
    <3> QED
      BY <1>3, <2>1, <2>3, <3>1, <3>4, <3>5
  <2>4. CASE vida' = vida /\ Passa(p, "estornar", d)
    <3>1. Boa(p, d)'
      BY <2>1, <2>4, PassaFaz DEF Boa, Paragens, Criando
    <3> QED
      BY <1>4, <2>1, <2>2, <2>4, <3>1 DEF Paragens, Criando
  <2> QED
    BY <1>10, <2>3, <2>4 DEF Inserir
<1>11. ASSUME NEW p \in Pedidos, NEW d \in Documentos, Estornar(p, d)
       PROVE  Intacta'
  BY <1>5, <1>11 DEF Estornar
<1>12. ASSUME NEW p \in Pedidos, NEW d \in Documentos, LerRemover(p, d)
       PROVE  Intacta'
  <2>1. /\ vida[d] = "viva" /\ Passa(p, "marcar", d)
        /\ UNCHANGED <<vida, guardado, provas, tardias>>
    BY <1>12 DEF LerRemover
  <2>2. Boa(p, d)'
    BY <2>1, PassaFaz DEF Boa, Paragens, Criando
  <2> QED
    BY <1>4, <1>6, <2>1, <2>2 DEF Paragens
<1>13. ASSUME NEW p \in Pedidos, NEW d \in Documentos, VerDocumento(p, d)
       PROVE  Intacta'
  <2>1. /\ vida[d] = "viva" /\ Passa(p, "anexar", d)
        /\ UNCHANGED <<vida, guardado, provas, tardias>>
    BY <1>13 DEF VerDocumento
  <2>2. Boa(p, d)'
    BY <2>1, PassaFaz DEF Boa, Paragens, Criando
  <2> QED
    BY <1>4, <1>6, <2>1, <2>2 DEF Paragens
<1>14. ASSUME NEW p \in Pedidos, NEW d \in Documentos, Marcar(p, d)
       PROVE  Intacta'
  <2>1. /\ vida[d] # "nenhuma" /\ Passa(p, "contar", d)
        /\ vida' = [vida EXCEPT ![d] = "apagada"]
        /\ UNCHANGED <<guardado, provas, tardias>>
    BY <1>0, <1>14 DEF Marcar, Boa
  <2>2. vida'[d] = "apagada" /\ \A e \in Documentos : e # d => vida'[e] = vida[e]
    BY <1>0, <2>1
  <2>3. /\ \A y \in Paragens : Em(p, y, d)' <=> y = "contar"
        /\ \A q \in Pedidos : q # p => pedido'[q] = pedido[q]
    BY <2>1, PassaFaz DEF Paragens
  <2>4. ASSUME NEW q \in Pedidos
        PROVE  Boa(q, d)'
    <3>1. CASE q = p
      BY <2>2, <2>3, <3>1 DEF Boa, Paragens, Criando
    <3>2. CASE q # p
      <4>1. \A y : Em(q, y, d)' <=> Em(q, y, d)
        BY <2>3, <3>2 DEF Em
      <4> QED
        BY <1>0, <1>6, <2>1, <2>2, <4>1 DEF Boa
    <3> QED
      BY <3>1, <3>2
  <2>5. Intacto(d)'
    BY <1>0, <2>1, <2>2 DEF Intacto
  <2> QED
    BY <1>3, <2>1, <2>2, <2>4, <2>5 DEF Paragens
<1>15. ASSUME NEW p \in Pedidos, NEW d \in Documentos, ContarProvas(p, d)
       PROVE  Intacta'
  <2>1. vida[d] = "apagada" /\ UNCHANGED <<vida, guardado, provas, tardias>>
    BY <1>0, <1>15 DEF ContarProvas, Boa
  <2>2. CASE referenciado(d)
    BY <1>5, <1>15, <2>1, <2>2 DEF ContarProvas
  <2>3. CASE ~referenciado(d)
    <3>1. provas[d] = 0 /\ Passa(p, "apagar", d)
      BY <1>0, <1>15, <2>3 DEF ContarProvas, referenciado
    <3>2. Boa(p, d)'
      BY <2>1, <3>1, PassaFaz DEF Boa, Paragens, Criando
    <3> QED
      BY <1>4, <1>6, <2>1, <3>1, <3>2 DEF Paragens
  <2> QED
    BY <2>2, <2>3
<1>16. ASSUME NEW p \in Pedidos, NEW d \in Documentos, Apagar(p, d)
       PROVE  Intacta'
  <2>1. /\ vida[d] = "apagada" /\ (provas[d] = 0 \/ d \in tardias)
        /\ UNCHANGED <<vida, provas, tardias>>
    BY <1>0, <1>16 DEF Apagar, Boa
  <2>2. CASE guardado' = [guardado EXCEPT ![d] = FALSE] /\ Passa(p, "libertar", d)
    <3>1. \A e \in Documentos : e # d => guardado'[e] = guardado[e]
      BY <1>0, <2>2
    <3>2. /\ \A y \in Paragens : Em(p, y, d)' <=> y = "libertar"
          /\ \A q \in Pedidos : q # p => pedido'[q] = pedido[q]
      BY <2>2, PassaFaz DEF Paragens
    <3>3. ASSUME NEW q \in Pedidos
          PROVE  Boa(q, d)'
      <4>1. CASE q = p
        BY <2>1, <3>2, <4>1 DEF Boa, Paragens, Criando
      <4>2. CASE q # p
        <5>1. \A y : Em(q, y, d)' <=> Em(q, y, d)
          BY <3>2, <4>2 DEF Em
        <5>2. \A x \in Criando : ~Em(q, x, d)
          BY <1>6, <2>1
        <5> QED
          BY <1>0, <2>1, <5>1, <5>2 DEF Boa, Criando
      <4> QED
        BY <4>1, <4>2
    <3>4. Intacto(d)'
      BY <1>0, <2>1 DEF Intacto
    <3> QED
      BY <1>3, <2>1, <2>2, <3>1, <3>3, <3>4 DEF Paragens
  <2>3. CASE Acaba(p) /\ guardado' = guardado
    BY <1>5, <2>1, <2>3
  <2> QED
    BY <1>16, <2>2, <2>3 DEF Apagar
<1>17. ASSUME NEW p \in Pedidos, NEW d \in Documentos, Libertar(p, d)
       PROVE  Intacta'
  BY <1>5, <1>17 DEF Libertar
<1>18. ASSUME NEW p \in Pedidos, NEW d \in Documentos, Anexar(p, d)
       PROVE  Intacta'
  <2>1. /\ vida[d] # "nenhuma" /\ Acaba(p) /\ UNCHANGED <<vida, guardado>>
        /\ tardias' = IF vida[d] = "viva" THEN tardias ELSE tardias \cup {d}
        /\ \A e \in Documentos : e # d => provas'[e] = provas[e]
    BY <1>0, <1>18 DEF Anexar, Boa
  <2>2. /\ \A y \in Paragens : ~Em(p, y, d)'
        /\ \A q \in Pedidos : q # p => pedido'[q] = pedido[q]
    BY <2>1, AcabaFaz
  <2>3. vida[d] = "viva" \/ d \in tardias'
    BY <2>1
  <2>4. ASSUME NEW q \in Pedidos
        PROVE  Boa(q, d)'
    <3>1. CASE q = p
      BY <2>2, <3>1 DEF Boa, Paragens, Criando
    <3>2. CASE q # p
      <4>1. \A y : Em(q, y, d)' <=> Em(q, y, d)
        BY <2>2, <3>2 DEF Em
      <4>2. \A x \in Criando : ~Em(q, x, d)
        BY <1>6, <2>1
      <4> QED
        BY <1>0, <2>1, <2>3, <4>1, <4>2 DEF Boa, Criando
    <3> QED
      BY <3>1, <3>2
  <2>5. Intacto(d)'
    BY <1>0, <2>1, <2>3 DEF Intacto
  <2> QED
    BY <1>3, <2>1, <2>4, <2>5
<1> QED
  BY <1>7, <1>8, <1>9, <1>10, <1>11, <1>12, <1>13, <1>14, <1>15, <1>16, <1>17, <1>18
  DEF Servir

LEMMA IntactaPasso == TypeOK /\ Intacta /\ [Next]_vars => Intacta'
<1> SUFFICES ASSUME TypeOK, Intacta, [Next]_vars PROVE Intacta'
  OBVIOUS
<1>0. /\ vida \in [Documentos -> {"nenhuma", "viva", "apagada"}]
      /\ guardado \in [Documentos -> BOOLEAN] /\ provas \in [Documentos -> Nat]
      /\ \A p \in Pedidos, d \in Documentos : Boa(p, d)
      /\ \A d \in Documentos : Intacto(d)
  BY DEF TypeOK, Intacta
<1>1. CASE UNCHANGED vars
  <2>1. /\ UNCHANGED <<vida, guardado, provas, tardias, vazios, pedido>>
        /\ \A p \in Pedidos, x \in Paragens, d \in Documentos : Em(p, x, d)' <=> Em(p, x, d)
    BY <1>1 DEF vars, Em
  <2>2. \A p \in Pedidos, d \in Documentos : Boa(p, d)'
    BY <1>0, <2>1 DEF Boa, Paragens, Criando
  <2>3. \A d \in Documentos : Intacto(d)'
    BY <1>0, <2>1 DEF Intacto
  <2> QED
    BY <2>2, <2>3 DEF Intacta
(* No request knows the document that is restored.                         *)
<1>2. ASSUME NEW d \in Documentos, Restaurar(d)
      PROVE  Intacta'
  <2>1. /\ pedido' = pedido /\ tardias' = tardias
        /\ \A p \in Pedidos : pedido[p].d # {d}
        /\ guardado'[d] \/ d \in vazios'
    BY <1>0, <1>2 DEF Restaurar, Novo
  <2>2. \A e \in Documentos : e # d =>
          /\ vida'[e] = vida[e] /\ guardado'[e] = guardado[e] /\ provas'[e] = provas[e]
          /\ e \in vazios' <=> e \in vazios
    BY <1>0, <1>2 DEF Restaurar
  <2>3. \A p \in Pedidos : \A x, e : Em(p, x, e)' <=> Em(p, x, e)
    BY <2>1 DEF Em
  <2>4. \A p \in Pedidos : \A x : ~Em(p, x, d)
    BY <2>1 DEF Em
  <2>5. ASSUME NEW p \in Pedidos, NEW e \in Documentos
        PROVE  Boa(p, e)'
    <3>1. CASE e = d
      BY <2>3, <2>4, <3>1 DEF Boa
    <3>2. CASE e # d
      BY <1>0, <2>1, <2>2, <2>3, <3>2 DEF Boa
    <3> QED
      BY <3>1, <3>2
  <2>6. \A e \in Documentos : Intacto(e)'
    BY <1>0, <2>1, <2>2 DEF Intacto
  <2> QED
    BY <2>5, <2>6 DEF Intacta
<1> QED
  BY <1>1, <1>2, IntactaServir DEF Next

(* A document in the lists has its bytes, and so has one that is proof of  *)
(* something, whatever requests and failures cross.                        *)
THEOREM ProvaIntactaCorrect == Spec => []ProvaIntacta
<1>1. Init => Tipos /\ Intacta
  BY TiposInicio, IntactaInicio
<1>2. Tipos /\ Intacta /\ [Next]_vars => (Tipos /\ Intacta)'
  BY TiposPasso, IntactaPasso DEF Tipos
<1>3. Intacta => ProvaIntacta
  BY DEF Intacta, Intacto, ProvaIntacta
<1> QED
  BY <1>1, <1>2, <1>3, PTL DEF Spec

-----------------------------------------------------------------------------
(* Sums: what one argument of a finite function adds to its sum.           *)
Unidades(f) == UNION {{e} \X (1..f[e]) : e \in DOMAIN f}

LEMMA UnidadesDeUm ==
  ASSUME NEW e, NEW k \in Nat
  PROVE  IsFiniteSet({e} \X (1..k)) /\ Cardinality({e} \X (1..k)) = k
<1>1. IsFiniteSet({e}) /\ Cardinality({e}) = 1
  BY FS_Singleton
<1>2. IsFiniteSet(1..k) /\ Cardinality(1..k) = IF 1 > k THEN 0 ELSE k - 1 + 1
  <2>1. 1 \in Int /\ k \in Int
    OBVIOUS
  <2> QED
    BY <2>1, FS_Interval
<1>3. Cardinality(1..k) = k
  BY <1>2
<1>4. /\ IsFiniteSet({e} \X (1..k))
      /\ Cardinality({e} \X (1..k)) = Cardinality({e}) * Cardinality(1..k)
  BY <1>1, <1>2, FS_Product, Zenon
<1> QED
  BY <1>1, <1>3, <1>4

LEMMA UnidadesFinitas ==
  ASSUME NEW S, IsFiniteSet(S), NEW f \in [S -> Nat]
  PROVE  IsFiniteSet(Unidades(f)) /\ Soma(f) = Cardinality(Unidades(f)) /\ Soma(f) \in Nat
<1> DEFINE T == {{e} \X (1..f[e]) : e \in S}
<1> DEFINE h == [e \in S |-> {e} \X (1..f[e])]
<1>1. h \in Surjection(S, T)
  BY DEF Surjection
<1>2. IsFiniteSet(T)
  BY <1>1, FS_Surjection
<1>3. ASSUME NEW e \in S
      PROVE  IsFiniteSet({e} \X (1..f[e]))
  BY UnidadesDeUm
<1>4. IsFiniteSet(UNION T)
  BY <1>2, <1>3, FS_UNION
<1>5. Unidades(f) = UNION T
  BY DEF Unidades
<1> QED
  BY <1>4, <1>5, FS_CardinalityType DEF Soma, Unidades

LEMMA SomaMuda ==
  ASSUME NEW S, IsFiniteSet(S), NEW f \in [S -> Nat], NEW g \in [S -> Nat], NEW d \in S,
         \A e \in S : e # d => g[e] = f[e]
  PROVE  /\ Soma(f) \in Nat /\ Soma(g) \in Nat
         /\ Soma(g) = (Soma(f) - f[d]) + g[d]
<1> DEFINE R == UNION {{e} \X (1..f[e]) : e \in S \ {d}}
<1> DEFINE U(k) == {d} \X (1..k)
<1>1. /\ Unidades(f) = R \cup U(f[d]) /\ Unidades(g) = R \cup U(g[d])
      /\ R \cap U(f[d]) = {} /\ R \cap U(g[d]) = {}
  BY DEF Unidades
<1>2. ASSUME NEW k \in Nat
      PROVE  IsFiniteSet(U(k)) /\ Cardinality(U(k)) = k
  BY <1>2, UnidadesDeUm
<1>3. IsFiniteSet(R)
  BY <1>1, UnidadesFinitas, FS_Subset
<1>4. Cardinality(R) \in Nat /\ Cardinality({}) = 0
  BY <1>3, FS_CardinalityType, FS_EmptySet
<1> HIDE DEF R, U
<1>5. ASSUME NEW k \in Nat, R \cap U(k) = {}
      PROVE  Cardinality(R \cup U(k)) = Cardinality(R) + k
  <2>1. Cardinality(R \cup U(k)) = Cardinality(R) + Cardinality(U(k)) - Cardinality({})
    BY <1>2, <1>3, <1>5, FS_Union
  <2> QED
    BY <1>2, <1>4, <2>1
<1>6. /\ Cardinality(Unidades(f)) = Cardinality(R) + f[d]
      /\ Cardinality(Unidades(g)) = Cardinality(R) + g[d]
  <2>1. f[d] \in Nat /\ g[d] \in Nat
    OBVIOUS
  <2> QED
    BY <1>1, <1>5, <2>1
<1> QED
  BY <1>4, <1>6, UnidadesFinitas

(* The sum is zero only of zeros, and it is not less than one of its terms *)
(* nor than the sum of a lesser function.                                  *)
LEMMA SomaNula ==
  ASSUME NEW S, NEW f \in [S -> Nat], \A e \in S : f[e] = 0
  PROVE  Soma(f) = 0
<1>1. Unidades(f) = {}
  BY DEF Unidades
<1> QED
  BY <1>1, FS_EmptySet DEF Soma, Unidades

LEMMA SomaMonotona ==
  ASSUME NEW S, IsFiniteSet(S), NEW f \in [S -> Nat], NEW g \in [S -> Nat],
         \A e \in S : f[e] <= g[e]
  PROVE  Soma(f) <= Soma(g)
<1>1. Unidades(f) \subseteq Unidades(g)
  BY DEF Unidades
<1> QED
  BY <1>1, UnidadesFinitas, FS_Subset

LEMMA BytesMuda ==
  ASSUME NEW C \in SUBSET Documentos, NEW d \in Documentos
  PROVE  /\ BytesDe(C) \in Nat /\ Bytes[d] \in Nat
         /\ d \notin C => BytesDe(C \cup {d}) = BytesDe(C) + Bytes[d]
         /\ BytesDe(C \ {d}) \in Nat
         /\ d \in C => BytesDe(C \ {d}) = BytesDe(C) - Bytes[d]
         /\ d \notin C => BytesDe(C \ {d}) = BytesDe(C)
<1> DEFINE f(D) == [e \in Documentos |-> IF e \in D THEN Bytes[e] ELSE 0]
<1>1. \A D : f(D) \in [Documentos -> Nat]
  BY BytesAssumption
<1>2. Bytes[d] \in Nat
  BY BytesAssumption
<1>3. ASSUME NEW D, \A e \in Documentos : e # d => f(D)[e] = f(C)[e]
      PROVE  BytesDe(C) \in Nat /\ BytesDe(D) \in Nat
             /\ BytesDe(D) = (BytesDe(C) - f(C)[d]) + f(D)[d]
  <2> HIDE DEF f
  <2>1. /\ Soma(f(C)) \in Nat /\ Soma(f(D)) \in Nat
        /\ Soma(f(D)) = (Soma(f(C)) - f(C)[d]) + f(D)[d]
    BY <1>1, <1>3, SomaMuda, DocumentosAssumption
  <2> QED
    BY <2>1 DEF BytesDe, f
<1>4. /\ \A e \in Documentos : e # d => f(C \cup {d})[e] = f(C)[e]
      /\ \A e \in Documentos : e # d => f(C \ {d})[e] = f(C)[e]
  OBVIOUS
<1>5. f(C \cup {d})[d] = Bytes[d] /\ f(C \ {d})[d] = 0
      /\ f(C)[d] = IF d \in C THEN Bytes[d] ELSE 0
  OBVIOUS
<1> HIDE DEF f
<1>6. /\ BytesDe(C) \in Nat
      /\ BytesDe(C \cup {d}) = (BytesDe(C) - f(C)[d]) + f(C \cup {d})[d]
  BY <1>3, <1>4
<1>7. /\ BytesDe(C \ {d}) \in Nat
      /\ BytesDe(C \ {d}) = (BytesDe(C) - f(C)[d]) + f(C \ {d})[d]
  BY <1>3, <1>4
<1> QED
  BY <1>2, <1>5, <1>6, <1>7

LEMMA BytesTipo ==
  ASSUME NEW C
  PROVE  BytesDe(C) \in Nat
<1> DEFINE f == [e \in Documentos |-> IF e \in C THEN Bytes[e] ELSE 0]
<1>1. f \in [Documentos -> Nat]
  BY BytesAssumption
<1>2. Soma(f) \in Nat
  <2> HIDE DEF f
  <2> QED
    BY <1>1, UnidadesFinitas, DocumentosAssumption
<1> QED
  BY <1>2 DEF BytesDe

LEMMA BytesMonotona ==
  ASSUME NEW C, NEW D, C \subseteq D
  PROVE  BytesDe(C) <= BytesDe(D)
<1> DEFINE f(E) == [e \in Documentos |-> IF e \in E THEN Bytes[e] ELSE 0]
<1>1. \A E : f(E) \in [Documentos -> Nat]
  BY BytesAssumption
<1>2. \A e \in Documentos : f(C)[e] <= f(D)[e]
  BY BytesAssumption
<1>3. Soma(f(C)) <= Soma(f(D))
  <2> HIDE DEF f
  <2> QED
    BY <1>1, <1>2, SomaMonotona, DocumentosAssumption
<1> QED
  BY <1>3 DEF BytesDe

LEMMA Vezes ==
  ASSUME NEW n \in Nat, NEW v \in {0, 1}, NEW b \in Nat
  PROVE  /\ (IF n > v THEN (n - v) * b ELSE 0) \in Nat
         /\ (IF n + 1 > v THEN ((n + 1) - v) * b ELSE 0)
              = (IF n > v THEN (n - v) * b ELSE 0) + (IF n >= v THEN b ELSE 0)
<1>1. CASE n < v
  BY <1>1
<1>2. CASE n = v
  <2>1. (n + 1) - v = 1 /\ n + 1 > v /\ ~(n > v) /\ n >= v
    BY <1>2
  <2>2. 1 * b = b
    OBVIOUS
  <2> QED
    BY <2>1, <2>2
<1>3. CASE n > v
  <2> DEFINE k == n - v
  <2>1. k \in Nat /\ (n + 1) - v = k + 1 /\ n + 1 > v /\ n >= v
    BY <1>3
  <2>2. \A m \in Nat : m * b \in Nat /\ (m + 1) * b = m * b + b
    OBVIOUS
  <2>3. k * b \in Nat /\ (k + 1) * b = k * b + b
    BY <2>1, <2>2
  <2> QED
    BY <1>3, <2>1, <2>3
<1> QED
  BY <1>1, <1>2, <1>3

LEMMA AMaisMuda ==
  ASSUME libertacoes \in [Documentos -> Nat], NEW d \in Documentos, UNCHANGED repostos,
         libertacoes' = [libertacoes EXCEPT ![d] = @ + 1]
  PROVE  /\ aMais \in Nat
         /\ aMais' = aMais + (IF libertacoes[d] >= Devidas(d) THEN Bytes[d] ELSE 0)
<1> DEFINE vezes(n, e) == IF n > Devidas(e) THEN (n - Devidas(e)) * Bytes[e] ELSE 0
<1> DEFINE f == [e \in Documentos |-> vezes(libertacoes[e], e)]
<1> DEFINE g == [e \in Documentos |-> vezes(libertacoes'[e], e)]
<1>1. \A e \in Documentos : Bytes[e] \in Nat
  BY BytesAssumption
<1>2. ASSUME NEW n \in Nat, NEW e \in Documentos
      PROVE  /\ vezes(n, e) \in Nat
             /\ vezes(n + 1, e) = vezes(n, e) + (IF n >= Devidas(e) THEN Bytes[e] ELSE 0)
  <2>1. Bytes[e] \in Nat /\ Devidas(e) \in {0, 1}
    BY <1>1 DEF Devidas
  <2> QED
    BY <2>1, Vezes
<1>3. /\ \A e \in Documentos : libertacoes[e] \in Nat
      /\ \A e \in Documentos : libertacoes'[e] = IF e = d THEN libertacoes[e] + 1 ELSE libertacoes[e]
  OBVIOUS
<1> HIDE DEF vezes
<1>4. f \in [Documentos -> Nat] /\ g \in [Documentos -> Nat]
  BY <1>2, <1>3
<1>5. \A e \in Documentos : e # d => g[e] = f[e]
  BY <1>3
<1>6. f[d] \in Nat /\ g[d] = f[d] + (IF libertacoes[d] >= Devidas(d) THEN Bytes[d] ELSE 0)
  BY <1>2, <1>3
<1>7. aMais = Soma(f) /\ aMais' = Soma(g)
  <2>1. \A e : Devidas(e)' = Devidas(e)
    BY DEF Devidas
  <2> QED
    BY <2>1 DEF aMais, vezes, Soma
<1> HIDE DEF f, g
<1>8. /\ Soma(f) \in Nat /\ Soma(g) \in Nat
      /\ Soma(g) = (Soma(f) - f[d]) + g[d]
  BY <1>4, <1>5, SomaMuda, DocumentosAssumption
<1> QED
  BY <1>1, <1>6, <1>7, <1>8

LEMMA AMaisTipo ==
  ASSUME libertacoes \in [Documentos -> Nat]
  PROVE  aMais \in Nat
<1> DEFINE f == [e \in Documentos |->
                  IF libertacoes[e] > Devidas(e) THEN (libertacoes[e] - Devidas(e)) * Bytes[e]
                  ELSE 0]
<1>1. ASSUME NEW e \in Documentos PROVE f[e] \in Nat
  <2>1. libertacoes[e] \in Nat /\ Bytes[e] \in Nat /\ Devidas(e) \in {0, 1}
    BY BytesAssumption DEF Devidas
  <2>2. \A m, b \in Nat : m * b \in Nat
    OBVIOUS
  <2>3. libertacoes[e] > Devidas(e) => libertacoes[e] - Devidas(e) \in Nat
    BY <2>1
  <2> QED
    BY <2>1, <2>2, <2>3
<1>2. f \in [Documentos -> Nat]
  BY <1>1
<1>3. Soma(f) \in Nat
  <2> HIDE DEF f
  <2> QED
    BY <1>2, UnidadesFinitas, DocumentosAssumption
<1> QED
  BY <1>3 DEF aMais

LEMMA AMaisNulo ==
  ASSUME libertacoes \in [Documentos -> Nat], \A d \in Documentos : libertacoes[d] <= Devidas(d)
  PROVE  aMais = 0
<1> DEFINE f == [e \in Documentos |->
                  IF libertacoes[e] > Devidas(e) THEN (libertacoes[e] - Devidas(e)) * Bytes[e]
                  ELSE 0]
<1>1. \A e \in Documentos : f[e] = 0
  <2>1. ASSUME NEW e \in Documentos PROVE ~(libertacoes[e] > Devidas(e))
    <3>1. libertacoes[e] \in Nat /\ libertacoes[e] <= Devidas(e) /\ Devidas(e) \in {0, 1}
      BY DEF Devidas
    <3> QED
      BY <3>1
  <2> QED
    BY <2>1
<1>2. f \in [Documentos -> Nat]
  BY <1>1
<1> HIDE DEF f
<1>3. Soma(f) = 0
  BY <1>1, <1>2, SomaNula
<1> QED
  BY <1>3 DEF aMais, f

-----------------------------------------------------------------------------
(* What the counter counts: some set of documents, C, that has every row   *)
(* not given back yet and every document being created; whoever is in it   *)
(* is in the storage, or will be, or was lost; and the counter is its      *)
(* bytes, less those given back twice.  C is not a function of the state:  *)
(* of a row that could not be inserted the bytes may have been refunded or *)
(* not.                                                                    *)
Amparado(d) == \/ guardado[d] \/ d \in perdidas
               \/ \E p \in Pedidos, x \in {"put", "estornar", "libertar"} : Em(p, x, d)
Certo(C) ==
  /\ \A d \in Documentos \ repostos : vida[d] # "nenhuma" /\ libertacoes[d] = 0 => d \in C
  /\ \A p \in Pedidos, d \in Documentos, x \in Criando : Em(p, x, d) => d \in C
  /\ \A d \in C : Amparado(d)
Exacto(C) ==
  /\ plano # "semLinha" => BytesDe(C) <= storageUsado + aMais
  /\ (\A d \in Documentos : libertacoes[d] <= Devidas(d)) => storageUsado <= BytesDe(C)
Ocupado == \A p \in Pedidos : pedido[p] = Livre \/ \E d \in Documentos : pedido[p].d = {d}
Contas ==
  /\ Ocupado
  /\ plano = "semLinha" => storageUsado = 0
  /\ \A d \in Documentos : vida[d] # "apagada" => libertacoes[d] = 0
  /\ \E C \in SUBSET Documentos : Certo(C) /\ Exacto(C)

LEMMA OcupadoFica ==
  ASSUME TypeOK, Contas, NEW p \in Pedidos, NEW d \in Documentos,
         Acaba(p) \/ \E x \in Paragens : Passa(p, x, d)
  PROVE  Ocupado'
<1>1. \A q \in Pedidos : q # p => pedido'[q] = pedido[q]
  BY AcabaFaz, PassaFaz
<1>2. Acaba(p) => pedido'[p] = Livre
  BY DEF Acaba, TypeOK
<1>3. Acaba(p) \/ pedido'[p].d = {d}
  BY PassaFaz
<1> QED
  BY <1>1, <1>2, <1>3 DEF Contas, Ocupado

LEMMA ContasInicio == Init => Contas
<1> SUFFICES ASSUME Init PROVE Contas
  OBVIOUS
<1>1. \A p \in Pedidos, x \in Paragens, d \in Documentos : ~Em(p, x, d)
  BY DEF Init, Em, Livre
<1>2. Certo({})
  BY <1>1 DEF Init, Certo, Criando, Paragens
<1>3. BytesDe({}) = 0
  <2> DEFINE f == [d \in Documentos |-> IF d \in {} THEN Bytes[d] ELSE 0]
  <2>1. f \in [Documentos -> Nat] /\ \A e \in Documentos : f[e] = 0
    OBVIOUS
  <2>2. Soma(f) = 0
    <3> HIDE DEF f
    <3> QED
      BY <2>1, SomaNula
  <2> QED
    BY <2>2 DEF BytesDe
<1>4. aMais = 0
  BY AMaisNulo DEF Init, Devidas
<1>5. Exacto({})
  BY <1>3, <1>4 DEF Init, Exacto
<1> QED
  BY <1>2, <1>5 DEF Contas, Ocupado, Init

(* The refund of a document in C, or of one that had been given back.      *)
LEMMA DevolveExacto ==
  ASSUME TypeOK, Contas, NEW C \in SUBSET Documentos, Exacto(C), NEW d \in Documentos,
         storageUsado' = Tira(Bytes[d]), UNCHANGED <<plano, repostos>>,
         \/ libertacoes' = libertacoes /\ d \in C
         \/ /\ libertacoes' = [libertacoes EXCEPT ![d] = @ + 1]
            /\ libertacoes[d] < Devidas(d) => d \in C
  PROVE  Exacto(C \ {d})' /\ (plano = "semLinha" => storageUsado = 0)'
<1>0. libertacoes \in [Documentos -> Nat] /\ storageUsado \in Nat
  BY DEF TypeOK
<1> DEFINE menos == C \ {d}
<1>1. /\ BytesDe(C) \in Nat /\ Bytes[d] \in Nat /\ BytesDe(menos) \in Nat
      /\ d \in C => BytesDe(menos) = BytesDe(C) - Bytes[d]
      /\ d \notin C => BytesDe(menos) = BytesDe(C)
  BY BytesMuda
<1>2. /\ aMais \in Nat
      /\ libertacoes' = libertacoes => aMais' = aMais
      /\ libertacoes' # libertacoes =>
           aMais' = aMais + (IF libertacoes[d] >= Devidas(d) THEN Bytes[d] ELSE 0)
  <2>1. aMais \in Nat
    BY <1>0, AMaisTipo
  <2>2. libertacoes' = libertacoes => aMais' = aMais
    BY DEF aMais, Devidas, Soma
  <2> QED
    BY <1>0, <2>1, <2>2, AMaisMuda
<1>3. plano = "semLinha" => storageUsado = 0 /\ storageUsado' = 0
  BY DEF Contas, Tira
<1>4. storageUsado' \in Nat /\ storageUsado <= storageUsado' + Bytes[d]
  BY <1>0, <1>1 DEF Tira
<1>5. BytesDe(menos)' = BytesDe(menos)
  BY DEF BytesDe, Soma
<1>6. plano # "semLinha" => BytesDe(menos) <= storageUsado' + aMais'
  <2>1. plano # "semLinha" => BytesDe(C) <= storageUsado + aMais
    BY DEF Exacto
  <2>2. CASE d \in C
    <3>1. BytesDe(menos) = BytesDe(C) - Bytes[d] /\ aMais' \in Nat /\ aMais <= aMais'
      BY <1>1, <1>2, <2>2
    <3> QED
      BY <1>0, <1>1, <1>2, <1>4, <2>1, <3>1
  <2>3. CASE d \notin C
    <3>1. libertacoes[d] >= Devidas(d) /\ libertacoes' # libertacoes
      <4>1. /\ libertacoes[d] \in Nat /\ ~(libertacoes[d] < Devidas(d))
            /\ libertacoes'[d] = libertacoes[d] + 1 /\ Devidas(d) \in {0, 1}
        BY <1>0, <2>3 DEF Devidas
      <4> QED
        BY <4>1
    <3>2. aMais' = aMais + Bytes[d]
      BY <1>2, <3>1
    <3> QED
      BY <1>0, <1>1, <1>2, <1>4, <2>1, <2>3, <3>2
  <2> QED
    BY <2>2, <2>3
<1>8. \A e : Devidas(e)' = Devidas(e) /\ Devidas(e) \in {0, 1}
  BY DEF Devidas
<1>7. ASSUME \A e \in Documentos : libertacoes'[e] <= Devidas(e)
      PROVE  storageUsado' <= BytesDe(menos)
  <2>1. /\ \A e \in Documentos : libertacoes[e] <= Devidas(e)
        /\ d \in C
    <3>1. \A e \in Documentos : libertacoes[e] \in Nat /\ libertacoes'[e] \in {libertacoes[e], libertacoes[e] + 1}
      BY <1>0
    <3>2. \A e \in Documentos : libertacoes[e] <= Devidas(e)
      BY <1>7, <1>8, <3>1
    <3>3. CASE libertacoes' = [libertacoes EXCEPT ![d] = @ + 1]
      <4>1. libertacoes'[d] = libertacoes[d] + 1 /\ libertacoes[d] \in Nat /\ libertacoes'[d] <= Devidas(d)
        BY <1>0, <1>7, <3>3
      <4>2. libertacoes[d] < Devidas(d) /\ libertacoes' # libertacoes
        BY <1>8, <4>1
      <4> QED
        BY <3>2, <4>2
    <3> QED
      BY <3>2, <3>3
  <2>2. aMais = 0
    BY <1>0, <2>1, AMaisNulo
  <2>3. storageUsado <= BytesDe(C) /\ (plano # "semLinha" => BytesDe(C) <= storageUsado)
    BY <1>0, <1>1, <2>1, <2>2 DEF Exacto
  <2>4. BytesDe(menos) = BytesDe(C) - Bytes[d]
    BY <1>1, <2>1
  <2> QED
    BY <1>0, <1>1, <1>3, <2>3, <2>4 DEF Tira
<1> QED
  BY <1>3, <1>5, <1>6, <1>7, <1>8 DEF Exacto

(* A step that changes no counter, of a request with document d: what has  *)
(* to be in C is in it, and who is in it is still there.                   *)
LEMMA ContasFica ==
  ASSUME TypeOK, Contas, NEW p \in Pedidos, NEW d \in Documentos,
         Acaba(p) \/ \E x \in Paragens : Passa(p, x, d),
         pedido[p].d \subseteq {d},
         UNCHANGED quota, UNCHANGED repostos,
         \A e \in Documentos : e # d =>
           /\ vida'[e] = vida[e] /\ guardado'[e] = guardado[e]
           /\ e \in perdidas => e \in perdidas',
         /\ vida'[d] # "nenhuma" => vida[d] # "nenhuma" \/ Em(p, "inserir", d)
         /\ vida'[d] # "apagada" => vida[d] # "apagada"
         /\ \A x \in Criando : Em(p, x, d)' => \E y \in Criando : Em(p, y, d)
         /\ guardado[d] => guardado'[d] \/ Em(p, "libertar", d)'
         /\ d \in perdidas => d \in perdidas'
         /\ \A x \in {"put", "estornar", "libertar"} :
              Em(p, x, d) => guardado'[d] \/ d \in perdidas' \/ Em(p, "estornar", d)'
  PROVE  Contas'
<1>1. PICK C \in SUBSET Documentos : Certo(C) /\ Exacto(C)
  BY DEF Contas
<1>2. /\ \A q \in Pedidos : q # p => pedido'[q] = pedido[q]
      /\ \A x \in Paragens, e \in Documentos : Em(p, x, e)' => e = d
  BY AcabaFaz, PassaFaz
<1>3. \A x \in Paragens, e \in Documentos : Em(p, x, e) => e = d
  <2>1. ASSUME NEW x, NEW e, Em(p, x, e) PROVE e \in {d}
    <3>1. pedido[p].d = {e}
      BY <2>1 DEF Em
    <3> QED
      BY <3>1
  <2> QED
    BY <2>1
<1>4. \A q \in Pedidos : \A x, e : q # p => (Em(q, x, e)' <=> Em(q, x, e))
  BY <1>2 DEF Em
<1>5. UNCHANGED <<plano, storageUsado, libertacoes>>
  BY DEF quota
<1>6. Exacto(C)'
  <2>1. BytesDe(C)' = BytesDe(C) /\ aMais' = aMais /\ \A e : Devidas(e)' = Devidas(e)
    BY <1>5 DEF BytesDe, aMais, Soma, Devidas
  <2> QED
    BY <1>1, <1>5, <2>1 DEF Exacto
<1>7. ASSUME NEW e \in Documentos \ repostos, vida'[e] # "nenhuma", libertacoes'[e] = 0
      PROVE  e \in C
  BY <1>1, <1>5, <1>7 DEF Certo, Criando
<1>8. ASSUME NEW q \in Pedidos, NEW e \in Documentos, NEW x \in Criando, Em(q, x, e)'
      PROVE  e \in C
  <2>1. CASE q = p
    BY <1>1, <1>2, <1>8, <2>1 DEF Certo, Criando, Paragens
  <2>2. CASE q # p
    BY <1>1, <1>4, <1>8, <2>2 DEF Certo
  <2> QED
    BY <2>1, <2>2
<1>9. ASSUME NEW e \in C
      PROVE  Amparado(e)'
  <2>1. Amparado(e)
    BY <1>1 DEF Certo
  <2>2. CASE e # d
    <3>1. guardado'[e] = guardado[e] /\ (e \in perdidas => e \in perdidas')
      BY <2>2
    <3>2. \A q \in Pedidos, x \in {"put", "estornar", "libertar"} : Em(q, x, e) => Em(q, x, e)'
      BY <1>3, <1>4, <2>2 DEF Paragens
    <3> QED
      BY <2>1, <3>1, <3>2 DEF Amparado
  <2>3. CASE e = d
    <3>1. CASE guardado[d] \/ d \in perdidas
      BY <2>3, <3>1 DEF Amparado
    <3>2. ASSUME NEW q \in Pedidos, NEW x \in {"put", "estornar", "libertar"}, Em(q, x, d)
          PROVE  Amparado(d)'
      <4>1. CASE q = p
        BY <3>2, <4>1 DEF Amparado
      <4>2. CASE q # p
        BY <1>4, <3>2, <4>2 DEF Amparado
      <4> QED
        BY <4>1, <4>2
    <3> QED
      BY <2>1, <2>3, <3>1, <3>2 DEF Amparado
  <2> QED
    BY <2>2, <2>3
<1>10. \A e \in Documentos : vida'[e] # "apagada" => libertacoes'[e] = 0
  BY <1>5 DEF Contas
<1>11. Ocupado'
  BY OcupadoFica
<1> QED
  BY <1>1, <1>5, <1>6, <1>7, <1>8, <1>9, <1>10, <1>11 DEF Contas, Certo

(* A request that gives back the bytes of d: nobody is creating d any more.*)
LEMMA ContasDevolve ==
  ASSUME TypeOK, Contas, NEW p \in Pedidos, NEW d \in Documentos,
         Acaba(p), Em(p, "estornar", d) \/ Em(p, "libertar", d),
         storageUsado' = Tira(Bytes[d]), UNCHANGED <<plano, vida, guardado, perdidas, repostos>>,
         \A q \in Pedidos, x \in Criando : q # p => ~Em(q, x, d),
         \/ /\ libertacoes' = libertacoes /\ vida[d] = "nenhuma"
            /\ Em(p, "estornar", d)
         \/ /\ libertacoes' = [libertacoes EXCEPT ![d] = @ + 1]
            /\ vida[d] = "apagada"
  PROVE  Contas'
<1>1. PICK C \in SUBSET Documentos : Certo(C) /\ Exacto(C)
  BY DEF Contas
<1>2. libertacoes \in [Documentos -> Nat]
  BY DEF TypeOK
<1>3. Exacto(C \ {d})' /\ (plano = "semLinha" => storageUsado = 0)'
  <2>1. \/ libertacoes' = libertacoes /\ d \in C
        \/ /\ libertacoes' = [libertacoes EXCEPT ![d] = @ + 1]
           /\ libertacoes[d] < Devidas(d) => d \in C
    BY <1>1, <1>2 DEF Certo, Criando, Devidas
  <2> QED
    BY <1>1, <2>1, DevolveExacto
<1>4. /\ \A q \in Pedidos : q # p => pedido'[q] = pedido[q]
      /\ \A x \in Paragens, e \in Documentos : ~Em(p, x, e)'
  BY AcabaFaz
<1>5. \A q \in Pedidos : \A x, e : q # p => (Em(q, x, e)' <=> Em(q, x, e))
  BY <1>4 DEF Em
<1>6. \A x, e : Em(p, x, e) => e = d
  <2>1. ASSUME NEW x, NEW e, Em(p, x, e) PROVE e \in {d}
    <3>1. pedido[p].d = {e} /\ pedido[p].d = {d}
      BY <2>1 DEF Em
    <3> QED
      BY <3>1
  <2> QED
    BY <2>1
<1>7. ASSUME NEW e \in Documentos
      PROVE  /\ libertacoes'[e] = 0 => libertacoes[e] = 0 /\ (e = d => vida[d] = "nenhuma")
             /\ e # d => libertacoes'[e] = libertacoes[e]
             /\ e = d /\ vida[d] # "apagada" => libertacoes'[e] = libertacoes[e]
  <2>1. libertacoes[e] \in Nat
    BY <1>2
  <2>2. libertacoes' = libertacoes => vida[d] = "nenhuma"
    <3>1. ASSUME libertacoes' = [libertacoes EXCEPT ![d] = @ + 1]
          PROVE  libertacoes' # libertacoes
      <4>1. libertacoes'[d] = libertacoes[d] + 1 /\ libertacoes[d] \in Nat
        BY <1>2, <3>1
      <4> QED
        BY <4>1
    <3> QED
      BY <3>1
  <2>3. CASE libertacoes' = libertacoes
    BY <2>2, <2>3
  <2>4. CASE libertacoes' = [libertacoes EXCEPT ![d] = @ + 1] /\ vida[d] = "apagada"
    <3>1. libertacoes'[e] = IF e = d THEN libertacoes[e] + 1 ELSE libertacoes[e]
      BY <1>2, <2>4
    <3> QED
      BY <2>1, <2>4, <3>1
  <2> QED
    BY <2>3, <2>4
<1>8. ASSUME NEW e \in Documentos \ repostos, vida'[e] # "nenhuma", libertacoes'[e] = 0
      PROVE  e \in C \ {d}
  BY <1>1, <1>7, <1>8 DEF Certo
<1>9. ASSUME NEW q \in Pedidos, NEW e \in Documentos, NEW x \in Criando, Em(q, x, e)'
      PROVE  e \in C \ {d}
  <2>1. q # p
    BY <1>4, <1>9 DEF Criando, Paragens
  <2>2. Em(q, x, e) /\ e # d
    BY <1>5, <1>9, <2>1
  <2> QED
    BY <1>1, <2>2 DEF Certo
<1>10. ASSUME NEW e \in C \ {d}
       PROVE  Amparado(e)'
  <2>1. Amparado(e)
    BY <1>1 DEF Certo
  <2>2. \A q \in Pedidos : \A x : Em(q, x, e) => Em(q, x, e)'
    BY <1>5, <1>6
  <2> QED
    BY <2>1, <2>2 DEF Amparado
<1>11. \A e \in Documentos : vida'[e] # "apagada" => libertacoes'[e] = 0
  BY <1>7 DEF Contas
<1>12. Certo(C \ {d})'
  BY <1>8, <1>9, <1>10 DEF Certo
<1>13. Ocupado'
  BY OcupadoFica
<1> QED
  BY <1>1, <1>3, <1>11, <1>12, <1>13 DEF Contas

LEMMA ContasReserva ==
  ASSUME TypeOK, Contas, NEW p \in Pedidos, NEW d \in Documentos, Reservar(p, d),
         UNCHANGED repostos
  PROVE  Contas'
<1>1. PICK C \in SUBSET Documentos : Certo(C) /\ Exacto(C)
  BY DEF Contas
<1>2. /\ vida[d] = "nenhuma" /\ ~guardado[d] /\ d \notin perdidas
      /\ \A q \in Pedidos : pedido[q].d # {d}
      /\ Passa(p, "put", d) /\ pedido[p] = Livre
      /\ UNCHANGED <<plano, vida, guardado, libertacoes, perdidas>>
      /\ \/ plano # "semLinha" /\ storageUsado' = storageUsado + Bytes[d]
         \/ plano = "semLinha" /\ storageUsado' = storageUsado
  BY DEF Reservar, Novo, CabeBytes
<1>3. \A q \in Pedidos : \A x : ~Em(q, x, d)
  BY <1>2 DEF Em
<1>4. d \notin C
  BY <1>1, <1>2, <1>3 DEF Certo, Amparado
<1>5. /\ BytesDe(C) \in Nat /\ Bytes[d] \in Nat
      /\ BytesDe(C \cup {d}) = BytesDe(C) + Bytes[d]
  BY <1>4, BytesMuda
<1>6. /\ \A y \in Paragens, e \in Documentos : Em(p, y, e)' <=> y = "put" /\ e = d
      /\ \A q \in Pedidos : q # p => pedido'[q] = pedido[q]
  BY <1>2, PassaFaz DEF Paragens
<1>7. /\ \A q \in Pedidos : \A x, e : q # p => (Em(q, x, e)' <=> Em(q, x, e))
      /\ \A x, e : ~Em(p, x, e)
  BY <1>2, <1>6 DEF Em, Livre
<1>8. Certo(C \cup {d})'
  <2>1. \A e \in Documentos \ repostos :
          vida'[e] # "nenhuma" /\ libertacoes'[e] = 0 => e \in C \cup {d}
    BY <1>1, <1>2 DEF Certo
  <2>2. ASSUME NEW q \in Pedidos, NEW e \in Documentos, NEW x \in Criando, Em(q, x, e)'
        PROVE  e \in C \cup {d}
    <3>1. CASE q = p
      BY <1>6, <2>2, <3>1 DEF Criando, Paragens
    <3>2. CASE q # p
      BY <1>1, <1>7, <2>2, <3>2 DEF Certo
    <3> QED
      BY <3>1, <3>2
  <2>3. Amparado(d)'
    BY <1>6 DEF Amparado, Paragens
  <2>4. ASSUME NEW e \in C
        PROVE  Amparado(e)'
    <3>1. Amparado(e)
      BY <1>1 DEF Certo
    <3>2. \A q \in Pedidos : \A x : Em(q, x, e) => Em(q, x, e)'
      BY <1>7
    <3> QED
      BY <1>2, <3>1, <3>2 DEF Amparado
  <2> QED
    BY <2>1, <2>2, <2>3, <2>4 DEF Certo
<1>9. Exacto(C \cup {d})'
  <2>1. aMais \in Nat
    BY AMaisTipo DEF TypeOK
  <2>2. /\ BytesDe(C \cup {d})' = BytesDe(C \cup {d}) /\ aMais' = aMais
        /\ \A e : Devidas(e)' = Devidas(e)
    BY <1>2 DEF BytesDe, aMais, Soma, Devidas
  <2>3. storageUsado \in Nat /\ (plano = "semLinha" => storageUsado = 0)
    BY DEF TypeOK, Contas
  <2> QED
    BY <1>1, <1>2, <1>5, <2>1, <2>2, <2>3 DEF Exacto
<1>10. C \cup {d} \in SUBSET Documentos
  OBVIOUS
<1>11. /\ (plano = "semLinha" => storageUsado = 0)'
       /\ \A e \in Documentos : vida'[e] # "apagada" => libertacoes'[e] = 0
  BY <1>2 DEF Contas
<1>12. Ocupado'
  BY <1>2, OcupadoFica DEF Paragens
<1> QED
  BY <1>8, <1>9, <1>10, <1>11, <1>12 DEF Contas

(* A restored row is counted by nobody: it has taken no bytes.             *)
LEMMA ContasRestaura ==
  ASSUME TypeOK, Contas, NEW d \in Documentos, Restaurar(d)
  PROVE  Contas'
<1>1. PICK C \in SUBSET Documentos : Certo(C) /\ Exacto(C)
  BY DEF Contas
<1>2. /\ vida[d] = "nenhuma" /\ ~guardado[d] /\ d \notin perdidas
      /\ \A q \in Pedidos : pedido[q].d # {d}
      /\ UNCHANGED <<plano, storageUsado, libertacoes, pedido, perdidas>>
      /\ repostos' = repostos \cup {d}
      /\ \A e \in Documentos : e # d => vida'[e] = vida[e] /\ guardado'[e] = guardado[e]
  BY DEF Restaurar, Novo, quota, TypeOK
<1>3. \A q \in Pedidos : \A x, e : (Em(q, x, e)' <=> Em(q, x, e)) /\ ~Em(q, x, d)
  BY <1>2 DEF Em
<1>4. d \notin C
  BY <1>1, <1>2, <1>3 DEF Certo, Amparado
<1>5. libertacoes[d] = 0 /\ libertacoes \in [Documentos -> Nat]
  BY <1>2 DEF Contas, TypeOK
<1>6. \A e \in Documentos : /\ Devidas(e)' <= Devidas(e) /\ Devidas(e) \in {0, 1}
                           /\ Devidas(e)' \in {0, 1} /\ (e # d => Devidas(e)' = Devidas(e))
  BY <1>2 DEF Devidas
<1>7. aMais' = aMais
  <2> DEFINE f(v, e) == IF libertacoes[e] > v THEN (libertacoes[e] - v) * Bytes[e] ELSE 0
  <2> DEFINE antes == [e \in Documentos |-> f(Devidas(e), e)]
  <2> DEFINE depois == [e \in Documentos |->
                         IF libertacoes'[e] > Devidas(e)' THEN (libertacoes'[e] - Devidas(e)') * Bytes[e]
                         ELSE 0]
  <2>1. ASSUME NEW e \in Documentos
        PROVE  f(Devidas(e)', e) = f(Devidas(e), e)
    <3>1. CASE e = d
      BY <1>5, <1>6, <3>1
    <3>2. CASE e # d
      BY <1>6, <3>2
    <3> QED
      BY <3>1, <3>2
  <2>2. depois = [e \in Documentos |-> f(Devidas(e)', e)]
    BY <1>2
  <2>3. depois = antes
    BY <2>1, <2>2
  <2>4. aMais = Soma(antes) /\ aMais' = Soma(depois)
    BY DEF aMais, Soma
  <2> QED
    BY <2>3, <2>4
<1>8. Exacto(C)'
  <2>1. BytesDe(C)' = BytesDe(C)
    BY DEF BytesDe, Soma
  <2>2. (\A e \in Documentos : libertacoes'[e] <= Devidas(e)') =>
          \A e \in Documentos : libertacoes[e] <= Devidas(e)
    BY <1>2, <1>5, <1>6
  <2> QED
    BY <1>1, <1>2, <1>7, <2>1, <2>2 DEF Exacto
<1>9. Certo(C)'
  <2>1. \A e \in C : e # d /\ Amparado(e)
    BY <1>1, <1>4 DEF Certo
  <2>2. \A e \in C : Amparado(e)'
    BY <1>2, <1>3, <2>1 DEF Amparado
  <2> QED
    BY <1>1, <1>2, <1>3, <2>2 DEF Certo, Criando
<1>10. \A e \in Documentos : vida'[e] # "apagada" => libertacoes'[e] = 0
  BY <1>2, <1>5 DEF Contas
<1> QED
  BY <1>2, <1>8, <1>9, <1>10 DEF Contas, Ocupado

LEMMA ContasServir ==
  ASSUME TypeOK, Intacta, Contas, UNCHANGED <<repostos, vazios>>, NEW z \in Pedidos, Servir(z)
  PROVE  Contas'
<1>0. \A p \in Pedidos, d \in Documentos : Boa(p, d)
  BY DEF Intacta
<1>1. ASSUME NEW p, NEW x, NEW d, Em(p, x, d)
      PROVE  /\ pedido[p].d = {d}
             /\ \A y : Em(p, y, d) => y = x
  BY <1>1 DEF Em
<1>3. /\ \A S : {} \subseteq S
      /\ \A p, e : pedido[p] = Livre => pedido[p].d \subseteq {e}
  BY DEF Livre
(* What a request at statement x with document d does to the rows, when it *)
(* leaves the counters alone.                                              *)
<1>4. ASSUME NEW p \in Pedidos, NEW d \in Documentos,
             LerRemover(p, d) \/ VerDocumento(p, d)
      PROVE  Contas'
  <2>1. /\ pedido[p] = Livre /\ UNCHANGED <<quota, vida, guardado, perdidas>>
        /\ Passa(p, "marcar", d) \/ Passa(p, "anexar", d)
        /\ \A x : ~Em(p, x, d)
    BY <1>4 DEF LerRemover, VerDocumento, Em, Livre
  <2>2. \A x \in Criando \cup {"libertar"} : ~Em(p, x, d)'
    BY <2>1, PassaFaz DEF Criando, Paragens
  <2>3. pedido[p].d \subseteq {d}
    BY <1>3, <2>1
  <2> QED
    BY <2>1, <2>2, <2>3, ContasFica DEF Paragens
<1>5. ASSUME NEW p \in Pedidos, NEW d \in Documentos, NEW x \in {"marcar", "contar", "apagar", "anexar"},
             Em(p, x, d), UNCHANGED <<quota, perdidas>>,
             \A e \in Documentos : e # d => vida'[e] = vida[e] /\ guardado'[e] = guardado[e],
             vida'[d] \in {vida[d], "apagada"},
             Acaba(p) \/ \E y \in {"contar", "apagar", "libertar"} : Passa(p, y, d),
             guardado[d] => guardado'[d] \/ Em(p, "libertar", d)'
      PROVE  Contas'
  <2>1. vida[d] # "nenhuma"
    BY <1>0, <1>5 DEF Boa
  <2>2. \A y \in Criando \cup {"libertar"} : ~Em(p, y, d)
    BY <1>1, <1>5 DEF Criando
  <2>3. \A y \in Criando : ~Em(p, y, d)'
    BY <1>5, PassaFaz, AcabaFaz DEF Criando, Paragens
  <2>4. pedido[p].d \subseteq {d}
    BY <1>1, <1>5
  <2>5. Acaba(p) \/ \E y \in Paragens : Passa(p, y, d)
    BY <1>5 DEF Paragens
  <2> QED
    BY <1>5, <2>1, <2>2, <2>3, <2>4, <2>5, ContasFica DEF Criando
<1>6. ASSUME NEW p \in Pedidos, NEW d \in Documentos, Put(p, d)
      PROVE  Contas'
  <2>1. Em(p, "put", d) /\ UNCHANGED <<quota, vida, perdidas>> /\ pedido[p].d \subseteq {d}
    BY <1>1, <1>6 DEF Put
  <2>2. guardado \in [Documentos -> BOOLEAN]
    BY DEF TypeOK
  <2>3. CASE guardado' = [guardado EXCEPT ![d] = TRUE] /\ Passa(p, "inserir", d)
    <3>1. guardado'[d] /\ \A e \in Documentos : e # d => guardado'[e] = guardado[e]
      BY <2>2, <2>3
    <3> QED
      BY <2>1, <2>3, <3>1, ContasFica DEF Paragens, Criando
  <2>4. CASE guardado' = guardado /\ Passa(p, "estornar", d)
    <3>1. Em(p, "estornar", d)'
      BY <2>4, PassaFaz DEF Paragens
    <3> QED
      BY <2>1, <2>4, <3>1, ContasFica DEF Paragens, Criando
  <2> QED
    BY <1>6, <2>3, <2>4 DEF Put
<1>7. ASSUME NEW p \in Pedidos, NEW d \in Documentos, Inserir(p, d)
      PROVE  Contas'
  <2>1. /\ Em(p, "inserir", d) /\ UNCHANGED <<quota, guardado, perdidas>>
        /\ pedido[p].d \subseteq {d} /\ vida[d] = "nenhuma"
        /\ \A x \in {"put", "estornar", "libertar"} : ~Em(p, x, d)
    BY <1>0, <1>1, <1>7 DEF Inserir, Boa, Criando
  <2>2. CASE vida' = [vida EXCEPT ![d] = "viva"] /\ Acaba(p)
    <3>1. vida'[d] = "viva" /\ \A e \in Documentos : e # d => vida'[e] = vida[e]
      BY <2>2 DEF TypeOK
    <3> QED
      BY <2>1, <2>2, <3>1, ContasFica DEF Criando
  <2>3. CASE vida' = vida /\ Passa(p, "estornar", d)
    BY <2>1, <2>3, ContasFica DEF Paragens, Criando
  <2> QED
    BY <1>7, <2>2, <2>3 DEF Inserir
(* A request that stops, and the document it leaves behind.                *)
<1>8. ASSUME NEW p \in Pedidos, NEW d \in Documentos, Acaba(p), pedido[p].d \subseteq {d},
             UNCHANGED <<quota, vida, guardado>>, perdidas \subseteq perdidas',
             \A x \in {"put", "estornar", "libertar"} : Em(p, x, d) => d \in perdidas'
      PROVE  Contas'
  <2>1. \A x \in Criando : ~Em(p, x, d)'
    BY <1>8, AcabaFaz DEF Criando, Paragens
  <2> QED
    BY <1>8, <2>1, ContasFica
<1>9. ASSUME NEW p \in Pedidos, NEW d \in Documentos, Estornar(p, d)
      PROVE  Contas'
  <2>1. /\ Em(p, "estornar", d) /\ Acaba(p) /\ pedido[p].d \subseteq {d}
        /\ UNCHANGED <<plano, vida, guardado, libertacoes>>
        /\ vida[d] = "nenhuma" /\ \A q \in Pedidos : q # p => pedido[q].d # {d}
    BY <1>0, <1>1, <1>9 DEF Estornar, Boa, Criando
  <2>2. CASE storageUsado' = Tira(Bytes[d]) /\ perdidas' = perdidas
    <3>1. \A q \in Pedidos, x \in Criando : q # p => ~Em(q, x, d)
      BY <1>1, <2>1
    <3> QED
      BY <2>1, <2>2, <3>1, ContasDevolve
  <2>3. CASE storageUsado' = storageUsado /\ perdidas' = perdidas \cup {d}
    BY <1>8, <2>1, <2>3 DEF quota
  <2> QED
    BY <1>9, <2>2, <2>3 DEF Estornar, Estorna
<1>10. ASSUME NEW p \in Pedidos, NEW d \in Documentos, Libertar(p, d)
       PROVE  Contas'
  <2>1. /\ Em(p, "libertar", d) /\ Acaba(p) /\ pedido[p].d \subseteq {d}
        /\ UNCHANGED <<plano, vida, guardado>> /\ vida[d] = "apagada"
    BY <1>0, <1>1, <1>10 DEF Libertar, Boa
  <2>2. CASE /\ storageUsado' = Tira(Bytes[d]) /\ perdidas' = perdidas
             /\ libertacoes' = [libertacoes EXCEPT ![d] = @ + 1]
    <3>1. \A q \in Pedidos, x \in Criando : ~Em(q, x, d)
      BY <1>0, <2>1 DEF Boa
    <3> QED
      BY <2>1, <2>2, <3>1, ContasDevolve
  <2>3. CASE UNCHANGED <<storageUsado, libertacoes>> /\ perdidas' = perdidas \cup {d}
    BY <1>8, <2>1, <2>3 DEF quota
  <2> QED
    BY <1>10, <2>2, <2>3 DEF Libertar
<1>11. ASSUME NEW p \in Pedidos, Queda(p)
       PROVE  Contas'
  <2>1. /\ Acaba(p) /\ UNCHANGED <<quota, vida, guardado>> /\ perdidas \subseteq perdidas'
        /\ pedido[p].pc \in {"put", "estornar", "libertar"} => pedido[p].d \subseteq perdidas'
    BY <1>11 DEF Queda
  <2>2. PICK d \in Documentos : pedido[p].d = {d}
    BY <1>11 DEF Queda, Contas, Ocupado
  <2>3. \A x : Em(p, x, d) => pedido[p].pc = x
    BY DEF Em
  <2>4. \A x \in {"put", "estornar", "libertar"} : Em(p, x, d) => d \in perdidas'
    BY <2>1, <2>2, <2>3
  <2> QED
    BY <1>8, <2>1, <2>2, <2>4
<1>12. ASSUME NEW p \in Pedidos, NEW d \in Documentos, Marcar(p, d)
       PROVE  Contas'
  BY <1>5, <1>12 DEF Marcar, TypeOK
<1>13. ASSUME NEW p \in Pedidos, NEW d \in Documentos, ContarProvas(p, d)
       PROVE  Contas'
  BY <1>5, <1>13 DEF ContarProvas
<1>14. ASSUME NEW p \in Pedidos, NEW d \in Documentos, Apagar(p, d)
       PROVE  Contas'
  <2>1. CASE guardado' = [guardado EXCEPT ![d] = FALSE] /\ Passa(p, "libertar", d)
    <3>1. \A e \in Documentos : e # d => guardado'[e] = guardado[e]
      BY <2>1 DEF TypeOK
    <3>2. Em(p, "libertar", d)'
      BY <2>1, PassaFaz DEF Paragens
    <3> QED
      BY <1>5, <1>14, <2>1, <3>1, <3>2 DEF Apagar
  <2>2. CASE guardado' = guardado /\ Acaba(p)
    BY <1>5, <1>14, <2>2 DEF Apagar
  <2> QED
    BY <1>14, <2>1, <2>2 DEF Apagar
<1>15. ASSUME NEW p \in Pedidos, NEW d \in Documentos, Anexar(p, d)
       PROVE  Contas'
  BY <1>5, <1>15 DEF Anexar
<1> QED
  BY <1>4, <1>6, <1>7, <1>9, <1>10, <1>11, <1>12, <1>13, <1>14, <1>15, ContasReserva
  DEF Servir

LEMMA ContasPasso == TypeOK /\ Intacta /\ Contas /\ [Next]_vars => Contas'
<1> SUFFICES ASSUME TypeOK, Intacta, Contas, [Next]_vars PROVE Contas'
  OBVIOUS
<1>1. CASE UNCHANGED vars
  <2>1. UNCHANGED <<plano, storageUsado, vida, guardado, pedido, libertacoes, perdidas, repostos>>
    BY <1>1 DEF vars
  <2>2. \A C \in SUBSET Documentos : Certo(C)' <=> Certo(C)
    BY <2>1 DEF Certo, Amparado, Em
  <2>3. \A C \in SUBSET Documentos : Exacto(C)' <=> Exacto(C)
    <3>1. aMais' = aMais /\ \A C : BytesDe(C)' = BytesDe(C) /\ Devidas(C)' = Devidas(C)
      BY <2>1 DEF aMais, BytesDe, Soma, Devidas
    <3> QED
      BY <2>1, <3>1 DEF Exacto
  <2> QED
    BY <2>1, <2>2, <2>3 DEF Contas, Ocupado
<1> QED
  BY <1>1, ContasRestaura, ContasServir DEF Next

LEMMA Conservado == Spec => [](Tipos /\ Intacta /\ Contas)
<1>1. Init => Tipos /\ Intacta /\ Contas
  BY TiposInicio, IntactaInicio, ContasInicio
<1>2. Tipos /\ Intacta /\ Contas /\ [Next]_vars => (Tipos /\ Intacta /\ Contas)'
  BY TiposPasso, IntactaPasso, ContasPasso DEF Tipos
<1> QED
  BY <1>1, <1>2, PTL DEF Spec

(* The counter stays within the plan and covers the documents in the       *)
(* lists that took their bytes, but for what was given back more often     *)
(* than taken: those documents are some of the ones counted.               *)
THEOREM PlanoRespeitadoCorrect == Spec => []PlanoRespeitado
<1>1. TypeOK /\ NoLimite /\ Contas => PlanoRespeitado
  <2> SUFFICES ASSUME TypeOK, NoLimite, Contas, plano # "semLinha"
               PROVE  BytesDe({d \in Documentos \ repostos : vida[d] = "viva"})
                        <= storageUsado + aMais
    BY DEF PlanoRespeitado, NoLimite
  <2> DEFINE vivas == {d \in Documentos \ repostos : vida[d] = "viva"}
  <2>1. PICK C \in SUBSET Documentos : Certo(C) /\ Exacto(C)
    BY DEF Contas
  <2>2. vivas \subseteq C
    BY <2>1 DEF Contas, Certo
  <2>3. BytesDe(vivas) <= BytesDe(C) /\ BytesDe(C) <= storageUsado + aMais
    BY <2>1, <2>2, BytesMonotona DEF Exacto
  <2>4. BytesDe(vivas) \in Nat /\ BytesDe(C) \in Nat /\ storageUsado \in Nat /\ aMais \in Nat
    BY BytesTipo, AMaisTipo DEF TypeOK
  <2> HIDE DEF vivas
  <2>5. BytesDe(vivas) <= storageUsado + aMais
    BY <2>3, <2>4
  <2> QED
    BY <2>5 DEF vivas
<1> QED
  BY Conservado, <1>1, PTL DEF Tipos

(* With no request under way and no bytes given back that were not taken,  *)
(* whatever is counted is in the storage, or of a document whose request   *)
(* died or whose refund failed.                                            *)
THEOREM SemFugaCorrect == Spec => []SemFuga
<1>1. TypeOK /\ Contas => SemFuga
  <2> SUFFICES ASSUME TypeOK, Contas, \A d \in Documentos : libertacoes[d] <= Devidas(d),
                      \A p \in Pedidos : pedido[p] = Livre
               PROVE  storageUsado <= BytesDe({d \in Documentos : guardado[d]} \cup perdidas)
    BY DEF SemFuga
  <2> DEFINE la == {d \in Documentos : guardado[d]} \cup perdidas
  <2>1. PICK C \in SUBSET Documentos : Certo(C) /\ Exacto(C)
    BY DEF Contas
  <2>2. \A p \in Pedidos, x \in {"put", "estornar", "libertar"}, d \in Documentos : ~Em(p, x, d)
    BY DEF Em, Livre
  <2>3. C \subseteq la /\ la \in SUBSET Documentos
    BY <2>1, <2>2 DEF Certo, Amparado, TypeOK
  <2>4. storageUsado <= BytesDe(C) /\ BytesDe(C) <= BytesDe(la)
    BY <2>1, <2>3, BytesMonotona DEF Exacto
  <2>5. BytesDe(C) \in Nat /\ BytesDe(la) \in Nat /\ storageUsado \in Nat
    BY <2>3, BytesTipo DEF TypeOK
  <2> HIDE DEF la
  <2>6. storageUsado <= BytesDe(la)
    BY <2>4, <2>5
  <2> QED
    BY <2>6 DEF la
<1> QED
  BY Conservado, <1>1, PTL DEF Tipos
=============================================================================
