--------------------------- MODULE Versoes_proofs ---------------------------
(***************************************************************************)
(* Proofs about Versoes for any collaborators, requests, bodies, path of   *)
(* the contract and number of versions.                                    *)
(***************************************************************************)
EXTENDS Versoes, FiniteSetTheorems, TLAPS

PedidoTipo == [pc : Paragens, v : 0..(MaxVersoes + 1), hash : Corpos \cup {0},
               k : SUBSET Colaboradores, lido : EstadoLink]

LEMMA LivreTipo == Livre \in PedidoTipo /\ Livre.pc = "livre"
BY VersoesAssumption DEF Livre, PedidoTipo, Paragens, EstadoLink

(* A request that only moves to its next statement keeps what it read.     *)
LEMMA SegueTipo ==
  ASSUME NEW r \in PedidoTipo, NEW x \in Paragens
  PROVE  LET s == [r EXCEPT !.pc = x] IN
         /\ s \in PedidoTipo
         /\ s.pc = x /\ s.v = r.v /\ s.hash = r.hash /\ s.k = r.k /\ s.lido = r.lido
BY DEF PedidoTipo

(* The other requests are where they were.                                 *)
LEMMA PassaTipo ==
  ASSUME NEW p \in Pedidos, NEW r \in PedidoTipo, Passa(p, r),
         pedido \in [Pedidos -> PedidoTipo]
  PROVE  /\ pedido' \in [Pedidos -> PedidoTipo]
         /\ pedido'[p] = r
         /\ \A q \in Pedidos : q # p => pedido'[q] = pedido[q]
BY DEF Passa

(* The last order is the one that exists and that none exceeds.            *)
LEMMA UltimaE ==
  ASSUME NEW n \in Ordens, Existe(n), \A u \in Ordens : Existe(u) => u <= n
  PROVE  ultima = n
<1>1. \A v \in Ordens : (Existe(v) /\ \A u \in Ordens : Existe(u) => u <= v) => v = n
  BY DEF Ordens
<1> QED
  BY <1>1 DEF ultima

-----------------------------------------------------------------------------
(* What a request has read: a body that is one, a version that exists.     *)
Assinando == {"verFase", "verRecente", "verAssinou", "assinar"}
Lidos ==
  \A p \in Pedidos :
    /\ pedido[p].pc \in {"criar", "lerVersao", "editar"} => pedido[p].hash \in Corpos
    /\ pedido[p].pc \in {"lerVersao", "editar"} =>
         pedido[p].v \in Ordens /\ corpo[pedido[p].v] # 0
    /\ pedido[p].pc \in Assinando =>
         pedido[p].hash \in Corpos /\ pedido[p].v \in Ordens /\ corpo[pedido[p].v] # 0
Tipos == TypeOK /\ Lidos

(* Whoever read the last order writes that version or the one after it, so *)
(* the unique key lets no order be skipped.                                *)
Ordenado ==
  /\ OrdemSeguida
  /\ ultima \in Ordens
  /\ \A p \in Pedidos :
       pedido[p].pc = "criar" => pedido[p].v >= 1 /\ pedido[p].v <= ultima + 1

(* What an action does to the requests, for the proofs that follow: they   *)
(* stay as they were but for one.                                          *)
LEMMA TiposInicio == Init => Tipos
<1> SUFFICES ASSUME Init PROVE Tipos
  OBVIOUS
<1>1. pedido \in [Pedidos -> PedidoTipo] /\ \A p \in Pedidos : pedido[p].pc = "livre"
  BY LivreTipo DEF Init
<1>2. PICK x \in Corpos : corpo = [v \in Ordens |-> IF v = 1 THEN x ELSE 0]
  BY DEF Init
<1>3. corpo \in [Ordens -> Corpos \cup {0}]
  BY <1>2
<1> QED
  BY <1>1, <1>3 DEF Init, Tipos, TypeOK, Lidos, PedidoTipo, Assinando, EstadoLink

LEMMA TiposPasso == Tipos /\ Ordenado /\ [Next]_vars => Tipos'
<1> USE VersoesAssumption, CorposAssumption
<1> SUFFICES ASSUME Tipos, Ordenado, [Next]_vars PROVE Tipos'
  OBVIOUS
<1>0. /\ pedido \in [Pedidos -> PedidoTipo]
      /\ corpo \in [Ordens -> Corpos \cup {0}]
      /\ link \in [Colaboradores -> EstadoLink]
  BY DEF Tipos, TypeOK, PedidoTipo
(* It is enough to type the next state, to keep the versions that exist    *)
(* and to look at the request that moved.                                  *)
<1>1. ASSUME NEW p \in Pedidos, NEW r \in PedidoTipo, Passa(p, r),
             estado' \in Percurso, mexido' \in BOOLEAN,
             corpo' \in [Ordens -> Corpos \cup {0}],
             \A v \in Ordens : corpo[v] # 0 => corpo'[v] # 0,
             assinaturas' \subseteq
               [v : Ordens, hash : Corpos, quem : SUBSET Colaboradores, exposta : BOOLEAN,
                por : Pedidos],
             link' \in [Colaboradores -> EstadoLink],
             fora' \subseteq Colaboradores, firmes' \subseteq Colaboradores,
             r.pc \in {"criar", "lerVersao", "editar"} => r.hash \in Corpos,
             r.pc \in {"lerVersao", "editar"} => r.v \in Ordens /\ corpo'[r.v] # 0,
             r.pc \in Assinando => r.hash \in Corpos /\ r.v \in Ordens /\ corpo'[r.v] # 0
      PROVE  Tipos'
  <2>1. /\ pedido' \in [Pedidos -> PedidoTipo]
        /\ pedido'[p] = r
        /\ \A q \in Pedidos : q # p => pedido'[q] = pedido[q]
    BY <1>0, <1>1, PassaTipo
  <2>2. Lidos'
    BY <1>1, <2>1 DEF Tipos, Lidos
  <2>3. TypeOK'
    BY <1>1, <2>1 DEF TypeOK, PedidoTipo
  <2> QED
    BY <2>2, <2>3 DEF Tipos
<1>2. CASE UNCHANGED vars
  BY <1>2 DEF vars, textos, links, Tipos, TypeOK, Lidos
<1>3. CASE Transitar
  BY <1>3 DEF Transitar, textos, links, Tipos, TypeOK, Lidos
<1>4. ASSUME NEW k \in Colaboradores, Revogar(k)
      PROVE  Tipos'
  <2>1. link' \in [Colaboradores -> EstadoLink]
    BY <1>0, <1>4 DEF Revogar, EstadoLink
  <2> QED
    BY <1>4, <2>1 DEF Revogar, textos, links, Tipos, TypeOK, Lidos
<1>5. ASSUME NEW k \in Colaboradores, Expirar(k)
      PROVE  Tipos'
  BY <1>5 DEF Expirar, textos, links, Tipos, TypeOK, Lidos
<1>6. ASSUME NEW p \in Pedidos, NEW x \in Corpos, LerOrdem(p, x)
      PROVE  Tipos'
  <2> DEFINE r == [Livre EXCEPT !.pc = "criar", !.v = proximaOrdem, !.hash = x]
  <2>1. proximaOrdem \in 0..(MaxVersoes + 1)
    BY <1>6 DEF LerOrdem, proximaOrdem, Ordenado, Ordens
  <2>2. r \in PedidoTipo /\ r.pc = "criar" /\ r.hash = x
    BY <2>1, LivreTipo DEF Livre, PedidoTipo, Paragens, EstadoLink
  <2> HIDE DEF r
  <2>3. Passa(p, r)
    BY <1>6 DEF LerOrdem, r
  <2> QED
    BY <1>1, <1>6, <2>2, <2>3 DEF LerOrdem, textos, links, Tipos, TypeOK, Assinando
<1>7. ASSUME NEW p \in Pedidos, GravarVersao(p)
      PROVE  Tipos'
  <2>1. pedido[p].hash \in Corpos
    BY <1>7 DEF GravarVersao, Parado, Tipos, Lidos
  <2>2. corpo' \in [Ordens -> Corpos \cup {0}] /\ \A v \in Ordens : corpo[v] # 0 => corpo'[v] # 0
    BY <1>0, <1>7, <2>1 DEF GravarVersao, Existe
  <2>3. Passa(p, Livre)
    BY <1>7 DEF GravarVersao, Acaba
  <2> QED
    BY <1>1, <1>7, <2>2, <2>3, LivreTipo DEF GravarVersao, links, Tipos, TypeOK, Assinando
<1>8. ASSUME NEW p \in Pedidos, NEW v \in Ordens, NEW x \in Corpos, LerFase(p, v, x)
      PROVE  Tipos'
  <2> DEFINE r == [Livre EXCEPT !.pc = "lerVersao", !.v = v, !.hash = x]
  <2>1. v \in 0..(MaxVersoes + 1)
    BY DEF Ordens
  <2>2. r \in PedidoTipo /\ r.pc = "lerVersao" /\ r.hash = x /\ r.v = v
    BY <2>1, LivreTipo DEF Livre, PedidoTipo, Paragens, EstadoLink
  <2> HIDE DEF r
  <2>3. Passa(p, r)
    BY <1>8 DEF LerFase, r
  <2> QED
    BY <1>1, <1>8, <2>2, <2>3 DEF LerFase, Existe, textos, links, Tipos, TypeOK, Assinando
(* Actions that change nothing but where the request is.                   *)
<1>9. ASSUME NEW p \in Pedidos, NEW r \in PedidoTipo, Passa(p, r),
             UNCHANGED <<estado, textos, links, mexido>>,
             r.pc \in {"criar", "lerVersao", "editar"} => r.hash \in Corpos,
             r.pc \in {"lerVersao", "editar"} => r.v \in Ordens /\ corpo[r.v] # 0,
             r.pc \in Assinando => r.hash \in Corpos /\ r.v \in Ordens /\ corpo[r.v] # 0
      PROVE  Tipos'
  <2>1. /\ estado' \in Percurso /\ mexido' \in BOOLEAN
        /\ corpo' \in [Ordens -> Corpos \cup {0}] /\ corpo' = corpo
        /\ assinaturas' \subseteq
             [v : Ordens, hash : Corpos, quem : SUBSET Colaboradores, exposta : BOOLEAN,
              por : Pedidos]
        /\ link' \in [Colaboradores -> EstadoLink]
        /\ fora' \subseteq Colaboradores /\ firmes' \subseteq Colaboradores
    BY <1>9 DEF textos, links, Tipos, TypeOK
  <2> QED
    BY <1>1, <1>9, <2>1
<1>10. ASSUME NEW p \in Pedidos, Acaba(p), UNCHANGED <<estado, textos, links, mexido>>
       PROVE  Tipos'
  BY <1>9, <1>10, LivreTipo DEF Acaba, Assinando
<1>11. ASSUME NEW p \in Pedidos, NEW x \in Paragens, Segue(p, x),
              UNCHANGED <<estado, textos, links, mexido>>,
              \/ pedido[p].pc = "lerVersao" /\ x = "editar"
              \/ pedido[p].pc \in Assinando /\ x \in Assinando
       PROVE  Tipos'
  <2> DEFINE r == [pedido[p] EXCEPT !.pc = x]
  <2>1. /\ r \in PedidoTipo
        /\ r.pc = x /\ r.v = pedido[p].v /\ r.hash = pedido[p].hash
    BY <1>0, SegueTipo
  <2> HIDE DEF r
  <2>2. Passa(p, r)
    BY <1>11 DEF Segue, r
  <2> QED
    BY <1>9, <1>11, <2>1, <2>2 DEF Tipos, Lidos, Assinando
<1>12. ASSUME NEW p \in Pedidos, LerVersao(p)
       PROVE  Tipos'
  BY <1>10, <1>11, <1>12 DEF LerVersao, Parado, Paragens
<1>13. ASSUME NEW p \in Pedidos, EditarCorpo(p)
       PROVE  Tipos'
  <2>1. pedido[p].hash \in Corpos /\ pedido[p].v \in Ordens
    BY <1>13 DEF EditarCorpo, Parado, Tipos, Lidos
  <2>2. corpo' \in [Ordens -> Corpos \cup {0}] /\ \A v \in Ordens : corpo[v] # 0 => corpo'[v] # 0
    BY <1>0, <1>13, <2>1 DEF EditarCorpo
  <2>3. Passa(p, Livre)
    BY <1>13 DEF EditarCorpo, Acaba
  <2> QED
    BY <1>1, <1>13, <2>2, <2>3, LivreTipo DEF EditarCorpo, links, Tipos, TypeOK, Assinando
<1>14. ASSUME NEW p \in Pedidos, NEW k \in Colaboradores, ResolveToken(p, k)
       PROVE  Tipos'
  <2> DEFINE a == [Livre EXCEPT !.pc = "expirar", !.k = {k}]
             b(x) == [Livre EXCEPT !.pc = x, !.k = {k}, !.lido = link[k]]
  <2>1. a \in PedidoTipo /\ a.pc = "expirar"
    BY LivreTipo DEF Livre, PedidoTipo, Paragens, EstadoLink
  <2>2. \A x \in {"aceitar", "lerCorpo"} : b(x) \in PedidoTipo /\ b(x).pc = x
    BY <1>0, LivreTipo DEF Livre, PedidoTipo, Paragens
  <2> HIDE DEF a, b
  <2>3. Passa(p, a) \/ \E x \in {"aceitar", "lerCorpo"} : Passa(p, b(x))
    BY <1>14 DEF ResolveToken, a, b
  <2>4. UNCHANGED <<estado, textos, links, mexido>>
    BY <1>14 DEF ResolveToken
  <2> QED
    BY <1>9, <2>1, <2>2, <2>3, <2>4 DEF Assinando
<1>15. ASSUME NEW p \in Pedidos, MarcarExpirado(p)
       PROVE  Tipos'
  <2>1. link' \in [Colaboradores -> EstadoLink]
    BY <1>0, <1>15 DEF MarcarExpirado, EstadoLink
  <2>2. Passa(p, Livre)
    BY <1>15 DEF MarcarExpirado, Acaba
  <2> QED
    BY <1>1, <1>15, <2>1, <2>2, LivreTipo DEF MarcarExpirado, textos, Tipos, TypeOK, Assinando
<1>16. ASSUME NEW p \in Pedidos, RegistarAcesso(p)
       PROVE  Tipos'
  <2> DEFINE r == [pedido[p] EXCEPT !.pc = "lerCorpo"]
  <2>0. pedido[p].lido \in EstadoLink
    BY <1>0 DEF PedidoTipo
  <2>1. link' \in [Colaboradores -> EstadoLink]
    BY <1>0, <1>16, <2>0 DEF RegistarAcesso, EstadoLink
  <2>2. r \in PedidoTipo /\ r.pc = "lerCorpo"
    BY <1>0, SegueTipo DEF Paragens
  <2> HIDE DEF r
  <2>3. Passa(p, r)
    BY <1>16 DEF RegistarAcesso, Segue, r
  <2> QED
    BY <1>1, <1>16, <2>1, <2>2, <2>3 DEF RegistarAcesso, textos, Tipos, TypeOK, Assinando
<1>17. ASSUME NEW p \in Pedidos, NEW v \in Ordens, LerCorpo(p, v)
       PROVE  Tipos'
  <2> DEFINE r == [pedido[p] EXCEPT !.pc = "verFase", !.v = v, !.hash = corpo[v]]
  <2>1. corpo[v] \in Corpos /\ v \in 0..(MaxVersoes + 1)
    BY <1>0, <1>17 DEF LerCorpo, Existe, Ordens
  <2>2. r \in PedidoTipo /\ r.pc = "verFase" /\ r.v = v /\ r.hash = corpo[v]
    BY <1>0, <2>1 DEF PedidoTipo, Paragens
  <2> HIDE DEF r
  <2>3. Passa(p, r) /\ UNCHANGED <<estado, textos, links, mexido>>
    BY <1>17 DEF LerCorpo, r
  <2> QED
    BY <1>9, <2>1, <2>2, <2>3
<1>18. ASSUME NEW p \in Pedidos, VerFase(p) \/ VerRecente(p) \/ VerAssinou(p)
       PROVE  Tipos'
  BY <1>10, <1>11, <1>18 DEF VerFase, VerRecente, VerAssinou, Parado, Paragens, Assinando
<1>19. ASSUME NEW p \in Pedidos, GravarAssinatura(p)
       PROVE  Tipos'
  <2>1. /\ pedido[p].hash \in Corpos /\ pedido[p].v \in Ordens
        /\ pedido[p].k \in SUBSET Colaboradores
    BY <1>0, <1>19 DEF GravarAssinatura, Parado, Tipos, Lidos, Assinando, PedidoTipo
  <2>2. assinaturas' \subseteq
          [v : Ordens, hash : Corpos, quem : SUBSET Colaboradores, exposta : BOOLEAN,
           por : Pedidos]
    <3>1. PICK e \in BOOLEAN :
            assinaturas' = assinaturas \cup
              {[v |-> pedido[p].v, hash |-> pedido[p].hash, quem |-> pedido[p].k,
                exposta |-> e, por |-> p]}
      BY <1>19, Zenon DEF GravarAssinatura
    <3> QED
      BY <2>1, <3>1 DEF Tipos, TypeOK
  <2>3. Passa(p, Livre)
    BY <1>19 DEF GravarAssinatura, Acaba
  <2> QED
    BY <1>1, <1>19, <2>2, <2>3, LivreTipo DEF GravarAssinatura, links, Tipos, TypeOK, Assinando
<1>20. ASSUME NEW p \in Pedidos, Falhar(p)
       PROVE  Tipos'
  BY <1>10, <1>20 DEF Falhar
<1> QED
  BY <1>2, <1>3, <1>4, <1>5, <1>6, <1>7, <1>8, <1>12, <1>13, <1>14, <1>15, <1>16, <1>17,
     <1>18, <1>19, <1>20 DEF Next

-----------------------------------------------------------------------------
(* What the ways a request moves do to it and to the others.               *)
LEMMA AcabaFaz ==
  ASSUME Tipos, NEW p \in Pedidos, Acaba(p)
  PROVE  /\ pedido'[p].pc = "livre"
         /\ \A q \in Pedidos : q # p => pedido'[q] = pedido[q]
<1>1. pedido \in [Pedidos -> PedidoTipo]
  BY DEF Tipos, TypeOK, PedidoTipo
<1> QED
  BY <1>1, LivreTipo, PassaTipo DEF Acaba

LEMMA SegueFaz ==
  ASSUME Tipos, NEW p \in Pedidos, NEW x \in Paragens, Segue(p, x)
  PROVE  /\ pedido'[p].pc = x /\ pedido'[p].v = pedido[p].v
         /\ pedido'[p].hash = pedido[p].hash /\ pedido'[p].k = pedido[p].k
         /\ \A q \in Pedidos : q # p => pedido'[q] = pedido[q]
<1>1. pedido \in [Pedidos -> PedidoTipo]
  BY DEF Tipos, TypeOK, PedidoTipo
<1> DEFINE s == [pedido[p] EXCEPT !.pc = x]
<1>2. /\ s \in PedidoTipo
      /\ s.pc = x /\ s.v = pedido[p].v /\ s.hash = pedido[p].hash /\ s.k = pedido[p].k
  BY <1>1, SegueTipo
<1>3. Passa(p, s)
  BY DEF Segue
<1> HIDE DEF s
<1> QED
  BY <1>1, <1>2, <1>3, PassaTipo

LEMMA PassaFaz ==
  ASSUME Tipos, NEW p \in Pedidos, NEW r, Passa(p, r)
  PROVE  /\ pedido'[p] = r
         /\ \A q \in Pedidos : q # p => pedido'[q] = pedido[q]
<1>1. pedido \in [Pedidos -> PedidoTipo]
  BY DEF Tipos, TypeOK, PedidoTipo
<1> QED
  BY <1>1 DEF Passa

LEMMA ResolveFaz ==
  ASSUME Tipos, NEW p \in Pedidos, NEW k \in Colaboradores, ResolveToken(p, k)
  PROVE  /\ pedido'[p].k = {k} /\ pedido'[p].pc \in {"expirar", "aceitar", "lerCorpo"}
         /\ \A q \in Pedidos : q # p => pedido'[q] = pedido[q]
<1> DEFINE a == [Livre EXCEPT !.pc = "expirar", !.k = {k}]
           b(x) == [Livre EXCEPT !.pc = x, !.k = {k}, !.lido = link[k]]
<1>1. /\ a.k = {k} /\ a.pc = "expirar"
      /\ \A x \in {"aceitar", "lerCorpo"} : b(x).k = {k} /\ b(x).pc = x
  BY DEF Livre
<1> HIDE DEF a, b
<1>2. Passa(p, a) \/ \E x \in {"aceitar", "lerCorpo"} : Passa(p, b(x))
  BY DEF ResolveToken, a, b
<1> QED
  BY <1>1, <1>2, PassaFaz

-----------------------------------------------------------------------------
(* Orders are kept, and with them the types.                             *)
LEMMA OrdenadoInicio == Init => Ordenado
<1> SUFFICES ASSUME Init PROVE Ordenado
  OBVIOUS
<1>1. \A p \in Pedidos : pedido[p].pc = "livre"
  BY LivreTipo DEF Init
<1>2. 1 \in Ordens
  BY VersoesAssumption DEF Ordens
<1>3. \A v \in Ordens : Existe(v) <=> v = 1
  BY CorposAssumption DEF Init, Existe
<1>4. Existe(1) /\ \A u \in Ordens : Existe(u) => u <= 1
  BY <1>2, <1>3
<1>5. ultima = 1
  BY <1>2, <1>4, UltimaE
<1>6. \A v \in Ordens : v = 1 <=> v <= 1
  BY DEF Ordens
<1> QED
  BY <1>1, <1>2, <1>3, <1>5, <1>6 DEF Ordenado, OrdemSeguida

LEMMA OrdenadoPasso == Tipos /\ Ordenado /\ [Next]_vars => Ordenado'
<1> SUFFICES ASSUME Tipos, Ordenado, [Next]_vars PROVE Ordenado'
  OBVIOUS
<1>0. ultima \in Ordens /\ ultima \in Nat /\ corpo \in [Ordens -> Corpos \cup {0}]
  BY DEF Tipos, TypeOK, Ordenado, Ordens
<1>1. ASSUME \A v \in Ordens : corpo'[v] # 0 <=> corpo[v] # 0
      PROVE  ultima' = ultima /\ OrdemSeguida'
  <2>1. \A v \in Ordens : Existe(v)' <=> Existe(v)
    BY <1>1 DEF Existe
  <2>3. ultima' = ultima
    BY <2>1 DEF ultima
  <2> QED
    BY <2>1, <2>3 DEF Ordenado, OrdemSeguida
<1>2. ASSUME corpo' = corpo, NEW p \in Pedidos, pedido'[p].pc # "criar",
             \A q \in Pedidos : q # p => pedido'[q] = pedido[q]
      PROVE  Ordenado'
  BY <1>1, <1>2 DEF Ordenado
<1>3. ASSUME corpo' = corpo, pedido' = pedido
      PROVE  Ordenado'
  BY <1>1, <1>3 DEF Ordenado
<1>4. CASE UNCHANGED vars
  BY <1>3, <1>4 DEF vars, textos
<1>5. CASE Transitar \/ \E k \in Colaboradores : Revogar(k) \/ Expirar(k)
  BY <1>3, <1>5 DEF Transitar, Revogar, Expirar, textos
<1>6. ASSUME NEW p \in Pedidos, NEW x \in Corpos, LerOrdem(p, x)
      PROVE  Ordenado'
  <2>1. /\ pedido'[p] = [Livre EXCEPT !.pc = "criar", !.v = proximaOrdem, !.hash = x]
        /\ \A q \in Pedidos : q # p => pedido'[q] = pedido[q]
    BY <1>6, PassaFaz DEF LerOrdem
  <2>2. pedido'[p].v = ultima + 1
    BY <2>1 DEF Livre, proximaOrdem
  <2>3. corpo' = corpo
    BY <1>6 DEF LerOrdem, textos
  <2>4. ultima' = ultima /\ OrdemSeguida'
    BY <1>1, <2>3
  <2>5. ASSUME NEW q \in Pedidos, pedido'[q].pc = "criar"
        PROVE  pedido'[q].v >= 1 /\ pedido'[q].v <= ultima' + 1
    <3>1. CASE q = p
      BY <1>0, <2>2, <2>4, <3>1
    <3>2. CASE q # p
      BY <2>1, <2>4, <2>5, <3>2 DEF Ordenado
    <3> QED
      BY <3>1, <3>2
  <2> QED
    BY <2>4, <2>5 DEF Ordenado
<1>7. ASSUME NEW p \in Pedidos, GravarVersao(p)
      PROVE  Ordenado'
  <2> DEFINE n == pedido[p].v
  <2>1. pedido'[p].pc = "livre" /\ \A q \in Pedidos : q # p => pedido'[q] = pedido[q]
    BY <1>7, AcabaFaz DEF GravarVersao
  <2>2. CASE n \in Ordens /\ ~Existe(n)
    <3>1. n \in Nat /\ n >= 1 /\ n <= ultima + 1 /\ pedido[p].hash \in Corpos
      BY <1>7, <2>2 DEF GravarVersao, Parado, Ordenado, Tipos, Lidos, Ordens
    <3>2. n = ultima + 1
      BY <1>0, <2>2, <3>1 DEF Ordenado, OrdemSeguida
    <3>3. corpo' = [corpo EXCEPT ![n] = pedido[p].hash]
      BY <1>7, <2>2 DEF GravarVersao
    <3>4. \A v \in Ordens : Existe(v)' <=> Existe(v) \/ v = n
      BY <1>0, <3>1, <3>3, CorposAssumption DEF Existe
    <3>5. \A v \in Ordens : (Existe(v)' /\ \A u \in Ordens : Existe(u)' => u <= v) <=> v = n
      BY <1>0, <2>2, <3>2, <3>4 DEF Ordenado, OrdemSeguida, Ordens
    <3>6. ultima' = ultima + 1
      BY <2>2, <3>2, <3>5 DEF ultima
    <3>7. ASSUME NEW v \in Ordens
          PROVE  Existe(v)' <=> v <= ultima'
      BY <1>0, <3>2, <3>4, <3>6 DEF Ordenado, OrdemSeguida, Ordens
    <3>8. ASSUME NEW q \in Pedidos, pedido'[q].pc = "criar"
          PROVE  pedido'[q].v >= 1 /\ pedido'[q].v <= ultima' + 1
      <4>1. q # p /\ pedido'[q] = pedido[q]
        BY <2>1, <3>8
      <4>2. pedido[q].v \in Int
        BY DEF Tipos, TypeOK
      <4> QED
        BY <1>0, <3>6, <3>8, <4>1, <4>2 DEF Ordenado
    <3> QED
      BY <2>2, <3>2, <3>6, <3>7, <3>8 DEF Ordenado, OrdemSeguida
  <2>3. CASE ~(n \in Ordens /\ ~Existe(n))
    BY <1>2, <1>7, <2>1, <2>3 DEF GravarVersao
  <2> QED
    BY <2>2, <2>3
<1>8. ASSUME NEW p \in Pedidos, NEW v \in Ordens, NEW x \in Corpos, LerFase(p, v, x)
      PROVE  Ordenado'
  <2>1. /\ pedido'[p] = [Livre EXCEPT !.pc = "lerVersao", !.v = v, !.hash = x]
        /\ \A q \in Pedidos : q # p => pedido'[q] = pedido[q]
    BY <1>8, PassaFaz DEF LerFase
  <2>2. pedido'[p].pc = "lerVersao"
    BY <2>1 DEF Livre
  <2> QED
    BY <1>2, <1>8, <2>1, <2>2 DEF LerFase, textos
<1>9. ASSUME NEW p \in Pedidos,
             GravarAssinatura(p) \/ Falhar(p) \/ MarcarExpirado(p)
      PROVE  Ordenado'
  <2>1. Acaba(p) /\ corpo' = corpo
    BY <1>9 DEF GravarAssinatura, Falhar, MarcarExpirado, textos
  <2> QED
    BY <1>2, <2>1, AcabaFaz
<1>10. ASSUME NEW p \in Pedidos,
              LerVersao(p) \/ VerFase(p) \/ VerRecente(p) \/ VerAssinou(p) \/ RegistarAcesso(p)
       PROVE  Ordenado'
  <2>1. /\ Acaba(p) \/ \E x \in Paragens \ {"criar"} : Segue(p, x)
        /\ corpo' = corpo
    BY <1>10 DEF LerVersao, VerFase, VerRecente, VerAssinou, RegistarAcesso, textos, Paragens
  <2> QED
    BY <1>2, <2>1, AcabaFaz, SegueFaz
<1>11. ASSUME NEW p \in Pedidos, NEW k \in Colaboradores, ResolveToken(p, k)
       PROVE  Ordenado'
  <2>1. corpo' = corpo
    BY <1>11 DEF ResolveToken, textos
  <2> QED
    BY <1>2, <1>11, <2>1, ResolveFaz
<1>12. ASSUME NEW p \in Pedidos, EditarCorpo(p)
       PROVE  Ordenado'
  <2>1. pedido[p].hash \in Corpos /\ pedido[p].v \in Ordens
    BY <1>12 DEF EditarCorpo, Parado, Tipos, Lidos
  <2>2. corpo[pedido[p].v] # 0
    BY <1>12 DEF EditarCorpo, Parado, Tipos, Lidos
  <2>3. \A v \in Ordens : corpo'[v] # 0 <=> corpo[v] # 0
    BY <1>0, <1>12, <2>1, <2>2, CorposAssumption DEF EditarCorpo
  <2>4. ultima' = ultima /\ OrdemSeguida'
    BY <1>1, <2>3
  <2> QED
    BY <1>12, <2>4, AcabaFaz DEF EditarCorpo, Ordenado
<1>13. ASSUME NEW p \in Pedidos, NEW v \in Ordens, LerCorpo(p, v)
       PROVE  Ordenado'
  <2>1. /\ pedido'[p] = [pedido[p] EXCEPT !.pc = "verFase", !.v = v, !.hash = corpo[v]]
        /\ \A q \in Pedidos : q # p => pedido'[q] = pedido[q]
    BY <1>13, PassaFaz DEF LerCorpo
  <2>2. pedido[p] \in PedidoTipo
    BY DEF Tipos, TypeOK, PedidoTipo
  <2>3. pedido'[p].pc = "verFase"
    BY <2>1, <2>2 DEF PedidoTipo
  <2> QED
    BY <1>2, <1>13, <2>1, <2>3 DEF LerCorpo, textos
<1> QED
  BY <1>4, <1>5, <1>6, <1>7, <1>8, <1>9, <1>10, <1>11, <1>12, <1>13 DEF Next

(* The two together: the types say what the last order is read for, and    *)
(* the last order is one of them.                                          *)
Base == Tipos /\ Ordenado

LEMMA BaseInicio == Init => Base
BY TiposInicio, OrdenadoInicio DEF Base

LEMMA BasePasso == Base /\ [Next]_vars => Base'
BY TiposPasso, OrdenadoPasso DEF Base

(* Type correctness, for every value of the constants.                     *)
THEOREM TypeCorrect == Spec => []TypeOK
<1>1. Base => TypeOK
  BY DEF Base, Tipos
<1> QED
  BY <1>1, BaseInicio, BasePasso, PTL DEF Spec

(* Orders are consecutive, whoever creates versions at the same time.      *)
THEOREM OrdemSeguidaCorrect == Spec => []OrdemSeguida
<1>1. Base => OrdemSeguida
  BY DEF Base, Ordenado
<1> QED
  BY <1>1, BaseInicio, BasePasso, PTL DEF Spec

-----------------------------------------------------------------------------
(* A link is revoked for good: no request is about to write its row, and   *)
(* none that reads it from here on gets past its state.                    *)
Escrita(p, k) == pedido[p].pc \in {"aceitar", "expirar"} /\ k \in pedido[p].k
Firme ==
  \A k \in firmes :
    /\ link[k] = "REVOGADO"
    /\ \A p \in Pedidos : ~Escrita(p, k)

LEMMA FirmeInicio == Init => Firme
BY DEF Init, Firme

LEMMA FirmePasso == Tipos /\ Firme /\ [Next]_vars => Firme'
<1> SUFFICES ASSUME Tipos, Firme, [Next]_vars PROVE Firme'
  OBVIOUS
<1>0. /\ link \in [Colaboradores -> EstadoLink]
      /\ firmes \subseteq Colaboradores
  BY DEF Tipos, TypeOK
(* A request that moves without looking at a link starts no write of one.  *)
<1>1. ASSUME NEW p \in Pedidos, pedido'[p].pc \notin {"aceitar", "expirar"},
             \A q \in Pedidos : q # p => pedido'[q] = pedido[q],
             UNCHANGED <<link, firmes>>
      PROVE  Firme'
  BY <1>1 DEF Firme, Escrita
<1>2. CASE UNCHANGED vars
  BY <1>2 DEF vars, links, Firme, Escrita
<1>3. CASE Transitar
  BY <1>3 DEF Transitar, links, Firme, Escrita
<1>4. ASSUME NEW k \in Colaboradores, Revogar(k)
      PROVE  Firme'
  BY <1>0, <1>4 DEF Revogar, Firme, Escrita
<1>5. ASSUME NEW k \in Colaboradores, Expirar(k)
      PROVE  Firme'
  BY <1>5 DEF Expirar, Firme, Escrita
<1>6. ASSUME NEW p \in Pedidos, NEW x \in Corpos, LerOrdem(p, x)
      PROVE  Firme'
  <2>1. /\ pedido'[p] = [Livre EXCEPT !.pc = "criar", !.v = proximaOrdem, !.hash = x]
        /\ \A q \in Pedidos : q # p => pedido'[q] = pedido[q]
    BY <1>6, PassaFaz DEF LerOrdem
  <2>2. pedido'[p].pc = "criar"
    BY <2>1 DEF Livre
  <2> QED
    BY <1>1, <1>6, <2>1, <2>2 DEF LerOrdem, links
<1>7. ASSUME NEW p \in Pedidos, NEW v \in Ordens, NEW x \in Corpos, LerFase(p, v, x)
      PROVE  Firme'
  <2>1. /\ pedido'[p] = [Livre EXCEPT !.pc = "lerVersao", !.v = v, !.hash = x]
        /\ \A q \in Pedidos : q # p => pedido'[q] = pedido[q]
    BY <1>7, PassaFaz DEF LerFase
  <2>2. pedido'[p].pc = "lerVersao"
    BY <2>1 DEF Livre
  <2> QED
    BY <1>1, <1>7, <2>1, <2>2 DEF LerFase, links
<1>8. ASSUME NEW p \in Pedidos,
             GravarVersao(p) \/ EditarCorpo(p) \/ GravarAssinatura(p) \/ Falhar(p)
      PROVE  Firme'
  <2>1. Acaba(p) /\ UNCHANGED <<link, firmes>>
    BY <1>8 DEF GravarVersao, EditarCorpo, GravarAssinatura, Falhar, links
  <2> QED
    BY <1>1, <2>1, AcabaFaz
<1>9. ASSUME NEW p \in Pedidos, LerVersao(p) \/ VerFase(p) \/ VerRecente(p) \/ VerAssinou(p)
      PROVE  Firme'
  <2>1. /\ Acaba(p) \/ \E x \in Paragens \ {"aceitar", "expirar"} : Segue(p, x)
        /\ UNCHANGED <<link, firmes>>
    BY <1>9 DEF LerVersao, VerFase, VerRecente, VerAssinou, links, Paragens
  <2> QED
    BY <1>1, <2>1, AcabaFaz, SegueFaz
<1>10. ASSUME NEW p \in Pedidos, NEW k \in Colaboradores, ResolveToken(p, k)
       PROVE  Firme'
  <2>1. /\ pedido'[p].k = {k}
        /\ \A q \in Pedidos : q # p => pedido'[q] = pedido[q]
    BY <1>10, ResolveFaz
  <2>4. link[k] # "REVOGADO" /\ UNCHANGED <<link, firmes>>
    BY <1>10 DEF ResolveToken, recusa, links
  <2>5. ASSUME NEW j \in firmes, NEW q \in Pedidos
        PROVE  ~Escrita(q, j)'
    BY <2>1, <2>4, <2>5 DEF Firme, Escrita
  <2> QED
    BY <2>4, <2>5 DEF Firme, Escrita
<1>11. ASSUME NEW p \in Pedidos, MarcarExpirado(p)
       PROVE  Firme'
  <2>1. pedido'[p].pc = "livre" /\ \A q \in Pedidos : q # p => pedido'[q] = pedido[q]
    BY <1>11, AcabaFaz DEF MarcarExpirado
  <2>2. ASSUME NEW j \in firmes
        PROVE  link'[j] = link[j]
    BY <1>0, <1>11, <2>2 DEF MarcarExpirado, Parado, Firme, Escrita
  <2> QED
    BY <1>11, <2>1, <2>2 DEF MarcarExpirado, Firme, Escrita
<1>12. ASSUME NEW p \in Pedidos, RegistarAcesso(p)
       PROVE  Firme'
  <2>1. pedido'[p].pc = "lerCorpo" /\ \A q \in Pedidos : q # p => pedido'[q] = pedido[q]
    BY <1>12, SegueFaz DEF RegistarAcesso, Paragens
  <2>2. ASSUME NEW j \in firmes
        PROVE  link'[j] = link[j]
    BY <1>0, <1>12, <2>2 DEF RegistarAcesso, Parado, Firme, Escrita
  <2> QED
    BY <1>12, <2>1, <2>2 DEF RegistarAcesso, Firme, Escrita
<1>13. ASSUME NEW p \in Pedidos, NEW v \in Ordens, LerCorpo(p, v)
       PROVE  Firme'
  <2>1. /\ pedido'[p] = [pedido[p] EXCEPT !.pc = "verFase", !.v = v, !.hash = corpo[v]]
        /\ \A q \in Pedidos : q # p => pedido'[q] = pedido[q]
    BY <1>13, PassaFaz DEF LerCorpo
  <2>2. pedido[p] \in PedidoTipo
    BY DEF Tipos, TypeOK, PedidoTipo
  <2>3. pedido'[p].pc = "verFase"
    BY <2>1, <2>2 DEF PedidoTipo
  <2> QED
    BY <1>1, <1>13, <2>1, <2>3 DEF LerCorpo, links
<1> QED
  BY <1>2, <1>3, <1>4, <1>5, <1>6, <1>7, <1>8, <1>9, <1>10, <1>11, <1>12, <1>13 DEF Next

(* A link revoked while no request was about to write its row stays        *)
(* revoked, whatever requests come after.                                  *)
THEOREM RevogacaoFicaCorrect == Spec => []RevogacaoFica
<1>1. Init => Base /\ Firme
  BY BaseInicio, FirmeInicio
<1>2. Base /\ Firme /\ [Next]_vars => (Base /\ Firme)'
  BY BasePasso, FirmePasso DEF Base
<1>3. Firme => RevogacaoFica
  BY DEF Firme, RevogacaoFica
<1> QED
  BY <1>1, <1>2, <1>3, PTL DEF Spec

-----------------------------------------------------------------------------
(* One signature by a request in flight: it has seen that its collaborator *)
(* has none, and nobody else writes one in its name.                       *)
UmaCada ==
  /\ \A a, b \in assinaturas : a.quem = b.quem /\ a.por = b.por => a = b
  /\ \A p \in Pedidos : pedido[p].pc = "assinar" =>
       \A a \in assinaturas : ~(a.quem = pedido[p].k /\ a.por = p)

LEMMA UmaCadaInicio == Init => UmaCada
<1>1. Init => \A p \in Pedidos : pedido[p].pc = "livre"
  BY LivreTipo DEF Init
<1> QED
  BY <1>1 DEF Init, UmaCada

LEMMA UmaCadaPasso == Tipos /\ UmaCada /\ [Next]_vars => UmaCada'
<1> SUFFICES ASSUME Tipos, UmaCada, [Next]_vars PROVE UmaCada'
  OBVIOUS
<1>1. ASSUME assinaturas' = assinaturas, NEW p \in Pedidos, pedido'[p].pc # "assinar",
             \A q \in Pedidos : q # p => pedido'[q] = pedido[q]
      PROVE  UmaCada'
  BY <1>1 DEF UmaCada
<1>2. CASE assinaturas' = assinaturas /\ pedido' = pedido
  BY <1>2 DEF UmaCada
<1>3. CASE UNCHANGED vars
  BY <1>2, <1>3 DEF vars, textos
<1>4. CASE Transitar \/ \E k \in Colaboradores : Revogar(k) \/ Expirar(k)
  BY <1>2, <1>4 DEF Transitar, Revogar, Expirar, textos
<1>5. ASSUME NEW p \in Pedidos, NEW x \in Corpos, LerOrdem(p, x)
      PROVE  UmaCada'
  <2>1. /\ pedido'[p] = [Livre EXCEPT !.pc = "criar", !.v = proximaOrdem, !.hash = x]
        /\ \A q \in Pedidos : q # p => pedido'[q] = pedido[q]
    BY <1>5, PassaFaz DEF LerOrdem
  <2>2. pedido'[p].pc = "criar"
    BY <2>1 DEF Livre
  <2> QED
    BY <1>1, <1>5, <2>1, <2>2 DEF LerOrdem, textos
<1>6. ASSUME NEW p \in Pedidos, NEW v \in Ordens, NEW x \in Corpos, LerFase(p, v, x)
      PROVE  UmaCada'
  <2>1. /\ pedido'[p] = [Livre EXCEPT !.pc = "lerVersao", !.v = v, !.hash = x]
        /\ \A q \in Pedidos : q # p => pedido'[q] = pedido[q]
    BY <1>6, PassaFaz DEF LerFase
  <2>2. pedido'[p].pc = "lerVersao"
    BY <2>1 DEF Livre
  <2> QED
    BY <1>1, <1>6, <2>1, <2>2 DEF LerFase, textos
<1>7. ASSUME NEW p \in Pedidos,
             GravarVersao(p) \/ EditarCorpo(p) \/ Falhar(p) \/ MarcarExpirado(p)
      PROVE  UmaCada'
  <2>1. Acaba(p) /\ assinaturas' = assinaturas
    BY <1>7 DEF GravarVersao, EditarCorpo, Falhar, MarcarExpirado, textos
  <2> QED
    BY <1>1, <2>1, AcabaFaz
<1>8. ASSUME NEW p \in Pedidos,
             LerVersao(p) \/ VerFase(p) \/ VerRecente(p) \/ RegistarAcesso(p)
      PROVE  UmaCada'
  <2>1. /\ Acaba(p) \/ \E x \in Paragens \ {"assinar"} : Segue(p, x)
        /\ assinaturas' = assinaturas
    BY <1>8 DEF LerVersao, VerFase, VerRecente, RegistarAcesso, textos, Paragens
  <2> QED
    BY <1>1, <2>1, AcabaFaz, SegueFaz
<1>9. ASSUME NEW p \in Pedidos, NEW k \in Colaboradores, ResolveToken(p, k)
      PROVE  UmaCada'
  <2>1. assinaturas' = assinaturas
    BY <1>9 DEF ResolveToken, textos
  <2> QED
    BY <1>1, <1>9, <2>1, ResolveFaz
<1>10. ASSUME NEW p \in Pedidos, NEW v \in Ordens, LerCorpo(p, v)
       PROVE  UmaCada'
  <2>1. /\ pedido'[p] = [pedido[p] EXCEPT !.pc = "verFase", !.v = v, !.hash = corpo[v]]
        /\ \A q \in Pedidos : q # p => pedido'[q] = pedido[q]
    BY <1>10, PassaFaz DEF LerCorpo
  <2>2. pedido[p] \in PedidoTipo
    BY DEF Tipos, TypeOK, PedidoTipo
  <2>3. pedido'[p].pc = "verFase"
    BY <2>1, <2>2 DEF PedidoTipo
  <2> QED
    BY <1>1, <1>10, <2>1, <2>3 DEF LerCorpo, textos
<1>11. ASSUME NEW p \in Pedidos, VerAssinou(p)
       PROVE  UmaCada'
  <2>1. assinaturas' = assinaturas
    BY <1>11 DEF VerAssinou, textos
  <2>2. CASE jaAssinou(p)
    BY <1>1, <1>11, <2>1, <2>2, AcabaFaz DEF VerAssinou
  <2>3. CASE ~jaAssinou(p)
    <3>1. /\ pedido'[p].k = pedido[p].k
          /\ \A q \in Pedidos : q # p => pedido'[q] = pedido[q]
      BY <1>11, <2>3, SegueFaz DEF VerAssinou, Paragens
    <3> QED
      BY <2>1, <2>3, <3>1 DEF UmaCada, jaAssinou
  <2> QED
    BY <2>2, <2>3
<1>12. ASSUME NEW p \in Pedidos, GravarAssinatura(p)
       PROVE  UmaCada'
  <2>1. PICK e \in BOOLEAN :
          assinaturas' = assinaturas \cup
            {[v |-> pedido[p].v, hash |-> pedido[p].hash, quem |-> pedido[p].k,
              exposta |-> e, por |-> p]}
    BY <1>12, Zenon DEF GravarAssinatura
  <2> DEFINE n == [v |-> pedido[p].v, hash |-> pedido[p].hash, quem |-> pedido[p].k,
                   exposta |-> e, por |-> p]
  <2>2. n.quem = pedido[p].k /\ n.por = p
    OBVIOUS
  <2> HIDE DEF n
  <2>3. assinaturas' = assinaturas \cup {n}
    BY <2>1 DEF n
  <2>4. pedido[p].pc = "assinar"
    BY <1>12 DEF GravarAssinatura, Parado
  <2>5. pedido'[p].pc = "livre" /\ \A q \in Pedidos : q # p => pedido'[q] = pedido[q]
    BY <1>12, AcabaFaz DEF GravarAssinatura
  <2> QED
    BY <2>2, <2>3, <2>4, <2>5 DEF UmaCada
<1> QED
  BY <1>3, <1>4, <1>5, <1>6, <1>7, <1>8, <1>9, <1>10, <1>11, <1>12 DEF Next

(* As many signatures of a collaborator as requests in flight at once, at  *)
(* most: the requests that wrote them are all different.                   *)
THEOREM UmaPorSignatarioCorrect == Spec => []UmaPorSignatario
<1>1. Init => Base /\ UmaCada
  BY BaseInicio, UmaCadaInicio
<1>2. Base /\ UmaCada /\ [Next]_vars => (Base /\ UmaCada)'
  BY BasePasso, UmaCadaPasso DEF Base
<1>3. Base /\ UmaCada => UmaPorSignatario
  <2> SUFFICES ASSUME Tipos, UmaCada, NEW k \in Colaboradores
               PROVE  Cardinality({a \in assinaturas : a.quem = {k}}) <= Cardinality(Pedidos)
    BY DEF UmaPorSignatario, Base
  <2> DEFINE S == {a \in assinaturas : a.quem = {k}}
             f == [a \in S |-> a.por]
  <2>1. \A a \in S : a.por \in Pedidos
    BY DEF Tipos, TypeOK
  <2>2. \A a, b \in S : a.por = b.por => a = b
    BY DEF UmaCada
  <2>3. f \in [S -> Pedidos] /\ \A a \in S : f[a] = a.por
    BY <2>1
  <2> HIDE DEF f, S
  <2>4. f \in Injection(S, Pedidos)
    BY <2>2, <2>3 DEF Injection, IsInjective
  <2>5. Cardinality(S) <= Cardinality(Pedidos)
    BY <2>4, FS_Injection, PedidosAssumption
  <2> QED
    BY <2>5 DEF S
<1> QED
  BY <1>1, <1>2, <1>3, PTL DEF Spec

-----------------------------------------------------------------------------
(* No phase lets both edit a body and sign it.                             *)
LEMMA FasesDisjuntas ==
  ASSUME NEW e
  PROVE  ~(contratoPode(e, "EDITAR_CORPO") /\ contratoPode(e, "REGISTAR_ASSINATURA"))
BY DEF contratoPode, estadosQuePermitem, contratoFase

(* Nobody is about to change a body that was signed untouched.  As long as *)
(* the contract has not changed phase under a request, those that edit are *)
(* in a phase that edits, those that sign in one that signs, and what they *)
(* hashed is still the body if it is not such a phase.                     *)
Aponta(p, v) == pedido[p].pc = "editar" /\ pedido[p].v = v
Parada(p) ==
  /\ pedido[p].pc \in {"lerVersao", "editar"} => contratoPode(estado, "EDITAR_CORPO")
  /\ pedido[p].pc \in Assinando \ {"verFase"} => contratoPode(estado, "REGISTAR_ASSINATURA")
  /\ pedido[p].pc \in Assinando =>
       corpo[pedido[p].v] = pedido[p].hash \/ contratoPode(estado, "EDITAR_CORPO")
Fiel ==
  /\ AssinaturaFiel
  /\ \A a \in assinaturas, p \in Pedidos : Aponta(p, a.v) => a.exposta
  /\ ~mexido => \A p \in Pedidos : Parada(p)

LEMMA FielInicio == Init => Fiel
<1>1. Init => \A p \in Pedidos : pedido[p].pc = "livre"
  BY LivreTipo DEF Init
<1> QED
  BY <1>1 DEF Init, Fiel, AssinaturaFiel, Parada, Assinando

LEMMA FielPasso == Tipos /\ Fiel /\ [Next]_vars => Fiel'
<1> USE CorposAssumption
<1> SUFFICES ASSUME Tipos, Fiel, [Next]_vars PROVE Fiel'
  OBVIOUS
<1>0. /\ corpo \in [Ordens -> Corpos \cup {0}]
      /\ \A a \in assinaturas : a.v \in Ordens /\ a.hash \in Corpos
  BY DEF Tipos, TypeOK
(* Texts and phase are what they were: only the request that moved counts. *)
<1>1. ASSUME UNCHANGED <<estado, corpo, assinaturas, mexido>>, NEW p \in Pedidos,
             \A q \in Pedidos : q # p => pedido'[q] = pedido[q],
             ~mexido => Parada(p)',
             \A a \in assinaturas : Aponta(p, a.v)' => a.exposta
      PROVE  Fiel'
  <2>1. AssinaturaFiel'
    BY <1>1 DEF Fiel, AssinaturaFiel
  <2>2. \A a \in assinaturas', q \in Pedidos : Aponta(q, a.v)' => a.exposta
    BY <1>1 DEF Fiel, Aponta
  <2>3. ~mexido' => \A q \in Pedidos : Parada(q)'
    BY <1>1 DEF Fiel, Parada
  <2> QED
    BY <2>1, <2>2, <2>3 DEF Fiel
<1>2. ASSUME UNCHANGED <<estado, corpo, assinaturas, mexido>>, NEW p \in Pedidos,
             \A q \in Pedidos : q # p => pedido'[q] = pedido[q],
             pedido'[p].pc \notin {"lerVersao", "editar"} \cup Assinando
      PROVE  Fiel'
  BY <1>1, <1>2 DEF Parada, Aponta, Assinando
<1>3. CASE UNCHANGED <<estado, corpo, assinaturas, mexido, pedido>>
  BY <1>3 DEF Fiel, AssinaturaFiel, Aponta, Parada
<1>4. CASE UNCHANGED vars
  BY <1>3, <1>4 DEF vars, textos
<1>5. CASE \E k \in Colaboradores : Revogar(k) \/ Expirar(k)
  BY <1>3, <1>5 DEF Revogar, Expirar, textos
<1>6. CASE Transitar
  <2>1. UNCHANGED <<corpo, assinaturas, pedido>>
    BY <1>6 DEF Transitar, textos
  <2>2. mexido => mexido'
    BY <1>6 DEF Transitar
  <2>3. ~mexido' => \A p \in Pedidos : pedido[p].pc = "livre"
    BY <1>6, LivreTipo DEF Transitar
  <2>4. AssinaturaFiel'
    BY <2>1, <2>2 DEF Fiel, AssinaturaFiel
  <2>5. ~mexido' => \A p \in Pedidos : Parada(p)'
    BY <2>1, <2>3 DEF Parada, Assinando
  <2>6. \A a \in assinaturas', p \in Pedidos : Aponta(p, a.v)' => a.exposta
    BY <2>1 DEF Fiel, Aponta
  <2> QED
    BY <2>4, <2>5, <2>6 DEF Fiel
<1>7. ASSUME NEW p \in Pedidos, NEW x \in Corpos, LerOrdem(p, x)
      PROVE  Fiel'
  <2>1. /\ pedido'[p] = [Livre EXCEPT !.pc = "criar", !.v = proximaOrdem, !.hash = x]
        /\ \A q \in Pedidos : q # p => pedido'[q] = pedido[q]
    BY <1>7, PassaFaz DEF LerOrdem
  <2>2. pedido'[p].pc = "criar"
    BY <2>1 DEF Livre
  <2> QED
    BY <1>2, <1>7, <2>1, <2>2 DEF LerOrdem, textos, Assinando
<1>8. ASSUME NEW p \in Pedidos, NEW v \in Ordens, NEW x \in Corpos, LerFase(p, v, x)
      PROVE  Fiel'
  <2>1. /\ pedido'[p] = [Livre EXCEPT !.pc = "lerVersao", !.v = v, !.hash = x]
        /\ \A q \in Pedidos : q # p => pedido'[q] = pedido[q]
    BY <1>8, PassaFaz DEF LerFase
  <2>2. pedido'[p].pc = "lerVersao"
    BY <2>1 DEF Livre
  <2>3. Parada(p)' /\ \A a \in assinaturas : Aponta(p, a.v)' => a.exposta
    BY <1>8, <2>2 DEF LerFase, Parada, Aponta, Assinando
  <2> QED
    BY <1>1, <1>8, <2>1, <2>3 DEF LerFase, textos
<1>9. ASSUME NEW p \in Pedidos, Falhar(p) \/ MarcarExpirado(p)
      PROVE  Fiel'
  <2>1. Acaba(p) /\ UNCHANGED <<estado, corpo, assinaturas, mexido>>
    BY <1>9 DEF Falhar, MarcarExpirado, textos
  <2> QED
    BY <1>2, <2>1, AcabaFaz DEF Assinando
<1>10. ASSUME NEW p \in Pedidos, GravarVersao(p)
       PROVE  Fiel'
  <2>1. /\ pedido'[p].pc = "livre" /\ \A q \in Pedidos : q # p => pedido'[q] = pedido[q]
        /\ UNCHANGED <<estado, assinaturas, mexido>>
    BY <1>10, AcabaFaz DEF GravarVersao
  <2>2. \A v \in Ordens : corpo[v] # 0 => corpo'[v] = corpo[v]
    BY <1>0, <1>10 DEF GravarVersao, Existe
  <2>3. AssinaturaFiel'
    BY <1>0, <2>1, <2>2 DEF Fiel, AssinaturaFiel
  <2>4. ASSUME ~mexido, NEW q \in Pedidos
        PROVE  Parada(q)'
    <3>1. CASE q = p
      BY <2>1, <3>1 DEF Parada, Assinando
    <3>2. CASE q # p
      <4>1. pedido'[q] = pedido[q] /\ Parada(q)
        BY <2>1, <2>4, <3>2 DEF Fiel
      <4>2. pedido[q].pc \in Assinando => corpo'[pedido[q].v] = corpo[pedido[q].v]
        BY <2>2 DEF Tipos, Lidos
      <4> QED
        BY <2>1, <4>1, <4>2 DEF Parada
    <3> QED
      BY <3>1, <3>2
  <2>5. \A a \in assinaturas', q \in Pedidos : Aponta(q, a.v)' => a.exposta
    BY <2>1 DEF Fiel, Aponta
  <2> QED
    BY <2>1, <2>3, <2>4, <2>5 DEF Fiel
<1>11. ASSUME NEW p \in Pedidos, LerVersao(p)
       PROVE  Fiel'
  <2>1. UNCHANGED <<estado, corpo, assinaturas, mexido>>
    BY <1>11 DEF LerVersao, textos
  <2>2. CASE assinada(pedido[p].v)
    BY <1>2, <1>11, <2>1, <2>2, AcabaFaz DEF LerVersao, Assinando
  <2>3. CASE ~assinada(pedido[p].v)
    <3>1. /\ pedido'[p].pc = "editar" /\ pedido'[p].v = pedido[p].v
          /\ \A q \in Pedidos : q # p => pedido'[q] = pedido[q]
      BY <1>11, <2>3, SegueFaz DEF LerVersao, Paragens
    <3>2. ~mexido => Parada(p)'
      BY <1>11, <2>1, <3>1 DEF LerVersao, Parado, Fiel, Parada, Assinando
    <3>3. \A a \in assinaturas : Aponta(p, a.v)' => a.exposta
      BY <2>3, <3>1 DEF assinada, Aponta
    <3> QED
      BY <1>1, <2>1, <3>1, <3>2, <3>3
  <2> QED
    BY <2>2, <2>3
<1>12. ASSUME NEW p \in Pedidos, EditarCorpo(p)
       PROVE  Fiel'
  <2> DEFINE n == pedido[p].v
  <2>1. /\ pedido'[p].pc = "livre" /\ \A q \in Pedidos : q # p => pedido'[q] = pedido[q]
        /\ UNCHANGED <<estado, assinaturas, mexido>>
    BY <1>12, AcabaFaz DEF EditarCorpo
  <2>2. /\ pedido[p].pc = "editar"
        /\ \A v \in Ordens : v # n => corpo'[v] = corpo[v]
    BY <1>0, <1>12 DEF EditarCorpo, Parado
  <2>3. \A a \in assinaturas : ~a.exposta => a.v # n
    BY <2>2 DEF Fiel, Aponta
  <2>4. AssinaturaFiel'
    BY <1>0, <2>1, <2>2, <2>3 DEF Fiel, AssinaturaFiel
  <2>5. ASSUME ~mexido, NEW q \in Pedidos
        PROVE  Parada(q)'
    <3>1. contratoPode(estado, "EDITAR_CORPO")
      BY <2>2, <2>5 DEF Fiel, Parada
    <3>2. CASE q = p
      BY <2>1, <3>2 DEF Parada, Assinando
    <3>3. CASE q # p
      BY <2>1, <2>5, <3>1, <3>3 DEF Fiel, Parada
    <3> QED
      BY <3>2, <3>3
  <2>6. \A a \in assinaturas', q \in Pedidos : Aponta(q, a.v)' => a.exposta
    BY <2>1 DEF Fiel, Aponta
  <2> QED
    BY <2>1, <2>4, <2>5, <2>6 DEF Fiel
<1>13. ASSUME NEW p \in Pedidos, NEW k \in Colaboradores, ResolveToken(p, k)
       PROVE  Fiel'
  <2>1. UNCHANGED <<estado, corpo, assinaturas, mexido>>
    BY <1>13 DEF ResolveToken, textos
  <2> QED
    BY <1>2, <1>13, <2>1, ResolveFaz DEF Assinando
<1>14. ASSUME NEW p \in Pedidos, RegistarAcesso(p)
       PROVE  Fiel'
  <2>1. UNCHANGED <<estado, corpo, assinaturas, mexido>> /\ Segue(p, "lerCorpo")
    BY <1>14 DEF RegistarAcesso, textos
  <2> QED
    BY <1>2, <2>1, SegueFaz DEF Assinando, Paragens
<1>15. ASSUME NEW p \in Pedidos, NEW v \in Ordens, LerCorpo(p, v)
       PROVE  Fiel'
  <2>1. /\ pedido'[p] = [pedido[p] EXCEPT !.pc = "verFase", !.v = v, !.hash = corpo[v]]
        /\ \A q \in Pedidos : q # p => pedido'[q] = pedido[q]
    BY <1>15, PassaFaz DEF LerCorpo
  <2>2. pedido[p] \in PedidoTipo
    BY DEF Tipos, TypeOK, PedidoTipo
  <2>3. pedido'[p].pc = "verFase" /\ pedido'[p].v = v /\ pedido'[p].hash = corpo[v]
    BY <2>1, <2>2 DEF PedidoTipo
  <2>4. UNCHANGED <<estado, corpo, assinaturas, mexido>>
    BY <1>15 DEF LerCorpo, textos
  <2>5. Parada(p)' /\ \A a \in assinaturas : Aponta(p, a.v)' => a.exposta
    BY <2>3, <2>4 DEF Parada, Aponta, Assinando
  <2> QED
    BY <1>1, <2>1, <2>4, <2>5
(* From the look at the phase to the insert: the phase is one that signs.  *)
<1>16. ASSUME NEW p \in Pedidos, NEW x \in Assinando \ {"verFase"}, Segue(p, x),
              UNCHANGED <<estado, corpo, assinaturas, mexido>>,
              pedido[p].pc \in Assinando,
              pedido[p].pc = "verFase" => contratoPode(estado, "REGISTAR_ASSINATURA")
       PROVE  Fiel'
  <2>1. /\ pedido'[p].pc = x /\ pedido'[p].v = pedido[p].v /\ pedido'[p].hash = pedido[p].hash
        /\ \A q \in Pedidos : q # p => pedido'[q] = pedido[q]
    BY <1>16, SegueFaz DEF Assinando, Paragens
  <2>2. ~mexido => Parada(p)'
    BY <1>16, <2>1 DEF Fiel, Parada, Assinando
  <2>3. \A a \in assinaturas : Aponta(p, a.v)' => a.exposta
    BY <2>1 DEF Aponta, Assinando
  <2> QED
    BY <1>1, <1>16, <2>1, <2>2, <2>3
<1>17. ASSUME NEW p \in Pedidos, VerFase(p) \/ VerRecente(p) \/ VerAssinou(p)
       PROVE  Fiel'
  <2>1. UNCHANGED <<estado, corpo, assinaturas, mexido>>
    BY <1>17 DEF VerFase, VerRecente, VerAssinou, textos
  <2>2. CASE Acaba(p)
    BY <1>2, <2>1, <2>2, AcabaFaz DEF Assinando
  <2>3. CASE ~Acaba(p)
    <3>1. /\ pedido[p].pc \in Assinando
          /\ pedido[p].pc = "verFase" => contratoPode(estado, "REGISTAR_ASSINATURA")
          /\ \E x \in Assinando \ {"verFase"} : Segue(p, x)
      BY <1>17, <2>3 DEF VerFase, VerRecente, VerAssinou, Parado, faseDeAssinar, Assinando
    <3> QED
      BY <1>16, <2>1, <3>1
  <2> QED
    BY <2>2, <2>3
<1>18. ASSUME NEW p \in Pedidos, GravarAssinatura(p)
       PROVE  Fiel'
  <2> DEFINE exposta == \/ corpo[pedido[p].v] # pedido[p].hash
                        \/ \E q \in Pedidos : Aponta(q, pedido[p].v)
             n == [v |-> pedido[p].v, hash |-> pedido[p].hash, quem |-> pedido[p].k,
                   exposta |-> exposta, por |-> p]
  <2>1. assinaturas' = assinaturas \cup {n}
    BY <1>18, Zenon DEF GravarAssinatura, Aponta
  <2>2. n.v = pedido[p].v /\ n.hash = pedido[p].hash /\ n.exposta = exposta
    BY Zenon
  <2>3. pedido[p].pc = "assinar"
    BY <1>18 DEF GravarAssinatura, Parado
  <2>4. /\ pedido'[p].pc = "livre" /\ \A q \in Pedidos : q # p => pedido'[q] = pedido[q]
        /\ UNCHANGED <<estado, corpo, mexido>>
    BY <1>18, AcabaFaz DEF GravarAssinatura
  <2>5. exposta => mexido
    <3> SUFFICES ASSUME ~mexido PROVE ~exposta
      OBVIOUS
    <3>1. ~contratoPode(estado, "EDITAR_CORPO")
      BY <2>3, FasesDisjuntas DEF Fiel, Parada, Assinando
    <3>2. corpo[pedido[p].v] = pedido[p].hash
      BY <2>3, <3>1 DEF Fiel, Parada, Assinando
    <3>3. \A q \in Pedidos : pedido[q].pc # "editar"
      BY <3>1 DEF Fiel, Parada
    <3> QED
      BY <3>2, <3>3 DEF Aponta
  <2>6. ~exposta => corpo[pedido[p].v] = pedido[p].hash /\ \A q \in Pedidos : ~Aponta(q, pedido[p].v)
    OBVIOUS
  <2> HIDE DEF n, exposta
  <2>7. AssinaturaFiel'
    BY <2>1, <2>2, <2>4, <2>5, <2>6 DEF Fiel, AssinaturaFiel
  <2>8. \A a \in assinaturas', q \in Pedidos : Aponta(q, a.v)' => a.exposta
    BY <2>1, <2>2, <2>4, <2>6 DEF Fiel, Aponta
  <2>9. ~mexido' => \A q \in Pedidos : Parada(q)'
    BY <2>4 DEF Fiel, Parada, Assinando
  <2> QED
    BY <2>7, <2>8, <2>9 DEF Fiel
<1> QED
  BY <1>4, <1>5, <1>6, <1>7, <1>8, <1>9, <1>10, <1>11, <1>12, <1>13, <1>14, <1>15, <1>17,
     <1>18 DEF Next

(* A signature holds the hash of the body it signs, unless the contract    *)
(* changed phase while somebody wrote.                                     *)
THEOREM AssinaturaFielCorrect == Spec => []AssinaturaFiel
<1>1. Init => Base /\ Fiel
  BY BaseInicio, FielInicio
<1>2. Base /\ Fiel /\ [Next]_vars => (Base /\ Fiel)'
  BY BasePasso, FielPasso DEF Base
<1>3. Fiel => AssinaturaFiel
  BY DEF Fiel
<1> QED
  BY <1>1, <1>2, <1>3, PTL DEF Spec
=============================================================================
