---------------------------- MODULE Entradas_proofs ----------------------------
(***************************************************************************)
(* Proofs about what comes into a tenant: its members, for any set of      *)
(* people, any limit of seats and any number of concurrent requests        *)
(* (Memberships); and the contracts it imports in bulk, for any lines,     *)
(* requests, failures and either way of running (Importacao).  The two     *)
(* share no variable: each theorem names its own specification.            *)
(***************************************************************************)
EXTENDS Memberships, Importacao, FiniteSetTheorems, TLAPS

(***************************************************************************)
(* Members and seats.                                                      *)
(***************************************************************************)
PedidoTipo == [pc : Pcs, u : Pessoas, papel : Papeis, existing : BOOLEAN,
               lugar : BOOLEAN, token : 0..MaxConvites]

LEMMA LivreTipo == Livre \in PedidoTipo /\ Livre.pc = "livre"
<1>1. Dono \in Fundadores
  BY FundadoresAssumption DEF Dono
<1>2. Dono \in Pessoas /\ 0 \in 0..MaxConvites
  BY <1>1, FundadoresAssumption, ConvitesAssumption
<1> QED
  BY <1>2 DEF Livre, Req, PedidoTipo, Pcs, Papeis

(* A request that only moves to its next statement keeps what it read.     *)
LEMMA SegueTipo ==
  ASSUME NEW r \in PedidoTipo, NEW x \in Pcs
  PROVE  LET s == [r EXCEPT !.pc = x] IN
         s \in PedidoTipo /\ s.pc = x /\ s.u = r.u /\ s.papel = r.papel
BY DEF PedidoTipo

LEMMA ReqTipo ==
  ASSUME NEW pc \in Pcs, NEW u \in Pessoas, NEW novo \in Papeis, NEW existing \in BOOLEAN,
         NEW lugar \in BOOLEAN, NEW token \in 0..MaxConvites
  PROVE  Req(pc, u, novo, existing, lugar, token) \in PedidoTipo
BY DEF Req, PedidoTipo

-----------------------------------------------------------------------------
(* Type correctness, for every value of the constants: the rows, the seat  *)
(* counter (never below zero) and the requests of the five endpoints.      *)
THEOREM TypeCorrect == Spec => []TypeOK
<1> USE FundadoresAssumption, ConvitesAssumption
<1>1. Init => TypeOK
  <2> SUFFICES ASSUME Init PROVE TypeOK
    OBVIOUS
  <2>1. pedido \in [Pedidos -> PedidoTipo]
    BY LivreTipo DEF Init
  <2>2. papel \in [Pessoas -> Papeis]
    BY DEF Init, Papeis
  <2> QED
    BY <2>1, <2>2 DEF Init, TypeOK, PedidoTipo
<1>2. TypeOK /\ [Next]_vars => TypeOK'
  <2> SUFFICES ASSUME TypeOK, [Next]_vars PROVE TypeOK'
    OBVIOUS
  <2>0. pedido \in [Pedidos -> PedidoTipo]
    BY DEF TypeOK, PedidoTipo
  <2>1. SUFFICES ASSUME Next PROVE TypeOK'
    BY DEF TypeOK, vars, linhas
  <2>2. PICK p \in Pedidos :
          \/ \E u \in Pessoas : Inicia(p, u)
          \/ Continua(p)
          \/ Falhar(p)
    BY <2>1 DEF Next
  <2>3. sereno' \in BOOLEAN
    BY <2>1 DEF Next, TypeOK
  <2>4. ASSUME NEW r \in PedidoTipo, Passa(p, r)
        PROVE  pedido' \in [Pedidos -> PedidoTipo]
    BY <2>0, <2>4 DEF Passa
  <2>5. Acaba(p) => pedido' \in [Pedidos -> PedidoTipo]
    BY <2>4, LivreTipo DEF Acaba
  <2>6. ASSUME NEW x \in Pcs, Segue(p, x)
        PROVE  pedido' \in [Pedidos -> PedidoTipo]
    BY <2>0, <2>4, <2>6, SegueTipo DEF Segue
  <2>7. Devolve \in Nat
    BY DEF Devolve, TypeOK
  <2>8. pedido[p] \in PedidoTipo
    BY <2>0
  <2>9. SUFFICES /\ pedido' \in [Pedidos -> PedidoTipo]
                 /\ existe' \in [Pessoas -> BOOLEAN] /\ papel' \in [Pessoas -> Papeis]
                 /\ aceite' \in [Pessoas -> BOOLEAN] /\ apagado' \in [Pessoas -> BOOLEAN]
                 /\ convite' \in [Pessoas -> 0..MaxConvites]
                 /\ enviados' \in [Pessoas -> 0..MaxConvites]
                 /\ usado' \in Nat
    BY <2>3, <2>9 DEF TypeOK, PedidoTipo
  <2> DEFINE LinhasTipo ==
        /\ existe' \in [Pessoas -> BOOLEAN] /\ papel' \in [Pessoas -> Papeis]
        /\ aceite' \in [Pessoas -> BOOLEAN] /\ apagado' \in [Pessoas -> BOOLEAN]
        /\ convite' \in [Pessoas -> 0..MaxConvites]
        /\ enviados' \in [Pessoas -> 0..MaxConvites]
  <2>10. UNCHANGED linhas => LinhasTipo
    BY DEF linhas, TypeOK
  <2>11. ASSUME NEW u \in Pessoas, LerConvidar(p, u)
         PROVE  pedido' \in [Pedidos -> PedidoTipo] /\ UNCHANGED <<linhas, usado>>
    <3>1. PICK r \in Papeis :
            Passa(p, Req(IF ocupaNovoLugar(u) THEN "reservar" ELSE "convidar",
                         u, r, existe[u], ocupaNovoLugar(u), 0))
      BY <2>11 DEF LerConvidar
    <3>2. existe[u] \in BOOLEAN /\ apagado[u] \in BOOLEAN /\ 0 \in 0..MaxConvites
      BY DEF TypeOK
    <3>3. ocupaNovoLugar(u) \in BOOLEAN
      BY <3>2 DEF ocupaNovoLugar
    <3>4. (IF ocupaNovoLugar(u) THEN "reservar" ELSE "convidar") \in Pcs
      BY DEF Pcs
    <3>5. Req(IF ocupaNovoLugar(u) THEN "reservar" ELSE "convidar",
              u, r, existe[u], ocupaNovoLugar(u), 0) \in PedidoTipo
      BY <3>2, <3>3, <3>4, ReqTipo
    <3> QED
      BY <3>1, <3>5, <2>4, <2>11 DEF LerConvidar
  <2>12. ASSUME NEW u \in Pessoas, LerToken(p, u) \/ LerAceitar(p, u)
         PROVE  pedido' \in [Pedidos -> PedidoTipo] /\ UNCHANGED <<linhas, usado>>
    <3>1. papel[u] \in Papeis /\ convite[u] \in 0..MaxConvites /\ 0 \in 0..MaxConvites
      BY DEF TypeOK
    <3>2. /\ Req("consumir", u, papel[u], TRUE, FALSE, convite[u]) \in PedidoTipo
          /\ Req("aceitar", u, papel[u], TRUE, FALSE, 0) \in PedidoTipo
      BY <3>1, ReqTipo DEF Pcs
    <3> QED
      BY <2>12, <3>2, <2>4 DEF LerToken, LerAceitar
  <2>13. ASSUME NEW u \in Pessoas, LerPapel(p, u)
         PROVE  pedido' \in [Pedidos -> PedidoTipo] /\ UNCHANGED <<linhas, usado>>
    <3>1. PICK r \in Papeis :
            Passa(p, Req(IF papel[u] = "ADMIN" /\ r # "ADMIN" THEN "contarPapel"
                                                             ELSE "mudarPapel",
                         u, r, TRUE, FALSE, 0))
      BY <2>13 DEF LerPapel
    <3>2. /\ (IF papel[u] = "ADMIN" /\ r # "ADMIN" THEN "contarPapel" ELSE "mudarPapel") \in Pcs
          /\ 0 \in 0..MaxConvites
      BY DEF Pcs
    <3>3. Req(IF papel[u] = "ADMIN" /\ r # "ADMIN" THEN "contarPapel" ELSE "mudarPapel",
              u, r, TRUE, FALSE, 0) \in PedidoTipo
      BY <3>2, ReqTipo
    <3> QED
      BY <3>1, <3>3, <2>4, <2>13 DEF LerPapel
  <2>14. ASSUME NEW u \in Pessoas, LerRemover(p, u)
         PROVE  pedido' \in [Pedidos -> PedidoTipo] /\ UNCHANGED <<linhas, usado>>
    <3>1. PICK proprio \in BOOLEAN :
            Passa(p, Req(IF papel[u] = "ADMIN" /\ (aceite[u] \/ proprio)
                           THEN "contarRemover" ELSE "remover",
                         u, papel[u], TRUE, FALSE, 0))
      BY <2>14 DEF LerRemover
    <3>2. /\ papel[u] \in Papeis /\ 0 \in 0..MaxConvites
          /\ (IF papel[u] = "ADMIN" /\ (aceite[u] \/ proprio)
                THEN "contarRemover" ELSE "remover") \in Pcs
      BY DEF TypeOK, Pcs
    <3>3. Req(IF papel[u] = "ADMIN" /\ (aceite[u] \/ proprio)
                THEN "contarRemover" ELSE "remover",
              u, papel[u], TRUE, FALSE, 0) \in PedidoTipo
      BY <3>2, ReqTipo
    <3> QED
      BY <3>1, <3>3, <2>4, <2>14 DEF LerRemover
  <2>15. ASSUME NEW u \in Pessoas, Inicia(p, u)
         PROVE  pedido' \in [Pedidos -> PedidoTipo] /\ UNCHANGED <<linhas, usado>>
    BY <2>11, <2>12, <2>13, <2>14, <2>15 DEF Inicia
  <2>16. CASE \E u \in Pessoas : Inicia(p, u)
    BY <2>15, <2>16, <2>10 DEF TypeOK
  <2>17. CASE Reservar(p)
    BY <2>17, <2>5, <2>6, <2>10 DEF Reservar, TypeOK, Pcs
  <2>18. CASE Convidar(p)
    <3>1. pedido[p].u \in Pessoas /\ pedido[p].papel \in Papeis
      BY <2>8 DEF PedidoTipo
    <3>2. enviados[pedido[p].u] + 1 \in 0..MaxConvites
      BY <2>18, <3>1 DEF Convidar, TypeOK
    <3>3. LinhasTipo
      BY <2>18, <3>1, <3>2 DEF Convidar, TypeOK
    <3> QED
      BY <2>18, <3>3, <2>5 DEF Convidar, TypeOK
  <2>19. CASE ConvidarFalha(p)
    BY <2>19, <2>6, <2>10 DEF ConvidarFalha, TypeOK, Pcs
  <2>20. CASE Estornar(p)
    BY <2>20, <2>5, <2>7, <2>10 DEF Estornar, TypeOK
  <2>21. CASE ConsumirToken(p) \/ Aceitar(p)
    <3>1. /\ Acaba(p) /\ UNCHANGED <<existe, papel, apagado, enviados, usado>>
          /\ aceite' \in {aceite, [aceite EXCEPT ![pedido[p].u] = TRUE]}
          /\ convite' \in {convite, [convite EXCEPT ![pedido[p].u] = 0]}
      BY <2>21 DEF ConsumirToken, Aceitar
    <3>2. aceite' \in [Pessoas -> BOOLEAN]
      BY <3>1 DEF TypeOK
    <3>3. 0 \in 0..MaxConvites
      OBVIOUS
    <3>4. convite' \in [Pessoas -> 0..MaxConvites]
      <4> DEFINE S == 0..MaxConvites
      <4> HIDE DEF S
      <4>1. convite \in [Pessoas -> S] /\ 0 \in S
        BY <3>3 DEF TypeOK, S
      <4>2. convite' \in [Pessoas -> S]
        BY <3>1, <4>1
      <4> QED
        BY <4>2 DEF S
    <3> QED
      BY <3>1, <3>2, <3>4, <2>5 DEF TypeOK
  <2>22. CASE ContarPapel(p) \/ ContarRemover(p)
    BY <2>22, <2>5, <2>6, <2>10 DEF ContarPapel, ContarRemover, TypeOK, Pcs
  <2>23. CASE MudarPapel(p)
    <3>1. pedido[p].papel \in Papeis
      BY <2>8 DEF PedidoTipo
    <3> QED
      BY <2>23, <3>1, <2>5 DEF MudarPapel, TypeOK
  <2>24. CASE Remover(p)
    BY <2>24, <2>5, <2>7 DEF Remover, TypeOK
  <2>25. CASE Falhar(p)
    BY <2>25, <2>5, <2>10 DEF Falhar, TypeOK
  <2> QED
    BY <2>2, <2>16, <2>17, <2>18, <2>19, <2>20, <2>21, <2>22, <2>23, <2>24, <2>25 DEF Continua
<1> QED
  BY <1>1, <1>2, PTL DEF Spec

-----------------------------------------------------------------------------
(* The seats in use never pass the limit of the plan, for any number of    *)
(* simultaneous invitations: the quota is tested by the statement that     *)
(* takes the seat.                                                         *)
THEOREM NoLimite == Spec => []UsadoNoLimite
<1>1. Init => UsadoNoLimite
  BY DEF Init, UsadoNoLimite
<1>2. TypeOK /\ UsadoNoLimite /\ [Next]_vars => UsadoNoLimite'
  <2> SUFFICES ASSUME TypeOK, UsadoNoLimite, [Next]_vars PROVE UsadoNoLimite'
    OBVIOUS
  <2>1. Devolve <= usado
    BY DEF Devolve, TypeOK
  <2>2. ASSUME NEW p \in Pedidos, NEW u \in Pessoas, Inicia(p, u) PROVE usado' = usado
    BY <2>2 DEF Inicia, LerConvidar, LerToken, LerAceitar, LerPapel, LerRemover
  <2>3. ASSUME NEW p \in Pedidos, Continua(p)
        PROVE  usado' = usado \/ usado' = Devolve \/ (HaLugar /\ usado' = usado + 1)
    BY <2>3 DEF Continua, Reservar, Convidar, ConvidarFalha, Estornar, ConsumirToken,
                Aceitar, ContarPapel, MudarPapel, ContarRemover, Remover
  <2>4. ASSUME NEW p \in Pedidos, Falhar(p) PROVE usado' = usado
    BY <2>4 DEF Falhar
  <2>5. usado' = usado \/ usado' = Devolve \/ (HaLugar /\ usado' = usado + 1)
    BY <2>2, <2>3, <2>4 DEF Next, vars
  <2>6. usado \in Nat /\ Devolve \in Nat
    BY DEF TypeOK, Devolve
  <2> QED
    BY <2>1, <2>5, <2>6, LimiteAssumption DEF UsadoNoLimite, HaLugar
<1> QED
  BY <1>1, <1>2, TypeCorrect, PTL DEF Spec

-----------------------------------------------------------------------------
(***************************************************************************)
(* The ADMIN of a tenant whose requests do not overlap.  While sereno, at  *)
(* most one request is in flight, and what it is about to write was        *)
(* decided on rows that are still the same: it either takes nothing from   *)
(* an ADMIN, or there is another one.                                      *)
(***************************************************************************)
OutroAdmin(u) == \E w \in Pessoas \ {u} : AdminActivo(w)
Sozinho == \A p, q \in Pedidos : p = q \/ pedido[p] = Livre \/ pedido[q] = Livre
Seguro(p) == LET r == pedido[p] IN
  /\ r.pc \in {"reservar", "convidar"} => ~AdminActivo(r.u)
  /\ r.pc = "mudarPapel" => r.papel = "ADMIN" \/ ~AdminActivo(r.u) \/ OutroAdmin(r.u)
  /\ r.pc = "remover" => ~AdminActivo(r.u) \/ OutroAdmin(r.u)
SerenoInv == sereno => AdminSempre /\ Sozinho /\ \A p \in Pedidos : Seguro(p)

(* A count of ADMINs that is not zero shows another ADMIN.                 *)
LEMMA ContaOutro ==
  ASSUME NEW u \in Pessoas
  PROVE  countActiveAdmins(u) # 0 <=> OutroAdmin(u)
<1> DEFINE A == {w \in Pessoas \ {u} : AdminActivo(w)}
<1>1. IsFiniteSet(A)
  BY PessoasAssumption, FS_Subset
<1>2. Cardinality(A) = 0 <=> A = {}
  BY <1>1, FS_EmptySet
<1> QED
  BY <1>2 DEF countActiveAdmins, OutroAdmin

(* Where a step of a request that is alone leaves the invariant.           *)
LEMMA PassoSozinho ==
  ASSUME TypeOK, NEW p \in Pedidos, NEW r, Passa(p, r),
         \A q \in Pedidos \ {p} : pedido[q] = Livre,
         AdminSempre', Seguro(p)'
  PROVE  SerenoInv'
<1>1. \A q \in Pedidos \ {p} : pedido'[q] = Livre
  BY DEF Passa, TypeOK
<1>2. \A q \in Pedidos \ {p} : Seguro(q)'
  BY <1>1, LivreTipo DEF Seguro
<1>3. Sozinho'
  BY <1>1 DEF Sozinho
<1> QED
  BY <1>2, <1>3 DEF SerenoInv

LEMMA SerenoInicial == Init => SerenoInv
<1> SUFFICES ASSUME Init PROVE SerenoInv
  OBVIOUS
<1>1. PICK u \in Fundadores : u \in Pessoas
  BY FundadoresAssumption
<1>2. AdminActivo(u)
  BY <1>1 DEF Init, AdminActivo, Membro
<1>3. \A p \in Pedidos : pedido[p] = Livre
  BY DEF Init
<1>4. Sozinho /\ \A p \in Pedidos : Seguro(p)
  BY <1>3, LivreTipo DEF Sozinho, Seguro
<1> QED
  BY <1>1, <1>2, <1>4 DEF SerenoInv, AdminSempre

(* A request that starts alone: what it reads makes its write safe.        *)
LEMMA SerenoInicia ==
  ASSUME TypeOK, SerenoInv, sereno, NEW p \in Pedidos, NEW u \in Pessoas, Inicia(p, u),
         \A q \in Pedidos \ {p} : pedido[q] = Livre
  PROVE  SerenoInv'
<1>1. UNCHANGED linhas
  BY DEF Inicia, LerConvidar, LerToken, LerAceitar, LerPapel, LerRemover
<1>2. \A w \in Pessoas : AdminActivo(w)' <=> AdminActivo(w)
  BY <1>1 DEF linhas, AdminActivo, Membro
<1>3. AdminSempre'
  BY <1>2 DEF AdminSempre, SerenoInv
<1>4. ASSUME NEW r, Passa(p, r) PROVE pedido'[p] = r
  BY <1>4 DEF Passa, TypeOK
<1>5. CASE LerConvidar(p, u)
  <2>1. PICK novo \in Papeis :
          Passa(p, Req(IF ocupaNovoLugar(u) THEN "reservar" ELSE "convidar",
                       u, novo, existe[u], ocupaNovoLugar(u), 0))
    BY <1>5 DEF LerConvidar
  <2>2. /\ pedido'[p].pc \in {"reservar", "convidar"}
        /\ pedido'[p].u = u
    BY <2>1, <1>4 DEF Req
  <2>3. ~AdminActivo(u)
    BY <1>5 DEF LerConvidar, JaMembro, AdminActivo
  <2>4. Seguro(p)'
    BY <2>2, <2>3, <1>2 DEF Seguro
  <2> QED
    BY <2>1, <2>4, <1>3, PassoSozinho
<1>6. CASE LerToken(p, u) \/ LerAceitar(p, u)
  <2>1. PICK r \in {Req("consumir", u, papel[u], TRUE, FALSE, convite[u]),
                    Req("aceitar", u, papel[u], TRUE, FALSE, 0)} : Passa(p, r)
    BY <1>6 DEF LerToken, LerAceitar
  <2>2. pedido'[p].pc \in {"consumir", "aceitar"}
    BY <2>1, <1>4 DEF Req
  <2>3. Seguro(p)'
    BY <2>2 DEF Seguro
  <2> QED
    BY <2>1, <2>3, <1>3, PassoSozinho
<1>7. CASE LerPapel(p, u)
  <2>1. PICK novo \in Papeis :
          Passa(p, Req(IF papel[u] = "ADMIN" /\ novo # "ADMIN" THEN "contarPapel"
                                                              ELSE "mudarPapel",
                       u, novo, TRUE, FALSE, 0))
    BY <1>7 DEF LerPapel
  <2>2. /\ pedido'[p].u = u /\ pedido'[p].papel = novo
        /\ pedido'[p].pc = IF papel[u] = "ADMIN" /\ novo # "ADMIN" THEN "contarPapel"
                                                                  ELSE "mudarPapel"
    BY <2>1, <1>4 DEF Req
  <2>3. papel[u] # "ADMIN" => ~AdminActivo(u)
    BY DEF AdminActivo
  <2>4. Seguro(p)'
    BY <2>2, <2>3, <1>2 DEF Seguro
  <2> QED
    BY <2>1, <2>4, <1>3, PassoSozinho
<1>8. CASE LerRemover(p, u)
  <2>1. PICK proprio \in BOOLEAN :
          Passa(p, Req(IF papel[u] = "ADMIN" /\ (aceite[u] \/ proprio)
                         THEN "contarRemover" ELSE "remover",
                       u, papel[u], TRUE, FALSE, 0))
    BY <1>8 DEF LerRemover
  <2>2. /\ pedido'[p].u = u
        /\ pedido'[p].pc = IF papel[u] = "ADMIN" /\ (aceite[u] \/ proprio)
                             THEN "contarRemover" ELSE "remover"
    BY <2>1, <1>4 DEF Req
  <2>3. ~(papel[u] = "ADMIN" /\ (aceite[u] \/ proprio)) => ~AdminActivo(u)
    BY DEF AdminActivo
  <2>4. Seguro(p)'
    BY <2>2, <2>3, <1>2 DEF Seguro
  <2> QED
    BY <2>1, <2>4, <1>3, PassoSozinho
<1> QED
  BY <1>5, <1>6, <1>7, <1>8 DEF Inicia

(* A request that goes on alone.                                           *)
LEMMA SerenoContinua ==
  ASSUME TypeOK, SerenoInv, sereno, NEW p \in Pedidos, Continua(p)
  PROVE  SerenoInv'
<1> DEFINE r == pedido[p]
<1>1. r.pc # "livre"
  BY DEF Continua, Parado, Reservar, Convidar, ConvidarFalha, Estornar, ConsumirToken,
         Aceitar, ContarPapel, MudarPapel, ContarRemover, Remover
<1>2. \A q \in Pedidos \ {p} : pedido[q] = Livre
  BY <1>1, LivreTipo DEF SerenoInv, Sozinho
<1>3. Seguro(p) /\ AdminSempre
  BY DEF SerenoInv
<1>4. r \in PedidoTipo /\ r.u \in Pessoas
  BY DEF TypeOK, PedidoTipo
<1>5. ASSUME NEW x, Passa(p, x) PROVE pedido'[p] = x
  BY <1>5 DEF Passa, TypeOK
<1>6. Acaba(p) => Seguro(p)'
  BY <1>5, LivreTipo DEF Acaba, Seguro
<1>7. ASSUME NEW x \in Pcs, Segue(p, x)
      PROVE  pedido'[p].pc = x /\ pedido'[p].u = r.u /\ pedido'[p].papel = r.papel
  <2>1. pedido'[p] = [r EXCEPT !.pc = x]
    BY <1>5, <1>7 DEF Segue
  <2> QED
    BY <2>1, <1>4, SegueTipo
<1>8. UNCHANGED linhas => /\ \A w \in Pessoas : AdminActivo(w)' <=> AdminActivo(w)
                          /\ AdminSempre'
                          /\ \A w \in Pessoas : OutroAdmin(w)' <=> OutroAdmin(w)
  BY <1>3 DEF linhas, AdminActivo, Membro, AdminSempre, OutroAdmin
<1>9. ASSUME AdminSempre', Seguro(p)', \E x : Passa(p, x) PROVE SerenoInv'
  BY <1>2, <1>9, PassoSozinho
<1>10. CASE Reservar(p)
  <2>1. UNCHANGED linhas /\ (Segue(p, "convidar") \/ Acaba(p)) /\ r.pc = "reservar"
    BY <1>10 DEF Reservar, Parado
  <2>2. Seguro(p)'
    BY <2>1, <1>3, <1>4, <1>6, <1>7, <1>8 DEF Seguro, Pcs
  <2> QED
    BY <2>1, <2>2, <1>8, <1>9 DEF Segue, Acaba
<1>11. CASE Convidar(p)
  <2>1. Acaba(p) /\ ~AdminActivo(r.u)
    BY <1>11, <1>3 DEF Convidar, Parado, Seguro
  <2>2. PICK w \in Pessoas : AdminActivo(w)
    BY <1>3 DEF AdminSempre
  <2>3. w # r.u
    BY <2>1, <2>2
  <2>4. AdminActivo(w)'
    BY <1>11, <1>4, <2>2, <2>3 DEF Convidar, AdminActivo, Membro, TypeOK
  <2> QED
    BY <2>1, <2>4, <1>6, <1>9 DEF AdminSempre, Acaba
<1>12. CASE ConvidarFalha(p)
  <2>1. UNCHANGED linhas /\ Segue(p, "estornar")
    BY <1>12 DEF ConvidarFalha
  <2>2. Seguro(p)'
    BY <2>1, <1>7 DEF Seguro, Pcs
  <2> QED
    BY <2>1, <2>2, <1>8, <1>9 DEF Segue
<1>13. CASE Estornar(p)
  BY <1>13, <1>6, <1>8, <1>9 DEF Estornar, Acaba
<1>14. CASE ConsumirToken(p) \/ Aceitar(p)
  <2>1. Acaba(p) /\ UNCHANGED <<existe, papel, apagado>>
    BY <1>14 DEF ConsumirToken, Aceitar
  <2>2. \A w \in Pessoas : aceite[w] => aceite'[w]
    BY <1>14, <1>4 DEF ConsumirToken, Aceitar, TypeOK
  <2>3. AdminSempre'
    BY <2>1, <2>2, <1>3 DEF AdminSempre, AdminActivo, Membro
  <2> QED
    BY <2>1, <2>3, <1>6, <1>9 DEF Acaba
<1>15. CASE ContarPapel(p)
  <2>1. UNCHANGED linhas /\ (Acaba(p) \/ (OutroAdmin(r.u) /\ Segue(p, "mudarPapel")))
    BY <1>15, <1>4, ContaOutro DEF ContarPapel
  <2>2. Seguro(p)'
    BY <2>1, <1>4, <1>6, <1>7, <1>8 DEF Seguro, Pcs
  <2> QED
    BY <2>1, <2>2, <1>8, <1>9 DEF Segue, Acaba
<1>16. CASE MudarPapel(p)
  <2>1. /\ Acaba(p) /\ UNCHANGED <<existe, aceite, apagado>>
        /\ papel' = [papel EXCEPT ![r.u] = r.papel]
        /\ r.papel = "ADMIN" \/ ~AdminActivo(r.u) \/ OutroAdmin(r.u)
    BY <1>16, <1>3 DEF MudarPapel, Parado, Seguro
  <2>2. PICK w \in Pessoas : AdminActivo(w) /\ (w # r.u \/ r.papel = "ADMIN")
    BY <2>1, <1>3 DEF AdminSempre, OutroAdmin
  <2>3. AdminActivo(w)'
    BY <2>1, <2>2, <1>4 DEF AdminActivo, Membro, TypeOK
  <2> QED
    BY <2>1, <2>3, <1>6, <1>9 DEF AdminSempre, Acaba
<1>17. CASE ContarRemover(p)
  <2>1. UNCHANGED linhas /\ (Acaba(p) \/ (OutroAdmin(r.u) /\ Segue(p, "remover")))
    BY <1>17, <1>4, ContaOutro DEF ContarRemover
  <2>2. Seguro(p)'
    BY <2>1, <1>4, <1>6, <1>7, <1>8 DEF Seguro, Pcs
  <2> QED
    BY <2>1, <2>2, <1>8, <1>9 DEF Segue, Acaba
<1>18. CASE Remover(p)
  <2>1. /\ Acaba(p) /\ UNCHANGED <<existe, papel, aceite>>
        /\ apagado' \in {apagado, [apagado EXCEPT ![r.u] = TRUE]}
        /\ ~AdminActivo(r.u) \/ OutroAdmin(r.u)
    BY <1>18, <1>3 DEF Remover, Parado, Seguro
  <2>2. PICK w \in Pessoas : AdminActivo(w) /\ w # r.u
    BY <2>1, <1>3 DEF AdminSempre, OutroAdmin
  <2>3. AdminActivo(w)'
    BY <2>1, <2>2, <1>4 DEF AdminActivo, Membro, TypeOK
  <2> QED
    BY <2>1, <2>3, <1>6, <1>9 DEF AdminSempre, Acaba
<1> QED
  BY <1>10, <1>11, <1>12, <1>13, <1>14, <1>15, <1>16, <1>17, <1>18 DEF Continua

(* The invariant through every step: a history that is sereno no more      *)
(* says nothing.                                                           *)
LEMMA SerenoPasso ==
  ASSUME TypeOK, SerenoInv, [Next]_vars
  PROVE  SerenoInv'
<1>1. CASE UNCHANGED vars
  BY <1>1 DEF vars, linhas, SerenoInv, AdminSempre, Sozinho, Seguro, OutroAdmin,
              AdminActivo, Membro
<1>2. CASE ~sereno'
  BY <1>2 DEF SerenoInv
<1>3. CASE Next /\ sereno'
  <2>1. PICK p \in Pedidos :
          \/ /\ \E u \in Pessoas : Inicia(p, u)
             /\ sereno /\ \A q \in Pedidos \ {p} : pedido[q] = Livre
          \/ Continua(p) /\ sereno
    BY <1>3 DEF Next
  <2> QED
    BY <2>1, SerenoInicia, SerenoContinua
<1> QED
  BY <1>1, <1>2, <1>3

(* A tenant whose requests neither overlap nor die always has an ADMIN who *)
(* accepted and was not removed, through invitations, removals and changes *)
(* of role in any order.                                                   *)
THEOREM AdminSereno == Spec => []AdminSempreSereno
<1>1. TypeOK /\ SerenoInv /\ [Next]_vars => SerenoInv'
  BY SerenoPasso
<1>2. SerenoInv => AdminSempreSereno
  BY DEF SerenoInv, AdminSempreSereno
<1> QED
  BY <1>1, <1>2, SerenoInicial, TypeCorrect, PTL DEF Spec

-----------------------------------------------------------------------------
(* Who is being invited again is not a member who accepted: invite refused *)
(* one, and whoever could accept in between would overlap with it.         *)
PorConvidar(p) == pedido[p].pc \in {"reservar", "convidar"} => ~JaMembro(pedido[p].u)
Convite == sereno => \A p \in Pedidos : PorConvidar(p)

LEMMA ConviteInicial == Init => Convite
BY LivreTipo DEF Init, Convite, PorConvidar

LEMMA ConvitePasso ==
  ASSUME TypeOK, SerenoInv, Convite, [Next]_vars
  PROVE  Convite'
<1>1. CASE UNCHANGED vars
  BY <1>1 DEF vars, linhas, Convite, PorConvidar, JaMembro, Membro
<1>2. CASE ~sereno'
  BY <1>2 DEF Convite
<1>3. CASE Next /\ sereno'
  <2>1. PICK p \in Pedidos :
          \/ /\ \E u \in Pessoas : Inicia(p, u)
             /\ sereno /\ \A q \in Pedidos \ {p} : pedido[q] = Livre
          \/ Continua(p) /\ sereno
    BY <1>3 DEF Next
  <2>2. ASSUME NEW r, Passa(p, r) PROVE pedido'[p] = r
    BY <2>2 DEF Passa, TypeOK
  <2>3. ASSUME NEW r, Passa(p, r), \A q \in Pedidos \ {p} : pedido[q] = Livre,
               PorConvidar(p)'
        PROVE  Convite'
    <3>1. \A q \in Pedidos \ {p} : pedido'[q] = Livre
      BY <2>3 DEF Passa, TypeOK
    <3>2. \A q \in Pedidos \ {p} : PorConvidar(q)'
      BY <3>1, LivreTipo DEF PorConvidar
    <3> QED
      BY <2>3, <3>2 DEF Convite
  <2>4. CASE (\E u \in Pessoas : Inicia(p, u)) /\ \A q \in Pedidos \ {p} : pedido[q] = Livre
    <3>1. PICK u \in Pessoas : Inicia(p, u)
      BY <2>4
    <3>2. UNCHANGED linhas
      BY <3>1 DEF Inicia, LerConvidar, LerToken, LerAceitar, LerPapel, LerRemover
    <3>3. PICK r : /\ Passa(p, r)
                   /\ r.pc \in {"reservar", "convidar"} => r.u = u /\ ~JaMembro(u)
      <4>1. CASE LerConvidar(p, u)
        <5>1. PICK pc, novo : Passa(p, Req(pc, u, novo, existe[u], ocupaNovoLugar(u), 0))
          BY <4>1 DEF LerConvidar
        <5>2. Req(pc, u, novo, existe[u], ocupaNovoLugar(u), 0).u = u /\ ~JaMembro(u)
          BY <4>1 DEF LerConvidar, Req
        <5> QED
          BY <5>1, <5>2
      <4>2. CASE ~LerConvidar(p, u)
        <5>1. \E pc \in Pcs \ {"reservar", "convidar"} : \E novo, token :
                Passa(p, Req(pc, u, novo, TRUE, FALSE, token))
          <6>1. CASE LerToken(p, u)
            BY <6>1 DEF LerToken, Pcs
          <6>2. CASE LerAceitar(p, u)
            BY <6>2 DEF LerAceitar, Pcs
          <6>3. CASE LerPapel(p, u)
            BY <6>3 DEF LerPapel, Pcs
          <6>4. CASE LerRemover(p, u)
            BY <6>4 DEF LerRemover, Pcs
          <6> QED
            BY <3>1, <4>2, <6>1, <6>2, <6>3, <6>4 DEF Inicia
        <5>2. \A pc, novo, token : Req(pc, u, novo, TRUE, FALSE, token).pc = pc
          BY DEF Req
        <5> QED
          BY <5>1, <5>2
      <4> QED
        BY <4>1, <4>2
    <3>4. PorConvidar(p)'
      BY <3>2, <3>3, <2>2 DEF PorConvidar, linhas, JaMembro, Membro
    <3> QED
      BY <3>3, <3>4, <2>3, <2>4
  <2>5. CASE Continua(p) /\ sereno
    <3>1. pedido[p].pc # "livre"
      BY <2>5 DEF Continua, Parado, Reservar, Convidar, ConvidarFalha, Estornar,
             ConsumirToken, Aceitar, ContarPapel, MudarPapel, ContarRemover, Remover
    <3>2. \A q \in Pedidos \ {p} : pedido[q] = Livre
      BY <3>1, <2>5, LivreTipo DEF SerenoInv, Sozinho
    <3>3. pedido[p] \in PedidoTipo
      BY DEF TypeOK, PedidoTipo
    <3>4. ASSUME NEW x \in Pcs, Segue(p, x)
          PROVE  pedido'[p].pc = x /\ pedido'[p].u = pedido[p].u
      <4>1. pedido'[p] = [pedido[p] EXCEPT !.pc = x]
        BY <2>2, <3>4 DEF Segue
      <4> QED
        BY <4>1, <3>3, SegueTipo
    <3>5. Acaba(p) => PorConvidar(p)'
      BY <2>2, LivreTipo DEF Acaba, PorConvidar
    <3>6. ASSUME NEW x \in Pcs \ {"reservar", "convidar"}, Segue(p, x)
          PROVE  PorConvidar(p)'
      BY <3>4, <3>6 DEF PorConvidar
    <3>7. CASE Reservar(p) /\ Segue(p, "convidar")
      <4>1. UNCHANGED linhas /\ ~JaMembro(pedido[p].u)
        BY <2>5, <3>7 DEF Reservar, Parado, Convite, PorConvidar
      <4>2. pedido'[p].u = pedido[p].u
        BY <3>4, <3>7 DEF Pcs
      <4>3. PorConvidar(p)'
        BY <4>1, <4>2 DEF PorConvidar, linhas, JaMembro, Membro
      <4> QED
        BY <4>3, <3>2, <2>3, <3>7 DEF Segue
    <3>8. CASE \/ Acaba(p)
               \/ \E x \in Pcs \ {"reservar", "convidar"} : Segue(p, x)
      BY <3>8, <3>2, <3>5, <3>6, <2>3 DEF Acaba, Segue
    <3>9. \/ Reservar(p) /\ Segue(p, "convidar")
          \/ Acaba(p)
          \/ Segue(p, "estornar") \/ Segue(p, "mudarPapel") \/ Segue(p, "remover")
      BY <2>5 DEF Continua, Reservar, Convidar, ConvidarFalha, Estornar, ConsumirToken,
             Aceitar, ContarPapel, MudarPapel, ContarRemover, Remover
    <3>10. {"estornar", "mudarPapel", "remover"} \subseteq Pcs \ {"reservar", "convidar"}
      BY DEF Pcs
    <3> QED
      BY <3>7, <3>8, <3>9, <3>10
  <2> QED
    BY <2>1, <2>4, <2>5
<1> QED
  BY <1>1, <1>2, <1>3

(* While requests neither overlap nor die, a member who accepted stays so  *)
(* until removed: only an invitation takes the acceptance back, and what   *)
(* it read when it refused the members is still true when it writes.       *)
THEOREM AceiteEstavelCorrect == Spec => AceiteEstavel
<1>1. ASSUME TypeOK, Convite, [Next]_vars, sereno, NEW u \in Pessoas,
             Membro(u) /\ aceite[u]
      PROVE  aceite'[u] \/ apagado'[u]
  <2>1. aceite[u] \in BOOLEAN /\ aceite \in [Pessoas -> BOOLEAN]
    BY <1>1 DEF TypeOK
  <2>2. CASE UNCHANGED aceite
    BY <2>2, <1>1
  <2>3. CASE \E p \in Pedidos : Convidar(p)
    <3>1. PICK p \in Pedidos : Convidar(p)
      BY <2>3
    <3>2. ~JaMembro(pedido[p].u)
      BY <3>1, <1>1 DEF Convidar, Parado, Convite, PorConvidar
    <3>3. u # pedido[p].u
      BY <3>2, <1>1 DEF JaMembro
    <3> QED
      BY <3>1, <3>3, <2>1, <1>1 DEF Convidar
  <2>4. CASE \E p \in Pedidos : aceite' = [aceite EXCEPT ![pedido[p].u] = TRUE]
    BY <2>4, <2>1, <1>1
  <2>5. ASSUME NEW p \in Pedidos, NEW w \in Pessoas, Inicia(p, w)
        PROVE  UNCHANGED aceite
    BY <2>5 DEF Inicia, LerConvidar, LerToken, LerAceitar, LerPapel, LerRemover, linhas
  <2>6. ASSUME NEW p \in Pedidos, Continua(p)
        PROVE  \/ UNCHANGED aceite
               \/ Convidar(p)
               \/ aceite' = [aceite EXCEPT ![pedido[p].u] = TRUE]
    BY <2>6 DEF Continua, Reservar, ConvidarFalha, Estornar, ConsumirToken, Aceitar,
           ContarPapel, MudarPapel, ContarRemover, Remover, linhas
  <2>7. ASSUME NEW p \in Pedidos, Falhar(p) PROVE UNCHANGED aceite
    BY <2>7 DEF Falhar, linhas
  <2> QED
    BY <1>1, <2>2, <2>3, <2>4, <2>5, <2>6, <2>7 DEF Next, vars, linhas
<1>2. TypeOK /\ Convite /\ [Next]_vars =>
        [sereno => \A u \in Pessoas :
           (Membro(u) /\ aceite[u]) => (aceite'[u] \/ apagado'[u])]_vars
  BY <1>1
<1>3. TypeOK /\ SerenoInv /\ [Next]_vars => SerenoInv'
  BY SerenoPasso
<1>4. TypeOK /\ SerenoInv /\ Convite /\ [Next]_vars => Convite'
  BY ConvitePasso
<1> QED
  BY <1>2, <1>3, <1>4, SerenoInicial, ConviteInicial, TypeCorrect, PTL DEF Spec, AceiteEstavel
-----------------------------------------------------------------------------
(***************************************************************************)
(* The seats.  A request of invite that took one and has not written the   *)
(* row yet (or gives it back) makes the counter one too high (Fora).  What *)
(* a request read of its member is still true when it writes: an invite    *)
(* has a seat if and only if its person is no member, and a removal has a  *)
(* row.  Every step then moves counter and members together, but for the   *)
(* founders, whose removal finds the counter at zero or takes it below the *)
(* members that have a seat.                                               *)
(***************************************************************************)
Membros == {u \in Pessoas : Membro(u)}
Usa(r) == r.pc \in {"convidar", "estornar"} /\ r.lugar
Fora == IF \E p \in Pedidos : Usa(pedido[p]) THEN 1 ELSE 0
Lembra(p) == LET r == pedido[p] IN
  /\ r.pc = "reservar" => r.lugar
  /\ r.pc \in {"reservar", "convidar"} => (r.lugar <=> ~Membro(r.u))
  /\ r.pc \in {"contarRemover", "remover"} => existe[r.u]
Saldo == /\ usado - Fora <= Cardinality(Membros)
         /\ Cardinality(Membros) <= (usado - Fora) + Cardinality(Fundadores)
Lugares == sereno => (\A p \in Pedidos : Lembra(p)) /\ Saldo

LEMMA LivreUsa == ~Usa(Livre) /\ Livre.pc \notin Pcs \ {"livre"}
BY LivreTipo DEF Usa

LEMMA MembrosFinitos ==
  /\ IsFiniteSet(Membros) /\ Cardinality(Membros) \in Nat
  /\ IsFiniteSet(Fundadores) /\ Cardinality(Fundadores) \in Nat
<1>1. IsFiniteSet(Membros) /\ IsFiniteSet(Fundadores)
  BY PessoasAssumption, FundadoresAssumption, FS_Subset DEF Membros
<1> QED
  BY <1>1, FS_CardinalityType

LEMMA LugaresInicio == Init => Lugares
<1> SUFFICES ASSUME Init PROVE Lugares
  OBVIOUS
<1>1. \A p \in Pedidos : Lembra(p)
  BY LivreTipo DEF Init, Lembra
<1>2. Fora = 0
  BY LivreUsa DEF Init, Fora
<1>3. Membros = Fundadores
  BY FundadoresAssumption DEF Init, Membros, Membro
<1> QED
  BY <1>1, <1>2, <1>3, MembrosFinitos DEF Lugares, Saldo, Init

(* What the members become when the row of one person is written.          *)
LEMMA MembrosMuda ==
  ASSUME TypeOK, NEW u \in Pessoas,
         \A w \in Pessoas : w # u => (Membro(w)' <=> Membro(w))
  PROVE  /\ Cardinality(Membros)' \in Nat
         /\ (Membro(u)' <=> Membro(u)) => Cardinality(Membros)' = Cardinality(Membros)
         /\ Membro(u)' /\ ~Membro(u) => Cardinality(Membros)' = Cardinality(Membros) + 1
         /\ ~Membro(u)' /\ Membro(u) => Cardinality(Membros)' = Cardinality(Membros) - 1
<1>1. (Membro(u)' <=> Membro(u)) => Membros' = Membros
  BY DEF Membros
<1>2. Membro(u)' /\ ~Membro(u) => Membros' = Membros \cup {u} /\ u \notin Membros
  BY DEF Membros
<1>3. ~Membro(u)' /\ Membro(u) => Membros' = Membros \ {u} /\ u \in Membros
  BY DEF Membros
<1>4. IsFiniteSet(Membros) /\ Cardinality(Membros) \in Nat
  BY MembrosFinitos
<1>5. Cardinality(Membros') \in Nat
  <2>1. Membros' \subseteq Pessoas
    BY DEF Membros
  <2> QED
    BY <2>1, PessoasAssumption, FS_Subset, FS_CardinalityType
<1>6. u \notin Membros => Cardinality(Membros \cup {u}) = Cardinality(Membros) + 1
  BY <1>4, FS_AddElement
<1>7. u \in Membros => Cardinality(Membros \ {u}) = Cardinality(Membros) - 1
  BY <1>4, FS_RemoveElement
<1> QED
  BY <1>1, <1>2, <1>3, <1>5, <1>6, <1>7

(* A request that is alone: only it can have a seat without a row.         *)
LEMMA ForaSo ==
  ASSUME TypeOK, NEW p \in Pedidos, NEW r, Passa(p, r),
         \A q \in Pedidos \ {p} : pedido[q] = Livre
  PROVE  /\ Fora = IF Usa(pedido[p]) THEN 1 ELSE 0
         /\ Fora' = IF Usa(r) THEN 1 ELSE 0
         /\ pedido'[p] = r /\ \A q \in Pedidos \ {p} : Lembra(q)'
<1>1. pedido'[p] = r /\ \A q \in Pedidos \ {p} : pedido'[q] = Livre
  BY DEF Passa, TypeOK
<1>2. Fora = IF Usa(pedido[p]) THEN 1 ELSE 0
  BY LivreUsa DEF Fora
<1>3. Fora' = IF Usa(r) THEN 1 ELSE 0
  BY <1>1, LivreUsa DEF Fora
<1>4. \A q \in Pedidos \ {p} : Lembra(q)'
  BY <1>1, LivreTipo DEF Lembra
<1> QED
  BY <1>1, <1>2, <1>3, <1>4

LEMMA LugaresInicia ==
  ASSUME TypeOK, Lugares, sereno, NEW p \in Pedidos, NEW u \in Pessoas, Inicia(p, u),
         \A q \in Pedidos \ {p} : pedido[q] = Livre
  PROVE  Lugares'
<1>1. UNCHANGED <<linhas, usado>> /\ pedido[p] = Livre
  BY DEF Inicia, LerConvidar, LerToken, LerAceitar, LerPapel, LerRemover, Atende
<1>2. Membros' = Membros /\ \A w \in Pessoas : Membro(w)' <=> Membro(w)
  BY <1>1 DEF linhas, Membros, Membro
(* What the request remembers.                                             *)
<1> DEFINE Leu(r) ==
      /\ ~Usa(r)
      /\ r.pc = "reservar" => r.lugar
      /\ r.pc \in {"reservar", "convidar"} => (r.lugar <=> ~Membro(u)) /\ r.u = u
      /\ r.pc \in {"contarRemover", "remover"} => existe[u] /\ r.u = u
<1>3. PICK r : Passa(p, r) /\ Leu(r)
  <2>1. CASE LerConvidar(p, u)
    <3>1. PICK novo :
            Passa(p, Req(IF ocupaNovoLugar(u) THEN "reservar" ELSE "convidar",
                         u, novo, existe[u], ocupaNovoLugar(u), 0))
      BY <2>1 DEF LerConvidar
    <3>2. ocupaNovoLugar(u) <=> ~Membro(u)
      BY DEF ocupaNovoLugar, Membro
    <3>3. ASSUME NEW pc, NEW lugar,
                 pc = IF lugar THEN "reservar" ELSE "convidar"
          PROVE  LET r == Req(pc, u, novo, existe[u], lugar, 0) IN
                 /\ ~Usa(r) /\ r.pc = pc /\ r.lugar = lugar /\ r.u = u
                 /\ pc = "reservar" => lugar
                 /\ pc \notin {"contarRemover", "remover"}
      BY <3>3 DEF Req, Usa
    <3> QED
      BY <3>1, <3>2, <3>3
  <2>2. ASSUME NEW pc, NEW novo, NEW token, pc \notin {"reservar", "convidar", "estornar"},
               pc \in {"contarRemover", "remover"} => existe[u]
        PROVE  Leu(Req(pc, u, novo, TRUE, FALSE, token))
    BY <2>2 DEF Req, Usa
  <2> HIDE DEF Leu
  <2>3. CASE LerToken(p, u)
    BY <2>2, <2>3, Zenon DEF LerToken
  <2>4. CASE LerAceitar(p, u)
    <3>1. Passa(p, Req("aceitar", u, papel[u], TRUE, FALSE, 0))
      BY <2>4 DEF LerAceitar
    <3> QED
      BY <2>2, <3>1, Zenon
  <2>5. CASE LerPapel(p, u)
    <3>1. PICK novo \in Papeis :
            Passa(p, Req(IF papel[u] = "ADMIN" /\ novo # "ADMIN" THEN "contarPapel"
                                                                ELSE "mudarPapel",
                         u, novo, TRUE, FALSE, 0))
      BY <2>5 DEF LerPapel
    <3>2. CASE papel[u] = "ADMIN" /\ novo # "ADMIN"
      <4>1. Passa(p, Req("contarPapel", u, novo, TRUE, FALSE, 0))
        BY <3>1, <3>2
      <4> QED
        BY <2>2, <4>1, Zenon
    <3>3. CASE ~(papel[u] = "ADMIN" /\ novo # "ADMIN")
      <4>1. Passa(p, Req("mudarPapel", u, novo, TRUE, FALSE, 0))
        BY <3>1, <3>3
      <4> QED
        BY <2>2, <4>1, Zenon
    <3> QED
      BY <3>2, <3>3
  <2>6. CASE LerRemover(p, u)
    <3>1. PICK proprio \in BOOLEAN :
            Passa(p, Req(IF papel[u] = "ADMIN" /\ (aceite[u] \/ proprio)
                           THEN "contarRemover" ELSE "remover",
                         u, papel[u], TRUE, FALSE, 0))
      BY <2>6 DEF LerRemover
    <3>2. existe[u]
      BY <2>6 DEF LerRemover, Membro
    <3>3. CASE papel[u] = "ADMIN" /\ (aceite[u] \/ proprio)
      <4>1. Passa(p, Req("contarRemover", u, papel[u], TRUE, FALSE, 0))
        BY <3>1, <3>3
      <4> QED
        BY <2>2, <3>2, <4>1, Zenon
    <3>4. CASE ~(papel[u] = "ADMIN" /\ (aceite[u] \/ proprio))
      <4>1. Passa(p, Req("remover", u, papel[u], TRUE, FALSE, 0))
        BY <3>1, <3>4
      <4> QED
        BY <2>2, <3>2, <4>1, Zenon
    <3> QED
      BY <3>3, <3>4
  <2> QED
    BY <2>1, <2>3, <2>4, <2>5, <2>6 DEF Inicia
<1>4. pedido'[p] = r /\ Fora = 0 /\ Fora' = 0 /\ \A q \in Pedidos \ {p} : Lembra(q)'
  BY <1>1, <1>3, ForaSo, LivreUsa
<1>5. Lembra(p)'
  BY <1>1, <1>2, <1>3, <1>4 DEF Lembra, linhas
<1>6. Saldo'
  BY <1>1, <1>2, <1>4 DEF Lugares, Saldo
<1> QED
  BY <1>4, <1>5, <1>6 DEF Lugares

LEMMA LugaresContinua ==
  ASSUME TypeOK, SerenoInv, Lugares, sereno, NEW p \in Pedidos, Continua(p)
  PROVE  Lugares'
<1> DEFINE r == pedido[p]
<1> DEFINE n == Cardinality(Membros)
<1>1. r.pc # "livre"
  BY DEF Continua, Parado, Reservar, Convidar, ConvidarFalha, Estornar, ConsumirToken,
         Aceitar, ContarPapel, MudarPapel, ContarRemover, Remover
<1>2. \A q \in Pedidos \ {p} : pedido[q] = Livre
  BY <1>1, LivreTipo DEF SerenoInv, Sozinho
<1>3. r \in PedidoTipo /\ r.u \in Pessoas /\ usado \in Nat
  BY DEF TypeOK, PedidoTipo
<1>3a. PICK u \in Pessoas : u = r.u
  BY <1>3
<1>4. Lembra(p) /\ Saldo
  BY DEF Lugares
<1>5. n \in Nat /\ Cardinality(Fundadores) \in Nat
  BY MembrosFinitos
<1>6. Fora = IF Usa(r) THEN 1 ELSE 0
  BY <1>2, LivreUsa DEF Fora
<1>7. UNCHANGED <<existe, apagado>> =>
        n' = n /\ \A w \in Pessoas : (Membro(w)' <=> Membro(w)) /\ existe'[w] = existe[w]
  BY DEF Membros, Membro
<1> HIDE DEF n
<1>8. ASSUME Acaba(p), n' = Cardinality(Membros)', usado' <= n',
             n' <= usado' + Cardinality(Fundadores), usado' \in Nat, n' \in Nat
      PROVE  Lugares'
  <2>1. /\ Fora' = 0 /\ pedido'[p] = Livre /\ \A q \in Pedidos \ {p} : Lembra(q)'
    BY <1>2, <1>8, ForaSo, LivreUsa DEF Acaba
  <2>2. Lembra(p)'
    BY <2>1, LivreTipo DEF Lembra
  <2>3. Saldo'
    BY <1>5, <1>8, <2>1 DEF Saldo
  <2> QED
    BY <2>1, <2>2, <2>3 DEF Lugares
<1>9. n' = Cardinality(Membros)' /\ n = Cardinality(Membros)
  BY DEF n
(* The statements that write no row of who is a member and no counter.     *)
<1>10. ASSUME Acaba(p), UNCHANGED <<existe, apagado, usado>>, ~Usa(r)
       PROVE  Lugares'
  <2>1. usado <= n /\ n <= usado + Cardinality(Fundadores)
    BY <1>3, <1>4, <1>5, <1>6, <1>9, <1>10 DEF Saldo
  <2> QED
    BY <1>3, <1>5, <1>7, <1>8, <1>9, <1>10, <2>1
<1>11. ASSUME NEW x \in Pcs, Segue(p, x), UNCHANGED linhas
       PROVE  /\ pedido'[p].pc = x /\ pedido'[p].u = r.u /\ pedido'[p].lugar = r.lugar
              /\ Fora' = IF x \in {"convidar", "estornar"} /\ r.lugar THEN 1 ELSE 0
              /\ \A q \in Pedidos \ {p} : Lembra(q)'
              /\ n' = n /\ (Membro(r.u)' <=> Membro(r.u)) /\ existe'[r.u] = existe[r.u]
  <2> DEFINE s == [r EXCEPT !.pc = x]
  <2>1. s.pc = x /\ s.u = r.u /\ s.lugar = r.lugar
    BY <1>3 DEF PedidoTipo
  <2>2. Passa(p, s)
    BY <1>11 DEF Segue
  <2> HIDE DEF s
  <2>3. /\ Fora' = IF Usa(s) THEN 1 ELSE 0
        /\ pedido'[p] = s /\ \A q \in Pedidos \ {p} : Lembra(q)'
    BY <1>2, <2>2, ForaSo
  <2> QED
    BY <1>3, <1>7, <1>11, <2>1, <2>3 DEF Usa, linhas
<1>12. ASSUME NEW x \in {"mudarPapel", "remover"}, Segue(p, x), UNCHANGED <<linhas, usado>>,
              x = "remover" => existe[r.u], ~Usa(r)
       PROVE  Lugares'
  <2>1. x \in Pcs /\ x \notin {"reservar", "convidar", "estornar", "contarRemover"}
    BY DEF Pcs
  <2>2. Lembra(p)' /\ Fora' = 0 /\ (\A q \in Pedidos \ {p} : Lembra(q)') /\ n' = n
    BY <1>11, <1>12, <2>1 DEF Lembra
  <2>3. Saldo'
    BY <1>4, <1>6, <1>9, <1>12, <2>2 DEF Saldo
  <2> QED
    BY <2>2, <2>3 DEF Lugares
<1>13. CASE Reservar(p)
  <2>1. r.pc = "reservar" /\ r.lugar /\ UNCHANGED linhas /\ ~Membro(r.u) /\ ~Usa(r)
    BY <1>4, <1>13 DEF Reservar, Parado, Lembra, Usa
  <2>2. CASE usado' = usado + 1 /\ Segue(p, "convidar")
    <3>1. /\ Fora' = 1 /\ (\A q \in Pedidos \ {p} : Lembra(q)') /\ n' = n
          /\ Lembra(p)'
      BY <1>11, <2>1, <2>2 DEF Pcs, Lembra
    <3>2. Saldo'
      BY <1>3, <1>4, <1>5, <1>6, <1>9, <2>1, <2>2, <3>1 DEF Saldo
    <3> QED
      BY <3>1, <3>2 DEF Lugares
  <2>3. CASE usado' = usado /\ Acaba(p)
    BY <1>10, <2>1, <2>3 DEF linhas
  <2> QED
    BY <1>13, <2>2, <2>3 DEF Reservar
<1>14. CASE Convidar(p)
  <2>1. /\ r.pc = "convidar" /\ Acaba(p) /\ usado' = usado
        /\ r.lugar <=> ~Membro(r.u)
    BY <1>4, <1>14 DEF Convidar, Parado, Lembra
  <2>2. /\ existe' = [existe EXCEPT ![u] = TRUE] /\ apagado' = [apagado EXCEPT ![u] = FALSE]
        /\ existe \in [Pessoas -> BOOLEAN] /\ apagado \in [Pessoas -> BOOLEAN]
    BY <1>3a, <1>14 DEF Convidar, TypeOK
  <2>2a. Membro(u)' /\ \A w \in Pessoas : w # u => (Membro(w)' <=> Membro(w))
    BY <2>2 DEF Membro
  <2>3. n' = IF r.lugar THEN n + 1 ELSE n
    BY <1>3a, <1>5, <1>9, <2>1, <2>2a, MembrosMuda
  <2>4. Fora = IF r.lugar THEN 1 ELSE 0
    BY <1>6, <2>1 DEF Usa
  <2>5. /\ usado - Fora <= n /\ n <= (usado - Fora) + Cardinality(Fundadores)
    BY <1>4, <1>9 DEF Saldo
  <2>6. usado' <= n' /\ n' <= usado' + Cardinality(Fundadores) /\ n' \in Nat
    BY <1>3, <1>5, <2>1, <2>3, <2>4, <2>5
  <2> QED
    BY <1>3, <1>8, <1>9, <2>1, <2>6
<1>15. CASE ConvidarFalha(p)
  <2>1. r.pc = "convidar" /\ Segue(p, "estornar") /\ UNCHANGED <<linhas, usado>>
    BY <1>15 DEF ConvidarFalha, Parado
  <2>2. /\ Fora' = Fora /\ (\A q \in Pedidos \ {p} : Lembra(q)') /\ n' = n /\ Lembra(p)'
    BY <1>6, <1>11, <2>1 DEF Pcs, Lembra, Usa
  <2>3. Saldo'
    BY <1>4, <1>9, <2>1, <2>2 DEF Saldo
  <2> QED
    BY <2>2, <2>3 DEF Lugares
<1>16. CASE Estornar(p)
  <2>1. /\ r.pc = "estornar" /\ Acaba(p) /\ UNCHANGED linhas
        /\ usado' = IF r.lugar THEN Devolve ELSE usado
        /\ Fora = IF r.lugar THEN 1 ELSE 0
    BY <1>6, <1>16 DEF Estornar, Parado, Usa
  <2>2. /\ usado - Fora <= n /\ n <= (usado - Fora) + Cardinality(Fundadores)
    BY <1>4, <1>9 DEF Saldo
  <2>3. usado' <= n /\ n <= usado' + Cardinality(Fundadores) /\ usado' \in Nat
    BY <1>3, <1>5, <2>1, <2>2 DEF Devolve
  <2> QED
    BY <1>5, <1>7, <1>8, <1>9, <2>1, <2>3 DEF linhas
<1>17. CASE ConsumirToken(p) \/ Aceitar(p) \/ MudarPapel(p)
  BY <1>10, <1>17 DEF ConsumirToken, Aceitar, MudarPapel, Parado, Usa
<1>18. CASE ContarPapel(p) \/ ContarRemover(p)
  <2>1. /\ UNCHANGED <<linhas, usado>> /\ ~Usa(r)
        /\ Acaba(p) \/ Segue(p, "mudarPapel") \/ (Segue(p, "remover") /\ existe[r.u])
    BY <1>4, <1>18 DEF ContarPapel, ContarRemover, Parado, Lembra, Usa
  <2> QED
    BY <1>10, <1>12, <2>1 DEF linhas
<1>19. CASE Remover(p)
  <2>1. /\ existe[r.u] /\ existe' = existe /\ Acaba(p) /\ ~Usa(r)
        /\ IF apagado[r.u] THEN UNCHANGED <<apagado, usado>>
           ELSE apagado' = [apagado EXCEPT ![r.u] = TRUE] /\ usado' = Devolve
    BY <1>4, <1>19 DEF Remover, Parado, Lembra, Usa
  <2>2. CASE apagado[r.u]
    BY <1>10, <2>1, <2>2
  <2>3. CASE ~apagado[r.u]
    <3>1. /\ Membro(u) /\ ~Membro(u)'
          /\ \A w \in Pessoas : w # u => (Membro(w)' <=> Membro(w))
      BY <1>3a, <2>1, <2>3 DEF Membro, TypeOK
    <3>2. n' = n - 1 /\ n' \in Nat
      BY <1>3a, <1>5, <1>9, <3>1, MembrosMuda
    <3>3. usado <= n /\ n <= usado + Cardinality(Fundadores)
      BY <1>3, <1>4, <1>5, <1>6, <1>9, <2>1 DEF Saldo
    <3>4. usado' <= n' /\ n' <= usado' + Cardinality(Fundadores) /\ usado' \in Nat
      BY <1>3, <1>5, <2>1, <2>3, <3>2, <3>3 DEF Devolve
    <3> QED
      BY <1>8, <1>9, <2>1, <3>2, <3>4
  <2> QED
    BY <2>2, <2>3
<1> QED
  BY <1>13, <1>14, <1>15, <1>16, <1>17, <1>18, <1>19 DEF Continua

LEMMA LugaresPasso ==
  ASSUME TypeOK, SerenoInv, Lugares, [Next]_vars
  PROVE  Lugares'
<1>1. CASE UNCHANGED vars
  BY <1>1 DEF vars, linhas, Lugares, Lembra, Saldo, Fora, Usa, Membros, Membro
<1>2. CASE ~sereno'
  BY <1>2 DEF Lugares
<1>3. CASE Next /\ sereno'
  <2>1. PICK p \in Pedidos :
          \/ /\ \E u \in Pessoas : Inicia(p, u)
             /\ sereno /\ \A q \in Pedidos \ {p} : pedido[q] = Livre
          \/ Continua(p) /\ sereno
    BY <1>3 DEF Next
  <2> QED
    BY <2>1, LugaresInicia, LugaresContinua
<1> QED
  BY <1>1, <1>2, <1>3

(* While requests neither overlap nor die, the seats counted between them  *)
(* are those of the members, founders aside: every invitation that ends    *)
(* with a new member took one seat, every other gave it back, and every    *)
(* removal frees one.                                                      *)
THEOREM LugaresFieisCorrect == Spec => []LugaresFieis
<1>1. TypeOK /\ SerenoInv /\ Lugares /\ [Next]_vars => Lugares'
  BY LugaresPasso
<1>2. TypeOK /\ SerenoInv /\ [Next]_vars => SerenoInv'
  BY SerenoPasso
<1>3. TypeOK /\ Lugares => LugaresFieis
  <2> SUFFICES ASSUME TypeOK, Lugares, sereno, \A p \in Pedidos : pedido[p] = Livre
               PROVE  /\ usado <= Cardinality(Membros)
                      /\ Cardinality(Membros) <= usado + Cardinality(Fundadores)
    BY DEF LugaresFieis, Membros
  <2>1. Fora = 0
    BY LivreUsa DEF Fora
  <2>2. usado \in Nat
    BY DEF TypeOK
  <2> QED
    BY <2>1, <2>2, MembrosFinitos DEF Lugares, Saldo
<1> QED
  BY <1>1, <1>2, <1>3, LugaresInicio, SerenoInicial, TypeCorrect, PTL DEF Spec

-----------------------------------------------------------------------------
(***************************************************************************)
(* The bulk import.                                                        *)
(***************************************************************************)
Pontos == {"livre", "marcar", "enfileirar", "compensar", "linhas", "criado", "falhou", "gravar", "fim"}
FioTipo == [ponto : Pontos, resto : SUBSET Linhas, l : Linhas \cup {SemLinha}, cont : Contagem]
JobTipo == [estado : {"nenhum", "espera", "activo", "concluido", "falhado"}, paragens : 0..MaxParagens]
Apurado == [processadas |-> Cardinality({l \in Linhas : linha[l] = "CRIADO"}),
            falhas |-> Cardinality({l \in Linhas : linha[l] = "FALHOU"})]

LEMMA Contado ==
  ASSUME NEW A, NEW B, A \subseteq Linhas, B \subseteq Linhas
  PROVE  [processadas |-> Cardinality(A), falhas |-> Cardinality(B)] \in Contagem
<1>1. /\ Cardinality(A) \in Nat /\ Cardinality(A) <= Cardinality(Linhas)
      /\ Cardinality(B) \in Nat /\ Cardinality(B) <= Cardinality(Linhas)
      /\ Cardinality(Linhas) \in Nat
  BY LinhasAssumption, FS_Subset, FS_CardinalityType
<1>2. Cardinality(A) \in 0..Cardinality(Linhas) /\ Cardinality(B) \in 0..Cardinality(Linhas)
  BY <1>1
<1> QED
  BY <1>2 DEF Contagem

LEMMA ZeroContado == Zero \in Contagem /\ Zero.processadas = 0 /\ Zero.falhas = 0
<1>1. Cardinality(Linhas) \in Nat
  BY LinhasAssumption, FS_CardinalityType
<1>2. 0 \in 0..Cardinality(Linhas)
  BY <1>1
<1> QED
  BY <1>2 DEF Zero, Contagem

LEMMA EmFaz ==
  ASSUME NEW ponto \in Pontos, NEW resto \in SUBSET Linhas, NEW l \in Linhas \cup {SemLinha},
         NEW cont \in Contagem
  PROVE  /\ Em(ponto, resto, l, cont) \in FioTipo
         /\ Em(ponto, resto, l, cont).ponto = ponto /\ Em(ponto, resto, l, cont).resto = resto
         /\ Em(ponto, resto, l, cont).l = l /\ Em(ponto, resto, l, cont).cont = cont
BY DEF Em, FioTipo

LEMMA FioLivreTipo == FioLivre \in FioTipo /\ FioLivre.ponto = "livre" /\ FioLivre.resto = {}
<1>1. "livre" \in Pontos /\ {} \in SUBSET Linhas /\ SemLinha \in Linhas \cup {SemLinha}
  BY DEF Pontos
<1> QED
  BY <1>1, ZeroContado, EmFaz DEF FioLivre

(* One thread moves.                                                       *)
Move(x, f) == fio' \in [Fios -> FioTipo] /\ fio'[x] = f /\ \A y \in Fios : y # x => fio'[y] = fio[y]

LEMMA VaiFaz ==
  ASSUME ImportacaoTypeOK, NEW x \in Fios, NEW f \in FioTipo, Vai(x, f)
  PROVE  Move(x, f)
<1>1. fio \in [Fios -> FioTipo]
  BY DEF ImportacaoTypeOK, FioTipo, Pontos
<1> QED
  BY <1>1 DEF Vai, Move

LEMMA VaiParaFaz ==
  ASSUME ImportacaoTypeOK, NEW x \in Fios, NEW ponto \in Pontos, VaiPara(x, ponto)
  PROVE  \E f \in FioTipo : /\ f.ponto = ponto /\ f.resto = fio[x].resto /\ f.l = fio[x].l
                            /\ f.cont = fio[x].cont /\ Move(x, f)
<1>1. fio[x] \in FioTipo
  BY DEF ImportacaoTypeOK, FioTipo, Pontos
<1> DEFINE f == [fio[x] EXCEPT !.ponto = ponto]
<1>2. /\ f \in FioTipo /\ f.ponto = ponto /\ f.resto = fio[x].resto /\ f.l = fio[x].l
      /\ f.cont = fio[x].cont
  BY <1>1 DEF FioTipo
<1>3. Vai(x, f)
  BY DEF VaiPara
<1> HIDE DEF f
<1> QED
  BY <1>2, <1>3, VaiFaz

LEMMA AvariaFaz ==
  ASSUME ImportacaoTypeOK, NEW tipo, Avaria(tipo)
  PROVE  /\ avarias' \in [TiposAvaria -> 0..MaxAvarias] /\ tipo \in TiposAvaria
         /\ avarias'[tipo] = avarias[tipo] + 1
         /\ \A t \in TiposAvaria : t # tipo => avarias'[t] = avarias[t]
         /\ \A t \in TiposAvaria : avarias[t] \in Nat
<1>1. avarias \in [TiposAvaria -> 0..MaxAvarias] /\ MaxAvarias \in Nat
  BY MaxAssumption DEF ImportacaoTypeOK
<1>2. /\ tipo \in {"queda", "bd", "redis"}
      /\ avarias["queda"] + avarias["bd"] + avarias["redis"] < MaxAvarias
      /\ avarias' = [avarias EXCEPT ![tipo] = avarias[tipo] + 1]
  BY AvariasAssumption DEF Avaria, TiposAvaria
<1>3. /\ avarias["queda"] \in 0..MaxAvarias /\ avarias["bd"] \in 0..MaxAvarias
      /\ avarias["redis"] \in 0..MaxAvarias
  BY <1>1 DEF TiposAvaria
<1>4. avarias[tipo] + 1 \in 0..MaxAvarias
  BY <1>1, <1>2, <1>3
<1> QED
  BY <1>1, <1>2, <1>4 DEF TiposAvaria

LEMMA ImportacaoInicio == ImportacaoInit => ImportacaoTypeOK
<1> SUFFICES ASSUME ImportacaoInit PROVE ImportacaoTypeOK
  OBVIOUS
<1>1. fio \in [Fios -> FioTipo]
  BY FioLivreTipo DEF ImportacaoInit
<1>2. redis \in BOOLEAN /\ relatorio \in Contagem
  BY ModosAssumption, ZeroContado DEF ImportacaoInit
<1>3. job \in JobTipo
  BY DEF ImportacaoInit, SemJob, JobTipo, MaxParagens
<1>4. /\ lote \in Finais \cup {"EM_FILA", "PROCESSANDO"}
      /\ linha \in [Linhas -> {"AUSENTE", "PENDENTE", "CRIADO", "FALHOU"}]
      /\ contratos \in [Linhas -> Nat]
  BY DEF ImportacaoInit
<1>5. avarias \in [TiposAvaria -> 0..MaxAvarias]
  BY MaxAssumption DEF ImportacaoInit
<1>6. ignorado \in BOOLEAN
  BY DEF ImportacaoInit
<1> QED
  BY <1>1, <1>2, <1>3, <1>4, <1>5, <1>6 DEF ImportacaoTypeOK, FioTipo, Pontos, JobTipo

LEMMA ImportacaoTiposDe ==
  ASSUME ImportacaoTypeOK, UNCHANGED redis, lote' \in Finais \cup {"EM_FILA", "PROCESSANDO"},
         relatorio' \in Contagem,
         linha' \in [Linhas -> {"AUSENTE", "PENDENTE", "CRIADO", "FALHOU"}],
         contratos' \in [Linhas -> Nat], job' \in JobTipo, fio' \in [Fios -> FioTipo],
         avarias' \in [TiposAvaria -> 0..MaxAvarias], ignorado' \in BOOLEAN
  PROVE  ImportacaoTypeOK'
BY DEF ImportacaoTypeOK, FioTipo, Pontos, JobTipo

LEMMA ImportacaoTiposSao ==
  ASSUME ImportacaoTypeOK
  PROVE  /\ lote \in Finais \cup {"EM_FILA", "PROCESSANDO"} /\ relatorio \in Contagem
         /\ linha \in [Linhas -> {"AUSENTE", "PENDENTE", "CRIADO", "FALHOU"}]
         /\ contratos \in [Linhas -> Nat] /\ job \in JobTipo /\ fio \in [Fios -> FioTipo]
         /\ avarias \in [TiposAvaria -> 0..MaxAvarias] /\ ignorado \in BOOLEAN
BY DEF ImportacaoTypeOK, FioTipo, Pontos, JobTipo

(***************************************************************************)
(* What each action does to the thread that runs it.                       *)
(***************************************************************************)
AoSair == {"livre", "marcar", "enfileirar", "compensar"}
(* An add that leaves the lote to a run: one that waits, one under way.     *)
Correndo == {"linhas", "criado", "falhou", "gravar"}
Enfileirado ==
  \/ ignorado' \/ job'.estado = "espera"
  \/ job' = job /\ job.estado = "activo" /\ fio[Operario].ponto # "fim"

LEMMA StartFaz ==
  ASSUME ImportacaoTypeOK, UNCHANGED redis, NEW p \in Arranques, Start(p)
  PROVE  /\ ImportacaoTypeOK'
         /\ UNCHANGED <<linha, contratos, relatorio>>
         /\ avarias'["queda"] = avarias["queda"] /\ avarias["bd"] \in Nat
         /\ avarias'["bd"] = avarias["bd"] \/ avarias'["bd"] = avarias["bd"] + 1
         /\ ignorado => ignorado'
         /\ job' = job \/ (redis /\ job.estado = "nenhum" /\ job'.estado = "espera" /\ job'.paragens = 0)
         /\ \E f \in FioTipo :
              /\ Move(p, f) /\ (redis => f.ponto \in AoSair) /\ (redis \/ f.ponto # "compensar")
              /\ \/ lote' = "EM_FILA"
                 \/ lote' = "PROCESSANDO" /\ f.ponto = "enfileirar"
                 \/ /\ lote' = lote
                    /\ \/ fio[p].ponto = "livre" /\ job' = job
                       \/ f.ponto \notin {"livre", "marcar"}
                       \/ redis /\ Enfileirado
                       \/ fio[p].ponto \in {"marcar", "compensar"} /\ avarias'["bd"] = avarias["bd"] + 1
<1>1. p \in Fios /\ AoSair \subseteq Pontos /\ "linhas" \in Pontos /\ avarias["bd"] \in Nat
  <2>1. avarias["bd"] \in 0..MaxAvarias
    BY ImportacaoTiposSao DEF TiposAvaria
  <2> QED
    BY <2>1 DEF Fios, AoSair, Pontos
<1>2. CASE StartLer(p)
  <2>1. PICK f \in FioTipo : f.ponto = "marcar" /\ Move(p, f)
    BY <1>1, <1>2, VaiParaFaz DEF StartLer, AoSair
  <2>2. /\ UNCHANGED <<lote, relatorio, linha, contratos, job, avarias, ignorado>>
        /\ fio[p].ponto = "livre"
    BY <1>2 DEF StartLer, Esta
  <2>3. ImportacaoTypeOK'
    BY <2>1, <2>2, ImportacaoTiposSao, ImportacaoTiposDe DEF Move
  <2> QED
    BY <1>1, <2>1, <2>2, <2>3 DEF AoSair
<1>3. CASE StartMarcar(p)
  <2>1. PICK f \in FioTipo : f.ponto = "enfileirar" /\ Move(p, f)
    BY <1>1, <1>3, VaiParaFaz DEF StartMarcar, AoSair
  <2>2. UNCHANGED <<relatorio, linha, contratos, job, avarias, ignorado>> /\ lote' = "PROCESSANDO"
    BY <1>3 DEF StartMarcar
  <2>3. ImportacaoTypeOK'
    BY <2>1, <2>2, ImportacaoTiposSao, ImportacaoTiposDe DEF Move
  <2> QED
    BY <1>1, <2>1, <2>2, <2>3 DEF AoSair
<1>4. CASE Enfileirar(p)
  <2>1. Move(p, FioLivre)
    BY <1>1, <1>4, FioLivreTipo, VaiFaz DEF Enfileirar
  <2>2. /\ UNCHANGED <<lote, relatorio, linha, contratos, avarias>> /\ redis
        /\ job' = IF job.estado = "nenhum" THEN [estado |-> "espera", paragens |-> 0] ELSE job
        /\ ignorado' = (ignorado \/ RunAcabou)
    BY <1>4 DEF Enfileirar
  <2>3. /\ job' \in JobTipo
        /\ job' = job \/ (job.estado = "nenhum" /\ job'.estado = "espera" /\ job'.paragens = 0)
    BY <2>2, ImportacaoTiposSao DEF JobTipo, MaxParagens
  <2>4. ignorado' \in BOOLEAN /\ (ignorado => ignorado')
    BY <2>2 DEF RunAcabou
  <2>5. ImportacaoTypeOK'
    BY <2>1, <2>2, <2>3, <2>4, ImportacaoTiposSao, ImportacaoTiposDe DEF Move
  <2>6. Enfileirado
    <3>1. job.estado \in {"nenhum", "espera", "activo", "concluido", "falhado"}
      BY ImportacaoTiposSao DEF JobTipo
    <3>2. CASE RunAcabou
      BY <2>2, <3>2 DEF Enfileirado
    <3>3. CASE ~RunAcabou
      BY <2>2, <3>1, <3>3 DEF Enfileirado, RunAcabou, Esta
    <3> QED
      BY <3>2, <3>3
  <2> QED
    BY <1>1, <2>1, <2>2, <2>3, <2>4, <2>5, <2>6, FioLivreTipo DEF AoSair
<1>5. CASE EnfileirarFalha(p)
  <2>1. PICK f \in FioTipo : f.ponto = "compensar" /\ Move(p, f)
    BY <1>1, <1>5, VaiParaFaz DEF EnfileirarFalha, AoSair
  <2>2. UNCHANGED <<lote, relatorio, linha, contratos, job, ignorado>> /\ Avaria("redis") /\ redis
    BY <1>5 DEF EnfileirarFalha
  <2>3. ImportacaoTypeOK'
    BY <2>1, <2>2, AvariaFaz, ImportacaoTiposSao, ImportacaoTiposDe DEF Move
  <2>4. avarias'["bd"] = avarias["bd"] /\ avarias'["queda"] = avarias["queda"]
    BY <2>2, AvariaFaz DEF TiposAvaria
  <2> QED
    BY <1>1, <2>1, <2>2, <2>3, <2>4 DEF AoSair
<1>6. CASE Compensar(p)
  <2>1. Move(p, FioLivre)
    BY <1>1, <1>6, FioLivreTipo, VaiFaz DEF Compensar
  <2>2. UNCHANGED <<relatorio, linha, contratos, job, avarias, ignorado>> /\ lote' = "EM_FILA"
    BY <1>6 DEF Compensar
  <2>3. ImportacaoTypeOK'
    BY <2>1, <2>2, ImportacaoTiposSao, ImportacaoTiposDe DEF Move
  <2> QED
    BY <1>1, <2>1, <2>2, <2>3, FioLivreTipo DEF AoSair
<1>7. CASE StartFalha(p)
  <2>1. Move(p, FioLivre)
    BY <1>1, <1>7, FioLivreTipo, VaiFaz DEF StartFalha
  <2>2. /\ UNCHANGED <<lote, relatorio, linha, contratos, job, ignorado>> /\ Avaria("bd")
        /\ fio[p].ponto \in {"marcar", "compensar"}
    BY <1>7 DEF StartFalha
  <2>3. ImportacaoTypeOK'
    BY <2>1, <2>2, AvariaFaz, ImportacaoTiposSao, ImportacaoTiposDe DEF Move
  <2>4. avarias'["bd"] = avarias["bd"] + 1 /\ avarias'["queda"] = avarias["queda"]
    BY <2>2, AvariaFaz DEF TiposAvaria
  <2> QED
    BY <1>1, <2>1, <2>2, <2>3, <2>4, FioLivreTipo DEF AoSair
<1>8. CASE RunInline(p)
  <2> DEFINE f == Em("linhas", Pendentes, SemLinha, Zero)
  <2>1. f \in FioTipo /\ f.ponto = "linhas"
    BY <1>1, ZeroContado, EmFaz DEF Pendentes
  <2>2. UNCHANGED <<lote, relatorio, linha, contratos, job, avarias, ignorado>> /\ ~redis /\ Vai(p, f)
    BY <1>8 DEF RunInline
  <2> HIDE DEF f
  <2>3. Move(p, f)
    BY <1>1, <2>1, <2>2, VaiFaz
  <2>4. ImportacaoTypeOK'
    BY <2>2, <2>3, ImportacaoTiposSao, ImportacaoTiposDe DEF Move
  <2> QED
    BY <1>1, <2>1, <2>2, <2>3, <2>4
<1> QED
  BY <1>2, <1>3, <1>4, <1>5, <1>6, <1>7, <1>8 DEF Start

LEMMA AddLinhaFaz ==
  ASSUME ImportacaoTypeOK, UNCHANGED redis, NEW l \in Linhas, AddLinha(l)
  PROVE  /\ ImportacaoTypeOK' /\ UNCHANGED <<lote, relatorio, contratos, job, fio, avarias, ignorado>>
         /\ linha[l] = "AUSENTE" /\ linha'[l] = "PENDENTE" /\ \A k \in Linhas : k # l => linha'[k] = linha[k]
<1>1. /\ UNCHANGED <<lote, relatorio, contratos, job, fio, avarias, ignorado>> /\ linha[l] = "AUSENTE"
      /\ linha' = [linha EXCEPT ![l] = "PENDENTE"]
  BY DEF AddLinha
<1>2. linha' \in [Linhas -> {"AUSENTE", "PENDENTE", "CRIADO", "FALHOU"}]
  BY <1>1, ImportacaoTiposSao
<1>3. ImportacaoTypeOK'
  BY <1>1, <1>2, ImportacaoTiposSao, ImportacaoTiposDe
<1> QED
  BY <1>1, <1>3, ImportacaoTiposSao

LEMMA CriarContratoFaz ==
  ASSUME ImportacaoTypeOK, UNCHANGED redis, NEW x \in Fios, NEW l \in Linhas, CriarContrato(x, l)
  PROVE  /\ ImportacaoTypeOK' /\ UNCHANGED <<lote, relatorio, linha, job, ignorado>>
         /\ fio[x].ponto = "linhas" /\ l \in fio[x].resto
         /\ contratos'[l] \in {contratos[l], contratos[l] + 1}
         /\ \A k \in Linhas : k # l => contratos'[k] = contratos[k]
         /\ \E f \in FioTipo :
              /\ Move(x, f) /\ f.resto = fio[x].resto /\ f.l = l /\ f.ponto \in {"criado", "falhou"}
              /\ \/ (f.ponto = "criado" \/ contratos'[l] = contratos[l]) /\ avarias' = avarias
                 \/ /\ avarias'["bd"] = avarias["bd"] + 1 /\ avarias'["queda"] = avarias["queda"]
                    /\ f.ponto = "falhou"
<1>1. /\ UNCHANGED <<lote, relatorio, linha, job, ignorado>>
      /\ fio[x].ponto = "linhas" /\ l \in fio[x].resto
  BY DEF CriarContrato, Esta
<1>2. fio[x] \in FioTipo /\ contratos \in [Linhas -> Nat] /\ contratos[l] \in Nat
  BY ImportacaoTiposSao
<1> DEFINE em(ponto) == Em(ponto, fio[x].resto, l, Zero)
           mais == [contratos EXCEPT ![l] = contratos[l] + 1]
<1>3. \A ponto \in {"criado", "falhou"} :
         em(ponto) \in FioTipo /\ em(ponto).ponto = ponto /\ em(ponto).resto = fio[x].resto /\ em(ponto).l = l
  <2>1. fio[x].resto \in SUBSET Linhas /\ {"criado", "falhou"} \subseteq Pontos /\ l \in Linhas \cup {SemLinha}
    BY <1>2 DEF FioTipo, Pontos
  <2> QED
    BY <2>1, ZeroContado, EmFaz
<1>4. mais \in [Linhas -> Nat] /\ mais[l] = contratos[l] + 1 /\ \A k \in Linhas : k # l => mais[k] = contratos[k]
  BY <1>2
<1>5. \/ contratos' = mais /\ Vai(x, em("criado")) /\ UNCHANGED avarias
      \/ Vai(x, em("falhou")) /\ UNCHANGED <<contratos, avarias>>
      \/ Avaria("bd") /\ contratos' = mais /\ Vai(x, em("falhou"))
  BY DEF CriarContrato
<1> HIDE DEF em, mais
<1>6. CASE contratos' = mais /\ Vai(x, em("criado")) /\ UNCHANGED avarias
  <2>1. Move(x, em("criado"))
    BY <1>3, <1>6, VaiFaz
  <2>2. ImportacaoTypeOK'
    BY <1>1, <1>4, <1>6, <2>1, ImportacaoTiposSao, ImportacaoTiposDe DEF Move
  <2> QED
    BY <1>1, <1>3, <1>4, <1>6, <2>1, <2>2
<1>7. CASE Vai(x, em("falhou")) /\ UNCHANGED <<contratos, avarias>>
  <2>1. Move(x, em("falhou"))
    BY <1>3, <1>7, VaiFaz
  <2>2. ImportacaoTypeOK'
    BY <1>1, <1>7, <2>1, ImportacaoTiposSao, ImportacaoTiposDe DEF Move
  <2> QED
    BY <1>1, <1>3, <1>7, <2>1, <2>2
<1>8. CASE Avaria("bd") /\ contratos' = mais /\ Vai(x, em("falhou"))
  <2>1. Move(x, em("falhou"))
    BY <1>3, <1>8, VaiFaz
  <2>2. /\ avarias' \in [TiposAvaria -> 0..MaxAvarias]
        /\ avarias'["bd"] = avarias["bd"] + 1 /\ avarias'["queda"] = avarias["queda"]
    BY <1>8, AvariaFaz DEF TiposAvaria
  <2>3. ImportacaoTypeOK'
    BY <1>1, <1>4, <1>8, <2>1, <2>2, ImportacaoTiposSao, ImportacaoTiposDe DEF Move
  <2> QED
    BY <1>1, <1>3, <1>4, <1>8, <2>1, <2>2, <2>3
<1> QED
  BY <1>5, <1>6, <1>7, <1>8

LEMMA LinhaFaz ==
  ASSUME ImportacaoTypeOK, UNCHANGED redis, NEW x \in Fios, LinhaCriada(x) \/ LinhaFalhou(x)
  PROVE  /\ ImportacaoTypeOK' /\ UNCHANGED <<lote, relatorio, contratos, job, avarias, ignorado>>
         /\ fio[x].ponto \in {"criado", "falhou"}
         /\ \A k \in Linhas : k # fio[x].l => linha'[k] = linha[k]
         /\ fio[x].l \in Linhas =>
              linha'[fio[x].l] = IF fio[x].ponto = "criado" THEN "CRIADO" ELSE "FALHOU"
         /\ \E f \in FioTipo : Move(x, f) /\ f.ponto = "linhas" /\ f.resto = fio[x].resto \ {fio[x].l}
<1> DEFINE f == Em("linhas", fio[x].resto \ {fio[x].l}, SemLinha, Zero)
           estado == IF fio[x].ponto = "criado" THEN "CRIADO" ELSE "FALHOU"
<1>1. fio[x] \in FioTipo /\ linha \in [Linhas -> {"AUSENTE", "PENDENTE", "CRIADO", "FALHOU"}]
  BY ImportacaoTiposSao
<1>2. f \in FioTipo /\ f.ponto = "linhas" /\ f.resto = fio[x].resto \ {fio[x].l}
  <2>1. "linhas" \in Pontos /\ fio[x].resto \ {fio[x].l} \in SUBSET Linhas
    BY <1>1 DEF FioTipo, Pontos
  <2> QED
    BY <2>1, ZeroContado, EmFaz
<1>3. /\ UNCHANGED <<lote, relatorio, contratos, job, avarias, ignorado>>
      /\ fio[x].ponto \in {"criado", "falhou"} /\ linha' = [linha EXCEPT ![fio[x].l] = estado]
      /\ Vai(x, f)
  BY DEF LinhaCriada, LinhaFalhou, ProximaLinha, Esta
<1>4. estado \in {"CRIADO", "FALHOU"}
  OBVIOUS
<1> HIDE DEF f, estado
<1>5. Move(x, f)
  BY <1>2, <1>3, VaiFaz
<1>6. /\ linha' \in [Linhas -> {"AUSENTE", "PENDENTE", "CRIADO", "FALHOU"}]
      /\ \A k \in Linhas : k # fio[x].l => linha'[k] = linha[k]
      /\ fio[x].l \in Linhas => linha'[fio[x].l] = estado
  BY <1>1, <1>3, <1>4
<1>7. ImportacaoTypeOK'
  BY <1>3, <1>5, <1>6, ImportacaoTiposSao, ImportacaoTiposDe DEF Move
<1> QED
  BY <1>2, <1>3, <1>5, <1>6, <1>7 DEF estado

LEMMA LinhaCriadaFalhaFaz ==
  ASSUME ImportacaoTypeOK, UNCHANGED redis, NEW x \in Fios, LinhaCriadaFalha(x)
  PROVE  /\ ImportacaoTypeOK' /\ UNCHANGED <<lote, relatorio, linha, contratos, job, ignorado>>
         /\ fio[x].ponto = "criado"
         /\ avarias'["bd"] = avarias["bd"] + 1 /\ avarias'["queda"] = avarias["queda"]
         /\ \E f \in FioTipo : Move(x, f) /\ f.ponto = "falhou" /\ f.resto = fio[x].resto /\ f.l = fio[x].l
<1>1. /\ UNCHANGED <<lote, relatorio, linha, contratos, job, ignorado>> /\ fio[x].ponto = "criado"
      /\ Avaria("bd") /\ VaiPara(x, "falhou") /\ "falhou" \in Pontos
  BY DEF LinhaCriadaFalha, Esta, Pontos
<1>2. PICK f \in FioTipo : Move(x, f) /\ f.ponto = "falhou" /\ f.resto = fio[x].resto /\ f.l = fio[x].l
  BY <1>1, VaiParaFaz
<1>3. /\ avarias' \in [TiposAvaria -> 0..MaxAvarias]
      /\ avarias'["bd"] = avarias["bd"] + 1 /\ avarias'["queda"] = avarias["queda"]
  BY <1>1, AvariaFaz DEF TiposAvaria
<1>4. ImportacaoTypeOK'
  BY <1>1, <1>2, <1>3, ImportacaoTiposSao, ImportacaoTiposDe DEF Move
<1> QED
  BY <1>1, <1>2, <1>3, <1>4

LEMMA ContarLinhasFaz ==
  ASSUME ImportacaoTypeOK, UNCHANGED redis, NEW x \in Fios, ContarLinhas(x)
  PROVE  /\ ImportacaoTypeOK' /\ UNCHANGED <<lote, relatorio, linha, contratos, job, avarias, ignorado>>
         /\ fio[x].ponto = "linhas"
         /\ \E f \in FioTipo : Move(x, f) /\ f.ponto = "gravar" /\ f.cont = Apurado
<1> DEFINE f == Em("gravar", {}, SemLinha, Apurado)
<1>1. f \in FioTipo /\ f.ponto = "gravar" /\ f.cont = Apurado
  <2>1. Apurado \in Contagem
    BY Contado DEF Apurado
  <2>2. "gravar" \in Pontos /\ {} \in SUBSET Linhas /\ SemLinha \in Linhas \cup {SemLinha}
    BY DEF Pontos
  <2> QED
    BY <2>1, <2>2, EmFaz
<1>2. /\ UNCHANGED <<lote, relatorio, linha, contratos, job, avarias, ignorado>> /\ fio[x].ponto = "linhas"
      /\ Vai(x, f)
  BY DEF ContarLinhas, Esta, Apurado
<1> HIDE DEF f
<1>3. Move(x, f)
  BY <1>1, <1>2, VaiFaz
<1>4. ImportacaoTypeOK'
  BY <1>2, <1>3, ImportacaoTiposSao, ImportacaoTiposDe DEF Move
<1> QED
  BY <1>1, <1>2, <1>3, <1>4

LEMMA GravarLoteFaz ==
  ASSUME ImportacaoTypeOK, UNCHANGED redis, NEW x \in Fios, GravarLote(x)
  PROVE  /\ ImportacaoTypeOK' /\ UNCHANGED <<linha, contratos, job, avarias, ignorado>>
         /\ fio[x].ponto = "gravar" /\ lote' = estadoFinal(fio[x].cont) /\ lote' \in Finais
         /\ relatorio' = fio[x].cont
         /\ \E f \in FioTipo : Move(x, f) /\ f.ponto = IF x = Operario THEN "fim" ELSE "livre"
<1> DEFINE f == IF x = Operario THEN Em("fim", {}, SemLinha, Zero) ELSE FioLivre
<1>1. f \in FioTipo /\ f.ponto = IF x = Operario THEN "fim" ELSE "livre"
  <2>1. "fim" \in Pontos /\ {} \in SUBSET Linhas /\ SemLinha \in Linhas \cup {SemLinha}
    BY DEF Pontos
  <2>2. /\ Em("fim", {}, SemLinha, Zero) \in FioTipo /\ Em("fim", {}, SemLinha, Zero).ponto = "fim"
    BY <2>1, ZeroContado, EmFaz
  <2> QED
    BY <2>2, FioLivreTipo
<1>2. /\ UNCHANGED <<linha, contratos, job, avarias, ignorado>> /\ fio[x].ponto = "gravar"
      /\ lote' = estadoFinal(fio[x].cont) /\ relatorio' = fio[x].cont /\ Vai(x, f)
  BY DEF GravarLote, Esta
<1> HIDE DEF f
<1>3. Move(x, f)
  BY <1>1, <1>2, VaiFaz
<1>4. lote' \in Finais
  BY <1>2 DEF estadoFinal, Finais
<1>5. relatorio' \in Contagem
  BY <1>2, ImportacaoTiposSao DEF FioTipo
<1>6. ImportacaoTypeOK'
  BY <1>2, <1>3, <1>4, <1>5, ImportacaoTiposSao, ImportacaoTiposDe DEF Move
<1> QED
  BY <1>1, <1>2, <1>3, <1>4, <1>6

LEMMA RunRebentaFaz ==
  ASSUME ImportacaoTypeOK, UNCHANGED redis, NEW x \in Fios, RunRebenta(x)
  PROVE  /\ ImportacaoTypeOK' /\ UNCHANGED <<lote, relatorio, linha, contratos, ignorado>>
         /\ fio[x].ponto \in {"linhas", "falhou", "gravar"}
         /\ avarias'["bd"] = avarias["bd"] + 1 /\ avarias'["queda"] = avarias["queda"]
         /\ avarias["bd"] \in Nat
         /\ \E f \in FioTipo : Move(x, f) /\ f.ponto = IF x = Operario THEN "livre" ELSE "compensar"
         /\ x # Operario => job' = job
<1>1. /\ UNCHANGED <<lote, relatorio, linha, contratos, ignorado>> /\ fio[x].ponto \in {"linhas", "falhou", "gravar"}
      /\ Avaria("bd")
      /\ IF x = Operario THEN job' = [job EXCEPT !.estado = "falhado"] /\ Vai(x, FioLivre)
                         ELSE job' = job /\ VaiPara(x, "compensar")
  BY DEF RunRebenta
<1>2. \E f \in FioTipo : Move(x, f) /\ f.ponto = IF x = Operario THEN "livre" ELSE "compensar"
  BY <1>1, FioLivreTipo, VaiFaz, VaiParaFaz DEF Pontos
<1>3. job \in JobTipo /\ [job EXCEPT !.estado = "falhado"] \in JobTipo
  BY ImportacaoTiposSao DEF JobTipo
<1>4. job' \in JobTipo /\ (x # Operario => job' = job)
  BY <1>1, <1>3
<1>5. /\ avarias' \in [TiposAvaria -> 0..MaxAvarias] /\ avarias["bd"] \in Nat
      /\ avarias'["bd"] = avarias["bd"] + 1 /\ avarias'["queda"] = avarias["queda"]
  BY <1>1, AvariaFaz DEF TiposAvaria
<1>6. ImportacaoTypeOK'
  BY <1>1, <1>2, <1>4, <1>5, ImportacaoTiposSao, ImportacaoTiposDe DEF Move
<1> QED
  BY <1>1, <1>2, <1>4, <1>5, <1>6

LEMMA QuedaFaz ==
  ASSUME ImportacaoTypeOK, UNCHANGED redis, NEW x \in Fios, Queda(x)
  PROVE  /\ ImportacaoTypeOK' /\ UNCHANGED <<lote, relatorio, linha, contratos, job, ignorado>>
         /\ fio[x].ponto # "livre" /\ Move(x, FioLivre)
         /\ avarias'["queda"] = avarias["queda"] + 1 /\ avarias'["bd"] = avarias["bd"]
         /\ avarias["queda"] \in Nat
<1>1. /\ UNCHANGED <<lote, relatorio, linha, contratos, job, ignorado>> /\ fio[x].ponto # "livre"
      /\ Avaria("queda") /\ Vai(x, FioLivre)
  BY DEF Queda, Esta
<1>2. Move(x, FioLivre)
  BY <1>1, FioLivreTipo, VaiFaz
<1>3. /\ avarias' \in [TiposAvaria -> 0..MaxAvarias] /\ avarias["queda"] \in Nat
      /\ avarias'["queda"] = avarias["queda"] + 1 /\ avarias'["bd"] = avarias["bd"]
  BY <1>1, AvariaFaz DEF TiposAvaria
<1>4. ImportacaoTypeOK'
  BY <1>1, <1>2, <1>3, ImportacaoTiposSao, ImportacaoTiposDe DEF Move
<1> QED
  BY <1>1, <1>2, <1>3, <1>4

(* The queue and its worker.                                               *)
LEMMA FilaFaz ==
  ASSUME ImportacaoTypeOK, UNCHANGED redis
  PROVE  /\ RunJob => /\ ImportacaoTypeOK' /\ UNCHANGED <<lote, relatorio, linha, contratos, avarias, ignorado>>
                      /\ job.estado = "espera" /\ job'.estado = "activo" /\ job'.paragens = job.paragens
                      /\ \E f \in FioTipo : Move(Operario, f) /\ f.ponto = "linhas" /\ f.resto = Pendentes
         /\ FimJob => /\ ImportacaoTypeOK' /\ UNCHANGED <<lote, relatorio, linha, contratos, avarias, ignorado>>
                      /\ fio[Operario].ponto = "fim"
                      /\ job'.estado = "concluido" /\ job'.paragens = job.paragens
                      /\ Move(Operario, FioLivre)
         /\ Reentregar => /\ ImportacaoTypeOK'
                          /\ UNCHANGED <<lote, relatorio, linha, contratos, fio, avarias, ignorado>>
                          /\ job.estado = "activo" /\ fio[Operario].ponto = "livre"
                          /\ \/ job'.estado = "espera" /\ job'.paragens = job.paragens + 1
                             \/ job.paragens = 1 /\ job'.estado = "falhado"
         /\ Expurgar => /\ ImportacaoTypeOK'
                        /\ UNCHANGED <<lote, relatorio, linha, contratos, fio, avarias, ignorado>>
                        /\ job.estado \in {"concluido", "falhado"} /\ job' = SemJob
<1>1. job \in JobTipo /\ Operario \in Fios
  BY ImportacaoTiposSao DEF Fios
<1>2. \A e \in {"activo", "concluido", "falhado"} :
        /\ [job EXCEPT !.estado = e] \in JobTipo
        /\ [job EXCEPT !.estado = e].estado = e /\ [job EXCEPT !.estado = e].paragens = job.paragens
  BY <1>1 DEF JobTipo
<1>3. ASSUME RunJob
      PROVE  /\ ImportacaoTypeOK' /\ UNCHANGED <<lote, relatorio, linha, contratos, avarias, ignorado>>
             /\ job.estado = "espera" /\ job'.estado = "activo" /\ job'.paragens = job.paragens
             /\ \E f \in FioTipo : Move(Operario, f) /\ f.ponto = "linhas" /\ f.resto = Pendentes
  <2> DEFINE f == Em("linhas", Pendentes, SemLinha, Zero)
  <2>1. f \in FioTipo /\ f.ponto = "linhas" /\ f.resto = Pendentes
    BY ZeroContado, EmFaz DEF Pendentes, Pontos
  <2>2. /\ UNCHANGED <<lote, relatorio, linha, contratos, avarias, ignorado>> /\ job.estado = "espera"
        /\ job' = [job EXCEPT !.estado = "activo"] /\ Vai(Operario, f)
    BY <1>3 DEF RunJob
  <2> HIDE DEF f
  <2>3. Move(Operario, f)
    BY <1>1, <2>1, <2>2, VaiFaz
  <2>4. ImportacaoTypeOK'
    BY <1>2, <2>2, <2>3, ImportacaoTiposSao, ImportacaoTiposDe DEF Move
  <2> QED
    BY <1>2, <2>1, <2>2, <2>3, <2>4
<1>4. ASSUME FimJob
      PROVE  /\ ImportacaoTypeOK' /\ UNCHANGED <<lote, relatorio, linha, contratos, avarias, ignorado>>
             /\ fio[Operario].ponto = "fim"
             /\ job'.estado = "concluido" /\ job'.paragens = job.paragens
             /\ Move(Operario, FioLivre)
  <2>1. /\ UNCHANGED <<lote, relatorio, linha, contratos, avarias, ignorado>> /\ fio[Operario].ponto = "fim"
        /\ job' = [job EXCEPT !.estado = "concluido"] /\ Vai(Operario, FioLivre)
    BY <1>4 DEF FimJob, Esta
  <2>2. Move(Operario, FioLivre)
    BY <1>1, <2>1, FioLivreTipo, VaiFaz
  <2>3. ImportacaoTypeOK'
    BY <1>2, <2>1, <2>2, ImportacaoTiposSao, ImportacaoTiposDe DEF Move
  <2> QED
    BY <1>2, <2>1, <2>2, <2>3
<1>5. ASSUME Reentregar
      PROVE  /\ ImportacaoTypeOK' /\ UNCHANGED <<lote, relatorio, linha, contratos, fio, avarias, ignorado>>
             /\ job.estado = "activo" /\ fio[Operario].ponto = "livre"
             /\ \/ job'.estado = "espera" /\ job'.paragens = job.paragens + 1
                \/ job.paragens = 1 /\ job'.estado = "falhado"
  <2>1. /\ UNCHANGED <<lote, relatorio, linha, contratos, fio, avarias, ignorado>>
        /\ job.estado = "activo" /\ fio[Operario].ponto = "livre"
        /\ job' = IF job.paragens < 1 THEN [estado |-> "espera", paragens |-> job.paragens + 1]
                                      ELSE [job EXCEPT !.estado = "falhado"]
    BY <1>5 DEF Reentregar, Esta, MaxParagens
  <2>2. job.paragens \in 0..1
    BY <1>1 DEF JobTipo, MaxParagens
  <2>3. job.paragens < 1 => [estado |-> "espera", paragens |-> job.paragens + 1] \in JobTipo
    BY <2>2 DEF JobTipo, MaxParagens
  <2>4. ImportacaoTypeOK'
    BY <1>2, <2>1, <2>3, ImportacaoTiposSao, ImportacaoTiposDe
  <2> QED
    BY <1>2, <2>1, <2>2, <2>4
<1>6. ASSUME Expurgar
      PROVE  /\ ImportacaoTypeOK' /\ UNCHANGED <<lote, relatorio, linha, contratos, fio, avarias, ignorado>>
             /\ job.estado \in {"concluido", "falhado"} /\ job' = SemJob
  <2>1. /\ UNCHANGED <<lote, relatorio, linha, contratos, fio, avarias, ignorado>>
        /\ job.estado \in {"concluido", "falhado"} /\ job' = SemJob
    BY <1>6 DEF Expurgar
  <2>2. SemJob \in JobTipo
    BY DEF SemJob, JobTipo, MaxParagens
  <2>3. ImportacaoTypeOK'
    BY <2>1, <2>2, ImportacaoTiposSao, ImportacaoTiposDe
  <2> QED
    BY <2>1, <2>3
<1> QED
  BY <1>3, <1>4, <1>5, <1>6

LEMMA ImportacaoTiposPasso == ImportacaoTypeOK /\ [ImportacaoNext]_importacaoVars => ImportacaoTypeOK'
<1> SUFFICES ASSUME ImportacaoTypeOK, [ImportacaoNext]_importacaoVars PROVE ImportacaoTypeOK'
  OBVIOUS
<1>1. CASE UNCHANGED importacaoVars
  BY <1>1 DEF importacaoVars, mutaveis, ImportacaoTypeOK
<1>2. CASE ImportacaoNext
  <2>1. Passo /\ UNCHANGED redis /\ Arranques \subseteq Fios
    BY <1>2 DEF ImportacaoNext, Fios
  <2>2. CASE \E l \in Linhas : AddLinha(l)
    BY <2>1, <2>2, AddLinhaFaz
  <2>3. CASE \E p \in Arranques : Start(p)
    BY <2>1, <2>3, StartFaz
  <2>4. CASE RunJob \/ FimJob \/ Reentregar \/ Expurgar
    BY <2>1, <2>4, FilaFaz
  <2>5. CASE \E x \in Fios : Run(x) \/ LinhaCriadaFalha(x) \/ RunRebenta(x) \/ Queda(x)
    BY <2>1, <2>5, CriarContratoFaz, LinhaFaz, ContarLinhasFaz, GravarLoteFaz, LinhaCriadaFalhaFaz,
       RunRebentaFaz, QuedaFaz DEF Run
  <2> QED
    BY <2>1, <2>2, <2>3, <2>4, <2>5 DEF Passo
<1> QED
  BY <1>1, <1>2

(* The rows, the job and the threads keep their types, for any lines,      *)
(* requests and failures.                                                  *)
THEOREM ImportacaoTypeCorrect == ImportacaoSpec => []ImportacaoTypeOK
BY ImportacaoInicio, ImportacaoTiposPasso, PTL DEF ImportacaoSpec

-----------------------------------------------------------------------------
(***************************************************************************)
(* With the queue only the worker handles lines: those it has left are     *)
(* PENDENTE, and its job is active.  Without it the queue is never used.   *)
(***************************************************************************)
Fila ==
  redis =>
    /\ \A p \in Arranques : fio[p].ponto \in AoSair
    /\ fio[Operario].ponto \in {"livre", "linhas", "criado", "falhou", "gravar", "fim"}
    /\ fio[Operario].ponto # "livre" => job.estado = "activo"
    /\ fio[Operario].ponto \in {"linhas", "criado", "falhou"} =>
         \A l \in fio[Operario].resto : linha[l] = "PENDENTE"
    /\ fio[Operario].ponto \in {"criado", "falhou"} => fio[Operario].l \in fio[Operario].resto
Inline == ~redis => job = SemJob /\ fio[Operario] = FioLivre

LEMMA FilaInicio == ImportacaoInit => Fila /\ Inline
<1> SUFFICES ASSUME ImportacaoInit PROVE Fila /\ Inline
  OBVIOUS
<1>1. \A x \in Fios : fio[x] = FioLivre
  BY DEF ImportacaoInit
<1>2. Operario \in Fios /\ Arranques \subseteq Fios /\ job = SemJob
  BY DEF Fios, ImportacaoInit
<1> QED
  BY <1>1, <1>2, FioLivreTipo DEF Fila, Inline, AoSair

(* A step of the queued import, as the worker sees it.                     *)
PassoDaFila ==
  \/ \E l \in Linhas : AddLinha(l)
  \/ \E p \in Arranques : Start(p) \/ Queda(p)
  \/ RunJob \/ FimJob \/ Reentregar \/ Expurgar
  \/ \E l \in Linhas : CriarContrato(Operario, l)
  \/ LinhaCriada(Operario) \/ LinhaFalhou(Operario) \/ LinhaCriadaFalha(Operario)
  \/ ContarLinhas(Operario) \/ GravarLote(Operario) \/ RunRebenta(Operario) \/ Queda(Operario)

LEMMA SoDaFila ==
  ASSUME ImportacaoTypeOK, Fila, redis, ImportacaoNext
  PROVE  PassoDaFila
<1>1. \A p \in Arranques : fio[p].ponto \in AoSair
  BY DEF Fila
<1>2. ASSUME NEW p \in Arranques PROVE ~Run(p) /\ ~LinhaCriadaFalha(p) /\ ~RunRebenta(p)
  BY <1>1 DEF AoSair, Run, CriarContrato, LinhaCriada, LinhaFalhou, ContarLinhas, GravarLote,
              LinhaCriadaFalha, RunRebenta, Esta
<1> QED
  BY <1>2 DEF ImportacaoNext, Passo, PassoDaFila, Fios, Run

LEMMA FilaPasso ==
  ASSUME ImportacaoTypeOK, Fila, redis, UNCHANGED redis, PassoDaFila
  PROVE  Fila'
<1>0. Operario \in Fios /\ Arranques \subseteq Fios /\ Operario \notin Arranques
  BY OperarioAssumption DEF Fios
<1>1. ASSUME NEW p \in Arranques, Start(p) \/ Queda(p) PROVE Fila'
  <2>1. /\ fio'[Operario] = fio[Operario] /\ linha' = linha
        /\ \A q \in Arranques : fio'[q].ponto \in AoSair
        /\ job' = job \/ job.estado = "nenhum"
    <3>1. CASE Start(p)
      BY <1>0, <3>1, StartFaz DEF Move, Fila
    <3>2. CASE Queda(p)
      BY <1>0, <3>2, QuedaFaz, FioLivreTipo DEF Move, Fila, AoSair
    <3> QED
      BY <1>1, <3>1, <3>2
  <2> QED
    BY <2>1 DEF Fila
<1>2. ASSUME NEW l \in Linhas, AddLinha(l) PROVE Fila'
  BY <1>2, AddLinhaFaz, ImportacaoTiposSao DEF Fila, FioTipo, Fios
<1>3. CASE RunJob
  BY <1>0, <1>3, FilaFaz DEF Move, Fila, Pendentes
<1>4. CASE FimJob
  BY <1>0, <1>4, FilaFaz, FioLivreTipo DEF Move, Fila
<1>5. CASE Reentregar \/ Expurgar
  BY <1>0, <1>5, FilaFaz DEF Fila
<1>6. ASSUME NEW l \in Linhas, CriarContrato(Operario, l) PROVE Fila'
  BY <1>0, <1>6, CriarContratoFaz DEF Move, Fila
<1>7. CASE LinhaCriada(Operario) \/ LinhaFalhou(Operario)
  BY <1>0, <1>7, LinhaFaz, ImportacaoTiposSao DEF Move, Fila, FioTipo
<1>8. CASE LinhaCriadaFalha(Operario)
  BY <1>0, <1>8, LinhaCriadaFalhaFaz DEF Move, Fila
<1>9. CASE ContarLinhas(Operario)
  BY <1>0, <1>9, ContarLinhasFaz DEF Move, Fila
<1>10. CASE GravarLote(Operario)
  BY <1>0, <1>10, GravarLoteFaz DEF Move, Fila
<1>11. CASE RunRebenta(Operario)
  BY <1>0, <1>11, RunRebentaFaz DEF Move, Fila
<1>12. CASE Queda(Operario)
  BY <1>0, <1>12, QuedaFaz, FioLivreTipo DEF Move, Fila
<1> QED
  BY <1>1, <1>2, <1>3, <1>4, <1>5, <1>6, <1>7, <1>8, <1>9, <1>10, <1>11, <1>12 DEF PassoDaFila

-----------------------------------------------------------------------------
(* Inline, a request that leaves its lote PROCESSANDO still has it in hand, *)
(* and one that compensates has met a first database failure.              *)
NaMao == \E p \in Arranques : fio[p].ponto \notin {"livre", "marcar"}
Compensado == ~redis => \A p \in Arranques : fio[p].ponto = "compensar" => avarias["bd"] >= 1
SemZombieDe == (~redis /\ avarias["queda"] = 0 /\ avarias["bd"] <= 1 /\ lote = "PROCESSANDO") => NaMao

LEMMA InlinePasso ==
  ASSUME ImportacaoTypeOK, Inline, Compensado, SemZombieDe, ~redis, UNCHANGED redis, Passo
  PROVE  Inline' /\ Compensado' /\ SemZombieDe'
<1>0. /\ Operario \in Fios /\ Arranques \subseteq Fios /\ Operario \notin Arranques
      /\ \A x \in Fios : x = Operario \/ x \in Arranques
      /\ job = SemJob /\ fio[Operario] = FioLivre
      /\ SemJob.estado = "nenhum"
  BY OperarioAssumption DEF Fios, Inline, SemJob
<1>1. ~Run(Operario) /\ ~LinhaCriadaFalha(Operario) /\ ~RunRebenta(Operario) /\ ~Queda(Operario)
  BY <1>0, FioLivreTipo DEF Run, CriarContrato, LinhaCriada, LinhaFalhou, ContarLinhas, GravarLote,
                            LinhaCriadaFalha, RunRebenta, Queda, Esta
<1>2. ~RunJob /\ ~FimJob /\ ~Reentregar /\ ~Expurgar
  BY <1>0, FioLivreTipo DEF RunJob, FimJob, Reentregar, Expurgar, Esta
<1>bd. avarias["bd"] \in Nat
  <2>1. avarias["bd"] \in 0..MaxAvarias
    BY ImportacaoTiposSao DEF TiposAvaria
  <2> QED
    BY <2>1
(* A thread that keeps the lote in hand, gives it back, finishes it, or    *)
(* lets it go in a failure that is one too many.                           *)
<1>3. ASSUME NEW p \in Arranques, NEW f \in FioTipo, Move(p, f), job' = job,
             avarias'["bd"] = avarias["bd"] \/ avarias'["bd"] = avarias["bd"] + 1,
             f.ponto = "compensar" => avarias'["bd"] = avarias["bd"] + 1,
             \/ lote' # "PROCESSANDO"
             \/ f.ponto \notin {"livre", "marcar"}
             \/ lote' = lote /\ fio[p].ponto \in {"livre", "marcar"} /\ avarias'["queda"] = avarias["queda"]
             \/ avarias'["queda"] # 0
             \/ fio[p].ponto = "compensar" /\ avarias'["bd"] = avarias["bd"] + 1
      PROVE  Inline' /\ Compensado' /\ SemZombieDe'
  <2>1. fio'[Operario] = fio[Operario] /\ Inline'
    BY <1>0, <1>3 DEF Move, Inline
  <2>2. Compensado'
    BY <1>0, <1>bd, <1>3 DEF Move, Compensado
  <2>3. fio[p].ponto = "compensar" => avarias["bd"] >= 1
    BY DEF Compensado
  <2>4. SemZombieDe'
    BY <1>0, <1>bd, <1>3, <2>3 DEF Move, SemZombieDe, NaMao
  <2> QED
    BY <2>1, <2>2, <2>4
<1>4. ASSUME NEW l \in Linhas, AddLinha(l) PROVE Inline' /\ Compensado' /\ SemZombieDe'
  <2>1. UNCHANGED <<lote, job, fio, avarias>>
    BY <1>4, AddLinhaFaz
  <2> QED
    BY <2>1 DEF Inline, Compensado, SemZombieDe, NaMao
<1>5. ASSUME NEW p \in Arranques, Start(p) PROVE Inline' /\ Compensado' /\ SemZombieDe'
  <2>1. PICK f \in FioTipo :
          /\ Move(p, f) /\ f.ponto # "compensar"
          /\ \/ lote' = "EM_FILA"
             \/ lote' = "PROCESSANDO" /\ f.ponto = "enfileirar"
             \/ /\ lote' = lote
                /\ \/ fio[p].ponto = "livre" \/ f.ponto \notin {"livre", "marcar"}
                   \/ fio[p].ponto \in {"marcar", "compensar"} /\ avarias'["bd"] = avarias["bd"] + 1
    BY <1>5, StartFaz
  <2>2. /\ job' = job /\ avarias'["queda"] = avarias["queda"]
        /\ avarias'["bd"] = avarias["bd"] \/ avarias'["bd"] = avarias["bd"] + 1
    BY <1>5, StartFaz
  <2> QED
    BY <1>3, <2>1, <2>2
<1>6. ASSUME NEW p \in Arranques, Run(p) PROVE Inline' /\ Compensado' /\ SemZombieDe'
  <2>1. ASSUME NEW l \in Linhas, CriarContrato(p, l) PROVE Inline' /\ Compensado' /\ SemZombieDe'
    BY <1>0, <1>3, <2>1, CriarContratoFaz
  <2>2. CASE LinhaCriada(p) \/ LinhaFalhou(p)
    BY <1>0, <1>3, <2>2, LinhaFaz
  <2>3. CASE ContarLinhas(p)
    BY <1>0, <1>3, <2>3, ContarLinhasFaz
  <2>4. CASE GravarLote(p)
    <3>1. lote' # "PROCESSANDO"
      BY <1>0, <2>4, GravarLoteFaz DEF Finais
    <3> QED
      BY <1>0, <1>3, <2>4, <3>1, GravarLoteFaz
  <2> QED
    BY <1>6, <2>1, <2>2, <2>3, <2>4 DEF Run
<1>7. ASSUME NEW p \in Arranques, LinhaCriadaFalha(p) PROVE Inline' /\ Compensado' /\ SemZombieDe'
  BY <1>0, <1>3, <1>7, LinhaCriadaFalhaFaz
<1>8. ASSUME NEW p \in Arranques, RunRebenta(p) PROVE Inline' /\ Compensado' /\ SemZombieDe'
  BY <1>0, <1>3, <1>8, RunRebentaFaz
<1>9. ASSUME NEW p \in Arranques, Queda(p) PROVE Inline' /\ Compensado' /\ SemZombieDe'
  BY <1>0, <1>3, <1>9, QuedaFaz, FioLivreTipo
<1> QED
  BY <1>0, <1>1, <1>2, <1>4, <1>5, <1>6, <1>7, <1>8, <1>9 DEF Passo

-----------------------------------------------------------------------------
(***************************************************************************)
(* What the lote reports.  As long as nothing but one process died, a job  *)
(* once taken is run to its end, and what was counted at the end of the    *)
(* last run still holds, since only a run changes a line that is handled.  *)
(***************************************************************************)
Quieto ==
  (redis /\ avarias["bd"] = 0 /\ avarias["queda"] <= 1) =>
    /\ job.estado # "falhado" /\ job.paragens <= avarias["queda"]
    /\ (job.estado = "activo" /\ fio[Operario].ponto = "livre") => avarias["queda"] >= 1 + job.paragens
    /\ fio[Operario].ponto = "gravar" => fio[Operario].cont = Apurado
    /\ \/ fio[Operario].ponto = "fim"
       \/ fio[Operario].ponto = "livre" /\ job.estado \in {"nenhum", "concluido"}
       => relatorio = Apurado
    /\ lote \in Finais => lote = estadoFinal(relatorio)

LEMMA ApuradoFica ==
  ASSUME \A l \in Linhas : linha'[l] = linha[l] \/ (linha[l] = "AUSENTE" /\ linha'[l] = "PENDENTE")
  PROVE  Apurado' = Apurado
<1>1. /\ {l \in Linhas : linha'[l] = "CRIADO"} = {l \in Linhas : linha[l] = "CRIADO"}
      /\ {l \in Linhas : linha'[l] = "FALHOU"} = {l \in Linhas : linha[l] = "FALHOU"}
  OBVIOUS
<1> QED
  BY <1>1 DEF Apurado

LEMMA QuietoInicio == ImportacaoInit => Quieto
<1> SUFFICES ASSUME ImportacaoInit PROVE Quieto
  OBVIOUS
<1>1. /\ fio[Operario] = FioLivre /\ job = SemJob /\ relatorio = Zero /\ lote = "EM_FILA"
      /\ avarias["queda"] = 0 /\ \A l \in Linhas : linha[l] = "AUSENTE"
  BY DEF ImportacaoInit, Fios, TiposAvaria
<1>2. {l \in Linhas : linha[l] = "CRIADO"} = {} /\ {l \in Linhas : linha[l] = "FALHOU"} = {}
  BY <1>1
<1>3. Apurado = Zero
  BY <1>2, FS_EmptySet DEF Apurado, Zero
<1>4. lote \notin Finais /\ job.estado = "nenhum" /\ job.paragens = 0
  BY <1>1 DEF Finais, SemJob
<1> QED
  BY <1>1, <1>3, <1>4, FioLivreTipo DEF Quieto

LEMMA QuietoPasso ==
  ASSUME ImportacaoTypeOK, Fila, Quieto, redis, UNCHANGED redis, PassoDaFila
  PROVE  Quieto'
<1>0. Operario \in Fios /\ Arranques \subseteq Fios /\ Operario \notin Arranques
  BY OperarioAssumption DEF Fios
<1>1. avarias["queda"] \in Nat /\ avarias["bd"] \in Nat /\ job.paragens \in {0, 1}
  <2>1. /\ avarias["queda"] \in 0..MaxAvarias /\ avarias["bd"] \in 0..MaxAvarias
        /\ job.paragens \in 0..1
    BY ImportacaoTiposSao DEF TiposAvaria, JobTipo, MaxParagens
  <2> QED
    BY <2>1
(* A step of a request: the worker's thread and the handled lines stay.    *)
<1>2. ASSUME fio'[Operario] = fio[Operario], Apurado' = Apurado, relatorio' = relatorio,
             lote' = lote \/ lote' \notin Finais,
             job' = job \/ (job.estado = "nenhum" /\ job'.estado = "espera" /\ job'.paragens = 0),
             avarias'["bd"] = avarias["bd"] \/ avarias'["bd"] = avarias["bd"] + 1,
             avarias'["queda"] = avarias["queda"] \/ avarias'["queda"] = avarias["queda"] + 1
      PROVE  Quieto'
  <2>1. redis' = redis
    OBVIOUS
  <2> QED
    BY <1>1, <1>2, <2>1 DEF Quieto
<1>3. ASSUME NEW p \in Arranques, Start(p) PROVE Quieto'
  <2>1. Apurado' = Apurado
    BY <1>0, <1>3, StartFaz, ApuradoFica
  <2>2. lote' = lote \/ lote' \notin Finais
    BY <1>0, <1>3, StartFaz DEF Finais
  <2> QED
    BY <1>0, <1>2, <1>3, <2>1, <2>2, StartFaz DEF Move
<1>4. ASSUME NEW p \in Arranques, Queda(p) PROVE Quieto'
  <2>1. Apurado' = Apurado
    BY <1>0, <1>4, QuedaFaz, ApuradoFica
  <2> QED
    BY <1>0, <1>2, <1>4, <2>1, QuedaFaz DEF Move
<1>5. ASSUME NEW l \in Linhas, AddLinha(l) PROVE Quieto'
  <2>1. Apurado' = Apurado
    BY <1>5, AddLinhaFaz, ApuradoFica
  <2> QED
    BY <1>2, <1>5, <2>1, AddLinhaFaz
<1>6. CASE RunJob
  <2>1. fio'[Operario].ponto = "linhas" /\ job'.estado = "activo" /\ job'.paragens = job.paragens
        /\ UNCHANGED <<lote, relatorio, avarias>>
    BY <1>6, FilaFaz DEF Move
  <2> QED
    BY <2>1 DEF Quieto
<1>7. CASE FimJob
  <2>1. /\ fio'[Operario].ponto = "livre" /\ fio[Operario].ponto = "fim"
        /\ job'.estado = "concluido" /\ job'.paragens = job.paragens
        /\ UNCHANGED <<lote, relatorio, linha, avarias>>
    BY <1>7, FilaFaz, FioLivreTipo DEF Move
  <2>2. Apurado' = Apurado
    BY <2>1, ApuradoFica
  <2> QED
    BY <2>1, <2>2 DEF Quieto
<1>8. CASE Reentregar
  <2>1. /\ UNCHANGED <<lote, relatorio, linha, fio, avarias>>
        /\ job.estado = "activo" /\ fio[Operario].ponto = "livre"
        /\ \/ job'.estado = "espera" /\ job'.paragens = job.paragens + 1
           \/ job.paragens = 1 /\ job'.estado = "falhado"
    BY <1>8, FilaFaz
  <2> QED
    BY <1>1, <2>1 DEF Quieto
<1>9. CASE Expurgar
  <2>1. /\ UNCHANGED <<lote, relatorio, linha, fio, avarias>>
        /\ job.estado \in {"concluido", "falhado"} /\ job'.estado = "nenhum" /\ job'.paragens = 0
    BY <1>9, FilaFaz DEF SemJob
  <2>2. Apurado' = Apurado
    BY <2>1, ApuradoFica
  <2> QED
    BY <1>1, <2>1, <2>2 DEF Quieto
<1>10. ASSUME NEW l \in Linhas, CriarContrato(Operario, l) PROVE Quieto'
  <2>1. /\ fio'[Operario].ponto \in {"criado", "falhou"} /\ UNCHANGED <<lote, relatorio, job>>
        /\ avarias'["queda"] = avarias["queda"]
        /\ avarias'["bd"] = avarias["bd"] \/ avarias'["bd"] = avarias["bd"] + 1
    BY <1>0, <1>10, CriarContratoFaz DEF Move
  <2> QED
    BY <1>1, <2>1 DEF Quieto
<1>11. CASE LinhaCriada(Operario) \/ LinhaFalhou(Operario)
  <2>1. fio'[Operario].ponto = "linhas" /\ UNCHANGED <<lote, relatorio, job, avarias>>
    BY <1>0, <1>11, LinhaFaz DEF Move
  <2> QED
    BY <2>1 DEF Quieto
<1>12. CASE LinhaCriadaFalha(Operario)
  <2>1. avarias'["bd"] = avarias["bd"] + 1
    BY <1>0, <1>12, LinhaCriadaFalhaFaz
  <2> QED
    BY <1>1, <2>1 DEF Quieto
<1>13. CASE ContarLinhas(Operario)
  <2>1. /\ fio'[Operario].ponto = "gravar" /\ fio'[Operario].cont = Apurado
        /\ UNCHANGED <<lote, relatorio, linha, job, avarias>>
    BY <1>0, <1>13, ContarLinhasFaz DEF Move
  <2>2. Apurado' = Apurado
    BY <2>1, ApuradoFica
  <2> QED
    BY <2>1, <2>2 DEF Quieto
<1>14. CASE GravarLote(Operario)
  <2>1. /\ fio'[Operario].ponto = "fim" /\ fio[Operario].ponto = "gravar"
        /\ UNCHANGED <<linha, job, avarias>> /\ relatorio' = fio[Operario].cont
        /\ lote' = estadoFinal(fio[Operario].cont)
    BY <1>0, <1>14, GravarLoteFaz DEF Move
  <2>2. Apurado' = Apurado
    BY <2>1, ApuradoFica
  <2> QED
    BY <2>1, <2>2 DEF Quieto
<1>15. CASE RunRebenta(Operario)
  <2>1. avarias'["bd"] = avarias["bd"] + 1
    BY <1>0, <1>15, RunRebentaFaz
  <2> QED
    BY <1>1, <2>1 DEF Quieto
<1>16. CASE Queda(Operario)
  <2>1. /\ fio'[Operario].ponto = "livre" /\ fio[Operario].ponto # "livre"
        /\ UNCHANGED <<lote, relatorio, job>>
        /\ avarias'["queda"] = avarias["queda"] + 1 /\ avarias'["bd"] = avarias["bd"]
    BY <1>0, <1>16, QuedaFaz, FioLivreTipo DEF Move
  <2>2. job.estado = "activo"
    BY <2>1 DEF Fila
  <2> QED
    BY <1>1, <2>1, <2>2 DEF Quieto
<1> QED
  BY <1>3, <1>4, <1>5, <1>6, <1>7, <1>8, <1>9, <1>10, <1>11, <1>12, <1>13, <1>14, <1>15, <1>16 DEF PassoDaFila

-----------------------------------------------------------------------------
(* With the queue, while nothing failed and no add was dropped, a lote left *)
(* PROCESSANDO has a job that waits or a run that will write its end, or a *)
(* request still has it in hand.                                           *)
Encaminhado ==
  (redis /\ avarias["queda"] = 0 /\ avarias["bd"] = 0 /\ ~ignorado /\ lote = "PROCESSANDO") =>
    job.estado = "espera" \/ fio[Operario].ponto \in Correndo \/ NaMao

LEMMA EncaminhadoPasso ==
  ASSUME ImportacaoTypeOK, Fila, Quieto, Encaminhado, redis, UNCHANGED redis, PassoDaFila
  PROVE  Encaminhado'
<1> SUFFICES ASSUME avarias'["queda"] = 0, avarias'["bd"] = 0, ~ignorado', lote' = "PROCESSANDO"
             PROVE  job'.estado = "espera" \/ fio'[Operario].ponto \in Correndo \/ NaMao'
  BY DEF Encaminhado
<1>0. Operario \in Fios /\ Arranques \subseteq Fios /\ Operario \notin Arranques
  BY OperarioAssumption DEF Fios
<1>1. avarias["queda"] \in Nat /\ avarias["bd"] \in Nat /\ job.paragens \in {0, 1}
  <2>1. /\ avarias["queda"] \in 0..MaxAvarias /\ avarias["bd"] \in 0..MaxAvarias
        /\ job.paragens \in 0..1
    BY ImportacaoTiposSao DEF TiposAvaria, JobTipo, MaxParagens
  <2> QED
    BY <2>1
(* Nothing has failed: a job that is active is at a worker.                *)
<1>2. (avarias["queda"] = 0 /\ avarias["bd"] = 0) =>
        (job.estado = "activo" => fio[Operario].ponto # "livre")
  BY <1>1 DEF Quieto
<1>3. fio[Operario].ponto \in {"livre", "fim"} \cup Correndo
  BY DEF Fila, Correndo
<1>4. ASSUME NEW p \in Arranques, Start(p)
      PROVE  job'.estado = "espera" \/ fio'[Operario].ponto \in Correndo \/ NaMao'
  <2>1. PICK f \in FioTipo :
          /\ Move(p, f)
          /\ \/ lote' = "EM_FILA"
             \/ lote' = "PROCESSANDO" /\ f.ponto = "enfileirar"
             \/ /\ lote' = lote
                /\ \/ fio[p].ponto = "livre" /\ job' = job
                   \/ f.ponto \notin {"livre", "marcar"}
                   \/ Enfileirado
                   \/ avarias'["bd"] = avarias["bd"] + 1
    BY <1>4, StartFaz
  <2>2. /\ avarias["queda"] = 0 /\ avarias["bd"] = 0 /\ ~ignorado
        /\ avarias'["bd"] # avarias["bd"] + 1 /\ fio'[Operario] = fio[Operario]
    BY <1>0, <1>1, <1>4, <2>1, StartFaz DEF Move
  <2>3. CASE f.ponto \notin {"livre", "marcar"}
    <3>1. fio'[p].ponto \notin {"livre", "marcar"}
      BY <2>1, <2>3 DEF Move
    <3> QED
      BY <3>1 DEF NaMao
  <2>4. CASE lote' = lote /\ fio[p].ponto = "livre" /\ job' = job
    <3>1. job.estado = "espera" \/ fio[Operario].ponto \in Correndo \/ NaMao
      BY <2>2, <2>4 DEF Encaminhado
    <3>2. NaMao => NaMao'
      BY <1>0, <2>1, <2>4 DEF NaMao, Move
    <3> QED
      BY <2>2, <2>4, <3>1, <3>2
  <2>5. CASE Enfileirado
    BY <1>2, <1>3, <2>2, <2>5 DEF Enfileirado
  <2> QED
    BY <2>1, <2>2, <2>3, <2>4, <2>5
(* The requests stay where they are, and so does what takes the lote on.   *)
<1>5. ASSUME UNCHANGED <<avarias, ignorado>>, lote' = lote,
             \A q \in Arranques : fio'[q] = fio[q],
             \/ job'.estado = "espera" \/ fio'[Operario].ponto \in Correndo
             \/ job.estado # "espera" /\ fio[Operario].ponto \notin Correndo
      PROVE  job'.estado = "espera" \/ fio'[Operario].ponto \in Correndo \/ NaMao'
  <2>1. job.estado = "espera" \/ fio[Operario].ponto \in Correndo \/ NaMao
    BY <1>5 DEF Encaminhado
  <2>2. NaMao => NaMao'
    BY <1>5 DEF NaMao
  <2> QED
    BY <1>5, <2>1, <2>2
<1>6. ASSUME NEW l \in Linhas, AddLinha(l)
      PROVE  job'.estado = "espera" \/ fio'[Operario].ponto \in Correndo \/ NaMao'
  <2>1. UNCHANGED <<lote, job, fio, avarias, ignorado>>
    BY <1>6, AddLinhaFaz
  <2> QED
    BY <2>1 DEF Encaminhado, NaMao
<1>7. CASE RunJob
  <2>1. /\ UNCHANGED <<lote, avarias, ignorado>> /\ fio'[Operario].ponto = "linhas"
        /\ \A q \in Arranques : fio'[q] = fio[q]
    BY <1>0, <1>7, FilaFaz DEF Move
  <2> QED
    BY <2>1 DEF Correndo
<1>8. CASE FimJob
  <2>1. /\ UNCHANGED <<lote, avarias, ignorado>> /\ fio[Operario].ponto = "fim"
        /\ \A q \in Arranques : fio'[q] = fio[q]
    BY <1>0, <1>8, FilaFaz DEF Move
  <2>2. job.estado = "activo"
    BY <2>1 DEF Fila
  <2> QED
    BY <1>5, <2>1, <2>2 DEF Correndo
<1>9. ~Reentregar
  <2> SUFFICES ASSUME Reentregar PROVE FALSE
    OBVIOUS
  <2>1. UNCHANGED avarias /\ job.estado = "activo" /\ fio[Operario].ponto = "livre"
    BY FilaFaz
  <2> QED
    BY <1>2, <2>1
<1>10. CASE Expurgar
  <2>1. /\ UNCHANGED <<lote, avarias, ignorado>> /\ fio' = fio
        /\ job.estado \in {"concluido", "falhado"}
    BY <1>10, FilaFaz
  <2> QED
    BY <1>5, <2>1
<1>11. ASSUME NEW p \in Arranques, Queda(p) PROVE FALSE
  BY <1>0, <1>1, <1>11, QuedaFaz
<1>12. ASSUME NEW l \in Linhas, CriarContrato(Operario, l) PROVE fio'[Operario].ponto \in Correndo
  BY <1>0, <1>12, CriarContratoFaz DEF Move, Correndo
<1>13. CASE LinhaCriada(Operario) \/ LinhaFalhou(Operario)
  BY <1>0, <1>13, LinhaFaz DEF Move, Correndo
<1>14. CASE ContarLinhas(Operario)
  BY <1>0, <1>14, ContarLinhasFaz DEF Move, Correndo
<1>15. ~GravarLote(Operario)
  BY <1>0, GravarLoteFaz DEF Finais
<1>16. ~LinhaCriadaFalha(Operario) /\ ~RunRebenta(Operario) /\ ~Queda(Operario)
  BY <1>0, <1>1, LinhaCriadaFalhaFaz, RunRebentaFaz, QuedaFaz
<1> QED
  BY <1>4, <1>6, <1>7, <1>8, <1>9, <1>10, <1>11, <1>12, <1>13, <1>14, <1>15, <1>16 DEF PassoDaFila

-----------------------------------------------------------------------------
(***************************************************************************)
(* How many contracts a set of surpluses per line stands for: lowering     *)
(* every surplus never adds to it, raising that of one line by one adds    *)
(* one at most.                                                            *)
(***************************************************************************)
Excesso(f) == {s \in Linhas \X (1..(MaxAvarias + 1)) : s[2] <= f[s[1]]}

LEMMA ExcessoFinito ==
  ASSUME NEW f \in [Linhas -> Int]
  PROVE  IsFiniteSet(Excesso(f)) /\ Cardinality(Excesso(f)) \in Nat
<1>1. 1 \in Int /\ MaxAvarias + 1 \in Int
  BY MaxAssumption
<1>2. IsFiniteSet(1..(MaxAvarias + 1))
  BY <1>1, FS_Interval
<1>3. IsFiniteSet(Linhas \X (1..(MaxAvarias + 1)))
  BY <1>2, LinhasAssumption, FS_Product
<1>4. Excesso(f) \in SUBSET (Linhas \X (1..(MaxAvarias + 1)))
  BY DEF Excesso
<1>5. IsFiniteSet(Excesso(f))
  BY <1>3, <1>4, FS_Subset
<1> QED
  BY <1>5, FS_CardinalityType

LEMMA ExcessoMenos ==
  ASSUME NEW f \in [Linhas -> Int], NEW g \in [Linhas -> Int], \A l \in Linhas : g[l] <= f[l]
  PROVE  Cardinality(Excesso(g)) <= Cardinality(Excesso(f))
<1>1. ASSUME NEW s \in Excesso(g) PROVE s \in Excesso(f)
  <2>1. s \in Linhas \X (1..(MaxAvarias + 1)) /\ s[2] <= g[s[1]] /\ s[1] \in Linhas /\ s[2] \in Int
    BY DEF Excesso
  <2>2. g[s[1]] \in Int /\ f[s[1]] \in Int /\ g[s[1]] <= f[s[1]]
    BY <2>1
  <2>3. s[2] <= f[s[1]]
    BY <2>1, <2>2
  <2> QED
    BY <2>1, <2>3 DEF Excesso
<1>2. Excesso(g) \in SUBSET Excesso(f)
  BY <1>1
<1> QED
  BY <1>2, ExcessoFinito, FS_Subset

LEMMA ExcessoMais ==
  ASSUME NEW f \in [Linhas -> Int], NEW g \in [Linhas -> Int], NEW k \in Linhas,
         g[k] <= f[k] + 1, \A l \in Linhas : l # k => g[l] <= f[l]
  PROVE  Cardinality(Excesso(g)) <= Cardinality(Excesso(f)) + 1
<1> DEFINE novo == <<k, f[k] + 1>>
           S == Excesso(f) \cup {novo}
<1>1. ASSUME NEW s \in Excesso(g) PROVE s \in S
  <2>1. s \in Linhas \X (1..(MaxAvarias + 1)) /\ s[2] <= g[s[1]] /\ s[1] \in Linhas /\ s[2] \in Int
        /\ s = <<s[1], s[2]>>
    BY DEF Excesso
  <2>2. g[s[1]] \in Int /\ f[s[1]] \in Int
    BY <2>1
  <2>3. CASE s[2] <= f[s[1]]
    BY <2>1, <2>3 DEF Excesso
  <2>4. CASE ~(s[2] <= f[s[1]])
    <3>1. s[1] = k
      BY <2>1, <2>2, <2>4
    <3>2. s[2] = f[k] + 1
      BY <2>1, <2>2, <2>4, <3>1
    <3> QED
      BY <2>1, <3>1, <3>2
  <2> QED
    BY <2>3, <2>4
<1>2. IsFiniteSet(Excesso(f)) /\ Cardinality(Excesso(f)) \in Nat /\ Cardinality(Excesso(g)) \in Nat
  BY ExcessoFinito
<1> HIDE DEF novo
<1>3. IsFiniteSet(S) /\ Cardinality(S) <= Cardinality(Excesso(f)) + 1
  BY <1>2, FS_AddElement
<1>4. Excesso(g) \in SUBSET S
  BY <1>1
<1> HIDE DEF S
<1>5. Cardinality(S) \in Nat /\ Cardinality(Excesso(g)) <= Cardinality(S)
  BY <1>3, <1>4, FS_Subset, FS_CardinalityType
<1> QED
  BY <1>2, <1>3, <1>5

-----------------------------------------------------------------------------
(***************************************************************************)
(* Contracts a line does not account for.  With the queue only the worker  *)
(* is ever between the contract and the line it reports it on.             *)
(***************************************************************************)
Conta(l) ==
  linha[l] = "CRIADO" \/ (fio[Operario].ponto = "criado" /\ fio[Operario].l = l)
DeMais == [l \in Linhas |-> contratos[l] - (IF Conta(l) THEN 1 ELSE 0)]
Desculpas == avarias["queda"] + avarias["bd"]
Justo == redis => Cardinality(Excesso(DeMais)) <= Desculpas

LEMMA DeMaisTipo ==
  ASSUME ImportacaoTypeOK
  PROVE  DeMais \in [Linhas -> Int] /\ Desculpas \in Nat
<1>1. contratos \in [Linhas -> Nat] /\ avarias["queda"] \in 0..MaxAvarias /\ avarias["bd"] \in 0..MaxAvarias
  BY ImportacaoTiposSao DEF TiposAvaria
<1> QED
  BY <1>1 DEF DeMais, Desculpas

LEMMA DeMaisSao ==
  ASSUME ImportacaoTypeOK, Fila, Justo
  PROVE  SobrasSoPorAvaria
<1> SUFFICES ASSUME redis
             PROVE  Cardinality({s \in Linhas \X (1..(MaxAvarias + 1)) : s[2] <= Sobras(s[1])}) <= Desculpas
  BY DEF SobrasSoPorAvaria, Desculpas
<1>1. ASSUME NEW l \in Linhas PROVE Sobras(l) = DeMais[l]
  <2>1. (\E x \in Fios : Esta(x, "criado") /\ fio[x].l = l) <=>
        (fio[Operario].ponto = "criado" /\ fio[Operario].l = l)
    BY DEF Fila, Fios, Esta, AoSair
  <2> QED
    BY <2>1 DEF Sobras, DeMais, Conta
<1>2. {s \in Linhas \X (1..(MaxAvarias + 1)) : s[2] <= Sobras(s[1])} = Excesso(DeMais)
  <2>1. \A s \in Linhas \X (1..(MaxAvarias + 1)) : Sobras(s[1]) = DeMais[s[1]]
    BY <1>1
  <2> HIDE DEF DeMais
  <2> QED
    BY <2>1 DEF Excesso
<1> QED
  BY <1>2 DEF Justo

LEMMA JustoInicio == ImportacaoInit => Justo
<1> SUFFICES ASSUME ImportacaoInit PROVE Justo
  OBVIOUS
<1>1. \A l \in Linhas : contratos[l] = 0
  BY DEF ImportacaoInit
<1>2. \A l \in Linhas : DeMais[l] <= 0
  BY <1>1 DEF DeMais
<1>3. ASSUME NEW s \in Excesso(DeMais) PROVE FALSE
  <2>1. s[1] \in Linhas /\ s[2] \in 1..(MaxAvarias + 1) /\ s[2] <= DeMais[s[1]]
    BY DEF Excesso
  <2>2. s[2] \in Int /\ s[2] >= 1 /\ DeMais[s[1]] <= 0 /\ DeMais[s[1]] \in Int
    BY <1>2, <2>1, ImportacaoInicio, DeMaisTipo, MaxAssumption
  <2> QED
    BY <2>1, <2>2
<1>4. Excesso(DeMais) = {} /\ Desculpas = 0
  BY <1>3 DEF Desculpas, ImportacaoInit, TiposAvaria
<1> QED
  BY <1>4, FS_EmptySet DEF Justo

(* A step leaves every surplus as low as it was, or raises that of one     *)
(* line by one and is a failure.                                           *)
Poupa ==
  /\ Desculpas' >= Desculpas
  /\ \A l \in Linhas : contratos'[l] - (IF Conta(l)' THEN 1 ELSE 0) <= contratos[l] - (IF Conta(l) THEN 1 ELSE 0)
Gasta(k) ==
  /\ Desculpas' = Desculpas + 1
  /\ contratos'[k] - (IF Conta(k)' THEN 1 ELSE 0) <= contratos[k] - (IF Conta(k) THEN 1 ELSE 0) + 1
  /\ \A l \in Linhas : l # k =>
       contratos'[l] - (IF Conta(l)' THEN 1 ELSE 0) <= contratos[l] - (IF Conta(l) THEN 1 ELSE 0)

LEMMA PoupaOuGasta ==
  ASSUME ImportacaoTypeOK, ImportacaoTypeOK', Justo, UNCHANGED redis,
         redis => (Poupa \/ \E k \in Linhas : Gasta(k))
  PROVE  Justo'
<1>1. CASE ~redis
  BY <1>1 DEF Justo
<1>2. CASE redis
  <2>1. /\ DeMais \in [Linhas -> Int] /\ DeMais' \in [Linhas -> Int]
        /\ Desculpas \in Nat /\ Desculpas' \in Nat
    <3>1. /\ contratos' \in [Linhas -> Nat]
          /\ avarias'["queda"] \in 0..MaxAvarias /\ avarias'["bd"] \in 0..MaxAvarias
      BY DEF ImportacaoTypeOK, TiposAvaria
    <3>2. DeMais' \in [Linhas -> Int] /\ Desculpas' \in Nat
      BY <3>1 DEF DeMais, Desculpas
    <3> QED
      BY <3>2, DeMaisTipo
  <2>2. PICK f \in [Linhas -> Int], g \in [Linhas -> Int] : f = DeMais /\ g = DeMais'
    BY <2>1
  <2>3. \A l \in Linhas : /\ f[l] = contratos[l] - (IF Conta(l) THEN 1 ELSE 0)
                          /\ g[l] = contratos'[l] - (IF Conta(l)' THEN 1 ELSE 0)
    BY <2>2 DEF DeMais
  <2>4. /\ Excesso(DeMais) = Excesso(f) /\ Excesso(DeMais)' = Excesso(g)
        /\ Cardinality(Excesso(f)) \in Nat /\ Cardinality(Excesso(g)) \in Nat
    <3>1. Excesso(DeMais) = Excesso(f) /\ Excesso(DeMais)' = Excesso(g)
      BY <2>2 DEF Excesso
    <3> QED
      BY <3>1, ExcessoFinito
  <2>5. Cardinality(Excesso(f)) <= Desculpas
    BY <1>2, <2>4 DEF Justo
  <2>6. CASE Poupa
    <3>1. Cardinality(Excesso(g)) <= Cardinality(Excesso(f)) /\ Desculpas' >= Desculpas
      BY <2>3, <2>6, ExcessoMenos DEF Poupa
    <3>2. Cardinality(Excesso(g)) <= Desculpas'
      BY <2>1, <2>4, <2>5, <3>1
    <3> QED
      BY <2>4, <3>2 DEF Justo
  <2>7. ASSUME NEW k \in Linhas, Gasta(k) PROVE Justo'
    <3>1. Cardinality(Excesso(g)) <= Cardinality(Excesso(f)) + 1 /\ Desculpas' = Desculpas + 1
      BY <2>3, <2>7, ExcessoMais DEF Gasta
    <3>2. Cardinality(Excesso(g)) <= Desculpas'
      BY <2>1, <2>4, <2>5, <3>1
    <3> QED
      BY <2>4, <3>2 DEF Justo
  <2> QED
    BY <1>2, <2>6, <2>7
<1> QED
  BY <1>1, <1>2

LEMMA PoupaOuGastaPasso ==
  ASSUME ImportacaoTypeOK, Fila, redis, UNCHANGED redis, PassoDaFila
  PROVE  Poupa \/ \E k \in Linhas : Gasta(k)
<1>0. /\ Operario \in Fios /\ Arranques \subseteq Fios /\ Operario \notin Arranques
      /\ fio[Operario] \in FioTipo /\ avarias["queda"] \in Nat /\ avarias["bd"] \in Nat
      /\ \A l \in Linhas : contratos[l] \in Nat
  <2>1. avarias["queda"] \in 0..MaxAvarias /\ avarias["bd"] \in 0..MaxAvarias
    BY ImportacaoTiposSao DEF TiposAvaria
  <2> QED
    BY <2>1, OperarioAssumption, ImportacaoTiposSao DEF Fios
(* The contracts stay, and what accounts for them: no surplus grows.       *)
<1>1. ASSUME contratos' = contratos, \A l \in Linhas : Conta(l) => Conta(l)',
             avarias'["bd"] = avarias["bd"] \/ avarias'["bd"] = avarias["bd"] + 1,
             avarias'["queda"] = avarias["queda"] \/ avarias'["queda"] = avarias["queda"] + 1
      PROVE  Poupa
  <2>1. Desculpas' >= Desculpas
    BY <1>0, <1>1 DEF Desculpas
  <2>2. ASSUME NEW l \in Linhas
        PROVE  contratos'[l] - (IF Conta(l)' THEN 1 ELSE 0) <= contratos[l] - (IF Conta(l) THEN 1 ELSE 0)
    BY <1>0, <1>1
  <2> QED
    BY <2>1, <2>2 DEF Poupa
(* One failure, and the contract of the line at hand loses its line.       *)
<1>2. ASSUME NEW k \in Linhas, contratos' = contratos, \A l \in Linhas : l # k /\ Conta(l) => Conta(l)',
             \/ avarias'["bd"] = avarias["bd"] + 1 /\ avarias'["queda"] = avarias["queda"]
             \/ avarias'["queda"] = avarias["queda"] + 1 /\ avarias'["bd"] = avarias["bd"]
      PROVE  Gasta(k)
  <2>1. Desculpas' = Desculpas + 1
    BY <1>0, <1>2 DEF Desculpas
  <2>2. ASSUME NEW l \in Linhas, l # k
        PROVE  contratos'[l] - (IF Conta(l)' THEN 1 ELSE 0) <= contratos[l] - (IF Conta(l) THEN 1 ELSE 0)
    BY <1>0, <1>2, <2>2
  <2>3. contratos'[k] - (IF Conta(k)' THEN 1 ELSE 0) <= contratos[k] - (IF Conta(k) THEN 1 ELSE 0) + 1
    BY <1>0, <1>2
  <2> QED
    BY <2>1, <2>2, <2>3 DEF Gasta
<1>3. ASSUME NEW p \in Arranques, Start(p) \/ Queda(p) PROVE Poupa
  <2>1. /\ fio'[Operario] = fio[Operario] /\ UNCHANGED <<linha, contratos>>
        /\ avarias'["bd"] = avarias["bd"] \/ avarias'["bd"] = avarias["bd"] + 1
        /\ avarias'["queda"] = avarias["queda"] \/ avarias'["queda"] = avarias["queda"] + 1
    <3>1. CASE Start(p)
      BY <1>0, <3>1, StartFaz DEF Move
    <3>2. CASE Queda(p)
      BY <1>0, <3>2, QuedaFaz DEF Move
    <3> QED
      BY <1>3, <3>1, <3>2
  <2>2. \A l \in Linhas : Conta(l) => Conta(l)'
    BY <2>1 DEF Conta
  <2> QED
    BY <1>1, <2>1, <2>2
<1>4. ASSUME NEW k \in Linhas, AddLinha(k) PROVE Poupa
  <2>1. /\ UNCHANGED <<contratos, fio, avarias>> /\ linha[k] = "AUSENTE"
        /\ \A l \in Linhas : l # k => linha'[l] = linha[l]
    BY <1>4, AddLinhaFaz
  <2>2. \A l \in Linhas : Conta(l) => Conta(l)'
    BY <2>1 DEF Conta
  <2> QED
    BY <1>1, <2>1, <2>2
<1>5. CASE RunJob \/ FimJob \/ Reentregar \/ Expurgar
  <2>1. UNCHANGED <<linha, contratos, avarias>> /\ (fio' = fio \/ fio[Operario].ponto # "criado")
    BY <1>5, FilaFaz DEF Fila
  <2>2. \A l \in Linhas : Conta(l) => Conta(l)'
    BY <2>1 DEF Conta
  <2> QED
    BY <1>1, <2>1, <2>2
<1>6. ASSUME NEW k \in Linhas, CriarContrato(Operario, k) PROVE Poupa \/ Gasta(k)
  <2>1. /\ fio[Operario].ponto = "linhas" /\ linha[k] = "PENDENTE" /\ linha' = linha
        /\ contratos'[k] \in {contratos[k], contratos[k] + 1}
        /\ \A l \in Linhas : l # k => contratos'[l] = contratos[l]
    BY <1>0, <1>6, CriarContratoFaz DEF Fila
  <2>2. /\ fio'[Operario].ponto \in {"criado", "falhou"} /\ fio'[Operario].l = k
        /\ \/ (fio'[Operario].ponto = "criado" \/ contratos'[k] = contratos[k]) /\ avarias' = avarias
           \/ avarias'["bd"] = avarias["bd"] + 1 /\ avarias'["queda"] = avarias["queda"]
    BY <1>0, <1>6, CriarContratoFaz DEF Move
  <2>3. /\ ~Conta(k) /\ (Conta(k)' <=> fio'[Operario].ponto = "criado")
        /\ \A l \in Linhas : l # k => (Conta(l)' <=> Conta(l))
    BY <2>1, <2>2 DEF Conta
  <2>4. ASSUME NEW l \in Linhas, l # k
        PROVE  contratos'[l] - (IF Conta(l)' THEN 1 ELSE 0) <= contratos[l] - (IF Conta(l) THEN 1 ELSE 0)
    BY <1>0, <2>1, <2>3, <2>4
  <2>5. contratos'[k] - (IF Conta(k)' THEN 1 ELSE 0) <= contratos[k] - (IF Conta(k) THEN 1 ELSE 0) + 1
    BY <1>0, <2>1, <2>3
  <2>6. CASE (fio'[Operario].ponto = "criado" \/ contratos'[k] = contratos[k]) /\ avarias' = avarias
    <3>1. contratos'[k] - (IF Conta(k)' THEN 1 ELSE 0) <= contratos[k] - (IF Conta(k) THEN 1 ELSE 0)
      BY <1>0, <2>1, <2>2, <2>3, <2>6
    <3>2. Desculpas' >= Desculpas
      BY <1>0, <2>6 DEF Desculpas
    <3> QED
      BY <2>4, <3>1, <3>2 DEF Poupa
  <2>7. CASE avarias'["bd"] = avarias["bd"] + 1 /\ avarias'["queda"] = avarias["queda"]
    <3>1. Desculpas' = Desculpas + 1
      BY <1>0, <2>7 DEF Desculpas
    <3> QED
      BY <2>4, <2>5, <3>1 DEF Gasta
  <2> QED
    BY <2>2, <2>6, <2>7
<1>7. CASE LinhaCriada(Operario) \/ LinhaFalhou(Operario)
  <2>1. /\ UNCHANGED <<contratos, avarias>> /\ fio[Operario].ponto \in {"criado", "falhou"}
        /\ \A l \in Linhas : l # fio[Operario].l => linha'[l] = linha[l]
    BY <1>0, <1>7, LinhaFaz
  <2>2. fio[Operario].l \in Linhas /\ linha[fio[Operario].l] = "PENDENTE"
    BY <1>0, <2>1 DEF Fila, FioTipo
  <2>3. linha'[fio[Operario].l] = IF fio[Operario].ponto = "criado" THEN "CRIADO" ELSE "FALHOU"
    BY <1>0, <1>7, <2>2, LinhaFaz
  <2>4. \A l \in Linhas : Conta(l) => Conta(l)'
    BY <2>1, <2>2, <2>3 DEF Conta
  <2> QED
    BY <1>1, <2>1, <2>4
<1>8. CASE LinhaCriadaFalha(Operario)
  <2>1. /\ UNCHANGED <<linha, contratos>> /\ fio[Operario].ponto = "criado"
        /\ avarias'["bd"] = avarias["bd"] + 1 /\ avarias'["queda"] = avarias["queda"]
    BY <1>0, <1>8, LinhaCriadaFalhaFaz
  <2>2. fio[Operario].l \in Linhas
    BY <1>0, <2>1 DEF Fila, FioTipo
  <2>3. \A l \in Linhas : l # fio[Operario].l /\ Conta(l) => Conta(l)'
    BY <2>1 DEF Conta
  <2> QED
    BY <1>2, <2>1, <2>2, <2>3
<1>9. CASE ContarLinhas(Operario) \/ GravarLote(Operario)
  <2>1. UNCHANGED <<linha, contratos, avarias>> /\ fio[Operario].ponto # "criado"
    BY <1>0, <1>9, ContarLinhasFaz, GravarLoteFaz
  <2>2. \A l \in Linhas : Conta(l) => Conta(l)'
    BY <2>1 DEF Conta
  <2> QED
    BY <1>1, <2>1, <2>2
<1>10. CASE RunRebenta(Operario)
  <2>1. /\ UNCHANGED <<linha, contratos>> /\ fio[Operario].ponto # "criado"
        /\ avarias'["bd"] = avarias["bd"] + 1 /\ avarias'["queda"] = avarias["queda"]
    BY <1>0, <1>10, RunRebentaFaz
  <2>2. \A l \in Linhas : Conta(l) => Conta(l)'
    BY <2>1 DEF Conta
  <2> QED
    BY <1>1, <2>1, <2>2
<1>11. CASE Queda(Operario)
  <2>1. /\ UNCHANGED <<linha, contratos>>
        /\ avarias'["queda"] = avarias["queda"] + 1 /\ avarias'["bd"] = avarias["bd"]
    BY <1>0, <1>11, QuedaFaz
  <2>2. CASE fio[Operario].ponto = "criado"
    <3>1. fio[Operario].l \in Linhas
      BY <1>0, <2>2 DEF Fila, FioTipo
    <3>2. \A l \in Linhas : l # fio[Operario].l /\ Conta(l) => Conta(l)'
      BY <2>1 DEF Conta
    <3> QED
      BY <1>2, <2>1, <3>1, <3>2
  <2>3. CASE fio[Operario].ponto # "criado"
    <3>1. \A l \in Linhas : Conta(l) => Conta(l)'
      BY <2>1, <2>3 DEF Conta
    <3> QED
      BY <1>1, <2>1, <3>1
  <2> QED
    BY <2>2, <2>3
<1> QED
  BY <1>3, <1>4, <1>5, <1>6, <1>7, <1>8, <1>9, <1>10, <1>11 DEF PassoDaFila

-----------------------------------------------------------------------------
(* What every step keeps, with the queue or without it.                    *)
ImportacaoInv ==
  ImportacaoTypeOK /\ Fila /\ Inline /\ Compensado /\ SemZombieDe /\ Encaminhado /\ Quieto /\ Justo

LEMMA ImportacaoInvInicio == ImportacaoInit => ImportacaoInv
<1>1. ImportacaoInit => SemZombieDe /\ Encaminhado
  BY DEF ImportacaoInit, SemZombieDe, Encaminhado
<1>2. ImportacaoInit => Compensado
  BY FioLivreTipo DEF ImportacaoInit, Compensado, Fios
<1> QED
  BY <1>1, <1>2, ImportacaoInicio, FilaInicio, QuietoInicio, JustoInicio DEF ImportacaoInv

LEMMA ImportacaoInvPasso == ImportacaoInv /\ [ImportacaoNext]_importacaoVars => ImportacaoInv'
<1> SUFFICES ASSUME ImportacaoInv, [ImportacaoNext]_importacaoVars PROVE ImportacaoInv'
  OBVIOUS
<1>1. /\ ImportacaoTypeOK /\ Fila /\ Inline /\ Compensado /\ SemZombieDe
      /\ Encaminhado /\ Quieto /\ Justo
  BY DEF ImportacaoInv
<1>2. ImportacaoTypeOK'
  BY <1>1, ImportacaoTiposPasso
<1>3. CASE UNCHANGED importacaoVars
  BY <1>1, <1>2, <1>3 DEF ImportacaoInv, Fila, Inline, Compensado, SemZombieDe, Encaminhado, NaMao, Quieto, Apurado,
     Justo, Excesso, DeMais, Conta, Desculpas, importacaoVars, mutaveis
<1>4. CASE ImportacaoNext
  <2>1. Passo /\ UNCHANGED redis
    BY <1>4 DEF ImportacaoNext
  <2>2. CASE redis
    <3>1. PassoDaFila
      BY <1>1, <1>4, <2>2, SoDaFila
    <3>2. Fila' /\ Quieto' /\ Encaminhado'
      BY <1>1, <2>1, <2>2, <3>1, FilaPasso, QuietoPasso, EncaminhadoPasso
    <3>3. Justo'
      BY <1>1, <1>2, <2>1, <2>2, <3>1, PoupaOuGastaPasso, PoupaOuGasta
    <3>4. Inline' /\ Compensado' /\ SemZombieDe'
      BY <2>1, <2>2 DEF Inline, Compensado, SemZombieDe
    <3> QED
      BY <1>2, <3>2, <3>3, <3>4 DEF ImportacaoInv
  <2>3. CASE ~redis
    <3>1. Inline' /\ Compensado' /\ SemZombieDe'
      BY <1>1, <2>1, <2>3, InlinePasso
    <3>2. Fila' /\ Quieto' /\ Encaminhado' /\ Justo'
      BY <2>1, <2>3 DEF Fila, Quieto, Encaminhado, Justo
    <3> QED
      BY <1>2, <3>1, <3>2 DEF ImportacaoInv
  <2> QED
    BY <2>2, <2>3
<1> QED
  BY <1>3, <1>4

LEMMA ImportacaoInvSempre == ImportacaoSpec => []ImportacaoInv
BY ImportacaoInvInicio, ImportacaoInvPasso, PTL DEF ImportacaoSpec

(* Through the queue, the contracts no line accounts for are never more    *)
(* than the crashes and database failures that came to pass.               *)
THEOREM SobrasCorrect == ImportacaoSpec => []SobrasSoPorAvaria
<1>1. ImportacaoInv => SobrasSoPorAvaria
  BY DeMaisSao DEF ImportacaoInv
<1> QED
  BY <1>1, ImportacaoInvSempre, PTL

(* While no process dies and the database answers, no line gives two       *)
(* contracts and a line that failed gives none, however often the lote is  *)
(* started and its job delivered.                                          *)
SemRepetir ==
  (redis /\ avarias["queda"] = 0 /\ avarias["bd"] = 0) =>
    \A l \in Linhas : contratos[l] <= 1 /\ (linha[l] = "FALHOU" => contratos[l] = 0)
THEOREM SemRepetirCorrect == ImportacaoSpec => []SemRepetir
<1>1. ASSUME ImportacaoInv PROVE SemRepetir
  <2> SUFFICES ASSUME redis, avarias["queda"] = 0, avarias["bd"] = 0, NEW l \in Linhas
               PROVE  contratos[l] <= 1 /\ (linha[l] = "FALHOU" => contratos[l] = 0)
    BY DEF SemRepetir
  <2>1. ImportacaoTypeOK /\ Fila /\ Justo
    BY <1>1 DEF ImportacaoInv
  <2>2. DeMais \in [Linhas -> Int] /\ Desculpas = 0
    BY <2>1, DeMaisTipo DEF Desculpas
  <2>3. IsFiniteSet(Excesso(DeMais)) /\ Cardinality(Excesso(DeMais)) \in Nat
    BY <2>2, ExcessoFinito
  <2>4. Cardinality(Excesso(DeMais)) = 0
    BY <2>1, <2>2, <2>3 DEF Justo
  <2>5. Excesso(DeMais) = {}
    BY <2>3, <2>4, FS_EmptySet
  <2>6. <<l, 1>> \in Linhas \X (1..(MaxAvarias + 1))
    BY MaxAssumption
  <2>7. DeMais[l] \in Int /\ ~(1 <= DeMais[l])
    BY <2>2, <2>5, <2>6 DEF Excesso
  <2>8. contratos[l] \in Nat /\ DeMais[l] = contratos[l] - (IF Conta(l) THEN 1 ELSE 0)
    BY <2>1, ImportacaoTiposSao DEF DeMais
  <2>9. linha[l] = "FALHOU" => ~Conta(l)
    BY <2>1 DEF Fila, Conta
  <2> QED
    BY <2>7, <2>8, <2>9
<1> QED
  BY <1>1, ImportacaoInvSempre, PTL

(* A lote left PROCESSANDO that nobody processes had a process die, the    *)
(* database fail (inline: twice), or its add dropped by the queue.         *)
THEOREM ZombieExplicadoCorrect == ImportacaoSpec => []ZombieExplicado
<1>1. ASSUME ImportacaoInv PROVE ZombieExplicado
  <2> SUFFICES ASSUME avarias["queda"] = 0, IF redis THEN avarias["bd"] = 0 /\ ~ignorado
                                                     ELSE avarias["bd"] <= 1,
                      lote = "PROCESSANDO"
               PROVE  job.estado \in {"espera", "activo"} \/ NaMao
    BY DEF ZombieExplicado, SemZombie, NaMao
  <2>1. CASE ~redis
    BY <1>1, <2>1 DEF ImportacaoInv, SemZombieDe
  <2>2. CASE redis
    <3>1. job.estado = "espera" \/ fio[Operario].ponto \in Correndo \/ NaMao
      BY <1>1, <2>2 DEF ImportacaoInv, Encaminhado
    <3>2. fio[Operario].ponto \in Correndo => job.estado = "activo"
      BY <1>1, <2>2 DEF ImportacaoInv, Fila, Correndo
    <3> QED
      BY <3>1, <3>2
  <2> QED
    BY <2>1, <2>2
<1> QED
  BY <1>1, ImportacaoInvSempre, PTL

(* A finished lote that came through the queue reports what its lines say, *)
(* as long as no run was cut short for good.                               *)
THEOREM RelatorioFielCorrect == ImportacaoSpec => []RelatorioFiel
<1>1. ASSUME ImportacaoInv PROVE RelatorioFiel
  <2> DEFINE parado == job.estado \notin {"espera", "activo"} /\ \A x \in Fios : Esta(x, "livre")
             criados == Cardinality({l \in Linhas : linha[l] = "CRIADO"})
             falhados == Cardinality({l \in Linhas : linha[l] = "FALHOU"})
  <2> SUFFICES ASSUME redis, avarias["bd"] = 0, avarias["queda"] <= 1, lote \in Finais, parado
               PROVE  /\ relatorio = [processadas |-> criados, falhas |-> falhados]
                      /\ (lote = "CONCLUIDO") <=> (falhados = 0)
                      /\ lote = "FALHOU" => criados = 0
    BY DEF RelatorioFiel
  <2>1. Operario \in Fios /\ job \in JobTipo /\ Quieto
    BY <1>1, ImportacaoTiposSao DEF ImportacaoInv, Fios
  <2>2. fio[Operario].ponto = "livre" /\ job.estado \in {"nenhum", "concluido"}
    BY <2>1 DEF Quieto, Esta, JobTipo
  <2>3. relatorio = Apurado /\ lote = estadoFinal(relatorio)
    BY <2>1, <2>2 DEF Quieto
  <2>4. relatorio.processadas = criados /\ relatorio.falhas = falhados
    BY <2>3 DEF Apurado
  <2> HIDE DEF criados, falhados
  <2>5. ((lote = "CONCLUIDO") <=> (falhados = 0)) /\ (lote = "FALHOU" => criados = 0)
    BY <2>3, <2>4 DEF estadoFinal
  <2> QED
    BY <2>3, <2>5 DEF Apurado, criados, falhados
<1> QED
  BY <1>1, ImportacaoInvSempre, PTL
================================================================================
