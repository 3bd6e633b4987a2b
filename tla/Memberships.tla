---------------------------- MODULE Memberships ----------------------------
(***************************************************************************)
(* The members of one tenant and the seats of its plan                     *)
(* (memberships.service).  Every endpoint reads a membership, decides, and *)
(* writes in a later statement; requests interleave between statements and *)
(* may die there.                                                          *)
(*                                                                         *)
(* Left out: the expiry of an invitation, which only refuses; passwords;   *)
(* tenants without a UsageQuota row, whose seats are not counted.          *)
(***************************************************************************)
EXTENDS Integers, FiniteSets

CONSTANTS
  Pessoas,     \* users, at most one membership each: unique (userId, tenantId)
  Fundadores,  \* ADMIN members of a new tenant, inserted without a seat
  Limite,      \* UsageQuota.utilizadoresLimit, negative when unlimited
  Pedidos,     \* requests served at a time
  MaxConvites, \* bound: invitations ever sent to a person
  Operacoes    \* endpoints in use

TodasOperacoes == {"invite", "accept", "acceptByToken", "updateRole", "remove", "falhar"}
ASSUME PessoasAssumption == IsFiniteSet(Pessoas)
ASSUME FundadoresAssumption == Fundadores \subseteq Pessoas /\ Fundadores # {}
ASSUME LimiteAssumption == Limite \in Int
ASSUME ConvitesAssumption == MaxConvites \in Nat
ASSUME OperacoesAssumption == Operacoes \subseteq TodasOperacoes

Papeis == {"ADMIN", "VIEWER"}   \* Role: ADMIN, and one of the others

VARIABLES
  existe,    \* the membership row exists
  papel,     \* role
  aceite,    \* acceptedAt is set
  apagado,   \* deletedAt is set
  convite,   \* inviteTokenHash: the number of the invitation, 0 for null
  enviados,  \* invitations sent so far
  usado,     \* UsageQuota.utilizadoresUsado
  pedido,    \* requests in flight
  sereno     \* history: no two requests were ever in flight at once, and none died

linhas == <<existe, papel, aceite, apagado, convite, enviados>>
vars == <<linhas, usado, pedido, sereno>>

(* What a request remembers: the person, the role asked for, whether it    *)
(* read a row (existing), took a seat, and the token it was given.         *)
Req(pc, u, novo, existing, lugar, token) ==
  [pc |-> pc, u |-> u, papel |-> novo, existing |-> existing, lugar |-> lugar,
   token |-> token]
Dono == CHOOSE u \in Fundadores : TRUE
Livre == Req("livre", Dono, "VIEWER", FALSE, FALSE, 0)

Atende(p, op) == op \in Operacoes /\ pedido[p] = Livre
Parado(p, pc) == pedido[p].pc = pc
Passa(p, r) == pedido' = [pedido EXCEPT ![p] = r]
Segue(p, pc) == Passa(p, [pedido[p] EXCEPT !.pc = pc])
Acaba(p) == Passa(p, Livre)

Init ==
  /\ existe = [u \in Pessoas |-> u \in Fundadores]
  /\ papel = [u \in Pessoas |-> IF u \in Fundadores THEN "ADMIN" ELSE "VIEWER"]
  /\ aceite = [u \in Pessoas |-> u \in Fundadores]
  /\ apagado = [u \in Pessoas |-> FALSE]
  /\ convite = [u \in Pessoas |-> 0]
  /\ enviados = [u \in Pessoas |-> 0]
  /\ usado = 0
  /\ pedido = [p \in Pedidos |-> Livre]
  /\ sereno = TRUE

Membro(u) == existe[u] /\ ~apagado[u]
AdminActivo(u) == Membro(u) /\ aceite[u] /\ papel[u] = "ADMIN"
countActiveAdmins_Todos(excepto) ==   \* mutant: the person himself counts
  Cardinality({u \in Pessoas : AdminActivo(u)})
countActiveAdmins(excepto) == Cardinality({u \in Pessoas \ {excepto} : AdminActivo(u)})

(***************************************************************************)
(* invite: a new place in the tenant takes a seat; inviting a pending      *)
(* member again does not.                                                  *)
(***************************************************************************)
JaMembro_Nunca(u) == FALSE             \* mutant: nobody is refused
JaMembro(u) == Membro(u) /\ aceite[u]

ocupaNovoLugar_Linha(u) == ~existe[u]  \* mutant: a removed member keeps a seat
ocupaNovoLugar(u) == ~existe[u] \/ apagado[u]

LerConvidar(p, u) ==
  /\ Atende(p, "invite")
  /\ ~JaMembro(u)
  /\ enviados[u] < MaxConvites
  /\ \E r \in Papeis :
       Passa(p, Req(IF ocupaNovoLugar(u) THEN "reservar" ELSE "convidar",
                    u, r, existe[u], ocupaNovoLugar(u), 0))
  /\ UNCHANGED <<linhas, usado>>

HaLugar_Igual == Limite < 0 \/ usado <= Limite   \* mutant: off by one
HaLugar == Limite < 0 \/ usado < Limite

Reservar(p) ==
  /\ Parado(p, "reservar")
  /\ IF HaLugar THEN usado' = usado + 1 /\ Segue(p, "convidar")
                ELSE usado' = usado /\ Acaba(p)
  /\ UNCHANGED linhas

(* The update is by id; the create may hit the unique key. *)
Convidar(p) ==
  LET r == pedido[p] IN
  /\ Parado(p, "convidar")
  /\ enviados[r.u] < MaxConvites
  /\ r.existing \/ ~existe[r.u]
  /\ existe' = [existe EXCEPT ![r.u] = TRUE]
  /\ papel' = [papel EXCEPT ![r.u] = r.papel]
  /\ aceite' = [aceite EXCEPT ![r.u] = FALSE]
  /\ apagado' = [apagado EXCEPT ![r.u] = FALSE]
  /\ enviados' = [enviados EXCEPT ![r.u] = @ + 1]
  /\ convite' = [convite EXCEPT ![r.u] = enviados[r.u] + 1]
  /\ Acaba(p)
  /\ UNCHANGED usado

ConvidarFalha(p) ==
  /\ Parado(p, "convidar")
  /\ ~pedido[p].existing /\ existe[pedido[p].u]
  /\ Segue(p, "estornar")
  /\ UNCHANGED <<linhas, usado>>

Devolve == IF usado > 0 THEN usado - 1 ELSE usado

Estornar(p) ==
  /\ Parado(p, "estornar")
  /\ usado' = IF pedido[p].lugar THEN Devolve ELSE usado
  /\ Acaba(p)
  /\ UNCHANGED linhas

(***************************************************************************)
(* acceptByToken: the token is read, then consumed by a compound where.    *)
(***************************************************************************)
LerToken(p, u) ==
  /\ Atende(p, "acceptByToken")
  /\ convite[u] # 0 /\ ~aceite[u]
  /\ Passa(p, Req("consumir", u, papel[u], TRUE, FALSE, convite[u]))
  /\ UNCHANGED <<linhas, usado>>

PorAceitar(u, token) == convite[u] = token /\ ~aceite[u]

ConsumirToken(p) ==
  LET r == pedido[p] IN
  /\ Parado(p, "consumir")
  /\ IF PorAceitar(r.u, r.token)
       THEN /\ aceite' = [aceite EXCEPT ![r.u] = TRUE]
            /\ convite' = [convite EXCEPT ![r.u] = 0]
       ELSE UNCHANGED <<aceite, convite>>
  /\ Acaba(p)
  /\ UNCHANGED <<existe, papel, apagado, enviados, usado>>

(* accept, for a user who enters through a parent tenant. *)
LerAceitar(p, u) ==
  /\ Atende(p, "accept")
  /\ Membro(u) /\ ~aceite[u]
  /\ Passa(p, Req("aceitar", u, papel[u], TRUE, FALSE, 0))
  /\ UNCHANGED <<linhas, usado>>

Aceitar(p) ==
  /\ Parado(p, "aceitar")
  /\ aceite' = [aceite EXCEPT ![pedido[p].u] = TRUE]
  /\ Acaba(p)
  /\ UNCHANGED <<existe, papel, apagado, convite, enviados, usado>>

(***************************************************************************)
(* updateRole: taking ADMIN away counts the other ADMINs first.            *)
(***************************************************************************)
LerPapel(p, u) ==
  /\ Atende(p, "updateRole")
  /\ Membro(u)
  /\ \E r \in Papeis :
       Passa(p, Req(IF papel[u] = "ADMIN" /\ r # "ADMIN" THEN "contarPapel" ELSE "mudarPapel",
                    u, r, TRUE, FALSE, 0))
  /\ UNCHANGED <<linhas, usado>>

ContarPapel(p) ==
  /\ Parado(p, "contarPapel")
  /\ IF countActiveAdmins(pedido[p].u) = 0 THEN Acaba(p) ELSE Segue(p, "mudarPapel")
  /\ UNCHANGED <<linhas, usado>>

MudarPapel(p) ==
  /\ Parado(p, "mudarPapel")
  /\ papel' = [papel EXCEPT ![pedido[p].u] = pedido[p].papel]
  /\ Acaba(p)
  /\ UNCHANGED <<existe, aceite, apagado, convite, enviados, usado>>

(***************************************************************************)
(* remove: the same count for an ADMIN who accepted, or who removes        *)
(* himself (proprio); the soft delete and the seat go in one transaction.  *)
(***************************************************************************)
LerRemover(p, u) ==
  /\ Atende(p, "remove")
  /\ Membro(u)
  /\ \E proprio \in BOOLEAN :
       Passa(p, Req(IF papel[u] = "ADMIN" /\ (aceite[u] \/ proprio) THEN "contarRemover"
                                                                     ELSE "remover",
                    u, papel[u], TRUE, FALSE, 0))
  /\ UNCHANGED <<linhas, usado>>

ContarRemover(p) ==
  /\ Parado(p, "contarRemover")
  /\ IF countActiveAdmins(pedido[p].u) = 0 THEN Acaba(p) ELSE Segue(p, "remover")
  /\ UNCHANGED <<linhas, usado>>

Remover(p) ==
  LET u == pedido[p].u IN
  /\ Parado(p, "remover")
  /\ IF apagado[u] THEN UNCHANGED <<apagado, usado>>
     ELSE /\ apagado' = [apagado EXCEPT ![u] = TRUE]
          /\ usado' = Devolve
  /\ Acaba(p)
  /\ UNCHANGED <<existe, papel, aceite, convite, enviados>>

(* The process dies between two statements. *)
Falhar(p) ==
  /\ "falhar" \in Operacoes /\ pedido[p] # Livre
  /\ Acaba(p)
  /\ UNCHANGED <<linhas, usado>>

Inicia(p, u) == LerConvidar(p, u) \/ LerToken(p, u) \/ LerAceitar(p, u)
                \/ LerPapel(p, u) \/ LerRemover(p, u)

Continua(p) == \/ Reservar(p) \/ Convidar(p) \/ ConvidarFalha(p) \/ Estornar(p)
               \/ ConsumirToken(p) \/ Aceitar(p) \/ ContarPapel(p) \/ MudarPapel(p)
               \/ ContarRemover(p) \/ Remover(p)

Next == \E p \in Pedidos :
  \/ /\ \E u \in Pessoas : Inicia(p, u)
     /\ sereno' = (sereno /\ \A q \in Pedidos \ {p} : pedido[q] = Livre)
  \/ Continua(p) /\ UNCHANGED sereno
  \/ Falhar(p) /\ sereno' = FALSE

Spec == Init /\ [][Next]_vars

-----------------------------------------------------------------------------
Pcs == {"livre", "reservar", "convidar", "estornar", "consumir", "aceitar",
        "contarPapel", "mudarPapel", "contarRemover", "remover"}
(* Type correctness of the rows, the counter and the requests. *)
TypeOK ==
  /\ existe \in [Pessoas -> BOOLEAN] /\ papel \in [Pessoas -> Papeis]
  /\ aceite \in [Pessoas -> BOOLEAN] /\ apagado \in [Pessoas -> BOOLEAN]
  /\ convite \in [Pessoas -> 0..MaxConvites] /\ enviados \in [Pessoas -> 0..MaxConvites]
  /\ usado \in Nat /\ sereno \in BOOLEAN
  /\ pedido \in [Pedidos -> [pc : Pcs, u : Pessoas, papel : Papeis, existing : BOOLEAN,
                             lugar : BOOLEAN, token : 0..MaxConvites]]

(* The tenant always has an ADMIN who accepted and was not removed.        *)
AdminSempre == \E u \in Pessoas : AdminActivo(u)

(* It does while requests do not overlap: the last ADMIN can be neither    *)
(* removed, nor demoted, nor lost to an invitation.                        *)
AdminSempreSereno == sereno => AdminSempre

(* Seats in use never pass the limit of the plan, whoever invites at once. *)
UsadoNoLimite == Limite >= 0 => usado <= Limite

(* Between requests that neither overlapped nor died, the seats counted    *)
(* are those of the members: no seat is lost or taken twice, and only the  *)
(* founders are members without one.                                       *)
LugaresFieis ==
  LET membros == Cardinality({u \in Pessoas : Membro(u)}) IN
  (sereno /\ \A p \in Pedidos : pedido[p] = Livre) =>
     usado <= membros /\ membros <= usado + Cardinality(Fundadores)

(* A member who accepted stays accepted until removed: an invitation       *)
(* refuses who is already in, unless it read the member before.            *)
AceiteEstavel ==
  [][sereno => \A u \in Pessoas : (Membro(u) /\ aceite[u]) => (aceite'[u] \/ apagado'[u])]_vars
=============================================================================
