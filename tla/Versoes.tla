------------------------------- MODULE Versoes -------------------------------
(***************************************************************************)
(* The versions of one contract, their bodies and the signatures of        *)
(* external collaborators over them.  editarCorpo and the drafting by the  *)
(* assistant (draftContrato, which thinks for seconds between its gate and *)
(* its write) look at the phase of the contract, then at the signatures of *)
(* the version, then write the body by id.  The public link resolves its   *)
(* token, reads the body it will hash, looks at the phase, at the latest   *)
(* version and at the signatures already there, then inserts its own.      *)
(* Nothing joins these statements; the contract moves between its phases   *)
(* (transitar) and links are revoked meanwhile.                            *)
(***************************************************************************)
EXTENDS ContratoEstados, Naturals, FiniteSets

CONSTANTS
  Colaboradores,  \* external collaborators, each with a link
  Pedidos,        \* requests the API serves at a time
  Corpos,         \* bodies (markdown), equal if their hash is
  Percurso,       \* the states the contract moves among here
  MaxVersoes,     \* bound: versions of the contract
  MaxAssinaturas  \* bound: signatures of a behaviour

ASSUME PercursoAssumption == Percurso \subseteq ContratoEstado
ASSUME CorposAssumption == 0 \notin Corpos
ASSUME PedidosAssumption == IsFiniteSet(Pedidos)
ASSUME VersoesAssumption == MaxVersoes \in Nat \ {0}

VARIABLES
  estado,       \* Contrato.estado
  corpo,        \* corpoMarkdown of the version of each ordem; 0: no version
  assinaturas,  \* [v, hash, quem, exposta]: ContratoAssinatura rows
  link,         \* ContratoColaborador.estado
  fora,         \* links whose expiresAt is past
  pedido,       \* requests in flight
  firmes,       \* links revoked while no request was about to write them
  mexido        \* the contract changed state while a request was in flight

vars == <<estado, corpo, assinaturas, link, fora, pedido, firmes, mexido>>
textos == <<corpo, assinaturas>>
links == <<link, fora, firmes>>

Ordens == 1..MaxVersoes
Existe(v) == v \in Ordens /\ corpo[v] # 0
ultima == CHOOSE v \in Ordens : Existe(v) /\ \A u \in Ordens : Existe(u) => u <= v

(* v: the version (its ordem); hash: the body read or to be written; k:    *)
(* the collaborator; lido: the state of its link when it was read.         *)
Livre == [pc |-> "livre", v |-> 0, hash |-> 0, k |-> {}, lido |-> "PENDENTE"]
Parado(p, ponto) == pedido[p].pc = ponto
Passa(p, r) == pedido' = [pedido EXCEPT ![p] = r]
Segue(p, ponto) == Passa(p, [pedido[p] EXCEPT !.pc = ponto])
Acaba(p) == Passa(p, Livre)

Init ==
  /\ estado \in Percurso
  /\ corpo \in {[v \in Ordens |-> IF v = 1 THEN x ELSE 0] : x \in Corpos}
  /\ assinaturas = {}
  /\ link = [k \in Colaboradores |-> "PENDENTE"]
  /\ fora = {}
  /\ pedido = [p \in Pedidos |-> Livre]
  /\ firmes = {}
  /\ mexido = FALSE

(* What ContratoCiclo lets happen to the contract meanwhile. *)
Transitar ==
  /\ \E e \in Percurso : canTransition(estado, e) /\ e # estado /\ estado' = e
  /\ mexido' = (mexido \/ \E p \in Pedidos : pedido[p] # Livre)
  /\ UNCHANGED <<textos, links, pedido>>

(***************************************************************************)
(* A new version (create, or drafting with novaVersao): in any phase, with *)
(* the order that follows the last one; the unique key on (contract,       *)
(* order) refuses the second of two.                                       *)
(***************************************************************************)
proximaOrdem_Salta == ultima + 2      \* mutant
proximaOrdem == ultima + 1

LerOrdem(p, x) ==
  /\ pedido[p] = Livre /\ ultima < MaxVersoes
  /\ Passa(p, [Livre EXCEPT !.pc = "criar", !.v = proximaOrdem, !.hash = x])
  /\ UNCHANGED <<estado, textos, links, mexido>>

GravarVersao(p) ==
  /\ Parado(p, "criar")
  /\ corpo' = IF pedido[p].v \in Ordens /\ ~Existe(pedido[p].v)
                THEN [corpo EXCEPT ![pedido[p].v] = pedido[p].hash] ELSE corpo
  /\ Acaba(p)
  /\ UNCHANGED <<estado, assinaturas, links, mexido>>

(***************************************************************************)
(* The body of an existing version.                                        *)
(***************************************************************************)
LerFase(p, v, x) ==
  /\ pedido[p] = Livre /\ Existe(v)
  /\ contratoPode(estado, "EDITAR_CORPO")
  /\ Passa(p, [Livre EXCEPT !.pc = "lerVersao", !.v = v, !.hash = x])
  /\ UNCHANGED <<estado, textos, links, mexido>>

assinada_Nunca(v) == FALSE            \* mutant: the signatures are not included
assinada(v) == \E a \in assinaturas : a.v = v

LerVersao(p) ==
  /\ Parado(p, "lerVersao")
  /\ IF assinada(pedido[p].v) THEN Acaba(p) ELSE Segue(p, "editar")
  /\ UNCHANGED <<estado, textos, links, mexido>>

EditarCorpo(p) ==
  /\ Parado(p, "editar")
  /\ corpo' = [corpo EXCEPT ![pedido[p].v] = pedido[p].hash]
  /\ Acaba(p)
  /\ UNCHANGED <<estado, assinaturas, links, mexido>>

(***************************************************************************)
(* resolveToken: a revoked link is refused; an expired one is marked, by   *)
(* id; the others go on, and their row is written by id with the state     *)
(* that was read (ACTIVO for a first access) unless that was done a moment *)
(* ago.                                                                    *)
(***************************************************************************)
recusa_SoExpirado(k) == FALSE         \* mutant: REVOGADO is not looked at
recusa(k) == link[k] = "REVOGADO"

ResolveToken(p, k) ==
  /\ pedido[p] = Livre /\ ~recusa(k)
  /\ \/ k \in fora /\ link[k] # "EXPIRADO"
        /\ Passa(p, [Livre EXCEPT !.pc = "expirar", !.k = {k}])
     \/ k \notin fora
        /\ \E ponto \in {"aceitar"} \cup (IF link[k] = "PENDENTE" THEN {} ELSE {"lerCorpo"}) :
             Passa(p, [Livre EXCEPT !.pc = ponto, !.k = {k}, !.lido = link[k]])
  /\ UNCHANGED <<estado, textos, links, mexido>>

MarcarExpirado(p) ==
  /\ Parado(p, "expirar")
  /\ link' = [k \in Colaboradores |-> IF k \in pedido[p].k THEN "EXPIRADO" ELSE link[k]]
  /\ Acaba(p)
  /\ UNCHANGED <<estado, textos, fora, firmes, mexido>>

RegistarAcesso(p) ==
  /\ Parado(p, "aceitar")
  /\ link' = [k \in Colaboradores |->
       IF k \in pedido[p].k
         THEN IF pedido[p].lido = "PENDENTE" THEN "ACTIVO" ELSE pedido[p].lido
         ELSE link[k]]
  /\ Segue(p, "lerCorpo")
  /\ UNCHANGED <<estado, textos, fora, firmes, mexido>>

Revogar(k) ==
  /\ link[k] # "REVOGADO"
  /\ link' = [link EXCEPT ![k] = "REVOGADO"]
  /\ firmes' = IF \E p \in Pedidos : pedido[p].pc \in {"aceitar", "expirar"} /\ k \in pedido[p].k
                 THEN firmes ELSE firmes \cup {k}
  /\ UNCHANGED <<estado, textos, fora, pedido, mexido>>

Expirar(k) ==
  /\ k \notin fora
  /\ fora' = fora \cup {k}
  /\ UNCHANGED <<estado, textos, link, pedido, firmes, mexido>>

(***************************************************************************)
(* assinar, with exigirVersaoMaisRecente, for a collaborator.              *)
(***************************************************************************)
LerCorpo(p, v) ==
  /\ Parado(p, "lerCorpo") /\ Existe(v)
  /\ Passa(p, [pedido[p] EXCEPT !.pc = "verFase", !.v = v, !.hash = corpo[v]])
  /\ UNCHANGED <<estado, textos, links, mexido>>

faseDeAssinar == contratoPode(estado, "REGISTAR_ASSINATURA")

VerFase(p) ==
  /\ Parado(p, "verFase")
  /\ IF faseDeAssinar THEN Segue(p, "verRecente") ELSE Acaba(p)
  /\ UNCHANGED <<estado, textos, links, mexido>>

VerRecente(p) ==
  /\ Parado(p, "verRecente")
  /\ IF pedido[p].v = ultima THEN Segue(p, "verAssinou") ELSE Acaba(p)
  /\ UNCHANGED <<estado, textos, links, mexido>>

jaAssinou_Versao(p) == \E a \in assinaturas : a.quem = pedido[p].k /\ a.v = pedido[p].v
jaAssinou(p) == \E a \in assinaturas : a.quem = pedido[p].k

VerAssinou(p) ==
  /\ Parado(p, "verAssinou")
  /\ IF jaAssinou(p) THEN Acaba(p) ELSE Segue(p, "assinar")
  /\ UNCHANGED <<estado, textos, links, mexido>>

(* exposta: the body has changed since it was read, or a request that saw  *)
(* the version without signatures is about to write it.                    *)
GravarAssinatura(p) ==
  LET r == pedido[p]
      exposta == \/ corpo[r.v] # r.hash
                 \/ \E q \in Pedidos : pedido[q].pc = "editar" /\ pedido[q].v = r.v
  IN  /\ Parado(p, "assinar")
      /\ Cardinality(assinaturas) < MaxAssinaturas
      /\ assinaturas' = assinaturas \cup
           {[v |-> r.v, hash |-> r.hash, quem |-> r.k, exposta |-> exposta, por |-> p]}
      /\ Acaba(p)
      /\ UNCHANGED <<estado, corpo, links, mexido>>

Falhar(p) ==
  /\ pedido[p] # Livre
  /\ Acaba(p)
  /\ UNCHANGED <<estado, textos, links, mexido>>

Next ==
  \/ Transitar
  \/ \E k \in Colaboradores : Revogar(k) \/ Expirar(k)
  \/ \E p \in Pedidos :
       \/ \E x \in Corpos : LerOrdem(p, x) \/ \E v \in Ordens : LerFase(p, v, x)
       \/ GravarVersao(p) \/ LerVersao(p) \/ EditarCorpo(p)
       \/ \E k \in Colaboradores : ResolveToken(p, k)
       \/ MarcarExpirado(p) \/ RegistarAcesso(p)
       \/ \E v \in Ordens : LerCorpo(p, v)
       \/ VerFase(p) \/ VerRecente(p) \/ VerAssinou(p) \/ GravarAssinatura(p)
       \/ Falhar(p)

Spec == Init /\ [][Next]_vars

-----------------------------------------------------------------------------
(* Type correctness. *)
Paragens == {"livre", "criar", "lerVersao", "editar", "expirar", "aceitar", "lerCorpo",
             "verFase", "verRecente", "verAssinou", "assinar"}
EstadoLink == {"PENDENTE", "ACTIVO", "EXPIRADO", "REVOGADO"}
TypeOK ==
  /\ estado \in Percurso
  /\ corpo \in [Ordens -> Corpos \cup {0}]
  /\ assinaturas \subseteq
       [v : Ordens, hash : Corpos, quem : SUBSET Colaboradores, exposta : BOOLEAN,
        por : Pedidos]
  /\ link \in [Colaboradores -> EstadoLink]
  /\ fora \subseteq Colaboradores /\ firmes \subseteq Colaboradores
  /\ pedido \in [Pedidos -> [pc : Paragens, v : 0..(MaxVersoes + 1), hash : Corpos \cup {0},
                             k : SUBSET Colaboradores, lido : EstadoLink]]
  /\ mexido \in BOOLEAN

(* The body of a signed version is the one that was signed, and stays so   *)
(* for ever, unless the signature was recorded while a body was being      *)
(* changed; and that takes a contract that changed phase under a request:  *)
(* a body is edited in phases in which nobody signs.                       *)
AssinaturaFiel ==
  \A a \in assinaturas :
    /\ ~a.exposta => corpo[a.v] = a.hash
    /\ a.exposta => mexido

(* The orders of the versions are 1, 2, 3...: a diff against the previous  *)
(* version finds it, and the latest version is the last one that was made. *)
OrdemSeguida == \A v \in Ordens : Existe(v) <=> v <= ultima

(* A collaborator signs once, whatever link and version it uses: more than *)
(* once only by requests that were all in flight at the same time.         *)
UmaPorSignatario ==
  \A k \in Colaboradores :
    Cardinality({a \in assinaturas : a.quem = {k}}) <= Cardinality(Pedidos)

(* A link revoked while no request was about to write its row is revoked   *)
(* for good.                                                               *)
RevogacaoFica == \A k \in firmes : link[k] = "REVOGADO"
=============================================================================
