----------------------------- MODULE Compliance -----------------------------
(***************************************************************************)
(* The regulatory acts of one contract (ComplianceService) and its key     *)
(* dates (ContratoDatasChaveService), statement by statement.  The rules   *)
(* that detect acts read the contract's data, which is not modelled: an    *)
(* evaluation detects any set of rules.  Alertas composes this module with *)
(* the scheduler that reads these tables.                                  *)
(***************************************************************************)
EXTENDS Integers, FiniteSets

CONSTANTS
  Regras,         \* rules of the engine, by regraId
  Actos,          \* ids of ContratoActoRegulatorio
  Chaves,         \* ids of ContratoDataChave
  Pedidos,        \* requests the API serves at a time
  Prazos,         \* bound: the days deadlines and key dates fall on
  MaxEdicoes,     \* bound: acts marked or rescheduled
  MaxErros        \* bound: failed statements

ASSUME PrazosAssumption == Prazos \subseteq Nat
ASSUME EdicoesAssumption == MaxEdicoes \in Nat /\ MaxErros \in Nat

VARIABLES
  acto,        \* [estado, regra, prazo] of each; "nenhum": not created
  chave,       \* [data, cumprida] of each; data Nulo: not created
  pedido,      \* [pc, novas, a, d]: what a request has read and has to write
  reagendado,  \* acts whose deadline was moved
  avaliacoesJuntas, \* two evaluations were under way at once
  edicoes,     \* acts marked or rescheduled so far
  erros        \* failures so far

tabelas == <<acto, chave, reagendado, edicoes>>
compliance == <<tabelas, pedido, avaliacoesJuntas, erros>>

Nulo == -1
Abertos == {"PENDENTE", "EM_CURSO"}
ActoEstados == Abertos \cup {"CONCLUIDO", "NAO_APLICAVEL"}
SemActo == [estado |-> "nenhum", regra |-> {}, prazo |-> Nulo]
PedidoLivre == [pc |-> "livre", novas |-> {}, a |-> {}, d |-> Nulo]

ComplianceTypeOK ==
  /\ \A a \in Actos : acto[a] = SemActo
       \/ acto[a] \in [estado : ActoEstados, regra : {{r} : r \in Regras}, prazo : Prazos \cup {Nulo}]
  /\ chave \in [Chaves -> [data : Prazos \cup {Nulo}, cumprida : BOOLEAN]]
  /\ pedido \in [Pedidos -> [pc : {"livre", "avaliar", "agendar"}, novas : SUBSET Regras,
                             a : SUBSET Actos, d : Prazos \cup {Nulo}]]
  /\ reagendado \in SUBSET Actos /\ edicoes \in 0..MaxEdicoes
  /\ avaliacoesJuntas \in BOOLEAN /\ erros \in 0..MaxErros

ComplianceInit ==
  /\ acto = [a \in Actos |-> SemActo]
  /\ chave = [c \in Chaves |-> [data |-> Nulo, cumprida |-> FALSE]]
  /\ pedido = [p \in Pedidos |-> PedidoLivre]
  /\ reagendado = {} /\ edicoes = 0
  /\ avaliacoesJuntas = FALSE /\ erros = 0

Erro == erros < MaxErros /\ erros' = erros + 1
Existe(a) == acto[a].estado # "nenhum"
PorCriar == {a \in Actos : ~Existe(a)}
Edita == edicoes < MaxEdicoes /\ edicoes' = edicoes + 1
Acaba(p) == pedido' = [pedido EXCEPT ![p] = PedidoLivre]

(***************************************************************************)
(* avaliarContrato: the acts the contract has are read with it, and those  *)
(* of the rules that have none are created in a transaction afterwards.    *)
(***************************************************************************)
existentes_Nenhuma == {}                  \* mutant: acts detected before do not count
existentes == UNION {acto[a].regra : a \in Actos}

LerAvaliar(p, detectados) ==
  LET novas == detectados \ existentes
  IN  /\ pedido[p] = PedidoLivre
      /\ novas # {}
      /\ pedido' = [pedido EXCEPT ![p] = [PedidoLivre EXCEPT !.pc = "avaliar", !.novas = novas]]
      /\ avaliacoesJuntas' = (avaliacoesJuntas \/ \E q \in Pedidos : pedido[q].pc = "avaliar")
      /\ UNCHANGED <<tabelas, erros>>

GravarAvaliar(p) ==
  /\ pedido[p].pc = "avaliar"
  /\ \E f \in [pedido[p].novas -> PorCriar], prazo \in Prazos \cup {Nulo} :
       /\ \A r, s \in pedido[p].novas : f[r] = f[s] => r = s
       /\ acto' = [a \in Actos |->
                     IF \E r \in pedido[p].novas : f[r] = a
                     THEN [estado |-> "PENDENTE",
                           regra |-> {r \in pedido[p].novas : f[r] = a}, prazo |-> prazo]
                     ELSE acto[a]]
  /\ Acaba(p)
  /\ UNCHANGED <<chave, reagendado, edicoes, avaliacoesJuntas, erros>>

(***************************************************************************)
(* The state of an act, in one statement by id: of a concluded one too,    *)
(* except that marcarConcluido leaves it alone.                            *)
(***************************************************************************)
Marcar(a, estado) ==
  /\ Existe(a)
  /\ Edita
  /\ acto' = [acto EXCEPT ![a].estado = estado]
  /\ UNCHANGED <<chave, reagendado, pedido, avaliacoesJuntas, erros>>

MarcarConcluido(a) == acto[a].estado # "CONCLUIDO" /\ Marcar(a, "CONCLUIDO")
MarcarEmCurso(a) == Marcar(a, "EM_CURSO")
MarcarInaplicavel(a) == Marcar(a, "NAO_APLICAVEL")

(***************************************************************************)
(* agendarPrazo: the key date, the timeline, the deadline of the act, a    *)
(* statement each.                                                         *)
(***************************************************************************)
CriarChave(c, d) ==
  /\ chave[c].data = Nulo
  /\ chave' = [chave EXCEPT ![c] = [data |-> d, cumprida |-> FALSE]]

AgendarChave(p, a, c, d) ==
  /\ pedido[p] = PedidoLivre
  /\ Existe(a)
  /\ Edita
  /\ CriarChave(c, d)
  /\ pedido' = [pedido EXCEPT ![p] = [PedidoLivre EXCEPT !.pc = "agendar", !.a = {a}, !.d = d]]
  /\ UNCHANGED <<acto, reagendado, avaliacoesJuntas, erros>>

AgendarActo(p) ==
  /\ pedido[p].pc = "agendar"
  /\ acto' = [a \in Actos |->
                IF a \in pedido[p].a THEN [acto[a] EXCEPT !.prazo = pedido[p].d] ELSE acto[a]]
  /\ reagendado' = reagendado \cup pedido[p].a
  /\ Acaba(p)
  /\ UNCHANGED <<chave, edicoes, avaliacoesJuntas, erros>>

(* A statement of a request fails; those before it stay. *)
Falhar(p) ==
  /\ pedido[p] # PedidoLivre
  /\ Erro
  /\ Acaba(p)
  /\ UNCHANGED <<tabelas, avaliacoesJuntas>>

(* ContratoDatasChaveService: add, marcarCumprida. *)
Add(c, d) ==
  /\ CriarChave(c, d)
  /\ UNCHANGED <<acto, reagendado, edicoes, pedido, avaliacoesJuntas, erros>>

MarcarCumprida(c) ==
  /\ chave[c].data # Nulo /\ ~chave[c].cumprida
  /\ chave' = [chave EXCEPT ![c].cumprida = TRUE]
  /\ UNCHANGED <<acto, reagendado, edicoes, pedido, avaliacoesJuntas, erros>>

ComplianceNext ==
  \/ \E p \in Pedidos :
       \/ \E d \in SUBSET Regras : LerAvaliar(p, d)
       \/ GravarAvaliar(p)
       \/ \E a \in Actos, c \in Chaves, d \in Prazos : AgendarChave(p, a, c, d)
       \/ AgendarActo(p)
       \/ Falhar(p)
  \/ \E a \in Actos : MarcarConcluido(a) \/ MarcarEmCurso(a) \/ MarcarInaplicavel(a)
  \/ \E c \in Chaves : MarcarCumprida(c) \/ \E d \in Prazos : Add(c, d)
-----------------------------------------------------------------------------
(* One act for each rule, however many times the contract is evaluated,    *)
(* unless two evaluations were under way at once.                          *)
ActoUnico ==
  ~avaliacoesJuntas =>
    \A a, b \in Actos : a # b /\ Existe(a) /\ Existe(b) => acto[a].regra # acto[b].regra
=============================================================================
