------------------------------ MODULE Renovacao ------------------------------
(***************************************************************************)
(* Tacit renewal of contracts (RenovacaoEngineService).  A corrida is one  *)
(* execution of runOnce: the daily cron (whose inFlight flag admits one at *)
(* a time) or the admin endpoint, which has no such guard.  A corrida      *)
(* reads its candidates once and then renews them one transaction at a     *)
(* time, without reading them again.  A utilizador serves one denunciar    *)
(* request at a time.                                                      *)
(*                                                                         *)
(* Dates are day numbers; the calendar arithmetic of addMonths is the      *)
(* module Calendario.  Notifications and webhooks are left out.            *)
(*                                                                         *)
(* editado and juntas are history variables: a PATCH changed the contract, *)
(* and two corridas were under way at once.                                *)
(***************************************************************************)
EXTENDS Naturals, FiniteSets, Sequences

CONSTANTS
  Contratos,
  Corridas,       \* concurrent executions of runOnce
  Utilizadores,   \* requests denunciar served at a time
  Prazos,         \* values of prazoRenovacaoMeses, in days; 0 is null
  Accoes,         \* which of "denunciar", "update", "estado" happen
  MaxDia,         \* bound: the last day
  MaxEventos      \* bound: eventos in the timeline of a contract

ASSUME PrazosAssumption == Prazos \subseteq Nat
ASSUME CorridasAssumption == IsFiniteSet(Corridas)
ASSUME LimitesAssumption == MaxDia \in Nat /\ MaxEventos \in Nat

VARIABLES
  hoje,      \* the current day
  termo,     \* Contrato.dataTermo
  prazo,     \* Contrato.prazoRenovacaoMeses
  activo,    \* estado = ACTIVO, renovacaoAutomatica, and deletedAt is null
  denuncia,  \* Contrato.denunciaEm is set
  abertas,   \* number of ContratoDataChave(TERMO, cumprida = false), per date
  eventos,   \* the timeline of the contract
  corrida,   \* [pc, lote]: where a corrida is and the candidates left
  aDenunciar, \* the contract a denunciar request has read, or the null request
  editado,   \* the contract was changed by a PATCH
  juntas     \* two corridas were under way at the same time

renovacaoVars == <<hoje, termo, prazo, activo, denuncia, abertas, eventos, corrida,
                   aDenunciar, editado, juntas>>

CorridaLivre == [pc |-> "livre", lote |-> {}, actual |-> {}]
Nenhum == [pc |-> "livre", c |-> {}]
Segue(r, pc, lote, actual) ==
  corrida' = [corrida EXCEPT ![r] = [pc |-> pc, lote |-> lote, actual |-> actual]]
Evento(tipo, antigo, novo) ==
  [tipo |-> tipo, antigo |-> antigo, novo |-> novo, dia |-> hoje]
Regista(c, e) ==
  /\ Len(eventos[c]) < MaxEventos
  /\ eventos' = [eventos EXCEPT ![c] = Append(@, e)]
DoTipo(c, tipo) == {i \in DOMAIN eventos[c] : eventos[c][i].tipo = tipo}
Maximo == MaxDia + MaxEventos * 3

(* Contracts in force, each with the open key date of its term that a user *)
(* entered.  prazo 0 is a renewal period that was never filled in.         *)
RenovacaoInit ==
  /\ hoje = 0
  /\ termo \in [Contratos -> {0, 1}]
  /\ prazo \in [Contratos -> Prazos]
  /\ activo = [c \in Contratos |-> TRUE]
  /\ denuncia = [c \in Contratos |-> FALSE]
  /\ abertas = [c \in Contratos |-> [d \in 0..Maximo |-> IF d = termo[c] THEN 1 ELSE 0]]
  /\ eventos = [c \in Contratos |-> <<>>]
  /\ corrida = [r \in Corridas |-> CorridaLivre]
  /\ aDenunciar = [u \in Utilizadores |-> Nenhum]
  /\ editado = [c \in Contratos |-> FALSE]
  /\ juntas = FALSE

(***************************************************************************)
(* runOnce.                                                                *)
(***************************************************************************)
Candidato_Denunciado(c) == activo[c] /\ termo[c] <= hoje   \* mutant
Candidato(c) == activo[c] /\ ~denuncia[c] /\ termo[c] <= hoje

LerCandidatos(r) ==
  /\ corrida[r] = CorridaLivre
  /\ \E c \in Contratos : Candidato(c)
  /\ Segue(r, "recentes", {[c |-> c, termo |-> termo[c], prazo |-> prazo[c]] :
                             c \in {d \in Contratos : Candidato(d)}}, {})
  /\ UNCHANGED <<hoje, termo, prazo, activo, denuncia, abertas, eventos, aDenunciar>>

(* Renewed in the last 24 hours: surely if today, and yesterday too when   *)
(* it was later in the day than it is now.                                 *)
RenovadoEm(c, dia) == \E i \in DoTipo(c, "RENOVACAO_EXECUTADA") : eventos[c][i].dia = dia
Recentes_Hoje(ontem) == ontem    \* mutant: today's renewals are not looked up
Recentes(ontem) == {c \in Contratos : RenovadoEm(c, hoje)} \cup ontem

LerRecentes(r) ==
  /\ corrida[r].pc = "recentes"
  /\ \E ontem \in SUBSET {c \in Contratos : hoje > 0 /\ RenovadoEm(c, hoje - 1)} :
       Segue(r, "renovar", {s \in corrida[r].lote : s.c \notin Recentes(ontem)}, {})
  /\ UNCHANGED <<hoje, termo, prazo, activo, denuncia, abertas, eventos, aDenunciar>>

(* The key dates after a renewal: the old term is done, the new one open.  *)
DatasChave_SemFechar(d, antigo, novo) == [d EXCEPT ![novo] = @ + 1]   \* mutant
DatasChave(d, antigo, novo) == [d EXCEPT ![antigo] = 0, ![novo] = @ + 1]

(* renovarUm: one transaction, from the values read with the candidates.   *)
novoTermo_Atras(s) == s.termo - s.prazo    \* mutant: the sign of the months
novoTermo(s) == s.termo + s.prazo

Renovar(r, s) ==
  LET novo == novoTermo(s) IN
  /\ corrida[r].pc = "renovar" /\ s \in corrida[r].lote
  /\ s.prazo # 0
  /\ termo' = [termo EXCEPT ![s.c] = novo]
  /\ abertas' = [abertas EXCEPT ![s.c] = DatasChave(@, s.termo, novo)]
  /\ Regista(s.c, Evento("RENOVACAO_EXECUTADA", s.termo, novo))
  /\ Segue(r, "renovar", corrida[r].lote \ {s}, {})
  /\ UNCHANGED <<hoje, prazo, activo, denuncia, aDenunciar>>

(* It throws: no renewal period, or the transaction is rolled back.        *)
NaoRenovar(r, s) ==
  /\ corrida[r].pc = "renovar" /\ s \in corrida[r].lote
  /\ Segue(r, "falha", corrida[r].lote \ {s}, {s.c})
  /\ UNCHANGED <<hoje, termo, prazo, activo, denuncia, abertas, eventos, aDenunciar>>

(* registarFalha: one RENOVACAO_FALHOU per contract and day.               *)
jaRegistada(c) == \E i \in DoTipo(c, "RENOVACAO_FALHOU") : eventos[c][i].dia = hoje

VerFalha(r) ==
  /\ corrida[r].pc = "falha"
  /\ \E c \in corrida[r].actual :
       IF jaRegistada(c) THEN Segue(r, "renovar", corrida[r].lote, {})
                         ELSE Segue(r, "registar", corrida[r].lote, {c})
  /\ UNCHANGED <<hoje, termo, prazo, activo, denuncia, abertas, eventos, aDenunciar>>

RegistarFalha(r) ==
  /\ corrida[r].pc = "registar"
  /\ \E c \in corrida[r].actual : Regista(c, Evento("RENOVACAO_FALHOU", 0, 0))
  /\ Segue(r, "renovar", corrida[r].lote, {})
  /\ UNCHANGED <<hoje, termo, prazo, activo, denuncia, abertas, aDenunciar>>

(* The loop is over; or the process stops, or registarFalha itself throws  *)
(* and the candidates left wait for the next corrida.                      *)
Acabar(r) ==
  /\ corrida[r] # CorridaLivre
  /\ corrida' = [corrida EXCEPT ![r] = CorridaLivre]
  /\ UNCHANGED <<hoje, termo, prazo, activo, denuncia, abertas, eventos, aDenunciar>>

(***************************************************************************)
(* denunciar: the check is made before the transaction.                    *)
(***************************************************************************)
LerDenuncia(u, c) ==
  /\ "denunciar" \in Accoes
  /\ aDenunciar[u] = Nenhum /\ ~denuncia[c]
  /\ aDenunciar' = [aDenunciar EXCEPT ![u] = [pc |-> "gravar", c |-> {c}]]
  /\ UNCHANGED <<hoje, termo, prazo, activo, denuncia, abertas, eventos, corrida>>

GravarDenuncia(u) ==
  /\ aDenunciar[u].pc = "gravar"
  /\ \E c \in aDenunciar[u].c :
       /\ denuncia' = [denuncia EXCEPT ![c] = TRUE]
       /\ Regista(c, Evento("DENUNCIA_REGISTADA", 0, 0))
  /\ aDenunciar' = [aDenunciar EXCEPT ![u] = Nenhum]
  /\ UNCHANGED <<hoje, termo, prazo, activo, abertas, corrida>>

(***************************************************************************)
(* The rest of the API: PATCH of the contract (one updateMany, which       *)
(* leaves key dates and timeline alone), the state leaving ACTIVO and      *)
(* coming back (module ContratoCiclo), and the passing of days.            *)
(***************************************************************************)
Update(c) ==
  /\ "update" \in Accoes
  /\ editado' = [editado EXCEPT ![c] = TRUE]
  /\ \E t \in 0..MaxDia, m \in Prazos :
       /\ termo' = [termo EXCEPT ![c] = t]
       /\ prazo' = [prazo EXCEPT ![c] = m]
  /\ UNCHANGED <<hoje, activo, denuncia, abertas, eventos, corrida, aDenunciar>>

MudarEstado(c) ==
  /\ "estado" \in Accoes
  /\ activo' = [activo EXCEPT ![c] = ~@]
  /\ UNCHANGED <<hoje, termo, prazo, denuncia, abertas, eventos, corrida, aDenunciar>>

Amanhecer ==
  /\ hoje < MaxDia
  /\ hoje' = hoje + 1
  /\ UNCHANGED <<termo, prazo, activo, denuncia, abertas, eventos, corrida, aDenunciar>>

Passo ==
  \/ /\ \/ \E r \in Corridas :
            \/ LerCandidatos(r) \/ LerRecentes(r) \/ VerFalha(r) \/ RegistarFalha(r) \/ Acabar(r)
            \/ \E s \in corrida[r].lote : Renovar(r, s) \/ NaoRenovar(r, s)
        \/ \E u \in Utilizadores : GravarDenuncia(u) \/ \E c \in Contratos : LerDenuncia(u, c)
        \/ \E c \in Contratos : MudarEstado(c)
        \/ Amanhecer
     /\ UNCHANGED editado
  \/ \E c \in Contratos : Update(c)

EmCurso == {r \in Corridas : corrida[r] # CorridaLivre}
RenovacaoNext == Passo /\ juntas' = (juntas \/ (Cardinality(EmCurso) > 1)')

RenovacaoSpec == RenovacaoInit /\ [][RenovacaoNext]_renovacaoVars

-----------------------------------------------------------------------------
(* Type correctness. *)
TiposEvento == {"RENOVACAO_EXECUTADA", "RENOVACAO_FALHOU", "DENUNCIA_REGISTADA"}
RenovacaoTypeOK ==
  /\ hoje \in 0..MaxDia
  /\ termo \in [Contratos -> Nat] /\ prazo \in [Contratos -> Prazos]
  /\ activo \in [Contratos -> BOOLEAN] /\ denuncia \in [Contratos -> BOOLEAN]
  /\ abertas \in [Contratos -> [0..Maximo -> Nat]]
  /\ \A c \in Contratos : \A i \in DOMAIN eventos[c] : eventos[c][i].tipo \in TiposEvento
  /\ \A r \in Corridas :
       /\ corrida[r].pc \in {"livre", "recentes", "renovar", "falha", "registar"}
       /\ \A s \in corrida[r].lote :
            s.c \in Contratos /\ s.termo \in Nat /\ s.prazo \in Prazos
       /\ corrida[r].actual \subseteq Contratos
       /\ corrida[r].pc \in {"falha", "registar"} => Cardinality(corrida[r].actual) = 1
  /\ \A u \in Utilizadores : aDenunciar[u].c \subseteq Contratos

(* Neither the day nor the term is renewed twice: executions that do not   *)
(* overlap renew a contract once a day, and record one failure a day, even *)
(* if its dataTermo is set back in between, and those that do overlap (the *)
(* cron and the endpoint) do so once each; and no two renewals leave from  *)
(* the same dataTermo, unless a PATCH set it back or executions overlapped *)
(* (one that was late sets it back too).                                   *)
quantas == IF juntas THEN Cardinality(Corridas) ELSE 1
RenovaUmaVez ==
  LET iguais(c, tipo, campo, i) ==
        Cardinality({j \in DoTipo(c, tipo) : eventos[c][i][campo] = eventos[c][j][campo]})
  IN  \A c \in Contratos :
        /\ \A tipo \in {"RENOVACAO_EXECUTADA", "RENOVACAO_FALHOU"} :
             \A i \in DoTipo(c, tipo) : iguais(c, tipo, "dia", i) <= quantas
        /\ (~editado[c] /\ ~juntas) => \A i \in DoTipo(c, "RENOVACAO_EXECUTADA") :
             iguais(c, "RENOVACAO_EXECUTADA", "antigo", i) = 1

(* There is no danger of renewing a contract twice on the same day,        *)
(* whichever executions of the engine run.                                 *)
NuncaDuasNoDia ==
  \A c \in Contratos : \A i, j \in DoTipo(c, "RENOVACAO_EXECUTADA") :
    eventos[c][i].dia = eventos[c][j].dia => i = j

(* Row, timeline and key dates agree as long as no PATCH goes around the   *)
(* engine and executions do not overlap: the last renewal recorded gives   *)
(* the contract's dataTermo, each renewal starts where the one before      *)
(* ended, and the one open TERMO date is the contract's.                   *)
TermoCoerente ==
  \A c \in Contratos : (~editado[c] /\ ~juntas) =>
    LET R == DoTipo(c, "RENOVACAO_EXECUTADA") IN
    /\ \A i \in R : (\A j \in R : j <= i) => eventos[c][i].novo = termo[c]
    /\ \A i, j \in R : (i < j /\ \A k \in R : k <= i \/ k >= j) =>
         eventos[c][j].antigo = eventos[c][i].novo
    /\ \A d \in 0..Maximo : abertas[c][d] = (IF d = termo[c] THEN 1 ELSE 0)

(* A denúncia stops renewals: at most the execution that was already past  *)
(* its reading still renews the contract, once (or each of those that      *)
(* overlapped).                                                            *)
DenunciaTrava ==
  \A c \in Contratos : \A i \in DoTipo(c, "DENUNCIA_REGISTADA") :
    Cardinality({j \in DoTipo(c, "RENOVACAO_EXECUTADA") : j > i}) <= quantas
=============================================================================
