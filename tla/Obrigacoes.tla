------------------------------ MODULE Obrigacoes ------------------------------
(***************************************************************************)
(* Contractual obligations and their instances, one per cycle              *)
(* (ContratoObrigacoesService).  Fulfilling an instance claims it inside   *)
(* the transaction that creates the next one; dispensing it checks its     *)
(* state first and updates it by id afterwards.  A request is two steps:   *)
(* what it reads, and the transaction (or the statement) that writes.      *)
(*                                                                         *)
(* atropelada is a history variable: a dispensa decided on an instance     *)
(* still open was written over its fulfilment.                             *)
(***************************************************************************)
EXTENDS Calendario, Sequences, FiniteSets

CONSTANTS
  Obrigacoes,      \* obligation ids
  Pedidos,         \* requests served at a time
  Datas,           \* values of proximaData in a create request
  Periodos,        \* months of the periodicidade; 0 is UNICA
  Operacoes,       \* which of "cumprir", "dispensar", "desactivar" are used
  MaxInstancias    \* bound: instances of an obligation

EDataCivil(d) == d.mes \in Nat /\ d.dia \in 1..ultimoDia(d.mes)
ASSUME DatasAssumption ==
  Datas \subseteq [mes : Nat, dia : 1..31] /\ \A d \in Datas : EDataCivil(d)
ASSUME PeriodosAssumption == Periodos \subseteq {0, 1, 2, 3, 6, 12}
ASSUME MaxInstanciasAssumption == MaxInstancias \in Nat \ {0}

VARIABLES
  existe,      \* the obligation row exists
  activa,      \* ContratoObrigacao.isActive
  meses,       \* ContratoObrigacao.periodicidade
  proxima,     \* ContratoObrigacao.proximaData, a set of at most one date
  instancias,  \* its ContratoObrigacaoInstancia rows, oldest first
  pedido,      \* [pc, o, i]: the instance a request has read
  atropelada   \* a fulfilment of the obligation was written over

vars == <<existe, activa, meses, proxima, instancias, pedido, atropelada>>

Livre == [pc |-> "livre", o |-> {}, i |-> 0]
Instancia(data) == [prevista |-> data, estado |-> "PENDENTE"]

Init ==
  /\ existe = [o \in Obrigacoes |-> FALSE]
  /\ activa = [o \in Obrigacoes |-> FALSE]
  /\ meses = [o \in Obrigacoes |-> 0]
  /\ proxima = [o \in Obrigacoes |-> {}]
  /\ instancias = [o \in Obrigacoes |-> <<>>]
  /\ pedido = [p \in Pedidos |-> Livre]
  /\ atropelada = [o \in Obrigacoes |-> FALSE]

(* create: with a first instance if proximaData was given.                 *)
Create(o) ==
  /\ ~existe[o]
  /\ existe' = [existe EXCEPT ![o] = TRUE]
  /\ activa' = [activa EXCEPT ![o] = TRUE]
  /\ \E m \in Periodos : meses' = [meses EXCEPT ![o] = m]
  /\ \E ds \in {{d} : d \in Datas} \cup {{}} :
       /\ proxima' = [proxima EXCEPT ![o] = ds]
       /\ \/ ds = {} /\ UNCHANGED instancias
          \/ \E d \in ds : instancias' = [instancias EXCEPT ![o] = <<Instancia(d)>>]
  /\ UNCHANGED <<pedido, atropelada>>

(***************************************************************************)
(* cumprirInstancia.  Out of the transaction: an instance already CUMPRIDA *)
(* is returned as it is.  In it: the updateMany claims the instance, or    *)
(* finds it CUMPRIDA and changes nothing.                                  *)
(***************************************************************************)
LerCumprir(p, o, i) ==
  /\ "cumprir" \in Operacoes /\ pedido[p] = Livre
  /\ instancias[o][i].estado # "CUMPRIDA"
  /\ pedido' = [pedido EXCEPT ![p] = [pc |-> "cumprir", o |-> {o}, i |-> i]]
  /\ UNCHANGED <<existe, activa, meses, proxima, instancias, atropelada>>

claim_Sempre(x) == TRUE          \* mutant: update by id
claim(x) == x.estado # "CUMPRIDA"

(* The cadence goes from the planned date, through addMonths.              *)
seguinte(x, m) == addMonths(x.prevista, m)

(* The obligation's proximaData once an instance is fulfilled.             *)
proximaData_Esquecida(data, m) == {}   \* mutant: as if every obligation were UNICA
proximaData(data, m) == IF m = 0 THEN {} ELSE {data}

GravarCumprir(p) ==
  /\ pedido[p].pc = "cumprir"
  /\ \E o \in pedido[p].o :
       LET i == pedido[p].i
           x == instancias[o][i]
           data == seguinte(x, meses[o])
           cumpridas == [instancias[o] EXCEPT ![i].estado = "CUMPRIDA"]
       IN \/ /\ ~claim(x)
             /\ UNCHANGED <<proxima, instancias>>
          \/ /\ claim(x)
             /\ Len(instancias[o]) < MaxInstancias
             /\ instancias' = [instancias EXCEPT ![o] =
                  IF meses[o] = 0 THEN cumpridas ELSE Append(cumpridas, Instancia(data))]
             /\ proxima' = [proxima EXCEPT ![o] = proximaData(data, meses[o])]
  /\ pedido' = [pedido EXCEPT ![p] = Livre]
  /\ UNCHANGED <<existe, activa, meses, atropelada>>

(* dispensarInstancia: the check on what was read, the update by id.       *)
podeDispensar(x) == x.estado # "CUMPRIDA"

LerDispensar(p, o, i) ==
  /\ "dispensar" \in Operacoes /\ pedido[p] = Livre
  /\ podeDispensar(instancias[o][i])
  /\ pedido' = [pedido EXCEPT ![p] = [pc |-> "dispensar", o |-> {o}, i |-> i]]
  /\ UNCHANGED <<existe, activa, meses, proxima, instancias, atropelada>>

GravarDispensar(p) ==
  /\ pedido[p].pc = "dispensar"
  /\ \E o \in pedido[p].o :
       LET i == pedido[p].i IN
       /\ instancias' = [instancias EXCEPT ![o][i].estado = "DISPENSADA"]
       /\ atropelada' = [atropelada EXCEPT ![o] = @ \/ instancias[o][i].estado = "CUMPRIDA"]
  /\ pedido' = [pedido EXCEPT ![p] = Livre]
  /\ UNCHANGED <<existe, activa, meses, proxima>>

(* desactivar: leaves the instances pending, and cumprir does not look.    *)
Desactivar(o) ==
  /\ "desactivar" \in Operacoes /\ existe[o]
  /\ activa' = [activa EXCEPT ![o] = FALSE]
  /\ UNCHANGED <<existe, meses, proxima, instancias, pedido, atropelada>>

(* The process dies, or the transaction is rolled back. *)
Falhar(p) ==
  /\ pedido[p] # Livre
  /\ pedido' = [pedido EXCEPT ![p] = Livre]
  /\ UNCHANGED <<existe, activa, meses, proxima, instancias, atropelada>>

Next ==
  \/ \E o \in Obrigacoes :
       \/ Create(o) \/ Desactivar(o)
       \/ \E p \in Pedidos, i \in DOMAIN instancias[o] : LerCumprir(p, o, i) \/ LerDispensar(p, o, i)
  \/ \E p \in Pedidos : GravarCumprir(p) \/ GravarDispensar(p) \/ Falhar(p)

Spec == Init /\ [][Next]_vars

-----------------------------------------------------------------------------
(* Type correctness. *)
EstadoInstancia == {"PENDENTE", "CUMPRIDA", "ATRASADA", "DISPENSADA"}
TypeOK ==
  /\ existe \in [Obrigacoes -> BOOLEAN] /\ activa \in [Obrigacoes -> BOOLEAN]
  /\ meses \in [Obrigacoes -> Periodos \cup {0}]
  /\ \A o \in Obrigacoes :
       /\ \A d \in proxima[o] : EDataCivil(d)
       /\ Len(instancias[o]) <= MaxInstancias
       /\ \A i \in DOMAIN instancias[o] :
            EDataCivil(instancias[o][i].prevista) /\ instancias[o][i].estado \in EstadoInstancia
  /\ \A p \in Pedidos :
       /\ pedido[p].pc \in {"livre", "cumprir", "dispensar"}
       /\ \A o \in pedido[p].o : existe[o] /\ pedido[p].i \in DOMAIN instancias[o]

(* Each cycle has one instance: a double click, or two people at once,     *)
(* never create the following cycle twice, unless a dispensa was written   *)
(* over the fulfilment (the claim then succeeds again).                    *)
UmaPorCiclo ==
  \A o \in Obrigacoes : ~atropelada[o] => \A i, j \in DOMAIN instancias[o] :
    instancias[o][i].prevista = instancias[o][j].prevista => i = j

(* The obligation points at its open cycle: proximaData is the date of the *)
(* newest instance, which is the only one that may be open, until the      *)
(* obligation is over.                                                     *)
ProximaEmAberto ==
  \A o \in Obrigacoes : ~atropelada[o] =>
    LET n == Len(instancias[o]) IN
    /\ \A i \in 1..n : i < n => instancias[o][i].estado # "PENDENTE"
    /\ n > 0 => proxima[o] = IF meses[o] = 0 /\ instancias[o][n].estado = "CUMPRIDA"
                               THEN {} ELSE {instancias[o][n].prevista}

(* The cadence is kept: the n-th cycle falls in the month the periodicity  *)
(* gives, whatever the day the obligation started on, and no cycle falls   *)
(* after the day of the first one, nor more than to the 28th before it (so *)
(* obligations that start up to the 28th keep their day for ever).         *)
CadenciaMantida ==
  \A o \in Obrigacoes : \A i \in DOMAIN instancias[o] :
    LET primeira == instancias[o][1].prevista
        esta == instancias[o][i].prevista
    IN  /\ ~atropelada[o] => esta.mes = primeira.mes + (i - 1) * meses[o]
        /\ Menor(primeira.dia, 28) <= esta.dia /\ esta.dia <= primeira.dia
=============================================================================
