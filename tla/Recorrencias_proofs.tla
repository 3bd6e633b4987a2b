-------------------------- MODULE Recorrencias_proofs --------------------------
(***************************************************************************)
(* Proofs about what recurs in a contract: its obligations and their       *)
(* instances, with the calendar they rest on, for any obligations, requests*)
(* and starting dates (Obrigacoes); and its tacit renewals, for any        *)
(* contracts, executions of the engine, denúncia requests, renewal periods *)
(* and days (Renovacao).  The two share no variable: each theorem names    *)
(* its own specification.                                                  *)
(***************************************************************************)
EXTENDS Obrigacoes, Renovacao, SequenceTheorems, FiniteSetTheorems, TLAPS

(***************************************************************************)
(* Obligations.                                                            *)
(***************************************************************************)
Previstas == [mes : Nat, dia : 1..31]
Linha == [prevista : Previstas, estado : EstadoInstancia]
PedidoTipo == [pc : {"livre", "cumprir", "dispensar"}, o : SUBSET Obrigacoes, i : Nat]

(* The rows have their fields, and a request is about an instance there is. *)
Tipos ==
  /\ instancias \in [Obrigacoes -> Seq(Linha)]
  /\ pedido \in [Pedidos -> PedidoTipo]
  /\ proxima \in [Obrigacoes -> SUBSET Previstas]
  /\ atropelada \in [Obrigacoes -> BOOLEAN]
  /\ \A o \in Obrigacoes : ~existe[o] => instancias[o] = <<>>

(* What holds of the instances q of an obligation of period m: a later one *)
(* is of a later month, only the newest may not be fulfilled, the n-th is  *)
(* of the month the period gives; and the day is kept, or comes forward    *)
(* to the end of a shorter month.                                          *)
MesesDe(q, m) ==
  /\ \A i, j \in DOMAIN q : i < j => q[i].prevista.mes < q[j].prevista.mes
  /\ \A i \in DOMAIN q : i < Len(q) => q[i].estado = "CUMPRIDA"
  /\ \A i \in DOMAIN q : q[i].prevista.mes = q[1].prevista.mes + (i - 1) * m
DiasDe(q) ==
  \A i \in DOMAIN q : /\ Menor(q[1].prevista.dia, 28) <= q[i].prevista.dia
                      /\ q[i].prevista.dia <= q[1].prevista.dia
CiclosDe(q, m, a) ==
  /\ m = 0 => Len(q) <= 1
  /\ ~a => MesesDe(q, m)
  /\ DiasDe(q)

(* And of the date the obligation points at.                               *)
AbertoDe(q, m, a, datas) ==
  ~a /\ Len(q) > 0 =>
    datas = IF m = 0 /\ q[Len(q)].estado = "CUMPRIDA" THEN {} ELSE {q[Len(q)].prevista}

Ciclos == \A o \in Obrigacoes : CiclosDe(instancias[o], meses[o], atropelada[o])
Aberto == \A o \in Obrigacoes : AbertoDe(instancias[o], meses[o], atropelada[o], proxima[o])
-----------------------------------------------------------------------------
(* The calendar: months have 28 to 31 days, and adding months keeps a date *)
(* a date, in the month asked for, on its day or before it, never before   *)
(* the 28th unless it started there.                                       *)
LEMMA UltimoDia == ASSUME NEW m \in Nat PROVE ultimoDia(m) \in 28..31
BY DEF ultimoDia

LEMMA AddMonths ==
  ASSUME NEW b \in Previstas, NEW m \in Nat
  PROVE  /\ addMonths(b, m) \in Previstas /\ EDataCivil(addMonths(b, m))
         /\ addMonths(b, m).mes = b.mes + m
         /\ addMonths(b, m).dia <= b.dia
         /\ Menor(b.dia, 28) <= addMonths(b, m).dia
<1>1. b.mes \in Nat /\ b.dia \in 1..31 /\ b.mes + m \in Nat
  BY DEF Previstas
<1> DEFINE u == ultimoDia(b.mes + m)
<1>2. u \in 28..31
  BY <1>1, UltimoDia
<1>3. addMonths(b, m) = [mes |-> b.mes + m, dia |-> Menor(b.dia, u)]
  BY DEF addMonths, Data
<1> HIDE DEF u
<1>4. /\ Menor(b.dia, u) \in 1..31 /\ Menor(b.dia, u) \in 1..u /\ Menor(b.dia, u) <= b.dia
      /\ Menor(b.dia, 28) <= Menor(b.dia, u)
  BY <1>1, <1>2 DEF Menor
<1>5. EDataCivil(addMonths(b, m))
  BY <1>1, <1>3, <1>4 DEF EDataCivil, u
<1> QED
  BY <1>1, <1>3, <1>4, <1>5 DEF Previstas

LEMMA PeriodosNat == \A m \in Periodos \cup {0} : m \in Nat
BY PeriodosAssumption

(* An instance that changes state keeps its date, and the others both.     *)
LEMMA MudaEstado ==
  ASSUME NEW q \in Seq(Linha), NEW i \in DOMAIN q, NEW e \in EstadoInstancia
  PROVE  /\ [q EXCEPT ![i].estado = e] \in Seq(Linha)
         /\ Len([q EXCEPT ![i].estado = e]) = Len(q)
         /\ DOMAIN [q EXCEPT ![i].estado = e] = DOMAIN q
         /\ \A j \in DOMAIN q :
              /\ [q EXCEPT ![i].estado = e][j].prevista = q[j].prevista
              /\ [q EXCEPT ![i].estado = e][j].estado = IF j = i THEN e ELSE q[j].estado
<1> DEFINE r == [q EXCEPT ![i].estado = e]
<1>1. /\ DOMAIN q = 1..Len(q) /\ Len(q) \in Nat /\ \A j \in DOMAIN q : q[j] \in Linha
  OBVIOUS
<1>2. DOMAIN r = DOMAIN q
  OBVIOUS
<1>3. ASSUME NEW j \in DOMAIN q
      PROVE  /\ r[j] \in Linha /\ r[j].prevista = q[j].prevista
             /\ r[j].estado = IF j = i THEN e ELSE q[j].estado
  <2>1. r[j] = IF j = i THEN [q[i] EXCEPT !.estado = e] ELSE q[j]
    OBVIOUS
  <2>2. q[i] \in Linha /\ q[j] \in Linha
    BY <1>1
  <2> HIDE DEF r
  <2> QED
    BY <2>1, <2>2 DEF Linha
<1>4. r \in [1..Len(q) -> Linha]
  BY <1>1, <1>2, <1>3
<1>5. r \in Seq(Linha) /\ Len(r) = Len(q)
  <2> HIDE DEF r
  <2> QED
    BY <1>1, <1>2, <1>4, SeqDef
<1> QED
  BY <1>2, <1>3, <1>5

-----------------------------------------------------------------------------
LEMMA TypeInicio == Init => TypeOK /\ Tipos
<1> SUFFICES ASSUME Init PROVE TypeOK /\ Tipos
  OBVIOUS
<1>1. /\ \A p \in Pedidos : pedido[p] = Livre
      /\ pedido \in [Pedidos -> PedidoTipo]
      /\ \A o \in Obrigacoes : instancias[o] = <<>>
      /\ instancias \in [Obrigacoes -> Seq(Linha)]
  BY DEF Init, Livre, PedidoTipo
<1>2. \A p \in Pedidos : pedido[p].pc = "livre" /\ pedido[p].o = {}
  BY <1>1 DEF Livre
<1>3. Tipos
  BY <1>1 DEF Init, Tipos
<1>4. /\ existe \in [Obrigacoes -> BOOLEAN] /\ activa \in [Obrigacoes -> BOOLEAN]
      /\ meses \in [Obrigacoes -> Periodos \cup {0}]
      /\ \A o \in Obrigacoes : proxima[o] = {}
  BY DEF Init
<1> QED
  BY <1>1, <1>2, <1>3, <1>4, MaxInstanciasAssumption DEF TypeOK
(* A request is about an instance there is.                                *)
LEMMA DoPedido ==
  ASSUME TypeOK, Tipos, NEW p \in Pedidos, NEW o \in pedido[p].o
  PROVE  /\ o \in Obrigacoes /\ existe[o] /\ pedido[p].i \in DOMAIN instancias[o]
         /\ instancias[o] \in Seq(Linha) /\ meses[o] \in Nat
         /\ instancias[o][pedido[p].i] \in Linha
<1>1. o \in Obrigacoes
  BY DEF Tipos, PedidoTipo
<1>2. existe[o] /\ pedido[p].i \in DOMAIN instancias[o] /\ meses[o] \in Nat
  BY <1>1, PeriodosNat DEF TypeOK
<1>3. instancias[o] \in Seq(Linha)
  BY <1>1 DEF Tipos
<1> QED
  BY <1>1, <1>2, <1>3

(* The transaction of cumprirInstancia, when it claims the instance.       *)
Reclama(q, i, m) ==
  IF m = 0 THEN [q EXCEPT ![i].estado = "CUMPRIDA"]
  ELSE Append([q EXCEPT ![i].estado = "CUMPRIDA"], Instancia(seguinte(q[i], m)))
LEMMA Reclamada ==
  ASSUME NEW q \in Seq(Linha), NEW i \in DOMAIN q, NEW m \in Nat, NEW r, r = Reclama(q, i, m)
  PROVE  /\ r \in Seq(Linha) /\ Len(r) = (IF m = 0 THEN Len(q) ELSE Len(q) + 1)
         /\ \A j \in DOMAIN q : /\ j \in DOMAIN r /\ r[j].prevista = q[j].prevista
                               /\ r[j].estado = IF j = i THEN "CUMPRIDA" ELSE q[j].estado
         /\ m # 0 => /\ Len(q) + 1 \in DOMAIN r
                     /\ r[Len(q) + 1].prevista = addMonths(q[i].prevista, m)
                     /\ r[Len(q) + 1].estado = "PENDENTE"
<1> DEFINE c == [q EXCEPT ![i].estado = "CUMPRIDA"]
           x == Instancia(seguinte(q[i], m))
<1>1. "CUMPRIDA" \in EstadoInstancia /\ "PENDENTE" \in EstadoInstancia
  BY DEF EstadoInstancia
<1>2. /\ c \in Seq(Linha) /\ Len(c) = Len(q) /\ DOMAIN c = DOMAIN q
      /\ \A j \in DOMAIN q : /\ c[j].prevista = q[j].prevista
                            /\ c[j].estado = IF j = i THEN "CUMPRIDA" ELSE q[j].estado
  BY <1>1, MudaEstado
<1>3. q[i].prevista \in Previstas
  <2>1. q[i] \in Linha
    OBVIOUS
  <2> QED
    BY <2>1 DEF Linha
<1>4. /\ x \in Linha /\ x.prevista = addMonths(q[i].prevista, m) /\ x.estado = "PENDENTE"
  BY <1>1, <1>3, AddMonths DEF Instancia, seguinte, Linha
<1>5. r = IF m = 0 THEN c ELSE Append(c, x)
  BY DEF Reclama
<1> HIDE DEF c, x
<1>6. CASE m = 0
  BY <1>2, <1>5, <1>6
<1>7. CASE m # 0
  <2>1. r = Append(c, x)
    BY <1>5, <1>7
  <2>2. /\ r \in Seq(Linha) /\ Len(r) = Len(q) + 1 /\ r[Len(q) + 1] = x
        /\ DOMAIN r = 1..(Len(q) + 1) /\ Len(q) \in Nat /\ DOMAIN q = 1..Len(q)
        /\ \A j \in 1..Len(q) : r[j] = c[j]
    <3>1. /\ Append(c, x) \in Seq(Linha) /\ Len(Append(c, x)) = Len(c) + 1
          /\ \A j \in 1..Len(c) : Append(c, x)[j] = c[j]
          /\ Append(c, x)[Len(c) + 1] = x
      <4>1. c \in Seq(Linha) /\ x \in Linha
        BY <1>2, <1>4
      <4> QED
        BY <4>1, AppendProperties
    <3>2. Len(q) \in Nat /\ DOMAIN q = 1..Len(q)
      OBVIOUS
    <3>3. DOMAIN r = 1..(Len(q) + 1)
      BY <1>2, <2>1, <3>1, LenProperties
    <3> QED
      BY <1>2, <2>1, <3>1, <3>2, <3>3
  <2> QED
    BY <1>2, <1>4, <1>7, <2>2
<1> QED
  BY <1>6, <1>7

(* A step writes the rows of one obligation, in one of three ways.         *)
LEMMA Escrita ==
  ASSUME TypeOK, Tipos, [Next]_vars, NEW o \in Obrigacoes
  PROVE  \/ UNCHANGED <<instancias[o], proxima[o], meses[o], atropelada[o]>>
         \/ /\ instancias[o] = <<>> /\ atropelada'[o] = atropelada[o] /\ meses'[o] \in Periodos
            /\ existe'[o]
            /\ \/ instancias'[o] = <<>> /\ proxima'[o] = {}
               \/ \E d \in Datas : instancias'[o] = <<Instancia(d)>> /\ proxima'[o] = {d}
         \/ \E i \in DOMAIN instancias[o] :
              /\ instancias[o][i].estado # "CUMPRIDA" /\ UNCHANGED <<meses[o], atropelada[o]>>
              /\ Len(instancias[o]) < MaxInstancias
              /\ instancias'[o] =
                   IF meses[o] = 0 THEN [instancias[o] EXCEPT ![i].estado = "CUMPRIDA"]
                   ELSE Append([instancias[o] EXCEPT ![i].estado = "CUMPRIDA"],
                               Instancia(seguinte(instancias[o][i], meses[o])))
              /\ proxima'[o] = IF meses[o] = 0 THEN {}
                               ELSE {addMonths(instancias[o][i].prevista, meses[o])}
         \/ \E i \in DOMAIN instancias[o] :
              /\ instancias'[o] = [instancias[o] EXCEPT ![i].estado = "DISPENSADA"]
              /\ atropelada'[o] = (atropelada[o] \/ instancias[o][i].estado = "CUMPRIDA")
              /\ UNCHANGED <<meses[o], proxima[o]>>
<1>0. /\ DOMAIN instancias = Obrigacoes /\ DOMAIN proxima = Obrigacoes
      /\ DOMAIN meses = Obrigacoes /\ DOMAIN atropelada = Obrigacoes
      /\ DOMAIN existe = Obrigacoes
      /\ ~existe[o] => instancias[o] = <<>>
  BY DEF Tipos, TypeOK
<1>1. CASE UNCHANGED <<instancias, proxima, meses, atropelada>>
  BY <1>1
<1>2. ASSUME NEW k \in Obrigacoes, Create(k)
      PROVE  \/ UNCHANGED <<instancias[o], proxima[o], meses[o], atropelada[o]>>
             \/ /\ instancias[o] = <<>> /\ atropelada'[o] = atropelada[o] /\ meses'[o] \in Periodos
                /\ existe'[o]
                /\ \/ instancias'[o] = <<>> /\ proxima'[o] = {}
                   \/ \E d \in Datas : instancias'[o] = <<Instancia(d)>> /\ proxima'[o] = {d}
  <2>1. CASE k # o
    <3>1. /\ instancias'[o] = instancias[o] /\ proxima'[o] = proxima[o]
          /\ meses'[o] = meses[o] /\ atropelada'[o] = atropelada[o]
      BY <1>0, <1>2, <2>1 DEF Create
    <3> QED
      BY <3>1
  <2>2. CASE k = o
    <3>1. PICK ds \in {{d} : d \in Datas} \cup {{}} :
            /\ proxima' = [proxima EXCEPT ![o] = ds]
            /\ \/ ds = {} /\ UNCHANGED instancias
               \/ \E d \in ds : instancias' = [instancias EXCEPT ![o] = <<Instancia(d)>>]
      BY <1>2, <2>2 DEF Create
    <3>2. /\ instancias[o] = <<>> /\ meses'[o] \in Periodos /\ atropelada' = atropelada
          /\ existe'[o]
      BY <1>0, <1>2, <2>2 DEF Create
    <3>3. proxima'[o] = ds
      BY <1>0, <3>1
    <3>4. CASE ds = {} /\ UNCHANGED instancias
      BY <3>2, <3>3, <3>4
    <3>5. ASSUME NEW d \in ds, instancias' = [instancias EXCEPT ![o] = <<Instancia(d)>>]
          PROVE  \E e \in Datas : instancias'[o] = <<Instancia(e)>> /\ proxima'[o] = {e}
      <4>1. instancias'[o] = <<Instancia(d)>>
        BY <1>0, <3>5
      <4>2. d \in Datas /\ ds = {d}
        BY <3>1
      <4> QED
        BY <3>3, <4>1, <4>2
    <3> QED
      BY <3>1, <3>2, <3>4, <3>5
  <2> QED
    BY <2>1, <2>2
<1>3. ASSUME NEW p \in Pedidos, GravarCumprir(p), ~UNCHANGED <<instancias, proxima>>
      PROVE  \/ UNCHANGED <<instancias[o], proxima[o], meses[o], atropelada[o]>>
             \/ \E i \in DOMAIN instancias[o] :
                  /\ instancias[o][i].estado # "CUMPRIDA" /\ UNCHANGED <<meses[o], atropelada[o]>>
                  /\ Len(instancias[o]) < MaxInstancias
                  /\ instancias'[o] =
                       IF meses[o] = 0 THEN [instancias[o] EXCEPT ![i].estado = "CUMPRIDA"]
                       ELSE Append([instancias[o] EXCEPT ![i].estado = "CUMPRIDA"],
                                   Instancia(seguinte(instancias[o][i], meses[o])))
                  /\ proxima'[o] = IF meses[o] = 0 THEN {}
                                   ELSE {addMonths(instancias[o][i].prevista, meses[o])}
  <2>1. PICK k \in pedido[p].o :
          /\ instancias[k][pedido[p].i].estado # "CUMPRIDA"
          /\ Len(instancias[k]) < MaxInstancias
          /\ instancias' = [instancias EXCEPT ![k] =
               IF meses[k] = 0 THEN [instancias[k] EXCEPT ![pedido[p].i].estado = "CUMPRIDA"]
               ELSE Append([instancias[k] EXCEPT ![pedido[p].i].estado = "CUMPRIDA"],
                           Instancia(seguinte(instancias[k][pedido[p].i], meses[k])))]
          /\ proxima' = [proxima EXCEPT ![k] = IF meses[k] = 0 THEN {}
               ELSE {addMonths(instancias[k][pedido[p].i].prevista, meses[k])}]
    BY <1>3 DEF GravarCumprir, claim, proximaData, seguinte
  <2>2. meses' = meses /\ atropelada' = atropelada
    BY <1>3 DEF GravarCumprir
  <2>3. pedido[p].i \in DOMAIN instancias[k]
    BY DoPedido
  <2>4. CASE k # o
    <3>1. instancias'[o] = instancias[o] /\ proxima'[o] = proxima[o]
      BY <1>0, <2>1, <2>4
    <3> QED
      BY <2>2, <3>1
  <2>5. CASE k = o
    BY <1>0, <2>1, <2>2, <2>3, <2>5
  <2> QED
    BY <2>4, <2>5
<1>4. ASSUME NEW p \in Pedidos, GravarDispensar(p)
      PROVE  \/ UNCHANGED <<instancias[o], proxima[o], meses[o], atropelada[o]>>
             \/ \E i \in DOMAIN instancias[o] :
                  /\ instancias'[o] = [instancias[o] EXCEPT ![i].estado = "DISPENSADA"]
                  /\ atropelada'[o] = (atropelada[o] \/ instancias[o][i].estado = "CUMPRIDA")
                  /\ UNCHANGED <<meses[o], proxima[o]>>
  <2>1. PICK k \in pedido[p].o :
          /\ instancias' = [instancias EXCEPT ![k][pedido[p].i].estado = "DISPENSADA"]
          /\ atropelada' = [atropelada EXCEPT ![k] =
                              @ \/ instancias[k][pedido[p].i].estado = "CUMPRIDA"]
    BY <1>4 DEF GravarDispensar
  <2>2. meses' = meses /\ proxima' = proxima
    BY <1>4 DEF GravarDispensar
  <2>3. pedido[p].i \in DOMAIN instancias[k] /\ k \in Obrigacoes
    BY DoPedido
  <2>4. CASE k # o
    <3>1. instancias'[o] = instancias[o] /\ atropelada'[o] = atropelada[o]
      BY <1>0, <2>1, <2>4
    <3> QED
      BY <2>2, <3>1
  <2>5. CASE k = o
    <3>1. instancias'[o] = [instancias[o] EXCEPT ![pedido[p].i].estado = "DISPENSADA"]
      BY <1>0, <2>1, <2>5
    <3>2. atropelada'[o] = (atropelada[o] \/ instancias[o][pedido[p].i].estado = "CUMPRIDA")
      BY <1>0, <2>1, <2>5, Zenon
    <3> QED
      BY <2>2, <2>3, <2>5, <3>1, <3>2
  <2> QED
    BY <2>4, <2>5
<1>5. ASSUME NEW p \in Pedidos, GravarCumprir(p), UNCHANGED <<instancias, proxima>>
      PROVE  UNCHANGED <<instancias, proxima, meses, atropelada>>
  BY <1>5 DEF GravarCumprir
<1>6. \/ UNCHANGED <<instancias, proxima, meses, atropelada>>
      \/ \E k \in Obrigacoes : Create(k)
      \/ \E p \in Pedidos : GravarCumprir(p) \/ GravarDispensar(p)
  BY DEF Next, vars, Desactivar, LerCumprir, LerDispensar, Falhar
<1> QED
  BY <1>1, <1>2, <1>3, <1>4, <1>5, <1>6
(* What the rows of an obligation are after a step.                        *)
LEMMA LinhasPasso ==
  ASSUME TypeOK, Tipos, [Next]_vars, NEW o \in Obrigacoes
  PROVE  /\ instancias'[o] \in Seq(Linha) /\ Len(instancias'[o]) <= MaxInstancias
         /\ \A i \in DOMAIN instancias'[o] : EDataCivil(instancias'[o][i].prevista)
         /\ DOMAIN instancias[o] \subseteq DOMAIN instancias'[o]
         /\ proxima'[o] \subseteq Previstas /\ \A d \in proxima'[o] : EDataCivil(d)
         /\ instancias[o] = <<>> => existe'[o] \/ instancias'[o] = <<>>
<1> DEFINE q == instancias[o]
<1>0. /\ q \in Seq(Linha) /\ Len(q) <= MaxInstancias /\ meses[o] \in Nat
      /\ \A i \in DOMAIN q : EDataCivil(q[i].prevista)
      /\ proxima[o] \subseteq Previstas /\ \A d \in proxima[o] : EDataCivil(d)
  BY PeriodosNat DEF TypeOK, Tipos
<1>1. CASE UNCHANGED <<instancias[o], proxima[o], meses[o], atropelada[o]>>
  BY <1>0, <1>1
<1>2. CASE q = <<>> /\ existe'[o] /\ instancias'[o] = <<>> /\ proxima'[o] = {}
  BY <1>0, <1>2
<1>3. ASSUME NEW d \in Datas, q = <<>>, existe'[o], instancias'[o] = <<Instancia(d)>>, proxima'[o] = {d}
      PROVE  /\ instancias'[o] \in Seq(Linha) /\ Len(instancias'[o]) <= MaxInstancias
             /\ \A i \in DOMAIN instancias'[o] : EDataCivil(instancias'[o][i].prevista)
             /\ DOMAIN instancias[o] \subseteq DOMAIN instancias'[o]
             /\ proxima'[o] \subseteq Previstas /\ \A e \in proxima'[o] : EDataCivil(e)
             /\ instancias[o] = <<>> => existe'[o] \/ instancias'[o] = <<>>
  <2>1. d \in Previstas /\ EDataCivil(d)
    BY DatasAssumption DEF Previstas
  <2>2. Instancia(d) \in Linha /\ Instancia(d).prevista = d
    BY <2>1 DEF Instancia, Linha, EstadoInstancia
  <2>3. /\ <<Instancia(d)>> \in Seq(Linha) /\ Len(<<Instancia(d)>>) = 1
        /\ DOMAIN <<Instancia(d)>> = {1} /\ <<Instancia(d)>>[1] = Instancia(d)
    BY <2>2
  <2> QED
    BY <1>3, <2>1, <2>2, <2>3, MaxInstanciasAssumption
<1>4. ASSUME NEW i \in DOMAIN q, Len(q) < MaxInstancias,
             instancias'[o] =
               IF meses[o] = 0 THEN [q EXCEPT ![i].estado = "CUMPRIDA"]
               ELSE Append([q EXCEPT ![i].estado = "CUMPRIDA"], Instancia(seguinte(q[i], meses[o]))),
             proxima'[o] = IF meses[o] = 0 THEN {} ELSE {addMonths(q[i].prevista, meses[o])}
      PROVE  /\ instancias'[o] \in Seq(Linha) /\ Len(instancias'[o]) <= MaxInstancias
             /\ \A j \in DOMAIN instancias'[o] : EDataCivil(instancias'[o][j].prevista)
             /\ DOMAIN instancias[o] \subseteq DOMAIN instancias'[o]
             /\ proxima'[o] \subseteq Previstas /\ \A d \in proxima'[o] : EDataCivil(d)
             /\ q # <<>>
  <2> HIDE DEF q
  <2>1. /\ instancias'[o] \in Seq(Linha)
        /\ Len(instancias'[o]) = (IF meses[o] = 0 THEN Len(q) ELSE Len(q) + 1)
        /\ \A j \in DOMAIN q : j \in DOMAIN instancias'[o] /\ instancias'[o][j].prevista = q[j].prevista
        /\ meses[o] # 0 => instancias'[o][Len(q) + 1].prevista = addMonths(q[i].prevista, meses[o])
    <3>1. q \in Seq(Linha) /\ i \in DOMAIN q /\ meses[o] \in Nat
      BY <1>0, <1>4
    <3>2. instancias'[o] =
            IF meses[o] = 0 THEN [q EXCEPT ![i].estado = "CUMPRIDA"]
            ELSE Append([q EXCEPT ![i].estado = "CUMPRIDA"], Instancia(seguinte(q[i], meses[o])))
      BY <1>4
    <3> DEFINE r == instancias'[o]
    <3> HIDE DEF r
    <3>3. /\ r \in Seq(Linha) /\ Len(r) = (IF meses[o] = 0 THEN Len(q) ELSE Len(q) + 1)
          /\ \A j \in DOMAIN q : j \in DOMAIN r /\ r[j].prevista = q[j].prevista
          /\ meses[o] # 0 => r[Len(q) + 1].prevista = addMonths(q[i].prevista, meses[o])
      <4>1. r = Reclama(q, i, meses[o])
        BY <3>2 DEF r, Reclama
      <4> QED
        BY <3>1, <4>1, Reclamada
    <3> QED
      BY <3>3 DEF r
  <2>2. q[i].prevista \in Previstas
    <3>1. q[i] \in Linha
      BY <1>0
    <3> QED
      BY <3>1 DEF Linha
  <2>3. addMonths(q[i].prevista, meses[o]) \in Previstas /\ EDataCivil(addMonths(q[i].prevista, meses[o]))
    BY <1>0, <2>2, AddMonths
  <2>4. /\ DOMAIN instancias'[o] = 1..Len(instancias'[o]) /\ DOMAIN q = 1..Len(q) /\ Len(q) \in Nat
        /\ q # <<>>
    BY <1>0, <2>1
  <2>5. \A j \in DOMAIN instancias'[o] : j \in DOMAIN q \/ (meses[o] # 0 /\ j = Len(q) + 1)
    BY <2>1, <2>4
  <2>6. \A j \in DOMAIN instancias'[o] : EDataCivil(instancias'[o][j].prevista)
    BY <1>0, <2>1, <2>3, <2>5
  <2>7. Len(instancias'[o]) <= MaxInstancias
    BY <1>4, <2>1, <2>4, MaxInstanciasAssumption
  <2>8. proxima'[o] \subseteq Previstas /\ \A d \in proxima'[o] : EDataCivil(d)
    BY <1>4, <2>3
  <2> QED
    BY <2>1, <2>4, <2>6, <2>7, <2>8 DEF q
<1>5. ASSUME NEW i \in DOMAIN q, proxima'[o] = proxima[o],
             instancias'[o] = [q EXCEPT ![i].estado = "DISPENSADA"]
      PROVE  /\ instancias'[o] \in Seq(Linha) /\ Len(instancias'[o]) <= MaxInstancias
             /\ \A j \in DOMAIN instancias'[o] : EDataCivil(instancias'[o][j].prevista)
             /\ DOMAIN instancias[o] \subseteq DOMAIN instancias'[o]
             /\ proxima'[o] \subseteq Previstas /\ \A d \in proxima'[o] : EDataCivil(d)
             /\ q # <<>>
  <2> HIDE DEF q
  <2>1. "DISPENSADA" \in EstadoInstancia
    BY DEF EstadoInstancia
  <2>2. /\ instancias'[o] \in Seq(Linha) /\ Len(instancias'[o]) = Len(q)
        /\ DOMAIN instancias'[o] = DOMAIN q
        /\ \A j \in DOMAIN q : instancias'[o][j].prevista = q[j].prevista
    BY <1>0, <1>5, <2>1, MudaEstado
  <2>3. q # <<>>
    BY <1>0, <1>5
  <2> QED
    BY <1>0, <1>5, <2>2, <2>3 DEF q
<1> QED
  BY <1>1, <1>2, <1>3, <1>4, <1>5, Escrita

(* The variables stay functions of the obligations, and none disappears.   *)
LEMMA FormasPasso ==
  ASSUME TypeOK, Tipos, [Next]_vars
  PROVE  /\ existe' \in [Obrigacoes -> BOOLEAN] /\ activa' \in [Obrigacoes -> BOOLEAN]
         /\ meses' \in [Obrigacoes -> Periodos \cup {0}]
         /\ atropelada' \in [Obrigacoes -> BOOLEAN]
         /\ instancias' = [o \in Obrigacoes |-> instancias'[o]]
         /\ proxima' = [o \in Obrigacoes |-> proxima'[o]]
         /\ \A o \in Obrigacoes : existe[o] => existe'[o]
<1>0. /\ existe \in [Obrigacoes -> BOOLEAN] /\ activa \in [Obrigacoes -> BOOLEAN]
      /\ meses \in [Obrigacoes -> Periodos \cup {0}]
      /\ atropelada \in [Obrigacoes -> BOOLEAN]
      /\ instancias = [o \in Obrigacoes |-> instancias[o]]
      /\ proxima = [o \in Obrigacoes |-> proxima[o]]
  BY DEF TypeOK, Tipos
<1>1. CASE UNCHANGED <<existe, activa, meses, proxima, instancias, atropelada>>
  BY <1>0, <1>1
<1>2. ASSUME NEW k \in Obrigacoes, Create(k)
      PROVE  /\ existe' \in [Obrigacoes -> BOOLEAN] /\ activa' \in [Obrigacoes -> BOOLEAN]
             /\ meses' \in [Obrigacoes -> Periodos \cup {0}]
             /\ atropelada' = atropelada
             /\ instancias' = [o \in Obrigacoes |-> instancias'[o]]
             /\ proxima' = [o \in Obrigacoes |-> proxima'[o]]
             /\ \A o \in Obrigacoes : existe[o] => existe'[o]
  <2>1. existe' = [existe EXCEPT ![k] = TRUE] /\ activa' = [activa EXCEPT ![k] = TRUE]
    BY <1>2 DEF Create
  <2>2. /\ existe' \in [Obrigacoes -> BOOLEAN] /\ activa' \in [Obrigacoes -> BOOLEAN]
        /\ \A o \in Obrigacoes : existe[o] => existe'[o]
    BY <1>0, <2>1, Zenon
  <2>3. meses' \in [Obrigacoes -> Periodos \cup {0}]
    BY <1>0, <1>2 DEF Create
  <2>4. atropelada' = atropelada /\ proxima' = [o \in Obrigacoes |-> proxima'[o]]
    BY <1>0, <1>2 DEF Create
  <2>5. instancias' = [o \in Obrigacoes |-> instancias'[o]]
    BY <1>0, <1>2 DEF Create
  <2> QED
    BY <2>2, <2>3, <2>4, <2>5
<1>3. ASSUME NEW k \in Obrigacoes, Desactivar(k)
      PROVE  /\ activa' \in [Obrigacoes -> BOOLEAN]
             /\ UNCHANGED <<existe, meses, proxima, instancias, atropelada>>
  <2>1. /\ activa' = [activa EXCEPT ![k] = FALSE]
        /\ UNCHANGED <<existe, meses, proxima, instancias, atropelada>>
    BY <1>3 DEF Desactivar
  <2> QED
    BY <1>0, <2>1, Zenon
<1>4. ASSUME NEW p \in Pedidos, GravarCumprir(p)
      PROVE  /\ UNCHANGED <<existe, activa, meses, atropelada>>
             /\ instancias' = [o \in Obrigacoes |-> instancias'[o]]
             /\ proxima' = [o \in Obrigacoes |-> proxima'[o]]
  <2>1. UNCHANGED <<existe, activa, meses, atropelada>>
    BY <1>4 DEF GravarCumprir
  <2>2. \/ UNCHANGED <<proxima, instancias>>
        \/ \E k \in pedido[p].o :
             /\ \E r : instancias' = [instancias EXCEPT ![k] = r]
             /\ \E s : proxima' = [proxima EXCEPT ![k] = s]
    BY <1>4 DEF GravarCumprir
  <2> QED
    BY <1>0, <2>1, <2>2
<1>5. ASSUME NEW p \in Pedidos, GravarDispensar(p)
      PROVE  /\ UNCHANGED <<existe, activa, meses, proxima>>
             /\ atropelada' \in [Obrigacoes -> BOOLEAN]
             /\ instancias' = [o \in Obrigacoes |-> instancias'[o]]
  <2>1. UNCHANGED <<existe, activa, meses, proxima>>
    BY <1>5 DEF GravarDispensar
  <2>2. PICK k \in pedido[p].o :
          /\ instancias' = [instancias EXCEPT ![k][pedido[p].i].estado = "DISPENSADA"]
          /\ atropelada' = [atropelada EXCEPT ![k] =
                              @ \/ instancias[k][pedido[p].i].estado = "CUMPRIDA"]
    BY <1>5 DEF GravarDispensar
  <2>3. instancias' = [o \in Obrigacoes |-> instancias'[o]]
    BY <1>0, <2>2
  <2>4. (atropelada[k] \/ instancias[k][pedido[p].i].estado = "CUMPRIDA") \in BOOLEAN
    BY Zenon
  <2>5. atropelada' \in [Obrigacoes -> BOOLEAN]
    BY <1>0, <2>2, <2>4, Zenon
  <2> QED
    BY <2>1, <2>3, <2>5
<1>6. \/ UNCHANGED <<existe, activa, meses, proxima, instancias, atropelada>>
      \/ \E k \in Obrigacoes : Create(k) \/ Desactivar(k)
      \/ \E p \in Pedidos : GravarCumprir(p) \/ GravarDispensar(p)
  BY DEF Next, vars, LerCumprir, LerDispensar, Falhar
<1> QED
  BY <1>0, <1>1, <1>2, <1>3, <1>4, <1>5, <1>6

(* A request stays as it was, starts about an instance there is, or ends.  *)
LEMMA PedidosPasso ==
  ASSUME TypeOK, Tipos, [Next]_vars
  PROVE  /\ pedido' \in [Pedidos -> PedidoTipo]
         /\ \A p \in Pedidos : \A o \in pedido'[p].o :
              existe[o] /\ pedido'[p].i \in DOMAIN instancias[o]
<1>0. /\ pedido \in [Pedidos -> PedidoTipo]
      /\ \A p \in Pedidos : \A o \in pedido[p].o :
           existe[o] /\ pedido[p].i \in DOMAIN instancias[o]
  BY DEF TypeOK, Tipos
<1>1. CASE pedido' = pedido
  BY <1>0, <1>1
<1>2. ASSUME NEW p \in Pedidos, pedido' = [pedido EXCEPT ![p] = Livre]
      PROVE  /\ pedido' \in [Pedidos -> PedidoTipo]
             /\ \A r \in Pedidos : \A o \in pedido'[r].o :
                  existe[o] /\ pedido'[r].i \in DOMAIN instancias[o]
  <2>1. Livre \in PedidoTipo /\ Livre.o = {}
    BY DEF Livre, PedidoTipo
  <2> QED
    BY <1>0, <1>2, <2>1
<1>3. ASSUME NEW p \in Pedidos, NEW k \in Obrigacoes, NEW i \in DOMAIN instancias[k],
             NEW e \in {"cumprir", "dispensar"},
             pedido' = [pedido EXCEPT ![p] = [pc |-> e, o |-> {k}, i |-> i]]
      PROVE  /\ pedido' \in [Pedidos -> PedidoTipo]
             /\ \A r \in Pedidos : \A o \in pedido'[r].o :
                  existe[o] /\ pedido'[r].i \in DOMAIN instancias[o]
  <2> DEFINE x == [pc |-> e, o |-> {k}, i |-> i]
  <2>1. instancias[k] \in Seq(Linha) /\ (~existe[k] => instancias[k] = <<>>)
    BY DEF Tipos
  <2>2. i \in Nat /\ existe[k]
    BY <2>1
  <2>3. x \in PedidoTipo
    BY <2>2 DEF PedidoTipo
  <2>4. x.o = {k} /\ x.i = i
    OBVIOUS
  <2>5. pedido' = [pedido EXCEPT ![p] = x]
    BY <1>3
  <2> HIDE DEF x
  <2> QED
    BY <1>0, <2>2, <2>3, <2>4, <2>5
<1>4. \/ pedido' = pedido
      \/ \E p \in Pedidos : pedido' = [pedido EXCEPT ![p] = Livre]
      \/ \E p \in Pedidos, k \in Obrigacoes : \E i \in DOMAIN instancias[k] :
           \E e \in {"cumprir", "dispensar"} :
             pedido' = [pedido EXCEPT ![p] = [pc |-> e, o |-> {k}, i |-> i]]
  <2>1. CASE UNCHANGED vars
    BY <2>1 DEF vars
  <2>2. ASSUME NEW k \in Obrigacoes, Create(k) \/ Desactivar(k) PROVE pedido' = pedido
    BY <2>2 DEF Create, Desactivar
  <2>3. ASSUME NEW k \in Obrigacoes, NEW p \in Pedidos, NEW i \in DOMAIN instancias[k],
               LerCumprir(p, k, i) \/ LerDispensar(p, k, i)
        PROVE  \E e \in {"cumprir", "dispensar"} :
                 pedido' = [pedido EXCEPT ![p] = [pc |-> e, o |-> {k}, i |-> i]]
    BY <2>3 DEF LerCumprir, LerDispensar
  <2>4. ASSUME NEW p \in Pedidos, GravarCumprir(p) \/ GravarDispensar(p) \/ Falhar(p)
        PROVE  pedido' = [pedido EXCEPT ![p] = Livre]
    BY <2>4 DEF GravarCumprir, GravarDispensar, Falhar
  <2> QED
    BY <2>1, <2>2, <2>3, <2>4 DEF Next
<1> QED
  BY <1>1, <1>2, <1>3, <1>4

LEMMA TypePasso == TypeOK /\ Tipos /\ [Next]_vars => TypeOK' /\ Tipos'
<1> SUFFICES ASSUME TypeOK, Tipos, [Next]_vars PROVE TypeOK' /\ Tipos'
  OBVIOUS
<1>1. /\ existe' \in [Obrigacoes -> BOOLEAN] /\ activa' \in [Obrigacoes -> BOOLEAN]
      /\ meses' \in [Obrigacoes -> Periodos \cup {0}]
      /\ atropelada' \in [Obrigacoes -> BOOLEAN]
      /\ instancias' = [o \in Obrigacoes |-> instancias'[o]]
      /\ proxima' = [o \in Obrigacoes |-> proxima'[o]]
      /\ \A o \in Obrigacoes : existe[o] => existe'[o]
  BY FormasPasso
<1>2. /\ pedido' \in [Pedidos -> PedidoTipo]
      /\ \A p \in Pedidos : \A o \in pedido'[p].o :
           existe[o] /\ pedido'[p].i \in DOMAIN instancias[o]
  BY PedidosPasso
<1>3. \A o \in Obrigacoes :
        /\ instancias'[o] \in Seq(Linha) /\ Len(instancias'[o]) <= MaxInstancias
        /\ \A i \in DOMAIN instancias'[o] : EDataCivil(instancias'[o][i].prevista)
        /\ DOMAIN instancias[o] \subseteq DOMAIN instancias'[o]
        /\ proxima'[o] \subseteq Previstas /\ \A d \in proxima'[o] : EDataCivil(d)
        /\ instancias[o] = <<>> => existe'[o] \/ instancias'[o] = <<>>
  BY LinhasPasso
<1>4. Tipos'
  <2>1. instancias' \in [Obrigacoes -> Seq(Linha)] /\ proxima' \in [Obrigacoes -> SUBSET Previstas]
    BY <1>1, <1>3
  <2>2. \A o \in Obrigacoes : ~existe'[o] => instancias'[o] = <<>>
    BY <1>1, <1>3 DEF Tipos
  <2> QED
    BY <1>1, <1>2, <2>1, <2>2 DEF Tipos
<1>5. TypeOK'
  <2>1. \A o \in Obrigacoes : \A i \in DOMAIN instancias'[o] : instancias'[o][i].estado \in EstadoInstancia
    <3>1. ASSUME NEW o \in Obrigacoes, NEW i \in DOMAIN instancias'[o]
          PROVE  instancias'[o][i] \in Linha
      <4>1. instancias'[o] \in Seq(Linha)
        BY <1>3
      <4> QED
        BY <3>1, <4>1
    <3> QED
      BY <3>1 DEF Linha
  <2>2. \A p \in Pedidos : /\ pedido'[p].pc \in {"livre", "cumprir", "dispensar"}
                           /\ pedido'[p].o \subseteq Obrigacoes
    <3>1. \A p \in Pedidos : pedido'[p] \in PedidoTipo
      BY <1>2
    <3> QED
      BY <3>1 DEF PedidoTipo
  <2>3. \A p \in Pedidos : \A o \in pedido'[p].o :
          existe'[o] /\ pedido'[p].i \in DOMAIN instancias'[o]
    BY <1>1, <1>2, <1>3, <2>2
  <2> QED
    BY <1>1, <1>3, <2>1, <2>2, <2>3 DEF TypeOK
<1> QED
  BY <1>4, <1>5

LEMMA TiposSempre == Spec => [](TypeOK /\ Tipos)
<1>1. Init => TypeOK /\ Tipos
  BY TypeInicio
<1>2. (TypeOK /\ Tipos) /\ [Next]_vars => (TypeOK /\ Tipos)'
  BY TypePasso
<1> QED
  BY <1>1, <1>2, PTL DEF Spec

(* The obligations and their instances are well formed, their dates are    *)
(* dates of the calendar, and every request under way is about an instance *)
(* there is, however many obligations, requests and starting dates.        *)
THEOREM TypeCorrect == Spec => []TypeOK
BY TiposSempre, PTL

(* What the first instance, a fulfilment and a dispensa do to the cycles.  *)
LEMMA Primeira ==
  ASSUME NEW d \in Datas, NEW m \in Nat, NEW a \in BOOLEAN
  PROVE  CiclosDe(<<Instancia(d)>>, m, a) /\ AbertoDe(<<Instancia(d)>>, m, a, {d})
<1> DEFINE q == <<Instancia(d)>>
<1>1. /\ DOMAIN q = {1} /\ Len(q) = 1 /\ q[1].prevista = d /\ q[1].estado = "PENDENTE"
  BY DEF Instancia
<1>2. d.mes \in Nat /\ d.dia \in 1..31
  BY DatasAssumption
<1> HIDE DEF q
<1>3. MesesDe(q, m)
  <2>1. d.mes = d.mes + (1 - 1) * m
    BY <1>2
  <2> QED
    BY <1>1, <2>1 DEF MesesDe
<1>4. DiasDe(q)
  BY <1>1, <1>2 DEF DiasDe, Menor
<1>5. CiclosDe(q, m, a) /\ AbertoDe(q, m, a, {d})
  BY <1>1, <1>3, <1>4 DEF CiclosDe, AbertoDe
<1> QED
  BY <1>5 DEF q

LEMMA Vazia ==
  ASSUME NEW m \in Nat, NEW a \in BOOLEAN
  PROVE  CiclosDe(<<>>, m, a) /\ AbertoDe(<<>>, m, a, {})
BY DEF CiclosDe, AbertoDe, MesesDe, DiasDe

(* Only the newest instance of an obligation can be claimed.               *)
LEMMA SoAUltima ==
  ASSUME NEW q \in Seq(Linha), NEW m \in Nat, MesesDe(q, m), NEW i \in DOMAIN q,
         q[i].estado # "CUMPRIDA"
  PROVE  i = Len(q)
<1>1. DOMAIN q = 1..Len(q) /\ Len(q) \in Nat
  OBVIOUS
<1> QED
  BY <1>1 DEF MesesDe

LEMMA CamposDaLinha ==
  ASSUME NEW q \in Seq(Linha), NEW i \in DOMAIN q
  PROVE  /\ q[i].prevista \in Previstas /\ q[i].prevista.mes \in Nat
         /\ q[i].prevista.dia \in 1..31
<1>1. q[i] \in Linha
  OBVIOUS
<1>2. q[i].prevista \in Previstas
  BY <1>1 DEF Linha
<1> QED
  BY <1>2 DEF Previstas

LEMMA ReclamadaMeses ==
  ASSUME NEW q \in Seq(Linha), NEW m \in Nat, NEW i \in DOMAIN q,
         MesesDe(q, m), q[i].estado # "CUMPRIDA", NEW r, r = Reclama(q, i, m)
  PROVE  MesesDe(r, m)
<1> DEFINE n == Len(q)
<1>1. /\ r \in Seq(Linha) /\ Len(r) = (IF m = 0 THEN n ELSE n + 1)
      /\ \A j \in DOMAIN q : /\ j \in DOMAIN r /\ r[j].prevista = q[j].prevista
                            /\ r[j].estado = IF j = i THEN "CUMPRIDA" ELSE q[j].estado
      /\ m # 0 => r[n + 1].prevista = addMonths(q[i].prevista, m)
  BY Reclamada
<1>2. i = n
  BY SoAUltima
<1>3. /\ DOMAIN q = 1..n /\ DOMAIN r = 1..Len(r) /\ n \in Nat /\ 1 \in DOMAIN q
  BY <1>1
<1>4. \A j \in DOMAIN q : q[j].prevista.mes \in Nat
  BY CamposDaLinha
<1> HIDE DEF n
<1>5. \A j \in DOMAIN r : j < Len(r) => r[j].estado = "CUMPRIDA"
  <2>1. \A j \in DOMAIN q : j # n => q[j].estado = "CUMPRIDA"
    BY <1>3 DEF MesesDe, n
  <2> QED
    BY <1>1, <1>2, <1>3, <2>1
<1>6. CASE m = 0
  <2>1. \A j \in DOMAIN r : j \in DOMAIN q /\ r[j].prevista = q[j].prevista
    BY <1>1, <1>3, <1>6
  <2>2. \A j, k \in DOMAIN r : j < k => r[j].prevista.mes < r[k].prevista.mes
    BY <2>1 DEF MesesDe
  <2>3. \A j \in DOMAIN r : r[j].prevista.mes = r[1].prevista.mes + (j - 1) * m
    BY <1>1, <1>3, <2>1 DEF MesesDe
  <2> QED
    BY <1>5, <2>2, <2>3 DEF MesesDe
<1>7. CASE m # 0
  <2>1. r[n + 1].prevista.mes = q[n].prevista.mes + m
    <3>1. q[i].prevista \in Previstas
      BY CamposDaLinha
    <3> QED
      BY <1>1, <1>2, <1>7, <3>1, AddMonths
  <2>2. \A j \in DOMAIN r : j \in DOMAIN q \/ j = n + 1
    BY <1>1, <1>3, <1>7
  <2>3. \A j \in DOMAIN q : q[j].prevista.mes <= q[n].prevista.mes
    <3> SUFFICES ASSUME NEW j \in DOMAIN q PROVE q[j].prevista.mes <= q[n].prevista.mes
      OBVIOUS
    <3>1. n \in DOMAIN q /\ q[n].prevista.mes \in Nat /\ q[j].prevista.mes \in Nat
      BY <1>2, <1>4
    <3>2. j < n => q[j].prevista.mes < q[n].prevista.mes
      BY <3>1 DEF MesesDe
    <3>3. j \in 1..n
      BY <1>3
    <3> QED
      BY <1>3, <3>1, <3>2, <3>3
  <2>4. \A j \in DOMAIN q : r[j].prevista.mes = q[j].prevista.mes
    BY <1>1
  <2>5. \A j \in DOMAIN q : r[j].prevista.mes < r[n + 1].prevista.mes
    BY <1>2, <1>4, <1>7, <2>1, <2>3, <2>4
  <2>6. \A j, k \in DOMAIN r : j < k => r[j].prevista.mes < r[k].prevista.mes
    <3>1. \A j, k \in DOMAIN q : j < k => r[j].prevista.mes < r[k].prevista.mes
      BY <2>4 DEF MesesDe
    <3>2. \A k \in DOMAIN q : ~(n + 1 < k)
      BY <1>3
    <3> QED
      BY <1>3, <2>2, <2>5, <3>1, <3>2
  <2>7. r[n + 1].prevista.mes = r[1].prevista.mes + n * m
    <3>1. q[n].prevista.mes = q[1].prevista.mes + (n - 1) * m
      BY <1>2 DEF MesesDe
    <3>2. (n - 1) * m + m = n * m
      BY <1>3
    <3>3. q[1].prevista.mes \in Nat /\ (n - 1) * m \in Int /\ n * m \in Int
      BY <1>3, <1>4
    <3> QED
      BY <1>3, <2>1, <2>4, <3>1, <3>2, <3>3
  <2>8. \A j \in DOMAIN r : r[j].prevista.mes = r[1].prevista.mes + (j - 1) * m
    <3>1. \A j \in DOMAIN q : r[j].prevista.mes = r[1].prevista.mes + (j - 1) * m
      BY <1>3, <2>4 DEF MesesDe
    <3> SUFFICES ASSUME NEW j \in DOMAIN r
                 PROVE  r[j].prevista.mes = r[1].prevista.mes + (j - 1) * m
      OBVIOUS
    <3>2. CASE j \in DOMAIN q
      BY <3>1, <3>2
    <3>3. CASE j = n + 1
      <4>1. j - 1 = n
        BY <1>3, <3>3
      <4> QED
        BY <2>7, <3>3, <4>1
    <3> QED
      BY <2>2, <3>2, <3>3
  <2> QED
    BY <1>5, <2>6, <2>8 DEF MesesDe
<1> QED
  BY <1>6, <1>7

LEMMA ReclamadaDias ==
  ASSUME NEW q \in Seq(Linha), NEW m \in Nat, NEW i \in DOMAIN q,
         DiasDe(q), NEW r, r = Reclama(q, i, m)
  PROVE  DiasDe(r)
<1> DEFINE n == Len(q)
<1>1. /\ r \in Seq(Linha) /\ Len(r) = (IF m = 0 THEN n ELSE n + 1)
      /\ \A j \in DOMAIN q : r[j].prevista = q[j].prevista
      /\ m # 0 => r[n + 1].prevista = addMonths(q[i].prevista, m)
  BY Reclamada
<1>2. /\ DOMAIN q = 1..n /\ DOMAIN r = 1..Len(r) /\ n \in Nat /\ 1 \in DOMAIN q
  BY <1>1
<1>3. \A j \in DOMAIN q : q[j].prevista.dia \in 1..31
  BY CamposDaLinha
<1> HIDE DEF n
<1>4. \A j \in DOMAIN r : j \in DOMAIN q \/ (m # 0 /\ j = n + 1)
  BY <1>1, <1>2
<1>5. ASSUME m # 0
      PROVE  /\ r[n + 1].prevista.dia <= q[i].prevista.dia
             /\ Menor(q[i].prevista.dia, 28) <= r[n + 1].prevista.dia
             /\ r[n + 1].prevista.dia \in 1..31
  <2>1. q[i].prevista \in Previstas
    BY CamposDaLinha
  <2>2. addMonths(q[i].prevista, m).dia \in 1..31
    BY <2>1, AddMonths DEF Previstas
  <2> QED
    BY <1>1, <1>5, <2>1, <2>2, AddMonths
<1>6. r[1].prevista = q[1].prevista
  BY <1>1, <1>2
<1>7. ASSUME m # 0
      PROVE  /\ Menor(q[1].prevista.dia, 28) <= r[n + 1].prevista.dia
             /\ r[n + 1].prevista.dia <= q[1].prevista.dia
  <2>1. /\ Menor(q[1].prevista.dia, 28) <= q[i].prevista.dia
        /\ q[i].prevista.dia <= q[1].prevista.dia
    BY DEF DiasDe
  <2>2. /\ q[1].prevista.dia \in 1..31 /\ q[i].prevista.dia \in 1..31
        /\ r[n + 1].prevista.dia \in 1..31
    BY <1>2, <1>3, <1>5, <1>7
  <2> DEFINE b == q[1].prevista.dia
             c == q[i].prevista.dia
             d == r[n + 1].prevista.dia
  <2>3. Menor(b, 28) <= c /\ c <= b /\ d <= c /\ Menor(c, 28) <= d
    BY <1>5, <1>7, <2>1
  <2> HIDE DEF b, c, d
  <2>4. b \in 1..31 /\ c \in 1..31 /\ d \in 1..31
    BY <2>2 DEF b, c, d
  <2>5. Menor(b, 28) <= d /\ d <= b
    BY <2>3, <2>4 DEF Menor
  <2> QED
    BY <2>5 DEF b, d
<1> SUFFICES ASSUME NEW j \in DOMAIN r
             PROVE  /\ Menor(r[1].prevista.dia, 28) <= r[j].prevista.dia
                    /\ r[j].prevista.dia <= r[1].prevista.dia
  BY DEF DiasDe
<1>8. CASE j \in DOMAIN q
  <2>1. r[j].prevista = q[j].prevista
    BY <1>1, <1>8
  <2>2. /\ Menor(q[1].prevista.dia, 28) <= q[j].prevista.dia
        /\ q[j].prevista.dia <= q[1].prevista.dia
    BY <1>8 DEF DiasDe
  <2> QED
    BY <1>6, <2>1, <2>2
<1>9. CASE m # 0 /\ j = n + 1
  BY <1>6, <1>7, <1>9
<1> QED
  BY <1>4, <1>8, <1>9

(* Fulfilling an instance.                                                 *)
LEMMA ReclamadaCiclos ==
  ASSUME NEW q \in Seq(Linha), NEW m \in Nat, NEW i \in DOMAIN q, NEW a \in BOOLEAN,
         CiclosDe(q, m, a), q[i].estado # "CUMPRIDA", NEW r, r = Reclama(q, i, m)
  PROVE  /\ CiclosDe(r, m, a)
         /\ AbertoDe(r, m, a, IF m = 0 THEN {} ELSE {addMonths(q[i].prevista, m)})
<1>1. /\ r \in Seq(Linha) /\ Len(r) = (IF m = 0 THEN Len(q) ELSE Len(q) + 1)
      /\ \A j \in DOMAIN q : r[j].estado = IF j = i THEN "CUMPRIDA" ELSE q[j].estado
      /\ m # 0 => /\ r[Len(q) + 1].prevista = addMonths(q[i].prevista, m)
                  /\ r[Len(q) + 1].estado = "PENDENTE"
  BY Reclamada
<1>2. ~a => MesesDe(r, m)
  BY ReclamadaMeses DEF CiclosDe
<1>3. DiasDe(r)
  BY ReclamadaDias DEF CiclosDe
<1>4. m = 0 => Len(r) <= 1
  BY <1>1 DEF CiclosDe
<1>5. ~a => i = Len(q)
  BY SoAUltima DEF CiclosDe
<1>6. AbertoDe(r, m, a, IF m = 0 THEN {} ELSE {addMonths(q[i].prevista, m)})
  BY <1>1, <1>5 DEF AbertoDe
<1> QED
  BY <1>2, <1>3, <1>4, <1>6 DEF CiclosDe

(* Dispensing one, fulfilled or not.                                       *)
LEMMA DispensadaCiclos ==
  ASSUME NEW q \in Seq(Linha), NEW m \in Nat, NEW i \in DOMAIN q, NEW a \in BOOLEAN,
         NEW datas, CiclosDe(q, m, a), AbertoDe(q, m, a, datas),
         NEW r, r = [q EXCEPT ![i].estado = "DISPENSADA"],
         NEW b \in BOOLEAN, b = (a \/ q[i].estado = "CUMPRIDA")
  PROVE  CiclosDe(r, m, b) /\ AbertoDe(r, m, b, datas)
<1>1. "DISPENSADA" \in EstadoInstancia
  BY DEF EstadoInstancia
<1>2. /\ Len(r) = Len(q) /\ DOMAIN r = DOMAIN q
      /\ \A j \in DOMAIN q : /\ r[j].prevista = q[j].prevista
                            /\ r[j].estado = IF j = i THEN "DISPENSADA" ELSE q[j].estado
  BY <1>1, MudaEstado
<1>3. DOMAIN q = 1..Len(q) /\ Len(q) \in Nat /\ 1 \in DOMAIN q
  OBVIOUS
<1>4. DiasDe(r)
  <2>1. DiasDe(q)
    BY DEF CiclosDe
  <2> QED
    BY <1>2, <1>3, <2>1 DEF DiasDe
<1>5. ASSUME ~b PROVE ~a /\ MesesDe(q, m) /\ i = Len(q) /\ q[i].estado # "CUMPRIDA"
  <2>1. ~a /\ q[i].estado # "CUMPRIDA"
    BY <1>5
  <2>2. MesesDe(q, m)
    BY <2>1 DEF CiclosDe
  <2> QED
    BY <2>1, <2>2, SoAUltima
<1>6. ASSUME ~b PROVE MesesDe(r, m)
  <2>1. /\ \A j \in DOMAIN r : j < Len(r) => r[j].estado = "CUMPRIDA"
        /\ \A j, k \in DOMAIN r : j < k => r[j].prevista.mes < r[k].prevista.mes
    BY <1>2, <1>3, <1>5, <1>6 DEF MesesDe
  <2>2. \A j \in DOMAIN r : r[j].prevista.mes = r[1].prevista.mes + (j - 1) * m
    BY <1>2, <1>3, <1>5, <1>6 DEF MesesDe
  <2> QED
    BY <2>1, <2>2 DEF MesesDe
<1>7. AbertoDe(r, m, b, datas)
  BY <1>2, <1>3, <1>5 DEF AbertoDe
<1>8. m = 0 => Len(r) <= 1
  BY <1>2 DEF CiclosDe
<1> QED
  BY <1>4, <1>6, <1>7, <1>8 DEF CiclosDe

LEMMA CiclosPasso ==
  TypeOK /\ Tipos /\ Ciclos /\ Aberto /\ [Next]_vars => Ciclos' /\ Aberto'
<1> SUFFICES ASSUME TypeOK, Tipos, Ciclos, Aberto, [Next]_vars, NEW o \in Obrigacoes
             PROVE  /\ CiclosDe(instancias'[o], meses'[o], atropelada'[o])
                    /\ AbertoDe(instancias'[o], meses'[o], atropelada'[o], proxima'[o])
  BY DEF Ciclos, Aberto
<1> DEFINE q == instancias[o]
           m == meses[o]
           a == atropelada[o]
<1>0. /\ q \in Seq(Linha) /\ m \in Nat /\ a \in BOOLEAN
      /\ CiclosDe(q, m, a) /\ AbertoDe(q, m, a, proxima[o])
  BY PeriodosNat DEF TypeOK, Tipos, Ciclos, Aberto
<1>1. CASE UNCHANGED <<instancias[o], proxima[o], meses[o], atropelada[o]>>
  BY <1>0, <1>1
<1>2. ASSUME atropelada'[o] = a, meses'[o] \in Periodos, instancias'[o] = <<>>, proxima'[o] = {}
      PROVE  /\ CiclosDe(instancias'[o], meses'[o], atropelada'[o])
             /\ AbertoDe(instancias'[o], meses'[o], atropelada'[o], proxima'[o])
  BY <1>0, <1>2, Vazia, PeriodosNat
<1>3. ASSUME atropelada'[o] = a, meses'[o] \in Periodos,
             NEW d \in Datas, instancias'[o] = <<Instancia(d)>>, proxima'[o] = {d}
      PROVE  /\ CiclosDe(instancias'[o], meses'[o], atropelada'[o])
             /\ AbertoDe(instancias'[o], meses'[o], atropelada'[o], proxima'[o])
  <2>1. CiclosDe(<<Instancia(d)>>, meses'[o], a) /\ AbertoDe(<<Instancia(d)>>, meses'[o], a, {d})
    BY <1>0, <1>3, Primeira, PeriodosNat
  <2> QED
    BY <1>3, <2>1
<1>4. ASSUME NEW i \in DOMAIN q, q[i].estado # "CUMPRIDA", UNCHANGED <<meses[o], atropelada[o]>>,
             instancias'[o] = Reclama(q, i, m),
             proxima'[o] = IF m = 0 THEN {} ELSE {addMonths(q[i].prevista, m)}
      PROVE  /\ CiclosDe(instancias'[o], meses'[o], atropelada'[o])
             /\ AbertoDe(instancias'[o], meses'[o], atropelada'[o], proxima'[o])
  <2> HIDE DEF q, m, a
  <2>1. /\ CiclosDe(Reclama(q, i, m), m, a)
        /\ AbertoDe(Reclama(q, i, m), m, a, IF m = 0 THEN {} ELSE {addMonths(q[i].prevista, m)})
    BY <1>0, <1>4, ReclamadaCiclos
  <2> QED
    BY <1>4, <2>1 DEF m, a
<1>5. ASSUME NEW i \in DOMAIN q, instancias'[o] = [q EXCEPT ![i].estado = "DISPENSADA"],
             atropelada'[o] = (a \/ q[i].estado = "CUMPRIDA"),
             UNCHANGED <<meses[o], proxima[o]>>
      PROVE  /\ CiclosDe(instancias'[o], meses'[o], atropelada'[o])
             /\ AbertoDe(instancias'[o], meses'[o], atropelada'[o], proxima'[o])
  <2> DEFINE b == a \/ q[i].estado = "CUMPRIDA"
             r == [q EXCEPT ![i].estado = "DISPENSADA"]
  <2> HIDE DEF q, m, a
  <2>1. b \in BOOLEAN
    OBVIOUS
  <2>2. CiclosDe(r, m, b) /\ AbertoDe(r, m, b, proxima[o])
    <3> HIDE DEF b, r
    <3>1. r = [q EXCEPT ![i].estado = "DISPENSADA"] /\ b = (a \/ q[i].estado = "CUMPRIDA")
      BY DEF b, r
    <3> QED
      BY <1>0, <2>1, <3>1, DispensadaCiclos
  <2> QED
    BY <1>5, <2>2 DEF m
<1> QED
  BY <1>1, <1>2, <1>3, <1>4, <1>5, Escrita DEF Reclama

LEMMA CiclosSempre == Spec => [](TypeOK /\ Tipos /\ Ciclos /\ Aberto)
<1>1. Init => Ciclos /\ Aberto
  <2> SUFFICES ASSUME Init, NEW o \in Obrigacoes
               PROVE  /\ CiclosDe(instancias[o], meses[o], atropelada[o])
                      /\ AbertoDe(instancias[o], meses[o], atropelada[o], proxima[o])
    BY DEF Ciclos, Aberto
  <2>1. instancias[o] = <<>> /\ meses[o] = 0 /\ atropelada[o] = FALSE /\ proxima[o] = {}
    BY DEF Init
  <2>2. CiclosDe(<<>>, 0, FALSE) /\ AbertoDe(<<>>, 0, FALSE, {})
    BY Vazia
  <2> QED
    BY <2>1, <2>2
<1>2. (TypeOK /\ Tipos /\ Ciclos /\ Aberto) /\ [Next]_vars => (Ciclos /\ Aberto)'
  BY CiclosPasso
<1> QED
  BY <1>1, <1>2, TiposSempre, PTL DEF Spec

(* No cycle has two instances: the claim inside the transaction, not the   *)
(* read before it, is what keeps two people from creating the next one     *)
(* twice, and only a dispensa over a fulfilment undoes it.                 *)
THEOREM UmaPorCicloCorrect == Spec => []UmaPorCiclo
<1>1. TypeOK /\ Tipos /\ Ciclos /\ Aberto => UmaPorCiclo
  <2> SUFFICES ASSUME TypeOK, Tipos, Ciclos, NEW o \in Obrigacoes, ~atropelada[o],
                      NEW i \in DOMAIN instancias[o], NEW j \in DOMAIN instancias[o],
                      instancias[o][i].prevista = instancias[o][j].prevista
               PROVE  i = j
    BY DEF UmaPorCiclo
  <2> DEFINE q == instancias[o]
  <2>1. q \in Seq(Linha) /\ MesesDe(q, meses[o])
    BY DEF Tipos, Ciclos, CiclosDe
  <2> HIDE DEF q
  <2>2. i \in Nat /\ j \in Nat /\ q[i].prevista.mes \in Nat /\ i \in DOMAIN q /\ j \in DOMAIN q
    BY <2>1, CamposDaLinha DEF q
  <2>3. q[i].prevista = q[j].prevista
    BY DEF q
  <2> QED
    BY <2>1, <2>2, <2>3 DEF MesesDe
<1> QED
  BY <1>1, CiclosSempre, PTL

(* proximaData is the date of the newest instance, and every older one is  *)
(* fulfilled.                                                              *)
THEOREM ProximaEmAbertoCorrect == Spec => []ProximaEmAberto
<1>1. TypeOK /\ Tipos /\ Ciclos /\ Aberto => ProximaEmAberto
  <2> SUFFICES ASSUME Tipos, Ciclos, Aberto, NEW o \in Obrigacoes, ~atropelada[o]
               PROVE  LET n == Len(instancias[o]) IN
                      /\ \A i \in 1..n : i < n => instancias[o][i].estado # "PENDENTE"
                      /\ n > 0 => proxima[o] = IF meses[o] = 0 /\ instancias[o][n].estado = "CUMPRIDA"
                                                 THEN {} ELSE {instancias[o][n].prevista}
    BY DEF ProximaEmAberto
  <2>1. /\ DOMAIN instancias[o] = 1..Len(instancias[o])
        /\ MesesDe(instancias[o], meses[o])
        /\ AbertoDe(instancias[o], meses[o], atropelada[o], proxima[o])
    BY DEF Tipos, Ciclos, CiclosDe, Aberto
  <2> QED
    BY <2>1 DEF MesesDe, AbertoDe
<1> QED
  BY <1>1, CiclosSempre, PTL

(* The n-th cycle falls in the month the periodicity gives, on the day the *)
(* obligation started or as near before it as the month has, never before  *)
(* the 28th for those that started after it.                               *)
THEOREM CadenciaMantidaCorrect == Spec => []CadenciaMantida
<1>1. TypeOK /\ Tipos /\ Ciclos /\ Aberto => CadenciaMantida
  BY DEF Ciclos, CiclosDe, MesesDe, DiasDe, CadenciaMantida
<1> QED
  BY <1>1, CiclosSempre, PTL

-----------------------------------------------------------------------------
(***************************************************************************)
(* Tacit renewals.  The types, and what the timeline and the lote of a     *)
(* corrida keep beyond them: no event is of a day to come, and a contract  *)
(* is a candidate once.                                                    *)
(***************************************************************************)
Candidatos == [c : Contratos, termo : Nat, prazo : Prazos]
CorridaTipo == [pc : {"livre", "recentes", "renovar", "falha", "registar"},
                lote : SUBSET Candidatos, actual : SUBSET Contratos]
EventoTipo == [tipo : TiposEvento, antigo : Nat, novo : Nat, dia : Nat]
LeituraTipo == [pc : {"livre", "gravar"}, c : SUBSET Contratos]
ATratar(r) ==
  /\ \A s, x \in corrida[r].lote : s.c = x.c => s = x
  /\ corrida[r].pc \in {"falha", "registar"} => \E c \in Contratos : corrida[r].actual = {c}
RenovacaoTipos ==
  /\ hoje \in 0..MaxDia
  /\ termo \in [Contratos -> Nat] /\ prazo \in [Contratos -> Prazos]
  /\ activo \in [Contratos -> BOOLEAN] /\ denuncia \in [Contratos -> BOOLEAN]
  /\ abertas \in [Contratos -> [0..Maximo -> Nat]]
  /\ eventos \in [Contratos -> Seq(EventoTipo)]
  /\ corrida \in [Corridas -> CorridaTipo]
  /\ aDenunciar \in [Utilizadores -> LeituraTipo]
  /\ editado \in [Contratos -> BOOLEAN] /\ juntas \in BOOLEAN
  /\ \A r \in Corridas : ATratar(r)
  /\ \A c \in Contratos : \A i \in 1..Len(eventos[c]) : eventos[c][i].dia <= hoje

LEMMA PrazoNat == \A m \in Prazos : m \in Nat
BY PrazosAssumption

LEMMA DiaNat == ASSUME RenovacaoTipos PROVE hoje \in Nat /\ hoje <= MaxDia
BY LimitesAssumption DEF RenovacaoTipos

LEMMA RenovacaoInicio == RenovacaoInit => RenovacaoTipos
<1> SUFFICES ASSUME RenovacaoInit PROVE RenovacaoTipos
  OBVIOUS
<1>1. /\ CorridaLivre \in CorridaTipo /\ CorridaLivre.lote = {} /\ CorridaLivre.pc = "livre"
      /\ Nenhum \in LeituraTipo
  BY DEF CorridaLivre, CorridaTipo, Nenhum, LeituraTipo
<1>2. /\ corrida \in [Corridas -> CorridaTipo] /\ aDenunciar \in [Utilizadores -> LeituraTipo]
      /\ \A r \in Corridas : ATratar(r)
  BY <1>1 DEF RenovacaoInit, ATratar
<1>3. abertas \in [Contratos -> [0..Maximo -> Nat]]
  BY DEF RenovacaoInit
<1>4. <<>> \in Seq(EventoTipo) /\ Len(<<>>) = 0
  BY EmptySeq
<1>5. /\ eventos \in [Contratos -> Seq(EventoTipo)]
      /\ \A c \in Contratos : \A i \in 1..Len(eventos[c]) : eventos[c][i].dia <= hoje
  BY <1>4 DEF RenovacaoInit
<1>6. hoje \in 0..MaxDia
  BY LimitesAssumption DEF RenovacaoInit
<1>7. termo \in [Contratos -> Nat] /\ prazo \in [Contratos -> Prazos]
  <2>1. termo \in [Contratos -> {0, 1}] /\ prazo \in [Contratos -> Prazos]
    BY DEF RenovacaoInit
  <2> QED
    BY <2>1
<1>8. /\ activo \in [Contratos -> BOOLEAN] /\ denuncia \in [Contratos -> BOOLEAN]
      /\ editado \in [Contratos -> BOOLEAN] /\ juntas \in BOOLEAN
  BY DEF RenovacaoInit
<1> QED
  BY <1>2, <1>3, <1>5, <1>6, <1>7, <1>8 DEF RenovacaoTipos

LEMMA SegueFaz ==
  ASSUME RenovacaoTipos, NEW r \in Corridas, NEW pc, NEW lote, NEW actual,
         pc \in {"recentes", "renovar", "falha", "registar"}, lote \subseteq Candidatos,
         actual \subseteq Contratos, Segue(r, pc, lote, actual)
  PROVE  /\ corrida' \in [Corridas -> CorridaTipo]
         /\ corrida'[r].pc = pc /\ corrida'[r].lote = lote /\ corrida'[r].actual = actual
         /\ \A q \in Corridas : q # r => corrida'[q] = corrida[q]
<1> DEFINE novo == [pc |-> pc, lote |-> lote, actual |-> actual]
<1>1. novo \in CorridaTipo /\ novo.pc = pc /\ novo.lote = lote /\ novo.actual = actual
  BY DEF CorridaTipo
<1>2. corrida' = [corrida EXCEPT ![r] = novo] /\ corrida \in [Corridas -> CorridaTipo]
  BY DEF Segue, RenovacaoTipos
<1> HIDE DEF novo
<1> QED
  BY <1>1, <1>2

(* An event ends the timeline of its contract.                             *)
Acrescenta(c, e) ==
  /\ eventos' \in [Contratos -> Seq(EventoTipo)]
  /\ Len(eventos[c]) \in Nat /\ Len(eventos'[c]) = Len(eventos[c]) + 1
  /\ eventos'[c][Len(eventos[c]) + 1] = e
  /\ \A i \in 1..Len(eventos[c]) : eventos'[c][i] = eventos[c][i]
  /\ \A d \in Contratos : d # c => eventos'[d] = eventos[d]

LEMMA RegistaFaz ==
  ASSUME RenovacaoTipos, NEW c \in Contratos, NEW e \in EventoTipo, Regista(c, e)
  PROVE  Acrescenta(c, e)
<1>1. eventos \in [Contratos -> Seq(EventoTipo)] /\ eventos[c] \in Seq(EventoTipo)
  BY DEF RenovacaoTipos
<1> DEFINE nova == Append(eventos[c], e)
<1>2. /\ nova \in Seq(EventoTipo) /\ Len(eventos[c]) \in Nat /\ Len(nova) = Len(eventos[c]) + 1
      /\ nova[Len(eventos[c]) + 1] = e
      /\ \A i \in 1..Len(eventos[c]) : nova[i] = eventos[c][i]
  BY <1>1, AppendProperties, LenProperties
<1>3. eventos' = [eventos EXCEPT ![c] = nova]
  BY DEF Regista
<1> HIDE DEF nova
<1> QED
  BY <1>1, <1>2, <1>3 DEF Acrescenta

LEMMA EventoFaz ==
  ASSUME RenovacaoTipos, NEW tipo \in TiposEvento, NEW antigo \in Nat, NEW novo \in Nat
  PROVE  /\ Evento(tipo, antigo, novo) \in EventoTipo
         /\ Evento(tipo, antigo, novo).tipo = tipo /\ Evento(tipo, antigo, novo).dia = hoje
         /\ Evento(tipo, antigo, novo).antigo = antigo /\ Evento(tipo, antigo, novo).novo = novo
BY DiaNat DEF Evento, EventoTipo

LEMMA Indices ==
  ASSUME RenovacaoTipos, NEW c \in Contratos
  PROVE  /\ Len(eventos[c]) \in Nat /\ DOMAIN eventos[c] = 1..Len(eventos[c])
         /\ \A i \in 1..Len(eventos[c]) : eventos[c][i] \in EventoTipo
BY LenProperties, ElementOfSeq DEF RenovacaoTipos

(* The events of each kind afterwards.                                     *)
LEMMA DoTipoFaz ==
  ASSUME RenovacaoTipos, NEW c \in Contratos, NEW e \in EventoTipo, Acrescenta(c, e), NEW tipo
  PROVE  /\ DoTipo(c, tipo)' = IF e.tipo = tipo THEN DoTipo(c, tipo) \cup {Len(eventos[c]) + 1}
                                                ELSE DoTipo(c, tipo)
         /\ DoTipo(c, tipo) \subseteq 1..Len(eventos[c])
<1>1. DOMAIN eventos[c] = 1..Len(eventos[c]) /\ Len(eventos[c]) \in Nat
  BY Indices
<1>2. DOMAIN eventos'[c] = 1..(Len(eventos[c]) + 1)
  <2>1. eventos'[c] \in Seq(EventoTipo) /\ Len(eventos'[c]) = Len(eventos[c]) + 1
    BY DEF Acrescenta
  <2> QED
    BY <2>1, LenProperties
<1> DEFINE n == Len(eventos[c])
<1>3. /\ eventos'[c][n + 1] = e /\ \A i \in 1..n : eventos'[c][i] = eventos[c][i]
  BY DEF Acrescenta
<1>4. DOMAIN eventos[c] = 1..n /\ DOMAIN eventos'[c] = 1..(n + 1) /\ n \in Nat
  BY <1>1, <1>2
<1>5. DoTipo(c, tipo)' = {i \in DOMAIN eventos'[c] : eventos'[c][i].tipo = tipo}
  BY DEF DoTipo
<1> HIDE DEF n
<1>6. DoTipo(c, tipo) = {i \in 1..n : eventos[c][i].tipo = tipo}
  BY <1>4 DEF DoTipo
<1>7. DoTipo(c, tipo)' = IF e.tipo = tipo THEN DoTipo(c, tipo) \cup {n + 1} ELSE DoTipo(c, tipo)
  <2>1. \A i : i \in 1..(n + 1) <=> i \in 1..n \/ i = n + 1
    BY <1>4
  <2> QED
    BY <1>3, <1>4, <1>5, <1>6, <2>1
<1> QED
  BY <1>6, <1>7 DEF n

(***************************************************************************)
(* What a step does to the counts the properties are about: the corridas   *)
(* that have a contract to renew, those past their reading of the recent   *)
(* renewals, those about to record its failure, and its events of a day.   *)
(***************************************************************************)
Executada == "RENOVACAO_EXECUTADA"
Falhou == "RENOVACAO_FALHOU"
DoDia(c, tipo, d) == {i \in DoTipo(c, tipo) : eventos[c][i].dia = d}
Tem(r, c) == \E s \in corrida[r].lote : s.c = c
Pronta(r, c) == corrida[r].pc \in {"renovar", "falha", "registar"} /\ Tem(r, c)
Falha(r, c) == corrida[r].pc = "registar" /\ c \in corrida[r].actual
ComLote(c) == {r \in Corridas : Tem(r, c)}
Prontas(c) == {r \in Corridas : Pronta(r, c)}
AFalhar(c) == {r \in Corridas : Falha(r, c)}
Encolhem(c) ==
  ComLote(c)' \subseteq ComLote(c) /\ Prontas(c)' \subseteq Prontas(c) /\ AFalhar(c)' \subseteq AFalhar(c)

Passou(c) ==
  /\ denuncia[c] => denuncia'[c]
  /\ \/ /\ eventos'[c] = eventos[c] /\ hoje' = hoje
        /\ ComLote(c)' \subseteq ComLote(c) \/ ~denuncia[c]
        /\ Prontas(c)' \subseteq Prontas(c) \/ DoDia(c, Executada, hoje) = {}
        /\ AFalhar(c)' \subseteq AFalhar(c) \/ DoDia(c, Falhou, hoje) = {}
     \/ \E e \in EventoTipo :
          /\ Acrescenta(c, e) /\ e.dia = hoje /\ hoje' = hoje /\ Encolhem(c)
          /\ e.tipo = Executada => \E r \in Prontas(c) : ~Tem(r, c)'
          /\ e.tipo = Falhou => \E r \in AFalhar(c) : ~Falha(r, c)'
          /\ e.tipo = "DENUNCIA_REGISTADA" => denuncia'[c]
     \/ eventos'[c] = eventos[c] /\ hoje' = hoje + 1 /\ corrida' = corrida

(* And to the chain of renewals of a contract: nothing, a PATCH, or a link *)
(* from the term the corrida read.                                         *)
Renova(r, s, c) ==
  /\ s \in corrida[r].lote /\ s.c = c /\ s.prazo # 0 /\ termo'[c] = s.termo + s.prazo
  /\ abertas'[c] = DatasChave(abertas[c], s.termo, s.termo + s.prazo)
  /\ \E e \in EventoTipo : /\ Acrescenta(c, e) /\ e.tipo = Executada
                           /\ e.antigo = s.termo /\ e.novo = s.termo + s.prazo
  /\ ~Tem(r, c)' /\ \A q \in Corridas : q # r => corrida'[q] = corrida[q]
Encadeia(c) ==
  /\ editado[c] => editado'[c]
  /\ \/ editado'[c]
     \/ /\ termo'[c] = termo[c] /\ abertas'[c] = abertas[c]
        /\ \/ eventos'[c] = eventos[c]
           \/ \E e \in EventoTipo : Acrescenta(c, e) /\ e.tipo # Executada
        /\ \A r \in Corridas : \A s \in corrida'[r].lote :
             s.c = c => s \in corrida[r].lote \/ s.termo = termo[c]
     \/ \E r \in Corridas, s \in Candidatos : Renova(r, s, c)

LEMMA RenovacaoTiposDe ==
  ASSUME RenovacaoTipos, hoje' \in 0..MaxDia, hoje <= hoje',
         termo' \in [Contratos -> Nat], prazo' \in [Contratos -> Prazos],
         activo' \in [Contratos -> BOOLEAN], denuncia' \in [Contratos -> BOOLEAN],
         abertas' \in [Contratos -> [0..Maximo -> Nat]],
         \/ eventos' = eventos
         \/ \E c \in Contratos, e \in EventoTipo : Acrescenta(c, e) /\ e.dia = hoje,
         corrida' \in [Corridas -> CorridaTipo], aDenunciar' \in [Utilizadores -> LeituraTipo],
         editado' \in [Contratos -> BOOLEAN], juntas' \in BOOLEAN,
         \A r \in Corridas : ATratar(r)'
  PROVE  RenovacaoTipos'
<1>1. hoje \in Nat /\ hoje' \in Nat
  BY LimitesAssumption DEF RenovacaoTipos
<1>2. /\ eventos \in [Contratos -> Seq(EventoTipo)]
      /\ \A c \in Contratos : \A i \in 1..Len(eventos[c]) : eventos[c][i] \in EventoTipo /\ eventos[c][i].dia <= hoje
  BY Indices DEF RenovacaoTipos
<1>3. ASSUME NEW d \in Contratos, NEW i \in 1..Len(eventos'[d])
      PROVE  eventos'[d][i].dia <= hoje'
  <2>1. CASE eventos'[d] = eventos[d]
    <3>1. eventos[d][i].dia \in Nat /\ eventos[d][i].dia <= hoje
      BY <1>2, <1>3, <2>1 DEF EventoTipo
    <3> QED
      BY <1>1, <2>1, <3>1
  <2>2. ASSUME NEW e \in EventoTipo, Acrescenta(d, e), e.dia = hoje
        PROVE  eventos'[d][i].dia <= hoje'
    <3>1. \/ i = Len(eventos[d]) + 1 \/ i \in 1..Len(eventos[d])
      BY <1>3, <2>2 DEF Acrescenta
    <3>2. CASE i = Len(eventos[d]) + 1
      BY <1>1, <2>2, <3>2 DEF Acrescenta
    <3>3. CASE i \in 1..Len(eventos[d])
      <4>1. eventos[d][i].dia \in Nat /\ eventos[d][i].dia <= hoje
        BY <1>2, <3>3 DEF EventoTipo
      <4>2. eventos'[d][i] = eventos[d][i]
        BY <2>2, <3>3 DEF Acrescenta
      <4> QED
        BY <1>1, <4>1, <4>2
    <3> QED
      BY <3>1, <3>2, <3>3
  <2> QED
    BY <2>1, <2>2 DEF Acrescenta
<1>4. eventos' \in [Contratos -> Seq(EventoTipo)]
  BY <1>2 DEF Acrescenta
<1> QED
  BY <1>3, <1>4 DEF RenovacaoTipos

LEMMA SoUma ==
  ASSUME NEW r \in Corridas, \A q \in Corridas : q # r => corrida'[q] = corrida[q], NEW c
  PROVE  /\ (Tem(r, c)' => Tem(r, c)) => ComLote(c)' \subseteq ComLote(c)
         /\ (Pronta(r, c)' => Pronta(r, c)) => Prontas(c)' \subseteq Prontas(c)
         /\ (Falha(r, c)' => Falha(r, c)) => AFalhar(c)' \subseteq AFalhar(c)
         /\ \A q \in Corridas : q # r /\ ATratar(q) => ATratar(q)'
BY DEF ComLote, Prontas, AFalhar, Tem, Pronta, Falha, ATratar

(* A step of a corrida that writes nothing.                                *)
LEMMA SoLe ==
  ASSUME RenovacaoTipos, NEW r \in Corridas, juntas' \in BOOLEAN, UNCHANGED editado,
         UNCHANGED <<hoje, termo, prazo, activo, denuncia, abertas, eventos, aDenunciar>>,
         corrida' \in [Corridas -> CorridaTipo],
         \A q \in Corridas : q # r => corrida'[q] = corrida[q], ATratar(r)',
         \A c \in Contratos : (Tem(r, c)' => Tem(r, c)) \/ ~denuncia[c],
         \A c \in Contratos : (Pronta(r, c)' => Pronta(r, c)) \/ DoDia(c, Executada, hoje) = {},
         \A c \in Contratos : (Falha(r, c)' => Falha(r, c)) \/ DoDia(c, Falhou, hoje) = {},
         \A s \in corrida'[r].lote : s \in corrida[r].lote \/ s.termo = termo[s.c]
  PROVE  RenovacaoTipos' /\ \A c \in Contratos : Passou(c) /\ Encadeia(c)
<1>1. \A q \in Corridas : ATratar(q)'
  BY SoUma DEF RenovacaoTipos
<1>2. hoje \in Nat
  BY DiaNat
<1>3. RenovacaoTipos'
  <2>1. /\ hoje' \in 0..MaxDia /\ hoje <= hoje'
    BY <1>2 DEF RenovacaoTipos
  <2>2. /\ termo' \in [Contratos -> Nat] /\ prazo' \in [Contratos -> Prazos]
        /\ activo' \in [Contratos -> BOOLEAN] /\ denuncia' \in [Contratos -> BOOLEAN]
        /\ abertas' \in [Contratos -> [0..Maximo -> Nat]]
        /\ aDenunciar' \in [Utilizadores -> LeituraTipo] /\ editado' \in [Contratos -> BOOLEAN]
    BY DEF RenovacaoTipos
  <2> QED
    BY <1>1, <2>1, <2>2, RenovacaoTiposDe
<1>4. ASSUME NEW c \in Contratos PROVE Passou(c)
  <2>1. /\ ComLote(c)' \subseteq ComLote(c) \/ ~denuncia[c]
        /\ Prontas(c)' \subseteq Prontas(c) \/ DoDia(c, Executada, hoje) = {}
        /\ AFalhar(c)' \subseteq AFalhar(c) \/ DoDia(c, Falhou, hoje) = {}
    BY SoUma
  <2> QED
    BY <2>1 DEF Passou
<1>5. ASSUME NEW c \in Contratos PROVE Encadeia(c)
  <2>1. \A q \in Corridas : \A s \in corrida'[q].lote :
          s.c = c => s \in corrida[q].lote \/ s.termo = termo[c]
    OBVIOUS
  <2> QED
    BY <2>1 DEF Encadeia
<1> QED
  BY <1>3, <1>4, <1>5

LEMMA LerCandidatosFaz ==
  ASSUME RenovacaoTipos, NEW r \in Corridas, juntas' \in BOOLEAN, UNCHANGED editado, LerCandidatos(r)
  PROVE  RenovacaoTipos' /\ \A c \in Contratos : Passou(c) /\ Encadeia(c)
<1> DEFINE novos == {[c |-> c, termo |-> termo[c], prazo |-> prazo[c]] :
                       c \in {d \in Contratos : Candidato(d)}}
<1>1. /\ novos \subseteq Candidatos
      /\ \A s \in novos : Candidato(s.c) /\ s.termo = termo[s.c]
      /\ \A s, x \in novos : s.c = x.c => s = x
  BY DEF RenovacaoTipos, Candidatos
<1>2. Segue(r, "recentes", novos, {})
  BY DEF LerCandidatos
<1>3. UNCHANGED <<hoje, termo, prazo, activo, denuncia, abertas, eventos, aDenunciar>>
  BY DEF LerCandidatos
<1> HIDE DEF novos
<1>4. /\ corrida' \in [Corridas -> CorridaTipo]
      /\ corrida'[r].pc = "recentes" /\ corrida'[r].lote = novos
      /\ \A q \in Corridas : q # r => corrida'[q] = corrida[q]
  BY <1>1, <1>2, SegueFaz
<1>5. ATratar(r)'
  BY <1>1, <1>4 DEF ATratar
<1>6. \A c : ~Pronta(r, c)' /\ ~Falha(r, c)' /\ (Tem(r, c)' => Candidato(c))
  BY <1>1, <1>4 DEF Pronta, Falha, Tem
<1> QED
  BY <1>1, <1>3, <1>4, <1>5, <1>6, SoLe DEF Candidato

LEMMA LerRecentesFaz ==
  ASSUME RenovacaoTipos, NEW r \in Corridas, juntas' \in BOOLEAN, UNCHANGED editado, LerRecentes(r)
  PROVE  RenovacaoTipos' /\ \A c \in Contratos : Passou(c) /\ Encadeia(c)
<1>1. PICK ontem : Segue(r, "renovar", {s \in corrida[r].lote : s.c \notin Recentes(ontem)}, {})
  BY DEF LerRecentes
<1>2. UNCHANGED <<hoje, termo, prazo, activo, denuncia, abertas, eventos, aDenunciar>>
  BY DEF LerRecentes
<1> DEFINE novos == {s \in corrida[r].lote : s.c \notin Recentes(ontem)}
<1>3. novos \subseteq corrida[r].lote /\ corrida[r].lote \subseteq Candidatos
  BY DEF RenovacaoTipos, CorridaTipo
<1>4. \A s \in novos : s.c \in Contratos /\ DoDia(s.c, Executada, hoje) = {}
  BY <1>3 DEF Recentes, RenovadoEm, DoDia, Executada, Candidatos
<1>5. Segue(r, "renovar", novos, {})
  BY <1>1
<1> HIDE DEF novos
<1>6. /\ corrida' \in [Corridas -> CorridaTipo]
      /\ corrida'[r].pc = "renovar" /\ corrida'[r].lote = novos
      /\ \A q \in Corridas : q # r => corrida'[q] = corrida[q]
  BY <1>3, <1>5, SegueFaz
<1>7. ATratar(r)'
  BY <1>3, <1>6 DEF ATratar, RenovacaoTipos
<1>8. \A c : /\ Tem(r, c)' => Tem(r, c) /\ DoDia(c, Executada, hoje) = {}
             /\ ~Falha(r, c)' /\ (Pronta(r, c)' => Tem(r, c)')
  BY <1>3, <1>4, <1>6 DEF Tem, Falha, Pronta
<1> QED
  BY <1>2, <1>3, <1>6, <1>7, <1>8, SoLe

LEMMA NaoRenovarFaz ==
  ASSUME RenovacaoTipos, NEW r \in Corridas, juntas' \in BOOLEAN, UNCHANGED editado,
         NEW s \in corrida[r].lote, NaoRenovar(r, s)
  PROVE  RenovacaoTipos' /\ \A c \in Contratos : Passou(c) /\ Encadeia(c)
<1> DEFINE novos == corrida[r].lote \ {s}
<1>1. corrida[r].lote \subseteq Candidatos /\ s.c \in Contratos
  BY DEF RenovacaoTipos, CorridaTipo, Candidatos
<1>2. /\ Segue(r, "falha", novos, {s.c}) /\ corrida[r].pc = "renovar"
      /\ UNCHANGED <<hoje, termo, prazo, activo, denuncia, abertas, eventos, aDenunciar>>
  BY DEF NaoRenovar
<1>3. /\ corrida' \in [Corridas -> CorridaTipo]
      /\ corrida'[r].pc = "falha" /\ corrida'[r].lote = novos /\ corrida'[r].actual = {s.c}
      /\ \A q \in Corridas : q # r => corrida'[q] = corrida[q]
  BY <1>1, <1>2, SegueFaz
<1>4. ATratar(r)'
  BY <1>1, <1>3 DEF ATratar, RenovacaoTipos
<1>5. \A c : /\ (Tem(r, c)' => Tem(r, c)) /\ ~Falha(r, c)'
             /\ (Pronta(r, c)' => Pronta(r, c))
  BY <1>2, <1>3 DEF Tem, Falha, Pronta
<1>6. /\ \A c \in Contratos : (Tem(r, c)' => Tem(r, c)) \/ ~denuncia[c]
      /\ \A c \in Contratos : (Pronta(r, c)' => Pronta(r, c)) \/ DoDia(c, Executada, hoje) = {}
      /\ \A c \in Contratos : (Falha(r, c)' => Falha(r, c)) \/ DoDia(c, Falhou, hoje) = {}
      /\ \A x \in corrida'[r].lote : x \in corrida[r].lote \/ x.termo = termo[x.c]
  BY <1>3, <1>5
<1> QED
  BY <1>2, <1>3, <1>4, <1>6, SoLe

LEMMA VerFalhaFaz ==
  ASSUME RenovacaoTipos, NEW r \in Corridas, juntas' \in BOOLEAN, UNCHANGED editado, VerFalha(r)
  PROVE  RenovacaoTipos' /\ \A c \in Contratos : Passou(c) /\ Encadeia(c)
<1>1. corrida[r].lote \subseteq Candidatos /\ corrida[r].actual \subseteq Contratos
  BY DEF RenovacaoTipos, CorridaTipo
<1>2. /\ corrida[r].pc = "falha"
      /\ UNCHANGED <<hoje, termo, prazo, activo, denuncia, abertas, eventos, aDenunciar>>
  BY DEF VerFalha
<1>3. PICK c \in corrida[r].actual :
        \/ jaRegistada(c) /\ Segue(r, "renovar", corrida[r].lote, {})
        \/ ~jaRegistada(c) /\ Segue(r, "registar", corrida[r].lote, {c})
  BY DEF VerFalha
<1>4. /\ corrida' \in [Corridas -> CorridaTipo] /\ corrida'[r].lote = corrida[r].lote
      /\ \A q \in Corridas : q # r => corrida'[q] = corrida[q]
      /\ \/ corrida'[r].pc = "renovar"
         \/ corrida'[r].pc = "registar" /\ corrida'[r].actual = {c} /\ ~jaRegistada(c)
  <2>1. CASE jaRegistada(c) /\ Segue(r, "renovar", corrida[r].lote, {})
    BY <1>1, <2>1, SegueFaz
  <2>2. CASE ~jaRegistada(c) /\ Segue(r, "registar", corrida[r].lote, {c})
    BY <1>1, <2>2, SegueFaz
  <2> QED
    BY <1>3, <2>1, <2>2
<1>5. ATratar(r)'
  BY <1>1, <1>4 DEF ATratar, RenovacaoTipos
<1>6. \A d : /\ (Tem(r, d)' => Tem(r, d)) /\ (Pronta(r, d)' => Pronta(r, d))
             /\ Falha(r, d)' => DoDia(d, Falhou, hoje) = {}
  <2>1. \A d : (Tem(r, d)' => Tem(r, d)) /\ (Pronta(r, d)' => Pronta(r, d))
    BY <1>2, <1>4 DEF Tem, Pronta
  <2>2. ~jaRegistada(c) => DoDia(c, Falhou, hoje) = {}
    BY DEF jaRegistada, DoDia, Falhou
  <2> QED
    BY <1>4, <2>1, <2>2 DEF Falha
<1>7. /\ \A d \in Contratos : (Tem(r, d)' => Tem(r, d)) \/ ~denuncia[d]
      /\ \A d \in Contratos : (Pronta(r, d)' => Pronta(r, d)) \/ DoDia(d, Executada, hoje) = {}
      /\ \A d \in Contratos : (Falha(r, d)' => Falha(r, d)) \/ DoDia(d, Falhou, hoje) = {}
      /\ \A s \in corrida'[r].lote : s \in corrida[r].lote \/ s.termo = termo[s.c]
  BY <1>4, <1>6
<1> QED
  BY <1>2, <1>4, <1>5, <1>7, SoLe

LEMMA AcabarFaz ==
  ASSUME RenovacaoTipos, NEW r \in Corridas, juntas' \in BOOLEAN, UNCHANGED editado, Acabar(r)
  PROVE  RenovacaoTipos' /\ \A c \in Contratos : Passou(c) /\ Encadeia(c)
<1>1. /\ corrida' = [corrida EXCEPT ![r] = CorridaLivre]
      /\ UNCHANGED <<hoje, termo, prazo, activo, denuncia, abertas, eventos, aDenunciar>>
  BY DEF Acabar
<1>2. CorridaLivre \in CorridaTipo /\ CorridaLivre.pc = "livre" /\ CorridaLivre.lote = {}
  BY DEF CorridaLivre, CorridaTipo
<1>3. /\ corrida' \in [Corridas -> CorridaTipo] /\ corrida'[r].pc = "livre" /\ corrida'[r].lote = {}
      /\ \A q \in Corridas : q # r => corrida'[q] = corrida[q]
  BY <1>1, <1>2 DEF RenovacaoTipos
<1>4. ATratar(r)' /\ \A c : ~Tem(r, c)' /\ ~Pronta(r, c)' /\ ~Falha(r, c)'
  BY <1>3 DEF ATratar, Tem, Pronta, Falha
<1> QED
  BY <1>1, <1>3, <1>4, SoLe

(* A step of the users or of the clock, which leaves the corridas alone.   *)
LEMMA CorridasFicam ==
  ASSUME RenovacaoTipos, UNCHANGED corrida
  PROVE  /\ corrida' \in [Corridas -> CorridaTipo] /\ \A r \in Corridas : ATratar(r)'
         /\ \A c : Encolhem(c)
         /\ \A c : \A r \in Corridas : \A s \in corrida'[r].lote : s \in corrida[r].lote
<1>1. corrida' = corrida /\ corrida \in [Corridas -> CorridaTipo] /\ \A r \in Corridas : ATratar(r)
  BY DEF RenovacaoTipos
<1> QED
  BY <1>1 DEF ATratar, Encolhem, ComLote, Prontas, AFalhar, Tem, Pronta, Falha

LEMMA GravarDenunciaFaz ==
  ASSUME RenovacaoTipos, NEW u \in Utilizadores, juntas' \in BOOLEAN, UNCHANGED editado,
         GravarDenuncia(u)
  PROVE  RenovacaoTipos' /\ \A c \in Contratos : Passou(c) /\ Encadeia(c)
<1>1. aDenunciar[u].c \subseteq Contratos /\ denuncia \in [Contratos -> BOOLEAN]
      /\ aDenunciar \in [Utilizadores -> LeituraTipo]
  BY DEF RenovacaoTipos, LeituraTipo
<1> DEFINE e == Evento("DENUNCIA_REGISTADA", 0, 0)
<1>2. PICK c \in Contratos : denuncia' = [denuncia EXCEPT ![c] = TRUE] /\ Regista(c, e)
  BY <1>1 DEF GravarDenuncia
<1>3. /\ UNCHANGED <<hoje, termo, prazo, activo, abertas, corrida>>
      /\ aDenunciar' = [aDenunciar EXCEPT ![u] = Nenhum]
  BY DEF GravarDenuncia
<1>4. /\ e \in EventoTipo /\ e.tipo = "DENUNCIA_REGISTADA" /\ e.dia = hoje
  BY EventoFaz DEF TiposEvento
<1> HIDE DEF e
<1>5. Acrescenta(c, e)
  BY <1>2, <1>4, RegistaFaz
<1>6. /\ corrida' \in [Corridas -> CorridaTipo] /\ \A r \in Corridas : ATratar(r)'
      /\ \A d : Encolhem(d)
      /\ \A r \in Corridas : \A s \in corrida'[r].lote : s \in corrida[r].lote
  BY <1>3, CorridasFicam
<1>7. Nenhum \in LeituraTipo
  BY DEF Nenhum, LeituraTipo
<1>8. /\ denuncia' \in [Contratos -> BOOLEAN] /\ denuncia'[c] = TRUE
      /\ \A d \in Contratos : denuncia[d] => denuncia'[d]
  BY <1>1, <1>2, Zenon
<1>9. aDenunciar' \in [Utilizadores -> LeituraTipo]
  BY <1>1, <1>3, <1>7
<1>10. hoje \in Nat /\ hoje' = hoje
  BY <1>3, DiaNat
<1>11. RenovacaoTipos'
  <2>1. /\ hoje' \in 0..MaxDia /\ hoje <= hoje'
    BY <1>10 DEF RenovacaoTipos
  <2>2. /\ termo' \in [Contratos -> Nat] /\ prazo' \in [Contratos -> Prazos]
        /\ activo' \in [Contratos -> BOOLEAN]
        /\ abertas' \in [Contratos -> [0..Maximo -> Nat]] /\ editado' \in [Contratos -> BOOLEAN]
    BY <1>3 DEF RenovacaoTipos
  <2> QED
    BY <1>4, <1>5, <1>6, <1>8, <1>9, <2>1, <2>2, RenovacaoTiposDe
<1>12. ASSUME NEW d \in Contratos PROVE Passou(d) /\ Encadeia(d)
  <2>1. CASE d = c
    <3>1. e.tipo # Executada /\ e.tipo # Falhou
      BY <1>4 DEF Executada, Falhou
    <3> QED
      BY <1>3, <1>4, <1>5, <1>6, <1>8, <2>1, <3>1 DEF Passou, Encadeia
  <2>2. CASE d # c
    <3>1. eventos'[d] = eventos[d]
      BY <1>5, <2>2 DEF Acrescenta
    <3> QED
      BY <1>3, <1>6, <1>8, <3>1 DEF Passou, Encadeia, Encolhem
  <2> QED
    BY <2>1, <2>2
<1> QED
  BY <1>11, <1>12

LEMMA RestoFaz ==
  ASSUME RenovacaoTipos, juntas' \in BOOLEAN,
         \/ /\ \/ \E u \in Utilizadores, c \in Contratos : LerDenuncia(u, c)
               \/ \E c \in Contratos : MudarEstado(c)
               \/ Amanhecer
            /\ UNCHANGED editado
         \/ \E c \in Contratos : Update(c)
  PROVE  RenovacaoTipos' /\ \A c \in Contratos : Passou(c) /\ Encadeia(c)
<1>1. UNCHANGED <<denuncia, abertas, eventos, corrida>>
  BY DEF LerDenuncia, MudarEstado, Amanhecer, Update
<1>2. hoje \in 0..MaxDia /\ hoje \in Nat
  BY DiaNat DEF RenovacaoTipos
<1>3. hoje' \in 0..MaxDia /\ hoje <= hoje' /\ (hoje' = hoje \/ hoje' = hoje + 1)
  BY <1>2, LimitesAssumption DEF LerDenuncia, MudarEstado, Amanhecer, Update
<1>4. /\ corrida' \in [Corridas -> CorridaTipo] /\ \A r \in Corridas : ATratar(r)'
      /\ \A d : Encolhem(d)
      /\ \A r \in Corridas : \A s \in corrida'[r].lote : s \in corrida[r].lote
  BY <1>1, CorridasFicam
<1>5. /\ aDenunciar \in [Utilizadores -> LeituraTipo] /\ editado \in [Contratos -> BOOLEAN]
      /\ termo \in [Contratos -> Nat] /\ prazo \in [Contratos -> Prazos]
      /\ activo \in [Contratos -> BOOLEAN] /\ denuncia \in [Contratos -> BOOLEAN]
      /\ abertas \in [Contratos -> [0..Maximo -> Nat]]
  BY DEF RenovacaoTipos
<1>6. aDenunciar' \in [Utilizadores -> LeituraTipo]
  <2>1. ASSUME NEW u \in Utilizadores, NEW c \in Contratos, LerDenuncia(u, c)
        PROVE  aDenunciar' \in [Utilizadores -> LeituraTipo]
    <3>1. [pc |-> "gravar", c |-> {c}] \in LeituraTipo
      BY DEF LeituraTipo
    <3> QED
      BY <1>5, <2>1, <3>1 DEF LerDenuncia
  <2>2. CASE UNCHANGED aDenunciar
    BY <1>5, <2>2
  <2> QED
    BY <2>1, <2>2 DEF MudarEstado, Amanhecer, Update
<1>7. activo' \in [Contratos -> BOOLEAN]
  <2>1. ASSUME NEW c \in Contratos, MudarEstado(c)
        PROVE  activo' \in [Contratos -> BOOLEAN]
    BY <1>5, <2>1 DEF MudarEstado
  <2>2. CASE UNCHANGED activo
    BY <1>5, <2>2
  <2> QED
    BY <2>1, <2>2 DEF LerDenuncia, Amanhecer, Update
<1>8. /\ termo' \in [Contratos -> Nat] /\ prazo' \in [Contratos -> Prazos]
      /\ editado' \in [Contratos -> BOOLEAN]
      /\ \A d \in Contratos : /\ editado[d] => editado'[d]
                              /\ editado'[d] \/ termo'[d] = termo[d]
  <2>1. ASSUME NEW c \in Contratos, Update(c)
        PROVE  /\ termo' \in [Contratos -> Nat] /\ prazo' \in [Contratos -> Prazos]
               /\ editado' \in [Contratos -> BOOLEAN]
               /\ \A d \in Contratos : /\ editado[d] => editado'[d]
                                       /\ editado'[d] \/ termo'[d] = termo[d]
    <3>1. PICK x \in 0..MaxDia, m \in Prazos : termo' = [termo EXCEPT ![c] = x] /\ prazo' = [prazo EXCEPT ![c] = m]
      BY <2>1 DEF Update
    <3>2. x \in Nat
      BY LimitesAssumption
    <3>3. /\ termo' \in [Contratos -> Nat] /\ prazo' \in [Contratos -> Prazos]
          /\ \A d \in Contratos : d # c => termo'[d] = termo[d]
      BY <1>5, <3>1, <3>2
    <3>4. /\ editado' \in [Contratos -> BOOLEAN] /\ editado'[c] = TRUE
          /\ \A d \in Contratos : editado[d] => editado'[d]
      BY <1>5, <2>1, Zenon DEF Update
    <3> QED
      BY <3>3, <3>4
  <2>2. CASE UNCHANGED <<termo, prazo, editado>>
    BY <1>5, <2>2
  <2> QED
    BY <2>1, <2>2 DEF LerDenuncia, Amanhecer, MudarEstado
<1>9. RenovacaoTipos'
  <2>1. denuncia' \in [Contratos -> BOOLEAN] /\ abertas' \in [Contratos -> [0..Maximo -> Nat]]
    BY <1>1, <1>5
  <2> QED
    BY <1>1, <1>3, <1>4, <1>6, <1>7, <1>8, <2>1, RenovacaoTiposDe
<1>10. ASSUME NEW c \in Contratos PROVE Passou(c) /\ Encadeia(c)
  BY <1>1, <1>3, <1>4, <1>8 DEF Passou, Encadeia, Encolhem
<1> QED
  BY <1>9, <1>10

LEMMA RegistarFalhaFaz ==
  ASSUME RenovacaoTipos, NEW r \in Corridas, juntas' \in BOOLEAN, UNCHANGED editado, RegistarFalha(r)
  PROVE  RenovacaoTipos' /\ \A c \in Contratos : Passou(c) /\ Encadeia(c)
<1> DEFINE e == Evento("RENOVACAO_FALHOU", 0, 0)
<1>1. /\ corrida[r].pc = "registar" /\ Segue(r, "renovar", corrida[r].lote, {})
      /\ UNCHANGED <<hoje, termo, prazo, activo, denuncia, abertas, aDenunciar>>
  BY DEF RegistarFalha
<1>2. /\ corrida[r].lote \subseteq Candidatos /\ corrida[r].actual \subseteq Contratos
  BY DEF RenovacaoTipos, CorridaTipo
<1>3. PICK c \in Contratos : c \in corrida[r].actual /\ Regista(c, e)
  BY <1>2 DEF RegistarFalha
<1>4. /\ e \in EventoTipo /\ e.tipo = "RENOVACAO_FALHOU" /\ e.dia = hoje
  BY EventoFaz DEF TiposEvento
<1> HIDE DEF e
<1>5. Acrescenta(c, e)
  BY <1>3, <1>4, RegistaFaz
<1>6. /\ corrida' \in [Corridas -> CorridaTipo]
      /\ corrida'[r].pc = "renovar" /\ corrida'[r].lote = corrida[r].lote
      /\ \A q \in Corridas : q # r => corrida'[q] = corrida[q]
  BY <1>1, <1>2, SegueFaz
<1>7. ATratar(r)'
  BY <1>6 DEF ATratar, RenovacaoTipos
<1>8. \A d : /\ Tem(r, d)' => Tem(r, d)
             /\ Pronta(r, d)' => Pronta(r, d)
             /\ ~Falha(r, d)'
  BY <1>1, <1>6 DEF Tem, Pronta, Falha
<1>9. /\ \A d : Encolhem(d)
      /\ \A q \in Corridas : ATratar(q)'
  BY <1>6, <1>7, <1>8, SoUma DEF Encolhem, RenovacaoTipos
<1>10. r \in AFalhar(c) /\ e.tipo # Executada /\ e.tipo # "DENUNCIA_REGISTADA"
  BY <1>1, <1>3, <1>4 DEF AFalhar, Falha, Executada
<1>11. RenovacaoTipos'
  <2>1. hoje' \in 0..MaxDia /\ hoje <= hoje'
    BY <1>1, DiaNat DEF RenovacaoTipos
  <2>2. /\ termo' \in [Contratos -> Nat] /\ prazo' \in [Contratos -> Prazos]
        /\ activo' \in [Contratos -> BOOLEAN] /\ denuncia' \in [Contratos -> BOOLEAN]
        /\ abertas' \in [Contratos -> [0..Maximo -> Nat]]
        /\ aDenunciar' \in [Utilizadores -> LeituraTipo] /\ editado' \in [Contratos -> BOOLEAN]
    BY <1>1 DEF RenovacaoTipos
  <2> QED
    BY <1>4, <1>5, <1>6, <1>9, <2>1, <2>2, RenovacaoTiposDe
<1>12. ASSUME NEW d \in Contratos PROVE Passou(d) /\ Encadeia(d)
  <2>1. \A q \in Corridas : \A s \in corrida'[q].lote : s \in corrida[q].lote
    BY <1>6
  <2>2. CASE d = c
    BY <1>1, <1>4, <1>5, <1>8, <1>9, <1>10, <2>1, <2>2 DEF Passou, Encadeia
  <2>3. CASE d # c
    <3>1. eventos'[d] = eventos[d]
      BY <1>5, <2>3 DEF Acrescenta
    <3> QED
      BY <1>1, <1>9, <2>1, <3>1 DEF Passou, Encadeia, Encolhem
  <2> QED
    BY <2>2, <2>3
<1> QED
  BY <1>11, <1>12

LEMMA DatasFaz ==
  ASSUME NEW f \in [0..Maximo -> Nat], NEW antigo \in Nat, NEW novo \in Nat, antigo # novo
  PROVE  /\ DatasChave(f, antigo, novo) \in [0..Maximo -> Nat]
         /\ \A d \in 0..Maximo : DatasChave(f, antigo, novo)[d] =
              IF d = novo THEN f[d] + 1 ELSE IF d = antigo THEN 0 ELSE f[d]
<1> DEFINE g == DatasChave(f, antigo, novo)
           D == 0..Maximo
<1>1. \A d \in D : f[d] \in Nat
  OBVIOUS
<1> HIDE DEF D
<1>2. \A d \in D : g[d] = IF d = novo THEN f[d] + 1 ELSE IF d = antigo THEN 0 ELSE f[d]
  BY DEF DatasChave, D
<1>3. g = [d \in D |-> g[d]]
  BY DEF DatasChave, D
<1> HIDE DEF g
<1>4. \A d \in D : g[d] \in Nat
  BY <1>1, <1>2
<1>5. g \in [D -> Nat]
  BY <1>3, <1>4
<1> QED
  BY <1>2, <1>5 DEF g, D

LEMMA RenovarFaz ==
  ASSUME RenovacaoTipos, NEW r \in Corridas, juntas' \in BOOLEAN, UNCHANGED editado,
         NEW s \in corrida[r].lote, Renovar(r, s)
  PROVE  RenovacaoTipos' /\ \A c \in Contratos : Passou(c) /\ Encadeia(c)
<1> DEFINE novo == s.termo + s.prazo
           e == Evento("RENOVACAO_EXECUTADA", s.termo, novo)
           novos == corrida[r].lote \ {s}
           c == s.c
<1>1. corrida[r].lote \subseteq Candidatos /\ s \in Candidatos /\ ATratar(r)
  BY DEF RenovacaoTipos, CorridaTipo
<1>2. c \in Contratos /\ s.termo \in Nat /\ s.prazo \in Nat /\ novo \in Nat
  <2>1. s.c \in Contratos /\ s.termo \in Nat /\ s.prazo \in Prazos
    BY <1>1 DEF Candidatos
  <2> QED
    BY <2>1, PrazoNat
<1>3. /\ corrida[r].pc = "renovar" /\ s.prazo # 0
      /\ termo' = [termo EXCEPT ![c] = novo]
      /\ abertas' = [abertas EXCEPT ![c] = DatasChave(abertas[c], s.termo, novo)]
      /\ Regista(c, e) /\ Segue(r, "renovar", novos, {})
      /\ UNCHANGED <<hoje, prazo, activo, denuncia, aDenunciar>>
  BY DEF Renovar, novoTermo
<1>4. /\ e \in EventoTipo /\ e.tipo = "RENOVACAO_EXECUTADA" /\ e.dia = hoje
      /\ e.antigo = s.termo /\ e.novo = novo
  BY <1>2, EventoFaz DEF TiposEvento
<1> HIDE DEF e
<1>5. Acrescenta(c, e)
  BY <1>2, <1>3, <1>4, RegistaFaz
<1>6. /\ corrida' \in [Corridas -> CorridaTipo]
      /\ corrida'[r].pc = "renovar" /\ corrida'[r].lote = novos
      /\ \A q \in Corridas : q # r => corrida'[q] = corrida[q]
  BY <1>1, <1>3, SegueFaz
<1>7. ATratar(r)'
  BY <1>1, <1>6 DEF ATratar
<1>8. \A d : /\ Tem(r, d)' => Tem(r, d)
             /\ Pronta(r, d)' => Pronta(r, d)
             /\ ~Falha(r, d)'
  BY <1>3, <1>6 DEF Tem, Pronta, Falha
<1>9. /\ \A d : Encolhem(d)
      /\ \A q \in Corridas : ATratar(q)'
  BY <1>6, <1>7, <1>8, SoUma DEF Encolhem, RenovacaoTipos
<1>10. /\ r \in Prontas(c) /\ ~Tem(r, c)'
       /\ e.tipo = Executada /\ e.tipo # Falhou /\ e.tipo # "DENUNCIA_REGISTADA"
  <2>1. Pronta(r, c)
    BY <1>3 DEF Pronta, Tem
  <2>2. ~Tem(r, c)'
    BY <1>1, <1>6 DEF ATratar, Tem
  <2> QED
    BY <1>4, <2>1, <2>2 DEF Prontas, Executada, Falhou
<1>11. /\ termo' \in [Contratos -> Nat] /\ termo'[c] = novo
       /\ \A d \in Contratos : d # c => termo'[d] = termo[d]
  <2>1. termo \in [Contratos -> Nat]
    BY DEF RenovacaoTipos
  <2> HIDE DEF novo, c
  <2> QED
    BY <1>2, <1>3, <2>1
<1>12. /\ abertas' \in [Contratos -> [0..Maximo -> Nat]]
       /\ abertas'[c] = DatasChave(abertas[c], s.termo, novo)
       /\ \A d \in Contratos : d # c => abertas'[d] = abertas[d]
  <2>1. abertas \in [Contratos -> [0..Maximo -> Nat]]
    BY DEF RenovacaoTipos
  <2> DEFINE datas == DatasChave(abertas[c], s.termo, novo)
  <2>2. datas \in [0..Maximo -> Nat]
    <3>1. abertas[c] \in [0..Maximo -> Nat]
      BY <1>2, <2>1
    <3>2. novo # s.termo
      BY <1>2, <1>3
    <3> HIDE DEF novo
    <3> QED
      BY <1>2, <3>1, <3>2, DatasFaz
  <2>3. abertas' = [abertas EXCEPT ![c] = datas]
    BY <1>3
  <2> HIDE DEF datas, c
  <2>4. abertas' \in [Contratos -> [0..Maximo -> Nat]] /\ abertas'[c] = datas
        /\ \A d \in Contratos : d # c => abertas'[d] = abertas[d]
    BY <1>2, <2>1, <2>2, <2>3
  <2> QED
    BY <2>4 DEF datas
<1>13. RenovacaoTipos'
  <2>1. hoje' \in 0..MaxDia /\ hoje <= hoje'
    BY <1>3, DiaNat DEF RenovacaoTipos
  <2>2. /\ prazo' \in [Contratos -> Prazos]
        /\ activo' \in [Contratos -> BOOLEAN] /\ denuncia' \in [Contratos -> BOOLEAN]
        /\ aDenunciar' \in [Utilizadores -> LeituraTipo] /\ editado' \in [Contratos -> BOOLEAN]
    BY <1>3 DEF RenovacaoTipos
  <2> QED
    BY <1>2, <1>4, <1>5, <1>6, <1>9, <1>11, <1>12, <2>1, <2>2, RenovacaoTiposDe
<1>14. ASSUME NEW d \in Contratos PROVE Passou(d) /\ Encadeia(d)
  <2>1. \A q \in Corridas : \A x \in corrida'[q].lote : x \in corrida[q].lote
    BY <1>6
  <2>2. CASE d = c
    <3>1. Passou(c)
      BY <1>3, <1>4, <1>5, <1>9, <1>10 DEF Passou
    <3>2. Renova(r, s, c)
      BY <1>3, <1>4, <1>5, <1>6, <1>10, <1>11, <1>12 DEF Renova
    <3>3. Encadeia(c)
      BY <1>1, <3>2 DEF Encadeia
    <3> QED
      BY <2>2, <3>1, <3>3
  <2>3. CASE d # c
    <3>1. eventos'[d] = eventos[d] /\ termo'[d] = termo[d] /\ abertas'[d] = abertas[d]
      BY <1>5, <1>11, <1>12, <2>3 DEF Acrescenta
    <3> QED
      BY <1>3, <1>9, <2>1, <3>1 DEF Passou, Encadeia, Encolhem
  <2> QED
    BY <2>2, <2>3
<1> QED
  BY <1>13, <1>14

LEMMA RenovacaoPasso ==
  ASSUME RenovacaoTipos, RenovacaoNext
  PROVE  RenovacaoTipos' /\ \A c \in Contratos : Passou(c) /\ Encadeia(c)
<1>1. juntas' \in BOOLEAN /\ Passo
  BY DEF RenovacaoNext, RenovacaoTipos
<1>2. CASE \E c \in Contratos : Update(c)
  BY <1>1, <1>2, RestoFaz
<1>3. ASSUME UNCHANGED editado, NEW r \in Corridas,
             \/ LerCandidatos(r) \/ LerRecentes(r) \/ VerFalha(r) \/ RegistarFalha(r) \/ Acabar(r)
             \/ \E s \in corrida[r].lote : Renovar(r, s) \/ NaoRenovar(r, s)
      PROVE  RenovacaoTipos' /\ \A c \in Contratos : Passou(c) /\ Encadeia(c)
  BY <1>1, <1>3, LerCandidatosFaz, LerRecentesFaz, VerFalhaFaz, RegistarFalhaFaz, AcabarFaz,
     RenovarFaz, NaoRenovarFaz
<1>4. ASSUME UNCHANGED editado,
             \/ \E u \in Utilizadores : GravarDenuncia(u) \/ \E c \in Contratos : LerDenuncia(u, c)
             \/ \E c \in Contratos : MudarEstado(c)
             \/ Amanhecer
      PROVE  RenovacaoTipos' /\ \A c \in Contratos : Passou(c) /\ Encadeia(c)
  <2>1. CASE \E u \in Utilizadores : GravarDenuncia(u)
    BY <1>1, <1>4, <2>1, GravarDenunciaFaz
  <2>2. CASE \/ \E u \in Utilizadores, c \in Contratos : LerDenuncia(u, c)
             \/ \E c \in Contratos : MudarEstado(c)
             \/ Amanhecer
    BY <1>1, <1>4, <2>2, RestoFaz
  <2> QED
    BY <1>4, <2>1, <2>2
<1> QED
  BY <1>1, <1>2, <1>3, <1>4 DEF Passo

LEMMA RenovacaoTiposPasso == RenovacaoTipos /\ [RenovacaoNext]_renovacaoVars => RenovacaoTipos'
<1> SUFFICES ASSUME RenovacaoTipos, [RenovacaoNext]_renovacaoVars PROVE RenovacaoTipos'
  OBVIOUS
<1>1. CASE RenovacaoNext
  BY <1>1, RenovacaoPasso
<1>2. CASE UNCHANGED renovacaoVars
  BY <1>2 DEF renovacaoVars, RenovacaoTipos, ATratar
<1> QED
  BY <1>1, <1>2

(* The rows, the timelines and what corridas and requests hold keep their  *)
(* types, however long the contracts are renewed.                          *)
THEOREM RenovacaoTypeCorrect == RenovacaoSpec => []RenovacaoTypeOK
<1>1. RenovacaoTipos => RenovacaoTypeOK
  <2> SUFFICES ASSUME RenovacaoTipos PROVE RenovacaoTypeOK
    OBVIOUS
  <2>1. \A c \in Contratos : \A i \in DOMAIN eventos[c] : eventos[c][i].tipo \in TiposEvento
    BY Indices DEF EventoTipo
  <2>2. ASSUME NEW r \in Corridas
        PROVE  /\ corrida[r].pc \in {"livre", "recentes", "renovar", "falha", "registar"}
               /\ \A s \in corrida[r].lote : s.c \in Contratos /\ s.termo \in Nat /\ s.prazo \in Prazos
               /\ corrida[r].actual \subseteq Contratos
               /\ corrida[r].pc \in {"falha", "registar"} => Cardinality(corrida[r].actual) = 1
    <3>1. corrida[r] \in CorridaTipo /\ ATratar(r)
      BY DEF RenovacaoTipos
    <3>2. \A c : Cardinality({c}) = 1
      BY FS_Singleton
    <3>3. corrida[r].pc \in {"falha", "registar"} => Cardinality(corrida[r].actual) = 1
      BY <3>1, <3>2 DEF ATratar
    <3> QED
      BY <3>1, <3>3 DEF CorridaTipo, Candidatos
  <2>3. \A u \in Utilizadores : aDenunciar[u].c \subseteq Contratos
    BY DEF RenovacaoTipos, LeituraTipo
  <2> QED
    BY <2>1, <2>2, <2>3 DEF RenovacaoTipos, RenovacaoTypeOK
<1> QED
  BY <1>1, RenovacaoInicio, RenovacaoTiposPasso, PTL DEF RenovacaoSpec

-----------------------------------------------------------------------------
(***************************************************************************)
(* How often.  The renewals of a day, or after a denúncia, and the corridas*)
(* that may still make one, are together at most as many as the corridas   *)
(* that were under way at once.                                            *)
(***************************************************************************)
Depois(c, i) == {j \in DoTipo(c, Executada) : j > i}
Juntas == juntas \/ Cardinality(EmCurso) <= 1
NoDia(c, d) ==
  /\ d < hoje => /\ Cardinality(DoDia(c, Executada, d)) <= quantas
                 /\ Cardinality(DoDia(c, Falhou, d)) <= quantas
  /\ d = hoje => /\ Cardinality(DoDia(c, Executada, d)) + Cardinality(Prontas(c)) <= quantas
                 /\ Cardinality(DoDia(c, Falhou, d)) + Cardinality(AFalhar(c)) <= quantas
Denunciado(c, i) ==
  i \in DoTipo(c, "DENUNCIA_REGISTADA") =>
    denuncia[c] /\ Cardinality(Depois(c, i)) + Cardinality(ComLote(c)) <= quantas
Contadas == \A c \in Contratos : \A n \in Nat : NoDia(c, n) /\ Denunciado(c, n)

LEMMA Conta ==
  ASSUME NEW K, NEW L, NEW P \in SUBSET Corridas, NEW Q \in SUBSET Corridas,
         NEW q \in Nat, NEW q2 \in Nat, q <= q2, IsFiniteSet(K),
         Cardinality(K) + Cardinality(P) <= q, Cardinality(Q) <= q2,
         \/ L \subseteq K /\ Q \subseteq P
         \/ \E n, r : L \subseteq K \cup {n} /\ r \in P /\ r \notin Q /\ Q \subseteq P
         \/ L = {}
  PROVE  Cardinality(L) + Cardinality(Q) <= q2
<1>1. /\ IsFiniteSet(P) /\ Cardinality(P) \in Nat /\ IsFiniteSet(Q) /\ Cardinality(Q) \in Nat
      /\ Cardinality(K) \in Nat
  BY CorridasAssumption, FS_Subset, FS_CardinalityType
<1>2. CASE L \subseteq K /\ Q \subseteq P
  <2>1. /\ Cardinality(L) <= Cardinality(K) /\ Cardinality(Q) <= Cardinality(P)
        /\ Cardinality(L) \in Nat
    BY <1>1, <1>2, FS_Subset, FS_CardinalityType
  <2> QED
    BY <1>1, <2>1
<1>3. ASSUME NEW n, NEW r, L \subseteq K \cup {n}, r \in P, r \notin Q, Q \subseteq P
      PROVE  Cardinality(L) + Cardinality(Q) <= q2
  <2>1. /\ IsFiniteSet(K \cup {n}) /\ Cardinality(K \cup {n}) \in Nat
        /\ Cardinality(K \cup {n}) <= Cardinality(K) + 1
    <3>1. IsFiniteSet(K \cup {n})
      BY FS_AddElement
    <3>2. Cardinality(K \cup {n}) = IF n \in K THEN Cardinality(K) ELSE Cardinality(K) + 1
      BY FS_AddElement
    <3>3. Cardinality(K \cup {n}) \in Nat
      BY <3>1, FS_CardinalityType
    <3> QED
      BY <1>1, <3>1, <3>2, <3>3
  <2>2. Cardinality(L) \in Nat /\ Cardinality(L) <= Cardinality(K \cup {n})
    BY <1>3, <2>1, FS_Subset, FS_CardinalityType
  <2>3. IsFiniteSet(P \ {r}) /\ Cardinality(P \ {r}) = Cardinality(P) - 1
    BY <1>1, <1>3, FS_RemoveElement
  <2>4. Q \subseteq P \ {r}
    BY <1>3
  <2>5. Cardinality(Q) <= Cardinality(P \ {r})
    BY <2>3, <2>4, FS_Subset
  <2> QED
    BY <1>1, <2>1, <2>2, <2>3, <2>5
<1>4. CASE L = {}
  <2>1. Cardinality(L) = 0
    BY <1>4, FS_EmptySet
  <2> QED
    BY <1>1, <2>1
<1> QED
  BY <1>2, <1>3, <1>4

LEMMA Cobre ==
  ASSUME NEW E \in SUBSET Corridas, NEW S \in SUBSET E, NEW j \in BOOLEAN, j \/ Cardinality(E) <= 1
  PROVE  Cardinality(S) <= IF j THEN Cardinality(Corridas) ELSE 1
<1>1. /\ IsFiniteSet(E) /\ Cardinality(E) <= Cardinality(Corridas)
      /\ Cardinality(E) \in Nat /\ Cardinality(Corridas) \in Nat
  BY CorridasAssumption, FS_Subset, FS_CardinalityType
<1>2. Cardinality(S) <= Cardinality(E) /\ Cardinality(S) \in Nat
  BY <1>1, FS_Subset, FS_CardinalityType
<1> QED
  BY <1>1, <1>2

LEMMA QuantasMuda ==
  ASSUME RenovacaoTipos, Juntas, [RenovacaoNext]_renovacaoVars
  PROVE  /\ quantas \in Nat /\ quantas' \in Nat /\ quantas <= quantas' /\ Juntas'
         /\ juntas => juntas'
<1>1. EmCurso' \in SUBSET Corridas /\ juntas \in BOOLEAN /\ juntas' \in BOOLEAN
  BY RenovacaoTiposPasso DEF EmCurso, RenovacaoTipos
<1> DEFINE n == Cardinality(Corridas)
           m == Cardinality(EmCurso')
<1>2. m \in Nat /\ n \in Nat /\ m <= n
  BY <1>1, CorridasAssumption, FS_Subset, FS_CardinalityType
<1>3. quantas = IF juntas THEN n ELSE 1
  BY DEF quantas
<1>4. quantas' = IF juntas' THEN n ELSE 1
  BY DEF quantas
<1>5. CASE RenovacaoNext
  <2>1. juntas' = (juntas \/ m > 1)
    BY <1>5 DEF RenovacaoNext, EmCurso
  <2>2. Juntas' <=> juntas' \/ m <= 1
    BY DEF Juntas, EmCurso
  <2> HIDE DEF n, m
  <2>3. (juntas => juntas') /\ Juntas'
    <3>1. m > 1 \/ m <= 1
      BY <1>2
    <3> QED
      BY <2>1, <2>2, <3>1, Zenon
  <2>4. quantas \in Nat /\ quantas' \in Nat
    BY <1>2, <1>3, <1>4
  <2>5. quantas <= quantas'
    <3>1. CASE juntas
      BY <1>2, <1>3, <1>4, <2>3, <3>1
    <3>2. CASE ~juntas /\ juntas'
      <4>1. m > 1
        BY <2>1, <3>2
      <4> QED
        BY <1>2, <1>3, <1>4, <3>2, <4>1
    <3>3. CASE ~juntas /\ ~juntas'
      BY <1>3, <1>4, <3>3
    <3> QED
      BY <3>1, <3>2, <3>3
  <2> QED
    BY <2>3, <2>4, <2>5
<1>6. CASE UNCHANGED renovacaoVars
  <2>1. juntas' = juntas /\ corrida' = corrida
    BY <1>6 DEF renovacaoVars
  <2>2. Juntas'
    BY <2>1 DEF Juntas, EmCurso
  <2>3. quantas = quantas' /\ quantas \in Nat
    BY <1>2, <1>3, <1>4, <2>1
  <2> QED
    BY <2>1, <2>2, <2>3
<1> QED
  BY <1>5, <1>6

LEMMA Pendentes ==
  ASSUME RenovacaoTipos, Juntas, [RenovacaoNext]_renovacaoVars, NEW c
  PROVE  /\ {ComLote(c), Prontas(c), AFalhar(c), ComLote(c)', Prontas(c)', AFalhar(c)'} \subseteq SUBSET Corridas
         /\ Cardinality(ComLote(c)') <= quantas' /\ Cardinality(Prontas(c)') <= quantas'
         /\ Cardinality(AFalhar(c)') <= quantas'
         /\ Prontas(c) \subseteq ComLote(c)
<1>1. /\ ComLote(c)' \in SUBSET EmCurso' /\ Prontas(c)' \in SUBSET EmCurso'
      /\ AFalhar(c)' \in SUBSET EmCurso' /\ EmCurso' \in SUBSET Corridas
  BY DEF ComLote, Prontas, AFalhar, Tem, Pronta, Falha, EmCurso, CorridaLivre
<1>2. juntas' \in BOOLEAN /\ (juntas' \/ Cardinality(EmCurso') <= 1)
  BY RenovacaoTiposPasso, QuantasMuda DEF RenovacaoTipos, Juntas, EmCurso
<1>3. \A S \in SUBSET EmCurso' : Cardinality(S) <= quantas'
  <2>1. quantas' = IF juntas' THEN Cardinality(Corridas) ELSE 1
    BY DEF quantas
  <2> HIDE DEF EmCurso
  <2> QED
    BY <1>1, <1>2, <2>1, Cobre
<1> QED
  BY <1>1, <1>3 DEF ComLote, Prontas, AFalhar, Pronta

LEMMA DoDiaFaz ==
  ASSUME RenovacaoTipos, NEW c \in Contratos, NEW e \in EventoTipo, Acrescenta(c, e), NEW tipo, NEW d
  PROVE  DoDia(c, tipo, d)' \subseteq
           IF e.tipo = tipo /\ e.dia = d THEN DoDia(c, tipo, d) \cup {Len(eventos[c]) + 1}
                                         ELSE DoDia(c, tipo, d)
<1> DEFINE n == Len(eventos[c])
<1>1. /\ DoTipo(c, tipo)' = IF e.tipo = tipo THEN DoTipo(c, tipo) \cup {n + 1} ELSE DoTipo(c, tipo)
      /\ DoTipo(c, tipo) \subseteq 1..n
  BY DoTipoFaz
<1>2. /\ eventos'[c][n + 1] = e /\ \A i \in 1..n : eventos'[c][i] = eventos[c][i]
  BY DEF Acrescenta
<1>3. DoDia(c, tipo, d)' = {i \in DoTipo(c, tipo)' : eventos'[c][i].dia = d}
  BY DEF DoDia
<1> HIDE DEF n
<1>4. DoDia(c, tipo, d)' \subseteq
        IF e.tipo = tipo /\ e.dia = d THEN DoDia(c, tipo, d) \cup {n + 1} ELSE DoDia(c, tipo, d)
  BY <1>1, <1>2, <1>3 DEF DoDia
<1> QED
  BY <1>4 DEF n

LEMMA DoDiaFinito ==
  ASSUME RenovacaoTipos, NEW c \in Contratos, NEW tipo, NEW d
  PROVE  /\ IsFiniteSet(DoTipo(c, tipo)) /\ IsFiniteSet(DoDia(c, tipo, d))
         /\ DoTipo(c, tipo) \subseteq Nat
         /\ d > hoje => DoDia(c, tipo, d) = {}
<1>1. DoTipo(c, tipo) \subseteq 1..Len(eventos[c]) /\ Len(eventos[c]) \in Nat
  BY Indices DEF DoTipo
<1>2. IsFiniteSet(DoTipo(c, tipo)) /\ DoTipo(c, tipo) \subseteq Nat
  <2>1. IsFiniteSet(1..Len(eventos[c]))
    BY <1>1, FS_Interval
  <2>2. IsFiniteSet(DoTipo(c, tipo))
    BY <1>1, <2>1, FS_Subset
  <2>3. 1..Len(eventos[c]) \subseteq Nat
    BY <1>1
  <2> QED
    BY <1>1, <2>2, <2>3
<1>3. DoDia(c, tipo, d) \subseteq DoTipo(c, tipo)
  BY DEF DoDia
<1>4. IsFiniteSet(DoDia(c, tipo, d))
  BY <1>2, <1>3, FS_Subset
<1>5. ASSUME d > hoje PROVE DoDia(c, tipo, d) = {}
  <2> SUFFICES ASSUME NEW i \in DoDia(c, tipo, d) PROVE FALSE
    OBVIOUS
  <2>1. i \in 1..Len(eventos[c]) /\ eventos[c][i].dia = d
    BY <1>1, <1>3 DEF DoDia
  <2>2. eventos[c][i].dia \in Nat /\ eventos[c][i].dia <= hoje /\ hoje \in Nat
    BY <2>1, Indices, DiaNat DEF RenovacaoTipos, EventoTipo
  <2> QED
    BY <1>5, <2>1, <2>2
<1> QED
  BY <1>2, <1>4, <1>5

(* The corridas left and the events counted, after a step.                 *)
LEMMA ContadasPasso ==
  ASSUME RenovacaoTipos, Juntas, Contadas, [RenovacaoNext]_renovacaoVars,
         \A c \in Contratos : Passou(c)
  PROVE  Contadas'
<1> SUFFICES ASSUME NEW c \in Contratos, NEW n \in Nat PROVE NoDia(c, n)' /\ Denunciado(c, n)'
  BY DEF Contadas
<1>1. /\ quantas \in Nat /\ quantas' \in Nat /\ quantas <= quantas'
  BY QuantasMuda
<1>2. /\ {ComLote(c), Prontas(c), AFalhar(c), ComLote(c)', Prontas(c)', AFalhar(c)'} \subseteq SUBSET Corridas
      /\ Cardinality(ComLote(c)') <= quantas' /\ Cardinality(Prontas(c)') <= quantas'
      /\ Cardinality(AFalhar(c)') <= quantas'
      /\ Prontas(c) \subseteq ComLote(c)
  BY Pendentes
<1>3. hoje \in Nat
  BY DiaNat
<1>4. NoDia(c, n) /\ Denunciado(c, n)
  BY DEF Contadas
<1> DEFINE K(tipo) == DoDia(c, tipo, n)
<1>5. \A tipo : IsFiniteSet(K(tipo)) /\ Cardinality(K(tipo)) \in Nat /\ (n > hoje => K(tipo) = {})
  BY DoDiaFinito, FS_CardinalityType
<1>6. IsFiniteSet(Depois(c, n)) /\ Cardinality(Depois(c, n)) \in Nat
  <2>1. IsFiniteSet(DoTipo(c, Executada)) /\ Depois(c, n) \subseteq DoTipo(c, Executada)
    BY DoDiaFinito DEF Depois
  <2> QED
    BY <2>1, FS_Subset, FS_CardinalityType
<1>7. ASSUME NEW Q \in {Prontas(c), AFalhar(c)}
      PROVE  Q \in SUBSET Corridas /\ IsFiniteSet(Q) /\ Cardinality(Q) \in Nat
  BY <1>2, CorridasAssumption, FS_Subset, FS_CardinalityType
<1>8. ASSUME NEW L, NEW P \in SUBSET Corridas, NEW Q \in SUBSET Corridas, NEW M,
             IsFiniteSet(M), Cardinality(M) + Cardinality(P) <= quantas, Cardinality(Q) <= quantas',
             \/ L \subseteq M /\ Q \subseteq P
             \/ \E i, r : L \subseteq M \cup {i} /\ r \in P /\ r \notin Q /\ Q \subseteq P
             \/ L = {}
      PROVE  Cardinality(L) + Cardinality(Q) <= quantas'
  BY <1>1, <1>8, Conta
<1>9. ASSUME NEW L, NEW M, IsFiniteSet(M), Cardinality(M) \in Nat, Cardinality(M) <= quantas, L \subseteq M
      PROVE  Cardinality(L) <= quantas'
  <2>1. Cardinality(L) <= Cardinality(M) /\ Cardinality(L) \in Nat
    BY <1>9, FS_Subset, FS_CardinalityType
  <2> QED
    BY <1>1, <1>9, <2>1
<1>10. ASSUME NEW tipo, NEW P \in {Prontas(c), AFalhar(c)}, n = hoje,
              Cardinality(K(tipo)) + Cardinality(P) <= quantas
       PROVE  Cardinality(K(tipo)) <= quantas
  <2>1. Cardinality(P) \in Nat /\ Cardinality(K(tipo)) \in Nat
    BY <1>5, <1>7
  <2> QED
    BY <1>1, <1>10, <2>1
<1> HIDE DEF K
<1>11. Passou(c)
  OBVIOUS
<1>12. ASSUME NEW Q \in SUBSET Corridas, Cardinality(Q) <= quantas'
       PROVE  Cardinality({}) + Cardinality(Q) <= quantas'
  <2>1. Cardinality({}) = 0 /\ Cardinality(Q) \in Nat
    BY CorridasAssumption, FS_EmptySet, FS_Subset, FS_CardinalityType
  <2> QED
    BY <1>12, <2>1
<1>13. CASE /\ eventos'[c] = eventos[c] /\ hoje' = hoje
            /\ ComLote(c)' \subseteq ComLote(c) \/ ~denuncia[c]
            /\ Prontas(c)' \subseteq Prontas(c) \/ DoDia(c, Executada, hoje) = {}
            /\ AFalhar(c)' \subseteq AFalhar(c) \/ DoDia(c, Falhou, hoje) = {}
  <2>1. \A tipo : DoDia(c, tipo, n)' = K(tipo)
    BY <1>13 DEF DoDia, DoTipo, K
  <2>2. Depois(c, n)' = Depois(c, n) /\ DoTipo(c, "DENUNCIA_REGISTADA")' = DoTipo(c, "DENUNCIA_REGISTADA")
    BY <1>13 DEF Depois, DoTipo
  <2>3. Denunciado(c, n)'
    BY <1>2, <1>4, <1>6, <1>8, <1>13, <2>2 DEF Denunciado, Passou
  <2>4. CASE n < hoje
    <3>1. Cardinality(K(Executada)) <= quantas /\ Cardinality(K(Falhou)) <= quantas
      BY <1>4, <2>4 DEF NoDia, K
    <3>2. Cardinality(K(Executada)) <= quantas' /\ Cardinality(K(Falhou)) <= quantas'
      BY <1>5, <1>9, <3>1
    <3> QED
      BY <1>3, <1>13, <2>1, <2>3, <2>4, <3>2 DEF NoDia
  <2>5. CASE n = hoje
    <3>1. /\ Cardinality(K(Executada)) + Cardinality(Prontas(c)) <= quantas
          /\ Cardinality(K(Falhou)) + Cardinality(AFalhar(c)) <= quantas
      BY <1>4, <2>5 DEF NoDia, K
    <3>2. Cardinality(K(Executada)) + Cardinality(Prontas(c)') <= quantas'
      <4>1. Prontas(c)' \subseteq Prontas(c) \/ K(Executada) = {}
        BY <1>13, <2>5 DEF K
      <4> QED
        BY <1>2, <1>5, <1>8, <3>1, <4>1
    <3>3. Cardinality(K(Falhou)) + Cardinality(AFalhar(c)') <= quantas'
      <4>1. AFalhar(c)' \subseteq AFalhar(c) \/ K(Falhou) = {}
        BY <1>13, <2>5 DEF K
      <4> QED
        BY <1>2, <1>5, <1>8, <3>1, <4>1
    <3> QED
      BY <1>3, <1>13, <2>1, <2>3, <2>5, <3>2, <3>3 DEF NoDia
  <2>6. CASE n > hoje
    BY <1>3, <1>13, <2>3, <2>6 DEF NoDia
  <2> QED
    BY <1>3, <2>3, <2>4, <2>5, <2>6
<1>14. ASSUME NEW e \in EventoTipo, Acrescenta(c, e), e.dia = hoje, hoje' = hoje, Encolhem(c),
              e.tipo = Executada => \E r \in Prontas(c) : ~Tem(r, c)',
              e.tipo = Falhou => \E r \in AFalhar(c) : ~Falha(r, c)',
              e.tipo = "DENUNCIA_REGISTADA" => denuncia'[c]
       PROVE  NoDia(c, n)' /\ Denunciado(c, n)'
  <2> DEFINE fim == Len(eventos[c]) + 1
  <2>1. /\ ComLote(c)' \subseteq ComLote(c) /\ Prontas(c)' \subseteq Prontas(c)
        /\ AFalhar(c)' \subseteq AFalhar(c)
    BY <1>14 DEF Encolhem
  <2>2. /\ e.tipo = Executada => \E r \in Corridas : /\ r \in Prontas(c) /\ r \notin Prontas(c)'
                                                    /\ r \in ComLote(c) /\ r \notin ComLote(c)'
        /\ e.tipo = Falhou => \E r \in Corridas : r \in AFalhar(c) /\ r \notin AFalhar(c)'
    BY <1>2, <1>14 DEF Prontas, ComLote, AFalhar, Pronta
  <2>3. \A tipo : DoDia(c, tipo, n)' \subseteq IF e.tipo = tipo /\ n = hoje THEN K(tipo) \cup {fim}
                                                                            ELSE K(tipo)
    BY <1>14, DoDiaFaz DEF K
  <2>4. \A tipo : /\ DoTipo(c, tipo)' = IF e.tipo = tipo THEN DoTipo(c, tipo) \cup {fim}
                                                         ELSE DoTipo(c, tipo)
                  /\ DoTipo(c, tipo) \subseteq 1..Len(eventos[c])
    BY <1>14, DoTipoFaz
  <2>5. Len(eventos[c]) \in Nat
    BY <1>14 DEF Acrescenta
  <2>6. ASSUME NEW tipo, n < hoje, Cardinality(K(tipo)) <= quantas
        PROVE  Cardinality(DoDia(c, tipo, n)') <= quantas'
    <3>1. DoDia(c, tipo, n)' \subseteq K(tipo)
      BY <1>3, <2>3, <2>6
    <3> QED
      BY <1>5, <1>9, <2>6, <3>1
  <2>7. Denunciado(c, n)'
    <3> SUFFICES ASSUME n \in DoTipo(c, "DENUNCIA_REGISTADA")'
                 PROVE  denuncia'[c] /\ Cardinality(Depois(c, n)') + Cardinality(ComLote(c)') <= quantas'
      BY DEF Denunciado
    <3>1. CASE n \in DoTipo(c, "DENUNCIA_REGISTADA")
      <4>1. denuncia'[c] /\ Cardinality(Depois(c, n)) + Cardinality(ComLote(c)) <= quantas
        BY <1>4, <1>11, <3>1 DEF Denunciado, Passou
      <4>2. Depois(c, n)' \subseteq IF e.tipo = Executada THEN Depois(c, n) \cup {fim} ELSE Depois(c, n)
        BY <2>4 DEF Depois
      <4>3. \/ Depois(c, n)' \subseteq Depois(c, n)
            \/ \E r \in Corridas : /\ Depois(c, n)' \subseteq Depois(c, n) \cup {fim}
                                   /\ r \in ComLote(c) /\ r \notin ComLote(c)'
        BY <2>2, <4>2
      <4> QED
        BY <1>2, <1>6, <1>8, <2>1, <4>1, <4>3
    <3>2. CASE n \notin DoTipo(c, "DENUNCIA_REGISTADA")
      <4>1. e.tipo = "DENUNCIA_REGISTADA" /\ n = fim
        BY <2>4, <3>2
      <4>2. DoTipo(c, Executada)' = DoTipo(c, Executada) /\ DoTipo(c, Executada) \subseteq 1..Len(eventos[c])
        BY <2>4, <4>1 DEF Executada
      <4>3. Depois(c, n)' = {}
        BY <2>5, <4>1, <4>2 DEF Depois
      <4> QED
        BY <1>2, <1>14, <1>12, <4>1, <4>3
    <3> QED
      BY <3>1, <3>2
  <2>8. CASE n < hoje
    <3>1. /\ Cardinality(K(Executada)) <= quantas /\ Cardinality(K(Falhou)) <= quantas
      BY <1>4, <2>8 DEF NoDia, K
    <3>2. /\ Cardinality(DoDia(c, Executada, n)') <= quantas'
          /\ Cardinality(DoDia(c, Falhou, n)') <= quantas'
      BY <2>6, <2>8, <3>1
    <3> QED
      BY <1>3, <1>14, <2>7, <2>8, <3>2 DEF NoDia
  <2>9. CASE n = hoje
    <3>1. /\ Cardinality(K(Executada)) + Cardinality(Prontas(c)) <= quantas
          /\ Cardinality(K(Falhou)) + Cardinality(AFalhar(c)) <= quantas
      BY <1>4, <2>9 DEF NoDia, K
    <3>2. Cardinality(DoDia(c, Executada, n)') + Cardinality(Prontas(c)') <= quantas'
      <4>1. \/ DoDia(c, Executada, n)' \subseteq K(Executada)
            \/ \E r \in Corridas : /\ DoDia(c, Executada, n)' \subseteq K(Executada) \cup {fim}
                                   /\ r \in Prontas(c) /\ r \notin Prontas(c)'
        BY <2>2, <2>3
      <4> QED
        BY <1>2, <1>5, <1>8, <2>1, <3>1, <4>1
    <3>3. Cardinality(DoDia(c, Falhou, n)') + Cardinality(AFalhar(c)') <= quantas'
      <4>1. \/ DoDia(c, Falhou, n)' \subseteq K(Falhou)
            \/ \E r \in Corridas : /\ DoDia(c, Falhou, n)' \subseteq K(Falhou) \cup {fim}
                                   /\ r \in AFalhar(c) /\ r \notin AFalhar(c)'
        BY <2>2, <2>3
      <4> QED
        BY <1>2, <1>5, <1>8, <2>1, <3>1, <4>1
    <3> QED
      BY <1>3, <1>14, <2>7, <2>9, <3>2, <3>3 DEF NoDia
  <2>10. CASE n > hoje
    BY <1>3, <1>14, <2>7, <2>10 DEF NoDia
  <2> QED
    BY <1>3, <2>8, <2>9, <2>10
<1>15. CASE eventos'[c] = eventos[c] /\ hoje' = hoje + 1 /\ corrida' = corrida
  <2>1. \A tipo : DoDia(c, tipo, n)' = K(tipo)
    BY <1>15 DEF DoDia, DoTipo, K
  <2>2. Depois(c, n)' = Depois(c, n) /\ DoTipo(c, "DENUNCIA_REGISTADA")' = DoTipo(c, "DENUNCIA_REGISTADA")
    BY <1>15 DEF Depois, DoTipo
  <2>3. ComLote(c)' = ComLote(c)
    BY <1>15 DEF ComLote, Tem
  <2>4. Denunciado(c, n)'
    BY <1>2, <1>4, <1>6, <1>8, <1>11, <2>2, <2>3 DEF Denunciado, Passou
  <2>5. CASE n <= hoje
    <3>1. Cardinality(K(Executada)) <= quantas /\ Cardinality(K(Falhou)) <= quantas
      BY <1>3, <1>4, <1>10, <2>5 DEF NoDia, K
    <3>2. Cardinality(K(Executada)) <= quantas' /\ Cardinality(K(Falhou)) <= quantas'
      BY <1>5, <1>9, <3>1
    <3>3. n # hoje'
      BY <1>3, <1>15, <2>5
    <3> QED
      BY <2>1, <2>4, <3>2, <3>3 DEF NoDia
  <2>6. CASE n = hoje + 1
    <3>1. K(Executada) = {} /\ K(Falhou) = {} /\ ~(n < hoje')
      BY <1>3, <1>5, <1>15, <2>6
    <3>2. /\ Cardinality({}) + Cardinality(Prontas(c)') <= quantas'
          /\ Cardinality({}) + Cardinality(AFalhar(c)') <= quantas'
      BY <1>2, <1>12
    <3> QED
      BY <2>1, <2>4, <3>1, <3>2 DEF NoDia
  <2>7. CASE n > hoje + 1
    BY <1>3, <1>15, <2>4, <2>7 DEF NoDia
  <2> QED
    BY <1>3, <2>5, <2>6, <2>7
<1> QED
  BY <1>13, <1>14, <1>15, <1>11 DEF Passou

-----------------------------------------------------------------------------
(***************************************************************************)
(* The chain.  A contract that no PATCH changed, while executions do not   *)
(* overlap: its renewals follow one another, each from where the one       *)
(* before ended and to the dataTermo the last one left, which is the only  *)
(* open date; and whoever is about to renew it read that dataTermo.        *)
(***************************************************************************)
Encadeadas(R, s, t) ==
  /\ \A i \in R : s[i].antigo < s[i].novo /\ s[i].novo <= t
  /\ \A i, j \in R : i < j => s[i].novo <= s[j].antigo
  /\ \A i \in R : (\A j \in R : j <= i) => s[i].novo = t
  /\ \A i, j \in R : (i < j /\ \A k \in R : k <= i \/ k >= j) => s[j].antigo = s[i].novo
Cadeia(c) ==
  (~editado[c] /\ ~juntas) =>
    /\ \A r \in Corridas : \A s \in corrida[r].lote : s.c = c => s.termo = termo[c]
    /\ Encadeadas(DoTipo(c, Executada), eventos[c], termo[c])
    /\ \A d \in 0..Maximo : abertas[c][d] = (IF d = termo[c] THEN 1 ELSE 0)
RenovacaoInv == RenovacaoTipos /\ Juntas /\ Contadas /\ \A c \in Contratos : Cadeia(c)

LEMMA Elo ==
  ASSUME NEW n \in Nat, NEW R \in SUBSET (1..n), NEW s, NEW s2, NEW t \in Nat, NEW t2 \in Nat,
         t < t2, \A i \in 1..n : s2[i] = s[i], s2[n + 1].antigo = t, s2[n + 1].novo = t2,
         \A i \in 1..n : s[i].antigo \in Nat /\ s[i].novo \in Nat, Encadeadas(R, s, t)
  PROVE  Encadeadas(R \cup {n + 1}, s2, t2)
<1>1. \A i \in R : i \in Nat /\ i < n + 1 /\ s2[i] = s[i] /\ s[i].antigo \in Nat /\ s[i].novo \in Nat
  <2> SUFFICES ASSUME NEW i \in R
               PROVE  i \in Nat /\ i < n + 1 /\ s2[i] = s[i] /\ s[i].antigo \in Nat /\ s[i].novo \in Nat
    OBVIOUS
  <2>1. i \in 1..n
    OBVIOUS
  <2>2. i \in Nat /\ i < n + 1
    BY <2>1
  <2>3. s2[i] = s[i] /\ s[i].antigo \in Nat /\ s[i].novo \in Nat
    BY <2>1
  <2> QED
    BY <2>2, <2>3
<1>2. \A i \in R \cup {n + 1} : s2[i].antigo < s2[i].novo /\ s2[i].novo <= t2
  BY <1>1 DEF Encadeadas
<1>3. \A i, j \in R \cup {n + 1} : i < j => s2[i].novo <= s2[j].antigo
  BY <1>1 DEF Encadeadas
<1>4. ASSUME NEW i \in R \cup {n + 1}, \A j \in R \cup {n + 1} : j <= i
      PROVE  s2[i].novo = t2
  <2>1. n + 1 <= i
    BY <1>4
  <2> QED
    BY <1>1, <2>1
<1>5. ASSUME NEW i \in R \cup {n + 1}, NEW j \in R \cup {n + 1}, i < j,
             \A k \in R \cup {n + 1} : k <= i \/ k >= j
      PROVE  s2[j].antigo = s2[i].novo
  <2>1. i \in R
    BY <1>1, <1>5
  <2>2. CASE j \in R
    BY <1>1, <1>5, <2>1, <2>2 DEF Encadeadas
  <2>3. CASE j = n + 1
    <3>1. \A k \in R : k <= i
      BY <1>1, <1>5, <2>3
    <3> QED
      BY <1>1, <2>1, <2>3, <3>1 DEF Encadeadas
  <2> QED
    BY <2>2, <2>3
<1> QED
  BY <1>2, <1>3, <1>4, <1>5 DEF Encadeadas

LEMMA CadeiaPasso ==
  ASSUME RenovacaoTipos, Juntas, NEW c \in Contratos, Cadeia(c), Encadeia(c), RenovacaoTipos',
         juntas => juntas'
  PROVE  Cadeia(c)'
<1> SUFFICES ASSUME ~editado'[c], ~juntas'
             PROVE  /\ \A r \in Corridas : \A s \in corrida'[r].lote : s.c = c => s.termo = termo'[c]
                    /\ Encadeadas(DoTipo(c, Executada)', eventos'[c], termo'[c])
                    /\ \A d \in 0..Maximo : abertas'[c][d] = (IF d = termo'[c] THEN 1 ELSE 0)
  BY DEF Cadeia, Encadeadas
<1>1. /\ \A r \in Corridas : \A s \in corrida[r].lote : s.c = c => s.termo = termo[c]
      /\ Encadeadas(DoTipo(c, Executada), eventos[c], termo[c])
      /\ \A d \in 0..Maximo : abertas[c][d] = (IF d = termo[c] THEN 1 ELSE 0)
  BY DEF Cadeia, Encadeia
<1>2. /\ Len(eventos[c]) \in Nat /\ DOMAIN eventos[c] = 1..Len(eventos[c])
      /\ \A i \in 1..Len(eventos[c]) : eventos[c][i] \in EventoTipo
  BY Indices
<1>3. DoTipo(c, Executada) \subseteq 1..Len(eventos[c])
  BY <1>2 DEF DoTipo
<1>4. CASE /\ termo'[c] = termo[c] /\ abertas'[c] = abertas[c]
           /\ \/ eventos'[c] = eventos[c]
              \/ \E e \in EventoTipo : Acrescenta(c, e) /\ e.tipo # Executada
           /\ \A r \in Corridas : \A s \in corrida'[r].lote :
                s.c = c => s \in corrida[r].lote \/ s.termo = termo[c]
  <2>1. DoTipo(c, Executada)' = DoTipo(c, Executada) /\ \A i \in DoTipo(c, Executada) : eventos'[c][i] = eventos[c][i]
    <3>1. CASE eventos'[c] = eventos[c]
      BY <3>1 DEF DoTipo
    <3>2. ASSUME NEW e \in EventoTipo, Acrescenta(c, e), e.tipo # Executada
          PROVE  DoTipo(c, Executada)' = DoTipo(c, Executada)
                 /\ \A i \in DoTipo(c, Executada) : eventos'[c][i] = eventos[c][i]
      BY <1>3, <3>2, DoTipoFaz DEF Acrescenta
    <3> QED
      BY <1>4, <3>1, <3>2
  <2>2. Encadeadas(DoTipo(c, Executada)', eventos'[c], termo'[c])
    BY <1>1, <1>4, <2>1 DEF Encadeadas
  <2>3. \A r \in Corridas : \A s \in corrida'[r].lote : s.c = c => s.termo = termo'[c]
    BY <1>1, <1>4
  <2>4. \A d \in 0..Maximo : abertas'[c][d] = (IF d = termo'[c] THEN 1 ELSE 0)
    BY <1>1, <1>4
  <2> QED
    BY <2>2, <2>3, <2>4
<1>5. ASSUME NEW r \in Corridas, NEW s \in Candidatos, Renova(r, s, c)
      PROVE  /\ \A q \in Corridas : \A x \in corrida'[q].lote : x.c = c => x.termo = termo'[c]
             /\ Encadeadas(DoTipo(c, Executada)', eventos'[c], termo'[c])
             /\ \A d \in 0..Maximo : abertas'[c][d] = (IF d = termo'[c] THEN 1 ELSE 0)
  <2>1. s.termo = termo[c] /\ s.termo \in Nat /\ s.prazo \in Nat /\ s.prazo # 0
    BY <1>1, <1>5, PrazoNat DEF Renova, Candidatos
  <2> DEFINE t == s.termo
             t2 == s.termo + s.prazo
             n == Len(eventos[c])
  <2>2. t \in Nat /\ t2 \in Nat /\ t < t2 /\ termo'[c] = t2 /\ termo[c] = t
    BY <1>5, <2>1 DEF Renova
  <2>3. PICK e \in EventoTipo : Acrescenta(c, e) /\ e.tipo = Executada /\ e.antigo = t /\ e.novo = t2
    BY <1>5 DEF Renova
  <2>4. abertas'[c] = DatasChave(abertas[c], t, t2) /\ abertas[c] \in [0..Maximo -> Nat]
    BY <1>5 DEF Renova, RenovacaoTipos
  <2>5. ~juntas
    OBVIOUS
  <2>6. ASSUME NEW q \in Corridas, NEW x \in corrida'[q].lote, x.c = c PROVE FALSE
    <3>1. q # r /\ corrida'[q] = corrida[q]
      BY <1>5, <2>6 DEF Renova, Tem
    <3>2. /\ q \in EmCurso /\ r \in EmCurso
      BY <1>5, <2>6, <3>1 DEF EmCurso, CorridaLivre, Renova
    <3>3. EmCurso \in SUBSET Corridas /\ Cardinality(EmCurso) <= 1
      BY <2>5 DEF Juntas, EmCurso
    <3>4. IsFiniteSet(EmCurso) /\ Cardinality(EmCurso) \in Nat
      BY <3>3, CorridasAssumption, FS_Subset, FS_CardinalityType
    <3>5. IsFiniteSet(EmCurso \ {r}) /\ Cardinality(EmCurso \ {r}) = Cardinality(EmCurso) - 1
      BY <3>2, <3>4, FS_RemoveElement
    <3>6. q \in EmCurso \ {r}
      BY <3>1, <3>2
    <3>7. Cardinality(EmCurso \ {r}) = 0
      BY <3>3, <3>4, <3>5, FS_CardinalityType
    <3> QED
      BY <3>5, <3>6, <3>7, FS_EmptySet
  <2>7. DoTipo(c, Executada)' = DoTipo(c, Executada) \cup {n + 1}
    BY <2>3, DoTipoFaz
  <2>8. /\ \A i \in 1..n : eventos'[c][i] = eventos[c][i]
        /\ eventos'[c][n + 1].antigo = t /\ eventos'[c][n + 1].novo = t2
    BY <2>3 DEF Acrescenta
  <2>9. \A i \in 1..n : eventos[c][i].antigo \in Nat /\ eventos[c][i].novo \in Nat
    BY <1>2 DEF EventoTipo
  <2>10. n \in Nat /\ DoTipo(c, Executada) \in SUBSET (1..n)
    BY <1>2, <1>3
  <2>11. \A d \in 0..Maximo : abertas'[c][d] = (IF d = t2 THEN 1 ELSE 0)
    <3> HIDE DEF t, t2
    <3>1. \A d \in 0..Maximo : abertas'[c][d] =
            IF d = t2 THEN abertas[c][d] + 1 ELSE IF d = t THEN 0 ELSE abertas[c][d]
      BY <2>2, <2>4, DatasFaz
    <3> QED
      BY <1>1, <2>2, <3>1
  <2> HIDE DEF t, t2, n
  <2>12. Encadeadas(DoTipo(c, Executada) \cup {n + 1}, eventos'[c], t2)
    BY <1>1, <2>2, <2>8, <2>9, <2>10, Elo
  <2> QED
    BY <2>2, <2>6, <2>7, <2>11, <2>12
<1> QED
  BY <1>4, <1>5 DEF Encadeia

LEMMA RenovacaoInvInicio == RenovacaoInit => RenovacaoInv
<1> SUFFICES ASSUME RenovacaoInit PROVE RenovacaoInv
  OBVIOUS
<1>1. RenovacaoTipos
  BY RenovacaoInicio
<1>2. /\ hoje = 0 /\ juntas = FALSE /\ \A c \in Contratos : eventos[c] = <<>> /\ Len(eventos[c]) = 0
      /\ \A r \in Corridas : corrida[r] = CorridaLivre
  BY EmptySeq DEF RenovacaoInit
<1>3. Cardinality({}) = 0
  BY FS_EmptySet
<1>4. EmCurso = {}
  BY <1>2 DEF EmCurso
<1>5. \A c \in Contratos : \A tipo : DoTipo(c, tipo) = {}
  BY <1>1, <1>2, Indices DEF DoTipo
<1>6. \A c : ComLote(c) = {} /\ Prontas(c) = {} /\ AFalhar(c) = {}
  BY <1>2 DEF ComLote, Prontas, AFalhar, Tem, Pronta, Falha, CorridaLivre
<1>7. quantas = 1
  BY <1>2 DEF quantas
<1>8. Juntas
  BY <1>3, <1>4 DEF Juntas
<1>9. Contadas
  <2>1. \A c \in Contratos : \A n : DoDia(c, Executada, n) = {} /\ DoDia(c, Falhou, n) = {}
    BY <1>5 DEF DoDia
  <2>2. ASSUME NEW c \in Contratos, NEW n \in Nat PROVE NoDia(c, n) /\ Denunciado(c, n)
    <3>1. NoDia(c, n)
      <4>1. /\ Cardinality(DoDia(c, Executada, n)) = 0 /\ Cardinality(DoDia(c, Falhou, n)) = 0
            /\ Cardinality(Prontas(c)) = 0 /\ Cardinality(AFalhar(c)) = 0
        BY <1>3, <1>6, <2>1
      <4> QED
        BY <1>7, <4>1 DEF NoDia
    <3>2. Denunciado(c, n)
      BY <1>5 DEF Denunciado
    <3> QED
      BY <3>1, <3>2
  <2> QED
    BY <2>2 DEF Contadas
<1>10. ASSUME NEW c \in Contratos PROVE Cadeia(c)
  <2>1. \A r \in Corridas : corrida[r].lote = {}
    BY <1>2 DEF CorridaLivre
  <2>2. \A d \in 0..Maximo : abertas[c][d] = (IF d = termo[c] THEN 1 ELSE 0)
    BY DEF RenovacaoInit
  <2> QED
    BY <1>5, <2>1, <2>2 DEF Cadeia, Encadeadas
<1> QED
  BY <1>1, <1>8, <1>9, <1>10 DEF RenovacaoInv

LEMMA RenovacaoInvPasso == RenovacaoInv /\ [RenovacaoNext]_renovacaoVars => RenovacaoInv'
<1> SUFFICES ASSUME RenovacaoInv, [RenovacaoNext]_renovacaoVars PROVE RenovacaoInv'
  OBVIOUS
<1>1. RenovacaoTipos /\ Juntas /\ Contadas /\ \A c \in Contratos : Cadeia(c)
  BY DEF RenovacaoInv
<1>2. RenovacaoTipos' /\ Juntas' /\ (juntas => juntas')
  BY <1>1, RenovacaoTiposPasso, QuantasMuda
<1>3. \A c \in Contratos : Passou(c) /\ Encadeia(c)
  <2>1. CASE RenovacaoNext
    BY <1>1, <2>1, RenovacaoPasso
  <2>2. CASE UNCHANGED renovacaoVars
    <3>1. /\ eventos' = eventos /\ hoje' = hoje /\ denuncia' = denuncia /\ corrida' = corrida
          /\ termo' = termo /\ abertas' = abertas /\ editado' = editado
      BY <2>2 DEF renovacaoVars
    <3>2. \A c : ComLote(c)' = ComLote(c) /\ Prontas(c)' = Prontas(c) /\ AFalhar(c)' = AFalhar(c)
      BY <3>1 DEF ComLote, Prontas, AFalhar, Tem, Pronta, Falha
    <3> QED
      BY <3>1, <3>2 DEF Passou, Encadeia
  <2> QED
    BY <2>1, <2>2
<1>4. Contadas'
  BY <1>1, <1>3, ContadasPasso
<1>5. ASSUME NEW c \in Contratos PROVE Cadeia(c)'
  BY <1>1, <1>2, <1>3, CadeiaPasso
<1> QED
  BY <1>2, <1>4, <1>5 DEF RenovacaoInv

LEMMA RenovacaoInvCorrect == RenovacaoSpec => []RenovacaoInv
BY RenovacaoInvInicio, RenovacaoInvPasso, PTL DEF RenovacaoSpec

(* A denúncia stops renewals, but for the executions that had read the     *)
(* contract before it: one, or those that overlapped.                      *)
THEOREM DenunciaTravaCorrect == RenovacaoSpec => []DenunciaTrava
<1>1. RenovacaoInv => DenunciaTrava
  <2> SUFFICES ASSUME RenovacaoInv, NEW c \in Contratos, NEW i \in DoTipo(c, "DENUNCIA_REGISTADA")
               PROVE  Cardinality({j \in DoTipo(c, "RENOVACAO_EXECUTADA") : j > i}) <= quantas
    BY DEF DenunciaTrava
  <2>1. i \in Nat /\ RenovacaoTipos /\ Denunciado(c, i) /\ IsFiniteSet(DoTipo(c, Executada))
    BY DoDiaFinito DEF RenovacaoInv, Contadas
  <2>2. Depois(c, i) \subseteq DoTipo(c, Executada) /\ ComLote(c) \subseteq Corridas
    BY DEF Depois, ComLote
  <2>3. IsFiniteSet(Depois(c, i)) /\ IsFiniteSet(ComLote(c))
    BY <2>1, <2>2, CorridasAssumption, FS_Subset
  <2>4. Cardinality(Depois(c, i)) \in Nat /\ Cardinality(ComLote(c)) \in Nat
    BY <2>3, FS_CardinalityType
  <2>5. Cardinality(Depois(c, i)) + Cardinality(ComLote(c)) <= quantas
    BY <2>1 DEF Denunciado
  <2>6. quantas \in Nat
    BY CorridasAssumption, FS_CardinalityType DEF quantas
  <2>7. Cardinality(Depois(c, i)) <= quantas
    BY <2>4, <2>5, <2>6
  <2> QED
    BY <2>7 DEF Depois, Executada
<1> QED
  BY <1>1, RenovacaoInvCorrect, PTL

(* Timeline, row and key dates of a contract agree, while no PATCH goes    *)
(* around the engine and executions do not overlap.                        *)
THEOREM TermoCoerenteCorrect == RenovacaoSpec => []TermoCoerente
<1>1. RenovacaoInv => TermoCoerente
  BY DEF RenovacaoInv, TermoCoerente, Cadeia, Encadeadas, Executada
<1> QED
  BY <1>1, RenovacaoInvCorrect, PTL

(* Renewals of a day, failures of a day and renewals of a term are counted *)
(* by the corridas that overlapped, and by one when none did.              *)
THEOREM RenovaUmaVezCorrect == RenovacaoSpec => []RenovaUmaVez
<1>1. RenovacaoInv => RenovaUmaVez
  <2> SUFFICES ASSUME RenovacaoInv, NEW c \in Contratos
               PROVE  /\ \A tipo \in {"RENOVACAO_EXECUTADA", "RENOVACAO_FALHOU"} :
                           \A i \in DoTipo(c, tipo) :
                             Cardinality({j \in DoTipo(c, tipo) : eventos[c][i].dia = eventos[c][j].dia}) <= quantas
                      /\ (~editado[c] /\ ~juntas) => \A i \in DoTipo(c, "RENOVACAO_EXECUTADA") :
                           Cardinality({j \in DoTipo(c, "RENOVACAO_EXECUTADA") :
                                          eventos[c][i].antigo = eventos[c][j].antigo}) = 1
    BY DEF RenovaUmaVez
  <2>1. RenovacaoTipos /\ Cadeia(c) /\ \A n \in Nat : NoDia(c, n)
    BY DEF RenovacaoInv, Contadas
  <2>2. ASSUME NEW tipo \in {Executada, Falhou}, NEW i \in DoTipo(c, tipo)
        PROVE  Cardinality({j \in DoTipo(c, tipo) : eventos[c][i].dia = eventos[c][j].dia}) <= quantas
    <3> DEFINE d == eventos[c][i].dia
    <3>1. i \in 1..Len(eventos[c])
      BY <2>1, Indices DEF DoTipo
    <3>2. d \in Nat /\ hoje \in Nat /\ d <= hoje
      BY <2>1, <3>1, Indices, DiaNat DEF RenovacaoTipos, EventoTipo
    <3>3. {j \in DoTipo(c, tipo) : eventos[c][i].dia = eventos[c][j].dia} = DoDia(c, tipo, d)
      BY DEF DoDia
    <3> HIDE DEF d
    <3>4. /\ Prontas(c) \subseteq Corridas /\ AFalhar(c) \subseteq Corridas
          /\ IsFiniteSet(DoDia(c, tipo, d))
      BY <2>1, DoDiaFinito DEF Prontas, AFalhar
    <3>5. IsFiniteSet(Prontas(c)) /\ IsFiniteSet(AFalhar(c))
      BY <3>4, CorridasAssumption, FS_Subset
    <3>6. /\ Cardinality(Prontas(c)) \in Nat /\ Cardinality(AFalhar(c)) \in Nat
          /\ Cardinality(DoDia(c, tipo, d)) \in Nat
      BY <3>4, <3>5, FS_CardinalityType
    <3>7. NoDia(c, d)
      BY <2>1, <3>2
    <3>8. quantas \in Nat
      BY CorridasAssumption, FS_CardinalityType DEF quantas
    <3>9. Cardinality(DoDia(c, tipo, d)) <= quantas
      <4>1. CASE d < hoje
        BY <2>2, <3>7, <4>1 DEF NoDia
      <4>2. CASE d = hoje
        BY <2>2, <3>6, <3>7, <3>8, <4>2 DEF NoDia
      <4> QED
        BY <3>2, <4>1, <4>2
    <3> QED
      BY <3>3, <3>9
  <2>3. ASSUME ~editado[c], ~juntas, NEW i \in DoTipo(c, Executada)
        PROVE  Cardinality({j \in DoTipo(c, Executada) : eventos[c][i].antigo = eventos[c][j].antigo}) = 1
    <3> DEFINE R == DoTipo(c, Executada)
    <3>1. Encadeadas(R, eventos[c], termo[c])
      BY <2>1, <2>3 DEF Cadeia
    <3>2. \A j \in R : j \in Nat /\ eventos[c][j].antigo \in Nat /\ eventos[c][j].novo \in Nat
      BY <2>1, DoDiaFinito, Indices DEF DoTipo, EventoTipo
    <3>3. i \in R
      OBVIOUS
    <3> HIDE DEF R
    <3>4. ASSUME NEW j \in R, eventos[c][i].antigo = eventos[c][j].antigo PROVE j = i
      <4>1. /\ i < j => eventos[c][i].antigo < eventos[c][j].antigo
            /\ j < i => eventos[c][j].antigo < eventos[c][i].antigo
        BY <3>1, <3>2, <3>3 DEF Encadeadas
      <4> QED
        BY <3>2, <3>3, <3>4, <4>1
    <3>5. {j \in R : eventos[c][i].antigo = eventos[c][j].antigo} = {i}
      BY <3>3, <3>4
    <3> QED
      BY <3>5, FS_Singleton DEF R
  <2> QED
    BY <2>2, <2>3 DEF Executada, Falhou
<1> QED
  BY <1>1, RenovacaoInvCorrect, PTL
=============================================================================
