---------------------------- MODULE Avisos_proofs ----------------------------
(***************************************************************************)
(* Proofs about what warns the users: the queue of notifications, for any  *)
(* channels, batch, number of ticks alive and bounds (NotificationDelivery),*)
(* and the daily alerts over the acts and key dates of a contract, for any *)
(* rules, acts, key dates, executions, days and windows (Alertas).  The    *)
(* two share no variable: each theorem names its own specification.        *)
(* Liveness (SaiDaFila) stays with TLC.                                    *)
(***************************************************************************)
EXTENDS NotificationDelivery, Alertas, FiniteSetTheorems, TLAPS

(***************************************************************************)
(* The queue of notifications.                                             *)
(***************************************************************************)
Pontos == {"livre", "ler", "entregar", "marcar", "falhar"}
TickTipo == [pc : Pontos, lote : SUBSET Notificacoes]

LEMMA LivreTipo == Livre \in TickTipo /\ Livre.pc = "livre" /\ Livre.lote = {}
BY DEF Livre, TickTipo, Pontos

(* Sets that differ by one element at most.                                *)
LEMMA CardUm ==
  ASSUME NEW S, NEW T, NEW w, IsFiniteSet(S), S \ {w} = T \ {w}
  PROVE  /\ IsFiniteSet(T)
         /\ Cardinality(S) \in Nat /\ Cardinality(T) \in Nat
         /\ w \in S /\ w \in T => Cardinality(T) = Cardinality(S)
         /\ w \notin S /\ w \notin T => Cardinality(T) = Cardinality(S)
         /\ w \notin S /\ w \in T => Cardinality(T) = Cardinality(S) + 1
         /\ w \in S /\ w \notin T => Cardinality(T) = Cardinality(S) - 1
<1>1. CASE (w \in S /\ w \in T) \/ (w \notin S /\ w \notin T)
  <2>1. S = T
    BY <1>1
  <2> QED
    BY <1>1, <2>1, FS_CardinalityType
<1>2. CASE w \notin S /\ w \in T
  <2>1. T = S \cup {w}
    BY <1>2
  <2> QED
    BY <1>2, <2>1, FS_AddElement, FS_CardinalityType
<1>3. CASE w \in S /\ w \notin T
  <2>1. T = S \ {w}
    BY <1>3
  <2> QED
    BY <1>3, <2>1, FS_RemoveElement, FS_CardinalityType
<1> QED
  BY <1>1, <1>2, <1>3

-----------------------------------------------------------------------------
(* For a notification n: the tick that has handed it over or could not,    *)
(* and is about to say so; those that may still hand it over while it is   *)
(* PENDING; and those that will, because they read it.                     *)
Servindo(w, n) == tick[w].pc \in {"marcar", "falhar"} /\ Corrente(w, n)
PorServir(n) == {w \in Workers : tick[w] # Livre /\ ~Servindo(w, n)}
ComEla(n) == {w \in Workers : n \in tick[w].lote /\ ~Servindo(w, n)}
Levado == IF inFlight THEN 1 ELSE 0

(* Each tick alive holds the lease, or lost it when another took it over.  *)
TicksContados == Cardinality(Activos) <= Levado + roubos
(* A row that is PENDING was handed over only by ticks that failed since,  *)
(* or that are about to write it; the others may each hand it over again.  *)
PendenteContado ==
  \A n \in Notificacoes : status[n] = "PENDING" =>
    envios[n] + Cardinality(PorServir(n)) <= Levado + roubos + avarias
(* No tick reads a row that is not PENDING.                                *)
ServidaContada ==
  \A n \in Notificacoes : status[n] # "PENDING" =>
    envios[n] + Cardinality(ComEla(n)) <= 1 + roubos + avarias
Criada ==
  /\ \A n \in Notificacoes : n > criadas => status[n] = "nenhum" /\ envios[n] = 0
  /\ \A w \in Workers : \A n \in tick[w].lote : n <= criadas
Conta == TicksContados /\ PendenteContado /\ ServidaContada /\ Criada

LEMMA Finitos ==
  /\ IsFiniteSet(Activos) /\ Cardinality(Activos) \in Nat
  /\ \A n : IsFiniteSet(PorServir(n)) /\ Cardinality(PorServir(n)) \in Nat
  /\ \A n : IsFiniteSet(ComEla(n)) /\ Cardinality(ComEla(n)) \in Nat
<1>1. /\ Activos \in SUBSET Workers
      /\ \A n : PorServir(n) \in SUBSET Workers /\ ComEla(n) \in SUBSET Workers
  BY DEF Activos, PorServir, ComEla
<1> QED
  BY <1>1, WorkersAssumption, FS_Subset, FS_CardinalityType

LEMMA ComElaActivos ==
  ASSUME TypeOK, NEW n
  PROVE  /\ ComEla(n) \subseteq PorServir(n) /\ PorServir(n) \subseteq Activos
         /\ Cardinality(ComEla(n)) <= Cardinality(PorServir(n))
         /\ Cardinality(PorServir(n)) <= Cardinality(Activos)
<1>1. ComEla(n) \subseteq PorServir(n) /\ PorServir(n) \subseteq Activos
  BY LivreTipo DEF ComEla, PorServir, Activos
<1> QED
  BY <1>1, Finitos, FS_Subset

(* The numbers of the counts below: a and b are ticks, l and s the lease   *)
(* and its losses, before and after a step.                                *)
LEMMA ContasDosTicks ==
  ASSUME NEW a \in Nat, NEW b \in Nat, NEW s \in Nat, NEW ss \in Nat,
         NEW l \in Nat, NEW ll \in Nat, a <= l + s, l <= 1,
         \/ b = a /\ ll = l /\ ss = s
         \/ b = a - 1 /\ ss = s
         \/ b <= a + 1 /\ ll + ss = l + s + 1
  PROVE  b <= ll + ss
OBVIOUS

(* A tick that moves changes these sets by itself at most.                 *)
LEMMA Muda ==
  ASSUME TypeOK, NEW w \in Workers, NEW r, tick' = [tick EXCEPT ![w] = r]
  PROVE  /\ tick'[w] = r /\ \A v \in Workers : v # w => tick'[v] = tick[v]
         /\ Activos \ {w} = Activos' \ {w}
         /\ \A n : PorServir(n) \ {w} = PorServir(n)' \ {w}
         /\ \A n : ComEla(n) \ {w} = ComEla(n)' \ {w}
<1>1. tick'[w] = r /\ \A v \in Workers : v # w => tick'[v] = tick[v]
  BY DEF TypeOK
<1>2. \A n : \A v \in Workers : v # w => (Servindo(v, n)' <=> Servindo(v, n))
  BY <1>1 DEF Servindo, Corrente
<1> QED
  BY <1>1, <1>2 DEF Activos, PorServir, ComEla

LEMMA UmaCorrente ==
  ASSUME TypeOK, NEW w \in Workers, NEW n \in Notificacoes, NEW m \in Notificacoes,
         Corrente(w, n), Corrente(w, m)
  PROVE  m = n
BY LimitesAssumption DEF Corrente, Notificacoes

-----------------------------------------------------------------------------
LEMMA TypeInicio == Init => TypeOK
<1> SUFFICES ASSUME Init PROVE TypeOK
  OBVIOUS
<1>1. tick \in [Workers -> TickTipo]
  BY LivreTipo DEF Init
<1>2. /\ criadas \in 0..MaxFila /\ idade \in 0..STALE
      /\ roubos \in 0..MaxRoubos /\ avarias \in 0..MaxAvarias
  BY LimitesAssumption, StaleAssumption DEF Init
<1>3. /\ canal \in [Notificacoes -> Canais \cup {"nenhum"}]
      /\ status \in [Notificacoes -> Estados]
      /\ envios \in [Notificacoes -> Nat] /\ perdidos \subseteq Notificacoes
      /\ inFlight \in BOOLEAN
  BY DEF Init, Estados
<1> QED
  BY <1>1, <1>2, <1>3 DEF TypeOK, TickTipo, Pontos

LEMMA TypePasso == TypeOK /\ [Next]_vars => TypeOK'
<1> USE LimitesAssumption, StaleAssumption
<1> SUFFICES ASSUME TypeOK, [Next]_vars PROVE TypeOK'
  OBVIOUS
<1>0. /\ tick \in [Workers -> TickTipo] /\ Livre \in TickTipo
      /\ status \in [Notificacoes -> Estados] /\ envios \in [Notificacoes -> Nat]
      /\ canal \in [Notificacoes -> Canais \cup {"nenhum"}] /\ perdidos \subseteq Notificacoes
  BY LivreTipo DEF TypeOK, TickTipo, Pontos
<1>1. ASSUME NEW w \in Workers, NEW r \in TickTipo, tick' = [tick EXCEPT ![w] = r]
      PROVE  tick' \in [Workers -> TickTipo]
  BY <1>0, <1>1
<1>2. ASSUME NEW w \in Workers, NEW x \in Pontos, Passa(w, x)
      PROVE  tick' \in [Workers -> TickTipo]
  <2>1. [pc |-> x, lote |-> tick[w].lote] \in TickTipo
    BY <1>0 DEF TickTipo
  <2> QED
    BY <1>1, <1>2, <2>1 DEF Passa
<1>3. ASSUME NEW w \in Workers, Finally(w)
      PROVE  /\ tick' \in [Workers -> TickTipo]
             /\ inFlight' \in BOOLEAN /\ idade' \in 0..STALE /\ roubos' = roubos
  <2>1. 0 \in 0..STALE
    OBVIOUS
  <2> QED
    BY <1>0, <1>1, <1>3, <2>1 DEF Finally
<1>4. ASSUME NEW w \in Workers, NEW n, Seguinte(w, n)
      PROVE  /\ tick' \in [Workers -> TickTipo]
             /\ inFlight' \in BOOLEAN /\ idade' \in 0..STALE /\ roubos' = roubos
  <2> DEFINE r == [pc |-> "entregar", lote |-> tick[w].lote \ {n}]
  <2>1. r \in TickTipo
    BY <1>0 DEF TickTipo, Pontos
  <2>2. Finally(w) \/ (tick' = [tick EXCEPT ![w] = r] /\ UNCHANGED lease)
    BY <1>4 DEF Seguinte
  <2> HIDE DEF r
  <2> QED
    BY <1>1, <1>3, <2>1, <2>2 DEF TypeOK, lease
<1>5. ASSUME tick' \in [Workers -> TickTipo],
             inFlight' \in BOOLEAN, idade' \in 0..STALE, roubos' \in 0..MaxRoubos,
             status' \in [Notificacoes -> Estados], envios' \in [Notificacoes -> Nat],
             criadas' = criadas, canal' = canal, perdidos' \subseteq Notificacoes,
             avarias' = avarias \/ Avaria
      PROVE  TypeOK'
  <2>1. avarias' \in 0..MaxAvarias
    BY <1>5 DEF TypeOK, Avaria
  <2> QED
    BY <1>5, <2>1 DEF TypeOK, TickTipo, Pontos
<1>6. CASE UNCHANGED vars
  BY <1>6 DEF vars, linhas, lease, TypeOK
<1>7. CASE Create
  <2>1. criadas + 1 \in Notificacoes
    BY <1>7 DEF Create, TypeOK, Notificacoes
  <2>2. criadas' \in 0..MaxFila
    BY <1>7 DEF Create, TypeOK
  <2>3. /\ canal' \in [Notificacoes -> Canais \cup {"nenhum"}]
        /\ status' \in [Notificacoes -> Estados]
    BY <1>0, <1>7, <2>1 DEF Create, Estados
  <2> QED
    BY <1>7, <2>2, <2>3 DEF Create, lease, TypeOK
<1>8. ASSUME NEW n \in Notificacoes, MarkRead(n)
      PROVE  TypeOK'
  <2>1. status' \in [Notificacoes -> Estados]
    BY <1>0, <1>8 DEF MarkRead, Estados
  <2> QED
    BY <1>8, <2>1 DEF MarkRead, lease, TypeOK
<1>9. CASE TickRecusado
  BY <1>9 DEF TickRecusado, ocupado, velha, linhas, TypeOK
<1>10. ASSUME NEW w \in Workers, Tick(w)
       PROVE  TypeOK'
  <2>1. [pc |-> "ler", lote |-> {}] \in TickTipo
    BY DEF TickTipo, Pontos
  <2>2. roubos' \in 0..MaxRoubos
    BY <1>10 DEF Tick, TypeOK
  <2> QED
    BY <1>0, <1>1, <1>5, <1>10, <2>1, <2>2 DEF Tick, linhas
<1>11. ASSUME NEW w \in Workers, LerLote(w)
       PROVE  TypeOK'
  <2>1. [pc |-> "entregar", lote |-> primeiras] \in TickTipo
    BY DEF TickTipo, Pontos, primeiras, pendentes
  <2>2. tick' \in [Workers -> TickTipo]
    BY <1>1, <1>11, <2>1 DEF LerLote
  <2> QED
    BY <1>0, <1>5, <1>11, <2>2 DEF LerLote, linhas, lease, TypeOK
<1>12. ASSUME NEW w \in Workers, SemPendentes(w) \/ LerFalha(w) \/ LoteRebenta(w)
       PROVE  TypeOK'
  <2>1. Finally(w) /\ UNCHANGED linhas /\ (avarias' = avarias \/ Avaria)
    BY <1>12 DEF SemPendentes, LerFalha, LoteRebenta
  <2> QED
    BY <1>0, <1>3, <1>5, <2>1 DEF linhas, TypeOK
<1>13. ASSUME NEW w \in Workers, NEW n \in Notificacoes,
              Entregar(w, n) \/ EmailPerdido(w, n)
       PROVE  TypeOK'
  <2>1. envios' \in [Notificacoes -> Nat]
    BY <1>0, <1>13 DEF Entregar, EmailPerdido
  <2>2. tick' \in [Workers -> TickTipo]
    BY <1>2, <1>13 DEF Entregar, EmailPerdido, Pontos
  <2>3. perdidos' \subseteq Notificacoes
    BY <1>0, <1>13 DEF Entregar, EmailPerdido
  <2> QED
    BY <1>0, <1>5, <1>13, <2>1, <2>2, <2>3 DEF Entregar, EmailPerdido, lease, TypeOK
<1>14. ASSUME NEW w \in Workers, MarcarFalha(w) \/ \E n \in Notificacoes : EmailFalha(w, n)
       PROVE  TypeOK'
  <2>1. Passa(w, "falhar") /\ UNCHANGED <<linhas, lease>> /\ (avarias' = avarias \/ Avaria)
    BY <1>14 DEF MarcarFalha, EmailFalha, aoFalhar
  <2>2. tick' \in [Workers -> TickTipo]
    BY <1>2, <2>1 DEF Pontos
  <2> QED
    BY <1>0, <1>5, <2>1, <2>2 DEF linhas, lease, TypeOK
<1>15. ASSUME NEW w \in Workers, NEW n \in Notificacoes,
              NaoLigado(w, n) \/ MarcarEnviada(w, n) \/ MarcarFalhada(w, n)
       PROVE  TypeOK'
  <2>1. Seguinte(w, n) /\ UNCHANGED <<criadas, canal, envios, perdidos, avarias>>
    BY <1>15 DEF NaoLigado, MarcarEnviada, MarcarFalhada, linhas
  <2>2. status' \in [Notificacoes -> Estados]
    BY <1>0, <1>15 DEF NaoLigado, MarcarEnviada, MarcarFalhada, linhas, Estados
  <2> QED
    BY <1>0, <1>4, <1>5, <2>1, <2>2 DEF TypeOK
<1>16. CASE Queda
  <2>1. tick' \in [Workers -> TickTipo]
    BY <1>0, <1>16 DEF Queda
  <2>2. 0 \in 0..STALE
    OBVIOUS
  <2> QED
    BY <1>0, <1>5, <1>16, <2>1, <2>2 DEF Queda, linhas, TypeOK
<1> QED
  BY <1>6, <1>7, <1>8, <1>9, <1>10, <1>11, <1>12, <1>13, <1>14, <1>15, <1>16
  DEF Next, Cron, Servir

(* Type correctness, for every value of the constants.                     *)
THEOREM TypeCorrect == Spec => []TypeOK
BY TypeInicio, TypePasso, PTL DEF Spec

-----------------------------------------------------------------------------
LEMMA ContaInicio == Init => Conta
<1> SUFFICES ASSUME Init PROVE Conta
  OBVIOUS
<1>1. /\ Activos = {}
      /\ \A n \in Notificacoes : ComEla(n) = {}
  BY LivreTipo DEF Init, Activos, ComEla
<1>2. Cardinality({}) = 0
  BY FS_EmptySet
<1>3. TicksContados
  BY <1>1, <1>2 DEF Init, TicksContados, Levado
<1>4. PendenteContado
  BY DEF Init, PendenteContado
<1>5. ServidaContada
  BY <1>1, <1>2 DEF Init, ServidaContada
<1>6. Criada
  BY LivreTipo DEF Init, Criada
<1> QED
  BY <1>3, <1>4, <1>5, <1>6 DEF Conta

LEMMA ContaPasso == TypeOK /\ Conta /\ [Next]_vars => Conta'
<1> USE LimitesAssumption, StaleAssumption
<1> SUFFICES ASSUME TypeOK, Conta, [Next]_vars PROVE Conta'
  OBVIOUS
<1>0. /\ TypeOK' /\ TicksContados /\ PendenteContado /\ ServidaContada /\ Criada
      /\ Levado \in 0..1 /\ roubos \in Nat /\ avarias \in Nat /\ inFlight \in BOOLEAN
      /\ \A n \in Notificacoes : envios[n] \in Nat
      /\ tick \in [Workers -> TickTipo]
      /\ Cardinality(Activos) \in Nat /\ Cardinality(Activos') \in Nat
      /\ \A n \in Notificacoes :
           /\ Cardinality(PorServir(n)) \in Nat /\ Cardinality(PorServir(n)') \in Nat
           /\ Cardinality(ComEla(n)) \in Nat /\ Cardinality(ComEla(n)') \in Nat
           /\ Cardinality(ComEla(n)) <= Cardinality(PorServir(n))
           /\ Cardinality(PorServir(n)) <= Cardinality(Activos)
           /\ Cardinality(ComEla(n)') <= Cardinality(PorServir(n)')
           /\ Cardinality(PorServir(n)') <= Cardinality(Activos')
  <2>1. TypeOK'
    BY TypePasso
  <2>2. /\ Cardinality(Activos) \in Nat
        /\ \A n : Cardinality(PorServir(n)) \in Nat /\ Cardinality(ComEla(n)) \in Nat
    BY Finitos
  <2>3. /\ Cardinality(Activos') \in Nat
        /\ \A n : Cardinality(PorServir(n)') \in Nat /\ Cardinality(ComEla(n)') \in Nat
    <3>1. /\ Activos' \in SUBSET Workers
          /\ \A n : PorServir(n)' \in SUBSET Workers /\ ComEla(n)' \in SUBSET Workers
      BY DEF Activos, PorServir, ComEla
    <3> QED
      BY <3>1, WorkersAssumption, FS_Subset, FS_CardinalityType
  <2>4. \A n : /\ Cardinality(ComEla(n)) <= Cardinality(PorServir(n))
               /\ Cardinality(PorServir(n)) <= Cardinality(Activos)
    BY ComElaActivos
  <2>5. \A n : /\ Cardinality(ComEla(n)') <= Cardinality(PorServir(n)')
               /\ Cardinality(PorServir(n)') <= Cardinality(Activos')
    <3>1. Activos' \in SUBSET Workers /\ \A n : PorServir(n)' \in SUBSET Workers
      BY DEF Activos, PorServir
    <3>2. \A n : ComEla(n)' \subseteq PorServir(n)' /\ PorServir(n)' \subseteq Activos'
      BY LivreTipo DEF ComEla, PorServir, Activos
    <3> QED
      BY <3>1, <3>2, WorkersAssumption, FS_Subset
  <2>6. tick \in [Workers -> TickTipo]
    BY DEF TypeOK, TickTipo, Pontos
  <2>7. /\ Levado \in 0..1 /\ roubos \in Nat /\ avarias \in Nat /\ inFlight \in BOOLEAN
        /\ \A n \in Notificacoes : envios[n] \in Nat
    BY DEF TypeOK, Levado
  <2> QED
    BY <2>1, <2>2, <2>3, <2>4, <2>5, <2>6, <2>7 DEF Conta
(* A step of one tick, that takes nothing from it and leaves no new row.   *)
<1>1. ASSUME NEW w \in Workers, NEW r, tick' = [tick EXCEPT ![w] = r]
      PROVE  /\ tick'[w] = r /\ \A v \in Workers : v # w => tick'[v] = tick[v]
             /\ w \in Activos /\ r = Livre => Cardinality(Activos') = Cardinality(Activos) - 1
             /\ w \in Activos /\ r # Livre => Cardinality(Activos') = Cardinality(Activos)
             /\ w \notin Activos => Cardinality(Activos') <= Cardinality(Activos) + 1
             /\ \A n \in Notificacoes :
                  LET antes == w \in PorServir(n)
                      agora == w \in PorServir(n)'
                  IN  /\ antes /\ ~agora =>
                           Cardinality(PorServir(n)') = Cardinality(PorServir(n)) - 1
                      /\ (antes <=> agora) =>
                           Cardinality(PorServir(n)') = Cardinality(PorServir(n))
                      /\ ~antes /\ agora =>
                           Cardinality(PorServir(n)') = Cardinality(PorServir(n)) + 1
             /\ \A n \in Notificacoes :
                  LET antes == w \in ComEla(n)
                      agora == w \in ComEla(n)'
                  IN  /\ antes /\ ~agora =>
                           Cardinality(ComEla(n)') = Cardinality(ComEla(n)) - 1
                      /\ (antes <=> agora) =>
                           Cardinality(ComEla(n)') = Cardinality(ComEla(n))
  <2>1. /\ tick'[w] = r /\ \A v \in Workers : v # w => tick'[v] = tick[v]
        /\ Activos \ {w} = Activos' \ {w}
        /\ \A n : PorServir(n) \ {w} = PorServir(n)' \ {w}
        /\ \A n : ComEla(n) \ {w} = ComEla(n)' \ {w}
    BY <1>1, Muda
  <2>2. w \in Activos' <=> r # Livre
    BY <2>1 DEF Activos
  <2>3. /\ w \in Activos /\ r = Livre => Cardinality(Activos') = Cardinality(Activos) - 1
        /\ w \in Activos /\ r # Livre => Cardinality(Activos') = Cardinality(Activos)
        /\ w \notin Activos => Cardinality(Activos') <= Cardinality(Activos) + 1
    BY <1>0, <2>1, <2>2, Finitos, CardUm
  <2> QED
    BY <2>1, <2>3, Finitos, CardUm
<1>2. CASE UNCHANGED <<tick, envios, status, inFlight, roubos, criadas>> /\ avarias' >= avarias
  <2>1. /\ Activos' = Activos /\ Levado' = Levado
        /\ \A n \in Notificacoes : PorServir(n)' = PorServir(n) /\ ComEla(n)' = ComEla(n)
    BY <1>2 DEF Activos, PorServir, ComEla, Servindo, Corrente, Levado
  <2>2. avarias' \in Nat
    BY <1>0 DEF TypeOK
  <2> QED
    BY <1>0, <1>2, <2>1, <2>2
    DEF Conta, TicksContados, PendenteContado, ServidaContada, Criada
<1>3. CASE UNCHANGED vars
  BY <1>0, <1>2, <1>3 DEF vars, linhas, lease
<1>4. CASE TickRecusado
  BY <1>0, <1>2, <1>4 DEF TickRecusado, linhas
(* A tick that serves: it goes on, or it ends and the lease with it.  A    *)
(* row that stays PENDING is served by one tick less, or a statement has   *)
(* failed; one that is not PENDING is handed over by who had read it.      *)
<1>5. ASSUME NEW w \in Workers, NEW r \in TickTipo, tick' = [tick EXCEPT ![w] = r],
             tick[w].pc # "livre",
             UNCHANGED <<criadas, roubos>>, avarias' = avarias \/ avarias' = avarias + 1,
             \/ r # Livre /\ inFlight' = inFlight
             \/ r = Livre /\ inFlight' = FALSE,
             \A n \in r.lote : n <= criadas,
             \A n \in Notificacoes : n > criadas => status'[n] = status[n] /\ envios'[n] = envios[n],
             \A n \in Notificacoes : status'[n] = "PENDING" =>
               /\ status[n] = "PENDING"
               /\ \/ envios'[n] = envios[n] /\ w \in PorServir(n)
                  \/ envios'[n] = envios[n] /\ r # Livre /\ w \notin PorServir(n)'
                  \/ envios'[n] = envios[n] /\ avarias' = avarias + 1 /\ r = Livre
                  \/ /\ envios'[n] = envios[n] + 1 /\ r # Livre
                     /\ w \in PorServir(n) /\ w \notin PorServir(n)',
             \A n \in Notificacoes : status'[n] # "PENDING" =>
               \/ envios'[n] = envios[n] /\ (w \in ComEla(n)' => w \in ComEla(n))
               \/ /\ envios'[n] = envios[n] + 1 /\ status[n] # "PENDING"
                  /\ w \in ComEla(n) /\ w \notin ComEla(n)'
      PROVE  Conta'
  <2>1. tick[w] # Livre /\ w \in Activos
    BY <1>5, LivreTipo DEF Activos
  <2> DEFINE a == Cardinality(Activos)
             aa == Cardinality(Activos')
  <2>a. /\ roubos' = roubos /\ (avarias' = avarias \/ avarias' = avarias + 1)
        /\ roubos \in Nat /\ avarias \in Nat
    BY <1>0, <1>5
  <2>b. /\ Levado \in Nat /\ Levado <= 1 /\ Levado' \in Nat
        /\ r # Livre => Levado' = Levado
    BY <1>0, <1>5 DEF Levado
  <2>c. tick' = [tick EXCEPT ![w] = r]
    BY <1>5
  <2>2. TicksContados'
    <3>1. a \in Nat /\ aa \in Nat /\ a <= Levado + roubos
      BY <1>0 DEF TicksContados
    <3>2. (r = Livre => aa = a - 1) /\ (r # Livre => aa = a)
      BY <1>1, <2>1, <2>c
    <3> HIDE DEF a, aa
    <3>3. aa <= Levado' + roubos'
      BY <2>a, <2>b, <3>1, <3>2, ContasDosTicks
    <3> QED
      BY <3>3 DEF TicksContados, aa
  <2>3. ASSUME NEW n \in Notificacoes, status'[n] = "PENDING"
        PROVE  envios'[n] + Cardinality(PorServir(n)') <= Levado' + roubos' + avarias'
    <3> DEFINE x == Cardinality(PorServir(n))
               y == Cardinality(PorServir(n)')
               antes == w \in PorServir(n)
               agora == w \in PorServir(n)'
    <3>1. envios[n] + x <= Levado + roubos + avarias
      BY <1>0, <1>5, <2>3 DEF PendenteContado
    <3>2. r = Livre => ~agora
      BY <1>1, <1>5 DEF PorServir
    <3>3. envios[n] \in Nat /\ x \in Nat /\ y \in Nat
      BY <1>0
    <3>4. /\ antes /\ ~agora => y = x - 1
          /\ antes /\ agora => y = x
          /\ ~antes /\ ~agora => y = x
      BY <1>1, <1>5
    <3>5. \/ envios'[n] = envios[n] /\ antes
          \/ envios'[n] = envios[n] /\ r # Livre /\ ~agora
          \/ envios'[n] = envios[n] /\ avarias' = avarias + 1 /\ r = Livre
          \/ envios'[n] = envios[n] + 1 /\ r # Livre /\ antes /\ ~agora
      BY <1>5, <2>3
    <3> HIDE DEF x, y, antes, agora
    <3>6. envios'[n] + y <= Levado' + roubos' + avarias'
      BY <2>a, <2>b, <3>1, <3>2, <3>3, <3>4, <3>5
    <3> QED
      BY <3>6 DEF y
  <2>4. ASSUME NEW n \in Notificacoes, status'[n] # "PENDING"
        PROVE  envios'[n] + Cardinality(ComEla(n)') <= 1 + roubos' + avarias'
    <3> DEFINE x == Cardinality(ComEla(n))
               y == Cardinality(ComEla(n)')
               z == Cardinality(PorServir(n))
               antes == w \in ComEla(n)
               agora == w \in ComEla(n)'
    <3>1. \/ envios[n] + z <= Levado + roubos + avarias
          \/ envios[n] + x <= 1 + roubos + avarias
      BY <1>0 DEF PendenteContado, ServidaContada
    <3>2. status[n] # "PENDING" => envios[n] + x <= 1 + roubos + avarias
      BY <1>0 DEF ServidaContada
    <3>3. envios[n] \in Nat /\ x \in Nat /\ y \in Nat /\ z \in Nat /\ x <= z
      BY <1>0
    <3>4. /\ antes /\ ~agora => y = x - 1
          /\ (antes <=> agora) => y = x
      BY <1>1, <1>5
    <3>5. \/ envios'[n] = envios[n] /\ (agora => antes)
          \/ envios'[n] = envios[n] + 1 /\ status[n] # "PENDING" /\ antes /\ ~agora
      BY <1>5, <2>4
    <3> HIDE DEF x, y, z, antes, agora
    <3>6. envios'[n] + y <= 1 + roubos' + avarias'
      BY <2>a, <2>b, <3>1, <3>2, <3>3, <3>4, <3>5
    <3> QED
      BY <3>6 DEF y
  <2>5. Criada'
    BY <1>0, <1>1, <1>5 DEF Criada
  <2> QED
    BY <2>2, <2>3, <2>4, <2>5 DEF Conta, PendenteContado, ServidaContada
<1>6. ASSUME NEW w \in Workers, NEW n \in Notificacoes
      PROVE  /\ tick[w].pc \notin {"marcar", "falhar"} /\ tick[w].pc # "livre" =>
                  w \in PorServir(n) /\ (w \in ComEla(n) <=> n \in tick[w].lote)
             /\ w \in ComEla(n) => n \in tick[w].lote
             /\ \A m \in Notificacoes : Servindo(w, n) /\ m # n /\ tick[w].pc # "livre" =>
                  w \in PorServir(m) /\ (w \in ComEla(m) <=> m \in tick[w].lote)
  <2>1. tick[w].pc # "livre" => tick[w] # Livre
    BY LivreTipo
  <2> QED
    BY <2>1, UmaCorrente DEF PorServir, ComEla, Servindo
<1>7. CASE Create
  <2> DEFINE k == criadas + 1
  <2>1. /\ UNCHANGED <<envios, tick, inFlight, roubos, avarias>>
        /\ criadas' = k /\ k \in Notificacoes
        /\ status'[k] = "PENDING" /\ \A n \in Notificacoes : n # k => status'[n] = status[n]
    BY <1>7 DEF Create, lease, TypeOK, Notificacoes
  <2>2. /\ Activos' = Activos /\ Levado' = Levado
        /\ \A n \in Notificacoes : PorServir(n)' = PorServir(n) /\ ComEla(n)' = ComEla(n)
    BY <2>1 DEF Activos, PorServir, ComEla, Servindo, Corrente, Levado
  <2>3. envios[k] = 0
    BY <1>0, <2>1 DEF Criada, TypeOK
  <2>4. PendenteContado'
    BY <1>0, <2>1, <2>2, <2>3 DEF PendenteContado, TicksContados
  <2>5. ServidaContada'
    BY <1>0, <2>1, <2>2 DEF ServidaContada
  <2>6. Criada'
    <3>1. \A w \in Workers : \A n \in tick[w].lote : n <= k
      BY <1>0 DEF Criada, TickTipo, Notificacoes, TypeOK
    <3> QED
      BY <1>0, <2>1, <3>1 DEF Criada, Notificacoes, TypeOK
  <2> QED
    BY <1>0, <2>1, <2>2, <2>4, <2>5, <2>6 DEF Conta, TicksContados
<1>8. ASSUME NEW k \in Notificacoes, MarkRead(k)
      PROVE  Conta'
  <2>1. /\ UNCHANGED <<envios, tick, inFlight, roubos, avarias, criadas>> /\ k <= criadas
        /\ status'[k] = "READ" /\ \A n \in Notificacoes : n # k => status'[n] = status[n]
    BY <1>8 DEF MarkRead, lease, TypeOK
  <2>2. /\ Activos' = Activos /\ Levado' = Levado
        /\ \A n \in Notificacoes : PorServir(n)' = PorServir(n) /\ ComEla(n)' = ComEla(n)
    BY <2>1 DEF Activos, PorServir, ComEla, Servindo, Corrente, Levado
  <2>3. PendenteContado'
    BY <1>0, <2>1, <2>2 DEF PendenteContado
  <2>4. ServidaContada'
    BY <1>0, <2>1, <2>2 DEF ServidaContada, PendenteContado
  <2>5. Criada'
    BY <1>0, <2>1 DEF Criada, Notificacoes, TypeOK
  <2> QED
    BY <1>0, <2>1, <2>2, <2>3, <2>4, <2>5 DEF Conta, TicksContados
<1>9. ASSUME NEW w \in Workers, Tick(w)
      PROVE  Conta'
  <2> DEFINE r == [pc |-> "ler", lote |-> {}]
  <2>1. /\ tick' = [tick EXCEPT ![w] = r]
        /\ UNCHANGED <<envios, status, criadas, avarias>>
        /\ inFlight' = TRUE /\ tick[w] = Livre
        /\ \/ ~inFlight /\ roubos' = roubos
           \/ inFlight /\ roubos' = roubos + 1
    BY <1>0, <1>9 DEF Tick, linhas, ocupado, velha
  <2>2. r.lote = {}
    OBVIOUS
  <2> HIDE DEF r
  <2>3. /\ tick'[w] = r /\ w \notin Activos
        /\ \A n \in Notificacoes : w \notin ComEla(n) /\ w \notin PorServir(n) /\ w \notin ComEla(n)'
    BY <1>1, <2>1, <2>2, LivreTipo DEF Activos, ComEla, PorServir
  <2>c. tick' = [tick EXCEPT ![w] = r]
    BY <2>1
  <2>4. /\ Cardinality(Activos') <= Cardinality(Activos) + 1
        /\ \A n \in Notificacoes :
             /\ Cardinality(PorServir(n)') <= Cardinality(PorServir(n)) + 1
             /\ Cardinality(ComEla(n)') = Cardinality(ComEla(n))
    <3>1. Cardinality(Activos') <= Cardinality(Activos) + 1
      BY <1>1, <2>3, <2>c
    <3> SUFFICES ASSUME NEW n \in Notificacoes
                 PROVE  /\ Cardinality(PorServir(n)') <= Cardinality(PorServir(n)) + 1
                        /\ Cardinality(ComEla(n)') = Cardinality(ComEla(n))
      BY <3>1
    <3>2. /\ Cardinality(PorServir(n)') = Cardinality(PorServir(n))
             \/ Cardinality(PorServir(n)') = Cardinality(PorServir(n)) + 1
          /\ Cardinality(ComEla(n)') = Cardinality(ComEla(n))
      BY <1>1, <2>3, <2>c, Zenon
    <3>3. Cardinality(PorServir(n)) \in Nat
      BY <1>0
    <3> QED
      BY <3>2, <3>3
  <2>5. Levado' + roubos' = Levado + roubos + 1 /\ roubos' >= roubos /\ roubos' \in Nat
    <3>1. Levado' = 1
      BY <2>1 DEF Levado
    <3>2. CASE ~inFlight
      <4>1. Levado = 0
        BY <3>2 DEF Levado
      <4> QED
        BY <1>0, <2>1, <3>1, <3>2, <4>1
    <3>3. CASE inFlight
      <4>1. Levado = 1
        BY <3>3 DEF Levado
      <4> QED
        BY <1>0, <2>1, <3>1, <3>3, <4>1
    <3> QED
      BY <3>2, <3>3
  <2>6. TicksContados'
    <3>1. Cardinality(Activos) \in Nat /\ Cardinality(Activos') \in Nat /\ Levado \in 0..1
          /\ roubos \in Nat /\ Cardinality(Activos) <= Levado + roubos
      BY <1>0 DEF TicksContados
    <3>2. Levado \in Nat /\ Levado <= 1 /\ Levado' \in Nat
      BY DEF Levado
    <3> DEFINE a == Cardinality(Activos)
               aa == Cardinality(Activos')
    <3>3. a \in Nat /\ aa \in Nat /\ a <= Levado + roubos /\ aa <= a + 1
      BY <2>4, <3>1
    <3>4. Levado' + roubos' = Levado + roubos + 1 /\ roubos' \in Nat /\ roubos \in Nat
      BY <2>5, <3>1
    <3> HIDE DEF a, aa
    <3>5. aa <= Levado' + roubos'
      BY <3>2, <3>3, <3>4, ContasDosTicks
    <3> QED
      BY <3>5 DEF TicksContados, aa
  <2>7. PendenteContado'
    <3> SUFFICES ASSUME NEW n \in Notificacoes, status'[n] = "PENDING"
                 PROVE  envios'[n] + Cardinality(PorServir(n)') <= Levado' + roubos' + avarias'
      BY DEF PendenteContado
    <3>1. envios[n] + Cardinality(PorServir(n)) <= Levado + roubos + avarias
      BY <1>0, <2>1 DEF PendenteContado
    <3> DEFINE x == Cardinality(PorServir(n))
               y == Cardinality(PorServir(n)')
    <3>2. envios[n] + x <= Levado + roubos + avarias
      BY <3>1
    <3>3. /\ x \in Nat /\ y \in Nat /\ y <= x + 1
          /\ envios'[n] = envios[n] /\ envios[n] \in Nat /\ avarias' = avarias /\ avarias \in Nat
          /\ roubos \in Nat
      BY <1>0, <2>1, <2>4
    <3>4. Levado \in Nat /\ Levado' \in Nat
      BY DEF Levado
    <3> HIDE DEF x, y
    <3>5. envios'[n] + y <= Levado' + roubos' + avarias'
      BY <2>5, <3>2, <3>3, <3>4
    <3> QED
      BY <3>5 DEF y
  <2>8. ServidaContada'
    BY <1>0, <2>1, <2>4, <2>5 DEF ServidaContada
  <2>9. Criada'
    BY <1>0, <1>1, <2>1, <2>2 DEF Criada
  <2> QED
    BY <2>6, <2>7, <2>8, <2>9 DEF Conta
(* The steps of a tick that holds rows, each as one of step <1>5.          *)
<1>10. ASSUME NEW w \in Workers, LerLote(w)
       PROVE  Conta'
  <2> DEFINE r == [pc |-> "entregar", lote |-> primeiras]
  <2>1. /\ tick' = [tick EXCEPT ![w] = r] /\ tick[w].pc = "ler"
        /\ UNCHANGED <<criadas, roubos, status, envios, avarias, inFlight>>
    BY <1>10 DEF LerLote, Ponto, linhas, lease
  <2>2. /\ r \in TickTipo /\ r # Livre
        /\ \A n \in Notificacoes : n \in r.lote => status[n] = "PENDING"
        /\ \A n \in r.lote : n \in Notificacoes
    BY LivreTipo DEF TickTipo, Pontos, primeiras, pendentes
  <2>3. \A n \in r.lote : n <= criadas
    BY <1>0, <2>2 DEF Criada, TypeOK, Notificacoes
  <2> HIDE DEF r
  <2>4. \A n \in Notificacoes : status[n] # "PENDING" => w \notin ComEla(n)'
    BY <1>1, <2>1, <2>2 DEF ComEla
  <2>5. \A n \in Notificacoes : w \in PorServir(n)
    BY <1>6, <2>1
  <2> QED
    BY <1>5, <2>1, <2>2, <2>3, <2>4, <2>5
<1>11. ASSUME NEW w \in Workers, SemPendentes(w) \/ LerFalha(w) \/ LoteRebenta(w)
       PROVE  Conta'
  <2>1. /\ tick' = [tick EXCEPT ![w] = Livre] /\ inFlight' = FALSE
        /\ UNCHANGED <<criadas, roubos, status, envios>>
        /\ \/ tick[w].pc = "ler" /\ avarias' = avarias
           \/ tick[w].pc \in {"ler", "falhar"} /\ avarias' = avarias + 1
    BY <1>11 DEF SemPendentes, LerFalha, LoteRebenta, Finally, Ponto, linhas, Avaria
  <2>2. \A n \in Notificacoes : w \notin ComEla(n)'
    BY <1>1, <2>1, LivreTipo DEF ComEla
  <2>3. tick[w].pc = "ler" => \A n \in Notificacoes : w \in PorServir(n)
    BY <1>6
  <2> QED
    BY <1>5, <2>1, <2>2, <2>3, LivreTipo
<1>12. ASSUME NEW w \in Workers, NEW n \in Notificacoes, Corrente(w, n),
              NEW x \in {"marcar", "falhar"}, tick[w].pc = "entregar", Passa(w, x),
              UNCHANGED <<criadas, roubos, status, avarias, inFlight>>,
              \/ envios' = envios
              \/ envios' = [envios EXCEPT ![n] = @ + 1]
       PROVE  Conta'
  <2> DEFINE r == [pc |-> x, lote |-> tick[w].lote]
  <2>1. /\ tick' = [tick EXCEPT ![w] = r] /\ r \in TickTipo /\ r # Livre
        /\ r.pc \in {"marcar", "falhar"} /\ r.lote = tick[w].lote
    BY <1>0, <1>12, LivreTipo DEF Passa, TickTipo, Pontos
  <2> HIDE DEF r
  <2>2. \A m \in r.lote : m <= criadas
    BY <1>0, <1>12, <2>1 DEF Criada
  <2>3. \A m \in Notificacoes : w \in PorServir(m) /\ (w \in ComEla(m) <=> m \in tick[w].lote)
    BY <1>6, <1>12
  <2>4. tick'[w] = r
    BY <1>1, <2>1
  <2>5. w \notin PorServir(n)' /\ w \notin ComEla(n)'
    BY <1>12, <2>1, <2>4 DEF PorServir, ComEla, Servindo, Corrente
  <2>6. \A m \in Notificacoes : w \in ComEla(m)' => w \in ComEla(m)
    BY <2>1, <2>3, <2>4 DEF ComEla
  <2>7. w \in ComEla(n) /\ n <= criadas
    BY <1>0, <1>12, <2>3 DEF Corrente, Criada
  <2>8. \A m \in Notificacoes :
          \/ envios'[m] = envios[m]
          \/ m = n /\ envios'[m] = envios[m] + 1
    BY <1>0, <1>12 DEF TypeOK
  <2>9. \A m \in Notificacoes : m > criadas => envios'[m] = envios[m]
    BY <2>7, <2>8 DEF Notificacoes, TypeOK
  <2> QED
    BY <1>5, <1>12, <2>1, <2>2, <2>3, <2>5, <2>6, <2>7, <2>8, <2>9
<1>13. ASSUME NEW w \in Workers, NEW n \in Notificacoes,
              NaoLigado(w, n) \/ MarcarEnviada(w, n) \/ MarcarFalhada(w, n)
       PROVE  Conta'
  <2> DEFINE s == [pc |-> "entregar", lote |-> tick[w].lote \ {n}]
  <2>1. /\ Corrente(w, n) /\ Seguinte(w, n) /\ UNCHANGED <<criadas, envios, avarias>>
        /\ \/ tick[w].pc = "entregar" /\ status' = status
           \/ tick[w].pc \in {"marcar", "falhar"} /\ status' = [status EXCEPT ![n] = "SENT"]
           \/ tick[w].pc \in {"marcar", "falhar"} /\ status' = [status EXCEPT ![n] = "FAILED"]
    BY <1>13 DEF NaoLigado, MarcarEnviada, MarcarFalhada, Ponto, linhas
  <2>2. \A m \in Notificacoes : status'[m] = status[m] \/ m = n
    BY <2>1 DEF TypeOK
  <2>3. \A m \in Notificacoes : status'[m] = "PENDING" =>
             status[m] = "PENDING" /\ w \in PorServir(m)
    <3> SUFFICES ASSUME NEW m \in Notificacoes, status'[m] = "PENDING"
                 PROVE  status[m] = "PENDING" /\ w \in PorServir(m)
      OBVIOUS
    <3>1. CASE tick[w].pc = "entregar"
      BY <1>6, <2>1, <3>1
    <3>2. CASE tick[w].pc \in {"marcar", "falhar"}
      <4>1. status'[n] # "PENDING"
        BY <2>1, <3>2 DEF TypeOK
      <4>2. m # n /\ Servindo(w, n)
        BY <2>1, <3>2, <4>1 DEF Servindo
      <4> QED
        BY <1>6, <2>2, <3>2, <4>2
    <3> QED
      BY <2>1, <3>1, <3>2
  <2>4. PICK r \in {s, Livre} :
          /\ tick' = [tick EXCEPT ![w] = r] /\ roubos' = roubos
          /\ \/ r # Livre /\ inFlight' = inFlight
             \/ r = Livre /\ inFlight' = FALSE
    <3>1. s # Livre
      BY LivreTipo
    <3> HIDE DEF s
    <3>2. CASE Finally(w)
      BY <3>2 DEF Finally
    <3>3. CASE tick' = [tick EXCEPT ![w] = s] /\ UNCHANGED lease
      BY <3>1, <3>3 DEF lease
    <3> QED
      BY <2>1, <3>2, <3>3 DEF Seguinte, s
  <2>5. r \in TickTipo /\ r.lote \subseteq tick[w].lote \ {n}
    BY <1>0, <2>4, LivreTipo DEF TickTipo, Pontos
  <2> HIDE DEF s
  <2>6. \A m \in Notificacoes : w \in ComEla(m)' => w \in ComEla(m)
    <3> SUFFICES ASSUME NEW m \in Notificacoes, w \in ComEla(m)'
                 PROVE  w \in ComEla(m)
      OBVIOUS
    <3>1. m \in tick[w].lote /\ m # n
      BY <1>1, <2>4, <2>5 DEF ComEla
    <3>2. ~Servindo(w, m)
      BY <2>1, <3>1, UmaCorrente DEF Servindo
    <3> QED
      BY <3>1, <3>2 DEF ComEla
  <2>7. /\ tick[w].pc # "livre"
        /\ \A m \in r.lote : m <= criadas
        /\ n <= criadas
    BY <1>0, <2>1, <2>5 DEF Criada, Corrente
  <2>8. \A m \in Notificacoes : m > criadas => status'[m] = status[m]
    BY <2>2, <2>7 DEF Notificacoes, TypeOK
  <2> QED
    BY <1>5, <2>1, <2>3, <2>4, <2>5, <2>6, <2>7, <2>8
<1>14. ASSUME NEW w \in Workers, MarcarFalha(w)
       PROVE  Conta'
  <2> DEFINE r == [pc |-> "falhar", lote |-> tick[w].lote]
  <2>1. /\ tick' = [tick EXCEPT ![w] = r] /\ r \in TickTipo /\ r # Livre
        /\ r.pc = "falhar" /\ r.lote = tick[w].lote /\ tick[w].pc = "marcar"
        /\ UNCHANGED <<criadas, roubos, status, envios, inFlight>> /\ avarias' = avarias + 1
    BY <1>0, <1>14, LivreTipo
    DEF MarcarFalha, Passa, Ponto, Avaria, linhas, lease, TickTipo, Pontos
  <2> HIDE DEF r
  <2>2. \A m \in r.lote : m <= criadas
    BY <1>0, <2>1 DEF Criada
  <2>3. tick'[w] = r
    BY <1>1, <2>1
  <2>4. \A m \in Notificacoes : Servindo(w, m)' <=> Servindo(w, m)
    BY <2>1, <2>3 DEF Servindo, Corrente
  <2>5. \A m \in Notificacoes :
          /\ w \in PorServir(m)' => w \in PorServir(m)
          /\ w \in ComEla(m)' => w \in ComEla(m)
    BY <2>1, <2>3, <2>4, LivreTipo DEF PorServir, ComEla
  <2> QED
    BY <1>5, <2>1, <2>2, <2>5
<1>15. CASE Queda
  <2>1. /\ UNCHANGED <<criadas, canal, status, envios, roubos>> /\ avarias' = avarias + 1
        /\ inFlight' = FALSE /\ tick' = [w \in Workers |-> Livre]
    BY <1>15 DEF Queda, Avaria, linhas
  <2>2. Activos' = {} /\ \A n \in Notificacoes : PorServir(n)' = {} /\ ComEla(n)' = {}
    BY <2>1, LivreTipo DEF Activos, PorServir, ComEla
  <2>3. Cardinality({}) = 0
    BY FS_EmptySet
  <2>4. Levado' = 0 /\ (Levado = 0 \/ Levado = 1)
    BY <2>1 DEF Levado
  <2>5. \A n \in Notificacoes :
          envios[n] <= 1 + roubos + avarias
    <3> SUFFICES ASSUME NEW n \in Notificacoes
                 PROVE  envios[n] <= 1 + roubos + avarias
      OBVIOUS
    <3>1. \/ envios[n] + Cardinality(PorServir(n)) <= Levado + roubos + avarias
          \/ envios[n] + Cardinality(ComEla(n)) <= 1 + roubos + avarias
      BY <1>0 DEF PendenteContado, ServidaContada
    <3>2. /\ Cardinality(PorServir(n)) \in Nat /\ Cardinality(ComEla(n)) \in Nat
          /\ envios[n] \in Nat /\ roubos \in Nat /\ avarias \in Nat
      BY <1>0
    <3> QED
      BY <2>4, <3>1, <3>2
  <2>6. TicksContados' /\ PendenteContado' /\ ServidaContada'
    <3>1. /\ roubos \in Nat /\ avarias \in Nat
          /\ \A n \in Notificacoes : envios[n] \in Nat
      BY <1>0
    <3>2. /\ Cardinality(Activos') = 0
          /\ \A n \in Notificacoes :
               Cardinality(PorServir(n)') = 0 /\ Cardinality(ComEla(n)') = 0
      BY <2>2, <2>3
    <3>3. TicksContados'
      BY <2>1, <2>4, <3>1, <3>2 DEF TicksContados
    <3>4. PendenteContado'
      <4> SUFFICES ASSUME NEW n \in Notificacoes, status'[n] = "PENDING"
                   PROVE  envios'[n] + Cardinality(PorServir(n)') <= Levado' + roubos' + avarias'
        BY DEF PendenteContado
      <4>1. envios'[n] = envios[n] /\ envios[n] \in Nat /\ Cardinality(PorServir(n)') = 0
            /\ envios[n] <= 1 + roubos + avarias
        BY <2>1, <2>5, <3>1, <3>2
      <4> QED
        BY <2>1, <2>4, <3>1, <4>1
    <3>5. ServidaContada'
      <4> SUFFICES ASSUME NEW n \in Notificacoes, status'[n] # "PENDING"
                   PROVE  envios'[n] + Cardinality(ComEla(n)') <= 1 + roubos' + avarias'
        BY DEF ServidaContada
      <4>1. envios'[n] = envios[n] /\ envios[n] \in Nat /\ Cardinality(ComEla(n)') = 0
            /\ envios[n] <= 1 + roubos + avarias
        BY <2>1, <2>5, <3>1, <3>2
      <4> QED
        BY <2>1, <3>1, <4>1
    <3> QED
      BY <3>3, <3>4, <3>5
  <2>7. Criada'
    BY <1>0, <2>1, LivreTipo DEF Criada
  <2> QED
    BY <2>6, <2>7 DEF Conta
<1>16. ASSUME NEW w \in Workers, NEW n \in Notificacoes,
              Entregar(w, n) \/ EmailPerdido(w, n) \/ EmailFalha(w, n)
       PROVE  Conta'
  <2>1. /\ Corrente(w, n) /\ tick[w].pc = "entregar"
        /\ UNCHANGED <<criadas, roubos, status, avarias, inFlight>>
        /\ envios' = envios \/ envios' = [envios EXCEPT ![n] = @ + 1]
        /\ Passa(w, "marcar") \/ Passa(w, "falhar")
    BY <1>16 DEF Entregar, EmailPerdido, EmailFalha, Ponto, lease, linhas, aoFalhar
  <2> QED
    BY <1>12, <2>1
<1> QED
  BY <1>3, <1>4, <1>7, <1>8, <1>9, <1>10, <1>11, <1>13, <1>14, <1>15, <1>16
  DEF Next, Cron, Servir

(* A mail goes out once, and once more for each lease taken over from a    *)
(* tick that was alive and each failure: for any number of ticks, any      *)
(* batch, any length of the queue.                                         *)
THEOREM EnvioContadoCorrect == Spec => []EnvioContado
<1>1. TypeOK /\ Conta => EnvioContado
  <2> SUFFICES ASSUME TypeOK, Conta PROVE EnvioContado
    OBVIOUS
  <2>1. Levado \in Nat /\ Levado <= 1
    BY DEF Levado
  <2>2. /\ roubos \in Nat /\ avarias \in Nat
        /\ \A n \in Notificacoes : envios[n] \in Nat
    BY LimitesAssumption DEF TypeOK
  <2>3. Cardinality(Activos) <= 1 + roubos
    BY <2>1, <2>2, Finitos DEF Conta, TicksContados
  <2>4. ASSUME NEW n \in Notificacoes
        PROVE  envios[n] <= 1 + roubos + avarias
    <3>1. \/ envios[n] + Cardinality(PorServir(n)) <= Levado + roubos + avarias
          \/ envios[n] + Cardinality(ComEla(n)) <= 1 + roubos + avarias
      BY DEF Conta, PendenteContado, ServidaContada
    <3>2. Cardinality(PorServir(n)) \in Nat /\ Cardinality(ComEla(n)) \in Nat
      BY Finitos
    <3> QED
      BY <2>1, <2>2, <3>1, <3>2
  <2> QED
    BY <2>3, <2>4 DEF EnvioContado
<1> QED
  BY <1>1, TypeInicio, TypePasso, ContaInicio, ContaPasso, PTL DEF Spec
-----------------------------------------------------------------------------
(* What a row says: SENT is written by a tick that was told ok.            *)
Enviada ==
  /\ \A w \in Workers, n \in Notificacoes :
       Dito(w, n) /\ canal[n] = "EMAIL" => Chamado(n)
  /\ \A n \in Notificacoes : status[n] = "SENT" /\ canal[n] = "EMAIL" => Chamado(n)

LEMMA EnviadaInicio == Init => Enviada
BY LivreTipo DEF Init, Enviada, Dito

LEMMA EnviadaPasso == TypeOK /\ Conta /\ Enviada /\ [Next]_vars => Enviada'
<1> SUFFICES ASSUME TypeOK, Conta, Enviada, [Next]_vars PROVE Enviada'
  OBVIOUS
<1>0. /\ status \in [Notificacoes -> Estados] /\ envios \in [Notificacoes -> Nat]
      /\ canal \in [Notificacoes -> Canais \cup {"nenhum"}]
      /\ \A w \in Workers : \A n \in tick[w].lote : n <= criadas
      /\ criadas \in Nat
  BY LimitesAssumption DEF TypeOK, Conta, Criada
<1>1. CASE UNCHANGED <<tick, envios, perdidos, status, canal>>
  BY <1>1 DEF Enviada, Dito, Chamado, Corrente
(* A tick that moves and is not about to write SENT.                       *)
<1>2. ASSUME NEW w \in Workers, NEW r, tick' = [tick EXCEPT ![w] = r], r.pc # "marcar",
             UNCHANGED <<envios, perdidos, canal>>,
             \A n \in Notificacoes : status'[n] = "SENT" => status[n] = "SENT" \/ Dito(w, n)
      PROVE  Enviada'
  <2>1. tick'[w] = r /\ \A v \in Workers : v # w => tick'[v] = tick[v]
    BY <1>2, Muda
  <2>2. \A v \in Workers, n \in Notificacoes : Dito(v, n)' => Dito(v, n)
    BY <1>2, <2>1 DEF Dito, Corrente
  <2> QED
    BY <1>2, <2>2 DEF Enviada, Chamado
<1>3. CASE UNCHANGED vars
  BY <1>1, <1>3 DEF vars, linhas
<1>4. CASE TickRecusado
  BY <1>1, <1>4 DEF TickRecusado, linhas
<1>5. CASE Create
  <2> DEFINE k == criadas + 1
  <2>0. k \in Notificacoes
    BY <1>0, <1>5, LimitesAssumption DEF Create, Notificacoes
  <2>1. /\ UNCHANGED <<envios, perdidos, tick>> /\ k \in Notificacoes
        /\ status'[k] = "PENDING"
        /\ \A n \in Notificacoes : n # k => status'[n] = status[n] /\ canal'[n] = canal[n]
    BY <1>0, <1>5, <2>0 DEF Create
  <2>2. \A w \in Workers, n \in Notificacoes : Dito(w, n)' => Dito(w, n) /\ n # k
    BY <1>0, <2>1 DEF Dito, Corrente, Notificacoes
  <2> QED
    BY <2>1, <2>2 DEF Enviada, Chamado
<1>6. ASSUME NEW k \in Notificacoes, MarkRead(k)
      PROVE  Enviada'
  <2>1. /\ UNCHANGED <<envios, perdidos, tick, canal>>
        /\ \A n \in Notificacoes : status'[n] = "SENT" => status[n] = "SENT"
    BY <1>0, <1>6 DEF MarkRead
  <2>2. \A w \in Workers, n \in Notificacoes : Dito(w, n)' => Dito(w, n)
    BY <2>1 DEF Dito, Corrente
  <2> QED
    BY <2>1, <2>2 DEF Enviada, Chamado
<1>7. ASSUME NEW w \in Workers,
             Tick(w) \/ LerLote(w) \/ SemPendentes(w) \/ LerFalha(w) \/ MarcarFalha(w)
               \/ LoteRebenta(w) \/ \E n \in Notificacoes : EmailFalha(w, n)
      PROVE  Enviada'
  <2>1. PICK r \in {Livre, [pc |-> "ler", lote |-> {}], [pc |-> "entregar", lote |-> primeiras],
                    [pc |-> "falhar", lote |-> tick[w].lote]} :
          tick' = [tick EXCEPT ![w] = r]
    BY <1>7 DEF Tick, LerLote, SemPendentes, LerFalha, MarcarFalha, LoteRebenta, EmailFalha,
                Finally, Passa, aoFalhar
  <2>2. r.pc # "marcar"
    BY LivreTipo
  <2>3. UNCHANGED <<envios, perdidos, canal, status>>
    BY <1>7 DEF Tick, LerLote, SemPendentes, LerFalha, MarcarFalha, LoteRebenta, EmailFalha, linhas
  <2> QED
    BY <1>2, <2>1, <2>2, <2>3
<1>8. ASSUME NEW w \in Workers, NEW n \in Notificacoes,
             NaoLigado(w, n) \/ MarcarEnviada(w, n) \/ MarcarFalhada(w, n)
      PROVE  Enviada'
  <2>1. PICK r \in {Livre, [pc |-> "entregar", lote |-> tick[w].lote \ {n}]} :
          tick' = [tick EXCEPT ![w] = r]
    BY <1>8 DEF NaoLigado, MarcarEnviada, MarcarFalhada, Seguinte, Finally
  <2>2. r.pc # "marcar"
    BY LivreTipo
  <2>3. /\ UNCHANGED <<envios, perdidos, canal>>
        /\ \A m \in Notificacoes : status'[m] = "SENT" => status[m] = "SENT" \/ Dito(w, m)
    BY <1>0, <1>8 DEF NaoLigado, MarcarEnviada, MarcarFalhada, Ponto, Dito, linhas
  <2> QED
    BY <1>2, <2>1, <2>2, <2>3
<1>9. ASSUME NEW w \in Workers, NEW n \in Notificacoes, Entregar(w, n) \/ EmailPerdido(w, n)
      PROVE  Enviada'
  <2>1. /\ Corrente(w, n) /\ UNCHANGED <<status, canal>>
        /\ \/ /\ envios' = IF canal[n] = "EMAIL" THEN [envios EXCEPT ![n] = @ + 1] ELSE envios
              /\ perdidos' = perdidos
           \/ envios' = envios /\ perdidos' = perdidos \cup {n}
        /\ tick' = [tick EXCEPT ![w] = [pc |-> "marcar", lote |-> tick[w].lote]]
    BY <1>9 DEF Entregar, EmailPerdido, Passa
  <2> DEFINE r == [pc |-> "marcar", lote |-> tick[w].lote]
  <2>a. tick' = [tick EXCEPT ![w] = r] /\ r.pc = "marcar" /\ r.lote = tick[w].lote
    BY <2>1
  <2> HIDE DEF r
  <2>2. /\ tick'[w].pc = "marcar" /\ tick'[w].lote = tick[w].lote
        /\ \A v \in Workers : v # w => tick'[v] = tick[v]
    BY <2>a, Muda
  <2>3. /\ canal[n] = "EMAIL" => Chamado(n)'
        /\ \A m \in Notificacoes : Chamado(m) => Chamado(m)'
    BY <1>0, <2>1 DEF Chamado
  <2>4. \A v \in Workers, m \in Notificacoes : Dito(v, m)' => Dito(v, m) \/ m = n
    BY <2>1, <2>2, UmaCorrente DEF Dito, Corrente
  <2> QED
    BY <2>1, <2>3, <2>4 DEF Enviada
<1>10. CASE Queda
  <2>1. UNCHANGED <<envios, perdidos, status, canal>> /\ \A w \in Workers : tick'[w].pc = "livre"
    BY <1>10, LivreTipo DEF Queda, linhas
  <2> QED
    BY <2>1 DEF Enviada, Dito, Chamado
<1> QED
  BY <1>3, <1>4, <1>5, <1>6, <1>7, <1>8, <1>9, <1>10 DEF Next, Cron, Servir

(* While no statement failed, however many ticks there are, a mail the     *)
(* worker was told of is of a row that is not PENDING, or about to be SENT. *)
PorEnviar == \A n \in Notificacoes :
  status[n] = "PENDING" /\ Chamado(n) => \E w \in Workers : Dito(w, n)
PorDizer ==
  /\ avarias = 0 => PorEnviar
  /\ \A n \in perdidos : n <= criadas

LEMMA PorDizerInicio == Init => PorDizer
BY DEF Init, PorDizer, PorEnviar, Chamado

LEMMA PorDizerPasso == TypeOK /\ Conta /\ PorDizer /\ [Next]_vars => PorDizer'
<1> SUFFICES ASSUME TypeOK, Conta, PorDizer, [Next]_vars PROVE PorDizer'
  OBVIOUS
<1>0. /\ status \in [Notificacoes -> Estados] /\ envios \in [Notificacoes -> Nat]
      /\ \A w \in Workers : \A n \in tick[w].lote : n <= criadas
      /\ \A n \in Notificacoes : n > criadas => envios[n] = 0
      /\ criadas \in Nat /\ avarias \in Nat
      /\ \A n \in perdidos : n <= criadas
  BY LimitesAssumption DEF TypeOK, Conta, Criada, PorDizer
<1>1. Avaria => avarias' # 0
  BY <1>0 DEF Avaria
(* The rows and the mails stay, and no tick stops being about to write.    *)
<1>2. ASSUME UNCHANGED <<envios, perdidos, criadas>>, avarias' = 0 => avarias = 0,
             avarias' = 0 => \A n \in Notificacoes :
               status'[n] = "PENDING" =>
                 status[n] = "PENDING" /\ \A w \in Workers : Dito(w, n) => Dito(w, n)'
      PROVE  PorDizer'
  BY <1>2 DEF PorDizer, PorEnviar, Chamado
<1>3. CASE UNCHANGED vars
  BY <1>2, <1>3 DEF vars, linhas, Dito, Corrente
<1>4. CASE TickRecusado
  BY <1>2, <1>4 DEF TickRecusado, linhas, Dito, Corrente
<1>5. CASE Create
  <2> DEFINE k == criadas + 1
  <2>0. k \in Notificacoes
    BY <1>0, <1>5, LimitesAssumption DEF Create, Notificacoes
  <2>1. /\ UNCHANGED <<envios, perdidos, tick, avarias>> /\ criadas' = k
        /\ \A n \in Notificacoes : n # k => status'[n] = status[n]
    BY <1>0, <1>5, <2>0 DEF Create
  <2>2. \A w \in Workers, n \in Notificacoes : Dito(w, n)' <=> Dito(w, n)
    BY <2>1 DEF Dito, Corrente
  <2>3. /\ \A n \in Notificacoes : n = k => ~Chamado(n)'
        /\ \A n \in perdidos : n <= k
    <3>1. k > criadas /\ ~(k <= criadas)
      BY <1>0
    <3>2. envios[k] = 0 /\ k \notin perdidos
      BY <1>0, <2>0, <3>1
    <3>3. perdidos \subseteq Nat
      BY DEF TypeOK, Notificacoes
    <3>4. \A n \in perdidos : n <= k
      BY <1>0, <3>3
    <3>5. \A n \in Notificacoes : n = k => ~Chamado(n)'
      BY <2>1, <3>2 DEF Chamado
    <3> QED
      BY <3>4, <3>5
  <2>4. \A n \in Notificacoes : Chamado(n)' <=> Chamado(n)
    BY <2>1 DEF Chamado
  <2> HIDE DEF k
  <2> QED
    BY <2>1, <2>2, <2>3, <2>4 DEF PorDizer, PorEnviar
<1>6. ASSUME NEW k \in Notificacoes, MarkRead(k)
      PROVE  PorDizer'
  <2>1. /\ UNCHANGED <<envios, perdidos, tick, criadas, avarias>>
        /\ \A n \in Notificacoes : status'[n] = "PENDING" => status[n] = "PENDING"
    BY <1>0, <1>6 DEF MarkRead
  <2> QED
    BY <1>2, <2>1 DEF Dito, Corrente
(* A tick that moves and was not about to write.                           *)
<1>7. ASSUME NEW w \in Workers, NEW r, tick' = [tick EXCEPT ![w] = r],
             tick[w].pc # "marcar" \/ avarias' # 0,
             UNCHANGED <<envios, perdidos, criadas>>, avarias' = 0 => avarias = 0,
             \A n \in Notificacoes : status'[n] = "PENDING" => status[n] = "PENDING"
      PROVE  PorDizer'
  <2>1. \A v \in Workers : v # w => tick'[v] = tick[v]
    BY <1>7, Muda
  <2>2. ASSUME avarias' = 0, NEW v \in Workers, NEW n \in Notificacoes, Dito(v, n)
        PROVE  Dito(v, n)'
    BY <1>7, <2>1, <2>2 DEF Dito, Corrente
  <2> QED
    BY <1>2, <1>7, <2>2
<1>8. ASSUME NEW w \in Workers,
             Tick(w) \/ LerLote(w) \/ SemPendentes(w) \/ LerFalha(w) \/ MarcarFalha(w)
               \/ LoteRebenta(w) \/ \E n \in Notificacoes : EmailFalha(w, n)
      PROVE  PorDizer'
  <2>1. \E r : tick' = [tick EXCEPT ![w] = r]
    BY <1>8 DEF Tick, LerLote, SemPendentes, LerFalha, MarcarFalha, LoteRebenta, EmailFalha,
                Finally, Passa
  <2>2. /\ UNCHANGED <<envios, perdidos, criadas, status>>
        /\ avarias' = avarias \/ Avaria
    BY <1>8 DEF Tick, LerLote, SemPendentes, LerFalha, MarcarFalha, LoteRebenta, EmailFalha, linhas
  <2>3. tick[w].pc # "marcar" \/ Avaria
    BY <1>8, LivreTipo DEF Tick, LerLote, SemPendentes, LerFalha, MarcarFalha, LoteRebenta,
                           EmailFalha, Ponto
  <2> QED
    BY <1>1, <1>7, <2>1, <2>2, <2>3
<1>9. ASSUME NEW w \in Workers, NEW n \in Notificacoes,
             NaoLigado(w, n) \/ MarcarFalhada(w, n)
      PROVE  PorDizer'
  <2>1. \E r : tick' = [tick EXCEPT ![w] = r]
    BY <1>9 DEF NaoLigado, MarcarFalhada, Seguinte, Finally
  <2>2. /\ UNCHANGED <<envios, perdidos, criadas, avarias>> /\ tick[w].pc # "marcar"
        /\ \A m \in Notificacoes : status'[m] = "PENDING" => status[m] = "PENDING"
    BY <1>0, <1>9 DEF NaoLigado, MarcarFalhada, linhas, Ponto
  <2> QED
    BY <1>7, <2>1, <2>2
<1>10. ASSUME NEW w \in Workers, NEW n \in Notificacoes, MarcarEnviada(w, n)
       PROVE  PorDizer'
  <2>1. \E r : tick' = [tick EXCEPT ![w] = r]
    BY <1>10 DEF MarcarEnviada, Seguinte, Finally
  <2>2. /\ UNCHANGED <<envios, perdidos, criadas, avarias>> /\ Corrente(w, n)
        /\ \A m \in Notificacoes : status'[m] = "PENDING" => status[m] = "PENDING" /\ m # n
    BY <1>0, <1>10 DEF MarcarEnviada
  <2>3. \A v \in Workers : v # w => tick'[v] = tick[v]
    BY <2>1, Muda
  <2>4. ASSUME NEW v \in Workers, NEW m \in Notificacoes, m # n, Dito(v, m)
        PROVE  Dito(v, m)'
    <3>1. v # w
      BY <2>2, <2>4, UmaCorrente DEF Dito
    <3> QED
      BY <2>3, <2>4, <3>1 DEF Dito, Corrente
  <2> QED
    BY <1>2, <2>2, <2>4
<1>11. ASSUME NEW w \in Workers, NEW n \in Notificacoes, Entregar(w, n) \/ EmailPerdido(w, n)
       PROVE  PorDizer'
  <2> DEFINE r == [pc |-> "marcar", lote |-> tick[w].lote]
  <2>1. /\ tick' = [tick EXCEPT ![w] = r] /\ r.pc = "marcar" /\ r.lote = tick[w].lote
        /\ Corrente(w, n) /\ tick[w].pc = "entregar" /\ UNCHANGED <<status, criadas, avarias>>
        /\ \A m \in Notificacoes : m # n => (Chamado(m)' => Chamado(m))
        /\ perdidos' \subseteq perdidos \cup {n}
    BY <1>0, <1>11 DEF Entregar, EmailPerdido, Passa, Ponto, Chamado
  <2> HIDE DEF r
  <2>2. tick'[w] = r /\ \A v \in Workers : v # w => tick'[v] = tick[v]
    BY <2>1, Muda
  <2>3. Dito(w, n)' /\ \A v \in Workers, m \in Notificacoes : Dito(v, m) => Dito(v, m)'
    BY <2>1, <2>2 DEF Dito, Corrente
  <2>4. n <= criadas
    BY <1>0, <2>1 DEF Corrente
  <2> QED
    BY <1>0, <2>1, <2>3, <2>4 DEF PorDizer, PorEnviar
<1>12. CASE Queda
  BY <1>0, <1>1, <1>12 DEF Queda, linhas, PorDizer
<1> QED
  BY <1>3, <1>4, <1>5, <1>6, <1>8, <1>9, <1>10, <1>11, <1>12 DEF Next, Cron, Servir

(* While nothing failed and no lease was taken over one tick at most is    *)
(* alive, with the lease; a row that is FAILED is of a mail the worker was *)
(* not told of, and in no batch; and of a row in a batch the worker was    *)
(* told only if it is about to say so.                                     *)
Sozinho == \A v, w \in Workers : tick[v] # Livre /\ tick[w] # Livre => v = w /\ inFlight
Falhadas == \A n \in Notificacoes :
  status[n] = "FAILED" => ~Chamado(n) /\ \A w \in Workers : n \notin tick[w].lote
NoLote == \A w \in Workers, n \in Notificacoes :
  n \in tick[w].lote => Dito(w, n) \/ ~Chamado(n)
Tranquila == Sozinho /\ Falhadas /\ NoLote
Calma == roubos = 0 /\ avarias = 0 => Tranquila

LEMMA CalmaInicio == Init => Calma
BY LivreTipo DEF Init, Calma, Tranquila, Sozinho, Falhadas, NoLote

LEMMA CalmaPasso == TypeOK /\ Conta /\ PorDizer /\ Calma /\ [Next]_vars => Calma'
<1> SUFFICES ASSUME TypeOK, Conta, PorDizer, Calma, [Next]_vars, roubos' = 0, avarias' = 0
             PROVE  Tranquila'
  BY DEF Calma
<1>0. /\ status \in [Notificacoes -> Estados] /\ envios \in [Notificacoes -> Nat]
      /\ tick \in [Workers -> TickTipo]
      /\ \A w \in Workers : \A n \in tick[w].lote : n <= criadas
      /\ \A n \in Notificacoes : n > criadas => envios[n] = 0
      /\ criadas \in Nat /\ roubos \in Nat /\ avarias \in Nat
      /\ \A n \in perdidos : n <= criadas
  BY LimitesAssumption DEF TypeOK, Conta, Criada, PorDizer, TickTipo, Pontos
<1>1. ~Avaria /\ (roubos' = roubos /\ avarias' = avarias => Tranquila)
  BY <1>0 DEF Avaria, Calma
<1>2. CASE UNCHANGED <<tick, envios, perdidos, status, inFlight, roubos, avarias>>
  BY <1>1, <1>2 DEF Tranquila, Sozinho, Falhadas, NoLote, Dito, Chamado, Corrente
<1>3. CASE UNCHANGED vars
  BY <1>2, <1>3 DEF vars, linhas, lease
<1>4. CASE TickRecusado
  BY <1>2, <1>4 DEF TickRecusado, linhas
<1>5. CASE Create
  <2> DEFINE k == criadas + 1
  <2>0. k \in Notificacoes
    BY <1>0, <1>5, LimitesAssumption DEF Create, Notificacoes
  <2>1. /\ UNCHANGED <<envios, perdidos, tick, inFlight, roubos, avarias>>
        /\ status'[k] = "PENDING"
        /\ \A n \in Notificacoes : n # k => status'[n] = status[n]
    BY <1>0, <1>5, <2>0 DEF Create, lease
  <2>2. \A w \in Workers, n \in Notificacoes : Dito(w, n)' <=> Dito(w, n)
    BY <2>1 DEF Dito, Corrente
  <2> HIDE DEF k
  <2> QED
    BY <1>1, <2>0, <2>1, <2>2 DEF Tranquila, Sozinho, Falhadas, NoLote, Chamado
<1>6. ASSUME NEW k \in Notificacoes, MarkRead(k)
      PROVE  Tranquila'
  <2>1. /\ UNCHANGED <<envios, perdidos, tick, inFlight, roubos, avarias>>
        /\ status'[k] = "READ" /\ \A n \in Notificacoes : n # k => status'[n] = status[n]
    BY <1>0, <1>6 DEF MarkRead, lease
  <2>2. \A w \in Workers, n \in Notificacoes : Dito(w, n)' <=> Dito(w, n)
    BY <2>1 DEF Dito, Corrente
  <2> QED
    BY <1>1, <2>1, <2>2 DEF Tranquila, Sozinho, Falhadas, NoLote, Chamado
<1>7. ASSUME NEW w \in Workers, Tick(w)
      PROVE  Tranquila'
  <2> DEFINE r == [pc |-> "ler", lote |-> {}]
  <2>1. /\ tick' = [tick EXCEPT ![w] = r] /\ r.pc = "ler" /\ r.lote = {}
        /\ UNCHANGED <<envios, perdidos, status, avarias>> /\ inFlight'
    BY <1>7 DEF Tick, linhas
  <2> HIDE DEF r
  <2>2. ~inFlight /\ roubos' = roubos
    BY <1>0, <1>7 DEF Tick, ocupado
  <2>3. \A v \in Workers : tick[v] = Livre
    BY <1>1, <2>1, <2>2 DEF Tranquila, Sozinho
  <2>4. tick'[w] = r /\ \A v \in Workers : v # w => tick'[v] = Livre
    BY <2>1, <2>3, Muda
  <2>5. \A v \in Workers : tick[v].pc = "livre" /\ tick'[v].lote = {}
    BY <2>1, <2>3, <2>4, LivreTipo
  <2> QED
    BY <1>1, <2>1, <2>2, <2>4, <2>5 DEF Tranquila, Sozinho, Falhadas, NoLote, Dito, Chamado
(* A tick that serves is the only one.                                     *)
<1>8. ASSUME NEW w \in Workers, NEW r, tick' = [tick EXCEPT ![w] = r], tick[w].pc # "livre",
             UNCHANGED <<roubos, avarias>>, r # Livre => inFlight' = inFlight
      PROVE  /\ Tranquila /\ Sozinho' /\ tick'[w] = r
             /\ \A v \in Workers : v # w => tick[v] = Livre /\ tick'[v] = Livre
             /\ \A v \in Workers, n \in Notificacoes : Dito(v, n) => v = w
             /\ \A v \in Workers : \A n \in tick'[v].lote : v = w
  <2>1. tick[w] # Livre /\ Tranquila
    BY <1>1, <1>8, LivreTipo
  <2>2. tick'[w] = r /\ \A v \in Workers : v # w => tick'[v] = tick[v]
    BY <1>8, Muda
  <2>3. \A v \in Workers : v # w => tick[v] = Livre
    BY <2>1 DEF Tranquila, Sozinho
  <2>4. Sozinho'
    BY <1>8, <2>1, <2>2, <2>3 DEF Tranquila, Sozinho
  <2> QED
    BY <2>1, <2>2, <2>3, <2>4, LivreTipo DEF Dito
<1>9. ASSUME NEW w \in Workers, LerLote(w)
      PROVE  Tranquila'
  <2> DEFINE r == [pc |-> "entregar", lote |-> primeiras]
  <2>1. /\ tick' = [tick EXCEPT ![w] = r] /\ tick[w].pc = "ler" /\ r.lote = primeiras
        /\ UNCHANGED <<envios, perdidos, status, inFlight, roubos, avarias>>
    BY <1>9 DEF LerLote, Ponto, linhas, lease
  <2> HIDE DEF r
  <2>2. /\ Tranquila /\ Sozinho' /\ tick'[w] = r
        /\ \A v \in Workers, n \in Notificacoes : Dito(v, n) => v = w
        /\ \A v \in Workers : \A n \in tick'[v].lote : v = w
    BY <1>8, <2>1
  <2>3. \A v \in Workers, n \in Notificacoes : ~Dito(v, n)
    BY <2>1, <2>2 DEF Dito
  <2>4. \A n \in r.lote : status[n] = "PENDING"
    BY <2>1 DEF primeiras, pendentes
  <2>5. \A n \in Notificacoes : status[n] = "PENDING" => ~Chamado(n)
    BY <1>0, <2>1, <2>3 DEF PorDizer, PorEnviar
  <2>7. \A n \in Notificacoes : Chamado(n)' <=> Chamado(n)
    BY <2>1 DEF Chamado
  <2>6. \A v \in Workers, n \in Notificacoes : n \in tick'[v].lote => status[n] = "PENDING"
    BY <2>2, <2>4
  <2> QED
    BY <2>1, <2>2, <2>5, <2>6, <2>7 DEF Tranquila, Falhadas, NoLote
<1>10. ASSUME NEW w \in Workers, SemPendentes(w) \/ LerFalha(w) \/ LoteRebenta(w)
       PROVE  Tranquila'
  <2>1. /\ tick' = [tick EXCEPT ![w] = Livre] /\ tick[w].pc = "ler"
        /\ UNCHANGED <<envios, perdidos, status, roubos, avarias>>
    BY <1>1, <1>10 DEF SemPendentes, LerFalha, LoteRebenta, Finally, Ponto, linhas
  <2>2. /\ Tranquila /\ Sozinho' /\ tick'[w] = Livre
        /\ \A v \in Workers, n \in Notificacoes : Dito(v, n) => v = w
        /\ \A v \in Workers : \A n \in tick'[v].lote : v = w
    BY <1>8, <2>1
  <2>3. \A v \in Workers, n \in Notificacoes : ~Dito(v, n) /\ n \notin tick'[v].lote
    BY <2>1, <2>2, LivreTipo DEF Dito
  <2> QED
    BY <2>1, <2>2, <2>3 DEF Tranquila, Falhadas, NoLote, Chamado
<1>11. ASSUME NEW w \in Workers, NEW n \in Notificacoes,
              Entregar(w, n) \/ EmailPerdido(w, n) \/ EmailFalha(w, n)
       PROVE  Tranquila'
  <2>1. PICK x \in {"marcar", "falhar"} :
          /\ Passa(w, x) /\ Corrente(w, n) /\ tick[w].pc = "entregar"
          /\ UNCHANGED <<status, inFlight, roubos, avarias>>
          /\ \/ UNCHANGED <<envios, perdidos>>
             \/ /\ x = "marcar"
                /\ \A m \in Notificacoes : m # n => (Chamado(m)' => Chamado(m))
    BY <1>0, <1>11 DEF Entregar, EmailPerdido, EmailFalha, Ponto, lease, linhas, aoFalhar, Chamado
  <2> DEFINE r == [pc |-> x, lote |-> tick[w].lote]
  <2>2. tick' = [tick EXCEPT ![w] = r] /\ r.pc = x /\ r.lote = tick[w].lote
    BY <2>1 DEF Passa
  <2> HIDE DEF r
  <2>3. /\ Tranquila /\ Sozinho' /\ tick'[w] = r
        /\ \A v \in Workers : v # w => tick[v] = Livre /\ tick'[v] = Livre
        /\ \A v \in Workers, m \in Notificacoes : Dito(v, m) => v = w
        /\ \A v \in Workers : \A m \in tick'[v].lote : v = w
    BY <1>8, <2>1, <2>2
  <2>4. \A v \in Workers, m \in Notificacoes : ~Dito(v, m)
    BY <2>1, <2>3 DEF Dito
  <2>5. \A m \in Notificacoes : (Chamado(m)' => Chamado(m)) \/ (m = n /\ Dito(w, n)')
    BY <2>1, <2>2, <2>3 DEF Dito, Corrente, Chamado
  <2>6. \A v \in Workers : tick'[v].lote = tick[v].lote
    BY <2>2, <2>3
  <2>7. n \in tick[w].lote
    BY <2>1 DEF Corrente
  <2>8. Falhadas'
    BY <2>1, <2>3, <2>5, <2>6, <2>7 DEF Tranquila, Falhadas
  <2>9. NoLote'
    BY <2>3, <2>4, <2>5, <2>6 DEF Tranquila, NoLote
  <2> QED
    BY <2>3, <2>8, <2>9 DEF Tranquila
<1>12. ASSUME NEW w \in Workers, NEW n \in Notificacoes,
              NaoLigado(w, n) \/ MarcarEnviada(w, n) \/ MarcarFalhada(w, n)
       PROVE  Tranquila'
  <2> DEFINE s == [pc |-> "entregar", lote |-> tick[w].lote \ {n}]
  <2>1. /\ Corrente(w, n) /\ Seguinte(w, n) /\ UNCHANGED <<envios, perdidos, avarias>>
        /\ \/ tick[w].pc = "entregar" /\ status' = status
           \/ tick[w].pc = "marcar" /\ status' = [status EXCEPT ![n] = "SENT"]
           \/ tick[w].pc = "falhar" /\ status' = [status EXCEPT ![n] = "FAILED"]
    BY <1>12 DEF NaoLigado, MarcarEnviada, MarcarFalhada, Ponto, linhas
  <2>2. PICK r \in {s, Livre} :
          tick' = [tick EXCEPT ![w] = r] /\ roubos' = roubos /\ (r # Livre => inFlight' = inFlight)
    BY <2>1 DEF Seguinte, Finally, lease
  <2>3. r.lote \subseteq tick[w].lote \ {n}
    BY <2>2, LivreTipo
  <2> HIDE DEF s
  <2>4. /\ Tranquila /\ Sozinho' /\ tick'[w] = r
        /\ \A v \in Workers : v # w => tick[v] = Livre /\ tick'[v] = Livre
        /\ \A v \in Workers, m \in Notificacoes : Dito(v, m) => v = w
        /\ \A v \in Workers : \A m \in tick'[v].lote : v = w
    BY <1>8, <2>1, <2>2
  <2>5. \A v \in Workers, m \in Notificacoes :
          /\ Dito(v, m) => m = n /\ tick[w].pc = "marcar"
          /\ m \in tick'[v].lote => m # n /\ m \in tick[v].lote
    BY <2>1, <2>3, <2>4, UmaCorrente DEF Dito
  <2>6. /\ \A m \in Notificacoes : m # n => status'[m] = status[m]
        /\ \/ tick[w].pc = "entregar" /\ status'[n] = status[n]
           \/ tick[w].pc = "marcar" /\ status'[n] = "SENT"
           \/ tick[w].pc = "falhar" /\ status'[n] = "FAILED"
    BY <1>0, <2>1
  <2>7. n \in tick[w].lote
    BY <2>1 DEF Corrente
  <2>8. \A m \in Notificacoes : Chamado(m)' <=> Chamado(m)
    BY <2>1 DEF Chamado
  <2>9. Falhadas'
    BY <2>4, <2>5, <2>6, <2>7, <2>8 DEF Tranquila, Falhadas, NoLote
  <2>10. NoLote'
    BY <2>4, <2>5, <2>8 DEF Tranquila, NoLote
  <2> QED
    BY <2>4, <2>9, <2>10 DEF Tranquila
<1>13. ASSUME NEW w \in Workers, MarcarFalha(w)
       PROVE  Tranquila'
  BY <1>1, <1>13 DEF MarcarFalha
<1>14. CASE Queda
  BY <1>1, <1>14 DEF Queda
<1> QED
  BY <1>3, <1>4, <1>5, <1>6, <1>7, <1>9, <1>10, <1>11, <1>12, <1>13, <1>14
  DEF Next, Cron, Servir

(* What the row of a mail says is what the worker was told: SENT after an  *)
(* ok, FAILED without one as long as no statement failed and no lease was  *)
(* taken from a live tick, and PENDING without one that nobody is about to *)
(* write as long as no statement failed, however many ticks are alive.     *)
THEOREM EstadoVerdadeiroCorrect == Spec => []EstadoVerdadeiro
<1> DEFINE Inv == TypeOK /\ Conta /\ Enviada /\ PorDizer /\ Calma
<1>1. Init => Inv
  BY TypeInicio, ContaInicio, EnviadaInicio, PorDizerInicio, CalmaInicio
<1>2. Inv /\ [Next]_vars => Inv'
  BY TypePasso, ContaPasso, EnviadaPasso, PorDizerPasso, CalmaPasso
<1>3. Inv => EstadoVerdadeiro
  BY DEF Enviada, PorDizer, PorEnviar, Calma, Tranquila, Falhadas, EstadoVerdadeiro
<1> HIDE DEF Inv
<1> QED
  BY <1>1, <1>2, <1>3, PTL DEF Spec

-----------------------------------------------------------------------------
(***************************************************************************)
(* The daily alerts.  First the acts they are about: what is written about *)
(* an act that exists leaves it existing, of the same rule; its deadline   *)
(* only moves with reagendado.                                             *)
(***************************************************************************)
ActoTipo == {SemActo} \cup [estado : ActoEstados, regra : {{r} : r \in Regras},
                            prazo : Prazos \cup {Nulo}]
PedidoDeActo == [pc : {"livre", "avaliar", "agendar"}, novas : SUBSET Regras,
                 a : SUBSET Actos, d : Prazos \cup {Nulo}]
ActosTipos ==
  /\ ComplianceTypeOK
  /\ acto \in [Actos -> ActoTipo] /\ pedido \in [Pedidos -> PedidoDeActo]
  /\ \A p \in Pedidos : pedido[p].pc = "agendar" => \A a \in pedido[p].a : Existe(a)
ActosFicam ==
  /\ reagendado \subseteq reagendado'
  /\ \A a \in Actos : Existe(a) =>
       /\ Existe(a)' /\ acto'[a].regra = acto[a].regra
       /\ a \notin reagendado' => acto'[a].prazo = acto[a].prazo

LEMMA ActosInicio == ComplianceInit => ActosTipos
<1> SUFFICES ASSUME ComplianceInit PROVE ActosTipos
  OBVIOUS
<1>1. pedido \in [Pedidos -> PedidoDeActo] /\ \A p \in Pedidos : pedido[p].pc = "livre"
  BY DEF ComplianceInit, PedidoLivre, PedidoDeActo
<1>2. acto \in [Actos -> ActoTipo]
  BY DEF ComplianceInit, ActoTipo
<1>3. chave \in [Chaves -> [data : Prazos \cup {Nulo}, cumprida : BOOLEAN]]
  BY DEF ComplianceInit
<1>4. edicoes \in 0..MaxEdicoes /\ erros \in 0..MaxErros
  BY EdicoesAssumption DEF ComplianceInit
<1> QED
  BY <1>1, <1>2, <1>3, <1>4 DEF ComplianceInit, ActosTipos, ComplianceTypeOK, PedidoDeActo

(* What every step of the requests has to leave.                           *)
LEMMA ActosTiposDe ==
  ASSUME ActosTipos, acto' \in [Actos -> ActoTipo], pedido' \in [Pedidos -> PedidoDeActo],
         chave' \in [Chaves -> [data : Prazos \cup {Nulo}, cumprida : BOOLEAN]],
         reagendado' \in SUBSET Actos, edicoes' \in 0..MaxEdicoes,
         avaliacoesJuntas' \in BOOLEAN, erros' \in 0..MaxErros,
         \A a \in Actos : Existe(a) => Existe(a)',
         \A p \in Pedidos : pedido'[p].pc = "agendar" =>
           pedido'[p] = pedido[p] \/ \A a \in pedido'[p].a : Existe(a)
  PROVE  ActosTipos'
<1>1. \A a \in Actos : acto'[a] = SemActo
        \/ acto'[a] \in [estado : ActoEstados, regra : {{r} : r \in Regras},
                         prazo : Prazos \cup {Nulo}]
  BY DEF ActoTipo
<1>2. \A p \in Pedidos : pedido'[p].a \subseteq Actos
  BY DEF PedidoDeActo
<1>3. \A p \in Pedidos : pedido'[p].pc = "agendar" => \A a \in pedido'[p].a : Existe(a)'
  BY <1>2 DEF ActosTipos
<1> QED
  BY <1>1, <1>3 DEF ActosTipos, ComplianceTypeOK, PedidoDeActo

LEMMA PedidoMuda ==
  ASSUME ActosTipos, NEW p \in Pedidos, NEW r \in PedidoDeActo,
         pedido' = [pedido EXCEPT ![p] = r]
  PROVE  /\ pedido' \in [Pedidos -> PedidoDeActo] /\ pedido'[p] = r
         /\ \A q \in Pedidos : q # p => pedido'[q] = pedido[q]
BY DEF ActosTipos

LEMMA PedidoAcaba ==
  ASSUME ActosTipos, NEW p \in Pedidos, Acaba(p)
  PROVE  /\ pedido' \in [Pedidos -> PedidoDeActo] /\ pedido'[p] = PedidoLivre
         /\ pedido'[p].pc = "livre"
         /\ \A q \in Pedidos : q # p => pedido'[q] = pedido[q]
<1>1. PedidoLivre \in PedidoDeActo /\ PedidoLivre.pc = "livre"
  BY DEF PedidoLivre, PedidoDeActo
<1> QED
  BY <1>1, PedidoMuda DEF Acaba

(* GravarAvaliar: each new rule takes an id of its own.                    *)
LEMMA GravarFaz ==
  ASSUME ActosTipos, NEW p \in Pedidos, GravarAvaliar(p)
  PROVE  /\ acto' \in [Actos -> ActoTipo]
         /\ \A a \in Actos :
              \/ acto'[a] = acto[a]
              \/ /\ ~Existe(a) /\ Existe(a)'
                 /\ acto'[a].regra \subseteq pedido[p].novas
                 /\ acto'[a].regra # {}
         /\ \A a, b \in Actos :
              a # b /\ ~Existe(a) /\ ~Existe(b) /\ Existe(a)' /\ Existe(b)' =>
                acto'[a].regra # acto'[b].regra
<1> DEFINE novas == pedido[p].novas
<1>1. PICK f \in [novas -> PorCriar], prazo \in Prazos \cup {Nulo} :
        /\ \A r, s \in novas : f[r] = f[s] => r = s
        /\ acto' = [a \in Actos |->
                     IF \E r \in novas : f[r] = a
                     THEN [estado |-> "PENDENTE", regra |-> {r \in novas : f[r] = a},
                           prazo |-> prazo]
                     ELSE acto[a]]
  BY DEF GravarAvaliar
<1>2. novas \subseteq Regras /\ acto \in [Actos -> ActoTipo]
  BY DEF ActosTipos, PedidoDeActo
<1>3. ASSUME NEW a \in Actos, NEW r \in novas, f[r] = a
      PROVE  /\ acto'[a] \in ActoTipo /\ ~Existe(a) /\ Existe(a)'
             /\ acto'[a].regra = {r}
  <2>1. acto'[a] = [estado |-> "PENDENTE", regra |-> {s \in novas : f[s] = a},
                    prazo |-> prazo]
    BY <1>1, <1>3
  <2>2. {s \in novas : f[s] = a} = {r}
    BY <1>1, <1>3
  <2>3. a \in PorCriar
    BY <1>1, <1>3
  <2> QED
    BY <1>2, <2>1, <2>2, <2>3 DEF PorCriar, Existe, ActoTipo, ActoEstados, Abertos
<1>4. ASSUME NEW a \in Actos, ~\E r \in novas : f[r] = a
      PROVE  acto'[a] = acto[a] /\ acto'[a] \in ActoTipo
  BY <1>1, <1>2, <1>4
<1>5. acto' \in [Actos -> ActoTipo]
  <2>1. \A a \in Actos : acto'[a] \in ActoTipo
    BY <1>3, <1>4
  <2> QED
    BY <1>1, <2>1
<1>6. ASSUME NEW a \in Actos, NEW b \in Actos, a # b, ~Existe(a), ~Existe(b), Existe(a)',
             Existe(b)'
      PROVE  acto'[a].regra # acto'[b].regra
  <2>1. PICK r \in novas, s \in novas : f[r] = a /\ f[s] = b
    BY <1>4, <1>6 DEF Existe
  <2> QED
    BY <1>3, <1>6, <2>1
<1> QED
  BY <1>3, <1>4, <1>5, <1>6

LEMMA MarcarFaz ==
  ASSUME ActosTipos, NEW a \in Actos, NEW estado \in ActoEstados, Marcar(a, estado)
  PROVE  /\ acto' \in [Actos -> ActoTipo]
         /\ \A b \in Actos : /\ Existe(b)' <=> Existe(b)
                             /\ acto'[b].regra = acto[b].regra
                             /\ acto'[b].prazo = acto[b].prazo
<1>1. acto \in [Actos -> ActoTipo] /\ Existe(a)
  BY DEF ActosTipos, Marcar
<1>2. acto[a] \in [estado : ActoEstados, regra : {{r} : r \in Regras},
                   prazo : Prazos \cup {Nulo}]
  BY <1>1 DEF ActoTipo, Existe, SemActo
<1> DEFINE novo == [acto[a] EXCEPT !.estado = estado]
<1>3. /\ novo \in [estado : ActoEstados, regra : {{r} : r \in Regras},
                   prazo : Prazos \cup {Nulo}]
      /\ novo.estado = estado /\ novo.regra = acto[a].regra /\ novo.prazo = acto[a].prazo
  BY <1>2
<1>4. acto' = [acto EXCEPT ![a] = novo]
  BY DEF Marcar
<1> HIDE DEF novo
<1>5. acto' \in [Actos -> ActoTipo] /\ acto'[a] = novo /\ \A b \in Actos : b # a => acto'[b] = acto[b]
  BY <1>1, <1>3, <1>4 DEF ActoTipo
<1>6. estado # "nenhum"
  BY DEF ActoEstados, Abertos
<1> QED
  BY <1>1, <1>3, <1>5, <1>6 DEF Existe

LEMMA AgendarFaz ==
  ASSUME ActosTipos, NEW p \in Pedidos, AgendarActo(p)
  PROVE  /\ acto' \in [Actos -> ActoTipo]
         /\ \A b \in Actos : /\ Existe(b)' <=> Existe(b)
                             /\ acto'[b].regra = acto[b].regra
                             /\ b \notin reagendado' => acto'[b] = acto[b]
         /\ reagendado' \in SUBSET Actos /\ reagendado \subseteq reagendado'
<1>1. /\ acto \in [Actos -> ActoTipo] /\ pedido[p] \in PedidoDeActo
      /\ \A a \in pedido[p].a : Existe(a)
      /\ reagendado \in SUBSET Actos
      /\ reagendado' = reagendado \cup pedido[p].a
      /\ acto' = [a \in Actos |->
                    IF a \in pedido[p].a THEN [acto[a] EXCEPT !.prazo = pedido[p].d] ELSE acto[a]]
  BY DEF ActosTipos, ComplianceTypeOK, AgendarActo
<1>2. pedido[p].d \in Prazos \cup {Nulo} /\ pedido[p].a \subseteq Actos
  BY <1>1 DEF PedidoDeActo
<1>3. ASSUME NEW b \in Actos, b \in pedido[p].a
      PROVE  /\ acto'[b] \in ActoTipo
             /\ acto'[b].estado = acto[b].estado /\ acto'[b].regra = acto[b].regra
  <2>1. acto[b] \in [estado : ActoEstados, regra : {{r} : r \in Regras},
                     prazo : Prazos \cup {Nulo}]
    BY <1>1, <1>3 DEF ActoTipo, Existe, SemActo
  <2> DEFINE novo == [acto[b] EXCEPT !.prazo = pedido[p].d]
  <2>2. /\ novo \in [estado : ActoEstados, regra : {{r} : r \in Regras},
                     prazo : Prazos \cup {Nulo}]
        /\ novo.estado = acto[b].estado /\ novo.regra = acto[b].regra
    BY <1>2, <2>1
  <2>3. acto'[b] = novo
    BY <1>1, <1>3
  <2> HIDE DEF novo
  <2> QED
    BY <2>2, <2>3 DEF ActoTipo
<1>4. \A b \in Actos : b \notin pedido[p].a => acto'[b] = acto[b]
  BY <1>1
<1>5. acto' \in [Actos -> ActoTipo]
  <2>1. \A b \in Actos : acto'[b] \in ActoTipo
    BY <1>1, <1>3, <1>4
  <2> QED
    BY <1>1, <2>1
<1> QED
  BY <1>1, <1>2, <1>3, <1>4, <1>5 DEF Existe

(* So does every request, and the tables and requests keep their types.    *)
LEMMA ComplianceMuda ==
  ASSUME ActosTipos, ComplianceNext
  PROVE  ActosTipos' /\ ActosFicam
<1>0. /\ acto \in [Actos -> ActoTipo] /\ pedido \in [Pedidos -> PedidoDeActo]
      /\ chave \in [Chaves -> [data : Prazos \cup {Nulo}, cumprida : BOOLEAN]]
      /\ reagendado \in SUBSET Actos /\ edicoes \in 0..MaxEdicoes
      /\ avaliacoesJuntas \in BOOLEAN /\ erros \in 0..MaxErros
  BY DEF ActosTipos, ComplianceTypeOK
<1>1. /\ Edita => edicoes' \in 0..MaxEdicoes
      /\ Erro => erros' \in 0..MaxErros
  BY <1>0, EdicoesAssumption DEF Edita, Erro
<1>2. ASSUME UNCHANGED acto
      PROVE  \A a \in Actos : /\ Existe(a) => Existe(a)'
                              /\ acto'[a].regra = acto[a].regra /\ acto'[a].prazo = acto[a].prazo
  BY <1>2 DEF Existe
<1>3. ASSUME NEW p \in Pedidos, NEW detectados \in SUBSET Regras, LerAvaliar(p, detectados)
      PROVE  ActosTipos' /\ ActosFicam
  <2> DEFINE r == [PedidoLivre EXCEPT !.pc = "avaliar", !.novas = detectados \ existentes]
  <2>1. r \in PedidoDeActo /\ r.pc = "avaliar"
    BY DEF PedidoLivre, PedidoDeActo
  <2>2. pedido' = [pedido EXCEPT ![p] = r]
    BY <1>3 DEF LerAvaliar
  <2> HIDE DEF r
  <2>3. /\ pedido' \in [Pedidos -> PedidoDeActo] /\ pedido'[p] = r
        /\ \A q \in Pedidos : q # p => pedido'[q] = pedido[q]
    BY <2>1, <2>2, PedidoMuda
  <2>4. /\ UNCHANGED <<acto, chave, reagendado, edicoes, erros>>
        /\ avaliacoesJuntas' \in BOOLEAN
    BY <1>0, <1>3 DEF LerAvaliar, tabelas
  <2>5. ActosTipos'
    BY <1>0, <1>2, <2>1, <2>3, <2>4, ActosTiposDe
  <2> QED
    BY <1>2, <2>4, <2>5 DEF ActosFicam
<1>4. ASSUME NEW p \in Pedidos, GravarAvaliar(p)
      PROVE  ActosTipos' /\ ActosFicam
  <2>1. /\ pedido' \in [Pedidos -> PedidoDeActo] /\ pedido'[p].pc = "livre"
        /\ \A q \in Pedidos : q # p => pedido'[q] = pedido[q]
    BY <1>4, PedidoAcaba DEF GravarAvaliar
  <2>2. /\ acto' \in [Actos -> ActoTipo]
        /\ \A a \in Actos : Existe(a) => Existe(a)' /\ acto'[a] = acto[a]
    <3>1. /\ acto' \in [Actos -> ActoTipo]
          /\ \A a \in Actos : Existe(a) => acto'[a] = acto[a]
      BY <1>4, GravarFaz
    <3> QED
      BY <3>1 DEF Existe
  <2>3. UNCHANGED <<chave, reagendado, edicoes, avaliacoesJuntas, erros>>
    BY <1>4 DEF GravarAvaliar
  <2>4. ActosTipos'
    BY <1>0, <2>1, <2>2, <2>3, ActosTiposDe
  <2> QED
    BY <2>2, <2>3, <2>4 DEF ActosFicam
<1>5. ASSUME NEW p \in Pedidos, NEW a \in Actos, NEW c \in Chaves, NEW d \in Prazos,
             AgendarChave(p, a, c, d)
      PROVE  ActosTipos' /\ ActosFicam
  <2> DEFINE r == [PedidoLivre EXCEPT !.pc = "agendar", !.a = {a}, !.d = d]
  <2>1. r \in PedidoDeActo /\ r.a = {a}
    BY DEF PedidoLivre, PedidoDeActo
  <2>2. pedido' = [pedido EXCEPT ![p] = r] /\ Existe(a)
    BY <1>5 DEF AgendarChave
  <2> HIDE DEF r
  <2>3. /\ pedido' \in [Pedidos -> PedidoDeActo] /\ pedido'[p] = r
        /\ \A q \in Pedidos : q # p => pedido'[q] = pedido[q]
    BY <2>1, <2>2, PedidoMuda
  <2>4. /\ UNCHANGED <<acto, reagendado, avaliacoesJuntas, erros>> /\ edicoes' \in 0..MaxEdicoes
        /\ chave' \in [Chaves -> [data : Prazos \cup {Nulo}, cumprida : BOOLEAN]]
    BY <1>0, <1>1, <1>5 DEF AgendarChave, CriarChave
  <2>5. ActosTipos'
    BY <1>0, <1>2, <2>1, <2>2, <2>3, <2>4, ActosTiposDe
  <2> QED
    BY <1>2, <2>4, <2>5 DEF ActosFicam
<1>6. ASSUME NEW p \in Pedidos, AgendarActo(p)
      PROVE  ActosTipos' /\ ActosFicam
  <2>1. /\ pedido' \in [Pedidos -> PedidoDeActo] /\ pedido'[p].pc = "livre"
        /\ \A q \in Pedidos : q # p => pedido'[q] = pedido[q]
    BY <1>6, PedidoAcaba DEF AgendarActo
  <2>2. UNCHANGED <<chave, edicoes, avaliacoesJuntas, erros>>
    BY <1>6 DEF AgendarActo
  <2>3. ActosTipos'
    BY <1>0, <1>6, <2>1, <2>2, AgendarFaz, ActosTiposDe
  <2> QED
    BY <1>6, <2>3, AgendarFaz DEF ActosFicam
<1>7. ASSUME NEW p \in Pedidos, Falhar(p)
      PROVE  ActosTipos' /\ ActosFicam
  <2>1. /\ pedido' \in [Pedidos -> PedidoDeActo] /\ pedido'[p].pc = "livre"
        /\ \A q \in Pedidos : q # p => pedido'[q] = pedido[q]
    BY <1>7, PedidoAcaba DEF Falhar
  <2>2. UNCHANGED <<acto, chave, reagendado, edicoes, avaliacoesJuntas>> /\ erros' \in 0..MaxErros
    BY <1>1, <1>7 DEF Falhar, tabelas
  <2>3. ActosTipos'
    BY <1>0, <1>2, <2>1, <2>2, ActosTiposDe
  <2> QED
    BY <1>2, <2>2, <2>3 DEF ActosFicam
<1>8. ASSUME NEW a \in Actos, NEW estado \in ActoEstados, Marcar(a, estado)
      PROVE  ActosTipos' /\ ActosFicam
  <2>1. /\ UNCHANGED <<chave, reagendado, pedido, avaliacoesJuntas, erros>>
        /\ edicoes' \in 0..MaxEdicoes
    BY <1>1, <1>8 DEF Marcar
  <2>2. ActosTipos'
    BY <1>0, <1>8, <2>1, MarcarFaz, ActosTiposDe
  <2> QED
    BY <1>8, <2>1, <2>2, MarcarFaz DEF ActosFicam
<1>9. ASSUME NEW c \in Chaves, MarcarCumprida(c) \/ \E d \in Prazos : Add(c, d)
      PROVE  ActosTipos' /\ ActosFicam
  <2>1. UNCHANGED <<acto, reagendado, edicoes, pedido, avaliacoesJuntas, erros>>
    BY <1>9 DEF MarcarCumprida, Add
  <2>2. chave' \in [Chaves -> [data : Prazos \cup {Nulo}, cumprida : BOOLEAN]]
    <3>1. CASE MarcarCumprida(c)
      <4> DEFINE novo == [chave[c] EXCEPT !.cumprida = TRUE]
      <4>1. novo \in [data : Prazos \cup {Nulo}, cumprida : BOOLEAN]
        BY <1>0
      <4>2. chave' = [chave EXCEPT ![c] = novo]
        BY <3>1 DEF MarcarCumprida
      <4> HIDE DEF novo
      <4> QED
        BY <1>0, <4>1, <4>2
    <3>2. CASE \E d \in Prazos : Add(c, d)
      BY <1>0, <3>2 DEF Add, CriarChave
    <3> QED
      BY <1>9, <3>1, <3>2
  <2>3. ActosTipos'
    BY <1>0, <1>2, <2>1, <2>2, ActosTiposDe
  <2> QED
    BY <1>2, <2>1, <2>3 DEF ActosFicam
<1>10. {"CONCLUIDO", "EM_CURSO", "NAO_APLICAVEL"} \subseteq ActoEstados
  BY DEF ActoEstados, Abertos
<1> QED
  BY <1>3, <1>4, <1>5, <1>6, <1>7, <1>8, <1>9, <1>10
  DEF ComplianceNext, MarcarConcluido, MarcarEmCurso, MarcarInaplicavel

-----------------------------------------------------------------------------
(* While evaluations do not overlap, the one under way has to write rules  *)
(* that no act has yet.                                                    *)
Novas(p) == pedido[p].pc = "avaliar" =>
              \A a \in Actos : acto[a].regra \cap pedido[p].novas = {}
Unico == ~avaliacoesJuntas =>
  /\ \A p, q \in Pedidos : pedido[p].pc = "avaliar" /\ pedido[q].pc = "avaliar" => p = q
  /\ \A p \in Pedidos : Novas(p)
  /\ ActoUnico

LEMMA UnicoInicio == ComplianceInit => Unico
BY DEF ComplianceInit, Unico, Novas, ActoUnico, PedidoLivre, Existe, SemActo

(* Acts of the same rules, and no new evaluation.                          *)
LEMMA UnicoFica ==
  ASSUME Unico, UNCHANGED avaliacoesJuntas,
         \A a \in Actos : /\ Existe(a)' <=> Existe(a)
                          /\ acto'[a].regra = acto[a].regra,
         \A p \in Pedidos : pedido'[p].pc = "avaliar" => pedido'[p] = pedido[p]
  PROVE  Unico'
BY DEF Unico, Novas, ActoUnico

LEMMA UnicoPasso ==
  ASSUME ActosTipos, Unico, ComplianceNext
  PROVE  Unico'
<1>0. acto \in [Actos -> ActoTipo] /\ pedido \in [Pedidos -> PedidoDeActo]
  BY DEF ActosTipos
<1>1. UNCHANGED acto => \A a \in Actos : (Existe(a)' <=> Existe(a)) /\ acto'[a].regra = acto[a].regra
  BY DEF Existe
<1>2. ASSUME NEW p \in Pedidos, Acaba(p)
      PROVE  \A q \in Pedidos : pedido'[q].pc = "avaliar" => pedido'[q] = pedido[q]
  BY <1>2, PedidoAcaba
<1>3. ASSUME NEW p \in Pedidos, NEW detectados \in SUBSET Regras, LerAvaliar(p, detectados)
      PROVE  Unico'
  <2> DEFINE novas == detectados \ existentes
  <2>1. /\ acto' = acto
        /\ avaliacoesJuntas' = (avaliacoesJuntas \/ \E q \in Pedidos : pedido[q].pc = "avaliar")
        /\ pedido' = [pedido EXCEPT ![p] = [PedidoLivre EXCEPT !.pc = "avaliar", !.novas = novas]]
    BY <1>3 DEF LerAvaliar, tabelas
  <2>2. /\ pedido'[p].novas = novas
        /\ \A q \in Pedidos : q # p => pedido'[q] = pedido[q]
    BY <1>0, <2>1 DEF PedidoLivre
  <2>3. \A a \in Actos : acto[a].regra \cap novas = {}
    BY DEF existentes
  <2> HIDE DEF novas
  <2>4. CASE avaliacoesJuntas'
    BY <2>4 DEF Unico
  <2>5. CASE ~avaliacoesJuntas'
    <3>1. ~avaliacoesJuntas /\ \A q \in Pedidos : pedido[q].pc # "avaliar"
      BY <2>1, <2>5
    <3>2. \A q \in Pedidos : q # p => pedido'[q].pc # "avaliar"
      BY <2>2, <3>1
    <3>3. Novas(p)' /\ ActoUnico'
      BY <1>1, <2>1, <2>2, <2>3, <3>1 DEF Novas, Unico, ActoUnico
    <3> QED
      BY <3>2, <3>3 DEF Unico, Novas
  <2> QED
    BY <2>4, <2>5
<1>4. ASSUME NEW p \in Pedidos, GravarAvaliar(p)
      PROVE  Unico'
  <2>1. /\ pedido[p].pc = "avaliar" /\ UNCHANGED avaliacoesJuntas /\ Acaba(p)
    BY <1>4 DEF GravarAvaliar
  <2>2. CASE avaliacoesJuntas
    BY <2>1, <2>2 DEF Unico
  <2>3. CASE ~avaliacoesJuntas
    <3>1. \A q \in Pedidos : pedido'[q].pc # "avaliar"
      BY <2>1, <2>3, PedidoAcaba DEF Unico
    <3>2. /\ \A a \in Actos : acto[a].regra \cap pedido[p].novas = {}
          /\ ActoUnico
      BY <2>1, <2>3 DEF Unico, Novas
    <3>3. ASSUME NEW a \in Actos, NEW b \in Actos, a # b, Existe(a)', Existe(b)'
          PROVE  acto'[a].regra # acto'[b].regra
      <4>1. \A c \in Actos : \/ acto'[c] = acto[c]
                             \/ /\ ~Existe(c) /\ acto'[c].regra \subseteq pedido[p].novas
                                /\ acto'[c].regra # {}
        BY <1>4, GravarFaz
      <4>2. CASE Existe(a) /\ Existe(b)
        BY <2>3, <3>2, <3>3, <4>1, <4>2 DEF ActoUnico
      <4>3. CASE ~Existe(a) /\ ~Existe(b)
        BY <1>4, <3>3, <4>3, GravarFaz
      <4>4. ASSUME NEW c \in {a, b}, NEW d \in {a, b}, Existe(c), ~Existe(d)
            PROVE  acto'[c].regra # acto'[d].regra
        <5>1. acto'[c] = acto[c] /\ acto'[d] # acto[d]
          BY <3>3, <4>1, <4>4 DEF Existe
        <5>2. acto'[d].regra \subseteq pedido[p].novas /\ acto'[d].regra # {}
          BY <4>1, <5>1
        <5> QED
          BY <3>2, <5>1, <5>2
      <4> QED
        BY <4>2, <4>3, <4>4
    <3> QED
      BY <3>1, <3>3 DEF Unico, Novas, ActoUnico
  <2> QED
    BY <2>2, <2>3
<1>5. ASSUME NEW p \in Pedidos, NEW a \in Actos, NEW c \in Chaves, NEW d \in Prazos,
             AgendarChave(p, a, c, d)
      PROVE  Unico'
  <2>1. /\ UNCHANGED <<acto, avaliacoesJuntas>>
        /\ pedido' = [pedido EXCEPT ![p] = [PedidoLivre EXCEPT !.pc = "agendar", !.a = {a}, !.d = d]]
    BY <1>5 DEF AgendarChave
  <2>2. \A q \in Pedidos : pedido'[q].pc = "avaliar" => pedido'[q] = pedido[q]
    BY <1>0, <2>1 DEF PedidoLivre
  <2> QED
    BY <1>1, <2>1, <2>2, UnicoFica
<1>6. ASSUME NEW p \in Pedidos, AgendarActo(p)
      PROVE  Unico'
  BY <1>2, <1>6, AgendarFaz, UnicoFica DEF AgendarActo
<1>7. ASSUME NEW p \in Pedidos, Falhar(p)
      PROVE  Unico'
  BY <1>1, <1>2, <1>7, UnicoFica DEF Falhar, tabelas
<1>8. ASSUME NEW a \in Actos, NEW estado \in ActoEstados, Marcar(a, estado)
      PROVE  Unico'
  BY <1>8, MarcarFaz, UnicoFica DEF Marcar
<1>9. ASSUME NEW c \in Chaves, MarcarCumprida(c) \/ \E d \in Prazos : Add(c, d)
      PROVE  Unico'
  BY <1>1, <1>9, UnicoFica DEF MarcarCumprida, Add
<1>10. {"CONCLUIDO", "EM_CURSO", "NAO_APLICAVEL"} \subseteq ActoEstados
  BY DEF ActoEstados, Abertos
<1> QED
  BY <1>3, <1>4, <1>5, <1>6, <1>7, <1>8, <1>9, <1>10
  DEF ComplianceNext, MarcarConcluido, MarcarEmCurso, MarcarInaplicavel
-----------------------------------------------------------------------------
(* The executions: what each has left to serve, and what it is serving.    *)
ItemChave == [chave : Chaves, dias : AlertaDias]
ItemActo == [acto : Actos, bucket : Buckets]
OrdemChaves == [pc : {"chaves", "emitirChave"}, resto : SUBSET ItemChave, alvo : SUBSET ItemChave]
OrdemActos == [pc : {"actos", "emitirActo"}, resto : SUBSET ItemActo, alvo : SUBSET ItemActo]
OrdemTipo == {Parada} \cup OrdemChaves \cup OrdemActos
Alvo(e) ==
  /\ exec[e].pc \in {"chaves", "actos"} => exec[e].alvo = {}
  /\ exec[e].pc \in {"emitirChave", "emitirActo"} => \E x \in exec[e].alvo : exec[e].alvo = {x}
ExecTipos ==
  /\ hoje \in Dias
  /\ exec \in [Execucoes -> OrdemTipo] /\ lidas \in [Execucoes -> SUBSET ItemChave]
  /\ emitidos \in [Chaves -> [AlertaDias -> Nat]]
  /\ escalao \in [Actos -> Buckets \cup {"nenhum"}]
  /\ repetidos \in BOOLEAN /\ sobrepostas \in BOOLEAN
  /\ \A e \in Execucoes : Alvo(e)

LEMMA OrdemFases ==
  ASSUME ExecTipos, NEW e \in Execucoes
  PROVE  /\ exec[e].pc \in {"parada", "chaves", "emitirChave", "actos", "emitirActo"}
         /\ exec[e].pc \in {"chaves", "emitirChave"} => exec[e] \in OrdemChaves
         /\ exec[e].pc \in {"actos", "emitirActo"} => exec[e] \in OrdemActos
         /\ exec[e] = Parada <=> exec[e].pc = "parada"
<1>1. exec[e] \in OrdemTipo
  BY DEF ExecTipos
<1> QED
  BY <1>1 DEF OrdemTipo, OrdemChaves, OrdemActos, Parada

LEMMA AvancaFaz ==
  ASSUME ExecTipos, NEW e \in Execucoes, NEW pc, NEW resto, NEW alvo, Avanca(e, pc, resto, alvo)
  PROVE  /\ exec'[e].pc = pc /\ exec'[e].resto = resto /\ exec'[e].alvo = alvo
         /\ \A f \in Execucoes : f # e => exec'[f] = exec[f]
         /\ (\/ pc \in {"chaves", "emitirChave"} /\ resto \subseteq ItemChave /\ alvo \subseteq ItemChave
             \/ pc \in {"actos", "emitirActo"} /\ resto \subseteq ItemActo /\ alvo \subseteq ItemActo) =>
              exec' \in [Execucoes -> OrdemTipo]
<1> DEFINE r == [pc |-> pc, resto |-> resto, alvo |-> alvo]
<1>1. r.pc = pc /\ r.resto = resto /\ r.alvo = alvo
  OBVIOUS
<1>2. (\/ pc \in {"chaves", "emitirChave"} /\ resto \subseteq ItemChave /\ alvo \subseteq ItemChave
       \/ pc \in {"actos", "emitirActo"} /\ resto \subseteq ItemActo /\ alvo \subseteq ItemActo) =>
        r \in OrdemTipo
  BY DEF OrdemTipo, OrdemChaves, OrdemActos
<1>3. exec' = [exec EXCEPT ![e] = r] /\ exec \in [Execucoes -> OrdemTipo]
  BY DEF Avanca, ExecTipos
<1> HIDE DEF r
<1>4. exec'[e] = r /\ \A f \in Execucoes : f # e => exec'[f] = exec[f]
  BY <1>3
<1>5. r \in OrdemTipo => exec' \in [Execucoes -> OrdemTipo]
  BY <1>3
<1> QED
  BY <1>1, <1>2, <1>4, <1>5

LEMMA PararFaz ==
  ASSUME ExecTipos, NEW e \in Execucoes, Parar(e)
  PROVE  /\ exec'[e] = Parada /\ exec'[e].pc = "parada" /\ exec' \in [Execucoes -> OrdemTipo]
         /\ lidas'[e] = {} /\ lidas' \in [Execucoes -> SUBSET ItemChave]
         /\ \A f \in Execucoes : f # e => exec'[f] = exec[f] /\ lidas'[f] = lidas[f]
<1>1. Parada \in OrdemTipo /\ Parada.pc = "parada"
  BY DEF OrdemTipo, Parada
<1>2. exec \in [Execucoes -> OrdemTipo] /\ lidas \in [Execucoes -> SUBSET ItemChave]
  BY DEF ExecTipos
<1> QED
  BY <1>1, <1>2 DEF Parar

(* What an execution does: it reads the key dates, serves one, reads the   *)
(* acts, serves one, or stops.  Every item it has to serve is one it read. *)
LeChaves(e) ==
  /\ exec[e] = Parada /\ exec'[e].pc = "chaves" /\ exec'[e].alvo = {}
  /\ lidas'[e] = exec'[e].resto /\ exec'[e].resto \subseteq ItemChave
  /\ UNCHANGED <<emitidos, escalao, repetidos>>
  /\ sobrepostas' = (sobrepostas \/ \E f \in Execucoes : exec[f] # Parada)
ServeChave(e) ==
  /\ lidas'[e] = lidas[e] /\ UNCHANGED <<escalao, repetidos, sobrepostas>>
  /\ \E x \in ItemChave :
       \/ /\ exec[e].pc = "chaves" /\ x \in exec[e].resto /\ exec'[e].resto = exec[e].resto \ {x}
          /\ emitidos' = emitidos
          /\ \/ jaEmitido(x) /\ exec'[e].pc = "chaves" /\ exec'[e].alvo = {}
             \/ ~jaEmitido(x) /\ exec'[e].pc = "emitirChave" /\ exec'[e].alvo = {x}
       \/ /\ exec[e].pc = "emitirChave" /\ exec[e].alvo = {x} /\ exec'[e].pc = "chaves"
          /\ exec'[e].alvo = {} /\ exec'[e].resto = exec[e].resto
          /\ emitidos' = [emitidos EXCEPT ![x.chave] =
                         [emitidos[x.chave] EXCEPT ![x.dias] = emitidos[x.chave][x.dias] + 1]]
LeActos(e) ==
  /\ exec[e].pc = "chaves" /\ exec[e].resto = {} /\ exec[e].alvo = {}
  /\ exec'[e].pc = "actos" /\ exec'[e].alvo = {}
  /\ exec'[e].resto \subseteq ItemActo
  /\ \A x \in exec'[e].resto :
       /\ Existe(x.acto) /\ acto[x.acto].prazo \in hoje..(hoje + JANELA)
       /\ x.bucket = bucket(acto[x.acto].prazo - hoje)
  /\ lidas'[e] = lidas[e] /\ UNCHANGED <<emitidos, escalao, repetidos, sobrepostas>>
ServeActo(e) ==
  /\ lidas'[e] = lidas[e] /\ UNCHANGED <<emitidos, sobrepostas>>
  /\ \E x \in ItemActo :
       \/ /\ exec[e].pc = "actos" /\ x \in exec[e].resto /\ exec'[e].resto = exec[e].resto \ {x}
          /\ UNCHANGED <<escalao, repetidos>>
          /\ \/ exec'[e].pc = "actos" /\ exec'[e].alvo = {}
             \/ ~jaNoEscalao(x) /\ exec'[e].pc = "emitirActo" /\ exec'[e].alvo = {x}
       \/ /\ exec[e].pc = "emitirActo" /\ exec[e].alvo = {x} /\ exec'[e].pc = "actos"
          /\ exec'[e].alvo = {} /\ exec'[e].resto = exec[e].resto
          /\ escalao' = [escalao EXCEPT ![x.acto] = x.bucket]
          /\ repetidos' = (repetidos \/ escalao[x.acto] = x.bucket)
Para(e) ==
  /\ exec[e] # Parada /\ exec'[e] = Parada /\ lidas'[e] = {}
  /\ UNCHANGED <<emitidos, escalao, repetidos, sobrepostas>>

LEMMA EmitidosMuda ==
  ASSUME ExecTipos, NEW x \in ItemChave,
         emitidos' = [emitidos EXCEPT ![x.chave] =
                         [emitidos[x.chave] EXCEPT ![x.dias] = emitidos[x.chave][x.dias] + 1]]
  PROVE  /\ emitidos' \in [Chaves -> [AlertaDias -> Nat]]
         /\ \A c \in Chaves, d \in AlertaDias :
              emitidos'[c][d] = IF c = x.chave /\ d = x.dias THEN emitidos[c][d] + 1
                                                            ELSE emitidos[c][d]
<1>1. x.chave \in Chaves /\ x.dias \in AlertaDias /\ emitidos \in [Chaves -> [AlertaDias -> Nat]]
  BY DEF ItemChave, ExecTipos
<1> DEFINE linha == [emitidos[x.chave] EXCEPT ![x.dias] = emitidos[x.chave][x.dias] + 1]
<1>2. /\ linha \in [AlertaDias -> Nat]
      /\ \A d \in AlertaDias : linha[d] = IF d = x.dias THEN emitidos[x.chave][d] + 1
                                                        ELSE emitidos[x.chave][d]
  BY <1>1
<1>3. emitidos' = [emitidos EXCEPT ![x.chave] = linha]
  OBVIOUS
<1> HIDE DEF linha
<1>4. emitidos' \in [Chaves -> [AlertaDias -> Nat]]
  BY <1>1, <1>2, <1>3
<1>5. \A c \in Chaves : emitidos'[c] = IF c = x.chave THEN linha ELSE emitidos[c]
  BY <1>1, <1>3
<1> QED
  BY <1>2, <1>4, <1>5

(* Each step of an execution is one of those, and leaves the other         *)
(* executions, the acts and the key dates as they are.                     *)
LEMMA ExecutarFaz ==
  ASSUME ActosTipos, ExecTipos, NEW e \in Execucoes, Executar(e)
  PROVE  /\ LeChaves(e) \/ ServeChave(e) \/ LeActos(e) \/ ServeActo(e) \/ Para(e)
         /\ \A f \in Execucoes : f # e => exec'[f] = exec[f] /\ lidas'[f] = lidas[f]
         /\ exec' \in [Execucoes -> OrdemTipo] /\ lidas' \in [Execucoes -> SUBSET ItemChave]
         /\ UNCHANGED <<tabelas, pedido, avaliacoesJuntas, hoje>> /\ erros' \in 0..MaxErros
<1>0. /\ exec \in [Execucoes -> OrdemTipo] /\ lidas \in [Execucoes -> SUBSET ItemChave]
      /\ erros \in 0..MaxErros /\ Alvo(e) /\ chave \in [Chaves -> [data : Prazos \cup {Nulo}, cumprida : BOOLEAN]]
      /\ hoje \in Dias /\ acto \in [Actos -> ActoTipo]
  BY DEF ExecTipos, ActosTipos, ComplianceTypeOK
<1> DEFINE Alheio == /\ \A f \in Execucoes : f # e => exec'[f] = exec[f] /\ lidas'[f] = lidas[f]
                     /\ exec' \in [Execucoes -> OrdemTipo]
                     /\ lidas' \in [Execucoes -> SUBSET ItemChave]
                     /\ UNCHANGED <<tabelas, pedido, avaliacoesJuntas, hoje>>
                     /\ erros' \in 0..MaxErros
<1>1. UNCHANGED compliance =>
        UNCHANGED <<tabelas, pedido, avaliacoesJuntas>> /\ erros' \in 0..MaxErros
  BY <1>0 DEF compliance
<1>2. UNCHANGED lidas => /\ lidas' \in [Execucoes -> SUBSET ItemChave]
                         /\ \A f \in Execucoes : lidas'[f] = lidas[f]
  BY <1>0
<1>3. ASSUME LerChaves(e) PROVE LeChaves(e) /\ Alheio
  <2> DEFINE disparam == {x \in vencidas : x.dias \in AlertaDias}
  <2>1. disparam \subseteq ItemChave
    BY DEF vencidas, ItemChave
  <2>2. /\ exec[e] = Parada /\ Avanca(e, "chaves", disparam, {})
        /\ lidas' = [lidas EXCEPT ![e] = disparam]
        /\ sobrepostas' = (sobrepostas \/ \E f \in Execucoes : exec[f] # Parada)
        /\ UNCHANGED <<compliance, hoje, emitidos, escalao, repetidos>>
    BY <1>3 DEF LerChaves
  <2> HIDE DEF disparam
  <2>3. /\ exec'[e].pc = "chaves" /\ exec'[e].resto = disparam /\ exec'[e].alvo = {}
        /\ \A f \in Execucoes : f # e => exec'[f] = exec[f]
        /\ exec' \in [Execucoes -> OrdemTipo]
    BY <2>1, <2>2, AvancaFaz
  <2>4. /\ lidas'[e] = disparam /\ lidas' \in [Execucoes -> SUBSET ItemChave]
        /\ \A f \in Execucoes : f # e => lidas'[f] = lidas[f]
    BY <1>0, <2>1, <2>2
  <2> QED
    BY <1>1, <2>1, <2>2, <2>3, <2>4 DEF LeChaves
<1>4. ASSUME SaltarChave(e) \/ VerChave(e) PROVE ServeChave(e) /\ Alheio
  <2>1. PICK x \in exec[e].resto :
          \/ jaEmitido(x) /\ Avanca(e, "chaves", exec[e].resto \ {x}, {})
          \/ ~jaEmitido(x) /\ Avanca(e, "emitirChave", exec[e].resto \ {x}, {x})
    BY <1>4 DEF SaltarChave, VerChave
  <2>2. /\ exec[e].pc = "chaves"
        /\ UNCHANGED <<compliance, hoje, lidas, emitidos, escalao, repetidos, sobrepostas>>
    BY <1>4 DEF SaltarChave, VerChave
  <2>3. exec[e].resto \subseteq ItemChave /\ x \in ItemChave
    BY <2>2, OrdemFases DEF OrdemChaves
  <2>4. /\ exec'[e].resto = exec[e].resto \ {x}
        /\ \/ jaEmitido(x) /\ exec'[e].pc = "chaves" /\ exec'[e].alvo = {}
           \/ ~jaEmitido(x) /\ exec'[e].pc = "emitirChave" /\ exec'[e].alvo = {x}
        /\ \A f \in Execucoes : f # e => exec'[f] = exec[f]
        /\ exec' \in [Execucoes -> OrdemTipo]
    <3>1. CASE jaEmitido(x) /\ Avanca(e, "chaves", exec[e].resto \ {x}, {})
      BY <2>3, <3>1, AvancaFaz
    <3>2. CASE ~jaEmitido(x) /\ Avanca(e, "emitirChave", exec[e].resto \ {x}, {x})
      BY <2>3, <3>2, AvancaFaz
    <3> QED
      BY <2>1, <3>1, <3>2
  <2> QED
    BY <1>1, <1>2, <2>2, <2>3, <2>4 DEF ServeChave
<1>5. ASSUME EmitirChave(e) PROVE ServeChave(e) /\ Alheio
  <2>1. /\ exec[e].pc = "emitirChave" /\ Avanca(e, "chaves", exec[e].resto, {})
        /\ UNCHANGED <<compliance, hoje, lidas, escalao, repetidos, sobrepostas>>
    BY <1>5 DEF EmitirChave
  <2>2. exec[e].resto \subseteq ItemChave /\ exec[e].alvo \subseteq ItemChave
    BY <2>1, OrdemFases DEF OrdemChaves
  <2>3. PICK x \in exec[e].alvo : exec[e].alvo = {x}
    BY <1>0, <2>1 DEF Alvo
  <2>4. emitidos' = [emitidos EXCEPT ![x.chave] =
                       [emitidos[x.chave] EXCEPT ![x.dias] = emitidos[x.chave][x.dias] + 1]]
    BY <1>5, <2>3 DEF EmitirChave
  <2>5. /\ exec'[e].pc = "chaves" /\ exec'[e].resto = exec[e].resto /\ exec'[e].alvo = {}
        /\ \A f \in Execucoes : f # e => exec'[f] = exec[f]
        /\ exec' \in [Execucoes -> OrdemTipo]
    BY <2>1, <2>2, AvancaFaz
  <2> QED
    BY <1>1, <1>2, <2>1, <2>2, <2>3, <2>4, <2>5 DEF ServeChave
<1>6. ASSUME LerActos(e) PROVE LeActos(e) /\ Alheio
  <2> DEFINE emJanela == {a \in Actos : acto[a].estado \in Abertos
                                         /\ acto[a].prazo \in hoje..(hoje + JANELA)}
             itens == {[acto |-> a, bucket |-> bucket(acto[a].prazo - hoje)] : a \in emJanela}
  <2>1. ASSUME NEW x \in itens
        PROVE  /\ x \in ItemActo /\ Existe(x.acto)
               /\ acto[x.acto].prazo \in hoje..(hoje + JANELA)
               /\ x.bucket = bucket(acto[x.acto].prazo - hoje)
    <3>1. PICK a \in emJanela : x = [acto |-> a, bucket |-> bucket(acto[a].prazo - hoje)]
      OBVIOUS
    <3>2. \A d : bucket(d) \in Buckets
      BY DEF bucket, Buckets
    <3> QED
      BY <3>1, <3>2 DEF ItemActo, Existe, Abertos
  <2>2. /\ exec[e].pc = "chaves" /\ exec[e].resto = {} /\ Avanca(e, "actos", itens, {})
        /\ UNCHANGED <<compliance, hoje, lidas, emitidos, escalao, repetidos, sobrepostas>>
    BY <1>6 DEF LerActos
  <2> HIDE DEF itens
  <2>3. /\ exec'[e].pc = "actos" /\ exec'[e].resto = itens /\ exec'[e].alvo = {}
        /\ \A f \in Execucoes : f # e => exec'[f] = exec[f]
        /\ exec' \in [Execucoes -> OrdemTipo]
    BY <2>1, <2>2, AvancaFaz
  <2>4. exec[e].alvo = {}
    BY <1>0, <2>2 DEF Alvo
  <2>5. LeActos(e)
    BY <2>1, <2>2, <2>3, <2>4 DEF LeActos
  <2> QED
    BY <1>1, <1>2, <2>2, <2>3, <2>5
<1>7. ASSUME SaltarActo(e) \/ VerActo(e) PROVE ServeActo(e) /\ Alheio
  <2>1. PICK x \in exec[e].resto :
          \/ Avanca(e, "actos", exec[e].resto \ {x}, {})
          \/ ~jaNoEscalao(x) /\ Avanca(e, "emitirActo", exec[e].resto \ {x}, {x})
    BY <1>7 DEF SaltarActo, VerActo
  <2>2. /\ exec[e].pc = "actos"
        /\ UNCHANGED <<compliance, hoje, lidas, emitidos, escalao, repetidos, sobrepostas>>
    BY <1>7 DEF SaltarActo, VerActo
  <2>3. exec[e].resto \subseteq ItemActo /\ x \in ItemActo
    BY <2>2, OrdemFases DEF OrdemActos
  <2>4. /\ exec'[e].resto = exec[e].resto \ {x}
        /\ \/ exec'[e].pc = "actos" /\ exec'[e].alvo = {}
           \/ ~jaNoEscalao(x) /\ exec'[e].pc = "emitirActo" /\ exec'[e].alvo = {x}
        /\ \A f \in Execucoes : f # e => exec'[f] = exec[f]
        /\ exec' \in [Execucoes -> OrdemTipo]
    <3>1. CASE Avanca(e, "actos", exec[e].resto \ {x}, {})
      BY <2>3, <3>1, AvancaFaz
    <3>2. CASE ~jaNoEscalao(x) /\ Avanca(e, "emitirActo", exec[e].resto \ {x}, {x})
      BY <2>3, <3>2, AvancaFaz
    <3> QED
      BY <2>1, <3>1, <3>2
  <2> QED
    BY <1>1, <1>2, <2>2, <2>3, <2>4 DEF ServeActo
<1>8. ASSUME EmitirActo(e) PROVE ServeActo(e) /\ Alheio
  <2>1. /\ exec[e].pc = "emitirActo" /\ Avanca(e, "actos", exec[e].resto, {})
        /\ UNCHANGED <<compliance, hoje, lidas, emitidos, sobrepostas>>
    BY <1>8 DEF EmitirActo
  <2>2. exec[e].resto \subseteq ItemActo /\ exec[e].alvo \subseteq ItemActo
    BY <2>1, OrdemFases DEF OrdemActos
  <2>3. PICK x \in exec[e].alvo : exec[e].alvo = {x}
    BY <1>0, <2>1 DEF Alvo
  <2>4. /\ escalao' = [escalao EXCEPT ![x.acto] = x.bucket]
        /\ repetidos' = (repetidos \/ escalao[x.acto] = x.bucket)
    BY <1>8, <2>3 DEF EmitirActo
  <2>5. /\ exec'[e].pc = "actos" /\ exec'[e].resto = exec[e].resto /\ exec'[e].alvo = {}
        /\ \A f \in Execucoes : f # e => exec'[f] = exec[f]
        /\ exec' \in [Execucoes -> OrdemTipo]
    BY <2>1, <2>2, AvancaFaz
  <2> QED
    BY <1>1, <1>2, <2>1, <2>2, <2>3, <2>4, <2>5 DEF ServeActo
<1>9. ASSUME Fim(e) \/ ExecucaoFalha(e) PROVE Para(e) /\ Alheio
  <2>1. /\ exec[e] # Parada /\ Parar(e)
        /\ UNCHANGED <<tabelas, pedido, avaliacoesJuntas, hoje, emitidos, escalao, repetidos,
                       sobrepostas>>
        /\ erros' \in 0..MaxErros
    <3>1. CASE Fim(e)
      BY <1>1, <3>1, OrdemFases DEF Fim, compliance
    <3>2. CASE ExecucaoFalha(e)
      BY <1>0, <3>2, EdicoesAssumption DEF ExecucaoFalha, Erro
    <3> QED
      BY <1>9, <3>1, <3>2
  <2> QED
    BY <2>1, PararFaz DEF Para
<1> QED
  BY <1>3, <1>4, <1>5, <1>6, <1>7, <1>8, <1>9 DEF Executar

LEMMA ExecInicio == AlertasInit => ExecTipos
<1> SUFFICES ASSUME AlertasInit PROVE ExecTipos
  OBVIOUS
<1>1. /\ exec \in [Execucoes -> OrdemTipo] /\ \A e \in Execucoes : exec[e].pc = "parada"
      /\ lidas \in [Execucoes -> SUBSET ItemChave]
  BY DEF AlertasInit, OrdemTipo, Parada
<1>2. \A e \in Execucoes : Alvo(e)
  BY <1>1 DEF Alvo
<1>3. hoje \in Dias /\ emitidos \in [Chaves -> [AlertaDias -> Nat]]
  BY DiaAssumption DEF AlertasInit, Dias
<1>4. escalao \in [Actos -> Buckets \cup {"nenhum"}] /\ repetidos \in BOOLEAN /\ sobrepostas \in BOOLEAN
  BY DEF AlertasInit
<1> QED
  BY <1>1, <1>2, <1>3, <1>4 DEF ExecTipos

(* A day of the key dates goes by, and nothing else of the executions.     *)
LEMMA DiaFaz ==
  ASSUME ExecTipos, NovoDia
  PROVE  UNCHANGED <<compliance, alertas>> /\ hoje' \in Dias /\ hoje' = hoje + 1 /\ hoje \in Int
BY DiaAssumption DEF NovoDia, ExecTipos, Dias

LEMMA ExecPasso ==
  ASSUME ActosTipos, ExecTipos, NEW e \in Execucoes, Executar(e)
  PROVE  ExecTipos'
<1>0. /\ hoje \in Dias /\ emitidos \in [Chaves -> [AlertaDias -> Nat]]
      /\ escalao \in [Actos -> Buckets \cup {"nenhum"}]
      /\ repetidos \in BOOLEAN /\ sobrepostas \in BOOLEAN
      /\ \A f \in Execucoes : Alvo(f)
  BY DEF ExecTipos
<1>1. /\ LeChaves(e) \/ ServeChave(e) \/ LeActos(e) \/ ServeActo(e) \/ Para(e)
      /\ \A f \in Execucoes : f # e => exec'[f] = exec[f]
      /\ exec' \in [Execucoes -> OrdemTipo] /\ lidas' \in [Execucoes -> SUBSET ItemChave]
      /\ hoje' \in Dias
  BY <1>0, ExecutarFaz
<1>2. emitidos' \in [Chaves -> [AlertaDias -> Nat]]
  <2>1. CASE UNCHANGED emitidos
    BY <1>0, <2>1
  <2>2. CASE ServeChave(e)
    BY <1>0, <2>2, EmitidosMuda DEF ServeChave
  <2> QED
    BY <1>1, <2>1, <2>2 DEF LeChaves, LeActos, ServeActo, Para
<1>3. escalao' \in [Actos -> Buckets \cup {"nenhum"}] /\ repetidos' \in BOOLEAN
  <2>1. CASE UNCHANGED <<escalao, repetidos>>
    BY <1>0, <2>1
  <2>2. CASE ServeActo(e)
    BY <1>0, <2>2 DEF ServeActo, ItemActo
  <2> QED
    BY <1>1, <2>1, <2>2 DEF LeChaves, LeActos, ServeChave, Para
<1>4. sobrepostas' \in BOOLEAN
  BY <1>0, <1>1 DEF LeChaves, LeActos, ServeChave, ServeActo, Para
<1>5. Alvo(e)'
  <2>1. Parada.pc = "parada"
    BY DEF Parada
  <2> QED
    BY <1>1, <2>1 DEF LeChaves, LeActos, ServeChave, ServeActo, Para, Alvo
<1>6. \A f \in Execucoes : Alvo(f)'
  BY <1>0, <1>1, <1>5 DEF Alvo
<1> QED
  BY <1>1, <1>2, <1>3, <1>4, <1>6 DEF ExecTipos

LEMMA AlertasTiposPasso ==
  ActosTipos /\ ExecTipos /\ [AlertasNext]_alertasVars => ActosTipos' /\ ExecTipos'
<1> SUFFICES ASSUME ActosTipos, ExecTipos, [AlertasNext]_alertasVars
             PROVE  ActosTipos' /\ ExecTipos'
  OBVIOUS
<1>1. UNCHANGED <<hoje, alertas>> => ExecTipos'
  BY DEF alertas, ExecTipos, Alvo
<1>2. /\ ComplianceTypeOK /\ acto \in [Actos -> ActoTipo] /\ pedido \in [Pedidos -> PedidoDeActo]
      /\ \A p \in Pedidos : pedido[p].pc = "agendar" => \A a \in pedido[p].a : Existe(a)
  BY DEF ActosTipos
<1>3. UNCHANGED <<tabelas, pedido, avaliacoesJuntas>> /\ erros' \in 0..MaxErros => ActosTipos'
  BY <1>2 DEF tabelas, ActosTipos, ComplianceTypeOK, Existe
<1>4. UNCHANGED compliance => ActosTipos'
  BY <1>2, <1>3 DEF compliance, ComplianceTypeOK
<1>5. CASE ComplianceNext /\ UNCHANGED <<hoje, alertas>>
  BY <1>1, <1>5, ComplianceMuda
<1>6. ASSUME NEW e \in Execucoes, Executar(e) PROVE ActosTipos' /\ ExecTipos'
  BY <1>3, <1>6, ExecutarFaz, ExecPasso
<1>7. CASE NovoDia
  BY <1>4, <1>7, DiaFaz DEF alertas, ExecTipos, Alvo
<1>8. CASE UNCHANGED alertasVars
  BY <1>1, <1>4, <1>8 DEF alertasVars
<1> QED
  BY <1>5, <1>6, <1>7, <1>8 DEF AlertasNext

(* The variables keep their types: no act, request or execution is ever in *)
(* a state the tables and the scheduler do not have.                       *)
THEOREM AlertasTypeCorrect == AlertasSpec => []AlertasTypeOK
<1>1. AlertasInit => ActosTipos /\ ExecTipos
  BY ActosInicio, ExecInicio DEF AlertasInit
<1>2. ActosTipos /\ ExecTipos => AlertasTypeOK
  BY OrdemFases DEF ActosTipos, ExecTipos, AlertasTypeOK
<1> QED
  BY <1>1, <1>2, AlertasTiposPasso, PTL DEF AlertasSpec

LEMMA UnicoSempre ==
  ActosTipos /\ ExecTipos /\ Unico /\ [AlertasNext]_alertasVars => Unico'
<1> SUFFICES ASSUME ActosTipos, ExecTipos, Unico, [AlertasNext]_alertasVars
             PROVE  Unico'
  OBVIOUS
<1>1. UNCHANGED <<tabelas, pedido, avaliacoesJuntas>> => Unico'
  BY DEF tabelas, Unico, Novas, ActoUnico, Existe
<1>2. CASE ComplianceNext
  BY <1>2, UnicoPasso
<1>3. ASSUME NEW e \in Execucoes, Executar(e) PROVE Unico'
  BY <1>1, <1>3, ExecutarFaz
<1>4. CASE UNCHANGED compliance
  BY <1>1, <1>4 DEF compliance
<1> QED
  BY <1>2, <1>3, <1>4, DiaFaz DEF AlertasNext, alertasVars

(* One act for each rule while evaluations do not overlap.                 *)
THEOREM ActoUnicoCorrect == AlertasSpec => []ActoUnico
<1>1. AlertasInit => ActosTipos /\ ExecTipos /\ Unico
  BY ActosInicio, ExecInicio, UnicoInicio DEF AlertasInit
<1>2. Unico => ActoUnico
  BY DEF Unico, ActoUnico
<1> QED
  BY <1>1, <1>2, AlertasTiposPasso, UnicoSempre, PTL DEF AlertasSpec

-----------------------------------------------------------------------------
(* A key date that was read has its alert, or is still to be served.       *)
Servidas == \A e \in Execucoes : \A x \in lidas[e] :
  \/ jaEmitido(x)
  \/ exec[e].pc \in {"chaves", "emitirChave"} /\ x \in exec[e].resto \cup exec[e].alvo

LEMMA ServidasPasso ==
  ASSUME ActosTipos, ExecTipos, Servidas, [AlertasNext]_alertasVars
  PROVE  Servidas'
<1>0. lidas \in [Execucoes -> SUBSET ItemChave] /\ emitidos \in [Chaves -> [AlertaDias -> Nat]]
  BY DEF ExecTipos
<1>1. UNCHANGED alertas => Servidas'
  BY DEF alertas, Servidas, jaEmitido
<1>2. ASSUME NEW e \in Execucoes, Executar(e) PROVE Servidas'
  <2>1. /\ LeChaves(e) \/ ServeChave(e) \/ LeActos(e) \/ ServeActo(e) \/ Para(e)
        /\ \A f \in Execucoes : f # e => exec'[f] = exec[f] /\ lidas'[f] = lidas[f]
    BY <1>2, ExecutarFaz
  <2>2. \A x \in ItemChave : jaEmitido(x) => jaEmitido(x)'
    <3>1. UNCHANGED emitidos => \A x \in ItemChave : jaEmitido(x) => jaEmitido(x)'
      BY DEF jaEmitido
    <3>2. CASE ServeChave(e)
      <4>1. CASE UNCHANGED emitidos
        BY <3>1, <4>1
      <4>2. ASSUME NEW y \in ItemChave,
                   emitidos' = [emitidos EXCEPT ![y.chave] =
                     [emitidos[y.chave] EXCEPT ![y.dias] = emitidos[y.chave][y.dias] + 1]]
            PROVE  \A x \in ItemChave : jaEmitido(x) => jaEmitido(x)'
        <5>1. \A c \in Chaves, d \in AlertaDias : emitidos[c][d] > 0 => emitidos'[c][d] > 0
          BY <1>0, <4>2, EmitidosMuda
        <5> QED
          BY <5>1 DEF jaEmitido, ItemChave
      <4> QED
        BY <3>2, <4>1, <4>2 DEF ServeChave
    <3> QED
      BY <2>1, <3>1, <3>2 DEF LeChaves, LeActos, ServeActo, Para
  <2>3. ASSUME NEW x \in lidas'[e]
        PROVE  \/ jaEmitido(x)'
               \/ exec'[e].pc \in {"chaves", "emitirChave"} /\ x \in exec'[e].resto \cup exec'[e].alvo
    <3>1. CASE LeChaves(e)
      BY <3>1 DEF LeChaves
    <3>2. CASE Para(e)
      BY <3>2 DEF Para
    <3>3. CASE lidas'[e] = lidas[e]
      <4>1. x \in ItemChave
        BY <1>0, <3>3
      <4>2. CASE jaEmitido(x)
        BY <2>2, <4>1, <4>2
      <4>3. CASE /\ ~jaEmitido(x) /\ exec[e].pc \in {"chaves", "emitirChave"}
                 /\ x \in exec[e].resto \cup exec[e].alvo
        <5>1. Alvo(e)
          BY DEF ExecTipos
        <5>2. ~LeActos(e) /\ ~ServeActo(e)
          BY <4>3 DEF LeActos, ServeActo
        <5>3. CASE ServeChave(e)
          <6>1. PICK y \in ItemChave :
                  \/ /\ exec[e].pc = "chaves" /\ y \in exec[e].resto /\ exec'[e].resto = exec[e].resto \ {y}
                     /\ \/ jaEmitido(y) /\ exec'[e].pc = "chaves" /\ exec'[e].alvo = {}
                        \/ ~jaEmitido(y) /\ exec'[e].pc = "emitirChave" /\ exec'[e].alvo = {y}
                  \/ /\ exec[e].pc = "emitirChave" /\ exec[e].alvo = {y} /\ exec'[e].pc = "chaves"
                     /\ exec'[e].alvo = {} /\ exec'[e].resto = exec[e].resto
                     /\ emitidos' = [emitidos EXCEPT ![y.chave] =
                         [emitidos[y.chave] EXCEPT ![y.dias] = emitidos[y.chave][y.dias] + 1]]
            BY <5>3 DEF ServeChave
          <6>2. CASE exec[e].pc = "chaves"
            BY <4>3, <5>1, <6>1, <6>2 DEF Alvo
          <6>3. CASE exec[e].pc = "emitirChave"
            <7>1. y.chave \in Chaves /\ y.dias \in AlertaDias
              BY DEF ItemChave
            <7>2. emitidos'[y.chave][y.dias] > 0
              BY <1>0, <6>1, <6>3, <7>1, EmitidosMuda
            <7> QED
              BY <4>3, <6>1, <6>3, <7>2 DEF jaEmitido
          <6> QED
            BY <4>3, <6>2, <6>3
        <5> QED
          BY <2>1, <3>1, <3>2, <5>2, <5>3
      <4> QED
        BY <3>3, <4>2, <4>3 DEF Servidas
    <3> QED
      BY <2>1, <3>1, <3>2, <3>3 DEF ServeChave, LeActos, ServeActo
  <2>4. ASSUME NEW f \in Execucoes, f # e, NEW x \in lidas'[f]
        PROVE  \/ jaEmitido(x)'
               \/ exec'[f].pc \in {"chaves", "emitirChave"} /\ x \in exec'[f].resto \cup exec'[f].alvo
    BY <1>0, <2>1, <2>2, <2>4 DEF Servidas
  <2> QED
    BY <2>3, <2>4 DEF Servidas, jaEmitido
<1> QED
  BY <1>1, <1>2, DiaFaz DEF AlertasNext, alertasVars

-----------------------------------------------------------------------------
(* Each alert of a key date is emitted by an execution that found none, so *)
(* that with those about to emit it there are at most as many as there are *)
(* executions; and at most one while only one of them runs.                *)
AEmitir(c, d) == {e \in Execucoes : exec[e].pc = "emitirChave" /\ [chave |-> c, dias |-> d] \in exec[e].alvo}
Vezes == \A c \in Chaves, d \in AlertaDias :
  emitidos[c][d] + Cardinality(AEmitir(c, d)) <= Cardinality(Execucoes)
So == ~sobrepostas =>
  /\ \A e, f \in Execucoes : e = f \/ exec[e].pc = "parada" \/ exec[f].pc = "parada"
  /\ \A e \in Execucoes :
       /\ exec[e].pc = "emitirChave" => \A x \in exec[e].alvo : ~jaEmitido(x)
       /\ exec[e].pc = "emitirActo" => \A x \in exec[e].alvo : ~jaNoEscalao(x)
  /\ \A c \in Chaves, d \in AlertaDias : emitidos[c][d] <= 1
  /\ ~repetidos

LEMMA SubExecucoes ==
  ASSUME NEW S \in SUBSET Execucoes
  PROVE  IsFiniteSet(S) /\ Cardinality(S) \in Nat /\ Cardinality(S) <= Cardinality(Execucoes)
<1>1. IsFiniteSet(S) /\ Cardinality(S) <= Cardinality(Execucoes)
  BY ExecucoesAssumption, FS_Subset
<1> QED
  BY <1>1, FS_CardinalityType

LEMMA VezesInicio == AlertasInit => Vezes
<1> SUFFICES ASSUME AlertasInit, NEW c \in Chaves, NEW d \in AlertaDias
             PROVE  emitidos[c][d] + Cardinality(AEmitir(c, d)) <= Cardinality(Execucoes)
  BY DEF Vezes
<1>1. emitidos[c][d] = 0
  BY DEF AlertasInit
<1>2. AEmitir(c, d) \in SUBSET Execucoes
  BY DEF AEmitir
<1>3. Cardinality(Execucoes) \in Nat
  BY ExecucoesAssumption, FS_CardinalityType
<1> HIDE DEF AEmitir
<1> QED
  BY <1>1, <1>2, <1>3, SubExecucoes

LEMMA VezesPasso ==
  ASSUME ActosTipos, ExecTipos, Vezes, [AlertasNext]_alertasVars
  PROVE  Vezes'
<1>0. emitidos \in [Chaves -> [AlertaDias -> Nat]] /\ exec \in [Execucoes -> OrdemTipo]
      /\ Cardinality(Execucoes) \in Nat
  BY ExecucoesAssumption, FS_CardinalityType DEF ExecTipos
<1>1. UNCHANGED alertas => Vezes'
  BY DEF alertas, Vezes, AEmitir
<1>2. ASSUME NEW e \in Execucoes, Executar(e) PROVE Vezes'
  <2>1. /\ LeChaves(e) \/ ServeChave(e) \/ LeActos(e) \/ ServeActo(e) \/ Para(e)
        /\ \A f \in Execucoes : f # e => exec'[f] = exec[f]
    BY <1>2, ExecutarFaz
  <2> SUFFICES ASSUME NEW c \in Chaves, NEW d \in AlertaDias
               PROVE  emitidos'[c][d] + Cardinality(AEmitir(c, d)') <= Cardinality(Execucoes)
    BY DEF Vezes
  <2> DEFINE antes == AEmitir(c, d)
             depois == AEmitir(c, d)'
             z == [chave |-> c, dias |-> d]
  <2>2. /\ antes \in SUBSET Execucoes /\ depois \in SUBSET Execucoes
        /\ e \in antes <=> exec[e].pc = "emitirChave" /\ z \in exec[e].alvo
        /\ e \in depois <=> exec'[e].pc = "emitirChave" /\ z \in exec'[e].alvo
        /\ \A f \in Execucoes : f # e => (f \in antes <=> f \in depois)
    BY <2>1 DEF AEmitir
  <2>3. emitidos[c][d] + Cardinality(antes) <= Cardinality(Execucoes)
    BY DEF Vezes
  <2> HIDE DEF antes, depois, z
  <2>4. /\ IsFiniteSet(antes) /\ Cardinality(antes) \in Nat
        /\ Cardinality(depois) \in Nat /\ Cardinality(depois) <= Cardinality(Execucoes)
    BY <2>2, SubExecucoes
  <2>5. depois \subseteq antes => Cardinality(depois) <= Cardinality(antes)
    BY <2>4, FS_Subset
  <2>6. e \in antes /\ e \notin depois => Cardinality(depois) = Cardinality(antes) - 1
    <3>1. e \in antes /\ e \notin depois => depois = antes \ {e}
      BY <2>2
    <3> QED
      BY <2>4, <3>1, FS_RemoveElement
  <2>7. emitidos[c][d] \in Nat
    BY <1>0
  <2>8. CASE e \notin depois /\ emitidos'[c][d] = emitidos[c][d]
    <3>1. depois \subseteq antes
      BY <2>2, <2>8
    <3> QED
      BY <1>0, <2>3, <2>4, <2>5, <2>7, <2>8, <3>1 DEF depois
  <2>9. CASE e \in depois /\ emitidos'[c][d] = 0
    BY <2>4, <2>9 DEF depois
  <2>10. CASE e \in antes /\ e \notin depois /\ emitidos'[c][d] = emitidos[c][d] + 1
    BY <1>0, <2>3, <2>4, <2>6, <2>7, <2>10 DEF depois
  <2>11. CASE ServeChave(e)
    <3>1. PICK y \in ItemChave :
            \/ /\ exec[e].pc = "chaves" /\ emitidos' = emitidos
               /\ \/ jaEmitido(y) /\ exec'[e].pc = "chaves"
                  \/ ~jaEmitido(y) /\ exec'[e].pc = "emitirChave" /\ exec'[e].alvo = {y}
            \/ /\ exec[e].pc = "emitirChave" /\ exec[e].alvo = {y} /\ exec'[e].pc = "chaves"
               /\ emitidos' = [emitidos EXCEPT ![y.chave] =
                   [emitidos[y.chave] EXCEPT ![y.dias] = emitidos[y.chave][y.dias] + 1]]
      BY <2>11 DEF ServeChave
    <3>2. z = y <=> c = y.chave /\ d = y.dias
      BY DEF ItemChave, z
    <3>3. CASE exec[e].pc = "chaves" /\ exec'[e].pc = "chaves" /\ emitidos' = emitidos
      BY <2>2, <2>8, <3>3
    <3>4. CASE /\ ~jaEmitido(y) /\ exec'[e].pc = "emitirChave" /\ exec'[e].alvo = {y}
               /\ emitidos' = emitidos
      <4>1. CASE z = y
        BY <2>2, <2>7, <2>9, <3>2, <3>4, <4>1 DEF jaEmitido
      <4>2. CASE z # y
        BY <2>2, <2>8, <3>4, <4>2
      <4> QED
        BY <4>1, <4>2
    <3>5. CASE /\ exec[e].pc = "emitirChave" /\ exec[e].alvo = {y} /\ exec'[e].pc = "chaves"
               /\ emitidos' = [emitidos EXCEPT ![y.chave] =
                   [emitidos[y.chave] EXCEPT ![y.dias] = emitidos[y.chave][y.dias] + 1]]
      <4>1. emitidos'[c][d] = IF c = y.chave /\ d = y.dias THEN emitidos[c][d] + 1 ELSE emitidos[c][d]
        BY <3>5, EmitidosMuda
      <4>2. CASE z = y
        BY <2>2, <2>10, <3>2, <3>5, <4>1, <4>2
      <4>3. CASE z # y
        BY <2>2, <2>8, <3>2, <3>5, <4>1, <4>3
      <4> QED
        BY <4>2, <4>3
    <3> QED
      BY <3>1, <3>3, <3>4, <3>5
  <2>12. CASE LeChaves(e) \/ LeActos(e) \/ ServeActo(e) \/ Para(e)
    <3>1. Parada.pc = "parada"
      BY DEF Parada
    <3>2. exec'[e].pc # "emitirChave" /\ emitidos' = emitidos
      BY <2>12, <3>1 DEF LeChaves, LeActos, ServeActo, Para
    <3> QED
      BY <2>2, <2>8, <3>2
  <2> QED
    BY <2>1, <2>11, <2>12
<1> QED
  BY <1>1, <1>2, DiaFaz DEF AlertasNext, alertasVars

LEMMA SoPasso ==
  ASSUME ActosTipos, ExecTipos, So, [AlertasNext]_alertasVars
  PROVE  So'
<1>0. emitidos \in [Chaves -> [AlertaDias -> Nat]] /\ exec \in [Execucoes -> OrdemTipo]
  BY DEF ExecTipos
<1>1. UNCHANGED alertas => So'
  BY DEF alertas, So, jaEmitido, jaNoEscalao
<1>2. ASSUME NEW e \in Execucoes, Executar(e), ~sobrepostas' PROVE So'
  <2>1. /\ LeChaves(e) \/ ServeChave(e) \/ LeActos(e) \/ ServeActo(e) \/ Para(e)
        /\ \A f \in Execucoes : f # e => exec'[f] = exec[f]
    BY <1>2, ExecutarFaz
  <2>2. /\ ~sobrepostas
        /\ LeChaves(e) => \A f \in Execucoes : exec[f] = Parada
    <3>1. CASE LeChaves(e)
      <4>1. sobrepostas' = (sobrepostas \/ \E f \in Execucoes : exec[f] # Parada)
        BY <3>1 DEF LeChaves
      <4> QED
        BY <1>2, <4>1
    <3>2. CASE ~LeChaves(e)
      <4>1. UNCHANGED sobrepostas
        BY <2>1, <3>2 DEF ServeChave, LeActos, ServeActo, Para
      <4> QED
        BY <1>2, <3>2, <4>1
    <3> QED
      BY <2>1, <3>1, <3>2
  <2>3. Parada.pc = "parada"
    BY DEF Parada
  <2>4. \A f \in Execucoes : f # e => exec'[f].pc = "parada"
    <3>1. CASE LeChaves(e)
      BY <2>1, <2>2, <2>3, <3>1
    <3>2. CASE ~LeChaves(e)
      <4>1. exec[e].pc # "parada"
        BY <2>1, <3>2, OrdemFases DEF ServeChave, LeActos, ServeActo, Para
      <4> QED
        BY <2>1, <2>2, <4>1 DEF So
    <3> QED
      BY <3>1, <3>2
  <2>5. /\ exec'[e].pc = "emitirChave" => \A x \in exec'[e].alvo : ~jaEmitido(x)'
        /\ exec'[e].pc = "emitirActo" => \A x \in exec'[e].alvo : ~jaNoEscalao(x)'
    BY <2>1, <2>3 DEF LeChaves, ServeChave, LeActos, ServeActo, Para, jaEmitido, jaNoEscalao
  <2>6. \A c \in Chaves, d \in AlertaDias : emitidos'[c][d] <= 1
    <3>1. CASE UNCHANGED emitidos
      BY <2>2, <3>1 DEF So
    <3>2. ASSUME NEW y \in ItemChave, exec[e].pc = "emitirChave", exec[e].alvo = {y},
                 emitidos' = [emitidos EXCEPT ![y.chave] =
                   [emitidos[y.chave] EXCEPT ![y.dias] = emitidos[y.chave][y.dias] + 1]]
          PROVE  \A c \in Chaves, d \in AlertaDias : emitidos'[c][d] <= 1
      <4>1. y.chave \in Chaves /\ y.dias \in AlertaDias
        BY DEF ItemChave
      <4>2. emitidos[y.chave][y.dias] = 0
        BY <1>0, <2>2, <3>2, <4>1 DEF So, jaEmitido
      <4>3. \A c \in Chaves, d \in AlertaDias : emitidos[c][d] <= 1
        BY <2>2 DEF So
      <4> QED
        BY <3>2, <4>2, <4>3, EmitidosMuda
    <3> QED
      BY <2>1, <3>1, <3>2 DEF LeChaves, ServeChave, LeActos, ServeActo, Para
  <2>7. ~repetidos'
    BY <2>1, <2>2 DEF So, LeChaves, ServeChave, LeActos, ServeActo, Para, jaNoEscalao
  <2> QED
    BY <2>4, <2>5, <2>6, <2>7 DEF So
<1>3. sobrepostas' => So'
  BY DEF So
<1> QED
  BY <1>1, <1>2, <1>3, DiaFaz DEF AlertasNext, alertasVars

(* No alert of a key date is missed by an execution that reaches the acts, *)
(* and alerts are repeated only by executions that run along.              *)
THEOREM AlertaUmaVezCorrect == AlertasSpec => []AlertaUmaVez
<1>1. AlertasInit => ActosTipos /\ ExecTipos /\ Servidas /\ Vezes /\ So
  <2>1. AlertasInit => Servidas /\ So
    BY DEF AlertasInit, Servidas, So, Parada
  <2> QED
    BY <2>1, ActosInicio, ExecInicio, VezesInicio DEF AlertasInit
<1>2. ExecTipos /\ Servidas /\ Vezes /\ So => AlertaUmaVez
  <2> SUFFICES ASSUME ExecTipos, Servidas, Vezes, So PROVE AlertaUmaVez
    OBVIOUS
  <2>1. \A e \in Execucoes : exec[e].pc \in {"actos", "emitirActo"} =>
          \A x \in lidas[e] : emitidos[x.chave][x.dias] > 0
    BY DEF Servidas, jaEmitido
  <2>2. \A c \in Chaves, d \in AlertaDias : emitidos[c][d] <= Cardinality(Execucoes)
    <3> TAKE c \in Chaves, d \in AlertaDias
    <3>1. AEmitir(c, d) \in SUBSET Execucoes
      BY DEF AEmitir
    <3>2. emitidos[c][d] \in Nat /\ Cardinality(Execucoes) \in Nat
      BY ExecucoesAssumption, FS_CardinalityType DEF ExecTipos
    <3>3. Cardinality(AEmitir(c, d)) \in Nat
      BY <3>1, SubExecucoes
    <3>4. emitidos[c][d] + Cardinality(AEmitir(c, d)) <= Cardinality(Execucoes)
      BY DEF Vezes
    <3> HIDE DEF AEmitir
    <3> QED
      BY <3>2, <3>3, <3>4
  <2> QED
    BY <2>1, <2>2 DEF AlertaUmaVez, So
<1>3. ActosTipos /\ ExecTipos /\ Servidas /\ Vezes /\ So /\ [AlertasNext]_alertasVars =>
        Servidas' /\ Vezes' /\ So'
  BY ServidasPasso, VezesPasso, SoPasso
<1> QED
  BY <1>1, <1>2, <1>3, AlertasTiposPasso, PTL DEF AlertasSpec

-----------------------------------------------------------------------------
(* Only acts that exist are alerted, and while executions do not overlap   *)
(* no bucket, emitted or still to be, is ahead of what the deadline of the *)
(* act asks for today, unless the deadline was moved.                      *)
Urgencia(a) == gravidade[bucket(acto[a].prazo - hoje)]
Existem ==
  /\ \A a \in Actos : Existe(a) \/ escalao[a] = "nenhum"
  /\ \A e \in Execucoes : exec[e].pc \in {"actos", "emitirActo"} =>
       \A x \in exec[e].resto \cup exec[e].alvo : Existe(x.acto)
Ordenado(x) == x.acto \notin reagendado =>
  /\ gravidade[escalao[x.acto]] <= gravidade[x.bucket]
  /\ gravidade[x.bucket] <= Urgencia(x.acto)
Itens(e) == exec[e].pc \in {"actos", "emitirActo"} =>
  /\ \A x \in exec[e].resto \cup exec[e].alvo : Ordenado(x)
  /\ \A x \in exec[e].resto \cup exec[e].alvo, y \in exec[e].resto : x.acto = y.acto => x = y
  /\ \A x \in exec[e].alvo : x \notin exec[e].resto
Ordem == ~sobrepostas =>
  /\ \A a \in Actos \ reagendado : gravidade[escalao[a]] <= Urgencia(a)
  /\ \A e \in Execucoes : Itens(e)

LEMMA BucketCresce ==
  ASSUME NEW i \in Int, NEW j \in Int, i <= j
  PROVE  /\ gravidade[bucket(j)] <= gravidade[bucket(i)]
         /\ gravidade[bucket(i)] \in 1..3 /\ gravidade["nenhum"] = 0
         /\ \A b \in Buckets \cup {"nenhum"} : gravidade[b] \in 0..3
<1>1. /\ gravidade["IS_PENDENTE"] = 1 /\ gravidade["IS_PRAZO_CRITICO"] = 2
      /\ gravidade["OBRIGACAO_EM_ATRASO"] = 3 /\ gravidade["nenhum"] = 0
  BY DEF gravidade
<1>2. CRITICO \in Nat
  BY CriticoAssumption
<1> HIDE DEF gravidade
<1> QED
  BY <1>1, <1>2 DEF bucket, Buckets

LEMMA PrazoDoActo ==
  ASSUME NEW r \in ActoTipo
  PROVE  r.prazo \in Int
<1>1. \A p \in Prazos : p \in Nat
  BY PrazosAssumption
<1>2. Nulo \in Int /\ SemActo.prazo = Nulo
  BY DEF SemActo, Nulo
<1>3. CASE r = SemActo
  BY <1>2, <1>3
<1>4. CASE r \in [estado : ActoEstados, regra : {{s} : s \in Regras}, prazo : Prazos \cup {Nulo}]
  <2>1. r.prazo \in Prazos \/ r.prazo = Nulo
    BY <1>4
  <2>2. CASE r.prazo \in Prazos
    <3>1. r.prazo \in Nat
      BY <1>1, <2>2
    <3> QED
      BY <3>1
  <2> QED
    BY <1>2, <2>1, <2>2
<1> QED
  BY <1>3, <1>4 DEF ActoTipo

LEMMA PrazosInteiros ==
  ASSUME ActosTipos, NEW a \in Actos
  PROVE  acto[a].prazo \in Int
BY PrazoDoActo DEF ActosTipos

(* The days go by, users write: the urgency of the acts whose deadline     *)
(* nobody moved does not go down.                                          *)
LEMMA OrdemFica ==
  ASSUME ActosTipos, ExecTipos, Existem, Ordem, UNCHANGED alertas,
         reagendado \subseteq reagendado',
         \A a \in Actos : Existe(a) => Existe(a)' /\ (a \notin reagendado' => Urgencia(a) <= Urgencia(a)'),
         \A a \in Actos : Urgencia(a) \in 1..3 /\ Urgencia(a)' \in 1..3
  PROVE  Existem' /\ Ordem'
<1>1. /\ exec' = exec /\ escalao' = escalao /\ sobrepostas' = sobrepostas
      /\ escalao \in [Actos -> Buckets \cup {"nenhum"}]
  BY DEF alertas, ExecTipos
<1>2. ASSUME NEW e \in Execucoes, exec[e].pc \in {"actos", "emitirActo"}
      PROVE  exec[e].resto \cup exec[e].alvo \subseteq ItemActo
  BY <1>2, OrdemFases DEF OrdemActos
<1>3. Existem'
  <2>1. \A e \in Execucoes : exec[e].pc \in {"actos", "emitirActo"} =>
          \A x \in exec[e].resto \cup exec[e].alvo : Existe(x.acto)'
    BY <1>2 DEF Existem, ItemActo
  <2> QED
    BY <1>1, <2>1 DEF Existem
<1>4. ASSUME ~sobrepostas, NEW a \in Actos, a \notin reagendado'
      PROVE  gravidade[escalao[a]] <= Urgencia(a)'
  <2>1. gravidade[escalao[a]] \in 0..3 /\ gravidade["nenhum"] = 0
    BY <1>1, BucketCresce
  <2>2. CASE Existe(a)
    BY <1>4, <2>1, <2>2 DEF Ordem
  <2>3. CASE escalao[a] = "nenhum"
    BY <2>1, <2>3
  <2> QED
    BY <2>2, <2>3 DEF Existem
<1>5. ASSUME ~sobrepostas, NEW e \in Execucoes, exec[e].pc \in {"actos", "emitirActo"},
             NEW x \in exec[e].resto \cup exec[e].alvo, x.acto \notin reagendado'
      PROVE  /\ gravidade[escalao[x.acto]] <= gravidade[x.bucket]
             /\ gravidade[x.bucket] <= Urgencia(x.acto)'
  <2>1. x \in ItemActo /\ Existe(x.acto) /\ Ordenado(x)
    BY <1>2, <1>5 DEF Existem, Ordem, Itens
  <2>2. x.acto \in Actos /\ gravidade[x.bucket] \in 0..3
    BY <2>1, BucketCresce DEF ItemActo
  <2>3. /\ gravidade[escalao[x.acto]] <= gravidade[x.bucket]
        /\ gravidade[x.bucket] <= Urgencia(x.acto)
    BY <1>5, <2>1 DEF Ordenado
  <2>4. Urgencia(x.acto) <= Urgencia(x.acto)' /\ Urgencia(x.acto) \in 1..3 /\ Urgencia(x.acto)' \in 1..3
    BY <1>5, <2>1, <2>2
  <2> QED
    BY <2>2, <2>3, <2>4
<1>6. Ordem'
  <2> SUFFICES ASSUME ~sobrepostas
               PROVE  /\ \A a \in Actos \ reagendado' : gravidade[escalao'[a]] <= Urgencia(a)'
                      /\ \A e \in Execucoes : Itens(e)'
    BY <1>1 DEF Ordem
  <2>1. ASSUME NEW e \in Execucoes PROVE Itens(e)'
    <3>1. exec[e].pc \in {"actos", "emitirActo"} =>
            \A x \in exec[e].resto \cup exec[e].alvo : Ordenado(x)'
      BY <1>1, <1>5 DEF Ordenado
    <3> QED
      BY <1>1, <3>1 DEF Itens, Ordem
  <2> QED
    BY <1>1, <1>4, <2>1
<1> QED
  BY <1>3, <1>6

LEMMA UrgenciaTipo ==
  ASSUME ActosTipos, ExecTipos, NEW a \in Actos
  PROVE  Urgencia(a) \in 1..3
<1>1. acto[a].prazo - hoje \in Int
  BY PrazosInteiros DEF ExecTipos, Dias
<1> QED
  BY <1>1, BucketCresce DEF Urgencia

(* Of an item served, the bucket is the latest of its act: no other item   *)
(* of the execution is about that act, and no other execution runs.        *)
LEMMA OrdemServe ==
  ASSUME ActosTipos, ExecTipos, So, Existem, Ordem, NEW e \in Execucoes, ServeActo(e),
         \A f \in Execucoes : f # e => exec'[f] = exec[f],
         UNCHANGED <<tabelas, hoje>>
  PROVE  Existem' /\ Ordem'
<1>1. PICK x \in ItemActo :
        \/ /\ exec[e].pc = "actos" /\ x \in exec[e].resto /\ exec'[e].resto = exec[e].resto \ {x}
           /\ UNCHANGED escalao
           /\ \/ exec'[e].pc = "actos" /\ exec'[e].alvo = {}
              \/ exec'[e].pc = "emitirActo" /\ exec'[e].alvo = {x}
        \/ /\ exec[e].pc = "emitirActo" /\ exec[e].alvo = {x} /\ exec'[e].pc = "actos"
           /\ exec'[e].alvo = {} /\ exec'[e].resto = exec[e].resto
           /\ escalao' = [escalao EXCEPT ![x.acto] = x.bucket]
  BY DEF ServeActo
<1>2. /\ acto' = acto /\ reagendado' = reagendado /\ hoje' = hoje
      /\ sobrepostas' = sobrepostas /\ exec[e].pc \in {"actos", "emitirActo"}
  BY DEF tabelas, ServeActo
<1>3. /\ x.acto \in Actos /\ x.bucket \in Buckets /\ x \in exec[e].resto \cup exec[e].alvo
      /\ escalao \in [Actos -> Buckets \cup {"nenhum"}]
      /\ exec'[e].resto \cup exec'[e].alvo \subseteq exec[e].resto \cup exec[e].alvo
  BY <1>1 DEF ItemActo, ExecTipos
<1>4. \A a : Existe(a)' <=> Existe(a)
  BY <1>2 DEF Existe
<1>5. \A f \in Execucoes : exec'[f].pc \in {"actos", "emitirActo"} =>
        \A y \in exec'[f].resto \cup exec'[f].alvo : Existe(y.acto)'
  <2>1. \A y \in exec[e].resto \cup exec[e].alvo : Existe(y.acto)
    BY <1>2 DEF Existem
  <2>2. \A y \in exec'[e].resto \cup exec'[e].alvo : Existe(y.acto)'
    BY <1>3, <1>4, <2>1
  <2>3. ASSUME NEW f \in Execucoes, f # e, exec'[f].pc \in {"actos", "emitirActo"}
        PROVE  \A y \in exec'[f].resto \cup exec'[f].alvo : Existe(y.acto)'
    BY <1>4, <2>3 DEF Existem
  <2> QED
    BY <2>2, <2>3
<1>6. Existem'
  <2>1. \A a \in Actos : escalao'[a] = escalao[a] \/ a = x.acto
    BY <1>1, <1>3
  <2>2. Existe(x.acto)
    BY <1>2, <1>3 DEF Existem
  <2>3. \A a \in Actos : Existe(a)' \/ escalao'[a] = "nenhum"
    BY <1>4, <2>1, <2>2 DEF Existem
  <2> QED
    BY <1>5, <2>3 DEF Existem
<1>7. ASSUME ~sobrepostas PROVE /\ \A a \in Actos \ reagendado : gravidade[escalao'[a]] <= Urgencia(a)'
                                /\ \A f \in Execucoes : Itens(f)'
  <2>1. /\ \A a \in Actos \ reagendado : gravidade[escalao[a]] <= Urgencia(a)
        /\ \A y \in exec[e].resto \cup exec[e].alvo : Ordenado(y)
        /\ \A y \in exec[e].resto \cup exec[e].alvo, z \in exec[e].resto : y.acto = z.acto => y = z
        /\ \A y \in exec[e].alvo : y \notin exec[e].resto
    BY <1>2, <1>7 DEF Ordem, Itens
  <2>2. \A a : Urgencia(a)' = Urgencia(a)
    BY <1>2 DEF Urgencia
  <2>3. \A f \in Execucoes : f # e => exec'[f].pc = "parada"
    <3>1. \A f \in Execucoes : f # e => exec[f].pc = "parada"
      BY <1>2, <1>7 DEF So
    <3> QED
      BY <3>1
  <2>4. CASE UNCHANGED escalao
    <3>1. \A y : Ordenado(y) => Ordenado(y)'
      BY <1>2, <2>2, <2>4 DEF Ordenado
    <3>2. Itens(e)'
      <4>1. \A y \in exec'[e].resto \cup exec'[e].alvo : Ordenado(y)'
        BY <1>3, <2>1, <3>1
      <4>2. /\ exec'[e].resto \subseteq exec[e].resto
            /\ \A y \in exec'[e].alvo : y \notin exec'[e].resto
        BY <1>1, <2>1
      <4>3. \A y \in exec'[e].resto \cup exec'[e].alvo, z \in exec'[e].resto : y.acto = z.acto => y = z
        BY <1>3, <2>1, <4>2
      <4> QED
        BY <4>1, <4>2, <4>3 DEF Itens
    <3> QED
      BY <1>2, <2>1, <2>2, <2>3, <2>4, <3>2 DEF Itens
  <2>5. CASE /\ exec[e].alvo = {x} /\ exec'[e].alvo = {} /\ exec'[e].resto = exec[e].resto
             /\ escalao' = [escalao EXCEPT ![x.acto] = x.bucket]
    <3>1. escalao'[x.acto] = x.bucket /\ \A a \in Actos : a # x.acto => escalao'[a] = escalao[a]
      BY <1>3, <2>5
    <3>2. \A a \in Actos \ reagendado : gravidade[escalao'[a]] <= Urgencia(a)'
      BY <1>3, <2>1, <2>2, <3>1 DEF Ordenado
    <3>3. ASSUME NEW y \in exec[e].resto PROVE Ordenado(y)' /\ y \in ItemActo
      <4>1. y \in ItemActo
        BY <1>2, OrdemFases DEF OrdemActos
      <4>2. y.acto # x.acto /\ y.acto \in Actos
        BY <1>3, <2>1, <2>5, <4>1 DEF ItemActo
      <4> QED
        BY <1>2, <2>1, <2>2, <3>1, <4>1, <4>2 DEF Ordenado
    <3>4. Itens(e)'
      BY <2>1, <2>5, <3>3 DEF Itens
    <3> QED
      BY <1>2, <2>3, <3>2, <3>4 DEF Itens
  <2> QED
    BY <1>1, <2>4, <2>5
<1> QED
  BY <1>2, <1>6, <1>7 DEF Ordem

LEMMA OrdemPasso ==
  ASSUME ActosTipos, ExecTipos, So, Existem, Ordem, [AlertasNext]_alertasVars
  PROVE  Existem' /\ Ordem'
<1>0. /\ \A a \in Actos : Urgencia(a) \in 1..3 /\ Urgencia(a)' \in 1..3
      /\ \A a \in Actos : acto[a].prazo \in Int
      /\ hoje \in Int
  <2>1. \A a \in Actos : Urgencia(a) \in 1..3
    BY UrgenciaTipo
  <2>2. ActosTipos' /\ ExecTipos'
    BY AlertasTiposPasso
  <2>3. \A a \in Actos : Urgencia(a)' \in 1..3
    <3>1. \A a \in Actos : acto'[a].prazo - hoje' \in Int
      <4>1. \A a \in Actos : acto'[a] \in ActoTipo
        BY <2>2 DEF ActosTipos
      <4>2. \A a \in Actos : acto'[a].prazo \in Int
        BY <4>1, PrazoDoActo
      <4> QED
        BY <2>2, <4>2 DEF ExecTipos, Dias
    <3> QED
      BY <3>1, BucketCresce DEF Urgencia
  <2> QED
    BY <2>1, <2>3, PrazosInteiros DEF ExecTipos, Dias
<1>1. CASE UNCHANGED alertasVars
  <2>1. \A a : (Existe(a) => Existe(a)') /\ Urgencia(a)' = Urgencia(a) /\ reagendado' = reagendado
    BY <1>1 DEF alertasVars, compliance, tabelas, Existe, Urgencia
  <2> QED
    BY <1>0, <1>1, <2>1, OrdemFica DEF alertasVars
<1>2. CASE ComplianceNext /\ UNCHANGED <<hoje, alertas>>
  <2>1. ActosFicam
    BY <1>2, ComplianceMuda
  <2>2. \A a \in Actos : Existe(a) => Existe(a)' /\ (a \notin reagendado' => Urgencia(a) <= Urgencia(a)')
    BY <1>0, <1>2, <2>1 DEF ActosFicam, Urgencia
  <2> QED
    BY <1>0, <1>2, <2>1, <2>2, OrdemFica DEF ActosFicam
<1>3. CASE NovoDia
  <2>1. /\ acto' = acto /\ reagendado' = reagendado /\ UNCHANGED alertas
        /\ hoje \in Int /\ hoje' = hoje + 1
    BY <1>3, DiaFaz DEF compliance, tabelas
  <2>2. \A a \in Actos : Urgencia(a) <= Urgencia(a)'
    <3> TAKE a \in Actos
    <3> DEFINE i == acto[a].prazo - hoje'
               j == acto[a].prazo - hoje
    <3>1. i \in Int /\ j \in Int /\ i <= j
      BY <1>0, <2>1
    <3>2. gravidade[bucket(j)] <= gravidade[bucket(i)]
      BY <3>1, BucketCresce
    <3> QED
      BY <2>1, <3>2 DEF Urgencia
  <2>3. \A a : Existe(a) => Existe(a)'
    BY <2>1 DEF Existe
  <2> QED
    BY <1>0, <2>1, <2>2, <2>3, OrdemFica
<1>4. ASSUME NEW e \in Execucoes, Executar(e) PROVE Existem' /\ Ordem'
  <2>1. /\ LeChaves(e) \/ ServeChave(e) \/ LeActos(e) \/ ServeActo(e) \/ Para(e)
        /\ \A f \in Execucoes : f # e => exec'[f] = exec[f]
        /\ UNCHANGED <<tabelas, hoje>>
    BY <1>4, ExecutarFaz
  <2>2. CASE ServeActo(e)
    BY <2>1, <2>2, OrdemServe
  <2>3. CASE LeChaves(e) \/ ServeChave(e) \/ LeActos(e) \/ Para(e)
    <3>1. /\ escalao' = escalao /\ acto' = acto /\ reagendado' = reagendado /\ hoje' = hoje
          /\ ~sobrepostas' => ~sobrepostas
      <4>1. acto' = acto /\ reagendado' = reagendado /\ hoje' = hoje
        BY <2>1 DEF tabelas
      <4>2. CASE LeChaves(e)
        <5>1. escalao' = escalao
          BY <4>2 DEF LeChaves
        <5>2. sobrepostas' = (sobrepostas \/ \E f \in Execucoes : exec[f] # Parada)
          BY <4>2 DEF LeChaves
        <5> QED
          BY <4>1, <5>1, <5>2
      <4>3. CASE ServeChave(e) \/ LeActos(e) \/ Para(e)
        <5>1. escalao' = escalao /\ sobrepostas' = sobrepostas
          BY <4>3 DEF ServeChave, LeActos, Para
        <5> QED
          BY <4>1, <5>1
      <4> QED
        BY <2>3, <4>2, <4>3
    <3>2. \A a : (Existe(a)' <=> Existe(a)) /\ Urgencia(a)' = Urgencia(a)
      BY <3>1 DEF Existe, Urgencia
    <3>3. \A y : Ordenado(y) => Ordenado(y)'
      BY <3>1, <3>2 DEF Ordenado
    <3>4. ASSUME exec'[e].pc \in {"actos", "emitirActo"}
          PROVE  /\ exec'[e].alvo = {} /\ exec'[e].resto \subseteq ItemActo
                 /\ \A x \in exec'[e].resto :
                      /\ Existe(x.acto)
                      /\ x.bucket = bucket(acto[x.acto].prazo - hoje)
      <4>1. ~LeChaves(e) /\ ~ServeChave(e)
        BY <3>4 DEF LeChaves, ServeChave
      <4>2. ~Para(e)
        BY <3>4 DEF Para, Parada
      <4>3. LeActos(e)
        BY <2>3, <4>1, <4>2
      <4> QED
        BY <4>3 DEF LeActos
    <3>5. Existem'
      BY <2>1, <3>1, <3>2, <3>4 DEF Existem
    <3>6. ASSUME ~sobrepostas PROVE Itens(e)'
      <4> SUFFICES ASSUME exec'[e].pc \in {"actos", "emitirActo"}
                   PROVE  /\ \A x \in exec'[e].resto : Ordenado(x)'
                          /\ \A x \in exec'[e].resto, y \in exec'[e].resto : x.acto = y.acto => x = y
        BY <3>4 DEF Itens
      <4>1. ASSUME NEW x \in exec'[e].resto PROVE Ordenado(x)'
        <5>1. /\ x.acto \in Actos /\ gravidade[x.bucket] = Urgencia(x.acto)
              /\ Urgencia(x.acto) \in 1..3
          BY <1>0, <3>4 DEF ItemActo, Urgencia
        <5>2. x.acto \notin reagendado => gravidade[escalao[x.acto]] <= Urgencia(x.acto)
          BY <3>6, <5>1 DEF Ordem
        <5> QED
          BY <3>1, <3>2, <5>1, <5>2 DEF Ordenado
      <4>2. \A x \in exec'[e].resto, y \in exec'[e].resto : x.acto = y.acto => x = y
        BY <3>4 DEF ItemActo
      <4> QED
        BY <4>1, <4>2
    <3>7. ASSUME ~sobrepostas, NEW f \in Execucoes, f # e PROVE Itens(f)'
      BY <2>1, <3>3, <3>7 DEF Itens, Ordem
    <3>8. Ordem'
      BY <3>1, <3>2, <3>6, <3>7 DEF Ordem
    <3> QED
      BY <3>5, <3>8
  <2> QED
    BY <2>1, <2>2, <2>3
<1> QED
  BY <1>1, <1>2, <1>3, <1>4 DEF AlertasNext

(* The alerts of an act whose deadline nobody moved only become more       *)
(* urgent while executions do not overlap.                                 *)
THEOREM AgravaCorrect == AlertasSpec => Agrava
<1> DEFINE Piora == \A a \in Actos \ reagendado :
                      ~sobrepostas => gravidade[escalao'[a]] >= gravidade[escalao[a]]
<1>1. AlertasInit => ActosTipos /\ ExecTipos /\ So /\ Existem /\ Ordem
  <2> SUFFICES ASSUME AlertasInit PROVE So /\ Existem /\ Ordem /\ ActosTipos /\ ExecTipos
    OBVIOUS
  <2>1. ActosTipos /\ ExecTipos
    BY ActosInicio, ExecInicio DEF AlertasInit
  <2>2. /\ \A e \in Execucoes : exec[e].pc = "parada"
        /\ \A a \in Actos : escalao[a] = "nenhum"
    BY DEF AlertasInit, Parada
  <2>3. So
    BY <2>2 DEF AlertasInit, So
  <2>4. Existem
    BY <2>2 DEF Existem
  <2>5. \A a \in Actos : gravidade[escalao[a]] <= Urgencia(a)
    <3>1. gravidade["nenhum"] = 0
      BY BucketCresce
    <3>2. \A a \in Actos : Urgencia(a) \in 1..3
      BY <2>1, UrgenciaTipo
    <3> QED
      BY <2>2, <3>1, <3>2
  <2>6. \A e \in Execucoes : Itens(e)
    BY <2>2 DEF Itens
  <2> QED
    BY <2>1, <2>3, <2>4, <2>5, <2>6 DEF Ordem
<1>2. ActosTipos /\ ExecTipos /\ So /\ Existem /\ Ordem /\ [AlertasNext]_alertasVars =>
        So' /\ Existem' /\ Ordem'
  BY SoPasso, OrdemPasso
<1>3. ActosTipos /\ ExecTipos /\ So /\ Existem /\ Ordem /\ [AlertasNext]_alertasVars =>
        [Piora]_alertasVars
  <2> SUFFICES ASSUME ActosTipos, ExecTipos, Existem, Ordem, AlertasNext,
                      NEW a \in Actos, a \notin reagendado, ~sobrepostas
               PROVE  gravidade[escalao'[a]] >= gravidade[escalao[a]]
    BY DEF alertasVars
  <2>1. /\ escalao \in [Actos -> Buckets \cup {"nenhum"}]
        /\ gravidade[escalao[a]] \in 0..3
    <3>1. escalao \in [Actos -> Buckets \cup {"nenhum"}]
      BY DEF ExecTipos
    <3> QED
      BY <3>1, BucketCresce
  <2>2. CASE UNCHANGED escalao
    BY <2>1, <2>2
  <2>3. ASSUME NEW e \in Execucoes, ServeActo(e)
        PROVE  gravidade[escalao'[a]] >= gravidade[escalao[a]]
    <3>1. PICK x \in ItemActo :
            \/ UNCHANGED escalao
            \/ /\ exec[e].pc = "emitirActo" /\ exec[e].alvo = {x}
               /\ escalao' = [escalao EXCEPT ![x.acto] = x.bucket]
      BY <2>3 DEF ServeActo
    <3>2. CASE /\ exec[e].pc = "emitirActo" /\ exec[e].alvo = {x}
               /\ escalao' = [escalao EXCEPT ![x.acto] = x.bucket]
      <4>1. Ordenado(x)
        BY <3>2 DEF Ordem, Itens
      <4>2. x.acto \in Actos /\ gravidade[x.bucket] \in 0..3
        BY BucketCresce DEF ItemActo
      <4>3. escalao'[a] = IF a = x.acto THEN x.bucket ELSE escalao[a]
        BY <2>1, <3>2, <4>2
      <4> QED
        BY <2>1, <4>1, <4>2, <4>3 DEF Ordenado
    <3> QED
      BY <2>2, <3>1, <3>2
  <2>4. ASSUME NEW e \in Execucoes, Executar(e)
        PROVE  UNCHANGED escalao \/ ServeActo(e)
    BY <2>4, ExecutarFaz DEF LeChaves, ServeChave, LeActos, Para
  <2> QED
    BY <2>2, <2>3, <2>4, DiaFaz DEF AlertasNext, alertas
<1> QED
  BY <1>1, <1>2, <1>3, AlertasTiposPasso, PTL DEF AlertasSpec, Agrava
=============================================================================
