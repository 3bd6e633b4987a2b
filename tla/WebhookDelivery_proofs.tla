------------------------ MODULE WebhookDelivery_proofs ------------------------
(***************************************************************************)
(* Proofs about WebhookDelivery: type correctness for any number of        *)
(* processes, and the promises of the queue for one (inFlight keeps one    *)
(* batch at a time in a process), any deliveries, subscriptions and limit  *)
(* of attempts.  Liveness (Termina) stays with TLC.                        *)
(***************************************************************************)
EXTENDS WebhookDelivery, TLAPS

Pontos == {"livre", "lote", "gravar", "retry", "avisar"}
Tentativas == 0..MAX_TENTATIVAS
Lida == [d : Entregas, n : 0..(MAX_TENTATIVAS - 1), activo : BOOLEAN]
WorkerTipo == [pc : Pontos, lote : SUBSET Lida, d : SUBSET Entregas, n : Tentativas]
Aberta(d) == status[d] \in {"PENDING", "RETRYING"}

(* The attempts of a row that is still in the queue, or was when it was    *)
(* read, are not exhausted: the next one has a number of the table.        *)
Processos ==
  /\ worker \in [Workers -> WorkerTipo]
  /\ \A w \in Workers : worker[w].pc \in {"gravar", "retry"} => worker[w].n # 0
Tipos ==
  /\ Processos
  /\ \A d \in Entregas : Aberta(d) => tentativas[d] < MAX_TENTATIVAS

-----------------------------------------------------------------------------
(* What a process knows of the rows it read, when it is the only one: they *)
(* are as it read them, or deleted, and no two are of the same delivery.   *)
ComoLida(d, n) ==
  \/ Existe(d) /\ Aberta(d) /\ tentativas[d] = n
  \/ ~Existe(d) /\ status[d] = "DELETED"

Lote(w) ==
  /\ worker[w].pc \in {"livre", "lote"} => worker[w].d = {}
  /\ worker[w].pc = "livre" => worker[w].lote = {}
  /\ \A d, e \in worker[w].d : d = e
  /\ \A s \in worker[w].lote : ComoLida(s.d, s.n) /\ s.d \notin worker[w].d
  /\ \A s, t \in worker[w].lote : s.d = t.d => s = t
  /\ worker[w].pc \in {"gravar", "retry"} =>
       \A d \in worker[w].d : ComoLida(d, worker[w].n - 1)
  /\ worker[w].pc = "avisar" =>
       \A d \in worker[w].d :
         status[d] \in {"FAILED", "DELETED"} /\ tentativas[d] = MAX_TENTATIVAS

Linhas ==
  /\ \A d \in Entregas : \A h, k \in hook[d] : h = k
  /\ \A d \in Entregas : Existe(d) => status[d] # "DELETED"
  /\ \A d \in Entregas : ~Existe(d) =>
       \/ status[d] = "DELETED"
       \/ status[d] = "PENDING" /\ tentativas[d] = 0

(* A 2xx too many is a failure that was counted.                           *)
Gravando(w, d) == worker[w].pc = "gravar" /\ d \in worker[w].d
Aceites(w) ==
  /\ \A d \in Entregas : aceites[d] <= 1 + avarias
  /\ \A d \in Entregas : Aberta(d) => aceites[d] <= avarias \/ Gravando(w, d)
  /\ \A s \in worker[w].lote : aceites[s.d] <= avarias
  /\ \A d \in Entregas : Gravando(w, d) \/ status[d] = "SUCCESS" => aceites[d] >= 1

Esperas(w) ==
  /\ \A d \in Entregas : esperas[d] \subseteq 1..(MAX_TENTATIVAS - 1)
  /\ \A d \in Entregas : Aberta(d) => esperas[d] = 1..tentativas[d]
  /\ \A d \in Entregas : status[d] = "RETRYING" => tentativas[d] # 0
  /\ \A d \in Entregas :
       avisos[d] => status[d] \in {"FAILED", "DELETED"} /\ tentativas[d] = MAX_TENTATIVAS
  /\ \A d \in Entregas :
       (avarias = 0 /\ status[d] = "FAILED" /\ tentativas[d] = MAX_TENTATIVAS) =>
         avisos[d] \/ (worker[w].pc = "avisar" /\ d \in worker[w].d)

-----------------------------------------------------------------------------
LEMMA LivreTipo == Livre \in WorkerTipo /\ Livre.pc = "livre" /\ Livre.lote = {} /\ Livre.d = {}
BY TentativasAssumption DEF Livre, WorkerTipo, Pontos, Tentativas

(* A process that moves: the others stay where they are.                   *)
LEMMA Move ==
  ASSUME Processos, NEW w \in Workers, NEW r \in WorkerTipo, Passa(w, r),
         r.pc \in {"gravar", "retry"} => r.n # 0
  PROVE  Processos' /\ worker'[w] = r
BY DEF Processos, Passa

LEMMA Para ==
  ASSUME Processos, NEW w \in Workers, Passa(w, Livre)
  PROVE  Processos' /\ worker'[w] = Livre
BY LivreTipo, Move

LEMMA Avariou ==
  ASSUME NEW t, Avaria(t), avarias \in 0..MaxAvarias
  PROVE  avarias' \in 0..MaxAvarias /\ avarias' = avarias + 1
BY MaxAvariasAssumption DEF Avaria

LEMMA TypeInicio == Init => TypeOK /\ Tipos
<1> SUFFICES ASSUME Init PROVE TypeOK /\ Tipos
  OBVIOUS
<1>1. worker \in [Workers -> WorkerTipo] /\ \A w \in Workers : worker[w] = Livre
  BY LivreTipo DEF Init
<1>2. 0 \in 0..MAX_TENTATIVAS /\ 0 \in 0..BACKOFF_SECONDS /\ 0 \in 0..MaxAvarias
      /\ 0 < MAX_TENTATIVAS
  BY TentativasAssumption, BackoffAssumption, MaxAvariasAssumption
<1>3. /\ hook \in [Entregas -> SUBSET Webhooks]
      /\ status \in [Entregas -> Estados]
      /\ tentativas \in [Entregas -> 0..MAX_TENTATIVAS]
      /\ espera \in [Entregas -> 0..BACKOFF_SECONDS]
      /\ activo \in [Webhooks -> BOOLEAN] /\ apagado \in [Webhooks -> BOOLEAN]
      /\ aceites \in [Entregas -> Nat] /\ avisos \in [Entregas -> BOOLEAN]
      /\ esperas \in [Entregas -> SUBSET (1..BACKOFF_SECONDS)]
      /\ avarias \in 0..MaxAvarias
      /\ \A d \in Entregas : tentativas[d] < MAX_TENTATIVAS
  BY <1>2 DEF Init, Estados
<1>4. Processos
  BY <1>1, LivreTipo DEF Processos
<1> QED
  BY <1>1, <1>3, <1>4, LivreTipo, TentativasAssumption
  DEF TypeOK, Tipos, Livre
(* What TypeOK says of the rows, and of the processes.                     *)
LinhasTipo ==
  /\ hook \in [Entregas -> SUBSET Webhooks]
  /\ status \in [Entregas -> Estados]
  /\ tentativas \in [Entregas -> 0..MAX_TENTATIVAS]
  /\ espera \in [Entregas -> 0..BACKOFF_SECONDS]
  /\ activo \in [Webhooks -> BOOLEAN] /\ apagado \in [Webhooks -> BOOLEAN]
  /\ aceites \in [Entregas -> Nat] /\ avisos \in [Entregas -> BOOLEAN]
  /\ esperas \in [Entregas -> SUBSET (1..BACKOFF_SECONDS)]
  /\ avarias \in 0..MaxAvarias

LEMMA TipoPartes == Processos => (TypeOK <=> LinhasTipo)
<1> SUFFICES ASSUME Processos PROVE TypeOK <=> LinhasTipo
  OBVIOUS
<1>1. \A w \in Workers :
       /\ worker[w].pc \in {"livre", "lote", "gravar", "retry", "avisar"}
       /\ worker[w].d \subseteq Entregas /\ worker[w].n \in 0..MAX_TENTATIVAS
  BY DEF Processos, WorkerTipo, Pontos, Tentativas
<1>2. ASSUME NEW w \in Workers, NEW s \in worker[w].lote
      PROVE  s.d \in Entregas /\ s.n \in 0..MAX_TENTATIVAS /\ s.activo \in BOOLEAN
  <2>1. s \in Lida
    BY DEF Processos, WorkerTipo
  <2>2. s.n \in 0..(MAX_TENTATIVAS - 1) /\ s.d \in Entregas /\ s.activo \in BOOLEAN
    BY <2>1 DEF Lida
  <2> QED
    BY <2>2, TentativasAssumption
<1> QED
  BY <1>1, <1>2 DEF TypeOK, LinhasTipo

(* One of the batch: its attempt and the process that makes it.            *)
LEMMA DaLida ==
  ASSUME Processos, NEW w \in Workers, NEW s \in worker[w].lote, NEW x \in {"retry", "gravar"}
  PROVE  /\ s.d \in Entregas /\ s.n \in 0..(MAX_TENTATIVAS - 1)
         /\ [pc |-> x, lote |-> worker[w].lote \ {s}, d |-> {s.d}, n |-> s.n + 1] \in WorkerTipo
         /\ s.n + 1 # 0
         /\ [worker[w] EXCEPT !.lote = @ \ {s}] \in WorkerTipo
<1>1. s \in Lida /\ worker[w] \in WorkerTipo
  BY DEF Processos, WorkerTipo
<1>2. s.d \in Entregas /\ s.n \in 0..(MAX_TENTATIVAS - 1)
  BY <1>1 DEF Lida
<1>3. s.n + 1 \in Tentativas /\ s.n + 1 # 0
  BY <1>2, TentativasAssumption DEF Tentativas
<1> QED
  BY <1>1, <1>2, <1>3 DEF WorkerTipo, Pontos

(* The other records a process moves to.                                   *)
Fim(w) == [worker[w] EXCEPT !.pc = "lote", !.d = {}]
Em(w, x) == [worker[w] EXCEPT !.pc = x]

LEMMA DaActual ==
  ASSUME Processos, NEW w \in Workers
  PROVE  /\ Fim(w) \in WorkerTipo /\ Fim(w).pc = "lote" /\ Fim(w).d = {}
         /\ Fim(w).lote = worker[w].lote
         /\ \A x \in Pontos :
              /\ Em(w, x) \in WorkerTipo /\ Em(w, x).pc = x /\ Em(w, x).d = worker[w].d
              /\ Em(w, x).lote = worker[w].lote /\ Em(w, x).n = worker[w].n
<1>1. worker[w] \in WorkerTipo
  BY DEF Processos
<1>2. PICK y \in WorkerTipo : y = worker[w]
  BY <1>1
<1>3. Fim(w) = [[y EXCEPT !.pc = "lote"] EXCEPT !.d = {}]
  BY <1>2 DEF Fim
<1>4. /\ Fim(w) \in WorkerTipo /\ Fim(w).pc = "lote" /\ Fim(w).d = {} /\ Fim(w).lote = y.lote
  BY <1>3 DEF WorkerTipo, Pontos
<1>5. ASSUME NEW x \in Pontos
      PROVE  /\ Em(w, x) \in WorkerTipo /\ Em(w, x).pc = x /\ Em(w, x).d = y.d
             /\ Em(w, x).lote = y.lote /\ Em(w, x).n = y.n
  BY <1>2 DEF Em, WorkerTipo
<1> QED
  BY <1>2, <1>4, <1>5

LEMMA Entrada ==
  ASSUME NEW n \in Tentativas, n # 0
  PROVE  entrada(n) \in 1..BACKOFF_SECONDS /\ entrada(n) \in 0..BACKOFF_SECONDS
BY BackoffAssumption, TentativasAssumption DEF entrada, Tentativas

LEMMA TypePasso == TypeOK /\ Tipos /\ [Next]_vars => TypeOK' /\ Tipos'
<1> SUFFICES ASSUME TypeOK, Tipos, [Next]_vars PROVE TypeOK' /\ Tipos'
  OBVIOUS
<1>0. /\ Processos /\ LinhasTipo
      /\ \A w \in Workers : worker[w] \in WorkerTipo
      /\ \A d \in Entregas : Aberta(d) => tentativas[d] < MAX_TENTATIVAS
  BY TipoPartes DEF Tipos, Processos
<1>1. ASSUME Processos', LinhasTipo',
             \A d \in Entregas : Aberta(d)' =>
               \/ Aberta(d) /\ tentativas'[d] = tentativas[d]
               \/ tentativas'[d] < MAX_TENTATIVAS
      PROVE  TypeOK' /\ Tipos'
  <2>1. (Processos => (TypeOK <=> LinhasTipo))'
    <3>1. ASSUME Processos' PROVE TypeOK' <=> LinhasTipo'
      <4>1. \A w \in Workers :
             /\ worker'[w].pc \in {"livre", "lote", "gravar", "retry", "avisar"}
             /\ worker'[w].d \subseteq Entregas /\ worker'[w].n \in 0..MAX_TENTATIVAS
        BY <3>1 DEF Processos, WorkerTipo, Pontos, Tentativas
      <4>2. ASSUME NEW w \in Workers, NEW s \in worker'[w].lote
            PROVE  s.d \in Entregas /\ s.n \in 0..MAX_TENTATIVAS /\ s.activo \in BOOLEAN
        <5>1. s \in Lida
          BY <3>1 DEF Processos, WorkerTipo
        <5>2. s.n \in 0..(MAX_TENTATIVAS - 1) /\ s.d \in Entregas /\ s.activo \in BOOLEAN
          BY <5>1 DEF Lida
        <5> QED
          BY <5>2, TentativasAssumption
      <4> QED
        BY <4>1, <4>2 DEF TypeOK, LinhasTipo
    <3> QED
      BY <3>1
  <2> QED
    BY <1>0, <1>1, <2>1 DEF Tipos
(* A step that leaves the status and the attempts alone. *)
<1>2. ASSUME Processos', LinhasTipo', UNCHANGED <<status, tentativas>>
      PROVE  TypeOK' /\ Tipos'
  BY <1>1, <1>2 DEF Aberta
<1>3. CASE UNCHANGED vars
  BY <1>0, <1>2, <1>3 DEF vars, Processos, LinhasTipo
<1>4. ASSUME NEW d \in Entregas, NEW h \in Webhooks, EnqueueEvent(d, h)
      PROVE  TypeOK' /\ Tipos'
  BY <1>0, <1>2, <1>4 DEF EnqueueEvent, Processos, LinhasTipo
<1>5. ASSUME NEW h \in Webhooks, Update(h)
      PROVE  TypeOK' /\ Tipos'
  <2>1. activo' \in [Webhooks -> BOOLEAN]
    BY <1>0, <1>5, Zenon DEF Update, LinhasTipo
  <2> QED
    BY <1>0, <1>2, <1>5, <2>1 DEF Update, Processos, LinhasTipo
<1>6. ASSUME NEW h \in Webhooks, Remove(h)
      PROVE  TypeOK' /\ Tipos'
  <2>1. apagado' \in [Webhooks -> BOOLEAN]
    BY <1>0, <1>6, Zenon DEF Remove, LinhasTipo
  <2>2. /\ hook' \in [Entregas -> SUBSET Webhooks] /\ status' \in [Entregas -> Estados]
        /\ \A d \in Entregas : status'[d] \in {status[d], "DELETED"}
    BY <1>0, <1>6 DEF Remove, LinhasTipo, Estados
  <2>3. Processos' /\ LinhasTipo' /\ tentativas' = tentativas
    BY <1>0, <1>6, <2>1, <2>2 DEF Remove, Processos, LinhasTipo
  <2> QED
    BY <1>1, <2>2, <2>3 DEF Aberta
<1>7. ASSUME NEW d \in Entregas, Vencer(d)
      PROVE  TypeOK' /\ Tipos'
  <2>1. 0 \in 0..BACKOFF_SECONDS
    BY BackoffAssumption
  <2> QED
    BY <1>0, <1>2, <1>7, <2>1 DEF Vencer, Processos, LinhasTipo
<1>8. ASSUME NEW w \in Workers, ProcessBatch(w)
      PROVE  TypeOK' /\ Tipos'
  <2> DEFINE lidas == {[d |-> d, n |-> tentativas[d], activo |-> \A h \in hook[d] : activo[h]] :
                         d \in {e \in Entregas : pendente(e)}}
             r == [Livre EXCEPT !.pc = "lote", !.lote = lidas]
  <2>1. \A d \in Entregas : pendente(d) => tentativas[d] \in 0..(MAX_TENTATIVAS - 1)
    BY <1>0, TentativasAssumption DEF pendente, Aberta, LinhasTipo
  <2>2. lidas \in SUBSET Lida
    <3> SUFFICES ASSUME NEW l \in lidas PROVE l \in Lida
      OBVIOUS
    <3>1. PICK d \in Entregas :
            pendente(d) /\ l = [d |-> d, n |-> tentativas[d], activo |-> \A h \in hook[d] : activo[h]]
      OBVIOUS
    <3>2. PICK b \in BOOLEAN : l = [d |-> d, n |-> tentativas[d], activo |-> b]
      BY <3>1, Zenon
    <3> HIDE DEF lidas
    <3> QED
      BY <2>1, <3>1, <3>2 DEF Lida
  <2> HIDE DEF lidas
  <2>3. r \in WorkerTipo /\ r.pc = "lote"
    <3>1. 0 \in Tentativas
      BY TentativasAssumption DEF Tentativas
    <3>2. [Livre EXCEPT !.pc = "lote"] = [pc |-> "lote", lote |-> {}, d |-> {}, n |-> 0]
      BY DEF Livre
    <3>3. r = [[Livre EXCEPT !.pc = "lote"] EXCEPT !.lote = lidas]
      OBVIOUS
    <3>4. r.pc = "lote" /\ r \in WorkerTipo
      BY <2>2, <3>1, <3>2, <3>3 DEF WorkerTipo, Pontos
    <3> QED
      BY <3>4
  <2>4. Passa(w, r)
    BY <1>8 DEF ProcessBatch, lidas
  <2> HIDE DEF r
  <2>5. Processos'
    BY <1>0, <2>3, <2>4, Move
  <2> QED
    BY <1>0, <1>2, <1>8, <2>5 DEF ProcessBatch, LinhasTipo
<1>9. ASSUME NEW w \in Workers, NEW s \in worker[w].lote, Desactivada(w, s)
      PROVE  TypeOK' /\ Tipos'
  <2> DEFINE r == [worker[w] EXCEPT !.lote = @ \ {s}]
  <2>1. /\ s.d \in Entregas /\ r \in WorkerTipo
    BY <1>0, DaLida
  <2>2. r.pc = "lote"
    BY <1>0, <1>9 DEF Desactivada, WorkerTipo
  <2>3. /\ Passa(w, r) \/ Passa(w, Livre)
        /\ avarias' = avarias \/ Avaria("bd")
        /\ status' = status \/ status' = [status EXCEPT ![s.d] = "FAILED"]
        /\ UNCHANGED <<hook, tentativas, espera, activo, apagado, aceites, avisos, esperas>>
    BY <1>9 DEF Desactivada
  <2> HIDE DEF r
  <2>4. Processos'
    BY <1>0, <2>1, <2>2, <2>3, Move, Para
  <2>5. /\ status' \in [Entregas -> Estados] /\ avarias' \in 0..MaxAvarias
        /\ \A d \in Entregas : status'[d] \in {status[d], "FAILED"}
    BY <1>0, <2>1, <2>3, Avariou DEF LinhasTipo, Estados
  <2>6. LinhasTipo'
    BY <1>0, <2>3, <2>5 DEF LinhasTipo
  <2> QED
    BY <1>1, <2>3, <2>4, <2>5, <2>6 DEF Aberta
<1>10. ASSUME NEW w \in Workers, NEW s \in worker[w].lote, DeliverOne(w, s)
       PROVE  TypeOK' /\ Tipos'
  <2> DEFINE r(x) == [pc |-> x, lote |-> worker[w].lote \ {s}, d |-> {s.d}, n |-> s.n + 1]
  <2>1. /\ s.d \in Entregas
        /\ \A x \in {"retry", "gravar"} : r(x) \in WorkerTipo /\ r(x).n # 0
    BY <1>0, DaLida
  <2>2. \E x \in {"retry", "gravar"} : Passa(w, r(x))
    BY <1>10 DEF DeliverOne
  <2>3. aceites' = aceites \/ aceites' = [aceites EXCEPT ![s.d] = @ + 1]
    BY <1>10 DEF DeliverOne
  <2> HIDE DEF r
  <2>4. Processos'
    BY <1>0, <2>1, <2>2, Move
  <2>5. aceites' \in [Entregas -> Nat]
    BY <1>0, <2>1, <2>3 DEF LinhasTipo
  <2>6. avarias' \in 0..MaxAvarias
    <3>1. avarias' = avarias \/ Avaria("rede")
      BY <1>10 DEF DeliverOne
    <3> QED
      BY <1>0, <3>1, Avariou DEF LinhasTipo
  <2> QED
    BY <1>0, <1>2, <1>10, <2>4, <2>5, <2>6 DEF DeliverOne, LinhasTipo
<1>11. ASSUME NEW w \in Workers, GravarSucesso(w)
       PROVE  TypeOK' /\ Tipos'
  <2>1. PICK d \in worker[w].d :
          /\ Passa(w, Fim(w)) \/ Passa(w, Em(w, "retry"))
          /\ avarias' = avarias \/ Avaria("bd")
          /\ \/ UNCHANGED <<status, tentativas>>
             \/ /\ status' = [status EXCEPT ![d] = "SUCCESS"]
                /\ tentativas' = [tentativas EXCEPT ![d] = worker[w].n]
          /\ UNCHANGED <<hook, espera, activo, apagado, aceites, avisos, esperas>>
    BY <1>11 DEF GravarSucesso, Fim, Em
  <2>2. d \in Entregas /\ worker[w].n \in 0..MAX_TENTATIVAS /\ worker[w].n # 0
    BY <1>0, <1>11 DEF Processos, GravarSucesso, WorkerTipo, Tentativas
  <2>3. Processos'
    BY <1>0, <2>1, <2>2, DaActual, Move DEF Pontos
  <2>4. /\ status' \in [Entregas -> Estados] /\ tentativas' \in [Entregas -> 0..MAX_TENTATIVAS]
        /\ \A e \in Entregas :
             \/ status'[e] = status[e] /\ tentativas'[e] = tentativas[e]
             \/ status'[e] = "SUCCESS"
    BY <1>0, <2>1, <2>2 DEF LinhasTipo, Estados
  <2>5. avarias' \in 0..MaxAvarias
    BY <1>0, <2>1, Avariou DEF LinhasTipo
  <2>6. LinhasTipo'
    BY <1>0, <2>1, <2>4, <2>5 DEF LinhasTipo
  <2> QED
    BY <1>1, <2>3, <2>4, <2>6 DEF Aberta
<1>12. ASSUME NEW w \in Workers, ScheduleRetry(w)
       PROVE  TypeOK' /\ Tipos'
  <2> DEFINE n == worker[w].n
             x == entrada(n)
  <2>1. PICK d \in worker[w].d :
          /\ \/ /\ status' = [status EXCEPT ![d] = "FAILED"]
                /\ tentativas' = [tentativas EXCEPT ![d] = n]
                /\ Passa(w, Em(w, "avisar"))
                /\ UNCHANGED <<espera, esperas, avarias>>
             \/ /\ ~esgotada(n)
                /\ status' = [status EXCEPT ![d] = "RETRYING"]
                /\ tentativas' = [tentativas EXCEPT ![d] = n]
                /\ espera' = [espera EXCEPT ![d] = x]
                /\ esperas' = [esperas EXCEPT ![d] = @ \cup {x}]
                /\ Passa(w, Fim(w))
                /\ UNCHANGED avarias
             \/ /\ Passa(w, Livre)
                /\ avarias' = avarias \/ Avaria("bd")
                /\ UNCHANGED <<status, tentativas, espera, esperas>>
          /\ UNCHANGED <<hook, activo, apagado, aceites, avisos>>
    BY <1>12 DEF ScheduleRetry, Fim, Em
  <2>2. d \in Entregas /\ n \in 0..MAX_TENTATIVAS /\ n # 0 /\ n \in Tentativas
    BY <1>0, <1>12 DEF Processos, ScheduleRetry, WorkerTipo, Tentativas
  <2>3. x \in 1..BACKOFF_SECONDS /\ x \in 0..BACKOFF_SECONDS
    BY <2>2, Entrada
  <2>4. ~esgotada(n) => n < MAX_TENTATIVAS
    BY <2>2, TentativasAssumption DEF esgotada
  <2> HIDE DEF n, x
  <2>5. Processos'
    BY <1>0, <2>1, DaActual, Move, Para DEF Pontos
  <2>6. /\ status' \in [Entregas -> Estados] /\ tentativas' \in [Entregas -> 0..MAX_TENTATIVAS]
        /\ \A e \in Entregas :
             \/ status'[e] = status[e] /\ tentativas'[e] = tentativas[e]
             \/ status'[e] = "FAILED"
             \/ tentativas'[e] < MAX_TENTATIVAS
    BY <1>0, <2>1, <2>2, <2>4 DEF LinhasTipo, Estados
  <2>7. /\ espera' \in [Entregas -> 0..BACKOFF_SECONDS]
        /\ esperas' \in [Entregas -> SUBSET (1..BACKOFF_SECONDS)]
    BY <1>0, <2>1, <2>2, <2>3 DEF LinhasTipo
  <2>8. avarias' \in 0..MaxAvarias
    BY <1>0, <2>1, Avariou DEF LinhasTipo
  <2>9. LinhasTipo'
    BY <1>0, <2>1, <2>6, <2>7, <2>8 DEF LinhasTipo
  <2> QED
    BY <1>1, <2>5, <2>6, <2>9 DEF Aberta
<1>13. ASSUME NEW w \in Workers, Avisar(w)
       PROVE  TypeOK' /\ Tipos'
  <2>1. /\ Passa(w, Fim(w))
        /\ avarias' = avarias \/ Avaria("bd")
        /\ UNCHANGED <<hook, status, tentativas, espera, activo, apagado, aceites, esperas>>
        /\ avisos' = avisos \/ \E d \in worker[w].d : avisos' = [avisos EXCEPT ![d] = TRUE]
    BY <1>13 DEF Avisar, Fim, Alerta
  <2>2. Processos'
    BY <1>0, <2>1, DaActual, Move
  <2>3. avisos' \in [Entregas -> BOOLEAN]
    BY <1>0, <2>1, Zenon DEF LinhasTipo
  <2>4. avarias' \in 0..MaxAvarias
    BY <1>0, <2>1, Avariou DEF LinhasTipo
  <2> QED
    BY <1>0, <1>2, <2>1, <2>2, <2>3, <2>4 DEF LinhasTipo
<1>14. ASSUME NEW w \in Workers, FimDoLote(w)
       PROVE  TypeOK' /\ Tipos'
  <2>1. Processos'
    BY <1>0, <1>14, Para DEF FimDoLote
  <2> QED
    BY <1>0, <1>2, <1>14, <2>1 DEF FimDoLote, LinhasTipo
<1>15. ASSUME NEW w \in Workers, Queda(w)
       PROVE  TypeOK' /\ Tipos'
  <2>1. Processos'
    BY <1>0, <1>15, Para DEF Queda
  <2>2. avarias' \in 0..MaxAvarias
    BY <1>0, <1>15, Avariou DEF Queda, LinhasTipo
  <2> QED
    BY <1>0, <1>2, <1>15, <2>1, <2>2 DEF Queda, LinhasTipo
<1> QED
  BY <1>3, <1>4, <1>5, <1>6, <1>7, <1>8, <1>9, <1>10, <1>11, <1>12, <1>13, <1>14, <1>15
  DEF Next, Passo

(* Type correctness, for every value of the constants.                     *)
THEOREM TypeCorrect == Spec => []TypeOK
BY TypeInicio, TypePasso, PTL DEF Spec
-----------------------------------------------------------------------------
LEMMA FilaInicio ==
  ASSUME NEW w \in Workers, Init
  PROVE  Lote(w) /\ Linhas /\ Aceites(w) /\ Esperas(w)
<1>1. worker[w] = Livre
  BY DEF Init
<1>2. Lote(w)
  BY <1>1, LivreTipo DEF Lote
<1>3. Linhas
  BY DEF Init, Linhas, Existe
<1>4. Aceites(w)
  BY <1>1, LivreTipo DEF Init, Aceites, Gravando
<1>5. Esperas(w)
  BY <1>1, LivreTipo, TentativasAssumption DEF Init, Esperas
<1> QED
  BY <1>2, <1>3, <1>4, <1>5

(* The batch: the rows that are due, once each, as they are.               *)
LEMMA Leitura ==
  ASSUME Processos, NEW w \in Workers, ProcessBatch(w)
  PROVE  /\ worker'[w].pc = "lote" /\ worker'[w].d = {}
         /\ \A s \in worker'[w].lote :
              s.d \in Entregas /\ Existe(s.d) /\ Aberta(s.d) /\ tentativas[s.d] = s.n
         /\ \A s, t \in worker'[w].lote : s.d = t.d => s = t
<1> DEFINE lidas == {[d |-> d, n |-> tentativas[d], activo |-> \A h \in hook[d] : activo[h]] :
                       d \in {e \in Entregas : pendente(e)}}
<1>1. worker'[w].pc = "lote" /\ worker'[w].d = {} /\ worker'[w].lote = lidas
  <2>1. worker'[w] = [Livre EXCEPT !.pc = "lote", !.lote = lidas]
    BY DEF ProcessBatch, Passa, Processos
  <2> HIDE DEF lidas
  <2>2. worker'[w] = [[Livre EXCEPT !.pc = "lote"] EXCEPT !.lote = lidas]
    BY <2>1
  <2>3. [Livre EXCEPT !.pc = "lote"] = [pc |-> "lote", lote |-> {}, d |-> {}, n |-> 0]
    BY DEF Livre
  <2> QED
    BY <2>2, <2>3
<1>2. ASSUME NEW s \in lidas
      PROVE  /\ s.d \in Entregas /\ pendente(s.d) /\ s.n = tentativas[s.d]
             /\ s = [d |-> s.d, n |-> tentativas[s.d],
                     activo |-> \A h \in hook[s.d] : activo[h]]
  <2>1. PICK d \in Entregas :
          pendente(d) /\ s = [d |-> d, n |-> tentativas[d], activo |-> \A h \in hook[d] : activo[h]]
    OBVIOUS
  <2> HIDE DEF lidas
  <2>2. s.d = d /\ s.n = tentativas[d]
    BY <2>1
  <2> QED
    BY <2>1, <2>2, Zenon
<1> HIDE DEF lidas
<1>3. \A s, t \in lidas : s.d = t.d => s = t
  BY <1>2, Zenon
<1>4. \A s \in lidas : s.d \in Entregas /\ Existe(s.d) /\ Aberta(s.d) /\ tentativas[s.d] = s.n
  BY <1>2 DEF pendente, Aberta
<1> QED
  BY <1>1, <1>3, <1>4

(* The only process: it serves rows as it read them, or deleted since.     *)
LEMMA LotePasso ==
  ASSUME NEW w \in Workers, Workers = {w}, TypeOK, Tipos, Lote(w), Linhas, [Next]_vars
  PROVE  Lote(w)' /\ Linhas'
<1>0. /\ Processos /\ LinhasTipo /\ worker[w] \in WorkerTipo
      /\ worker[w].d \subseteq Entregas /\ worker[w].n \in 0..MAX_TENTATIVAS
      /\ \A s \in worker[w].lote : s.d \in Entregas /\ s.n \in 0..(MAX_TENTATIVAS - 1)
  BY TipoPartes, DaLida DEF Tipos, Processos, WorkerTipo, Tentativas
(* The process does not move, and the rows of its batch stay or are gone.  *)
<1>1. ASSUME worker' = worker, tentativas' = tentativas,
             \A d \in Entregas :
               \/ status'[d] = status[d] /\ hook'[d] = hook[d]
               \/ status'[d] = "DELETED" /\ hook'[d] = {}
               \/ ~Existe(d) /\ status[d] = "PENDING"
      PROVE  Lote(w)'
  <2>1. \A n : \A d \in Entregas : ComoLida(d, n) => ComoLida(d, n)'
    BY <1>1 DEF ComoLida, Existe, Aberta
  <2>2. \A d \in Entregas : status[d] \in {"FAILED", "DELETED"} =>
                             status'[d] \in {"FAILED", "DELETED"}
    BY <1>1
  <2> QED
    BY <1>0, <1>1, <2>1, <2>2 DEF Lote
<1>2. CASE UNCHANGED <<worker, tentativas, status, hook>>
  <2>1. Linhas'
    BY <1>2 DEF Linhas, Existe
  <2> QED
    BY <1>1, <1>2, <2>1
<1>3. ASSUME NEW d \in Entregas, NEW h \in Webhooks, EnqueueEvent(d, h)
      PROVE  Lote(w)' /\ Linhas'
  <2>1. /\ UNCHANGED <<worker, status, tentativas>> /\ ~Existe(d) /\ status[d] = "PENDING"
        /\ hook'[d] = {h} /\ \A e \in Entregas : e # d => hook'[e] = hook[e]
    BY <1>0, <1>3 DEF EnqueueEvent, LinhasTipo
  <2>2. Linhas'
    BY <2>1 DEF Linhas, Existe
  <2> QED
    BY <1>1, <2>1, <2>2
<1>4. ASSUME NEW h \in Webhooks, Remove(h)
      PROVE  Lote(w)' /\ Linhas'
  <2>1. /\ UNCHANGED <<worker, tentativas>>
        /\ \A d \in Entregas :
             /\ hook'[d] = hook[d] \ {h}
             /\ hook[d] = {h} => status'[d] = "DELETED"
             /\ hook[d] # {h} => status'[d] = status[d]
    BY <1>0, <1>4 DEF Remove, LinhasTipo
  <2>2. \A d \in Entregas : hook[d] = {h} \/ h \notin hook[d]
    BY DEF Linhas
  <2>3. \A d \in Entregas : \/ status'[d] = status[d] /\ hook'[d] = hook[d]
                            \/ status'[d] = "DELETED" /\ hook'[d] = {}
    BY <2>1, <2>2
  <2>4. Linhas'
    BY <2>1, <2>3 DEF Linhas, Existe
  <2> QED
    BY <1>1, <2>1, <2>3, <2>4
<1>5. CASE ProcessBatch(w)
  <2>1. /\ UNCHANGED <<hook, status, tentativas>>
        /\ worker'[w].pc = "lote" /\ worker'[w].d = {}
        /\ \A s \in worker'[w].lote : Existe(s.d) /\ Aberta(s.d) /\ tentativas[s.d] = s.n
        /\ \A s, t \in worker'[w].lote : s.d = t.d => s = t
    BY <1>0, <1>5, Leitura DEF ProcessBatch
  <2> QED
    BY <2>1 DEF Lote, Linhas, ComoLida, Existe, Aberta
(* The process gives the batch up: nothing is promised of what it held.    *)
<1>6. ASSUME Passa(w, Livre), UNCHANGED <<hook, status, tentativas>>
      PROVE  Lote(w)' /\ Linhas'
  <2>1. worker'[w] = Livre
    BY <1>0, <1>6, Para
  <2> QED
    BY <1>6, <2>1, LivreTipo DEF Lote, Linhas, Existe
(* The row of one delivery changes, one the process is done with.          *)
<1>7. ASSUME NEW d \in Entregas, Existe(d), hook' = hook, status'[d] # "DELETED",
             \A e \in Entregas : e # d => status'[e] = status[e] /\ tentativas'[e] = tentativas[e],
             worker'[w].pc = "lote", worker'[w].d = {}, worker'[w].lote \subseteq worker[w].lote,
             \A s \in worker'[w].lote : s.d # d
      PROVE  Lote(w)' /\ Linhas'
  <2>1. \A s \in worker'[w].lote : ComoLida(s.d, s.n)'
    BY <1>0, <1>7 DEF Lote, ComoLida, Existe, Aberta
  <2>2. Linhas'
    BY <1>7 DEF Linhas, Existe
  <2>3. Lote(w)'
    BY <1>7, <2>1 DEF Lote
  <2> QED
    BY <2>2, <2>3
<1>8. ASSUME NEW s \in worker[w].lote, Desactivada(w, s)
      PROVE  Lote(w)' /\ Linhas'
  <2>1. CASE Passa(w, Livre) /\ UNCHANGED status
    BY <1>6, <1>8, <2>1 DEF Desactivada
  <2>2. CASE /\ Existe(s.d) /\ status' = [status EXCEPT ![s.d] = "FAILED"]
             /\ Passa(w, [worker[w] EXCEPT !.lote = @ \ {s}])
    <3>1. /\ worker'[w] = [worker[w] EXCEPT !.lote = @ \ {s}]
          /\ worker[w].pc = "lote" /\ hook' = hook /\ tentativas' = tentativas
      BY <1>0, <1>8, <2>2 DEF Desactivada, Passa, Processos
    <3>2. /\ worker'[w].pc = "lote" /\ worker'[w].d = worker[w].d
          /\ worker'[w].lote = worker[w].lote \ {s}
      BY <1>0, <3>1 DEF WorkerTipo
    <3>3. /\ s.d \in Entregas /\ worker[w].d = {}
          /\ \A t \in worker[w].lote \ {s} : t.d # s.d
      BY <1>0, <3>1 DEF Lote
    <3>4. /\ status'[s.d] # "DELETED"
          /\ \A e \in Entregas : e # s.d => status'[e] = status[e] /\ tentativas'[e] = tentativas[e]
      BY <1>0, <2>2, <3>1, <3>3 DEF LinhasTipo
    <3> QED
      BY <1>7, <2>2, <3>1, <3>2, <3>3, <3>4
  <2> QED
    BY <1>8, <2>1, <2>2 DEF Desactivada
<1>9. ASSUME NEW s \in worker[w].lote, DeliverOne(w, s)
      PROVE  Lote(w)' /\ Linhas'
  <2>1. PICK x \in {"retry", "gravar"} :
          worker'[w] = [pc |-> x, lote |-> worker[w].lote \ {s}, d |-> {s.d}, n |-> s.n + 1]
    BY <1>0, <1>9 DEF DeliverOne, Passa, Processos
  <2>2. /\ worker'[w].pc = x /\ worker'[w].lote = worker[w].lote \ {s}
        /\ worker'[w].d = {s.d} /\ worker'[w].n = s.n + 1
        /\ UNCHANGED <<hook, status, tentativas>>
    BY <1>9, <2>1 DEF DeliverOne
  <2>3. \A e, n : ComoLida(e, n)' <=> ComoLida(e, n)
    BY <2>2 DEF ComoLida, Existe, Aberta
  <2>4. worker'[w].n - 1 = s.n
    BY <1>0, <2>2
  <2>5. Lote(w)'
    BY <1>0, <2>2, <2>3, <2>4 DEF Lote
  <2> QED
    BY <2>2, <2>5 DEF Linhas, Existe
<1>10. CASE GravarSucesso(w)
  <2>1. PICK d \in worker[w].d :
          \/ /\ Existe(d) /\ Passa(w, Fim(w))
             /\ status' = [status EXCEPT ![d] = "SUCCESS"]
             /\ tentativas' = [tentativas EXCEPT ![d] = worker[w].n]
          \/ /\ Passa(w, Em(w, "retry"))
             /\ UNCHANGED <<status, tentativas>>
    BY <1>10 DEF GravarSucesso, Fim, Em
  <2>2. /\ hook' = hook /\ worker[w].pc = "gravar" /\ d \in Entregas
        /\ \A s \in worker[w].lote : s.d # d
    BY <1>0, <1>10 DEF GravarSucesso, Lote
  <2>3. CASE Passa(w, Fim(w)) /\ Existe(d) /\ status' = [status EXCEPT ![d] = "SUCCESS"]
             /\ tentativas' = [tentativas EXCEPT ![d] = worker[w].n]
    <3>1. /\ worker'[w].pc = "lote" /\ worker'[w].d = {} /\ worker'[w].lote = worker[w].lote
      BY <1>0, <2>3, DaActual, Move
    <3>2. /\ status'[d] # "DELETED"
          /\ \A e \in Entregas : e # d => status'[e] = status[e] /\ tentativas'[e] = tentativas[e]
      BY <1>0, <2>2, <2>3 DEF LinhasTipo
    <3> QED
      BY <1>7, <2>2, <2>3, <3>1, <3>2
  <2>4. CASE Passa(w, Em(w, "retry")) /\ UNCHANGED <<status, tentativas>>
    <3>1. worker[w].n # 0
      BY <2>2 DEF Tipos, Processos
    <3>2. /\ worker'[w].pc = "retry" /\ worker'[w].d = worker[w].d
          /\ worker'[w].lote = worker[w].lote /\ worker'[w].n = worker[w].n
      BY <1>0, <2>4, <3>1, DaActual, Move DEF Pontos
    <3>3. \A e, n : ComoLida(e, n)' <=> ComoLida(e, n)
      BY <2>2, <2>4 DEF ComoLida, Existe, Aberta
    <3>4. Lote(w)'
      BY <2>2, <3>2, <3>3 DEF Lote
    <3> QED
      BY <2>2, <2>4, <3>4 DEF Linhas, Existe
  <2> QED
    BY <2>1, <2>3, <2>4
<1>11. CASE ScheduleRetry(w)
  <2>1. PICK d \in worker[w].d :
          \/ /\ Existe(d) /\ Passa(w, Em(w, "avisar")) /\ esgotada(worker[w].n)
             /\ status' = [status EXCEPT ![d] = "FAILED"]
             /\ tentativas' = [tentativas EXCEPT ![d] = worker[w].n]
          \/ /\ Existe(d) /\ Passa(w, Fim(w))
             /\ status' = [status EXCEPT ![d] = "RETRYING"]
             /\ tentativas' = [tentativas EXCEPT ![d] = worker[w].n]
          \/ /\ Passa(w, Livre)
             /\ UNCHANGED <<status, tentativas>>
    BY <1>11 DEF ScheduleRetry, Fim, Em
  <2>2. /\ hook' = hook /\ worker[w].pc = "retry" /\ d \in Entregas
        /\ \A s \in worker[w].lote : s.d # d
        /\ \A e \in worker[w].d : e = d
    BY <1>0, <1>11 DEF ScheduleRetry, Lote
  <2>3. CASE /\ Passa(w, Fim(w)) /\ Existe(d) /\ status' = [status EXCEPT ![d] = "RETRYING"]
             /\ tentativas' = [tentativas EXCEPT ![d] = worker[w].n]
    <3>1. /\ worker'[w].pc = "lote" /\ worker'[w].d = {} /\ worker'[w].lote = worker[w].lote
      BY <1>0, <2>3, DaActual, Move
    <3>2. /\ status'[d] # "DELETED"
          /\ \A e \in Entregas : e # d => status'[e] = status[e] /\ tentativas'[e] = tentativas[e]
      BY <1>0, <2>2, <2>3 DEF LinhasTipo
    <3> QED
      BY <1>7, <2>2, <2>3, <3>1, <3>2
  <2>4. CASE /\ Passa(w, Em(w, "avisar")) /\ esgotada(worker[w].n) /\ Existe(d)
             /\ status' = [status EXCEPT ![d] = "FAILED"]
             /\ tentativas' = [tentativas EXCEPT ![d] = worker[w].n]
    <3>1. /\ worker'[w].pc = "avisar" /\ worker'[w].d = worker[w].d
          /\ worker'[w].lote = worker[w].lote
      BY <1>0, <2>4, DaActual, Move DEF Pontos
    <3>2. worker[w].n = MAX_TENTATIVAS
      BY <1>0, <2>4, TentativasAssumption DEF esgotada
    <3>3. /\ status'[d] = "FAILED" /\ tentativas'[d] = MAX_TENTATIVAS
          /\ \A e \in Entregas : e # d => status'[e] = status[e] /\ tentativas'[e] = tentativas[e]
      BY <1>0, <2>2, <2>4, <3>2 DEF LinhasTipo
    <3>4. \A s \in worker'[w].lote : ComoLida(s.d, s.n)' /\ s.d \notin worker'[w].d
      BY <1>0, <2>2, <3>1, <3>3 DEF Lote, ComoLida, Existe, Aberta
    <3>5. Lote(w)'
      BY <2>2, <3>1, <3>3, <3>4 DEF Lote
    <3> QED
      BY <2>2, <2>4, <3>3, <3>5 DEF Linhas, Existe
  <2>5. CASE Passa(w, Livre) /\ UNCHANGED <<status, tentativas>>
    BY <1>6, <2>2, <2>5
  <2> QED
    BY <2>1, <2>3, <2>4, <2>5
<1>12. CASE Avisar(w)
  <2>1. Passa(w, Fim(w)) /\ UNCHANGED <<hook, status, tentativas>>
    BY <1>12 DEF Avisar, Fim
  <2>2. /\ worker'[w].pc = "lote" /\ worker'[w].d = {} /\ worker'[w].lote = worker[w].lote
    BY <1>0, <2>1, DaActual, Move
  <2>3. \A e, n : ComoLida(e, n)' <=> ComoLida(e, n)
    BY <2>1 DEF ComoLida, Existe, Aberta
  <2>4. Lote(w)'
    BY <2>2, <2>3 DEF Lote
  <2> QED
    BY <2>1, <2>4 DEF Linhas, Existe
<1>13. CASE FimDoLote(w) \/ Queda(w)
  BY <1>6, <1>13 DEF FimDoLote, Queda
<1>14. CASE \/ UNCHANGED vars
            \/ \E h \in Webhooks : Update(h)
            \/ \E d \in Entregas : Vencer(d)
  BY <1>2, <1>14 DEF vars, Update, Vencer
<1> QED
  BY <1>3, <1>4, <1>5, <1>8, <1>9, <1>10, <1>11, <1>12, <1>13, <1>14 DEF Next, Passo
(* What the steps of the process do to the rows, as the batch is as read.  *)
LEMMA Gravacao ==
  ASSUME NEW w \in Workers, TypeOK, Tipos, Lote(w), GravarSucesso(w)
  PROVE  \E d \in worker[w].d :
           /\ d \in Entregas /\ worker[w].pc = "gravar" /\ \A e \in worker[w].d : e = d
           /\ worker'[w].lote = worker[w].lote /\ worker'[w].pc \in {"lote", "retry"}
           /\ UNCHANGED <<hook, espera, aceites, avisos, esperas>>
           /\ \/ /\ Aberta(d) /\ status' = [status EXCEPT ![d] = "SUCCESS"]
                 /\ tentativas' = [tentativas EXCEPT ![d] = worker[w].n] /\ avarias' = avarias
              \/ /\ ~Aberta(d) /\ UNCHANGED <<status, tentativas, avarias>>
              \/ /\ avarias' = avarias + 1 /\ UNCHANGED <<status, tentativas>>
<1>0. /\ Processos /\ LinhasTipo /\ worker[w].d \subseteq Entregas
      /\ worker[w].pc = "gravar" /\ worker[w].n # 0
  BY TipoPartes DEF Tipos, Processos, WorkerTipo, GravarSucesso
<1>1. PICK d \in worker[w].d :
        /\ UNCHANGED <<hook, espera, aceites, avisos, esperas>>
        /\ \/ /\ Existe(d) /\ Passa(w, Fim(w))
              /\ status' = [status EXCEPT ![d] = "SUCCESS"]
              /\ tentativas' = [tentativas EXCEPT ![d] = worker[w].n] /\ avarias' = avarias
           \/ /\ ~Existe(d) /\ Passa(w, Em(w, "retry")) /\ UNCHANGED <<status, tentativas, avarias>>
           \/ /\ Avaria("bd") /\ Passa(w, Em(w, "retry")) /\ UNCHANGED <<status, tentativas>>
  BY DEF GravarSucesso, Fim, Em
<1>2. Existe(d) <=> Aberta(d)
  BY <1>0 DEF Lote, ComoLida, Aberta
<1>3. worker'[w].lote = worker[w].lote /\ worker'[w].pc \in {"lote", "retry"}
  BY <1>0, <1>1, DaActual, Move DEF Pontos
<1>4. \A e \in worker[w].d : e = d
  BY DEF Lote
<1>5. Avaria("bd") => avarias' = avarias + 1
  BY DEF Avaria
<1> QED
  BY <1>0, <1>1, <1>2, <1>3, <1>4, <1>5

LEMMA Agendamento ==
  ASSUME NEW w \in Workers, TypeOK, Tipos, Lote(w), ScheduleRetry(w)
  PROVE  \E d \in worker[w].d :
           /\ d \in Entregas /\ worker[w].pc = "retry" /\ worker[w].n # 0
           /\ \A e \in worker[w].d : e = d
           /\ worker'[w].lote \subseteq worker[w].lote
           /\ UNCHANGED <<hook, aceites, avisos>>
           /\ \/ /\ Aberta(d) /\ esgotada(worker[w].n)
                 /\ worker'[w].pc = "avisar" /\ worker'[w].d = worker[w].d
                 /\ status' = [status EXCEPT ![d] = "FAILED"]
                 /\ tentativas' = [tentativas EXCEPT ![d] = worker[w].n]
                 /\ UNCHANGED <<esperas, avarias>>
              \/ /\ Aberta(d) /\ ~esgotada(worker[w].n) /\ tentativas[d] = worker[w].n - 1
                 /\ worker'[w].pc = "lote"
                 /\ status' = [status EXCEPT ![d] = "RETRYING"]
                 /\ tentativas' = [tentativas EXCEPT ![d] = worker[w].n]
                 /\ esperas' = [esperas EXCEPT ![d] = @ \cup {entrada(worker[w].n)}]
                 /\ avarias' = avarias
              \/ /\ worker'[w].pc = "livre" /\ avarias' \in {avarias, avarias + 1}
                 /\ UNCHANGED <<status, tentativas, esperas>>
<1>0. /\ Processos /\ LinhasTipo /\ worker[w].d \subseteq Entregas
      /\ worker[w].pc = "retry" /\ worker[w].n # 0
  BY TipoPartes DEF Tipos, Processos, WorkerTipo, ScheduleRetry
<1>1. PICK d \in worker[w].d :
        /\ UNCHANGED <<hook, aceites, avisos>>
        /\ \/ /\ Existe(d) /\ esgotada(worker[w].n) /\ Passa(w, Em(w, "avisar"))
              /\ status' = [status EXCEPT ![d] = "FAILED"]
              /\ tentativas' = [tentativas EXCEPT ![d] = worker[w].n]
              /\ UNCHANGED <<esperas, avarias>>
           \/ /\ Existe(d) /\ ~esgotada(worker[w].n) /\ Passa(w, Fim(w))
              /\ status' = [status EXCEPT ![d] = "RETRYING"]
              /\ tentativas' = [tentativas EXCEPT ![d] = worker[w].n]
              /\ esperas' = [esperas EXCEPT ![d] = @ \cup {entrada(worker[w].n)}]
              /\ avarias' = avarias
           \/ /\ Passa(w, Livre)
              /\ avarias' = avarias \/ Avaria("bd")
              /\ UNCHANGED <<status, tentativas, esperas>>
  BY DEF ScheduleRetry, Fim, Em
<1>2. Existe(d) => Aberta(d) /\ tentativas[d] = worker[w].n - 1
  BY <1>0 DEF Lote, ComoLida
<1>3. /\ Passa(w, Em(w, "avisar")) => /\ worker'[w].pc = "avisar" /\ worker'[w].d = worker[w].d
                                      /\ worker'[w].lote = worker[w].lote
      /\ Passa(w, Fim(w)) => worker'[w].pc = "lote" /\ worker'[w].lote = worker[w].lote
      /\ Passa(w, Livre) => worker'[w].pc = "livre" /\ worker'[w].lote = {}
  BY <1>0, DaActual, Move, Para, LivreTipo DEF Pontos
<1>4. \A e \in worker[w].d : e = d
  BY DEF Lote
<1>5. Avaria("bd") => avarias' = avarias + 1
  BY DEF Avaria
<1> QED
  BY <1>0, <1>1, <1>2, <1>3, <1>4, <1>5
LEMMA Recusa ==
  ASSUME NEW w \in Workers, TypeOK, Tipos, Lote(w), NEW s \in worker[w].lote, Desactivada(w, s)
  PROVE  /\ s.d \in Entregas /\ worker[w].pc = "lote" /\ worker'[w].pc \in {"lote", "livre"}
         /\ worker'[w].lote \subseteq worker[w].lote
         /\ UNCHANGED <<hook, tentativas, aceites, avisos, esperas>>
         /\ avarias' \in {avarias, avarias + 1}
         /\ \/ status' = status
            \/ Aberta(s.d) /\ status' = [status EXCEPT ![s.d] = "FAILED"]
<1>0. /\ Processos /\ s.d \in Entregas /\ worker[w] \in WorkerTipo
  BY DaLida DEF Tipos, Processos
<1>1. Existe(s.d) => Aberta(s.d)
  BY DEF Lote, ComoLida
<1>2. worker'[w] \in {[worker[w] EXCEPT !.lote = @ \ {s}], Livre}
  BY <1>0 DEF Desactivada, Passa, Processos
<1>3. worker[w].pc = "lote"
  BY DEF Desactivada
<1>4. worker'[w].pc \in {"lote", "livre"} /\ worker'[w].lote \subseteq worker[w].lote
  BY <1>0, <1>2, <1>3, LivreTipo DEF WorkerTipo
<1> QED
  BY <1>0, <1>1, <1>3, <1>4 DEF Desactivada, Avaria

(* SUCCESS and FAILED are final.                                           *)
LEMMA DefinitivoPasso ==
  ASSUME NEW w \in Workers, Workers = {w}, TypeOK, Tipos, Lote(w), [Next]_vars,
         NEW d \in Entregas, status[d] \in {"SUCCESS", "FAILED"}
  PROVE  status'[d] \in {status[d], "DELETED"}
<1>0. LinhasTipo
  BY TipoPartes DEF Tipos
<1>1. CASE UNCHANGED status
  BY <1>1
<1>2. ASSUME NEW h \in Webhooks, Remove(h)
      PROVE  status'[d] \in {status[d], "DELETED"}
  BY <1>2 DEF Remove
<1>3. ASSUME NEW s \in worker[w].lote, Desactivada(w, s)
      PROVE  status'[d] \in {status[d], "DELETED"}
  BY <1>0, <1>3, Recusa DEF LinhasTipo, Aberta
<1>4. CASE GravarSucesso(w)
  BY <1>0, <1>4, Gravacao DEF LinhasTipo, Aberta
<1>5. CASE ScheduleRetry(w)
  BY <1>0, <1>5, Agendamento DEF LinhasTipo, Aberta
<1> QED
  BY <1>1, <1>2, <1>3, <1>4, <1>5
  DEF Next, Passo, vars, EnqueueEvent, Update, Vencer, ProcessBatch, DeliverOne,
      Avisar, FimDoLote, Queda

(* Of the answers of the receiver, one at most is not paid by a failure.   *)
LEMMA AceitesPasso ==
  ASSUME NEW w \in Workers, Workers = {w}, TypeOK, Tipos, Lote(w), Linhas, Aceites(w), [Next]_vars
  PROVE  Aceites(w)'
<1>0. /\ Processos /\ LinhasTipo /\ worker[w].d \subseteq Entregas
      /\ avarias \in Nat /\ \A d \in Entregas : aceites[d] \in Nat
      /\ \A s \in worker[w].lote : s.d \in Entregas
  <2>1. Processos /\ LinhasTipo
    BY TipoPartes DEF Tipos
  <2>2. worker[w].d \subseteq Entregas
    BY <2>1 DEF Processos, WorkerTipo
  <2>3. \A s \in worker[w].lote : s.d \in Entregas
    BY <2>1, DaLida
  <2>4. avarias \in Nat /\ \A d \in Entregas : aceites[d] \in Nat
    BY <2>1, MaxAvariasAssumption DEF LinhasTipo
  <2> QED
    BY <2>1, <2>2, <2>3, <2>4
<1>1. CASE UNCHANGED <<worker, status, aceites, avarias>>
  BY <1>0, <1>1 DEF Aceites, Aberta, Gravando
<1>2. ASSUME NEW h \in Webhooks, Remove(h)
      PROVE  Aceites(w)'
  <2>1. /\ UNCHANGED <<worker, aceites, avarias>>
        /\ \A d \in Entregas : status'[d] \in {status[d], "DELETED"}
    BY <1>0, <1>2 DEF Remove, LinhasTipo
  <2> QED
    BY <1>0, <2>1 DEF Aceites, Aberta, Gravando
(* No call: what was being recorded is, or a failure was counted, or the   *)
(* row is gone.                                                            *)
<1>3. ASSUME aceites' = aceites, avarias' \in {avarias, avarias + 1},
             worker'[w].pc # "gravar", worker'[w].lote \subseteq worker[w].lote,
             \A d \in Entregas : Aberta(d)' =>
               Aberta(d) /\ (Gravando(w, d) => avarias' = avarias + 1),
             \A d \in Entregas : status'[d] = "SUCCESS" =>
               status[d] = "SUCCESS" \/ Gravando(w, d)
      PROVE  Aceites(w)'
  <2>1. ASSUME NEW d \in Entregas PROVE aceites'[d] <= 1 + avarias'
    <3>1. aceites[d] <= 1 + avarias
      BY DEF Aceites
    <3> QED
      BY <1>0, <1>3, <3>1
  <2>2. ASSUME NEW d \in Entregas, Aberta(d)' PROVE aceites'[d] <= avarias'
    <3>1. /\ aceites[d] <= 1 + avarias
          /\ aceites[d] <= avarias \/ Gravando(w, d)
      BY <1>3, <2>2 DEF Aceites
    <3>2. Gravando(w, d) => avarias' = avarias + 1
      BY <1>3, <2>2
    <3> QED
      BY <1>0, <1>3, <3>1, <3>2
  <2>3. ASSUME NEW s \in worker'[w].lote PROVE aceites'[s.d] <= avarias'
    <3>1. aceites[s.d] <= avarias /\ aceites[s.d] \in Nat
      BY <1>0, <1>3, <2>3 DEF Aceites
    <3> QED
      BY <1>0, <1>3, <3>1
  <2>4. \A d \in Entregas : ~Gravando(w, d)'
    BY <1>3 DEF Gravando
  <2>5. \A d \in Entregas : status'[d] = "SUCCESS" => aceites'[d] >= 1
    BY <1>3 DEF Aceites
  <2> QED
    BY <2>1, <2>2, <2>3, <2>4, <2>5 DEF Aceites
<1>4. CASE ProcessBatch(w)
  <2>1. /\ UNCHANGED <<status, aceites, avarias>> /\ worker[w].pc = "livre"
        /\ worker'[w].pc = "lote"
        /\ \A s \in worker'[w].lote : s.d \in Entregas /\ Aberta(s.d)
    BY <1>0, <1>4, Leitura DEF ProcessBatch
  <2> QED
    BY <2>1 DEF Aceites, Aberta, Gravando
<1>5. ASSUME NEW s \in worker[w].lote, Desactivada(w, s)
      PROVE  Aceites(w)'
  <2>1. /\ \A d \in Entregas : status'[d] = status[d] \/ status'[d] = "FAILED"
        /\ \A d \in Entregas : ~Gravando(w, d)
    BY <1>0, <1>5, Recusa DEF LinhasTipo, Gravando
  <2> QED
    BY <1>3, <1>5, <2>1, Recusa DEF Aberta
<1>6. ASSUME NEW s \in worker[w].lote, DeliverOne(w, s)
      PROVE  Aceites(w)'
  <2>1. /\ worker[w].pc = "lote" /\ UNCHANGED status /\ s.d \in Entregas
        /\ aceites[s.d] <= avarias
        /\ \A t \in worker[w].lote \ {s} : t.d # s.d
    BY <1>0, <1>6 DEF DeliverOne, Aceites, Lote
  <2>2. /\ worker'[w].lote = worker[w].lote \ {s} /\ worker'[w].d = {s.d}
        /\ \/ worker'[w].pc = "retry" /\ aceites' = aceites /\ avarias' = avarias
           \/ /\ worker'[w].pc = "gravar" /\ aceites' = [aceites EXCEPT ![s.d] = @ + 1]
              /\ avarias' = avarias
           \/ /\ worker'[w].pc = "retry" /\ aceites' = [aceites EXCEPT ![s.d] = @ + 1]
              /\ avarias' = avarias + 1
    BY <1>0, <1>6 DEF DeliverOne, Passa, Processos, Avaria
  <2>3. \A d \in Entregas : d # s.d => aceites'[d] = aceites[d] /\ ~Gravando(w, d)'
    BY <1>0, <2>1, <2>2 DEF LinhasTipo, Gravando
  <2>4. \/ aceites'[s.d] = aceites[s.d] /\ ~Gravando(w, s.d)'
        \/ aceites'[s.d] = aceites[s.d] + 1 /\ (Gravando(w, s.d)' \/ avarias' = avarias + 1)
    BY <1>0, <2>1, <2>2 DEF LinhasTipo, Gravando
  <2>5. \A d \in Entregas : ~Gravando(w, d)
    BY <2>1 DEF Gravando
  <2>6. ASSUME NEW d \in Entregas
        PROVE  /\ aceites'[d] <= 1 + avarias'
               /\ Aberta(d)' => aceites'[d] <= avarias' \/ Gravando(w, d)'
               /\ Gravando(w, d)' \/ status'[d] = "SUCCESS" => aceites'[d] >= 1
    <3>1. /\ aceites[d] <= 1 + avarias
          /\ Aberta(d) => aceites[d] <= avarias
          /\ status[d] = "SUCCESS" => aceites[d] >= 1
          /\ aceites[d] \in Nat /\ avarias' \in {avarias, avarias + 1} /\ status' = status
          /\ Aberta(d)' <=> Aberta(d)
      BY <1>0, <2>1, <2>2, <2>5 DEF Aceites, Aberta
    <3>2. CASE d = s.d
      <4>1. \/ aceites'[d] = aceites[d] /\ ~Gravando(w, d)'
            \/ aceites'[d] = aceites[d] + 1 /\ (Gravando(w, d)' \/ avarias' = avarias + 1)
        BY <2>4, <3>2
      <4>2. aceites[d] <= avarias
        BY <2>1, <3>2
      <4> QED
        BY <1>0, <3>1, <4>1, <4>2
    <3>3. CASE d # s.d
      <4>1. aceites'[d] = aceites[d] /\ ~Gravando(w, d)'
        BY <2>3, <3>3
      <4>2. aceites'[d] <= 1 + avarias' /\ (Aberta(d)' => aceites'[d] <= avarias')
        BY <1>0, <3>1, <4>1
      <4>3. Gravando(w, d)' \/ status'[d] = "SUCCESS" => aceites'[d] >= 1
        BY <3>1, <4>1
      <4> QED
        BY <4>2, <4>3
    <3> QED
      BY <3>2, <3>3
  <2>7. ASSUME NEW t \in worker'[w].lote PROVE aceites'[t.d] <= avarias'
    BY <1>0, <2>1, <2>2, <2>3, <2>7 DEF Aceites
  <2> QED
    BY <2>6, <2>7 DEF Aceites
<1>7. CASE GravarSucesso(w)
  <2>1. PICK d \in worker[w].d :
           /\ d \in Entregas /\ worker[w].pc = "gravar" /\ \A e \in worker[w].d : e = d
           /\ worker'[w].lote = worker[w].lote /\ worker'[w].pc \in {"lote", "retry"}
           /\ aceites' = aceites
           /\ \/ /\ Aberta(d) /\ status' = [status EXCEPT ![d] = "SUCCESS"] /\ avarias' = avarias
              \/ /\ ~Aberta(d) /\ UNCHANGED <<status, avarias>>
              \/ /\ avarias' = avarias + 1 /\ UNCHANGED status
    BY <1>7, Gravacao
  <2>2. \A e \in Entregas : Gravando(w, e) <=> e = d
    BY <2>1 DEF Gravando
  <2>3. /\ \A e \in Entregas : Aberta(e)' =>
             Aberta(e) /\ (Gravando(w, e) => avarias' = avarias + 1)
        /\ \A e \in Entregas : status'[e] = "SUCCESS" =>
             status[e] = "SUCCESS" \/ Gravando(w, e)
    BY <1>0, <2>1, <2>2 DEF LinhasTipo, Aberta
  <2> QED
    BY <1>3, <2>1, <2>3
<1>8. CASE ScheduleRetry(w)
  <2>1. PICK d \in worker[w].d :
           /\ worker[w].pc = "retry" /\ d \in Entregas
           /\ worker'[w].lote \subseteq worker[w].lote /\ aceites' = aceites
           /\ worker'[w].pc \in {"avisar", "lote", "livre"}
           /\ avarias' \in {avarias, avarias + 1}
           /\ \/ Aberta(d) /\ status' = [status EXCEPT ![d] = "FAILED"]
              \/ Aberta(d) /\ status' = [status EXCEPT ![d] = "RETRYING"]
              \/ status' = status
    BY <1>8, Agendamento
  <2>2. \A e \in Entregas : ~Gravando(w, e)
    BY <2>1 DEF Gravando
  <2>3. \A e \in Entregas : /\ Aberta(e)' => Aberta(e)
                            /\ status'[e] = "SUCCESS" => status[e] = "SUCCESS"
    BY <1>0, <2>1 DEF LinhasTipo, Aberta
  <2> QED
    BY <1>3, <2>1, <2>2, <2>3
<1>9. CASE Avisar(w) \/ FimDoLote(w) \/ Queda(w)
  <2>1. /\ UNCHANGED <<status, aceites>>
        /\ \/ Avisar(w) /\ worker[w].pc = "avisar" /\ Passa(w, Fim(w))
              /\ avarias' \in {avarias, avarias + 1}
           \/ FimDoLote(w) /\ worker[w].pc = "lote" /\ Passa(w, Livre) /\ avarias' = avarias
           \/ Passa(w, Livre) /\ avarias' = avarias + 1
    BY <1>9 DEF Avisar, FimDoLote, Queda, Avaria, Fim
  <2>2. worker'[w].pc \in {"lote", "livre"} /\ worker'[w].lote \subseteq worker[w].lote
    BY <1>0, <2>1, DaActual, Move, Para, LivreTipo
  <2>3. \A d \in Entregas : /\ Aberta(d)' => Aberta(d)
                            /\ Gravando(w, d) => avarias' = avarias + 1
    BY <2>1 DEF Aberta, Gravando
  <2> QED
    BY <1>3, <2>1, <2>2, <2>3
<1> QED
  BY <1>1, <1>2, <1>4, <1>5, <1>6, <1>7, <1>8, <1>9
  DEF Next, Passo, vars, EnqueueEvent, Update, Vencer
(* Of the table of delays, an entry per attempt: it is long enough.        *)
LEMMA EsperasPasso ==
  ASSUME NEW w \in Workers, Workers = {w}, MAX_TENTATIVAS <= BACKOFF_SECONDS + 1,
         TypeOK, Tipos, Lote(w), Linhas, Esperas(w), [Next]_vars
  PROVE  Esperas(w)'
<1>0. /\ Processos /\ LinhasTipo /\ avarias \in Nat /\ worker[w].n \in 0..MAX_TENTATIVAS
      /\ \A d \in Entregas : Aberta(d) => tentativas[d] < MAX_TENTATIVAS
  <2>1. Processos /\ LinhasTipo
    BY TipoPartes DEF Tipos
  <2>2. avarias \in Nat
    BY <2>1, MaxAvariasAssumption DEF LinhasTipo
  <2> QED
    BY <2>1, <2>2 DEF Tipos, Processos, WorkerTipo, Tentativas
(* The rows stay as they are, and an alert that is due stays due, unless a *)
(* failure was counted.                                                    *)
<1>1. ASSUME UNCHANGED <<status, tentativas, esperas, avisos>>,
             avarias' \in {avarias, avarias + 1},
             \/ worker' = worker
             \/ worker[w].pc # "avisar"
             \/ avarias' = avarias + 1
      PROVE  Esperas(w)'
  <2>1. /\ \A d \in Entregas : Aberta(d)' <=> Aberta(d)
        /\ avarias' = 0 => avarias = 0 /\ avarias' # avarias + 1
    BY <1>0, <1>1 DEF Aberta
  <2> QED
    BY <1>1, <2>1 DEF Esperas
<1>2. ASSUME NEW h \in Webhooks, Remove(h)
      PROVE  Esperas(w)'
  <2>1. /\ UNCHANGED <<worker, tentativas, esperas, avisos, avarias>>
        /\ \A d \in Entregas : status'[d] \in {status[d], "DELETED"}
    BY <1>0, <1>2 DEF Remove, LinhasTipo
  <2> QED
    BY <2>1 DEF Esperas, Aberta
<1>3. ASSUME NEW s \in worker[w].lote, Desactivada(w, s)
      PROVE  Esperas(w)'
  <2>1. CASE status' = status
    BY <1>1, <1>3, <2>1, Recusa
  <2>2. CASE Aberta(s.d) /\ status' = [status EXCEPT ![s.d] = "FAILED"]
    <3>1. /\ UNCHANGED <<tentativas, esperas, avisos>> /\ worker[w].pc = "lote" /\ s.d \in Entregas
          /\ avarias' \in {avarias, avarias + 1}
      BY <1>3, Recusa
    <3>2. /\ status'[s.d] = "FAILED" /\ \A d \in Entregas : d # s.d => status'[d] = status[d]
          /\ avarias' = 0 => avarias = 0
      BY <1>0, <2>2, <3>1 DEF LinhasTipo
    <3>3. /\ tentativas[s.d] < MAX_TENTATIVAS /\ tentativas[s.d] # MAX_TENTATIVAS /\ ~avisos[s.d]
      <4>1. tentativas[s.d] < MAX_TENTATIVAS /\ tentativas[s.d] \in Nat
        BY <1>0, <2>2, <3>1 DEF LinhasTipo
      <4>2. ~avisos[s.d]
        BY <2>2, <3>1 DEF Esperas, Aberta
      <4> QED
        BY <4>1, <4>2, TentativasAssumption
    <3> QED
      BY <3>1, <3>2, <3>3 DEF Esperas, Aberta
  <2> QED
    BY <1>3, <2>1, <2>2, Recusa
<1>4. CASE GravarSucesso(w)
  <2>1. PICK d \in worker[w].d :
           /\ d \in Entregas /\ worker[w].pc = "gravar" /\ UNCHANGED <<avisos, esperas>>
           /\ \/ /\ Aberta(d) /\ status' = [status EXCEPT ![d] = "SUCCESS"]
                 /\ tentativas' = [tentativas EXCEPT ![d] = worker[w].n] /\ avarias' = avarias
              \/ /\ avarias' \in {avarias, avarias + 1} /\ UNCHANGED <<status, tentativas>>
    BY <1>4, Gravacao
  <2>2. CASE UNCHANGED <<status, tentativas>> /\ avarias' \in {avarias, avarias + 1}
    BY <1>1, <2>1, <2>2
  <2>3. CASE /\ Aberta(d) /\ status' = [status EXCEPT ![d] = "SUCCESS"]
             /\ tentativas' = [tentativas EXCEPT ![d] = worker[w].n] /\ avarias' = avarias
    <3>1. /\ status'[d] = "SUCCESS" /\ ~avisos[d]
          /\ \A e \in Entregas : e # d => status'[e] = status[e] /\ tentativas'[e] = tentativas[e]
      BY <1>0, <2>1, <2>3 DEF LinhasTipo, Esperas, Aberta
    <3> QED
      BY <2>1, <2>3, <3>1 DEF Esperas, Aberta
  <2> QED
    BY <2>1, <2>2, <2>3
<1>5. CASE ScheduleRetry(w)
  <2> DEFINE n == worker[w].n
  <2>1. PICK d \in worker[w].d :
           /\ d \in Entregas /\ worker[w].pc = "retry" /\ n # 0 /\ avisos' = avisos
           /\ \/ /\ Aberta(d) /\ esgotada(n)
                 /\ worker'[w].pc = "avisar" /\ worker'[w].d = worker[w].d
                 /\ status' = [status EXCEPT ![d] = "FAILED"]
                 /\ tentativas' = [tentativas EXCEPT ![d] = n]
                 /\ UNCHANGED <<esperas, avarias>>
              \/ /\ Aberta(d) /\ ~esgotada(n) /\ tentativas[d] = n - 1
                 /\ status' = [status EXCEPT ![d] = "RETRYING"]
                 /\ tentativas' = [tentativas EXCEPT ![d] = n]
                 /\ esperas' = [esperas EXCEPT ![d] = @ \cup {entrada(n)}]
                 /\ avarias' = avarias
              \/ /\ avarias' \in {avarias, avarias + 1}
                 /\ UNCHANGED <<status, tentativas, esperas>>
    BY <1>5, Agendamento
  <2>2. n \in 1..MAX_TENTATIVAS
    BY <1>0, <2>1, TentativasAssumption
  <2>3. CASE UNCHANGED <<status, tentativas, esperas>> /\ avarias' \in {avarias, avarias + 1}
    BY <1>1, <2>1, <2>3
  <2> HIDE DEF n
  <2>4. CASE /\ Aberta(d) /\ worker'[w].pc = "avisar" /\ worker'[w].d = worker[w].d
             /\ status' = [status EXCEPT ![d] = "FAILED"]
             /\ tentativas' = [tentativas EXCEPT ![d] = n]
             /\ UNCHANGED <<esperas, avarias>>
    <3>1. /\ status'[d] = "FAILED" /\ ~avisos[d] /\ d \in worker'[w].d
          /\ \A e \in Entregas : e # d => status'[e] = status[e] /\ tentativas'[e] = tentativas[e]
      BY <1>0, <2>1, <2>4 DEF LinhasTipo, Esperas, Aberta
    <3> QED
      BY <2>1, <2>4, <3>1 DEF Esperas, Aberta
  <2>5. CASE /\ Aberta(d) /\ ~esgotada(n) /\ tentativas[d] = n - 1
             /\ status' = [status EXCEPT ![d] = "RETRYING"]
             /\ tentativas' = [tentativas EXCEPT ![d] = n]
             /\ esperas' = [esperas EXCEPT ![d] = @ \cup {entrada(n)}]
             /\ avarias' = avarias
    <3>1. n \in 1..(MAX_TENTATIVAS - 1) /\ entrada(n) = n
      BY <2>2, <2>5, TentativasAssumption, BackoffAssumption DEF esgotada, entrada
    <3>2. /\ status'[d] = "RETRYING" /\ ~avisos[d] /\ tentativas'[d] = n
          /\ esperas'[d] = esperas[d] \cup {n} /\ esperas[d] = 1..(n - 1)
          /\ \A e \in Entregas : e # d => /\ status'[e] = status[e]
                                         /\ tentativas'[e] = tentativas[e] /\ esperas'[e] = esperas[e]
      BY <1>0, <2>1, <2>5, <3>1 DEF LinhasTipo, Esperas, Aberta
    <3>3. 1..n = 1..(n - 1) \cup {n}
      BY <3>1, TentativasAssumption
    <3>4. esperas'[d] = 1..tentativas'[d] /\ esperas'[d] \subseteq 1..(MAX_TENTATIVAS - 1)
      BY <3>1, <3>2, <3>3, TentativasAssumption
    <3> QED
      BY <2>1, <2>5, <3>2, <3>4 DEF Esperas, Aberta
  <2> QED
    BY <2>1, <2>3, <2>4, <2>5
<1>6. CASE Avisar(w)
  <2>1. CASE avisos' = avisos /\ Avaria("bd")
    BY <1>1, <1>6, <2>1 DEF Avisar, Avaria
  <2>2. ASSUME NEW d \in worker[w].d, avisos' = [avisos EXCEPT ![d] = TRUE], avarias' = avarias
        PROVE  Esperas(w)'
    <3>1. /\ UNCHANGED <<status, tentativas, esperas, avarias>> /\ worker[w].pc = "avisar"
      BY <1>6, <2>2 DEF Avisar
    <3>2. /\ d \in Entregas /\ status[d] \in {"FAILED", "DELETED"} /\ tentativas[d] = MAX_TENTATIVAS
          /\ \A e \in worker[w].d : e = d
      BY <1>0, <2>2, <3>1 DEF Lote, Processos, WorkerTipo
    <3>3. avisos'[d] /\ \A e \in Entregas : e # d => (avisos'[e] <=> avisos[e])
      BY <1>0, <2>2, <3>2, Zenon DEF LinhasTipo
    <3> QED
      BY <3>1, <3>2, <3>3 DEF Esperas, Aberta
  <2> QED
    BY <1>6, <2>1, <2>2 DEF Avisar, Alerta
<1>7. CASE \/ UNCHANGED vars
           \/ \E d \in Entregas, h \in Webhooks : EnqueueEvent(d, h)
           \/ \E h \in Webhooks : Update(h)
           \/ \E d \in Entregas : Vencer(d)
  BY <1>1, <1>7 DEF vars, EnqueueEvent, Update, Vencer
<1>8. CASE \/ ProcessBatch(w) \/ FimDoLote(w) \/ Queda(w)
           \/ \E s \in worker[w].lote : DeliverOne(w, s)
  BY <1>1, <1>8 DEF ProcessBatch, FimDoLote, Queda, Avaria, DeliverOne
<1> QED
  BY <1>2, <1>3, <1>4, <1>5, <1>6, <1>7, <1>8 DEF Next, Passo

-----------------------------------------------------------------------------
(* One process: SUCCESS and FAILED are final, whatever was disabled,       *)
(* deleted, answered late or lost, for any deliveries and limits.          *)
THEOREM DefinitivoCorrect ==
  ASSUME NEW w \in Workers, Workers = {w}
  PROVE  Spec => Definitivo
<1>1. Init => TypeOK /\ Tipos /\ Lote(w) /\ Linhas
  BY TypeInicio, FilaInicio
<1>2. TypeOK /\ Tipos /\ Lote(w) /\ Linhas /\ [Next]_vars
        => (TypeOK /\ Tipos /\ Lote(w) /\ Linhas)'
  BY TypePasso, LotePasso
<1>3. TypeOK /\ Tipos /\ Lote(w) /\ [Next]_vars =>
        [\A d \in Entregas : status[d] \in {"SUCCESS", "FAILED"} =>
           status'[d] \in {status[d], "DELETED"}]_vars
  BY DefinitivoPasso
<1> QED
  BY <1>1, <1>2, <1>3, PTL DEF Spec, Definitivo

(* One process: a delivery recorded as SUCCESS was accepted, and accepted  *)
(* again at most once for each failure.                                    *)
THEOREM DuplicadosCorrect ==
  ASSUME NEW w \in Workers, Workers = {w}
  PROVE  Spec => []DuplicadosSoComAvaria
<1>1. Init => TypeOK /\ Tipos /\ Lote(w) /\ Linhas /\ Aceites(w)
  BY TypeInicio, FilaInicio
<1>2. TypeOK /\ Tipos /\ Lote(w) /\ Linhas /\ Aceites(w) /\ [Next]_vars
        => (TypeOK /\ Tipos /\ Lote(w) /\ Linhas /\ Aceites(w))'
  BY TypePasso, LotePasso, AceitesPasso
<1>3. Aceites(w) => DuplicadosSoComAvaria
  BY DEF Aceites, DuplicadosSoComAvaria
<1> QED
  BY <1>1, <1>2, <1>3, PTL DEF Spec

(* One process, and a table with an entry for every attempt but the last:  *)
(* a delivery in the queue has waited for one entry per attempt, and it is *)
(* given up with its alert.                                                *)
THEOREM DesisteCorrect ==
  ASSUME NEW w \in Workers, Workers = {w}, MAX_TENTATIVAS <= BACKOFF_SECONDS + 1
  PROVE  Spec => []DesisteEsgotada
<1>1. Init => TypeOK /\ Tipos /\ Lote(w) /\ Linhas /\ Esperas(w)
  BY TypeInicio, FilaInicio
<1>2. TypeOK /\ Tipos /\ Lote(w) /\ Linhas /\ Esperas(w) /\ [Next]_vars
        => (TypeOK /\ Tipos /\ Lote(w) /\ Linhas /\ Esperas(w))'
  BY TypePasso, LotePasso, EsperasPasso
<1>3. TypeOK /\ Tipos /\ Esperas(w) => DesisteEsgotada
  <2> SUFFICES ASSUME TypeOK, Tipos, Esperas(w), NEW d \in Entregas
               PROVE  /\ status[d] = "RETRYING" => tentativas[d] \in 1..(MAX_TENTATIVAS - 1)
                      /\ status[d] \in {"PENDING", "RETRYING"} => esperas[d] = 1..tentativas[d]
                      /\ MAX_TENTATIVAS \notin esperas[d]
                      /\ avisos[d] => status[d] \in {"FAILED", "DELETED"} /\ tentativas[d] = MAX_TENTATIVAS
                      /\ (avarias = 0 /\ status[d] = "FAILED" /\ tentativas[d] = MAX_TENTATIVAS) =>
                           avisos[d] \/ \E v \in Workers : worker[v].pc = "avisar" /\ d \in worker[v].d
    BY DEF DesisteEsgotada
  <2>1. status[d] = "RETRYING" => tentativas[d] \in 1..(MAX_TENTATIVAS - 1)
    <3>1. tentativas[d] \in 0..MAX_TENTATIVAS
      BY DEF TypeOK
    <3>2. status[d] = "RETRYING" => tentativas[d] # 0 /\ tentativas[d] < MAX_TENTATIVAS
      BY DEF Esperas, Tipos, Aberta
    <3> QED
      BY <3>1, <3>2, TentativasAssumption
  <2>2. MAX_TENTATIVAS \notin esperas[d]
    <3>1. esperas[d] \subseteq 1..(MAX_TENTATIVAS - 1)
      BY DEF Esperas
    <3> QED
      BY <3>1, TentativasAssumption
  <2>3. /\ Aberta(d) => esperas[d] = 1..tentativas[d]
        /\ avisos[d] => status[d] \in {"FAILED", "DELETED"} /\ tentativas[d] = MAX_TENTATIVAS
        /\ (avarias = 0 /\ status[d] = "FAILED" /\ tentativas[d] = MAX_TENTATIVAS) =>
             avisos[d] \/ (worker[w].pc = "avisar" /\ d \in worker[w].d)
    BY DEF Esperas
  <2> QED
    BY <2>1, <2>2, <2>3 DEF Aberta
<1> QED
  BY <1>1, <1>2, <1>3, PTL DEF Spec
=============================================================================
