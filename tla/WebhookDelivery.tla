--------------------------- MODULE WebhookDelivery ---------------------------
(***************************************************************************)
(* Outgoing webhooks: the outbox that enqueueEvent fills and the worker    *)
(* that drains it every 30 seconds (WebhookDeliveryWorker).  The worker    *)
(* reads a batch and serves it from memory; between the HTTP call and the  *)
(* row that records it anything may happen: the subscription is disabled   *)
(* or deleted (its deliveries with it), a statement fails, the process     *)
(* dies.  inFlight keeps one batch at a time in one process: each worker   *)
(* here is an API process.                                                 *)
(*                                                                         *)
(* Time is abstracted: a delivery that waits for its proximaTentativa may  *)
(* become due at any moment.  aceites and avisos are ghosts of the outside *)
(* world: 2xx answers of the receiver, the ones that never reached the     *)
(* worker included, and dead-letter alerts to the ADMINs.                  *)
(***************************************************************************)
EXTENDS Naturals, FiniteSets

CONSTANTS
  Entregas,          \* WebhookDelivery ids
  Webhooks,          \* subscriptions
  Workers,           \* API processes
  Avarias,           \* which happen of "queda" (a process dies), "bd" (a statement
                     \* fails), "rede" (a 2xx answer is lost)
  MAX_TENTATIVAS,    \* 6
  BACKOFF_SECONDS,   \* number of entries of the table: 6
  MaxAvarias         \* bound: failures of a behaviour

ASSUME TentativasAssumption == MAX_TENTATIVAS \in Nat \ {0}
ASSUME BackoffAssumption == BACKOFF_SECONDS \in Nat \ {0}
ASSUME MaxAvariasAssumption == MaxAvarias \in Nat

VARIABLES
  hook,      \* of a delivery: its subscription; a set, empty while there is no row
  status,    \* WebhookDelivery.status
  tentativas, \* WebhookDelivery.tentativas
  espera,    \* entry of BACKOFF_SECONDS the delivery waits for; 0 when it is due
  activo,    \* Webhook.isActive
  apagado,   \* the subscription was deleted
  aceites,   \* 2xx answers of the receiver for the delivery
  avisos,    \* the dead-letter notifications of the delivery were created
  esperas,   \* entries of BACKOFF_SECONDS the delivery has waited for
  worker,    \* [pc, lote, d, n]: the batch left, the delivery served, its attempt
  avarias    \* failures so far

vars == <<hook, status, tentativas, espera, activo, apagado, aceites, avisos,
          esperas, worker, avarias>>

Livre == [pc |-> "livre", lote |-> {}, d |-> {}, n |-> 0]
Avaria(tipo) == tipo \in Avarias /\ avarias < MaxAvarias /\ avarias' = avarias + 1
Passa(w, r) == worker' = [worker EXCEPT ![w] = r]
Existe(d) == hook[d] # {}

Init ==
  /\ hook = [d \in Entregas |-> {}]
  /\ status = [d \in Entregas |-> "PENDING"]
  /\ tentativas = [d \in Entregas |-> 0]
  /\ espera = [d \in Entregas |-> 0]
  /\ activo = [h \in Webhooks |-> TRUE]
  /\ apagado = [h \in Webhooks |-> FALSE]
  /\ aceites = [d \in Entregas |-> 0]
  /\ avisos = [d \in Entregas |-> FALSE]
  /\ esperas = [d \in Entregas |-> {}]
  /\ worker = [w \in Workers |-> Livre]
  /\ avarias = 0

(***************************************************************************)
(* The service: enqueueEvent (one row per active subscription, here one at *)
(* a time), update of isActive, remove (cascades to the deliveries).       *)
(***************************************************************************)
EnqueueEvent(d, h) ==
  /\ ~Existe(d) /\ status[d] = "PENDING"
  /\ activo[h] /\ ~apagado[h]
  /\ hook' = [hook EXCEPT ![d] = {h}]
  /\ UNCHANGED <<status, tentativas, espera, activo, apagado, aceites, avisos,
                 esperas, worker, avarias>>

Update(h) ==
  /\ ~apagado[h]
  /\ activo' = [activo EXCEPT ![h] = ~@]
  /\ UNCHANGED <<hook, status, tentativas, espera, apagado, aceites, avisos,
                 esperas, worker, avarias>>

(* A deleted delivery keeps its status here so that its id is not reused.  *)
Remove(h) ==
  /\ ~apagado[h]
  /\ apagado' = [apagado EXCEPT ![h] = TRUE]
  /\ hook' = [d \in Entregas |-> hook[d] \ {h}]
  /\ status' = [d \in Entregas |-> IF hook[d] = {h} THEN "DELETED" ELSE status[d]]
  /\ UNCHANGED <<tentativas, espera, activo, aceites, avisos, esperas, worker, avarias>>

Vencer(d) ==
  /\ espera[d] # 0
  /\ espera' = [espera EXCEPT ![d] = 0]
  /\ UNCHANGED <<hook, status, tentativas, activo, apagado, aceites, avisos,
                 esperas, worker, avarias>>

(***************************************************************************)
(* tick and processBatch.  The batch holds what the query returned: the    *)
(* delivery, its attempts and whether the subscription was active.  It is  *)
(* limited to 25 rows, more than there are here.                           *)
(***************************************************************************)
(* Mutants of the filter on status come first.                             *)
pendente_Todas(d) == Existe(d) /\ status[d] # "SUCCESS" /\ espera[d] = 0
pendente_NaoFalhadas(d) == Existe(d) /\ status[d] # "FAILED" /\ espera[d] = 0
pendente_SoNovas(d) == Existe(d) /\ status[d] = "PENDING" /\ espera[d] = 0
pendente(d) == Existe(d) /\ status[d] \in {"PENDING", "RETRYING"} /\ espera[d] = 0

ProcessBatch(w) ==
  /\ worker[w].pc = "livre"
  /\ \E d \in Entregas : pendente(d)
  /\ Passa(w, [Livre EXCEPT !.pc = "lote", !.lote =
       {[d |-> d, n |-> tentativas[d], activo |-> \A h \in hook[d] : activo[h]] :
          d \in {e \in Entregas : pendente(e)}}])
  /\ UNCHANGED <<hook, status, tentativas, espera, activo, apagado, aceites, avisos,
                 esperas, avarias>>

(* The next of the batch; the update of a row that is gone throws, and the *)
(* rest of the batch is left for the next tick.                            *)
Desactivada(w, s) ==
  /\ worker[w].pc = "lote" /\ s \in worker[w].lote
  /\ ~s.activo
  /\ \/ /\ Existe(s.d)
        /\ status' = [status EXCEPT ![s.d] = "FAILED"]
        /\ Passa(w, [worker[w] EXCEPT !.lote = @ \ {s}])
        /\ UNCHANGED avarias
     \/ /\ IF Existe(s.d) THEN Avaria("bd") ELSE UNCHANGED avarias
        /\ Passa(w, Livre)
        /\ UNCHANGED status
  /\ UNCHANGED <<hook, tentativas, espera, activo, apagado, aceites, avisos, esperas>>

(* deliverOne: the address is refused, the call fails or times out, or the *)
(* receiver answers an error (retry); or it answers 2xx (gravar); or it    *)
(* answers 2xx and the answer does not arrive in time, which is a failed   *)
(* call (retry).  A body that breaks off is read as far as it goes.        *)
DeliverOne(w, s) ==
  /\ worker[w].pc = "lote" /\ s \in worker[w].lote
  /\ s.activo
  /\ \/ /\ UNCHANGED <<aceites, avarias>>
        /\ Passa(w, [pc |-> "retry", lote |-> worker[w].lote \ {s}, d |-> {s.d}, n |-> s.n + 1])
     \/ /\ aceites' = [aceites EXCEPT ![s.d] = @ + 1]
        /\ Passa(w, [pc |-> "gravar", lote |-> worker[w].lote \ {s}, d |-> {s.d}, n |-> s.n + 1])
        /\ UNCHANGED avarias
     \/ /\ Avaria("rede")
        /\ aceites' = [aceites EXCEPT ![s.d] = @ + 1]
        /\ Passa(w, [pc |-> "retry", lote |-> worker[w].lote \ {s}, d |-> {s.d}, n |-> s.n + 1])
  /\ UNCHANGED <<hook, status, tentativas, espera, activo, apagado, avisos, esperas>>

(* The row that records the 2xx.  Its failure is caught with those of the  *)
(* call, and the delivery is scheduled again.                              *)
GravarSucesso(w) ==
  /\ worker[w].pc = "gravar"
  /\ \E d \in worker[w].d :
       \/ /\ Existe(d)
          /\ status' = [status EXCEPT ![d] = "SUCCESS"]
          /\ tentativas' = [tentativas EXCEPT ![d] = worker[w].n]
          /\ Passa(w, [worker[w] EXCEPT !.pc = "lote", !.d = {}])
          /\ UNCHANGED avarias
       \/ /\ ~Existe(d)
          /\ Passa(w, [worker[w] EXCEPT !.pc = "retry"])
          /\ UNCHANGED <<status, tentativas, avarias>>
       \/ /\ Avaria("bd")
          /\ Passa(w, [worker[w] EXCEPT !.pc = "retry"])
          /\ UNCHANGED <<status, tentativas>>
  /\ UNCHANGED <<hook, espera, activo, apagado, aceites, avisos, esperas>>

(***************************************************************************)
(* scheduleRetry.                                                          *)
(***************************************************************************)
esgotada_Menos(n) == n >= MAX_TENTATIVAS - 1   \* mutant: one less
esgotada(n) == n >= MAX_TENTATIVAS
entrada(n) == IF n <= BACKOFF_SECONDS THEN n ELSE BACKOFF_SECONDS

ScheduleRetry(w) ==
  LET n == worker[w].n IN
  /\ worker[w].pc = "retry"
  /\ \E d \in worker[w].d :
       \/ /\ Existe(d) /\ esgotada(n)
          /\ status' = [status EXCEPT ![d] = "FAILED"]
          /\ tentativas' = [tentativas EXCEPT ![d] = n]
          /\ Passa(w, [worker[w] EXCEPT !.pc = "avisar"])
          /\ UNCHANGED <<espera, esperas, avarias>>
       \/ /\ Existe(d) /\ ~esgotada(n)
          /\ status' = [status EXCEPT ![d] = "RETRYING"]
          /\ tentativas' = [tentativas EXCEPT ![d] = n]
          /\ espera' = [espera EXCEPT ![d] = entrada(n)]
          /\ esperas' = [esperas EXCEPT ![d] = @ \cup {entrada(n)}]
          /\ Passa(w, [worker[w] EXCEPT !.pc = "lote", !.d = {}])
          /\ UNCHANGED avarias
       \/ /\ ~Existe(d)
          /\ Passa(w, Livre)
          /\ UNCHANGED <<status, tentativas, espera, esperas, avarias>>
       \/ /\ Avaria("bd")
          /\ Passa(w, Livre)
          /\ UNCHANGED <<status, tentativas, espera, esperas>>
  /\ UNCHANGED <<hook, activo, apagado, aceites, avisos>>

(* The notifications to the ADMINs; an error is logged and forgotten.      *)
Alerta(d) == [avisos EXCEPT ![d] = TRUE]

Avisar(w) ==
  /\ worker[w].pc = "avisar"
  /\ \/ /\ \E d \in worker[w].d : avisos' = Alerta(d)
        /\ UNCHANGED avarias
     \/ Avaria("bd") /\ UNCHANGED avisos
  /\ Passa(w, [worker[w] EXCEPT !.pc = "lote", !.d = {}])
  /\ UNCHANGED <<hook, status, tentativas, espera, activo, apagado, aceites, esperas>>

FimDoLote(w) ==
  /\ worker[w].pc = "lote" /\ worker[w].lote = {}
  /\ Passa(w, Livre)
  /\ UNCHANGED <<hook, status, tentativas, espera, activo, apagado, aceites, avisos,
                 esperas, avarias>>

Queda(w) ==
  /\ worker[w] # Livre
  /\ Avaria("queda")
  /\ Passa(w, Livre)
  /\ UNCHANGED <<hook, status, tentativas, espera, activo, apagado, aceites, avisos, esperas>>

(* What the worker does when it is scheduled: it never waits.              *)
Passo(w) ==
  \/ ProcessBatch(w) \/ GravarSucesso(w) \/ ScheduleRetry(w) \/ Avisar(w) \/ FimDoLote(w)
  \/ \E s \in worker[w].lote : Desactivada(w, s) \/ DeliverOne(w, s)

Next ==
  \/ \E d \in Entregas, h \in Webhooks : EnqueueEvent(d, h)
  \/ \E h \in Webhooks : Update(h) \/ Remove(h)
  \/ \E d \in Entregas : Vencer(d)
  \/ \E w \in Workers : Passo(w) \/ Queda(w)

Spec == Init /\ [][Next]_vars

(* The cron ticks every 30 s; an HTTP call ends: its headers come within   *)
(* the 8 s of the abort, and its body is bounded by 32 KB and by the       *)
(* timeout fetch itself has for bodies; time passes.                       *)
SpecJusta == Spec /\ (\A w \in Workers : WF_vars(Passo(w)))
                  /\ (\A d \in Entregas : WF_vars(Vencer(d)))

-----------------------------------------------------------------------------
(* Type correctness. *)
Estados == {"PENDING", "SUCCESS", "FAILED", "RETRYING", "DELETED"}
TypeOK ==
  /\ hook \in [Entregas -> SUBSET Webhooks]
  /\ status \in [Entregas -> Estados]
  /\ tentativas \in [Entregas -> 0..MAX_TENTATIVAS]
  /\ espera \in [Entregas -> 0..BACKOFF_SECONDS]
  /\ activo \in [Webhooks -> BOOLEAN] /\ apagado \in [Webhooks -> BOOLEAN]
  /\ aceites \in [Entregas -> Nat] /\ avisos \in [Entregas -> BOOLEAN]
  /\ esperas \in [Entregas -> SUBSET (1..BACKOFF_SECONDS)]
  /\ \A w \in Workers :
       /\ worker[w].pc \in {"livre", "lote", "gravar", "retry", "avisar"}
       /\ worker[w].d \subseteq Entregas /\ worker[w].n \in 0..MAX_TENTATIVAS
       /\ \A s \in worker[w].lote :
            s.d \in Entregas /\ s.n \in 0..MAX_TENTATIVAS /\ s.activo \in BOOLEAN
  /\ avarias \in 0..MaxAvarias

(* A delivery recorded as SUCCESS was accepted by the receiver, and at     *)
(* most once more for every failure of the process or of the database and  *)
(* every answer that was lost on its way (at-least-once, and no more       *)
(* duplicates than failures).                                              *)
DuplicadosSoComAvaria ==
  \A d \in Entregas :
    /\ status[d] = "SUCCESS" => aceites[d] >= 1
    /\ aceites[d] <= 1 + avarias

(* SUCCESS and FAILED are final: a late answer or a stale batch never      *)
(* puts a delivery back in the queue, nor turns one into the other.        *)
Definitivo ==
  [][\A d \in Entregas : status[d] \in {"SUCCESS", "FAILED"} =>
       status'[d] \in {status[d], "DELETED"}]_vars

(* A delivery is retried after every failed attempt but the last: while it *)
(* is in the queue it has waited for exactly one entry of the table per    *)
(* attempt (never for the last entry of a table of that length), and the   *)
(* dead-letter alert says all MAX_TENTATIVAS were made; one given up that  *)
(* way alerts the ADMINs, once the worker that gave it up is done with it, *)
(* if nothing failed since the start.                                      *)
DesisteEsgotada ==
  \A d \in Entregas :
    /\ status[d] = "RETRYING" => tentativas[d] \in 1..(MAX_TENTATIVAS - 1)
    /\ status[d] \in {"PENDING", "RETRYING"} => esperas[d] = 1..tentativas[d]
    /\ MAX_TENTATIVAS \notin esperas[d]
    /\ avisos[d] => status[d] \in {"FAILED", "DELETED"} /\ tentativas[d] = MAX_TENTATIVAS
    /\ (avarias = 0 /\ status[d] = "FAILED" /\ tentativas[d] = MAX_TENTATIVAS) =>
         avisos[d] \/ \E w \in Workers : worker[w].pc = "avisar" /\ d \in worker[w].d

(* Every delivery ends: accepted, given up, or deleted with its            *)
(* subscription.                                                           *)
Termina ==
  \A d \in Entregas : Existe(d) ~> status[d] \in {"SUCCESS", "FAILED", "DELETED"}
=============================================================================
