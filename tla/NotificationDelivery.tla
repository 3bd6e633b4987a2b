------------------------ MODULE NotificationDelivery ------------------------
(***************************************************************************)
(* The notifications of the platform and the worker that delivers them     *)
(* (NotificationsService, NotificationDeliveryWorker), statement by        *)
(* statement.  Producers insert rows as PENDING; a cron of one minute      *)
(* reads the oldest of them and serves them from memory, one at a time,    *)
(* under a lease that a later tick takes over when it is five minutes old. *)
(* The tick that lost the lease is alive, and goes on.                     *)
(***************************************************************************)
EXTENDS Naturals, FiniteSets

CONSTANTS
  Workers,     \* ticks that may be alive at once
  Canais,      \* NotificationChannel: IN_APP, EMAIL, and PUSH or SMS, not wired
  MaxFila,     \* bound: notifications of a behaviour
  LOTE,        \* take: 50
  STALE,       \* STALE_MS in ticks: 5
  MaxPerdidos, \* bound: notifications whose mail is lost
  MaxRoubos,   \* bound: leases taken over
  MaxAvarias   \* bound: failed statements and crashes

ASSUME WorkersAssumption == IsFiniteSet(Workers)
ASSUME LimitesAssumption ==
  MaxFila \in Nat /\ MaxPerdidos \in Nat /\ MaxRoubos \in Nat /\ MaxAvarias \in Nat
ASSUME LoteAssumption == LOTE \in Nat \ {0}
ASSUME StaleAssumption == STALE \in Nat \ {0}
ASSUME CanaisAssumption == Canais \subseteq {"IN_APP", "EMAIL", "PUSH", "SMS"}

VARIABLES
  criadas,    \* rows inserted: their ids are 1..criadas, in the order of createdAt
  canal,      \* channel of each
  status,     \* NotificationStatus of each
  envios,     \* how many times the mail of each left
  perdidos,   \* whose mail MailService called sent although nothing left
  inFlight,   \* the flag of the lease
  idade,      \* ticks since inFlightSince
  tick,       \* [pc, lote]: where each tick is, and the rows it still holds
  roubos,     \* leases taken over
  avarias     \* failures so far

linhas == <<criadas, canal, status, envios, perdidos>>
lease == <<inFlight, idade, roubos>>
vars == <<linhas, lease, tick, avarias>>

Notificacoes == 1..MaxFila
Ligados == {"IN_APP", "EMAIL"}          \* the channels deliver knows how to serve
Estados == {"nenhum", "PENDING", "SENT", "FAILED", "READ"}
Livre == [pc |-> "livre", lote |-> {}]
Activos == {w \in Workers : tick[w] # Livre}

TypeOK ==
  /\ criadas \in 0..MaxFila
  /\ canal \in [Notificacoes -> Canais \cup {"nenhum"}]
  /\ status \in [Notificacoes -> Estados]
  /\ envios \in [Notificacoes -> Nat] /\ perdidos \subseteq Notificacoes
  /\ inFlight \in BOOLEAN /\ idade \in 0..STALE
  /\ tick \in [Workers -> [pc : {"livre", "ler", "entregar", "marcar", "falhar"},
                           lote : SUBSET Notificacoes]]
  /\ roubos \in 0..MaxRoubos /\ avarias \in 0..MaxAvarias

Init ==
  /\ criadas = 0
  /\ canal = [n \in Notificacoes |-> "nenhum"]
  /\ status = [n \in Notificacoes |-> "nenhum"]
  /\ envios = [n \in Notificacoes |-> 0] /\ perdidos = {}
  /\ inFlight = FALSE /\ idade = 0
  /\ tick = [w \in Workers |-> Livre]
  /\ roubos = 0 /\ avarias = 0

Avaria == avarias < MaxAvarias /\ avarias' = avarias + 1
Ponto(w, pc) == tick[w].pc = pc
Passa(w, pc) == tick' = [tick EXCEPT ![w] = [pc |-> pc, lote |-> tick[w].lote]]

(* NotificationsService.create: by the alerts, the renewals, the test set. *)
Create ==
  /\ criadas < MaxFila
  /\ criadas' = criadas + 1
  /\ \E c \in Canais : canal' = [canal EXCEPT ![criadas + 1] = c]
  /\ status' = [status EXCEPT ![criadas + 1] = "PENDING"]
  /\ UNCHANGED <<envios, perdidos, lease, tick, avarias>>

(* markRead: by id, whatever the status. *)
MarkRead(n) ==
  /\ n <= criadas
  /\ status' = [status EXCEPT ![n] = "READ"]
  /\ UNCHANGED <<criadas, canal, envios, perdidos, lease, tick, avarias>>

(***************************************************************************)
(* tick: every minute.  The lease is kept by a tick that is younger than   *)
(* STALE, and taken over otherwise; its age says nothing of whether the    *)
(* tick that took it is dead.                                              *)
(***************************************************************************)
velha == idade >= STALE
ocupado_Nunca == FALSE                    \* mutant: the flag is not looked at
ocupado == inFlight /\ ~velha

TickRecusado ==
  /\ ocupado
  /\ idade' = idade + 1
  /\ UNCHANGED <<linhas, inFlight, roubos, tick, avarias>>

(* The slot a tick takes in the model: which one it is says nothing. *)
Vaga == CHOOSE w \in Workers : tick[w] = Livre

Tick(w) ==
  /\ ~ocupado /\ tick[w] = Livre /\ w = Vaga
  /\ (inFlight /\ velha) => roubos < MaxRoubos
  /\ inFlight' = TRUE /\ idade' = 0
  /\ roubos' = IF inFlight /\ velha THEN roubos + 1 ELSE roubos
  /\ tick' = [tick EXCEPT ![w] = [pc |-> "ler", lote |-> {}]]
  /\ UNCHANGED <<linhas, avarias>>

(* finally: the lease is given back, whoever holds it by then. *)
Finally(w) ==
  /\ tick' = [tick EXCEPT ![w] = Livre]
  /\ inFlight' = FALSE /\ idade' = 0
  /\ UNCHANGED roubos

(***************************************************************************)
(* processBatch.                                                           *)
(***************************************************************************)
pendentes == {n \in Notificacoes : status[n] = "PENDING"}

primeiras_Recentes ==                     \* mutant: orderBy createdAt desc
  {n \in pendentes : Cardinality({k \in pendentes : k > n}) < LOTE}
primeiras ==
  {n \in pendentes : Cardinality({k \in pendentes : k < n}) < LOTE}

LerLote(w) ==
  /\ Ponto(w, "ler")
  /\ primeiras # {}
  /\ tick' = [tick EXCEPT ![w] = [pc |-> "entregar", lote |-> primeiras]]
  /\ UNCHANGED <<linhas, lease, avarias>>

SemPendentes(w) ==
  /\ Ponto(w, "ler")
  /\ primeiras = {}
  /\ Finally(w)
  /\ UNCHANGED <<linhas, avarias>>

LerFalha(w) ==
  /\ Ponto(w, "ler")
  /\ Avaria
  /\ Finally(w)
  /\ UNCHANGED linhas

(* The row being served: the oldest of the batch. *)
Corrente(w, n) == n \in tick[w].lote /\ \A k \in tick[w].lote : n <= k

(* The next row, or the end of the batch. *)
Seguinte(w, n) ==
  LET resto == tick[w].lote \ {n}
  IN  IF resto = {} THEN Finally(w)
      ELSE /\ tick' = [tick EXCEPT ![w] = [pc |-> "entregar", lote |-> resto]]
           /\ UNCHANGED lease

(***************************************************************************)
(* deliver: nothing to do for IN_APP, sendGeneric for EMAIL.               *)
(***************************************************************************)
Entregar(w, n) ==
  /\ Ponto(w, "entregar") /\ Corrente(w, n)
  /\ canal[n] \in Ligados
  /\ envios' = IF canal[n] = "EMAIL" THEN [envios EXCEPT ![n] = @ + 1] ELSE envios
  /\ Passa(w, "marcar")
  /\ UNCHANGED <<criadas, canal, status, perdidos, lease, avarias>>

(* sendGeneric answers ok and no mail leaves: there is no RESEND_API_KEY   *)
(* and the send is a stub, or the provider refuses, which its SDK returns  *)
(* as { error } and does not throw.                                        *)
EmailPerdido(w, n) ==
  /\ Ponto(w, "entregar") /\ Corrente(w, n)
  /\ canal[n] = "EMAIL"
  /\ perdidos' = perdidos \cup {n} /\ Cardinality(perdidos') <= MaxPerdidos
  /\ Passa(w, "marcar")
  /\ UNCHANGED <<criadas, canal, status, envios, lease, avarias>>

aoFalhar_Ignora == "marcar"               \* mutant: result.ok is not looked at
aoFalhar == "falhar"

(* The user is gone or is not read, or the call to the SDK throws. *)
EmailFalha(w, n) ==
  /\ Ponto(w, "entregar") /\ Corrente(w, n)
  /\ canal[n] = "EMAIL"
  /\ Passa(w, aoFalhar)
  /\ UNCHANGED <<linhas, lease, avarias>>

NaoLigado(w, n) ==
  /\ Ponto(w, "entregar") /\ Corrente(w, n)
  /\ canal[n] \notin Ligados
  /\ Seguinte(w, n)
  /\ UNCHANGED <<linhas, avarias>>

(* The row, by id, whatever became of it since the batch was read. *)
MarcarEnviada(w, n) ==
  /\ Ponto(w, "marcar") /\ Corrente(w, n)
  /\ status' = [status EXCEPT ![n] = "SENT"]
  /\ Seguinte(w, n)
  /\ UNCHANGED <<criadas, canal, envios, perdidos, avarias>>

(* The update to SENT is inside the try: its failure is one of delivery. *)
MarcarFalha(w) ==
  /\ Ponto(w, "marcar")
  /\ Avaria
  /\ Passa(w, "falhar")
  /\ UNCHANGED <<linhas, lease>>

MarcarFalhada(w, n) ==
  /\ Ponto(w, "falhar") /\ Corrente(w, n)
  /\ status' = [status EXCEPT ![n] = "FAILED"]
  /\ Seguinte(w, n)
  /\ UNCHANGED <<criadas, canal, envios, perdidos, avarias>>

(* The update to FAILED is in the catch: its failure ends the batch. *)
LoteRebenta(w) ==
  /\ Ponto(w, "falhar")
  /\ Avaria
  /\ Finally(w)
  /\ UNCHANGED linhas

(* The process dies and starts again, with its flag clear. *)
Queda ==
  /\ Avaria
  /\ Activos # {}
  /\ tick' = [w \in Workers |-> Livre]
  /\ inFlight' = FALSE /\ idade' = 0
  /\ UNCHANGED <<linhas, roubos>>

Cron == TickRecusado \/ \E w \in Workers : Tick(w)

Servir(w) ==
  \/ LerLote(w) \/ SemPendentes(w) \/ LerFalha(w)
  \/ \E n \in Notificacoes :
       \/ Entregar(w, n) \/ EmailPerdido(w, n) \/ EmailFalha(w, n)
       \/ NaoLigado(w, n) \/ MarcarEnviada(w, n) \/ MarcarFalhada(w, n)
  \/ MarcarFalha(w) \/ LoteRebenta(w)

Next ==
  \/ Create
  \/ \E n \in Notificacoes : MarkRead(n)
  \/ Cron
  \/ \E w \in Workers : Servir(w)
  \/ Queda

Spec == Init /\ [][Next]_vars

(* The cron fires every minute, and a statement or a call to the provider  *)
(* that was started ends, one way or the other.                            *)
SpecJusta == Spec /\ WF_vars(Cron) /\ \A w \in Workers : WF_vars(Servir(w))
-----------------------------------------------------------------------------
(* A mail is handed to the provider once.  Again only for a lease taken    *)
(* over from a tick that was alive, or a failed statement or crash, once   *)
(* for each: the finally of a tick that lost its lease frees the one of    *)
(* another, and still no row is served by more ticks than that.            *)
EnvioContado ==
  /\ Cardinality(Activos) <= 1 + roubos
  /\ \A n \in Notificacoes : envios[n] <= 1 + roubos + avarias

(* MailService answered ok for the mail of n: it left, or was lost.        *)
Chamado(n) == envios[n] > 0 \/ n \in perdidos
(* Tick w has that answer for n in hand and is about to write SENT.        *)
Dito(w, n) == tick[w].pc = "marcar" /\ Corrente(w, n)

(* What the row says of a mail is what the worker was told.  SENT: it was  *)
(* told ok.  FAILED: it never was, unless the database failed or two ticks *)
(* served the row.  PENDING: it was not yet, or a tick is about to say so, *)
(* however many ticks serve the row, unless something failed.              *)
EstadoVerdadeiro ==
  \A n \in Notificacoes :
    canal[n] = "EMAIL" =>
      /\ status[n] = "SENT" => Chamado(n)
      /\ status[n] = "FAILED" /\ roubos = 0 /\ avarias = 0 => ~Chamado(n)
      /\ status[n] = "PENDING" /\ avarias = 0 =>
           (Chamado(n) => \E w \in Workers : Dito(w, n))

(* What the doc of sendGeneric makes SENT mean, with the header of the     *)
(* worker: a mail that did not leave is reported as ok = false, and its    *)
(* row is FAILED.  A refusal of the provider is reported as ok.            *)
SentSaiu ==
  \A n \in Notificacoes : canal[n] = "EMAIL" /\ status[n] = "SENT" => envios[n] > 0

(* Rows ahead of n that no tick will ever take out of the queue. *)
Presas(n) == {k \in Notificacoes : k < n /\ status[k] = "PENDING" /\ canal[k] \notin Ligados}

(* Every notification of a channel that is served leaves PENDING, unless   *)
(* a batch full of PUSH and SMS rows is ahead of it.                       *)
SaiDaFila ==
  \A n \in Notificacoes :
    (status[n] = "PENDING" /\ canal[n] \in Ligados /\ Cardinality(Presas(n)) < LOTE)
      ~> (status[n] # "PENDING")

(* Without the exception: what the header of the worker says it is for.    *)
(* PUSH and SMS rows stay PENDING, so LOTE of them keep every later one.   *)
NuncaFicaPendente ==
  \A n \in Notificacoes :
    (status[n] = "PENDING" /\ canal[n] \in Ligados) ~> (status[n] # "PENDING")
=============================================================================
