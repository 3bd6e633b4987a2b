# A TLA+ model of Kamaia

Kamaia is a contract life-cycle management system for Angolan companies: a
NestJS API over PostgreSQL (`apps/api`), a web client, a marketing site, and a
package of shared types that holds the state machine of contracts
(`packages/shared-types`).  This directory models the part of it that decides
things: the state machine, the services that drive it, and the background
engines.  Names are those of the source, in Portuguese; the comments of each
module say which service it is, and `PROJECT.json` gives the source lines of
every definition.

## 1. The system

### How it runs

The API is one or more Node processes over one PostgreSQL database, reached
through Prisma at READ COMMITTED.  Four kinds of actor touch the rows:

* **HTTP requests.**  A handler reads, decides in JavaScript, and writes with a
  later statement or inside a `$transaction`.  Every `await` is a point where
  another request runs.  A process that dies, or a statement that fails, leaves
  what was already committed.
* **Cron jobs** of the process (`@Cron`): renewals once a day, webhooks every 30
  seconds, notifications every minute, alerts once a day.  A boolean `inFlight`
  keeps one execution of a job at a time in *one* process; the endpoints that
  let an administrator start the same job by hand do not look at it.
* **The BullMQ worker** of the imports, when `REDIS_URL` is set; otherwise the
  request processes the import itself.
* **The outside world**: receivers of webhooks, mail, document storage,
  language models.

There is no row locking apart from advisory locks in the numbering of contracts
and adendas.  What protects concurrent requests is, where it exists, a `where`
that repeats the check in the writing statement (`updateMany` and `count`).  So
the question this project asks of each service is always the same: *between the
read and the write, what may have changed, and which check catches it?*

### Inventory

| Component (source) | State | Operations | Hard part | What makes it correct | Module |
|---|---|---|---|---|---|
| State machine and phase gates (`shared-types/src/index.ts`) | none, pure tables | `canTransition`, `contratoFase`, `contratoPode` | 17 states, gates per phase | the graph never leads from a contract in force back to drafting | `ContratoEstados` |
| Contract life cycle (`contratos`, `terminacao`, `adendas`, `assinaturas`, `partes`) | `Contrato.estado`, `deletedAt`, `parentContratoId`, its parties, `ContratoTerminacao`, the timeline | create, update, transitar, softDelete, registar, criar adenda, assinar, add/remove parte | stale reads between five services that all write `estado`; statements without a transaction | edges of the graph only; no way back from force; termination final; the parent of an adenda released; timeline and row agree | `CicloDeVida`, `ContratoCiclo` |
| Versions, collaborators' links, signatures (`versoes`, `colaboradores`, `assinaturas`, `ia-drafting`) | bodies in order, state of each link, signatures with the hash they sign | versoes.create, editarCorpo, persistResult of the drafting, resolveToken, revogar, assinar | gate, body and signature read in different statements; a model that thinks for seconds between gate and write | a signed body stays the one signed; orders have no gap; one signature each; a revoked link stays so | `Versoes` |
| Renewal engine (`contratos/renovacao`) | `dataTermo`, `prazoRenovacaoMeses`, `denunciaEm`, key dates, timeline | runOnce (cron and admin endpoint), denunciar | a batch served from values read once; two executions at a time; idempotence by timeline | one renewal per term and per day; row, timeline and key dates in step; a denúncia stops renewals | `Renovacao` |
| Obligations (`contratos/obrigacoes`) | obligations and their instances | create, cumprirInstancia, dispensarInstancia, desactivar | double click, month arithmetic | one instance per cycle, the next one open, the cadence kept | `Obrigacoes`, `Calendario` |
| Compliance acts, key dates and daily alerts (`compliance`, `datas-chave`, `alerts-scheduler`) | acts, key dates, the alerts in the timeline | avaliarContrato, marcar*, agendarPrazo, add, marcarCumprida; tick, runOnce | read, evaluate, create; a scan served from rows users change meanwhile; deduplication by timeline | one act per rule; an alert neither missed nor repeated; alerts of an act only more urgent | `Compliance`, `Alertas` |
| Notifications (`notifications`) | the rows, the worker's lease | create, markRead, tick, processBatch, deliver | a lease taken over from a worker that is alive and slow; a mail service that answers ok for mails that never left | a mail sent once per lease and failure; rows that say what the worker was told; every row leaves the queue | `NotificationDelivery` |
| Outgoing webhooks (`webhooks`) | subscriptions, deliveries | enqueueEvent, update, remove, tick | batch in memory, answers that are lost or cannot be recorded, retries | at least once, duplicates bounded by failures, final states, given up only after every attempt, every delivery ends | `WebhookDelivery` |
| Bulk import (`importacao`) | lote, lines, the queue's job | addLinha, start, worker, inline run | redelivery, stale jobs, crash between contract and line, a compensation that may itself fail | no line gives two contracts, a lote ends or there is a known cause, the report is true | `Importacao` |
| Members and seats (`memberships`) | membership rows, `utilizadoresUsado` | invite, accept, acceptByToken, updateRole, remove | count-then-write, seat reserved before the row | always an ADMIN, seats within the plan and counted right, an acceptance stays | `Memberships` |
| Plans, quotas, numbering (`billing`, counters in `contratos` and `ia`) | `UsageQuota` counters, numbers of contracts | create, softDelete, adenda, restore; sendMessage, draftContrato | who takes a unit is not always who gives it back; reserve, use and refund in three statements | counters within the plan and worth what they say; the number chosen is free | `Contador`, `Quotas` |
| Documents and storage (`documents`, `versoes`) | rows, bytes, `storageBytesUsado` | create, softDelete, a version that attaches a document, rows a restore inserts | three systems and no transaction | what is proof keeps its bytes; the plan is respected; no bytes leak | `Documentos` |
| Authentication, backups (as such), tasks and agenda, assistant, reference data, tenants, PDF/mail/audit, web client, schema and scripts | – | – | – | section 7 | – |

Interactions that cross components:

* the import creates contracts through `ContratosService.create` (in
  `Importacao` a commit, a refusal, or a commit followed by an error);
* the renewal engine only looks at contracts that `ContratoCiclo` keeps in
  ACTIVO (`MudarEstado` in `Renovacao` stands for all its transitions);
* `Versoes` takes the gates and the graph from `ContratoEstados`, the same
  tables `ContratoCiclo` runs on, and lets the contract move among any set of
  states while bodies are written and signed;
* `Alertas` EXTENDS `Compliance`: the scheduler and the users act on one set of
  tables, and its next-state relation is the disjunction of theirs;
* the engines hand rows to `NotificationDelivery` (`Create` stands for every
  producer), and the worker of webhooks writes notifications (`avisos`);
* seats, contracts, assistant messages and bytes are columns of one `UsageQuota`
  row, taken and given back by unrelated services: `Memberships`, `Quotas` and
  `Documentos` each model theirs, and the assistant's is shown to implement
  `Contador`, the promise they all should keep;
* every service writes the timeline of the contract, which the modules keep as
  far as a decision or a property depends on it (`ultimo`, `eventos`, `emitidos`).

## 2. The modules

Each model follows the same conventions.  A database transaction is one action;
two statements outside of a transaction are two actions; what a request
remembers between them is a record (`pedido[p]`, `fio[x]`, `worker[w]`,
`tick[w]`, `corrida[r]`, `exec[e]`) with a `pc`.  An action whose name begins
with `Ler` is a read that decides, one that begins with `Gravar` is the write.
`Falhar`, `Queda`, `Acabar` are a process that stops there.  A definition whose
name carries a suffix and the comment *mutant* is a plausible slip in the code;
it is used by no action and serves to check that a property would notice it.

* **`ContratoEstados`** – the tables of `shared-types`: `CONTRATO_TRANSITIONS`,
  `canTransition`, `contratoFase`, `contratoPode`, and the sets `Vigentes`
  (states of a contract that took effect) and `PreAssinatura`.
* **`CicloDeVida`** – an abstract specification: a contract enters in an entry
  state, moves one edge of the graph at a time, is terminated from a state that
  allows it, opens an adenda only while ACTIVO and is given back when the adenda
  is signed.  It knows nothing of requests.
* **`ContratoCiclo`** – the same life as five services really run it.  `estado`,
  `apagado` and `pai` are columns; `principais` is whether the contract has a
  principal party (what `allSigned` depends on); `terminacao` the row with the
  unique key; `ultimo` the state named by the latest event.  It refines
  `CicloDeVida` (`RefinaCiclo`) when requests are served one at a time, and only
  then (section 6).  `Ameaca(p, c)` are the requests about to write contract `c`
  by id from a state read earlier: `TerminacaoDefinitiva` speaks of a termination
  from which those are gone.
* **`Versoes`** – the bodies of a contract's versions (a body is a value; its
  hash is the value itself, since what matters is whether two are the same),
  the signatures with the body that was hashed, the links; requests of
  `editarCorpo` and the drafting (read the gate, read the version's signatures,
  write by id) and of the public link (resolve the token and write its row by id,
  read the body, then three checks, then insert).  `exposta` marks a signature
  recorded while a body was being changed, `firmes` the links revoked while no
  request was about to write them.
* **`Calendario`** – months of a leap and of common years, and `addMonths`.
* **`Renovacao`** – `runOnce` in steps: candidates read, recent renewals read,
  then one transaction per candidate from the values read; `registarFalha`, which
  looks before it writes; `denunciar` in two steps; edits, state changes and the
  passing of days.  Dates are day numbers here: what matters is order and
  equality.  The 24 hours of the recent renewals are "today, and perhaps
  yesterday".
* **`Obrigacoes`** – here dates are real (month and day), because the cadence is
  what can go wrong.
* **`Compliance`** – acts and key dates of one contract and the requests that
  evaluate, mark and reschedule them; `agendarPrazo` in its three statements.
* **`Alertas`** – an execution reads the key dates, looks in the timeline for
  each alert that is due, emits it in a transaction, then does the acts (bucket
  against the last bucket alerted).  `lidas` remembers what it read and had to
  alert, `emitidos` counts alerts per key date and threshold, `escalao` is the last
  bucket of each act.
* **`NotificationDelivery`** – the queue, `inFlight` with its age, and ticks that
  hold a batch in memory; the tick that lost its lease goes on, and its `finally`
  frees whatever lease there is.  A call of `MailService` has three outcomes: ok
  and the mail left (`Entregar`); ok and it did not, because without
  `RESEND_API_KEY` it is only logged or because the provider answered `{ error }`,
  which does not throw (`EmailPerdido`); not ok, because the call threw
  (`EmailFalha`).
* **`WebhookDelivery`** – the outbox, the subscriptions, the worker's batch and
  what it remembers; `aceites`, `avisos` and `esperas` are ghosts that record
  what the receiver, the ADMINs and the clock saw.  A receiver may accept and the
  answer be lost, which the worker takes for a failure.
* **`Importacao`** – one lote; requests, worker and queue.  The worker's crash,
  redelivery of the stalled job (once, as BullMQ's default), database and Redis
  failures, that of the compensation in `start` among them (`StartFalha`: it is
  swallowed).  `redis` is a variable that never changes, so that one run covers the
  queued and the inline deployment.
* **`Memberships`** – one tenant; the row of each person, the seat counter, and
  requests that read, reserve, write, give back.
* **`Contador`** – the abstract counter of a plan: a holder takes its unit only
  if it fits, gives back what it took and nothing else, and may at worst lose it.
* **`Quotas`** – the counter of contracts with the numbering (advisory lock,
  count, first free number within `TENTATIVAS`, unit, row: one transaction whose
  statements see what others commit), adendas and restores that touch neither that lock
  nor counter, `softDelete` that gives back whatever it deletes; and the
  assistant's counter, reserve, model call, refund.
* **`Documentos`** – row, bytes and counter of each document; `create` with its
  refund, `softDelete` statement by statement, a version that attaches a document
  it saw alive, and `Restaurar`, the row a restore inserts without quota and
  without bytes (one row at a time: the rows of one restore do not depend on each
  other).

History variables name the events that a guarantee must except: `sereno` (no two
requests overlapped, none died) in `Memberships`, `editado`/`juntas` in
`Renovacao`, `atropelada` (a dispensa was written over a fulfilment) in
`Obrigacoes`, `mexido` (the contract changed phase under a request) in `Versoes`,
`roubos` (leases taken from a live tick) and `perdidos` (mails answered ok that
never left) in `NotificationDelivery`, `ignorado` (an add dropped on a job whose
run was over) in `Importacao`,
`avaliacoesJuntas`, `sobrepostas` and `reagendado` in `Compliance` and `Alertas`,
`tardias` (attached when the removal had begun), `perdidas` (no request is left to
give its bytes back), `libertacoes`, `repostos` and `vazios` (rows a restore
inserted, and those of them without bytes) in `Documentos`, `restauro` in `Quotas`,
`avarias` (how many failures; `erros` in `Compliance` and `Alertas`) in most.  No
action reads them, but for the bounds on failures, lost mails and restored rows
and, in `Documentos`, for a document's id never being used again.

## 3. What the runs check

| Run | Instance | Properties |
|---|---|---|
| `ciclo_concorrente` | 2 contracts, 2 requests, all endpoints but PATCH | `CronologiaAteVigorar`, `SemRegresso`, `TerminacaoDefinitiva` |
| `ciclo_serial` | 2 contracts, 1 request, all endpoints, all entry states | `RefinaCiclo` |
| `versoes` | 1 collaborator, 2 requests, 2 bodies, 3 states, 3 versions, 3 signatures | `AssinaturaFiel`, `OrdemSeguida`, `UmaPorSignatario`, `RevogacaoFica` |
| `renovacao` | 1 contract, cron and admin endpoint, 3 days, 3 events | `RenovacaoTypeOK`, `RenovaUmaVez`, `TermoCoerente`, `DenunciaTrava` |
| `obrigacoes` | 1 obligation, 2 requests, 7 starting dates, every periodicity, 5 instances | `UmaPorCiclo`, `ProximaEmAberto`, `CadenciaMantida` |
| `alertas` | 1 rule, 2 acts, 1 key date, 2 users, cron and admin endpoint, 2 days, thresholds 0 and 1, 1 edit, 1 failure | `ActoUnico`, `AlertaUmaVez`, `Agrava` |
| `notificacoes` | 2 ticks, e-mail and push, 3 rows, batches of 2, 1 lease taken over, 1 mail lost, 1 failure | `EnvioContado`, `EstadoVerdadeiro`, `SaiDaFila` |
| `webhooks` | 2 deliveries, 2 subscriptions, 1 worker, 3 attempts, 2 failures (crash, database, lost answer) | `DuplicadosSoComAvaria`, `DesisteEsgotada`, `Definitivo`, `Termina` |
| `importacao` | 2 lines, 2 requests, worker, with and without Redis, 2 failures | `ImportacaoTypeOK`, `SobrasSoPorAvaria`, `ZombieExplicado`, `RelatorioFiel`, `Progresso` |
| `membros` | 3 people of whom 1 founder, 2 requests, 1 seat, 2 invitations each | `AdminSempreSereno`, `UsadoNoLimite`, `LugaresFieis`, `AceiteEstavel` |
| `quotas` | 1 seeded contract and 3 others, 2 requests, 3 messages, limit 2, 2 attempts at a number, 1 failure | `NumeroLivre`, `ContratosContados`, `RefinaIa` |
| `documentos` | 3 documents of 1, 2 and 2 units, limit 3 (and no limit, and no row), 2 requests, 1 restored row, 2 failures | `ProvaIntacta`, `PlanoRespeitado`, `SemFuga` |

Every module's type invariant is proved; the runs repeat it only where a slip in
the code could put a row outside its enum or its dates (a renewal that sets
`dataTermo` back, a name the schema does not know).

What they show, in the order of importance:

* **Life cycle.**  Whatever five services do to a contract at once, one that took
  effect never becomes editable again (`SemRegresso`), and one that was terminated
  stays so, but to be archived, from the moment the requests that had read it
  before are gone (`TerminacaoDefinitiva`).  Until a contract takes effect, row and
  timeline agree even through crashes.  Served one at a time, the requests
  implement the published graph; concurrently they do not (section 6).
* **Signatures.**  A signature keeps the body it signed for as long as the
  contract does not change phase under somebody who is writing: the gates alone
  keep editing and signing apart, and the check of the signatures of the version
  in `editarCorpo` is what saves the case in which they fail to.  A collaborator
  signs as often as requests are in flight at once, no more.
* **Renewals.**  Executions that do not overlap renew a contract once a day, and a
  term once unless a PATCH goes around them, in step with timeline and key dates.
  Overlapping ones renew it at most once each on one day.  Of the *term* nothing
  can be said of them: an execution that was late writes the `dataTermo` it
  computed from an older one over a newer one, and so the same term is left a
  third time (TLC shows it with two executions, `MaxDia` = 2 and `MaxEventos` = 5,
  and no user).  A denúncia lets at most the executions already past their reading
  through.
* **Obligations.**  Concurrent fulfilments create the next cycle once; the n-th
  cycle falls in its month; the day drifts at most to the 28th.
* **Alerts.**  An execution alerts every key date it had to, and no alert is
  repeated unless two executions ran along; acts whose deadline nobody moved are
  alerted in growing severity.  One evaluation at a time creates one act per rule.
* **Notifications.**  A mail is sent at most once more than leases were taken
  from a live tick and statements failed.  The row says what the worker was told:
  SENT, that the mail service answered ok (for a mail that left, was only logged,
  or was refused by the provider); FAILED, that it never did, and PENDING, that it
  has not yet, unless something broke.  Everything that is deliverable leaves the
  queue as long as there is room for it in a batch.
* **Webhooks.**  At least once, with at most one duplicate per failure or lost answer; final
  states are final; given up only after every attempt; every delivery ends.
* **Import.**  Every contract beyond the one a line reports was paid for by a
  crash or a database failure, however often the lote is started and delivered;
  the final report is what the lines say; a job taken by the worker ends.  The
  first is claimed with Redis only: without it two starts import every line twice.
  A lote left PROCESSANDO with nobody at work has one of the causes
  `ZombieExplicado` names: a process that died; inline, two failures of the
  database, one of them in the compensation; with the queue, a failure of the
  database or an add dropped on the job of an earlier run.
* **Members.**  The seat limit resists concurrency; the rest holds between
  requests that neither overlap nor die.
* **Quotas.**  The number chosen under the lock is free unless a restore
  committed meanwhile.  The counter of contracts never passes the plan, and what
  it misses is exactly the deleted contracts that had taken no unit.  The
  assistant's counter implements `Contador`.
* **Documents.**  What is proof keeps its bytes unless it became proof after its
  removal had begun; the plan is respected but for bytes given back more often than
  they were taken; and what is counted is there, but for documents whose request
  died between the counter and the storage or whose refund failed.  A restored
  document is in no count, has bytes if it came with them, and from then on keeps
  them as any other.

### Bounds, and why they are enough

* Two requests in flight are the smallest number that shows a stale read; most
  properties of the eight modules with proofs are proved for any number.
* Two contracts give a parent and an adenda, which is the longest chain the
  services treat differently.  `ciclo_concorrente` creates contracts in ACTIVO
  only, so that the second contract is an adenda in DRAFTING that goes through the
  whole pre-signature graph while the first is in force; `ciclo_serial` uses every
  entry state.  PATCH is left out of `ciclo_concorrente` (it writes
  `parentContratoId` only, multiplies the states, and is in `ciclo_serial` and in
  the proofs).
* APROVACAO, PRONTO_ASSINATURA and ASSINADO are a phase in which bodies are
  edited, the one in which they are signed, and one in which neither happens;
  three versions let a create that read an old order meet two that did not.
* Three days and three events let a contract be renewed twice and fail, or be
  renewed, denounced and renewed once more by an execution under way.
* Starting dates from the 15th to the 31st in months before a leap and a common
  February, with all periodicities, meet every case of `addMonths`.
* Two days, two thresholds (the day and the eve), a window of 2 and a critical
  margin of 1 put an act through its three buckets; two acts for one rule are what
  two simultaneous evaluations make.
* Three rows and batches of two: a push row that never leaves ahead of an e-mail,
  and a row beyond the batch.  One lease taken over is two live ticks.
* Three attempts in place of six (`MAX_TENTATIVAS`, `BACKOFF_SECONDS`): the
  first, a middle one and the last.
* Two lines show a success beside a failure; two failures show a crash followed
  by a crash of the redelivery, or by a database failure.
* One seat for two outsiders is a quota at its limit; two invitations each show
  one that is repeated.
* A limit of two contracts with one seeded: the third create meets the limit; two
  candidate numbers are exhausted by a restore.
* Sizes 1, 2, 2 under a limit of 3: any two fit or do not according to which.  One
  restored row is one beside two that took their bytes; one lost mail is a SENT row
  beside one that tells of a mail that left.

Symmetry is used in the runs without liveness, over ids that no definition tells
apart.  `CHECK_DEADLOCK FALSE` everywhere: with the bounds reached and nothing
pending these systems do come to rest.

### Fairness

Assumed only in the three runs with liveness.  `WebhookDelivery`: weak fairness
of a worker's step (the cron ticks for ever every 30 seconds, and the HTTP call
ends: until the headers by the abort after 8 seconds, which is cleared before the
body is read (`webhook-delivery.worker.ts:140`); the body by the ceiling of 32 KB
and fetch's own body timeout) and of the clock reaching `proximaTentativa`.  No fairness of
the receiver: it may refuse every time.  `NotificationDelivery`: weak fairness of
the cron (every minute) and of the steps of a tick that runs (a statement or a
call to the provider ends); none of the provider's success.  `Importacao`: weak
fairness of the worker taking and running a job, of BullMQ's stalled check, and of
a request already started running to its end; none of users, nor of failures.  A
worker that dies is followed by another (the process manager restarts it), which
is what fairness of `RunJob` after `Reentregar` says.

## 4. Mutants

Every property of a passing run is broken by a mutated definition under that
run's own instance: a forgotten half of a `where` (`Intacto_SemEstado`), a parent taken back whatever its state (`PaiEspera_Sempre`), a wrong
comparison (`HaLugar_Igual`, `esgotada_Menos`, `Cabe_Igual`), an update by id in
place of a claim (`claim_Sempre`), an unclamped month (`addMonths_Transborda`), a
compensation that is not made (`Compensar_Nada`, `Estorna_Nunca`), a query without
its filter (`Pendentes_Todas`, `Recentes_Hoje`, `existentes_Nenhuma`,
`jaEmitido_QualquerDia`) or with its order reversed (`primeiras_Recentes`), a lock
that is not taken (`Entra_SemTrinco`, `ocupado_Nunca`), a check that is gone
(`assinada_Nunca`, `referenciado_Nunca`) or too narrow (`recusa_SoExpirado`,
`jaAssinou_Versao`).

## 5. What is proved

Every invariant and action property that a run checks, and both refinements, are
theorems; only the three liveness properties are not.  There are eight proof
modules: each EXTENDS the modules it is about (two components without a name in
common may share one) and holds their proofs.  A theorem is for **every** value
of the constants that their assumptions allow: finite sets where cardinalities
are taken (people, documents, lines, executions, requests), naturals for the
bounds, and what the code itself guarantees (a founder exists, a size is positive,
the critical margin lies within the window).  The bounds on days, events, edits
and failures are arbitrary naturals.  Each proof finds an inductive invariant, has
one step per action, and a last step by PTL.

* **`ContratoCiclo_proofs`** (`Vigencia` for `SemRegresso`, `CronologiaAntes`,
  `Definitiva` for `TerminacaoDefinitiva`, `Refinamento` for `RefinaCiclo`, and
  `Coerencia`, `Optimista`, `Cronologia`).  The strengthening is about requests in flight: what
  a request that has read will write is safe *whatever the others do in between*,
  because being in force is stable (`PassoAvanca`: every step keeps a contract of
  `Vigentes` in `Vigentes`; the graph has that property by `GrafoFechado`, the
  writes by id because of what they write).  It is the reason the unguarded
  writes of `registar`, `criar` and `assinar` do no more harm than they do.
  `Definitiva`, also for any number of requests: of a contract terminated and
  threatened by none of those writes, every endpoint either refuses the state it
  reads now or finds the row changed since (`NaoReabre`), and none that starts
  comes to threaten it (`NaoAmeaca`).  Only the refinement assumes that requests
  are served one at a time (`Serial`): then what a request read is still true when
  it writes (lemma `Frescura`).  It is false of two at once, as
  `MCContratoCiclo_termo` shows.
* **`Entradas_proofs`**, members (`NoLimite` for `UsadoNoLimite`, `AdminSereno`,
  `AceiteEstavel`, `LugaresFieis`).  "There is an ADMIN" is not inductive: a
  removal under way would break it.  `SerenoInv` adds that while `sereno` a request
  in flight is alone (`Sozinho`) and that what it is about to write takes nothing
  from an ADMIN, or leaves another (`Seguro`); the step that establishes it is the
  count (`ContaOutro`).  For `AceiteEstavel`, `Convite`: whom a request is about to
  invite is still no member.  For `LugaresFieis`, `Lugares`: the counter is one too
  high exactly while an invitation has a seat and no row yet (`Fora`), and what the
  request remembers of its member is still so (`Lembra`).
* **`Entradas_proofs`**, import (`SobrasSoPorAvaria`, `ZombieExplicado`,
  `RelatorioFiel`, and `SemRepetir`, which is the first read without failures: a
  line gives one contract, a failed line none).  `Fila`: with the queue only the
  worker handles lines, its job is active and what it has left is PENDENTE; so a
  run begun by a redelivery starts from what the one before left.  `Justo` counts
  the contracts no line accounts for: a step leaves the surplus of every line as
  low as it was (`Poupa`), or is a failure and raises that of one line by one
  (`Gasta`), which is a fact about cardinalities (`ExcessoMenos`, `ExcessoMais`).
  `Quieto`: with one crash at most and no database failure the job is given back
  for each crash and never given up, and what the last run counted still holds.
  For `ZombieExplicado`: inline, a request that compensates has met a first
  failure of the database (`Compensado`), so that losing the lote takes a second
  (`SemZombieDe`); with the queue, a lote that is PROCESSANDO has a job that waits,
  a run that will write its end, or a request about to hand it over
  (`Encaminhado`).
* **`Versoes_proofs`** (`AssinaturaFiel`, `OrdemSeguida`, `UmaPorSignatario`,
  `RevogacaoFica`).  `Ordenado`: whoever read the last order writes that version or
  the next one, and the unique key refuses the first.  `Firme`: no request is about
  to write a firm link.  `UmaCada`: signatures of one collaborator are by different
  requests.  `Fiel`: as long as nothing moved under a request, one that will write
  a body and one that will sign are not both under way.
* **`Recorrencias_proofs`**, obligations (`UmaPorCiclo`, `ProximaEmAberto`,
  `CadenciaMantida`).  Only the newest instance is open (`Aberto`), so a claim that
  succeeds is of the newest, and the next one is one period later (`Ciclos`).  The
  calendar enters by one lemma, `AddMonths`: the month is exactly `n` later and the
  day is the lesser of the day and the length of the month.
* **`Recorrencias_proofs`**, renewals (`RenovaUmaVez`, `TermoCoerente`,
  `DenunciaTrava`).  What was recorded is counted together with what may still be:
  `NoDia`, the renewals (or failures) of a day and the executions that may still
  record one today are no more than the executions, or than one while they do not
  overlap; `Denunciado`, the same of the renewals after a denúncia and the
  executions that still hold the contract in their batch.  `Cadeia`: while
  executions do not overlap and no PATCH intervened, the renewals are linked, the
  last one gives the `dataTermo`, that is the one open date, and it is what an
  execution about to renew has read.
* **`Avisos_proofs`**, notifications (`EnvioContado`, `EstadoVerdadeiro`).  `Conta`
  counts: ticks alive are at most one more than leases taken; the sends of a row
  and the ticks that still hold it are together bounded by leases and failures.
  `Enviada`: a SENT row is of a mail answered ok (`Chamado`), and so is what a tick
  is about to write SENT.  `PorDizer`: while nothing failed, a PENDING row whose
  mail was answered ok is in the hands of a tick that will say so, however many
  ticks there are.  `Calma`: while nothing failed and no lease was taken, one tick
  at most is alive, and a FAILED row, whose mail was never answered ok, is in no
  batch.
* **`Avisos_proofs`**, acts and alerts (`ActoUnico`, `AlertaUmaVez`, and the action
  property `Agrava`).  `Unico`: while evaluations do not overlap, the one under way
  writes rules that still have no act.  `Servidas`: a key date read has its alert or
  is still to be served.  `Vezes` and `So`: the alerts emitted and the executions
  about to emit one are at most the executions; while they do not overlap, who is
  about to emit found none.  `Ordem`: no bucket, emitted or waiting in a batch, is
  ahead of what the deadline of its act asks for today, and that only grows
  (`BucketCresce`) as days pass.
* **`WebhookDelivery_proofs`** (`Definitivo`, `DuplicadosSoComAvaria`,
  `DesisteEsgotada`), for one worker process, which is what `inFlight` guarantees
  and no more: the batch of the worker is of rows in the queue (`Lote`), acceptances
  are paid for (`Aceites`), a row waited once per attempt (`Esperas`).
  `DesisteEsgotada` also needs `MAX_TENTATIVAS <= BACKOFF_SECONDS + 1`.
* **`Quotas_proofs`** (`NumeroLivre`, `ContratosContados`, `RefinaIa`).  `Numerado`:
  only one create is past the lock, and what it read is still what is there;
  `Contado`: the three sets of contracts and the counter.  The refinement maps each
  step to a step of `Contador` or to a stutter.
* **`Documentos_proofs`** (`ProvaIntacta`, `PlanoRespeitado`, `SemFuga`, and the
  limit of the plan).  `Intacta` says where a request may be by the life of its
  document: one that creates it is alone with it, one about to delete the bytes has
  marked the row and found no reference, or the reference came late.  `Contas` is
  the counter: there *is* a set of documents that holds every row not given back
  and every document being created, whose members are each in the storage, on the
  way, or lost, and whose bytes the counter is worth, less those given back more
  often than taken.  A row a restore inserts enters no such set (`ContasRestaura`).
  The set is no function of the state, since a refund that failed and one that did
  not leave the same rows.  Sums of bytes are cardinalities of sets of units
  (`Soma`), so that the library's facts on finite sets apply to them.

`TypeCorrect` (`ImportacaoTypeCorrect`, `RenovacaoTypeCorrect`,
`AlertasTypeCorrect`) is each module's type invariant.  The facts about the graph
are proved from its table, state by state.

Only model-checked: the liveness properties `Progresso`, `Termina` and
`SaiDaFila`, because the proof system reasons neither about fairness nor about
ENABLED; and the properties of the seven configurations of section 6, which fail.

## 6. Differences between code and docs met while modelling

Seven of them are shown by a configuration to run by hand, each of which ends in a
counterexample:

| Configuration | Property | What the repository says | What happens |
|---|---|---|---|
| `MCContratoCiclo_termo` | `RefinaCiclo` | TERMINADO only from EM_TERMINACAO, per the graph (`terminacao.service.ts:47`) | the graph is checked on a stale read and the write is by id (`:93`): a contract that moved on in between (to EM_ADENDA, say) is put in TERMINADO all the same |
| `MCContratoCiclo_preso` | `PaiLibertado` | the parent returns to ACTIVO when the adenda is signed (`adendas.service.ts:30`) | an adenda moved to ASSINADO by `transitar` (`contratos.service.ts:568`) leaves it in EM_ADENDA |
| `MCImportacao_zombie` | `SemZombie` | a FALHOU lote can be retried (`importacao.service.ts:185`) | the queue keeps the old job under the same id (`import-queue.service.ts:113`), `add` does nothing, the lote says PROCESSANDO for ever |
| `MCMemberships_ultimoAdmin` | `AdminSempre` | always at least one ADMIN (`memberships.service.ts:18`) | two ADMINs removed or demoted at once both count two (`:356`) |
| `MCRenovacao_duplo` | `NuncaDuasNoDia` | no danger of renewing twice on one day (`renovacao.service.ts:40`) | the cron and the admin endpoint together do: both read before either renews, and both update by id (`:180`) |
| `MCNotificationDelivery_fome` | `NuncaFicaPendente` | notifications no longer stay PENDING for ever (`notification-delivery.worker.ts:10`) | PUSH and SMS rows are never served and never leave PENDING, so a batch full of them ahead keeps every later mail waiting (`notification-delivery.worker.ts:76`) |
| `MCNotificationDelivery_sent` | `SentSaiu` | a mail that fails is reported as ok=false (`mail.service.ts:88`), and the worker writes SENT on success and FAILED on error (`notification-delivery.worker.ts:18`) | Resend answers a refusal with `{ error }` and does not throw, so `sendGeneric` answers ok (`mail.service.ts:104-111`), as it does for a mail it only logged (`:99-101`); the row becomes SENT (`notification-delivery.worker.ts:153`) and no mail left |

Life cycle and signatures:

* `assinaturas.service.ts:277`: the signature writes state and event in two
  statements, by id (hence `CronologiaAteVigorar`, which stops at the signature;
  and a contract cancelled in between becomes ASSINADO).
* `adendas.service.ts:158`: the parent is moved by id, so an adenda may be opened
  over a contract that has just left ACTIVO; `contratos.dto.ts:33`:
  `parentContratoId` of the body can build a chain of adendas.
* A signature may be recorded over a body somebody is editing, if the contract
  changed phase under the editor (`exposta`); and a revocation is undone by a
  `resolveToken` that read the link before it and writes it by id (hence `firmes`).

Engines:

* `renovacao.service.ts:180`: a contract denounced after the candidates were read
  is renewed (hence the bound of `DenunciaTrava`); overlapping executions also
  leave two open key dates, and a late one sets `dataTermo` back to the term it
  computed from the values it had read (hence `juntas`); `:353`: two simultaneous requests
  both register a denúncia.
* `obrigacoes.service.ts:292`: a dispensa decided before a fulfilment overwrites
  it; the claim then succeeds again and the next cycle is created twice (hence
  `atropelada`); and dispensing the open instance creates no next one: the
  recurrence stops there.
* `obrigacoes.service.ts:335`: each date is computed from the one before, already
  clamped, so that what is due on the 31st is due on the 28th for ever after a
  February.  The doc of `nextDate` asks for the clamp and says nothing of the months
  after it; `CadenciaMantida` states how far the day goes.
* `alerts-scheduler.service.ts`: the header says the deduplication key includes the
  target date; the code uses the key date's id and the days of notice.  A day on
  which the job does not run loses that day's alerts.  `runOnce` has no `inFlight`,
  so run beside the cron it repeats alerts.
* `compliance.service.ts`: the acts found are compared with those read before:
  two evaluations of one contract at once create an act twice (hence
  `avaliacoesJuntas`); `marcarEmCurso` reopens an act that is CONCLUIDO;
  `agendarPrazo` is three statements.
* `notification-delivery.worker.ts:69`: the `finally` of a tick that lost its lease
  frees the lease of the one that took it.
* `webhook-delivery.worker.ts:15`: of the six entries of the backoff table the
  last is never waited for (`DesisteEsgotada` states it); `:177`: a crash after the
  FAILED row loses the alert (hence `avarias = 0` there); `:47`: two API processes
  during a deployment read the same rows, so what is said of webhooks is said of
  one process.

Import, members, quotas, documents:

* `importacao.service.ts:287`: a crash between the contract and its line is said
  not to duplicate; `contratoId` is written only with CRIADO, so the redelivered
  job creates the contract again.  `SobrasSoPorAvaria` bounds it.
* `importacao.service.ts:212-217`: when the run fails inline, `start` gives the lote
  back to EM_FILA, and swallows the failure of that update: after two failures of
  the database the lote stays PROCESSANDO with no process dead (hence the bound of
  `ZombieExplicado`).
* `importacao.service.ts:195`: without Redis two starts both pass the check of
  the state and import every line twice.
* `memberships.service.ts:178` and `:143`: an invitation that read the row before
  it was accepted clears the acceptance; two invitations of a removed member take
  two seats (hence `sereno` in `AceiteEstavel` and `LugaresFieis`).
* `contratos.service.ts:97` says the seed of a tenant guarantees its `UsageQuota`
  row; only the demo seed creates one (hence `semLinha` in `Quotas` and
  `Documentos`: without the row the assistant refuses and everything else is
  uncounted).
* `contratos.service.ts:912` says what the count of numbers leaves out; the LIKE
  `CT-ano-_____` also counts the seeded `CT-ano-D0001`.
* Adendas, restored and seeded contracts give back on deletion a unit they never
  took (`ContratosContados` states the price); counters of assistant messages are
  never set back at the start of a period; a unit is lost if a statement fails
  after the reserve.
* `documents.service.ts:247`: two removals of one document at once free its bytes
  twice (hence `aMais` in `PlanoRespeitado`).
* `backup.service.ts:628-641`: a restore inserts document rows and takes no quota
  for them, so the removal of one frees bytes that were never taken (in `aMais`
  too); nor does it write bytes, so a restored row may have none (hence `vazios` in
  `ProvaIntacta`).

## 7. What is not modelled

Formatting, labels, e-mail texts, PDF and HTML, tax tables, HMAC and address
checks, cryptography; multi-tenancy (each model is inside one tenant, which every
query filters on); pagination and listings.  In the modelled services: compliance
hooks and notifications of `create`, passwords and expiry of invitations, the
deadline arithmetic of a denúncia, the limit of 25 deliveries of a batch, the
365-day window of the alerts, the legal rules that detect acts (any set of them
may be detected), plan changes by an administrator, and the other referrers of a
document, which refer to it as a version does.  `IN_APP` behaves as e-mail without
the mail.

Components without a module, with the reason:

* *Authentication*: passwords, tokens and cryptography; nothing is stated of them
  here.
* *Backups*: serialisation of a tenant.  What a restore does to the contracts'
  numbers and to their quota is in `Quotas`, the document rows it inserts are in
  `Documentos`.
* *Tasks and agenda*, *reference data* (entities, portfolios, templates, clauses,
  custom fields, contract types, holidays, legislation), *tenants and users*: a
  statement or a transaction per operation on rows nobody else decides upon.  (Met
  while reading: a task that is reopened after being cancelled keeps the
  `concluidaEm` that reopening is said to clear.)
* *Assistant, drafting and retrieval*: calls to models; their quota is in
  `Quotas`, what the drafting writes is in `Versoes`.
* *PDF, mail, audit log, health, seed*, *web client and marketing site*, *schema,
  deployment and scripts*: rendering, I/O and declarations; of the mail service
  what it answers the worker is in `NotificationDelivery`.

That is also most of the repository: of its source lines the greater part is
React pages, CRUD services, prompts, templates and rendering, in which there is
no protocol to state a property about.  What the models cover is small in lines
and holds the decisions.

## 8. Plan

Done: all the modules of section 2, and the eight proof modules of section 5.

Left, in this order:

1. Proofs: what `Contador` itself promises (its holders never pass the plan), so
   that the refinement carries it to the assistant's counter; that `CicloDeVida`
   keeps a contract in force from going back, by itself.
2. Composition of `NotificationDelivery` with one producer (the engine of renewals)
   to state that what is registered is announced.
3. `Tarefas` and `Autenticacao` (lockout counter, single use of the reset token),
   if they grow a protocol of more than one statement.

To run everything from this directory:

    tlc -workers 2 -config MCContratoCiclo_serial.cfg MCContratoCiclo
    tlapm ContratoCiclo_proofs.tla
