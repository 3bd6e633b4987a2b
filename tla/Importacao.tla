----------------------------- MODULE Importacao -----------------------------
(***************************************************************************)
(* The bulk import of one lote (importacao.service, import-queue.service). *)
(* start() marks the lote and hands it to the queue; with Redis a BullMQ   *)
(* worker runs processarSincrono, without it the request runs it itself.   *)
(* Every database statement is a step: requests and the worker interleave, *)
(* the process may die between two statements, and a dead worker's job is  *)
(* delivered again.                                                        *)
(*                                                                         *)
(* Left out: totalLinhas, which nothing decides on; the values parsed from *)
(* the CSV; the branch for a PENDENTE line that already has a contratoId,  *)
(* because contratoId is only ever written together with CRIADO.           *)
(***************************************************************************)
EXTENDS Naturals, FiniteSets

CONSTANTS
  Linhas,      \* the lines that may be added to the lote
  SemLinha,    \* no line
  Arranques,   \* HTTP requests (start) served at a time
  Operario,    \* the BullMQ worker
  Modos,       \* with REDIS_URL (TRUE: queued), without (FALSE: inline)
  Avarias,     \* what may go wrong: "queda" (process), "bd", "redis"
  MaxAvarias   \* bound: how many times

TiposAvaria == {"queda", "bd", "redis"}
ASSUME AvariasAssumption == Avarias \subseteq TiposAvaria
ASSUME MaxAssumption == MaxAvarias \in Nat
ASSUME ModosAssumption == Modos \subseteq BOOLEAN
ASSUME OperarioAssumption == Operario \notin Arranques
ASSUME SemLinhaAssumption == SemLinha \notin Linhas
ASSUME LinhasAssumption == IsFiniteSet(Linhas)

VARIABLES
  redis,      \* the process was started with REDIS_URL
  lote,       \* ImportacaoLote.estado
  relatorio,  \* ImportacaoLote.processadas and .falhas
  linha,      \* ImportacaoLinha.estado, "AUSENTE" before addLinha
  contratos,  \* how many contracts were created from the line
  job,        \* the job with jobId = loteId, as the queue keeps it
  fio,        \* where each request and the worker stopped
  avarias,    \* failures so far, of each kind
  ignorado    \* history: an add was dropped on a job whose run had written its end

mutaveis == <<lote, relatorio, linha, contratos, job, fio, avarias, ignorado>>
\* redis never changes
importacaoVars == <<redis, mutaveis>>

Finais == {"CONCLUIDO", "CONCLUIDO_COM_ERROS", "FALHOU"}
Fios == Arranques \cup {Operario}

(* ponto: the next statement; resto: the lines read PENDENTE and not       *)
(* handled yet; l: the line at hand; cont: the counts read by groupBy.     *)
Zero == [processadas |-> 0, falhas |-> 0]
Em(ponto, resto, l, cont) == [ponto |-> ponto, resto |-> resto, l |-> l, cont |-> cont]
FioLivre == Em("livre", {}, SemLinha, Zero)
Esta(x, ponto) == fio[x].ponto = ponto
Vai(x, f) == fio' = [fio EXCEPT ![x] = f]
VaiPara(x, ponto) == Vai(x, [fio[x] EXCEPT !.ponto = ponto])

SemJob == [estado |-> "nenhum", paragens |-> 0]

ImportacaoInit ==
  /\ redis \in Modos
  /\ lote = "EM_FILA"
  /\ relatorio = Zero
  /\ linha = [l \in Linhas |-> "AUSENTE"]
  /\ contratos = [l \in Linhas |-> 0]
  /\ job = SemJob
  /\ fio = [x \in Fios |-> FioLivre]
  /\ avarias = [t \in TiposAvaria |-> 0]
  /\ ignorado = FALSE

Avaria(tipo) ==
  /\ tipo \in Avarias
  /\ avarias["queda"] + avarias["bd"] + avarias["redis"] < MaxAvarias
  /\ avarias' = [avarias EXCEPT ![tipo] = @ + 1]

(* addLinha: in whatever state the lote is. *)
AddLinha(l) ==
  /\ linha[l] = "AUSENTE"
  /\ linha' = [linha EXCEPT ![l] = "PENDENTE"]
  /\ UNCHANGED <<lote, relatorio, contratos, job, fio, avarias, ignorado>>

(***************************************************************************)
(* start: reads the lote, marks it PROCESSANDO, enqueues it, and gives the *)
(* EM_FILA back if the queue (or the inline run) threw.                    *)
(***************************************************************************)
reiniciaveis == {"EM_FILA", "FALHOU"}

StartLer(p) ==
  /\ Esta(p, "livre")
  /\ lote \in reiniciaveis
  /\ VaiPara(p, "marcar")
  /\ UNCHANGED <<lote, relatorio, linha, contratos, job, avarias, ignorado>>

StartMarcar(p) ==
  /\ Esta(p, "marcar")
  /\ lote' = "PROCESSANDO"
  /\ VaiPara(p, "enfileirar")
  /\ UNCHANGED <<relatorio, linha, contratos, job, avarias, ignorado>>

(* A job the queue still keeps under the same id makes add a no-op: one    *)
(* whose run is over will not take this lote further.                      *)
RunAcabou ==
  \/ job.estado \in {"concluido", "falhado"}
  \/ job.estado = "activo" /\ Esta(Operario, "fim")

Enfileirar(p) ==
  /\ redis
  /\ Esta(p, "enfileirar")
  /\ job' = IF job.estado = "nenhum" THEN [estado |-> "espera", paragens |-> 0] ELSE job
  /\ ignorado' = (ignorado \/ RunAcabou)
  /\ Vai(p, FioLivre)
  /\ UNCHANGED <<lote, relatorio, linha, contratos, avarias>>

EnfileirarFalha(p) ==
  /\ redis
  /\ Esta(p, "enfileirar")
  /\ Avaria("redis")
  /\ VaiPara(p, "compensar")
  /\ UNCHANGED <<lote, relatorio, linha, contratos, job, ignorado>>

Compensar_Nada(p) ==   \* mutant: the estado is not given back
  /\ Esta(p, "compensar")
  /\ Vai(p, FioLivre)
  /\ UNCHANGED <<lote, relatorio, linha, contratos, job, avarias, ignorado>>
Compensar(p) ==
  /\ Esta(p, "compensar")
  /\ lote' = "EM_FILA"
  /\ Vai(p, FioLivre)
  /\ UNCHANGED <<relatorio, linha, contratos, job, avarias, ignorado>>

(* The database refuses a statement of start: the first update throws out  *)
(* of the request; the error of the compensation is swallowed, and the one *)
(* that led to it is thrown.                                               *)
StartFalha(p) ==
  /\ fio[p].ponto \in {"marcar", "compensar"}
  /\ Avaria("bd")
  /\ Vai(p, FioLivre)
  /\ UNCHANGED <<lote, relatorio, linha, contratos, job, ignorado>>

(***************************************************************************)
(* processarSincrono, run by the worker or, inline, by the request.        *)
(***************************************************************************)
Pendentes_Todas == {l \in Linhas : linha[l] # "AUSENTE"}   \* mutant: no filter
Pendentes == {l \in Linhas : linha[l] = "PENDENTE"}

RunInline(p) ==
  /\ ~redis
  /\ Esta(p, "enfileirar")
  /\ Vai(p, Em("linhas", Pendentes, SemLinha, Zero))
  /\ UNCHANGED <<lote, relatorio, linha, contratos, job, avarias, ignorado>>

RunJob ==
  /\ job.estado = "espera" /\ Esta(Operario, "livre")
  /\ job' = [job EXCEPT !.estado = "activo"]
  /\ Vai(Operario, Em("linhas", Pendentes, SemLinha, Zero))
  /\ UNCHANGED <<lote, relatorio, linha, contratos, avarias, ignorado>>

(* ContratosService.create commits the contract, or refuses the line       *)
(* (quota, document); the compliance evaluation it awaits after the commit *)
(* may throw too.                                                          *)
CriarContrato(x, l) ==
  LET cria == contratos' = [contratos EXCEPT ![l] = @ + 1]
      vai(ponto) == Vai(x, Em(ponto, fio[x].resto, l, Zero))
  IN  /\ Esta(x, "linhas") /\ l \in fio[x].resto
      /\ \/ cria /\ vai("criado") /\ UNCHANGED avarias
         \/ vai("falhou") /\ UNCHANGED <<contratos, avarias>>
         \/ Avaria("bd") /\ cria /\ vai("falhou")
      /\ UNCHANGED <<lote, relatorio, linha, job, ignorado>>

ProximaLinha(x) ==
  Vai(x, Em("linhas", fio[x].resto \ {fio[x].l}, SemLinha, Zero))

LinhaCriada(x) ==
  /\ Esta(x, "criado")
  /\ linha' = [linha EXCEPT ![fio[x].l] = "CRIADO"]
  /\ ProximaLinha(x)
  /\ UNCHANGED <<lote, relatorio, contratos, job, avarias, ignorado>>

(* The update of the line is inside the try: its error marks it FALHOU. *)
LinhaCriadaFalha(x) ==
  /\ Esta(x, "criado")
  /\ Avaria("bd")
  /\ VaiPara(x, "falhou")
  /\ UNCHANGED <<lote, relatorio, linha, contratos, job, ignorado>>

LinhaFalhou(x) ==
  /\ Esta(x, "falhou")
  /\ linha' = [linha EXCEPT ![fio[x].l] = "FALHOU"]
  /\ ProximaLinha(x)
  /\ UNCHANGED <<lote, relatorio, contratos, job, avarias, ignorado>>

ContarLinhas(x) ==
  LET contar(estado) == Cardinality({l \in Linhas : linha[l] = estado}) IN
  /\ Esta(x, "linhas") /\ fio[x].resto = {}
  /\ Vai(x, Em("gravar", {}, SemLinha,
                [processadas |-> contar("CRIADO"), falhas |-> contar("FALHOU")]))
  /\ UNCHANGED <<lote, relatorio, linha, contratos, job, avarias, ignorado>>

estadoFinal_Enum(cont) ==    \* mutants: a name outside the enum,
  IF cont.falhas = 0 THEN "CONCLUIDO" ELSE "COM_ERROS"
estadoFinal_Troca(cont) ==   \* the tests swapped,
  IF cont.processadas = 0 THEN "FALHOU"
  ELSE IF cont.falhas = 0 THEN "CONCLUIDO" ELSE "CONCLUIDO_COM_ERROS"
estadoFinal_Volta(cont) ==   \* a failed lote put back
  IF cont.falhas = 0 THEN "CONCLUIDO"
  ELSE IF cont.processadas = 0 THEN "EM_FILA" ELSE "CONCLUIDO_COM_ERROS"
estadoFinal(cont) ==
  IF cont.falhas = 0 THEN "CONCLUIDO"
  ELSE IF cont.processadas = 0 THEN "FALHOU" ELSE "CONCLUIDO_COM_ERROS"

(* The worker still has to acknowledge the job; a request is done. *)
GravarLote(x) ==
  /\ Esta(x, "gravar")
  /\ lote' = estadoFinal(fio[x].cont)
  /\ relatorio' = fio[x].cont
  /\ Vai(x, IF x = Operario THEN Em("fim", {}, SemLinha, Zero) ELSE FioLivre)
  /\ UNCHANGED <<linha, contratos, job, avarias, ignorado>>

FimJob ==
  /\ Esta(Operario, "fim")
  /\ job' = [job EXCEPT !.estado = "concluido"]
  /\ Vai(Operario, FioLivre)
  /\ UNCHANGED <<lote, relatorio, linha, contratos, avarias, ignorado>>

(* A statement outside the try throws out of processarSincrono: the job    *)
(* fails for good (attempts: 1), the inline request compensates.           *)
RunRebenta(x) ==
  /\ fio[x].ponto \in {"linhas", "falhou", "gravar"}
  /\ Avaria("bd")
  /\ IF x = Operario
       THEN job' = [job EXCEPT !.estado = "falhado"] /\ Vai(x, FioLivre)
       ELSE job' = job /\ VaiPara(x, "compensar")
  /\ UNCHANGED <<lote, relatorio, linha, contratos, ignorado>>

-----------------------------------------------------------------------------
(* The process of a request, or of the worker, dies. *)
Queda(x) ==
  /\ ~Esta(x, "livre")
  /\ Avaria("queda")
  /\ Vai(x, FioLivre)
  /\ UNCHANGED <<lote, relatorio, linha, contratos, job, ignorado>>

(* BullMQ gives a stalled job back once, and fails it the second time. *)
MaxParagens == 1
Reentregar ==
  /\ job.estado = "activo" /\ Esta(Operario, "livre")
  /\ job' = IF job.paragens < MaxParagens
              THEN [estado |-> "espera", paragens |-> job.paragens + 1]
              ELSE [job EXCEPT !.estado = "falhado"]
  /\ UNCHANGED <<lote, relatorio, linha, contratos, fio, avarias, ignorado>>

(* Enough later jobs push a finished one out (removeOnComplete: 100, and   *)
(* removeOnFail: 200).                                                     *)
Expurgar ==
  /\ job.estado \in {"concluido", "falhado"}
  /\ job' = SemJob
  /\ UNCHANGED <<lote, relatorio, linha, contratos, fio, avarias, ignorado>>

Start(p) == \/ StartLer(p) \/ StartMarcar(p) \/ Enfileirar(p) \/ EnfileirarFalha(p)
             \/ Compensar(p) \/ StartFalha(p) \/ RunInline(p)

Run(x) == \/ \E l \in Linhas : CriarContrato(x, l)
          \/ LinhaCriada(x) \/ LinhaFalhou(x) \/ ContarLinhas(x) \/ GravarLote(x)

Passo ==
  \/ \E l \in Linhas : AddLinha(l)
  \/ \E p \in Arranques : Start(p)
  \/ RunJob \/ FimJob \/ Reentregar \/ Expurgar
  \/ \E x \in Fios : Run(x) \/ LinhaCriadaFalha(x) \/ RunRebenta(x) \/ Queda(x)

ImportacaoNext == Passo /\ UNCHANGED redis

ImportacaoSpec == ImportacaoInit /\ [][ImportacaoNext]_importacaoVars

(* The worker polls the queue and runs what it takes; BullMQ checks for    *)
(* stalled jobs periodically; a request that started runs to its end.      *)
Justica ==
  /\ WF_mutaveis(RunJob) /\ WF_mutaveis(FimJob) /\ WF_mutaveis(Reentregar)
  /\ WF_mutaveis(Run(Operario))
  /\ \A p \in Arranques :
       WF_mutaveis(Run(p) \/ StartMarcar(p) \/ Enfileirar(p) \/ Compensar(p) \/ RunInline(p))

ImportacaoJusta == ImportacaoSpec /\ Justica

-----------------------------------------------------------------------------
(* Type correctness of the rows, the job and the threads. *)
Contagem == [processadas : 0..Cardinality(Linhas), falhas : 0..Cardinality(Linhas)]
ImportacaoTypeOK ==
  /\ redis \in BOOLEAN
  /\ lote \in Finais \cup {"EM_FILA", "PROCESSANDO"}
  /\ relatorio \in Contagem
  /\ linha \in [Linhas -> {"AUSENTE", "PENDENTE", "CRIADO", "FALHOU"}]
  /\ contratos \in [Linhas -> Nat]
  /\ job \in [estado : {"nenhum", "espera", "activo", "concluido", "falhado"},
              paragens : 0..MaxParagens]
  /\ fio \in [Fios -> [ponto : {"livre", "marcar", "enfileirar", "compensar", "linhas",
                                "criado", "falhou", "gravar", "fim"},
                       resto : SUBSET Linhas, l : Linhas \cup {SemLinha},
                       cont : Contagem]]
  /\ avarias \in [TiposAvaria -> 0..MaxAvarias]
  /\ ignorado \in BOOLEAN

(* Every contract is one that a line reports (or is about to), except for  *)
(* one of each crash or database failure: without failures, no line gives  *)
(* two contracts and a failed line gives none, however often the lote is   *)
(* started and its job delivered.                                          *)
Sobras(l) ==
  contratos[l] - (IF linha[l] = "CRIADO" \/ \E x \in Fios : Esta(x, "criado") /\ fio[x].l = l
                    THEN 1 ELSE 0)
SobrasSoPorAvaria ==
  redis => Cardinality({s \in Linhas \X (1..(MaxAvarias + 1)) : s[2] <= Sobras(s[1])})
             <= avarias["queda"] + avarias["bd"]

(* A lote that says PROCESSANDO is being processed, or about to be: a job  *)
(* waits or runs for it, or a request has it in hand.                      *)
SemZombie ==
  lote = "PROCESSANDO" =>
    \/ job.estado \in {"espera", "activo"}
    \/ \E p \in Arranques : fio[p].ponto \notin {"livre", "marcar"}

(* A lote left PROCESSANDO by nobody has a cause. Inline: a process died,  *)
(* or the database failed twice, in the run and in the compensation of its *)
(* start. With the queue: a process died, the database failed, or an add   *)
(* was dropped on a job whose run was over.                                *)
ZombieExplicado ==
  (avarias["queda"] = 0 /\ IF redis THEN avarias["bd"] = 0 /\ ~ignorado
                                    ELSE avarias["bd"] <= 1) => SemZombie

(* When nothing is in flight, a finished lote that came through the queue  *)
(* reports what its lines say, those handled before a crash included, if   *)
(* no run was cut short for good: by a database failure, a second crash.   *)
RelatorioFiel ==
  LET quantas(e) == Cardinality({l \in Linhas : linha[l] = e})
      parado == job.estado \notin {"espera", "activo"} /\ \A x \in Fios : Esta(x, "livre")
  IN  (redis /\ avarias["bd"] = 0 /\ avarias["queda"] <= 1 /\ lote \in Finais /\ parado) =>
        /\ relatorio = [processadas |-> quantas("CRIADO"), falhas |-> quantas("FALHOU")]
        /\ lote = "CONCLUIDO" <=> quantas("FALHOU") = 0
        /\ lote = "FALHOU" => quantas("CRIADO") = 0

(* A job in the queue is worked to the end of its lote, a crash of the     *)
(* worker included, or the queue gives it up.                              *)
Progresso == job.estado = "espera" ~> (lote \in Finais \/ job.estado = "falhado")
=============================================================================
