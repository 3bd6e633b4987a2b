----------------------------- MODULE Documentos -----------------------------
(***************************************************************************)
(* The documents of a tenant: a row in the database, bytes in the storage, *)
(* and their share of UsageQuota.storageBytesUsado.  Three places that no  *)
(* transaction joins: DocumentsService.create reserves, puts, inserts, and *)
(* refunds if it could not; softDelete marks the row, counts who refers to *)
(* the document, deletes the bytes of one that is proof of nothing, and    *)
(* frees the quota.  ContratoVersoesService.create attaches a document it  *)
(* has seen alive in an earlier statement.  BackupService restores rows,   *)
(* and nothing else of a document.                                         *)
(***************************************************************************)
EXTENDS Integers, FiniteSets

CONSTANTS
  Documentos,   \* document ids
  Pedidos,      \* requests the API serves at a time
  Bytes,        \* of a document: its size
  LimiteBytes,  \* of a limited plan
  MaxRepostos,  \* bound: documents restored from a backup
  MaxAvarias    \* bound: failures of a behaviour

ASSUME DocumentosAssumption == IsFiniteSet(Documentos)
ASSUME BytesAssumption == Bytes \in [Documentos -> Nat \ {0}]
ASSUME LimiteAssumption == LimiteBytes \in Nat /\ MaxRepostos \in Nat

VARIABLES
  plano,         \* "limitado", "ilimitado", "semLinha": no UsageQuota row
  storageUsado,  \* UsageQuota.storageBytesUsado
  vida,          \* of a document: "nenhuma", "viva", "apagada" (deletedAt)
  guardado,      \* its bytes are in the storage
  provas,        \* versions (party documents, receipts) that refer to it
  pedido,        \* [pc, d]: where a request stopped and its document
  libertacoes,   \* how many times a removal gave the document's bytes back
  tardias,       \* documents attached after their removal had begun
  perdidas,      \* documents whose bytes no request is left to give back
  repostos,      \* documents whose row a restore inserted
  vazios,        \* those of them whose bytes were not in the storage
  avarias        \* failures so far

vars == <<plano, storageUsado, vida, guardado, provas, pedido, libertacoes, tardias, perdidas,
          repostos, vazios, avarias>>
quota == <<plano, storageUsado, libertacoes>>

Paragens == {"livre", "put", "inserir", "estornar", "marcar", "contar", "apagar",
             "libertar", "anexar"}
Livre == [pc |-> "livre", d |-> {}]
Em(p, ponto, d) == pedido[p] = [pc |-> ponto, d |-> {d}]
Passa(p, ponto, d) == pedido' = [pedido EXCEPT ![p] = [pc |-> ponto, d |-> {d}]]
Acaba(p) == pedido' = [pedido EXCEPT ![p] = Livre]
Avaria == avarias < MaxAvarias /\ avarias' = avarias + 1

Init ==
  /\ plano \in {"limitado", "ilimitado", "semLinha"}
  /\ storageUsado = 0
  /\ vida = [d \in Documentos |-> "nenhuma"]
  /\ guardado = [d \in Documentos |-> FALSE]
  /\ provas = [d \in Documentos |-> 0]
  /\ pedido = [p \in Pedidos |-> Livre]
  /\ libertacoes = [d \in Documentos |-> 0]
  /\ tardias = {}
  /\ perdidas = {}
  /\ repostos = {} /\ vazios = {}
  /\ avarias = 0

(***************************************************************************)
(* create: the reserve has its guard in the where (usado <= limit - bytes) *)
(* and a document larger than the plan is refused; a tenant without an     *)
(* UsageQuota row counts nothing.  The id of a document is new, and it is  *)
(* in use from here on.                                                    *)
(***************************************************************************)
Novo(d) ==
  /\ vida[d] = "nenhuma" /\ ~guardado[d] /\ d \notin perdidas
  /\ \A p \in Pedidos : pedido[p].d # {d}
CabeBytes_SemSoma(n) == plano = "ilimitado" \/ (plano = "limitado" /\ storageUsado <= LimiteBytes)
CabeBytes(n) ==
  \/ plano = "ilimitado"
  \/ plano = "limitado" /\ n <= LimiteBytes /\ storageUsado <= LimiteBytes - n

Reservar(p, d) ==
  /\ pedido[p] = Livre /\ Novo(d)
  /\ \/ CabeBytes(Bytes[d]) /\ storageUsado' = storageUsado + Bytes[d]
     \/ plano = "semLinha" /\ UNCHANGED storageUsado
  /\ Passa(p, "put", d)
  /\ UNCHANGED <<plano, vida, guardado, provas, libertacoes, tardias, perdidas, avarias>>

(* criarDocumento: storage.put, then the row; either may throw, and the    *)
(* bytes of a row that could not be inserted stay in the storage.          *)
Put(p, d) ==
  /\ Em(p, "put", d)
  /\ \/ guardado' = [guardado EXCEPT ![d] = TRUE] /\ Passa(p, "inserir", d) /\ UNCHANGED avarias
     \/ Avaria /\ Passa(p, "estornar", d) /\ UNCHANGED guardado
  /\ UNCHANGED <<quota, vida, provas, tardias, perdidas>>

Inserir(p, d) ==
  /\ Em(p, "inserir", d)
  /\ \/ vida' = [vida EXCEPT ![d] = "viva"] /\ Acaba(p) /\ UNCHANGED avarias
     \/ Avaria /\ Passa(p, "estornar", d) /\ UNCHANGED vida
  /\ UNCHANGED <<quota, guardado, provas, tardias, perdidas>>

(* The refund: where usado >= bytes, and its own failure is swallowed.     *)
Tira(n) == IF plano # "semLinha" /\ storageUsado >= n THEN storageUsado - n ELSE storageUsado

Estorna_Nunca(n) == storageUsado         \* mutant: the reserve is not undone
Estorna(n) == Tira(n)

Estornar(p, d) ==
  /\ Em(p, "estornar", d)
  /\ \/ storageUsado' = Estorna(Bytes[d]) /\ UNCHANGED <<perdidas, avarias>>
     \/ Avaria /\ perdidas' = perdidas \cup {d} /\ UNCHANGED storageUsado
  /\ Acaba(p)
  /\ UNCHANGED <<plano, vida, guardado, provas, libertacoes, tardias>>

(***************************************************************************)
(* softDelete, statement by statement.                                     *)
(***************************************************************************)
LerRemover(p, d) ==
  /\ pedido[p] = Livre /\ vida[d] = "viva"
  /\ Passa(p, "marcar", d)
  /\ UNCHANGED <<quota, vida, guardado, provas, tardias, perdidas, avarias>>

Marcar(p, d) ==      \* by id: whoever else has marked it meanwhile
  /\ Em(p, "marcar", d)
  /\ vida' = [vida EXCEPT ![d] = "apagada"]
  /\ Passa(p, "contar", d)
  /\ UNCHANGED <<quota, guardado, provas, tardias, perdidas, avarias>>

referenciado_Nunca(d) == FALSE           \* mutant: proofs are not looked for
referenciado(d) == provas[d] > 0

ContarProvas(p, d) ==
  /\ Em(p, "contar", d)
  /\ IF referenciado(d) THEN Acaba(p) ELSE Passa(p, "apagar", d)
  /\ UNCHANGED <<quota, vida, guardado, provas, tardias, perdidas, avarias>>

Apagar(p, d) ==      \* deleting what is gone already is no error
  /\ Em(p, "apagar", d)
  /\ \/ guardado' = [guardado EXCEPT ![d] = FALSE] /\ Passa(p, "libertar", d) /\ UNCHANGED avarias
     \/ Avaria /\ Acaba(p) /\ UNCHANGED guardado
  /\ UNCHANGED <<quota, vida, provas, tardias, perdidas>>

Libertar(p, d) ==
  /\ Em(p, "libertar", d)
  /\ \/ /\ storageUsado' = Tira(Bytes[d])
        /\ libertacoes' = [libertacoes EXCEPT ![d] = @ + 1]
        /\ UNCHANGED <<perdidas, avarias>>
     \/ Avaria /\ perdidas' = perdidas \cup {d} /\ UNCHANGED <<storageUsado, libertacoes>>
  /\ Acaba(p)
  /\ UNCHANGED <<plano, vida, guardado, provas, tardias>>

(***************************************************************************)
(* A version of a contract with a documentId: the document is looked for   *)
(* in one statement and referred to in a later one.                        *)
(***************************************************************************)
VerDocumento(p, d) ==
  /\ pedido[p] = Livre /\ vida[d] = "viva"
  /\ provas[d] = 0        \* bound: one reference is as good as many
  /\ Passa(p, "anexar", d)
  /\ UNCHANGED <<quota, vida, guardado, provas, tardias, perdidas, avarias>>

Anexar(p, d) ==
  /\ Em(p, "anexar", d)
  /\ provas' = [provas EXCEPT ![d] = @ + 1]
  /\ tardias' = IF vida[d] = "viva" THEN tardias ELSE tardias \cup {d}
  /\ Acaba(p)
  /\ UNCHANGED <<quota, vida, guardado, perdidas, avarias>>

Queda(p) ==
  /\ pedido[p] # Livre
  /\ Avaria
  /\ perdidas' = IF pedido[p].pc \in {"put", "estornar", "libertar"}
                 THEN perdidas \cup pedido[p].d ELSE perdidas
  /\ Acaba(p)
  /\ UNCHANGED <<quota, vida, guardado, provas, tardias>>

(***************************************************************************)
(* applyRestore: in one transaction the rows of the backup that are not in *)
(* the database, deleted ones as well, with the versions that refer to     *)
(* them; no quota is taken and no bytes are written: they are there if the *)
(* storage outlived the database.                                          *)
(***************************************************************************)
Restaurar(d) ==
  /\ Novo(d)
  /\ repostos' = repostos \cup {d} /\ Cardinality(repostos') <= MaxRepostos
  /\ \E v \in {"viva", "apagada"} : vida' = [vida EXCEPT ![d] = v]
  /\ \E n \in 0..1 : provas' = [provas EXCEPT ![d] = n]
  /\ \/ guardado' = [guardado EXCEPT ![d] = TRUE] /\ UNCHANGED vazios
     \/ vazios' = vazios \cup {d} /\ UNCHANGED guardado
  /\ UNCHANGED <<quota, pedido, tardias, perdidas, avarias>>

Servir(p) ==
  \/ Queda(p)
  \/ \E d \in Documentos :
       \/ Reservar(p, d) \/ Put(p, d) \/ Inserir(p, d) \/ Estornar(p, d)
       \/ LerRemover(p, d) \/ Marcar(p, d) \/ ContarProvas(p, d) \/ Apagar(p, d)
       \/ Libertar(p, d) \/ VerDocumento(p, d) \/ Anexar(p, d)

Next ==
  \/ (\E p \in Pedidos : Servir(p)) /\ UNCHANGED <<repostos, vazios>>
  \/ \E d \in Documentos : Restaurar(d)

Spec == Init /\ [][Next]_vars

-----------------------------------------------------------------------------
(* Type correctness: the counter is never negative. *)
TypeOK ==
  /\ plano \in {"limitado", "ilimitado", "semLinha"}
  /\ storageUsado \in Nat
  /\ vida \in [Documentos -> {"nenhuma", "viva", "apagada"}]
  /\ guardado \in [Documentos -> BOOLEAN]
  /\ provas \in [Documentos -> Nat] /\ libertacoes \in [Documentos -> Nat]
  /\ pedido \in [Pedidos -> [pc : Paragens, d : SUBSET Documentos]]
  /\ tardias \subseteq Documentos /\ perdidas \subseteq Documentos
  /\ repostos \subseteq Documentos /\ vazios \subseteq Documentos
  /\ avarias \in Nat

(* A document in the lists has its bytes, and so has one that is proof of  *)
(* something, deleted or not, unless it was attached when its removal had  *)
(* begun.  One restored from a backup has them if it had them then.        *)
ProvaIntacta ==
  \A d \in Documentos \ vazios :
    /\ vida[d] = "viva" => guardado[d]
    /\ provas[d] > 0 /\ d \notin tardias => guardado[d]

(* A sum over the documents, as the number of its units. *)
Soma(f) == Cardinality(UNION {{d} \X (1..f[d]) : d \in DOMAIN f})
BytesDe(D) == Soma([d \in Documentos |-> IF d \in D THEN Bytes[d] ELSE 0])

(* How often the bytes of a document may be given back: they were taken    *)
(* once, or never if its row came from a backup.                           *)
Devidas(d) == IF d \in repostos THEN 0 ELSE 1

(* The plan is not exceeded: the counter stays within the limit and covers *)
(* the documents in the lists that took their bytes, but for bytes given   *)
(* back that were not taken, or no longer were: by simultaneous removals   *)
(* of one document, by the removal of one that was restored.               *)
aMais == Soma([d \in Documentos |->
                 IF libertacoes[d] > Devidas(d) THEN (libertacoes[d] - Devidas(d)) * Bytes[d]
                 ELSE 0])
PlanoRespeitado ==
  plano # "semLinha" =>
    /\ BytesDe({d \in Documentos \ repostos : vida[d] = "viva"}) <= storageUsado + aMais
    /\ plano = "limitado" => storageUsado <= LimiteBytes

(* No bytes are paid for and not there, but those of a document whose      *)
(* request died between the counter and the storage or whose refund        *)
(* failed: with no request under way and no bytes given back that were not *)
(* taken (the counter would be too low to take back the last ones),        *)
(* whatever else is counted is in the storage, after failures as well.     *)
SemFuga ==
  (/\ \A d \in Documentos : libertacoes[d] <= Devidas(d)
   /\ \A p \in Pedidos : pedido[p] = Livre) =>
    storageUsado <= BytesDe({d \in Documentos : guardado[d]} \cup perdidas)
=============================================================================
