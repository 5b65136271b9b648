---------------------------- MODULE FilaDuravel ----------------------------
(***************************************************************************)
(* The durable job queue of TrigoPDV: rows of a table that a transaction   *)
(* leaves PENDENTE, an in-memory queue with a set of queued ids in front   *)
(* of it, and one worker thread that takes a job, reads its row, does the  *)
(* outside work and records the outcome (printing/outbox.py; the           *)
(* CashBackupWorker of services/backup.py has the same steps).             *)
(*                                                                         *)
(* Each step between two awaits of the code is an action: a caller commits *)
(* and only then enqueues, and the worker's two transactions, the outside  *)
(* work between them and the removal from the set of queued ids are four   *)
(* steps.  The process may end or crash between any two of them; a         *)
(* database error kills the thread, which has no except clause.            *)
(***************************************************************************)
EXTENDS Integers, Sequences, FiniteSets

CONSTANTS
    Job,                \* ids of the rows
    Fim,                \* the sentinel None that shutdown puts in the queue
    ReenviaConcluido,   \* whether a finished job may be sent again
    MaxTentativas,      \* bound: attempts after which nobody retries
    MaxAvisos,          \* bound: callers at once between commit and enqueue
    MaxQuedas           \* bound: ends of the process and deaths of the thread

ASSUME FilaAssumption ==
    /\ IsFiniteSet(Job) /\ Fim \notin Job
    /\ ReenviaConcluido \in BOOLEAN
    /\ MaxTentativas \in Nat /\ MaxAvisos \in Nat /\ MaxQuedas \in Nat

VARIABLES
    status,         \* the rows; AUSENTE before the insertion
    tentativas,     \* the column tentativas
    fila,           \* Queue()
    enfileirados,   \* _queued
    avisos,         \* per job, callers between their commit and enqueue
    passo,          \* where the thread is
    atual,          \* the job it holds
    feito,          \* outcome of the outside work
    quedas,         \* deaths of the thread and of the process so far
    saidas,         \* history: times the outside work of a job succeeded
    interrompidas   \* history: successes whose outcome was never recorded

linhas == <<status, tentativas>>
memoria == <<fila, enfileirados, avisos>>
thread == <<passo, atual, feito>>
historia == <<quedas, saidas, interrompidas>>
vars == <<linhas, memoria, thread, historia>>

Ocupado == {"lido", "executando", "gravando", "liberando"}
SemThread == {"morta", "encerrada", "desligado"}

Init ==
    /\ status = [j \in Job |-> "AUSENTE"]
    /\ tentativas = [j \in Job |-> 0]
    /\ fila = <<>> /\ enfileirados = {}
    /\ avisos = [j \in Job |-> 0]
    /\ passo = "esperando" /\ atual = Fim /\ feito = FALSE
    /\ quedas = 0
    /\ saidas = [j \in Job |-> 0]
    /\ interrompidas = [j \in Job |-> 0]

-----------------------------------------------------------------------------
(* Callers                                                                 *)

\* A transaction that leaves the row PENDENTE, its caller yet to enqueue.
Pedir(j) ==
    /\ passo # "desligado"
    /\ avisos[j] < MaxAvisos
    /\ status' = [status EXCEPT ![j] = "PENDENTE"]
    /\ avisos' = [avisos EXCEPT ![j] = @ + 1]
    /\ UNCHANGED <<tentativas, fila, enfileirados, thread, historia>>

\* The transaction of a sale, a second copy or a closing inserts the row.
Solicitar(j) ==
    /\ status[j] = "AUSENTE"
    /\ Pedir(j)

\* Mutant: whatever the row says, it is sent again.
ReenviaQualquer(j) == status[j] # "AUSENTE"

PodeReenviar(j) ==
    status[j] \in {"PENDENTE", "FALHOU"} \cup
                  (IF ReenviaConcluido THEN {"CONCLUIDO"} ELSE {})

\* Somebody asks again: back to PENDENTE in one transaction, enqueued after it.
Retry(j) ==
    /\ PodeReenviar(j)
    /\ tentativas[j] < MaxTentativas
    /\ Pedir(j)

\* Mutant: the set of queued ids is not consulted.
NuncaEnfileirado(j) == FALSE

JaEnfileirado(j) == j \in enfileirados

\* A job in the set of queued ids is not queued again.
Enqueue(j) ==
    /\ avisos[j] > 0
    /\ avisos' = [avisos EXCEPT ![j] = @ - 1]
    /\ enfileirados' = enfileirados \cup {j}
    /\ fila' = IF JaEnfileirado(j) THEN fila ELSE Append(fila, j)
    /\ UNCHANGED <<linhas, thread, historia>>

-----------------------------------------------------------------------------
(* The thread                                                              *)

\* Mutant: the sentinel is taken for a job.
NuncaEncerra(item) == FALSE

Encerra(item) == item = Fim

\* Queue.get; the sentinel ends the thread, jobs behind it stay PENDENTE.
Retirar ==
    /\ passo = "esperando"
    /\ fila # <<>>
    /\ fila' = Tail(fila)
    /\ atual' = Head(fila)
    /\ passo' = IF Encerra(Head(fila)) THEN "encerrada" ELSE "lido"
    /\ UNCHANGED <<linhas, enfileirados, avisos, feito, historia>>

\* First transaction of _process: only a PENDENTE row is attempted.
Tentar ==
    /\ passo = "lido"
    /\ IF status[atual] = "PENDENTE"
       THEN /\ tentativas' = [tentativas EXCEPT ![atual] = @ + 1]
            /\ passo' = "executando"
       ELSE passo' = "liberando" /\ UNCHANGED tentativas
    /\ UNCHANGED <<status, memoria, atual, feito, historia>>

\* The outside work; whatever it raises is a failure.
Executar ==
    /\ passo = "executando"
    /\ \E ok \in BOOLEAN :
         /\ feito' = ok
         /\ saidas' = [saidas EXCEPT ![atual] = IF ok THEN @ + 1 ELSE @]
    /\ passo' = "gravando"
    /\ UNCHANGED <<linhas, memoria, atual, quedas, interrompidas>>

\* Second transaction: UPDATE ... WHERE status = 'PENDENTE'.
Gravar ==
    /\ passo = "gravando"
    /\ status' = [status EXCEPT ![atual] =
                    IF @ # "PENDENTE" THEN @
                    ELSE IF feito THEN "CONCLUIDO" ELSE "FALHOU"]
    /\ passo' = "liberando"
    /\ UNCHANGED <<tentativas, memoria, atual, feito, historia>>

\* The finally clause: the id leaves the set of queued ids.
Liberar ==
    /\ passo = "liberando"
    /\ enfileirados' = enfileirados \ {atual}
    /\ passo' = "esperando"
    /\ UNCHANGED <<linhas, fila, avisos, atual, feito, historia>>

\* A success that no row will ever tell of.
Interromper ==
    interrompidas' =
        IF passo = "gravando" /\ feito
        THEN [interrompidas EXCEPT ![atual] = @ + 1] ELSE interrompidas

\* A transaction of the thread raises: finally runs, and the thread is gone.
FalhaBanco ==
    /\ passo \in {"lido", "gravando"}
    /\ quedas < MaxQuedas
    /\ quedas' = quedas + 1
    /\ Interromper
    /\ enfileirados' = enfileirados \ {atual}
    /\ passo' = "morta"
    /\ UNCHANGED <<linhas, fila, avisos, atual, feito, saidas>>

-----------------------------------------------------------------------------
(* The process                                                             *)

\* shutdown queues the sentinel and waits for the thread to take it.
Shutdown ==
    /\ passo \notin SemThread
    /\ \A i \in DOMAIN fila : fila[i] # Fim
    /\ fila' = Append(fila, Fim)
    /\ UNCHANGED <<linhas, enfileirados, avisos, thread, historia>>

\* The process ends, by its own will or not: memory and daemon thread go.
Queda ==
    /\ passo # "desligado"
    /\ quedas < MaxQuedas
    /\ quedas' = quedas + 1
    /\ Interromper
    /\ fila' = <<>> /\ enfileirados' = {}
    /\ avisos' = [j \in Job |-> 0]
    /\ passo' = "desligado"
    /\ UNCHANGED <<linhas, atual, feito, saidas>>

Pendentes == {j \in Job : status[j] = "PENDENTE"}

\* Mutant: what an earlier process left is forgotten.
NadaRetomado == {}

\* resume_pending reads every row that is still PENDENTE.
Retomaveis == Pendentes

\* The sequences that hold each element of a finite set once.
Ordens(S) ==
    {f \in [1..Cardinality(S) -> S] :
        /\ \A i, k \in DOMAIN f : f[i] = f[k] => i = k
        /\ \A x \in S : \E i \in DOMAIN f : f[i] = x}

\* The constructor starts the thread and enqueues them, once each; which one
\* goes first does not matter to the properties.
ResumePending ==
    /\ passo = "desligado"
    /\ fila' \in Ordens(Retomaveis)
    /\ enfileirados' = Retomaveis
    /\ passo' = "esperando"
    /\ UNCHANGED <<linhas, avisos, atual, feito, historia>>

-----------------------------------------------------------------------------
Trabalho == Retirar \/ Tentar \/ Executar \/ Gravar \/ Liberar

Next ==
    \/ \E j \in Job : Solicitar(j) \/ Retry(j) \/ Enqueue(j)
    \/ Trabalho
    \/ FalhaBanco
    \/ Shutdown \/ Queda \/ ResumePending

\* A running thread goes on, and a caller that committed goes on to enqueue.
\* Nothing obliges anyone to ask, to retry, to close or to restart the program.
Fairness ==
    /\ WF_vars(Trabalho)
    /\ \A j \in Job : WF_vars(Enqueue(j))

Spec == Init /\ [][Next]_vars /\ Fairness

-----------------------------------------------------------------------------
(* Properties                                                              *)

TypeOK ==
    /\ status \in [Job -> {"AUSENTE", "PENDENTE", "CONCLUIDO", "FALHOU"}]
    /\ tentativas \in [Job -> Nat]
    /\ fila \in Seq(Job \cup {Fim})
    /\ enfileirados \subseteq Job
    /\ avisos \in [Job -> Nat]
    /\ passo \in Ocupado \cup SemThread \cup {"esperando"}
    /\ atual \in Job \cup {Fim}
    /\ passo \in Ocupado => atual \in Job
    /\ feito \in BOOLEAN
    /\ quedas \in Nat
    /\ saidas \in [Job -> Nat]
    /\ interrompidas \in [Job -> Nat]

(* The set of queued ids is exactly the queue plus the job in hand, each   *)
(* job in one place only: nothing is worked on twice at once, and an id    *)
(* left behind in the set would silence every later request for that job.  *)
FilaCoerente ==
    /\ \A i, k \in DOMAIN fila : fila[i] = fila[k] => i = k
    /\ passo \in Ocupado => \A i \in DOMAIN fila : fila[i] # atual
    /\ \A j \in Job :
         j \in enfileirados <=>
           \/ \E i \in DOMAIN fila : fila[i] = j
           \/ passo \in Ocupado /\ atual = j

(* A job is marked done only if its work succeeded, and the work of a job  *)
(* that cannot be sent again once done succeeds once, plus once for each   *)
(* success whose outcome a crash or a database error kept from the row.    *)
SaidaUnica ==
    \A j \in Job :
        /\ status[j] = "CONCLUIDO" => saidas[j] > 0
        /\ ~ReenviaConcluido => saidas[j] <= 1 + interrompidas[j]

(* A job never attempted is attempted, unless the thread or the process is *)
(* gone: also the jobs an earlier process left behind.                     *)
SolicitacaoAtendida ==
    \A j \in Job :
        (status[j] = "PENDENTE" /\ tentativas[j] = 0)
          ~> (tentativas[j] > 0 \/ passo \in SemThread)

(* A PENDENTE row is waiting for the worker: while the thread lives, it is *)
(* queued, in hand, or about to be enqueued by who committed it.           *)
PendenteNaFila ==
    passo \notin SemThread =>
        \A j \in Pendentes : j \in enfileirados \/ avisos[j] > 0
=============================================================================
