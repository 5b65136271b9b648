----------------------------- MODULE FilaProofs -----------------------------
(***************************************************************************)
(* Theorems of the durable queue, for any set of jobs, any number of       *)
(* retries and any number of crashes, whatever is in flight.               *)
(***************************************************************************)
EXTENDS FilaDuravel, FiniteSetTheorems, SequenceTheorems, TLAPS

(* The order of a resumption is a sequence of the jobs that are pending.   *)
LEMMA OrdensTipo ==
    ASSUME NEW S, IsFiniteSet(S), NEW f \in Ordens(S)
    PROVE  f \in Seq(S)
<1>1. Cardinality(S) \in Nat
  BY FS_CardinalityType
<1> QED
  BY <1>1 DEF Ordens

LEMMA PendentesFinito == IsFiniteSet(Pendentes) /\ Pendentes \subseteq Job
  BY FilaAssumption, FS_Subset DEF FilaAssumption, Pendentes

-----------------------------------------------------------------------------
(* Type invariant                                                          *)

(* No step of a caller, of the thread or of the process leaves the types.  *)
LEMMA TipoMantido == TypeOK /\ [Next]_vars => TypeOK'
<1> SUFFICES ASSUME TypeOK, [Next]_vars PROVE TypeOK'
  OBVIOUS
<1> USE FilaAssumption DEF FilaAssumption, TypeOK, Ocupado, SemThread, linhas,
        memoria, thread, historia
<1>1. ASSUME NEW j \in Job, Pedir(j) PROVE TypeOK'
  BY <1>1 DEF Pedir
<1>2. ASSUME NEW j \in Job, Enqueue(j) PROVE TypeOK'
  BY <1>2 DEF Enqueue
<1>3. CASE Retirar
  BY <1>3 DEF Retirar, Encerra
<1>4. CASE Tentar
  BY <1>4 DEF Tentar
<1>5. CASE Executar
  BY <1>5 DEF Executar
<1>6. CASE Gravar
  BY <1>6 DEF Gravar
<1>7. CASE Liberar
  BY <1>7 DEF Liberar
<1>8. CASE FalhaBanco
  BY <1>8 DEF FalhaBanco, Interromper
<1>9. CASE Shutdown
  BY <1>9 DEF Shutdown
<1>10. CASE Queda
  BY <1>10 DEF Queda, Interromper
<1>11. CASE ResumePending
  <2>1. fila' \in Seq(Pendentes)
    BY <1>11, OrdensTipo, PendentesFinito DEF ResumePending, Retomaveis
  <2>2. fila' \in Seq(Job \cup {Fim})
    BY <2>1, PendentesFinito
  <2> QED
    BY <1>11, <2>2 DEF ResumePending, Retomaveis, Pendentes
<1>12. CASE UNCHANGED vars
  BY <1>12 DEF vars
<1> QED
  BY <1>1, <1>2, <1>3, <1>4, <1>5, <1>6, <1>7, <1>8, <1>9, <1>10, <1>11, <1>12
     DEF Next, Trabalho, Solicitar, Retry

-----------------------------------------------------------------------------
(* The queue and the set of queued ids                                     *)

(* Enqueuing a job that the set does not hold appends it; otherwise both   *)
(* the queue and the set stay as they are.                                 *)
LEMMA CoerenteEnqueue ==
    ASSUME TypeOK, FilaCoerente, NEW j \in Job, Enqueue(j)
    PROVE  FilaCoerente'
<1> USE DEF TypeOK, Enqueue, JaEnfileirado, thread
<1>1. CASE j \in enfileirados
  BY <1>1 DEF FilaCoerente
<1>2. CASE j \notin enfileirados
  <2>1. /\ \A i \in DOMAIN fila : fila[i] # j
        /\ passo \in Ocupado => atual # j
    BY <1>2 DEF FilaCoerente
  <2>2. /\ DOMAIN fila' = 1..(Len(fila) + 1)
        /\ DOMAIN fila = 1..Len(fila) /\ Len(fila) \in Nat
        /\ \A i \in DOMAIN fila : fila'[i] = fila[i]
        /\ fila'[Len(fila) + 1] = j
    BY <1>2
  <2>3. \A i, k \in DOMAIN fila' : fila'[i] = fila'[k] => i = k
    BY <2>1, <2>2 DEF FilaCoerente
  <2>4. passo' \in Ocupado => \A i \in DOMAIN fila' : fila'[i] # atual'
    BY <2>1, <2>2 DEF FilaCoerente
  <2>5. \A x \in Job :
          (\E i \in DOMAIN fila' : fila'[i] = x)
            <=> x = j \/ \E i \in DOMAIN fila : fila[i] = x
    <3> HIDE DEF TypeOK, Enqueue
    <3> TAKE x \in Job
    <3>1. ASSUME NEW i \in DOMAIN fila' PROVE i \in DOMAIN fila \/ fila'[i] = j
      BY <2>2
    <3>2. DOMAIN fila \subseteq DOMAIN fila' /\ Len(fila) + 1 \in DOMAIN fila'
      BY <2>2
    <3> QED
      BY <2>2, <3>1, <3>2
  <2> QED
    BY <2>3, <2>4, <2>5, <1>2 DEF FilaCoerente
<1> QED
  BY <1>1, <1>2

(* Taking the head moves it from the queue to the hand of the thread.      *)
LEMMA CoerenteRetirar ==
    ASSUME TypeOK, FilaCoerente, Retirar
    PROVE  FilaCoerente'
<1> USE FilaAssumption DEF FilaAssumption, TypeOK, Retirar, Encerra, Ocupado
<1>1. /\ DOMAIN fila = 1..Len(fila) /\ Len(fila) \in Nat \ {0}
      /\ DOMAIN fila' = 1..(Len(fila) - 1)
      /\ \A i \in DOMAIN fila' : fila'[i] = fila[i + 1]
      /\ atual' = fila[1]
  OBVIOUS
<1>2. \A i \in DOMAIN fila' : i + 1 \in DOMAIN fila /\ i + 1 # 1
  BY <1>1
<1>3. \A i, k \in DOMAIN fila' : fila'[i] = fila'[k] => i = k
  BY <1>1, <1>2 DEF FilaCoerente
<1>4. \A i \in DOMAIN fila' : fila'[i] # atual'
  <2>1. 1 \in DOMAIN fila
    BY <1>1
  <2>2. \A i, k \in DOMAIN fila : fila[i] = fila[k] => i = k
    BY DEF FilaCoerente
  <2> QED
    BY ONLY <1>1, <1>2, <2>1, <2>2
<1>5. \A j \in Job :
        (\E i \in DOMAIN fila : fila[i] = j)
          <=> (\E i \in DOMAIN fila' : fila'[i] = j) \/ atual' = j
  <2> TAKE j \in Job
  <2>1. ASSUME NEW i \in DOMAIN fila, fila[i] = j, i # 1
        PROVE  \E k \in DOMAIN fila' : fila'[k] = j
    <3>1. i - 1 \in DOMAIN fila' /\ fila'[i - 1] = j
      BY <1>1, <2>1
    <3> QED
      BY <3>1
  <2>2. 1 \in DOMAIN fila
    BY <1>1
  <2> QED
    BY ONLY <1>1, <1>2, <2>1, <2>2
<1>6. \A j \in Job : j \in enfileirados <=> \E i \in DOMAIN fila : fila[i] = j
  BY DEF FilaCoerente
<1>7. CASE Head(fila) = Fim
  <2>1. atual' = Fim /\ passo' = "encerrada" /\ \A j \in Job : j # Fim
    BY <1>7
  <2> QED
    BY <1>3, <1>4, <1>5, <1>6, <2>1 DEF FilaCoerente
<1>8. CASE Head(fila) # Fim
  <2>1. passo' = "lido"
    BY <1>8
  <2> QED
    BY <1>3, <1>4, <1>5, <1>6, <2>1 DEF FilaCoerente
<1> QED
  BY <1>7, <1>8

(* The sentinel is no job, and there is at most one of it.                 *)
LEMMA CoerenteShutdown ==
    ASSUME TypeOK, FilaCoerente, Shutdown
    PROVE  FilaCoerente'
<1> USE FilaAssumption DEF FilaAssumption, TypeOK, Shutdown, thread, Ocupado
<1>1. /\ DOMAIN fila' = 1..(Len(fila) + 1)
      /\ DOMAIN fila = 1..Len(fila) /\ Len(fila) \in Nat
      /\ \A i \in DOMAIN fila : fila'[i] = fila[i]
      /\ fila'[Len(fila) + 1] = Fim
  OBVIOUS
<1>2. \A i, k \in DOMAIN fila' : fila'[i] = fila'[k] => i = k
  BY <1>1 DEF FilaCoerente
<1>3. passo' \in Ocupado => \A i \in DOMAIN fila' : fila'[i] # atual'
  BY <1>1 DEF FilaCoerente
<1>4. \A j \in Job :
        (\E i \in DOMAIN fila' : fila'[i] = j) <=> \E i \in DOMAIN fila : fila[i] = j
  BY <1>1
<1> QED
  BY <1>2, <1>3, <1>4 DEF FilaCoerente

(* A resumption queues each pending job once, with nothing in hand.        *)
LEMMA CoerenteResume ==
    ASSUME TypeOK, ResumePending
    PROVE  FilaCoerente'
<1> USE DEF ResumePending, Retomaveis
<1>1. /\ \A i, k \in DOMAIN fila' : fila'[i] = fila'[k] => i = k
      /\ \A x \in Pendentes : \E i \in DOMAIN fila' : fila'[i] = x
      /\ \A i \in DOMAIN fila' : fila'[i] \in Pendentes
  BY DEF Ordens
<1>2. passo' \notin Ocupado
  BY DEF Ocupado
<1> QED
  BY <1>1, <1>2 DEF FilaCoerente

LEMMA CoerenteMantida == TypeOK /\ FilaCoerente /\ [Next]_vars => FilaCoerente'
<1> SUFFICES ASSUME TypeOK, FilaCoerente, [Next]_vars PROVE FilaCoerente'
  OBVIOUS
<1> USE DEF TypeOK, Ocupado, SemThread, linhas, memoria, thread, historia
<1>1. ASSUME NEW j \in Job, Pedir(j) PROVE FilaCoerente'
  BY <1>1 DEF Pedir, FilaCoerente
<1>2. CASE Tentar
  BY <1>2 DEF Tentar, FilaCoerente
<1>3. CASE Executar
  BY <1>3 DEF Executar, FilaCoerente
<1>4. CASE Gravar
  BY <1>4 DEF Gravar, FilaCoerente
<1>5. CASE Liberar
  BY <1>5 DEF Liberar, FilaCoerente
<1>6. CASE FalhaBanco
  BY <1>6 DEF FalhaBanco, FilaCoerente
<1>7. CASE Queda
  BY <1>7 DEF Queda, FilaCoerente
<1>8. CASE UNCHANGED vars
  BY <1>8 DEF vars, FilaCoerente
<1> QED
  BY <1>1, <1>2, <1>3, <1>4, <1>5, <1>6, <1>7, <1>8, CoerenteEnqueue,
     CoerenteRetirar, CoerenteShutdown, CoerenteResume
     DEF Next, Trabalho, Solicitar, Retry

-----------------------------------------------------------------------------
(* What the rows say of the outside work                                   *)

\* The success of j is on the row, or in the hand of the thread.
Contada(j) ==
    status[j] = "CONCLUIDO" \/ (passo = "gravando" /\ feito /\ atual = j)

(* The strengthening SaidaUnica needs: a job in hand is still PENDENTE, so *)
(* its success is not on the row yet, and every success of a job that      *)
(* cannot be sent again is on its row, in the hand of the thread, or among *)
(* those a crash kept from the row.                                        *)
Registro ==
    /\ passo \in {"executando", "gravando"} => status[atual] = "PENDENTE"
    /\ passo = "gravando" /\ feito => saidas[atual] > 0
    /\ \A j \in Job :
         /\ status[j] = "CONCLUIDO" => saidas[j] > 0
         /\ ~ReenviaConcluido =>
              saidas[j] <= interrompidas[j] + (IF Contada(j) THEN 1 ELSE 0)

LEMMA RegistroMantido == TypeOK /\ Registro /\ [Next]_vars => Registro'
<1> SUFFICES ASSUME TypeOK, Registro, [Next]_vars PROVE Registro'
  OBVIOUS
<1> USE DEF TypeOK, Registro, Contada, Ocupado, SemThread, linhas, memoria, thread,
        historia
<1>1. ASSUME NEW j \in Job, Solicitar(j) \/ Retry(j) PROVE Registro'
  <2>1. ~ReenviaConcluido => status[j] # "CONCLUIDO"
    BY <1>1 DEF Solicitar, Retry, PodeReenviar
  <2> QED
    BY <1>1, <2>1 DEF Solicitar, Retry, Pedir
<1>2. ASSUME NEW j \in Job, Enqueue(j) PROVE Registro'
  BY <1>2 DEF Enqueue
<1>3. CASE Retirar
  BY <1>3 DEF Retirar
<1>4. CASE Tentar
  BY <1>4 DEF Tentar
<1>5. CASE Executar
  BY <1>5 DEF Executar
<1>6. CASE Gravar
  BY <1>6 DEF Gravar
<1>7. CASE Liberar
  BY <1>7 DEF Liberar
<1>8. CASE FalhaBanco
  BY <1>8 DEF FalhaBanco, Interromper
<1>9. CASE Shutdown
  BY <1>9 DEF Shutdown
<1>10. CASE Queda
  BY <1>10 DEF Queda, Interromper
<1>11. CASE ResumePending
  BY <1>11 DEF ResumePending
<1>12. CASE UNCHANGED vars
  BY <1>12 DEF vars
<1> QED
  BY <1>1, <1>2, <1>3, <1>4, <1>5, <1>6, <1>7, <1>8, <1>9, <1>10, <1>11, <1>12
     DEF Next, Trabalho

(* A first request is never forgotten: only a row nobody inserted has      *)
(* neither caller nor place in the set, every outcome and every job past   *)
(* the first transaction of the thread was attempted, and a job that was   *)
(* not is in the set or has a caller about to enqueue it.                  *)
PedidoNovo ==
    \A j \in Job :
        /\ status[j] = "AUSENTE" => j \notin enfileirados /\ avisos[j] = 0
        /\ status[j] \in {"CONCLUIDO", "FALHOU"} => tentativas[j] > 0
        /\ passo \in {"executando", "gravando", "liberando"} /\ atual = j =>
             tentativas[j] > 0
        /\ passo \notin SemThread /\ status[j] = "PENDENTE" /\ tentativas[j] = 0 =>
             j \in enfileirados \/ avisos[j] > 0

LEMMA PedidoNovoMantido ==
    TypeOK /\ FilaCoerente /\ PedidoNovo /\ [Next]_vars => PedidoNovo'
<1> SUFFICES ASSUME TypeOK, FilaCoerente, PedidoNovo, [Next]_vars PROVE PedidoNovo'
  OBVIOUS
<1>0. passo \in Ocupado => atual \in enfileirados
  BY DEF FilaCoerente, TypeOK
<1> USE DEF TypeOK, PedidoNovo, Ocupado, SemThread, linhas, memoria, thread, historia
<1>1. ASSUME NEW j \in Job, Solicitar(j) \/ Retry(j) PROVE PedidoNovo'
  <2>1. /\ status'[j] = "PENDENTE" /\ avisos'[j] = avisos[j] + 1
        /\ \A k \in Job : k # j => status'[k] = status[k] /\ avisos'[k] = avisos[k]
        /\ UNCHANGED <<tentativas, enfileirados, passo, atual>>
    BY <1>1 DEF Solicitar, Retry, Pedir
  <2>2. avisos[j] \in Nat
    OBVIOUS
  <2> SUFFICES ASSUME NEW k \in Job
               PROVE  /\ status'[k] = "AUSENTE" => k \notin enfileirados' /\ avisos'[k] = 0
                      /\ status'[k] \in {"CONCLUIDO", "FALHOU"} => tentativas'[k] > 0
                      /\ passo' \in {"executando", "gravando", "liberando"} /\ atual' = k
                           => tentativas'[k] > 0
                      /\ passo' \notin SemThread /\ status'[k] = "PENDENTE"
                           /\ tentativas'[k] = 0
                           => k \in enfileirados' \/ avisos'[k] > 0
    BY DEF PedidoNovo
  <2>3. CASE k = j
    BY ONLY <2>1, <2>2, <2>3, PedidoNovo, k \in Job DEF PedidoNovo
  <2>4. CASE k # j
    BY ONLY <2>1, <2>4, PedidoNovo, k \in Job DEF PedidoNovo, SemThread
  <2> QED
    BY <2>3, <2>4
<1>2. ASSUME NEW j \in Job, Enqueue(j) PROVE PedidoNovo'
  BY <1>2 DEF Enqueue
<1>3. CASE Retirar
  BY <1>3 DEF Retirar
<1>4. CASE Tentar
  BY <1>0, <1>4 DEF Tentar
<1>5. CASE Executar
  BY <1>5 DEF Executar
<1>6. CASE Gravar
  BY <1>6 DEF Gravar
<1>7. CASE Liberar
  BY <1>7 DEF Liberar
<1>8. CASE FalhaBanco
  BY <1>8 DEF FalhaBanco, Interromper
<1>9. CASE Shutdown
  BY <1>9 DEF Shutdown
<1>10. CASE Queda
  BY <1>10 DEF Queda, Interromper
<1>11. CASE ResumePending
  BY <1>11 DEF ResumePending, Retomaveis, Pendentes
<1>12. CASE UNCHANGED vars
  BY <1>12 DEF vars
<1> QED
  BY <1>1, <1>2, <1>3, <1>4, <1>5, <1>6, <1>7, <1>8, <1>9, <1>10, <1>11, <1>12
     DEF Next, Trabalho

-----------------------------------------------------------------------------
(* Theorems                                                                *)

LEMMA InicioBom == Init => TypeOK /\ FilaCoerente
<1> SUFFICES ASSUME Init PROVE TypeOK /\ FilaCoerente
  OBVIOUS
<1>1. TypeOK
  <2>1. fila = <<>> /\ \A S : <<>> \in Seq(S)
    BY EmptySeq DEF Init
  <2>2. feito \in BOOLEAN
    BY DEF Init
  <2> QED
    BY <2>1, <2>2 DEF Init, TypeOK, Ocupado
<1>2. DOMAIN fila = {}
  BY DEF Init
<1> QED
  BY <1>1, <1>2 DEF Init, FilaCoerente, Ocupado

(* Rows, memory and thread always have their types.                        *)
THEOREM FilaTipo == Spec => []TypeOK
  BY InicioBom, TipoMantido, PTL DEF Spec

(* The queue and the set of queued ids always agree, and no job is in two  *)
(* places.                                                                 *)
THEOREM FilaSempreCoerente == Spec => []FilaCoerente
<1>1. Init => TypeOK /\ FilaCoerente
  BY InicioBom
<1>2. TypeOK /\ FilaCoerente /\ [Next]_vars => (TypeOK /\ FilaCoerente)'
  BY TipoMantido, CoerenteMantida
<1> QED
  BY <1>1, <1>2, PTL DEF Spec

(* A job marked done has succeeded, and a job that cannot be sent again    *)
(* succeeds once, plus once for each success that was never recorded.      *)
THEOREM FilaSaidaUnica == Spec => []SaidaUnica
<1>1. Init => TypeOK /\ Registro
  BY InicioBom DEF Init, Registro, Contada
<1>2. TypeOK /\ Registro /\ [Next]_vars => (TypeOK /\ Registro)'
  BY TipoMantido, RegistroMantido
<1>3. TypeOK /\ Registro => SaidaUnica
  BY DEF TypeOK, Registro, Contada, SaidaUnica
<1> QED
  BY <1>1, <1>2, <1>3, PTL DEF Spec

(* While the thread lives, a job that was never attempted is in the queue, *)
(* in its hand, or about to be enqueued by who committed it: the row that  *)
(* PendenteNaFila finds forgotten is always one that was attempted and     *)
(* then asked for again.                                                   *)
THEOREM FilaPedidoNovo ==
    Spec => [](passo \notin SemThread =>
                 \A j \in Pendentes : tentativas[j] = 0 =>
                   \/ avisos[j] > 0
                   \/ \E i \in DOMAIN fila : fila[i] = j
                   \/ passo \in Ocupado /\ atual = j)
<1>1. Init => TypeOK /\ FilaCoerente /\ PedidoNovo
  BY InicioBom DEF Init, PedidoNovo
<1>2. TypeOK /\ FilaCoerente /\ PedidoNovo /\ [Next]_vars
        => (TypeOK /\ FilaCoerente /\ PedidoNovo)'
  BY TipoMantido, CoerenteMantida, PedidoNovoMantido
<1>3. FilaCoerente /\ PedidoNovo =>
        (passo \notin SemThread =>
           \A j \in Pendentes : tentativas[j] = 0 =>
             \/ avisos[j] > 0
             \/ \E i \in DOMAIN fila : fila[i] = j
             \/ passo \in Ocupado /\ atual = j)
  BY DEF FilaCoerente, PedidoNovo, Pendentes
<1> QED
  BY <1>1, <1>2, <1>3, PTL DEF Spec
=============================================================================
