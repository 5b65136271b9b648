------------------------------ MODULE Producao ------------------------------
(***************************************************************************)
(* The copies of the TrigoPDV database and the one-time preparation for    *)
(* production that erases what was recorded in training                    *)
(* (services/production.py, services/backup.py, the closing of             *)
(* services/cash.py).                                                      *)
(*                                                                         *)
(* The Tk thread runs one operation at a time, but each of those here is   *)
(* several transactions with a copy of the database between them, and      *)
(* three kinds of thread commit in between: the one that copies the        *)
(* database after each closing, step by step, the one that prints and the  *)
(* ones that look up what the reader read, in one step each.  The process  *)
(* may end anywhere.                                                       *)
(*                                                                         *)
(* The eight operational tables are the set livro of the facts committed   *)
(* to them, plus the columns the code reads back.  A drawer has the id the *)
(* table gives it, and ids start again at 1 after the preparation; the     *)
(* number of its opening never repeats.  The stock that the preparation    *)
(* zeroes is not a variable: no property here reads it.                    *)
(***************************************************************************)
EXTENDS Integers, Sequences

CONSTANTS
    Fim,            \* the sentinel None that shutdown puts in the queue
    MaxCaixas,      \* bound: openings
    MaxPedidos,     \* bound: sales, codes read, backups asked for again,
                    \* copies and maintenance asked for
    MaxArquivos,    \* bound: copies begun
    MaxQuedas       \* bound: ends of the process

ASSUME ProducaoAssumption ==
    /\ Fim \notin Nat
    /\ MaxCaixas \in Nat /\ MaxPedidos \in Nat
    /\ MaxArquivos \in Nat /\ MaxQuedas \in Nat

VARIABLES
    caixas,         \* caixas and backups_caixa, by id
    imprimindo,     \* rows PENDENTE of impressao_outbox, by sale
    livro,          \* every fact the operational tables hold
    preparado,      \* the copy named with production_prepared_at; 0 before
    arquivos,       \* the files in the backup folder
    tela,           \* the Tk thread
    fila,           \* Queue() of the worker of closings
    enfileirados,   \* its _queued
    operario,       \* its thread
    leitor,         \* codes read that wait, and the look-ups under way
    apagado,        \* history: the facts the preparation erased
    contagem        \* history and bounds: openings, sales, requests

banco == <<caixas, imprimindo, livro, preparado>>
trabalho == <<fila, enfileirados, operario, leitor>>
historia == <<apagado, contagem>>
vars == <<banco, arquivos, tela, trabalho, historia>>

Livre == [op |-> "nada", passo |-> "livre", alvo |-> 0]
Parado == [Livre EXCEPT !.op = "desligado"]
Ocioso == [passo |-> "espera", caixa |-> 0, arquivo |-> 0]
SemLeituras == [lidas |-> {}, consultas |-> {}]

Fato(o, n) == [o |-> o, n |-> n]
Lanca(o, n) == livro' = livro \cup {Fato(o, n)}

Init ==
    /\ caixas = <<>> /\ imprimindo = {} /\ livro = {} /\ preparado = 0
    /\ arquivos = <<>>
    /\ tela = Livre
    /\ fila = <<>> /\ enfileirados = {} /\ operario = Ocioso
    /\ leitor = SemLeituras
    /\ apagado = {}
    /\ contagem = [aberturas |-> 0, pedidos |-> 0, quedas |-> 0]

Abertos == {c \in DOMAIN caixas : caixas[c].status = "ABERTO"}
Pendentes == {c \in DOMAIN caixas : caixas[c].copia = "PENDENTE"}

Pede ==
    /\ contagem.pedidos < MaxPedidos
    /\ contagem' = [contagem EXCEPT !.pedidos = @ + 1]

-----------------------------------------------------------------------------
(* The till: one transaction each                                          *)

OpenCash ==
    /\ tela = Livre
    /\ Abertos = {}
    /\ contagem.aberturas < MaxCaixas
    /\ LET n == contagem.aberturas + 1 IN
         /\ contagem' = [contagem EXCEPT !.aberturas = n]
         /\ caixas' = Append(caixas, [abertura |-> n, status |-> "ABERTO",
                                      copia |-> "AUSENTE", arquivo |-> 0])
         /\ Lanca("CAIXA_ABERTO", n)
    /\ UNCHANGED <<imprimindo, preparado, arquivos, tela, trabalho, apagado>>

\* A sale, printed or not.
FinalizeSale(imprime) ==
    /\ tela = Livre
    /\ Abertos # {}
    /\ Pede
    /\ LET n == contagem.pedidos + 1 IN
         /\ Lanca("VENDA", n)
         /\ imprimindo' = imprimindo \cup (IF imprime THEN {n} ELSE {})
    /\ UNCHANGED <<caixas, preparado, arquivos, tela, trabalho, apagado>>

\* The print worker, whatever the outcome: the row leaves PENDENTE and the
\* outcome goes to the audit log in the same transaction.
Imprime(v) ==
    /\ tela # Parado
    /\ v \in imprimindo
    /\ imprimindo' = imprimindo \ {v}
    /\ Lanca("IMPRESSAO", v)
    /\ UNCHANGED <<caixas, preparado, arquivos, tela, trabalho, historia>>

\* close_cash commits the closing and its PENDENTE backup together; enqueue
\* comes after the commit.
CloseCash(c) ==
    /\ tela = Livre
    /\ c \in Abertos
    /\ caixas' = [caixas EXCEPT ![c].status = "FECHADO",
                                ![c].copia = "PENDENTE", ![c].arquivo = 0]
    /\ Lanca("CAIXA_FECHADO", caixas[c].abertura)
    /\ tela' = [op |-> "enfileirar", passo |-> "livre", alvo |-> c]
    /\ UNCHANGED <<imprimindo, preparado, arquivos, trabalho, historia>>

\* retry_cash_backup: whatever the state of the row.
RetryCashBackup(c) ==
    /\ tela = Livre
    /\ c \in DOMAIN caixas /\ caixas[c].copia # "AUSENTE"
    /\ Pede
    /\ caixas' = [caixas EXCEPT ![c].copia = "PENDENTE"]
    /\ Lanca("BACKUP_CAIXA_REENVIADO", contagem.pedidos + 1)
    /\ tela' = [op |-> "enfileirar", passo |-> "livre", alvo |-> c]
    /\ UNCHANGED <<imprimindo, preparado, arquivos, trabalho, apagado>>

Enqueue ==
    /\ tela.op = "enfileirar"
    /\ enfileirados' = enfileirados \cup {tela.alvo}
    /\ fila' = IF tela.alvo \in enfileirados THEN fila
               ELSE Append(fila, tela.alvo)
    /\ tela' = Livre
    /\ UNCHANGED <<banco, arquivos, operario, leitor, historia>>

-----------------------------------------------------------------------------
(* The reader of the counter.  What it read outlives the drawer: only the  *)
(* cart holds back a closing or the screen of the administrator, and not   *)
(* even a logout ends a look-up.                                           *)

\* A code is read only while a drawer is open.
HandleGtin ==
    /\ tela = Livre
    /\ Abertos # {}
    /\ Pede
    /\ leitor' = [leitor EXCEPT !.lidas = @ \cup {contagem.pedidos + 1}]
    /\ UNCHANGED <<banco, arquivos, tela, fila, enfileirados, operario, apagado>>

\* A look-up begins in the Tk thread, when the drawer may be closed already.
StartNextScan(n) ==
    /\ tela = Livre
    /\ n \in leitor.lidas
    /\ leitor' = [lidas |-> leitor.lidas \ {n},
                  consultas |-> leitor.consultas \cup {n}]
    /\ UNCHANGED <<banco, arquivos, tela, fila, enfileirados, operario, historia>>

\* Its thread asks outside and leaves a row in the audit log, unless the
\* product or a recent answer is in the database or nobody knows the code.
LookupExternal(n) ==
    /\ n \in leitor.consultas
    /\ leitor' = [leitor EXCEPT !.consultas = @ \ {n}]
    /\ Lanca("CONSULTA", n) \/ UNCHANGED livro
    /\ UNCHANGED <<caixas, imprimindo, preparado, arquivos, tela, fila,
                   enfileirados, operario, historia>>

-----------------------------------------------------------------------------
(* Copies.  A file appears under its final name when the copy begins; it   *)
(* is whole only after SQLite has copied one instant of the database and   *)
(* the copy passed integrity_check, and unlinked when either fails.        *)

Incompleto == [inteiro |-> FALSE, livro |-> {}]

ComecaArquivo ==
    /\ Len(arquivos) < MaxArquivos
    /\ arquivos' = Append(arquivos, Incompleto)

\* The outcomes of the copy begun as file a.
EncerraArquivo(a, ok) ==
    arquivos' = IF ok THEN [arquivos EXCEPT ![a] = [inteiro |-> TRUE,
                                                    livro |-> livro]]
                ELSE arquivos

\* Mutant: the exception of a failed copy is swallowed.
SegueMesmoAssim(ok) == TRUE

\* backup_database raises when the copy or its check fails.
Segue(ok) == ok

-----------------------------------------------------------------------------
(* The operations of the administrator                                     *)

\* Mutant: the backup of a closing in progress does not hold it back.
ProntoComBackup ==
    preparado = 0 /\ Abertos = {} /\ imprimindo = {}

\* Mutant: the print in progress does not hold it back.
ProntoComImpressao ==
    preparado = 0 /\ Abertos = {} /\ Pendentes = {}

\* Mutant: the preparation may be repeated.
ProntoDeNovo ==
    Abertos = {} /\ Pendentes = {} /\ imprimindo = {}

\* _assert_ready.
Pronto ==
    /\ preparado = 0
    /\ Abertos = {}
    /\ Pendentes = {}
    /\ imprimindo = {}

\* prepare: the first of its two checks, in a transaction of its own.
Prepare ==
    /\ tela = Livre
    /\ Pronto
    /\ tela' = [op |-> "preparo", passo |-> "copiar", alvo |-> 0]
    /\ UNCHANGED <<banco, arquivos, trabalho, historia>>

\* create_backup: the request is on record before the copy.
CreateBackup ==
    /\ tela = Livre
    /\ Pede
    /\ Lanca("BACKUP_MANUAL_SOLICITADO", contagem.pedidos + 1)
    /\ tela' = [op |-> "manual", passo |-> "copiar", alvo |-> 0]
    /\ UNCHANGED <<caixas, imprimindo, preparado, arquivos, trabalho, apagado>>

\* vacuum and reindex only check who asks.
Maintenance ==
    /\ tela = Livre
    /\ Pede
    /\ tela' = [op |-> "manutencao", passo |-> "copiar", alvo |-> 0]
    /\ UNCHANGED <<banco, arquivos, trabalho, apagado>>

TelaComecaCopia ==
    /\ tela.passo = "copiar"
    /\ ComecaArquivo
    /\ tela' = [tela EXCEPT !.passo = "copiando", !.alvo = Len(arquivos) + 1]
    /\ UNCHANGED <<banco, trabalho, historia>>

TelaTerminaCopia ==
    /\ tela.passo = "copiando"
    /\ \E ok \in BOOLEAN :
         /\ EncerraArquivo(tela.alvo, ok)
         /\ tela' = IF Segue(ok) THEN [tela EXCEPT !.passo = "gravar"]
                    ELSE Livre
    /\ UNCHANGED <<banco, trabalho, historia>>

\* The rest of prepare, one write transaction: ready still, it erases every
\* operational table and its sequence, and leaves the marker and one fact.
ConcluiPreparo ==
    /\ tela.op = "preparo" /\ tela.passo = "gravar"
    /\ tela' = Livre
    /\ IF Pronto
       THEN /\ apagado' = livro
            /\ caixas' = <<>> /\ imprimindo' = {}
            /\ preparado' = tela.alvo
            /\ livro' = {Fato("PREPARACAO_PRODUCAO_CONCLUIDA", tela.alvo)}
       ELSE UNCHANGED <<banco, apagado>>
    /\ UNCHANGED <<arquivos, trabalho, contagem>>

\* The rest of create_backup and of _maintenance names the copy on record.
ConcluiCopia(op, fato) ==
    /\ tela.op = op /\ tela.passo = "gravar"
    /\ tela' = Livre
    /\ Lanca(fato, tela.alvo)
    /\ UNCHANGED <<caixas, imprimindo, preparado, arquivos, trabalho, historia>>

ConcluiManual == ConcluiCopia("manual", "BACKUP_MANUAL_CONCLUIDO")
ConcluiManutencao == ConcluiCopia("manutencao", "MANUTENCAO")

\* The last transaction, or the maintenance command, raises: the copy stays.
TelaFalha ==
    /\ tela.passo = "gravar"
    /\ tela' = Livre
    /\ UNCHANGED <<banco, arquivos, trabalho, historia>>

-----------------------------------------------------------------------------
(* The worker of closings                                                  *)

Retirar ==
    /\ tela # Parado
    /\ operario.passo = "espera"
    /\ fila # <<>>
    /\ fila' = Tail(fila)
    /\ operario' = IF Head(fila) = Fim
                   THEN [Ocioso EXCEPT !.passo = "morto"]
                   ELSE [Ocioso EXCEPT !.passo = "lido", !.caixa = Head(fila)]
    /\ UNCHANGED <<banco, arquivos, tela, enfileirados, leitor, historia>>

Tentar ==
    /\ operario.passo = "lido"
    /\ operario' = [operario EXCEPT !.passo =
                      IF operario.caixa \in Pendentes THEN "copiar"
                      ELSE "liberar"]
    /\ UNCHANGED <<banco, arquivos, tela, fila, enfileirados, leitor, historia>>

ComecaCopia ==
    /\ operario.passo = "copiar"
    /\ ComecaArquivo
    /\ operario' = [operario EXCEPT !.passo = "copiando",
                                    !.arquivo = Len(arquivos) + 1]
    /\ UNCHANGED <<banco, tela, fila, enfileirados, leitor, historia>>

TerminaCopia ==
    /\ operario.passo = "copiando"
    /\ \E ok \in BOOLEAN :
         /\ EncerraArquivo(operario.arquivo, ok)
         /\ operario' = [operario EXCEPT !.passo =
                           IF Segue(ok) THEN "copiado" ELSE "falhou"]
    /\ UNCHANGED <<banco, tela, fila, enfileirados, leitor, historia>>

\* The row changes only if it is PENDENTE still; the audit log is written
\* all the same.
Gravar ==
    /\ operario.passo \in {"copiado", "falhou"}
    /\ LET c == operario.caixa
           ok == operario.passo = "copiado"
       IN /\ caixas' = IF c \notin Pendentes THEN caixas
                       ELSE IF ok
                       THEN [caixas EXCEPT ![c].copia = "CONCLUIDO",
                                           ![c].arquivo = operario.arquivo]
                       ELSE [caixas EXCEPT ![c].copia = "FALHOU"]
          /\ Lanca(IF ok THEN "BACKUP_CAIXA_CONCLUIDO" ELSE "BACKUP_CAIXA_FALHOU",
                   operario.arquivo)
    /\ operario' = [operario EXCEPT !.passo = "liberar"]
    /\ UNCHANGED <<imprimindo, preparado, arquivos, tela, fila, enfileirados,
                   leitor, historia>>

Liberar ==
    /\ operario.passo = "liberar"
    /\ enfileirados' = enfileirados \ {operario.caixa}
    /\ operario' = Ocioso
    /\ UNCHANGED <<banco, arquivos, tela, fila, leitor, historia>>

\* A transaction of _process raises: finally runs and the thread is gone.
FalhaBanco ==
    /\ operario.passo \in {"lido", "copiado", "falhou"}
    /\ enfileirados' = enfileirados \ {operario.caixa}
    /\ operario' = [Ocioso EXCEPT !.passo = "morto"]
    /\ UNCHANGED <<banco, arquivos, tela, fila, leitor, historia>>

-----------------------------------------------------------------------------
(* The process                                                             *)

\* shutdown waits two seconds at most for the thread to take the sentinel;
\* the process then ends as in Queda, whatever the thread is doing.
Shutdown ==
    /\ tela = Livre
    /\ fila' = Append(fila, Fim)
    /\ tela' = [Livre EXCEPT !.op = "encerrando"]
    /\ UNCHANGED <<banco, arquivos, enfileirados, operario, leitor, historia>>

\* Memory and daemon threads go; a copy being made stays behind unfinished.
Queda ==
    /\ tela # Parado
    /\ contagem.quedas < MaxQuedas
    /\ contagem' = [contagem EXCEPT !.quedas = @ + 1]
    /\ tela' = Parado
    /\ fila' = <<>> /\ enfileirados' = {} /\ operario' = Ocioso
    /\ leitor' = SemLeituras
    /\ UNCHANGED <<banco, arquivos, apagado>>

\* resume_pending: the PENDENTE rows in the order of their ids.
Inicia ==
    /\ tela = Parado
    /\ tela' = Livre
    /\ \E n \in 0..Len(caixas) : fila' \in [1..n -> Pendentes]
    /\ \A i, k \in DOMAIN fila' : i < k => fila'[i] < fila'[k]
    /\ \A c \in Pendentes : \E i \in DOMAIN fila' : fila'[i] = c
    /\ enfileirados' = Pendentes
    /\ UNCHANGED <<banco, arquivos, operario, leitor, historia>>

-----------------------------------------------------------------------------
Next ==
    \/ OpenCash
    \/ \E imprime \in BOOLEAN : FinalizeSale(imprime)
    \/ \E v \in imprimindo : Imprime(v)
    \/ \E c \in DOMAIN caixas : CloseCash(c) \/ RetryCashBackup(c)
    \/ HandleGtin
    \/ \E n \in leitor.lidas : StartNextScan(n)
    \/ \E n \in leitor.consultas : LookupExternal(n)
    \/ Enqueue
    \/ Prepare \/ CreateBackup \/ Maintenance
    \/ TelaComecaCopia \/ TelaTerminaCopia \/ TelaFalha
    \/ ConcluiPreparo \/ ConcluiManual \/ ConcluiManutencao
    \/ Retirar \/ Tentar \/ ComecaCopia \/ TerminaCopia \/ Gravar \/ Liberar
    \/ FalhaBanco
    \/ Shutdown \/ Queda \/ Inicia

Spec == Init /\ [][Next]_vars

-----------------------------------------------------------------------------
(* Properties                                                              *)

Fatos == [o : {"CAIXA_ABERTO", "VENDA", "CONSULTA", "IMPRESSAO", "CAIXA_FECHADO",
               "BACKUP_CAIXA_REENVIADO", "BACKUP_CAIXA_CONCLUIDO",
               "BACKUP_CAIXA_FALHOU", "BACKUP_MANUAL_SOLICITADO",
               "BACKUP_MANUAL_CONCLUIDO", "MANUTENCAO",
               "PREPARACAO_PRODUCAO_CONCLUIDA"}, n : Nat]
Linha == [abertura : Nat, status : {"ABERTO", "FECHADO"},
          copia : {"AUSENTE", "PENDENTE", "CONCLUIDO", "FALHOU"}, arquivo : Nat]
Copia == [inteiro : BOOLEAN, livro : SUBSET Fatos]
Tela == [op : {"nada", "desligado", "encerrando", "enfileirar", "preparo",
               "manual", "manutencao"},
         passo : {"livre", "copiar", "copiando", "gravar"}, alvo : Nat]
Operario == [passo : {"espera", "lido", "copiar", "copiando", "copiado",
                      "falhou", "liberar", "morto"},
             caixa : Nat, arquivo : Nat]
Leitor == [lidas : SUBSET Nat, consultas : SUBSET Nat]
Contagem == [aberturas : Nat, pedidos : Nat, quedas : Nat]

TipoBanco ==
    /\ caixas \in Seq(Linha) /\ imprimindo \subseteq Nat
    /\ livro \subseteq Fatos /\ apagado \subseteq Fatos
TipoArquivos == arquivos \in Seq(Copia) /\ preparado \in 0..Len(arquivos)
TipoTela ==
    /\ tela \in Tela
    /\ tela.passo \in {"copiando", "gravar"} => tela.alvo \in DOMAIN arquivos
TipoOperario ==
    /\ operario \in Operario
    /\ operario.passo \in {"copiando", "copiado", "falhou"}
         => operario.arquivo \in DOMAIN arquivos
TipoFila == fila \in Seq(Nat \cup {Fim}) /\ enfileirados \subseteq Nat

TypeOK ==
    /\ TipoBanco /\ TipoArquivos /\ TipoTela /\ TipoOperario /\ TipoFila
    /\ leitor \in Leitor /\ contagem \in Contagem

\* What was recorded of the business: all but the rows of look-ups.
Registros(fatos) == {f \in fatos : f.o # "CONSULTA"}

(* Every sale, drawer, print, closing and audit row that the preparation   *)
(* erased is in the whole copy it names: between the copy and the deletion *)
(* no thread commits any, but for the rows of look-ups still under way.    *)
RegistrosTemCopia ==
    preparado # 0 =>
        /\ arquivos[preparado].inteiro
        /\ Registros(apagado) \subseteq arquivos[preparado].livro

(* The copy a closing is recorded as having holds that very closing, also  *)
(* when the preparation gave its id to another drawer.                     *)
CopiaContemFechamento ==
    \A c \in DOMAIN caixas :
        caixas[c].copia = "CONCLUIDO" =>
            /\ caixas[c].arquivo \in DOMAIN arquivos
            /\ arquivos[caixas[c].arquivo].inteiro
            /\ Fato("CAIXA_FECHADO", caixas[c].abertura)
                 \in arquivos[caixas[c].arquivo].livro

NomeiaCopia == {"BACKUP_CAIXA_CONCLUIDO", "BACKUP_MANUAL_CONCLUIDO", "MANUTENCAO"}

(* Each copy the audit log names is whole and is of these very books: it   *)
(* holds nothing they do not.                                              *)
CopiaAuditada ==
    \A f \in livro :
        f.o \in NomeiaCopia =>
            /\ f.n \in DOMAIN arquivos
            /\ arquivos[f.n].inteiro
            /\ arquivos[f.n].livro \subseteq livro

(* What is recorded after the preparation is never erased.                 *)
VendaRealPermanece ==
    [][preparado # 0 => livro \subseteq livro' /\ preparado' = preparado]_vars

(* "Remove testes uma unica vez, sempre depois de um backup verificado"    *)
(* (production.py:33): all that is erased is in the copy.  It is not so    *)
(* for the row of a look-up that ends between the copy and the deletion.   *)
ApagadoTemCopia ==
    preparado # 0 =>
        /\ arquivos[preparado].inteiro
        /\ apagado \subseteq arquivos[preparado].livro
=============================================================================
