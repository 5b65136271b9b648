--------------------------- MODULE ProducaoProofs ---------------------------
(***************************************************************************)
(* Theorems of the copies and of the preparation for production, for any   *)
(* number of drawers, sales, copies and ends of the process, whatever      *)
(* fails.                                                                  *)
(*                                                                         *)
(* The argument has three parts.  A file is written by the one who began   *)
(* it and never again once whole.  The row the worker copies for stays     *)
(* PENDENTE until the worker itself records the outcome.  And, from the    *)
(* first check of the preparation to its end, no row is PENDENTE and no    *)
(* drawer is open: nobody can commit anything but a look-up under way.     *)
(***************************************************************************)
EXTENDS Producao, TLAPS

-----------------------------------------------------------------------------
(* What the steps are made of                                              *)

(* A counter that goes up stays one.                                       *)
LEMMA ContagemMuda ==
    ASSUME contagem \in Contagem
    PROVE  /\ [contagem EXCEPT !.aberturas = contagem.aberturas + 1] \in Contagem
           /\ [contagem EXCEPT !.pedidos = contagem.pedidos + 1] \in Contagem
           /\ [contagem EXCEPT !.quedas = contagem.quedas + 1] \in Contagem
           /\ contagem.aberturas + 1 \in Nat /\ contagem.pedidos + 1 \in Nat
  BY DEF Contagem

LEMMA LinhaMuda ==
    ASSUME NEW s \in Seq(Linha), NEW c \in DOMAIN s, NEW l \in Linha
    PROVE  /\ [s EXCEPT ![c] = l] \in Seq(Linha)
           /\ DOMAIN [s EXCEPT ![c] = l] = DOMAIN s
  OBVIOUS

(* A copy that begins gets the next number and is not whole; a copy that   *)
(* ends keeps its number and, if it succeeded, holds the books.            *)
LEMMA ArquivoComeca ==
    ASSUME TipoArquivos, ComecaArquivo
    PROVE  /\ arquivos' \in Seq(Copia) /\ Len(arquivos') = Len(arquivos) + 1
           /\ Len(arquivos) + 1 \in DOMAIN arquivos'
           /\ \A a \in DOMAIN arquivos : a \in DOMAIN arquivos'
                                      /\ arquivos'[a] = arquivos[a]
           /\ arquivos'[Len(arquivos) + 1] = Incompleto
<1>1. Incompleto \in Copia
  BY DEF Incompleto, Copia
<1> QED
  BY <1>1 DEF TipoArquivos, ComecaArquivo

LEMMA ArquivoEncerra ==
    ASSUME TipoArquivos, livro \subseteq Fatos, NEW a \in DOMAIN arquivos,
           NEW ok \in BOOLEAN, EncerraArquivo(a, ok)
    PROVE  /\ arquivos' \in Seq(Copia) /\ Len(arquivos') = Len(arquivos)
           /\ DOMAIN arquivos' = DOMAIN arquivos
           /\ \A b \in DOMAIN arquivos : b # a => arquivos'[b] = arquivos[b]
           /\ ok => arquivos'[a].inteiro /\ arquivos'[a].livro = livro
<1>1. [inteiro |-> TRUE, livro |-> livro] \in Copia
  BY DEF Copia
<1> QED
  BY <1>1 DEF TipoArquivos, EncerraArquivo

(* The values the screen and the worker take.                              *)
LEMMA TelaTipos ==
    /\ Livre \in Tela /\ Livre.passo = "livre" /\ Livre.op = "nada"
    /\ Parado \in Tela /\ Parado.passo = "livre" /\ Parado.op = "desligado"
    /\ Ocioso \in Operario /\ Ocioso.passo = "espera"
    /\ [Ocioso EXCEPT !.passo = "morto"] \in Operario
    /\ [Livre EXCEPT !.op = "encerrando"] \in Tela
    /\ Parado # Livre /\ SemLeituras \in Leitor
  BY DEF Livre, Parado, Ocioso, Tela, Operario, SemLeituras, Leitor

-----------------------------------------------------------------------------
(* Type invariant                                                          *)

(* The transactions of the till write rows and facts of their types.       *)
LEMMA TipoDoCaixa ==
    ASSUME TypeOK,
           \/ OpenCash
           \/ \E i \in BOOLEAN : FinalizeSale(i)
           \/ \E v \in imprimindo : Imprime(v)
           \/ \E c \in DOMAIN caixas : CloseCash(c) \/ RetryCashBackup(c)
    PROVE  TipoBanco' /\ tela' \in Tela /\ contagem' \in Contagem
           /\ (tela'.passo = "livre" \/ tela' = tela)
<1> USE ProducaoAssumption DEF ProducaoAssumption, TypeOK, TipoBanco, TipoTela
<1>1. CASE OpenCash
  <2>1. contagem' \in Contagem /\ contagem.aberturas + 1 \in Nat
    BY <1>1, ContagemMuda DEF OpenCash
  <2>2. [abertura |-> contagem.aberturas + 1, status |-> "ABERTO",
         copia |-> "AUSENTE", arquivo |-> 0] \in Linha
    BY <2>1 DEF Linha
  <2>3. caixas' \in Seq(Linha)
    BY <1>1, <2>2 DEF OpenCash
  <2>4. livro' \subseteq Fatos
    <3>1. Fato("CAIXA_ABERTO", contagem.aberturas + 1) \in Fatos
      BY <2>1 DEF Fato, Fatos
    <3>2. livro' = livro \cup {Fato("CAIXA_ABERTO", contagem.aberturas + 1)}
      BY <1>1 DEF OpenCash, Lanca
    <3>3. livro \subseteq Fatos
      BY DEF TipoBanco
    <3> QED
      BY <3>1, <3>2, <3>3
  <2> QED
    BY <1>1, <2>1, <2>3, <2>4 DEF OpenCash
<1>2. ASSUME NEW i \in BOOLEAN, FinalizeSale(i)
      PROVE  TipoBanco' /\ tela' = tela /\ contagem' \in Contagem
  <2>1. contagem' \in Contagem /\ contagem.pedidos + 1 \in Nat
    BY <1>2, ContagemMuda DEF FinalizeSale, Pede
  <2>2. livro' \subseteq Fatos
    <3>1. Fato("VENDA", contagem.pedidos + 1) \in Fatos
      BY <2>1 DEF Fato, Fatos
    <3>2. livro' = livro \cup {Fato("VENDA", contagem.pedidos + 1)}
      BY <1>2 DEF FinalizeSale, Lanca
    <3>3. livro \subseteq Fatos
      BY DEF TipoBanco
    <3> QED
      BY <3>1, <3>2, <3>3
  <2> QED
    BY <1>2, <2>1, <2>2 DEF FinalizeSale
<1>3. ASSUME NEW v \in imprimindo, Imprime(v)
      PROVE  TipoBanco' /\ tela' = tela /\ contagem' \in Contagem
  <2>1. livro' \subseteq Fatos
    <3>1. Fato("IMPRESSAO", v) \in Fatos
      BY DEF Fato, Fatos
    <3>2. livro' = livro \cup {Fato("IMPRESSAO", v)}
      BY <1>3 DEF Imprime, Lanca
    <3>3. livro \subseteq Fatos
      BY DEF TipoBanco
    <3> QED
      BY <3>1, <3>2, <3>3
  <2> QED
    BY <1>3, <2>1 DEF Imprime, historia
<1>4. ASSUME NEW c \in DOMAIN caixas, CloseCash(c)
      PROVE  TipoBanco' /\ tela' \in Tela /\ tela'.passo = "livre"
             /\ contagem' \in Contagem
  <2>1. caixas[c] \in Linha /\ c \in Nat
    BY <1>4
  <2>2. [caixas[c] EXCEPT !.status = "FECHADO", !.copia = "PENDENTE",
                          !.arquivo = 0] \in Linha
        /\ caixas[c].abertura \in Nat
    BY <2>1 DEF Linha
  <2>3. caixas' \in Seq(Linha)
    BY <1>4, <2>2, LinhaMuda DEF CloseCash
  <2>4. livro' \subseteq Fatos
    <3>1. Fato("CAIXA_FECHADO", caixas[c].abertura) \in Fatos
      BY <2>2 DEF Fato, Fatos
    <3>2. livro' = livro \cup {Fato("CAIXA_FECHADO", caixas[c].abertura)}
      BY <1>4 DEF CloseCash, Lanca
    <3>3. livro \subseteq Fatos
      BY DEF TipoBanco
    <3> QED
      BY <3>1, <3>2, <3>3
  <2>5. tela' \in Tela /\ tela'.passo = "livre"
    BY <1>4, <2>1 DEF CloseCash, Tela
  <2> QED
    BY <1>4, <2>3, <2>4, <2>5 DEF CloseCash, historia
<1>5. ASSUME NEW c \in DOMAIN caixas, RetryCashBackup(c)
      PROVE  TipoBanco' /\ tela' \in Tela /\ tela'.passo = "livre"
             /\ contagem' \in Contagem
  <2>1. caixas[c] \in Linha /\ c \in Nat
    BY <1>5
  <2>2. [caixas[c] EXCEPT !.copia = "PENDENTE"] \in Linha
    BY <2>1 DEF Linha
  <2>3. caixas' \in Seq(Linha)
    BY <1>5, <2>2, LinhaMuda DEF RetryCashBackup
  <2>4. contagem' \in Contagem /\ contagem.pedidos + 1 \in Nat
    BY <1>5, ContagemMuda DEF RetryCashBackup, Pede
  <2>5. livro' \subseteq Fatos
    <3>1. Fato("BACKUP_CAIXA_REENVIADO", contagem.pedidos + 1) \in Fatos
      BY <2>4 DEF Fato, Fatos
    <3>2. livro' = livro \cup {Fato("BACKUP_CAIXA_REENVIADO", contagem.pedidos + 1)}
      BY <1>5 DEF RetryCashBackup, Lanca
    <3>3. livro \subseteq Fatos
      BY DEF TipoBanco
    <3> QED
      BY <3>1, <3>2, <3>3
  <2>6. tela' \in Tela /\ tela'.passo = "livre"
    BY <1>5, <2>1 DEF RetryCashBackup, Tela
  <2> QED
    BY <1>5, <2>3, <2>4, <2>5, <2>6 DEF RetryCashBackup
<1> QED
  BY <1>1, <1>2, <1>3, <1>4, <1>5 DEF OpenCash

(* No step of the till touches the files, the queue or the worker.         *)
LEMMA CaixaNaoTocaCopias ==
    ASSUME \/ OpenCash
           \/ \E i \in BOOLEAN : FinalizeSale(i)
           \/ \E v \in imprimindo : Imprime(v)
           \/ \E c \in DOMAIN caixas : CloseCash(c) \/ RetryCashBackup(c)
    PROVE  UNCHANGED <<preparado, arquivos, fila, enfileirados, operario, leitor,
                       apagado>>
  BY DEF OpenCash, FinalizeSale, Imprime, CloseCash, RetryCashBackup, trabalho,
         historia

(* The steps of the till keep the types.                                   *)
LEMMA TipoCaixa ==
    ASSUME TypeOK,
           \/ OpenCash
           \/ \E i \in BOOLEAN : FinalizeSale(i)
           \/ \E v \in imprimindo : Imprime(v)
           \/ \E c \in DOMAIN caixas : CloseCash(c) \/ RetryCashBackup(c)
    PROVE  TypeOK'
<1>1. TipoBanco' /\ tela' \in Tela /\ contagem' \in Contagem
      /\ (tela'.passo = "livre" \/ tela' = tela)
  BY TipoDoCaixa
<1>2. UNCHANGED <<preparado, arquivos, fila, enfileirados, operario, leitor>>
  BY CaixaNaoTocaCopias
<1> QED
  BY <1>1, <1>2 DEF TypeOK, TipoArquivos, TipoTela, TipoOperario, TipoFila

(* The steps of the administrator's operations keep the types.             *)
LEMMA TipoAdministrador ==
    ASSUME TypeOK,
           \/ Prepare \/ CreateBackup \/ Maintenance \/ TelaComecaCopia
           \/ TelaTerminaCopia \/ TelaFalha \/ ConcluiPreparo
           \/ ConcluiManual \/ ConcluiManutencao
    PROVE  TypeOK'
<1> USE TelaTipos DEF TypeOK
<1>1. CASE Prepare
  <2>1. tela' \in Tela /\ tela'.passo = "copiar"
    BY <1>1 DEF Prepare, Tela
  <2> QED
    BY <1>1, <2>1 DEF Prepare, TipoBanco, TipoArquivos, TipoTela, TipoOperario,
                      TipoFila, banco, trabalho, historia
<1>2. CASE CreateBackup
  <2>1. tela' \in Tela /\ tela'.passo = "copiar"
    BY <1>2 DEF CreateBackup, Tela
  <2>2. contagem' \in Contagem /\ contagem.pedidos + 1 \in Nat
    BY <1>2, ContagemMuda DEF CreateBackup, Pede
  <2>3. livro' \subseteq Fatos
    <3>1. Fato("BACKUP_MANUAL_SOLICITADO", contagem.pedidos + 1) \in Fatos
      BY <2>2 DEF Fato, Fatos
    <3>2. livro' = livro \cup {Fato("BACKUP_MANUAL_SOLICITADO", contagem.pedidos + 1)}
      BY <1>2 DEF CreateBackup, Lanca
    <3>3. livro \subseteq Fatos
      BY DEF TipoBanco
    <3> QED
      BY <3>1, <3>2, <3>3
  <2> QED
    BY <1>2, <2>1, <2>2, <2>3 DEF CreateBackup, TipoBanco, TipoArquivos, TipoTela,
                                  TipoOperario, TipoFila, trabalho
<1>3. CASE Maintenance
  <2>1. tela' \in Tela /\ tela'.passo = "copiar"
    BY <1>3 DEF Maintenance, Tela
  <2>2. contagem' \in Contagem
    BY <1>3, ContagemMuda DEF Maintenance, Pede
  <2> QED
    BY <1>3, <2>1, <2>2 DEF Maintenance, TipoBanco, TipoArquivos, TipoTela,
                            TipoOperario, TipoFila, trabalho, banco
<1>4. CASE TelaComecaCopia
  <2>1. /\ arquivos' \in Seq(Copia) /\ Len(arquivos') = Len(arquivos) + 1
        /\ Len(arquivos) + 1 \in DOMAIN arquivos'
        /\ \A a \in DOMAIN arquivos : a \in DOMAIN arquivos'
    BY <1>4, ArquivoComeca DEF TelaComecaCopia
  <2>2. tela' \in Tela /\ tela'.alvo = Len(arquivos) + 1
    <3>1. Len(arquivos) + 1 \in Nat
      BY DEF TipoArquivos
    <3>2. [tela EXCEPT !.passo = "copiando", !.alvo = Len(arquivos) + 1] \in Tela
      BY <3>1 DEF TipoTela, Tela
    <3>3. tela \in Tela
      BY DEF TipoTela
    <3> QED
      BY <1>4, <3>2, <3>3 DEF TelaComecaCopia, Tela
  <2>3. preparado' \in 0..Len(arquivos')
    BY <1>4, <2>1 DEF TelaComecaCopia, TipoArquivos, banco
  <2> QED
    BY <1>4, <2>1, <2>2, <2>3 DEF TelaComecaCopia, TipoBanco, TipoArquivos, TipoTela,
                            TipoOperario, TipoFila, banco, trabalho, historia
<1>5. CASE TelaTerminaCopia
  <2>1. tela.alvo \in DOMAIN arquivos
    BY <1>5 DEF TelaTerminaCopia, TipoTela
  <2>2. /\ arquivos' \in Seq(Copia) /\ Len(arquivos') = Len(arquivos)
        /\ DOMAIN arquivos' = DOMAIN arquivos
    BY <1>5, <2>1, ArquivoEncerra DEF TelaTerminaCopia, TipoBanco
  <2>3. tela' \in Tela /\ (tela'.alvo = tela.alvo \/ tela' = Livre)
    BY <1>5 DEF TelaTerminaCopia, TipoTela, Tela
  <2> QED
    BY <1>5, <2>1, <2>2, <2>3 DEF TelaTerminaCopia, TipoBanco, TipoArquivos,
                  TipoTela, TipoOperario, TipoFila, banco, trabalho, historia
<1>6. CASE TelaFalha
  BY <1>6 DEF TelaFalha, TipoBanco, TipoArquivos, TipoTela, TipoOperario,
              TipoFila, banco, trabalho, historia
<1>7. CASE ConcluiPreparo
  <2>1. tela.alvo \in Nat /\ tela.alvo \in DOMAIN arquivos
    BY <1>7 DEF ConcluiPreparo, TipoTela, Tela
  <2>2. TipoBanco'
    <3>1. Fato("PREPARACAO_PRODUCAO_CONCLUIDA", tela.alvo) \in Fatos
      BY <2>1 DEF Fato, Fatos
    <3>2. CASE Pronto
      BY <1>7, <3>1, <3>2 DEF ConcluiPreparo, TipoBanco
    <3>3. CASE ~Pronto
      BY <1>7, <3>3 DEF ConcluiPreparo, TipoBanco, banco
    <3> QED
      BY <3>2, <3>3
  <2>3. preparado' \in 0..Len(arquivos') /\ arquivos' \in Seq(Copia)
    BY <1>7, <2>1 DEF ConcluiPreparo, TipoArquivos, banco
  <2> QED
    BY <1>7, <2>2, <2>3 DEF ConcluiPreparo, TipoArquivos, TipoTela, TipoOperario,
                            TipoFila, trabalho
<1>8. CASE ConcluiManual \/ ConcluiManutencao
  <2>1. tela.alvo \in Nat
    BY DEF TipoTela, Tela
  <2>2. PICK fato \in {"BACKUP_MANUAL_CONCLUIDO", "MANUTENCAO"} :
          Lanca(fato, tela.alvo)
    BY <1>8 DEF ConcluiManual, ConcluiManutencao, ConcluiCopia
  <2>3. livro' \subseteq Fatos
    <3>1. Fato(fato, tela.alvo) \in Fatos
      BY <2>1 DEF Fato, Fatos
    <3>2. livro \subseteq Fatos
      BY DEF TipoBanco
    <3> QED
      BY <2>2, <3>1, <3>2 DEF Lanca
  <2> QED
    BY <1>8, <2>3 DEF ConcluiManual, ConcluiManutencao, ConcluiCopia, TipoBanco,
        TipoArquivos, TipoTela, TipoOperario, TipoFila, trabalho, historia
<1> QED
  BY <1>1, <1>2, <1>3, <1>4, <1>5, <1>6, <1>7, <1>8

(* The steps of the reader and of its look-ups keep the types.             *)
LEMMA TipoLeitor ==
    ASSUME TypeOK,
           \/ HandleGtin
           \/ \E n \in leitor.lidas : StartNextScan(n)
           \/ \E n \in leitor.consultas : LookupExternal(n)
    PROVE  TypeOK'
<1> USE DEF TypeOK
<1>0. leitor \in Leitor /\ leitor.lidas \subseteq Nat /\ leitor.consultas \subseteq Nat
  BY DEF Leitor
<1>1. CASE HandleGtin
  <2>1. contagem' \in Contagem /\ contagem.pedidos + 1 \in Nat
    BY <1>1, ContagemMuda DEF HandleGtin, Pede
  <2>2. leitor' \in Leitor
    BY <1>0, <1>1, <2>1 DEF HandleGtin, Leitor
  <2> QED
    BY <1>1, <2>1, <2>2 DEF HandleGtin, TipoBanco, TipoArquivos, TipoTela,
                            TipoOperario, TipoFila, banco
<1>2. ASSUME NEW n \in leitor.lidas, StartNextScan(n) PROVE TypeOK'
  <2>1. leitor' \in Leitor
    BY <1>0, <1>2 DEF StartNextScan, Leitor
  <2> QED
    BY <1>2, <2>1 DEF StartNextScan, TipoBanco, TipoArquivos, TipoTela,
                      TipoOperario, TipoFila, banco, historia
<1>3. ASSUME NEW n \in leitor.consultas, LookupExternal(n) PROVE TypeOK'
  <2>1. leitor' \in Leitor
    BY <1>0, <1>3 DEF LookupExternal, Leitor
  <2>2. livro' \subseteq Fatos
    <3>1. Fato("CONSULTA", n) \in Fatos
      BY <1>0 DEF Fato, Fatos
    <3> QED
      BY <1>3, <3>1 DEF LookupExternal, Lanca, TipoBanco
  <2> QED
    BY <1>3, <2>1, <2>2 DEF LookupExternal, TipoBanco, TipoArquivos, TipoTela,
                            TipoOperario, TipoFila, historia
<1> QED
  BY <1>1, <1>2, <1>3

(* The steps of the worker of closings keep the types.                     *)
LEMMA TipoTrabalho ==
    ASSUME TypeOK,
           \/ Retirar \/ Tentar \/ ComecaCopia \/ TerminaCopia \/ Gravar
           \/ Liberar \/ FalhaBanco
    PROVE  TypeOK'
<1> USE TelaTipos, ProducaoAssumption DEF TypeOK, ProducaoAssumption
<1>0. operario \in Operario
  BY DEF TipoOperario
<1>1. CASE Retirar
  <2>1. Head(fila) \in Nat \cup {Fim} /\ Tail(fila) \in Seq(Nat \cup {Fim})
    BY <1>1 DEF Retirar, TipoFila
  <2>2. Head(fila) # Fim =>
          [Ocioso EXCEPT !.passo = "lido", !.caixa = Head(fila)] \in Operario
    BY <2>1 DEF Ocioso, Operario
  <2>3. operario' \in Operario /\ operario'.passo \in {"lido", "morto"}
    BY <1>1, <2>2 DEF Retirar, Ocioso
  <2> QED
    BY <1>1, <2>1, <2>3 DEF Retirar, TipoBanco, TipoArquivos, TipoTela,
                            TipoOperario, TipoFila, banco, historia
<1>2. CASE Tentar
  <2>1. operario' \in Operario /\ operario'.passo \in {"copiar", "liberar"}
    BY <1>0, <1>2 DEF Tentar, Operario
  <2> QED
    BY <1>2, <2>1 DEF Tentar, TipoBanco, TipoArquivos, TipoTela, TipoOperario,
                      TipoFila, banco, historia
<1>3. CASE ComecaCopia
  <2>1. /\ arquivos' \in Seq(Copia) /\ Len(arquivos') = Len(arquivos) + 1
        /\ Len(arquivos) + 1 \in DOMAIN arquivos'
        /\ \A a \in DOMAIN arquivos : a \in DOMAIN arquivos'
    BY <1>3, ArquivoComeca DEF ComecaCopia
  <2>2. operario' \in Operario /\ operario'.arquivo = Len(arquivos) + 1
    <3>1. Len(arquivos) + 1 \in Nat
      BY DEF TipoArquivos
    <3> QED
      BY <1>0, <1>3, <3>1 DEF ComecaCopia, Operario
  <2>3. preparado' \in 0..Len(arquivos')
    BY <1>3, <2>1 DEF ComecaCopia, TipoArquivos, banco
  <2> QED
    BY <1>3, <2>1, <2>2, <2>3 DEF ComecaCopia, TipoBanco, TipoArquivos, TipoTela,
                                  TipoOperario, TipoFila, banco, historia
<1>4. CASE TerminaCopia
  <2>1. operario.arquivo \in DOMAIN arquivos
    BY <1>4 DEF TerminaCopia, TipoOperario
  <2>2. /\ arquivos' \in Seq(Copia) /\ Len(arquivos') = Len(arquivos)
        /\ DOMAIN arquivos' = DOMAIN arquivos
    BY <1>4, <2>1, ArquivoEncerra DEF TerminaCopia, TipoBanco
  <2>3. operario' \in Operario /\ operario'.arquivo = operario.arquivo
    BY <1>0, <1>4 DEF TerminaCopia, Operario
  <2> QED
    BY <1>4, <2>1, <2>2, <2>3 DEF TerminaCopia, TipoBanco, TipoArquivos, TipoTela,
                                  TipoOperario, TipoFila, banco, historia
<1>5. CASE Gravar
  <2>1. operario' \in Operario /\ operario'.passo = "liberar"
    BY <1>0, <1>5 DEF Gravar, Operario
  <2>2. operario.arquivo \in Nat
    BY <1>0 DEF Operario
  <2>3. livro' \subseteq Fatos
    <3>1. Fato("BACKUP_CAIXA_CONCLUIDO", operario.arquivo) \in Fatos
          /\ Fato("BACKUP_CAIXA_FALHOU", operario.arquivo) \in Fatos
      BY <2>2 DEF Fato, Fatos
    <3> QED
      BY <1>5, <3>1 DEF Gravar, TipoBanco, Lanca
  <2>4. caixas' \in Seq(Linha)
    <3>1. CASE operario.caixa \notin Pendentes
      BY <1>5, <3>1 DEF Gravar, TipoBanco
    <3>2. CASE operario.caixa \in Pendentes
      <4> DEFINE l == caixas[operario.caixa]
      <4>1. operario.caixa \in DOMAIN caixas /\ l \in Linha
        BY <3>2 DEF Pendentes, TipoBanco
      <4>2. [l EXCEPT !.copia = "FALHOU"] \in Linha
            /\ [l EXCEPT !.copia = "CONCLUIDO", !.arquivo = operario.arquivo] \in Linha
        BY <2>2, <4>1 DEF Linha
      <4> QED
        BY <1>5, <3>2, <4>1, <4>2, LinhaMuda DEF Gravar, TipoBanco
    <3> QED
      BY <3>1, <3>2
  <2> QED
    BY <1>5, <2>1, <2>3, <2>4 DEF Gravar, TipoBanco, TipoArquivos, TipoTela,
                                  TipoOperario, TipoFila, historia
<1>6. CASE Liberar
  BY <1>6 DEF Liberar, TipoBanco, TipoArquivos, TipoTela, TipoOperario, TipoFila,
              banco, historia
<1>7. CASE FalhaBanco
  <2>1. operario'.passo = "morto"
    BY <1>7 DEF FalhaBanco, Ocioso
  <2> QED
    BY <1>7, <2>1 DEF FalhaBanco, TipoBanco, TipoArquivos, TipoTela, TipoOperario,
                      TipoFila, banco, historia
<1> QED
  BY <1>1, <1>2, <1>3, <1>4, <1>5, <1>6, <1>7

(* The steps of the process and of its queue keep the types.               *)
LEMMA TipoProcesso ==
    ASSUME TypeOK, Enqueue \/ Shutdown \/ Queda \/ Inicia
    PROVE  TypeOK'
<1> USE TelaTipos, ProducaoAssumption DEF TypeOK, ProducaoAssumption
<1>1. CASE Enqueue
  <2>1. tela.alvo \in Nat
    BY DEF TipoTela, Tela
  <2>2. TipoFila'
    BY <1>1, <2>1 DEF Enqueue, TipoFila
  <2> QED
    BY <1>1, <2>2 DEF Enqueue, TipoBanco, TipoArquivos, TipoTela, TipoOperario,
                      banco, historia
<1>2. CASE Shutdown
  <2>1. TipoFila' /\ tela' \in Tela /\ tela'.passo = "livre"
    BY <1>2 DEF Shutdown, TipoFila, Livre
  <2> QED
    BY <1>2, <2>1 DEF Shutdown, TipoBanco, TipoArquivos, TipoTela, TipoOperario,
                      banco, historia
<1>3. CASE Queda
  <2>1. contagem' \in Contagem
    BY <1>3, ContagemMuda DEF Queda
  <2> QED
    BY <1>3, <2>1 DEF Queda, TipoBanco, TipoArquivos, TipoTela, TipoOperario,
                      TipoFila, banco
<1>4. CASE Inicia
  <2>1. Pendentes \subseteq Nat
    BY DEF Pendentes, TipoBanco
  <2>2. PICK n \in 0..Len(caixas) : fila' \in [1..n -> Pendentes]
    BY <1>4 DEF Inicia
  <2>3. n \in Nat
    BY DEF TipoBanco
  <2>4. fila' \in Seq(Nat \cup {Fim})
    BY <2>1, <2>2, <2>3
  <2> QED
    BY <1>4, <2>1, <2>4 DEF Inicia, TipoBanco, TipoArquivos, TipoTela,
                            TipoOperario, TipoFila, banco, historia
<1> QED
  BY <1>1, <1>2, <1>3, <1>4

(* No step of the screen, of a worker or of the process leaves the types.  *)
LEMMA TipoMantido == TypeOK /\ [Next]_vars => TypeOK'
<1> SUFFICES ASSUME TypeOK, [Next]_vars PROVE TypeOK'
  OBVIOUS
<1>1. CASE UNCHANGED vars
  BY <1>1 DEF vars, banco, trabalho, historia, TypeOK, TipoBanco, TipoArquivos,
              TipoTela, TipoOperario, TipoFila
<1> QED
  BY <1>1, TipoCaixa, TipoLeitor, TipoAdministrador, TipoTrabalho, TipoProcesso
     DEF Next

(* Every variable keeps its type, whatever is interrupted.                 *)
THEOREM ProducaoTipo == Spec => []TypeOK
<1>1. Init => TypeOK
  <2> SUFFICES ASSUME Init PROVE TypeOK
    OBVIOUS
  <2>1. contagem \in Contagem
    BY DEF Init, Contagem
  <2> QED
    BY <2>1, TelaTipos DEF Init, TypeOK, TipoBanco, TipoArquivos, TipoTela,
                           TipoOperario, TipoFila
<1> QED
  BY <1>1, TipoMantido, PTL DEF Spec

-----------------------------------------------------------------------------
(* The inductive invariant                                                 *)

Boa(a) ==
    a \in DOMAIN arquivos /\ arquivos[a].inteiro /\ arquivos[a].livro \subseteq livro

\* A drawer with a backup was closed, and the books say so.
Fechamentos ==
    \A c \in DOMAIN caixas :
        caixas[c].copia # "AUSENTE" =>
            Fato("CAIXA_FECHADO", caixas[c].abertura) \in livro

\* The row is PENDENTE for as long as the worker copies for it.
Maos ==
    operario.passo \in {"copiar", "copiando", "copiado", "falhou"} =>
        operario.caixa \in Pendentes

Copiado ==
    operario.passo = "copiado" =>
        /\ Boa(operario.arquivo)
        /\ Fato("CAIXA_FECHADO", caixas[operario.caixa].abertura)
             \in arquivos[operario.arquivo].livro

\* Who copies writes a file of its own that is not whole yet.
EmCurso ==
    /\ operario.passo = "copiando" => ~arquivos[operario.arquivo].inteiro
    /\ tela.passo = "copiando" => ~arquivos[tela.alvo].inteiro
    /\ operario.passo = "copiando" /\ tela.passo = "copiando" =>
         operario.arquivo # tela.alvo

TelaCopiada == tela.passo = "gravar" => Boa(tela.alvo)

\* From its first check to its last, everything but the look-ups is still for
\* the preparation.
Preparando ==
    tela.op = "preparo" =>
        /\ Pronto
        /\ tela.passo = "gravar" =>
             Registros(livro) \subseteq arquivos[tela.alvo].livro

IInv ==
    /\ TypeOK
    /\ Fechamentos /\ Maos /\ Copiado /\ EmCurso /\ TelaCopiada /\ Preparando
    /\ RegistrosTemCopia /\ CopiaContemFechamento /\ CopiaAuditada

LEMMA InvInicial == Init => IInv
<1> SUFFICES ASSUME Init PROVE IInv
  OBVIOUS
<1>1. contagem \in Contagem
  BY DEF Init, Contagem
<1>2. TypeOK
  BY <1>1, TelaTipos DEF Init, TypeOK, TipoBanco, TipoArquivos, TipoTela,
                         TipoOperario, TipoFila
<1> QED
  BY <1>2, TelaTipos DEF Init, IInv, Fechamentos, Maos, Copiado, EmCurso,
     TelaCopiada, Preparando, RegistrosTemCopia, CopiaContemFechamento, CopiaAuditada

-----------------------------------------------------------------------------
(* Steps by their effect                                                   *)

TocaArquivos == TelaComecaCopia \/ TelaTerminaCopia \/ ComecaCopia \/ TerminaCopia

(* Only the four steps of a copy write a file.                             *)
LEMMA OutrosArquivos ==
    ASSUME [Next]_vars, ~TocaArquivos
    PROVE  arquivos' = arquivos
  BY DEF Next, vars, TocaArquivos, OpenCash, FinalizeSale, Imprime, CloseCash,
     RetryCashBackup, HandleGtin, StartNextScan, LookupExternal, Enqueue, Prepare, CreateBackup, Maintenance, TelaFalha,
     ConcluiPreparo, ConcluiManual, ConcluiManutencao, ConcluiCopia, Retirar,
     Tentar, Gravar, Liberar, FalhaBanco, Shutdown, Queda, Inicia

(* A file that is whole is never written again.                            *)
LEMMA InteiroFica ==
    ASSUME IInv, [Next]_vars, NEW a \in DOMAIN arquivos
    PROVE  /\ a \in DOMAIN arquivos'
           /\ arquivos[a].inteiro => arquivos'[a] = arquivos[a]
<1>0. TipoArquivos /\ livro \subseteq Fatos
  BY DEF IInv, TypeOK, TipoBanco
<1>1. CASE ~TocaArquivos
  BY <1>1, OutrosArquivos
<1>2. CASE TelaComecaCopia \/ ComecaCopia
  BY <1>0, <1>2, ArquivoComeca DEF TelaComecaCopia, ComecaCopia
<1>3. CASE TelaTerminaCopia
  <2>1. tela.alvo \in DOMAIN arquivos /\ ~arquivos[tela.alvo].inteiro
    BY <1>3 DEF TelaTerminaCopia, IInv, TypeOK, TipoTela, EmCurso
  <2>2. PICK ok \in BOOLEAN : EncerraArquivo(tela.alvo, ok)
    BY <1>3 DEF TelaTerminaCopia
  <2> QED
    BY <1>0, <2>1, <2>2, ArquivoEncerra
<1>4. CASE TerminaCopia
  <2>1. operario.arquivo \in DOMAIN arquivos /\ ~arquivos[operario.arquivo].inteiro
    BY <1>4 DEF TerminaCopia, IInv, TypeOK, TipoOperario, EmCurso
  <2>2. PICK ok \in BOOLEAN : EncerraArquivo(operario.arquivo, ok)
    BY <1>4 DEF TerminaCopia
  <2> QED
    BY <1>0, <2>1, <2>2, ArquivoEncerra
<1> QED
  BY <1>1, <1>2, <1>3, <1>4 DEF TocaArquivos

(* The books only grow, except in the last step of the preparation.        *)
LEMMA LivroCresce ==
    ASSUME [Next]_vars, ~(ConcluiPreparo /\ Pronto)
    PROVE  livro \subseteq livro' /\ preparado' = preparado /\ apagado' = apagado
<1>1. CASE ConcluiPreparo
  BY <1>1 DEF ConcluiPreparo, banco
<1>2. CASE UNCHANGED vars
  BY <1>2 DEF vars, banco, historia
<1>3. CASE \/ OpenCash
           \/ \E i \in BOOLEAN : FinalizeSale(i)
           \/ \E v \in imprimindo : Imprime(v)
           \/ \E c \in DOMAIN caixas : CloseCash(c) \/ RetryCashBackup(c)
  BY <1>3 DEF OpenCash, FinalizeSale, Imprime, CloseCash, RetryCashBackup, Lanca,
              historia
<1>4. CASE CreateBackup \/ ConcluiManual \/ ConcluiManutencao \/ Gravar
  BY <1>4 DEF CreateBackup, ConcluiManual, ConcluiManutencao, ConcluiCopia, Gravar,
              Lanca, historia
<1>5. CASE Enqueue \/ Prepare \/ Maintenance \/ TelaComecaCopia \/ TelaTerminaCopia
           \/ TelaFalha \/ Retirar \/ Tentar \/ ComecaCopia \/ TerminaCopia
           \/ Liberar \/ FalhaBanco \/ Shutdown \/ Queda \/ Inicia
  BY <1>5 DEF Enqueue, Prepare, Maintenance, TelaComecaCopia, TelaTerminaCopia,
              TelaFalha, Retirar, Tentar, ComecaCopia, TerminaCopia, Liberar,
              FalhaBanco, Shutdown, Queda, Inicia, banco, historia
<1>6. CASE \/ HandleGtin
           \/ \E n \in leitor.lidas : StartNextScan(n)
           \/ \E n \in leitor.consultas : LookupExternal(n)
  BY <1>6 DEF HandleGtin, StartNextScan, LookupExternal, Lanca, banco, historia
<1> QED
  BY <1>1, <1>2, <1>3, <1>4, <1>5, <1>6 DEF Next

(* A good copy stays good while the books grow.                            *)
LEMMA BoaFica ==
    ASSUME IInv, [Next]_vars, ~(ConcluiPreparo /\ Pronto), NEW a, Boa(a)
    PROVE  /\ a \in DOMAIN arquivos' /\ arquivos'[a] = arquivos[a]
           /\ arquivos'[a].inteiro /\ arquivos'[a].livro \subseteq livro'
  BY InteiroFica, LivroCresce DEF Boa

(* The copy of a preparation whose last step is due.                       *)
LEMMA PreparoFinal ==
    ASSUME IInv, ConcluiPreparo, Pronto
    PROVE  /\ arquivos' = arquivos /\ operario' = operario /\ tela' = Livre
           /\ caixas' = <<>> /\ imprimindo' = {} /\ preparado' = tela.alvo
           /\ apagado' = livro
           /\ livro' = {Fato("PREPARACAO_PRODUCAO_CONCLUIDA", tela.alvo)}
           /\ Boa(tela.alvo) /\ Registros(livro) \subseteq arquivos[tela.alvo].livro
           /\ operario.passo \notin {"copiar", "copiando", "copiado", "falhou"}
<1>1. Boa(tela.alvo) /\ Registros(livro) \subseteq arquivos[tela.alvo].livro
  BY DEF ConcluiPreparo, IInv, TelaCopiada, Preparando
<1>2. operario.passo \notin {"copiar", "copiando", "copiado", "falhou"}
  BY DEF IInv, Maos, Pronto
<1> QED
  BY <1>1, <1>2 DEF ConcluiPreparo, trabalho

(* What a step other than the last of the preparation leaves of a drawer.  *)
LEMMA LinhasFicam ==
    ASSUME IInv, [Next]_vars, ~(ConcluiPreparo /\ Pronto), NEW c \in DOMAIN caixas
    PROVE  /\ c \in DOMAIN caixas'
           /\ caixas'[c].abertura = caixas[c].abertura
           /\ ~Gravar /\ c \in Pendentes => c \in Pendentes'
<1>0. caixas \in Seq(Linha) /\ caixas[c] \in Linha
  BY DEF IInv, TypeOK, TipoBanco
<1>1. CASE OpenCash
  BY <1>0, <1>1 DEF OpenCash, Pendentes
<1>2. ASSUME NEW d \in DOMAIN caixas, CloseCash(d) \/ RetryCashBackup(d)
      PROVE  /\ c \in DOMAIN caixas' /\ caixas'[c].abertura = caixas[c].abertura
             /\ c \in Pendentes => c \in Pendentes'
  BY <1>0, <1>2 DEF CloseCash, RetryCashBackup, Pendentes, Linha
<1>3. CASE Gravar
  BY <1>0, <1>3 DEF Gravar, Linha
<1>4. CASE caixas' = caixas
  BY <1>4 DEF Pendentes
<1> QED
  BY <1>1, <1>2, <1>3, <1>4 DEF Next, vars, banco, FinalizeSale, Imprime,
     HandleGtin, StartNextScan, LookupExternal, Enqueue, Prepare, CreateBackup, Maintenance, TelaComecaCopia, TelaTerminaCopia,
     TelaFalha, ConcluiPreparo, ConcluiManual, ConcluiManutencao, ConcluiCopia,
     Retirar, Tentar, ComecaCopia, TerminaCopia, Liberar, FalhaBanco, Shutdown,
     Queda, Inicia

(* Where a drawer got its row from.                                        *)
LEMMA LinhasNovas ==
    ASSUME IInv, [Next]_vars, ~(ConcluiPreparo /\ Pronto), NEW c \in DOMAIN caixas'
    PROVE  \/ c \in DOMAIN caixas /\ caixas'[c] = caixas[c]
           \/ caixas'[c].copia = "AUSENTE"
           \/ /\ caixas'[c].copia = "PENDENTE"
              /\ Fato("CAIXA_FECHADO", caixas'[c].abertura) \in livro'
           \/ /\ Gravar /\ c = operario.caixa /\ c \in Pendentes
              /\ caixas'[c].abertura = caixas[c].abertura
              /\ \/ caixas'[c].copia = "FALHOU"
                 \/ operario.passo = "copiado" /\ caixas'[c].arquivo = operario.arquivo
<1>0. caixas \in Seq(Linha) /\ livro \subseteq livro'
  BY LivroCresce DEF IInv, TypeOK, TipoBanco
<1>1. CASE OpenCash
  BY <1>0, <1>1 DEF OpenCash
<1>2. ASSUME NEW d \in DOMAIN caixas, CloseCash(d)
      PROVE  \/ c \in DOMAIN caixas /\ caixas'[c] = caixas[c]
             \/ /\ caixas'[c].copia = "PENDENTE"
                /\ Fato("CAIXA_FECHADO", caixas'[c].abertura) \in livro'
  BY <1>0, <1>2 DEF CloseCash, Lanca, Linha
<1>3. ASSUME NEW d \in DOMAIN caixas, RetryCashBackup(d)
      PROVE  \/ c \in DOMAIN caixas /\ caixas'[c] = caixas[c]
             \/ /\ caixas'[c].copia = "PENDENTE"
                /\ Fato("CAIXA_FECHADO", caixas'[c].abertura) \in livro'
  <2>1. Fato("CAIXA_FECHADO", caixas[d].abertura) \in livro'
    BY <1>0, <1>3 DEF RetryCashBackup, IInv, Fechamentos
  <2> QED
    BY <1>0, <1>3, <2>1 DEF RetryCashBackup, Linha
<1>4. CASE Gravar
  <2>1. CASE operario.caixa \notin Pendentes
    BY <1>4, <2>1 DEF Gravar
  <2>2. CASE operario.caixa \in Pendentes
    BY <1>0, <1>4, <2>2 DEF Gravar, Linha, Pendentes
  <2> QED
    BY <2>1, <2>2
<1>5. CASE caixas' = caixas
  BY <1>5
<1> QED
  BY <1>1, <1>2, <1>3, <1>4, <1>5 DEF Next, vars, banco, FinalizeSale, Imprime,
     HandleGtin, StartNextScan, LookupExternal, Enqueue, Prepare, CreateBackup, Maintenance, TelaComecaCopia,
     TelaTerminaCopia, TelaFalha, ConcluiPreparo, ConcluiManual,
     ConcluiManutencao, ConcluiCopia, Retirar, Tentar, ComecaCopia, TerminaCopia,
     Liberar, FalhaBanco, Shutdown, Queda, Inicia

-----------------------------------------------------------------------------
(* The conjuncts that speak of the drawers and of the books                *)

LEMMA LivrosMantidos ==
    ASSUME IInv, [Next]_vars, ~(ConcluiPreparo /\ Pronto)
    PROVE  Fechamentos' /\ CopiaContemFechamento' /\ RegistrosTemCopia'
<1>0. livro \subseteq livro' /\ preparado' = preparado /\ apagado' = apagado
  BY LivroCresce
<1>1. Fechamentos'
  <2> SUFFICES ASSUME NEW c \in DOMAIN caixas', caixas'[c].copia # "AUSENTE"
               PROVE  Fato("CAIXA_FECHADO", caixas'[c].abertura) \in livro'
    BY DEF Fechamentos, Fato
  <2>1. CASE c \in DOMAIN caixas /\ caixas'[c] = caixas[c]
    BY <1>0, <2>1 DEF IInv, Fechamentos
  <2>2. CASE c \in Pendentes /\ caixas'[c].abertura = caixas[c].abertura
    BY <1>0, <2>2 DEF IInv, Fechamentos, Pendentes
  <2> QED
    BY <2>1, <2>2, LinhasNovas
<1>2. CopiaContemFechamento'
  <2> SUFFICES ASSUME NEW c \in DOMAIN caixas', caixas'[c].copia = "CONCLUIDO"
               PROVE  /\ caixas'[c].arquivo \in DOMAIN arquivos'
                      /\ arquivos'[caixas'[c].arquivo].inteiro
                      /\ Fato("CAIXA_FECHADO", caixas'[c].abertura)
                           \in arquivos'[caixas'[c].arquivo].livro
    BY DEF CopiaContemFechamento, Fato
  <2>1. CASE c \in DOMAIN caixas /\ caixas'[c] = caixas[c]
    BY <2>1, InteiroFica DEF IInv, CopiaContemFechamento
  <2>2. CASE /\ c = operario.caixa /\ caixas'[c].abertura = caixas[c].abertura
             /\ operario.passo = "copiado" /\ caixas'[c].arquivo = operario.arquivo
    BY <2>2, InteiroFica DEF IInv, Copiado, Boa
  <2> QED
    BY <2>1, <2>2, LinhasNovas
<1>3. RegistrosTemCopia'
  <2> SUFFICES ASSUME preparado # 0
               PROVE  arquivos'[preparado].inteiro
                      /\ Registros(apagado) \subseteq arquivos'[preparado].livro
    BY <1>0 DEF RegistrosTemCopia, Registros
  <2>1. preparado \in DOMAIN arquivos
    BY DEF IInv, TypeOK, TipoArquivos
  <2> QED
    BY <2>1, InteiroFica DEF IInv, RegistrosTemCopia
<1> QED
  BY <1>1, <1>2, <1>3

LEMMA AuditoriaMantida ==
    ASSUME IInv, [Next]_vars, ~(ConcluiPreparo /\ Pronto)
    PROVE  CopiaAuditada'
<1> SUFFICES ASSUME NEW f \in livro', f.o \in NomeiaCopia
             PROVE  /\ f.n \in DOMAIN arquivos' /\ arquivos'[f.n].inteiro
                    /\ arquivos'[f.n].livro \subseteq livro'
  BY DEF CopiaAuditada, NomeiaCopia
<1>1. \/ f \in livro \/ Boa(f.n)
  <2>1. CASE ConcluiManual \/ ConcluiManutencao
    BY <2>1 DEF ConcluiManual, ConcluiManutencao, ConcluiCopia, Lanca, Fato, IInv,
                TelaCopiada
  <2>2. CASE Gravar
    BY <2>2 DEF Gravar, Lanca, Fato, IInv, Copiado, NomeiaCopia
  <2>3. CASE OpenCash \/ (\E i \in BOOLEAN : FinalizeSale(i))
             \/ (\E v \in imprimindo : Imprime(v))
             \/ (\E c \in DOMAIN caixas : CloseCash(c) \/ RetryCashBackup(c))
             \/ CreateBackup \/ (\E n \in leitor.consultas :
                                   LookupExternal(n) /\ livro' # livro)
    <3>1. PICK o \in {"CAIXA_ABERTO", "VENDA", "CONSULTA", "IMPRESSAO", "CAIXA_FECHADO",
                      "BACKUP_CAIXA_REENVIADO", "BACKUP_MANUAL_SOLICITADO"} :
            \E n : livro' = livro \cup {Fato(o, n)}
      BY <2>3 DEF OpenCash, FinalizeSale, Imprime, CloseCash, RetryCashBackup,
                  CreateBackup, LookupExternal, Lanca
    <3> QED
      BY <3>1 DEF Fato, NomeiaCopia
  <2>4. CASE livro' = livro
    BY <2>4
  <2> QED
    BY <2>1, <2>2, <2>3, <2>4 DEF Next, vars, banco, HandleGtin, StartNextScan,
       LookupExternal, Enqueue, Prepare, Maintenance,
       TelaComecaCopia, TelaTerminaCopia, TelaFalha, ConcluiPreparo, Retirar,
       Tentar, ComecaCopia, TerminaCopia, Liberar, FalhaBanco, Shutdown, Queda,
       Inicia
<1>2. Boa(f.n)
  BY <1>1 DEF IInv, CopiaAuditada, Boa
<1> QED
  BY <1>2, BoaFica

-----------------------------------------------------------------------------
(* The conjuncts that speak of the copies in progress                      *)

(* The row of the worker stays PENDENTE, and a copy it made is good.       *)
LEMMA OperarioMantido ==
    ASSUME IInv, [Next]_vars, ~(ConcluiPreparo /\ Pronto)
    PROVE  Maos' /\ Copiado'
<1>0. /\ TipoArquivos /\ livro \subseteq Fatos /\ livro \subseteq livro'
      /\ operario \in Operario
  BY LivroCresce DEF IInv, TypeOK, TipoBanco, TipoOperario
<1>1. CASE Retirar \/ Liberar \/ FalhaBanco \/ Queda \/ Gravar
  <2>1. operario'.passo \notin {"copiar", "copiando", "copiado", "falhou"}
    BY <1>0, <1>1, TelaTipos DEF Retirar, Liberar, FalhaBanco, Queda, Gravar,
                                 Ocioso, Operario
  <2> QED
    BY <2>1 DEF Maos, Copiado
<1>2. CASE Tentar
  <2>1. operario'.caixa = operario.caixa /\ operario'.passo # "copiado"
        /\ operario'.passo # "copiando" /\ operario'.passo # "falhou"
        /\ (operario'.passo = "copiar" => operario.caixa \in Pendentes)
    BY <1>0, <1>2 DEF Tentar, Operario
  <2>2. Pendentes' = Pendentes
    BY <1>2 DEF Tentar, banco, Pendentes
  <2> QED
    BY <2>1, <2>2 DEF Maos, Copiado
<1>3. CASE ComecaCopia
  <2>1. operario'.caixa = operario.caixa /\ operario'.passo = "copiando"
        /\ operario.caixa \in Pendentes
    BY <1>0, <1>3 DEF ComecaCopia, Operario, IInv, Maos
  <2>2. Pendentes' = Pendentes
    BY <1>3 DEF ComecaCopia, banco, Pendentes
  <2> QED
    BY <2>1, <2>2 DEF Maos, Copiado
<1>4. CASE TerminaCopia
  <2>1. PICK ok \in BOOLEAN :
          /\ EncerraArquivo(operario.arquivo, ok)
          /\ operario' = [operario EXCEPT !.passo =
                            IF Segue(ok) THEN "copiado" ELSE "falhou"]
    BY <1>4 DEF TerminaCopia
  <2>2. /\ operario'.caixa = operario.caixa /\ operario'.arquivo = operario.arquivo
        /\ operario'.passo = "copiado" => ok
        /\ operario.caixa \in Pendentes
    BY <1>0, <1>4, <2>1 DEF TerminaCopia, Operario, IInv, Maos, Segue
  <2>3. livro' = livro /\ caixas' = caixas /\ Pendentes' = Pendentes
    BY <1>4 DEF TerminaCopia, banco, Pendentes
  <2>4. /\ operario.arquivo \in DOMAIN arquivos /\ DOMAIN arquivos' = DOMAIN arquivos
        /\ ok => /\ arquivos'[operario.arquivo].inteiro
                 /\ arquivos'[operario.arquivo].livro = livro
    BY <1>0, <1>4, <2>1, ArquivoEncerra DEF TerminaCopia, IInv, TypeOK, TipoOperario
  <2>5. Fato("CAIXA_FECHADO", caixas[operario.caixa].abertura) \in livro
    BY <2>2 DEF IInv, Fechamentos, Pendentes
  <2> QED
    BY <2>2, <2>3, <2>4, <2>5 DEF Maos, Copiado, Boa
<1>5. CASE operario' = operario /\ ~Gravar
  <2>1. Maos'
    <3> SUFFICES ASSUME operario.passo \in {"copiar", "copiando", "copiado", "falhou"}
                 PROVE  operario.caixa \in Pendentes'
      BY <1>5 DEF Maos
    <3>1. operario.caixa \in Pendentes /\ operario.caixa \in DOMAIN caixas
      BY DEF IInv, Maos, Pendentes
    <3> QED
      BY <1>5, <3>1, LinhasFicam
  <2>2. Copiado'
    <3> SUFFICES ASSUME operario.passo = "copiado"
                 PROVE  /\ Boa(operario.arquivo)'
                        /\ (Fato("CAIXA_FECHADO", caixas[operario.caixa].abertura)
                              \in arquivos[operario.arquivo].livro)'
      BY <1>5 DEF Copiado
    <3>1. /\ Boa(operario.arquivo)
          /\ Fato("CAIXA_FECHADO", caixas[operario.caixa].abertura)
               \in arquivos[operario.arquivo].livro
          /\ operario.caixa \in DOMAIN caixas
      BY DEF IInv, Maos, Copiado, Pendentes
    <3>2. caixas'[operario.caixa].abertura = caixas[operario.caixa].abertura
      BY <3>1, LinhasFicam
    <3>3. /\ operario.arquivo \in DOMAIN arquivos'
          /\ arquivos'[operario.arquivo] = arquivos[operario.arquivo]
          /\ arquivos'[operario.arquivo].inteiro
          /\ arquivos'[operario.arquivo].livro \subseteq livro'
      BY <3>1, BoaFica
    <3> QED
      BY <1>5, <3>1, <3>2, <3>3 DEF Boa, Fato
  <2> QED
    BY <2>1, <2>2
<1> QED
  BY <1>1, <1>2, <1>3, <1>4, <1>5 DEF Next, vars, trabalho, OpenCash, FinalizeSale,
     Imprime, CloseCash, RetryCashBackup, HandleGtin, StartNextScan,
     LookupExternal, Enqueue, Prepare, CreateBackup,
     Maintenance, TelaComecaCopia, TelaTerminaCopia, TelaFalha, ConcluiPreparo,
     ConcluiManual, ConcluiManutencao, ConcluiCopia, Shutdown, Inicia

(* What a step makes of the screen.                                        *)
LEMMA TelaSegue ==
    ASSUME IInv, [Next]_vars
    PROVE  \/ tela' = tela
           \/ tela'.passo = "livre" /\ tela'.op # "preparo"
           \/ tela'.passo = "copiar" /\ (tela'.op # "preparo" \/ Prepare)
           \/ TelaComecaCopia /\ tela'.passo = "copiando" /\ tela'.op = tela.op
           \/ /\ TelaTerminaCopia /\ tela'.passo = "gravar"
              /\ tela'.op = tela.op /\ tela'.alvo = tela.alvo
<1>0. tela \in Tela
  BY DEF IInv, TypeOK, TipoTela
<1>1. CASE \E c \in DOMAIN caixas : CloseCash(c) \/ RetryCashBackup(c)
  BY <1>1 DEF CloseCash, RetryCashBackup
<1>2. CASE Enqueue \/ TelaFalha \/ ConcluiPreparo \/ ConcluiManual
           \/ ConcluiManutencao \/ Shutdown \/ Queda \/ Inicia
  BY <1>2, TelaTipos DEF Enqueue, TelaFalha, ConcluiPreparo, ConcluiManual,
     ConcluiManutencao, ConcluiCopia, Shutdown, Queda, Inicia, Livre
<1>3. CASE Prepare \/ CreateBackup \/ Maintenance
  BY <1>3 DEF Prepare, CreateBackup, Maintenance
<1>4. CASE TelaComecaCopia
  BY <1>0, <1>4 DEF TelaComecaCopia, Tela
<1>5. CASE TelaTerminaCopia
  BY <1>0, <1>5, TelaTipos DEF TelaTerminaCopia, Tela
<1>6. CASE tela' = tela
  BY <1>6
<1> QED
  BY <1>1, <1>2, <1>3, <1>4, <1>5, <1>6 DEF Next, vars, OpenCash, FinalizeSale,
     Imprime, HandleGtin, StartNextScan, LookupExternal, Retirar, Tentar, ComecaCopia, TerminaCopia, Gravar, Liberar,
     FalhaBanco

(* The four steps of a copy, and what the others do to who is copying.     *)
LEMMA EmCursoMantido ==
    ASSUME IInv, [Next]_vars
    PROVE  EmCurso'
<1>0. /\ TipoArquivos /\ livro \subseteq Fatos /\ arquivos \in Seq(Copia)
      /\ operario \in Operario /\ tela \in Tela /\ EmCurso
      /\ operario.passo = "copiando" => operario.arquivo \in DOMAIN arquivos
      /\ tela.passo = "copiando" => tela.alvo \in DOMAIN arquivos
  BY DEF IInv, TypeOK, TipoBanco, TipoTela, TipoOperario, TipoArquivos
<1>1. CASE TelaComecaCopia
  <2>1. /\ tela'.passo = "copiando" /\ tela'.alvo = Len(arquivos) + 1
        /\ operario' = operario
    BY <1>0, <1>1 DEF TelaComecaCopia, Tela, trabalho
  <2>2. /\ ~arquivos'[Len(arquivos) + 1].inteiro
        /\ Len(arquivos) + 1 \notin DOMAIN arquivos
        /\ \A a \in DOMAIN arquivos : arquivos'[a] = arquivos[a]
    BY <1>0, <1>1, ArquivoComeca DEF TelaComecaCopia, Incompleto
  <2> QED
    BY <1>0, <2>1, <2>2 DEF EmCurso
<1>2. CASE ComecaCopia
  <2>1. /\ operario'.passo = "copiando" /\ operario'.arquivo = Len(arquivos) + 1
        /\ tela' = tela
    BY <1>0, <1>2 DEF ComecaCopia, Operario
  <2>2. /\ ~arquivos'[Len(arquivos) + 1].inteiro
        /\ Len(arquivos) + 1 \notin DOMAIN arquivos
        /\ \A a \in DOMAIN arquivos : arquivos'[a] = arquivos[a]
    BY <1>0, <1>2, ArquivoComeca DEF ComecaCopia, Incompleto
  <2> QED
    BY <1>0, <2>1, <2>2 DEF EmCurso
<1>3. CASE TelaTerminaCopia
  <2>1. PICK ok \in BOOLEAN : EncerraArquivo(tela.alvo, ok)
    BY <1>3 DEF TelaTerminaCopia
  <2>2. tela'.passo # "copiando" /\ operario' = operario
    BY <1>0, <1>3, TelaTipos DEF TelaTerminaCopia, Tela, trabalho
  <2>3. /\ tela.passo = "copiando"
        /\ \A b \in DOMAIN arquivos : b # tela.alvo => arquivos'[b] = arquivos[b]
    BY <1>0, <1>3, <2>1, ArquivoEncerra DEF TelaTerminaCopia
  <2> QED
    BY <1>0, <2>2, <2>3 DEF EmCurso
<1>4. CASE TerminaCopia
  <2>1. PICK ok \in BOOLEAN : EncerraArquivo(operario.arquivo, ok)
    BY <1>4 DEF TerminaCopia
  <2>2. operario'.passo # "copiando" /\ tela' = tela
    BY <1>0, <1>4 DEF TerminaCopia, Operario
  <2>3. /\ operario.passo = "copiando"
        /\ \A b \in DOMAIN arquivos :
             b # operario.arquivo => arquivos'[b] = arquivos[b]
    BY <1>0, <1>4, <2>1, ArquivoEncerra DEF TerminaCopia
  <2> QED
    BY <1>0, <2>2, <2>3 DEF EmCurso
<1>5. CASE ~TocaArquivos
  <2>1. arquivos' = arquivos
    BY <1>5, OutrosArquivos
  <2>2. operario'.passo # "copiando" \/ operario' = operario
    BY <1>0, <1>5, TelaTipos DEF Next, TocaArquivos, vars, trabalho, OpenCash,
       FinalizeSale, Imprime, CloseCash, RetryCashBackup, HandleGtin,
       StartNextScan, LookupExternal, Enqueue, Prepare, CreateBackup, Maintenance,
       TelaFalha, ConcluiPreparo, ConcluiManual,
       ConcluiManutencao, ConcluiCopia, Shutdown, Inicia, Retirar, Tentar, Gravar,
       Liberar, FalhaBanco, Queda, Ocioso, Operario
  <2>3. tela'.passo # "copiando" \/ tela' = tela
    BY <1>5, TelaSegue DEF TocaArquivos
  <2> QED
    BY <1>0, <2>1, <2>2, <2>3 DEF EmCurso
<1> QED
  BY <1>1, <1>2, <1>3, <1>4, <1>5 DEF TocaArquivos

(* The copy of the screen is good until its last transaction.              *)
LEMMA TelaCopiadaMantida ==
    ASSUME IInv, [Next]_vars, ~(ConcluiPreparo /\ Pronto)
    PROVE  TelaCopiada'
<1>0. TipoArquivos /\ livro \subseteq Fatos /\ tela \in Tela
  BY DEF IInv, TypeOK, TipoBanco, TipoTela
<1>1. CASE TelaTerminaCopia
  <2>1. PICK ok \in BOOLEAN :
          /\ EncerraArquivo(tela.alvo, ok)
          /\ tela' = IF Segue(ok) THEN [tela EXCEPT !.passo = "gravar"] ELSE Livre
    BY <1>1 DEF TelaTerminaCopia
  <2>2. tela.alvo \in DOMAIN arquivos /\ livro' = livro
    BY <1>1 DEF TelaTerminaCopia, banco, IInv, TypeOK, TipoTela
  <2>3. tela'.passo = "gravar" => ok /\ tela'.alvo = tela.alvo
    BY <1>0, <2>1, TelaTipos DEF Segue, Tela
  <2>4. /\ DOMAIN arquivos' = DOMAIN arquivos
        /\ ok => arquivos'[tela.alvo].inteiro /\ arquivos'[tela.alvo].livro = livro
    BY <1>0, <2>1, <2>2, ArquivoEncerra
  <2> QED
    BY <2>2, <2>3, <2>4 DEF TelaCopiada, Boa
<1>2. CASE ~TelaTerminaCopia
  <2>1. tela'.passo # "gravar" \/ tela' = tela
    BY <1>2, TelaSegue
  <2>2. ASSUME tela.passo = "gravar"
        PROVE  /\ tela.alvo \in DOMAIN arquivos' /\ arquivos'[tela.alvo].inteiro
               /\ arquivos'[tela.alvo].livro \subseteq livro'
    BY <2>2, BoaFica DEF IInv, TelaCopiada
  <2> QED
    BY <2>1, <2>2 DEF TelaCopiada, Boa
<1> QED
  BY <1>1, <1>2

(* While it is being prepared nothing is open, nothing is printing and no  *)
(* copy of a closing is due: of the others, only a look-up writes a row.   *)
LEMMA SoConsultas ==
    ASSUME IInv, [Next]_vars, ~(ConcluiPreparo /\ Pronto), tela.op = "preparo"
    PROVE  /\ UNCHANGED <<caixas, imprimindo, preparado>>
           /\ \/ livro' = livro
              \/ \E n \in leitor.consultas : livro' = livro \cup {Fato("CONSULTA", n)}
           /\ leitor'.consultas \subseteq leitor.consultas
<1>1. tela # Livre /\ tela # Parado /\ Pronto /\ leitor \in Leitor
  BY TelaTipos DEF IInv, Preparando, TypeOK
<1>2. ~Gravar
  BY <1>1 DEF Gravar, IInv, Maos, Pronto
<1>3. CASE \E n \in leitor.consultas : LookupExternal(n)
  BY <1>1, <1>3 DEF LookupExternal, Lanca, Leitor
<1>4. CASE Queda
  BY <1>4, TelaTipos DEF Queda, banco, SemLeituras
<1>5. CASE banco' = banco /\ leitor' = leitor
  BY <1>5 DEF banco
<1> QED
  BY <1>1, <1>2, <1>3, <1>4, <1>5 DEF Next, vars, trabalho, OpenCash, FinalizeSale,
     Imprime, CloseCash, RetryCashBackup, HandleGtin, StartNextScan, Enqueue,
     Prepare, CreateBackup, Maintenance, TelaComecaCopia, TelaTerminaCopia,
     TelaFalha, ConcluiPreparo, ConcluiManual, ConcluiManutencao, ConcluiCopia,
     Shutdown, Inicia, Retirar, Tentar, ComecaCopia, TerminaCopia, Liberar,
     FalhaBanco, Pronto

(* How a preparation comes to its last transaction: its copy has just      *)
(* taken the whole books, or it was waiting already with the copy it had.  *)
LEMMA CopiaDoPreparo ==
    ASSUME IInv, [Next]_vars, ~(ConcluiPreparo /\ Pronto),
           tela'.op = "preparo", tela'.passo = "gravar"
    PROVE  /\ tela.op = "preparo"
           /\ \/ livro' \subseteq arquivos'[tela'.alvo].livro
              \/ /\ tela' = tela /\ Boa(tela.alvo)
                 /\ arquivos'[tela.alvo] = arquivos[tela.alvo]
<1>0. TipoArquivos /\ livro \subseteq Fatos /\ tela \in Tela
  BY DEF IInv, TypeOK, TipoBanco, TipoTela
<1>1. CASE TelaTerminaCopia
  <2>1. PICK ok \in BOOLEAN :
          /\ EncerraArquivo(tela.alvo, ok)
          /\ tela' = IF Segue(ok) THEN [tela EXCEPT !.passo = "gravar"] ELSE Livre
    BY <1>1 DEF TelaTerminaCopia
  <2>2. tela.alvo \in DOMAIN arquivos /\ livro' = livro
    BY <1>1 DEF TelaTerminaCopia, banco, IInv, TypeOK, TipoTela
  <2>3. ok /\ tela'.alvo = tela.alvo /\ tela.op = "preparo"
    BY <1>0, <2>1, TelaTipos DEF Segue, Tela
  <2> QED
    BY <1>0, <2>1, <2>2, <2>3, ArquivoEncerra
<1>2. CASE ~TelaTerminaCopia
  <2>1. tela' = tela
    BY <1>2, TelaSegue
  <2>2. Boa(tela.alvo)
    BY <2>1 DEF IInv, TelaCopiada
  <2> QED
    BY <2>1, <2>2, BoaFica
<1> QED
  BY <1>1, <1>2

LEMMA PreparandoMantido ==
    ASSUME IInv, [Next]_vars, ~(ConcluiPreparo /\ Pronto)
    PROVE  Preparando'
<1> SUFFICES ASSUME tela'.op = "preparo"
             PROVE  /\ Pronto'
                    /\ tela'.passo = "gravar" =>
                         Registros(livro') \subseteq arquivos'[tela'.alvo].livro
  BY DEF Preparando, Registros
<1>1. CASE Prepare
  <2>1. Pronto' /\ tela'.passo = "copiar"
    BY <1>1 DEF Prepare, Pronto, banco, Abertos, Pendentes
  <2> QED
    BY <2>1
<1>2. CASE ~Prepare
  <2>1. tela.op = "preparo" /\ Preparando
    BY <1>2, TelaSegue DEF IInv
  <2>2. Pronto'
    BY <2>1, SoConsultas DEF Preparando, Pronto, Abertos, Pendentes
  <2>3. Registros(livro') = Registros(livro)
    BY <2>1, SoConsultas DEF Registros, Fato
  <2>4. ASSUME tela'.passo = "gravar"
        PROVE  Registros(livro') \subseteq arquivos'[tela'.alvo].livro
    BY <2>1, <2>3, <2>4, CopiaDoPreparo DEF Registros, Preparando
  <2> QED
    BY <2>2, <2>4
<1> QED
  BY <1>1, <1>2

-----------------------------------------------------------------------------
(* The theorems                                                            *)

(* Whatever was recorded, whoever was copying and whenever the process     *)
(* ended, a step keeps the inductive invariant.                            *)
LEMMA InvMantido == IInv /\ [Next]_vars => IInv'
<1> SUFFICES ASSUME IInv, [Next]_vars PROVE IInv'
  OBVIOUS
<1>1. TypeOK'
  BY TipoMantido DEF IInv
<1>2. CASE ~(ConcluiPreparo /\ Pronto)
  BY <1>1, <1>2, LivrosMantidos, AuditoriaMantida, OperarioMantido, EmCursoMantido,
     TelaCopiadaMantida, PreparandoMantido DEF IInv
<1>3. CASE ConcluiPreparo /\ Pronto
  <2>1. /\ arquivos' = arquivos /\ operario' = operario /\ tela' = Livre
        /\ caixas' = <<>> /\ preparado' = tela.alvo /\ apagado' = livro
        /\ livro' = {Fato("PREPARACAO_PRODUCAO_CONCLUIDA", tela.alvo)}
        /\ Boa(tela.alvo) /\ Registros(livro) \subseteq arquivos[tela.alvo].livro
        /\ operario.passo \notin {"copiar", "copiando", "copiado", "falhou"}
    BY <1>3, PreparoFinal
  <2>2. Fechamentos' /\ CopiaContemFechamento' /\ CopiaAuditada' /\ RegistrosTemCopia'
    BY <2>1 DEF Fechamentos, CopiaContemFechamento, CopiaAuditada, NomeiaCopia,
                Fato, RegistrosTemCopia, Boa
  <2>3. Maos' /\ Copiado' /\ TelaCopiada' /\ Preparando'
    BY <2>1, TelaTipos DEF Maos, Copiado, TelaCopiada, Preparando
  <2> QED
    BY <1>1, <2>2, <2>3, EmCursoMantido DEF IInv
<1> QED
  BY <1>2, <1>3

LEMMA InvSempre == Spec => []IInv
  BY InvInicial, InvMantido, PTL DEF Spec

(* Every sale, drawer, print, closing and audit row that the preparation   *)
(* erased is in the whole copy it names, but for the rows of look-ups.     *)
THEOREM PreparoTemCopia == Spec => []RegistrosTemCopia
<1>1. IInv => RegistrosTemCopia
  BY DEF IInv
<1> QED
  BY <1>1, InvSempre, PTL

\* A preparation asked for while nothing was being looked up copies everything.
Calado ==
    /\ ApagadoTemCopia
    /\ tela.op = "preparo" =>
         /\ leitor.consultas = {}
         /\ tela.passo = "gravar" => livro \subseteq arquivos[tela.alvo].livro

LEMMA CaladoMantido ==
    ASSUME IInv, Calado, [Next]_vars, Prepare => leitor.consultas = {}
    PROVE  Calado'
<1>1. CASE ConcluiPreparo /\ Pronto
  <2>1. /\ arquivos' = arquivos /\ tela' = Livre /\ preparado' = tela.alvo
        /\ apagado' = livro /\ arquivos[tela.alvo].inteiro
    BY <1>1, PreparoFinal DEF Boa
  <2>2. livro \subseteq arquivos[tela.alvo].livro
    BY <1>1 DEF Calado, ConcluiPreparo
  <2> QED
    BY <2>1, <2>2, TelaTipos DEF Calado, ApagadoTemCopia
<1>2. CASE ~(ConcluiPreparo /\ Pronto)
  <2>1. ApagadoTemCopia'
    <3>1. preparado # 0 => preparado \in DOMAIN arquivos
      BY DEF IInv, TypeOK, TipoArquivos
    <3> QED
      BY <1>2, <3>1, LivroCresce, InteiroFica DEF Calado, ApagadoTemCopia
  <2>2. CASE tela'.op = "preparo" /\ Prepare
    BY <2>1, <2>2 DEF Prepare, Calado, trabalho
  <2>3. CASE tela'.op = "preparo" /\ ~Prepare
    <3>1. tela.op = "preparo" /\ leitor.consultas = {}
      BY <2>3, TelaSegue DEF Calado
    <3>2. livro' = livro /\ leitor'.consultas = {}
      BY <1>2, <3>1, SoConsultas
    <3>3. tela'.passo = "gravar" => livro' \subseteq arquivos'[tela'.alvo].livro
      BY <1>2, <2>3, <3>1, <3>2, CopiaDoPreparo DEF Calado
    <3> QED
      BY <2>1, <2>3, <3>2, <3>3 DEF Calado
  <2>4. CASE tela'.op # "preparo"
    BY <2>1, <2>4 DEF Calado
  <2> QED
    BY <2>2, <2>3, <2>4
<1> QED
  BY <1>1, <1>2

(* All that is erased is in the copy named, the rows of look-ups too, when *)
(* every preparation is asked for while no look-up is under way: a look-up *)
(* that outlives the drawer is the only way to lose a row.                 *)
THEOREM PreparoSemConsulta ==
    Spec /\ [][Prepare => leitor.consultas = {}]_vars => []ApagadoTemCopia
<1>1. Init => Calado
  BY TelaTipos DEF Init, Calado, ApagadoTemCopia
<1>2. IInv /\ Calado /\ [Next]_vars /\ [Prepare => leitor.consultas = {}]_vars
        => Calado'
  <2> SUFFICES ASSUME IInv, Calado, [Next]_vars,
                      [Prepare => leitor.consultas = {}]_vars
               PROVE  Calado'
    OBVIOUS
  <2>1. CASE UNCHANGED vars
    BY <2>1 DEF vars, banco, trabalho, historia, Calado, ApagadoTemCopia
  <2>2. CASE Prepare => leitor.consultas = {}
    BY <2>2, CaladoMantido
  <2> QED
    BY <2>1, <2>2
<1>3. Calado => ApagadoTemCopia
  BY DEF Calado
<1> QED
  BY <1>1, <1>2, <1>3, InvSempre, PTL DEF Spec

(* The copy recorded for a closing holds that closing.                     *)
THEOREM CopiaDoFechamento == Spec => []CopiaContemFechamento
<1>1. IInv => CopiaContemFechamento
  BY DEF IInv
<1> QED
  BY <1>1, InvSempre, PTL

(* The copies the audit log names are whole and of these books.            *)
THEOREM AuditoriaDeCopias == Spec => []CopiaAuditada
<1>1. IInv => CopiaAuditada
  BY DEF IInv
<1> QED
  BY <1>1, InvSempre, PTL

(* After the preparation no step erases anything.                          *)
THEOREM NadaSeApagaDepois == Spec => VendaRealPermanece
<1>1. [Next]_vars =>
        [preparado # 0 => livro \subseteq livro' /\ preparado' = preparado]_vars
  BY LivroCresce DEF Pronto
<1> QED
  BY <1>1, PTL DEF Spec, VendaRealPermanece
=============================================================================
