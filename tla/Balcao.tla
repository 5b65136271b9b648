------------------------------- MODULE Balcao -------------------------------
(***************************************************************************)
(* The counter screen (ui/views.py SaleView, ui/scan_queue.py, ui/app.py   *)
(* and the dialogs of ui/dialogs.py and ui/dialogs_checkout.py): codes     *)
(* read by a bar code reader, looked up in a thread of their own, put in   *)
(* the cart of the sale they were read for, and the dialogs that price,    *)
(* weigh, change, cancel and pay what is in the cart.                      *)
(*                                                                         *)
(* Every step of this module but LookUp runs in the thread of Tk and is    *)
(* atomic; what interleaves is the order of its events.  A dialog takes    *)
(* the keyboard and the mouse (the grab) 10 ms after it is built, and the  *)
(* dialog that had them does not get them back: until then, and from then  *)
(* on, the window behind receives events.                                  *)
(***************************************************************************)
EXTENDS Naturals, Sequences, FiniteSets

CONSTANTS Codigos,      \* the codes read
          Nenhum,       \* no ticket
          MaxPending,   \* codes that may wait: 100 in the code
          MaxLeituras,  \* bound: codes read in a session
          MaxLinhas,    \* bound: lines put in carts in a session
          MaxDialogos,  \* bound: dialogs open at a time
          Juntos,       \* bound: kinds of dialog opened beside another
          MaxVendas,    \* bound: payments opened
          MaxSessoes    \* bound: sessions

ASSUME MaxPendingPositivo == MaxPending \in Nat \ {0}
ASSUME LimitesNaturais ==
    {MaxLeituras, MaxLinhas, MaxDialogos, MaxVendas, MaxSessoes} \subseteq Nat

VARIABLES sessao,     \* number of the session
          tela,       \* "venda", "admin" over it, or "fora": no sale screen
          admin,      \* is_admin
          caixa,      \* the drawer the screen holds, if any
          carrinho,   \* cart: set of lines
          linhas,     \* _line_sequence
          fila,       \* _scan_queue
          inflight,   \* _scan_inflight
          ocupado,    \* _busy
          agendado,   \* _scan_start_after_id is set
          lendo,      \* tickets a thread is looking up
          respostas,  \* _scan_results
          dialogos,   \* the dialogs that exist
          foco,       \* the dialog with the grab, 0 when none has it
          vendas,     \* sales the database holds
          chaves,     \* confirmation keys drawn (uuid4)
          ultima,     \* _last_sale_id and _last_sale_cancelled
          canceladas  \* sales the database holds as cancelled

leitor == <<fila, inflight, ocupado, agendado, lendo, respostas>>
compra == <<carrinho, linhas>>
conta  == <<sessao, tela, admin>>
recente == <<ultima, canceladas>>
loja   == <<caixa, vendas, chaves, recente>>
vars   == <<conta, loja, compra, leitor, dialogos, foco>>

Bilhete  == [sequencia: 1..MaxLeituras, codigo: Codigos, geracao: Nat]
FilaT    == [geracao: Nat, sequencia: 0..MaxLeituras,
             pendentes: Seq(Bilhete), ativo: Bilhete \cup {Nenhum}]
Linha    == [chave: 1..MaxLinhas, codigo: Codigos \cup {Nenhum},
             alterado: BOOLEAN, lidas: SUBSET Nat, fichas: SUBSET Nat]
Venda    == [chave: Nat \ {0}, pedido: 1..MaxVendas, sessao: 1..MaxSessoes,
             itens: SUBSET (1..MaxLinhas)]
Tipos    == {"preco", "manual", "peso", "aprovaPreco", "aprovaCadastro",
             "busca", "avulso", "edita", "cancela", "autoriza", "pagamento",
             "cancelaVenda", "abre", "retoma", "acoes", "movimento", "fecha", "sair"}
Produto  == {"inclui", "preco", "peso", "manual", "nada"}

Viva    == tela # "fora"
FilaNova == [geracao |-> 0, sequencia |-> 0, pendentes |-> <<>>, ativo |-> Nenhum]
HasPending(f) == f.ativo # Nenhum \/ f.pendentes # <<>>

-----------------------------------------------------------------------------
(* ScanQueue *)

Enqueue(f, c) ==
    [f EXCEPT !.sequencia = @ + 1,
              !.pendentes = Append(@, [sequencia |-> f.sequencia + 1,
                                       codigo |-> c, geracao |-> f.geracao])]
TakeNext(f) == [f EXCEPT !.ativo = Head(f.pendentes), !.pendentes = Tail(@)]
Finish(f, t) == IF f.ativo = t THEN [f EXCEPT !.ativo = Nenhum] ELSE f
\* Mutant: an answer of an earlier sale is taken for a valid one.
ValidaSempre(f, t) == t.geracao <= f.geracao
Valida(f, t) == f.ativo = t /\ t.geracao = f.geracao
\* Mutant: the next sale keeps what was read for the last one.
AvancaSemSoltar(f) == [f EXCEPT !.geracao = @ + 1]
AdvanceGeneration(f) ==
    [f EXCEPT !.geracao = @ + 1, !.pendentes = <<>>, !.ativo = Nenhum]

-----------------------------------------------------------------------------
(* Dialogs *)

Sem == [codigo |-> Nenhum, geracao |-> 0, linha |-> 0, itens |-> {},
        chave |-> 0, origem |-> 0]
Ids(ds)    == {d.id : d \in ds} \cup {d.ref.origem : d \in ds}
Cabe(ds, tipo) == ds = {} \/ (tipo \in Juntos /\ Cardinality(ds) < MaxDialogos)
Livre(ds)  == CHOOSE i \in 1..(2 * MaxDialogos) : i \notin Ids(ds)
Novo(ds, tipo, ref) ==
    [id |-> Livre(ds), tipo |-> tipo, ref |-> ref, novo |-> TRUE,
     sessao |-> sessao]
Abertos(ds, tipo, ref) == ds \cup {Novo(ds, tipo, ref)}

(* The root window, or dialog d, receives events.                          *)
Alcanca     == foco = 0
Recebe(d)   == d \in dialogos /\ ~d.novo /\ foco \in {0, d.id}
\* Mutant: a dialog that goes keeps the grab.
SemFocoPreso(fs) == foco
SemFoco(fs) == IF foco \in fs THEN 0 ELSE foco

FinishOpen(d) ==
    /\ d \in dialogos /\ d.novo
    /\ dialogos' = (dialogos \ {d}) \cup {[d EXCEPT !.novo = FALSE]}
    /\ foco' = d.id
    /\ UNCHANGED <<conta, loja, compra, leitor>>

Cancel(d) ==
    /\ Recebe(d)
    /\ dialogos' = dialogos \ {d}
    /\ foco' = SemFoco({d.id})
    /\ UNCHANGED <<conta, loja, compra, leitor>>

-----------------------------------------------------------------------------
(* What add_product does with a product: a line of the cart, or a dialog   *)
(* for its price or its weight.  lida and ficha are the sale the code was  *)
(* read in, when the line comes straight from the reader or from a dialog. *)

Igual(l, c) == l.codigo = c /\ ~l.alterado

LinhaIncluida(c, lida, ficha) ==
    IF \E l \in carrinho : Igual(l, c)
    THEN LET l == CHOOSE l \in carrinho : Igual(l, c)
         IN /\ carrinho' = (carrinho \ {l})
                   \cup {[l EXCEPT !.lidas = @ \cup lida,
                                   !.fichas = @ \cup ficha]}
            /\ linhas' = linhas
    ELSE /\ linhas < MaxLinhas
         /\ linhas' = linhas + 1
         /\ carrinho' = carrinho
                \cup {[chave |-> linhas + 1, codigo |-> c, alterado |-> FALSE,
                       lidas |-> lida, fichas |-> ficha]}

AddProduct(r, c, lida, ficha, ds) ==
    \/ /\ r = "inclui"
       /\ LinhaIncluida(c, lida, ficha)
       /\ dialogos' = ds
    \/ /\ r \in {"preco", "peso"}
       /\ Cabe(ds, r)
       /\ dialogos' = Abertos(ds, r, [Sem EXCEPT !.codigo = c,
                                                !.geracao = fila.geracao])
       /\ UNCHANGED compra

Mostra(tipo, ref) ==
    /\ Cabe(dialogos, tipo)
    /\ dialogos' = Abertos(dialogos, tipo, ref)
    /\ foco' = foco

-----------------------------------------------------------------------------
(* Reading codes.  What a look-up finds is known when it is answered, and  *)
(* matters when the answer is taken from the queue: r is chosen there.     *)

\* Mutant: an open dialog stops the reader for good.
StartNextScanSemReagendar(f, a) ==
    \/ /\ inflight # Nenhum
       /\ fila' = f /\ agendado' = a
       /\ UNCHANGED <<inflight, ocupado, lendo>>
    \/ /\ inflight = Nenhum /\ ~HasPending(f)
       /\ fila' = f /\ agendado' = a /\ ocupado' = FALSE
       /\ UNCHANGED <<inflight, lendo>>
    \/ /\ inflight = Nenhum /\ HasPending(f) /\ foco # 0
       /\ fila' = f /\ agendado' = a /\ ocupado' = TRUE
       /\ UNCHANGED <<inflight, lendo>>
    \/ /\ inflight = Nenhum /\ HasPending(f) /\ foco = 0
       /\ \/ /\ f.ativo = Nenhum
             /\ fila' = TakeNext(f)
             /\ inflight' = Head(f.pendentes)
             /\ lendo' = lendo \cup {Head(f.pendentes)}
             /\ ocupado' = TRUE
          \/ /\ f.ativo # Nenhum
             /\ fila' = f
             /\ UNCHANGED <<inflight, lendo, ocupado>>
       /\ agendado' = a

StartNextScan(f, a) ==
    \/ /\ inflight # Nenhum
       /\ fila' = f /\ agendado' = a
       /\ UNCHANGED <<inflight, ocupado, lendo>>
    \/ /\ inflight = Nenhum /\ ~HasPending(f)
       /\ fila' = f /\ agendado' = a /\ ocupado' = FALSE
       /\ UNCHANGED <<inflight, lendo>>
    \/ /\ inflight = Nenhum /\ HasPending(f) /\ foco # 0
       /\ fila' = f /\ agendado' = TRUE /\ ocupado' = TRUE
       /\ UNCHANGED <<inflight, lendo>>
    \/ /\ inflight = Nenhum /\ HasPending(f) /\ foco = 0
       /\ \/ /\ f.ativo = Nenhum
             /\ fila' = TakeNext(f)
             /\ inflight' = Head(f.pendentes)
             /\ lendo' = lendo \cup {Head(f.pendentes)}
             /\ ocupado' = TRUE
          \/ /\ f.ativo # Nenhum
             /\ fila' = f
             /\ UNCHANGED <<inflight, lendo, ocupado>>
       /\ agendado' = a

HandleGtin(c) ==
    /\ tela = "venda" /\ Alcanca /\ caixa
    /\ fila.sequencia < MaxLeituras
    /\ Len(fila.pendentes) < MaxPending
    /\ StartNextScan(Enqueue(fila, c), agendado)
    /\ UNCHANGED <<conta, loja, compra, respostas, dialogos, foco>>

Resume ==
    /\ Viva /\ agendado
    /\ StartNextScan(fila, FALSE)
    /\ UNCHANGED <<conta, loja, compra, respostas, dialogos, foco>>

LookUp(t) ==
    /\ t \in lendo
    /\ lendo' = lendo \ {t}
    /\ respostas' = Append(respostas, t)
    /\ UNCHANGED <<conta, loja, compra, fila, inflight, ocupado, agendado,
                   dialogos, foco>>

Dispatch(t, r) ==
    \/ r = "nada" /\ UNCHANGED <<compra, dialogos>>
    \/ /\ r = "manual" /\ Cabe(dialogos, "manual")
       /\ dialogos' = Abertos(dialogos, "manual",
                              [Sem EXCEPT !.codigo = t.codigo,
                                          !.geracao = fila.geracao])
       /\ UNCHANGED compra
    \/ AddProduct(r, t.codigo, {t.geracao}, {}, dialogos)

PollScanResults(r) ==
    /\ Viva /\ respostas # <<>>
    /\ LET t == Head(respostas)
       IN /\ fila' = Finish(fila, t)
          /\ \/ /\ ~Valida(fila, t)
                /\ UNCHANGED <<inflight, ocupado, agendado, compra, dialogos>>
             \/ /\ Valida(fila, t)
                /\ inflight' = Nenhum
                /\ Dispatch(t, r)
                /\ ocupado' = HasPending(fila')
                /\ agendado' = TRUE
    /\ respostas' = Tail(respostas)
    /\ UNCHANGED <<conta, loja, lendo, foco>>

-----------------------------------------------------------------------------
(* The cart *)

QuickProduct(c, r) ==
    /\ tela = "venda" /\ Alcanca
    /\ AddProduct(r, c, {}, {}, dialogos)
    /\ UNCHANGED <<conta, loja, leitor, foco>>

ShortcutSearch ==
    /\ tela = "venda" /\ Alcanca /\ ~ocupado
    /\ Mostra("busca", Sem)
    /\ UNCHANGED <<conta, loja, compra, leitor>>

ShortcutManualItem ==
    /\ tela = "venda" /\ Alcanca /\ ~ocupado /\ caixa
    /\ Mostra("avulso", Sem)
    /\ UNCHANGED <<conta, loja, compra, leitor>>

ShortcutEdit(l) ==
    /\ tela = "venda" /\ Alcanca /\ ~ocupado /\ l \in carrinho
    /\ Mostra("edita", [Sem EXCEPT !.linha = l.chave])
    /\ UNCHANGED <<conta, loja, compra, leitor>>

RemoveLine(k) ==
    /\ carrinho' = {l \in carrinho : l.chave # k}
    /\ linhas' = linhas

ShortcutCancel(l) ==
    /\ tela = "venda" /\ Alcanca /\ l \in carrinho
    /\ \/ /\ admin
          /\ RemoveLine(l.chave)
          /\ UNCHANGED <<dialogos, foco>>
       \/ /\ ~admin
          /\ Mostra("cancela", [Sem EXCEPT !.linha = l.chave])
          /\ UNCHANGED compra
    /\ UNCHANGED <<conta, loja, leitor>>

(* A dialog that asks for a line submits: the product is saved and put in  *)
(* the cart, or an administrator has to approve it first.                  *)
SubmitItem(d, r) ==
    /\ Recebe(d)
    /\ \/ /\ \/ d.tipo = "preco" /\ r \in {"inclui", "peso"}
             \/ d.tipo \in {"manual", "peso"} /\ r = "inclui"
          /\ AddProduct(r, d.ref.codigo, {}, {d.ref.geracao}, dialogos \ {d})
          /\ foco' = SemFoco({d.id})
       \/ /\ d.tipo \in {"preco", "manual"} /\ ~admin /\ r = "nada"
          /\ Mostra(IF d.tipo = "preco" THEN "aprovaPreco" ELSE "aprovaCadastro",
                    [Sem EXCEPT !.codigo = d.ref.codigo, !.geracao = d.ref.geracao,
                                !.origem = d.id])
          /\ UNCHANGED compra
    /\ UNCHANGED <<conta, loja, leitor>>

Approve(d, r) ==
    /\ Recebe(d)
    /\ \/ d.tipo = "aprovaPreco" /\ r \in {"inclui", "peso"}
       \/ d.tipo = "aprovaCadastro" /\ r = "inclui"
    /\ AddProduct(r, d.ref.codigo, {}, {d.ref.geracao},
                  {e \in dialogos : e.id \notin {d.id, d.ref.origem}})
    /\ foco' = SemFoco({d.id, d.ref.origem})
    /\ UNCHANGED <<conta, loja, leitor>>

SelectProduct(d, c, r) ==
    /\ Recebe(d) /\ d.tipo = "busca"
    /\ AddProduct(r, c, {}, {}, dialogos \ {d})
    /\ foco' = SemFoco({d.id})
    /\ UNCHANGED <<conta, loja, leitor>>

IncludeManualItem(d) ==
    /\ Recebe(d) /\ d.tipo = "avulso"
    /\ linhas < MaxLinhas
    /\ linhas' = linhas + 1
    /\ carrinho' = carrinho
           \cup {[chave |-> linhas + 1, codigo |-> Nenhum, alterado |-> TRUE,
                  lidas |-> {}, fichas |-> {}]}
    /\ dialogos' = dialogos \ {d}
    /\ foco' = SemFoco({d.id})
    /\ UNCHANGED <<conta, loja, leitor>>

ApplyEdit(d) ==
    /\ Recebe(d) /\ d.tipo = "edita"
    /\ carrinho' = {IF l.chave = d.ref.linha THEN [l EXCEPT !.alterado = TRUE]
                                             ELSE l : l \in carrinho}
    /\ dialogos' = dialogos \ {d}
    /\ foco' = SemFoco({d.id})
    /\ UNCHANGED <<conta, loja, leitor, linhas>>

AuthorizeItemCancel(d) ==
    /\ Recebe(d) /\ d.tipo = "cancela"
    /\ RemoveLine(d.ref.linha)
    /\ dialogos' = dialogos \ {d}
    /\ foco' = SemFoco({d.id})
    /\ UNCHANGED <<conta, loja, leitor>>

-----------------------------------------------------------------------------
(* Payment *)

ShortcutPayment(excecao) ==
    /\ tela = "venda" /\ Alcanca
    /\ ~ocupado /\ ~HasPending(fila)
    /\ caixa /\ carrinho # {}
    /\ chaves < MaxVendas
    /\ chaves' = chaves + 1
    /\ Mostra(IF excecao THEN "autoriza" ELSE "pagamento",
              [Sem EXCEPT !.itens = {l.chave : l \in carrinho},
                          !.chave = chaves + 1])
    /\ UNCHANGED <<conta, caixa, vendas, recente, compra, leitor>>

AuthorizeSale(d) ==
    /\ Recebe(d) /\ d.tipo = "autoriza"
    /\ dialogos' = Abertos(dialogos, "pagamento", d.ref) \ {d}
    /\ foco' = SemFoco({d.id})
    /\ UNCHANGED <<conta, loja, compra, leitor>>

(* What SaleService.finalize keeps for a confirmation key: one sale.       *)
\* Mutant: the key is drawn at each confirmation, not when the dialog opens.
ChaveDeCadaEnvio(d) == Cardinality(vendas) + 1
ChaveDaConfirmacao(d) == d.ref.chave
FinalizeSale(d) ==
    LET k == ChaveDaConfirmacao(d)
    IN vendas' = IF \E v \in vendas : v.chave = k THEN vendas
                 ELSE vendas \cup {[chave |-> k, pedido |-> d.ref.chave,
                                    sessao |-> sessao, itens |-> d.ref.itens]}

ConfirmPayment(d) ==
    /\ Recebe(d) /\ d.tipo = "pagamento" /\ caixa
    /\ FinalizeSale(d)
    /\ carrinho' = {}
    /\ fila' = AdvanceGeneration(fila)
    /\ inflight' = Nenhum
    /\ ocupado' = FALSE
    /\ ultima' = [venda |-> ChaveDaConfirmacao(d), cancelada |-> FALSE]
    /\ dialogos' = dialogos \ {d}
    /\ foco' = SemFoco({d.id})
    /\ UNCHANGED <<conta, caixa, chaves, canceladas, linhas, agendado, lendo,
                   respostas>>

(* The sale is in the database and the screen fails before it clears the   *)
(* cart: the dialog stays, with its key.                                   *)
ConfirmPaymentFails(d) ==
    /\ Recebe(d) /\ d.tipo = "pagamento" /\ caixa
    /\ FinalizeSale(d)
    /\ UNCHANGED <<conta, caixa, chaves, recente, compra, leitor, dialogos, foco>>

(* The cancellation of the last sale.  Its dialog names no sale: it asks   *)
(* for the one that is the last when it is answered.  PDV has what else    *)
(* cancel_sale requires; what it refuses changes nothing.                  *)
SemUltima == [venda |-> 0, cancelada |-> FALSE]

RequestLastSaleCancellation ==
    /\ tela = "venda" /\ Alcanca /\ admin
    /\ ultima.venda # 0 /\ ~ultima.cancelada
    /\ Mostra("cancelaVenda", [Sem EXCEPT !.chave = ultima.venda])
    /\ UNCHANGED <<conta, loja, compra, leitor>>

\* Mutant: the screen does not remember what it cancelled.
CancelamentoEsquecido == ultima
UltimaCancelada == [ultima EXCEPT !.cancelada = TRUE]

CancelLastSale(d) ==
    /\ Recebe(d) /\ d.tipo = "cancelaVenda"
    /\ ultima.venda \notin canceladas
    /\ canceladas' = canceladas \cup {ultima.venda}
    /\ ultima' = UltimaCancelada
    /\ dialogos' = dialogos \ {d}
    /\ foco' = SemFoco({d.id})
    /\ UNCHANGED <<conta, caixa, vendas, chaves, compra, leitor>>

-----------------------------------------------------------------------------
(* The drawer.  What a movement does to it is in PDV; its dialog is here   *)
(* for the events it takes from the others, and only closes (Cancel).      *)

OpenCashActions ==
    /\ tela = "venda" /\ Alcanca
    /\ Mostra(IF caixa THEN "acoes" ELSE "abre", Sem)
    /\ UNCHANGED <<conta, loja, compra, leitor>>

OpenCash(d) ==
    /\ Recebe(d) /\ d.tipo \in {"abre", "retoma"}
    /\ ~caixa
    /\ caixa' = TRUE
    /\ dialogos' = dialogos \ {d}
    /\ foco' = SemFoco({d.id})
    /\ UNCHANGED <<conta, vendas, chaves, recente, compra, leitor>>

SelectMovement(d) ==
    /\ Recebe(d) /\ d.tipo = "acoes"
    /\ dialogos' = Abertos(dialogos \ {d}, "movimento", Sem)
    /\ foco' = SemFoco({d.id})
    /\ UNCHANGED <<conta, loja, compra, leitor>>

RequestCashClose(d) ==
    /\ Recebe(d) /\ d.tipo = "acoes"
    /\ dialogos' = IF caixa /\ carrinho = {}
                   THEN Abertos(dialogos \ {d}, "fecha", Sem)
                   ELSE dialogos \ {d}
    /\ foco' = SemFoco({d.id})
    /\ UNCHANGED <<conta, loja, compra, leitor>>

CloseCash(d) ==
    /\ Recebe(d) /\ d.tipo = "fecha" /\ caixa
    /\ caixa' = FALSE
    /\ dialogos' = dialogos \ {d}
    /\ foco' = SemFoco({d.id})
    /\ UNCHANGED <<conta, vendas, chaves, recente, compra, leitor>>

-----------------------------------------------------------------------------
(* Screens and sessions *)

\* Mutant: the question about the last drawer belongs to the window.
DaTelaMenosRetomada(d) == d.tipo \notin {"sair", "retoma"}
DaTela(d) == d.tipo # "sair"

ShowSale(a, c, retoma) ==
    /\ tela = "fora" /\ sessao < MaxSessoes
    /\ sessao' = sessao + 1
    /\ tela' = "venda" /\ admin' = a /\ caixa' = c
    /\ \/ ~retoma /\ UNCHANGED dialogos
       \/ /\ retoma /\ a /\ ~c /\ Cabe(dialogos, "retoma")
          /\ dialogos' = dialogos \cup
                 {[Novo(dialogos, "retoma", Sem) EXCEPT !.sessao = sessao']}
    /\ UNCHANGED <<compra, leitor, foco, vendas, chaves, recente>>

(* The screen goes with its cart, its reader and its dialogs; a thread     *)
(* still looking up a code ends with nobody to read the answer.  Of the    *)
(* confirmation of leaving, which belongs to the window, another may stay. *)
ClearSessionViews(ds) ==
    /\ tela' = "fora" /\ admin' = FALSE /\ caixa' = FALSE
    /\ carrinho' = {} /\ linhas' = 0
    /\ fila' = FilaNova /\ inflight' = Nenhum
    /\ ocupado' = FALSE /\ agendado' = FALSE
    /\ lendo' = {} /\ respostas' = <<>>
    /\ dialogos' = {d \in ds : ~DaTela(d)}
    /\ foco' = IF \E d \in dialogos' : d.id = foco THEN foco ELSE 0
    /\ ultima' = SemUltima
    /\ UNCHANGED <<sessao, vendas, chaves, canceladas>>

RequestLogout ==
    /\ Viva /\ Alcanca
    /\ \/ carrinho = {} /\ ClearSessionViews(dialogos)
       \/ /\ carrinho # {}
          /\ Mostra("sair", Sem)
          /\ UNCHANGED <<conta, loja, compra, leitor>>

ConfirmLogout(d) ==
    /\ Recebe(d) /\ d.tipo = "sair"
    /\ ClearSessionViews(dialogos \ {d})

ShowAdmin ==
    /\ tela = "venda" /\ Alcanca /\ admin
    /\ tela' = "admin"
    /\ UNCHANGED <<sessao, admin, loja, compra, leitor, dialogos, foco>>

BackToSale ==
    /\ tela = "admin" /\ Alcanca
    /\ tela' = "venda"
    /\ UNCHANGED <<sessao, admin, loja, compra, leitor, dialogos, foco>>

-----------------------------------------------------------------------------
Init ==
    /\ sessao = 0 /\ tela = "fora" /\ admin = FALSE /\ caixa = FALSE
    /\ carrinho = {} /\ linhas = 0
    /\ fila = FilaNova /\ inflight = Nenhum
    /\ ocupado = FALSE /\ agendado = FALSE /\ lendo = {} /\ respostas = <<>>
    /\ dialogos = {} /\ foco = 0 /\ vendas = {} /\ chaves = 0
    /\ ultima = SemUltima /\ canceladas = {}

Leitor ==
    \/ Resume
    \/ \E r \in Produto : PollScanResults(r)
    \/ \E c \in Codigos : HandleGtin(c)
    \/ \E t \in lendo : LookUp(t)

Compra ==
    \/ \E c \in Codigos, r \in Produto : QuickProduct(c, r)
    \/ ShortcutSearch
    \/ ShortcutManualItem
    \/ \E l \in carrinho : ShortcutEdit(l) \/ ShortcutCancel(l)
    \/ \E e \in BOOLEAN : ShortcutPayment(e)
    \/ RequestLastSaleCancellation

NoDialogo(d) ==
    \/ FinishOpen(d)
    \/ Cancel(d)
    \/ \E r \in Produto : SubmitItem(d, r) \/ Approve(d, r)
    \/ \E c \in Codigos, r \in Produto : SelectProduct(d, c, r)
    \/ IncludeManualItem(d)
    \/ ApplyEdit(d)
    \/ AuthorizeItemCancel(d)
    \/ AuthorizeSale(d)
    \/ ConfirmPayment(d)
    \/ ConfirmPaymentFails(d)
    \/ CancelLastSale(d)
    \/ OpenCash(d)
    \/ SelectMovement(d)
    \/ RequestCashClose(d)
    \/ CloseCash(d)
    \/ ConfirmLogout(d)

Telas ==
    \/ OpenCashActions
    \/ \E a, c, retoma \in BOOLEAN : ShowSale(a, c, retoma)
    \/ RequestLogout
    \/ ShowAdmin
    \/ BackToSale

Next == Leitor \/ Compra \/ Telas \/ \E d \in dialogos : NoDialogo(d)

(* The event loop of Tk runs what is scheduled and the look-up threads end *)
(* (their network calls have time limits); nobody has to touch a dialog.   *)
Justica ==
    /\ WF_vars(Resume)
    /\ WF_vars(\E r \in Produto : PollScanResults(r))
    /\ WF_vars(\E t \in lendo : LookUp(t))

Spec == Init /\ [][Next]_vars
FairSpec == Spec /\ Justica

-----------------------------------------------------------------------------
DialogoOK(d) ==
    /\ DOMAIN d = {"id", "tipo", "ref", "novo", "sessao"}
    /\ d.tipo \in Tipos
    /\ d.ref.codigo \in Codigos \cup {Nenhum} /\ d.ref.geracao \in Nat
    /\ d.ref.itens \subseteq 1..MaxLinhas
    /\ d.tipo \in {"autoriza", "pagamento"} => d.ref.chave \in 1..MaxVendas

(* The variables stay in their types, and the grab belongs to an existing  *)
(* dialog.                                                                 *)
TypeOK ==
    /\ sessao \in 0..MaxSessoes /\ tela \in {"venda", "admin", "fora"}
    /\ Viva => sessao # 0
    /\ admin \in BOOLEAN /\ caixa \in BOOLEAN
    /\ carrinho \subseteq Linha /\ linhas \in 0..MaxLinhas
    /\ fila \in FilaT /\ inflight \in Bilhete \cup {Nenhum}
    /\ ocupado \in BOOLEAN /\ agendado \in BOOLEAN
    /\ lendo \subseteq Bilhete
    /\ respostas \in Seq(Bilhete)
    /\ vendas \subseteq Venda /\ chaves \in 0..MaxVendas
    /\ ultima \in [venda: 0..MaxVendas, cancelada: BOOLEAN]
    /\ canceladas \subseteq 0..MaxVendas
    /\ \A d \in dialogos : DialogoOK(d)
    /\ foco = 0 \/ \E d \in dialogos : d.id = foco

(* The screen and its queue agree on the ticket being looked up, which is  *)
(* of the current sale and has a look-up or an answer on its way; what     *)
(* waits is of the current sale too: the reader can never stall or answer  *)
(* the same reading twice (_scan_inflight against ScanQueue._active).      *)
ACaminho == lendo \cup {respostas[i] : i \in 1..Len(respostas)}
FilaCoerente ==
    /\ inflight = fila.ativo
    /\ inflight # Nenhum => inflight \in ACaminho
    /\ \A t \in {fila.ativo} \ {Nenhum} : t.geracao = fila.geracao
    /\ \A i \in 1..Len(fila.pendentes) :
          fila.pendentes[i].geracao = fila.geracao

(* A code read for an earlier sale never reaches the cart of a later one   *)
(* by itself, however late its look-up answers.                            *)
LeituraDaVenda ==
    \A l \in carrinho : l.lidas \subseteq {fila.geracao}

(* However often a payment is confirmed again after an answer that was     *)
(* lost, one opening of the payment makes one sale.                        *)
PedidoUnico == \A v, w \in vendas : v.pedido = w.pedido => v = w

(* The screen offers to cancel a sale of its own session, and no longer    *)
(* once that sale is cancelled.                                            *)
UltimaDaSessao ==
    ultima.venda # 0 =>
        /\ \E v \in vendas : v.chave = ultima.venda /\ v.sessao = sessao
        /\ ultima.cancelada <=> ultima.venda \in canceladas

(* No dialog of the sale screen outlives its session: nobody confirms the  *)
(* payment another operator opened.                                        *)
DialogoDaSessao ==
    \A d \in dialogos : d.tipo # "sair" => Viva /\ d.sessao = sessao

(* If dialogs stop being in the way the reader catches up with the codes   *)
(* it was given, and payment is free again.                                *)
LeitorEscoa ==
    <>[](foco = 0 /\ Viva) => []<>(~ocupado /\ ~HasPending(fila))

(* A double click or an impatient key must never submit the same cart      *)
(* twice (ui/dialogs.py:642): no line of a cart is sold by two sales.      *)
CarrinhoVendidoUmaVez ==
    \A v, w \in vendas :
        v # w /\ v.sessao = w.sessao => v.itens \cap w.itens = {}

(* What belongs to an old sale is invalidated (ui/scan_queue.py:18): a     *)
(* line comes from a dialog opened for the sale it is in.                  *)
FichaDaVenda ==
    \A l \in carrinho : l.fichas \subseteq {fila.geracao}

(* The sale that is cancelled is the one that was the last when the        *)
(* operator asked for the cancellation.                                    *)
CancelaAPedida ==
    [][\A d \in dialogos : CancelLastSale(d) => d.ref.chave = ultima.venda]_vars

(* The drawer is not closed with a sale going on (ui/views.py:1181).       *)
FechaSemCarrinho == [][caixa /\ ~caixa' /\ tela' = tela => carrinho = {}]_vars
=============================================================================
