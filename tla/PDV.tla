-------------------------------- MODULE PDV --------------------------------
(***************************************************************************)
(* The point of sale behind the counter: the one cash drawer, its          *)
(* movements, the sales and their cancellation, the catalogue they draw    *)
(* from, and the receipt and backup jobs written with them                 *)
(* (services/cash.py, services/sales.py, services/products.py).            *)
(*                                                                         *)
(* Every operation of a service is one BEGIN IMMEDIATE transaction on the  *)
(* same SQLite file, so it is one action; an exception rolls it back, so a *)
(* refused call is a call that takes no step.  Tables with an AUTOINCREMENT*)
(* key are sequences, the key being the position.  The audit log, written  *)
(* by every operation in its transaction and read by none, is left out.    *)
(***************************************************************************)
EXTENDS Usuarios, Checkout

CONSTANTS
    Produto,            \* product codes
    ProdutosIniciais,   \* the catalogue found at start
    Carrinhos,          \* carts a counter sends
    Fundos, Valores, Contagens, Recebidos,  \* amounts typed by people, in cents
    Cadastros,          \* products an administrator may register
    Edicoes,            \* changes an administrator may send (Nulo: not sent)
    Ajustes,            \* stock deltas an administrator may send
    ChavesVenda, ChavesMovimento, ChavesCancelamento, ChavesVia,
    Pagamentos,         \* payment methods in use
    Motivos,            \* justifications
    Contextos           \* receipt settings; Nulo when the printer is off

CONSTANTS MaxCaixas, MaxVendas, MaxMovimentos, MaxVias, MaxEstoque  \* bounds

FormaPagamento == {"Dinheiro", "PIX", "Cartao"}

ProdutoT ==
    [existe : BOOLEAN, ativo : BOOLEAN, preco : Nat, estoque : Nat,
     controlado : BOOLEAN, unidade : Unidade]

EdicaoT ==
    [ativo : BOOLEAN \cup {Nulo}, preco : Nat \cup {Nulo},
     estoque : Nat \cup {Nulo}, controlado : BOOLEAN \cup {Nulo},
     unidade : Unidade \cup {Nulo}]

ItemT ==
    [tipo : {"CATALOGO", "MANUAL"}, gtin : Produto \cup {Nulo},
     unidade : Unidade, quantidade : Nat \ {0}, preco : Nat \cup {Nulo}]

ASSUME PDVAssumption ==
    /\ ProdutosIniciais \in [Produto -> ProdutoT]
    /\ Cadastros \subseteq ProdutoT
    /\ Edicoes \subseteq EdicaoT
    /\ Carrinhos \subseteq Seq(ItemT)
    /\ Fundos \subseteq Nat /\ Contagens \subseteq Nat /\ Recebidos \subseteq Nat
    /\ Valores \subseteq Nat \ {0} /\ MaxEstoque \in Nat
    /\ Ajustes \subseteq Int
    /\ Pagamentos \subseteq FormaPagamento
    /\ Nulo \notin Usuario \cup ChavesCancelamento \cup ChavesVia \cup Motivos
    \* The counter makes the key of a second copy at random, never ORIGINAL-n.
    /\ \A chave \in ChavesVia : chave \notin {"ORIGINAL"} \X Nat

\* A cart names products the counter found.
ASSUME CarrinhosAssumption ==
    \A itens \in Carrinhos : \A i \in DOMAIN itens :
        itens[i].tipo = "CATALOGO" => itens[i].gtin \in Produto

VARIABLES
    produtos,           \* the catalogue
    caixas,             \* cash drawers, one per opening
    movimentacoes,      \* cash put into or taken out of a drawer
    vendas,             \* sales with their lines
    cancelamentos,      \* cancellations of sales
    impressoes,         \* receipt jobs (impressao_outbox)
    backups             \* drawers with a job in backups_caixa

livros == <<caixas, movimentacoes, vendas, cancelamentos, impressoes, backups>>
vars == <<usuarios, produtos, livros>>

-----------------------------------------------------------------------------
(* What a drawer should hold: opening amount, plus supplies, minus         *)
(* withdrawals, plus the cash sales that stand (_expected_amount).         *)

Movimentos(c, tipo) ==
    {m \in DOMAIN movimentacoes :
        movimentacoes[m].caixa = c /\ movimentacoes[m].tipo = tipo}

\* Mutant: cancelled sales stay in the drawer.
VendasEmDinheiroTodas(c) ==
    {v \in DOMAIN vendas :
        vendas[v].caixa = c /\ vendas[v].pagamento = "Dinheiro"}

VendasDinheiro(c) ==
    {v \in DOMAIN vendas :
        /\ vendas[v].caixa = c
        /\ vendas[v].status = "CONFIRMADA"
        /\ vendas[v].pagamento = "Dinheiro"}

SomaMovimentos(c, tipo) ==
    SumFunction([m \in Movimentos(c, tipo) |-> movimentacoes[m].valor])

SomaVendas(c) == SumFunction([v \in VendasDinheiro(c) |-> vendas[v].total])

ExpectedAmount(c) ==
    caixas[c].fundo + SomaMovimentos(c, "SUPRIMENTO")
                    - SomaMovimentos(c, "SANGRIA") + SomaVendas(c)

Abertos == {c \in DOMAIN caixas : caixas[c].status = "ABERTO"}

\* Mutant: repeated requests are not recognised.
ChaveIgnorada(tabela, chave) == {}

\* The row a repeated request finds by its key; a request may carry none.
MesmaChave(tabela, chave) ==
    {i \in DOMAIN tabela : chave # Nulo /\ tabela[i].chave = chave}

-----------------------------------------------------------------------------
(* Cash service                                                            *)

\* Mutant: one open drawer per owner.
GavetaLivrePorDono(dono) == \A c \in Abertos : caixas[c].usuario # dono

\* No drawer is open, whoever asks; the index uq_caixa_aberto_global says it too.
GavetaLivre(dono) == Abertos = {}

OpenCash(a, dono, fundo) ==
    /\ Len(caixas) < MaxCaixas
    /\ CanAccessCash(a, dono)
    /\ ActiveUser(dono)
    /\ GavetaLivre(dono)
    /\ caixas' = Append(caixas,
                   [usuario |-> dono, fundo |-> fundo, status |-> "ABERTO",
                    informado |-> Nulo, esperado |-> Nulo, justificado |-> FALSE])
    /\ UNCHANGED <<usuarios, produtos, movimentacoes, vendas, cancelamentos,
                   impressoes, backups>>

\* The key of a repeated request answers the stored movement and writes nothing.
AddMovement(a, c, tipo, valor, chave) ==
    LET novo == [caixa |-> c, usuario |-> a, tipo |-> tipo, valor |-> valor,
                 chave |-> chave]
        mesma == MesmaChave(movimentacoes, chave)
    IN  /\ c \in Abertos
        /\ CanAccessCash(a, caixas[c].usuario)
        /\ \/ \E m \in mesma : movimentacoes[m] = novo /\ UNCHANGED vars
           \/ /\ mesma = {}
              /\ Len(movimentacoes) < MaxMovimentos
              /\ movimentacoes' = Append(movimentacoes, novo)
              /\ UNCHANGED <<usuarios, produtos, caixas, vendas, cancelamentos,
                             impressoes, backups>>

\* Mutant: any expected amount may be recorded.
ApuravelSempre(c) == ExpectedAmount(c) \in Int

\* money() refuses a negative expected amount, and whatever asked for it.
Apuravel(c) == ExpectedAmount(c) \in Nat

Fechado(caixa, contado, esperado, justificado) ==
    [caixa EXCEPT !.status = "FECHADO", !.informado = contado,
                  !.esperado = esperado, !.justificado = justificado]

\* A count that differs from the expected amount must be justified.
CloseCash(a, c, contado, justificado) ==
    /\ c \in Abertos
    /\ CanAccessCash(a, caixas[c].usuario)
    /\ Apuravel(c)
    /\ contado # ExpectedAmount(c) => justificado
    /\ caixas' = [caixas EXCEPT ![c] =
                    Fechado(@, contado, ExpectedAmount(c), justificado)]
    /\ backups' = backups \cup {c}
    /\ UNCHANGED <<usuarios, produtos, movimentacoes, vendas, cancelamentos,
                   impressoes>>

-----------------------------------------------------------------------------
(* Receipt jobs: the original is written with the sale, a second copy on   *)
(* request.  The key of a repeated copy must come with the same data.      *)

OriginalJob(v, u, contexto) ==
    [venda |-> v, tipo |-> "ORIGINAL", usuario |-> u,
     chave |-> <<"ORIGINAL", v>>, contexto |-> contexto]

QueueReceiptCopy(u, v, chave, contexto) ==
    LET novo == [venda |-> v, tipo |-> "SEGUNDA_VIA", usuario |-> u,
                 chave |-> chave, contexto |-> contexto]
        mesma == MesmaChave(impressoes, chave)
    IN  /\ contexto # Nulo
        /\ v \in DOMAIN vendas
        /\ CanAccessCash(u, caixas[vendas[v].caixa].usuario)
        /\ \/ \E j \in mesma : impressoes[j] = novo /\ UNCHANGED vars
           \/ /\ mesma = {}
              /\ Cardinality({j \in DOMAIN impressoes :
                                impressoes[j].tipo = "SEGUNDA_VIA"}) < MaxVias
              /\ impressoes' = Append(impressoes, novo)
              /\ UNCHANGED <<usuarios, produtos, caixas, movimentacoes, vendas,
                             cancelamentos, backups>>

-----------------------------------------------------------------------------
(* Sale service                                                            *)

\* Mutant: the second line of a product overwrites the first.
BaixaUltimaLinha(linhas) ==
    [g \in Produto |->
       IF produtos[g].controlado /\ LinhasDe(linhas, g) # {}
       THEN linhas[CHOOSE i \in LinhasDe(linhas, g) : TRUE].quantidade ELSE 0]

\* What the UPDATEs of a sale take from each product: only controlled stock.
Baixa(linhas) ==
    [g \in Produto |->
       IF produtos[g].controlado THEN Quantidade(linhas, g) ELSE 0]

\* The data the fingerprint of a sale is computed from.
Fingerprint(venda) ==
    <<venda.caixa, venda.operador, venda.linhas, venda.total, venda.pagamento,
      venda.recebido, venda.autorizador, venda.motivo>>

\* An administrator who sells authorizes the exceptions by default.
Autorizador(u, linhas, autorizador) ==
    IF RequiresAuthorization(linhas) /\ autorizador = Nulo THEN u ELSE autorizador

\* `baixa` is a history variable: what the sale took from the stock.
NovaVenda(u, c, linhas, pagamento, recebido, chave, autorizador, motivo) ==
    [caixa |-> c, operador |-> u, linhas |-> linhas, total |-> Total(linhas),
     pagamento |-> pagamento,
     recebido |-> IF pagamento = "Dinheiro" THEN recebido ELSE Total(linhas),
     autorizador |-> autorizador, motivo |-> motivo, chave |-> chave,
     status |-> "CONFIRMADA", baixa |-> Baixa(linhas)]

\* Mutant: the stock is not compared.
VendeSemEstoque(baixa) == \A g \in Produto : baixa[g] \in Nat

\* The UPDATE of each line requires estoque >= quantidade, or nothing is sold.
EstoqueSuficiente(baixa) == \A g \in Produto : baixa[g] \in 0..produtos[g].estoque

InsertSale(venda, contexto) ==
    /\ Len(vendas) < MaxVendas
    /\ venda.total \in Nat      \* CHECK (total >= 0)
    /\ EstoqueSuficiente(venda.baixa)
    /\ vendas' = Append(vendas, venda)
    /\ produtos' = [g \in Produto |->
                      [produtos[g] EXCEPT !.estoque = @ - venda.baixa[g]]]
    /\ impressoes' = IF contexto = Nulo THEN impressoes
                     ELSE Append(impressoes, OriginalJob(Len(vendas) + 1,
                                                         venda.operador, contexto))
    /\ UNCHANGED <<usuarios, caixas, movimentacoes, cancelamentos, backups>>

Finalize(u, c, itens, pagamento, recebido, chave, autorizador, motivo, contexto) ==
    LET linhas == QuoteLines(produtos, itens)
        autor == Autorizador(u, linhas, autorizador)
        nova == NovaVenda(u, c, linhas, pagamento, recebido, chave, autor, motivo)
        mesma == MesmaChave(vendas, chave)
    IN  /\ c \in Abertos
        /\ CanAccessCash(u, caixas[c].usuario)
        /\ Cotavel(produtos, itens)
        /\ IF RequiresAuthorization(linhas)
           THEN autor # Nulo /\ RequireAdmin(autor) /\ motivo # Nulo
           ELSE autor = Nulo /\ motivo = Nulo
        /\ nova.recebido >= nova.total
        /\ \/ \E v \in mesma : /\ Fingerprint(vendas[v]) = Fingerprint(nova)
                               /\ UNCHANGED vars
           \/ mesma = {} /\ InsertSale(nova, contexto)

\* Mutant: only the drawer is checked.
CancelavelOutraVez(v) == caixas[vendas[v].caixa].status = "ABERTO"

\* Mutant: the drawer of the sale is not checked.
CancelavelFechado(v) ==
    /\ \A k \in DOMAIN cancelamentos : cancelamentos[k].venda # v
    /\ vendas[v].status = "CONFIRMADA"

\* Not cancelled before, still confirmed, and its drawer still open.
Cancelavel(v) ==
    /\ \A k \in DOMAIN cancelamentos : cancelamentos[k].venda # v
    /\ vendas[v].status = "CONFIRMADA"
    /\ caixas[vendas[v].caixa].status = "ABERTO"

\* Stock goes back to the products that are controlled now.
CancelSale(u, v, autorizador, motivo, chave) ==
    LET novo == [venda |-> v, operador |-> u, autorizador |-> autorizador,
                 motivo |-> motivo, chave |-> chave]
        mesma == MesmaChave(cancelamentos, chave)
    IN  /\ v \in DOMAIN vendas
        /\ CanAccessCash(u, caixas[vendas[v].caixa].usuario)
        /\ RequireAdmin(autorizador)
        /\ \/ \E k \in mesma : cancelamentos[k] = novo /\ UNCHANGED vars
           \/ /\ mesma = {}
              /\ Cancelavel(v)
              /\ vendas' = [vendas EXCEPT ![v] = [@ EXCEPT !.status = "CANCELADA"]]
              /\ produtos' = [g \in Produto |->
                                [produtos[g] EXCEPT !.estoque =
                                   @ + Baixa(vendas[v].linhas)[g]]]
              /\ cancelamentos' = Append(cancelamentos, novo)
              /\ UNCHANGED <<usuarios, caixas, movimentacoes, impressoes, backups>>

-----------------------------------------------------------------------------
(* Product service                                                         *)

CreateProduct(a, g, cadastro) ==
    /\ RequireAdmin(a)
    /\ ~produtos[g].existe
    /\ cadastro.existe
    /\ produtos' = [produtos EXCEPT ![g] = cadastro]
    /\ UNCHANGED <<usuarios, livros>>

Novo(valor, atual) == IF valor = Nulo THEN atual ELSE valor

\* Only the fields sent change; the stock of the editor is an absolute value.
UpdateProduct(a, g, edicao) ==
    /\ RequireAdmin(a)
    /\ produtos[g].existe
    /\ produtos' = [produtos EXCEPT ![g] =
                      [existe |-> TRUE,
                       ativo |-> Novo(edicao.ativo, @.ativo),
                       preco |-> Novo(edicao.preco, @.preco),
                       estoque |-> Novo(edicao.estoque, @.estoque),
                       controlado |-> Novo(edicao.controlado, @.controlado),
                       unidade |-> Novo(edicao.unidade, @.unidade)]]
    /\ UNCHANGED <<usuarios, livros>>

AdjustStock(a, g, delta) ==
    /\ RequireAdmin(a)
    /\ produtos[g].existe
    /\ produtos[g].estoque + delta \in 0..MaxEstoque
    /\ produtos' = [produtos EXCEPT ![g].estoque = @ + delta]
    /\ UNCHANGED <<usuarios, livros>>

\* A product some sale names stays for the history, inactive.
Vendido(g) == \E v \in DOMAIN vendas : LinhasDe(vendas[v].linhas, g) # {}

DeleteProduct(a, g) ==
    /\ RequireAdmin(a)
    /\ produtos[g].existe
    /\ produtos' = IF Vendido(g) THEN [produtos EXCEPT ![g].ativo = FALSE]
                   ELSE [produtos EXCEPT ![g].existe = FALSE]
    /\ UNCHANGED <<usuarios, livros>>

-----------------------------------------------------------------------------
Init ==
    /\ UsuariosInit
    /\ produtos = ProdutosIniciais
    /\ caixas = <<>> /\ movimentacoes = <<>>
    /\ vendas = <<>> /\ cancelamentos = <<>>
    /\ impressoes = <<>> /\ backups = {}

CashNext ==
    \E a \in Usuario :
        \/ \E dono \in Usuario, fundo \in Fundos : OpenCash(a, dono, fundo)
        \/ \E c \in DOMAIN caixas :
             \/ \E tipo \in {"SUPRIMENTO", "SANGRIA"}, valor \in Valores,
                   chave \in ChavesMovimento : AddMovement(a, c, tipo, valor, chave)
             \/ \E contado \in Contagens, justificado \in BOOLEAN :
                   CloseCash(a, c, contado, justificado)

SaleNext ==
    \E u \in Usuario :
        \/ \E c \in DOMAIN caixas, itens \in Carrinhos,
              pagamento \in Pagamentos, recebido \in Recebidos,
              chave \in ChavesVenda, autorizador \in Usuario \cup {Nulo},
              motivo \in Motivos \cup {Nulo}, contexto \in Contextos :
             Finalize(u, c, itens, pagamento, recebido, chave, autorizador,
                      motivo, contexto)
        \/ \E v \in DOMAIN vendas, autorizador \in Usuario, motivo \in Motivos,
              chave \in ChavesCancelamento :
             CancelSale(u, v, autorizador, motivo, chave)
        \/ \E v \in DOMAIN vendas, chave \in ChavesVia, contexto \in Contextos :
             QueueReceiptCopy(u, v, chave, contexto)

ProductNext ==
    \E a \in Usuario, g \in Produto :
        \/ \E cadastro \in Cadastros : CreateProduct(a, g, cadastro)
        \/ \E edicao \in Edicoes : UpdateProduct(a, g, edicao)
        \/ \E delta \in Ajustes : AdjustStock(a, g, delta)
        \/ DeleteProduct(a, g)

UserNext == UsuariosNext /\ UNCHANGED <<produtos, livros>>

Next == CashNext \/ SaleNext \/ ProductNext \/ UserNext

Spec == Init /\ [][Next]_vars

-----------------------------------------------------------------------------
(* Properties                                                              *)

CaixaT ==
    [usuario : Usuario, fundo : Nat, status : {"ABERTO", "FECHADO"},
     informado : Nat \cup {Nulo}, esperado : Nat \cup {Nulo},
     justificado : BOOLEAN]

MovimentoT ==
    [caixa : Nat \ {0}, usuario : Usuario, tipo : {"SUPRIMENTO", "SANGRIA"},
     valor : Nat \ {0}, chave : ChavesMovimento]

LinhaT ==
    [tipo : {"CATALOGO", "MANUAL"}, gtin : Produto \cup {Nulo},
     unidade : Unidade, quantidade : Nat \ {0}, preco : Nat, original : Nat \cup {Nulo},
     subtotal : Nat]

VendaT ==
    [caixa : Nat \ {0}, operador : Usuario, linhas : Seq(LinhaT), total : Nat,
     pagamento : FormaPagamento, recebido : Nat,
     autorizador : Usuario \cup {Nulo}, motivo : Motivos \cup {Nulo},
     chave : ChavesVenda, status : {"CONFIRMADA", "CANCELADA"},
     baixa : [Produto -> Nat]]

CancelamentoT ==
    [venda : Nat \ {0}, operador : Usuario, autorizador : Usuario,
     motivo : Motivos, chave : ChavesCancelamento]

ImpressaoT ==
    [venda : Nat \ {0}, tipo : {"ORIGINAL", "SEGUNDA_VIA"}, usuario : Usuario,
     chave : ChavesVia \cup ({"ORIGINAL"} \X (Nat \ {0})), contexto : Contextos \ {Nulo}]

(* Every table holds rows of its type, and every foreign key names a row.  *)
(* The stock, in particular, is never negative.                            *)
TypeOK ==
    /\ UsuariosTypeOK
    /\ produtos \in [Produto -> ProdutoT]
    /\ caixas \in Seq(CaixaT)
    /\ movimentacoes \in Seq(MovimentoT)
    /\ vendas \in Seq(VendaT)
    /\ cancelamentos \in Seq(CancelamentoT)
    /\ impressoes \in Seq(ImpressaoT)
    /\ backups \subseteq DOMAIN caixas
    /\ \A m \in DOMAIN movimentacoes : movimentacoes[m].caixa \in DOMAIN caixas
    /\ \A v \in DOMAIN vendas : vendas[v].caixa \in DOMAIN caixas
    /\ \A k \in DOMAIN cancelamentos : cancelamentos[k].venda \in DOMAIN vendas
    /\ \A j \in DOMAIN impressoes : impressoes[j].venda \in DOMAIN vendas

(* There is one physical drawer: whoever opens it, no second one is open.  *)
CaixaUnico == \A c, d \in Abertos : c = d

(* A closing stays true of the books for ever: the expected amount written *)
(* when the drawer closed is what its rows add up to now, so no movement,  *)
(* sale or cancellation reaches a closed drawer; a count that differs from *)
(* it carries a justification; and exactly the closed drawers have a       *)
(* backup job, written in the transaction that closed them.                *)
FechamentoConsolidado ==
    \A c \in DOMAIN caixas :
        /\ c \in backups <=> caixas[c].status = "FECHADO"
        /\ caixas[c].status = "FECHADO" =>
             /\ caixas[c].esperado = ExpectedAmount(c)
             /\ caixas[c].informado # ExpectedAmount(c) => caixas[c].justificado

UnicaPorChave(tabela) ==
    \A i, j \in DOMAIN tabela :
        tabela[i].chave # Nulo /\ tabela[i].chave = tabela[j].chave => i = j

(* However often a confirmation is sent again, its key names one movement, *)
(* one sale, one cancellation and one receipt; and each sale has at most   *)
(* one original receipt.                                                   *)
ConfirmacaoUnica ==
    /\ UnicaPorChave(movimentacoes)
    /\ UnicaPorChave(vendas)
    /\ UnicaPorChave(cancelamentos)
    /\ UnicaPorChave(impressoes)

(* A sale is cancelled exactly when one cancellation, and only one, names  *)
(* it; the administrator who authorized it is on record.                   *)
CancelamentoUnico ==
    /\ \A v \in DOMAIN vendas :
         vendas[v].status = "CANCELADA" <=>
           \E k \in DOMAIN cancelamentos : cancelamentos[k].venda = v
    /\ \A i, k \in DOMAIN cancelamentos :
         cancelamentos[i].venda = cancelamentos[k].venda => i = k
    /\ \A k \in DOMAIN cancelamentos : Perfil[cancelamentos[k].autorizador] = "admin"

(* A sale whose prices differ from the catalogue it was sold from, or whose*)
(* manual lines exceed the limit, names an administrator and a reason, and *)
(* no other sale does.                                                     *)
ExcecaoAutorizada ==
    \A v \in DOMAIN vendas :
        IF \/ \E i \in DOMAIN vendas[v].linhas : HasPriceException(vendas[v].linhas[i])
           \/ TotalManual(vendas[v].linhas) > LimiteManual
        THEN /\ vendas[v].autorizador \in Usuario
             /\ Perfil[vendas[v].autorizador] = "admin"
             /\ vendas[v].motivo # Nulo
        ELSE vendas[v].autorizador = Nulo /\ vendas[v].motivo = Nulo

Saida(v, g) ==
    IF vendas[v].status = "CONFIRMADA" THEN Quantidade(vendas[v].linhas, g) ELSE 0

\* Stock of a product plus what the standing sales hold of it.
Saldo(g) == produtos[g].estoque + SumFunction([v \in DOMAIN vendas |-> Saida(v, g)])

SaldoConservado ==
    livros' # livros =>
      \A g \in Produto : produtos[g].controlado => Saldo(g)' = Saldo(g)

(* What writes in the books only moves stock of a controlled product       *)
(* between the shelf and the standing sales: nothing is created or lost by *)
(* a cart with the same product twice, a cancellation or a repeated call.  *)
EstoqueConciliado == [][SaldoConservado]_vars

VendaAoPrecoVigente ==
    \A v \in DOMAIN vendas' \ DOMAIN vendas :
      \A i \in {i \in DOMAIN vendas'[v].linhas : vendas'[v].linhas[i].tipo = "CATALOGO"} :
        LET linha == vendas'[v].linhas[i]
            vigente == produtos[linha.gtin].preco
        IN  /\ linha.original = vigente
            /\ linha.preco # vigente => RequireAdmin(vendas'[v].autorizador)

(* A cart filled before a price change cannot sell at the old price: each  *)
(* line of a new sale records the price in force when it is written, and a *)
(* line sold at another one has an administrator able to act behind it.    *)
PrecoVigente == [][VendaAoPrecoVigente]_vars

(* A cancellation gives back to the stock exactly what its sale had taken. *)
CancelamentoRepoeBaixa ==
    [][\A v \in DOMAIN vendas :
         vendas[v].status = "CONFIRMADA" /\ vendas'[v].status = "CANCELADA" =>
           \A g \in Produto :
             produtos'[g].estoque = produtos[g].estoque + vendas[v].baixa[g]]_vars

(* The expected amount of the open drawer can be computed and shown: it is *)
(* not negative.                                                           *)
ValorVisivel == \A c \in Abertos : ExpectedAmount(c) \in Nat

\* The cart a counter sent, rebuilt from the stored lines.
Pedido(v) ==
    [i \in DOMAIN vendas[v].linhas |->
       LET linha == vendas[v].linhas[i]
       IN  [tipo |-> linha.tipo, gtin |-> linha.gtin, unidade |-> linha.unidade,
            quantidade |-> linha.quantidade, preco |-> linha.preco]]

(* The exact repetition of a confirmed sale, by an operator still able to  *)
(* act, is answered.                                                       *)
RepeticaoAceita ==
    \A v \in DOMAIN vendas :
        LET venda == vendas[v]
        IN  ActiveUser(venda.operador) /\ venda.chave # Nulo =>
              ENABLED Finalize(venda.operador, venda.caixa, Pedido(v),
                               venda.pagamento, venda.recebido, venda.chave,
                               venda.autorizador, venda.motivo, Nulo)
=============================================================================
