------------------------------ MODULE Checkout ------------------------------
(***************************************************************************)
(* The quotation of services/checkout.py: from the lines a counter sends   *)
(* and the catalogue a transaction sees to the priced lines, the total and *)
(* whether an administrator must authorize the sale.                       *)
(*                                                                         *)
(* Money is in cents and quantities are in thousandths, the scaled         *)
(* integers the code computes with.  An item of a cart is                  *)
(*   [tipo, gtin, unidade, quantidade, preco]                              *)
(* where a catalogue item ignores its unidade and may leave preco out      *)
(* (Nulo), and a manual item has gtin = Nulo.                              *)
(***************************************************************************)
EXTENDS Integers, Sequences, Functions

CONSTANTS
    Nulo,           \* SQL NULL, Python None
    LimiteManual    \* MANUAL_TOTAL_WITHOUT_AUTHORIZATION, in cents

ASSUME LimiteAssumption == LimiteManual \in Nat

Unidade == {"UN", "KG"}

-----------------------------------------------------------------------------
\* divmod(price * millis, 1000), rounding half up.
LineSubtotal(preco, quantidade) ==
    LET numerador == preco * quantidade
    IN  (numerador \div 1000) + (IF (numerador % 1000) * 2 >= 1000 THEN 1 ELSE 0)

\* Units are whole; weight has three decimals, every one of them allowed.
QuantidadeValida(quantidade, unidade) ==
    quantidade > 0 /\ (unidade = "UN" => quantidade % 1000 = 0)

\* Mutant: the price of the cart is recorded as that of the catalogue.
LinhaPrecoDoCarrinho(produto, item) ==
    LET preco == IF item.preco = Nulo THEN produto.preco ELSE item.preco
    IN  [tipo |-> "CATALOGO", gtin |-> item.gtin, unidade |-> produto.unidade,
         quantidade |-> item.quantidade, preco |-> preco, original |-> preco,
         subtotal |-> LineSubtotal(preco, item.quantidade)]

CatalogLine(produto, item) ==
    LET preco == IF item.preco = Nulo THEN produto.preco ELSE item.preco
    IN  [tipo |-> "CATALOGO", gtin |-> item.gtin, unidade |-> produto.unidade,
         quantidade |-> item.quantidade, preco |-> preco,
         original |-> produto.preco,
         subtotal |-> LineSubtotal(preco, item.quantidade)]

CatalogLineOK(produto, item) ==
    /\ produto.existe
    /\ produto.ativo
    /\ produto.preco > 0
    /\ QuantidadeValida(item.quantidade, produto.unidade)
    /\ item.preco # Nulo => item.preco > 0
    /\ CatalogLine(produto, item).subtotal > 0

ManualLine(item) ==
    [tipo |-> "MANUAL", gtin |-> Nulo, unidade |-> item.unidade,
     quantidade |-> item.quantidade, preco |-> item.preco, original |-> Nulo,
     subtotal |-> LineSubtotal(item.preco, item.quantidade)]

ManualLineOK(item) ==
    /\ QuantidadeValida(item.quantidade, item.unidade)
    /\ item.preco # Nulo
    /\ item.preco > 0
    /\ ManualLine(item).subtotal > 0

-----------------------------------------------------------------------------
\* quote_lines accepts a cart that is not empty and whose every line is valid.
Cotavel(produtos, itens) ==
    /\ itens # <<>>
    /\ \A i \in DOMAIN itens :
         IF itens[i].tipo = "CATALOGO"
         THEN CatalogLineOK(produtos[itens[i].gtin], itens[i])
         ELSE ManualLineOK(itens[i])

QuoteLines(produtos, itens) ==
    [i \in DOMAIN itens |->
       IF itens[i].tipo = "CATALOGO"
       THEN CatalogLine(produtos[itens[i].gtin], itens[i])
       ELSE ManualLine(itens[i])]

Total(linhas) == SumFunction([i \in DOMAIN linhas |-> linhas[i].subtotal])

LinhasManuais(linhas) == {i \in DOMAIN linhas : linhas[i].tipo = "MANUAL"}

TotalManual(linhas) ==
    SumFunction([i \in LinhasManuais(linhas) |-> linhas[i].subtotal])

HasPriceException(linha) ==
    linha.tipo = "CATALOGO" /\ linha.preco # linha.original

\* Mutant: the manual limit is compared line by line.
AutorizacaoPorLinha(linhas) ==
    \E i \in DOMAIN linhas :
        \/ HasPriceException(linhas[i])
        \/ linhas[i].tipo = "MANUAL" /\ linhas[i].subtotal > LimiteManual

RequiresAuthorization(linhas) ==
    \/ \E i \in DOMAIN linhas : HasPriceException(linhas[i])
    \/ TotalManual(linhas) > LimiteManual

\* SUM(quantidade) of the catalogue lines of one product, in thousandths.
LinhasDe(linhas, gtin) ==
    {i \in DOMAIN linhas : linhas[i].tipo = "CATALOGO" /\ linhas[i].gtin = gtin}

Quantidade(linhas, gtin) ==
    SumFunction([i \in LinhasDe(linhas, gtin) |-> linhas[i].quantidade])
=============================================================================
