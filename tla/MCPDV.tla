------------------------------- MODULE MCPDV -------------------------------
(***************************************************************************)
(* Small instances of PDV for TLC: two carts of catalogue products, by     *)
(* unit and by weight, and manual carts on both sides of the limit.        *)
(***************************************************************************)
EXTENDS PDVGaveta

CONSTANTS adm, op, pao, queijo

PerfilMC == [u \in Usuario |-> IF u = adm THEN "admin" ELSE "caixa"]

\* pao is sold by unit at 1.00 and queijo by weight at 12.50; both controlled.
CatalogoMC ==
    [g \in Produto |->
       [existe |-> TRUE, ativo |-> TRUE, controlado |-> TRUE,
        preco |-> IF g = pao THEN 100 ELSE 1250,
        estoque |-> IF g = pao THEN 2000 ELSE 500,
        unidade |-> IF g = pao THEN "UN" ELSE "KG"]]

Catalogado(g, quantidade, preco) ==
    [tipo |-> "CATALOGO", gtin |-> g, unidade |-> "UN",
     quantidade |-> quantidade, preco |-> preco]

Avulso(preco) ==
    [tipo |-> "MANUAL", gtin |-> Nulo, unidade |-> "UN", quantidade |-> 1000,
     preco |-> preco]

\* A weighed product, and manual lines whose sum crosses the limit although
\* neither does.
CarrinhosGaveta ==
    {<<Catalogado(queijo, 250, Nulo)>>, <<Avulso(3000), Avulso(3000)>>}

\* One unit, or the same product in two lines, at the price of the start.
CarrinhosEstoque ==
    {<<Catalogado(pao, 1000, 100)>>,
     <<Catalogado(pao, 1000, 100), Catalogado(pao, 1000, 100)>>}

SemMudanca ==
    [ativo |-> Nulo, preco |-> Nulo, estoque |-> Nulo, controlado |-> Nulo,
     unidade |-> Nulo]

\* A price change, an absolute stock, a product taken off sale and back, and
\* stock control turned off and on.
EdicoesGerais ==
    {[SemMudanca EXCEPT !.preco = 200], [SemMudanca EXCEPT !.estoque = 1000],
     [SemMudanca EXCEPT !.ativo = FALSE], [SemMudanca EXCEPT !.ativo = TRUE],
     [SemMudanca EXCEPT !.controlado = FALSE],
     [SemMudanca EXCEPT !.controlado = TRUE]}

CadastrosMC ==
    {[existe |-> TRUE, ativo |-> TRUE, controlado |-> TRUE, preco |-> 100,
      estoque |-> 1000, unidade |-> "UN"]}

Vazio == {}
AjustesMC == {-1000, 1000}
=============================================================================
