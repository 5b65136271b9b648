----------------------------- MODULE PDVGaveta -----------------------------
(***************************************************************************)
(* The tables of PDV implement the drawer of Gaveta: the owner and the     *)
(* balance are those of the open drawer, the balance being recomputed from *)
(* its rows as _expected_amount does, and the closings are the rows that   *)
(* have closed, with the amounts stored in them.                           *)
(***************************************************************************)
EXTENDS PDV

DonoAberto ==
    IF Abertos = {} THEN Nulo ELSE caixas[CHOOSE c \in Abertos : TRUE].usuario

SaldoAberto ==
    IF Abertos = {} THEN 0 ELSE ExpectedAmount(CHOOSE c \in Abertos : TRUE)

RecebidosAbertos ==
    [v \in {v \in DOMAIN vendas : /\ vendas[v].caixa \in Abertos
                                 /\ vendas[v].pagamento = "Dinheiro"
                                 /\ vendas[v].status = "CONFIRMADA"} |->
       vendas[v].total]

FechamentosGravados ==
    [c \in DOMAIN caixas \ Abertos |->
       [dono |-> caixas[c].usuario, valor |-> caixas[c].esperado]]

GavetaFisica ==
    INSTANCE Gaveta WITH SemDono <- Nulo, dono <- DonoAberto,
        saldo <- SaldoAberto, recebidos <- RecebidosAbertos,
        fechamentos <- FechamentosGravados

(* The cash drawer of the code is the abstract drawer: whatever is sold,   *)
(* moved, cancelled or repeated, in whatever order, its balance moves only *)
(* while it is open, a cash sale is reversed at most once and before the   *)
(* closing, and each closing records the balance of its moment for good.   *)
ImplementaGaveta == GavetaFisica!Spec
=============================================================================
