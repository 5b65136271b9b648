------------------------------- MODULE Gaveta -------------------------------
(***************************************************************************)
(* What the cash module promises of the one physical drawer, without       *)
(* tables: it has an owner while it is open and a balance that moves only  *)
(* while it is open; a cash receipt may be reversed once, and only before  *)
(* the drawer closes; closing writes the balance of that moment in a list  *)
(* nothing is ever removed from.                                           *)
(***************************************************************************)
EXTENDS Integers, Sequences

CONSTANT SemDono

VARIABLES
    dono,           \* who opened the drawer, or SemDono
    saldo,          \* its balance, in cents
    recebidos,      \* cash receipts of this opening that may be reversed
    fechamentos     \* owner and balance of every closing

vars == <<dono, saldo, recebidos, fechamentos>>

Init ==
    /\ dono = SemDono
    /\ saldo = 0
    /\ recebidos = <<>>
    /\ fechamentos = <<>>

Abrir ==
    /\ dono = SemDono
    /\ dono' # SemDono
    /\ saldo' \in Nat
    /\ UNCHANGED <<recebidos, fechamentos>>

\* Cash put in or taken out without a sale.
Movimentar ==
    /\ dono # SemDono
    /\ saldo' \in Int \ {saldo}
    /\ UNCHANGED <<dono, recebidos, fechamentos>>

Receber ==
    /\ dono # SemDono
    /\ \E r \in DOMAIN recebidos' \ DOMAIN recebidos :
         /\ DOMAIN recebidos' = DOMAIN recebidos \cup {r}
         /\ \A s \in DOMAIN recebidos : recebidos'[s] = recebidos[s]
         /\ recebidos'[r] > 0
         /\ saldo' = saldo + recebidos'[r]
    /\ UNCHANGED <<dono, fechamentos>>

Estornar ==
    /\ dono # SemDono
    /\ \E r \in DOMAIN recebidos :
         /\ recebidos' = [s \in DOMAIN recebidos \ {r} |-> recebidos[s]]
         /\ saldo' = saldo - recebidos[r]
    /\ UNCHANGED <<dono, fechamentos>>

Fechar ==
    /\ dono # SemDono
    /\ saldo \in Nat
    /\ fechamentos' = Append(fechamentos, [dono |-> dono, valor |-> saldo])
    /\ dono' = SemDono
    /\ saldo' = 0
    /\ recebidos' = <<>>

Next == Abrir \/ Movimentar \/ Receber \/ Estornar \/ Fechar

Spec == Init /\ [][Next]_vars
=============================================================================
