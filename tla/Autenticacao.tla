---------------------------- MODULE Autenticacao ----------------------------
(***************************************************************************)
(* Proofs of identity and the session of the counter                       *)
(* (services/rate_limit.py, services/auth.py, the session of               *)
(* services/pdv_service.py, LoginView of ui/views.py): the limiter that    *)
(* counts wrong passwords of an account whatever asked for them, the block *)
(* that follows, the recovery by code that a block makes available, and    *)
(* the operator who holds the session.                                     *)
(*                                                                         *)
(* A login, a recovery and the question whether recovery is available read *)
(* the clock before they wait for the write lock: they are calls in        *)
(* flight, with the time they read.  The other proofs read it inside their *)
(* transaction and are one step.  Time goes in ticks, Segundo of them to   *)
(* the second that is stored.                                              *)
(***************************************************************************)
EXTENDS Usuarios, Sequences

CONSTANTS
    Segundo,      \* ticks in a second
    Limiar,       \* wrong proofs that block: 5
    Janela,       \* ticks they are counted in: 15 minutes
    Bloqueio,     \* ticks a wrong password blocks: 15 minutes
    BloqueioRec,  \* ticks a wrong code blocks: 30 minutes
    Espera,       \* ticks a call may wait for the lock: 10 seconds
    Nulo,         \* no session
    Alvos,        \* bound: accounts that wrong proofs are tried on
    MaxTempo,     \* bound: ticks
    MaxPedidos,   \* bound: calls in flight
    MaxCodigos    \* bound: recovery codes of an account

ASSUME AutenticacaoAssumption ==
    /\ {Segundo, Limiar, Janela, Bloqueio, BloqueioRec} \subseteq Nat \ {0}
    /\ {Espera, MaxTempo, MaxPedidos, MaxCodigos} \subseteq Nat
    /\ Nulo \notin Usuario /\ Alvos \subseteq Usuario

VARIABLES
    agora,     \* the clock
    login,     \* the limiter of passwords, of each account
    recup,     \* the limiter of recovery codes
    codigo,    \* number of the recovery code in force, 0 when none was made
    pedidos,   \* calls that have read the clock and wait for the lock
    sessao,    \* _current_user of PDVService
    erros,     \* history: when the last wrong passwords were compared
    usos       \* history: times each recovery code was accepted

limites == <<login, recup, codigo, erros, usos>>
autvars == <<usuarios, agora, limites, pedidos, sessao>>

-----------------------------------------------------------------------------
(* RateLimitState.  Nunca stands for None.                                 *)

Nunca == -1
Limpo == [falhas |-> 0, janela |-> Nunca, bloqueio |-> Nunca]
Estado == [falhas: 0..Limiar, janela: Int, bloqueio: Int]

\* Mutant: a block is forgotten with the window that brought it.
NormalizadoPorJanela(s, at) ==
    IF s.falhas = 0 \/ s.janela = Nunca \/ at >= s.janela + Janela
    THEN Limpo ELSE s

Normalizado(s, at) ==
    IF s.bloqueio # Nunca
    THEN IF at < s.bloqueio THEN s ELSE Limpo
    ELSE IF s.falhas = 0 \/ s.janela = Nunca \/ at >= s.janela + Janela
         THEN Limpo ELSE s

IsBlocked(s, at) ==
    LET n == Normalizado(s, at) IN n.bloqueio # Nunca /\ at < n.bloqueio

\* format_utc keeps whole seconds.
PersistState(t) == t - (t % Segundo)

RegisterFailure(s, at, bloco) ==
    LET n == Normalizado(s, at)
        f == n.falhas + 1
    IN [falhas   |-> f,
        janela   |-> IF n.janela = Nunca THEN PersistState(at) ELSE n.janela,
        bloqueio |-> IF f >= Limiar THEN PersistState(at + bloco) ELSE Nunca]

Recentes(s) == IF Len(s) <= 2 * Limiar THEN s ELSE Tail(s)

-----------------------------------------------------------------------------
(* One proof of a password, from whatever asks for it.                     *)

Aceita(u, at, certa) == certa /\ ~IsBlocked(login[u], at)

\* Mutant: the password is compared before the block is asked.
ProvaAntesDoBloqueio(u, at, certa) ==
    /\ certa \/ u \in Alvos
    /\ login' = [login EXCEPT ![u] =
          IF certa THEN Limpo ELSE RegisterFailure(@, at, Bloqueio)]
    /\ erros' = [erros EXCEPT ![u] =
          IF certa THEN <<>> ELSE Recentes(Append(@, agora))]

Prova(u, at, certa) ==
    /\ certa \/ u \in Alvos
    /\ login' = [login EXCEPT ![u] =
          IF IsBlocked(@, at) THEN @
          ELSE IF certa THEN Limpo ELSE RegisterFailure(@, at, Bloqueio)]
    /\ erros' = [erros EXCEPT ![u] =
          IF IsBlocked(login[u], at) THEN @
          ELSE IF certa THEN <<>> ELSE Recentes(Append(@, agora))]

Inicia(op, u, c) ==
    /\ Cardinality(pedidos) < MaxPedidos
    /\ pedidos' = pedidos \cup {[op |-> op, conta |-> u, codigo |-> c, at |-> agora]}
    /\ UNCHANGED <<usuarios, agora, limites, sessao>>

(* LoginView is there while nobody has the session.                        *)
PedeLogin(u) == sessao = Nulo /\ Inicia("login", u, 0)
PedeConsulta(u) == u \in Alvos /\ Inicia("consulta", u, 0)

(* A wrong code, the one in force or one that was.                         *)
PedeRecuperacao(u, c) ==
    u \in Alvos /\ c <= codigo[u] /\ Inicia("recupera", u, c)

Conclui(p, op) ==
    /\ p \in pedidos /\ p.op = op
    /\ pedidos' = pedidos \ {p}
    /\ agora' = agora

(* The call has waited for the lock for too long.                          *)
Desiste(p) ==
    /\ p \in pedidos /\ pedidos' = pedidos \ {p}
    /\ UNCHANGED <<usuarios, agora, limites, sessao>>

Authenticate(p, certa) ==
    /\ Conclui(p, "login")
    /\ \/ /\ Ativo(p.conta)
          /\ Prova(p.conta, p.at, certa)
       \/ /\ ~Ativo(p.conta)
          /\ UNCHANGED <<login, erros>>
    /\ sessao' = IF Ativo(p.conta) /\ Aceita(p.conta, p.at, certa)
                 THEN p.conta ELSE Nulo
    /\ UNCHANGED <<usuarios, recup, codigo, usos>>

ComCodigo(u) == Ativo(u) /\ Perfil[u] = "admin" /\ codigo[u] # 0

PasswordRecoveryAvailable(p) ==
    LET u == p.conta
    IN /\ Conclui(p, "consulta")
       /\ login' = IF ComCodigo(u)
                   THEN [login EXCEPT ![u] = Normalizado(@, p.at)] ELSE login
       /\ UNCHANGED <<usuarios, recup, codigo, erros, usos, sessao>>

\* A code is told from another by its issue: whoever recovers types the next one,
\* and only the digits just spent are refused; those of an older one count as a
\* new issue.
NovoCodigo(u) ==
    /\ codigo[u] < MaxCodigos
    /\ codigo' = [codigo EXCEPT ![u] = @ + 1]
    /\ recup' = [recup EXCEPT ![u] = Limpo]

\* Mutant: the code that was accepted stays in force.
CodigoMantido(u) ==
    /\ codigo' = codigo
    /\ recup' = [recup EXCEPT ![u] = Limpo]

CodigoTrocado(u) == NovoCodigo(u)

(* RecoverPasswordWithCode of Usuarios, with what allows it.               *)
Recupera(p) ==
    LET u == p.conta
        n == Normalizado(login[u], p.at)
    IN /\ Conclui(p, "recupera")
       /\ \/ /\ ~(ComCodigo(u) /\ n.falhas >= Limiar)
             /\ login' = IF ComCodigo(u) THEN [login EXCEPT ![u] = n] ELSE login
             /\ UNCHANGED <<usuarios, recup, codigo, erros, usos>>
          \/ /\ ComCodigo(u) /\ n.falhas >= Limiar
             /\ IsBlocked(recup[u], p.at) \/ p.codigo # codigo[u]
             /\ recup' = [recup EXCEPT ![u] =
                   IF IsBlocked(recup[u], p.at) THEN @
                   ELSE RegisterFailure(@, p.at, BloqueioRec)]
             /\ UNCHANGED <<usuarios, login, codigo, erros, usos>>
          \/ /\ ComCodigo(u) /\ n.falhas >= Limiar
             /\ ~IsBlocked(recup[u], p.at) /\ p.codigo = codigo[u]
             /\ RecoverPasswordWithCode(u)
             /\ CodigoTrocado(u)
             /\ login' = [login EXCEPT ![u] = Limpo]
             /\ erros' = [erros EXCEPT ![u] = <<>>]
             /\ usos' = [usos EXCEPT ![u] = Append(@, p.codigo)]
       /\ sessao' = sessao

-----------------------------------------------------------------------------
(* The session.  It belongs to one operator at a time, in the thread of Tk.*)

ChangeOwnPassword(certa) ==
    /\ sessao # Nulo /\ Ativo(sessao)
    /\ Prova(sessao, agora, certa)
    /\ IF Aceita(sessao, agora, certa) THEN ChangePassword(sessao)
                                       ELSE UNCHANGED usuarios
    /\ UNCHANGED <<agora, recup, codigo, usos, pedidos, sessao>>

ConfigureOwnRecoveryCode(certa) ==
    /\ sessao # Nulo /\ RequireAdmin(sessao)
    /\ Prova(sessao, agora, certa)
    /\ IF Aceita(sessao, agora, certa) THEN NovoCodigo(sessao)
                                       ELSE UNCHANGED <<codigo, recup>>
    /\ UNCHANGED <<usuarios, agora, usos, pedidos, sessao>>

(* verify_admin_credentials, in the middle of a sale of the session.       *)
VerifyAdminCredentials(u, certa) ==
    /\ sessao # Nulo /\ ActiveUser(sessao)
    /\ u \in Alvos /\ RequireAdmin(u)
    /\ Prova(u, agora, certa)
    /\ UNCHANGED <<usuarios, agora, recup, codigo, usos, pedidos, sessao>>

Diretorio ==
    /\ sessao # Nulo
    /\ \E u \in Usuario :
          \/ CreateUser(sessao, u)
          \/ ResetUserPassword(sessao, u)
          \/ \E ativo \in BOOLEAN : SetUserActive(sessao, u, ativo)
    /\ UNCHANGED <<agora, limites, pedidos, sessao>>

Logout ==
    /\ sessao # Nulo /\ sessao' = Nulo
    /\ UNCHANGED <<usuarios, agora, limites, pedidos>>

\* Mutant: a call waits for the lock for as long as it takes.
TempoSemPrazo ==
    /\ agora < MaxTempo
    /\ agora' = agora + 1
    /\ UNCHANGED <<usuarios, limites, pedidos, sessao>>

(* No call waits for longer than the busy timeout of the connection.       *)
Tempo ==
    /\ agora < MaxTempo
    /\ \A p \in pedidos : agora < p.at + Espera
    /\ agora' = agora + 1
    /\ UNCHANGED <<usuarios, limites, pedidos, sessao>>

-----------------------------------------------------------------------------
(* The initial administrator is given a recovery code.                     *)
AutInit ==
    /\ UsuariosInit
    /\ agora = 0 /\ pedidos = {} /\ sessao = Nulo
    /\ login = [u \in Usuario |-> Limpo] /\ recup = [u \in Usuario |-> Limpo]
    /\ codigo = [u \in Usuario |->
                    IF u \in Iniciais /\ Perfil[u] = "admin" /\ MaxCodigos > 0
                    THEN 1 ELSE 0]
    /\ erros = [u \in Usuario |-> <<>>] /\ usos = [u \in Usuario |-> <<>>]

AutNext ==
    \/ \E u \in Usuario : PedeLogin(u) \/ PedeConsulta(u)
    \/ \E u \in Usuario, c \in 0..MaxCodigos : PedeRecuperacao(u, c)
    \/ \E p \in pedidos :
          \/ Desiste(p)
          \/ \E certa \in BOOLEAN : Authenticate(p, certa)
          \/ PasswordRecoveryAvailable(p)
          \/ Recupera(p)
    \/ \E certa \in BOOLEAN :
          \/ ChangeOwnPassword(certa)
          \/ ConfigureOwnRecoveryCode(certa)
          \/ \E u \in Usuario : VerifyAdminCredentials(u, certa)
    \/ Diretorio
    \/ Logout
    \/ Tempo

AutSpec == AutInit /\ [][AutNext]_autvars

-----------------------------------------------------------------------------
Pedido == [op: {"login", "consulta", "recupera"}, conta: Usuario, codigo: Nat,
           at: Nat]

(* The limiters, the calls and the session stay in their types, and no     *)
(* call has a time to come or waits for longer than it may.                *)
AutTypeOK ==
    /\ UsuariosTypeOK
    /\ agora \in 0..MaxTempo
    /\ login \in [Usuario -> Estado] /\ recup \in [Usuario -> Estado]
    /\ codigo \in [Usuario -> 0..MaxCodigos]
    /\ pedidos \subseteq Pedido
    /\ \A p \in pedidos : p.at <= agora /\ agora <= p.at + Espera
    /\ sessao \in Usuario \cup {Nulo}
    /\ erros \in [Usuario -> Seq(Nat)] /\ usos \in [Usuario -> Seq(Nat)]

(* Whatever asks for the password, and however late it gets the lock, of   *)
(* twice Limiar wrong passwords in a row the last is compared a window, or *)
(* a block, after the first: less the second lost in storing times and the *)
(* wait for the lock.                                                      *)
Folga == (Segundo - 1) + Espera
LimiteDeTentativas ==
    \A u \in Usuario :
        Len(erros[u]) = 2 * Limiar =>
            \/ erros[u][2 * Limiar] - erros[u][1] >= Janela - Folga
            \/ erros[u][2 * Limiar] - erros[u][1] >= Bloqueio - Folga

(* While a block is in force nothing makes it longer or shorter: not       *)
(* another attempt, not a call that read an older time, not the question   *)
(* whether recovery is available; only a recovery or a new code end it.    *)
BloqueioIntocado ==
    [][\A u \in Usuario :
          /\ agora < login[u].bloqueio =>
                login'[u] = login[u] \/ codigo'[u] > codigo[u]
          /\ agora < recup[u].bloqueio =>
                recup'[u] = recup[u] \/ codigo'[u] > codigo[u]]_autvars

(* A recovery code lets an account in once, however many calls hold it.    *)
CodigoUnicoUso ==
    \A u \in Usuario : \A i, j \in DOMAIN usos[u] :
        usos[u][i] = usos[u][j] => i = j

(* The account of the session stays active under it, whatever its operator *)
(* does to the directory.                                                  *)
SessaoAtiva == sessao # Nulo => Ativo(sessao)
=============================================================================
