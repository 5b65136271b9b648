------------------------- MODULE AutenticacaoProofs -------------------------
(***************************************************************************)
(* Theorems of the proofs of identity, for any number of calls in flight,  *)
(* any thresholds and any clock.  A step changes the limiter and the       *)
(* history of an account in one of four ways (PassoDeSenha); the           *)
(* invariants that count attempts are shown on those four ways.  That the  *)
(* directory keeps its promises follows from each step being one of        *)
(* Usuarios, so the theorems of UsuariosProofs carry over.                 *)
(***************************************************************************)
EXTENDS Autenticacao, UsuariosProofs

(* Storing a time loses less than a second.                                *)
LEMMA SegundoInteiro ==
    ASSUME NEW t \in Nat
    PROVE  /\ PersistState(t) \in Nat
           /\ PersistState(t) <= t
           /\ PersistState(t) >= t - (Segundo - 1)
<1>1. Segundo \in Nat \ {0}
  BY AutenticacaoAssumption DEF AutenticacaoAssumption
<1>2. t % Segundo \in 0..(Segundo - 1)
  BY <1>1
<1>3. t % Segundo <= t
  BY <1>1
<1> QED
  BY <1>1, <1>2, <1>3 DEF PersistState

(* A limiter at its threshold is a limiter that blocks.                    *)
Limitador(s) ==
    /\ s \in Estado
    /\ s.falhas = Limiar => s.bloqueio # Nunca

LEMMA LimpoLimitador == Limitador(Limpo)
  BY AutenticacaoAssumption
  DEF AutenticacaoAssumption, Limitador, Limpo, Estado, Nunca

LEMMA NormalizadoLimitador ==
    ASSUME NEW s, NEW at \in Nat, Limitador(s)
    PROVE  Limitador(Normalizado(s, at))
  BY LimpoLimitador DEF Normalizado

LEMMA FalhaLimitador ==
    ASSUME NEW s, NEW at \in Nat, NEW bloco \in Nat, Limitador(s),
           ~IsBlocked(s, at)
    PROVE  Limitador(RegisterFailure(s, at, bloco))
<1> DEFINE n == Normalizado(s, at)
<1>1. Limitador(n)
  BY NormalizadoLimitador
<1>2. n.bloqueio = Nunca
  BY DEF Normalizado, IsBlocked, Limpo, Nunca
<1>3. n.falhas \in 0..Limiar /\ n.falhas # Limiar /\ n.janela \in Int
  BY <1>1, <1>2 DEF Limitador, Estado
<1>4. PersistState(at) \in Nat /\ PersistState(at + bloco) \in Nat
  BY SegundoInteiro
<1>5. Limiar \in Nat
  BY AutenticacaoAssumption DEF AutenticacaoAssumption
<1> HIDE DEF n
<1>6. RegisterFailure(s, at, bloco) =
        [falhas   |-> n.falhas + 1,
         janela   |-> IF n.janela = Nunca THEN PersistState(at) ELSE n.janela,
         bloqueio |-> IF n.falhas + 1 >= Limiar THEN PersistState(at + bloco)
                                                ELSE Nunca]
  BY DEF RegisterFailure, n
<1> QED
  BY <1>3, <1>4, <1>5, <1>6 DEF Limitador, Estado, Nunca

-----------------------------------------------------------------------------
(* Steps by their effect.                                                  *)

(* The time a proof works with: read, at the latest now, before the lock.  *)
Lido(at) == at \in Nat /\ at <= agora /\ agora <= at + Espera

PassoDeSenha(u) ==
    \/ login'[u] = login[u] /\ erros'[u] = erros[u]
    \/ \E at \in Nat : /\ Lido(at)
                       /\ login'[u] = Normalizado(login[u], at)
                       /\ erros'[u] = erros[u]
    \/ /\ login'[u] = Limpo /\ erros'[u] = <<>>
       /\ \/ codigo'[u] > codigo[u]
          \/ \E at \in Nat : Lido(at) /\ ~IsBlocked(login[u], at)
    \/ \E at \in Nat : /\ Lido(at) /\ ~IsBlocked(login[u], at)
                       /\ login'[u] = RegisterFailure(login[u], at, Bloqueio)
                       /\ erros'[u] = Recentes(Append(erros[u], agora))

PassoDeCodigo(u) ==
    \/ recup'[u] = recup[u]
    \/ recup'[u] = Limpo /\ codigo'[u] > codigo[u]
    \/ \E at \in Nat : /\ Lido(at) /\ ~IsBlocked(recup[u], at)
                       /\ recup'[u] = RegisterFailure(recup[u], at, BloqueioRec)

(* A code is accepted only when it is in force, and is then replaced.      *)
PassoDeUso(u) ==
    \/ usos'[u] = usos[u] /\ codigo'[u] \in {codigo[u], codigo[u] + 1}
    \/ usos'[u] = Append(usos[u], codigo[u]) /\ codigo'[u] = codigo[u] + 1

LimitesTipo ==
    /\ login \in [Usuario -> Estado] /\ recup \in [Usuario -> Estado]
    /\ codigo \in [Usuario -> 0..MaxCodigos]
    /\ erros \in [Usuario -> Seq(Nat)] /\ usos \in [Usuario -> Seq(Nat)]

EmOrdem == \A u \in Usuario : Limitador(login[u]) /\ Limitador(recup[u])

Aut == AutTypeOK /\ EmOrdem

Mantem(v) == v' = v

LEMMA ProvaPasso ==
    ASSUME Aut, NEW v \in Usuario, NEW at \in Nat, Lido(at),
           NEW certa \in BOOLEAN, Prova(v, at, certa)
    PROVE  \A u \in Usuario : PassoDeSenha(u)
<1> SUFFICES ASSUME NEW u \in Usuario PROVE PassoDeSenha(u)
  OBVIOUS
<1> USE DEF Aut, AutTypeOK
<1>1. CASE u # v
  BY <1>1 DEF Prova, PassoDeSenha
<1>2. CASE u = v /\ IsBlocked(login[v], at)
  BY <1>2 DEF Prova, PassoDeSenha
<1>3. CASE u = v /\ ~IsBlocked(login[v], at) /\ certa
  BY <1>3 DEF Prova, PassoDeSenha
<1>4. CASE u = v /\ ~IsBlocked(login[v], at) /\ ~certa
  BY <1>4 DEF Prova, PassoDeSenha
<1> QED
  BY <1>1, <1>2, <1>3, <1>4

LEMMA RecentesTipo ==
    ASSUME NEW e \in Seq(Nat), NEW t \in Nat
    PROVE  Recentes(Append(e, t)) \in Seq(Nat)
<1>1. Append(e, t) \in Seq(Nat)
  OBVIOUS
<1>3. Len(Append(e, t)) = Len(e) + 1 /\ Len(e) \in Nat
  OBVIOUS
<1>4. Append(e, t) # << >>
  BY <1>3
<1>2. Tail(Append(e, t)) \in Seq(Nat)
  BY <1>1, <1>4
<1> QED
  BY <1>1, <1>2 DEF Recentes

LEMMA ProvaTipo ==
    ASSUME Aut, NEW v \in Usuario, NEW at \in Nat, Lido(at),
           NEW certa \in BOOLEAN, Prova(v, at, certa)
    PROVE  /\ login' \in [Usuario -> Estado]
           /\ erros' \in [Usuario -> Seq(Nat)]
<1> USE DEF Aut, AutTypeOK
<1>1. Limitador(login[v])
  BY DEF EmOrdem
<1>2. Bloqueio \in Nat
  BY AutenticacaoAssumption DEF AutenticacaoAssumption
<1>3. CASE IsBlocked(login[v], at)
  BY <1>3 DEF Prova
<1>4. CASE ~IsBlocked(login[v], at) /\ certa
  BY <1>4, LimpoLimitador DEF Prova, Limitador
<1>5. CASE ~IsBlocked(login[v], at) /\ ~certa
  <2>1. RegisterFailure(login[v], at, Bloqueio) \in Estado
    BY <1>1, <1>2, <1>5, FalhaLimitador DEF Limitador
  <2>2. erros[v] \in Seq(Nat) /\ agora \in Nat
    OBVIOUS
  <2>3. Append(erros[v], agora) \in Seq(Nat)
    BY <2>2
  <2>4. Recentes(Append(erros[v], agora)) \in Seq(Nat)
    BY <2>2, <2>3, RecentesTipo
  <2> QED
    BY <1>5, <2>1, <2>4 DEF Prova
<1> QED
  BY <1>3, <1>4, <1>5

-----------------------------------------------------------------------------
(* Every step is a step of the directory, or leaves it alone.              *)

LEMMA PassoDoDiretorio == Aut /\ [AutNext]_autvars => [UsuariosNext]_usuarios
<1> SUFFICES ASSUME Aut, [AutNext]_autvars, usuarios' # usuarios
             PROVE  UsuariosNext
  OBVIOUS
<1> USE DEF Aut, AutTypeOK, Pedido
<1>1. sessao # Nulo => sessao \in Usuario
  OBVIOUS
<1>2. ASSUME NEW p \in pedidos, Recupera(p) PROVE UsuariosNext
  BY <1>2 DEF Recupera, UsuariosNext
<1>3. ASSUME NEW certa \in BOOLEAN, ChangeOwnPassword(certa) PROVE UsuariosNext
  BY <1>1, <1>3 DEF ChangeOwnPassword, UsuariosNext
<1>4. ASSUME Diretorio PROVE UsuariosNext
  BY <1>1, <1>4 DEF Diretorio, UsuariosNext
<1> QED
  BY <1>2, <1>3, <1>4
  DEF AutNext, autvars, limites, PedeLogin, PedeConsulta, PedeRecuperacao,
      Inicia, Desiste, Authenticate, PasswordRecoveryAvailable,
      ConfigureOwnRecoveryCode, VerifyAdminCredentials, Logout, Tempo

-----------------------------------------------------------------------------
(* What each step does to the limiters, the codes and the calls.           *)

Efeito ==
    /\ LimitesTipo'
    /\ agora' \in 0..MaxTempo /\ agora' \in {agora, agora + 1}
    /\ pedidos' \subseteq Pedido
    /\ \A p \in pedidos' : p.at <= agora' /\ agora' <= p.at + Espera
    /\ sessao' \in Usuario \cup {Nulo}
    /\ \A u \in Usuario : PassoDeSenha(u) /\ PassoDeCodigo(u) /\ PassoDeUso(u)

(* What holds of a step that leaves limiters and codes alone.              *)
LEMMA SemLimites ==
    ASSUME Aut, UNCHANGED limites
    PROVE  /\ LimitesTipo'
           /\ \A u \in Usuario :
                PassoDeSenha(u) /\ PassoDeCodigo(u) /\ PassoDeUso(u)
  BY DEF Aut, AutTypeOK, limites, LimitesTipo, PassoDeSenha, PassoDeCodigo,
         PassoDeUso

LEMMA EfeitoDePedir ==
    ASSUME Aut, NEW op \in {"login", "consulta", "recupera"},
           NEW u \in Usuario, NEW c \in Nat, Inicia(op, u, c)
    PROVE  Efeito
<1> USE DEF Aut, AutTypeOK
<1>1. UNCHANGED limites /\ agora' = agora /\ sessao' = sessao
  BY DEF Inicia
<1>2. agora \in Nat /\ Espera \in Nat
  BY AutenticacaoAssumption DEF AutenticacaoAssumption
<1>3. [op |-> op, conta |-> u, codigo |-> c, at |-> agora] \in Pedido
  BY <1>2 DEF Pedido
<1>4. pedidos' \subseteq Pedido
  BY <1>3 DEF Inicia
<1>5. \A p \in pedidos' : p.at <= agora' /\ agora' <= p.at + Espera
  BY <1>1, <1>2 DEF Inicia
<1> QED
  BY <1>1, <1>4, <1>5, SemLimites DEF Efeito

LEMMA EfeitoDeConcluir ==
    ASSUME Aut, NEW p \in pedidos, NEW op, Conclui(p, op)
    PROVE  /\ agora' \in 0..MaxTempo /\ agora' \in {agora, agora + 1}
           /\ pedidos' \subseteq Pedido
           /\ \A q \in pedidos' : q.at <= agora' /\ agora' <= q.at + Espera
           /\ p.at \in Nat /\ Lido(p.at) /\ p.conta \in Usuario
  BY DEF Aut, AutTypeOK, Conclui, Lido, Pedido

LEMMA EfeitoDeAuthenticate ==
    ASSUME Aut, NEW p \in pedidos, NEW certa \in BOOLEAN, Authenticate(p, certa)
    PROVE  Efeito
<1>1. /\ agora' \in 0..MaxTempo /\ agora' \in {agora, agora + 1}
      /\ pedidos' \subseteq Pedido
      /\ \A q \in pedidos' : q.at <= agora' /\ agora' <= q.at + Espera
      /\ p.at \in Nat /\ Lido(p.at) /\ p.conta \in Usuario
  BY EfeitoDeConcluir DEF Authenticate
<1>2. recup' = recup /\ codigo' = codigo /\ usos' = usos
  BY DEF Authenticate
<1>3. sessao' \in Usuario \cup {Nulo}
  BY <1>1 DEF Authenticate
<1>4. CASE Prova(p.conta, p.at, certa)
  <2>1. \A u \in Usuario : PassoDeSenha(u)
    BY <1>1, <1>4, ProvaPasso
  <2>2. login' \in [Usuario -> Estado] /\ erros' \in [Usuario -> Seq(Nat)]
    BY <1>1, <1>4, ProvaTipo
  <2> QED
    BY <1>1, <1>2, <1>3, <2>1, <2>2
    DEF Efeito, LimitesTipo, PassoDeCodigo, PassoDeUso, Aut, AutTypeOK
<1>5. CASE UNCHANGED <<login, erros>>
  BY <1>1, <1>2, <1>3, <1>5, SemLimites DEF Efeito, limites
<1> QED
  BY <1>4, <1>5 DEF Authenticate

LEMMA EfeitoDaConsulta ==
    ASSUME Aut, NEW p \in pedidos, PasswordRecoveryAvailable(p)
    PROVE  Efeito
<1> USE DEF Aut, AutTypeOK
<1>1. /\ agora' \in 0..MaxTempo /\ agora' \in {agora, agora + 1}
      /\ pedidos' \subseteq Pedido
      /\ \A q \in pedidos' : q.at <= agora' /\ agora' <= q.at + Espera
      /\ p.at \in Nat /\ Lido(p.at) /\ p.conta \in Usuario
  BY EfeitoDeConcluir DEF PasswordRecoveryAvailable
<1>2. /\ recup' = recup /\ codigo' = codigo /\ usos' = usos /\ erros' = erros
      /\ sessao' = sessao
  BY DEF PasswordRecoveryAvailable
<1>3. \/ login' = login
      \/ login' = [login EXCEPT ![p.conta] = Normalizado(@, p.at)]
  BY DEF PasswordRecoveryAvailable
<1>4. Normalizado(login[p.conta], p.at) \in Estado
  BY <1>1, NormalizadoLimitador DEF EmOrdem, Limitador
<1>5. \A u \in Usuario : PassoDeSenha(u)
  BY <1>1, <1>2, <1>3 DEF PassoDeSenha
<1>6. login' \in [Usuario -> Estado]
  BY <1>3, <1>4
<1> QED
  BY <1>1, <1>2, <1>5, <1>6 DEF Efeito, LimitesTipo, PassoDeCodigo, PassoDeUso

LEMMA EfeitoDeRecupera ==
    ASSUME Aut, NEW p \in pedidos, Recupera(p)
    PROVE  Efeito
<1> USE DEF Aut, AutTypeOK
<1> DEFINE u == p.conta
<1>1. /\ agora' \in 0..MaxTempo /\ agora' \in {agora, agora + 1}
      /\ pedidos' \subseteq Pedido
      /\ \A q \in pedidos' : q.at <= agora' /\ agora' <= q.at + Espera
      /\ p.at \in Nat /\ Lido(p.at) /\ p.conta \in Usuario
  BY EfeitoDeConcluir DEF Recupera
<1>2. sessao' = sessao
  BY DEF Recupera
<1>3. BloqueioRec \in Nat /\ MaxCodigos \in Nat
  BY AutenticacaoAssumption DEF AutenticacaoAssumption
<1>4. CASE /\ \/ login' = login
              \/ login' = [login EXCEPT ![u] = Normalizado(@, p.at)]
           /\ UNCHANGED <<recup, codigo, erros, usos>>
  <2>1. Normalizado(login[u], p.at) \in Estado
    BY <1>1, NormalizadoLimitador DEF EmOrdem, Limitador
  <2>2. login' \in [Usuario -> Estado]
    BY <1>4, <2>1
  <2>3. \A v \in Usuario : PassoDeSenha(v)
    BY <1>1, <1>4 DEF PassoDeSenha
  <2> QED
    BY <1>1, <1>2, <1>4, <2>2, <2>3
    DEF Efeito, LimitesTipo, PassoDeCodigo, PassoDeUso
<1>5. CASE /\ recup' = [recup EXCEPT ![u] =
                 IF IsBlocked(recup[u], p.at) THEN @
                 ELSE RegisterFailure(@, p.at, BloqueioRec)]
           /\ UNCHANGED <<login, codigo, erros, usos>>
  <2>1. IsBlocked(recup[u], p.at)
          \/ RegisterFailure(recup[u], p.at, BloqueioRec) \in Estado
    BY <1>1, <1>3, FalhaLimitador DEF EmOrdem, Limitador
  <2>2. recup' \in [Usuario -> Estado]
    BY <1>1, <1>5, <2>1
  <2>3. \A v \in Usuario : PassoDeCodigo(v)
    BY <1>1, <1>5 DEF PassoDeCodigo
  <2> QED
    BY <1>1, <1>2, <1>5, <2>2, <2>3
    DEF Efeito, LimitesTipo, PassoDeSenha, PassoDeUso
<1>6. CASE /\ p.codigo = codigo[u] /\ NovoCodigo(u)
           /\ login' = [login EXCEPT ![u] = Limpo]
           /\ erros' = [erros EXCEPT ![u] = <<>>]
           /\ usos' = [usos EXCEPT ![u] = Append(@, p.codigo)]
  <2>1. /\ codigo[u] < MaxCodigos
        /\ codigo' = [codigo EXCEPT ![u] = @ + 1]
        /\ recup' = [recup EXCEPT ![u] = Limpo]
    BY <1>6 DEF NovoCodigo
  <2>2. Limpo \in Estado
    BY LimpoLimitador DEF Limitador
  <2>3. codigo' \in [Usuario -> 0..MaxCodigos]
    BY <1>1, <1>3, <2>1
  <2>4. Append(usos[u], p.codigo) \in Seq(Nat)
    BY <1>1, <1>6
  <2>5. \A v \in Usuario : PassoDeSenha(v)
    BY <1>1, <1>6, <2>1 DEF PassoDeSenha
  <2>6. \A v \in Usuario : PassoDeCodigo(v)
    BY <1>1, <2>1 DEF PassoDeCodigo
  <2>7. \A v \in Usuario : PassoDeUso(v)
    BY <1>1, <1>6, <2>1 DEF PassoDeUso
  <2>8. LimitesTipo'
    BY <1>1, <1>6, <2>1, <2>2, <2>3, <2>4 DEF LimitesTipo
  <2> QED
    BY <1>1, <1>2, <2>5, <2>6, <2>7, <2>8 DEF Efeito
<1> QED
  BY <1>4, <1>5, <1>6 DEF Recupera, CodigoTrocado

LEMMA EfeitoDaSessao ==
    ASSUME Aut, NEW certa \in BOOLEAN,
           \/ ChangeOwnPassword(certa)
           \/ ConfigureOwnRecoveryCode(certa)
           \/ \E u \in Usuario : VerifyAdminCredentials(u, certa)
    PROVE  Efeito
<1> USE DEF Aut, AutTypeOK
<1>1. PICK v \in Usuario : Prova(v, agora, certa)
                           /\ (codigo' = codigo \/ v = sessao)
  BY DEF ChangeOwnPassword, ConfigureOwnRecoveryCode, VerifyAdminCredentials
<1>2. /\ agora' = agora /\ pedidos' = pedidos /\ sessao' = sessao
      /\ usos' = usos
  BY DEF ChangeOwnPassword, ConfigureOwnRecoveryCode, VerifyAdminCredentials
<1>3. sessao \in Usuario /\ Espera \in Nat /\ MaxCodigos \in Nat /\ agora \in Nat
  BY AutenticacaoAssumption
  DEF AutenticacaoAssumption, ChangeOwnPassword, ConfigureOwnRecoveryCode,
      VerifyAdminCredentials
<1>4. Lido(agora)
  BY <1>3 DEF Lido
<1>5. \A u \in Usuario : PassoDeSenha(u)
  BY <1>1, <1>3, <1>4, ProvaPasso
<1>6. login' \in [Usuario -> Estado] /\ erros' \in [Usuario -> Seq(Nat)]
  BY <1>1, <1>3, <1>4, ProvaTipo
<1>7. (codigo' = codigo /\ recup' = recup) \/ NovoCodigo(sessao)
  BY DEF ChangeOwnPassword, ConfigureOwnRecoveryCode, VerifyAdminCredentials
<1>8. Limpo \in Estado
  BY LimpoLimitador DEF Limitador
<1>9. recup' \in [Usuario -> Estado] /\ codigo' \in [Usuario -> 0..MaxCodigos]
  <2>1. CASE codigo' = codigo /\ recup' = recup
    BY <2>1
  <2>2. CASE NovoCodigo(sessao)
    <3>1. codigo[sessao] \in 0..MaxCodigos /\ codigo[sessao] + 1 \in 0..MaxCodigos
      BY <1>3, <2>2 DEF NovoCodigo
    <3> QED
      BY <1>3, <1>8, <2>2, <3>1 DEF NovoCodigo
  <2> QED
    BY <1>7, <2>1, <2>2
<1>10. \A u \in Usuario : PassoDeCodigo(u) /\ PassoDeUso(u)
  BY <1>2, <1>3, <1>7 DEF NovoCodigo, PassoDeCodigo, PassoDeUso
<1> QED
  BY <1>2, <1>3, <1>5, <1>6, <1>9, <1>10 DEF Efeito, LimitesTipo

LEMMA EfeitoDoPasso == Aut /\ AutNext => Efeito
<1> SUFFICES ASSUME Aut, AutNext PROVE Efeito
  OBVIOUS
<1>0. Espera \in Nat /\ MaxCodigos \in Nat /\ MaxTempo \in Nat
  BY AutenticacaoAssumption DEF AutenticacaoAssumption
<1>1. ASSUME NEW u \in Usuario, PedeLogin(u) PROVE Efeito
  BY <1>1, EfeitoDePedir DEF PedeLogin
<1>2. ASSUME NEW u \in Usuario, PedeConsulta(u) PROVE Efeito
  BY <1>2, EfeitoDePedir DEF PedeConsulta
<1>3. ASSUME NEW u \in Usuario, NEW c \in 0..MaxCodigos, PedeRecuperacao(u, c)
      PROVE  Efeito
  BY <1>0, <1>3, EfeitoDePedir DEF PedeRecuperacao
<1>4. ASSUME NEW p \in pedidos, Desiste(p) PROVE Efeito
  BY <1>4, SemLimites DEF Desiste, Efeito, Aut, AutTypeOK
<1>5. ASSUME UNCHANGED <<agora, limites, pedidos>>,
             sessao' \in Usuario \cup {Nulo}
      PROVE  Efeito
  BY <1>5, SemLimites DEF Efeito, Aut, AutTypeOK
<1>6. ASSUME Tempo PROVE Efeito
  <2>1. agora \in Nat /\ agora < MaxTempo /\ agora' = agora + 1
    BY <1>6 DEF Tempo, Aut, AutTypeOK
  <2>2. \A p \in pedidos : p.at \in Nat /\ p.at <= agora
    BY DEF Aut, AutTypeOK, Pedido
  <2>3. \A p \in pedidos' : p.at <= agora' /\ agora' <= p.at + Espera
    BY <1>0, <1>6, <2>1, <2>2 DEF Tempo
  <2> QED
    BY <1>0, <1>6, <2>1, <2>3, SemLimites DEF Tempo, Efeito, Aut, AutTypeOK
<1>7. ASSUME Diretorio \/ Logout PROVE Efeito
  BY <1>5, <1>7 DEF Diretorio, Logout, Aut, AutTypeOK
<1> QED
  BY <1>1, <1>2, <1>3, <1>4, <1>6, <1>7, EfeitoDeAuthenticate,
     EfeitoDaConsulta, EfeitoDeRecupera, EfeitoDaSessao
  DEF AutNext

-----------------------------------------------------------------------------
(* Type and order of the limiters.                                         *)

LEMMA InicioDaAutenticacao == AutInit => Aut
<1> SUFFICES ASSUME AutInit PROVE Aut
  OBVIOUS
<1>1. UsuariosTypeOK
  BY InicioBom DEF AutInit
<1>2. Limitador(Limpo) /\ Limpo \in Estado
  BY LimpoLimitador DEF Limitador
<1>3. codigo \in [Usuario -> 0..MaxCodigos]
  BY AutenticacaoAssumption DEF AutInit, AutenticacaoAssumption
<1>4. EmOrdem
  BY <1>2 DEF AutInit, EmOrdem
<1>5. << >> \in Seq(Nat)
  OBVIOUS
<1>6. erros \in [Usuario -> Seq(Nat)] /\ usos \in [Usuario -> Seq(Nat)]
  BY <1>5 DEF AutInit
<1>7. login \in [Usuario -> Estado] /\ recup \in [Usuario -> Estado]
  BY <1>2 DEF AutInit
<1>8. agora \in 0..MaxTempo /\ pedidos = {} /\ sessao = Nulo
  BY AutenticacaoAssumption DEF AutInit, AutenticacaoAssumption
<1> QED
  BY <1>1, <1>3, <1>4, <1>6, <1>7, <1>8 DEF Aut, AutTypeOK

LEMMA AutMantida == Aut /\ [AutNext]_autvars => Aut'
<1> SUFFICES ASSUME Aut, [AutNext]_autvars PROVE Aut'
  OBVIOUS
<1>1. UsuariosTypeOK'
  BY PassoDoDiretorio, TipoMantido DEF Aut, AutTypeOK
<1>2. CASE AutNext
  <2>1. Efeito
    BY <1>2, EfeitoDoPasso
  <2>2. Bloqueio \in Nat /\ BloqueioRec \in Nat
    BY AutenticacaoAssumption DEF AutenticacaoAssumption
  <2>3. ASSUME NEW u \in Usuario PROVE Limitador(login'[u])
    <3>1. Limitador(login[u])
      BY DEF Aut, EmOrdem
    <3>2. PassoDeSenha(u)
      BY <2>1 DEF Efeito
    <3> QED
      BY <2>2, <3>1, <3>2, LimpoLimitador, NormalizadoLimitador, FalhaLimitador
      DEF PassoDeSenha
  <2>4. ASSUME NEW u \in Usuario PROVE Limitador(recup'[u])
    <3>1. Limitador(recup[u])
      BY DEF Aut, EmOrdem
    <3>2. PassoDeCodigo(u)
      BY <2>1 DEF Efeito
    <3> QED
      BY <2>2, <3>1, <3>2, LimpoLimitador, FalhaLimitador DEF PassoDeCodigo
  <2>5. EmOrdem'
    BY <2>3, <2>4 DEF EmOrdem
  <2> QED
    BY <1>1, <2>1, <2>5 DEF Efeito, LimitesTipo, Aut, AutTypeOK
<1>3. CASE UNCHANGED autvars
  BY <1>1, <1>3 DEF autvars, limites, Aut, AutTypeOK, EmOrdem
<1> QED
  BY <1>2, <1>3

(* The limiters, the calls in flight and the session stay in their types,  *)
(* and no call outlasts the wait the connection allows (AutTypeOK).        *)
THEOREM AutenticacaoTipo == AutSpec => []AutTypeOK
<1>1. AutInit => Aut
  BY InicioDaAutenticacao
<1>2. Aut /\ [AutNext]_autvars => Aut'
  BY AutMantida
<1>3. Aut => AutTypeOK
  BY DEF Aut
<1> QED
  BY <1>1, <1>2, <1>3, PTL DEF AutSpec

(* The whole of the sessions, proofs and recoveries does to the directory  *)
(* what Usuarios allows, and no more.                                      *)
THEOREM AutenticacaoImplementaUsuarios == AutSpec => UsuariosSpec
<1>1. AutInit => UsuariosInit /\ Aut
  BY InicioDaAutenticacao DEF AutInit
<1>2. Aut /\ [AutNext]_autvars => [UsuariosNext]_usuarios
  BY PassoDoDiretorio
<1>3. Aut /\ [AutNext]_autvars => Aut'
  BY AutMantida
<1> QED
  BY <1>1, <1>2, <1>3, PTL DEF AutSpec, UsuariosSpec

(* With logins, blocks and recoveries in between, an administrator can     *)
(* always act (AdminDisponivel).                                           *)
THEOREM AdminComSessoes == AutSpec => []AdminDisponivel
  BY AutenticacaoImplementaUsuarios, SempreHaAdmin

(* With logins, blocks and recoveries in between, an account changes only  *)
(* at the hands of an administrator or of its owner (DiretorioSoPorAdmin). *)
THEOREM DiretorioComSessoes == AutSpec => DiretorioSoPorAdmin
  BY AutenticacaoImplementaUsuarios, SoAdminAltera

-----------------------------------------------------------------------------
(* Blocks.                                                                 *)

LEMMA BloqueioValendo ==
    ASSUME NEW s, Limitador(s), NEW at \in Nat, at < s.bloqueio
    PROVE  IsBlocked(s, at) /\ Normalizado(s, at) = s
  BY DEF Limitador, Estado, IsBlocked, Normalizado, Nunca

(* While a block is in force no other attempt, late call or question       *)
(* changes it (BloqueioIntocado).                                          *)
THEOREM BloqueioFirme == AutSpec => BloqueioIntocado
<1>1. ASSUME Aut, AutNext, NEW u \in Usuario, agora < login[u].bloqueio
      PROVE  login'[u] = login[u] \/ codigo'[u] > codigo[u]
  <2>1. PassoDeSenha(u)
    BY <1>1, EfeitoDoPasso DEF Efeito
  <2>2. ASSUME NEW at \in Nat, Lido(at)
        PROVE  IsBlocked(login[u], at) /\ Normalizado(login[u], at) = login[u]
    <3>1. Limitador(login[u]) /\ login[u].bloqueio \in Int /\ agora \in Nat
      BY <1>1 DEF Aut, EmOrdem, AutTypeOK, Limitador, Estado
    <3>2. at < login[u].bloqueio
      BY <1>1, <2>2, <3>1 DEF Lido
    <3> QED
      BY <3>1, <3>2, BloqueioValendo
  <2> QED
    BY <2>1, <2>2 DEF PassoDeSenha
<1>2. ASSUME Aut, AutNext, NEW u \in Usuario, agora < recup[u].bloqueio
      PROVE  recup'[u] = recup[u] \/ codigo'[u] > codigo[u]
  <2>1. PassoDeCodigo(u)
    BY <1>2, EfeitoDoPasso DEF Efeito
  <2>2. ASSUME NEW at \in Nat, Lido(at) PROVE IsBlocked(recup[u], at)
    <3>1. Limitador(recup[u]) /\ recup[u].bloqueio \in Int /\ agora \in Nat
      BY <1>2 DEF Aut, EmOrdem, AutTypeOK, Limitador, Estado
    <3>2. at < recup[u].bloqueio
      BY <1>2, <2>2, <3>1 DEF Lido
    <3> QED
      BY <3>1, <3>2, BloqueioValendo
  <2> QED
    BY <2>1, <2>2 DEF PassoDeCodigo
<1> DEFINE Firme ==
      \A u \in Usuario :
          /\ agora < login[u].bloqueio =>
                login'[u] = login[u] \/ codigo'[u] > codigo[u]
          /\ agora < recup[u].bloqueio =>
                recup'[u] = recup[u] \/ codigo'[u] > codigo[u]
<1>3. Aut /\ [AutNext]_autvars => [Firme]_autvars
  BY <1>1, <1>2
<1>4. AutInit => Aut
  BY InicioDaAutenticacao
<1>5. Aut /\ [AutNext]_autvars => Aut'
  BY AutMantida
<1> QED
  BY <1>3, <1>4, <1>5, PTL DEF AutSpec, BloqueioIntocado

-----------------------------------------------------------------------------
(* Codes and the session.                                                  *)

CodigosGastos ==
    \A u \in Usuario : \A i \in DOMAIN usos[u] : usos[u][i] < codigo[u]

LEMMA CodigosMantidos ==
    Aut /\ CodigosGastos /\ CodigoUnicoUso /\ [AutNext]_autvars
        => CodigosGastos' /\ CodigoUnicoUso'
<1> SUFFICES ASSUME Aut, CodigosGastos, CodigoUnicoUso, AutNext
             PROVE  CodigosGastos' /\ CodigoUnicoUso'
  BY DEF autvars, limites, CodigosGastos, CodigoUnicoUso
<1> SUFFICES ASSUME NEW u \in Usuario
             PROVE  /\ \A i \in DOMAIN usos'[u] : usos'[u][i] < codigo'[u]
                    /\ \A i, j \in DOMAIN usos'[u] :
                          usos'[u][i] = usos'[u][j] => i = j
  BY DEF CodigosGastos, CodigoUnicoUso
<1>1. PassoDeUso(u)
  BY EfeitoDoPasso DEF Efeito
<1>2. usos[u] \in Seq(Nat) /\ codigo[u] \in Nat
  BY DEF Aut, AutTypeOK
<1>3. /\ \A i \in DOMAIN usos[u] : usos[u][i] < codigo[u] /\ usos[u][i] \in Nat
      /\ \A i, j \in DOMAIN usos[u] : usos[u][i] = usos[u][j] => i = j
  BY <1>2 DEF CodigosGastos, CodigoUnicoUso
<1>4. CASE usos'[u] = usos[u] /\ codigo'[u] \in {codigo[u], codigo[u] + 1}
  BY <1>2, <1>3, <1>4
<1>5. CASE usos'[u] = Append(usos[u], codigo[u]) /\ codigo'[u] = codigo[u] + 1
  <2>1. /\ Len(usos[u]) \in Nat
        /\ DOMAIN usos[u] = 1..Len(usos[u])
        /\ DOMAIN usos'[u] = 1..(Len(usos[u]) + 1)
        /\ usos'[u][Len(usos[u]) + 1] = codigo[u]
        /\ \A i \in 1..Len(usos[u]) : usos'[u][i] = usos[u][i]
    BY <1>2, <1>5
  <2> QED
    BY <1>2, <1>3, <1>5, <2>1
<1> QED
  BY <1>1, <1>4, <1>5 DEF PassoDeUso

(* However many recoveries hold the same code, one of them lets the account*)
(* in (CodigoUnicoUso).                                                    *)
THEOREM CodigoDeUmUso == AutSpec => []CodigoUnicoUso
<1>1. AutInit => Aut /\ CodigosGastos /\ CodigoUnicoUso
  BY InicioDaAutenticacao DEF AutInit, CodigosGastos, CodigoUnicoUso
<1>2. Aut /\ CodigosGastos /\ CodigoUnicoUso /\ [AutNext]_autvars
        => (Aut /\ CodigosGastos /\ CodigoUnicoUso)'
  BY AutMantida, CodigosMantidos
<1> QED
  BY <1>1, <1>2, PTL DEF AutSpec

LEMMA SessaoMantida ==
    Aut /\ SessaoAtiva /\ [AutNext]_autvars => SessaoAtiva'
<1> DEFINE Vale == usuarios'[sessao'].existe /\ usuarios'[sessao'].ativo
<1> SUFFICES ASSUME Aut, SessaoAtiva, [AutNext]_autvars, sessao' # Nulo
             PROVE  Vale
  BY DEF SessaoAtiva, Ativo
<1> USE DEF Aut, AutTypeOK, UsuariosTypeOK, Conta, Ativo, Pedido
<1>1. CASE sessao' = sessao /\ usuarios' = usuarios
  BY <1>1 DEF SessaoAtiva
<1>2. ASSUME NEW p \in pedidos, NEW certa \in BOOLEAN, Authenticate(p, certa)
      PROVE  Vale
  BY <1>2 DEF Authenticate
<1>3. ASSUME NEW p \in pedidos, Recupera(p) PROVE Vale
  <2>1. /\ sessao' = sessao
        /\ usuarios' = usuarios \/ RecoverPasswordWithCode(p.conta)
    BY <1>3 DEF Recupera
  <2>2. p.conta \in Usuario /\ sessao \in Usuario
    BY <2>1
  <2>3. usuarios'[sessao].existe = usuarios[sessao].existe
    BY <2>1, <2>2 DEF RecoverPasswordWithCode
  <2>4. usuarios'[sessao].ativo = usuarios[sessao].ativo
    BY <2>1, <2>2 DEF RecoverPasswordWithCode
  <2> QED
    BY <2>1, <2>3, <2>4 DEF SessaoAtiva
<1>4. ASSUME NEW certa \in BOOLEAN, ChangeOwnPassword(certa)
      PROVE  Vale
  BY <1>1, <1>4 DEF ChangeOwnPassword, ChangePassword, SessaoAtiva
<1>5. ASSUME Diretorio PROVE Vale
  BY <1>1, <1>5 DEF Diretorio, CreateUser, ResetUserPassword, SetUserActive,
                    SessaoAtiva
<1> QED
  BY <1>1, <1>2, <1>3, <1>4, <1>5
  DEF AutNext, autvars, limites, PedeLogin, PedeConsulta, PedeRecuperacao,
      Inicia, Desiste, PasswordRecoveryAvailable, ConfigureOwnRecoveryCode,
      VerifyAdminCredentials, Logout, Tempo

(* Nothing the operator of the session does leaves it with an account that *)
(* is not active (SessaoAtiva).                                            *)
THEOREM SessaoDeContaAtiva == AutSpec => []SessaoAtiva
<1>1. AutInit => Aut /\ SessaoAtiva
  BY InicioDaAutenticacao DEF AutInit, SessaoAtiva
<1>2. Aut /\ SessaoAtiva /\ [AutNext]_autvars => (Aut /\ SessaoAtiva)'
  BY AutMantida, SessaoMantida
<1> QED
  BY <1>1, <1>2, PTL DEF AutSpec

-----------------------------------------------------------------------------
(* Attempts.  An account's wrong passwords fall into windows of at most    *)
(* Limiar; the last f of them belong to the window that is open.  Whoever  *)
(* comes after Limiar errors of closed windows comes Distancia later than  *)
(* the first of these, and that is what survives every step.               *)

Distancia == IF Janela <= Bloqueio THEN Janela - Folga ELSE Bloqueio - Folga

Contado(e, f, t) ==
    /\ \A i \in 1..Len(e) : e[i] <= t
    /\ \A i, j \in 1..Len(e) : i <= j => e[i] <= e[j]
    /\ \A i \in 1..Len(e) :
          i <= Len(e) - f - Limiar + 1 =>
             /\ e[i] + Distancia <= t
             /\ \A j \in 1..Len(e) : j > Len(e) - f => e[i] + Distancia <= e[j]
    /\ \A i, j \in 1..Len(e) : j >= i + 2 * Limiar - 1 => e[i] + Distancia <= e[j]

Historico(s, e, t) ==
    /\ Len(e) <= 2 * Limiar /\ s.falhas <= Len(e)
    /\ Contado(e, s.falhas, t)
    /\ s.falhas > 0 =>
          s.janela \in Nat /\ e[Len(e) - s.falhas + 1] <= s.janela + Folga
    /\ s.bloqueio # Nunca =>
          s.falhas > 0 /\ e[Len(e)] + Bloqueio <= s.bloqueio + Folga

LEMMA Numeros ==
    /\ Limiar \in Nat /\ Limiar > 0
    /\ Janela \in Nat /\ Bloqueio \in Nat /\ Espera \in Nat
    /\ Segundo \in Nat /\ Segundo > 0 /\ Folga \in Nat /\ Distancia \in Int
    /\ Folga = Segundo - 1 + Espera
    /\ Distancia <= Janela - Folga /\ Distancia <= Bloqueio - Folga
  BY AutenticacaoAssumption DEF AutenticacaoAssumption, Folga, Distancia

(* A later moment.                                                         *)
LEMMA ContadoDepois ==
    ASSUME NEW e \in Seq(Nat), NEW f \in Nat, NEW t \in Nat, NEW t2 \in Nat,
           t <= t2, Contado(e, f, t)
    PROVE  Contado(e, f, t2)
<1>1. Len(e) \in Nat /\ \A i \in 1..Len(e) : e[i] \in Nat
  OBVIOUS
<1> QED
  BY <1>1, Numeros DEF Contado

(* The window closes, a Distancia after its first error.                   *)
LEMMA ContadoFecha ==
    ASSUME NEW e \in Seq(Nat), NEW f \in 0..Limiar, NEW t \in Nat,
           f <= Len(e), Contado(e, f, t),
           f > 0 => e[Len(e) - f + 1] + Distancia <= t
    PROVE  Contado(e, 0, t)
<1>1. Len(e) \in Nat /\ \A i \in 1..Len(e) : e[i] \in Nat
  OBVIOUS
<1>2. ASSUME NEW i \in 1..Len(e), i <= Len(e) - Limiar + 1
      PROVE  e[i] + Distancia <= t
  <2>1. CASE f = 0
    BY <1>2, <2>1, <1>1, Numeros DEF Contado
  <2>2. CASE f > 0
    <3>1. Len(e) - f + 1 \in 1..Len(e) /\ i <= Len(e) - f + 1
      BY <1>1, <1>2, <2>2, Numeros
    <3>2. e[i] <= e[Len(e) - f + 1]
      BY <3>1 DEF Contado
    <3>3. e[i] \in Nat /\ e[Len(e) - f + 1] \in Nat
      BY <1>1, <3>1
    <3> QED
      BY <2>2, <3>2, <3>3, Numeros
  <2> QED
    BY <1>1, <2>1, <2>2
<1>3. \A i \in 1..Len(e) :
        i <= Len(e) - 0 - Limiar + 1 =>
          /\ e[i] + Distancia <= t
          /\ \A j \in 1..Len(e) : j > Len(e) - 0 => e[i] + Distancia <= e[j]
  BY <1>1, <1>2, Numeros
<1> QED
  BY <1>3 DEF Contado

(* One more error, now, in a window that has fewer than Limiar.            *)
LEMMA ContadoMais ==
    ASSUME NEW e \in Seq(Nat), NEW f \in Nat, NEW t \in Nat,
           f < Limiar, f <= Len(e), Contado(e, f, t)
    PROVE  Contado(Append(e, t), f + 1, t)
<1> DEFINE d == Append(e, t)
           n == Len(e)
<1>1. n \in Nat /\ \A i \in 1..n : e[i] \in Nat
  OBVIOUS
<1>2. Len(d) = n + 1 /\ d[n + 1] = t /\ \A i \in 1..n : d[i] = e[i]
  OBVIOUS
<1>3. /\ \A i \in 1..n : e[i] <= t
      /\ \A i, j \in 1..n : i <= j => e[i] <= e[j]
      /\ \A i \in 1..n :
            i <= n - f - Limiar + 1 =>
               /\ e[i] + Distancia <= t
               /\ \A j \in 1..n : j > n - f => e[i] + Distancia <= e[j]
      /\ \A i, j \in 1..n : j >= i + 2 * Limiar - 1 => e[i] + Distancia <= e[j]
  BY DEF Contado
<1> HIDE DEF d, n
<1>4. \A i \in 1..(n + 1) : d[i] <= t
  BY <1>1, <1>2, <1>3
<1>5. \A i, j \in 1..(n + 1) : i <= j => d[i] <= d[j]
  BY <1>1, <1>2, <1>3
<1>6. ASSUME NEW i \in 1..(n + 1), i <= (n + 1) - (f + 1) - Limiar + 1
      PROVE  /\ d[i] + Distancia <= t
             /\ \A j \in 1..(n + 1) :
                   j > (n + 1) - (f + 1) => d[i] + Distancia <= d[j]
  <2>1. i \in 1..n /\ i <= n - f - Limiar + 1
    BY <1>1, <1>6, Numeros
  <2>2. /\ e[i] + Distancia <= t
        /\ \A j \in 1..n : j > n - f => e[i] + Distancia <= e[j]
    BY <1>3, <2>1
  <2>3. d[i] = e[i] /\ d[n + 1] = t
    BY <1>2, <2>1
  <2>4. ASSUME NEW j \in 1..(n + 1), j > (n + 1) - (f + 1)
        PROVE  e[i] + Distancia <= d[j]
    <3>1. CASE j = n + 1
      BY <2>2, <2>3, <3>1
    <3>2. CASE j # n + 1
      <4>1. j \in 1..n /\ j > n - f
        BY <1>1, <2>4, <3>2
      <4> QED
        BY <1>2, <2>2, <4>1
    <3> QED
      BY <3>1, <3>2
  <2> QED
    BY <2>2, <2>3, <2>4
<1>7. ASSUME NEW i \in 1..(n + 1), NEW j \in 1..(n + 1),
             j >= i + 2 * Limiar - 1
      PROVE  d[i] + Distancia <= d[j]
  <2>1. i \in 1..n
    BY <1>1, <1>7, Numeros
  <2>2. CASE j \in 1..n
    BY <1>2, <1>3, <1>7, <2>1, <2>2
  <2>3. CASE j = n + 1
    <3>1. i <= n - f - Limiar + 1
      BY <1>1, <1>7, <2>3, Numeros
    <3> QED
      BY <1>2, <1>3, <2>1, <2>3, <3>1
  <2> QED
    BY <1>1, <2>2, <2>3
<1>8. Contado(d, f + 1, t)
  BY <1>2, <1>4, <1>5, <1>6, <1>7 DEF Contado
<1> QED
  BY <1>8 DEF d

(* The oldest error is forgotten.                                          *)
LEMMA ContadoSemPrimeiro ==
    ASSUME NEW e \in Seq(Nat), NEW f \in Nat, NEW t \in Nat,
           f < Len(e), Contado(e, f, t)
    PROVE  /\ Tail(e) \in Seq(Nat) /\ Len(Tail(e)) = Len(e) - 1
           /\ \A i \in 1..(Len(e) - 1) : Tail(e)[i] = e[i + 1]
           /\ Contado(Tail(e), f, t)
<1> DEFINE d == Tail(e)
           n == Len(e)
<1>1. n \in Nat /\ n > 0 /\ \A i \in 1..n : e[i] \in Nat
  OBVIOUS
<1>2. e # << >>
  BY <1>1
<1>3. d \in Seq(Nat) /\ Len(d) = n - 1 /\ \A i \in 1..(n - 1) : d[i] = e[i + 1]
  BY <1>1, <1>2
<1>4. \A i \in 1..(n - 1) : i + 1 \in 1..n
  BY <1>1
<1>5. Contado(e, f, t)
  OBVIOUS
<1> HIDE DEF d
<1>6. \A i \in 1..(n - 1) : d[i] <= t
  BY <1>3, <1>4, <1>5 DEF Contado
<1>7. ASSUME NEW i \in 1..(n - 1), NEW j \in 1..(n - 1), i <= j
      PROVE  d[i] <= d[j]
  <2>1. i + 1 \in 1..n /\ j + 1 \in 1..n /\ i + 1 <= j + 1
    BY <1>1, <1>7
  <2> QED
    BY <1>3, <1>5, <2>1 DEF Contado
<1>8. ASSUME NEW i \in 1..(n - 1), i <= (n - 1) - f - Limiar + 1
      PROVE  /\ d[i] + Distancia <= t
             /\ \A j \in 1..(n - 1) : j > (n - 1) - f => d[i] + Distancia <= d[j]
  <2>1. i + 1 \in 1..n /\ i + 1 <= n - f - Limiar + 1
    BY <1>1, <1>8, Numeros
  <2>2. /\ e[i + 1] + Distancia <= t
        /\ \A j \in 1..n : j > n - f => e[i + 1] + Distancia <= e[j]
    BY <1>5, <2>1 DEF Contado
  <2>3. ASSUME NEW j \in 1..(n - 1), j > (n - 1) - f
        PROVE  j + 1 \in 1..n /\ j + 1 > n - f
    BY <1>1, <2>3
  <2> QED
    BY <1>3, <2>2, <2>3
<1>9. ASSUME NEW i \in 1..(n - 1), NEW j \in 1..(n - 1),
             j >= i + 2 * Limiar - 1
      PROVE  d[i] + Distancia <= d[j]
  <2>1. i + 1 \in 1..n /\ j + 1 \in 1..n /\ j + 1 >= (i + 1) + 2 * Limiar - 1
    BY <1>1, <1>9, Numeros
  <2> QED
    BY <1>3, <1>5, <2>1 DEF Contado
<1>10. Contado(d, f, t)
  BY <1>3, <1>6, <1>7, <1>8, <1>9 DEF Contado
<1> QED
  BY <1>3, <1>10 DEF d

-----------------------------------------------------------------------------
(* The limiter and the errors it has seen, through the four ways of a step.*)

LEMMA HistoricoVazio ==
    ASSUME NEW t \in Nat
    PROVE  Historico(Limpo, << >>, t)
<1>1. Len(<< >>) = 0 /\ \A i \in 1..0 : FALSE
  OBVIOUS
<1> QED
  BY <1>1, Numeros DEF Historico, Contado, Limpo, Nunca

LEMMA HistoricoDepois ==
    ASSUME NEW s, Limitador(s), NEW e \in Seq(Nat), NEW t \in Nat,
           NEW t2 \in Nat, t <= t2, Historico(s, e, t)
    PROVE  Historico(s, e, t2)
<1>1. s.falhas \in Nat
  BY DEF Limitador, Estado
<1> QED
  BY <1>1, ContadoDepois DEF Historico

LEMMA HistoricoNormalizado ==
    ASSUME NEW s, Limitador(s), NEW e \in Seq(Nat), NEW t \in Nat,
           NEW at \in Nat, at <= t, Historico(s, e, t)
    PROVE  Historico(Normalizado(s, at), e, t)
<1> DEFINE f == s.falhas
           n == Len(e)
<1>1. /\ f \in 0..Limiar /\ s.janela \in Int /\ s.bloqueio \in Int
      /\ n \in Nat /\ f <= n /\ n <= 2 * Limiar
      /\ \A i \in 1..n : e[i] \in Nat
  BY DEF Limitador, Estado, Historico
<1>2. CASE Normalizado(s, at) = s
  BY <1>2
<1>3. CASE /\ Normalizado(s, at) = Limpo
           /\ \/ s.bloqueio # Nunca /\ at >= s.bloqueio
              \/ f = 0
              \/ f > 0 /\ s.janela \in Nat /\ at >= s.janela + Janela
  <2>1. f > 0 => e[n - f + 1] + Distancia <= t
    <3> SUFFICES ASSUME f > 0 PROVE e[n - f + 1] + Distancia <= t
      OBVIOUS
    <3>1. n - f + 1 \in 1..n /\ n \in 1..n
      BY <1>1, Numeros
    <3>2. e[n - f + 1] \in Nat /\ e[n] \in Nat /\ e[n - f + 1] <= e[n]
      BY <1>1, <3>1 DEF Historico, Contado
    <3>3. CASE s.bloqueio # Nunca /\ at >= s.bloqueio
      <4>1. e[n] + Bloqueio <= s.bloqueio + Folga
        BY <3>3 DEF Historico
      <4> QED
        BY <1>1, <3>2, <3>3, <4>1, Numeros
    <3>4. CASE s.janela \in Nat /\ at >= s.janela + Janela
      <4>1. e[n - f + 1] <= s.janela + Folga
        BY DEF Historico
      <4> QED
        BY <3>2, <3>4, <4>1, Numeros
    <3> QED
      BY <1>1, <1>3, <3>3, <3>4
  <2>2. Contado(e, f, t)
    BY DEF Historico
  <2> HIDE DEF f
  <2>3. Contado(e, 0, t)
    BY <1>1, <2>1, <2>2, ContadoFecha
  <2> QED
    BY <1>1, <1>3, <2>3, Numeros DEF Historico, Limpo, Nunca
<1>4. f > 0 => s.janela \in Nat
  BY DEF Historico
<1>5. \/ Normalizado(s, at) = s
      \/ /\ Normalizado(s, at) = Limpo
         /\ \/ s.bloqueio # Nunca /\ at >= s.bloqueio
            \/ f = 0
            \/ f > 0 /\ s.janela \in Nat /\ at >= s.janela + Janela
  BY <1>1, <1>4 DEF Normalizado, Nunca
<1> QED
  BY <1>2, <1>3, <1>5

LEMMA HistoricoFalha ==
    ASSUME NEW s, Limitador(s), NEW e \in Seq(Nat), NEW t \in Nat,
           NEW at \in Nat, at <= t, t <= at + Espera, ~IsBlocked(s, at),
           Historico(s, e, t)
    PROVE  Historico(RegisterFailure(s, at, Bloqueio), Recentes(Append(e, t)), t)
<1> DEFINE r == Normalizado(s, at)
           f == r.falhas
           n == Len(e)
           d == Append(e, t)
           q == RegisterFailure(s, at, Bloqueio)
<1>1. Limitador(r) /\ Historico(r, e, t)
  BY NormalizadoLimitador, HistoricoNormalizado
<1>2. r.bloqueio = Nunca /\ (r.falhas = 0 => r.janela = Nunca)
  BY DEF Normalizado, IsBlocked, Limpo, Nunca, Limitador, Estado
<1> HIDE DEF r
<1>3. f \in 0..Limiar /\ f # Limiar /\ r.janela \in Int
  BY <1>1, <1>2 DEF Limitador, Estado
<1>4. /\ n \in Nat /\ f <= n /\ n <= 2 * Limiar /\ Contado(e, f, t)
      /\ f > 0 => r.janela \in Nat /\ e[n - f + 1] <= r.janela + Folga
      /\ \A i \in 1..n : e[i] \in Nat
  BY <1>1 DEF Historico
<1>5. /\ d \in Seq(Nat) /\ Len(d) = n + 1 /\ d[n + 1] = t
      /\ \A i \in 1..n : d[i] = e[i]
  OBVIOUS
<1>6. Contado(d, f + 1, t)
  BY <1>3, <1>4, ContadoMais, Numeros
<1>7. q = [falhas   |-> f + 1,
           janela   |-> IF r.janela = Nunca THEN PersistState(at) ELSE r.janela,
           bloqueio |-> IF f + 1 >= Limiar THEN PersistState(at + Bloqueio)
                                           ELSE Nunca]
  BY DEF RegisterFailure, r
<1>8. /\ PersistState(at) \in Nat /\ t <= PersistState(at) + Folga
      /\ PersistState(at + Bloqueio) \in Nat
      /\ t + Bloqueio <= PersistState(at + Bloqueio) + Folga
  <2>1. at + Bloqueio \in Nat
    BY Numeros
  <2>2. /\ PersistState(at) \in Nat
        /\ PersistState(at) >= at - (Segundo - 1)
        /\ PersistState(at + Bloqueio) \in Nat
        /\ PersistState(at + Bloqueio) >= (at + Bloqueio) - (Segundo - 1)
    BY <2>1, SegundoInteiro
  <2> QED
    BY <2>2, Numeros
<1>9. q.falhas = f + 1
  BY <1>7
<1>14. n \in Nat /\ f \in Nat /\ f <= n /\ f < Limiar
  BY <1>3, <1>4, Numeros
<1> HIDE DEF f, n, q, d
<1>10. q.janela \in Nat /\ d[(n + 1) - (f + 1) + 1] <= q.janela + Folga
  <2>1. CASE f = 0
    <3>1. q.janela = PersistState(at)
      BY <1>2, <1>7, <2>1 DEF f
    <3>2. (n + 1) - (f + 1) + 1 = n + 1
      BY <1>14, <2>1
    <3> QED
      BY <1>5, <1>8, <3>1, <3>2
  <2>2. CASE f > 0
    <3>1. n - f + 1 \in 1..n /\ (n + 1) - (f + 1) + 1 = n - f + 1
      BY <1>14, <2>2
    <3>2. q.janela = r.janela
      BY <1>4, <1>7, <2>2 DEF Nunca
    <3> QED
      BY <1>4, <1>5, <2>2, <3>1, <3>2
  <2> QED
    BY <1>14, <2>1, <2>2
<1>11. q.bloqueio # Nunca => t + Bloqueio <= q.bloqueio + Folga
  BY <1>7, <1>8
<1>12. CASE n + 1 <= 2 * Limiar
  <2>1. Recentes(d) = d
    BY <1>5, <1>12 DEF Recentes
  <2> QED
    <3>1. Historico(q, d, t)
      BY <1>5, <1>6, <1>9, <1>10, <1>11, <1>12, <1>14 DEF Historico
    <3> QED
      BY <2>1, <3>1 DEF d, q
<1>13. CASE n + 1 > 2 * Limiar
  <2>1. n = 2 * Limiar
    BY <1>4, <1>13, <1>14, Numeros
  <2>2. Recentes(d) = Tail(d)
    BY <1>5, <1>13, Numeros DEF Recentes
  <2>3. f + 1 \in Nat /\ f + 1 < Len(d)
    BY <1>14, <1>5, <2>1, Numeros
  <2>4. /\ Len(Tail(d)) = n
        /\ \A i \in 1..n : Tail(d)[i] = d[i + 1]
        /\ Contado(Tail(d), f + 1, t)
    <3>1. /\ Tail(d) \in Seq(Nat) /\ Len(Tail(d)) = Len(d) - 1
          /\ \A i \in 1..(Len(d) - 1) : Tail(d)[i] = d[i + 1]
          /\ Contado(Tail(d), f + 1, t)
      BY <1>5, <1>6, <2>3, ContadoSemPrimeiro
    <3> QED
      BY <1>14, <1>5, <3>1
  <2>5. n - (f + 1) + 1 \in 1..n /\ n \in 1..n
    BY <1>14, <2>1, Numeros
  <2>6. /\ Tail(d)[n - (f + 1) + 1] = d[(n + 1) - (f + 1) + 1]
        /\ Tail(d)[n] = t
    <3>1. (n - (f + 1) + 1) + 1 = (n + 1) - (f + 1) + 1
      BY <1>14
    <3> QED
      BY <1>5, <2>4, <2>5, <3>1
  <2>7. Historico(q, Tail(d), t)
    <3>1. Len(Tail(d)) <= 2 * Limiar /\ q.falhas <= Len(Tail(d))
      BY <1>9, <1>14, <2>1, <2>4, Numeros
    <3>2. Contado(Tail(d), q.falhas, t)
      BY <1>9, <2>4
    <3>3. Tail(d)[Len(Tail(d)) - q.falhas + 1] <= q.janela + Folga
      BY <1>9, <1>10, <2>4, <2>6
    <3>4. Tail(d)[Len(Tail(d))] = t /\ q.falhas > 0
      <4>1. Len(Tail(d)) = n /\ Tail(d)[n] = t
        BY <2>4, <2>6
      <4>2. q.falhas > 0
        BY <1>9, <1>14
      <4> QED
        BY <4>1, <4>2, Zenon
    <3> QED
      BY <1>10, <1>11, <3>1, <3>2, <3>3, <3>4 DEF Historico
  <2> QED
    BY <2>2, <2>7 DEF d, q
<1> QED
  BY <1>12, <1>13, <1>14, Numeros

-----------------------------------------------------------------------------
Historicos == \A u \in Usuario : Historico(login[u], erros[u], agora)

LEMMA HistoricosMantidos ==
    Aut /\ Historicos /\ [AutNext]_autvars => Historicos'
<1> SUFFICES ASSUME Aut, Historicos, AutNext PROVE Historicos'
  BY DEF autvars, limites, Historicos
<1> SUFFICES ASSUME NEW u \in Usuario
             PROVE  Historico(login'[u], erros'[u], agora')
  BY DEF Historicos
<1>1. PassoDeSenha(u) /\ agora' \in {agora, agora + 1} /\ agora' \in 0..MaxTempo
  BY EfeitoDoPasso DEF Efeito
<1>2. Aut'
  BY AutMantida
<1>3. /\ Limitador(login[u]) /\ erros[u] \in Seq(Nat) /\ agora \in Nat
      /\ Historico(login[u], erros[u], agora)
  BY DEF Aut, AutTypeOK, EmOrdem, Historicos
<1>4. /\ Limitador(login'[u]) /\ erros'[u] \in Seq(Nat) /\ agora' \in Nat
      /\ agora <= agora'
  BY <1>1, <1>2, <1>3 DEF Aut, AutTypeOK, EmOrdem
<1>5. Historico(login'[u], erros'[u], agora)
  BY <1>1, <1>3, HistoricoVazio, HistoricoNormalizado, HistoricoFalha
  DEF PassoDeSenha, Lido
<1> QED
  BY <1>3, <1>4, <1>5, HistoricoDepois

(* Whatever asks for the password of an account, in whatever order the     *)
(* calls get the lock, twice Limiar wrong ones in a row take a window or a *)
(* block, less the wait and the second of storage (LimiteDeTentativas).    *)
THEOREM TentativasLimitadas == AutSpec => []LimiteDeTentativas
<1>1. AutInit => Aut /\ Historicos
  BY InicioDaAutenticacao, HistoricoVazio DEF AutInit, Historicos
<1>2. Aut /\ Historicos /\ [AutNext]_autvars => (Aut /\ Historicos)'
  BY AutMantida, HistoricosMantidos
<1>3. Aut /\ Historicos => LimiteDeTentativas
  <2> SUFFICES ASSUME Aut, Historicos, NEW u \in Usuario,
                      Len(erros[u]) = 2 * Limiar
               PROVE  erros[u][1] + Distancia <= erros[u][2 * Limiar]
    <3>1. ASSUME NEW u \in Usuario, Aut, Len(erros[u]) = 2 * Limiar
          PROVE  erros[u][1] \in Nat /\ erros[u][2 * Limiar] \in Nat
      <4>1. erros[u] \in Seq(Nat) /\ 1 \in 1..(2 * Limiar)
            /\ 2 * Limiar \in 1..(2 * Limiar)
        BY <3>1, Numeros DEF Aut, AutTypeOK
      <4> QED
        BY <3>1, <4>1
    <3> QED
      BY <3>1, Numeros DEF LimiteDeTentativas, Distancia
  <2>1. 1 \in 1..Len(erros[u]) /\ 2 * Limiar \in 1..Len(erros[u])
        /\ 2 * Limiar >= 1 + 2 * Limiar - 1
    BY Numeros
  <2>2. Contado(erros[u], login[u].falhas, agora)
    BY DEF Historicos, Historico
  <2> QED
    BY <2>1, <2>2 DEF Contado
<1> QED
  BY <1>1, <1>2, <1>3, PTL DEF AutSpec
=============================================================================
