--------------------------- MODULE UsuariosProofs ---------------------------
(***************************************************************************)
(* Theorems of the user directory, for any set of accounts and any roles.  *)
(* The type invariant is inductive alone.  That an administrator is always *)
(* able to act is inductive too, because whoever acts on another account   *)
(* is such an administrator and cannot name itself.                        *)
(***************************************************************************)
EXTENDS Usuarios, TLAPS

(* The initial directory is of its type and has an administrator at work.  *)
LEMMA InicioBom == UsuariosInit => UsuariosTypeOK /\ AdminDisponivel
<1> SUFFICES ASSUME UsuariosInit PROVE UsuariosTypeOK /\ AdminDisponivel
  OBVIOUS
<1>1. UsuariosTypeOK
  BY DEF UsuariosInit, UsuariosTypeOK, Conta
<1>2. PICK u \in Iniciais : Perfil[u] = "admin"
  BY UsuariosAssumption DEF UsuariosAssumption
<1>3. u \in Usuario
  BY <1>2, UsuariosAssumption DEF UsuariosAssumption
<1>4. RequireAdmin(u)
  BY <1>2, <1>3 DEF UsuariosInit, RequireAdmin, ActiveUser, Ativo
<1> QED
  BY <1>1, <1>3, <1>4 DEF AdminDisponivel

(* Every operation of the directory keeps its type.                        *)
LEMMA TipoMantido == UsuariosTypeOK /\ [UsuariosNext]_usuarios => UsuariosTypeOK'
<1> SUFFICES ASSUME UsuariosTypeOK, [UsuariosNext]_usuarios
             PROVE  UsuariosTypeOK'
  OBVIOUS
<1> USE DEF UsuariosTypeOK, Conta
<1>1. ASSUME NEW u \in Usuario, ChangePassword(u) PROVE UsuariosTypeOK'
  BY <1>1 DEF ChangePassword
<1>2. ASSUME NEW u \in Usuario, RecoverPasswordWithCode(u) PROVE UsuariosTypeOK'
  BY <1>2 DEF RecoverPasswordWithCode
<1>3. ASSUME NEW u \in Usuario, NEW a \in Usuario, CreateUser(a, u)
      PROVE  UsuariosTypeOK'
  BY <1>3 DEF CreateUser
<1>4. ASSUME NEW u \in Usuario, NEW a \in Usuario, ResetUserPassword(a, u)
      PROVE  UsuariosTypeOK'
  BY <1>4 DEF ResetUserPassword
<1>5. ASSUME NEW u \in Usuario, NEW a \in Usuario, NEW ativo \in BOOLEAN,
             SetUserActive(a, u, ativo)
      PROVE  UsuariosTypeOK'
  BY <1>5 DEF SetUserActive
<1>6. CASE UNCHANGED usuarios
  BY <1>6
<1> QED
  BY <1>1, <1>2, <1>3, <1>4, <1>5, <1>6 DEF UsuariosNext

(* An administrator able to act stays so through every operation it does   *)
(* itself or that a password owner does; that is what keeps one there.     *)
LEMMA AdminMantido ==
    UsuariosTypeOK /\ AdminDisponivel /\ [UsuariosNext]_usuarios => AdminDisponivel'
<1> SUFFICES ASSUME UsuariosTypeOK, AdminDisponivel, [UsuariosNext]_usuarios
             PROVE  AdminDisponivel'
  OBVIOUS
<1> USE DEF UsuariosTypeOK, Conta
<1> DEFINE Apto(d, x) == /\ d[x].existe /\ d[x].ativo /\ ~d[x].trocar
                         /\ Perfil[x] = "admin"
<1>0. AdminDisponivel' <=> \E x \in Usuario : Apto(usuarios', x)
  BY DEF AdminDisponivel, RequireAdmin, ActiveUser, Ativo
<1>1. PICK x \in Usuario : Apto(usuarios, x)
  BY DEF AdminDisponivel, RequireAdmin, ActiveUser, Ativo
<1>2. ASSUME NEW u \in Usuario, ChangePassword(u) PROVE Apto(usuarios', x)
  BY <1>1, <1>2 DEF ChangePassword
<1>3. ASSUME NEW u \in Usuario, RecoverPasswordWithCode(u)
      PROVE  Apto(usuarios', x)
  BY <1>1, <1>3 DEF RecoverPasswordWithCode
<1>4. ASSUME NEW u \in Usuario, NEW a \in Usuario, CreateUser(a, u)
      PROVE  Apto(usuarios', x)
  BY <1>1, <1>4 DEF CreateUser
<1>5. ASSUME NEW u \in Usuario, NEW a \in Usuario, ResetUserPassword(a, u)
      PROVE  Apto(usuarios', a)
  BY <1>5 DEF ResetUserPassword, RequireAdmin, ActiveUser, Ativo
<1>6. ASSUME NEW u \in Usuario, NEW a \in Usuario, NEW ativo \in BOOLEAN,
             SetUserActive(a, u, ativo)
      PROVE  Apto(usuarios', a)
  BY <1>6 DEF SetUserActive, RequireAdmin, ActiveUser, Ativo
<1>7. CASE UNCHANGED usuarios
  BY <1>0, <1>1, <1>7
<1> HIDE DEF Apto
<1> QED
  BY <1>0, <1>2, <1>3, <1>4, <1>5, <1>6, <1>7 DEF UsuariosNext

(* The table always holds rows of its type.                                *)
THEOREM UsuariosTipo == UsuariosSpec => []UsuariosTypeOK
<1>1. UsuariosInit => UsuariosTypeOK
  BY InicioBom
<1> QED
  BY <1>1, TipoMantido, PTL DEF UsuariosSpec

(* There is always an administrator who can act: no sequence of creations, *)
(* deactivations, resets and password changes locks everybody out.         *)
THEOREM SempreHaAdmin == UsuariosSpec => []AdminDisponivel
<1>1. UsuariosInit => UsuariosTypeOK /\ AdminDisponivel
  BY InicioBom
<1>2. /\ UsuariosTypeOK /\ AdminDisponivel
      /\ [UsuariosNext]_usuarios
      => (UsuariosTypeOK /\ AdminDisponivel)'
  BY TipoMantido, AdminMantido
<1> QED
  BY <1>1, <1>2, PTL DEF UsuariosSpec

(* Only the owner's password change, or another account that is an         *)
(* administrator able to act before and after, alters an account.          *)
THEOREM SoAdminAltera == UsuariosSpec => DiretorioSoPorAdmin
<1> DEFINE Alterada(u) ==
      usuarios'[u] # usuarios[u] =>
        \/ Ativo(u) /\ Ativo(u)' /\ ~usuarios'[u].trocar
        \/ \E a \in Usuario \ {u} : RequireAdmin(a) /\ RequireAdmin(a)'
<1>1. ASSUME UsuariosTypeOK, [UsuariosNext]_usuarios
      PROVE  \A x \in Usuario : Alterada(x)
  <2> USE <1>1 DEF UsuariosTypeOK, Conta
  <2> TAKE x \in Usuario
  <2>1. ASSUME NEW u \in Usuario, ChangePassword(u) PROVE Alterada(x)
    BY <2>1 DEF ChangePassword, Ativo
  <2>2. ASSUME NEW u \in Usuario, RecoverPasswordWithCode(u) PROVE Alterada(x)
    BY <2>2 DEF RecoverPasswordWithCode, Ativo
  <2>3. ASSUME NEW u \in Usuario, NEW a \in Usuario, CreateUser(a, u)
        PROVE  Alterada(x)
    BY <2>3 DEF CreateUser, RequireAdmin, ActiveUser, Ativo
  <2>4. ASSUME NEW u \in Usuario, NEW a \in Usuario, ResetUserPassword(a, u)
        PROVE  Alterada(x)
    BY <2>4 DEF ResetUserPassword, RequireAdmin, ActiveUser, Ativo
  <2>5. ASSUME NEW u \in Usuario, NEW a \in Usuario, NEW ativo \in BOOLEAN,
               SetUserActive(a, u, ativo)
        PROVE  Alterada(x)
    BY <2>5 DEF SetUserActive, RequireAdmin, ActiveUser, Ativo
  <2>6. CASE UNCHANGED usuarios
    BY <2>6
  <2> HIDE DEF Alterada
  <2> QED
    BY <2>1, <2>2, <2>3, <2>4, <2>5, <2>6 DEF UsuariosNext
<1>2. UsuariosTypeOK /\ [UsuariosNext]_usuarios => [AlteracaoLegitima]_usuarios
  BY <1>1 DEF AlteracaoLegitima
<1> QED
  BY <1>2, UsuariosTipo, PTL DEF UsuariosSpec, DiretorioSoPorAdmin
=============================================================================
