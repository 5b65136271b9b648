------------------------------ MODULE Usuarios ------------------------------
(***************************************************************************)
(* The user directory of TrigoPDV (services/security.py, services/auth.py, *)
(* services/provisioning.py): who exists, who is active, and who still has *)
(* a temporary password to change.  Every write is one BEGIN IMMEDIATE     *)
(* transaction of db/database.py, hence one atomic action.  Whether the    *)
(* password or the recovery code a caller types is right is an input, so   *)
(* an operation is described here by what it does once the proof passed.   *)
(*                                                                         *)
(* The role `perfil` is written when the account is created and never      *)
(* again, so it is a constant function.                                    *)
(***************************************************************************)
EXTENDS Integers, FiniteSets

CONSTANTS
    Usuario,    \* accounts that can ever exist
    Perfil,     \* Perfil[u] is "admin" or "caixa"
    Iniciais    \* accounts of the initial state, an administrator among them

ASSUME UsuariosAssumption ==
    /\ Perfil \in [Usuario -> {"admin", "caixa"}]
    /\ Iniciais \subseteq Usuario
    /\ \E u \in Iniciais : Perfil[u] = "admin"

VARIABLE usuarios   \* the table usuarios: existe, ativo, deve_trocar_senha

Conta == [existe : BOOLEAN, ativo : BOOLEAN, trocar : BOOLEAN]

UsuariosTypeOK == usuarios \in [Usuario -> Conta]

-----------------------------------------------------------------------------
(* Authorization, as every service applies it inside its own transaction.  *)

Ativo(u) == usuarios[u].existe /\ usuarios[u].ativo

\* get_active_user: exists, is active and owes no password change.
ActiveUser(u) == Ativo(u) /\ ~usuarios[u].trocar

RequireAdmin(u) == ActiveUser(u) /\ Perfil[u] = "admin"

\* can_access_cash: an administrator, or the owner of the cash drawer.
CanAccessCash(u, dono) == ActiveUser(u) /\ (Perfil[u] = "admin" \/ u = dono)

AdminsAtivos == {u \in Usuario : Ativo(u) /\ Perfil[u] = "admin"}

-----------------------------------------------------------------------------
(* The initial administrator is provisioned active and with a password of  *)
(* its own; the other initial accounts are as an earlier session left them.*)
UsuariosInit ==
    usuarios = [u \in Usuario |->
                  [existe |-> u \in Iniciais, ativo |-> u \in Iniciais,
                   trocar |-> FALSE]]

CreateUser(a, u) ==
    /\ RequireAdmin(a)
    /\ ~usuarios[u].existe
    /\ usuarios' = [usuarios EXCEPT
                      ![u] = [existe |-> TRUE, ativo |-> TRUE, trocar |-> TRUE]]

\* The owner proves the current password; allowed while a change is pending.
ChangePassword(u) ==
    /\ Ativo(u)
    /\ usuarios' = [usuarios EXCEPT ![u].trocar = FALSE]

\* Mutant: an administrator resets the password of the own account too.
ResetDeSiProprio(a, u) ==
    /\ RequireAdmin(a)
    /\ usuarios[u].existe
    /\ usuarios' = [usuarios EXCEPT ![u].trocar = TRUE]

\* An administrator sets a temporary password for somebody else.
ResetUserPassword(a, u) ==
    /\ RequireAdmin(a)
    /\ u # a
    /\ usuarios[u].existe
    /\ usuarios' = [usuarios EXCEPT ![u].trocar = TRUE]

\* Only for an active administrator who proves the recovery code.
RecoverPasswordWithCode(u) ==
    /\ Ativo(u)
    /\ Perfil[u] = "admin"
    /\ usuarios' = [usuarios EXCEPT ![u].trocar = FALSE]

\* Mutant: the last active administrator is protected, but not who acts.
DesativaASiProprio(a, u, ativo) ==
    /\ RequireAdmin(a)
    /\ usuarios[u].existe
    /\ ~ativo /\ Perfil[u] = "admin" => Cardinality(AdminsAtivos) > 1
    /\ usuarios' = [usuarios EXCEPT ![u].ativo = ativo]

SetUserActive(a, u, ativo) ==
    /\ RequireAdmin(a)
    /\ usuarios[u].existe
    /\ ~ativo => u # a
    /\ ~ativo /\ Perfil[u] = "admin" => Cardinality(AdminsAtivos) > 1
    /\ usuarios' = [usuarios EXCEPT ![u].ativo = ativo]

UsuariosNext ==
    \E u \in Usuario :
        \/ ChangePassword(u)
        \/ RecoverPasswordWithCode(u)
        \/ \E a \in Usuario :
             \/ CreateUser(a, u)
             \/ ResetUserPassword(a, u)
             \/ \E ativo \in BOOLEAN : SetUserActive(a, u, ativo)

UsuariosSpec == UsuariosInit /\ [][UsuariosNext]_usuarios

-----------------------------------------------------------------------------
(* Some administrator can always act at once: active and with no password  *)
(* change pending.  The check of set_user_active counts active             *)
(* administrators, pending or not; that this is enough rests on no         *)
(* administrator being able to lock out the account that acts.             *)
AdminDisponivel == \E u \in Usuario : RequireAdmin(u)

AlteracaoLegitima ==
    \A u \in Usuario :
        usuarios'[u] # usuarios[u] =>
          \/ Ativo(u) /\ Ativo(u)' /\ ~usuarios'[u].trocar
          \/ \E a \in Usuario \ {u} : RequireAdmin(a) /\ RequireAdmin(a)'

(* An account changes state in two ways only: it completes a change of its *)
(* own password and stays active, or another account is an administrator   *)
(* able to act before and after.  So the one administrator left at work is *)
(* never altered by anybody else.                                          *)
DiretorioSoPorAdmin == [][AlteracaoLegitima]_usuarios
=============================================================================
