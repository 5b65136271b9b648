------------------------------- MODULE Partida -------------------------------
(***************************************************************************)
(* From the start of a TrigoPDV process to its open window: the lock that  *)
(* keeps a second process out (runtime/single_instance.py), the database   *)
(* made from the catalogue on the first use (catalog_bootstrap.py), the    *)
(* migration of an older one (db/migrations.py, db/database.py) and the    *)
(* assistant that creates the first administrator (ui/setup.py,            *)
(* provisioning.py), in the order of main.py and updates/startup.py.       *)
(*                                                                         *)
(* Every step that another process could come before is an action, and the *)
(* process may die after each: the system frees its lock, and the files it *)
(* was making stay.  Programs of several releases are started on one       *)
(* database.  What an update under way adds to the start is in Atualizacao.*)
(***************************************************************************)
EXTENDS Integers

CONSTANTS
    Processo,       \* processes, one after another or at once
    Nenhum,
    Alvos,          \* schemas of the programs that may be started
    Antigos,        \* schemas of the databases found
    InstalacaoDesde,    \* the schema that brings installation_state
    CaixaUnicoDesde,    \* the schema that allows one open drawer
    MaxDados,       \* bound: writes of a session that the copies tell apart
    MaxCodigos,     \* bound: recovery codes shown
    MaxQuedas       \* bound: deaths of processes

ASSUME PartidaAssumption ==
    /\ Nenhum \notin Processo
    /\ Alvos \subseteq Nat \ {0} /\ Antigos \subseteq Nat \ {0}
    /\ InstalacaoDesde \in Nat /\ CaixaUnicoDesde \in Nat
    /\ \A v \in Alvos : v >= InstalacaoDesde
    /\ MaxDados \in Nat /\ MaxCodigos \in Nat /\ MaxQuedas \in Nat

VARIABLES
    banco,          \* the database file; esquema 0 while there is none
    copias,         \* verified copies made before a migration
    reserva,        \* who created the file .bootstrap.lock, while it exists
    trava,          \* who holds the lock of the instance
    proc,           \* per process: step, schema of its program, staging file
    anotado,        \* the recovery code shown last
    quedas

arquivos == <<banco, copias, reserva>>
vars == <<arquivos, trava, proc, anotado, quedas>>

SemBanco == [esquema |-> 0, catalogo |-> FALSE, instalacao |-> "AUSENTE",
             usuarios |-> 0, codigo |-> 0, abertos |-> 0, dados |-> 0]
Fora == [passo |-> "fora", alvo |-> 0, nova |-> "nada", mostrado |-> 0]

\* What an older release left: users or none, and, where its schema allows
\* it, two open drawers.
BancoAntigo(v, u, n) ==
    [SemBanco EXCEPT !.esquema = v, !.catalogo = TRUE, !.usuarios = u,
        !.instalacao = IF v < InstalacaoDesde THEN "AUSENTE"
                       ELSE IF u = 0 THEN "UNINITIALIZED" ELSE "READY",
        !.abertos = n]

Init ==
    /\ banco \in {SemBanco} \cup
                 {BancoAntigo(v, u, n) : v \in Antigos, u \in 0..1, n \in 0..2}
    /\ banco.abertos > 0 => banco.usuarios > 0
    /\ banco.esquema >= CaixaUnicoDesde => banco.abertos <= 1
    /\ copias = {} /\ reserva = Nenhum /\ trava = Nenhum
    /\ proc = [p \in Processo |-> Fora]
    /\ anotado = 0 /\ quedas = 0

Existe == banco.esquema # 0

Vai(p, passo) == proc' = [proc EXCEPT ![p].passo = passo]

\* The error reaches main: the guard releases the lock and the program ends.
Sai(p) ==
    /\ proc' = [proc EXCEPT ![p] = Fora]
    /\ trava' = IF trava = p THEN Nenhum ELSE trava

-----------------------------------------------------------------------------
(* main and startup_preflight                                              *)

\* Mutant: the instance is not locked.
TravaIgnorada == TRUE

TravaLivre == trava = Nenhum

\* acquire: who finds the file locked warns the user and ends.
Acquire(p, v) ==
    /\ proc[p].passo = "fora"
    /\ TravaLivre
    /\ trava' = p
    /\ proc' = [proc EXCEPT ![p] = [Fora EXCEPT !.passo = "verifica", !.alvo = v]]
    /\ UNCHANGED <<arquivos, anotado, quedas>>

StartupPreflight(p) ==
    /\ proc[p].passo = "verifica"
    /\ Vai(p, IF Existe THEN "migrar" ELSE "semear")
    /\ UNCHANGED <<arquivos, trava, anotado, quedas>>

-----------------------------------------------------------------------------
(* bootstrap_database_from_catalog                                         *)

Semeando == {"montar", "povoar", "conferir", "publicar", "limpar", "desfazer"}

\* A pending update, orphan sidecars, a catalogue that is not its manifest's, or
\* a reservation that cannot be made.
SementeRecusada(p) ==
    /\ proc[p].passo = "semear"
    /\ Sai(p)
    /\ UNCHANGED <<arquivos, anotado, quedas>>

\* O_CREAT | O_EXCL, and the file is there already.
ReservaRecusada(p) ==
    /\ proc[p].passo = "semear"
    /\ ~Existe
    /\ reserva # Nenhum
    /\ Sai(p)
    /\ UNCHANGED <<arquivos, anotado, quedas>>

\* The file is made and its descriptor closed; if closing it raises, the file
\* stays, for there is nothing to undo yet.
Reserva(p) ==
    /\ proc[p].passo = "semear"
    /\ IF Existe THEN Vai(p, "migrar") /\ UNCHANGED <<reserva, trava>>
       ELSE /\ reserva = Nenhum
            /\ reserva' = p
            /\ \/ Vai(p, "montar") /\ UNCHANGED trava
               \/ Sai(p)
    /\ UNCHANGED <<banco, copias, anotado, quedas>>

\* Mutant: the file is published as soon as it has its schema.
RoteiroApressado ==
    [montar |-> "publicar", povoar |-> "conferir", conferir |-> "publicar"]

\* The order of the steps on the staging file.
Roteiro == [montar |-> "povoar", povoar |-> "conferir", conferir |-> "publicar"]

\* A step on the staging file: it works, or raises and all is undone.
Prepara(p, passo, nova, ok) ==
    /\ proc[p].passo = passo
    /\ proc' = IF ok THEN [proc EXCEPT ![p].passo = Roteiro[passo], ![p].nova = nova]
               ELSE [proc EXCEPT ![p].passo = "desfazer"]
    /\ UNCHANGED <<arquivos, trava, anotado, quedas>>

Montar(p) == \E ok \in BOOLEAN : Prepara(p, "montar", "esquema", ok /\ ~Existe)

\* One transaction inserts every product, or none.
Povoar(p) == \E ok \in BOOLEAN : Prepara(p, "povoar", "catalogo", ok)

\* Among the rest, the digest of its products is that of the manifest.
Conferir(p) ==
    \E ok \in BOOLEAN :
        Prepara(p, "conferir", proc[p].nova, ok /\ proc[p].nova = "catalogo")

\* os.replace, unless a database appeared meanwhile.
Publicar(p) ==
    /\ proc[p].passo = "publicar"
    /\ IF Existe THEN Vai(p, "desfazer") /\ UNCHANGED banco
       ELSE /\ banco' = [SemBanco EXCEPT !.esquema = proc[p].alvo,
                            !.catalogo = proc[p].nova = "catalogo",
                            !.instalacao = "UNINITIALIZED"]
            /\ Vai(p, "limpar")
    /\ UNCHANGED <<copias, reserva, trava, anotado, quedas>>

\* The finally clause removes the staging file and the reservation, and goes
\* on when the system refuses to remove them; only a published database goes
\* on to the migrations.
Limpar(p) ==
    /\ proc[p].passo \in {"limpar", "desfazer"}
    /\ reserva' = Nenhum \/ UNCHANGED reserva
    /\ IF proc[p].passo = "limpar"
       THEN proc' = [proc EXCEPT ![p].passo = "migrar", ![p].nova = "nada"]
            /\ UNCHANGED trava
       ELSE Sai(p)
    /\ UNCHANGED <<banco, copias, anotado, quedas>>

-----------------------------------------------------------------------------
(* MigrationManager.migrate                                                *)

\* Where the version that is read leads.
Conforme(p, seguinte) ==
    IF banco.esquema > proc[p].alvo THEN Sai(p)
    ELSE /\ Vai(p, IF banco.esquema = proc[p].alvo THEN "aberto" ELSE seguinte)
         /\ UNCHANGED trava

\* The version is observed without a lock.
Inspecionar(p) ==
    /\ proc[p].passo = "migrar"
    /\ Conforme(p, "copiar")
    /\ UNCHANGED <<arquivos, anotado, quedas>>

Retrato == [esquema |-> banco.esquema, dados |-> banco.dados]

\* backup_to publishes a copy that passed its check, or raises.
BackupTo(p) ==
    /\ proc[p].passo = "copiar"
    /\ \/ /\ copias' = copias \cup {Retrato}
          /\ Vai(p, "aplicar")
          /\ UNCHANGED trava
       \/ Sai(p) /\ UNCHANGED copias
    /\ UNCHANGED <<banco, reserva, anotado, quedas>>

\* Mutant: migration 7 takes every older installation for a ready one.
SemprePronta(b) == "READY"

\* Migration 7: who has users is ready, who has none goes to the assistant.
EstadoInicial(b) == IF b.usuarios > 0 THEN "READY" ELSE "UNINITIALIZED"

\* Migration 9 raises when more than one drawer is open.
Migravel(v) ==
    banco.esquema < CaixaUnicoDesde /\ v >= CaixaUnicoDesde => banco.abertos <= 1

\* One write transaction: the version is read again, then every migration
\* that is missing, or none.
Aplicar(p) ==
    /\ proc[p].passo = "aplicar"
    /\ LET v == proc[p].alvo IN
         \/ /\ banco.esquema < v /\ Migravel(v)
            /\ banco' = [banco EXCEPT !.esquema = v,
                            !.instalacao = IF @ = "AUSENTE" THEN EstadoInicial(banco)
                                           ELSE @]
            /\ Vai(p, "aberto") /\ UNCHANGED trava
         \/ /\ banco.esquema >= v
            /\ Conforme(p, "aberto") /\ UNCHANGED banco
         \/ Sai(p) /\ UNCHANGED banco
    /\ UNCHANGED <<copias, reserva, anotado, quedas>>

-----------------------------------------------------------------------------
(* The open window                                                         *)

\* continue_to_confirmation shows a code once; the window has to be closed
\* for another.
ContinueToConfirmation(p) ==
    /\ proc[p].passo = "aberto"
    /\ banco.instalacao = "UNINITIALIZED"
    /\ proc[p].mostrado = 0
    /\ anotado < MaxCodigos
    /\ anotado' = anotado + 1
    /\ proc' = [proc EXCEPT ![p].mostrado = anotado + 1]
    /\ UNCHANGED <<arquivos, trava, quedas>>

\* finish_setup, the code repeated right: one transaction makes the first
\* administrator and READY, or neither.
ProvisionInitialAdmin(p) ==
    /\ proc[p].passo = "aberto"
    /\ proc[p].mostrado # 0
    /\ banco.instalacao = "UNINITIALIZED" /\ banco.usuarios = 0
    /\ banco' = [banco EXCEPT !.instalacao = "READY", !.usuarios = 1,
                              !.codigo = proc[p].mostrado]
    /\ proc' = [proc EXCEPT ![p].mostrado = 0]
    /\ UNCHANGED <<copias, reserva, trava, anotado, quedas>>

\* A write of the point of sale, which may open or close a drawer.
Operar(p, n) ==
    /\ proc[p].passo = "aberto"
    /\ banco.instalacao = "READY"
    /\ banco.dados < MaxDados
    /\ n \in {banco.abertos - 1, banco.abertos, banco.abertos + 1} \cap 0..2
    /\ n <= 1 \/ banco.esquema < CaixaUnicoDesde
    /\ banco' = [banco EXCEPT !.dados = @ + 1, !.abertos = n]
    /\ UNCHANGED <<copias, reserva, trava, proc, anotado, quedas>>

RequestExit(p) ==
    /\ proc[p].passo = "aberto"
    /\ Sai(p)
    /\ UNCHANGED <<arquivos, anotado, quedas>>

\* The process dies: the system closes its handles, and nobody cleans up.
Queda(p) ==
    /\ proc[p].passo # "fora"
    /\ quedas < MaxQuedas
    /\ quedas' = quedas + 1
    /\ Sai(p)
    /\ UNCHANGED <<arquivos, anotado>>

-----------------------------------------------------------------------------
Next ==
    \E p \in Processo :
        \/ \E v \in Alvos : Acquire(p, v)
        \/ StartupPreflight(p)
        \/ SementeRecusada(p) \/ ReservaRecusada(p) \/ Reserva(p)
        \/ Montar(p) \/ Povoar(p) \/ Conferir(p) \/ Publicar(p) \/ Limpar(p)
        \/ Inspecionar(p) \/ BackupTo(p) \/ Aplicar(p)
        \/ ContinueToConfirmation(p) \/ ProvisionInitialAdmin(p)
        \/ \E n \in 0..2 : Operar(p, n)
        \/ RequestExit(p) \/ Queda(p)

Spec == Init /\ [][Next]_vars

-----------------------------------------------------------------------------
(* Properties                                                              *)

TypeOK ==
    /\ banco \in [esquema : Nat, catalogo : BOOLEAN,
                  instalacao : {"AUSENTE", "UNINITIALIZED", "READY"},
                  usuarios : 0..1, codigo : Nat, abertos : 0..2, dados : Nat]
    /\ copias \subseteq [esquema : Nat, dados : Nat]
    /\ reserva \in Processo \cup {Nenhum} /\ trava \in Processo \cup {Nenhum}
    /\ proc \in [Processo ->
                    [passo : Semeando \cup {"fora", "verifica", "semear", "migrar",
                                            "copiar", "aplicar", "aberto"},
                     alvo : Nat, nova : {"nada", "esquema", "catalogo"},
                     mostrado : Nat]]
    /\ anotado \in Nat /\ quedas \in Nat

(* A database under its final name has its schema and the whole catalogue, *)
(* wherever a bootstrap failed or died.                                    *)
PublicadoInteiro == Existe => banco.catalogo

(* The installation counts as ready exactly when somebody can use it, also *)
(* after the migration of a database that never had the mark, and the      *)
(* recovery code on record is the one shown last.                          *)
InstalacaoCoerente ==
    /\ banco.esquema >= InstalacaoDesde =>
         (banco.instalacao = "READY" <=> banco.usuarios > 0)
    /\ banco.codigo # 0 => banco.codigo = anotado

BancoConservado ==
    Existe =>
      /\ banco'.dados >= banco.dados /\ banco'.usuarios >= banco.usuarios
      /\ banco'.esquema # banco.esquema =>
           banco'.esquema > banco.esquema /\ Retrato \in copias

(* The schema of a database with data only changes when a verified copy    *)
(* holds all that is in it at that moment, and only forwards; a database   *)
(* is never replaced nor its writes lost.                                  *)
MigraComCopia == [][BancoConservado]_vars

(* Who finds no database but the reservation is told "Outra inicialização *)
(* do banco já está em andamento" (catalog_bootstrap.py:149).  It would    *)
(* mean that some process is at it, and a reservation left behind says so  *)
(* for ever.                                                               *)
RecusaTemDono ==
    ~Existe /\ reserva # Nenhum => \E q \in Processo : proc[q].passo \in Semeando
=============================================================================
