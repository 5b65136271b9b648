---------------------------- MODULE Atualizacao ----------------------------
(***************************************************************************)
(* The online update (updates/coordinator.py, state.py, startup.py, the    *)
(* update operations of desktop_controller.py and the screen that asks for *)
(* them): a state file, written atomically, follows a release from the     *)
(* signed offer to the start of the new program, across crashes.           *)
(*                                                                         *)
(* The monitor thread and the task of the administrator exclude each other *)
(* with _update_lock (`tarefa`), but the counter goes on meanwhile: each   *)
(* write of the state file is an action, so that a crash or a click may    *)
(* fall between any two.  TUF and Velopack are external: an offer is any   *)
(* authentic release, and an update that was scheduled is installed, or    *)
(* given up, at some moment at which the program is not running.           *)
(***************************************************************************)
EXTENDS Integers, FiniteSets

CONSTANTS
    Release,        \* releases: version, sequence and schema
    Sequencia,      \* their sequence numbers; two releases may share one
    Esquema,        \* the schema of the database each one needs
    Inicial,        \* the release found installed
    Publicadas,     \* releases the repository may offer
    Instaladores,   \* releases people may install by hand
    Nenhuma,
    MaxTentativas   \* bound: attempts after which nobody applies again

ASSUME AtualizacaoAssumption ==
    /\ Sequencia \in [Release -> Nat]
    /\ Esquema \in [Release -> Nat]
    /\ Inicial \in Release
    /\ Publicadas \subseteq Release /\ Instaladores \subseteq Release
    /\ Nenhuma \notin Release
    /\ MaxTentativas \in Nat

VARIABLES
    estado,         \* the state file
    emMaos,         \* _pending_update_offer
    tarefa,         \* where the holder of _update_lock is
    aguarda,        \* the screen that asked for the update polls its outcome
    admin,          \* the administration screen is in front
    programa,       \* where the process is, from its start to its end
    instalado,      \* the release on disk, the one that runs
    agendado,       \* what Velopack is to install after the process ends
    esquema,        \* schema of the database
    caixa,          \* whether the drawer is open
    copias,         \* history: releases with a verified copy made for them
    reagendadas,    \* history: times a start scheduled the update again
    conferidas      \* history: releases that passed the health check

comercio == <<caixa, admin>>
disco == <<instalado, agendado, esquema>>
memoria == <<emMaos, tarefa, aguarda>>
historia == <<copias, reagendadas, conferidas>>
vars == <<estado, memoria, comercio, programa, disco, historia>>

Parada == {"AVAILABLE", "FAILED", "IDLE"}
EmAndamento == {"DOWNLOADING", "DOWNLOADED", "PREPARING", "APPLY_PENDING", "HEALTH_CHECK"}
Bloqueante == {"VERSION_MISMATCH", "HEALTH"}

\* Without a state file, load() answers with its defaults: IDLE, and the release
\* that runs for the current one, as here (state.py:67).
Init ==
    /\ estado = [fase |-> "IDLE", atual |-> Inicial, alvo |-> Nenhuma,
                 pacote |-> Nenhuma, oferta |-> Nenhuma, tentativas |-> 0,
                 erro |-> ""]
    /\ emMaos = Nenhuma /\ tarefa = "livre" /\ aguarda = FALSE
    /\ admin = FALSE /\ caixa = FALSE
    /\ programa = "desligado"
    /\ instalado = Inicial /\ agendado = Nenhuma
    /\ esquema = Esquema[Inicial]
    /\ copias = {} /\ reagendadas = 0 /\ conferidas = {Inicial}

Falhou(erro) == [estado EXCEPT !.fase = "FAILED", !.erro = erro]

-----------------------------------------------------------------------------
(* While the program is open: check and download                           *)

\* UpdateOffer.validate, after the sequence that runs.
OfertaValida(r) ==
    /\ Sequencia[r] > Sequencia[estado.atual]
    /\ Esquema[r] >= Esquema[instalado]

\* background_check_for_update starts only if no update is under way.  An offer
\* that is the current release, is not valid or not for this cohort: no change.
CheckNow(r) ==
    /\ programa = "aberto" /\ tarefa = "livre"
    /\ estado.fase \notin EmAndamento
    /\ OfertaValida(r)
    /\ estado' = [estado EXCEPT !.fase = "AVAILABLE", !.alvo = r, !.erro = ""]
    /\ tarefa' = "disponivel"
    /\ UNCHANGED <<emMaos, aguarda, comercio, programa, disco, historia>>

Download ==
    /\ tarefa = "disponivel"
    /\ estado' = [estado EXCEPT !.fase = "DOWNLOADING", !.erro = ""]
    /\ tarefa' = "baixando"
    /\ UNCHANGED <<emMaos, aguarda, comercio, programa, disco, historia>>

DownloadFinished(ok) ==
    /\ tarefa = "baixando"
    /\ IF ok
       THEN /\ estado' = [estado EXCEPT !.fase = "DOWNLOADED",
                            !.pacote = estado.alvo, !.oferta = estado.alvo, !.erro = ""]
            /\ emMaos' = estado.alvo
       ELSE estado' = Falhou("DOWNLOAD") /\ UNCHANGED emMaos
    /\ tarefa' = "livre"
    /\ UNCHANGED <<aguarda, comercio, programa, disco, historia>>

-----------------------------------------------------------------------------
(* While the program is open: the administrator applies                    *)

\* restore_downloaded_offer: what the state file says of a finished download.
Restauravel == estado.fase = "DOWNLOADED" /\ OfertaValida(estado.oferta)

\* The offer in memory, or else the one of the state file.
OfertaEscolhida ==
    IF emMaos # Nenhuma THEN emMaos
    ELSE IF Restauravel /\ estado.oferta = estado.alvo THEN estado.oferta
    ELSE Nenhuma

\* admin_apply_downloaded_update up to the first write of prepare_apply.
Preparar ==
    /\ programa = "aberto" /\ admin /\ ~aguarda /\ tarefa = "livre"
    /\ OfertaEscolhida # Nenhuma
    /\ estado.pacote = OfertaEscolhida
    /\ Sequencia[estado.alvo] = Sequencia[OfertaEscolhida]
    /\ ~caixa       \* safe_to_apply
    /\ estado.tentativas < MaxTentativas
    /\ estado' = [estado EXCEPT !.fase = "PREPARING", !.alvo = OfertaEscolhida, !.erro = ""]
    /\ tarefa' = "copiando"
    /\ aguarda' = TRUE
    /\ UNCHANGED <<emMaos, comercio, programa, disco, historia>>

\* A bundle found damaged, or another's, when its offer is restored.
PacoteInvalido ==
    /\ programa = "aberto" /\ admin /\ ~aguarda /\ tarefa = "livre"
    /\ emMaos = Nenhuma /\ Restauravel
    /\ estado' = Falhou("BUNDLE_INVALID")
    /\ UNCHANGED <<memoria, comercio, programa, disco, historia>>

\* Mutant: a copy that could not be made does not stop the update.
CopiaSemConferir(ok) == TRUE

CopiaFeita(ok) == ok

\* The verified copy comes first, then the state says APPLY_PENDING.
Copiar(ok) ==
    /\ tarefa = "copiando"
    /\ IF CopiaFeita(ok)
       THEN /\ estado' = [estado EXCEPT !.fase = "APPLY_PENDING",
                            !.tentativas = @ + 1, !.erro = ""]
            /\ copias' = IF ok THEN copias \cup {estado.alvo} ELSE copias
            /\ reagendadas' = 0
            /\ tarefa' = "agendando"
            /\ UNCHANGED aguarda
       ELSE /\ estado' = Falhou("APPLY")
            /\ tarefa' = "livre" /\ aguarda' = FALSE
            /\ UNCHANGED <<copias, reagendadas>>
    /\ UNCHANGED <<emMaos, comercio, programa, disco, conferidas>>

\* Velopack takes a bundle only if it is newer than what runs.
Aceita(ok) == ok /\ Sequencia[estado.pacote] > Sequencia[instalado]

Agendar(ok) ==
    /\ tarefa = "agendando"
    /\ tarefa' = "livre"
    /\ IF Aceita(ok)
       THEN agendado' = estado.pacote /\ UNCHANGED <<estado, aguarda>>
       ELSE /\ estado' = Falhou("APPLY")
            /\ aguarda' = FALSE
            /\ UNCHANGED agendado
    /\ UNCHANGED <<emMaos, comercio, programa, instalado, esquema, historia>>

\* A write of the state file fails: the task ends, the file as it was.
FalhaDeDisco ==
    /\ tarefa # "livre"
    /\ tarefa' = "livre" /\ aguarda' = FALSE
    /\ UNCHANGED <<estado, emMaos, comercio, programa, disco, historia>>

-----------------------------------------------------------------------------
(* The counter meanwhile                                                   *)

\* The screen of sales is in front: there the drawer is opened and closed.
UsarCaixa ==
    /\ programa = "aberto" /\ ~admin
    /\ caixa' = ~caixa
    /\ UNCHANGED <<estado, memoria, admin, programa, disco, historia>>

\* back_to_sale destroys the screen that polls the task.
TrocarTela ==
    /\ programa = "aberto"
    /\ admin' = ~admin
    /\ aguarda' = FALSE
    /\ UNCHANGED <<estado, emMaos, tarefa, caixa, programa, disco, historia>>

\* Mutant: the task of the administrator outlives the process.
DesligarComTarefa ==
    /\ programa' = "desligado"
    /\ emMaos' = Nenhuma /\ admin' = FALSE
    /\ UNCHANGED <<tarefa, aguarda>>

Desligar ==
    /\ programa' = "desligado"
    /\ emMaos' = Nenhuma /\ tarefa' = "livre" /\ aguarda' = FALSE
    /\ admin' = FALSE

\* The screen learns that the update was scheduled and closes the program.
Encerrar ==
    /\ aguarda /\ tarefa = "livre"
    /\ Desligar
    /\ UNCHANGED <<estado, caixa, disco, historia>>

\* The end of the process at any point, by its own will or not.
Queda ==
    /\ programa # "desligado"
    /\ Desligar
    /\ UNCHANGED <<estado, caixa, disco, historia>>

-----------------------------------------------------------------------------
(* While the program is not running                                        *)

Velopack ==
    /\ programa = "desligado"
    /\ agendado # Nenhuma
    /\ instalado' \in {instalado, agendado}
    /\ agendado' = Nenhuma
    /\ UNCHANGED <<estado, memoria, comercio, programa, esquema, historia>>

InstalarManualmente(r) ==
    /\ programa = "desligado"
    /\ instalado' = r
    /\ UNCHANGED <<estado, memoria, comercio, programa, agendado, esquema, historia>>

-----------------------------------------------------------------------------
(* The start: startup_preflight, then PDVService                           *)

Ligar ==
    /\ programa = "desligado"
    /\ programa' = "iniciando"
    /\ UNCHANGED <<estado, memoria, comercio, disco, historia>>

\* Mutant: a database with a newer schema is opened as it is.
MigrarSemRecusar(ok, depois) ==
    IF ok
    THEN /\ programa' = depois
         /\ esquema' = IF esquema <= Esquema[instalado] THEN Esquema[instalado] ELSE esquema
    ELSE programa' = "desligado" /\ UNCHANGED esquema

\* Database.initialize: all or nothing, and never backwards.
Migrar(ok, depois) ==
    IF ok /\ esquema <= Esquema[instalado]
    THEN esquema' = Esquema[instalado] /\ programa' = depois
    ELSE programa' = "desligado" /\ UNCHANGED esquema

\* The new program migrates before the health check asks for its schema.
MigrarPendente(ok) ==
    /\ programa = "iniciando"
    /\ IF estado.fase \in {"APPLY_PENDING", "HEALTH_CHECK"} /\ estado.alvo = instalado
       THEN Migrar(ok, "retomando")
       ELSE programa' = "retomando" /\ UNCHANGED esquema
    /\ UNCHANGED <<estado, memoria, comercio, instalado, agendado, historia>>

\* A release older than the current one, or another with its number.
Recusada ==
    \/ Sequencia[instalado] < Sequencia[estado.atual]
    \/ Sequencia[instalado] = Sequencia[estado.atual] /\ instalado # estado.atual

\* A newer release was installed by other means: it becomes the current one.
Reconciliavel ==
    /\ Sequencia[estado.atual] < Sequencia[instalado]
    /\ estado.alvo # Nenhuma => Sequencia[estado.alvo] <= Sequencia[instalado]

Confirmado(r) ==
    [fase |-> "IDLE", atual |-> r, alvo |-> Nenhuma, pacote |-> Nenhuma,
     oferta |-> Nenhuma, tentativas |-> 0, erro |-> ""]

Recusar ==
    /\ programa = "retomando"
    /\ \/ Recusada
       \/ estado.fase = "FAILED" /\ estado.erro \in Bloqueante
    /\ programa' = "desligado"
    /\ UNCHANGED <<estado, memoria, comercio, disco, historia>>

\* Mutant: an interrupted preparation is left as it is.
SemRetomada == estado

\* What a start makes of an update that was not yet being applied.
Retomado ==
    CASE estado.fase = "DOWNLOADING" -> Falhou("DOWNLOAD_INTERRUPTED")
      [] estado.fase = "PREPARING" -> [estado EXCEPT !.fase = "DOWNLOADED", !.erro = ""]
      [] OTHER -> IF Reconciliavel THEN Confirmado(instalado) ELSE estado

ResumePendingUpdate ==
    /\ programa = "retomando"
    /\ ~Recusada
    /\ estado.fase \notin {"APPLY_PENDING", "HEALTH_CHECK"}
    /\ ~(estado.fase = "FAILED" /\ estado.erro \in Bloqueante)
    /\ estado' = Retomado
    /\ programa' = "abrindo"
    /\ UNCHANGED <<memoria, comercio, disco, historia>>

Aplicando ==
    /\ programa = "retomando" /\ ~Recusada
    /\ estado.fase \in {"APPLY_PENDING", "HEALTH_CHECK"}

\* Mutant: the attempts are not counted.
RetentaSempre == TRUE

PodeRetentar == estado.tentativas < 3

\* The old program still runs: the bundle is scheduled again, or given up.
RetomarAplicacao ==
    /\ Aplicando
    /\ Sequencia[instalado] < Sequencia[estado.alvo]
    /\ IF PodeRetentar
       THEN /\ estado' = [estado EXCEPT !.tentativas = @ + 1]
            /\ programa' = "reagendando"
       ELSE /\ estado' = Falhou("APPLY_RETRY")
            /\ programa' = "desligado"
    /\ UNCHANGED <<memoria, comercio, disco, historia>>

\* Scheduled or not, this start ends without opening the point of sale.
Reagendar(ok) ==
    /\ programa = "reagendando"
    /\ IF Aceita(ok)
       THEN agendado' = estado.pacote /\ reagendadas' = reagendadas + 1
       ELSE UNCHANGED <<agendado, reagendadas>>
    /\ programa' = "desligado"
    /\ UNCHANGED <<estado, memoria, comercio, instalado, esquema, copias, conferidas>>

VersaoTrocada ==
    /\ Aplicando
    /\ Sequencia[instalado] >= Sequencia[estado.alvo]
    /\ instalado # estado.alvo
    /\ estado' = Falhou("VERSION_MISMATCH")
    /\ programa' = "desligado"
    /\ UNCHANGED <<memoria, comercio, disco, historia>>

IniciarConferencia ==
    /\ Aplicando
    /\ instalado = estado.alvo
    /\ estado' = [estado EXCEPT !.fase = "HEALTH_CHECK"]
    /\ programa' = "conferindo"
    /\ UNCHANGED <<memoria, comercio, disco, historia>>

\* run_health_check; the rollback callback is given by no caller.
HealthCheck(integro) ==
    /\ programa = "conferindo"
    /\ IF integro /\ esquema = Esquema[estado.alvo]
       THEN /\ estado' = Confirmado(estado.alvo)
            /\ conferidas' = conferidas \cup {estado.alvo}
            /\ programa' = "abrindo"
       ELSE /\ estado' = Falhou("HEALTH")
            /\ programa' = "desligado"
            /\ UNCHANGED conferidas
    /\ UNCHANGED <<memoria, comercio, disco, copias, reagendadas>>

\* PDVService initializes the database and the window opens.
Abrir(ok) ==
    /\ programa = "abrindo"
    /\ Migrar(ok, "aberto")
    /\ UNCHANGED <<estado, memoria, comercio, instalado, agendado, historia>>

-----------------------------------------------------------------------------
Tarefa ==
    \/ \E r \in Publicadas : CheckNow(r)
    \/ Download
    \/ \E ok \in BOOLEAN : DownloadFinished(ok) \/ Copiar(ok) \/ Agendar(ok)
    \/ Preparar \/ PacoteInvalido \/ FalhaDeDisco

Partida ==
    \/ Ligar \/ Recusar \/ ResumePendingUpdate \/ RetomarAplicacao
    \/ VersaoTrocada \/ IniciarConferencia
    \/ \E ok \in BOOLEAN :
         MigrarPendente(ok) \/ Reagendar(ok) \/ HealthCheck(ok) \/ Abrir(ok)

Next ==
    \/ Tarefa \/ Partida
    \/ UsarCaixa \/ TrocarTela \/ Encerrar \/ Queda
    \/ Velopack
    \/ \E r \in Instaladores : InstalarManualmente(r)

Spec == Init /\ [][Next]_vars

-----------------------------------------------------------------------------
(* Properties                                                              *)

Fases == Parada \cup EmAndamento

Erros == {"", "DOWNLOAD", "DOWNLOAD_INTERRUPTED", "BUNDLE_INVALID", "APPLY",
          "APPLY_RETRY"} \cup Bloqueante

UpdateState ==
    [fase : Fases, atual : Release, alvo : Release \cup {Nenhuma},
     pacote : Release \cup {Nenhuma}, oferta : Release \cup {Nenhuma},
     tentativas : Nat, erro : Erros]

TypeOK ==
    /\ estado \in UpdateState
    /\ emMaos \in Release \cup {Nenhuma}
    /\ tarefa \in {"livre", "disponivel", "baixando", "copiando", "agendando"}
    /\ aguarda \in BOOLEAN /\ admin \in BOOLEAN /\ caixa \in BOOLEAN
    /\ programa \in {"desligado", "iniciando", "retomando", "reagendando",
                     "conferindo", "abrindo", "aberto"}
    /\ programa # "aberto" => tarefa = "livre" /\ aguarda = FALSE
    /\ instalado \in Release /\ agendado \in Release \cup {Nenhuma}
    /\ esquema \in Nat
    /\ copias \subseteq Release /\ conferidas \subseteq Release
    /\ reagendadas \in Nat

(* No start opens the point of sale with an update half done: a phase that *)
(* the checks of the open program take for an update under way, and so     *)
(* would never leave, nor with a release older than one already confirmed  *)
(* or an update that failed its check.                                     *)
AbreInteiro ==
    programa = "abrindo" =>
        /\ estado.fase \in Parada \cup {"DOWNLOADED"}
        /\ estado.fase = "FAILED" => estado.erro \notin Bloqueante
        /\ Sequencia[instalado] >= Sequencia[estado.atual]

(* The open program works on a database of its own schema, whatever was    *)
(* installed over it, by hand or by an update, and in whatever order.      *)
EsquemaProprio == programa = "aberto" => esquema = Esquema[instalado]

(* Nothing is installed by an update before a verified copy of the database*)
(* was made for it, also when a later start schedules it again.            *)
CopiaAntesDeAplicar ==
    /\ agendado # Nenhuma => agendado \in copias
    /\ estado.fase \in {"APPLY_PENDING", "HEALTH_CHECK"} => estado.alvo \in copias

(* After an administrator asked for an update, at most two starts of the   *)
(* program are spent on scheduling it again.                               *)
RetentativasLimitadas == reagendadas <= 2

(* An update is installed with the drawer closed.                          *)
AplicaComCaixaFechado ==
    [][Velopack /\ instalado' # instalado => ~caixa]_vars

(* Only a release that passed the health check opens the point of sale.    *)
AbreConferida == programa = "aberto" => instalado \in conferidas
=============================================================================
