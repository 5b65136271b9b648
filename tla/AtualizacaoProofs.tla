------------------------- MODULE AtualizacaoProofs -------------------------
(***************************************************************************)
(* Theorems of the online update, for any set of releases, any numbering   *)
(* and schemas, any number of attempts and any number of crashes.          *)
(***************************************************************************)
EXTENDS Atualizacao, TLAPS

Aplicacao == {"APPLY_PENDING", "HEALTH_CHECK"}

(* What the steps of the task and of the start know of the state file.     *)
Etapas ==
    /\ tarefa \in {"copiando", "agendando"} => estado.alvo # Nenhuma
    /\ tarefa = "copiando" => estado.fase = "PREPARING"
    /\ tarefa = "agendando" => estado.fase = "APPLY_PENDING"
    /\ estado.fase \in Aplicacao \cup {"PREPARING"} => estado.pacote = estado.alvo
    /\ programa = "conferindo" => estado.fase = "HEALTH_CHECK" /\ estado.alvo = instalado
    /\ programa = "reagendando" => estado.fase \in Aplicacao
    /\ programa = "conferindo" => Sequencia[instalado] >= Sequencia[estado.atual]

(* The attempts of the state file are ahead of the starts that used them.  *)
Contagem ==
    /\ estado.fase \in Aplicacao => reagendadas + 1 <= estado.tentativas
    /\ programa = "reagendando" =>
         reagendadas + 2 <= estado.tentativas /\ estado.tentativas <= 3
    /\ reagendadas <= 2

-----------------------------------------------------------------------------
(* Type invariant                                                          *)

LEMMA TipoInicial == Init => TypeOK
<1> SUFFICES ASSUME Init PROVE TypeOK
  OBVIOUS
<1>1. estado \in UpdateState
  BY AtualizacaoAssumption DEF AtualizacaoAssumption, Init, UpdateState, Erros,
     Fases, Parada
<1>2. Esquema[Inicial] \in Nat
  BY AtualizacaoAssumption DEF AtualizacaoAssumption
<1>3. copias \subseteq Release /\ conferidas \subseteq Release
  BY AtualizacaoAssumption DEF AtualizacaoAssumption, Init
<1> QED
  BY <1>1, <1>2, <1>3, AtualizacaoAssumption DEF AtualizacaoAssumption, Init, TypeOK

(* The records that the steps write to the state file.                     *)
LEMMA EscritasTipo ==
    ASSUME estado \in UpdateState
    PROVE  /\ \A e \in Erros : Falhou(e) \in UpdateState
           /\ \A r \in Release : Confirmado(r) \in UpdateState
           /\ \A f \in Fases : [estado EXCEPT !.fase = f] \in UpdateState
           /\ \A f \in Fases : [estado EXCEPT !.fase = f, !.erro = ""] \in UpdateState
           /\ [estado EXCEPT !.tentativas = @ + 1] \in UpdateState
           /\ [estado EXCEPT !.fase = "APPLY_PENDING", !.tentativas = @ + 1, !.erro = ""]
                \in UpdateState
           /\ \A f \in Fases, r \in Release \cup {Nenhuma} :
                [estado EXCEPT !.fase = f, !.alvo = r, !.erro = ""] \in UpdateState
           /\ [estado EXCEPT !.fase = "DOWNLOADED", !.pacote = estado.alvo,
                             !.oferta = estado.alvo, !.erro = ""] \in UpdateState
           /\ estado.alvo \in Release \cup {Nenhuma}
           /\ estado.pacote \in Release \cup {Nenhuma}
           /\ estado.oferta \in Release \cup {Nenhuma}
           /\ estado.tentativas \in Nat
           /\ {"", "DOWNLOAD", "DOWNLOAD_INTERRUPTED", "BUNDLE_INVALID", "APPLY",
                "APPLY_RETRY", "VERSION_MISMATCH", "HEALTH"} = Erros
           /\ {"AVAILABLE", "FAILED", "IDLE", "DOWNLOADING", "DOWNLOADED", "PREPARING",
                "APPLY_PENDING", "HEALTH_CHECK"} = Fases
<1>1. {"", "DOWNLOAD", "DOWNLOAD_INTERRUPTED", "BUNDLE_INVALID", "APPLY",
       "APPLY_RETRY", "VERSION_MISMATCH", "HEALTH"} = Erros
  BY DEF Erros, Bloqueante
<1>2. {"AVAILABLE", "FAILED", "IDLE", "DOWNLOADING", "DOWNLOADED", "PREPARING",
       "APPLY_PENDING", "HEALTH_CHECK"} = Fases
  BY DEF Fases, Parada, EmAndamento
<1>3. /\ {"FAILED", "IDLE", "DOWNLOADED", "APPLY_PENDING"} \subseteq Fases
      /\ "" \in Erros
  BY DEF Fases, Parada, EmAndamento, Erros
<1>4. estado.tentativas \in Nat /\ estado.tentativas + 1 \in Nat
  BY DEF UpdateState
<1>5. /\ \A e \in Erros : Falhou(e) \in UpdateState
      /\ \A r \in Release : Confirmado(r) \in UpdateState
  BY <1>3 DEF UpdateState, Falhou, Confirmado
<1>6. /\ \A f \in Fases : [estado EXCEPT !.fase = f] \in UpdateState
      /\ \A f \in Fases : [estado EXCEPT !.fase = f, !.erro = ""] \in UpdateState
  BY <1>3 DEF UpdateState
<1>7. /\ [estado EXCEPT !.tentativas = @ + 1] \in UpdateState
      /\ [estado EXCEPT !.fase = "APPLY_PENDING", !.tentativas = @ + 1, !.erro = ""]
                \in UpdateState
  BY <1>3, <1>4 DEF UpdateState
<1>8. /\ \A f \in Fases, r \in Release \cup {Nenhuma} :
           [estado EXCEPT !.fase = f, !.alvo = r, !.erro = ""] \in UpdateState
      /\ [estado EXCEPT !.fase = "DOWNLOADED", !.pacote = estado.alvo,
                             !.oferta = estado.alvo, !.erro = ""] \in UpdateState
  BY <1>3 DEF UpdateState
<1>9. /\ estado.alvo \in Release \cup {Nenhuma}
      /\ estado.pacote \in Release \cup {Nenhuma}
      /\ estado.oferta \in Release \cup {Nenhuma}
  BY DEF UpdateState
<1> QED
  BY <1>1, <1>2, <1>4, <1>5, <1>6, <1>7, <1>8, <1>9

(* The fields of those records.                                            *)
LEMMA CamposEscritos ==
    ASSUME estado \in UpdateState
    PROVE  /\ \A e : /\ Falhou(e).fase = "FAILED" /\ Falhou(e).erro = e
                     /\ Falhou(e).atual = estado.atual
           /\ \A r : /\ Confirmado(r).fase = "IDLE" /\ Confirmado(r).atual = r
                     /\ Confirmado(r).alvo = Nenhuma
           /\ [estado EXCEPT !.tentativas = @ + 1].fase = estado.fase
           /\ [estado EXCEPT !.tentativas = @ + 1].tentativas = estado.tentativas + 1
           /\ [estado EXCEPT !.fase = "APPLY_PENDING", !.tentativas = @ + 1,
                             !.erro = ""].tentativas = estado.tentativas + 1
           /\ [estado EXCEPT !.fase = "DOWNLOADED", !.erro = ""].fase = "DOWNLOADED"
           /\ [estado EXCEPT !.fase = "DOWNLOADED", !.erro = ""].atual = estado.atual
BY DEF UpdateState, Falhou, Confirmado

(* No step of the task, of the counter or of a start leaves the types.     *)
LEMMA TipoMantido == TypeOK /\ Etapas /\ [Next]_vars => TypeOK'
<1> SUFFICES ASSUME TypeOK, Etapas, [Next]_vars PROVE TypeOK'
  OBVIOUS
<1> USE AtualizacaoAssumption DEF AtualizacaoAssumption, TypeOK, comercio, disco,
        memoria, historia
<1>1. ASSUME NEW r \in Publicadas, CheckNow(r) PROVE TypeOK'
  <2>1. estado' \in UpdateState
    BY <1>1, EscritasTipo DEF CheckNow
  <2> QED
    BY <1>1, <2>1, EscritasTipo DEF CheckNow
<1>2. CASE Download
  <2>1. estado' \in UpdateState
    BY <1>2, EscritasTipo DEF Download
  <2> QED
    BY <1>2, <2>1, EscritasTipo DEF Download
<1>3. ASSUME NEW ok \in BOOLEAN, DownloadFinished(ok) PROVE TypeOK'
  <2>1. estado' = Falhou("DOWNLOAD")
          \/ estado' = [estado EXCEPT !.fase = "DOWNLOADED",
                          !.pacote = estado.alvo, !.oferta = estado.alvo, !.erro = ""]
    BY <1>3 DEF DownloadFinished
  <2>2. estado' \in UpdateState
    BY ONLY <2>1, estado \in UpdateState, EscritasTipo, "DOWNLOAD" \in Erros
  <2>3. emMaos' \in Release \cup {Nenhuma}
    BY <1>3, EscritasTipo DEF DownloadFinished
  <2> QED
    BY <1>3, <2>2, <2>3 DEF DownloadFinished
<1>4. ASSUME NEW ok \in BOOLEAN, Copiar(ok) PROVE TypeOK'
  <2>1. estado' = Falhou("APPLY")
          \/ estado' = [estado EXCEPT !.fase = "APPLY_PENDING",
                          !.tentativas = @ + 1, !.erro = ""]
    BY <1>4 DEF Copiar
  <2>2. estado' \in UpdateState
    BY ONLY <2>1, estado \in UpdateState, EscritasTipo, "APPLY" \in Erros
  <2>3. tarefa = "copiando" => estado.alvo \in Release
    BY EscritasTipo DEF Etapas
  <2>4. copias' \subseteq Release
    BY <1>4, <2>3 DEF Copiar
  <2>5. reagendadas' \in Nat
    BY <1>4 DEF Copiar
  <2>6. tarefa' \in {"livre", "agendando"} /\ aguarda' \in BOOLEAN
    BY <1>4 DEF Copiar
  <2> QED
    BY <1>4, <2>2, <2>4, <2>5, <2>6 DEF Copiar
<1>5. ASSUME NEW ok \in BOOLEAN, Agendar(ok) PROVE TypeOK'
  <2>1. estado' \in UpdateState
    BY <1>5, EscritasTipo DEF Agendar
  <2> QED
    BY <1>5, <2>1, EscritasTipo DEF Agendar
<1>6. CASE Preparar
  <2>1. estado' \in UpdateState
    BY <1>6, EscritasTipo DEF Preparar, OfertaEscolhida
  <2> QED
    BY <1>6, <2>1, EscritasTipo DEF Preparar, OfertaEscolhida
<1>7. CASE PacoteInvalido
  <2>1. estado' \in UpdateState
    BY <1>7, EscritasTipo DEF PacoteInvalido
  <2> QED
    BY <1>7, <2>1, EscritasTipo DEF PacoteInvalido
<1>8. CASE FalhaDeDisco
  BY <1>8, EscritasTipo DEF FalhaDeDisco
<1>9. CASE UsarCaixa
  BY <1>9, EscritasTipo DEF UsarCaixa
<1>10. CASE TrocarTela
  BY <1>10, EscritasTipo DEF TrocarTela
<1>11. CASE Encerrar
  BY <1>11, EscritasTipo DEF Encerrar, Desligar
<1>12. CASE Queda
  BY <1>12, EscritasTipo DEF Queda, Desligar
<1>13. CASE Velopack
  BY <1>13, EscritasTipo DEF Velopack
<1>14. ASSUME NEW r \in Instaladores, InstalarManualmente(r) PROVE TypeOK'
  BY <1>14, EscritasTipo DEF InstalarManualmente
<1>15. CASE Ligar
  BY <1>15, EscritasTipo DEF Ligar
<1>16. ASSUME NEW ok \in BOOLEAN, MigrarPendente(ok) PROVE TypeOK'
  <2>1. esquema' \in Nat
    BY <1>16, \A r \in Release : Esquema[r] \in Nat DEF MigrarPendente, Migrar
  <2>2. programa' \in {"desligado", "retomando"}
    BY <1>16 DEF MigrarPendente, Migrar
  <2>3. programa # "aberto"
    BY <1>16 DEF MigrarPendente
  <2> QED
    BY <1>16, <2>1, <2>2, <2>3 DEF MigrarPendente
<1>17. CASE Recusar
  BY <1>17, EscritasTipo DEF Recusar
<1>18. CASE ResumePendingUpdate
  <2>1. estado' \in UpdateState
    BY <1>18, EscritasTipo DEF ResumePendingUpdate, Retomado
  <2> QED
    BY <1>18, <2>1, EscritasTipo DEF ResumePendingUpdate, Retomado
<1>19. CASE RetomarAplicacao
  <2>1. estado' = Falhou("APPLY_RETRY")
          \/ estado' = [estado EXCEPT !.tentativas = @ + 1]
    BY <1>19 DEF RetomarAplicacao
  <2>2. estado' \in UpdateState
    BY ONLY <2>1, estado \in UpdateState, EscritasTipo
  <2> QED
    BY <1>19, <2>2 DEF RetomarAplicacao, Aplicando
<1>20. ASSUME NEW ok \in BOOLEAN, Reagendar(ok) PROVE TypeOK'
  <2>1. reagendadas' \in Nat
    BY <1>20 DEF Reagendar
  <2>2. agendado' \in Release \cup {Nenhuma}
    BY <1>20, EscritasTipo DEF Reagendar
  <2> QED
    BY <1>20, <2>1, <2>2 DEF Reagendar
<1>21. CASE VersaoTrocada
  <2>1. estado' \in UpdateState
    BY <1>21, EscritasTipo DEF VersaoTrocada, Erros, Bloqueante, Aplicando
  <2> QED
    BY <1>21, <2>1, EscritasTipo DEF VersaoTrocada, Aplicando
<1>22. CASE IniciarConferencia
  <2>1. estado' \in UpdateState
    BY <1>22, EscritasTipo DEF IniciarConferencia, Aplicando
  <2> QED
    BY <1>22, <2>1, EscritasTipo DEF IniciarConferencia, Aplicando
<1>23. ASSUME NEW ok \in BOOLEAN, HealthCheck(ok) PROVE TypeOK'
  <2>1. estado' = Confirmado(estado.alvo) \/ estado' = Falhou("HEALTH")
    BY <1>23 DEF HealthCheck
  <2>2. estado.alvo \in Release
    BY <1>23 DEF HealthCheck, Etapas
  <2>3. estado' \in UpdateState
    BY ONLY <2>1, <2>2, estado \in UpdateState, EscritasTipo
  <2>4. conferidas' \subseteq Release
    BY <1>23, <2>2 DEF HealthCheck
  <2>5. programa' \in {"abrindo", "desligado"}
    BY <1>23 DEF HealthCheck
  <2> QED
    BY <1>23, <2>3, <2>4, <2>5 DEF HealthCheck
<1>24. ASSUME NEW ok \in BOOLEAN, Abrir(ok) PROVE TypeOK'
  <2>1. esquema' \in Nat
    BY <1>24, \A r \in Release : Esquema[r] \in Nat DEF Abrir, Migrar
  <2>2. programa' \in {"desligado", "aberto"}
    BY <1>24 DEF Abrir, Migrar
  <2>3. programa # "aberto"
    BY <1>24 DEF Abrir
  <2> QED
    BY <1>24, <2>1, <2>2, <2>3 DEF Abrir
<1>25. CASE UNCHANGED vars
  BY <1>25 DEF vars
<1> QED
  BY <1>1, <1>2, <1>3, <1>4, <1>5, <1>6, <1>7, <1>8, <1>9, <1>10, <1>11,
     <1>12, <1>13, <1>14, <1>15, <1>16, <1>17, <1>18, <1>19, <1>20, <1>21,
     <1>22, <1>23, <1>24, <1>25
     DEF Next, Tarefa, Partida

-----------------------------------------------------------------------------
(* What the steps know                                                     *)

(* A step finds the state file as the one before it left it.               *)
LEMMA EtapasMantidas == TypeOK /\ Etapas /\ [Next]_vars => Etapas'
<1> SUFFICES ASSUME TypeOK, Etapas, [Next]_vars PROVE Etapas'
  OBVIOUS
<1> USE AtualizacaoAssumption DEF AtualizacaoAssumption, TypeOK, UpdateState, Etapas,
        Aplicacao, comercio, disco, memoria, historia
<1>1. ASSUME NEW r \in Publicadas, CheckNow(r) PROVE Etapas'
  BY <1>1 DEF CheckNow
<1>2. CASE Download
  BY <1>2 DEF Download
<1>3. ASSUME NEW ok \in BOOLEAN, DownloadFinished(ok) PROVE Etapas'
  BY <1>3 DEF DownloadFinished, Falhou
<1>4. ASSUME NEW ok \in BOOLEAN, Copiar(ok) PROVE Etapas'
  BY <1>4 DEF Copiar, Falhou
<1>5. ASSUME NEW ok \in BOOLEAN, Agendar(ok) PROVE Etapas'
  BY <1>5 DEF Agendar, Falhou, Aceita
<1>6. CASE Preparar
  BY <1>6 DEF Preparar, OfertaEscolhida, Restauravel
<1>7. CASE PacoteInvalido
  BY <1>7 DEF PacoteInvalido, Falhou
<1>8. CASE FalhaDeDisco
  BY <1>8 DEF FalhaDeDisco
<1>9. CASE UsarCaixa
  BY <1>9 DEF UsarCaixa
<1>10. CASE TrocarTela
  BY <1>10 DEF TrocarTela
<1>11. CASE Encerrar
  BY <1>11 DEF Encerrar, Desligar
<1>12. CASE Queda
  BY <1>12 DEF Queda, Desligar
<1>13. CASE Velopack
  BY <1>13 DEF Velopack
<1>14. ASSUME NEW r \in Instaladores, InstalarManualmente(r) PROVE Etapas'
  BY <1>14 DEF InstalarManualmente
<1>15. CASE Ligar
  BY <1>15 DEF Ligar
<1>16. ASSUME NEW ok \in BOOLEAN, MigrarPendente(ok) PROVE Etapas'
  BY <1>16 DEF MigrarPendente, Migrar
<1>17. CASE Recusar
  BY <1>17 DEF Recusar
<1>18. CASE ResumePendingUpdate
  BY <1>18 DEF ResumePendingUpdate, Retomado, Confirmado, Falhou
<1>19. CASE RetomarAplicacao
  BY <1>19 DEF RetomarAplicacao, Aplicando, PodeRetentar, Falhou
<1>20. ASSUME NEW ok \in BOOLEAN, Reagendar(ok) PROVE Etapas'
  BY <1>20 DEF Reagendar, Aceita
<1>21. CASE VersaoTrocada
  BY <1>21 DEF VersaoTrocada, Aplicando, Falhou
<1>22. CASE IniciarConferencia
  <2>1. Sequencia[instalado] >= Sequencia[estado.atual]
    <3>1. estado.atual \in Release /\ instalado \in Release
      OBVIOUS
    <3>2. Sequencia[instalado] \in Nat /\ Sequencia[estado.atual] \in Nat
      BY <3>1
    <3> QED
      BY <1>22, <3>2 DEF IniciarConferencia, Aplicando, Recusada
  <2> QED
    BY <1>22, <2>1 DEF IniciarConferencia, Aplicando
<1>23. ASSUME NEW ok \in BOOLEAN, HealthCheck(ok) PROVE Etapas'
  <2>1. \/ estado' = Confirmado(estado.alvo) /\ programa' = "abrindo"
        \/ estado' = Falhou("HEALTH") /\ programa' = "desligado"
    BY <1>23 DEF HealthCheck
  <2>2. UNCHANGED <<tarefa, instalado, agendado, copias, reagendadas>>
    BY <1>23 DEF HealthCheck
  <2>3. programa = "conferindo" /\ tarefa = "livre"
    BY <1>23 DEF HealthCheck
  <2> QED
    BY <2>1, <2>2, <2>3, CamposEscritos
<1>24. ASSUME NEW ok \in BOOLEAN, Abrir(ok) PROVE Etapas'
  BY <1>24 DEF Abrir, Migrar
<1>25. CASE UNCHANGED vars
  BY <1>25 DEF vars
<1> QED
  BY <1>1, <1>2, <1>3, <1>4, <1>5, <1>6, <1>7, <1>8, <1>9, <1>10, <1>11,
     <1>12, <1>13, <1>14, <1>15, <1>16, <1>17, <1>18, <1>19, <1>20, <1>21,
     <1>22, <1>23, <1>24, <1>25
     DEF Next, Tarefa, Partida

(* Only what was copied for becomes scheduled or pending.                  *)
LEMMA CopiaMantida == TypeOK /\ Etapas /\ CopiaAntesDeAplicar /\ [Next]_vars => CopiaAntesDeAplicar'
<1> SUFFICES ASSUME TypeOK, Etapas, CopiaAntesDeAplicar, [Next]_vars PROVE CopiaAntesDeAplicar'
  OBVIOUS
<1> USE AtualizacaoAssumption DEF AtualizacaoAssumption, TypeOK, UpdateState, Etapas,
        CopiaAntesDeAplicar, Aplicacao, comercio, disco, memoria, historia
<1>1. ASSUME NEW r \in Publicadas, CheckNow(r) PROVE CopiaAntesDeAplicar'
  BY <1>1 DEF CheckNow
<1>2. CASE Download
  BY <1>2 DEF Download
<1>3. ASSUME NEW ok \in BOOLEAN, DownloadFinished(ok) PROVE CopiaAntesDeAplicar'
  BY <1>3 DEF DownloadFinished, Falhou
<1>4. ASSUME NEW ok \in BOOLEAN, Copiar(ok) PROVE CopiaAntesDeAplicar'
  <2>1. \/ estado' = Falhou("APPLY") /\ copias' = copias
        \/ /\ estado' = [estado EXCEPT !.fase = "APPLY_PENDING",
                            !.tentativas = @ + 1, !.erro = ""]
           /\ copias' = copias \cup {estado.alvo}
    BY <1>4 DEF Copiar, CopiaFeita
  <2>2. UNCHANGED agendado
    BY <1>4 DEF Copiar
  <2> QED
    BY <2>1, <2>2 DEF Falhou
<1>5. ASSUME NEW ok \in BOOLEAN, Agendar(ok) PROVE CopiaAntesDeAplicar'
  BY <1>5 DEF Agendar, Falhou, Aceita
<1>6. CASE Preparar
  BY <1>6 DEF Preparar, OfertaEscolhida, Restauravel
<1>7. CASE PacoteInvalido
  BY <1>7 DEF PacoteInvalido, Falhou
<1>8. CASE FalhaDeDisco
  BY <1>8 DEF FalhaDeDisco
<1>9. CASE UsarCaixa
  BY <1>9 DEF UsarCaixa
<1>10. CASE TrocarTela
  BY <1>10 DEF TrocarTela
<1>11. CASE Encerrar
  BY <1>11 DEF Encerrar, Desligar
<1>12. CASE Queda
  BY <1>12 DEF Queda, Desligar
<1>13. CASE Velopack
  BY <1>13 DEF Velopack
<1>14. ASSUME NEW r \in Instaladores, InstalarManualmente(r) PROVE CopiaAntesDeAplicar'
  BY <1>14 DEF InstalarManualmente
<1>15. CASE Ligar
  BY <1>15 DEF Ligar
<1>16. ASSUME NEW ok \in BOOLEAN, MigrarPendente(ok) PROVE CopiaAntesDeAplicar'
  BY <1>16 DEF MigrarPendente, Migrar
<1>17. CASE Recusar
  BY <1>17 DEF Recusar
<1>18. CASE ResumePendingUpdate
  BY <1>18 DEF ResumePendingUpdate, Retomado, Confirmado, Falhou
<1>19. CASE RetomarAplicacao
  BY <1>19 DEF RetomarAplicacao, Aplicando, PodeRetentar, Falhou
<1>20. ASSUME NEW ok \in BOOLEAN, Reagendar(ok) PROVE CopiaAntesDeAplicar'
  BY <1>20 DEF Reagendar, Aceita
<1>21. CASE VersaoTrocada
  BY <1>21 DEF VersaoTrocada, Aplicando, Falhou
<1>22. CASE IniciarConferencia
  BY <1>22 DEF IniciarConferencia, Aplicando
<1>23. ASSUME NEW ok \in BOOLEAN, HealthCheck(ok) PROVE CopiaAntesDeAplicar'
  <2>1. \/ estado' = Confirmado(estado.alvo) /\ programa' = "abrindo"
        \/ estado' = Falhou("HEALTH") /\ programa' = "desligado"
    BY <1>23 DEF HealthCheck
  <2>2. UNCHANGED <<tarefa, instalado, agendado, copias, reagendadas>>
    BY <1>23 DEF HealthCheck
  <2>3. programa = "conferindo" /\ tarefa = "livre"
    BY <1>23 DEF HealthCheck
  <2> QED
    BY <2>1, <2>2, <2>3, CamposEscritos
<1>24. ASSUME NEW ok \in BOOLEAN, Abrir(ok) PROVE CopiaAntesDeAplicar'
  BY <1>24 DEF Abrir, Migrar
<1>25. CASE UNCHANGED vars
  BY <1>25 DEF vars
<1> QED
  BY <1>1, <1>2, <1>3, <1>4, <1>5, <1>6, <1>7, <1>8, <1>9, <1>10, <1>11,
     <1>12, <1>13, <1>14, <1>15, <1>16, <1>17, <1>18, <1>19, <1>20, <1>21,
     <1>22, <1>23, <1>24, <1>25
     DEF Next, Tarefa, Partida

(* The two ways to the opening leave no update half done.                  *)
LEMMA AberturaMantida == TypeOK /\ Etapas /\ AbreInteiro /\ [Next]_vars => AbreInteiro'
<1> SUFFICES ASSUME TypeOK, Etapas, AbreInteiro, [Next]_vars PROVE AbreInteiro'
  OBVIOUS
<1> USE AtualizacaoAssumption DEF AtualizacaoAssumption, TypeOK, UpdateState, Etapas,
        AbreInteiro, Recusada, Fases, Parada, EmAndamento, Bloqueante, comercio, disco, memoria, historia
<1>1. ASSUME NEW r \in Publicadas, CheckNow(r) PROVE AbreInteiro'
  BY <1>1 DEF CheckNow
<1>2. CASE Download
  BY <1>2 DEF Download
<1>3. ASSUME NEW ok \in BOOLEAN, DownloadFinished(ok) PROVE AbreInteiro'
  BY <1>3 DEF DownloadFinished, Falhou
<1>4. ASSUME NEW ok \in BOOLEAN, Copiar(ok) PROVE AbreInteiro'
  BY <1>4 DEF Copiar, Falhou
<1>5. ASSUME NEW ok \in BOOLEAN, Agendar(ok) PROVE AbreInteiro'
  BY <1>5 DEF Agendar, Falhou, Aceita
<1>6. CASE Preparar
  BY <1>6 DEF Preparar, OfertaEscolhida, Restauravel
<1>7. CASE PacoteInvalido
  BY <1>7 DEF PacoteInvalido, Falhou
<1>8. CASE FalhaDeDisco
  BY <1>8 DEF FalhaDeDisco
<1>9. CASE UsarCaixa
  BY <1>9 DEF UsarCaixa
<1>10. CASE TrocarTela
  BY <1>10 DEF TrocarTela
<1>11. CASE Encerrar
  BY <1>11 DEF Encerrar, Desligar
<1>12. CASE Queda
  BY <1>12 DEF Queda, Desligar
<1>13. CASE Velopack
  BY <1>13 DEF Velopack
<1>14. ASSUME NEW r \in Instaladores, InstalarManualmente(r) PROVE AbreInteiro'
  BY <1>14 DEF InstalarManualmente
<1>15. CASE Ligar
  BY <1>15 DEF Ligar
<1>16. ASSUME NEW ok \in BOOLEAN, MigrarPendente(ok) PROVE AbreInteiro'
  BY <1>16 DEF MigrarPendente, Migrar
<1>17. CASE Recusar
  BY <1>17 DEF Recusar
<1>18. CASE ResumePendingUpdate
  <2>1. Sequencia[instalado] >= Sequencia[estado.atual]
    <3>1. estado.atual \in Release /\ instalado \in Release
      OBVIOUS
    <3>2. Sequencia[instalado] \in Nat /\ Sequencia[estado.atual] \in Nat
      BY <3>1
    <3> QED
      BY <1>18, <3>2 DEF ResumePendingUpdate
  <2>2. instalado' = instalado /\ estado' = Retomado
    BY <1>18 DEF ResumePendingUpdate
  <2>3. \/ estado' = Falhou("DOWNLOAD_INTERRUPTED")
        \/ estado' = [estado EXCEPT !.fase = "DOWNLOADED", !.erro = ""]
        \/ estado' = Confirmado(instalado)
        \/ estado' = estado /\ estado.fase \notin {"DOWNLOADING", "PREPARING"}
    BY <2>2 DEF Retomado
  <2>4. /\ estado.fase \notin {"APPLY_PENDING", "HEALTH_CHECK"}
        /\ ~(estado.fase = "FAILED" /\ estado.erro \in Bloqueante)
    BY <1>18 DEF ResumePendingUpdate
  <2>5. Sequencia[instalado] >= Sequencia[instalado]
    OBVIOUS
  <2>6. \/ estado'.fase = "FAILED" /\ estado'.erro = "DOWNLOAD_INTERRUPTED"
           /\ estado'.atual = estado.atual
        \/ estado'.fase = "DOWNLOADED" /\ estado'.atual = estado.atual
        \/ estado'.fase = "IDLE" /\ estado'.atual = instalado
        \/ estado' = estado /\ estado.fase \notin {"DOWNLOADING", "PREPARING"}
    <3>1. CASE estado' = Falhou("DOWNLOAD_INTERRUPTED")
      BY ONLY <3>1, estado \in UpdateState, CamposEscritos
    <3>2. CASE estado' = [estado EXCEPT !.fase = "DOWNLOADED", !.erro = ""]
      BY ONLY <3>2, estado \in UpdateState, CamposEscritos
    <3>3. CASE estado' = Confirmado(instalado)
      BY ONLY <3>3, estado \in UpdateState, CamposEscritos
    <3> QED
      BY ONLY <2>3, <3>1, <3>2, <3>3
  <2>7. estado.fase \in Fases
    OBVIOUS
  <2> QED
    BY ONLY <2>1, <2>2, <2>4, <2>5, <2>6, <2>7
       DEF AbreInteiro, Parada, Fases, EmAndamento, Bloqueante
<1>19. CASE RetomarAplicacao
  BY <1>19 DEF RetomarAplicacao, Aplicando, PodeRetentar, Falhou
<1>20. ASSUME NEW ok \in BOOLEAN, Reagendar(ok) PROVE AbreInteiro'
  BY <1>20 DEF Reagendar, Aceita
<1>21. CASE VersaoTrocada
  BY <1>21 DEF VersaoTrocada, Aplicando, Falhou
<1>22. CASE IniciarConferencia
  BY <1>22 DEF IniciarConferencia, Aplicando
<1>23. ASSUME NEW ok \in BOOLEAN, HealthCheck(ok) PROVE AbreInteiro'
  <2>1. \/ estado' = Confirmado(estado.alvo) /\ programa' = "abrindo"
        \/ estado' = Falhou("HEALTH") /\ programa' = "desligado"
    BY <1>23 DEF HealthCheck
  <2>2. UNCHANGED <<tarefa, instalado, agendado, copias, reagendadas>>
    BY <1>23 DEF HealthCheck
  <2>3. programa = "conferindo" /\ tarefa = "livre"
    BY <1>23 DEF HealthCheck
  <2> QED
    BY <2>1, <2>2, <2>3, CamposEscritos
<1>24. ASSUME NEW ok \in BOOLEAN, Abrir(ok) PROVE AbreInteiro'
  BY <1>24 DEF Abrir, Migrar
<1>25. CASE UNCHANGED vars
  BY <1>25 DEF vars
<1> QED
  BY <1>1, <1>2, <1>3, <1>4, <1>5, <1>6, <1>7, <1>8, <1>9, <1>10, <1>11,
     <1>12, <1>13, <1>14, <1>15, <1>16, <1>17, <1>18, <1>19, <1>20, <1>21,
     <1>22, <1>23, <1>24, <1>25
     DEF Next, Tarefa, Partida

(* Only the opening sets the program to work, after the migration.         *)
LEMMA EsquemaMantido == TypeOK /\ EsquemaProprio /\ [Next]_vars => EsquemaProprio'
<1> SUFFICES ASSUME TypeOK, EsquemaProprio, [Next]_vars PROVE EsquemaProprio'
  OBVIOUS
<1> USE AtualizacaoAssumption DEF AtualizacaoAssumption, TypeOK, EsquemaProprio,
        comercio, disco, memoria, historia
<1>1. ASSUME NEW r \in Publicadas, CheckNow(r) PROVE EsquemaProprio'
  BY <1>1 DEF CheckNow
<1>2. CASE Download
  BY <1>2 DEF Download
<1>3. ASSUME NEW ok \in BOOLEAN, DownloadFinished(ok) PROVE EsquemaProprio'
  BY <1>3 DEF DownloadFinished, Falhou
<1>4. ASSUME NEW ok \in BOOLEAN, Copiar(ok) PROVE EsquemaProprio'
  BY <1>4 DEF Copiar, Falhou
<1>5. ASSUME NEW ok \in BOOLEAN, Agendar(ok) PROVE EsquemaProprio'
  BY <1>5 DEF Agendar, Falhou, Aceita
<1>6. CASE Preparar
  BY <1>6 DEF Preparar, OfertaEscolhida, Restauravel
<1>7. CASE PacoteInvalido
  BY <1>7 DEF PacoteInvalido, Falhou
<1>8. CASE FalhaDeDisco
  BY <1>8 DEF FalhaDeDisco
<1>9. CASE UsarCaixa
  BY <1>9 DEF UsarCaixa
<1>10. CASE TrocarTela
  BY <1>10 DEF TrocarTela
<1>11. CASE Encerrar
  BY <1>11 DEF Encerrar, Desligar
<1>12. CASE Queda
  BY <1>12 DEF Queda, Desligar
<1>13. CASE Velopack
  BY <1>13 DEF Velopack
<1>14. ASSUME NEW r \in Instaladores, InstalarManualmente(r) PROVE EsquemaProprio'
  BY <1>14 DEF InstalarManualmente
<1>15. CASE Ligar
  BY <1>15 DEF Ligar
<1>16. ASSUME NEW ok \in BOOLEAN, MigrarPendente(ok) PROVE EsquemaProprio'
  BY <1>16 DEF MigrarPendente, Migrar
<1>17. CASE Recusar
  BY <1>17 DEF Recusar
<1>18. CASE ResumePendingUpdate
  BY <1>18 DEF ResumePendingUpdate, Retomado, Confirmado, Falhou
<1>19. CASE RetomarAplicacao
  BY <1>19 DEF RetomarAplicacao, Aplicando, PodeRetentar, Falhou
<1>20. ASSUME NEW ok \in BOOLEAN, Reagendar(ok) PROVE EsquemaProprio'
  BY <1>20 DEF Reagendar, Aceita
<1>21. CASE VersaoTrocada
  BY <1>21 DEF VersaoTrocada, Aplicando, Falhou
<1>22. CASE IniciarConferencia
  BY <1>22 DEF IniciarConferencia, Aplicando
<1>23. ASSUME NEW ok \in BOOLEAN, HealthCheck(ok) PROVE EsquemaProprio'
  BY <1>23 DEF HealthCheck, Confirmado, Falhou
<1>24. ASSUME NEW ok \in BOOLEAN, Abrir(ok) PROVE EsquemaProprio'
  BY <1>24 DEF Abrir, Migrar
<1>25. CASE UNCHANGED vars
  BY <1>25 DEF vars
<1> QED
  BY <1>1, <1>2, <1>3, <1>4, <1>5, <1>6, <1>7, <1>8, <1>9, <1>10, <1>11,
     <1>12, <1>13, <1>14, <1>15, <1>16, <1>17, <1>18, <1>19, <1>20, <1>21,
     <1>22, <1>23, <1>24, <1>25
     DEF Next, Tarefa, Partida

(* Each start that schedules the update again was counted before.          *)
LEMMA ContagemMantida == TypeOK /\ Etapas /\ Contagem /\ [Next]_vars => Contagem'
<1> SUFFICES ASSUME TypeOK, Etapas, Contagem, [Next]_vars PROVE Contagem'
  OBVIOUS
<1> USE AtualizacaoAssumption DEF AtualizacaoAssumption, TypeOK, UpdateState, Etapas,
        Contagem, Aplicacao, comercio, disco, memoria, historia
<1>1. ASSUME NEW r \in Publicadas, CheckNow(r) PROVE Contagem'
  BY <1>1 DEF CheckNow
<1>2. CASE Download
  BY <1>2 DEF Download
<1>3. ASSUME NEW ok \in BOOLEAN, DownloadFinished(ok) PROVE Contagem'
  BY <1>3 DEF DownloadFinished, Falhou
<1>4. ASSUME NEW ok \in BOOLEAN, Copiar(ok) PROVE Contagem'
  <2>1. \/ estado' = Falhou("APPLY") /\ reagendadas' = reagendadas
        \/ /\ estado' = [estado EXCEPT !.fase = "APPLY_PENDING",
                            !.tentativas = @ + 1, !.erro = ""]
           /\ reagendadas' = 0
    BY <1>4 DEF Copiar
  <2>2. programa' = "aberto"
    BY <1>4 DEF Copiar
  <2>3. estado.tentativas \in Nat
    OBVIOUS
  <2>4. CASE estado' = Falhou("APPLY") /\ reagendadas' = reagendadas
    <3>1. estado'.fase = "FAILED"
      BY <2>4, CamposEscritos
    <3> QED
      BY ONLY <2>2, <2>4, <3>1, Contagem DEF Contagem, Aplicacao
  <2>5. CASE /\ estado' = [estado EXCEPT !.fase = "APPLY_PENDING",
                              !.tentativas = @ + 1, !.erro = ""]
             /\ reagendadas' = 0
    <3>1. estado'.tentativas = estado.tentativas + 1
      BY ONLY <2>5, estado \in UpdateState, CamposEscritos
    <3> QED
      BY ONLY <2>2, <2>3, <2>5, <3>1 DEF Contagem, Aplicacao
  <2> QED
    BY ONLY <2>1, <2>4, <2>5
<1>5. ASSUME NEW ok \in BOOLEAN, Agendar(ok) PROVE Contagem'
  BY <1>5 DEF Agendar, Falhou, Aceita
<1>6. CASE Preparar
  BY <1>6 DEF Preparar, OfertaEscolhida, Restauravel
<1>7. CASE PacoteInvalido
  BY <1>7 DEF PacoteInvalido, Falhou
<1>8. CASE FalhaDeDisco
  BY <1>8 DEF FalhaDeDisco
<1>9. CASE UsarCaixa
  BY <1>9 DEF UsarCaixa
<1>10. CASE TrocarTela
  BY <1>10 DEF TrocarTela
<1>11. CASE Encerrar
  BY <1>11 DEF Encerrar, Desligar
<1>12. CASE Queda
  BY <1>12 DEF Queda, Desligar
<1>13. CASE Velopack
  BY <1>13 DEF Velopack
<1>14. ASSUME NEW r \in Instaladores, InstalarManualmente(r) PROVE Contagem'
  BY <1>14 DEF InstalarManualmente
<1>15. CASE Ligar
  BY <1>15 DEF Ligar
<1>16. ASSUME NEW ok \in BOOLEAN, MigrarPendente(ok) PROVE Contagem'
  BY <1>16 DEF MigrarPendente, Migrar
<1>17. CASE Recusar
  BY <1>17 DEF Recusar
<1>18. CASE ResumePendingUpdate
  BY <1>18 DEF ResumePendingUpdate, Retomado, Confirmado, Falhou
<1>19. CASE RetomarAplicacao
  <2>1. estado.fase \in Aplicacao /\ programa = "retomando"
    BY <1>19 DEF RetomarAplicacao, Aplicando
  <2>2. \/ /\ estado.tentativas < 3
           /\ estado' = [estado EXCEPT !.tentativas = @ + 1]
        \/ estado' = Falhou("APPLY_RETRY") /\ programa' = "desligado"
    BY <1>19 DEF RetomarAplicacao, PodeRetentar
  <2>3. reagendadas' = reagendadas /\ reagendadas \in Nat
    BY <1>19 DEF RetomarAplicacao
  <2>4. estado.tentativas \in Nat
    OBVIOUS
  <2> QED
    BY <2>1, <2>2, <2>3, <2>4, CamposEscritos
<1>20. ASSUME NEW ok \in BOOLEAN, Reagendar(ok) PROVE Contagem'
  BY <1>20 DEF Reagendar, Aceita
<1>21. CASE VersaoTrocada
  BY <1>21 DEF VersaoTrocada, Aplicando, Falhou
<1>22. CASE IniciarConferencia
  BY <1>22 DEF IniciarConferencia, Aplicando
<1>23. ASSUME NEW ok \in BOOLEAN, HealthCheck(ok) PROVE Contagem'
  <2>1. \/ estado' = Confirmado(estado.alvo) /\ programa' = "abrindo"
        \/ estado' = Falhou("HEALTH") /\ programa' = "desligado"
    BY <1>23 DEF HealthCheck
  <2>2. UNCHANGED <<tarefa, instalado, agendado, copias, reagendadas>>
    BY <1>23 DEF HealthCheck
  <2>3. programa = "conferindo" /\ tarefa = "livre"
    BY <1>23 DEF HealthCheck
  <2> QED
    BY <2>1, <2>2, <2>3, CamposEscritos
<1>24. ASSUME NEW ok \in BOOLEAN, Abrir(ok) PROVE Contagem'
  BY <1>24 DEF Abrir, Migrar
<1>25. CASE UNCHANGED vars
  BY <1>25 DEF vars
<1> QED
  BY <1>1, <1>2, <1>3, <1>4, <1>5, <1>6, <1>7, <1>8, <1>9, <1>10, <1>11,
     <1>12, <1>13, <1>14, <1>15, <1>16, <1>17, <1>18, <1>19, <1>20, <1>21,
     <1>22, <1>23, <1>24, <1>25
     DEF Next, Tarefa, Partida

-----------------------------------------------------------------------------
(* The inductive invariant and the theorems                                *)

Inv ==
    /\ TypeOK /\ Etapas /\ Contagem
    /\ AbreInteiro /\ EsquemaProprio /\ CopiaAntesDeAplicar

LEMMA InvInicial == Init => Inv
<1> SUFFICES ASSUME Init PROVE Inv
  OBVIOUS
<1>1. TypeOK
  BY TipoInicial
<1>2. estado.fase = "IDLE" /\ programa = "desligado" /\ tarefa = "livre"
  BY DEF Init
<1>3. agendado = Nenhuma /\ reagendadas = 0
  BY DEF Init
<1> QED
  BY <1>1, <1>2, <1>3 DEF Inv, Etapas, Contagem, Aplicacao, AbreInteiro,
     EsquemaProprio, CopiaAntesDeAplicar

LEMMA InvMantido == Inv /\ [Next]_vars => Inv'
BY TipoMantido, EtapasMantidas, ContagemMantida, AberturaMantida, EsquemaMantido,
   CopiaMantida DEF Inv

LEMMA AtualizacaoInv == Spec => []Inv
BY InvInicial, InvMantido, PTL DEF Spec

(* The state file, the task and the start stay within their types; a task  *)
(* runs only while the program is open.                                    *)
THEOREM AtualizacaoTipo == Spec => []TypeOK
BY AtualizacaoInv, PTL DEF Inv

(* Whatever crashed before, the start opens the point of sale with no      *)
(* update half done, none that failed its check and none that went back.   *)
THEOREM AberturaInteira == Spec => []AbreInteiro
BY AtualizacaoInv, PTL DEF Inv

(* The open program finds the schema it was written for.                   *)
THEOREM EsquemaDoPrograma == Spec => []EsquemaProprio
BY AtualizacaoInv, PTL DEF Inv

(* No release is scheduled, or pending, without a copy made for it.        *)
THEOREM CopiaPrecede == Spec => []CopiaAntesDeAplicar
BY AtualizacaoInv, PTL DEF Inv

(* Two starts at most schedule again what an administrator asked for.      *)
THEOREM RetentativasTemFim == Spec => []RetentativasLimitadas
<1>1. Inv => RetentativasLimitadas
  BY DEF Inv, Contagem, RetentativasLimitadas
<1> QED
  BY <1>1, AtualizacaoInv, PTL

-----------------------------------------------------------------------------
(* The screen that waits                                                   *)

(* While the screen of the administrator waits for its task the drawer is  *)
(* closed, from the check of the preparation to the end of the program it  *)
(* asks for: the drawer that AplicaComCaixaFechado finds open was opened   *)
(* by who left that screen.                                                *)
THEOREM EsperaComCaixaFechado == Spec => [](aguarda => admin /\ ~caixa)
<1> DEFINE Espera == aguarda => admin /\ ~caixa
<1>1. Init => Espera
  BY DEF Init
<1>2. Espera /\ [Next]_vars => Espera'
  <2> SUFFICES ASSUME Espera, [Next]_vars PROVE Espera'
    OBVIOUS
  <2>1. CASE UNCHANGED <<aguarda, comercio>>
    BY <2>1 DEF comercio
  <2>2. CASE Tarefa
    <3>1. UNCHANGED comercio
      BY <2>2 DEF Tarefa, CheckNow, Download, DownloadFinished, Copiar, Agendar,
                  Preparar, PacoteInvalido, FalhaDeDisco
    <3>2. ASSUME Preparar PROVE admin /\ ~caixa
      BY <3>2 DEF Preparar
    <3>3. ASSUME Tarefa, ~Preparar PROVE aguarda' = aguarda \/ aguarda' = FALSE
      <4>1. CASE \/ \E r \in Publicadas : CheckNow(r)
                 \/ Download \/ PacoteInvalido \/ FalhaDeDisco
        BY <4>1 DEF CheckNow, Download, PacoteInvalido, FalhaDeDisco, memoria
      <4>2. ASSUME NEW ok \in BOOLEAN, DownloadFinished(ok) \/ Copiar(ok) \/ Agendar(ok)
            PROVE  aguarda' = aguarda \/ aguarda' = FALSE
        BY <4>2 DEF DownloadFinished, Copiar, Agendar
      <4> QED
        BY <3>3, <4>1, <4>2 DEF Tarefa
    <3> QED
      BY <2>2, <3>1, <3>2, <3>3 DEF comercio
  <2>3. CASE Partida
    BY <2>1, <2>3 DEF Partida, Ligar, Recusar, ResumePendingUpdate, RetomarAplicacao,
                VersaoTrocada, IniciarConferencia, MigrarPendente, Reagendar,
                HealthCheck, Abrir, memoria
  <2>4. CASE UsarCaixa
    BY <2>4 DEF UsarCaixa, memoria
  <2>5. CASE TrocarTela \/ Encerrar \/ Queda
    BY <2>5 DEF TrocarTela, Encerrar, Queda, Desligar
  <2>6. CASE Velopack \/ \E r \in Instaladores : InstalarManualmente(r)
    BY <2>1, <2>6 DEF Velopack, InstalarManualmente, memoria
  <2>7. CASE UNCHANGED vars
    BY <2>1, <2>7 DEF vars, memoria
  <2> QED
    BY <2>2, <2>3, <2>4, <2>5, <2>6, <2>7 DEF Next
<1> QED
  BY <1>1, <1>2, PTL DEF Spec

-----------------------------------------------------------------------------
(* What opens unchecked                                                    *)

\* The state file knows of the bundle that Velopack is to install.
Firme == agendado # Nenhuma => estado.fase \in Aplicacao /\ estado.alvo = agendado

\* A release not checked yet is being applied, or was refused.
Cobre ==
    \/ instalado \in conferidas
    \/ /\ programa \notin {"abrindo", "aberto"}
       /\ \/ estado.fase \in Aplicacao /\ estado.alvo = instalado
          \/ estado.fase = "FAILED" /\ estado.erro \in Bloqueante

LEMMA CobreMantido ==
    ASSUME Instaladores = {}, Inv, Firme, Cobre, [Next]_vars
    PROVE  Cobre'
<1> USE DEF disco, historia, memoria, comercio
<1>0. TypeOK /\ Etapas
  BY DEF Inv
<1>1. CASE Velopack
  <2>1. /\ instalado' \in {instalado, agendado} /\ programa = "desligado"
        /\ agendado # Nenhuma /\ UNCHANGED <<estado, programa, conferidas>>
    BY <1>1 DEF Velopack
  <2>2. CASE instalado' = instalado
    BY <2>1, <2>2 DEF Cobre
  <2>3. CASE instalado' = agendado
    BY <2>1, <2>3 DEF Firme, Cobre
  <2> QED
    BY <2>1, <2>2, <2>3
<1>2. ~Velopack /\ UNCHANGED vars => Cobre'
  BY DEF vars, Cobre
<1>3. ASSUME instalado \in conferidas, ~Velopack, Next PROVE Cobre'
  <2>1. instalado' = instalado /\ conferidas \subseteq conferidas'
    <3>1. CASE Tarefa
      BY <3>1 DEF Tarefa, CheckNow, Download, DownloadFinished, Copiar, Agendar,
         Preparar, PacoteInvalido, FalhaDeDisco
    <3>2. CASE Partida
      BY <3>2 DEF Partida, Ligar, Recusar, ResumePendingUpdate, RetomarAplicacao,
         VersaoTrocada, IniciarConferencia, MigrarPendente, Reagendar, HealthCheck,
         Abrir
    <3>3. CASE UsarCaixa \/ TrocarTela \/ Encerrar \/ Queda
      BY <3>3 DEF UsarCaixa, TrocarTela, Encerrar, Queda
    <3> QED
      BY <1>3, <3>1, <3>2, <3>3 DEF Next
  <2> QED
    BY <1>3, <2>1 DEF Cobre
<1>4. ASSUME instalado \notin conferidas, ~Velopack, Next PROVE Cobre'
  <2>1. /\ programa \notin {"abrindo", "aberto"} /\ tarefa = "livre" /\ ~aguarda
        /\ \/ estado.fase \in Aplicacao /\ estado.alvo = instalado
           \/ estado.fase = "FAILED" /\ estado.erro \in Bloqueante
    BY <1>0, <1>4 DEF Cobre, TypeOK
  <2>2. ASSUME UNCHANGED <<estado, instalado>>, programa' \notin {"abrindo", "aberto"}
        PROVE  Cobre'
    BY <2>1, <2>2 DEF Cobre
  <2>3. ~Tarefa
    BY <2>1 DEF Tarefa, CheckNow, Download, DownloadFinished, Copiar, Agendar,
       Preparar, PacoteInvalido, FalhaDeDisco
  <2>4. CASE Ligar \/ Recusar \/ Queda
    BY <2>2, <2>4 DEF Ligar, Recusar, Queda, Desligar
  <2>5. ASSUME NEW ok \in BOOLEAN, MigrarPendente(ok) \/ Reagendar(ok) PROVE Cobre'
    BY <2>2, <2>5 DEF MigrarPendente, Migrar, Reagendar
  <2>6. ~ResumePendingUpdate
    BY <2>1 DEF ResumePendingUpdate, Aplicacao
  <2>7. ~RetomarAplicacao /\ ~VersaoTrocada
    <3>1. estado.fase \in Aplicacao => ~(Sequencia[instalado] < Sequencia[estado.alvo])
      BY <1>0, <2>1, AtualizacaoAssumption DEF AtualizacaoAssumption, TypeOK, Aplicacao
    <3> QED
      BY <2>1, <3>1 DEF RetomarAplicacao, VersaoTrocada, Aplicando, Aplicacao
  <2>8. CASE IniciarConferencia
    <3>1. estado'.fase = "HEALTH_CHECK" /\ estado'.alvo = estado.alvo
      BY <1>0, <2>8 DEF IniciarConferencia, TypeOK, UpdateState
    <3> QED
      BY <2>8, <3>1 DEF IniciarConferencia, Cobre, Aplicacao
  <2>9. ASSUME NEW ok \in BOOLEAN, HealthCheck(ok) PROVE Cobre'
    <3>1. instalado' = instalado /\ estado.alvo = instalado
      BY <1>0, <2>9 DEF HealthCheck, Etapas
    <3>2. \/ instalado' \in conferidas'
          \/ estado' = Falhou("HEALTH") /\ programa' = "desligado"
      BY <2>9, <3>1 DEF HealthCheck
    <3>3. Falhou("HEALTH").fase = "FAILED" /\ Falhou("HEALTH").erro \in Bloqueante
      BY <1>0, CamposEscritos DEF TypeOK, Bloqueante
    <3> QED
      BY <3>2, <3>3 DEF Cobre
  <2>10. \A ok \in BOOLEAN : ~Abrir(ok)
    BY <2>1 DEF Abrir
  <2>11. ~UsarCaixa /\ ~TrocarTela /\ ~Encerrar
    BY <2>1 DEF UsarCaixa, TrocarTela, Encerrar
  <2> QED
    BY <1>4, <2>3, <2>4, <2>5, <2>6, <2>7, <2>8, <2>9, <2>10, <2>11 DEF Next, Partida
<1> QED
  BY <1>1, <1>2, <1>3, <1>4

(* When nobody installs by hand, a release opens unchecked (AbreConferida) *)
(* only if the state file had lost sight of the bundle that Velopack was   *)
(* to install: an update given up, or prepared again, while scheduled.     *)
THEOREM AbreConferidaSeFirme ==
    ASSUME Instaladores = {}
    PROVE  Spec /\ []Firme => []AbreConferida
<1>1. Init => Cobre
  BY AtualizacaoAssumption DEF AtualizacaoAssumption, Init, Cobre
<1>2. Inv /\ Cobre /\ Firme /\ [Next]_vars => Cobre'
  BY CobreMantido
<1>3. Cobre => AbreConferida
  BY DEF Cobre, AbreConferida
<1> QED
  BY <1>1, <1>2, <1>3, AtualizacaoInv, PTL DEF Spec
=============================================================================
