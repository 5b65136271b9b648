SPECIFICATION Spec
CONSTANTS
    Job = {j1, j2}
    Fim = Fim
    ReenviaConcluido = FALSE
    MaxTentativas = 2
    MaxAvisos = 2
    MaxQuedas = 2
INVARIANTS
    TypeOK
    FilaCoerente
    SaidaUnica
PROPERTY
    SolicitacaoAtendida
CHECK_DEADLOCK FALSE
