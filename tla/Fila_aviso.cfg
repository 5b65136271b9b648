SPECIFICATION Spec
CONSTANTS
    Job = {j1, j2}
    Fim = Fim
    ReenviaConcluido = FALSE
    MaxTentativas = 2
    MaxAvisos = 2
    MaxQuedas = 0
INVARIANT
    PendenteNaFila
CHECK_DEADLOCK FALSE
