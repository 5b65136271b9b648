SPECIFICATION Spec
CONSTANTS
    Fim = Fim
    MaxCaixas = 2
    MaxPedidos = 2
    MaxArquivos = 3
    MaxQuedas = 1
INVARIANTS
    RegistrosTemCopia
    CopiaContemFechamento
    CopiaAuditada
PROPERTY
    VendaRealPermanece
CHECK_DEADLOCK FALSE
