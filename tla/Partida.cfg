SPECIFICATION Spec
CONSTANTS
    Processo = {p1, p2}
    p1 = p1
    p2 = p2
    Nenhum = Nenhum
    Alvos = {8, 9}
    Antigos = {6, 8}
    InstalacaoDesde = 7
    CaixaUnicoDesde = 9
    MaxDados = 2
    MaxCodigos = 2
    MaxQuedas = 2
INVARIANTS
    PublicadoInteiro
    InstalacaoCoerente
PROPERTY
    MigraComCopia
CHECK_DEADLOCK FALSE
