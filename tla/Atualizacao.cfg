SPECIFICATION Spec
CONSTANTS
    r1 = r1
    r2 = r2
    r3 = r3
    r4 = r4
    Release = {r1, r2, r3, r4}
    Sequencia <- SequenciaMC
    Esquema <- EsquemaMC
    Inicial = r1
    Publicadas = {r2, r3}
    Instaladores = {r1, r2, r4}
    Nenhuma = Nenhuma
    MaxTentativas = 4
INVARIANTS
    TypeOK
    AbreInteiro
    EsquemaProprio
    CopiaAntesDeAplicar
    RetentativasLimitadas
CHECK_DEADLOCK FALSE
