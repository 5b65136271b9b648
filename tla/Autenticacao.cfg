SPECIFICATION AutSpec
CONSTANTS
    a1 = a1
    a2 = a2
    Usuario = {a1, a2}
    Perfil <- PerfilMC
    Iniciais = {a1}
    Segundo = 2
    Limiar = 2
    Janela = 4
    Bloqueio = 4
    BloqueioRec = 6
    Espera = 1
    Nulo = Nulo
    Alvos = {a1}
    MaxTempo = 4
    MaxPedidos = 2
    MaxCodigos = 2
INVARIANTS
    AutTypeOK
    LimiteDeTentativas
    CodigoUnicoUso
    SessaoAtiva
    AdminDisponivel
PROPERTIES
    BloqueioIntocado
    DiretorioSoPorAdmin
CHECK_DEADLOCK FALSE
