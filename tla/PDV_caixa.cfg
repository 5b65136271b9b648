SPECIFICATION Spec
CONSTANTS
    adm = adm
    op = op
    pao = pao
    queijo = queijo
    Nulo = Nulo
    Usuario = {adm, op}
    Perfil <- PerfilMC
    Iniciais = {adm, op}
    LimiteManual = 5000
    Produto = {queijo}
    ProdutosIniciais <- CatalogoMC
    Carrinhos <- CarrinhosGaveta
    Fundos = {100}
    Valores = {100}
    Contagens = {100}
    Recebidos = {6000}
    Cadastros <- Vazio
    Edicoes <- Vazio
    Ajustes <- Vazio
    ChavesVenda = {Nulo}
    ChavesMovimento = {k1, k2}
    ChavesCancelamento = {k1}
    ChavesVia <- Vazio
    Pagamentos = {"Dinheiro", "PIX"}
    Motivos = {m1}
    Contextos = {ctx1}
    MaxCaixas = 2
    MaxVendas = 1
    MaxMovimentos = 2
    MaxVias = 0
    MaxEstoque = 2000
INVARIANTS
    CaixaUnico
    FechamentoConsolidado
    ConfirmacaoUnica
    ExcecaoAutorizada
PROPERTIES
    ImplementaGaveta
CHECK_DEADLOCK FALSE
