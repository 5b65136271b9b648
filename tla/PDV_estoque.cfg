SPECIFICATION Spec
CONSTANTS
    adm = adm
    op = op
    pao = pao
    queijo = queijo
    Nulo = Nulo
    Usuario = {adm}
    Perfil <- PerfilMC
    Iniciais = {adm}
    LimiteManual = 5000
    Produto = {pao}
    ProdutosIniciais <- CatalogoMC
    Carrinhos <- CarrinhosEstoque
    Fundos = {100}
    Valores = {100}
    Contagens = {0}
    Recebidos = {6000}
    Cadastros <- CadastrosMC
    Edicoes <- EdicoesGerais
    Ajustes <- AjustesMC
    ChavesVenda = {k1, k2}
    ChavesMovimento = {k1}
    ChavesCancelamento = {k1, k2}
    ChavesVia = {k1}
    Pagamentos = {"Dinheiro"}
    Motivos = {m1}
    Contextos = {ctx1}
    MaxCaixas = 1
    MaxVendas = 2
    MaxMovimentos = 0
    MaxVias = 1
    MaxEstoque = 2000
INVARIANTS
    TypeOK
    ConfirmacaoUnica
    CancelamentoUnico
PROPERTIES
    EstoqueConciliado
    PrecoVigente
CHECK_DEADLOCK FALSE
