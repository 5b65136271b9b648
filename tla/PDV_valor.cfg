SPECIFICATION Spec
CONSTANTS
    adm = adm
    op = op
    pao = pao
    queijo = queijo
    Nulo = Nulo
    Usuario = {adm}
    Perfil <- PerfilMC
    Iniciais = {adm}
    LimiteManual = 5000
    Produto = {queijo}
    ProdutosIniciais <- CatalogoMC
    Carrinhos <- CarrinhosGaveta
    Fundos = {100}
    Valores = {100, 1000}
    Contagens = {100}
    Recebidos = {6000}
    Cadastros <- Vazio
    Edicoes <- Vazio
    Ajustes <- Vazio
    ChavesVenda = {Nulo}
    ChavesMovimento = {k1}
    ChavesCancelamento = {k1}
    ChavesVia <- Vazio
    Pagamentos = {"Dinheiro"}
    Motivos = {m1}
    Contextos = {ctx1}
    MaxCaixas = 1
    MaxVendas = 1
    MaxMovimentos = 2
    MaxVias = 0
    MaxEstoque = 2000
INVARIANT
    ValorVisivel
CHECK_DEADLOCK FALSE
