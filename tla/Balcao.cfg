SPECIFICATION FairSpec
CONSTANTS
    Nenhum = Nenhum
    Codigos = {c1}
    MaxPending = 1
    MaxLeituras = 2
    MaxLinhas = 2
    MaxDialogos = 2
    MaxVendas = 1
    MaxSessoes = 2
    Juntos = {"aprovaPreco", "aprovaCadastro", "pagamento"}
INVARIANT TypeOK
INVARIANT FilaCoerente
INVARIANT LeituraDaVenda
INVARIANT PedidoUnico
INVARIANT DialogoDaSessao
INVARIANT UltimaDaSessao
PROPERTY LeitorEscoa
CHECK_DEADLOCK FALSE
