SPECIFICATION Spec
CONSTANTS
    Nenhum = Nenhum
    Codigos = {c1}
    MaxPending = 1
    MaxLeituras = 2
    MaxLinhas = 2
    MaxDialogos = 2
    MaxVendas = 2
    MaxSessoes = 2
    Juntos = {"pagamento", "autoriza"}
INVARIANT CarrinhoVendidoUmaVez
CHECK_DEADLOCK FALSE
