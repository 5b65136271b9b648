---------------------------- MODULE BalcaoProofs ----------------------------
(***************************************************************************)
(* Theorems of the counter screen, for any codes, any number of readings,  *)
(* dialogs, sales and sessions.                                            *)
(*                                                                         *)
(* Most actions touch one part of the state.  The lemmas of the first part *)
(* say which steps change the reader, the cart, the sales and the session; *)
(* each invariant is then proved over the few steps that can disturb it.   *)
(***************************************************************************)
EXTENDS Balcao, TLAPS

-----------------------------------------------------------------------------
(* Steps by their effect.                                                  *)

LeitorNovo ==
    fila' = FilaNova /\ inflight' = Nenhum /\ lendo' = {} /\ respostas' = <<>>

(* Only the reader, a payment and the end of a session change the reader.  *)
LEMMA EfeitoNoLeitor ==
    ASSUME [Next]_vars
    PROVE  \/ UNCHANGED <<fila, inflight, lendo, respostas>>
           \/ \E c \in Codigos : HandleGtin(c)
           \/ Resume
           \/ \E t \in lendo : LookUp(t)
           \/ \E r \in Produto : PollScanResults(r)
           \/ \E d \in dialogos : ConfirmPayment(d)
           \/ LeitorNovo
<1>1. CASE Leitor
  BY <1>1 DEF Leitor
<1>2. CASE Compra
  BY <1>2 DEF Compra, QuickProduct, ShortcutSearch, ShortcutManualItem,
       ShortcutEdit, ShortcutCancel, ShortcutPayment,
       RequestLastSaleCancellation, leitor
<1>3. CASE Telas
  BY <1>3 DEF Telas, OpenCashActions, ShowSale, RequestLogout, ShowAdmin,
       BackToSale, ClearSessionViews, leitor, LeitorNovo
<1>4. ASSUME NEW d \in dialogos, NoDialogo(d), ~ConfirmPayment(d)
      PROVE  UNCHANGED <<fila, inflight, lendo, respostas>> \/ LeitorNovo
  BY <1>4 DEF NoDialogo, FinishOpen, Cancel, SubmitItem, Approve,
       SelectProduct, IncludeManualItem, ApplyEdit, AuthorizeItemCancel,
       AuthorizeSale, ConfirmPaymentFails, OpenCash, SelectMovement,
       RequestCashClose, CloseCash, CancelLastSale, ConfirmLogout, ClearSessionViews, leitor,
       LeitorNovo
<1>5. CASE UNCHANGED vars
  BY <1>5 DEF vars, leitor
<1> QED
  BY <1>1, <1>2, <1>3, <1>4, <1>5 DEF Next

(* Lines enter and leave the cart one at a time, except that a payment and *)
(* the end of a session empty it.                                          *)
Inclusao(ds) ==
    \E r \in Produto, c \in Codigos \cup {Nenhum}, ficha \in SUBSET Nat :
        AddProduct(r, c, {}, ficha, ds)

LEMMA EfeitoNoCarrinho ==
    ASSUME [Next]_vars, \A d \in dialogos : DialogoOK(d)
    PROVE  \/ UNCHANGED <<carrinho, linhas>>
           \/ /\ fila' = fila
              /\ \/ \E ds \in SUBSET dialogos : Inclusao(ds)
                 \/ \E d \in dialogos : IncludeManualItem(d) \/ ApplyEdit(d)
                 \/ \E k : RemoveLine(k)
           \/ \E r \in Produto : PollScanResults(r)
           \/ \E d \in dialogos : ConfirmPayment(d)
           \/ carrinho' = {} /\ linhas' = 0 /\ tela' = "fora"
<1> DEFINE Meta ==
       \/ UNCHANGED <<carrinho, linhas>>
       \/ /\ fila' = fila
          /\ \/ \E ds \in SUBSET dialogos : Inclusao(ds)
             \/ \E d \in dialogos : IncludeManualItem(d) \/ ApplyEdit(d)
             \/ \E k : RemoveLine(k)
       \/ \E r \in Produto : PollScanResults(r)
       \/ \E d \in dialogos : ConfirmPayment(d)
       \/ carrinho' = {} /\ linhas' = 0 /\ tela' = "fora"
<1>1. CASE Leitor
  BY <1>1 DEF Leitor, HandleGtin, Resume, LookUp, compra
<1>2. CASE Compra
  <2>1. ASSUME NEW c \in Codigos, NEW r \in Produto, QuickProduct(c, r)
        PROVE  Meta
    <3>1. AddProduct(r, c, {}, {}, dialogos) /\ fila' = fila
      BY <2>1 DEF QuickProduct, leitor
    <3> QED
      BY <3>1 DEF Inclusao
  <2>2. ASSUME NEW l \in carrinho, ShortcutCancel(l) PROVE Meta
    BY <2>2 DEF ShortcutCancel, leitor, compra
  <2> QED
    BY <1>2, <2>1, <2>2 DEF Compra, ShortcutSearch, ShortcutManualItem,
       ShortcutEdit, ShortcutPayment, RequestLastSaleCancellation, compra
<1>3. CASE Telas
  BY <1>3 DEF Telas, OpenCashActions, ShowSale, RequestLogout, ShowAdmin,
       BackToSale, ClearSessionViews, compra
<1>4. ASSUME NEW d \in dialogos, NoDialogo(d) PROVE Meta
  <2> DEFINE ficha == {d.ref.geracao}
  <2>0. ficha \in SUBSET Nat /\ d.ref.codigo \in Codigos \cup {Nenhum}
    BY DEF DialogoOK
  <2>1. ASSUME NEW r \in Produto, SubmitItem(d, r) PROVE Meta
    <3>1. CASE UNCHANGED compra
      BY <3>1 DEF compra
    <3>2. CASE AddProduct(r, d.ref.codigo, {}, ficha, dialogos \ {d})
      <4>1. fila' = fila /\ dialogos \ {d} \in SUBSET dialogos
        BY <2>1 DEF SubmitItem, leitor
      <4> QED
        BY <2>0, <3>2, <4>1 DEF Inclusao
    <3> QED
      BY <2>1, <3>1, <3>2 DEF SubmitItem
  <2>2. ASSUME NEW r \in Produto, Approve(d, r) PROVE Meta
    <3> DEFINE resto == {e \in dialogos : e.id \notin {d.id, d.ref.origem}}
    <3>1. fila' = fila /\ resto \in SUBSET dialogos
      BY <2>2 DEF Approve, leitor
    <3>2. AddProduct(r, d.ref.codigo, {}, ficha, resto)
      BY <2>2 DEF Approve
    <3> QED
      BY <2>0, <3>1, <3>2 DEF Inclusao
  <2>3. ASSUME NEW c \in Codigos, NEW r \in Produto, SelectProduct(d, c, r)
        PROVE  Meta
    <3>1. fila' = fila /\ dialogos \ {d} \in SUBSET dialogos
      BY <2>3 DEF SelectProduct, leitor
    <3>2. AddProduct(r, c, {}, {}, dialogos \ {d})
      BY <2>3 DEF SelectProduct
    <3> QED
      BY <3>1, <3>2 DEF Inclusao
  <2>4. CASE IncludeManualItem(d) \/ ApplyEdit(d)
    BY <2>4 DEF IncludeManualItem, ApplyEdit, leitor
  <2>5. CASE AuthorizeItemCancel(d)
    BY <2>5 DEF AuthorizeItemCancel, leitor
  <2> QED
    BY <1>4, <2>1, <2>2, <2>3, <2>4, <2>5 DEF NoDialogo, FinishOpen, Cancel,
       AuthorizeSale, ConfirmPaymentFails, OpenCash, SelectMovement,
       RequestCashClose, CloseCash, CancelLastSale, ConfirmLogout, ClearSessionViews, compra
<1>5. CASE UNCHANGED vars
  BY <1>5 DEF vars, compra
<1> QED
  BY <1>1, <1>2, <1>3, <1>4, <1>5 DEF Next

(* Sales are made by the confirmation of a payment only, in its session.   *)
LEMMA EfeitoNasVendas ==
    ASSUME [Next]_vars
    PROVE  \/ vendas' = vendas
           \/ \E d \in dialogos : d.tipo = "pagamento" /\ FinalizeSale(d)
<1>1. CASE Leitor
  BY <1>1 DEF Leitor, HandleGtin, Resume, LookUp, PollScanResults, loja
<1>2. CASE Compra
  BY <1>2 DEF Compra, QuickProduct, ShortcutSearch, ShortcutManualItem,
       ShortcutEdit, ShortcutCancel, ShortcutPayment,
       RequestLastSaleCancellation, loja
<1>3. CASE Telas
  BY <1>3 DEF Telas, OpenCashActions, ShowSale, RequestLogout, ShowAdmin,
       BackToSale, ClearSessionViews, loja
<1>4. ASSUME NEW d \in dialogos, NoDialogo(d)
      PROVE  vendas' = vendas \/ (d.tipo = "pagamento" /\ FinalizeSale(d))
  BY <1>4 DEF NoDialogo, FinishOpen, Cancel, SubmitItem, Approve,
       SelectProduct, IncludeManualItem, ApplyEdit, AuthorizeItemCancel,
       AuthorizeSale, ConfirmPayment, ConfirmPaymentFails, OpenCash,
       SelectMovement, RequestCashClose, CloseCash, CancelLastSale, ConfirmLogout,
       ClearSessionViews, loja
<1>5. CASE UNCHANGED vars
  BY <1>5 DEF vars, loja
<1> QED
  BY <1>1, <1>2, <1>3, <1>4, <1>5 DEF Next

(* A step keeps dialogs, opens them for the session, or ends the session.  *)
Mesmo(d, e) == d.tipo = e.tipo /\ d.ref = e.ref /\ d.sessao = e.sessao
Herdado(d)  == \E e \in dialogos : Mesmo(d, e)
Bom(d)      == Viva /\ d.sessao = sessao /\ DialogoOK(d)
Mantem(ds)  == \A d \in ds : (Herdado(d) \/ Bom(d)) /\ DialogoOK(d)

LEMMA AbreUm ==
    ASSUME NEW ds, NEW tipo \in Tipos, NEW ref, Viva, Mantem(ds),
           ref.codigo \in Codigos \cup {Nenhum}, ref.geracao \in Nat,
           ref.itens \subseteq 1..MaxLinhas,
           tipo \in {"autoriza", "pagamento"} => ref.chave \in 1..MaxVendas
    PROVE  Mantem(Abertos(ds, tipo, ref))
<1> DEFINE n == Novo(ds, tipo, ref)
<1>1. /\ n.tipo = tipo /\ n.ref = ref /\ n.sessao = sessao
      /\ DOMAIN n = {"id", "tipo", "ref", "novo", "sessao"}
  BY DEF Novo
<1>2. Bom(n)
  BY <1>1 DEF Bom, DialogoOK
<1> QED
  BY <1>2 DEF Abertos, Mantem, Bom

LEMMA Subconjunto ==
    ASSUME \A d \in dialogos : DialogoOK(d), NEW ds \in SUBSET dialogos
    PROVE  Mantem(ds)
  BY DEF Mantem, Herdado, Mesmo
LEMMA ProdutoAbre ==
    ASSUME TypeOK, Viva, NEW r \in Produto, NEW c \in Codigos \cup {Nenhum},
           NEW lida, NEW ficha, NEW ds \in SUBSET dialogos,
           AddProduct(r, c, lida, ficha, ds)
    PROVE  Mantem(dialogos')
<1>1. Mantem(ds)
  BY Subconjunto DEF TypeOK
<1>2. CASE dialogos' = ds
  BY <1>1, <1>2
<1>3. CASE r \in {"preco", "peso"} /\ dialogos' =
           Abertos(ds, r, [Sem EXCEPT !.codigo = c, !.geracao = fila.geracao])
  <2> DEFINE ref == [Sem EXCEPT !.codigo = c, !.geracao = fila.geracao]
  <2>1. ref.codigo = c /\ ref.geracao = fila.geracao /\ ref.itens = {}
    BY DEF Sem
  <2>2. fila.geracao \in Nat /\ r \in Tipos /\ r \notin {"autoriza", "pagamento"}
    BY <1>3 DEF TypeOK, FilaT, Tipos
  <2>3. Mantem(Abertos(ds, r, ref))
    BY <1>1, <2>1, <2>2, AbreUm
  <2> QED
    BY <1>3, <2>3
<1> QED
  BY <1>2, <1>3 DEF AddProduct

LEMMA EfeitoNosDialogos ==
    ASSUME TypeOK, DialogoDaSessao, [Next]_vars
    PROVE  \/ sessao' = sessao /\ (Viva' <=> Viva) /\ Mantem(dialogos')
           \/ \E a, c, retoma \in BOOLEAN : ShowSale(a, c, retoma)
           \/ \E ds \in SUBSET dialogos : ClearSessionViews(ds)
<1> DEFINE Meta == sessao' = sessao /\ (Viva' <=> Viva) /\ Mantem(dialogos')
<1>0. \A d \in dialogos : DialogoOK(d)
  BY DEF TypeOK
<1>a. \A ds \in SUBSET dialogos : Mantem(ds)
  BY <1>0, Subconjunto
<1>b. ASSUME UNCHANGED conta, Mantem(dialogos') PROVE Meta
  BY <1>b DEF conta, Viva
<1>c. Sem.codigo = Nenhum /\ Sem.geracao = 0 /\ Sem.itens = {}
  BY DEF Sem
<1>d. ASSUME NEW tipo \in Tipos \ {"autoriza", "pagamento"}, Viva,
             NEW ds \in SUBSET dialogos
      PROVE  Mantem(Abertos(ds, tipo, Sem))
  BY <1>a, <1>c, <1>d, AbreUm
<1>1. CASE Leitor
  <2>1. ASSUME NEW r \in Produto, PollScanResults(r) PROVE Meta
    <3> DEFINE t == Head(respostas)
    <3>1. t \in Bilhete
      BY <2>1 DEF PollScanResults, TypeOK
    <3>2. Viva /\ UNCHANGED conta /\ t.codigo \in Codigos
      BY <2>1, <3>1 DEF PollScanResults, Bilhete
    <3>3. CASE UNCHANGED dialogos
      BY <1>a, <1>b, <3>2, <3>3
    <3>4. CASE Dispatch(t, r)
      <4>1. CASE AddProduct(r, t.codigo, {t.geracao}, {}, dialogos)
        BY <1>b, <3>2, <4>1, ProdutoAbre
      <4>2. CASE dialogos' = Abertos(dialogos, "manual",
                    [Sem EXCEPT !.codigo = t.codigo, !.geracao = fila.geracao])
        <5> DEFINE ref ==
               [Sem EXCEPT !.codigo = t.codigo, !.geracao = fila.geracao]
        <5>1. /\ ref.codigo = t.codigo /\ ref.geracao = fila.geracao
              /\ ref.itens = {} /\ fila.geracao \in Nat
          BY DEF Sem, TypeOK, FilaT
        <5>2. Mantem(Abertos(dialogos, "manual", ref))
          BY <1>a, <3>2, <5>1, AbreUm DEF Tipos
        <5> QED
          BY <1>b, <3>2, <4>2, <5>2
      <4> QED
        BY <3>3, <3>4, <4>1, <4>2 DEF Dispatch
    <3> QED
      BY <2>1, <3>3, <3>4 DEF PollScanResults
  <2> QED
    BY <1>a, <1>b, <1>1, <2>1 DEF Leitor, HandleGtin, Resume, LookUp
<1>2. CASE Compra
  <2>1. ASSUME NEW c \in Codigos, NEW r \in Produto, QuickProduct(c, r)
        PROVE  Meta
    BY <1>b, <2>1, ProdutoAbre DEF QuickProduct, Viva
  <2>2. CASE ShortcutSearch \/ ShortcutManualItem
    BY <1>b, <1>d, <2>2 DEF ShortcutSearch, ShortcutManualItem, Mostra, Viva,
         Tipos
  <2>3. ASSUME NEW l \in carrinho, NEW tipo \in {"edita", "cancela"}, Viva
        PROVE  Mantem(Abertos(dialogos, tipo, [Sem EXCEPT !.linha = l.chave]))
    <3> DEFINE ref == [Sem EXCEPT !.linha = l.chave]
    <3>1. ref.codigo = Nenhum /\ ref.geracao = 0 /\ ref.itens = {}
      BY DEF Sem
    <3>2. tipo \in Tipos /\ tipo \notin {"autoriza", "pagamento"}
      BY DEF Tipos
    <3>3. Mantem(dialogos)
      BY <1>a
    <3> HIDE DEF ref
    <3>4. Mantem(Abertos(dialogos, tipo, ref))
      BY <2>3, <3>1, <3>2, <3>3, AbreUm
    <3> QED
      BY <3>4 DEF ref
  <2>4. ASSUME NEW l \in carrinho, ShortcutEdit(l) \/ ShortcutCancel(l)
        PROVE  Meta
    BY <1>a, <1>b, <2>3, <2>4 DEF ShortcutEdit, ShortcutCancel, Mostra, Viva
  <2>5. ASSUME NEW e \in BOOLEAN, ShortcutPayment(e) PROVE Meta
    <3> DEFINE ref == [Sem EXCEPT !.itens = {l.chave : l \in carrinho},
                                  !.chave = chaves + 1]
               tipo == IF e THEN "autoriza" ELSE "pagamento"
    <3>1. /\ ref.codigo = Nenhum /\ ref.geracao = 0
          /\ ref.itens = {l.chave : l \in carrinho} /\ ref.chave = chaves + 1
      BY DEF Sem
    <3>2. ref.itens \subseteq 1..MaxLinhas
      BY <3>1 DEF TypeOK, Linha
    <3>3. ref.chave \in 1..MaxVendas /\ tipo \in Tipos
      BY <2>5, <3>1, LimitesNaturais DEF ShortcutPayment, TypeOK, Tipos
    <3>4. Viva /\ UNCHANGED conta /\ dialogos' = Abertos(dialogos, tipo, ref)
      BY <2>5 DEF ShortcutPayment, Mostra, Viva
    <3>5. Mantem(dialogos)
      BY <1>a
    <3> HIDE DEF ref, tipo
    <3>6. Mantem(Abertos(dialogos, tipo, ref))
      BY <3>1, <3>2, <3>3, <3>4, <3>5, AbreUm
    <3> QED
      BY <1>b, <3>4, <3>6
  <2>6. CASE RequestLastSaleCancellation
    <3> DEFINE ref == [Sem EXCEPT !.chave = ultima.venda]
    <3>1. /\ ref.codigo = Nenhum /\ ref.geracao = 0 /\ ref.itens = {}
          /\ "cancelaVenda" \in Tipos
      BY DEF Sem, Tipos
    <3>2. /\ Viva /\ UNCHANGED conta
          /\ dialogos' = Abertos(dialogos, "cancelaVenda", ref)
      BY <2>6 DEF RequestLastSaleCancellation, Mostra, Viva
    <3>3. Mantem(dialogos)
      BY <1>a
    <3> HIDE DEF ref
    <3>4. Mantem(Abertos(dialogos, "cancelaVenda", ref))
      BY <3>1, <3>2, <3>3, AbreUm
    <3> QED
      BY <1>b, <3>2, <3>4
  <2> QED
    BY <1>2, <2>1, <2>2, <2>4, <2>5, <2>6 DEF Compra
<1>3. ASSUME Telas, ~ClearSessionViews(dialogos),
             ~\E a, c, retoma \in BOOLEAN : ShowSale(a, c, retoma)
      PROVE  Meta
  <2>1. CASE OpenCashActions
    <3>1. "acoes" \in Tipos \ {"autoriza", "pagamento"}
          /\ "abre" \in Tipos \ {"autoriza", "pagamento"}
      BY DEF Tipos
    <3> QED
      BY <1>b, <1>d, <2>1, <3>1 DEF OpenCashActions, Mostra, Viva
  <2>2. CASE RequestLogout
    <3>1. "sair" \in Tipos \ {"autoriza", "pagamento"}
      BY DEF Tipos
    <3> QED
      BY <1>b, <1>d, <1>3, <2>2, <3>1 DEF RequestLogout, Mostra
  <2>3. CASE ShowAdmin \/ BackToSale
    BY <1>a, <2>3 DEF ShowAdmin, BackToSale, Viva
  <2> QED
    BY <1>3, <2>1, <2>2, <2>3 DEF Telas
<1>4. ASSUME NEW d \in dialogos, NoDialogo(d), ~ConfirmLogout(d) PROVE Meta
  <2>0. d.tipo # "sair" => Viva
    BY DEF DialogoDaSessao
  <2>1. DialogoOK(d) /\ dialogos \ {d} \in SUBSET dialogos
    BY <1>0
  <2>2. CASE FinishOpen(d)
    <3> DEFINE e == [d EXCEPT !.novo = FALSE]
    <3>1. Mesmo(e, d) /\ DOMAIN e = DOMAIN d
      BY <2>1 DEF DialogoOK, Mesmo
    <3>2. DialogoOK(e) /\ Herdado(e)
      BY <2>1, <3>1 DEF DialogoOK, Herdado, Mesmo
    <3>3. Mantem(dialogos \ {d})
      BY <1>a
    <3> QED
      BY <1>b, <2>2, <3>2, <3>3 DEF FinishOpen, Mantem
  <2>3. CASE Cancel(d)
    BY <1>a, <1>b, <2>3 DEF Cancel
  <2>4. ASSUME NEW r \in Produto, SubmitItem(d, r) PROVE Meta
    <3>0. Viva /\ UNCHANGED conta /\ d.ref.codigo \in Codigos \cup {Nenhum}
      BY <2>0, <2>1, <2>4 DEF SubmitItem, DialogoOK
    <3>1. CASE AddProduct(r, d.ref.codigo, {}, {d.ref.geracao}, dialogos \ {d})
      BY <1>b, <3>0, <3>1, ProdutoAbre
    <3>2. CASE UNCHANGED compra
      <4> DEFINE ref == [Sem EXCEPT !.codigo = d.ref.codigo,
                           !.geracao = d.ref.geracao, !.origem = d.id]
                 tipo == IF d.tipo = "preco" THEN "aprovaPreco"
                         ELSE "aprovaCadastro"
      <4>1. /\ ref.codigo = d.ref.codigo /\ ref.geracao = d.ref.geracao
            /\ ref.itens = {}
        BY DEF Sem
      <4>2. /\ ref.codigo \in Codigos \cup {Nenhum} /\ ref.geracao \in Nat
            /\ tipo \in Tipos /\ tipo \notin {"autoriza", "pagamento"}
        BY <2>1, <4>1 DEF DialogoOK, Tipos
      <4>3. Mantem(Abertos(dialogos, tipo, ref))
        BY <1>a, <3>0, <4>1, <4>2, AbreUm
      <4>4. \/ dialogos' = Abertos(dialogos, tipo, ref)
            \/ AddProduct(r, d.ref.codigo, {}, {d.ref.geracao}, dialogos \ {d})
        BY <2>4 DEF SubmitItem, Mostra
      <4> QED
        BY <1>b, <3>0, <3>1, <4>3, <4>4
    <3> QED
      BY <2>4, <3>1, <3>2 DEF SubmitItem
  <2>5. ASSUME NEW r \in Produto, Approve(d, r) PROVE Meta
    <3> DEFINE resto == {e \in dialogos : e.id \notin {d.id, d.ref.origem}}
    <3>1. /\ Viva /\ UNCHANGED conta /\ resto \in SUBSET dialogos
          /\ d.ref.codigo \in Codigos \cup {Nenhum}
      BY <2>0, <2>1, <2>5 DEF Approve, DialogoOK
    <3>2. AddProduct(r, d.ref.codigo, {}, {d.ref.geracao}, resto)
      BY <2>5 DEF Approve
    <3> QED
      BY <1>b, <3>1, <3>2, ProdutoAbre
  <2>6. ASSUME NEW c \in Codigos, NEW r \in Produto, SelectProduct(d, c, r)
        PROVE  Meta
    <3>1. /\ Viva /\ UNCHANGED conta
          /\ AddProduct(r, c, {}, {}, dialogos \ {d})
      BY <2>0, <2>6 DEF SelectProduct
    <3> QED
      BY <1>b, <2>1, <3>1, ProdutoAbre
  <2>7. CASE AuthorizeSale(d)
    <3>1. Viva /\ UNCHANGED conta /\ "pagamento" \in Tipos
      BY <2>0, <2>7 DEF AuthorizeSale, Tipos
    <3>2. Mantem(Abertos(dialogos, "pagamento", d.ref))
      <4>1. /\ d.ref.codigo \in Codigos \cup {Nenhum} /\ d.ref.geracao \in Nat
            /\ d.ref.itens \subseteq 1..MaxLinhas /\ d.ref.chave \in 1..MaxVendas
        BY <2>1, <2>7 DEF AuthorizeSale, DialogoOK
      <4> QED
        BY <1>a, <3>1, <4>1, AbreUm
    <3> QED
      BY <1>b, <2>7, <3>1, <3>2 DEF AuthorizeSale, Mantem
  <2>8. CASE SelectMovement(d) \/ RequestCashClose(d)
    <3>1. /\ "movimento" \in Tipos \ {"autoriza", "pagamento"}
          /\ "fecha" \in Tipos \ {"autoriza", "pagamento"}
      BY DEF Tipos
    <3>2. Viva /\ UNCHANGED conta
      BY <2>0, <2>8 DEF SelectMovement, RequestCashClose
    <3>3. /\ Mantem(Abertos(dialogos \ {d}, "movimento", Sem))
          /\ Mantem(Abertos(dialogos \ {d}, "fecha", Sem))
          /\ Mantem(dialogos \ {d})
      BY <1>a, <1>d, <2>1, <3>1, <3>2
    <3> QED
      BY <1>b, <2>8, <3>2, <3>3 DEF SelectMovement, RequestCashClose
  <2>9. CASE \/ IncludeManualItem(d) \/ ApplyEdit(d) \/ AuthorizeItemCancel(d)
             \/ ConfirmPayment(d) \/ OpenCash(d) \/ CloseCash(d)
             \/ ConfirmPaymentFails(d) \/ CancelLastSale(d)
    <3>1. UNCHANGED conta /\ dialogos' \in {dialogos, dialogos \ {d}}
      BY <2>9 DEF IncludeManualItem, ApplyEdit, AuthorizeItemCancel,
           ConfirmPayment, OpenCash, CloseCash, ConfirmPaymentFails,
           CancelLastSale
    <3> QED
      BY <1>a, <1>b, <2>1, <3>1
  <2> QED
    BY <1>4, <2>2, <2>3, <2>4, <2>5, <2>6, <2>7, <2>8, <2>9 DEF NoDialogo
<1>5. CASE UNCHANGED vars
  BY <1>a, <1>b, <1>5 DEF vars
<1>6. ASSUME NEW d \in dialogos, ConfirmLogout(d)
      PROVE  \E ds \in SUBSET dialogos : ClearSessionViews(ds)
  BY <1>6 DEF ConfirmLogout
<1> QED
  BY <1>1, <1>2, <1>3, <1>4, <1>5, <1>6 DEF Next
(* The grab stays with a dialog that is still there.                       *)
FocoOK == foco = 0 \/ \E d \in dialogos : d.id = foco

LEMMA ProdutoConserva ==
    ASSUME NEW r, NEW c, NEW lida, NEW ficha, NEW ds,
           AddProduct(r, c, lida, ficha, ds)
    PROVE  ds \subseteq dialogos'
  BY DEF AddProduct, Abertos

LEMMA FocoMantido ==
    ASSUME TypeOK, [Next]_vars PROVE FocoOK'
<1>0. FocoOK /\ \A d \in dialogos : DialogoOK(d)
  BY DEF TypeOK, FocoOK
<1>a. ASSUME foco' = foco, dialogos \subseteq dialogos' PROVE FocoOK'
  BY <1>0, <1>a DEF FocoOK
<1>b. ASSUME NEW ids, foco' = SemFoco(ids),
             {e \in dialogos : e.id \notin ids} \subseteq dialogos'
      PROVE  FocoOK'
  BY <1>0, <1>b DEF FocoOK, SemFoco
<1>c. ASSUME NEW d \in dialogos, foco' = SemFoco({d.id}),
             dialogos \ {d} \subseteq dialogos'
      PROVE  FocoOK'
  BY <1>b, <1>c
<1>1. CASE Leitor
  <2>1. ASSUME NEW r \in Produto, PollScanResults(r) PROVE FocoOK'
    <3>1. foco' = foco
      BY <2>1 DEF PollScanResults
    <3>2. dialogos \subseteq dialogos'
      BY <2>1, ProdutoConserva DEF PollScanResults, Dispatch, Abertos
    <3> QED
      BY <1>a, <3>1, <3>2
  <2> QED
    BY <1>1, <1>a, <2>1 DEF Leitor, HandleGtin, Resume, LookUp
<1>2. CASE Compra
  <2>1. ASSUME NEW c \in Codigos, NEW r \in Produto, QuickProduct(c, r)
        PROVE  FocoOK'
    BY <1>a, <2>1, ProdutoConserva DEF QuickProduct
  <2> QED
    BY <1>2, <1>a, <2>1 DEF Compra, ShortcutSearch, ShortcutManualItem,
       ShortcutEdit, ShortcutCancel, ShortcutPayment,
       RequestLastSaleCancellation, Mostra, Abertos
<1>3. ASSUME NEW ds \in SUBSET dialogos, ClearSessionViews(ds) PROVE FocoOK'
  BY <1>3 DEF ClearSessionViews, FocoOK
<1>4. CASE Telas
  BY <1>4, <1>a, <1>3 DEF Telas, OpenCashActions, ShowSale, RequestLogout,
     ShowAdmin, BackToSale, Mostra, Abertos
<1>5. ASSUME NEW d \in dialogos, NoDialogo(d) PROVE FocoOK'
  <2>1. CASE FinishOpen(d)
    <3>1. [d EXCEPT !.novo = FALSE].id = d.id
      BY <1>0 DEF DialogoOK
    <3> QED
      BY <2>1, <3>1 DEF FinishOpen, FocoOK
  <2>2. ASSUME NEW r \in Produto, SubmitItem(d, r) PROVE FocoOK'
    <3>1. CASE /\ AddProduct(r, d.ref.codigo, {}, {d.ref.geracao}, dialogos \ {d})
               /\ foco' = SemFoco({d.id})
      BY <1>c, <3>1, ProdutoConserva
    <3>2. CASE foco' = foco /\ dialogos \subseteq dialogos'
      BY <1>a, <3>2
    <3> QED
      BY <2>2, <3>1, <3>2 DEF SubmitItem, Mostra, Abertos
  <2>3. ASSUME NEW r \in Produto, Approve(d, r) PROVE FocoOK'
    BY <1>b, <2>3, ProdutoConserva DEF Approve
  <2>4. ASSUME NEW c \in Codigos, NEW r \in Produto, SelectProduct(d, c, r)
        PROVE  FocoOK'
    BY <1>c, <2>4, ProdutoConserva DEF SelectProduct
  <2>5. CASE ConfirmPaymentFails(d)
    BY <1>a, <2>5 DEF ConfirmPaymentFails
  <2>6. CASE ConfirmLogout(d)
    BY <1>3, <2>6 DEF ConfirmLogout
  <2>7. CASE \/ Cancel(d) \/ IncludeManualItem(d) \/ ApplyEdit(d)
             \/ AuthorizeItemCancel(d) \/ AuthorizeSale(d) \/ ConfirmPayment(d)
             \/ OpenCash(d) \/ SelectMovement(d) \/ RequestCashClose(d)
             \/ CloseCash(d) \/ CancelLastSale(d)
    <3>1. foco' = SemFoco({d.id})
      BY <2>7 DEF Cancel, IncludeManualItem, ApplyEdit, AuthorizeItemCancel,
         AuthorizeSale, ConfirmPayment, OpenCash, SelectMovement,
         RequestCashClose, CloseCash, CancelLastSale
    <3>2. dialogos \ {d} \subseteq dialogos'
      BY <2>7 DEF Cancel, IncludeManualItem, ApplyEdit, AuthorizeItemCancel,
         AuthorizeSale, ConfirmPayment, OpenCash, SelectMovement,
         RequestCashClose, CloseCash, CancelLastSale, Abertos
    <3> QED
      BY <1>c, <3>1, <3>2
  <2> QED
    BY <1>5, <2>1, <2>2, <2>3, <2>4, <2>5, <2>6, <2>7 DEF NoDialogo
<1>6. CASE UNCHANGED vars
  BY <1>a, <1>6 DEF vars
<1> QED
  BY <1>1, <1>2, <1>4, <1>5, <1>6 DEF Next

-----------------------------------------------------------------------------
(* The reader.                                                             *)

LeitorT ==
    /\ fila \in FilaT /\ inflight \in Bilhete \cup {Nenhum}
    /\ lendo \subseteq Bilhete /\ respostas \in Seq(Bilhete)

LEMMA FilaMantida ==
    ASSUME NEW f \in FilaT
    PROVE  /\ \A c \in Codigos : f.sequencia < MaxLeituras =>
                 /\ Enqueue(f, c) \in FilaT
                 /\ Enqueue(f, c).geracao = f.geracao
                 /\ Enqueue(f, c).ativo = f.ativo
                 /\ Enqueue(f, c).pendentes = Append(f.pendentes,
                       [sequencia |-> f.sequencia + 1, codigo |-> c,
                        geracao |-> f.geracao])
           /\ f.pendentes # <<>> =>
                 /\ TakeNext(f) \in FilaT
                 /\ TakeNext(f).geracao = f.geracao
                 /\ TakeNext(f).ativo = Head(f.pendentes)
                 /\ TakeNext(f).pendentes = Tail(f.pendentes)
                 /\ Head(f.pendentes) \in Bilhete
           /\ \A t : /\ Finish(f, t) \in FilaT
                     /\ Finish(f, t).geracao = f.geracao
                     /\ Finish(f, t).pendentes = f.pendentes
                     /\ Finish(f, t).ativo = IF f.ativo = t THEN Nenhum ELSE f.ativo
           /\ AdvanceGeneration(f) \in FilaT
           /\ AdvanceGeneration(f).geracao = f.geracao + 1
           /\ AdvanceGeneration(f).ativo = Nenhum
           /\ AdvanceGeneration(f).pendentes = <<>>
<1>1. ASSUME NEW c \in Codigos, f.sequencia < MaxLeituras
      PROVE  [sequencia |-> f.sequencia + 1, codigo |-> c,
              geracao |-> f.geracao] \in Bilhete /\ f.sequencia + 1 \in 0..MaxLeituras
  BY <1>1, LimitesNaturais DEF FilaT, Bilhete
<1>2. ASSUME NEW c \in Codigos, f.sequencia < MaxLeituras
      PROVE  /\ Enqueue(f, c) \in FilaT
             /\ Enqueue(f, c).geracao = f.geracao
             /\ Enqueue(f, c).ativo = f.ativo
             /\ Enqueue(f, c).pendentes = Append(f.pendentes,
                       [sequencia |-> f.sequencia + 1, codigo |-> c,
                        geracao |-> f.geracao])
  <2> DEFINE b == [sequencia |-> f.sequencia + 1, codigo |-> c,
                   geracao |-> f.geracao]
             p == Append(f.pendentes, b)
  <2>1. f.sequencia + 1 \in 0..MaxLeituras /\ p \in Seq(Bilhete)
    BY <1>1, <1>2 DEF FilaT
  <2>2. Enqueue(f, c) = [f EXCEPT !.sequencia = f.sequencia + 1, !.pendentes = p]
    BY DEF Enqueue, FilaT
  <2> HIDE DEF p
  <2>3. /\ Enqueue(f, c) \in FilaT
        /\ Enqueue(f, c).geracao = f.geracao
        /\ Enqueue(f, c).ativo = f.ativo
        /\ Enqueue(f, c).pendentes = p
    BY <2>1, <2>2 DEF FilaT
  <2> QED
    BY <2>3 DEF p
<1>3. ASSUME f.pendentes # <<>>
      PROVE  /\ TakeNext(f) \in FilaT
             /\ TakeNext(f).geracao = f.geracao
             /\ TakeNext(f).ativo = Head(f.pendentes)
             /\ TakeNext(f).pendentes = Tail(f.pendentes)
             /\ Head(f.pendentes) \in Bilhete
  <2>1. f.pendentes \in Seq(Bilhete)
    BY DEF FilaT
  <2>2. Head(f.pendentes) \in Bilhete /\ Tail(f.pendentes) \in Seq(Bilhete)
    BY <1>3, <2>1
  <2> QED
    BY <2>2 DEF FilaT, TakeNext
<1>4. ASSUME NEW t
      PROVE  /\ Finish(f, t) \in FilaT
             /\ Finish(f, t).geracao = f.geracao
             /\ Finish(f, t).pendentes = f.pendentes
             /\ Finish(f, t).ativo = IF f.ativo = t THEN Nenhum ELSE f.ativo
  BY DEF FilaT, Finish
<1>5. /\ AdvanceGeneration(f) \in FilaT
      /\ AdvanceGeneration(f).geracao = f.geracao + 1
      /\ AdvanceGeneration(f).ativo = Nenhum
      /\ AdvanceGeneration(f).pendentes = <<>>
  <2>1. <<>> \in Seq(Bilhete) /\ f.geracao + 1 \in Nat
    BY DEF FilaT
  <2>2. AdvanceGeneration(f) = [f EXCEPT !.geracao = f.geracao + 1,
                                         !.pendentes = <<>>, !.ativo = Nenhum]
    BY DEF AdvanceGeneration, FilaT
  <2> QED
    BY <2>1, <2>2 DEF FilaT
<1> QED
  BY <1>2, <1>3, <1>4, <1>5
DaGeracao(f) == \A i \in 1..Len(f.pendentes) : f.pendentes[i].geracao = f.geracao

(* Starting the next look-up keeps the screen and its queue in agreement.  *)
LEMMA InicioCoerente ==
    ASSUME LeitorT, FilaCoerente, NEW a, NEW f \in FilaT, StartNextScan(f, a),
           f.ativo = fila.ativo, f.geracao = fila.geracao, DaGeracao(f),
           respostas' = respostas
    PROVE  LeitorT' /\ FilaCoerente'
<1>1. CASE fila' = f /\ UNCHANGED <<inflight, lendo>>
  BY <1>1 DEF LeitorT, FilaCoerente, ACaminho, DaGeracao
<1>2. CASE /\ f.pendentes # <<>> /\ fila' = TakeNext(f)
           /\ inflight' = Head(f.pendentes)
           /\ lendo' = lendo \cup {Head(f.pendentes)}
  <2> DEFINE p == f.pendentes
  <2>1. /\ p \in Seq(Bilhete) /\ Head(p) = p[1] /\ Head(p) \in Bilhete
        /\ 1 \in 1..Len(p)
        /\ \A i \in 1..Len(Tail(p)) : i + 1 \in 1..Len(p) /\ Tail(p)[i] = p[i + 1]
    BY <1>2 DEF FilaT
  <2>2. /\ fila' \in FilaT /\ fila'.geracao = f.geracao
        /\ fila'.ativo = Head(p) /\ fila'.pendentes = Tail(p)
    BY <1>2, FilaMantida
  <2>3. Head(p).geracao = f.geracao
    BY <2>1 DEF DaGeracao
  <2>4. \A i \in 1..Len(Tail(p)) : Tail(p)[i].geracao = f.geracao
    BY <2>1 DEF DaGeracao
  <2> HIDE DEF p
  <2>5. inflight' = Head(p) /\ lendo' = lendo \cup {Head(p)}
    BY <1>2 DEF p
  <2>6. LeitorT'
    BY <2>1, <2>2, <2>5 DEF LeitorT
  <2>7. FilaCoerente'
    BY <2>2, <2>3, <2>4, <2>5 DEF FilaCoerente, ACaminho
  <2> QED
    BY <2>6, <2>7
<1>3. inflight = Nenhum /\ f.ativo = Nenhum => (HasPending(f) => f.pendentes # <<>>)
  BY DEF HasPending
<1> QED
  BY <1>1, <1>2, <1>3 DEF StartNextScan

(* The reader keeps its types and the screen its agreement with the queue. *)
LEMMA LeitorMantido ==
    ASSUME LeitorT, FilaCoerente, [Next]_vars PROVE LeitorT' /\ FilaCoerente'
<1>0. DaGeracao(fila) /\ fila \in FilaT
  BY DEF FilaCoerente, DaGeracao, LeitorT
<1>1. ASSUME NEW c \in Codigos, HandleGtin(c) PROVE LeitorT' /\ FilaCoerente'
  <2> DEFINE f == Enqueue(fila, c)
             b == [sequencia |-> fila.sequencia + 1, codigo |-> c,
                   geracao |-> fila.geracao]
             p == fila.pendentes
  <2>1. /\ f \in FilaT /\ f.geracao = fila.geracao /\ f.ativo = fila.ativo
        /\ f.pendentes = Append(p, b)
    BY <1>0, <1>1, FilaMantida DEF HandleGtin
  <2>2. b.geracao = fila.geracao
    OBVIOUS
  <2>3. p \in Seq(Bilhete)
    BY <1>0 DEF FilaT
  <2>4. StartNextScan(f, agendado) /\ respostas' = respostas
    BY <1>1 DEF HandleGtin
  <2> HIDE DEF f, b, p
  <2>5. /\ Len(Append(p, b)) = Len(p) + 1 /\ Len(p) \in Nat
        /\ Append(p, b)[Len(p) + 1] = b
        /\ \A i \in 1..Len(p) : Append(p, b)[i] = p[i]
    BY <2>3
  <2>6. \A i \in 1..Len(p) : p[i].geracao = fila.geracao
    BY <1>0 DEF DaGeracao, p
  <2>7. \A i \in 1..(Len(p) + 1) : i \in 1..Len(p) \/ i = Len(p) + 1
    BY <2>5
  <2>8. DaGeracao(f)
    BY <2>1, <2>2, <2>5, <2>6, <2>7 DEF DaGeracao
  <2> QED
    BY <2>1, <2>4, <2>8, InicioCoerente
<1>2. CASE Resume
  BY <1>0, <1>2, InicioCoerente DEF Resume
<1>3. ASSUME NEW t \in lendo, LookUp(t) PROVE LeitorT' /\ FilaCoerente'
  <2> DEFINE r == Append(respostas, t)
  <2>1. respostas \in Seq(Bilhete) /\ t \in Bilhete
    BY DEF LeitorT
  <2>2. /\ r \in Seq(Bilhete) /\ Len(r) = Len(respostas) + 1
        /\ Len(respostas) \in Nat /\ r[Len(respostas) + 1] = t
        /\ \A i \in 1..Len(respostas) : r[i] = respostas[i]
    BY <2>1
  <2> HIDE DEF r
  <2>3. /\ lendo' = lendo \ {t} /\ respostas' = r
        /\ UNCHANGED <<fila, inflight>>
    BY <1>3 DEF LookUp, r
  <2>4. /\ Len(respostas) + 1 \in 1..Len(r)
        /\ \A i \in 1..Len(respostas) : i \in 1..Len(r)
    BY <2>2
  <2>5. ACaminho \subseteq ACaminho'
    BY <2>2, <2>3, <2>4 DEF ACaminho
  <2> QED
    BY <2>2, <2>3, <2>5 DEF LeitorT, FilaCoerente
<1>4. ASSUME NEW r \in Produto, PollScanResults(r) PROVE LeitorT' /\ FilaCoerente'
  <2> DEFINE t == Head(respostas)
             p == Tail(respostas)
  <2>1. /\ respostas \in Seq(Bilhete) /\ respostas # <<>>
        /\ lendo' = lendo /\ respostas' = p /\ fila' = Finish(fila, t)
    BY <1>4 DEF PollScanResults, LeitorT
  <2>2. /\ p \in Seq(Bilhete) /\ t = respostas[1]
        /\ Len(p) = Len(respostas) - 1 /\ Len(p) \in Nat
        /\ \A i \in 1..Len(respostas) :
              i = 1 \/ (i - 1 \in 1..Len(p) /\ p[i - 1] = respostas[i])
    BY <2>1
  <2>3. /\ fila' \in FilaT /\ fila'.geracao = fila.geracao
        /\ fila'.pendentes = fila.pendentes
        /\ fila'.ativo = IF fila.ativo = t THEN Nenhum ELSE fila.ativo
    BY <1>0, <2>1, FilaMantida
  <2>4. \/ ~Valida(fila, t) /\ inflight' = inflight
        \/ Valida(fila, t) /\ inflight' = Nenhum
    BY <1>4 DEF PollScanResults
  <2> HIDE DEF t, p
  <2>5. LeitorT'
    BY <2>1, <2>2, <2>3, <2>4 DEF LeitorT
  <2>6. inflight' # Nenhum => inflight' = inflight /\ inflight # t
    BY <2>4 DEF Valida, FilaCoerente
  <2>7. inflight' = fila'.ativo
    BY <2>3, <2>4 DEF Valida, FilaCoerente
  <2>8. \A x \in ACaminho : x # t => x \in ACaminho'
    <3> SUFFICES ASSUME NEW i \in 1..Len(respostas), respostas[i] # t
                 PROVE  \E j \in 1..Len(p) : respostas[i] = p[j]
      BY <2>1 DEF ACaminho
    <3>1. i - 1 \in 1..Len(p) /\ p[i - 1] = respostas[i]
      BY <2>2
    <3> QED
      BY <3>1
  <2> QED
    BY <2>3, <2>5, <2>6, <2>7, <2>8 DEF FilaCoerente
<1>5. ASSUME NEW d \in dialogos, ConfirmPayment(d) PROVE LeitorT' /\ FilaCoerente'
  <2>1. /\ fila' = AdvanceGeneration(fila) /\ inflight' = Nenhum
        /\ lendo' = lendo /\ respostas' = respostas
    BY <1>5 DEF ConfirmPayment
  <2>2. fila' \in FilaT /\ fila'.ativo = Nenhum /\ fila'.pendentes = <<>>
    BY <1>0, <2>1, FilaMantida
  <2>3. LeitorT'
    BY <2>1, <2>2 DEF LeitorT
  <2>4. FilaCoerente'
    BY <2>1, <2>2 DEF FilaCoerente
  <2> QED
    BY <2>3, <2>4
<1>6. CASE LeitorNovo
  <2>1. fila' \in FilaT /\ fila'.ativo = Nenhum /\ fila'.pendentes = <<>>
    <3>1. <<>> \in Seq(Bilhete) /\ 0 \in 0..MaxLeituras
      BY LimitesNaturais
    <3> QED
      BY <1>6, <3>1 DEF LeitorNovo, FilaNova, FilaT
  <2> QED
    BY <1>6, <2>1 DEF LeitorNovo, LeitorT, FilaCoerente
<1>7. CASE UNCHANGED <<fila, inflight, lendo, respostas>>
  BY <1>7 DEF LeitorT, FilaCoerente, ACaminho
<1> QED
  BY <1>1, <1>2, <1>3, <1>4, <1>5, <1>6, <1>7, EfeitoNoLeitor
-----------------------------------------------------------------------------
(* The cart.                                                               *)

CompraT == carrinho \subseteq Linha /\ linhas \in 0..MaxLinhas

LidasEm(ls, gs) == \A l \in ls : l.lidas \subseteq gs

LEMMA LinhaMantida ==
    ASSUME CompraT, NEW c \in Codigos \cup {Nenhum}, NEW lida \in SUBSET Nat,
           NEW ficha \in SUBSET Nat, LinhaIncluida(c, lida, ficha),
           NEW gs, LidasEm(carrinho, gs), lida \subseteq gs
    PROVE  CompraT' /\ LidasEm(carrinho', gs)
<1>1. CASE \E l \in carrinho : Igual(l, c)
  <2> DEFINE l == CHOOSE x \in carrinho : Igual(x, c)
             n == [l EXCEPT !.lidas = @ \cup lida, !.fichas = @ \cup ficha]
  <2>1. l \in carrinho
    BY <1>1
  <2>2. carrinho' = (carrinho \ {l}) \cup {n} /\ linhas' = linhas
    BY <1>1 DEF LinhaIncluida
  <2>3. l \in Linha
    BY <2>1 DEF CompraT
  <2> HIDE DEF l
  <2>4. n \in Linha /\ n.lidas = l.lidas \cup lida
    BY <2>3 DEF Linha
  <2> HIDE DEF n
  <2> QED
    BY <2>1, <2>2, <2>4 DEF CompraT, LidasEm
<1>2. CASE ~ \E l \in carrinho : Igual(l, c)
  <2> DEFINE n == [chave |-> linhas + 1, codigo |-> c, alterado |-> FALSE,
                   lidas |-> lida, fichas |-> ficha]
  <2>1. /\ linhas < MaxLinhas /\ linhas' = linhas + 1
        /\ carrinho' = carrinho \cup {n}
    BY <1>2 DEF LinhaIncluida
  <2>2. linhas + 1 \in 1..MaxLinhas /\ linhas' \in 0..MaxLinhas
    BY <2>1, LimitesNaturais DEF CompraT
  <2>3. n \in Linha /\ n.lidas = lida
    BY <2>2 DEF Linha
  <2> HIDE DEF n
  <2> QED
    BY <2>1, <2>2, <2>3 DEF CompraT, LidasEm
<1> QED
  BY <1>1, <1>2

LEMMA AddProductMantido ==
    ASSUME CompraT, NEW r, NEW c \in Codigos \cup {Nenhum},
           NEW lida \in SUBSET Nat, NEW ficha \in SUBSET Nat, NEW ds,
           AddProduct(r, c, lida, ficha, ds),
           NEW gs, LidasEm(carrinho, gs), lida \subseteq gs
    PROVE  CompraT' /\ LidasEm(carrinho', gs)
  BY LinhaMantida DEF AddProduct, compra, CompraT

(* The cart keeps its type, and no reading of an earlier sale enters it.   *)
LEMMA CarrinhoMantido ==
    ASSUME LeitorT, CompraT, LeituraDaVenda, \A d \in dialogos : DialogoOK(d),
           [Next]_vars
    PROVE  CompraT' /\ LeituraDaVenda'
<1>0. LeituraDaVenda <=> LidasEm(carrinho, {fila.geracao})
  BY DEF LeituraDaVenda, LidasEm
<1>a. ASSUME fila'.geracao = fila.geracao, CompraT',
             LidasEm(carrinho', {fila.geracao})
      PROVE  CompraT' /\ LeituraDaVenda'
  BY <1>a DEF LeituraDaVenda, LidasEm
<1>1. CASE UNCHANGED <<carrinho, linhas>>
  <2>1. CASE carrinho = {}
    BY <1>1, <2>1 DEF CompraT, LeituraDaVenda
  <2>2. fila'.geracao = fila.geracao \/ carrinho' = {}
    <3>1. ASSUME NEW f \in FilaT, NEW a, StartNextScan(f, a)
          PROVE  fila'.geracao = f.geracao
      <4>1. CASE fila' = f
        BY <4>1
      <4>2. CASE HasPending(f) /\ f.ativo = Nenhum /\ fila' = TakeNext(f)
        <5>1. f.pendentes # <<>>
          BY <4>2 DEF HasPending
        <5> QED
          BY <4>2, <5>1, FilaMantida
      <4> QED
        BY <3>1, <4>1, <4>2 DEF StartNextScan
    <3>2. fila \in FilaT
      BY DEF LeitorT
    <3>3. ASSUME NEW c \in Codigos, HandleGtin(c)
          PROVE  fila'.geracao = fila.geracao
      <4>1. /\ Enqueue(fila, c) \in FilaT
            /\ Enqueue(fila, c).geracao = fila.geracao
        BY <3>2, <3>3, FilaMantida DEF HandleGtin
      <4> QED
        BY <3>1, <3>3, <4>1 DEF HandleGtin
    <3>4. ASSUME Resume PROVE fila'.geracao = fila.geracao
      BY <3>1, <3>2, <3>4 DEF Resume
    <3>5. ASSUME NEW r \in Produto, PollScanResults(r)
          PROVE  fila'.geracao = fila.geracao
      BY <3>2, <3>5, FilaMantida DEF PollScanResults
    <3>6. ASSUME NEW d \in dialogos, ConfirmPayment(d) PROVE carrinho' = {}
      BY <3>6 DEF ConfirmPayment
    <3>7. ASSUME NEW t \in lendo, LookUp(t) PROVE fila' = fila
      BY <3>7 DEF LookUp
    <3>8. ASSUME LeitorNovo PROVE fila'.geracao = fila.geracao \/ carrinho' = {}
      <4>1. ASSUME Telas PROVE fila' = fila \/ carrinho' = {}
        BY <3>8, <4>1 DEF Telas, OpenCashActions, ShowSale, RequestLogout,
           ShowAdmin, BackToSale, ClearSessionViews, leitor
      <4>2. ASSUME NEW d \in dialogos, NoDialogo(d)
            PROVE  fila' = fila \/ carrinho' = {}
        BY <3>8, <4>2, <3>6 DEF NoDialogo, FinishOpen, Cancel, SubmitItem,
           Approve, SelectProduct, IncludeManualItem, ApplyEdit,
           AuthorizeItemCancel, AuthorizeSale, ConfirmPaymentFails, OpenCash,
           SelectMovement, RequestCashClose, CloseCash, CancelLastSale, ConfirmLogout,
           ClearSessionViews, leitor
      <4>3. ASSUME Compra \/ UNCHANGED vars PROVE fila' = fila
        BY <4>3 DEF Compra, QuickProduct, ShortcutSearch, ShortcutManualItem,
           ShortcutEdit, ShortcutCancel, ShortcutPayment,
           RequestLastSaleCancellation, leitor, vars
      <4>4. ASSUME Leitor PROVE fila'.geracao = fila.geracao
        BY <3>3, <3>4, <3>5, <3>7, <4>4 DEF Leitor
      <4> QED
        BY <3>8, <4>1, <4>2, <4>3, <4>4 DEF Next
    <3> QED
      BY <3>3, <3>4, <3>5, <3>6, <3>7, <3>8, EfeitoNoLeitor
  <2> QED
    BY <1>1, <2>2 DEF CompraT, LeituraDaVenda
<1>2. CASE /\ fila' = fila
           /\ \/ \E ds \in SUBSET dialogos : Inclusao(ds)
              \/ \E d \in dialogos : IncludeManualItem(d) \/ ApplyEdit(d)
              \/ \E k : RemoveLine(k)
  <2>1. ASSUME NEW ds \in SUBSET dialogos, Inclusao(ds)
        PROVE  CompraT' /\ LidasEm(carrinho', {fila.geracao})
    BY <1>0, <2>1, AddProductMantido DEF Inclusao
  <2>2. ASSUME NEW d \in dialogos, IncludeManualItem(d)
        PROVE  CompraT' /\ LidasEm(carrinho', {fila.geracao})
    <3> DEFINE n == [chave |-> linhas + 1, codigo |-> Nenhum, alterado |-> TRUE,
                     lidas |-> {}, fichas |-> {}]
    <3>1. /\ linhas < MaxLinhas /\ linhas' = linhas + 1
          /\ carrinho' = carrinho \cup {n}
      BY <2>2 DEF IncludeManualItem
    <3>2. linhas + 1 \in 1..MaxLinhas /\ linhas' \in 0..MaxLinhas
      BY <3>1, LimitesNaturais DEF CompraT
    <3>3. n \in Linha /\ n.lidas = {}
      BY <3>2 DEF Linha
    <3> HIDE DEF n
    <3> QED
      BY <1>0, <3>1, <3>2, <3>3 DEF CompraT, LidasEm
  <2>3. ASSUME NEW d \in dialogos, ApplyEdit(d)
        PROVE  CompraT' /\ LidasEm(carrinho', {fila.geracao})
    <3> DEFINE n(l) == IF l.chave = d.ref.linha
                       THEN [l EXCEPT !.alterado = TRUE] ELSE l
    <3>1. carrinho' = {n(l) : l \in carrinho} /\ linhas' = linhas
      BY <2>3 DEF ApplyEdit
    <3>2. \A l \in Linha : n(l) \in Linha /\ n(l).lidas = l.lidas
      BY DEF Linha
    <3> HIDE DEF n
    <3> QED
      BY <1>0, <3>1, <3>2 DEF CompraT, LidasEm
  <2>4. ASSUME NEW k, RemoveLine(k)
        PROVE  CompraT' /\ LidasEm(carrinho', {fila.geracao})
    BY <1>0, <2>4 DEF RemoveLine, CompraT, LidasEm
  <2> QED
    BY <1>2, <1>a, <2>1, <2>2, <2>3, <2>4
<1>3. ASSUME NEW r \in Produto, PollScanResults(r)
      PROVE  CompraT' /\ LeituraDaVenda'
  <2> DEFINE t == Head(respostas)
  <2>1. t \in Bilhete /\ fila \in FilaT
    BY <1>3 DEF PollScanResults, LeitorT
  <2>2. fila'.geracao = fila.geracao
    BY <1>3, <2>1, FilaMantida DEF PollScanResults
  <2>3. \/ UNCHANGED compra
        \/ Valida(fila, t) /\ Dispatch(t, r)
    BY <1>3 DEF PollScanResults
  <2> HIDE DEF t
  <2>4. CASE UNCHANGED compra
    BY <1>0, <1>a, <2>2, <2>4 DEF compra, CompraT
  <2>5. CASE Valida(fila, t) /\ AddProduct(r, t.codigo, {t.geracao}, {}, dialogos)
    <3>1. /\ t.codigo \in Codigos \cup {Nenhum} /\ {t.geracao} \in SUBSET Nat
          /\ {t.geracao} \subseteq {fila.geracao}
      BY <2>1, <2>5 DEF Bilhete, Valida
    <3>2. CompraT' /\ LidasEm(carrinho', {fila.geracao})
      BY <1>0, <2>5, <3>1, AddProductMantido
    <3> QED
      BY <1>a, <2>2, <3>2
  <2> QED
    BY <2>3, <2>4, <2>5 DEF Dispatch
<1>4. ASSUME NEW d \in dialogos, ConfirmPayment(d)
      PROVE  CompraT' /\ LeituraDaVenda'
  BY <1>4 DEF ConfirmPayment, CompraT, LeituraDaVenda
<1>5. CASE carrinho' = {} /\ linhas' = 0
  BY <1>5, LimitesNaturais DEF CompraT, LeituraDaVenda
<1> QED
  BY <1>1, <1>2, <1>3, <1>4, <1>5, EfeitoNoCarrinho
-----------------------------------------------------------------------------
(* Sessions, dialogs and sales.                                            *)

ContaT ==
    /\ sessao \in 0..MaxSessoes /\ tela \in {"venda", "admin", "fora"}
    /\ Viva => sessao # 0
    /\ admin \in BOOLEAN /\ caixa \in BOOLEAN
ControlesT == ocupado \in BOOLEAN /\ agendado \in BOOLEAN /\ chaves \in 0..MaxVendas
DialogosT == \A d \in dialogos : DialogoOK(d)
VendasT == vendas \subseteq Venda
RecenteT ==
    /\ ultima \in [venda: 0..MaxVendas, cancelada: BOOLEAN]
    /\ canceladas \subseteq 0..MaxVendas

LEMMA Partes ==
    TypeOK <=> /\ ContaT /\ CompraT /\ LeitorT /\ ControlesT /\ VendasT
               /\ RecenteT /\ DialogosT /\ FocoOK
  BY DEF TypeOK, ContaT, CompraT, LeitorT, ControlesT, VendasT, RecenteT,
     DialogosT, FocoOK

LEMMA ContaMantida ==
    ASSUME ContaT, ControlesT, [Next]_vars PROVE ContaT' /\ ControlesT'
<1> USE DEF ContaT, ControlesT, Viva
<1>0. MaxVendas \in Nat /\ MaxSessoes \in Nat
  BY LimitesNaturais
<1>1. CASE Leitor
  BY <1>1 DEF Leitor, HandleGtin, Resume, LookUp, PollScanResults,
       StartNextScan, HasPending, conta, loja
<1>2. ASSUME NEW e \in BOOLEAN, ShortcutPayment(e) PROVE ContaT' /\ ControlesT'
  BY <1>0, <1>2 DEF ShortcutPayment, conta, leitor
<1>3. CASE Compra
  BY <1>2, <1>3 DEF Compra, QuickProduct, ShortcutSearch, ShortcutManualItem,
       ShortcutEdit, ShortcutCancel, RequestLastSaleCancellation, conta, loja,
       leitor
<1>4. ASSUME NEW ds, ClearSessionViews(ds) PROVE ContaT' /\ ControlesT'
  BY <1>4 DEF ClearSessionViews
<1>5. ASSUME NEW a \in BOOLEAN, NEW c \in BOOLEAN, NEW retoma \in BOOLEAN,
             ShowSale(a, c, retoma)
      PROVE  ContaT' /\ ControlesT'
  BY <1>0, <1>5 DEF ShowSale, leitor
<1>6. CASE Telas
  BY <1>4, <1>5, <1>6 DEF Telas, OpenCashActions, RequestLogout, ShowAdmin,
       BackToSale, conta, loja, leitor
<1>7. ASSUME NEW d \in dialogos, NoDialogo(d) PROVE ContaT' /\ ControlesT'
  <2>1. CASE ConfirmLogout(d)
    BY <1>4, <2>1 DEF ConfirmLogout
  <2> QED
    BY <1>7, <2>1 DEF NoDialogo, FinishOpen, Cancel, SubmitItem, Approve,
       SelectProduct, IncludeManualItem, ApplyEdit, AuthorizeItemCancel,
       AuthorizeSale, ConfirmPayment, ConfirmPaymentFails, OpenCash,
       SelectMovement, RequestCashClose, CloseCash, CancelLastSale, conta, loja,
       leitor
<1>8. CASE UNCHANGED vars
  BY <1>8 DEF vars, conta, loja, leitor
<1> QED
  BY <1>1, <1>3, <1>6, <1>7, <1>8 DEF Next

(* Dialogs keep their shape and belong to the session.                     *)
LEMMA DialogosMantidos ==
    ASSUME TypeOK, DialogoDaSessao, [Next]_vars
    PROVE  DialogosT' /\ DialogoDaSessao'
<1>0. DialogosT
  BY DEF TypeOK, DialogosT
<1>1. CASE sessao' = sessao /\ (Viva' <=> Viva) /\ Mantem(dialogos')
  BY <1>1 DEF Mantem, Herdado, Mesmo, Bom, DialogosT, DialogoOK, DialogoDaSessao
<1>2. ASSUME NEW a \in BOOLEAN, NEW c \in BOOLEAN, NEW retoma \in BOOLEAN,
             ShowSale(a, c, retoma)
      PROVE  DialogosT' /\ DialogoDaSessao'
  <2> DEFINE n == [Novo(dialogos, "retoma", Sem) EXCEPT !.sessao = sessao']
  <2>1. /\ DOMAIN n = {"id", "tipo", "ref", "novo", "sessao"}
        /\ n.tipo = "retoma" /\ n.ref = Sem /\ n.sessao = sessao'
    BY DEF Novo
  <2>2. DialogoOK(n)
    BY <2>1 DEF DialogoOK, Tipos, Sem
  <2> HIDE DEF n
  <2>3. dialogos' = dialogos \/ dialogos' = dialogos \cup {n}
    BY <1>2 DEF ShowSale, n
  <2>4. \A d \in dialogos : d.tipo = "sair"
    BY <1>2 DEF ShowSale, DialogoDaSessao, Viva
  <2>5. Viva'
    BY <1>2 DEF ShowSale, Viva
  <2> QED
    BY <1>0, <2>1, <2>2, <2>3, <2>4, <2>5 DEF DialogosT, DialogoOK, DialogoDaSessao
<1>3. ASSUME NEW ds \in SUBSET dialogos, ClearSessionViews(ds)
      PROVE  DialogosT' /\ DialogoDaSessao'
  BY <1>0, <1>3 DEF ClearSessionViews, DaTela, DialogosT, DialogoOK, DialogoDaSessao
<1> QED
  BY <1>1, <1>2, <1>3, EfeitoNosDialogos

(* One sale for each key, and the key is the one of the opening.           *)
Registradas ==
    /\ \A v \in vendas : v.chave = v.pedido
    /\ \A v, w \in vendas : v.chave = w.chave => v = w

LEMMA VendasMantidas ==
    ASSUME TypeOK, DialogoDaSessao, Registradas, [Next]_vars
    PROVE  VendasT' /\ Registradas'
<1>1. CASE vendas' = vendas
  BY <1>1 DEF TypeOK, VendasT, Registradas
<1>2. ASSUME NEW d \in dialogos, d.tipo = "pagamento", FinalizeSale(d)
      PROVE  VendasT' /\ Registradas'
  <2> DEFINE n == [chave |-> d.ref.chave, pedido |-> d.ref.chave,
                   sessao |-> sessao, itens |-> d.ref.itens]
  <2>1. /\ d.ref.chave \in 1..MaxVendas /\ d.ref.itens \subseteq 1..MaxLinhas
        /\ sessao \in 1..MaxSessoes
    <3>1. DialogoOK(d) /\ Viva
      BY <1>2 DEF TypeOK, DialogoDaSessao
    <3> QED
      BY <1>2, <3>1, LimitesNaturais DEF DialogoOK, TypeOK
  <2>2. n \in Venda /\ n.chave = n.pedido /\ n.chave = d.ref.chave
    BY <2>1, LimitesNaturais DEF Venda
  <2>3. \/ vendas' = vendas
        \/ /\ vendas' = vendas \cup {n}
           /\ \A v \in vendas : v.chave # d.ref.chave
    BY <1>2 DEF FinalizeSale, ChaveDaConfirmacao
  <2> HIDE DEF n
  <2> QED
    BY <1>1, <2>2, <2>3 DEF TypeOK, VendasT, Registradas
<1> QED
  BY <1>1, <1>2, EfeitoNasVendas

(* The payments under way.  A step keeps them, or draws a key, uses one,   *)
(* cancels the last sale, or begins or ends a session.                     *)
Pagam(d) == d.tipo \in {"autoriza", "pagamento"}
Conserva(ds) == \A d \in ds : Pagam(d) => d \in dialogos
Calmo == (Viva' <=> Viva) /\ UNCHANGED <<vendas, chaves, ultima, canceladas, sessao>>

LEMMA AbreOutro ==
    ASSUME NEW ds, Conserva(ds), NEW tipo, tipo \notin {"autoriza", "pagamento"},
           NEW ref
    PROVE  Conserva(Abertos(ds, tipo, ref))
  BY DEF Conserva, Abertos, Novo, Pagam

LEMMA ProdutoConservaPagamentos ==
    ASSUME NEW r, NEW c, NEW lida, NEW ficha, NEW ds, Conserva(ds),
           AddProduct(r, c, lida, ficha, ds)
    PROVE  Conserva(dialogos')
<1>1. ASSUME NEW ref, r \in {"preco", "peso"},
             dialogos' = Abertos(ds, r, ref)
      PROVE  Conserva(dialogos')
  BY <1>1, AbreOutro
<1> QED
  BY <1>1 DEF AddProduct

LEMMA EfeitoNosPagamentos ==
    ASSUME [Next]_vars
    PROVE  \/ Calmo /\ Conserva(dialogos')
           \/ Calmo /\ \E d \in dialogos : FinishOpen(d) \/ AuthorizeSale(d)
           \/ \E e \in BOOLEAN : ShortcutPayment(e)
           \/ \E d \in dialogos : \/ ConfirmPayment(d) \/ ConfirmPaymentFails(d)
                                  \/ CancelLastSale(d)
           \/ \E a, c, retoma \in BOOLEAN : ShowSale(a, c, retoma)
           \/ \E ds \in SUBSET dialogos : ClearSessionViews(ds)
<1>a. \A ds \in SUBSET dialogos : Conserva(ds)
  BY DEF Conserva
<1>b. ASSUME UNCHANGED <<conta, loja>> PROVE Calmo
  BY <1>b DEF conta, loja, recente, Calmo, Viva
<1>c. ASSUME UNCHANGED <<conta, vendas, chaves, recente>> PROVE Calmo
  BY <1>c DEF conta, recente, Calmo, Viva
<1>d. \A tipo \in Tipos \ {"autoriza", "pagamento"}, ds \in SUBSET dialogos :
         \A ref : Conserva(Abertos(ds, tipo, ref))
  BY <1>a, AbreOutro
<1>1. CASE Leitor
  <2>1. ASSUME NEW r \in Produto, PollScanResults(r)
        PROVE  Calmo /\ Conserva(dialogos')
    <3>1. Calmo
      BY <1>b, <2>1 DEF PollScanResults
    <3>2. dialogos' = dialogos \/ Dispatch(Head(respostas), r)
      BY <2>1 DEF PollScanResults
    <3>3. "manual" \in Tipos \ {"autoriza", "pagamento"}
      BY DEF Tipos
    <3>4. ASSUME NEW t, Dispatch(t, r) PROVE Conserva(dialogos')
      BY <1>a, <1>d, <3>3, <3>4, ProdutoConservaPagamentos DEF Dispatch
    <3> QED
      BY <1>a, <3>1, <3>2, <3>4
  <2>2. ASSUME NEW c \in Codigos, HandleGtin(c) PROVE Calmo /\ Conserva(dialogos')
    BY <1>a, <1>b, <2>2 DEF HandleGtin
  <2>3. CASE Resume
    BY <1>a, <1>b, <2>3 DEF Resume
  <2>4. ASSUME NEW t \in lendo, LookUp(t) PROVE Calmo /\ Conserva(dialogos')
    BY <1>a, <1>b, <2>4 DEF LookUp
  <2> QED
    BY <1>1, <2>1, <2>2, <2>3, <2>4 DEF Leitor
<1>2. ASSUME Compra, ~\E e \in BOOLEAN : ShortcutPayment(e)
      PROVE  Calmo /\ Conserva(dialogos')
  <2>0. {"busca", "avulso", "edita", "cancela", "cancelaVenda"}
           \subseteq Tipos \ {"autoriza", "pagamento"}
    BY DEF Tipos
  <2>1. ASSUME NEW c \in Codigos, NEW r \in Produto, QuickProduct(c, r)
        PROVE  Calmo /\ Conserva(dialogos')
    BY <1>a, <1>b, <2>1, ProdutoConservaPagamentos DEF QuickProduct
  <2>2. CASE ShortcutSearch \/ ShortcutManualItem \/ RequestLastSaleCancellation
    BY <1>b, <1>d, <2>0, <2>2 DEF ShortcutSearch, ShortcutManualItem,
       RequestLastSaleCancellation, Mostra
  <2>3. ASSUME NEW l \in carrinho, ShortcutEdit(l) \/ ShortcutCancel(l)
        PROVE  Calmo /\ Conserva(dialogos')
    BY <1>a, <1>b, <1>d, <2>0, <2>3 DEF ShortcutEdit, ShortcutCancel, Mostra
  <2> QED
    BY <1>2, <2>1, <2>2, <2>3 DEF Compra
<1>3. ASSUME Telas, ~ClearSessionViews(dialogos),
             ~\E a, c, retoma \in BOOLEAN : ShowSale(a, c, retoma)
      PROVE  Calmo /\ Conserva(dialogos')
  <2>0. {"acoes", "abre", "sair"} \subseteq Tipos \ {"autoriza", "pagamento"}
    BY DEF Tipos
  <2>1. CASE OpenCashActions
    BY <1>b, <1>d, <2>0, <2>1 DEF OpenCashActions, Mostra
  <2>2. CASE RequestLogout
    BY <1>3, <1>b, <1>d, <2>0, <2>2 DEF RequestLogout, Mostra
  <2>3. CASE ShowAdmin \/ BackToSale
    BY <1>a, <2>3 DEF ShowAdmin, BackToSale, loja, recente, Calmo, Viva
  <2> QED
    BY <1>3, <2>1, <2>2, <2>3 DEF Telas
<1>4. ASSUME NEW d \in dialogos, NoDialogo(d), ~FinishOpen(d), ~AuthorizeSale(d),
             ~ConfirmPayment(d), ~ConfirmPaymentFails(d), ~CancelLastSale(d),
             ~ConfirmLogout(d)
      PROVE  Calmo /\ Conserva(dialogos')
  <2>0. /\ {"aprovaPreco", "aprovaCadastro", "movimento", "fecha"}
              \subseteq Tipos \ {"autoriza", "pagamento"}
        /\ dialogos \ {d} \in SUBSET dialogos
    BY DEF Tipos
  <2>1. ASSUME NEW r \in Produto, SubmitItem(d, r) PROVE Calmo /\ Conserva(dialogos')
    BY <1>a, <1>b, <1>d, <2>0, <2>1, ProdutoConservaPagamentos
       DEF SubmitItem, Mostra
  <2>2. ASSUME NEW r \in Produto, Approve(d, r) PROVE Calmo /\ Conserva(dialogos')
    <3> DEFINE resto == {e \in dialogos : e.id \notin {d.id, d.ref.origem}}
    <3>1. resto \in SUBSET dialogos
      OBVIOUS
    <3>2. AddProduct(r, d.ref.codigo, {}, {d.ref.geracao}, resto)
      BY <2>2 DEF Approve
    <3>3. UNCHANGED <<conta, loja>>
      BY <2>2 DEF Approve
    <3> QED
      BY <1>a, <1>b, <3>1, <3>2, <3>3, ProdutoConservaPagamentos
  <2>3. ASSUME NEW c \in Codigos, NEW r \in Produto, SelectProduct(d, c, r)
        PROVE  Calmo /\ Conserva(dialogos')
    BY <1>a, <1>b, <2>0, <2>3, ProdutoConservaPagamentos DEF SelectProduct
  <2>4. CASE SelectMovement(d) \/ RequestCashClose(d)
    BY <1>a, <1>b, <1>d, <2>0, <2>4 DEF SelectMovement, RequestCashClose
  <2>5. CASE OpenCash(d) \/ CloseCash(d)
    BY <1>a, <1>c, <2>0, <2>5 DEF OpenCash, CloseCash
  <2>6. CASE \/ Cancel(d) \/ IncludeManualItem(d) \/ ApplyEdit(d)
             \/ AuthorizeItemCancel(d)
    BY <1>a, <1>b, <2>0, <2>6 DEF Cancel, IncludeManualItem, ApplyEdit,
       AuthorizeItemCancel
  <2> QED
    BY <1>4, <2>1, <2>2, <2>3, <2>4, <2>5, <2>6 DEF NoDialogo
<1>5. ASSUME NEW d \in dialogos, FinishOpen(d) \/ AuthorizeSale(d) PROVE Calmo
  BY <1>b, <1>5 DEF FinishOpen, AuthorizeSale
<1>6. ASSUME NEW d \in dialogos, ConfirmLogout(d)
      PROVE  \E ds \in SUBSET dialogos : ClearSessionViews(ds)
  BY <1>6 DEF ConfirmLogout
<1>7. CASE UNCHANGED vars
  BY <1>a, <1>b, <1>7 DEF vars
<1> QED
  BY <1>1, <1>2, <1>3, <1>4, <1>5, <1>6, <1>7 DEF Next

(* A key belongs to one payment: drawn once, in one dialog while that is   *)
(* open, and in the sale of its session after it; so a sale that was       *)
(* cancelled is never confirmed again.                                     *)
Usavel(d) ==
    /\ d.ref.chave \in 1..chaves
    /\ d.ref.chave # ultima.venda /\ d.ref.chave \notin canceladas
    /\ \A v \in vendas : v.chave = d.ref.chave => v.sessao = sessao
Usaveis == \A d \in dialogos : Pagam(d) => Usavel(d)
UmaPorChave ==
    \A d, e \in dialogos :
        Pagam(d) /\ Pagam(e) /\ d.ref.chave = e.ref.chave => d = e
Tiradas ==
    /\ \A v \in vendas : v.chave <= chaves
    /\ ultima.venda <= chaves /\ \A k \in canceladas : k <= chaves
SemSessao == ~Viva => ultima.venda = 0
Chaves == Usaveis /\ UmaPorChave /\ Tiradas /\ SemSessao /\ UltimaDaSessao

(* The last sale is one of the session, cancelled or not as the screen says*)
LEMMA ChavesMantidas ==
    ASSUME TypeOK, DialogoDaSessao, Registradas, Chaves, [Next]_vars
    PROVE  RecenteT' /\ Chaves'
<1>0. /\ RecenteT /\ VendasT /\ DialogosT /\ chaves \in 0..MaxVendas
      /\ MaxVendas \in Nat
  BY Partes, LimitesNaturais DEF ControlesT
<1> USE DEF Chaves
<1>1. CASE Calmo /\ Conserva(dialogos')
  BY <1>0, <1>1 DEF Calmo, Conserva, RecenteT, Usaveis, Usavel, UmaPorChave,
     Tiradas, SemSessao, UltimaDaSessao, Viva, Pagam
<1>2. ASSUME Calmo, NEW d \in dialogos, FinishOpen(d) \/ AuthorizeSale(d)
      PROVE  RecenteT' /\ Chaves'
  <2>1. \A e \in dialogos' : Pagam(e) =>
           \/ e \in dialogos \ {d}
           \/ Pagam(d) /\ e.ref = d.ref
    BY <1>0, <1>2 DEF FinishOpen, AuthorizeSale, Abertos, Novo, Pagam,
       DialogosT, DialogoOK
  <2>2. \A e, f \in dialogos' :
           Pagam(e) /\ Pagam(f) /\ e \notin dialogos \ {d}
             /\ f \notin dialogos \ {d} => e = f
    BY <1>0, <1>2 DEF FinishOpen, AuthorizeSale, Abertos
  <2>3. Usaveis'
    BY <1>2, <2>1 DEF Calmo, Usaveis, Usavel
  <2>4. UmaPorChave'
    BY <2>1, <2>2 DEF UmaPorChave
  <2> QED
    BY <1>0, <1>2, <2>3, <2>4 DEF Calmo, RecenteT, Tiradas, SemSessao,
       UltimaDaSessao
<1>3. ASSUME NEW e \in BOOLEAN, ShortcutPayment(e) PROVE RecenteT' /\ Chaves'
  <2> DEFINE ref == [Sem EXCEPT !.itens = {l.chave : l \in carrinho},
                                !.chave = chaves + 1]
             n == Novo(dialogos, IF e THEN "autoriza" ELSE "pagamento", ref)
  <2>1. ref.chave = chaves + 1 /\ n.ref = ref
    BY DEF Sem, Novo
  <2> HIDE DEF ref
  <2>2. n.ref.chave = chaves + 1
    BY <2>1
  <2>3. /\ dialogos' = dialogos \cup {n} /\ chaves' = chaves + 1
        /\ Viva /\ Viva' /\ UNCHANGED <<vendas, ultima, canceladas, sessao>>
    BY <1>3 DEF ShortcutPayment, Mostra, Abertos, conta, recente, Viva, ref
  <2> HIDE DEF n
  <2>0. PICK k : k = n
    OBVIOUS
  <2>4. Usavel(k)'
    BY <1>0, <2>0, <2>2, <2>3 DEF Usavel, Tiradas, VendasT, Venda, RecenteT
  <2>5. \A d \in dialogos : Pagam(d) => Usavel(d)' /\ d.ref.chave # k.ref.chave
    BY <1>0, <2>0, <2>2, <2>3 DEF Usaveis, Usavel
  <2>6. Usaveis' /\ UmaPorChave'
    BY <2>0, <2>3, <2>4, <2>5 DEF Usaveis, UmaPorChave, Pagam
  <2> QED
    BY <1>0, <2>3, <2>6 DEF RecenteT, VendasT, Venda, Tiradas, SemSessao,
       UltimaDaSessao
<1>4. ASSUME NEW d \in dialogos, d.tipo = "pagamento", FinalizeSale(d),
             chaves' = chaves, canceladas' = canceladas, sessao' = sessao
      PROVE  /\ \A v \in vendas' : v.chave <= chaves
             /\ \A v \in vendas : v \in vendas'
             /\ \E v \in vendas' : v.chave = d.ref.chave /\ v.sessao = sessao
             /\ \A e \in dialogos : Pagam(e) => \A v \in vendas' :
                   v.chave = e.ref.chave => v.sessao = sessao
             /\ Usavel(d)
  <2> DEFINE n == [chave |-> d.ref.chave, pedido |-> d.ref.chave,
                   sessao |-> sessao, itens |-> d.ref.itens]
  <2>1. n.chave = d.ref.chave /\ n.sessao = sessao
    OBVIOUS
  <2>2. \/ vendas' = vendas /\ \E v \in vendas : v.chave = d.ref.chave
        \/ vendas' = vendas \cup {n}
    BY <1>4 DEF FinalizeSale, ChaveDaConfirmacao
  <2> HIDE DEF n
  <2>3. Usavel(d)
    BY <1>4 DEF Usaveis, Pagam
  <2> QED
    BY <1>0, <2>1, <2>2, <2>3 DEF Usaveis, Usavel, Tiradas
<1>5. ASSUME NEW d \in dialogos, ConfirmPayment(d) PROVE RecenteT' /\ Chaves'
  <2>1. /\ d.tipo = "pagamento" /\ FinalizeSale(d) /\ dialogos' = dialogos \ {d}
        /\ ultima' = [venda |-> d.ref.chave, cancelada |-> FALSE]
        /\ Viva' = Viva /\ UNCHANGED <<chaves, canceladas, sessao>>
    BY <1>5 DEF ConfirmPayment, ChaveDaConfirmacao, conta, Viva
  <2>2. Viva
    BY <2>1 DEF DialogoDaSessao
  <2>3. ultima'.venda = d.ref.chave /\ ~ultima'.cancelada
    BY <2>1
  <2>4. Usaveis' /\ UmaPorChave'
    BY <1>4, <2>1, <2>3 DEF Usaveis, Usavel, UmaPorChave, Pagam
  <2>5. Tiradas' /\ UltimaDaSessao' /\ SemSessao'
    BY <1>4, <2>1, <2>2, <2>3 DEF Usavel, Tiradas, UltimaDaSessao, SemSessao
  <2>6. d.ref.chave \in 1..MaxVendas
    BY <1>0, <2>1 DEF DialogosT, DialogoOK
  <2> QED
    BY <1>0, <2>1, <2>4, <2>5, <2>6 DEF RecenteT
<1>6. ASSUME NEW d \in dialogos, ConfirmPaymentFails(d) PROVE RecenteT' /\ Chaves'
  <2>1. /\ d.tipo = "pagamento" /\ FinalizeSale(d) /\ Viva' = Viva
        /\ UNCHANGED <<dialogos, chaves, ultima, canceladas, sessao>>
    BY <1>6 DEF ConfirmPaymentFails, conta, recente, Viva
  <2>2. Usaveis' /\ UmaPorChave' /\ Tiradas'
    BY <1>4, <2>1 DEF Usaveis, Usavel, UmaPorChave, Pagam, Tiradas
  <2> QED
    BY <1>0, <1>4, <2>1, <2>2 DEF UltimaDaSessao, SemSessao, RecenteT
<1>7. ASSUME NEW d \in dialogos, CancelLastSale(d) PROVE RecenteT' /\ Chaves'
  <2>1. /\ canceladas' = canceladas \cup {ultima.venda}
        /\ ultima' = [ultima EXCEPT !.cancelada = TRUE]
        /\ dialogos' = dialogos \ {d} /\ Viva' = Viva
        /\ UNCHANGED <<vendas, chaves, sessao>>
    BY <1>7 DEF CancelLastSale, UltimaCancelada, conta, Viva
  <2>2. ultima'.venda = ultima.venda /\ ultima'.cancelada
    BY <1>0, <2>1 DEF RecenteT
  <2>3. Usaveis' /\ UmaPorChave'
    BY <2>1, <2>2 DEF Usaveis, Usavel, UmaPorChave, Pagam
  <2>4. Tiradas' /\ SemSessao' /\ UltimaDaSessao'
    BY <2>1, <2>2 DEF Tiradas, SemSessao, UltimaDaSessao
  <2>5. RecenteT'
    BY <1>0, <2>1 DEF RecenteT
  <2> QED
    BY <2>3, <2>4, <2>5
<1>8. ASSUME NEW a \in BOOLEAN, NEW c \in BOOLEAN, NEW retoma \in BOOLEAN,
             ShowSale(a, c, retoma)
      PROVE  RecenteT' /\ Chaves'
  <2>1. /\ ultima.venda = 0 /\ Viva' /\ UNCHANGED <<vendas, chaves, recente>>
        /\ \A d \in dialogos : ~Pagam(d)
    BY <1>8 DEF ShowSale, SemSessao, Viva, DialogoDaSessao, Pagam
  <2>2. \A d \in dialogos' : ~Pagam(d)
    BY <1>8, <2>1 DEF ShowSale, Novo, Pagam
  <2> QED
    BY <1>0, <2>1, <2>2 DEF recente, RecenteT, Usaveis, UmaPorChave, Tiradas,
       SemSessao, UltimaDaSessao
<1>9. ASSUME NEW ds \in SUBSET dialogos, ClearSessionViews(ds)
      PROVE  RecenteT' /\ Chaves'
  <2>1. /\ ultima'.venda = 0 /\ ultima' = SemUltima
        /\ UNCHANGED <<vendas, chaves, canceladas>>
        /\ \A d \in dialogos' : ~Pagam(d)
    BY <1>9 DEF ClearSessionViews, SemUltima, DaTela, Pagam
  <2> QED
    BY <1>0, <2>1 DEF SemUltima, RecenteT, Usaveis, UmaPorChave, Tiradas,
       SemSessao, UltimaDaSessao
<1> QED
  BY <1>1, <1>2, <1>3, <1>5, <1>6, <1>7, <1>8, <1>9, EfeitoNosPagamentos

-----------------------------------------------------------------------------
(* The inductive invariant, and the theorems.                              *)

IInv ==
    /\ TypeOK /\ FilaCoerente /\ LeituraDaVenda /\ DialogoDaSessao
    /\ Registradas /\ Chaves

LEMMA InicioIInv == Init => IInv
<1> SUFFICES ASSUME Init PROVE IInv
  OBVIOUS
<1>1. /\ fila \in FilaT /\ respostas \in Seq(Bilhete)
      /\ Len(respostas) = 0 /\ Len(fila.pendentes) = 0
  <2>1. <<>> \in Seq(Bilhete) /\ 0 \in 0..MaxLeituras
    BY LimitesNaturais
  <2> QED
    BY <2>1 DEF Init, FilaNova, FilaT
<1>2. TypeOK
  <2>1. ContaT /\ CompraT /\ ControlesT
    <3>1. 0 \in 0..MaxSessoes /\ 0 \in 0..MaxLinhas /\ 0 \in 0..MaxVendas
      BY LimitesNaturais
    <3>2. ContaT
      BY <3>1 DEF Init, ContaT, Viva
    <3> QED
      BY <3>1, <3>2 DEF Init, CompraT, ControlesT
  <2>2. LeitorT /\ VendasT /\ DialogosT /\ FocoOK
    BY <1>1 DEF Init, LeitorT, VendasT, DialogosT, FocoOK
  <2>3. RecenteT
    BY LimitesNaturais DEF Init, SemUltima, RecenteT
  <2> QED
    BY <2>1, <2>2, <2>3, Partes
<1>3. FilaCoerente
  BY <1>1 DEF Init, FilaNova, FilaCoerente
<1>4. Chaves
  BY DEF Init, SemUltima, Chaves, Usaveis, UmaPorChave, Tiradas, SemSessao,
     UltimaDaSessao
<1> QED
  BY <1>2, <1>3, <1>4 DEF IInv, Init, LeituraDaVenda, DialogoDaSessao, Registradas

LEMMA PassoIInv == IInv /\ [Next]_vars => IInv'
<1> SUFFICES ASSUME IInv, [Next]_vars PROVE IInv'
  OBVIOUS
<1>1. /\ ContaT /\ CompraT /\ LeitorT /\ ControlesT /\ TypeOK /\ FilaCoerente
      /\ LeituraDaVenda /\ DialogoDaSessao /\ Registradas /\ Chaves /\ DialogosT
  BY Partes DEF IInv
<1>2. ContaT' /\ ControlesT'
  BY <1>1, ContaMantida
<1>3. LeitorT' /\ FilaCoerente'
  BY <1>1, LeitorMantido
<1>4. CompraT' /\ LeituraDaVenda'
  BY <1>1, CarrinhoMantido DEF DialogosT
<1>5. DialogosT' /\ DialogoDaSessao'
  BY <1>1, DialogosMantidos
<1>6. VendasT' /\ Registradas'
  BY <1>1, VendasMantidas
<1>7. FocoOK'
  BY <1>1, FocoMantido
<1>8. RecenteT' /\ Chaves'
  BY <1>1, ChavesMantidas
<1>9. TypeOK'
  BY <1>2, <1>3, <1>4, <1>5, <1>6, <1>7, <1>8
     DEF TypeOK, RecenteT, ContaT, CompraT, LeitorT, ControlesT, VendasT, DialogosT, FocoOK
<1> QED
  BY <1>3, <1>4, <1>5, <1>6, <1>8, <1>9 DEF IInv

LEMMA Invariante == Spec => []IInv
  BY InicioIInv, PassoIInv, PTL DEF Spec

(* The state of the counter screen stays in its types, and the grab never  *)
(* rests on a dialog that is gone.                                         *)
THEOREM BalcaoTipo == Spec => []TypeOK
<1>1. IInv => TypeOK
  BY DEF IInv
<1> QED
  BY <1>1, Invariante, PTL

(* The screen and its queue agree on the code being looked up, in any      *)
(* order of readings, answers, payments and sessions.                      *)
THEOREM LeitorCoerente == Spec => []FilaCoerente
<1>1. IInv => FilaCoerente
  BY DEF IInv
<1> QED
  BY <1>1, Invariante, PTL

(* A code read for one sale never enters the cart of another by itself.    *)
THEOREM LeituraNaVendaCerta == Spec => []LeituraDaVenda
<1>1. IInv => LeituraDaVenda
  BY DEF IInv
<1> QED
  BY <1>1, Invariante, PTL

(* One opening of the payment makes at most one sale.                      *)
THEOREM UmPedidoUmaVenda == Spec => []PedidoUnico
<1>1. IInv => PedidoUnico
  BY DEF IInv, Registradas, PedidoUnico
<1> QED
  BY <1>1, Invariante, PTL

(* The sale the screen offers to cancel is of its session and stands.      *)
THEOREM UltimaVendaDaSessao == Spec => []UltimaDaSessao
<1>1. IInv => UltimaDaSessao
  BY DEF IInv, Chaves
<1> QED
  BY <1>1, Invariante, PTL

(* A dialog of the sale screen belongs to the session that shows it.       *)
THEOREM DialogosDaSessao == Spec => []DialogoDaSessao
<1>1. IInv => DialogoDaSessao
  BY DEF IInv
<1> QED
  BY <1>1, Invariante, PTL

-----------------------------------------------------------------------------
(* The cancellation                                                        *)

(* A dialog that cancels the last sale has one to cancel.                  *)
TemUltima(ds) == \A d \in ds : d.tipo = "cancelaVenda" => ultima.venda # 0

LEMMA OutroAbre ==
    ASSUME TemUltima(dialogos), NEW ds \in SUBSET dialogos
    PROVE  /\ TemUltima(ds)
           /\ \A tipo, ref : tipo # "cancelaVenda" => TemUltima(Abertos(ds, tipo, ref))
  BY DEF TemUltima, Abertos, Novo

LEMMA ProdutoNaoCancela ==
    ASSUME TemUltima(dialogos), NEW ds \in SUBSET dialogos, NEW r, NEW c, NEW lida,
           NEW ficha, AddProduct(r, c, lida, ficha, ds)
    PROVE  TemUltima(dialogos')
<1>1. \/ dialogos' = ds
      \/ r \in {"preco", "peso"} /\ \E ref : dialogos' = Abertos(ds, r, ref)
  BY DEF AddProduct
<1> QED
  BY <1>1, OutroAbre

(* No step opens it without a last sale.                                   *)
LEMMA PedeComUltima ==
    ASSUME DialogosT, TemUltima(dialogos), [Next]_vars
    PROVE  TemUltima(dialogos')
<1>a. ASSUME NEW ds \in SUBSET dialogos, dialogos' = ds PROVE TemUltima(dialogos')
  BY <1>a, OutroAbre
<1>b. ASSUME NEW ds \in SUBSET dialogos, NEW tipo, NEW ref, tipo # "cancelaVenda",
             dialogos' = Abertos(ds, tipo, ref)
      PROVE  TemUltima(dialogos')
  BY <1>b, OutroAbre
<1>1. ASSUME NEW r \in Produto, PollScanResults(r) PROVE TemUltima(dialogos')
  <2>1. dialogos' = dialogos \/ \E t : Dispatch(t, r)
    BY <1>1 DEF PollScanResults
  <2>2. ASSUME NEW t, Dispatch(t, r) PROVE TemUltima(dialogos')
    BY <1>a, <1>b, <2>2, ProdutoNaoCancela DEF Dispatch
  <2> QED
    BY <1>a, <2>1, <2>2
<1>2. CASE Leitor
  BY <1>1, <1>2, <1>a DEF Leitor, HandleGtin, Resume, LookUp
<1>3. CASE Compra
  <2>1. ASSUME NEW c \in Codigos, NEW r \in Produto, QuickProduct(c, r)
        PROVE  TemUltima(dialogos')
    BY <2>1, ProdutoNaoCancela DEF QuickProduct
  <2>2. CASE ShortcutSearch \/ ShortcutManualItem
    BY <1>b, <2>2 DEF ShortcutSearch, ShortcutManualItem, Mostra
  <2>3. ASSUME NEW l \in carrinho, ShortcutEdit(l) \/ ShortcutCancel(l)
        PROVE  TemUltima(dialogos')
    BY <1>a, <1>b, <2>3 DEF ShortcutEdit, ShortcutCancel, Mostra
  <2>4. ASSUME NEW e \in BOOLEAN, ShortcutPayment(e) PROVE TemUltima(dialogos')
    BY <1>b, <2>4 DEF ShortcutPayment, Mostra
  <2>5. CASE RequestLastSaleCancellation
    BY <2>5 DEF RequestLastSaleCancellation, TemUltima
  <2> QED
    BY <1>3, <2>1, <2>2, <2>3, <2>4, <2>5 DEF Compra
<1>4. CASE Telas
  <2>1. CASE OpenCashActions
    BY <1>b, <2>1 DEF OpenCashActions, Mostra
  <2>2. ASSUME NEW a \in BOOLEAN, NEW c \in BOOLEAN, NEW retoma \in BOOLEAN,
               ShowSale(a, c, retoma)
        PROVE  TemUltima(dialogos')
    BY <2>2 DEF ShowSale, Novo, TemUltima
  <2>3. CASE RequestLogout
    BY <1>a, <1>b, <2>3 DEF RequestLogout, ClearSessionViews, Mostra
  <2>4. CASE ShowAdmin \/ BackToSale
    BY <1>a, <2>4 DEF ShowAdmin, BackToSale
  <2> QED
    BY <1>4, <2>1, <2>2, <2>3, <2>4 DEF Telas
<1>5. ASSUME NEW d \in dialogos, NoDialogo(d) PROVE TemUltima(dialogos')
  <2>1. CASE FinishOpen(d)
    BY <2>1 DEF FinishOpen, TemUltima, DialogosT, DialogoOK
  <2>2. ASSUME NEW r \in Produto, SubmitItem(d, r) PROVE TemUltima(dialogos')
    BY <1>b, <2>2, ProdutoNaoCancela DEF SubmitItem, Mostra
  <2>3. ASSUME NEW r \in Produto, Approve(d, r) PROVE TemUltima(dialogos')
    <3>1. {e \in dialogos : e.id \notin {d.id, d.ref.origem}} \in SUBSET dialogos
      OBVIOUS
    <3> QED
      BY <2>3, <3>1, ProdutoNaoCancela DEF Approve
  <2>4. ASSUME NEW c \in Codigos, NEW r \in Produto, SelectProduct(d, c, r)
        PROVE  TemUltima(dialogos')
    BY <2>4, ProdutoNaoCancela DEF SelectProduct
  <2>5. CASE AuthorizeSale(d)
    BY <2>5 DEF AuthorizeSale, Abertos, Novo, TemUltima
  <2>6. CASE SelectMovement(d) \/ RequestCashClose(d)
    BY <1>a, <1>b, <2>6 DEF SelectMovement, RequestCashClose
  <2>7. CASE \/ Cancel(d) \/ IncludeManualItem(d) \/ ApplyEdit(d)
             \/ AuthorizeItemCancel(d) \/ ConfirmPayment(d) \/ ConfirmPaymentFails(d)
             \/ CancelLastSale(d) \/ OpenCash(d) \/ CloseCash(d)
    BY <1>a, <2>7 DEF Cancel, IncludeManualItem, ApplyEdit, AuthorizeItemCancel,
       ConfirmPayment, ConfirmPaymentFails, CancelLastSale, OpenCash, CloseCash
  <2>8. CASE ConfirmLogout(d)
    BY <1>a, <2>8 DEF ConfirmLogout, ClearSessionViews
  <2> QED
    BY <1>5, <2>1, <2>2, <2>3, <2>4, <2>5, <2>6, <2>7, <2>8 DEF NoDialogo
<1>6. CASE UNCHANGED vars
  BY <1>a, <1>6 DEF vars
<1> QED
  BY <1>2, <1>3, <1>4, <1>5, <1>6 DEF Next

LEMMA UltimaPermanece ==
    ASSUME IInv, TemUltima(dialogos), [Next]_vars
    PROVE  TemUltima(dialogos)'
<1>0. DialogosT /\ RecenteT
  BY Partes DEF IInv
<1>1. TemUltima(dialogos')
  BY <1>0, PedeComUltima
<1>2. CASE ultima'.venda = ultima.venda
  BY <1>1, <1>2 DEF TemUltima
<1>3. ASSUME NEW d \in dialogos, ConfirmPayment(d) PROVE ultima'.venda # 0
  BY <1>0, <1>3 DEF ConfirmPayment, Recebe, ChaveDaConfirmacao, DialogosT, DialogoOK
<1>4. ASSUME NEW d \in dialogos, CancelLastSale(d) PROVE ultima'.venda = ultima.venda
  BY <1>0, <1>4 DEF CancelLastSale, UltimaCancelada, RecenteT
<1>5. ASSUME NEW ds \in SUBSET dialogos, ClearSessionViews(ds)
      PROVE  \A d \in dialogos' : d.tipo = "sair"
  BY <1>5 DEF ClearSessionViews, DaTela
<1>6. \/ ultima' = ultima
      \/ \E d \in dialogos : ConfirmPayment(d) \/ CancelLastSale(d)
      \/ \E ds \in SUBSET dialogos : ClearSessionViews(ds)
  BY EfeitoNosPagamentos DEF Calmo, ShortcutPayment, ConfirmPaymentFails, ShowSale, recente
<1> QED
  BY <1>2, <1>3, <1>4, <1>5, <1>6 DEF TemUltima

(* The screen only ever cancels a sale of its session that stands: also    *)
(* when another sale became the last one while the dialog was open         *)
(* (CancelaAPedida), or the session changed hands meanwhile.               *)
THEOREM CancelaDaSessao ==
    Spec => [][\A d \in dialogos : CancelLastSale(d) =>
                 /\ \E v \in vendas : v.chave = ultima.venda /\ v.sessao = sessao
                 /\ ultima.venda \notin canceladas /\ ~ultima.cancelada]_vars
<1> DEFINE Passo == \A d \in dialogos : CancelLastSale(d) =>
                 /\ \E v \in vendas : v.chave = ultima.venda /\ v.sessao = sessao
                 /\ ultima.venda \notin canceladas /\ ~ultima.cancelada
<1>1. Init => TemUltima(dialogos)
  BY DEF Init, TemUltima
<1>2. IInv /\ TemUltima(dialogos) /\ [Next]_vars => TemUltima(dialogos)'
  BY UltimaPermanece
<1>3. IInv /\ TemUltima(dialogos) => Passo
  <2> SUFFICES ASSUME IInv, TemUltima(dialogos), NEW d \in dialogos, CancelLastSale(d)
               PROVE  /\ \E v \in vendas : v.chave = ultima.venda /\ v.sessao = sessao
                      /\ ultima.venda \notin canceladas /\ ~ultima.cancelada
    OBVIOUS
  <2>1. ultima.venda # 0 /\ ultima.venda \notin canceladas
    BY DEF CancelLastSale, TemUltima
  <2>2. RecenteT /\ UltimaDaSessao
    BY Partes DEF IInv, Chaves
  <2> QED
    BY <2>1, <2>2 DEF UltimaDaSessao, RecenteT
<1> QED
  BY <1>1, <1>2, <1>3, Invariante, PTL DEF Spec

-----------------------------------------------------------------------------
(* What a cart is sold by                                                  *)

\* Lines keep their keys, and a new one takes a key no line had before.
Chave(k) == \E l \in carrinho : l.chave = k
Crescem ==
    /\ linhas' \in {linhas, linhas + 1}
    /\ \A l \in carrinho' : Chave(l.chave) \/ (l.chave = linhas + 1 /\ linhas' = l.chave)

LEMMA InclusaoCresce ==
    ASSUME CompraT, NEW r, NEW c, NEW lida \in SUBSET Nat, NEW ficha \in SUBSET Nat,
           NEW ds, AddProduct(r, c, lida, ficha, ds)
    PROVE  Crescem
<1>1. CASE UNCHANGED compra
  BY <1>1 DEF compra, Crescem, Chave
<1>2. ASSUME LinhaIncluida(c, lida, ficha), \E l \in carrinho : Igual(l, c) PROVE Crescem
  <2> DEFINE l == CHOOSE x \in carrinho : Igual(x, c)
             n == [l EXCEPT !.lidas = @ \cup lida, !.fichas = @ \cup ficha]
  <2>1. l \in carrinho
    BY <1>2
  <2>2. carrinho' = (carrinho \ {l}) \cup {n} /\ linhas' = linhas
    BY <1>2 DEF LinhaIncluida
  <2> HIDE DEF l
  <2>3. n.chave = l.chave
    BY <2>1 DEF CompraT, Linha
  <2> HIDE DEF n
  <2> QED
    BY <2>1, <2>2, <2>3 DEF Crescem, Chave
<1>3. ASSUME LinhaIncluida(c, lida, ficha), ~\E l \in carrinho : Igual(l, c) PROVE Crescem
  <2> DEFINE n == [chave |-> linhas + 1, codigo |-> c, alterado |-> FALSE,
                   lidas |-> lida, fichas |-> ficha]
  <2>1. linhas' = linhas + 1 /\ carrinho' = carrinho \cup {n} /\ n.chave = linhas + 1
    BY <1>3 DEF LinhaIncluida
  <2> HIDE DEF n
  <2> QED
    BY <2>1 DEF Crescem, Chave
<1> QED
  BY <1>1, <1>2, <1>3 DEF AddProduct

LEMMA LinhasCrescem ==
    ASSUME TypeOK, [Next]_vars
    PROVE  \/ Crescem
           \/ carrinho' = {} /\ (linhas' = linhas \/ (linhas' = 0 /\ tela' = "fora"))
<1>0. CompraT /\ LeitorT /\ (\A d \in dialogos : DialogoOK(d))
  BY Partes DEF DialogosT
<1>1. CASE UNCHANGED <<carrinho, linhas>>
  BY <1>1 DEF Crescem, Chave
<1>2. ASSUME NEW ds \in SUBSET dialogos, Inclusao(ds) PROVE Crescem
  BY <1>0, <1>2, InclusaoCresce DEF Inclusao
<1>3. ASSUME NEW d \in dialogos, IncludeManualItem(d) PROVE Crescem
  <2>1. PICK n : /\ n.chave = linhas + 1 /\ linhas' = linhas + 1
                 /\ carrinho' = carrinho \cup {n}
    BY <1>3 DEF IncludeManualItem
  <2> QED
    BY <2>1 DEF Crescem, Chave
<1>4. ASSUME NEW d \in dialogos, ApplyEdit(d) PROVE Crescem
  <2> DEFINE n(l) == IF l.chave = d.ref.linha THEN [l EXCEPT !.alterado = TRUE] ELSE l
  <2>1. carrinho' = {n(l) : l \in carrinho} /\ linhas' = linhas
    BY <1>4 DEF ApplyEdit
  <2>2. \A l \in carrinho : n(l).chave = l.chave
    BY <1>0 DEF CompraT, Linha
  <2> HIDE DEF n
  <2> QED
    BY <2>1, <2>2 DEF Crescem, Chave
<1>5. ASSUME NEW k, RemoveLine(k) PROVE Crescem
  BY <1>5 DEF RemoveLine, Crescem, Chave
<1>6. ASSUME NEW r \in Produto, PollScanResults(r) PROVE Crescem
  <2> DEFINE t == Head(respostas)
  <2>1. t \in Bilhete
    BY <1>0, <1>6 DEF PollScanResults, LeitorT
  <2>2. UNCHANGED compra \/ Dispatch(t, r)
    BY <1>6 DEF PollScanResults
  <2> HIDE DEF t
  <2>3. CASE UNCHANGED compra
    BY <2>3 DEF compra, Crescem, Chave
  <2>4. CASE AddProduct(r, t.codigo, {t.geracao}, {}, dialogos)
    BY <1>0, <2>1, <2>4, InclusaoCresce DEF Bilhete
  <2> QED
    BY <2>2, <2>3, <2>4 DEF Dispatch
<1>7. ASSUME NEW d \in dialogos, ConfirmPayment(d)
      PROVE  carrinho' = {} /\ linhas' = linhas
  BY <1>7 DEF ConfirmPayment
<1> QED
  BY <1>0, <1>1, <1>2, <1>3, <1>4, <1>5, <1>6, <1>7, EfeitoNoCarrinho

\* No line enters a cart without a screen.
LEMMA ForaNaoCresce ==
    ASSUME DialogoDaSessao, ~Viva, [Next]_vars
    PROVE  carrinho' = carrinho \/ carrinho' = {}
<1>1. CASE Leitor
  BY <1>1 DEF Leitor, HandleGtin, Resume, LookUp, PollScanResults, compra
<1>2. CASE Compra
  BY <1>2 DEF Compra, QuickProduct, ShortcutSearch, ShortcutManualItem,
       ShortcutEdit, ShortcutCancel, ShortcutPayment, RequestLastSaleCancellation, Viva
<1>3. CASE Telas
  BY <1>3 DEF Telas, OpenCashActions, ShowSale, RequestLogout, ShowAdmin,
       BackToSale, ClearSessionViews, compra
<1>4. ASSUME NEW d \in dialogos, NoDialogo(d)
      PROVE  carrinho' = carrinho \/ carrinho' = {}
  <2>1. d.tipo = "sair"
    BY DEF DialogoDaSessao
  <2> QED
    BY <1>4, <2>1 DEF NoDialogo, FinishOpen, Cancel, SubmitItem, Approve,
       SelectProduct, IncludeManualItem, ApplyEdit, AuthorizeItemCancel,
       AuthorizeSale, ConfirmPayment, ConfirmPaymentFails, OpenCash,
       SelectMovement, RequestCashClose, CloseCash, CancelLastSale, ConfirmLogout,
       ClearSessionViews, compra
<1>5. CASE UNCHANGED vars
  BY <1>5 DEF vars, compra
<1> QED
  BY <1>1, <1>2, <1>3, <1>4, <1>5 DEF Next

\* A line that was sold is neither in the cart nor in a payment under way.
UmPagamento == \A d, e \in dialogos : Pagam(d) /\ Pagam(e) => d = e
Vendida(k) == \E v \in vendas : v.sessao = sessao /\ k \in v.itens
Livres(ks) == \A k \in ks : k \in Nat /\ k <= linhas /\ ~Vendida(k)
VendidasFora ==
    /\ \A v \in vendas : v.sessao <= sessao
    /\ Viva => \A k \in Nat : Vendida(k) => k <= linhas
    /\ \A l \in carrinho : Livres({l.chave})
    /\ \A d \in dialogos : Pagam(d) => Livres(d.ref.itens)
    /\ CarrinhoVendidoUmaVez

\* Every step but a confirmation and the begin of a session.
LEMMA SemVenda ==
    ASSUME IInv, VendidasFora, [Next]_vars, UNCHANGED <<vendas, sessao>>, Viva' => Viva,
           \A d \in dialogos' : Pagam(d) =>
             /\ Viva'
             /\ \/ \E e \in dialogos : Pagam(e) /\ d.ref.itens = e.ref.itens
                \/ d.ref.itens = {l.chave : l \in carrinho}
    PROVE  VendidasFora'
<1>0. TypeOK /\ DialogoDaSessao /\ linhas \in Nat
  BY Partes, LimitesNaturais DEF IInv, CompraT
<1>1. \A k : Vendida(k)' <=> Vendida(k)
  BY DEF Vendida
<1>2. (\A v \in vendas' : v.sessao <= sessao') /\ CarrinhoVendidoUmaVez'
  BY DEF VendidasFora, CarrinhoVendidoUmaVez
<1>3. \A d \in dialogos' : Pagam(d) => Livres(d.ref.itens)
  BY DEF VendidasFora, Livres
<1>4. CASE Crescem
  <2>1. linhas' \in Nat /\ linhas <= linhas'
    BY <1>0, <1>4 DEF Crescem
  <2>2. \A ks : Livres(ks) => Livres(ks)'
    BY <1>0, <1>1, <2>1 DEF Livres
  <2>3. Viva' => \A k \in Nat : Vendida(k)' => k <= linhas'
    BY <1>0, <1>1, <2>1 DEF VendidasFora
  <2>4. \A l \in carrinho' : Livres({l.chave})'
    <3> TAKE l \in carrinho'
    <3>1. CASE Chave(l.chave)
      BY <2>2, <3>1 DEF Chave, VendidasFora
    <3>2. CASE l.chave = linhas + 1 /\ linhas' = l.chave /\ ~Chave(l.chave)
      <4>1. Viva
        BY <1>0, <3>2, ForaNaoCresce DEF Chave
      <4>2. ~Vendida(linhas + 1)
        BY <1>0, <4>1 DEF VendidasFora
      <4> QED
        BY <1>0, <1>1, <3>2, <4>2 DEF Livres
    <3> QED
      BY <1>4, <3>1, <3>2 DEF Crescem
  <2>5. \A d \in dialogos' : Pagam(d) => Livres(d.ref.itens)'
    BY <1>3, <2>2
  <2> QED
    BY <1>2, <2>3, <2>4, <2>5 DEF VendidasFora, Pagam
<1>5. CASE carrinho' = {} /\ linhas' = linhas
  <2>1. \A ks : Livres(ks)' <=> Livres(ks)
    BY <1>1, <1>5 DEF Livres
  <2>2. Viva' => \A k \in Nat : Vendida(k)' => k <= linhas'
    BY <1>1, <1>5 DEF VendidasFora
  <2> QED
    BY <1>2, <1>3, <1>5, <2>1, <2>2 DEF VendidasFora, Pagam
<1>6. CASE carrinho' = {} /\ ~Viva'
  BY <1>2, <1>6 DEF VendidasFora, Pagam
<1> QED
  BY <1>0, <1>4, <1>5, <1>6, LinhasCrescem DEF Viva

LEMMA VendidasForaMantido ==
    ASSUME IInv, VendidasFora, UmPagamento, [Next]_vars,
           \A d \in dialogos : ~ConfirmPaymentFails(d)
    PROVE  VendidasFora'
<1>0. /\ TypeOK /\ DialogoDaSessao /\ DialogosT /\ sessao \in Nat
      /\ \A v \in vendas : v.sessao \in Nat
  <2>1. TypeOK /\ DialogoDaSessao /\ DialogosT /\ ContaT /\ VendasT
    BY Partes DEF IInv
  <2> QED
    BY <2>1, LimitesNaturais DEF ContaT, VendasT, Venda
<1>a. \A d \in dialogos : Pagam(d) => Viva
  BY <1>0 DEF DialogoDaSessao, Pagam
<1>1. CASE Calmo /\ Conserva(dialogos')
  BY <1>a, <1>1, SemVenda DEF Calmo, Conserva
<1>2. ASSUME Calmo, NEW d \in dialogos, FinishOpen(d) \/ AuthorizeSale(d)
      PROVE  VendidasFora'
  <2>1. \A e \in dialogos' : Pagam(e) =>
           \/ e \in dialogos
           \/ Pagam(d) /\ e.ref = d.ref
    BY <1>0, <1>2 DEF FinishOpen, AuthorizeSale, Abertos, Novo, Pagam,
       DialogosT, DialogoOK
  <2> QED
    BY <1>a, <1>2, <2>1, SemVenda DEF Calmo
<1>3. ASSUME NEW e \in BOOLEAN, ShortcutPayment(e) PROVE VendidasFora'
  <2> DEFINE ref == [Sem EXCEPT !.itens = {l.chave : l \in carrinho},
                                !.chave = chaves + 1]
             n == Novo(dialogos, IF e THEN "autoriza" ELSE "pagamento", ref)
  <2>1. n.ref.itens = {l.chave : l \in carrinho}
    BY DEF Sem, Novo
  <2>2. /\ dialogos' = dialogos \cup {n} /\ Viva /\ Viva'
        /\ UNCHANGED <<vendas, sessao>>
    BY <1>3 DEF ShortcutPayment, Mostra, Abertos, conta, Viva
  <2> HIDE DEF n
  <2> QED
    BY <2>1, <2>2, SemVenda
<1>4. ASSUME NEW d \in dialogos, ConfirmPayment(d) PROVE VendidasFora'
  <2> DEFINE n == [chave |-> d.ref.chave, pedido |-> d.ref.chave,
                   sessao |-> sessao, itens |-> d.ref.itens]
  <2>1. /\ d.tipo = "pagamento" /\ FinalizeSale(d) /\ dialogos' = dialogos \ {d}
        /\ carrinho' = {} /\ UNCHANGED <<sessao, tela, linhas>>
    BY <1>4 DEF ConfirmPayment, conta
  <2>2. \A e \in dialogos' : ~Pagam(e)
    BY <2>1 DEF UmPagamento, Pagam
  <2>3. n.sessao = sessao /\ n.itens = d.ref.itens
    OBVIOUS
  <2>4. vendas' = vendas \/ vendas' = vendas \cup {n}
    BY <2>1 DEF FinalizeSale, ChaveDaConfirmacao
  <2> HIDE DEF n
  <2>5. Livres(d.ref.itens)
    BY <2>1 DEF VendidasFora, Pagam
  <2>6. \A v \in vendas' : v.sessao <= sessao'
    BY <1>0, <2>1, <2>3, <2>4 DEF VendidasFora
  <2>7. Viva' => \A k \in Nat : Vendida(k)' => k <= linhas'
    BY <2>1, <2>3, <2>4, <2>5 DEF VendidasFora, Vendida, Livres, Viva
  <2>8. CarrinhoVendidoUmaVez'
    <3>1. \A v \in vendas : v.sessao = n.sessao => v.itens \cap n.itens = {}
      BY <2>3, <2>5 DEF Livres, Vendida
    <3> QED
      BY <2>4, <3>1 DEF VendidasFora, CarrinhoVendidoUmaVez
  <2> QED
    BY <2>1, <2>2, <2>6, <2>7, <2>8 DEF VendidasFora, Pagam
<1>5. ASSUME NEW d \in dialogos, CancelLastSale(d) PROVE VendidasFora'
  <2>1. /\ dialogos' = dialogos \ {d} /\ Viva' = Viva /\ UNCHANGED <<vendas, sessao>>
    BY <1>5 DEF CancelLastSale, conta, Viva
  <2> QED
    BY <1>a, <2>1, SemVenda
<1>6. ASSUME NEW a \in BOOLEAN, NEW c \in BOOLEAN, NEW retoma \in BOOLEAN,
             ShowSale(a, c, retoma)
      PROVE  VendidasFora'
  <2>1. /\ sessao' = sessao + 1 /\ UNCHANGED <<vendas, carrinho, linhas>>
        /\ \A d \in dialogos : ~Pagam(d)
    BY <1>a, <1>6 DEF ShowSale, Viva, compra
  <2>2. \A d \in dialogos' : ~Pagam(d)
    BY <1>6, <2>1 DEF ShowSale, Novo, Pagam
  <2>3. \A v \in vendas : v.sessao <= sessao' /\ v.sessao # sessao'
    BY <1>0, <2>1 DEF VendidasFora
  <2>4. \A k : ~Vendida(k)'
    BY <2>1, <2>3 DEF Vendida
  <2>5. \A l \in carrinho' : Livres({l.chave})'
    BY <2>1, <2>4 DEF VendidasFora, Livres
  <2>6. CarrinhoVendidoUmaVez'
    BY <2>1 DEF VendidasFora, CarrinhoVendidoUmaVez
  <2> QED
    BY <2>1, <2>2, <2>3, <2>4, <2>5, <2>6 DEF VendidasFora, Pagam
<1>7. ASSUME NEW ds \in SUBSET dialogos, ClearSessionViews(ds) PROVE VendidasFora'
  <2>1. /\ ~Viva' /\ UNCHANGED <<vendas, sessao>>
        /\ \A d \in dialogos' : ~Pagam(d)
    BY <1>7 DEF ClearSessionViews, DaTela, Pagam, Viva
  <2> QED
    BY <2>1, SemVenda
<1> QED
  BY <1>1, <1>2, <1>3, <1>4, <1>5, <1>6, <1>7, EfeitoNosPagamentos

(* What CarrinhoVendidoUmaVez needs and the screen does not ensure: while  *)
(* there is at most one payment, or approval of one, at a time, and no     *)
(* confirmation fails after its sale was written, no line is sold twice,   *)
(* whatever else is scanned, edited or answered.                           *)
THEOREM PagamentoUnicoVendeUmaVez ==
    Spec /\ []UmPagamento /\ [][\A d \in dialogos : ~ConfirmPaymentFails(d)]_vars
      => []CarrinhoVendidoUmaVez
<1>1. Init => VendidasFora
  BY DEF Init, Viva, VendidasFora, CarrinhoVendidoUmaVez
<1>2. IInv /\ VendidasFora /\ UmPagamento /\ [Next]_vars
        /\ [\A d \in dialogos : ~ConfirmPaymentFails(d)]_vars => VendidasFora'
  <2>1. CASE UNCHANGED vars
    BY <2>1 DEF vars, conta, loja, compra, VendidasFora, Livres, Vendida, Viva,
                Pagam, CarrinhoVendidoUmaVez
  <2> QED
    BY <2>1, VendidasForaMantido
<1>3. VendidasFora => CarrinhoVendidoUmaVez
  BY DEF VendidasFora
<1> QED
  BY <1>1, <1>2, <1>3, Invariante, PTL DEF Spec

-----------------------------------------------------------------------------
(* The dialogs of items                                                    *)

\* Dialogs that put a line in the cart for the sale they were opened in.
DeItem == {"preco", "manual", "peso", "aprovaPreco", "aprovaCadastro"}

\* Dialogs and lines are of the sale with generation g.
Fichado(ds, ls, g) ==
    /\ \A d \in ds : d.tipo \in DeItem => d.ref.geracao = g
    /\ \A l \in ls : l.fichas \subseteq {g}

LEMMA AbreFichado ==
    ASSUME NEW g, NEW ls, NEW ds, NEW tipo, NEW ref, Fichado(ds, ls, g),
           tipo \in DeItem => ref.geracao = g
    PROVE  Fichado(Abertos(ds, tipo, ref), ls, g)
  BY DEF Fichado, DeItem, Abertos, Novo

LEMMA ProdutoFichado ==
    ASSUME CompraT, NEW ds, Fichado(ds, carrinho, fila.geracao), NEW r, NEW c, NEW lida,
           NEW ficha \in SUBSET {fila.geracao}, AddProduct(r, c, lida, ficha, ds)
    PROVE  Fichado(dialogos', carrinho', fila.geracao)
<1> DEFINE g == fila.geracao
<1>1. CASE LinhaIncluida(c, lida, ficha) /\ dialogos' = ds
  <2>1. \A l \in carrinho' : l.fichas \subseteq {g}
    <3>1. ASSUME \E l \in carrinho : Igual(l, c)
          PROVE  \A l \in carrinho' : l.fichas \subseteq {g}
      <4> DEFINE l == CHOOSE x \in carrinho : Igual(x, c)
                 n == [l EXCEPT !.lidas = @ \cup lida, !.fichas = @ \cup ficha]
      <4>1. l \in carrinho
        BY <3>1
      <4>2. carrinho' = (carrinho \ {l}) \cup {n}
        BY <1>1, <3>1 DEF LinhaIncluida
      <4> HIDE DEF l
      <4>3. n.fichas = l.fichas \cup ficha
        BY <4>1 DEF CompraT, Linha
      <4> HIDE DEF n
      <4> QED
        BY <4>1, <4>2, <4>3 DEF Fichado
    <3>2. ASSUME ~\E l \in carrinho : Igual(l, c)
          PROVE  \A l \in carrinho' : l.fichas \subseteq {g}
      <4> DEFINE n == [chave |-> linhas + 1, codigo |-> c, alterado |-> FALSE,
                       lidas |-> lida, fichas |-> ficha]
      <4>1. carrinho' = carrinho \cup {n} /\ n.fichas = ficha
        BY <1>1, <3>2 DEF LinhaIncluida
      <4> HIDE DEF n
      <4> QED
        BY <4>1 DEF Fichado
    <3> QED
      BY <3>1, <3>2
  <2> QED
    BY <1>1, <2>1 DEF Fichado
<1>2. CASE /\ dialogos' = Abertos(ds, r, [Sem EXCEPT !.codigo = c, !.geracao = g])
           /\ UNCHANGED compra
  <2>1. [Sem EXCEPT !.codigo = c, !.geracao = g].geracao = g
    BY DEF Sem
  <2> QED
    BY <1>2, <2>1, AbreFichado DEF compra
<1> QED
  BY <1>1, <1>2 DEF AddProduct

\* Of the steps that go on with a sale, none breaks it.
LEMMA PassoFichado ==
    ASSUME CompraT, LeitorT, DialogosT, Fichado(dialogos, carrinho, fila.geracao), [Next]_vars
    PROVE  \/ fila'.geracao = fila.geracao /\ Fichado(dialogos', carrinho', fila.geracao)
           \/ \E d \in dialogos : ConfirmPayment(d)
           \/ \E ds \in SUBSET dialogos : ClearSessionViews(ds)
<1> DEFINE g == fila.geracao
           Meta == fila'.geracao = g /\ Fichado(dialogos', carrinho', g)
<1>a. ASSUME NEW ds \in SUBSET dialogos, carrinho' = carrinho, fila'.geracao = g,
             \/ dialogos' = ds
             \/ \E tipo, ref : /\ tipo \notin DeItem \/ ref.geracao = g
                               /\ dialogos' = Abertos(ds, tipo, ref)
      PROVE  Meta
  <2>1. Fichado(ds, carrinho, g)
    BY DEF Fichado
  <2> QED
    BY <1>a, <2>1, AbreFichado
<1>b. ASSUME NEW ds \in SUBSET dialogos, NEW r, NEW c, NEW lida,
             NEW ficha \in SUBSET {g}, AddProduct(r, c, lida, ficha, ds), fila'.geracao = g
      PROVE  Meta
  <2>1. Fichado(ds, carrinho, g)
    BY DEF Fichado
  <2> QED
    BY <1>b, <2>1, ProdutoFichado
<1>1. CASE Leitor
  <2>0. fila \in FilaT
    BY DEF LeitorT
  <2>1. ASSUME NEW r \in Produto, PollScanResults(r) PROVE Meta
    <3> DEFINE t == Head(respostas)
    <3>1. fila'.geracao = g
      BY <2>0, <2>1, FilaMantida DEF PollScanResults
    <3>2. UNCHANGED <<compra, dialogos>> \/ Dispatch(t, r)
      BY <2>1 DEF PollScanResults
    <3> HIDE DEF t
    <3>3. CASE UNCHANGED <<compra, dialogos>>
      BY <1>a, <3>1, <3>3 DEF compra
    <3>4. CASE AddProduct(r, t.codigo, {t.geracao}, {}, dialogos)
      BY <1>b, <3>1, <3>4
    <3>5. CASE /\ dialogos' = Abertos(dialogos, "manual",
                       [Sem EXCEPT !.codigo = t.codigo, !.geracao = g])
               /\ UNCHANGED compra
      <4>1. [Sem EXCEPT !.codigo = t.codigo, !.geracao = g].geracao = g
        BY DEF Sem
      <4> QED
        BY <1>a, <3>1, <3>5, <4>1 DEF compra
    <3> QED
      BY <3>2, <3>3, <3>4, <3>5 DEF Dispatch
  <2>2. ASSUME NEW f \in FilaT, NEW a, f.geracao = g, StartNextScan(f, a)
        PROVE  fila'.geracao = g
    <3>1. inflight = Nenhum /\ HasPending(f) /\ f.ativo = Nenhum => f.pendentes # <<>>
      BY DEF HasPending
    <3> QED
      BY <2>2, <3>1, FilaMantida DEF StartNextScan
  <2>3. ASSUME NEW c \in Codigos, HandleGtin(c) PROVE Meta
    <3>1. Enqueue(fila, c) \in FilaT /\ Enqueue(fila, c).geracao = g
      BY <2>0, <2>3, FilaMantida DEF HandleGtin
    <3> QED
      BY <1>a, <2>2, <2>3, <3>1 DEF HandleGtin, compra
  <2>4. CASE Resume
    BY <1>a, <2>0, <2>2, <2>4 DEF Resume, compra
  <2>5. ASSUME NEW t \in lendo, LookUp(t) PROVE Meta
    BY <1>a, <2>5 DEF LookUp, compra
  <2> QED
    BY <1>1, <2>1, <2>3, <2>4, <2>5 DEF Leitor
<1>2. CASE Compra
  <2>1. ASSUME NEW c \in Codigos, NEW r \in Produto, QuickProduct(c, r) PROVE Meta
    BY <1>b, <2>1 DEF QuickProduct, leitor
  <2>2. ASSUME NEW l \in carrinho, ShortcutCancel(l) PROVE Meta
    <3>1. CASE RemoveLine(l.chave) /\ dialogos' = dialogos
      BY <2>2, <3>1 DEF ShortcutCancel, RemoveLine, leitor, Fichado
    <3> QED
      BY <1>a, <2>2, <3>1 DEF ShortcutCancel, Mostra, compra, leitor, DeItem
  <2>3. CASE \/ ShortcutSearch \/ ShortcutManualItem \/ RequestLastSaleCancellation
             \/ \E l \in carrinho : ShortcutEdit(l)
    BY <1>a, <2>3 DEF ShortcutSearch, ShortcutManualItem, RequestLastSaleCancellation,
       ShortcutEdit, Mostra, compra, leitor, DeItem
  <2>4. ASSUME NEW e \in BOOLEAN, ShortcutPayment(e) PROVE Meta
    BY <1>a, <2>4 DEF ShortcutPayment, Mostra, compra, leitor, DeItem
  <2> QED
    BY <1>2, <2>1, <2>2, <2>3, <2>4 DEF Compra
<1>3. ASSUME Telas, ~ClearSessionViews(dialogos) PROVE Meta
  <2>1. ASSUME NEW a \in BOOLEAN, NEW c \in BOOLEAN, NEW retoma \in BOOLEAN,
               ShowSale(a, c, retoma)
        PROVE  Meta
    BY <2>1 DEF ShowSale, Novo, compra, leitor, Fichado, DeItem
  <2>2. CASE OpenCashActions
    BY <1>a, <2>2 DEF OpenCashActions, Mostra, compra, leitor, DeItem
  <2>3. CASE RequestLogout
    BY <1>a, <1>3, <2>3 DEF RequestLogout, Mostra, compra, leitor, DeItem
  <2>4. CASE ShowAdmin \/ BackToSale
    BY <1>a, <2>4 DEF ShowAdmin, BackToSale, compra, leitor
  <2> QED
    BY <1>3, <2>1, <2>2, <2>3, <2>4 DEF Telas
<1>4. ASSUME NEW d \in dialogos, NoDialogo(d), ~ConfirmPayment(d), ~ConfirmLogout(d)
      PROVE  Meta
  <2>0. d.tipo \in DeItem => d.ref.geracao = g
    BY DEF Fichado
  <2>1. CASE FinishOpen(d)
    <3> DEFINE e == [d EXCEPT !.novo = FALSE]
    <3>1. e.tipo = d.tipo /\ e.ref = d.ref
      BY DEF DialogosT, DialogoOK
    <3>2. dialogos' = (dialogos \ {d}) \cup {e} /\ UNCHANGED <<compra, leitor>>
      BY <2>1 DEF FinishOpen
    <3> HIDE DEF e
    <3> QED
      BY <3>1, <3>2 DEF Fichado, DeItem, compra, leitor
  <2>2. ASSUME NEW r \in Produto, SubmitItem(d, r) PROVE Meta
    <3>1. CASE /\ AddProduct(r, d.ref.codigo, {}, {d.ref.geracao}, dialogos \ {d})
               /\ d.tipo \in DeItem
      BY <1>b, <2>0, <2>2, <3>1 DEF SubmitItem, leitor
    <3>2. CASE /\ UNCHANGED compra /\ d.tipo \in DeItem
               /\ \E tipo : Mostra(tipo, [Sem EXCEPT !.codigo = d.ref.codigo,
                            !.geracao = d.ref.geracao, !.origem = d.id])
      <4>1. [Sem EXCEPT !.codigo = d.ref.codigo, !.geracao = d.ref.geracao,
                        !.origem = d.id].geracao = g
        BY <2>0, <3>2 DEF Sem
      <4> QED
        BY <1>a, <2>2, <3>2, <4>1 DEF SubmitItem, Mostra, leitor, compra
    <3> QED
      BY <2>2, <3>1, <3>2 DEF SubmitItem, DeItem
  <2>3. ASSUME NEW r \in Produto, Approve(d, r) PROVE Meta
    <3> DEFINE resto == {e \in dialogos : e.id \notin {d.id, d.ref.origem}}
    <3>1. AddProduct(r, d.ref.codigo, {}, {d.ref.geracao}, resto) /\ d.tipo \in DeItem
      BY <2>3 DEF Approve, DeItem
    <3>2. resto \in SUBSET dialogos /\ fila' = fila
      BY <2>3 DEF Approve, leitor
    <3> HIDE DEF resto
    <3> QED
      BY <1>b, <2>0, <3>1, <3>2
  <2>4. ASSUME NEW c \in Codigos, NEW r \in Produto, SelectProduct(d, c, r) PROVE Meta
    BY <1>b, <2>4 DEF SelectProduct, leitor
  <2>5. CASE IncludeManualItem(d)
    <3> DEFINE n == [chave |-> linhas + 1, codigo |-> Nenhum, alterado |-> TRUE,
                     lidas |-> {}, fichas |-> {}]
    <3>1. carrinho' = carrinho \cup {n} /\ n.fichas = {}
      BY <2>5 DEF IncludeManualItem
    <3> HIDE DEF n
    <3> QED
      BY <2>5, <3>1 DEF IncludeManualItem, Fichado, leitor
  <2>6. CASE ApplyEdit(d)
    <3> DEFINE n(l) == IF l.chave = d.ref.linha THEN [l EXCEPT !.alterado = TRUE] ELSE l
    <3>1. carrinho' = {n(l) : l \in carrinho}
      BY <2>6 DEF ApplyEdit
    <3>2. \A l \in carrinho : n(l).fichas = l.fichas
      BY DEF CompraT, Linha
    <3> HIDE DEF n
    <3> QED
      BY <2>6, <3>1, <3>2 DEF ApplyEdit, Fichado, leitor
  <2>7. CASE AuthorizeItemCancel(d)
    BY <2>7 DEF AuthorizeItemCancel, RemoveLine, Fichado, leitor
  <2>8. CASE AuthorizeSale(d)
    BY <2>8 DEF AuthorizeSale, Abertos, Novo, Fichado, DeItem, compra, leitor
  <2>9. CASE SelectMovement(d) \/ RequestCashClose(d)
    BY <1>a, <2>9 DEF SelectMovement, RequestCashClose, DeItem, compra, leitor
  <2>10. CASE \/ Cancel(d) \/ ConfirmPaymentFails(d) \/ CancelLastSale(d)
              \/ OpenCash(d) \/ CloseCash(d)
    BY <1>a, <2>10 DEF Cancel, ConfirmPaymentFails, CancelLastSale, OpenCash, CloseCash,
       compra, leitor
  <2> QED
    BY <1>4, <2>1, <2>2, <2>3, <2>4, <2>5, <2>6, <2>7, <2>8, <2>9, <2>10 DEF NoDialogo
<1>5. ASSUME NEW d \in dialogos, ConfirmLogout(d)
      PROVE  \E ds \in SUBSET dialogos : ClearSessionViews(ds)
  BY <1>5 DEF ConfirmLogout
<1>6. CASE UNCHANGED vars
  BY <1>a, <1>6 DEF vars, compra, leitor
<1> QED
  BY <1>1, <1>2, <1>3, <1>4, <1>5, <1>6 DEF Next

(* What FichaDaVenda needs and the screen does not ensure: where no        *)
(* payment is confirmed while the dialog of an item, or the approval of    *)
(* one, is open, every line that came from a dialog came from one opened   *)
(* for the sale it is in.                                                  *)
THEOREM FichaSemPagamento ==
    Spec /\ [][\A d, e \in dialogos : ConfirmPayment(d) => e.tipo \notin DeItem]_vars
      => []FichaDaVenda
<1> DEFINE I == Fichado(dialogos, carrinho, fila.geracao)
           Sozinho == \A d, e \in dialogos : ConfirmPayment(d) => e.tipo \notin DeItem
<1>1. Init => I
  BY DEF Init, Fichado
<1>2. IInv /\ I /\ [Next]_vars /\ [Sozinho]_vars => I'
  <2> SUFFICES ASSUME IInv, I, [Next]_vars, [Sozinho]_vars PROVE I'
    OBVIOUS
  <2>0. CompraT /\ LeitorT /\ DialogosT
    BY Partes DEF IInv
  <2>1. CASE UNCHANGED vars
    BY <2>1 DEF vars, compra, leitor, Fichado
  <2>2. ASSUME NEW d \in dialogos, ConfirmPayment(d), Sozinho PROVE I'
    BY <2>2 DEF ConfirmPayment, Fichado
  <2>3. ASSUME NEW ds \in SUBSET dialogos, ClearSessionViews(ds) PROVE I'
    BY <2>3 DEF ClearSessionViews, DaTela, Fichado, DeItem
  <2> QED
    BY <2>0, <2>1, <2>2, <2>3, PassoFichado
<1>3. I => FichaDaVenda
  BY DEF Fichado, FichaDaVenda
<1> QED
  BY <1>1, <1>2, <1>3, Invariante, PTL DEF Spec
=============================================================================
