----------------------------- MODULE PDVProofs -----------------------------
(***************************************************************************)
(* Theorems of the books of the point of sale, for any users, catalogue,   *)
(* carts, amounts and keys, and any number of drawers and sales.           *)
(*                                                                         *)
(* First the laws of sums over finite functions the books are added up     *)
(* with; then Next read by its effects on the tables, their types, and one *)
(* part for each property; last, that the tables implement the abstract    *)
(* drawer of Gaveta.                                                       *)
(***************************************************************************)
EXTENDS PDVGaveta, UsuariosProofs, FiniteSetTheorems

-----------------------------------------------------------------------------
(* Sums of finite functions                                                *)
(*                                                                         *)
(* SumFunction adds the terms in the order a CHOOSE takes them.  The laws  *)
(* below say that the order does not matter; each is proved on a subset    *)
(* that would be the smallest to break it.                                 *)

Primeiro(s) == CHOOSE x \in s : TRUE

\* g gives the sum of f over each part of S.
Parciais(f, S, g) ==
    g = [s \in SUBSET S |->
           IF s = {} THEN 0 ELSE f[Primeiro(s)] + g[s \ {Primeiro(s)}]]

LEMMA MenorParte ==
    ASSUME NEW S, IsFiniteSet(S), NEW T, T \subseteq SUBSET S, T # {}
    PROVE  \E s \in T : \A t \in T : t \subseteq s => t = s
<1>1. IsWellFoundedOn(StrictSubsetOrdering(S), SUBSET S)
  BY FS_StrictSubsetOrderingWellFounded, FS_FiniteSubsetsOfFinite
<1>2. \E s \in T : \A t \in T : ~ (<<t, s>> \in StrictSubsetOrdering(S))
  BY <1>1, WFMin
<1> QED
  BY <1>2 DEF StrictSubsetOrdering

LEMMA UmTermo ==
    ASSUME NEW f, NEW S, NEW g, Parciais(f, S, g), NEW s \in SUBSET S
    PROVE  /\ s = {} => g[s] = 0
           /\ s # {} => /\ Primeiro(s) \in s
                        /\ g[s] = f[Primeiro(s)] + g[s \ {Primeiro(s)}]
<1>1. g[s] = IF s = {} THEN 0 ELSE f[Primeiro(s)] + g[s \ {Primeiro(s)}]
  BY DEF Parciais
<1>2. s # {} => Primeiro(s) \in s
  BY DEF Primeiro
<1> QED
  BY <1>1, <1>2

(* Functions that agree on T have the same sums over the parts of T.       *)
LEMMA ParciaisIguais ==
    ASSUME NEW S, NEW T, T \subseteq S, IsFiniteSet(T), NEW f, NEW e, NEW g, NEW h,
           Parciais(f, S, g), Parciais(e, T, h), \A x \in T : f[x] = e[x]
    PROVE  \A s \in SUBSET T : g[s] = h[s]
<1> DEFINE Ruins == {s \in SUBSET T : g[s] # h[s]}
<1> SUFFICES ASSUME Ruins # {} PROVE FALSE
  OBVIOUS
<1>1. PICK s \in Ruins : \A t \in Ruins : t \subseteq s => t = s
  <2>1. Ruins \subseteq SUBSET T
    OBVIOUS
  <2> HIDE DEF Ruins
  <2> QED
    BY <2>1, MenorParte
<1>2. s \in SUBSET T /\ s \in SUBSET S
  OBVIOUS
<1>3. s # {}
  BY <1>2, UmTermo
<1> DEFINE c == Primeiro(s)
<1>4. c \in s /\ g[s] = f[c] + g[s \ {c}] /\ h[s] = e[c] + h[s \ {c}]
  <2>1. c \in s /\ g[s] = f[c] + g[s \ {c}]
    BY <1>2, <1>3, UmTermo
  <2>2. h[s] = e[c] + h[s \ {c}]
    BY <1>2, <1>3, UmTermo
  <2> QED
    BY <2>1, <2>2
<1> HIDE DEF c
<1>5. s \ {c} \notin Ruins
  BY <1>1, <1>4
<1>6. g[s \ {c}] = h[s \ {c}] /\ f[c] = e[c]
  BY <1>2, <1>4, <1>5
<1> QED
  BY <1>4, <1>6

LEMMA HaParciais ==
    ASSUME NEW f, NEW S, IsFiniteSet(S)
    PROVE  \E g : Parciais(f, S, g)
<1> DEFINE Ruins == {T \in SUBSET S : \A g : ~Parciais(f, T, g)}
<1> SUFFICES ASSUME Ruins # {} PROVE FALSE
  OBVIOUS
<1>1. PICK T \in Ruins : \A U \in Ruins : U \subseteq T => U = T
  <2>1. Ruins \subseteq SUBSET S
    OBVIOUS
  <2> HIDE DEF Ruins
  <2> QED
    BY <2>1, MenorParte
<1>2. T \in SUBSET S /\ \A g : ~Parciais(f, T, g)
  OBVIOUS
<1> DEFINE G(U) == CHOOSE g : Parciais(f, U, g)
           k == [s \in SUBSET T |->
                   IF s = {} THEN 0
                   ELSE f[Primeiro(s)] + G(s \ {Primeiro(s)})[s \ {Primeiro(s)}]]
<1>3. ASSUME NEW U \in SUBSET T, U # T PROVE Parciais(f, U, G(U))
  <2>1. U \notin Ruins
    BY <1>1, <1>3
  <2>2. \E g : Parciais(f, U, g)
    BY <1>2, <2>1
  <2> QED
    BY <2>2
<1>4. ASSUME NEW s \in SUBSET T, s # T PROVE k[s] = G(s)[s]
  <2>1. Parciais(f, s, G(s))
    BY <1>3, <1>4
  <2> HIDE DEF G
  <2>2. CASE s = {}
    BY <2>1, <2>2, UmTermo
  <2>3. CASE s # {}
    <3> DEFINE u == s \ {Primeiro(s)}
    <3>1. Primeiro(s) \in s /\ G(s)[s] = f[Primeiro(s)] + G(s)[u]
      BY <2>1, <2>3, UmTermo
    <3>2. Parciais(f, u, G(u))
      BY <1>3, <1>4, <3>1
    <3>3. u \subseteq s /\ IsFiniteSet(u)
      BY <1>2, FS_Subset
    <3>4. G(s)[u] = G(u)[u]
      <4>1. \A x \in u : f[x] = f[x]
        OBVIOUS
      <4> HIDE DEF u
      <4> QED
        BY ONLY <2>1, <3>2, <3>3, <4>1, ParciaisIguais
    <3> QED
      BY <2>3, <3>1, <3>4
  <2> QED
    BY <2>2, <2>3
<1>5. ASSUME NEW s \in SUBSET T
      PROVE  k[s] = IF s = {} THEN 0 ELSE f[Primeiro(s)] + k[s \ {Primeiro(s)}]
  <2>1. CASE s # {}
    <3>1. Primeiro(s) \in s
      BY <2>1 DEF Primeiro
    <3>2. s \ {Primeiro(s)} \in SUBSET T /\ s \ {Primeiro(s)} # T
      BY <3>1
    <3>3. k[s \ {Primeiro(s)}] = G(s \ {Primeiro(s)})[s \ {Primeiro(s)}]
      BY <1>4, <3>2
    <3> QED
      BY <2>1, <3>3
  <2> QED
    BY <2>1
<1>6. Parciais(f, T, k)
  <2>1. k = [s \in SUBSET T |-> k[s]]
    OBVIOUS
  <2> HIDE DEF k
  <2> QED
    BY <1>5, <2>1 DEF Parciais
<1> QED
  BY <1>2, <1>6

LEMMA ParciaisInteiras ==
    ASSUME NEW S, IsFiniteSet(S), NEW f, NEW g, Parciais(f, S, g),
           NEW Z \in {Nat, Int}, \A x \in S : f[x] \in Z
    PROVE  \A s \in SUBSET S : g[s] \in Z
<1> DEFINE Ruins == {s \in SUBSET S : g[s] \notin Z}
<1> SUFFICES ASSUME Ruins # {} PROVE FALSE
  OBVIOUS
<1>1. PICK s \in Ruins : \A t \in Ruins : t \subseteq s => t = s
  <2>1. Ruins \subseteq SUBSET S
    OBVIOUS
  <2> HIDE DEF Ruins
  <2> QED
    BY <2>1, MenorParte
<1>2. s \in SUBSET S /\ g[s] \notin Z /\ 0 \in Z
  OBVIOUS
<1>3. s # {}
  BY <1>2, UmTermo
<1> DEFINE c == Primeiro(s)
<1>4. c \in s /\ g[s] = f[c] + g[s \ {c}]
  BY ONLY Parciais(f, S, g), <1>2, <1>3, UmTermo
<1> HIDE DEF c
<1>5. g[s \ {c}] \in Z /\ f[c] \in Z
  BY <1>1, <1>2, <1>4
<1>6. \A a, b \in Z : a + b \in Z
  OBVIOUS
<1> QED
  BY <1>2, <1>4, <1>5, <1>6

(* Any term may be taken out first.                                        *)
LEMMA QualquerTermo ==
    ASSUME NEW S, IsFiniteSet(S), NEW f, NEW g, Parciais(f, S, g),
           \A x \in S : f[x] \in Int
    PROVE  \A s \in SUBSET S : \A x \in s : g[s] = f[x] + g[s \ {x}]
<1> DEFINE Ruins == {s \in SUBSET S : \E x \in s : g[s] # f[x] + g[s \ {x}]}
<1> SUFFICES ASSUME Ruins # {} PROVE FALSE
  OBVIOUS
<1>1. PICK s \in Ruins : \A t \in Ruins : t \subseteq s => t = s
  <2>1. Ruins \subseteq SUBSET S
    OBVIOUS
  <2> HIDE DEF Ruins
  <2> QED
    BY <2>1, MenorParte
<1>2. s \in SUBSET S
  OBVIOUS
<1>3. PICK x \in s : g[s] # f[x] + g[s \ {x}]
  OBVIOUS
<1> DEFINE c == Primeiro(s)
<1>4. c \in s /\ g[s] = f[c] + g[s \ {c}]
  BY <1>2, <1>3, UmTermo
<1> HIDE DEF c
<1>5. c # x
  BY <1>3, <1>4
<1>6. \A t \in SUBSET S : t \subseteq s /\ t # s => \A y \in t : g[t] = f[y] + g[t \ {y}]
  BY <1>1
<1> HIDE DEF Ruins
<1>7. PICK u : u = s \ {c, x}
  OBVIOUS
<1>8. /\ u \in SUBSET S /\ s \ {c} \in SUBSET S /\ s \ {x} \in SUBSET S
      /\ (s \ {c}) \ {x} = u /\ (s \ {x}) \ {c} = u
  BY <1>2, <1>7
<1>9. g[s \ {c}] = f[x] + g[u] /\ g[s \ {x}] = f[c] + g[u]
  BY <1>4, <1>5, <1>6, <1>8
<1>10. f[x] \in Int /\ f[c] \in Int /\ g[u] \in Int
  BY <1>2, <1>4, <1>8, ParciaisInteiras
<1>11. \A i, j, k \in Int : i + (j + k) = j + (i + k)
  OBVIOUS
<1>12. f[c] + g[s \ {c}] = f[x] + g[s \ {x}]
  BY ONLY <1>9, <1>10, <1>11
<1> QED
  BY ONLY <1>3, <1>4, <1>12

LEMMA SomaTotal ==
    ASSUME NEW f, IsFiniteSet(DOMAIN f)
    PROVE  \E g : Parciais(f, DOMAIN f, g) /\ SumFunction(f) = g[DOMAIN f]
<1> DEFINE G == CHOOSE g : g = [s \in SUBSET DOMAIN f |->
                                 IF s = {} THEN 0
                                 ELSE LET x == CHOOSE x \in s : TRUE
                                      IN  f[x] + g[s \ {x}]]
<1>1. SumFunction(f) = G[DOMAIN f]
  BY DEF SumFunction, SumFunctionOnSet, FoldFunctionOnSet, MapThenFoldSet
<1>2. Parciais(f, DOMAIN f, G)
  <2>1. \E g : Parciais(f, DOMAIN f, g)
    BY HaParciais
  <2> QED
    BY <2>1 DEF Parciais, Primeiro
<1> QED
  BY <1>1, <1>2

(* The sum of nothing.                                                     *)
LEMMA SomaVazia ==
    ASSUME NEW f, DOMAIN f = {}
    PROVE  SumFunction(f) = 0
<1>1. PICK g : Parciais(f, DOMAIN f, g) /\ SumFunction(f) = g[DOMAIN f]
  BY FS_EmptySet, SomaTotal
<1> QED
  BY <1>1, UmTermo

LEMMA SomaInteira ==
    ASSUME NEW S, IsFiniteSet(S), NEW f \in [S -> Int]
    PROVE  SumFunction(f) \in Int
<1>1. PICK g : Parciais(f, S, g) /\ SumFunction(f) = g[S]
  BY SomaTotal
<1> QED
  BY <1>1, ParciaisInteiras

LEMMA SomaNatural ==
    ASSUME NEW S, IsFiniteSet(S), NEW f \in [S -> Nat]
    PROVE  SumFunction(f) \in Nat
<1>1. PICK g : Parciais(f, S, g) /\ SumFunction(f) = g[S]
  BY SomaTotal
<1> QED
  BY <1>1, ParciaisInteiras

(* One more term.                                                          *)
LEMMA SomaMais ==
    ASSUME NEW S, IsFiniteSet(S), NEW f \in [S -> Int], NEW x \in S,
           NEW e, e = [y \in S \ {x} |-> f[y]]
    PROVE  SumFunction(f) = f[x] + SumFunction(e)
<1> DEFINE T == S \ {x}
<1>1. T \in SUBSET S /\ IsFiniteSet(T) /\ DOMAIN e = T /\ DOMAIN f = S
  BY FS_Subset
<1>2. PICK g : Parciais(f, S, g) /\ SumFunction(f) = g[S]
  BY <1>1, SomaTotal
<1>3. PICK h : Parciais(e, T, h) /\ SumFunction(e) = h[T]
  BY <1>1, SomaTotal
<1>4. g[S] = f[x] + g[T]
  BY <1>2, QualquerTermo
<1>5. \A y \in T : f[y] = e[y]
  OBVIOUS
<1> HIDE DEF T
<1>6. g[T] = h[T]
  BY <1>1, <1>2, <1>3, <1>5, ParciaisIguais
<1> QED
  BY <1>2, <1>3, <1>4, <1>6

LEMMA SomaCresce ==
    ASSUME NEW S, IsFiniteSet(S), NEW f \in [S -> Int], NEW x, x \notin S,
           NEW e \in [S \cup {x} -> Int], \A y \in S : e[y] = f[y]
    PROVE  SumFunction(e) = SumFunction(f) + e[x]
<1>1. IsFiniteSet(S \cup {x}) /\ f = [y \in (S \cup {x}) \ {x} |-> e[y]]
  BY FS_AddElement
<1>2. SumFunction(e) = e[x] + SumFunction(f)
  BY <1>1, SomaMais
<1>3. SumFunction(f) \in Int
  BY SomaInteira
<1> QED
  BY <1>2, <1>3

LEMMA SomaMuda ==
    ASSUME NEW S, IsFiniteSet(S), NEW f \in [S -> Int], NEW e \in [S -> Int],
           NEW x \in S, \A y \in S : y # x => e[y] = f[y]
    PROVE  SumFunction(e) = SumFunction(f) - f[x] + e[x]
<1>1. PICK r : r = [y \in S \ {x} |-> f[y]]
  OBVIOUS
<1>2. r = [y \in S \ {x} |-> e[y]] /\ r \in [S \ {x} -> Int] /\ IsFiniteSet(S \ {x})
  BY <1>1, FS_Subset
<1>3. SumFunction(f) = f[x] + SumFunction(r)
  BY <1>1, SomaMais
<1>4. SumFunction(e) = e[x] + SumFunction(r)
  BY <1>2, SomaMais
<1>5. SumFunction(r) \in Int
  BY <1>2, SomaInteira
<1> QED
  BY <1>3, <1>4, <1>5

LEMMA SomaPositiva ==
    ASSUME NEW S, IsFiniteSet(S), S # {}, NEW f \in [S -> Nat \ {0}]
    PROVE  SumFunction(f) \in Nat \ {0}
<1>1. PICK x \in S : TRUE
  OBVIOUS
<1> DEFINE r == [y \in S \ {x} |-> f[y]]
<1>2. r \in [S \ {x} -> Nat] /\ IsFiniteSet(S \ {x}) /\ f \in [S -> Int]
  BY FS_Subset
<1>3. SumFunction(f) = f[x] + SumFunction(r)
  BY <1>2, SomaMais
<1>4. SumFunction(r) \in Nat
  BY <1>2, SomaNatural
<1>5. f[x] \in Nat \ {0}
  OBVIOUS
<1> QED
  BY <1>3, <1>4, <1>5

-----------------------------------------------------------------------------
(* Tables are sequences that grow at the end or change in one row.         *)

LEMMA Acrescimo ==
    ASSUME NEW S, NEW s \in Seq(S), NEW e \in S
    PROVE  /\ Append(s, e) \in Seq(S)
           /\ Len(s) \in Nat /\ DOMAIN s = 1..Len(s)
           /\ DOMAIN Append(s, e) = 1..(Len(s) + 1)
           /\ \A i \in DOMAIN s : Append(s, e)[i] = s[i] /\ s[i] \in S
           /\ Append(s, e)[Len(s) + 1] = e
  OBVIOUS

LEMMA Linha ==
    ASSUME NEW S, NEW s \in Seq(S), NEW i \in DOMAIN s
    PROVE  s[i] \in S
  OBVIOUS

LEMMA TabelaFinita ==
    ASSUME NEW S, NEW s \in Seq(S)
    PROVE  IsFiniteSet(DOMAIN s)
<1>1. DOMAIN s = 1..Len(s) /\ 1 \in Int /\ Len(s) \in Int
  OBVIOUS
<1> QED
  BY <1>1, FS_Interval

LEMMA Troca ==
    ASSUME NEW S, NEW s \in Seq(S), NEW i \in DOMAIN s, NEW e \in S
    PROVE  /\ [s EXCEPT ![i] = e] \in Seq(S)
           /\ DOMAIN [s EXCEPT ![i] = e] = DOMAIN s
           /\ [s EXCEPT ![i] = e][i] = e
           /\ \A k \in DOMAIN s : k # i => [s EXCEPT ![i] = e][k] = s[k]
  OBVIOUS

-----------------------------------------------------------------------------
(* Steps by their effect on the books.                                     *)


\* The sales a quotation may become.
NovaT(linhas) ==
    [caixa : Nat \ {0}, operador : Usuario, linhas : {linhas},
     total : {Total(linhas)}, pagamento : FormaPagamento,
     recebido : Recebidos \cup {Total(linhas)},
     autorizador : Usuario \cup {Nulo}, motivo : Motivos \cup {Nulo},
     chave : ChavesVenda, status : {"CONFIRMADA"}, baixa : {Baixa(linhas)}]

AutorizacaoExata(venda) ==
    IF RequiresAuthorization(venda.linhas)
    THEN venda.autorizador # Nulo /\ RequireAdmin(venda.autorizador) /\ venda.motivo # Nulo
    ELSE venda.autorizador = Nulo /\ venda.motivo = Nulo

Abre ==
    \E dono \in Usuario, fundo \in Fundos :
        /\ GavetaLivre(dono)
        /\ caixas' = Append(caixas,
                       [usuario |-> dono, fundo |-> fundo, status |-> "ABERTO",
                        informado |-> Nulo, esperado |-> Nulo,
                        justificado |-> FALSE])
        /\ UNCHANGED <<produtos, movimentacoes, vendas, cancelamentos,
                       impressoes, backups>>

Movimenta ==
    \E novo \in MovimentoT :
        /\ novo.caixa \in Abertos
        /\ MesmaChave(movimentacoes, novo.chave) = {}
        /\ movimentacoes' = Append(movimentacoes, novo)
        /\ UNCHANGED <<produtos, caixas, vendas, cancelamentos, impressoes, backups>>

Fecha ==
    \E a \in Usuario, c \in Abertos, contado \in Contagens, justificado \in BOOLEAN :
        CloseCash(a, c, contado, justificado)

Copia ==
    \E novo \in ImpressaoT :
        /\ novo.tipo = "SEGUNDA_VIA"
        /\ novo.chave \in ChavesVia
        /\ novo.venda \in DOMAIN vendas
        /\ MesmaChave(impressoes, novo.chave) = {}
        /\ impressoes' = Append(impressoes, novo)
        /\ UNCHANGED <<produtos, caixas, movimentacoes, vendas, cancelamentos, backups>>

\* A sale that is written, and not the answer to a repeated confirmation.
Registra(itens, nova, contexto) ==
    /\ nova.caixa \in Abertos
    /\ Cotavel(produtos, itens)
    /\ AutorizacaoExata(nova)
    /\ MesmaChave(vendas, nova.chave) = {}
    /\ InsertSale(nova, contexto)

Vende ==
    \E itens \in Carrinhos, contexto \in Contextos :
      \E nova \in NovaT(QuoteLines(produtos, itens)) : Registra(itens, nova, contexto)

Estorna(novo) ==
    /\ novo.venda \in DOMAIN vendas
    /\ RequireAdmin(novo.autorizador)
    /\ MesmaChave(cancelamentos, novo.chave) = {}
    /\ Cancelavel(novo.venda)
    /\ vendas' = [vendas EXCEPT ![novo.venda] = [@ EXCEPT !.status = "CANCELADA"]]
    /\ produtos' = [g \in Produto |->
                      [produtos[g] EXCEPT !.estoque =
                         @ + Baixa(vendas[novo.venda].linhas)[g]]]
    /\ cancelamentos' = Append(cancelamentos, novo)
    /\ UNCHANGED <<caixas, movimentacoes, impressoes, backups>>

Cancela == \E novo \in CancelamentoT : Estorna(novo)

\* What an administrator does to the catalogue.
Cataloga == ProductNext /\ UNCHANGED livros

Efeito ==
    \/ Abre \/ Movimenta \/ Fecha \/ Copia \/ Vende \/ Cancela \/ Cataloga
    \/ UNCHANGED <<produtos, livros>>

LEMMA EfeitoFinalize ==
    ASSUME NEW u \in Usuario, NEW c \in DOMAIN caixas, NEW itens \in Carrinhos,
           NEW pagamento \in Pagamentos, NEW recebido \in Recebidos,
           NEW chave \in ChavesVenda, NEW autorizador \in Usuario \cup {Nulo},
           NEW motivo \in Motivos \cup {Nulo}, NEW contexto \in Contextos,
           c \in Nat \ {0},
           Finalize(u, c, itens, pagamento, recebido, chave, autorizador,
                    motivo, contexto)
    PROVE  UNCHANGED vars \/ Vende
<1> DEFINE linhas == QuoteLines(produtos, itens)
           nova == NovaVenda(u, c, linhas, pagamento, recebido, chave,
                             Autorizador(u, linhas, autorizador), motivo)
<1>1. CASE UNCHANGED vars
  BY <1>1
<1>2. CASE /\ MesmaChave(vendas, chave) = {}
           /\ InsertSale(nova, contexto)
  <2>1. Registra(itens, nova, contexto)
    BY <1>2 DEF Finalize, Registra, NovaVenda, AutorizacaoExata
  <2>2. nova \in NovaT(linhas)
    BY PDVAssumption DEF PDVAssumption, NovaT, NovaVenda, Autorizador
  <2> QED
    BY <2>1, <2>2 DEF Vende
<1> QED
  BY <1>1, <1>2 DEF Finalize

LEMMA EfeitoDeNext == TypeOK /\ [Next]_vars => Efeito
<1> SUFFICES ASSUME TypeOK, [Next]_vars PROVE Efeito
  OBVIOUS
<1> USE PDVAssumption DEF PDVAssumption
<1>1. \A c \in DOMAIN caixas : c \in Nat \ {0} /\ caixas[c] \in CaixaT
  BY DEF TypeOK
<1>2. \A v \in DOMAIN vendas : v \in Nat \ {0}
  BY DEF TypeOK
<1>3. UNCHANGED vars => Efeito
  BY DEF vars, Efeito
<1>4. ASSUME NEW a \in Usuario, NEW dono \in Usuario, NEW fundo \in Fundos,
             OpenCash(a, dono, fundo)
      PROVE  Efeito
  BY <1>4 DEF OpenCash, Abre, Efeito
<1>5. ASSUME NEW a \in Usuario, NEW c \in DOMAIN caixas,
             NEW tipo \in {"SUPRIMENTO", "SANGRIA"}, NEW valor \in Valores,
             NEW chave \in ChavesMovimento, AddMovement(a, c, tipo, valor, chave)
      PROVE  Efeito
  BY <1>1, <1>3, <1>5 DEF AddMovement, Movimenta, MovimentoT, Efeito
<1>6. ASSUME NEW a \in Usuario, NEW c \in DOMAIN caixas, NEW contado \in Contagens,
             NEW justificado \in BOOLEAN, CloseCash(a, c, contado, justificado)
      PROVE  Efeito
  <2>1. c \in Abertos
    BY <1>6 DEF CloseCash
  <2>2. Fecha
    BY <1>6, <2>1 DEF Fecha
  <2> QED
    BY <2>2 DEF Efeito
<1>7. ASSUME NEW u \in Usuario, NEW c \in DOMAIN caixas, NEW itens \in Carrinhos,
             NEW pagamento \in Pagamentos, NEW recebido \in Recebidos,
             NEW chave \in ChavesVenda, NEW autorizador \in Usuario \cup {Nulo},
             NEW motivo \in Motivos \cup {Nulo}, NEW contexto \in Contextos,
             Finalize(u, c, itens, pagamento, recebido, chave, autorizador,
                      motivo, contexto)
      PROVE  Efeito
  BY <1>1, <1>3, <1>7, EfeitoFinalize DEF Efeito
<1>8. ASSUME NEW u \in Usuario, NEW v \in DOMAIN vendas, NEW autorizador \in Usuario,
             NEW motivo \in Motivos, NEW chave \in ChavesCancelamento,
             CancelSale(u, v, autorizador, motivo, chave)
      PROVE  Efeito
  <2> DEFINE novo == [venda |-> v, operador |-> u, autorizador |-> autorizador,
                      motivo |-> motivo, chave |-> chave]
  <2>1. novo \in CancelamentoT
    BY <1>2 DEF CancelamentoT
  <2>2. UNCHANGED vars \/ Estorna(novo)
    BY <1>8 DEF CancelSale, Estorna
  <2> HIDE DEF novo
  <2> QED
    BY <1>3, <2>1, <2>2 DEF Cancela, Efeito
<1>9. ASSUME NEW u \in Usuario, NEW v \in DOMAIN vendas, NEW chave \in ChavesVia,
             NEW contexto \in Contextos, QueueReceiptCopy(u, v, chave, contexto)
      PROVE  Efeito
  BY <1>2, <1>3, <1>9 DEF QueueReceiptCopy, Copia, ImpressaoT, Efeito
<1>10. CASE ProductNext
  <2>1. UNCHANGED livros
    BY ONLY <1>10 DEF ProductNext, CreateProduct, UpdateProduct, AdjustStock,
                      DeleteProduct
  <2> QED
    BY <1>10, <2>1 DEF Cataloga, Efeito
<1>11. CASE UserNext
  BY <1>11 DEF UserNext, Efeito
<1> HIDE DEF PDVAssumption
<1>12. CASE CashNext
  BY <1>4, <1>5, <1>6, <1>12 DEF CashNext
<1>13. CASE SaleNext
  BY <1>7, <1>8, <1>9, <1>13 DEF SaleNext
<1> QED
  BY <1>3, <1>10, <1>11, <1>12, <1>13 DEF Next

LEMMA UsuariosDeNext == [Next]_vars => [UsuariosNext]_usuarios
<1> SUFFICES ASSUME [Next]_vars PROVE [UsuariosNext]_usuarios
  OBVIOUS
<1>1. ASSUME NEW u \in Usuario, NEW c \in DOMAIN caixas, NEW itens \in Carrinhos,
             NEW pagamento \in Pagamentos, NEW recebido \in Recebidos,
             NEW chave \in ChavesVenda, NEW autorizador \in Usuario \cup {Nulo},
             NEW motivo \in Motivos \cup {Nulo}, NEW contexto \in Contextos,
             Finalize(u, c, itens, pagamento, recebido, chave, autorizador,
                      motivo, contexto)
      PROVE  UNCHANGED usuarios
  BY <1>1 DEF Finalize, InsertSale, vars
<1>2. ASSUME NEW u \in Usuario, NEW v \in DOMAIN vendas, NEW autorizador \in Usuario,
             NEW motivo \in Motivos, NEW chave \in ChavesCancelamento,
             CancelSale(u, v, autorizador, motivo, chave)
      PROVE  UNCHANGED usuarios
  BY <1>2 DEF CancelSale, vars
<1>3. ASSUME NEW u \in Usuario, NEW v \in DOMAIN vendas, NEW chave \in ChavesVia,
             NEW contexto \in Contextos, QueueReceiptCopy(u, v, chave, contexto)
      PROVE  UNCHANGED usuarios
  BY <1>3 DEF QueueReceiptCopy, vars
<1>4. CASE SaleNext
  BY <1>1, <1>2, <1>3, <1>4 DEF SaleNext
<1>5. CASE UserNext
  BY <1>5 DEF UserNext
<1>6. CASE CashNext
  BY <1>6 DEF CashNext, OpenCash, AddMovement, CloseCash, vars
<1>7. CASE ProductNext
  BY <1>7 DEF ProductNext, CreateProduct, UpdateProduct, AdjustStock, DeleteProduct
<1>8. CASE UNCHANGED vars
  BY <1>8 DEF vars
<1> QED
  BY <1>4, <1>5, <1>6, <1>7, <1>8 DEF Next

-----------------------------------------------------------------------------
(* Lines of a quotation.                                                   *)

LEMMA SubtotalNatural ==
    ASSUME NEW preco \in Nat, NEW quantidade \in Nat
    PROVE  LineSubtotal(preco, quantidade) \in Nat
<1> DEFINE n == preco * quantidade
<1>1. n \in Nat
  OBVIOUS
<1> HIDE DEF n
<1>2. n \div 1000 \in Nat
  BY <1>1
<1> QED
  BY <1>2 DEF LineSubtotal, n

(* A subtotal is the exact amount, in thousandths of a cent, rounded to    *)
(* the nearest cent, a half going up.                                      *)
THEOREM SubtotalArredondado ==
    ASSUME NEW preco \in Nat, NEW quantidade \in Nat
    PROVE  /\ preco * quantidade - 500 < 1000 * LineSubtotal(preco, quantidade)
           /\ 1000 * LineSubtotal(preco, quantidade) <= preco * quantidade + 500
<1> DEFINE n == preco * quantidade
           q == n \div 1000
           r == n % 1000
<1>1. n \in Nat
  OBVIOUS
<1> HIDE DEF n
<1>2. q \in Int /\ r \in 0..999 /\ n = 1000 * q + r
  BY <1>1
<1>3. LineSubtotal(preco, quantidade) = q + (IF r * 2 >= 1000 THEN 1 ELSE 0)
  BY DEF LineSubtotal, n
<1> HIDE DEF q, r
<1>4. /\ n - 500 < 1000 * LineSubtotal(preco, quantidade)
      /\ 1000 * LineSubtotal(preco, quantidade) <= n + 500
  BY <1>1, <1>2, <1>3
<1> QED
  BY <1>4 DEF n

LEMMA LinhasDaCotacao ==
    ASSUME produtos \in [Produto -> ProdutoT], NEW itens \in Carrinhos,
           Cotavel(produtos, itens)
    PROVE  QuoteLines(produtos, itens) \in Seq(LinhaT)
<1>1. itens \in Seq(ItemT)
  BY PDVAssumption DEF PDVAssumption
<1>2. ASSUME NEW i \in DOMAIN itens
      PROVE  QuoteLines(produtos, itens)[i] \in LinhaT
  <2>1. itens[i] \in ItemT
    BY <1>1
  <2>2. CASE itens[i].tipo = "CATALOGO"
    <3>1. itens[i].gtin \in Produto
      BY <2>2, CarrinhosAssumption DEF CarrinhosAssumption
    <3>2. produtos[itens[i].gtin] \in ProdutoT
      BY <3>1
    <3>3. CatalogLine(produtos[itens[i].gtin], itens[i]) \in LinhaT
      BY <2>1, <3>1, <3>2, SubtotalNatural DEF CatalogLine, LinhaT, ItemT, ProdutoT
    <3> QED
      BY <2>2, <3>3 DEF QuoteLines
  <2>3. CASE itens[i].tipo # "CATALOGO"
    <3>1. ManualLineOK(itens[i])
      BY <2>3 DEF Cotavel
    <3>2. itens[i].preco \in Nat
      BY <2>1, <3>1 DEF ManualLineOK, ItemT
    <3>3. ManualLine(itens[i]) \in LinhaT
      BY <2>1, <3>2, SubtotalNatural DEF ManualLine, LinhaT, ItemT
    <3> QED
      BY <2>3, <3>3 DEF QuoteLines
  <2> QED
    BY <2>2, <2>3
<1>3. QuoteLines(produtos, itens) \in [1..Len(itens) -> LinhaT]
  BY <1>1, <1>2 DEF QuoteLines
<1> QED
  BY <1>1, <1>3

LEMMA QuantidadeNatural ==
    ASSUME NEW linhas \in Seq(LinhaT), NEW g
    PROVE  Quantidade(linhas, g) \in Nat
<1>1. IsFiniteSet(LinhasDe(linhas, g)) /\ LinhasDe(linhas, g) \subseteq DOMAIN linhas
  <2>1. LinhasDe(linhas, g) \subseteq DOMAIN linhas
    BY DEF LinhasDe
  <2> QED
    BY <2>1, TabelaFinita, FS_Subset
<1>2. ASSUME NEW i \in DOMAIN linhas PROVE linhas[i].quantidade \in Nat
  <2>1. linhas[i] \in LinhaT
    BY Linha
  <2> QED
    BY <2>1 DEF LinhaT
<1>3. [i \in LinhasDe(linhas, g) |-> linhas[i].quantidade] \in [LinhasDe(linhas, g) -> Nat]
  BY <1>1, <1>2
<1> QED
  BY <1>1, <1>3, SomaNatural DEF Quantidade

-----------------------------------------------------------------------------
(* Type invariant                                                          *)

LEMMA TiposIniciais == Init => TypeOK
<1> SUFFICES ASSUME Init PROVE TypeOK
  OBVIOUS
<1>1. \A S : <<>> \in Seq(S)
  OBVIOUS
<1>2. UsuariosTypeOK
  BY InicioBom DEF Init
<1>3. DOMAIN vendas = {} /\ DOMAIN movimentacoes = {} /\ DOMAIN cancelamentos = {}
      /\ DOMAIN impressoes = {}
  BY DEF Init
<1> QED
  BY <1>1, <1>2, <1>3, PDVAssumption
     DEF Init, TypeOK, PDVAssumption

LEMMA ProdutoEditado ==
    ASSUME NEW p \in ProdutoT, NEW n \in Nat
    PROVE  /\ [p EXCEPT !.estoque = n] \in ProdutoT
           /\ [p EXCEPT !.ativo = FALSE] \in ProdutoT
           /\ [p EXCEPT !.existe = FALSE] \in ProdutoT
<1>1. [p EXCEPT !.estoque = n] \in ProdutoT
  BY DEF ProdutoT
<1>2. [p EXCEPT !.ativo = FALSE] \in ProdutoT
  BY Zenon DEF ProdutoT
<1>3. [p EXCEPT !.existe = FALSE] \in ProdutoT
  BY Zenon DEF ProdutoT
<1> QED
  BY <1>1, <1>2, <1>3

LEMMA TiposCataloga ==
    ASSUME TypeOK, ProductNext, UNCHANGED livros
    PROVE  produtos' \in [Produto -> ProdutoT]
<1> USE PDVAssumption DEF PDVAssumption, TypeOK
<1>1. ASSUME NEW a \in Usuario, NEW g \in Produto, NEW cadastro \in Cadastros,
             CreateProduct(a, g, cadastro)
      PROVE  produtos' \in [Produto -> ProdutoT]
  BY <1>1 DEF CreateProduct
<1>2. ASSUME NEW a \in Usuario, NEW g \in Produto, NEW edicao \in Edicoes,
             UpdateProduct(a, g, edicao)
      PROVE  produtos' \in [Produto -> ProdutoT]
  <2>1. edicao \in EdicaoT /\ produtos[g] \in ProdutoT
    OBVIOUS
  <2> QED
    BY <1>2, <2>1 DEF UpdateProduct, EdicaoT, ProdutoT, Novo
<1>3. ASSUME NEW a \in Usuario, NEW g \in Produto, NEW delta \in Ajustes,
             AdjustStock(a, g, delta)
      PROVE  produtos' \in [Produto -> ProdutoT]
  <2>1. produtos[g] \in ProdutoT /\ produtos[g].estoque + delta \in Nat
    BY <1>3 DEF AdjustStock
  <2>2. [produtos[g] EXCEPT !.estoque = @ + delta] \in ProdutoT
    BY <2>1, ProdutoEditado
  <2> QED
    BY <1>3, <2>2 DEF AdjustStock
<1>4. ASSUME NEW a \in Usuario, NEW g \in Produto, DeleteProduct(a, g)
      PROVE  produtos' \in [Produto -> ProdutoT]
  <2>1. /\ [produtos[g] EXCEPT !.ativo = FALSE] \in ProdutoT
        /\ [produtos[g] EXCEPT !.existe = FALSE] \in ProdutoT
    BY ProdutoEditado
  <2> QED
    BY <1>4, <2>1 DEF DeleteProduct
<1> QED
  BY <1>1, <1>2, <1>3, <1>4 DEF ProductNext

LEMMA TiposVende ==
    ASSUME TypeOK, UsuariosTypeOK', Vende
    PROVE  TypeOK'
<1>1. PICK itens \in Carrinhos, contexto \in Contextos :
        \E nova \in NovaT(QuoteLines(produtos, itens)) : Registra(itens, nova, contexto)
  BY DEF Vende
<1>2. PICK nova \in NovaT(QuoteLines(produtos, itens)) : Registra(itens, nova, contexto)
  BY <1>1
<1>3. nova.linhas \in Seq(LinhaT) /\ nova.linhas = QuoteLines(produtos, itens)
  BY <1>2, LinhasDaCotacao DEF Registra, TypeOK, NovaT
<1>4. \A g \in Produto : Quantidade(nova.linhas, g) \in Nat
  BY <1>3, QuantidadeNatural
<1>5. nova.baixa \in [Produto -> Nat]
  BY <1>2, <1>3, <1>4 DEF NovaT, Baixa
<1>6. nova \in VendaT
  BY <1>2, <1>3, <1>5, PDVAssumption
     DEF NovaT, VendaT, Registra, InsertSale, PDVAssumption
<1>7. /\ vendas' = Append(vendas, nova) /\ vendas' \in Seq(VendaT)
      /\ DOMAIN vendas' = 1..(Len(vendas) + 1) /\ DOMAIN vendas = 1..Len(vendas)
      /\ Len(vendas) \in Nat
      /\ \A v \in DOMAIN vendas : vendas'[v] = vendas[v]
      /\ vendas'[Len(vendas) + 1] = nova
  BY <1>2, <1>6, Acrescimo DEF Registra, InsertSale, TypeOK
<1>8. produtos' \in [Produto -> ProdutoT]
  <2>1. \A g \in Produto : produtos[g].estoque - nova.baixa[g] \in Nat
    BY <1>2, <1>5 DEF Registra, InsertSale, EstoqueSuficiente, TypeOK, ProdutoT
  <2>2. \A g \in Produto : [produtos[g] EXCEPT !.estoque = @ - nova.baixa[g]] \in ProdutoT
    BY <2>1, ProdutoEditado DEF TypeOK
  <2> QED
    BY <1>2, <2>2 DEF Registra, InsertSale
<1>9. /\ impressoes' \in Seq(ImpressaoT)
      /\ \A j \in DOMAIN impressoes' : impressoes'[j].venda \in DOMAIN vendas'
  <2> DEFINE job == OriginalJob(Len(vendas) + 1, nova.operador, contexto)
  <2>1. CASE contexto = Nulo
    BY <1>2, <1>7, <2>1 DEF Registra, InsertSale, TypeOK
  <2>2. CASE contexto # Nulo
    <3>1. job \in ImpressaoT /\ job.venda = Len(vendas) + 1
      BY <1>2, <1>7, <2>2 DEF OriginalJob, ImpressaoT, NovaT
    <3>2. impressoes' = Append(impressoes, job) /\ impressoes \in Seq(ImpressaoT)
      BY <1>2, <2>2 DEF Registra, InsertSale, TypeOK
    <3>3. /\ impressoes' \in Seq(ImpressaoT)
          /\ DOMAIN impressoes' = 1..(Len(impressoes) + 1)
          /\ Len(impressoes) \in Nat /\ DOMAIN impressoes = 1..Len(impressoes)
          /\ \A j \in DOMAIN impressoes : impressoes'[j] = impressoes[j]
          /\ impressoes'[Len(impressoes) + 1] = job
      BY <3>1, <3>2, Acrescimo
    <3>4. \A j \in DOMAIN impressoes : impressoes[j].venda \in DOMAIN vendas
      BY DEF TypeOK
    <3> QED
      BY <1>7, <3>1, <3>3, <3>4
  <2> QED
    BY <2>1, <2>2
<1>10. UNCHANGED <<caixas, movimentacoes, cancelamentos, backups>> /\ nova.caixa \in DOMAIN caixas
  BY <1>2 DEF Registra, InsertSale, Abertos
<1> QED
  BY <1>7, <1>8, <1>9, <1>10 DEF TypeOK

LEMMA TiposCancela ==
    ASSUME TypeOK, UsuariosTypeOK', Cancela
    PROVE  TypeOK'
<1>1. PICK novo \in CancelamentoT : Estorna(novo)
  BY DEF Cancela
<1> DEFINE v == novo.venda
           cancelada == [vendas[v] EXCEPT !.status = "CANCELADA"]
<1>2. v \in DOMAIN vendas /\ vendas[v] \in VendaT /\ vendas \in Seq(VendaT)
  BY <1>1, Linha DEF Estorna, TypeOK
<1>3. /\ cancelada \in VendaT
      /\ cancelada.linhas = vendas[v].linhas /\ cancelada.caixa = vendas[v].caixa
  BY <1>2 DEF VendaT
<1>4. vendas' = [vendas EXCEPT ![v] = cancelada]
  BY <1>1 DEF Estorna
<1> HIDE DEF v, cancelada
<1>5. /\ vendas' \in Seq(VendaT) /\ DOMAIN vendas' = DOMAIN vendas
      /\ \A x \in DOMAIN vendas : /\ vendas'[x].linhas = vendas[x].linhas
                                  /\ vendas'[x].caixa = vendas[x].caixa
  BY <1>2, <1>3, <1>4, Troca
<1>6. produtos' \in [Produto -> ProdutoT]
  <2>1. \A g \in Produto : Baixa(vendas[v].linhas)[g] \in Nat
    BY <1>2, QuantidadeNatural DEF Baixa, VendaT
  <2>2. \A g \in Produto :
          /\ produtos[g] \in ProdutoT
          /\ produtos[g].estoque + Baixa(vendas[v].linhas)[g] \in Nat
    BY <2>1 DEF TypeOK, ProdutoT
  <2>3. \A g \in Produto :
          [produtos[g] EXCEPT !.estoque = @ + Baixa(vendas[v].linhas)[g]] \in ProdutoT
    BY <2>2, ProdutoEditado
  <2> QED
    BY <1>1, <2>3 DEF Estorna, v
<1>7. /\ cancelamentos' = Append(cancelamentos, novo)
      /\ cancelamentos \in Seq(CancelamentoT) /\ novo.venda \in DOMAIN vendas
      /\ UNCHANGED <<caixas, movimentacoes, impressoes, backups>>
  BY <1>1, <1>2 DEF Estorna, TypeOK, v
<1>8. /\ cancelamentos' \in Seq(CancelamentoT)
      /\ \A k \in DOMAIN cancelamentos' : cancelamentos'[k].venda \in DOMAIN vendas
  BY <1>7, Acrescimo DEF TypeOK
<1> QED
  BY <1>5, <1>6, <1>7, <1>8 DEF TypeOK

LEMMA LinhaFechada ==
    ASSUME NEW r \in CaixaT, NEW contado \in Nat, NEW esperado \in Nat,
           NEW justificado \in BOOLEAN
    PROVE  Fechado(r, contado, esperado, justificado) \in CaixaT
  BY ZenonT(60) DEF CaixaT, Fechado

LEMMA CamposFechados ==
    ASSUME NEW r \in CaixaT, NEW contado, NEW esperado, NEW justificado
    PROVE  /\ Fechado(r, contado, esperado, justificado).status = "FECHADO"
           /\ Fechado(r, contado, esperado, justificado).usuario = r.usuario
           /\ Fechado(r, contado, esperado, justificado).fundo = r.fundo
           /\ Fechado(r, contado, esperado, justificado).informado = contado
           /\ Fechado(r, contado, esperado, justificado).esperado = esperado
           /\ Fechado(r, contado, esperado, justificado).justificado = justificado
  BY ZenonT(60) DEF CaixaT, Fechado

(* A closing alters the row of its drawer and no other.                    *)
LEMMA CaixaFechado ==
    ASSUME TypeOK, NEW a \in Usuario, NEW c \in DOMAIN caixas,
           NEW contado \in Contagens, NEW justificado \in BOOLEAN,
           CloseCash(a, c, contado, justificado)
    PROVE  /\ caixas' \in Seq(CaixaT) /\ DOMAIN caixas' = DOMAIN caixas
           /\ caixas'[c].status = "FECHADO" /\ caixas'[c].fundo = caixas[c].fundo
           /\ caixas'[c].informado = contado
           /\ caixas'[c].esperado = ExpectedAmount(c)
           /\ caixas'[c].justificado = justificado
           /\ \A d \in DOMAIN caixas : d # c => caixas'[d] = caixas[d]
<1>1. caixas \in Seq(CaixaT) /\ caixas[c] \in CaixaT
  BY Linha DEF TypeOK
<1>2. ExpectedAmount(c) \in Nat /\ contado \in Nat
  BY PDVAssumption DEF CloseCash, Apuravel, PDVAssumption
<1>3. PICK fechado :
        fechado = Fechado(caixas[c], contado, ExpectedAmount(c), justificado)
  OBVIOUS
<1>4. /\ fechado \in CaixaT
      /\ fechado.status = "FECHADO" /\ fechado.fundo = caixas[c].fundo
      /\ fechado.informado = contado /\ fechado.esperado = ExpectedAmount(c)
      /\ fechado.justificado = justificado
  <2>1. fechado \in CaixaT
    BY <1>1, <1>2, <1>3, LinhaFechada
  <2> DEFINE f == Fechado(caixas[c], contado, ExpectedAmount(c), justificado)
  <2>2. f.status = "FECHADO" /\ f.fundo = caixas[c].fundo
    BY ONLY <1>1, CamposFechados
  <2>3. f.informado = contado /\ f.esperado = ExpectedAmount(c)
    BY ONLY <1>1, CamposFechados
  <2>4. f.justificado = justificado
    BY ONLY <1>1, CamposFechados
  <2> HIDE DEF f
  <2>5. fechado = f
    BY <1>3 DEF f
  <2> QED
    BY <2>1, <2>2, <2>3, <2>4, <2>5
<1>5. caixas' = [caixas EXCEPT ![c] = fechado]
  BY <1>3 DEF CloseCash
<1>6. /\ caixas' \in Seq(CaixaT) /\ DOMAIN caixas' = DOMAIN caixas
      /\ caixas'[c] = fechado
      /\ \A d \in DOMAIN caixas : d # c => caixas'[d] = caixas[d]
  BY <1>1, <1>4, <1>5, Troca
<1> QED
  BY <1>4, <1>6

(* Every table keeps its type and its references under every operation.    *)
LEMMA TiposMantidos == TypeOK /\ [Next]_vars => TypeOK'
<1> SUFFICES ASSUME TypeOK, [Next]_vars PROVE TypeOK'
  OBVIOUS
<1>1. UsuariosTypeOK'
  BY UsuariosDeNext, TipoMantido DEF TypeOK
<1>2. CASE Abre
  <2>1. PICK novo \in CaixaT :
          /\ caixas' = Append(caixas, novo)
          /\ UNCHANGED <<produtos, movimentacoes, vendas, cancelamentos,
                         impressoes, backups>>
    BY <1>2, PDVAssumption DEF Abre, CaixaT, PDVAssumption
  <2>2. caixas' \in Seq(CaixaT) /\ DOMAIN caixas \subseteq DOMAIN caixas'
    BY <2>1, Acrescimo DEF TypeOK
  <2> QED
    BY <1>1, <2>1, <2>2 DEF TypeOK
<1>3. CASE Movimenta
  <2>1. PICK novo \in MovimentoT :
          /\ novo.caixa \in DOMAIN caixas
          /\ movimentacoes' = Append(movimentacoes, novo)
          /\ UNCHANGED <<produtos, caixas, vendas, cancelamentos, impressoes, backups>>
    BY <1>3 DEF Movimenta, Abertos
  <2>2. /\ movimentacoes' \in Seq(MovimentoT)
        /\ \A m \in DOMAIN movimentacoes' : movimentacoes'[m].caixa \in DOMAIN caixas
    BY <2>1, Acrescimo DEF TypeOK
  <2> QED
    BY <1>1, <2>1, <2>2 DEF TypeOK
<1>4. CASE Fecha
  <2>1. PICK a \in Usuario, c \in Abertos, contado \in Contagens,
             justificado \in BOOLEAN : CloseCash(a, c, contado, justificado)
    BY <1>4 DEF Fecha
  <2>2. /\ c \in DOMAIN caixas /\ backups' = backups \cup {c}
        /\ UNCHANGED <<produtos, movimentacoes, vendas, cancelamentos, impressoes>>
    BY <2>1 DEF CloseCash, Abertos
  <2>3. caixas' \in Seq(CaixaT) /\ DOMAIN caixas' = DOMAIN caixas
    BY <2>1, <2>2, CaixaFechado
  <2> QED
    BY <1>1, <2>2, <2>3 DEF TypeOK
<1>5. CASE Copia
  <2>1. PICK novo \in ImpressaoT :
          /\ novo.venda \in DOMAIN vendas
          /\ impressoes' = Append(impressoes, novo)
          /\ UNCHANGED <<produtos, caixas, movimentacoes, vendas, cancelamentos, backups>>
    BY <1>5 DEF Copia
  <2>2. /\ impressoes' \in Seq(ImpressaoT)
        /\ \A j \in DOMAIN impressoes' : impressoes'[j].venda \in DOMAIN vendas
    BY <2>1, Acrescimo DEF TypeOK
  <2> QED
    BY <1>1, <2>1, <2>2 DEF TypeOK
<1>6. CASE Vende
  BY <1>1, <1>6, TiposVende
<1>7. CASE Cancela
  BY <1>1, <1>7, TiposCancela
<1>8. CASE Cataloga
  BY <1>1, <1>8, TiposCataloga DEF Cataloga, livros, TypeOK
<1>9. CASE UNCHANGED <<produtos, livros>>
  BY <1>1, <1>9 DEF livros, TypeOK
<1>10. Efeito
  BY EfeitoDeNext
<1> QED
  BY <1>2, <1>3, <1>4, <1>5, <1>6, <1>7, <1>8, <1>9, <1>10 DEF Efeito

(* Every table always holds rows of its type that refer to existing rows;  *)
(* the stock is never negative, nor the total of a sale or the amount of a *)
(* closing.                                                                *)
THEOREM PDVTipos == Spec => []TypeOK
  BY TiposIniciais, TiposMantidos, PTL DEF Spec

(* The point of sale alters accounts only as the user directory does.      *)
THEOREM PDVImplementaUsuarios == Spec => UsuariosSpec
<1>1. Init => UsuariosInit
  BY DEF Init
<1> QED
  BY <1>1, UsuariosDeNext, PTL DEF Spec, UsuariosSpec

(* So an administrator able to act is always there, and a sale or a        *)
(* cancellation that needs one can find it.                                *)
THEOREM PDVSempreHaAdmin == Spec => []AdminDisponivel
  BY PDVImplementaUsuarios, SempreHaAdmin, PTL

-----------------------------------------------------------------------------
(* A cancellation alters the status of its sale and nothing else of any.   *)
LEMMA VendaCancelada ==
    ASSUME TypeOK, NEW novo \in CancelamentoT, Estorna(novo)
    PROVE  /\ DOMAIN vendas' = DOMAIN vendas
           /\ vendas'[novo.venda].status = "CANCELADA"
           /\ \A v \in DOMAIN vendas :
                /\ v # novo.venda => vendas'[v] = vendas[v]
                /\ vendas'[v].caixa = vendas[v].caixa
                /\ vendas'[v].linhas = vendas[v].linhas
                /\ vendas'[v].chave = vendas[v].chave
                /\ vendas'[v].autorizador = vendas[v].autorizador
                /\ vendas'[v].motivo = vendas[v].motivo
                /\ vendas'[v].baixa = vendas[v].baixa
<1> DEFINE x == novo.venda
           cancelada == [vendas[x] EXCEPT !.status = "CANCELADA"]
<1>1. x \in DOMAIN vendas /\ vendas \in Seq(VendaT) /\ vendas[x] \in VendaT
  BY Linha DEF Estorna, TypeOK
<1>2. /\ cancelada \in VendaT /\ cancelada.status = "CANCELADA"
      /\ cancelada.caixa = vendas[x].caixa /\ cancelada.linhas = vendas[x].linhas
      /\ cancelada.chave = vendas[x].chave
      /\ cancelada.autorizador = vendas[x].autorizador
      /\ cancelada.motivo = vendas[x].motivo /\ cancelada.baixa = vendas[x].baixa
  BY <1>1 DEF VendaT
<1>3. vendas' = [vendas EXCEPT ![x] = cancelada]
  BY DEF Estorna
<1> HIDE DEF x, cancelada
<1>4. /\ DOMAIN vendas' = DOMAIN vendas /\ vendas'[x] = cancelada
      /\ \A v \in DOMAIN vendas : v # x => vendas'[v] = vendas[v]
  BY <1>1, <1>2, <1>3, Troca
<1> QED
  BY <1>1, <1>2, <1>4 DEF x

-----------------------------------------------------------------------------
(* The one drawer                                                          *)

LEMMA UmaGaveta == TypeOK /\ CaixaUnico /\ [Next]_vars => CaixaUnico'
<1> SUFFICES ASSUME TypeOK, CaixaUnico, [Next]_vars PROVE CaixaUnico'
  OBVIOUS
<1>1. caixas \in Seq(CaixaT)
  BY DEF TypeOK
<1>2. CASE Abre
  <2>1. Abertos = {} /\ \E novo \in CaixaT : caixas' = Append(caixas, novo)
    BY <1>2, PDVAssumption DEF Abre, GavetaLivre, CaixaT, PDVAssumption
  <2>2. Abertos' \subseteq {Len(caixas) + 1}
    BY <1>1, <2>1, Acrescimo DEF Abertos
  <2> QED
    BY <2>2 DEF CaixaUnico
<1>3. CASE Fecha
  <2>1. PICK a \in Usuario, c \in Abertos, contado \in Contagens,
             justificado \in BOOLEAN : CloseCash(a, c, contado, justificado)
    BY <1>3 DEF Fecha
  <2>2. c \in DOMAIN caixas
    BY DEF Abertos
  <2>3. /\ caixas' \in Seq(CaixaT) /\ DOMAIN caixas' = DOMAIN caixas
        /\ \A d \in DOMAIN caixas : d # c => caixas'[d] = caixas[d]
    BY <2>1, <2>2, CaixaFechado
  <2>4. Abertos' \subseteq Abertos
    BY <2>2, <2>3 DEF Abertos
  <2> QED
    BY <2>4 DEF CaixaUnico
<1>4. CASE UNCHANGED caixas
  BY <1>4 DEF CaixaUnico, Abertos
<1>5. Movimenta \/ Copia \/ Vende \/ Cancela \/ Cataloga \/ UNCHANGED <<produtos, livros>>
        => UNCHANGED caixas
  BY DEF Movimenta, Copia, Vende, Registra, InsertSale, Cancela, Estorna, Cataloga,
         livros
<1> QED
  BY <1>2, <1>3, <1>4, <1>5, EfeitoDeNext DEF Efeito

(* Two drawers are never open at once, whoever opens and closes them.      *)
THEOREM PDVCaixaUnico == Spec => []CaixaUnico
<1>1. Init => CaixaUnico
  BY DEF Init, CaixaUnico, Abertos
<1>2. TypeOK /\ CaixaUnico /\ [Next]_vars => (TypeOK /\ CaixaUnico)'
  BY TiposMantidos, UmaGaveta
<1> QED
  BY <1>1, <1>2, TiposIniciais, PTL DEF Spec

-----------------------------------------------------------------------------
(* Each confirmation once                                                  *)

LEMMA ChaveNova ==
    ASSUME NEW S, NEW s \in Seq(S), NEW e \in S, UnicaPorChave(s),
           MesmaChave(s, e.chave) = {}
    PROVE  UnicaPorChave(Append(s, e))
  BY Acrescimo DEF UnicaPorChave, MesmaChave

LEMMA ChavesMantidas ==
    ASSUME NEW s, NEW t, DOMAIN t = DOMAIN s, UnicaPorChave(s),
           \A i \in DOMAIN s : t[i].chave = s[i].chave
    PROVE  UnicaPorChave(t)
  BY DEF UnicaPorChave

(* The key of an original receipt is made from the number of its sale, and *)
(* the keys of second copies are of another form.                          *)
ChavesOriginais ==
    \A j \in DOMAIN impressoes :
        \/ impressoes[j].chave \in ChavesVia
        \/ impressoes[j].chave = <<"ORIGINAL", impressoes[j].venda>>

Confirmacoes == ConfirmacaoUnica /\ ChavesOriginais

LEMMA ConfirmacaoMantida == TypeOK /\ Confirmacoes /\ [Next]_vars => Confirmacoes'
<1> SUFFICES ASSUME TypeOK, Confirmacoes, [Next]_vars PROVE Confirmacoes'
  OBVIOUS
<1>1. /\ movimentacoes \in Seq(MovimentoT) /\ vendas \in Seq(VendaT)
      /\ cancelamentos \in Seq(CancelamentoT) /\ impressoes \in Seq(ImpressaoT)
  BY DEF TypeOK
<1>2. CASE Movimenta
  <2>1. PICK novo \in MovimentoT :
          /\ MesmaChave(movimentacoes, novo.chave) = {}
          /\ movimentacoes' = Append(movimentacoes, novo)
          /\ UNCHANGED <<vendas, cancelamentos, impressoes>>
    BY <1>2 DEF Movimenta
  <2>2. UnicaPorChave(movimentacoes')
    BY <1>1, <2>1, ChaveNova DEF Confirmacoes, ConfirmacaoUnica
  <2> QED
    BY <2>1, <2>2 DEF Confirmacoes, ConfirmacaoUnica, ChavesOriginais, UnicaPorChave
<1>3. CASE Copia
  <2>1. PICK novo \in ImpressaoT :
          /\ novo.chave \in ChavesVia
          /\ MesmaChave(impressoes, novo.chave) = {}
          /\ impressoes' = Append(impressoes, novo)
          /\ UNCHANGED <<vendas, cancelamentos, movimentacoes>>
    BY <1>3 DEF Copia
  <2>2. UnicaPorChave(impressoes')
    BY <1>1, <2>1, ChaveNova DEF Confirmacoes, ConfirmacaoUnica
  <2>3. ChavesOriginais'
    BY <1>1, <2>1, Acrescimo DEF Confirmacoes, ChavesOriginais
  <2> QED
    BY <2>1, <2>2, <2>3 DEF Confirmacoes, ConfirmacaoUnica, UnicaPorChave
<1>4. CASE Vende
  <2>1. PICK itens \in Carrinhos, contexto \in Contextos :
          \E nova \in NovaT(QuoteLines(produtos, itens)) : Registra(itens, nova, contexto)
    BY <1>4 DEF Vende
  <2>2. PICK nova \in NovaT(QuoteLines(produtos, itens)) : Registra(itens, nova, contexto)
    BY <2>1
  <2> DEFINE n == Len(vendas) + 1
             job == OriginalJob(n, nova.operador, contexto)
  <2>3. /\ MesmaChave(vendas, nova.chave) = {} /\ vendas' = Append(vendas, nova)
        /\ UNCHANGED <<movimentacoes, cancelamentos>>
        /\ impressoes' = IF contexto = Nulo THEN impressoes ELSE Append(impressoes, job)
    BY <2>2 DEF Registra, InsertSale
  <2>4. vendas' \in Seq(VendaT) /\ n \in DOMAIN vendas' /\ vendas'[n] = nova
    <3>1. TypeOK'
      BY TiposMantidos
    <3> QED
      BY <1>1, <2>3, <3>1 DEF TypeOK
  <2>5. UnicaPorChave(vendas')
    BY <1>1, <2>3, <2>4, ChaveNova DEF Confirmacoes, ConfirmacaoUnica
  <2>6. UnicaPorChave(impressoes') /\ ChavesOriginais'
    <3>1. CASE contexto = Nulo
      BY <2>3, <3>1 DEF Confirmacoes, ConfirmacaoUnica, ChavesOriginais
    <3>2. CASE contexto # Nulo
      <4>1. job \in ImpressaoT
        BY <1>1, <2>2, <3>2 DEF OriginalJob, ImpressaoT, NovaT
      <4>2. /\ job.chave = <<"ORIGINAL", n>> /\ job.venda = n
            /\ n \in Nat /\ n \notin DOMAIN vendas
        BY <1>1 DEF OriginalJob
      <4> HIDE DEF job, n
      <4>3. ASSUME NEW j \in DOMAIN impressoes PROVE impressoes[j].chave # job.chave
        <5>1. impressoes[j].venda \in DOMAIN vendas
          BY DEF TypeOK
        <5>2. job.chave \notin ChavesVia
          BY <4>2, PDVAssumption DEF PDVAssumption
        <5> QED
          BY <4>2, <5>1, <5>2 DEF Confirmacoes, ChavesOriginais
      <4>4. MesmaChave(impressoes, job.chave) = {}
        BY <4>3 DEF MesmaChave
      <4>5. impressoes' = Append(impressoes, job)
        BY <2>3, <3>2
      <4>6. UnicaPorChave(impressoes')
        BY <1>1, <4>1, <4>4, <4>5, ChaveNova DEF Confirmacoes, ConfirmacaoUnica
      <4>7. ChavesOriginais'
        BY <1>1, <4>1, <4>2, <4>5, Acrescimo DEF Confirmacoes, ChavesOriginais
      <4> QED
        BY <4>6, <4>7
    <3> QED
      BY <3>1, <3>2
  <2> QED
    BY <2>3, <2>5, <2>6 DEF Confirmacoes, ConfirmacaoUnica, UnicaPorChave
<1>5. CASE Cancela
  <2>1. PICK novo \in CancelamentoT : Estorna(novo)
    BY <1>5 DEF Cancela
  <2>2. UnicaPorChave(cancelamentos')
    BY <1>1, <2>1, ChaveNova DEF Estorna, Confirmacoes, ConfirmacaoUnica
  <2>3. /\ DOMAIN vendas' = DOMAIN vendas
        /\ \A v \in DOMAIN vendas : vendas'[v].chave = vendas[v].chave
    BY <2>1, VendaCancelada
  <2>4. UnicaPorChave(vendas')
    BY <2>3, ChavesMantidas DEF Confirmacoes, ConfirmacaoUnica
  <2> QED
    BY <2>1, <2>2, <2>4
       DEF Estorna, Confirmacoes, ConfirmacaoUnica, ChavesOriginais, UnicaPorChave
<1>6. CASE UNCHANGED <<movimentacoes, vendas, cancelamentos, impressoes>>
  BY <1>6 DEF Confirmacoes, ConfirmacaoUnica, ChavesOriginais, UnicaPorChave
<1>7. Abre \/ Fecha \/ Cataloga \/ UNCHANGED <<produtos, livros>>
        => UNCHANGED <<movimentacoes, vendas, cancelamentos, impressoes>>
  BY DEF Abre, Fecha, CloseCash, Cataloga, livros
<1> QED
  BY <1>2, <1>3, <1>4, <1>5, <1>6, <1>7, EfeitoDeNext DEF Efeito

(* However often a confirmation is repeated, its key names one row.        *)
THEOREM PDVConfirmacaoUnica == Spec => []ConfirmacaoUnica
<1>1. Init => Confirmacoes
  BY DEF Init, Confirmacoes, ConfirmacaoUnica, ChavesOriginais, UnicaPorChave
<1>2. TypeOK /\ Confirmacoes /\ [Next]_vars => (TypeOK /\ Confirmacoes)'
  BY TiposMantidos, ConfirmacaoMantida
<1>3. Confirmacoes => ConfirmacaoUnica
  BY DEF Confirmacoes
<1> QED
  BY <1>1, <1>2, <1>3, TiposIniciais, PTL DEF Spec

-----------------------------------------------------------------------------
(* Each sale cancelled once                                                *)

LEMMA CancelamentoMantido ==
    TypeOK /\ CancelamentoUnico /\ [Next]_vars => CancelamentoUnico'
<1> SUFFICES ASSUME TypeOK, CancelamentoUnico, [Next]_vars PROVE CancelamentoUnico'
  OBVIOUS
<1>1. /\ vendas \in Seq(VendaT) /\ cancelamentos \in Seq(CancelamentoT)
      /\ \A k \in DOMAIN cancelamentos : cancelamentos[k].venda \in DOMAIN vendas
  BY DEF TypeOK
<1>2. CASE Vende
  <2>1. PICK itens \in Carrinhos, contexto \in Contextos :
          \E nova \in NovaT(QuoteLines(produtos, itens)) : Registra(itens, nova, contexto)
    BY <1>2 DEF Vende
  <2>2. PICK nova \in NovaT(QuoteLines(produtos, itens)) : Registra(itens, nova, contexto)
    BY <2>1
  <2>3. nova.status = "CONFIRMADA" /\ vendas' = Append(vendas, nova)
        /\ UNCHANGED cancelamentos
    BY <2>2 DEF Registra, InsertSale, NovaT
  <2>4. /\ DOMAIN vendas' = 1..(Len(vendas) + 1) /\ DOMAIN vendas = 1..Len(vendas)
        /\ Len(vendas) \in Nat
        /\ \A v \in DOMAIN vendas : vendas'[v] = vendas[v]
        /\ vendas'[Len(vendas) + 1] = nova
    BY <1>1, <2>3
  <2> QED
    BY <1>1, <2>3, <2>4 DEF CancelamentoUnico
<1>3. CASE Cancela
  <2>1. PICK novo \in CancelamentoT : Estorna(novo)
    BY <1>3 DEF Cancela
  <2>2. /\ novo.venda \in DOMAIN vendas /\ Perfil[novo.autorizador] = "admin"
        /\ \A k \in DOMAIN cancelamentos : cancelamentos[k].venda # novo.venda
    BY <2>1 DEF Estorna, Cancelavel, RequireAdmin
  <2>3. cancelamentos' = Append(cancelamentos, novo)
    BY <2>1 DEF Estorna
  <2>4. /\ DOMAIN cancelamentos' = 1..(Len(cancelamentos) + 1)
        /\ DOMAIN cancelamentos = 1..Len(cancelamentos) /\ Len(cancelamentos) \in Nat
        /\ \A k \in DOMAIN cancelamentos : cancelamentos'[k] = cancelamentos[k]
        /\ cancelamentos'[Len(cancelamentos) + 1] = novo
    BY <1>1, <2>3, Acrescimo
  <2>5. /\ DOMAIN vendas' = DOMAIN vendas
        /\ vendas'[novo.venda].status = "CANCELADA"
        /\ \A v \in DOMAIN vendas : v # novo.venda => vendas'[v] = vendas[v]
    BY <2>1, VendaCancelada
  <2>6. \A v \in DOMAIN vendas' :
          vendas'[v].status = "CANCELADA" <=>
            \E k \in DOMAIN cancelamentos' : cancelamentos'[k].venda = v
    <3> TAKE v \in DOMAIN vendas'
    <3>1. CASE v = novo.venda
      BY <2>4, <2>5, <3>1
    <3>2. CASE v # novo.venda
      <4>1. (\E k \in DOMAIN cancelamentos' : cancelamentos'[k].venda = v)
              <=> \E k \in DOMAIN cancelamentos : cancelamentos[k].venda = v
        BY ONLY <2>4, <3>2
      <4> QED
        BY <2>5, <3>2, <4>1 DEF CancelamentoUnico
    <3> QED
      BY <3>1, <3>2
  <2> QED
    BY <2>2, <2>4, <2>6 DEF CancelamentoUnico
<1>4. CASE UNCHANGED <<vendas, cancelamentos>>
  BY <1>4 DEF CancelamentoUnico
<1>5. Abre \/ Movimenta \/ Fecha \/ Copia \/ Cataloga \/ UNCHANGED <<produtos, livros>>
        => UNCHANGED <<vendas, cancelamentos>>
  BY DEF Abre, Movimenta, Fecha, CloseCash, Copia, Cataloga, livros
<1> QED
  BY <1>2, <1>3, <1>4, <1>5, EfeitoDeNext DEF Efeito

(* A cancelled sale has one cancellation, by an administrator, and a sale  *)
(* that stands has none.                                                   *)
THEOREM PDVCancelamentoUnico == Spec => []CancelamentoUnico
<1>1. Init => CancelamentoUnico
  BY DEF Init, CancelamentoUnico
<1>2. TypeOK /\ CancelamentoUnico /\ [Next]_vars => (TypeOK /\ CancelamentoUnico)'
  BY TiposMantidos, CancelamentoMantido
<1> QED
  BY <1>1, <1>2, TiposIniciais, PTL DEF Spec

-----------------------------------------------------------------------------
(* Exceptions                                                              *)

LEMMA ExcecaoMantida == TypeOK /\ ExcecaoAutorizada /\ [Next]_vars => ExcecaoAutorizada'
<1> SUFFICES ASSUME TypeOK, ExcecaoAutorizada, [Next]_vars PROVE ExcecaoAutorizada'
  OBVIOUS
<1>1. vendas \in Seq(VendaT)
  BY DEF TypeOK
<1>2. CASE Vende
  <2>1. PICK itens \in Carrinhos, contexto \in Contextos :
          \E nova \in NovaT(QuoteLines(produtos, itens)) : Registra(itens, nova, contexto)
    BY <1>2 DEF Vende
  <2>2. PICK nova \in NovaT(QuoteLines(produtos, itens)) : Registra(itens, nova, contexto)
    BY <2>1
  <2>3. AutorizacaoExata(nova) /\ nova.autorizador \in Usuario \cup {Nulo}
        /\ vendas' = Append(vendas, nova)
    BY <2>2 DEF Registra, InsertSale, NovaT
  <2>4. /\ DOMAIN vendas' = 1..(Len(vendas) + 1) /\ DOMAIN vendas = 1..Len(vendas)
        /\ Len(vendas) \in Nat
        /\ \A v \in DOMAIN vendas : vendas'[v] = vendas[v]
        /\ vendas'[Len(vendas) + 1] = nova
    BY <1>1, <2>3
  <2>5. IF \/ \E i \in DOMAIN nova.linhas : HasPriceException(nova.linhas[i])
           \/ TotalManual(nova.linhas) > LimiteManual
        THEN /\ nova.autorizador \in Usuario
             /\ Perfil[nova.autorizador] = "admin"
             /\ nova.motivo # Nulo
        ELSE nova.autorizador = Nulo /\ nova.motivo = Nulo
    BY <2>3 DEF AutorizacaoExata, RequiresAuthorization, RequireAdmin
  <2> QED
    BY <2>4, <2>5 DEF ExcecaoAutorizada
<1>3. CASE Cancela
  <2>1. PICK novo \in CancelamentoT : Estorna(novo)
    BY <1>3 DEF Cancela
  <2> QED
    BY <2>1, VendaCancelada DEF ExcecaoAutorizada
<1>4. CASE UNCHANGED vendas
  BY <1>4 DEF ExcecaoAutorizada
<1>5. Abre \/ Movimenta \/ Fecha \/ Copia \/ Cataloga \/ UNCHANGED <<produtos, livros>>
        => UNCHANGED vendas
  BY DEF Abre, Movimenta, Fecha, CloseCash, Copia, Cataloga, livros
<1> QED
  BY <1>2, <1>3, <1>4, <1>5, EfeitoDeNext DEF Efeito

(* Every sale with a price exception or beyond the manual limit names an   *)
(* administrator and a reason, and no other sale does.                     *)
THEOREM PDVExcecaoAutorizada == Spec => []ExcecaoAutorizada
<1>1. Init => ExcecaoAutorizada
  BY DEF Init, ExcecaoAutorizada
<1>2. TypeOK /\ ExcecaoAutorizada /\ [Next]_vars => (TypeOK /\ ExcecaoAutorizada)'
  BY TiposMantidos, ExcecaoMantida
<1> QED
  BY <1>1, <1>2, TiposIniciais, PTL DEF Spec

-----------------------------------------------------------------------------
(* Closings that stay true                                                 *)

(* The rows a drawer adds up decide its expected amount, whatever else     *)
(* the tables hold.                                                        *)
LEMMA ValorDasLinhas ==
    ASSUME NEW c,
           caixas'[c].fundo = caixas[c].fundo,
           \A tipo \in {"SUPRIMENTO", "SANGRIA"} : Movimentos(c, tipo)' = Movimentos(c, tipo),
           \A m \in DOMAIN movimentacoes : movimentacoes'[m] = movimentacoes[m],
           VendasDinheiro(c)' = VendasDinheiro(c),
           \A v \in VendasDinheiro(c) : vendas'[v].total = vendas[v].total
    PROVE  ExpectedAmount(c)' = ExpectedAmount(c)
<1>1. ASSUME NEW tipo \in {"SUPRIMENTO", "SANGRIA"}
      PROVE  SomaMovimentos(c, tipo)' = SomaMovimentos(c, tipo)
  <2>1. [m \in Movimentos(c, tipo)' |-> movimentacoes'[m].valor] =
          [m \in Movimentos(c, tipo) |-> movimentacoes[m].valor]
    BY DEF Movimentos
  <2> QED
    BY <2>1 DEF SomaMovimentos
<1>2. SomaVendas(c)' = SomaVendas(c)
  <2>1. [v \in VendasDinheiro(c)' |-> vendas'[v].total] =
          [v \in VendasDinheiro(c) |-> vendas[v].total]
    OBVIOUS
  <2> QED
    BY <2>1 DEF SomaVendas
<1> QED
  BY <1>1, <1>2 DEF ExpectedAmount

(* No step changes what a drawer adds up unless the drawer is open, and    *)
(* its closing does not either.                                            *)
LEMMA ValorCongelado ==
    ASSUME TypeOK, Efeito, NEW c \in DOMAIN caixas,
           caixas[c].status = "FECHADO" \/ Fecha
    PROVE  ExpectedAmount(c)' = ExpectedAmount(c)
<1>1. /\ caixas \in Seq(CaixaT) /\ movimentacoes \in Seq(MovimentoT)
      /\ vendas \in Seq(VendaT)
  BY DEF TypeOK
<1>2. CASE Fecha
  <2>1. PICK a \in Usuario, d \in Abertos, contado \in Contagens,
             justificado \in BOOLEAN : CloseCash(a, d, contado, justificado)
    BY <1>2 DEF Fecha
  <2>2. d \in DOMAIN caixas
    BY DEF Abertos
  <2>3. caixas'[c].fundo = caixas[c].fundo
    BY <2>1, <2>2, CaixaFechado
  <2>4. UNCHANGED <<movimentacoes, vendas>>
    BY <2>1 DEF CloseCash
  <2> QED
    BY <2>3, <2>4, ValorDasLinhas DEF Movimentos, VendasDinheiro
<1>3. CASE caixas[c].status = "FECHADO" /\ Movimenta
  <2>1. PICK novo \in MovimentoT :
          /\ novo.caixa \in Abertos
          /\ movimentacoes' = Append(movimentacoes, novo)
          /\ UNCHANGED <<caixas, vendas>>
    BY <1>3 DEF Movimenta
  <2>2. novo.caixa # c
    BY <1>3, <2>1 DEF Abertos
  <2>3. \A tipo \in {"SUPRIMENTO", "SANGRIA"} : Movimentos(c, tipo)' = Movimentos(c, tipo)
    BY <1>1, <2>1, <2>2, Acrescimo DEF Movimentos
  <2>4. \A m \in DOMAIN movimentacoes : movimentacoes'[m] = movimentacoes[m]
    BY <1>1, <2>1, Acrescimo
  <2> QED
    BY <2>1, <2>3, <2>4, ValorDasLinhas DEF VendasDinheiro
<1>4. CASE caixas[c].status = "FECHADO" /\ Vende
  <2>1. PICK itens \in Carrinhos, contexto \in Contextos :
          \E nova \in NovaT(QuoteLines(produtos, itens)) : Registra(itens, nova, contexto)
    BY <1>4 DEF Vende
  <2>2. PICK nova \in NovaT(QuoteLines(produtos, itens)) : Registra(itens, nova, contexto)
    BY <2>1
  <2>3. nova.caixa \in Abertos /\ vendas' = Append(vendas, nova)
        /\ UNCHANGED <<caixas, movimentacoes>>
    BY <2>2 DEF Registra, InsertSale
  <2>4. nova.caixa # c
    BY <1>4, <2>3 DEF Abertos
  <2>5. /\ DOMAIN vendas' = 1..(Len(vendas) + 1) /\ DOMAIN vendas = 1..Len(vendas)
        /\ Len(vendas) \in Nat
        /\ \A v \in DOMAIN vendas : vendas'[v] = vendas[v]
        /\ vendas'[Len(vendas) + 1] = nova
    BY <1>1, <2>3
  <2>6. /\ VendasDinheiro(c)' = VendasDinheiro(c)
        /\ \A v \in VendasDinheiro(c) : vendas'[v].total = vendas[v].total
    BY <2>4, <2>5 DEF VendasDinheiro
  <2> QED
    BY <2>3, <2>6, ValorDasLinhas DEF Movimentos
<1>5. CASE caixas[c].status = "FECHADO" /\ Cancela
  <2>1. PICK novo \in CancelamentoT : Estorna(novo)
    BY <1>5 DEF Cancela
  <2>2. novo.venda \in DOMAIN vendas /\ vendas[novo.venda].caixa # c
        /\ UNCHANGED <<caixas, movimentacoes>>
    BY <1>5, <2>1 DEF Estorna, Cancelavel
  <2>3. /\ DOMAIN vendas' = DOMAIN vendas
        /\ \A v \in DOMAIN vendas :
             /\ v # novo.venda => vendas'[v] = vendas[v]
             /\ vendas'[v].caixa = vendas[v].caixa
    BY <2>1, VendaCancelada
  <2>4. /\ VendasDinheiro(c)' = VendasDinheiro(c)
        /\ \A v \in VendasDinheiro(c) : vendas'[v].total = vendas[v].total
    BY <2>2, <2>3 DEF VendasDinheiro
  <2> QED
    BY <2>2, <2>4, ValorDasLinhas DEF Movimentos
<1>6. CASE Abre
  <2>1. /\ \E novo \in CaixaT : caixas' = Append(caixas, novo)
        /\ UNCHANGED <<movimentacoes, vendas>>
    BY <1>6, PDVAssumption DEF Abre, CaixaT, PDVAssumption
  <2>2. caixas'[c] = caixas[c]
    BY <1>1, <2>1, Acrescimo
  <2> QED
    BY <2>1, <2>2, ValorDasLinhas DEF Movimentos, VendasDinheiro
<1>7. CASE UNCHANGED <<caixas, movimentacoes, vendas>>
  BY <1>7, ValorDasLinhas DEF Movimentos, VendasDinheiro
<1>8. Copia \/ Cataloga \/ UNCHANGED <<produtos, livros>>
        => UNCHANGED <<caixas, movimentacoes, vendas>>
  BY DEF Copia, Cataloga, livros
<1> QED
  BY <1>2, <1>3, <1>4, <1>5, <1>6, <1>7, <1>8 DEF Efeito

LEMMA FechamentoMantido ==
    TypeOK /\ FechamentoConsolidado /\ [Next]_vars => FechamentoConsolidado'
<1> SUFFICES ASSUME TypeOK, FechamentoConsolidado, [Next]_vars
             PROVE  FechamentoConsolidado'
  OBVIOUS
<1>1. Efeito /\ caixas \in Seq(CaixaT) /\ backups \subseteq DOMAIN caixas
  BY EfeitoDeNext DEF TypeOK
<1>2. CASE Abre
  <2>1. PICK novo \in CaixaT :
          /\ novo.status = "ABERTO" /\ caixas' = Append(caixas, novo)
          /\ UNCHANGED backups
    BY <1>2, PDVAssumption DEF Abre, CaixaT, PDVAssumption
  <2>2. /\ DOMAIN caixas' = 1..(Len(caixas) + 1) /\ DOMAIN caixas = 1..Len(caixas)
        /\ Len(caixas) \in Nat
        /\ \A c \in DOMAIN caixas : caixas'[c] = caixas[c]
        /\ caixas'[Len(caixas) + 1] = novo
    BY <1>1, <2>1, Acrescimo
  <2>3. \A c \in DOMAIN caixas :
          caixas[c].status = "FECHADO" => ExpectedAmount(c)' = ExpectedAmount(c)
    BY <1>1, ValorCongelado
  <2> QED
    BY <1>1, <2>1, <2>2, <2>3 DEF FechamentoConsolidado
<1>3. CASE Fecha
  <2>1. PICK a \in Usuario, d \in Abertos, contado \in Contagens,
             justificado \in BOOLEAN : CloseCash(a, d, contado, justificado)
    BY <1>3 DEF Fecha
  <2>2. d \in DOMAIN caixas /\ backups' = backups \cup {d}
        /\ (contado # ExpectedAmount(d) => justificado)
    BY <2>1 DEF Abertos, CloseCash
  <2>3. /\ DOMAIN caixas' = DOMAIN caixas
        /\ caixas'[d].status = "FECHADO" /\ caixas'[d].informado = contado
        /\ caixas'[d].esperado = ExpectedAmount(d)
        /\ caixas'[d].justificado = justificado
        /\ \A c \in DOMAIN caixas : c # d => caixas'[c] = caixas[c]
    BY <2>1, <2>2, CaixaFechado
  <2>4. \A c \in DOMAIN caixas : ExpectedAmount(c)' = ExpectedAmount(c)
    BY <1>1, <1>3, ValorCongelado
  <2> QED
    BY <2>2, <2>3, <2>4 DEF FechamentoConsolidado
<1>4. CASE UNCHANGED <<caixas, backups>>
  <2>1. \A c \in DOMAIN caixas :
          caixas[c].status = "FECHADO" => ExpectedAmount(c)' = ExpectedAmount(c)
    BY <1>1, ValorCongelado
  <2> QED
    BY <1>4, <2>1 DEF FechamentoConsolidado
<1>5. Movimenta \/ Copia \/ Vende \/ Cancela \/ Cataloga \/ UNCHANGED <<produtos, livros>>
        => UNCHANGED <<caixas, backups>>
  BY DEF Movimenta, Copia, Vende, Registra, InsertSale, Cancela, Estorna, Cataloga,
         livros
<1> QED
  BY <1>1, <1>2, <1>3, <1>4, <1>5 DEF Efeito

(* The amount a closing recorded is what the rows of its drawer add up to  *)
(* in every later state; a difference is justified, and exactly the closed *)
(* drawers have a backup job.                                              *)
THEOREM PDVFechamentoConsolidado == Spec => []FechamentoConsolidado
<1>1. Init => FechamentoConsolidado
  BY DEF Init, FechamentoConsolidado
<1>2. TypeOK /\ FechamentoConsolidado /\ [Next]_vars => (TypeOK /\ FechamentoConsolidado)'
  BY TiposMantidos, FechamentoMantido
<1> QED
  BY <1>1, <1>2, TiposIniciais, PTL DEF Spec

-----------------------------------------------------------------------------
(* Prices in force                                                         *)

LEMMA VendaNoPreco ==
    ASSUME NEW itens \in Carrinhos, NEW contexto \in Contextos,
           NEW nova \in NovaT(QuoteLines(produtos, itens)),
           Registra(itens, nova, contexto),
           NEW i \in DOMAIN nova.linhas, nova.linhas[i].tipo = "CATALOGO"
    PROVE  /\ nova.linhas[i].original = produtos[nova.linhas[i].gtin].preco
           /\ nova.linhas[i].preco # produtos[nova.linhas[i].gtin].preco
                => RequireAdmin(nova.autorizador)
<1>1. nova.linhas = QuoteLines(produtos, itens) /\ AutorizacaoExata(nova)
  BY DEF NovaT, Registra
<1>2. nova.linhas[i] = CatalogLine(produtos[itens[i].gtin], itens[i])
  BY <1>1 DEF QuoteLines, ManualLine
<1>3. nova.linhas[i].original = produtos[nova.linhas[i].gtin].preco
  BY <1>2 DEF CatalogLine
<1>4. nova.linhas[i].preco # nova.linhas[i].original => RequiresAuthorization(nova.linhas)
  BY DEF RequiresAuthorization, HasPriceException
<1> QED
  BY <1>1, <1>3, <1>4 DEF AutorizacaoExata

(* A line of a new sale records the price in force, and is sold at another *)
(* only with an administrator behind it.                                   *)
THEOREM PDVPrecoVigente == Spec => PrecoVigente
<1>1. ASSUME TypeOK, [Next]_vars
      PROVE  VendaAoPrecoVigente
  <2>1. vendas \in Seq(VendaT) /\ Efeito
    BY <1>1, EfeitoDeNext DEF TypeOK
  <2>2. CASE Vende
    <3>1. PICK itens \in Carrinhos, contexto \in Contextos :
            \E nova \in NovaT(QuoteLines(produtos, itens)) : Registra(itens, nova, contexto)
      BY <2>2 DEF Vende
    <3>2. PICK nova \in NovaT(QuoteLines(produtos, itens)) : Registra(itens, nova, contexto)
      BY <3>1
    <3>3. vendas' = Append(vendas, nova)
      BY <3>2 DEF Registra, InsertSale
    <3>4. \A v \in DOMAIN vendas' \ DOMAIN vendas : vendas'[v] = nova
      BY <2>1, <3>3
    <3> QED
      BY <3>2, <3>4, VendaNoPreco DEF VendaAoPrecoVigente
  <2>3. CASE Cancela
    BY <1>1, <2>3, VendaCancelada DEF Cancela, VendaAoPrecoVigente
  <2>4. CASE UNCHANGED vendas
    BY <2>4 DEF VendaAoPrecoVigente
  <2>5. Abre \/ Movimenta \/ Fecha \/ Copia \/ Cataloga \/ UNCHANGED <<produtos, livros>>
          => UNCHANGED vendas
    BY DEF Abre, Movimenta, Fecha, CloseCash, Copia, Cataloga, livros
  <2> QED
    BY <2>1, <2>2, <2>3, <2>4, <2>5 DEF Efeito
<1>2. TypeOK /\ [Next]_vars => [VendaAoPrecoVigente]_vars
  BY <1>1
<1> QED
  BY <1>2, TiposIniciais, TiposMantidos, PTL DEF Spec, PrecoVigente

-----------------------------------------------------------------------------
(* Stock                                                                   *)

LEMMA SaidaNatural ==
    ASSUME TypeOK, NEW v \in DOMAIN vendas, NEW g
    PROVE  Saida(v, g) \in Nat /\ Quantidade(vendas[v].linhas, g) \in Nat
<1>1. vendas[v] \in VendaT
  BY Linha DEF TypeOK
<1>2. vendas[v].linhas \in Seq(LinhaT)
  BY <1>1 DEF VendaT
<1> QED
  BY <1>2, QuantidadeNatural DEF Saida

(* A sale takes from the shelf what it adds to the standing sales.         *)
LEMMA SaldoAoVender ==
    ASSUME TypeOK, Vende, NEW g \in Produto, produtos[g].controlado
    PROVE  Saldo(g)' = Saldo(g)
<1>1. PICK itens \in Carrinhos, contexto \in Contextos :
        \E nova \in NovaT(QuoteLines(produtos, itens)) : Registra(itens, nova, contexto)
  BY DEF Vende
<1>2. PICK nova \in NovaT(QuoteLines(produtos, itens)) : Registra(itens, nova, contexto)
  BY <1>1
<1>3. PICK n : n = Len(vendas) + 1
  OBVIOUS
<1> DEFINE q == Quantidade(nova.linhas, g)
           antes == [v \in DOMAIN vendas |-> Saida(v, g)]
           depois == [v \in DOMAIN vendas' |-> Saida(v, g)']
<1>4. /\ nova.linhas \in Seq(LinhaT) /\ nova.status = "CONFIRMADA"
      /\ nova.baixa[g] = q
  <2>1. nova.linhas \in Seq(LinhaT)
    BY <1>2, LinhasDaCotacao DEF Registra, TypeOK, NovaT
  <2>2. nova.status = "CONFIRMADA" /\ nova.baixa = Baixa(nova.linhas)
    BY <1>2 DEF NovaT
  <2> QED
    BY <2>1, <2>2 DEF Baixa
<1>5. q \in Nat
  BY <1>4, QuantidadeNatural
<1>6. /\ vendas \in Seq(VendaT) /\ vendas' = Append(vendas, nova)
      /\ produtos' = [p \in Produto |->
                        [produtos[p] EXCEPT !.estoque = @ - nova.baixa[p]]]
  BY <1>2 DEF Registra, InsertSale, TypeOK
<1>7. /\ IsFiniteSet(DOMAIN vendas) /\ n \notin DOMAIN vendas
      /\ DOMAIN vendas' = DOMAIN vendas \cup {n} /\ vendas'[n] = nova
      /\ \A v \in DOMAIN vendas : vendas'[v] = vendas[v]
  <2>1. /\ DOMAIN vendas = 1..Len(vendas) /\ DOMAIN vendas' = 1..(Len(vendas) + 1)
        /\ vendas'[n] = nova /\ \A v \in DOMAIN vendas : vendas'[v] = vendas[v]
        /\ Len(vendas) \in Nat
    BY <1>3, <1>6
  <2> QED
    BY <1>3, <1>6, <2>1, TabelaFinita
<1>8. produtos'[g].estoque = produtos[g].estoque - q /\ produtos[g].estoque \in Nat
  BY <1>4, <1>6 DEF TypeOK, ProdutoT
<1>9. antes \in [DOMAIN vendas -> Int]
  BY SaidaNatural
<1>10. \A v \in DOMAIN vendas : Saida(v, g)' = Saida(v, g)
  BY <1>7 DEF Saida
<1>11. Saida(n, g)' = q
  BY <1>4, <1>7 DEF Saida
<1>12. /\ depois \in [DOMAIN vendas \cup {n} -> Int] /\ depois[n] = q
       /\ \A v \in DOMAIN vendas : depois[v] = antes[v]
  BY <1>5, <1>7, <1>9, <1>10, <1>11
<1> HIDE DEF antes, depois, q
<1>13. SumFunction(depois) = SumFunction(antes) + depois[n]
  BY <1>7, <1>9, <1>12, SomaCresce
<1>14. SumFunction(antes) \in Int
  BY <1>7, <1>9, SomaInteira
<1>15. /\ Saldo(g) = produtos[g].estoque + SumFunction(antes)
       /\ Saldo(g)' = produtos'[g].estoque + SumFunction(depois)
  BY DEF Saldo, antes, depois
<1> QED
  BY <1>5, <1>8, <1>12, <1>13, <1>14, <1>15

(* A cancellation gives back what the sale held.                           *)
LEMMA SaldoAoCancelar ==
    ASSUME TypeOK, Cancela, NEW g \in Produto, produtos[g].controlado
    PROVE  Saldo(g)' = Saldo(g)
<1>1. PICK novo \in CancelamentoT : Estorna(novo)
  BY DEF Cancela
<1> DEFINE x == novo.venda
           q == Quantidade(vendas[x].linhas, g)
           antes == [v \in DOMAIN vendas |-> Saida(v, g)]
           depois == [v \in DOMAIN vendas' |-> Saida(v, g)']
<1>2. /\ x \in DOMAIN vendas /\ vendas \in Seq(VendaT) /\ vendas[x].status = "CONFIRMADA"
      /\ produtos' = [p \in Produto |->
                        [produtos[p] EXCEPT !.estoque = @ + Baixa(vendas[x].linhas)[p]]]
  BY <1>1 DEF Estorna, Cancelavel, TypeOK
<1>3. /\ DOMAIN vendas' = DOMAIN vendas /\ vendas'[x].status = "CANCELADA"
      /\ \A v \in DOMAIN vendas : v # x => vendas'[v] = vendas[v]
  BY <1>1, VendaCancelada
<1>4. q \in Nat
  BY <1>2, SaidaNatural
<1>5. produtos'[g].estoque = produtos[g].estoque + q /\ produtos[g].estoque \in Nat
  BY <1>2 DEF Baixa, TypeOK, ProdutoT
<1>6. antes \in [DOMAIN vendas -> Int] /\ antes[x] = q
  <2>1. \A v \in DOMAIN vendas : Saida(v, g) \in Nat
    BY SaidaNatural
  <2>2. Saida(x, g) = q
    BY <1>2 DEF Saida
  <2> QED
    BY <1>2, <2>1, <2>2
<1>7. /\ Saida(x, g)' = 0
      /\ \A v \in DOMAIN vendas : v # x => Saida(v, g)' = Saida(v, g)
  BY <1>3 DEF Saida
<1>8. /\ depois \in [DOMAIN vendas -> Int] /\ depois[x] = 0
      /\ \A v \in DOMAIN vendas : v # x => depois[v] = antes[v]
  BY <1>2, <1>3, <1>6, <1>7
<1>9. IsFiniteSet(DOMAIN vendas)
  BY <1>2, TabelaFinita
<1> HIDE DEF antes, depois, q, x
<1>10. SumFunction(depois) = SumFunction(antes) - antes[x] + depois[x]
  BY <1>2, <1>6, <1>8, <1>9, SomaMuda
<1>11. SumFunction(antes) \in Int
  BY <1>6, <1>9, SomaInteira
<1>12. /\ Saldo(g) = produtos[g].estoque + SumFunction(antes)
       /\ Saldo(g)' = produtos'[g].estoque + SumFunction(depois)
  BY DEF Saldo, antes, depois
<1> QED
  BY <1>4, <1>5, <1>6, <1>8, <1>10, <1>11, <1>12

(* Stock of a controlled product only moves between the shelf and the      *)
(* standing sales, whatever is sold, cancelled or repeated.                *)
THEOREM PDVEstoqueConciliado == Spec => EstoqueConciliado
<1>1. ASSUME TypeOK, [Next]_vars, livros' # livros
      PROVE  \A g \in Produto : produtos[g].controlado => Saldo(g)' = Saldo(g)
  <2>1. CASE Vende
    BY <1>1, <2>1, SaldoAoVender
  <2>2. CASE Cancela
    BY <1>1, <2>2, SaldoAoCancelar
  <2>3. CASE UNCHANGED <<produtos, vendas>>
    BY <2>3 DEF Saldo, Saida
  <2>4. Abre \/ Movimenta \/ Fecha \/ Copia => UNCHANGED <<produtos, vendas>>
    BY DEF Abre, Movimenta, Fecha, CloseCash, Copia
  <2>5. ~Cataloga /\ ~UNCHANGED <<produtos, livros>>
    BY <1>1 DEF Cataloga
  <2> QED
    BY <1>1, <2>1, <2>2, <2>3, <2>4, <2>5, EfeitoDeNext DEF Efeito
<1>2. TypeOK /\ [Next]_vars => [SaldoConservado]_vars
  BY <1>1 DEF SaldoConservado
<1> QED
  BY <1>2, TiposIniciais, TiposMantidos, PTL DEF Spec, EstoqueConciliado

-----------------------------------------------------------------------------
(* What a cancellation gives back                                          *)

\* Each sale took what its lines say of the products controlled now, and what
\* a sale names stays in the catalogue.
BaixaVigente ==
    \A v \in DOMAIN vendas, g \in Produto :
        /\ vendas[v].baixa[g] = (IF produtos[g].controlado
                                 THEN Quantidade(vendas[v].linhas, g) ELSE 0)
        /\ LinhasDe(vendas[v].linhas, g) # {} => produtos[g].existe

LEMMA SemLinhas ==
    ASSUME NEW linhas, NEW g, LinhasDe(linhas, g) = {}
    PROVE  Quantidade(linhas, g) = 0
<1>1. [i \in LinhasDe(linhas, g) |-> linhas[i].quantidade] \in [{} -> Int]
  OBVIOUS
<1> QED
  BY <1>1, SomaVazia DEF Quantidade

\* No edit changes the control of a product some sale names.
LEMMA ControleMantido ==
    ASSUME TypeOK, BaixaVigente, ProductNext,
           \A edicao \in Edicoes : edicao.controlado = Nulo,
           NEW v \in DOMAIN vendas, NEW g \in Produto,
           LinhasDe(vendas[v].linhas, g) # {}
    PROVE  produtos'[g].controlado = produtos[g].controlado /\ produtos'[g].existe
<1>1. produtos \in [Produto -> ProdutoT] /\ produtos[g].existe /\ Vendido(g)
  BY DEF TypeOK, BaixaVigente, Vendido
<1>2. ASSUME NEW a \in Usuario, NEW p \in Produto, NEW cadastro \in Cadastros,
             CreateProduct(a, p, cadastro)
      PROVE  produtos'[g] = produtos[g]
  BY <1>1, <1>2 DEF CreateProduct
<1>3. ASSUME NEW a \in Usuario, NEW p \in Produto, NEW edicao \in Edicoes,
             UpdateProduct(a, p, edicao)
      PROVE  produtos'[g].controlado = produtos[g].controlado /\ produtos'[g].existe
  <2>1. edicao.controlado = Nulo
    OBVIOUS
  <2> QED
    BY <1>1, <1>3, <2>1 DEF UpdateProduct, Novo
<1>4. ASSUME NEW a \in Usuario, NEW p \in Produto, NEW delta \in Ajustes,
             AdjustStock(a, p, delta)
      PROVE  produtos'[g].controlado = produtos[g].controlado /\ produtos'[g].existe
  BY <1>1, <1>4 DEF AdjustStock, ProdutoT
<1>5. ASSUME NEW a \in Usuario, NEW p \in Produto, DeleteProduct(a, p)
      PROVE  produtos'[g].controlado = produtos[g].controlado /\ produtos'[g].existe
  BY <1>1, <1>5 DEF DeleteProduct, ProdutoT
<1> QED
  BY <1>1, <1>2, <1>3, <1>4, <1>5 DEF ProductNext

LEMMA BaixaMantida ==
    ASSUME \A edicao \in Edicoes : edicao.controlado = Nulo
    PROVE  TypeOK /\ BaixaVigente /\ [Next]_vars => BaixaVigente'
<1> SUFFICES ASSUME TypeOK, BaixaVigente, [Next]_vars PROVE BaixaVigente'
  OBVIOUS
<1>1. vendas \in Seq(VendaT) /\ produtos \in [Produto -> ProdutoT]
  BY DEF TypeOK
<1>2. CASE Vende
  <2>1. PICK itens \in Carrinhos, contexto \in Contextos :
          \E nova \in NovaT(QuoteLines(produtos, itens)) : Registra(itens, nova, contexto)
    BY <1>2 DEF Vende
  <2>2. PICK nova \in NovaT(QuoteLines(produtos, itens)) : Registra(itens, nova, contexto)
    BY <2>1
  <2>3. /\ nova.linhas = QuoteLines(produtos, itens) /\ nova.baixa = Baixa(nova.linhas)
        /\ vendas' = Append(vendas, nova) /\ Cotavel(produtos, itens)
        /\ produtos' = [g \in Produto |->
                          [produtos[g] EXCEPT !.estoque = @ - nova.baixa[g]]]
    BY <2>2 DEF Registra, InsertSale, NovaT
  <2>4. /\ DOMAIN vendas' = 1..(Len(vendas) + 1) /\ DOMAIN vendas = 1..Len(vendas)
        /\ Len(vendas) \in Nat
        /\ \A v \in DOMAIN vendas : vendas'[v] = vendas[v]
        /\ vendas'[Len(vendas) + 1] = nova
    BY <1>1, <2>3
  <2>5. \A g \in Produto : /\ produtos'[g].controlado = produtos[g].controlado
                            /\ produtos'[g].existe = produtos[g].existe
    BY <1>1, <2>3 DEF ProdutoT
  <2>6. \A g \in Produto :
          nova.baixa[g] = IF produtos[g].controlado THEN Quantidade(nova.linhas, g) ELSE 0
    BY <2>3 DEF Baixa
  <2>7. ASSUME NEW g \in Produto, LinhasDe(nova.linhas, g) # {}
        PROVE  produtos[g].existe
    <3>1. PICK i \in DOMAIN itens : /\ nova.linhas[i].tipo = "CATALOGO"
                                    /\ nova.linhas[i].gtin = g
      BY <2>3, <2>7 DEF LinhasDe, QuoteLines
    <3>2. itens[i].tipo = "CATALOGO" /\ itens[i].gtin = g
      BY <2>3, <3>1 DEF QuoteLines, CatalogLine, ManualLine
    <3> QED
      BY <2>3, <3>2 DEF Cotavel, CatalogLineOK
  <2>8. ASSUME NEW v \in DOMAIN vendas, NEW g \in Produto
        PROVE  /\ vendas[v].baixa[g] = (IF produtos[g].controlado
                                       THEN Quantidade(vendas[v].linhas, g) ELSE 0)
               /\ LinhasDe(vendas[v].linhas, g) # {} => produtos[g].existe
    BY DEF BaixaVigente
  <2>9. ASSUME NEW v \in DOMAIN vendas', NEW g \in Produto
        PROVE  /\ vendas'[v].baixa[g] = (IF produtos'[g].controlado
                                        THEN Quantidade(vendas'[v].linhas, g) ELSE 0)
               /\ LinhasDe(vendas'[v].linhas, g) # {} => produtos'[g].existe
    <3>1. CASE v \in DOMAIN vendas
      BY <2>4, <2>5, <2>8, <3>1
    <3>2. CASE v = Len(vendas) + 1
      BY <2>4, <2>5, <2>6, <2>7, <3>2
    <3> QED
      BY <2>4, <3>1, <3>2
  <2> QED
    BY <2>9 DEF BaixaVigente
<1>3. CASE Cancela
  <2>1. PICK novo \in CancelamentoT : Estorna(novo)
    BY <1>3 DEF Cancela
  <2>2. \A g \in Produto : /\ produtos'[g].controlado = produtos[g].controlado
                            /\ produtos'[g].existe = produtos[g].existe
    BY <1>1, <2>1 DEF Estorna, ProdutoT
  <2> QED
    BY <2>1, <2>2, VendaCancelada DEF BaixaVigente
<1>4. CASE Cataloga
  <2>1. UNCHANGED vendas /\ ProductNext
    BY <1>4 DEF Cataloga, livros
  <2>2. ASSUME NEW v \in DOMAIN vendas, NEW g \in Produto,
               LinhasDe(vendas[v].linhas, g) # {}
        PROVE  produtos'[g].controlado = produtos[g].controlado /\ produtos'[g].existe
    BY <2>1, <2>2, ControleMantido
  <2>3. \A v \in DOMAIN vendas, g \in Produto :
          LinhasDe(vendas[v].linhas, g) = {} => Quantidade(vendas[v].linhas, g) = 0
    BY SemLinhas
  <2> QED
    BY <2>1, <2>2, <2>3 DEF BaixaVigente
<1>5. CASE UNCHANGED <<produtos, vendas>>
  BY <1>5 DEF BaixaVigente
<1>6. Abre \/ Movimenta \/ Fecha \/ Copia \/ UNCHANGED <<produtos, livros>>
        => UNCHANGED <<produtos, vendas>>
  BY DEF Abre, Movimenta, Fecha, CloseCash, Copia, livros
<1> QED
  BY <1>2, <1>3, <1>4, <1>5, <1>6, EfeitoDeNext DEF Efeito

(* While no edit turns the stock control of a product on or off, a         *)
(* cancellation gives back exactly what its sale took: prices, absolute    *)
(* stocks and deletions in between do not matter.                          *)
THEOREM PDVCancelamentoRepoe ==
    ASSUME \A edicao \in Edicoes : edicao.controlado = Nulo
    PROVE  Spec => CancelamentoRepoeBaixa
<1> DEFINE Repoe ==
      \A v \in DOMAIN vendas :
         vendas[v].status = "CONFIRMADA" /\ vendas'[v].status = "CANCELADA" =>
           \A g \in Produto :
             produtos'[g].estoque = produtos[g].estoque + vendas[v].baixa[g]
<1>1. Init => BaixaVigente
  BY DEF Init, BaixaVigente
<1>2. TypeOK /\ BaixaVigente /\ [Next]_vars => (TypeOK /\ BaixaVigente)'
  BY TiposMantidos, BaixaMantida
<1>3. ASSUME TypeOK, BaixaVigente, [Next]_vars PROVE Repoe
  <2> USE <1>3
  <2>1. CASE Vende
    <3>1. \A v \in DOMAIN vendas : vendas'[v] = vendas[v]
      <4>1. PICK nova : vendas' = Append(vendas, nova)
        BY <2>1 DEF Vende, Registra, InsertSale
      <4> QED
        BY <4>1 DEF TypeOK
    <3> QED
      BY <3>1
  <2>2. CASE Cancela
    <3>1. PICK novo \in CancelamentoT : Estorna(novo)
      BY <2>2 DEF Cancela
    <3>2. \A v \in DOMAIN vendas : v # novo.venda => vendas'[v] = vendas[v]
      BY <3>1, VendaCancelada
    <3>3. \A g \in Produto :
            /\ produtos'[g].estoque = produtos[g].estoque + Baixa(vendas[novo.venda].linhas)[g]
            /\ Baixa(vendas[novo.venda].linhas)[g] = vendas[novo.venda].baixa[g]
      BY <3>1 DEF Estorna, Baixa, BaixaVigente, TypeOK, ProdutoT
    <3> QED
      BY <3>2, <3>3
  <2>3. CASE UNCHANGED vendas
    BY <2>3
  <2>4. Abre \/ Movimenta \/ Fecha \/ Copia \/ Cataloga \/ UNCHANGED <<produtos, livros>>
          => UNCHANGED vendas
    BY DEF Abre, Movimenta, Fecha, CloseCash, Copia, Cataloga, livros
  <2> QED
    BY <2>1, <2>2, <2>3, <2>4, EfeitoDeNext DEF Efeito
<1>4. TypeOK /\ BaixaVigente /\ [Next]_vars => [Repoe]_vars
  BY <1>3
<1> QED
  BY <1>1, <1>2, <1>4, TiposIniciais, PTL DEF Spec, CancelamentoRepoeBaixa

-----------------------------------------------------------------------------
(* What a drawer adds up                                                   *)

(* A quotation of a cart is worth something.                               *)
LEMMA TotalPositivo ==
    ASSUME TypeOK, NEW itens \in Carrinhos, Cotavel(produtos, itens)
    PROVE  Total(QuoteLines(produtos, itens)) \in Nat \ {0}
<1>1. PICK linhas : linhas = QuoteLines(produtos, itens)
  OBVIOUS
<1>2. linhas \in Seq(LinhaT) /\ DOMAIN linhas = DOMAIN itens
  BY <1>1, LinhasDaCotacao DEF TypeOK, QuoteLines
<1>3. DOMAIN linhas # {}
  <2>1. itens \in Seq(ItemT) /\ itens # <<>>
    BY PDVAssumption DEF PDVAssumption, Cotavel
  <2> QED
    BY <1>2, <2>1
<1>4. ASSUME NEW i \in DOMAIN linhas PROVE linhas[i].subtotal \in Nat \ {0}
  <2>1. linhas[i] \in LinhaT
    BY <1>2, Linha
  <2>2. linhas[i].subtotal \in Nat
    BY <2>1 DEF LinhaT
  <2>3. linhas[i].subtotal > 0
    BY <1>1, <1>2 DEF Cotavel, QuoteLines, CatalogLineOK, ManualLineOK
  <2> QED
    BY <2>2, <2>3
<1>5. PICK f : f = [i \in DOMAIN linhas |-> linhas[i].subtotal]
  OBVIOUS
<1>6. f \in [DOMAIN linhas -> Nat \ {0}] /\ IsFiniteSet(DOMAIN linhas)
  BY <1>2, <1>4, <1>5, TabelaFinita
<1>7. SumFunction(f) \in Nat \ {0}
  BY <1>3, <1>6, SomaPositiva
<1> QED
  BY <1>1, <1>5, <1>7 DEF Total

LEMMA MovimentosSomam ==
    ASSUME TypeOK, NEW c, NEW tipo
    PROVE  /\ IsFiniteSet(Movimentos(c, tipo))
           /\ [m \in Movimentos(c, tipo) |-> movimentacoes[m].valor]
                \in [Movimentos(c, tipo) -> Nat]
           /\ SomaMovimentos(c, tipo) \in Nat
<1>1. /\ movimentacoes \in Seq(MovimentoT)
      /\ Movimentos(c, tipo) \subseteq DOMAIN movimentacoes
  BY DEF TypeOK, Movimentos
<1>2. IsFiniteSet(Movimentos(c, tipo))
  BY <1>1, TabelaFinita, FS_Subset
<1>3. \A m \in DOMAIN movimentacoes : movimentacoes[m].valor \in Nat
  <2>1. \A m \in DOMAIN movimentacoes : movimentacoes[m] \in MovimentoT
    BY <1>1, Linha
  <2> QED
    BY <2>1 DEF MovimentoT
<1>4. [m \in Movimentos(c, tipo) |-> movimentacoes[m].valor]
        \in [Movimentos(c, tipo) -> Nat]
  BY <1>1, <1>3
<1> QED
  BY <1>2, <1>4, SomaNatural DEF SomaMovimentos

LEMMA VendasSomam ==
    ASSUME TypeOK, NEW c
    PROVE  /\ IsFiniteSet(VendasDinheiro(c))
           /\ [v \in VendasDinheiro(c) |-> vendas[v].total] \in [VendasDinheiro(c) -> Nat]
           /\ SomaVendas(c) \in Nat
<1>1. vendas \in Seq(VendaT) /\ VendasDinheiro(c) \subseteq DOMAIN vendas
  BY DEF TypeOK, VendasDinheiro
<1>2. IsFiniteSet(VendasDinheiro(c))
  BY <1>1, TabelaFinita, FS_Subset
<1>3. \A v \in DOMAIN vendas : vendas[v].total \in Nat
  <2>1. \A v \in DOMAIN vendas : vendas[v] \in VendaT
    BY <1>1, Linha
  <2> QED
    BY <2>1 DEF VendaT
<1>4. [v \in VendasDinheiro(c) |-> vendas[v].total] \in [VendasDinheiro(c) -> Nat]
  BY <1>1, <1>3
<1> QED
  BY <1>2, <1>4, SomaNatural DEF SomaVendas

LEMMA ValorInteiro ==
    ASSUME TypeOK, NEW c \in DOMAIN caixas
    PROVE  ExpectedAmount(c) \in Int /\ caixas[c].fundo \in Nat
<1>1. caixas[c] \in CaixaT
  BY Linha DEF TypeOK
<1>2. caixas[c].fundo \in Nat
  BY <1>1 DEF CaixaT
<1> QED
  BY <1>2, MovimentosSomam, VendasSomam DEF ExpectedAmount

(* A drawer nothing was taken out of can always be counted: only a         *)
(* withdrawal makes the expected amount one the code refuses.              *)
THEOREM PDVValorSemSangria ==
    Spec => [](\A c \in Abertos : Movimentos(c, "SANGRIA") = {} => ExpectedAmount(c) \in Nat)
<1>1. TypeOK => \A c \in Abertos :
                  Movimentos(c, "SANGRIA") = {} => ExpectedAmount(c) \in Nat
  <2> SUFFICES ASSUME TypeOK, NEW c \in Abertos, Movimentos(c, "SANGRIA") = {}
               PROVE  ExpectedAmount(c) \in Nat
    OBVIOUS
  <2>1. c \in DOMAIN caixas
    BY DEF Abertos
  <2>2. caixas[c].fundo \in Nat
    BY <2>1, ValorInteiro
  <2>3. SomaMovimentos(c, "SANGRIA") = 0
    <3>1. [m \in Movimentos(c, "SANGRIA") |-> movimentacoes[m].valor] \in [{} -> Int]
      OBVIOUS
    <3> QED
      BY <3>1, SomaVazia DEF SomaMovimentos
  <2> QED
    BY <2>2, <2>3, MovimentosSomam, VendasSomam DEF ExpectedAmount
<1> QED
  BY <1>1, TiposIniciais, TiposMantidos, PTL DEF Spec

(* A movement changes what its drawer should hold, by its amount.          *)
LEMMA ValorAoMover ==
    ASSUME TypeOK, NEW novo \in MovimentoT, NEW c \in DOMAIN caixas, novo.caixa = c,
           movimentacoes' = Append(movimentacoes, novo), UNCHANGED <<caixas, vendas>>
    PROVE  ExpectedAmount(c)' = ExpectedAmount(c) + (IF novo.tipo = "SUPRIMENTO"
                                                     THEN novo.valor ELSE -novo.valor)
<1>1. PICK n : n = Len(movimentacoes) + 1
  OBVIOUS
<1>2. /\ n \notin DOMAIN movimentacoes /\ DOMAIN movimentacoes' = DOMAIN movimentacoes \cup {n}
      /\ movimentacoes'[n] = novo
      /\ \A m \in DOMAIN movimentacoes : movimentacoes'[m] = movimentacoes[m]
  <2>1. movimentacoes \in Seq(MovimentoT)
    BY DEF TypeOK
  <2> QED
    BY <1>1, <2>1
<1>3. novo.tipo \in {"SUPRIMENTO", "SANGRIA"} /\ novo.valor \in Nat
  BY DEF MovimentoT
<1>4. SomaMovimentos(c, novo.tipo)' = SomaMovimentos(c, novo.tipo) + novo.valor
  <2>1. PICK S, f, e : /\ S = Movimentos(c, novo.tipo)
                       /\ f = [m \in S |-> movimentacoes[m].valor]
                       /\ e = [m \in S \cup {n} |-> movimentacoes'[m].valor]
    OBVIOUS
  <2>2. S \subseteq DOMAIN movimentacoes /\ n \notin S
    BY <1>2, <2>1 DEF Movimentos
  <2>3. IsFiniteSet(S) /\ f \in [S -> Nat]
    BY <2>1, MovimentosSomam
  <2>4. Movimentos(c, novo.tipo)' = S \cup {n}
    BY <1>2, <2>1 DEF Movimentos
  <2>5. /\ \A m \in S : e[m] = f[m] /\ e[m] \in Int
        /\ e[n] = novo.valor
    <3>1. /\ \A m \in S : /\ e[m] = movimentacoes'[m].valor
                          /\ f[m] = movimentacoes[m].valor
          /\ e[n] = movimentacoes'[n].valor
      BY <2>1
    <3>2. \A m \in S : movimentacoes'[m] = movimentacoes[m] /\ f[m] \in Nat
      BY <1>2, <2>2, <2>3
    <3>3. \A m \in S : e[m] = f[m]
      BY ONLY <3>1, <3>2
    <3>4. e[n] = novo.valor
      BY ONLY <1>2, <3>1
    <3> QED
      BY ONLY <3>2, <3>3, <3>4
  <2>6. f \in [S -> Int] /\ e \in [S \cup {n} -> Int] /\ novo.valor \in Int
    <3>1. DOMAIN e = S \cup {n} /\ e = [m \in DOMAIN e |-> e[m]]
      BY <2>1
    <3> QED
      BY <1>3, <2>3, <2>5, <3>1
  <2>7. SumFunction(e) = SumFunction(f) + e[n]
    BY ONLY <2>2, <2>3, <2>5, <2>6, SomaCresce
  <2>8. e = [m \in Movimentos(c, novo.tipo)' |-> movimentacoes'[m].valor]
    BY <2>1, <2>4
  <2> QED
    BY <2>1, <2>5, <2>7, <2>8 DEF SomaMovimentos
<1>5. \A tipo \in {"SUPRIMENTO", "SANGRIA"} \ {novo.tipo} :
        SomaMovimentos(c, tipo)' = SomaMovimentos(c, tipo)
  <2> TAKE tipo \in {"SUPRIMENTO", "SANGRIA"} \ {novo.tipo}
  <2>1. Movimentos(c, tipo)' = Movimentos(c, tipo)
    BY <1>2 DEF Movimentos
  <2>2. [m \in Movimentos(c, tipo)' |-> movimentacoes'[m].valor]
          = [m \in Movimentos(c, tipo) |-> movimentacoes[m].valor]
    BY <1>2, <2>1 DEF Movimentos
  <2> QED
    BY <2>2 DEF SomaMovimentos
<1>6. SomaVendas(c)' = SomaVendas(c)
  BY DEF SomaVendas, VendasDinheiro
<1>7. SomaVendas(c) \in Nat /\ caixas[c].fundo \in Nat
      /\ \A tipo \in {"SUPRIMENTO", "SANGRIA"} : SomaMovimentos(c, tipo) \in Nat
  BY MovimentosSomam, VendasSomam, ValorInteiro
<1>8. CASE novo.tipo = "SUPRIMENTO"
  <2>1. /\ SomaMovimentos(c, "SUPRIMENTO")' = SomaMovimentos(c, "SUPRIMENTO") + novo.valor
        /\ SomaMovimentos(c, "SANGRIA")' = SomaMovimentos(c, "SANGRIA")
    BY <1>4, <1>5, <1>8
  <2> QED
    BY <1>3, <1>6, <1>7, <1>8, <2>1 DEF ExpectedAmount
<1>9. CASE novo.tipo = "SANGRIA"
  <2>1. /\ SomaMovimentos(c, "SANGRIA")' = SomaMovimentos(c, "SANGRIA") + novo.valor
        /\ SomaMovimentos(c, "SUPRIMENTO")' = SomaMovimentos(c, "SUPRIMENTO")
    BY <1>4, <1>5, <1>9
  <2> QED
    BY <1>3, <1>6, <1>7, <1>9, <2>1 DEF ExpectedAmount
<1> QED
  BY <1>3, <1>8, <1>9

(* A cash sale adds its total to its drawer, another nothing.              *)
LEMMA ValorAoVender ==
    ASSUME TypeOK, TypeOK', NEW nova, NEW n, n = Len(vendas) + 1, NEW c, nova.caixa = c,
           nova.status = "CONFIRMADA",
           vendas' = Append(vendas, nova), UNCHANGED <<caixas, movimentacoes>>,
           c \in DOMAIN caixas
    PROVE  /\ DOMAIN vendas' = DOMAIN vendas \cup {n} /\ n \notin DOMAIN vendas
           /\ vendas'[n] = nova /\ \A v \in DOMAIN vendas : vendas'[v] = vendas[v]
           /\ ExpectedAmount(c)' = ExpectedAmount(c) + (IF nova.pagamento = "Dinheiro"
                                                        THEN nova.total ELSE 0)
<1>1. /\ n \notin DOMAIN vendas /\ DOMAIN vendas' = DOMAIN vendas \cup {n}
      /\ vendas'[n] = nova
      /\ \A v \in DOMAIN vendas : vendas'[v] = vendas[v]
  <2>1. vendas \in Seq(VendaT)
    BY DEF TypeOK
  <2> QED
    BY <2>1
<1>2. nova.total \in Nat
  <2>1. vendas'[n] \in VendaT
    BY <1>1, Linha DEF TypeOK
  <2> QED
    BY <1>1, <2>1 DEF VendaT
<1>3. PICK S, f : /\ S = VendasDinheiro(c)
                  /\ f = [v \in S |-> vendas[v].total]
  OBVIOUS
<1>4. S \subseteq DOMAIN vendas /\ n \notin S
  BY <1>1, <1>3 DEF VendasDinheiro
<1>5. IsFiniteSet(S) /\ f \in [S -> Nat] /\ SumFunction(f) = SomaVendas(c)
  BY <1>3, VendasSomam DEF SomaVendas
<1>6. SomaMovimentos(c, "SUPRIMENTO")' = SomaMovimentos(c, "SUPRIMENTO")
      /\ SomaMovimentos(c, "SANGRIA")' = SomaMovimentos(c, "SANGRIA")
  BY DEF SomaMovimentos, Movimentos
<1>7. /\ caixas[c].fundo \in Nat /\ SomaVendas(c) \in Nat
      /\ SomaMovimentos(c, "SUPRIMENTO") \in Nat /\ SomaMovimentos(c, "SANGRIA") \in Nat
  BY MovimentosSomam, VendasSomam, ValorInteiro
<1>8. CASE nova.pagamento = "Dinheiro"
  <2>1. VendasDinheiro(c)' = S \cup {n}
    BY <1>1, <1>3, <1>8 DEF VendasDinheiro
  <2>2. PICK e : e = [v \in S \cup {n} |-> vendas'[v].total]
    OBVIOUS
  <2>3. /\ \A v \in S : e[v] = vendas'[v].total /\ f[v] = vendas[v].total
        /\ e[n] = vendas'[n].total
        /\ DOMAIN e = S \cup {n} /\ e = [v \in DOMAIN e |-> e[v]]
    BY <1>3, <2>2
  <2>4. /\ \A v \in S : e[v] = f[v]
        /\ \A v \in S : f[v] \in Nat
    BY <1>1, <1>4, <1>5, <2>3
  <2>5. e[n] = nova.total
    BY ONLY <1>1, <2>3
  <2>6. f \in [S -> Int] /\ e \in [S \cup {n} -> Int]
    BY <1>2, <1>5, <2>3, <2>4, <2>5
  <2>7. SumFunction(e) = SumFunction(f) + e[n]
    BY ONLY <1>4, <1>5, <2>4, <2>6, SomaCresce
  <2>8. SomaVendas(c)' = SumFunction(e)
    BY <2>1, <2>2 DEF SomaVendas
  <2> QED
    BY <1>1, <1>2, <1>5, <1>6, <1>7, <1>8, <2>5, <2>7, <2>8 DEF ExpectedAmount
<1>9. CASE nova.pagamento # "Dinheiro"
  <2>1. VendasDinheiro(c)' = S
    BY <1>1, <1>3, <1>9 DEF VendasDinheiro
  <2>2. [v \in S |-> vendas'[v].total] = f
    BY <1>1, <1>3, <1>4
  <2>3. SomaVendas(c)' = SomaVendas(c)
    BY <1>5, <2>1, <2>2 DEF SomaVendas
  <2> QED
    BY <1>1, <1>6, <1>7, <1>9, <2>3 DEF ExpectedAmount
<1> QED
  BY <1>8, <1>9

(* A cancellation takes a cash sale out of what its drawer should hold.    *)
LEMMA ValorAoCancelar ==
    ASSUME TypeOK, NEW novo \in CancelamentoT, Estorna(novo), NEW x, x = novo.venda,
           NEW c, c = vendas[x].caixa
    PROVE  ExpectedAmount(c)' = ExpectedAmount(c) - (IF vendas[x].pagamento = "Dinheiro"
                                                     THEN vendas[x].total ELSE 0)
<1>1. /\ DOMAIN vendas' = DOMAIN vendas /\ x \in DOMAIN vendas
      /\ vendas[x].status = "CONFIRMADA" /\ vendas'[x].status = "CANCELADA"
      /\ \A v \in DOMAIN vendas : v # x => vendas'[v] = vendas[v]
      /\ UNCHANGED <<caixas, movimentacoes>>
  BY VendaCancelada DEF Estorna, Cancelavel
<1>2. c \in DOMAIN caixas
  BY <1>1 DEF TypeOK
<1>3. PICK S, f : /\ S = VendasDinheiro(c)
                  /\ f = [v \in S |-> vendas[v].total]
  OBVIOUS
<1>4. S \subseteq DOMAIN vendas
  BY <1>3 DEF VendasDinheiro
<1>5. IsFiniteSet(S) /\ f \in [S -> Nat] /\ SumFunction(f) = SomaVendas(c)
  BY <1>3, VendasSomam DEF SomaVendas
<1>6. VendasDinheiro(c)' = S \ {x}
  BY <1>1, <1>3 DEF VendasDinheiro
<1>7. PICK e : e = [v \in S \ {x} |-> f[v]]
  OBVIOUS
<1>8. SomaVendas(c)' = SumFunction(e)
  <2>1. [v \in S \ {x} |-> vendas'[v].total] = e
    BY <1>1, <1>3, <1>4, <1>7
  <2> QED
    BY <1>6, <2>1 DEF SomaVendas
<1>9. SomaMovimentos(c, "SUPRIMENTO")' = SomaMovimentos(c, "SUPRIMENTO")
      /\ SomaMovimentos(c, "SANGRIA")' = SomaMovimentos(c, "SANGRIA")
  BY <1>1 DEF SomaMovimentos, Movimentos
<1>10. /\ caixas[c].fundo \in Nat /\ SomaVendas(c) \in Nat
       /\ SomaMovimentos(c, "SUPRIMENTO") \in Nat /\ SomaMovimentos(c, "SANGRIA") \in Nat
  BY <1>2, MovimentosSomam, VendasSomam, ValorInteiro
<1>11. CASE vendas[x].pagamento = "Dinheiro"
  <2>1. x \in S
    BY <1>1, <1>3, <1>11 DEF VendasDinheiro
  <2>2. f[x] = vendas[x].total /\ f[x] \in Nat /\ f \in [S -> Int]
    BY <1>3, <1>5, <2>1
  <2>3. SumFunction(f) = f[x] + SumFunction(e)
    BY ONLY <1>5, <1>7, <2>1, <2>2, SomaMais
  <2>4. e \in [S \ {x} -> Nat] /\ IsFiniteSet(S \ {x})
    BY <1>5, <1>7, FS_Subset
  <2>5. SumFunction(e) \in Nat
    BY ONLY <2>4, SomaNatural
  <2>6. SomaVendas(c)' = SomaVendas(c) - vendas[x].total /\ vendas[x].total \in Nat
    BY <1>5, <1>8, <1>10, <2>2, <2>3, <2>5
  <2> QED
    BY <1>1, <1>9, <1>10, <1>11, <2>6 DEF ExpectedAmount
<1>12. CASE vendas[x].pagamento # "Dinheiro"
  <2>1. x \notin S
    BY <1>3, <1>12 DEF VendasDinheiro
  <2>2. e = f
    BY <1>5, <1>7, <2>1
  <2>3. SomaVendas(c)' = SomaVendas(c)
    BY <1>5, <1>8, <2>2
  <2> QED
    BY <1>1, <1>9, <1>10, <1>12, <2>3 DEF ExpectedAmount
<1> QED
  BY <1>11, <1>12

-----------------------------------------------------------------------------
(* The abstract drawer                                                     *)

\* Only the drawer opened last may be open.
UltimaAberta == \A c \in Abertos : c = Len(caixas)

LEMMA UltimaMantida == TypeOK /\ UltimaAberta /\ [Next]_vars => UltimaAberta'
<1> SUFFICES ASSUME TypeOK, UltimaAberta, [Next]_vars PROVE UltimaAberta'
  OBVIOUS
<1>1. caixas \in Seq(CaixaT)
  BY DEF TypeOK
<1>2. CASE Abre
  <2>1. Abertos = {} /\ \E novo \in CaixaT : caixas' = Append(caixas, novo)
    BY <1>2, PDVAssumption DEF Abre, GavetaLivre, CaixaT, PDVAssumption
  <2>2. Len(caixas') = Len(caixas) + 1 /\ Abertos' \subseteq {Len(caixas) + 1}
    BY <1>1, <2>1, Acrescimo DEF Abertos
  <2> QED
    BY <2>2 DEF UltimaAberta
<1>3. CASE Fecha
  <2>1. PICK a \in Usuario, c \in Abertos, contado \in Contagens,
             justificado \in BOOLEAN : CloseCash(a, c, contado, justificado)
    BY <1>3 DEF Fecha
  <2>2. c \in DOMAIN caixas
    BY DEF Abertos
  <2>3. /\ caixas' \in Seq(CaixaT) /\ DOMAIN caixas' = DOMAIN caixas
        /\ \A d \in DOMAIN caixas : d # c => caixas'[d] = caixas[d]
    BY <2>1, <2>2, CaixaFechado
  <2>4. Abertos' \subseteq Abertos /\ Len(caixas') = Len(caixas)
    BY <1>1, <2>2, <2>3 DEF Abertos
  <2> QED
    BY <2>4 DEF UltimaAberta
<1>4. CASE UNCHANGED caixas
  BY <1>4 DEF UltimaAberta, Abertos
<1>5. Movimenta \/ Copia \/ Vende \/ Cancela \/ Cataloga \/ UNCHANGED <<produtos, livros>>
        => UNCHANGED caixas
  BY DEF Movimenta, Copia, Vende, Registra, InsertSale, Cancela, Estorna, Cataloga,
         livros
<1> QED
  BY <1>2, <1>3, <1>4, <1>5, EfeitoDeNext DEF Efeito

LEMMA GavetaAberta ==
    ASSUME NEW c, Abertos = {c}
    PROVE  DonoAberto = caixas[c].usuario /\ SaldoAberto = ExpectedAmount(c)
<1>1. (CHOOSE d \in Abertos : TRUE) = c /\ Abertos # {}
  OBVIOUS
<1> QED
  BY <1>1 DEF DonoAberto, SaldoAberto

LEMMA GavetaAbertaDepois ==
    ASSUME NEW c, Abertos' = {c}
    PROVE  DonoAberto' = caixas'[c].usuario /\ SaldoAberto' = ExpectedAmount(c)'
<1>1. (CHOOSE d \in Abertos' : TRUE) = c /\ Abertos' # {}
  OBVIOUS
<1> QED
  BY <1>1 DEF DonoAberto, SaldoAberto, ExpectedAmount, SomaMovimentos, SomaVendas,
              Movimentos, VendasDinheiro

\* What the abstract drawer sees.
DaGaveta == <<DonoAberto, SaldoAberto, RecebidosAbertos, FechamentosGravados>>

\* The cash sales of a drawer, as the receipts that may be reversed.
EmDinheiro(c) == [v \in VendasDinheiro(c) |-> vendas[v].total]

LEMMA RecebidosDaAberta ==
    ASSUME NEW c, Abertos = {c}
    PROVE  RecebidosAbertos = EmDinheiro(c)
<1>1. {v \in DOMAIN vendas : /\ vendas[v].caixa \in Abertos
                             /\ vendas[v].pagamento = "Dinheiro"
                             /\ vendas[v].status = "CONFIRMADA"} = VendasDinheiro(c)
  BY DEF VendasDinheiro
<1> QED
  BY <1>1 DEF RecebidosAbertos, EmDinheiro

LEMMA RecebidosDaAbertaDepois ==
    ASSUME NEW c, Abertos' = {c}
    PROVE  RecebidosAbertos' = EmDinheiro(c)'
<1>1. {v \in DOMAIN vendas' : /\ vendas'[v].caixa \in Abertos'
                              /\ vendas'[v].pagamento = "Dinheiro"
                              /\ vendas'[v].status = "CONFIRMADA"} = VendasDinheiro(c)'
  BY DEF VendasDinheiro
<1> QED
  BY <1>1 DEF RecebidosAbertos, EmDinheiro

LEMMA AbreGaveta ==
    ASSUME TypeOK, UltimaAberta, Abre
    PROVE  GavetaFisica!Abrir
<1>1. PICK dono \in Usuario, fundo \in Fundos :
        /\ Abertos = {}
        /\ caixas' = Append(caixas,
                       [usuario |-> dono, fundo |-> fundo, status |-> "ABERTO",
                        informado |-> Nulo, esperado |-> Nulo, justificado |-> FALSE])
        /\ UNCHANGED <<movimentacoes, vendas>>
  BY DEF Abre, GavetaLivre
<1>2. PICK n : n = Len(caixas) + 1
  OBVIOUS
<1>3. /\ fundo \in Nat /\ dono # Nulo
      /\ caixas \in Seq(CaixaT)
  BY PDVAssumption DEF PDVAssumption, TypeOK
<1>4. /\ DOMAIN caixas' = DOMAIN caixas \cup {n} /\ n \notin DOMAIN caixas
      /\ \A c \in DOMAIN caixas : caixas'[c] = caixas[c]
      /\ caixas'[n].usuario = dono /\ caixas'[n].fundo = fundo
      /\ caixas'[n].status = "ABERTO"
  BY <1>1, <1>2, <1>3
<1>5. Abertos' = {n}
  BY <1>1, <1>4 DEF Abertos
<1>6. DonoAberto = Nulo /\ DonoAberto' = dono
  BY <1>1, <1>4, <1>5, GavetaAbertaDepois DEF DonoAberto
<1>7. /\ \A v \in DOMAIN vendas : vendas[v].caixa # n
      /\ \A m \in DOMAIN movimentacoes : movimentacoes[m].caixa # n
  BY <1>4 DEF TypeOK
<1>8. SaldoAberto' \in Nat
  <2>1. /\ Movimentos(n, "SUPRIMENTO")' = {} /\ Movimentos(n, "SANGRIA")' = {}
        /\ VendasDinheiro(n)' = {}
    BY <1>1, <1>7 DEF Movimentos, VendasDinheiro
  <2>2. /\ SomaMovimentos(n, "SUPRIMENTO")' = 0 /\ SomaMovimentos(n, "SANGRIA")' = 0
        /\ SomaVendas(n)' = 0
    BY <2>1, SomaVazia DEF SomaMovimentos, SomaVendas
  <2>3. SaldoAberto' = ExpectedAmount(n)'
    BY <1>5, GavetaAbertaDepois
  <2> QED
    BY <1>3, <1>4, <2>2, <2>3 DEF ExpectedAmount
<1>9. UNCHANGED RecebidosAbertos
  <2>1. \A v \in DOMAIN vendas : vendas[v].caixa \notin Abertos /\ vendas[v].caixa \notin Abertos'
    BY <1>1, <1>5, <1>7
  <2> QED
    BY <1>1, <2>1 DEF RecebidosAbertos
<1>10. UNCHANGED FechamentosGravados
  BY <1>1, <1>4, <1>5 DEF FechamentosGravados
<1> QED
  BY <1>3, <1>6, <1>8, <1>9, <1>10 DEF GavetaFisica!Abrir

\* The steps that leave the drawers alone leave the owner and the closings alone.
LEMMA MesmaGaveta ==
    ASSUME TypeOK, UNCHANGED caixas, NEW c, Abertos = {c}
    PROVE  /\ Abertos' = {c} /\ c \in DOMAIN caixas
           /\ UNCHANGED <<DonoAberto, FechamentosGravados>>
           /\ DonoAberto # Nulo
           /\ SaldoAberto = ExpectedAmount(c) /\ SaldoAberto' = ExpectedAmount(c)'
           /\ RecebidosAbertos = EmDinheiro(c) /\ RecebidosAbertos' = EmDinheiro(c)'
<1>1. Abertos' = {c} /\ c \in DOMAIN caixas
  BY DEF Abertos
<1>2. caixas[c] \in CaixaT
  BY <1>1, Linha DEF TypeOK
<1>3. caixas[c].usuario # Nulo
  BY <1>2, PDVAssumption DEF CaixaT, PDVAssumption
<1>4. DonoAberto = caixas[c].usuario /\ DonoAberto' = caixas[c].usuario
  BY <1>1, GavetaAberta, GavetaAbertaDepois
<1>5. UNCHANGED FechamentosGravados
  BY <1>1 DEF FechamentosGravados
<1> QED
  BY <1>1, <1>3, <1>4, <1>5, GavetaAberta, GavetaAbertaDepois, RecebidosDaAberta,
     RecebidosDaAbertaDepois

LEMMA MovimentaGaveta ==
    ASSUME TypeOK, CaixaUnico, Movimenta
    PROVE  GavetaFisica!Movimentar
<1>1. PICK novo \in MovimentoT :
        /\ novo.caixa \in Abertos
        /\ movimentacoes' = Append(movimentacoes, novo)
        /\ UNCHANGED <<caixas, vendas>>
  BY DEF Movimenta
<1>2. PICK c : c = novo.caixa
  OBVIOUS
<1>3. Abertos = {c}
  BY <1>1, <1>2 DEF CaixaUnico
<1>4. /\ c \in DOMAIN caixas /\ DonoAberto # Nulo
      /\ UNCHANGED <<DonoAberto, FechamentosGravados>>
      /\ SaldoAberto = ExpectedAmount(c) /\ SaldoAberto' = ExpectedAmount(c)'
      /\ RecebidosAbertos = EmDinheiro(c) /\ RecebidosAbertos' = EmDinheiro(c)'
  BY <1>1, <1>3, MesmaGaveta
<1>5. EmDinheiro(c)' = EmDinheiro(c)
  BY <1>1 DEF EmDinheiro, VendasDinheiro
<1>6. ExpectedAmount(c)' = ExpectedAmount(c) + (IF novo.tipo = "SUPRIMENTO"
                                                THEN novo.valor ELSE -novo.valor)
  BY <1>1, <1>2, <1>4, ValorAoMover
<1>7. ExpectedAmount(c) \in Int /\ novo.valor \in Nat \ {0}
  BY <1>4, ValorInteiro DEF MovimentoT
<1>8. PICK d : d = IF novo.tipo = "SUPRIMENTO" THEN novo.valor ELSE -novo.valor
  OBVIOUS
<1>9. d \in Int \ {0}
  BY <1>7, <1>8
<1>10. SaldoAberto' = SaldoAberto + d /\ SaldoAberto \in Int
  BY <1>4, <1>6, <1>7, <1>8
<1>11. SaldoAberto' \in Int \ {SaldoAberto}
  BY <1>9, <1>10
<1> QED
  BY <1>4, <1>5, <1>11 DEF GavetaFisica!Movimentar

LEMMA VendeGaveta ==
    ASSUME TypeOK, TypeOK', CaixaUnico, Vende
    PROVE  GavetaFisica!Receber \/ UNCHANGED DaGaveta
<1>1. PICK itens \in Carrinhos, contexto \in Contextos :
        \E nova \in NovaT(QuoteLines(produtos, itens)) : Registra(itens, nova, contexto)
  BY DEF Vende
<1>2. PICK nova \in NovaT(QuoteLines(produtos, itens)) : Registra(itens, nova, contexto)
  BY <1>1
<1>3. PICK c, n : c = nova.caixa /\ n = Len(vendas) + 1
  OBVIOUS
<1>4. /\ c \in Abertos /\ nova.status = "CONFIRMADA" /\ nova.total \in Nat \ {0}
      /\ vendas' = Append(vendas, nova) /\ UNCHANGED <<caixas, movimentacoes>>
  <2>1. nova.total = Total(QuoteLines(produtos, itens)) /\ nova.status = "CONFIRMADA"
    BY <1>2 DEF NovaT
  <2> QED
    BY <1>2, <1>3, <2>1, TotalPositivo DEF Registra, InsertSale
<1>5. Abertos = {c}
  BY <1>4 DEF CaixaUnico
<1>6. /\ c \in DOMAIN caixas /\ DonoAberto # Nulo
      /\ UNCHANGED <<DonoAberto, FechamentosGravados>>
      /\ SaldoAberto = ExpectedAmount(c) /\ SaldoAberto' = ExpectedAmount(c)'
      /\ RecebidosAbertos = EmDinheiro(c) /\ RecebidosAbertos' = EmDinheiro(c)'
  BY <1>4, <1>5, MesmaGaveta
<1>7. /\ DOMAIN vendas' = DOMAIN vendas \cup {n} /\ n \notin DOMAIN vendas
      /\ vendas'[n] = nova /\ \A v \in DOMAIN vendas : vendas'[v] = vendas[v]
      /\ ExpectedAmount(c)' = ExpectedAmount(c) + (IF nova.pagamento = "Dinheiro"
                                                   THEN nova.total ELSE 0)
  BY <1>3, <1>4, <1>6, ValorAoVender
<1>8. CASE nova.pagamento = "Dinheiro"
  <2>1. VendasDinheiro(c)' = VendasDinheiro(c) \cup {n} /\ n \notin VendasDinheiro(c)
    BY <1>3, <1>4, <1>7, <1>8 DEF VendasDinheiro
  <2>2. /\ DOMAIN RecebidosAbertos' = DOMAIN RecebidosAbertos \cup {n}
        /\ n \notin DOMAIN RecebidosAbertos
        /\ RecebidosAbertos'[n] = nova.total
        /\ \A v \in DOMAIN RecebidosAbertos : RecebidosAbertos'[v] = RecebidosAbertos[v]
    BY <1>6, <1>7, <2>1 DEF EmDinheiro, VendasDinheiro
  <2>3. SaldoAberto' = SaldoAberto + RecebidosAbertos'[n] /\ RecebidosAbertos'[n] > 0
    BY <1>4, <1>6, <1>7, <1>8, <2>2
  <2> QED
    BY <1>6, <2>2, <2>3 DEF GavetaFisica!Receber
<1>9. CASE nova.pagamento # "Dinheiro"
  <2>1. VendasDinheiro(c)' = VendasDinheiro(c)
    BY <1>7, <1>9 DEF VendasDinheiro
  <2>2. EmDinheiro(c)' = EmDinheiro(c)
    BY <1>7, <2>1 DEF EmDinheiro, VendasDinheiro
  <2>3. ExpectedAmount(c)' = ExpectedAmount(c)
    BY <1>6, <1>7, <1>9, ValorInteiro
  <2> QED
    BY <1>6, <2>2, <2>3 DEF DaGaveta
<1> QED
  BY <1>8, <1>9

LEMMA CancelaGaveta ==
    ASSUME TypeOK, CaixaUnico, Cancela
    PROVE  GavetaFisica!Estornar \/ UNCHANGED DaGaveta
<1>1. PICK novo \in CancelamentoT : Estorna(novo)
  BY DEF Cancela
<1>2. PICK x, c : x = novo.venda /\ c = vendas[x].caixa
  OBVIOUS
<1>3. /\ x \in DOMAIN vendas /\ vendas[x].status = "CONFIRMADA"
      /\ caixas[c].status = "ABERTO" /\ UNCHANGED <<caixas, movimentacoes>>
  BY <1>1, <1>2 DEF Estorna, Cancelavel
<1>4. Abertos = {c}
  BY <1>2, <1>3 DEF CaixaUnico, Abertos, TypeOK
<1>5. /\ c \in DOMAIN caixas /\ DonoAberto # Nulo
      /\ UNCHANGED <<DonoAberto, FechamentosGravados>>
      /\ SaldoAberto = ExpectedAmount(c) /\ SaldoAberto' = ExpectedAmount(c)'
      /\ RecebidosAbertos = EmDinheiro(c) /\ RecebidosAbertos' = EmDinheiro(c)'
  BY <1>3, <1>4, MesmaGaveta
<1>6. /\ DOMAIN vendas' = DOMAIN vendas /\ vendas'[x].status = "CANCELADA"
      /\ \A v \in DOMAIN vendas : v # x => vendas'[v] = vendas[v]
  BY <1>1, <1>2, VendaCancelada
<1>7. ExpectedAmount(c)' = ExpectedAmount(c) - (IF vendas[x].pagamento = "Dinheiro"
                                                THEN vendas[x].total ELSE 0)
  BY <1>1, <1>2, ValorAoCancelar
<1>8. VendasDinheiro(c)' = VendasDinheiro(c) \ {x}
  BY <1>6 DEF VendasDinheiro
<1>9. CASE vendas[x].pagamento = "Dinheiro"
  <2>1. x \in VendasDinheiro(c)
    BY <1>2, <1>3, <1>9 DEF VendasDinheiro
  <2>2. x \in DOMAIN RecebidosAbertos /\ RecebidosAbertos[x] = vendas[x].total
    BY <1>5, <2>1 DEF EmDinheiro
  <2>3. RecebidosAbertos' = [s \in DOMAIN RecebidosAbertos \ {x} |-> RecebidosAbertos[s]]
    <3>1. \A s \in VendasDinheiro(c) \ {x} : vendas'[s] = vendas[s]
      BY <1>6 DEF VendasDinheiro
    <3> QED
      BY <1>5, <1>8, <3>1 DEF EmDinheiro
  <2>4. SaldoAberto' = SaldoAberto - RecebidosAbertos[x]
    BY <1>5, <1>7, <1>9, <2>2
  <2> QED
    BY <1>5, <2>2, <2>3, <2>4 DEF GavetaFisica!Estornar
<1>10. CASE vendas[x].pagamento # "Dinheiro"
  <2>1. x \notin VendasDinheiro(c)
    BY <1>10 DEF VendasDinheiro
  <2>2. EmDinheiro(c)' = EmDinheiro(c)
    BY <1>6, <1>8, <2>1 DEF EmDinheiro, VendasDinheiro
  <2>3. ExpectedAmount(c)' = ExpectedAmount(c)
    BY <1>5, <1>7, <1>10, ValorInteiro
  <2> QED
    BY <1>5, <2>2, <2>3 DEF DaGaveta
<1> QED
  BY <1>9, <1>10

LEMMA Emenda ==
    ASSUME NEW n \in Nat, NEW f, NEW e, NEW r,
           f = [i \in 1..n |-> f[i]], e = [i \in 1..(n + 1) |-> e[i]],
           e[n + 1] = r, \A i \in 1..n : e[i] = f[i]
    PROVE  e = Append(f, r)
<1>1. PICK S : S = {f[i] : i \in 1..n} \cup {r}
  OBVIOUS
<1>2. f \in Seq(S) /\ Len(f) = n /\ r \in S
  <2>1. f \in [1..n -> S] /\ r \in S
    BY <1>1
  <2> QED
    BY <2>1
<1>3. PICK g : g = Append(f, r)
  OBVIOUS
<1>4. g \in Seq(S) /\ Len(g) = n + 1
  BY ONLY <1>2, <1>3
<1>5. g[n + 1] = r /\ \A i \in 1..n : g[i] = f[i]
  BY ONLY <1>2, <1>3, n \in Nat
<1>6. DOMAIN g = 1..(n + 1) /\ g = [i \in 1..(n + 1) |-> g[i]]
  BY ONLY <1>4, n \in Nat
<1>7. \A i \in 1..(n + 1) : e[i] = g[i]
  <2> SUFFICES ASSUME NEW i \in 1..(n + 1) PROVE e[i] = g[i]
    OBVIOUS
  <2>1. i = n + 1 \/ i \in 1..n
    OBVIOUS
  <2> QED
    BY <1>5, <2>1
<1>8. e = g
  BY ONLY <1>6, <1>7, e = [i \in 1..(n + 1) |-> e[i]]
<1> QED
  BY <1>3, <1>8

LEMMA FechaGaveta ==
    ASSUME TypeOK, CaixaUnico, UltimaAberta, Fecha
    PROVE  GavetaFisica!Fechar
<1>1. PICK a \in Usuario, c \in Abertos, contado \in Contagens,
           justificado \in BOOLEAN : CloseCash(a, c, contado, justificado)
  BY DEF Fecha
<1>2. /\ Abertos = {c} /\ c \in DOMAIN caixas /\ c = Len(caixas)
      /\ ExpectedAmount(c) \in Nat /\ UNCHANGED <<movimentacoes, vendas>>
      /\ caixas \in Seq(CaixaT)
  BY <1>1 DEF CaixaUnico, UltimaAberta, Abertos, CloseCash, Apuravel, TypeOK
<1>3. /\ DOMAIN caixas' = DOMAIN caixas /\ caixas'[c].status = "FECHADO"
      /\ caixas'[c].esperado = ExpectedAmount(c)
      /\ \A d \in DOMAIN caixas : d # c => caixas'[d] = caixas[d]
  BY <1>1, <1>2, CaixaFechado
<1>4. Abertos' = {}
  BY <1>2, <1>3 DEF Abertos
<1>5. caixas'[c].usuario = caixas[c].usuario
  <2>1. caixas[c] \in CaixaT
    BY <1>2, Linha
  <2>2. caixas' = [caixas EXCEPT ![c] =
                     Fechado(caixas[c], contado, ExpectedAmount(c), justificado)]
    BY <1>1 DEF CloseCash
  <2>3. caixas'[c] = Fechado(caixas[c], contado, ExpectedAmount(c), justificado)
    BY <1>2, <2>2
  <2>4. Fechado(caixas[c], contado, ExpectedAmount(c), justificado).usuario
          = caixas[c].usuario
    BY ONLY <2>1, CamposFechados
  <2> QED
    BY ONLY <2>3, <2>4
<1>6. DonoAberto = caixas[c].usuario /\ SaldoAberto = ExpectedAmount(c)
  BY <1>2, GavetaAberta
<1>7. caixas[c].usuario # Nulo
  <2>1. caixas[c] \in CaixaT
    BY <1>2, Linha
  <2> QED
    BY <2>1, PDVAssumption DEF CaixaT, PDVAssumption
<1>8. DonoAberto' = Nulo /\ SaldoAberto' = 0
  BY <1>4 DEF DonoAberto, SaldoAberto
<1>9. RecebidosAbertos' = <<>>
  BY <1>4 DEF RecebidosAbertos
<1>10. FechamentosGravados' =
         Append(FechamentosGravados, [dono |-> DonoAberto, valor |-> SaldoAberto])
  <2>1. PICK f, e, r : /\ f = FechamentosGravados /\ e = FechamentosGravados'
                       /\ r = [dono |-> DonoAberto, valor |-> SaldoAberto]
    OBVIOUS
  <2>2. PICK n : n = c - 1
    OBVIOUS
  <2>3. n \in Nat /\ c = n + 1 /\ DOMAIN caixas = 1..(n + 1)
    BY <1>2, <2>2
  <2>4. DOMAIN f = 1..n /\ DOMAIN e = 1..(n + 1)
    BY <1>2, <1>3, <1>4, <2>1, <2>3 DEF FechamentosGravados
  <2>5. e[n + 1] = r /\ \A i \in 1..n : e[i] = f[i]
    <3>1. \A i \in 1..n : f[i] = [dono |-> caixas[i].usuario,
                                  valor |-> caixas[i].esperado]
      BY ONLY <1>2, <2>1, <2>3 DEF FechamentosGravados
    <3>2. \A i \in 1..(n + 1) : e[i] = [dono |-> caixas'[i].usuario,
                                        valor |-> caixas'[i].esperado]
      BY ONLY <1>3, <1>4, <2>1, <2>3 DEF FechamentosGravados
    <3>3. n + 1 \in 1..(n + 1) /\ \A i \in 1..n : i \in 1..(n + 1) /\ i # c
      BY ONLY <2>3
    <3>4. \A i \in 1..n : caixas'[i] = caixas[i]
      BY ONLY <1>3, <2>3, <3>3
    <3>5. e[n + 1] = r
      <4>1. e[n + 1] = [dono |-> caixas'[n + 1].usuario,
                        valor |-> caixas'[n + 1].esperado]
        BY ONLY <3>2, <3>3
      <4>2. caixas'[n + 1].usuario = DonoAberto
            /\ caixas'[n + 1].esperado = SaldoAberto
        BY ONLY <1>3, <1>5, <1>6, <2>3
      <4> QED
        BY ONLY <2>1, <4>1, <4>2
    <3>6. \A i \in 1..n : e[i] = f[i]
      BY ONLY <3>1, <3>2, <3>3, <3>4
    <3> QED
      BY <3>5, <3>6
  <2>6. f = [i \in 1..n |-> f[i]] /\ e = [i \in 1..(n + 1) |-> e[i]]
    BY <2>1, <2>4 DEF FechamentosGravados
  <2>7. e = Append(f, r)
    BY ONLY <2>3, <2>5, <2>6, Emenda
  <2> QED
    BY <2>1, <2>7
<1> QED
  BY <1>2, <1>6, <1>7, <1>8, <1>9, <1>10 DEF GavetaFisica!Fechar

(* Every step of the tables is a step of the abstract drawer or none.      *)
LEMMA PassoDaGaveta ==
    TypeOK /\ CaixaUnico /\ UltimaAberta /\ [Next]_vars
      => [GavetaFisica!Next]_DaGaveta
<1> SUFFICES ASSUME TypeOK, CaixaUnico, UltimaAberta, [Next]_vars
             PROVE  [GavetaFisica!Next]_DaGaveta
  OBVIOUS
<1>1. TypeOK'
  BY TiposMantidos
<1>2. CASE Abre
  BY <1>2, AbreGaveta DEF GavetaFisica!Next
<1>3. CASE Movimenta
  BY <1>3, MovimentaGaveta DEF GavetaFisica!Next
<1>4. CASE Fecha
  BY <1>4, FechaGaveta DEF GavetaFisica!Next
<1>5. CASE Vende
  BY <1>1, <1>5, VendeGaveta DEF GavetaFisica!Next
<1>6. CASE Cancela
  BY <1>6, CancelaGaveta DEF GavetaFisica!Next
<1>7. CASE UNCHANGED <<caixas, movimentacoes, vendas>>
  BY <1>7 DEF DaGaveta, DonoAberto, SaldoAberto, RecebidosAbertos, FechamentosGravados,
              Abertos, ExpectedAmount, SomaMovimentos, SomaVendas, Movimentos,
              VendasDinheiro
<1>8. Copia \/ Cataloga \/ UNCHANGED <<produtos, livros>>
        => UNCHANGED <<caixas, movimentacoes, vendas>>
  BY DEF Copia, Cataloga, livros
<1> QED
  BY <1>2, <1>3, <1>4, <1>5, <1>6, <1>7, <1>8, EfeitoDeNext DEF Efeito

(* The tables of the point of sale are the one physical drawer: whatever   *)
(* is sold, moved, cancelled or repeated, its balance moves only while it  *)
(* is open, a cash sale is reversed at most once and before the closing,   *)
(* and each closing records the balance of its moment for good.            *)
THEOREM PDVImplementaGaveta == Spec => ImplementaGaveta
<1>1. Init => GavetaFisica!Init
  <2> SUFFICES ASSUME Init PROVE GavetaFisica!Init
    OBVIOUS
  <2>1. DOMAIN caixas = {} /\ DOMAIN vendas = {} /\ Abertos = {}
    BY DEF Init, Abertos
  <2>2. RecebidosAbertos = <<>> /\ FechamentosGravados = <<>>
    BY <2>1 DEF RecebidosAbertos, FechamentosGravados
  <2> QED
    BY <2>1, <2>2 DEF GavetaFisica!Init, DonoAberto, SaldoAberto
<1>2. Init => TypeOK /\ CaixaUnico /\ UltimaAberta
  BY TiposIniciais DEF Init, CaixaUnico, UltimaAberta, Abertos
<1>3. TypeOK /\ CaixaUnico /\ UltimaAberta /\ [Next]_vars
        => (TypeOK /\ CaixaUnico /\ UltimaAberta)'
  BY TiposMantidos, UmaGaveta, UltimaMantida
<1>4. TypeOK /\ CaixaUnico /\ UltimaAberta /\ [Next]_vars
        => [GavetaFisica!Next]_GavetaFisica!vars
  BY PassoDaGaveta DEF GavetaFisica!vars, DaGaveta
<1> QED
  BY <1>1, <1>2, <1>3, <1>4, PTL DEF Spec, ImplementaGaveta, GavetaFisica!Spec
=============================================================================
