---------------------------- MODULE PartidaProofs ----------------------------
(***************************************************************************)
(* Theorems of the start of the program, for any processes, any schemas of *)
(* programs and of the databases they find, and any number of deaths.      *)
(*                                                                         *)
(* The lock is what everything rests on: only its holder is past the first *)
(* step, so what a process learned of the database in one step still holds *)
(* in the next one, although nothing but the lock protects it in between.  *)
(***************************************************************************)
EXTENDS Partida, TLAPS

-----------------------------------------------------------------------------
(* The inductive invariant                                                 *)

(* Whoever is past the lock holds it, and runs a program of a known schema;*)
(* whoever is out remembers nothing.                                       *)
Exclusao ==
    \A p \in Processo :
        IF proc[p].passo = "fora" THEN proc[p] = Fora
        ELSE trava = p /\ proc[p].alvo \in Alvos

(* What each step knows of the staging file, of the database and of the    *)
(* copies.                                                                 *)
Sabido ==
    \A p \in Processo :
        /\ proc[p].passo \in {"conferir", "publicar"} => proc[p].nova = "catalogo"
        /\ proc[p].passo \in {"limpar", "migrar", "copiar", "aplicar", "aberto"} => Existe
        /\ proc[p].passo = "aplicar" => Retrato \in copias
        /\ proc[p].mostrado # 0 => proc[p].mostrado = anotado

(* A database has its catalogue, the mark of the installation says whether *)
(* it has users, and only a ready one has a recovery code: the last shown. *)
BancoCoerente ==
    /\ ~Existe => banco = SemBanco
    /\ Existe => banco.catalogo
    /\ Existe /\ banco.esquema >= InstalacaoDesde => banco.instalacao # "AUSENTE"
    /\ banco.instalacao = "READY" => banco.usuarios > 0
    /\ banco.instalacao = "UNINITIALIZED" => banco.usuarios = 0
    /\ banco.codigo # 0 => banco.instalacao = "READY" /\ banco.codigo = anotado

Partidas == TypeOK /\ Exclusao /\ Sabido /\ BancoCoerente

-----------------------------------------------------------------------------
(* One process moves at a time                                             *)

PassoT == Semeando \cup {"fora", "verifica", "semear", "migrar", "copiar",
                         "aplicar", "aberto"}

ProcT == [passo : PassoT, alvo : Nat, nova : {"nada", "esquema", "catalogo"},
          mostrado : Nat]

BancoT == [esquema : Nat, catalogo : BOOLEAN,
           instalacao : {"AUSENTE", "UNINITIALIZED", "READY"},
           usuarios : 0..1, codigo : Nat, abertos : 0..2, dados : Nat]

\* What a process may become without breaking the invariant.
Devido(p, r) ==
    /\ r \in ProcT
    /\ IF r.passo = "fora" THEN r = Fora ELSE trava' = p /\ r.alvo \in Alvos
    /\ r.passo \in {"conferir", "publicar"} => r.nova = "catalogo"
    /\ r.passo \in {"limpar", "migrar", "copiar", "aplicar", "aberto"} => Existe'
    /\ r.passo = "aplicar" => Retrato' \in copias'
    /\ r.mostrado # 0 => r.mostrado = anotado'

ProcessosBons == proc \in [Processo -> ProcT] /\ Exclusao /\ Sabido

LEMMA ForaDeTudo ==
    Fora \in ProcT /\ Fora.passo = "fora" /\ Fora.mostrado = 0
  BY DEF Fora, ProcT, PassoT, Semeando

(* The process that moves has the lock, or nobody has; the others are out, *)
(* and stay out.                                                           *)
LEMMA UmPorVez ==
    ASSUME Partidas, NEW p \in Processo, trava \in {p, Nenhum}, NEW r, Devido(p, r),
           proc' = [proc EXCEPT ![p] = r]
    PROVE  ProcessosBons'
<1>1. proc \in [Processo -> ProcT]
  BY DEF Partidas, TypeOK, ProcT, PassoT
<1>2. \A q \in Processo : q # p => proc[q] = Fora
  BY PartidaAssumption DEF Partidas, Exclusao, PartidaAssumption
<1>3. proc' \in [Processo -> ProcT] /\ proc'[p] = r
      /\ \A q \in Processo : q # p => proc'[q] = Fora
  BY <1>1, <1>2 DEF Devido
<1>4. Exclusao'
  BY <1>3, ForaDeTudo DEF Exclusao, Devido
<1>5. Sabido'
  <2> SUFFICES ASSUME NEW q \in Processo
               PROVE  /\ proc'[q].passo \in {"conferir", "publicar"}
                            => proc'[q].nova = "catalogo"
                      /\ proc'[q].passo \in {"limpar", "migrar", "copiar",
                                              "aplicar", "aberto"} => Existe'
                      /\ proc'[q].passo = "aplicar" => Retrato' \in copias'
                      /\ proc'[q].mostrado # 0 => proc'[q].mostrado = anotado'
    BY DEF Sabido
  <2>1. CASE q = p
    BY <1>3, <2>1 DEF Devido
  <2>2. CASE q # p
    BY <1>3, <2>2, ForaDeTudo
  <2> QED
    BY <2>1, <2>2
<1> QED
  BY <1>3, <1>4, <1>5 DEF ProcessosBons

LEMMA Vez ==
    ASSUME Partidas, NEW p \in Processo, proc[p].passo # "fora"
    PROVE  trava = p /\ proc[p].alvo \in Alvos /\ proc[p] \in ProcT
  BY DEF Partidas, Exclusao, TypeOK, ProcT, PassoT

(* Whoever ends leaves the lock and remembers nothing.                     *)
LEMMA SaiBem ==
    ASSUME Partidas, NEW p \in Processo, proc[p].passo # "fora", Sai(p)
    PROVE  ProcessosBons' /\ trava' \in Processo \cup {Nenhum}
<1>1. trava = p
  BY Vez
<1>2. Devido(p, Fora)
  BY ForaDeTudo DEF Devido
<1> QED
  BY <1>1, <1>2, UmPorVez DEF Sai

(* A process that goes on keeps its program and, unless the step says so,  *)
(* what it knows.                                                          *)
LEMMA VaiBem ==
    ASSUME Partidas, NEW p \in Processo, proc[p].passo # "fora",
           NEW x \in PassoT \ {"fora"}, Vai(p, x), UNCHANGED <<trava, anotado>>,
           x \in {"conferir", "publicar"} => proc[p].nova = "catalogo",
           x \in {"limpar", "migrar", "copiar", "aplicar", "aberto"} => Existe',
           x = "aplicar" => Retrato' \in copias'
    PROVE  ProcessosBons'
<1> DEFINE r == [proc[p] EXCEPT !.passo = x]
<1>1. trava = p /\ proc[p].alvo \in Alvos /\ proc[p] \in ProcT
  BY Vez
<1>2. /\ r \in ProcT /\ r.passo = x /\ r.alvo = proc[p].alvo
      /\ r.nova = proc[p].nova /\ r.mostrado = proc[p].mostrado
  BY <1>1 DEF ProcT
<1>3. proc[p].mostrado # 0 => proc[p].mostrado = anotado'
  BY DEF Partidas, Sabido
<1>4. proc' = [proc EXCEPT ![p] = r]
  BY DEF Vai
<1> HIDE DEF r
<1>5. Devido(p, r)
  BY <1>1, <1>2, <1>3 DEF Devido
<1> QED
  BY <1>1, <1>4, <1>5, UmPorVez

-----------------------------------------------------------------------------
(* The steps that write the database                                       *)

BancoBom == banco \in BancoT /\ BancoCoerente

LEMMA BancoPublicado ==
    ASSUME NEW v \in Alvos
    PROVE  [SemBanco EXCEPT !.esquema = v, !.catalogo = TRUE,
              !.instalacao = "UNINITIALIZED"] \in BancoT
<1>1. v \in Nat /\ 0 \in Nat /\ 0 \in 0..1 /\ 0 \in 0..2
  BY PartidaAssumption DEF PartidaAssumption
<1> QED
  BY <1>1, Zenon DEF SemBanco, BancoT

LEMMA BancoProvido ==
    ASSUME NEW b \in BancoT, NEW n \in Nat
    PROVE  [b EXCEPT !.instalacao = "READY", !.usuarios = 1, !.codigo = n] \in BancoT
<1>1. 1 \in 0..1
  OBVIOUS
<1> QED
  BY <1>1, Zenon DEF BancoT

LEMMA BancoOperado ==
    ASSUME NEW b \in BancoT, NEW n \in 0..2
    PROVE  [b EXCEPT !.dados = b.dados + 1, !.abertos = n] \in BancoT
<1>1. b.dados + 1 \in Nat
  BY DEF BancoT
<1> QED
  BY <1>1, Zenon DEF BancoT

(* A database under its final name comes from a staging file that passed.  *)
LEMMA PublicaBem ==
    ASSUME Partidas, NEW p \in Processo, Publicar(p)
    PROVE  BancoBom' /\ ProcessosBons'
<1>1. proc[p].passo = "publicar" /\ UNCHANGED <<copias, reserva, trava, anotado, quedas>>
  BY DEF Publicar
<1>2. /\ proc[p].nova = "catalogo" /\ proc[p].alvo \in Alvos
      /\ banco \in BancoT /\ BancoCoerente
  BY <1>1, Vez DEF Partidas, Sabido, TypeOK, BancoT
<1>3. CASE Existe
  <2>1. Vai(p, "desfazer") /\ UNCHANGED banco
    BY <1>3 DEF Publicar
  <2>2. ProcessosBons'
    BY <1>1, <2>1, VaiBem DEF PassoT, Semeando
  <2> QED
    BY <1>1, <1>2, <2>1, <2>2 DEF BancoBom, BancoCoerente, Existe
<1>4. CASE ~Existe
  <2>1. /\ banco' = [SemBanco EXCEPT !.esquema = proc[p].alvo, !.catalogo = TRUE,
                        !.instalacao = "UNINITIALIZED"]
        /\ Vai(p, "limpar")
    BY <1>2, <1>4 DEF Publicar
  <2>2. /\ banco'.esquema = proc[p].alvo /\ banco'.catalogo = TRUE
        /\ banco'.instalacao = "UNINITIALIZED" /\ banco'.usuarios = 0
        /\ banco'.codigo = 0
    BY <2>1 DEF SemBanco
  <2>3. banco' \in BancoT
    BY <1>2, <2>1, BancoPublicado
  <2>4. Existe'
    BY <1>2, <2>2, PartidaAssumption DEF Existe, PartidaAssumption
  <2>5. ProcessosBons'
    BY <1>1, <2>1, <2>4, VaiBem DEF PassoT, Semeando
  <2> QED
    BY <2>2, <2>3, <2>4, <2>5 DEF BancoBom, BancoCoerente
<1> QED
  BY <1>3, <1>4

(* The migration gives an older database the mark its users call for.      *)
LEMMA AplicaBem ==
    ASSUME Partidas, NEW p \in Processo, Aplicar(p)
    PROVE  BancoBom' /\ ProcessosBons' /\ trava' \in Processo \cup {Nenhum}
<1>1. proc[p].passo = "aplicar" /\ UNCHANGED <<copias, reserva, anotado, quedas>>
  BY DEF Aplicar
<1>2. /\ banco \in BancoT /\ BancoCoerente /\ Existe /\ trava = p
      /\ proc[p].alvo \in Alvos /\ trava \in Processo \cup {Nenhum}
  BY <1>1, Vez DEF Partidas, Sabido, TypeOK, BancoT
<1> DEFINE v == proc[p].alvo
<1>3. ASSUME banco.esquema < v,
             banco' = [banco EXCEPT !.esquema = v,
                         !.instalacao = IF @ = "AUSENTE" THEN EstadoInicial(banco)
                                        ELSE @],
             Vai(p, "aberto"), UNCHANGED trava
      PROVE  BancoBom' /\ ProcessosBons' /\ trava' \in Processo \cup {Nenhum}
  <2>1. /\ banco' \in BancoT /\ banco'.esquema = v
        /\ banco'.catalogo = banco.catalogo /\ banco'.usuarios = banco.usuarios
        /\ banco'.codigo = banco.codigo
        /\ banco'.instalacao = IF banco.instalacao = "AUSENTE"
                               THEN EstadoInicial(banco) ELSE banco.instalacao
    BY <1>2, <1>3, PartidaAssumption DEF BancoT, EstadoInicial, PartidaAssumption
  <2>2. Existe' /\ Existe
    BY <1>2, <2>1, PartidaAssumption DEF Existe, PartidaAssumption
  <2>3. banco.usuarios > 0 \/ banco.usuarios = 0
    BY <1>2 DEF BancoT
  <2>4. BancoCoerente'
    BY <1>1, <1>2, <2>1, <2>2, <2>3 DEF BancoCoerente, EstadoInicial
  <2>5. ProcessosBons'
    BY <1>1, <1>3, <2>2, VaiBem DEF PassoT, Semeando
  <2> QED
    BY <1>2, <1>3, <2>1, <2>4, <2>5 DEF BancoBom
<1>4. ASSUME UNCHANGED banco, Sai(p) \/ (Vai(p, "aberto") /\ UNCHANGED trava)
      PROVE  BancoBom' /\ ProcessosBons' /\ trava' \in Processo \cup {Nenhum}
  <2>1. BancoBom' /\ Existe'
    BY <1>1, <1>2, <1>4 DEF BancoBom, BancoCoerente, Existe
  <2>2. CASE Sai(p)
    BY <1>1, <2>1, <2>2, SaiBem
  <2>3. CASE Vai(p, "aberto") /\ UNCHANGED trava
    BY <1>1, <1>2, <2>1, <2>3, VaiBem DEF PassoT, Semeando
  <2> QED
    BY <1>4, <2>2, <2>3
<1>5. Conforme(p, "aberto") => Sai(p) \/ (Vai(p, "aberto") /\ UNCHANGED trava)
  BY DEF Conforme
<1> QED
  BY <1>3, <1>4, <1>5 DEF Aplicar

(* A code is shown to who has none, and before it is on record.            *)
LEMMA MostraBem ==
    ASSUME Partidas, NEW p \in Processo, ContinueToConfirmation(p)
    PROVE  BancoBom' /\ ProcessosBons'
<1>1. /\ proc[p].passo = "aberto" /\ banco.instalacao = "UNINITIALIZED"
      /\ anotado' = anotado + 1
      /\ proc' = [proc EXCEPT ![p] = [proc[p] EXCEPT !.mostrado = anotado + 1]]
      /\ UNCHANGED <<arquivos, trava, quedas>>
  BY DEF ContinueToConfirmation
<1>2. trava = p /\ proc[p].alvo \in Alvos /\ proc[p] \in ProcT
      /\ banco \in BancoT /\ BancoCoerente /\ anotado \in Nat /\ Existe
  BY <1>1, Vez DEF Partidas, TypeOK, BancoT, Sabido
<1>3. PICK r : r = [proc[p] EXCEPT !.mostrado = anotado + 1]
  OBVIOUS
<1>4. /\ r \in ProcT /\ r.passo = "aberto" /\ r.alvo = proc[p].alvo
      /\ r.mostrado = anotado'
  BY <1>1, <1>2, <1>3 DEF ProcT
<1>5. Existe' /\ UNCHANGED <<banco, trava>>
  BY <1>1, <1>2 DEF Existe, arquivos
<1>6. Devido(p, r)
  BY <1>2, <1>4, <1>5 DEF Devido
<1>7. ProcessosBons'
  BY <1>1, <1>2, <1>3, <1>6, UmPorVez
<1> QED
  BY <1>1, <1>2, <1>5, <1>7 DEF BancoBom, BancoCoerente, Existe

(* The first administrator, the mark and the code come together.           *)
LEMMA ProvisionaBem ==
    ASSUME Partidas, NEW p \in Processo, ProvisionInitialAdmin(p)
    PROVE  BancoBom' /\ ProcessosBons'
<1>1. /\ proc[p].passo = "aberto" /\ proc[p].mostrado # 0
      /\ banco' = [banco EXCEPT !.instalacao = "READY", !.usuarios = 1,
                      !.codigo = proc[p].mostrado]
      /\ proc' = [proc EXCEPT ![p] = [proc[p] EXCEPT !.mostrado = 0]]
      /\ UNCHANGED <<copias, reserva, trava, anotado, quedas>>
  BY DEF ProvisionInitialAdmin
<1>2. /\ trava = p /\ proc[p].alvo \in Alvos /\ proc[p] \in ProcT
      /\ banco \in BancoT /\ BancoCoerente /\ anotado \in Nat /\ Existe
      /\ proc[p].mostrado = anotado
  BY <1>1, Vez DEF Partidas, TypeOK, BancoT, Sabido
<1>3. PICK r : r = [proc[p] EXCEPT !.mostrado = 0]
  OBVIOUS
<1>4. /\ r \in ProcT /\ r.passo = "aberto" /\ r.alvo = proc[p].alvo
      /\ r.mostrado = 0
  BY <1>1, <1>2, <1>3 DEF ProcT
<1>5. /\ banco'.esquema = banco.esquema
      /\ banco'.catalogo = banco.catalogo /\ banco'.instalacao = "READY"
      /\ banco'.usuarios = 1 /\ banco'.codigo = anotado
  BY <1>1, <1>2 DEF BancoT
<1>6. banco' \in BancoT
  BY <1>1, <1>2, BancoProvido
<1>7. Existe'
  BY <1>2, <1>5 DEF Existe
<1>8. Devido(p, r)
  BY <1>1, <1>2, <1>4, <1>7 DEF Devido
<1>9. ProcessosBons'
  BY <1>1, <1>2, <1>3, <1>8, UmPorVez
<1> QED
  BY <1>1, <1>2, <1>5, <1>7, <1>9, <1>6 DEF BancoBom, BancoCoerente

(* The sales of a session change neither schema nor mark.                  *)
LEMMA OperaBem ==
    ASSUME Partidas, NEW p \in Processo, NEW n \in 0..2, Operar(p, n)
    PROVE  BancoBom' /\ ProcessosBons'
<1>1. /\ proc[p].passo = "aberto"
      /\ banco' = [banco EXCEPT !.dados = banco.dados + 1, !.abertos = n]
      /\ UNCHANGED <<copias, reserva, trava, proc, anotado, quedas>>
  BY DEF Operar
<1>2. /\ trava = p /\ banco \in BancoT /\ BancoCoerente /\ Existe
  BY <1>1, Vez DEF Partidas, TypeOK, BancoT, Sabido
<1>3. /\ banco'.esquema = banco.esquema
      /\ banco'.catalogo = banco.catalogo /\ banco'.instalacao = banco.instalacao
      /\ banco'.usuarios = banco.usuarios /\ banco'.codigo = banco.codigo
  BY <1>1, <1>2 DEF BancoT
<1>4. banco' \in BancoT
  BY <1>1, <1>2, BancoOperado
<1>5. ProcessosBons'
  <2>1. proc \in [Processo -> ProcT] /\ Exclusao'
    BY <1>1 DEF Partidas, TypeOK, ProcT, PassoT, Exclusao
  <2>2. \A q \in Processo : proc[q].passo # "aplicar"
    BY <1>1, <1>2, Vez
  <2>3. Sabido'
    BY <1>1, <1>2, <1>3, <2>2 DEF Partidas, Sabido, Existe
  <2> QED
    BY <1>1, <2>1, <2>3 DEF ProcessosBons
<1> QED
  BY <1>1, <1>2, <1>3, <1>5, <1>4 DEF BancoBom, BancoCoerente, Existe

-----------------------------------------------------------------------------
(* The invariant                                                           *)

LEMMA PartidasIniciais == Init => Partidas
<1> SUFFICES ASSUME Init PROVE Partidas
  OBVIOUS
<1>1. proc \in [Processo -> ProcT] /\ \A p \in Processo : proc[p] = Fora
  BY ForaDeTudo DEF Init
<1>2. ASSUME banco = SemBanco PROVE BancoBom
  <2>1. 0 \in Nat /\ 0 \in 0..1 /\ 0 \in 0..2
    OBVIOUS
  <2>2. banco \in BancoT
    BY <1>2, <2>1, Zenon DEF SemBanco, BancoT
  <2>3. banco.esquema = 0 /\ banco.instalacao = "AUSENTE" /\ banco.codigo = 0
    BY <1>2 DEF SemBanco
  <2> QED
    BY <1>2, <2>2, <2>3 DEF BancoBom, BancoCoerente, Existe
<1>3. ASSUME NEW v \in Antigos, NEW u \in 0..1, NEW n \in 0..2,
             banco = BancoAntigo(v, u, n)
      PROVE  BancoBom
  <2>1. /\ banco.esquema = v /\ banco.catalogo = TRUE /\ banco.usuarios = u
        /\ banco.codigo = 0
        /\ banco.instalacao = IF v < InstalacaoDesde THEN "AUSENTE"
                              ELSE IF u = 0 THEN "UNINITIALIZED" ELSE "READY"
    BY <1>3 DEF BancoAntigo, SemBanco
  <2>2. v \in Nat /\ v # 0 /\ InstalacaoDesde \in Nat
    BY PartidaAssumption DEF PartidaAssumption
  <2>3. banco \in BancoT
    <3>1. PICK m \in {"AUSENTE", "UNINITIALIZED", "READY"} :
            m = IF v < InstalacaoDesde THEN "AUSENTE"
                ELSE IF u = 0 THEN "UNINITIALIZED" ELSE "READY"
      OBVIOUS
    <3>2. banco = [SemBanco EXCEPT !.esquema = v, !.catalogo = TRUE, !.usuarios = u,
                                   !.instalacao = m, !.abertos = n]
      BY <1>3, <3>1 DEF BancoAntigo
    <3>3. 0 \in Nat
      OBVIOUS
    <3> QED
      BY <2>2, <3>2, <3>3, Zenon DEF SemBanco, BancoT
  <2> QED
    BY <2>1, <2>2, <2>3 DEF BancoBom, BancoCoerente, Existe
<1>4. BancoBom
  <2>1. \/ banco = SemBanco
        \/ \E v \in Antigos, u \in 0..1, n \in 0..2 : banco = BancoAntigo(v, u, n)
    BY DEF Init
  <2> QED
    BY <1>2, <1>3, <2>1
<1> QED
  BY <1>1, <1>4, ForaDeTudo
     DEF Init, Partidas, TypeOK, Exclusao, Sabido, BancoBom, BancoT, ProcT, PassoT

(* What follows each step on the staging file.                             *)
LEMMA RoteiroPassos ==
    /\ Roteiro["montar"] = "povoar" /\ Roteiro["povoar"] = "conferir"
    /\ Roteiro["conferir"] = "publicar"
  BY DEF Roteiro

(* Every step of every process keeps it.                                   *)
LEMMA PartidasMantidas == Partidas /\ [Next]_vars => Partidas'
<1> SUFFICES ASSUME Partidas, [Next]_vars PROVE Partidas'
  OBVIOUS
<1> DEFINE Restante ==
             /\ copias' \subseteq [esquema : Nat, dados : Nat]
             /\ reserva' \in Processo \cup {Nenhum}
             /\ trava' \in Processo \cup {Nenhum}
             /\ anotado' \in Nat /\ quedas' \in Nat
<1>1. /\ BancoBom /\ copias \subseteq [esquema : Nat, dados : Nat]
      /\ reserva \in Processo \cup {Nenhum} /\ trava \in Processo \cup {Nenhum}
      /\ anotado \in Nat /\ quedas \in Nat /\ proc \in [Processo -> ProcT]
  BY DEF Partidas, TypeOK, BancoBom, BancoT, ProcT, PassoT
<1>2. BancoBom' /\ ProcessosBons' /\ Restante => Partidas'
  BY DEF BancoBom, ProcessosBons, Partidas, TypeOK, BancoT, ProcT, PassoT
<1>3. UNCHANGED <<banco, anotado>> => BancoBom' /\ (Existe' <=> Existe) /\ Retrato' = Retrato
  BY <1>1 DEF BancoBom, BancoCoerente, Existe, Retrato
<1>4. CASE UNCHANGED vars
  BY <1>4 DEF vars, arquivos, Partidas, TypeOK, Exclusao, Sabido, BancoCoerente,
              Existe, Retrato
<1>5. ASSUME NEW p \in Processo, NEW v \in Alvos, Acquire(p, v)
      PROVE  Partidas'
  <2>1. PICK r : r = [Fora EXCEPT !.passo = "verifica", !.alvo = v]
    OBVIOUS
  <2>2. /\ trava = Nenhum /\ trava' = p /\ proc' = [proc EXCEPT ![p] = r]
        /\ UNCHANGED <<arquivos, anotado, quedas>>
    BY <1>5, <2>1 DEF Acquire, TravaLivre
  <2>3. r \in ProcT /\ r.passo = "verifica" /\ r.alvo = v /\ r.mostrado = 0
    BY <2>1, PartidaAssumption DEF Fora, ProcT, PassoT, PartidaAssumption
  <2>4. ProcessosBons'
    BY <2>2, <2>3, UmPorVez DEF Devido
  <2> QED
    BY <1>1, <1>2, <1>3, <2>2, <2>4 DEF arquivos
<1>6. ASSUME NEW p \in Processo, StartupPreflight(p)
      PROVE  Partidas'
  <2>1. proc[p].passo = "verifica" /\ UNCHANGED <<arquivos, trava, anotado, quedas>>
    BY <1>6 DEF StartupPreflight
  <2>2. ProcessosBons'
    BY <1>3, <1>6, <2>1, VaiBem DEF StartupPreflight, arquivos, PassoT, Semeando
  <2> QED
    BY <1>1, <1>2, <1>3, <2>1, <2>2 DEF arquivos
<1>7. ASSUME NEW p \in Processo, SementeRecusada(p) \/ ReservaRecusada(p)
      PROVE  Partidas'
  <2>1. /\ proc[p].passo = "semear" /\ Sai(p)
        /\ UNCHANGED <<arquivos, anotado, quedas>>
    BY <1>7 DEF SementeRecusada, ReservaRecusada
  <2> QED
    BY <1>1, <1>2, <1>3, <2>1, SaiBem DEF arquivos
<1>8. ASSUME NEW p \in Processo, Reserva(p)
      PROVE  Partidas'
  <2>1. /\ proc[p].passo = "semear" /\ reserva' \in {reserva, p}
        /\ UNCHANGED <<banco, copias, anotado, quedas>>
        /\ \/ Vai(p, "montar") /\ UNCHANGED trava
           \/ Existe /\ Vai(p, "migrar") /\ UNCHANGED trava
           \/ Sai(p)
    BY <1>8 DEF Reserva
  <2>2. ProcessosBons' /\ trava' \in Processo \cup {Nenhum}
    BY <1>1, <1>3, <2>1, SaiBem, VaiBem DEF PassoT, Semeando
  <2> QED
    BY <1>1, <1>2, <1>3, <2>1, <2>2
<1>9. ASSUME NEW p \in Processo, Montar(p) \/ Povoar(p) \/ Conferir(p)
      PROVE  Partidas'
  <2>1. PICK r :
          /\ proc[p].passo # "fora" /\ proc' = [proc EXCEPT ![p] = r]
          /\ UNCHANGED <<arquivos, trava, anotado, quedas>>
          /\ \/ r = [proc[p] EXCEPT !.passo = "desfazer"]
             \/ r = [proc[p] EXCEPT !.passo = "povoar", !.nova = "esquema"]
             \/ r = [proc[p] EXCEPT !.passo = "conferir", !.nova = "catalogo"]
             \/ /\ proc[p].nova = "catalogo"
                /\ r = [proc[p] EXCEPT !.passo = "publicar", !.nova = "catalogo"]
    <3>1. CASE Montar(p)
      BY <3>1, RoteiroPassos DEF Montar, Prepara
    <3>2. CASE Povoar(p)
      BY <3>2, RoteiroPassos DEF Povoar, Prepara
    <3>3. CASE Conferir(p)
      <4>1. proc[p].passo = "conferir" /\ proc[p].nova = "catalogo"
        BY <3>3 DEF Conferir, Prepara, Partidas, Sabido
      <4> QED
        BY <3>3, <4>1, RoteiroPassos DEF Conferir, Prepara
    <3> QED
      BY <1>9, <3>1, <3>2, <3>3
  <2>2. /\ trava = p /\ proc[p] \in ProcT /\ proc[p].alvo \in Alvos
        /\ proc[p].mostrado # 0 => proc[p].mostrado = anotado
    BY <2>1, Vez DEF Partidas, Sabido
  <2>3. /\ r \in ProcT /\ r.alvo = proc[p].alvo /\ r.mostrado = proc[p].mostrado
        /\ r.passo \in {"desfazer", "povoar", "conferir", "publicar"}
        /\ r.passo \in {"conferir", "publicar"} => r.nova = "catalogo"
    BY <2>1, <2>2 DEF ProcT, PassoT, Semeando
  <2>4. ProcessosBons'
    BY <2>1, <2>2, <2>3, UmPorVez DEF Devido
  <2> QED
    BY <1>1, <1>2, <1>3, <2>1, <2>4 DEF arquivos
<1>10. ASSUME NEW p \in Processo, Publicar(p)
       PROVE  Partidas'
  BY <1>1, <1>2, <1>10, PublicaBem DEF Publicar
<1>11. ASSUME NEW p \in Processo, Limpar(p)
       PROVE  Partidas'
  <2>1. /\ proc[p].passo \in {"limpar", "desfazer"} /\ reserva' \in {reserva, Nenhum}
        /\ UNCHANGED <<banco, copias, anotado, quedas>>
    BY <1>11 DEF Limpar
  <2>2. CASE proc[p].passo = "limpar"
    <3>1. PICK r : r = [proc[p] EXCEPT !.passo = "migrar", !.nova = "nada"]
      OBVIOUS
    <3>2. proc' = [proc EXCEPT ![p] = r] /\ UNCHANGED trava
      BY <1>11, <2>2, <3>1 DEF Limpar
    <3>3. /\ trava = p /\ proc[p] \in ProcT /\ proc[p].alvo \in Alvos /\ Existe
          /\ proc[p].mostrado # 0 => proc[p].mostrado = anotado
      BY <2>2, Vez DEF Partidas, Sabido
    <3>4. /\ r \in ProcT /\ r.passo = "migrar" /\ r.alvo = proc[p].alvo
          /\ r.mostrado = proc[p].mostrado
      BY <3>1, <3>3 DEF ProcT, PassoT
    <3>5. ProcessosBons'
      BY <1>3, <2>1, <3>2, <3>3, <3>4, UmPorVez DEF Devido
    <3> QED
      BY <1>1, <1>2, <1>3, <2>1, <3>2, <3>5
  <2>3. CASE proc[p].passo = "desfazer"
    <3>1. ProcessosBons' /\ trava' \in Processo \cup {Nenhum}
      BY <1>11, <2>3, SaiBem DEF Limpar
    <3> QED
      BY <1>1, <1>2, <1>3, <2>1, <3>1
  <2> QED
    BY <2>1, <2>2, <2>3
<1>12. ASSUME NEW p \in Processo, Inspecionar(p)
       PROVE  Partidas'
  <2>1. /\ proc[p].passo = "migrar" /\ UNCHANGED <<arquivos, anotado, quedas>>
        /\ \/ Sai(p)
           \/ (Vai(p, "aberto") \/ Vai(p, "copiar")) /\ UNCHANGED trava
    BY <1>12 DEF Inspecionar, Conforme
  <2>2. Existe
    BY <2>1 DEF Partidas, Sabido
  <2>3. ProcessosBons' /\ trava' \in Processo \cup {Nenhum}
    BY <1>1, <1>3, <2>1, <2>2, SaiBem, VaiBem DEF arquivos, PassoT, Semeando
  <2> QED
    BY <1>1, <1>2, <1>3, <2>1, <2>3 DEF arquivos
<1>13. ASSUME NEW p \in Processo, BackupTo(p)
       PROVE  Partidas'
  <2>1. proc[p].passo = "copiar" /\ UNCHANGED <<banco, reserva, anotado, quedas>>
    BY <1>13 DEF BackupTo
  <2>2. Existe
    BY <2>1 DEF Partidas, Sabido
  <2>3. CASE copias' = copias \cup {Retrato} /\ Vai(p, "aplicar") /\ UNCHANGED trava
    <3>1. Retrato \in [esquema : Nat, dados : Nat]
      BY <1>1 DEF Retrato, BancoBom, BancoT
    <3>2. ProcessosBons'
      BY <1>3, <2>1, <2>2, <2>3, VaiBem DEF PassoT, Semeando
    <3> QED
      BY <1>1, <1>2, <1>3, <2>1, <2>3, <3>1, <3>2
  <2>4. CASE Sai(p) /\ UNCHANGED copias
    BY <1>1, <1>2, <1>3, <2>1, <2>4, SaiBem
  <2> QED
    BY <1>13, <2>3, <2>4 DEF BackupTo
<1>14. ASSUME NEW p \in Processo, Aplicar(p)
       PROVE  Partidas'
  BY <1>1, <1>2, <1>14, AplicaBem DEF Aplicar
<1>15. ASSUME NEW p \in Processo, ContinueToConfirmation(p)
       PROVE  Partidas'
  <2>1. anotado' = anotado + 1 /\ UNCHANGED <<arquivos, trava, quedas>>
    BY <1>15 DEF ContinueToConfirmation
  <2>2. BancoBom' /\ ProcessosBons'
    BY <1>15, MostraBem
  <2> QED
    BY <1>1, <1>2, <2>1, <2>2 DEF arquivos
<1>16. ASSUME NEW p \in Processo, ProvisionInitialAdmin(p)
       PROVE  Partidas'
  BY <1>1, <1>2, <1>16, ProvisionaBem DEF ProvisionInitialAdmin
<1>17. ASSUME NEW p \in Processo, NEW n \in 0..2, Operar(p, n)
       PROVE  Partidas'
  BY <1>1, <1>2, <1>17, OperaBem DEF Operar
<1>18. ASSUME NEW p \in Processo, RequestExit(p) \/ Queda(p)
       PROVE  Partidas'
  <2>1. /\ proc[p].passo # "fora" /\ Sai(p) /\ quedas' \in {quedas, quedas + 1}
        /\ UNCHANGED <<arquivos, anotado>>
    BY <1>18 DEF RequestExit, Queda
  <2> QED
    BY <1>1, <1>2, <1>3, <2>1, SaiBem DEF arquivos
<1> QED
  BY <1>4, <1>5, <1>6, <1>7, <1>8, <1>9, <1>10, <1>11, <1>12, <1>13, <1>14, <1>15,
     <1>16, <1>17, <1>18 DEF Next

LEMMA PartidasSempre == Spec => []Partidas
  BY PartidasIniciais, PartidasMantidas, PTL DEF Spec

-----------------------------------------------------------------------------
(* The theorems                                                            *)

(* The database, the copies and every process keep their type.             *)
THEOREM PartidaTipos == Spec => []TypeOK
  BY PartidasSempre, PTL DEF Partidas

(* No two processes are ever past the lock at once, however they start,    *)
(* fail and die.                                                           *)
THEOREM UmaInstancia ==
    Spec => [](\A p, q \in Processo :
                 proc[p].passo # "fora" /\ proc[q].passo # "fora" => p = q)
<1>1. Partidas => \A p, q \in Processo :
                    proc[p].passo # "fora" /\ proc[q].passo # "fora" => p = q
  BY DEF Partidas, Exclusao
<1> QED
  BY <1>1, PartidasSempre, PTL

(* A database under its final name is whole.                               *)
THEOREM PartidaPublicadoInteiro == Spec => []PublicadoInteiro
<1>1. Partidas => PublicadoInteiro
  BY DEF Partidas, BancoCoerente, PublicadoInteiro
<1> QED
  BY <1>1, PartidasSempre, PTL

(* The installation is ready exactly when somebody can use it, and the code*)
(* on record is the one shown last.                                        *)
THEOREM PartidaInstalacaoCoerente == Spec => []InstalacaoCoerente
<1>1. Partidas => InstalacaoCoerente
  <2> SUFFICES ASSUME Partidas PROVE InstalacaoCoerente
    OBVIOUS
  <2>1. banco.usuarios \in 0..1
    BY DEF Partidas, TypeOK
  <2>2. ~Existe => banco.instalacao = "AUSENTE" /\ banco.usuarios = 0
    BY DEF Partidas, BancoCoerente, SemBanco
  <2>3. banco.instalacao \in {"AUSENTE", "UNINITIALIZED", "READY"}
    BY DEF Partidas, TypeOK
  <2> QED
    BY <2>1, <2>2, <2>3 DEF Partidas, BancoCoerente, InstalacaoCoerente
<1> QED
  BY <1>1, PartidasSempre, PTL

(* Whatever writes the database keeps what is in it, and only a migration  *)
(* with its copy made changes the schema.                                  *)
LEMMA ConservadoNoPasso == Partidas /\ [Next]_vars => BancoConservado
<1> SUFFICES ASSUME Partidas, [Next]_vars PROVE BancoConservado
  OBVIOUS
<1>1. banco \in BancoT
  BY DEF Partidas, TypeOK, BancoT
<1>2. ASSUME UNCHANGED banco PROVE BancoConservado
  BY <1>1, <1>2 DEF BancoConservado, BancoT
<1>3. ASSUME NEW p \in Processo, Publicar(p) PROVE BancoConservado
  BY <1>2, <1>3 DEF Publicar, BancoConservado
<1>4. ASSUME NEW p \in Processo, Aplicar(p) PROVE BancoConservado
  <2>1. Retrato \in copias
    BY <1>4 DEF Aplicar, Partidas, Sabido
  <2>2. \/ UNCHANGED banco
        \/ /\ banco.esquema < proc[p].alvo
           /\ banco'.esquema = proc[p].alvo /\ banco'.dados = banco.dados
           /\ banco'.usuarios = banco.usuarios
    BY <1>1, <1>4 DEF Aplicar, BancoT
  <2>3. proc[p].alvo \in Nat
    BY DEF Partidas, TypeOK
  <2> QED
    BY <1>1, <1>2, <2>1, <2>2, <2>3 DEF BancoConservado, BancoT
<1>5. ASSUME NEW p \in Processo, ProvisionInitialAdmin(p) PROVE BancoConservado
  BY <1>1, <1>5 DEF ProvisionInitialAdmin, BancoConservado, BancoT
<1>6. ASSUME NEW p \in Processo, NEW n \in 0..2, Operar(p, n) PROVE BancoConservado
  BY <1>1, <1>6 DEF Operar, BancoConservado, BancoT
<1>7. ASSUME NEW p \in Processo,
             \/ \E v \in Alvos : Acquire(p, v)
             \/ StartupPreflight(p)
             \/ SementeRecusada(p) \/ ReservaRecusada(p) \/ Reserva(p)
             \/ Montar(p) \/ Povoar(p) \/ Conferir(p) \/ Limpar(p)
             \/ Inspecionar(p) \/ BackupTo(p) \/ ContinueToConfirmation(p)
             \/ RequestExit(p) \/ Queda(p)
      PROVE  UNCHANGED banco
  BY <1>7 DEF Acquire, StartupPreflight, SementeRecusada, ReservaRecusada, Reserva,
              Montar, Povoar, Conferir, Prepara, Limpar, Inspecionar, BackupTo,
              ContinueToConfirmation, RequestExit, Queda, arquivos
<1>8. CASE UNCHANGED vars
  BY <1>2, <1>8 DEF vars, arquivos
<1> QED
  BY <1>2, <1>3, <1>4, <1>5, <1>6, <1>7, <1>8 DEF Next

(* No start of any release loses what a database holds, and none migrates  *)
(* it without a copy of it.                                                *)
THEOREM PartidaMigraComCopia == Spec => MigraComCopia
<1>1. Partidas /\ [Next]_vars => [BancoConservado]_vars
  BY ConservadoNoPasso
<1> QED
  BY <1>1, PartidasSempre, PTL DEF Spec, MigraComCopia

-----------------------------------------------------------------------------
(* The reservation of the bootstrap                                        *)

\* The steps that leave the reservation behind: a death during the bootstrap, a
\* descriptor that does not close, a file that is not removed.
LargaReserva(p) ==
    \/ Queda(p) /\ proc[p].passo \in Semeando
    \/ Reserva(p) /\ Sai(p)
    \/ Limpar(p) /\ reserva' # Nenhum

\* Without them, whoever made the reservation is at it.
ReservaViva ==
    reserva # Nenhum => reserva \in Processo /\ proc[reserva].passo \in Semeando

(* A process that is not at it leaves the reservation to who is.           *)
LEMMA ReservaAlheia ==
    ASSUME ReservaViva, NEW p \in Processo, proc[p].passo \notin Semeando,
           \A q \in Processo : q # p => proc'[q] = proc[q],
           reserva' = reserva
    PROVE  ReservaViva'
  BY DEF ReservaViva

LEMMA SoUm ==
    ASSUME TypeOK, NEW p \in Processo, NEW x,
           Sai(p) \/ Vai(p, x) \/ (\E r : proc' = [proc EXCEPT ![p] = r])
    PROVE  \A q \in Processo : q # p => proc'[q] = proc[q]
  BY DEF TypeOK, Sai, Vai

LEMMA ReservaMantida ==
    ASSUME TypeOK, ReservaViva, [Next]_vars,
           [\A p \in Processo : ~LargaReserva(p)]_vars
    PROVE  ReservaViva'
<1>0. reserva \in Processo \cup {Nenhum}
  BY DEF TypeOK
<1>1. CASE UNCHANGED vars
  BY <1>1 DEF vars, arquivos, ReservaViva
<1>2. ASSUME NEW p \in Processo, NEW v \in Alvos, Acquire(p, v) PROVE ReservaViva'
  <2>1. \A q \in Processo : q # p => proc'[q] = proc[q]
    BY <1>2 DEF Acquire, TypeOK
  <2> QED
    BY <1>2, <2>1, ReservaAlheia DEF Acquire, arquivos, Semeando
<1>3. ASSUME NEW p \in Processo, StartupPreflight(p) \/ SementeRecusada(p)
                                   \/ ReservaRecusada(p)
      PROVE  ReservaViva'
  <2>1. /\ proc[p].passo \notin Semeando /\ UNCHANGED reserva
        /\ Sai(p) \/ \E x : Vai(p, x)
    BY <1>3 DEF StartupPreflight, SementeRecusada, ReservaRecusada, arquivos, Semeando
  <2> QED
    BY <2>1, SoUm, ReservaAlheia
<1>4. ASSUME NEW p \in Processo, Reserva(p) PROVE ReservaViva'
  <2>1. CASE Existe
    <3>1. /\ proc[p].passo \notin Semeando /\ UNCHANGED reserva
          /\ \E x : Vai(p, x)
      BY <1>4, <2>1 DEF Reserva, Semeando
    <3> QED
      BY <3>1, SoUm, ReservaAlheia
  <2>2. CASE ~Existe
    <3>1. reserva' = p /\ (Vai(p, "montar") \/ Sai(p))
      BY <1>4, <2>2 DEF Reserva
    <3>2. CASE Sai(p)
      BY <1>4, <3>2, <1>1 DEF LargaReserva
    <3>3. CASE Vai(p, "montar")
      <4>1. proc'[p].passo = "montar"
        BY <3>3 DEF Vai, TypeOK
      <4> QED
        BY <3>1, <4>1 DEF ReservaViva, Semeando
    <3> QED
      BY <3>1, <3>2, <3>3
  <2> QED
    BY <2>1, <2>2
<1>5. ASSUME NEW p \in Processo, Montar(p) \/ Povoar(p) \/ Conferir(p) \/ Publicar(p)
      PROVE  ReservaViva'
  <2>1. /\ UNCHANGED reserva /\ proc'[p].passo \in Semeando
        /\ \A q \in Processo : q # p => proc'[q] = proc[q]
    BY <1>5, RoteiroPassos
       DEF Montar, Povoar, Conferir, Publicar, Prepara, Vai, Semeando, arquivos,
                TypeOK
  <2> QED
    BY <1>0, <2>1 DEF ReservaViva
<1>6. ASSUME NEW p \in Processo, Limpar(p) PROVE ReservaViva'
  BY <1>1, <1>6 DEF Limpar, LargaReserva, ReservaViva
<1>7. ASSUME NEW p \in Processo, Inspecionar(p) \/ BackupTo(p) \/ Aplicar(p)
                                   \/ RequestExit(p)
      PROVE  ReservaViva'
  <2>1. /\ proc[p].passo \notin Semeando /\ UNCHANGED reserva
        /\ Sai(p) \/ \E x : Vai(p, x)
    BY <1>7 DEF Inspecionar, BackupTo, Aplicar, Conforme, RequestExit, arquivos, Semeando
  <2> QED
    BY <2>1, SoUm, ReservaAlheia
<1>8. ASSUME NEW p \in Processo, ContinueToConfirmation(p) \/ ProvisionInitialAdmin(p)
                                   \/ \E n \in 0..2 : Operar(p, n)
      PROVE  ReservaViva'
  <2>1. /\ proc[p].passo \notin Semeando /\ UNCHANGED reserva
        /\ \A q \in Processo : q # p => proc'[q] = proc[q]
    BY <1>8 DEF ContinueToConfirmation, ProvisionInitialAdmin, Operar, arquivos, Semeando,
                TypeOK
  <2> QED
    BY <2>1, ReservaAlheia
<1>9. ASSUME NEW p \in Processo, Queda(p) PROVE ReservaViva'
  <2>1. CASE proc[p].passo \in Semeando
    BY <1>1, <1>9, <2>1 DEF LargaReserva
  <2>2. CASE proc[p].passo \notin Semeando
    <3>1. Sai(p) /\ UNCHANGED reserva
      BY <1>9 DEF Queda, arquivos
    <3> QED
      BY <2>2, <3>1, SoUm, ReservaAlheia
  <2> QED
    BY <2>1, <2>2
<1> QED
  BY <1>1, <1>2, <1>3, <1>4, <1>5, <1>6, <1>7, <1>8, <1>9 DEF Next

(* Whoever is told that another start is under way is told the truth, and  *)
(* under the lock of the instance nobody is told at all, as long as no     *)
(* process dies at it and the system closes and removes the file.          *)
THEOREM PartidaRecusaTemDono ==
    Spec /\ [][\A p \in Processo : ~LargaReserva(p)]_vars =>
      []( /\ RecusaTemDono
         /\ \A p \in Processo : proc[p].passo = "semear" => reserva = Nenhum )
<1> DEFINE Inocente ==
             /\ RecusaTemDono
             /\ \A p \in Processo : proc[p].passo = "semear" => reserva = Nenhum
<1>1. Init => ReservaViva
  BY DEF Init, ReservaViva
<1>2. Partidas /\ ReservaViva /\ [Next]_vars
          /\ [\A p \in Processo : ~LargaReserva(p)]_vars => ReservaViva'
  <2> SUFFICES ASSUME Partidas, ReservaViva, [Next]_vars,
                      [\A p \in Processo : ~LargaReserva(p)]_vars
               PROVE  ReservaViva'
    OBVIOUS
  <2>1. TypeOK
    BY DEF Partidas
  <2> QED
    BY <2>1, ReservaMantida
<1>3. Partidas /\ ReservaViva => Inocente
  BY DEF Partidas, Exclusao, ReservaViva, RecusaTemDono, Semeando
<1> QED
  BY <1>1, <1>2, <1>3, PartidasSempre, PTL DEF Spec
=============================================================================
