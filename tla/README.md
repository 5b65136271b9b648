# TrigoPDV: a specification of the point of sale

TrigoPDV is the point of sale of a bakery: one Windows computer, one SQLite
file, one physical cash drawer, one Tk window, and a few threads behind it (one
that prints receipts, one that copies the database after a closing, one that
looks up the codes read, one that looks for updates). This directory holds TLA+
modules translated from its Python sources, the TLC configurations that check
small instances of them, and TLAPS proofs for every instance.

## Inventory

| Component (source) | State | Operations | What is hard | What makes it correct |
|---|---|---|---|---|
| User directory (`services/auth.py`, `security.py`, `provisioning.py`) | table `usuarios`, the session | create, change, reset, recover, activate, login, logout, approve | sequences of several administrators that lock everybody out; a recovery code used twice | somebody can always administer; nobody alters an account without standing; the session's account is active |
| Limiter of attempts (`services/rate_limit.py`) | counters and times in `usuarios` | failure, success, recovery | clock read before the lock, whole seconds | a block lasts, and no attempt changes it |
| Quotation (`services/checkout.py`) | none (pure) | `quote_lines` | rounding, manual sums, stale prices | exceptions need an administrator |
| Cash drawer (`services/cash.py`) | `caixas`, `movimentacoes_caixa`, `backups_caixa` | open, movement, close, resume | repeated requests, negative balances, late cancellations | one drawer; a closing stays true |
| Sales (`services/sales.py`) | `vendas`, `itens_venda`, `cancelamentos_venda`, `impressao_outbox` | finalize, cancel, second copy | repeated confirmations, stock of repeated lines | one sale per confirmation; stock conserved |
| Catalogue (`services/products.py`) | `produtos`, `cache_gtin` | create, update, adjust, delete, look up | edits between a cart and its sale | price in force |
| Receipt worker (`printing/outbox.py`) | a queue, a set of ids, a thread, `impressao_outbox` | enqueue, process, retry, resume, shutdown | interleaving, crash, lost wake-up | nothing printed twice or forgotten |
| Backup worker (`services/backup.py`) | the same, and the files | the same, copies by hand and for maintenance | the same; ids that start again | a closing's copy holds the closing |
| Preparation for production (`services/production.py`) | all tables | prepare | window between copy and deletion | no record of the business is erased without a copy, and only once |
| Counter screen (`ui/views.py` SaleView, `ui/scan_queue.py`, `ui/app.py`, dialogs) | cart, scan queue, dialogs, grab | scan, quote, pay, cancel, drawer, logout | late answers of a thread, dialogs beside each other | no reading in the wrong cart, one sale per payment |
| Online update (`updates/`) | state file, downloaded bundle | check, download, apply, resume | crash in every phase, manual installations, a drawer opened meanwhile | the program opens whole and on its own schema, a copy comes first |
| Catalogue bootstrap (`services/catalog_bootstrap.py`) | staging file, reservation, database file | reserve, populate, verify, publish, clean | death between two files | never half a catalogue |
| Database and migrations (`db/`) | schema version | transactions, migrations | crash or a write between copy and migration | nothing changes schema without a copy |
| Single instance (`runtime/`) | a lock file | acquire, release | two starts at once | one process writes |

Components interact in three ways. Services call each other inside one SQLite
`BEGIN IMMEDIATE` transaction (`Database.transaction(write=True)`), so a service
operation is atomic and serialised with every other. A service that leaves work
for a thread writes a row and, after its commit, the caller puts the id in the
memory queue of the thread (`DesktopController.finalize_sale`,
`CashService.close_cash`): the interesting interleavings are here. Screens call
services through `PDVService` and `DesktopController`, and give a confirmation a
random key so that it can be sent again.

## Modules

| Module | Models | Uses |
|---|---|---|
| `Usuarios` | accounts, roles, authorization predicates | |
| `Autenticacao` | the limiter, login, session, approval, recovery by code | `Usuarios` |
| `Checkout` | `quote_lines` as pure operators | |
| `PDV` | the transactions of `cash.py`, `sales.py`, `products.py` on the shared tables | `Usuarios`, `Checkout` |
| `Gaveta` | abstract: what a cash drawer promises | |
| `PDVGaveta` | the refinement mapping from the tables to the drawer | `PDV`, `Gaveta` |
| `FilaDuravel` | the durable queue with its worker thread | |
| `Producao` | the backup worker, copies and maintenance, the preparation for production | |
| `Balcao` | the counter screen: scan queue, look-ups, cart, dialogs, sessions | |
| `Atualizacao` | the online update, from the offer to the start of the new program | |
| `Partida` | from the start of a process to its window: lock, bootstrap, migration, first administrator | |
| `MCPDV`, `MCAutenticacao`, `MCProducao`, `MCBalcao`, `MCAtualizacao`, `MCPartida` | instances for TLC (`FilaDuravel` needs none) | |
| `UsuariosProofs`, `AutenticacaoProofs`, `PDVProofs`, `FilaProofs`, `ProducaoProofs`, `BalcaoProofs`, `AtualizacaoProofs`, `PartidaProofs` | the theorems | |

Composition: `Autenticacao` and `PDV` extend the directory and share its variable,
and both are proved to implement it; `PDV` implements `Gaveta`. The other modules
meet at narrow places that each models for itself: a sale of `Balcao` is a row with
a key (what the transaction does with it is `PDV`), a copy of `Producao` is a file
that holds the facts committed when it was made, the drawer of `Atualizacao` is a
flag.

How the state corresponds to the code:

- A table with an `AUTOINCREMENT` key is a sequence and the key is the position
  (`caixas`, `movimentacoes`, `vendas`, `cancelamentos`, `impressoes`);
  `usuarios` and `produtos` are functions of the account and of the code, with a
  field that says whether the row exists; `backups` is the set of drawers with a
  row in `backups_caixa`.
- Money is in cents and quantities in thousandths, the scaled integers
  `checkout.py` computes with. The columns are `REAL`; the error of storing them
  so is not modelled.
- A call that raises changes nothing (the transaction rolls back), so it is an
  action that is not enabled. A repeated call that is answered from its stored
  row is a stuttering step, enabled exactly when the data agree.
- The fingerprint of a sale is the tuple of the data it is computed from.
- `vendas[v].baixa` is a history variable: what the sale took from each product.
- The audit log is written by every operation in its transaction and read by
  none. It is left out everywhere but in `Producao`, whose preparation erases it
  and whose copies it names: there it is part of `livro`.

`FilaDuravel` describes `PrintOutboxWorker`, one action for each stretch between
two points where another thread may run: a caller's commit (`Solicitar`,
`Retry`), its call of `enqueue` (`Enqueue`), and of the thread `Queue.get`
(`Retirar`), the first transaction (`Tentar`), the print (`Executar`), the second
transaction (`Gravar`) and the `finally` clause (`Liberar`). `FalhaBanco` is a
database error, which nothing catches: the `finally` clause runs and the thread
is gone. `Queda` is the end of the process at any point, `ResumePending` the next
start.

`Autenticacao` adds to the directory the limiter of each account (`login`, `recup`:
failures, start of the window, end of the block), the number of the recovery code
in force (`codigo`) and the session. A code is known by its issue: the form of a recovery
lets the administrator type the next one, `recover_password_with_code` refuses only the one
just spent, and digits used longer ago count as another code. A login, a recovery and the question whether
recovery is available read the clock before they wait for the write lock: such a call
is a member of `pedidos` with the time it read, and `Authenticate`, `Recupera` and
`PasswordRecoveryAvailable` are its transactions. `Desiste` is the time-out of the
lock; `Tempo` lets time pass no further than the calls that wait allow. What reads the
clock inside its transaction (`ChangeOwnPassword`, `ConfigureOwnRecoveryCode`,
`VerifyAdminCredentials`) is one step. A failed proof writes the limiter and commits,
as the code does. `PersistState` stores whole seconds: a tick is a part of a second, of
which there are `Segundo`. The operations of the directory are those of `Usuarios`
(`Diretorio`), done by the session. `erros` and `usos` are history variables.

`Producao` keeps in `livro` the facts committed to the eight operational tables, so
that a copy (`arquivos`) is the set it held, and whole or cut off. `tela` is the
operation in the thread of Tk and the step it is at: a preparation is its first
transaction, the copy (begun and ended, the others may commit between), and the
deletion after the check is done again. `leitor` holds the codes read and the look-ups
under way: a code is read while a drawer is open (`HandleGtin`), its look-up begins from a
timer (`StartNextScan`), by then perhaps with the drawer closed, and its thread commits a
row to the audit log whenever it ends (`LookupExternal`), behind the screen of the
administrator or after a logout as well. `operario`, `fila` and `enfileirados` are the
worker of closings, step by step as in `FilaDuravel`; the worker that prints commits
in one step (`Imprime`). `caixas` is indexed by the id, and the sequence is emptied by
the preparation, so ids start again; the number of an opening never repeats.
`TelaFalha` is an operation that raises, `FalhaBanco` the end of the worker's thread,
`Queda` that of the process.

`Balcao` has one action for each event that the loop of Tk may deliver: a code read
(`HandleGtin`), the timer of the reader (`Resume`), the poll of the answers
(`PollScanResults`, which adds a line, opens a dialog or drops the answer), each
button and shortcut, and each way to answer a dialog. `LookUp` is the thread. `fila`
is `ScanQueue` with its generation, `inflight` and `ocupado` the fields
`_scan_inflight` and `_busy`, `agendado` whether the timer is set, `ultima` the last
sale of the session and whether it was cancelled, `canceladas` what the database
holds as cancelled. `dialogos` holds every `BaseDialog` that exists with what it was
opened for, and `foco` the one with the grab: a dialog takes it 10 ms after it is
built (`FinishOpen`), and when it goes the one below does not get it back
(`SemFoco`). While nobody has it, the screen behind receives events (`Alcanca`). What
a look-up finds (`Produto`) is the kinds that `_dispatch_scan_result` tells apart.
A confirmation that raises after the sale was written (`ConfirmPaymentFails`) leaves the dialog open with
its key. The second copy of a receipt only queues a row, which is
`QueueReceiptCopy` of `PDV`, and is no action of the screen.

`Atualizacao` follows one state file; an installation without one starts from the defaults
of `load`, which are the initial state. `estado` holds its phase, the current
release, the target, the release of the bundle and of the stored offer, the
attempts and the error code; a release stands for its version, sequence and schema.
`tarefa` is where the holder of `_update_lock` is (the monitor or the task of the
administrator), `programa` where the process is between `main` and its end. Each
write of the state file is an action of its own, since a crash may fall between any
two: `CheckNow`, `Download`, `DownloadFinished` for the monitor, `Preparar`,
`Copiar`, `Agendar` for the administrator, and for the start `MigrarPendente`, one
action for each branch of `resume_pending_update`, and `Abrir` (`PDVService`). The
screen that waits for the task is `aguarda`: leaving the administration destroys it,
and with it the call that ends the program. Velopack and the person who runs an
installer are external: they replace the release while the program does not run.
`MigrationManager.migrate` is one step that succeeds or fails (`Partida` has its
steps). The drawer is one flag, opened and closed from the screen of sales. `copias`,
`reagendadas` and `conferidas` are history variables. Left out: the clock of the
periodic check, the share of installations that get a release (an offer may always be
absent), the contents of bundles (a bundle may always be found damaged).

`Partida` has one record per process (`proc`) with the step between `main` and the
open window it is at and the schema of its program, so that programs of several
releases are started on one database. `Reserva` to `Limpar` are
`bootstrap_database_from_catalog`, each step of which works or raises, in the order of
`Roteiro`; a check of the new file passes only if it holds the catalogue, as its digest
says. The reservation is a file (`reserva`), left behind by a death, by a descriptor that does
not close (`Reserva`) or by a removal that fails without a word (`Limpar`); `Inspecionar`,
`BackupTo`, `Aplicar` are `MigrationManager.migrate`, whose version is read once
without a lock and again inside the transaction. `banco` keeps of the database its
schema, whether the catalogue is whole, the state of the installation, the users, the
open drawers and a count of writes, which is what a copy is compared by. Of the nine
migrations the model keeps what depends on the data: the seventh derives the state of
the installation from the users, the ninth refuses two open drawers. `Queda` frees the
lock, as the system does, and leaves the files.

## Runs

| Run | Expect | Shows |
|---|---|---|
| `pdv_caixa` | pass | the drawer: one open, closings stay true, keys used once, exceptions authorized, refinement of `Gaveta` |
| `pdv_estoque` | pass | stock conserved under the editor, one cancellation per sale, price in force |
| `fila_impressao` | pass | the queue: coherent, one output per job, every request attempted |
| `autenticacao` | pass | attempts limited and blocks untouched under late clocks, codes used once, the session's account active, the directory under sessions |
| `balcao` | pass | readings stay with their sale, one sale per payment, dialogs and cancellations of the session, the reader catches up |
| `producao` | pass | no record of the business erased without a copy, a closing's copy holds it, real sales stay |
| `atualizacao` | pass | the start opens whole, own schema, copy first, bounded retries |
| `partida` | pass | the catalogue published whole, the mark of the installation right, no migration without a copy |
| `pdv_valor` | violation | the expected amount of an open drawer may become negative |
| `fila_aviso` | violation | a retry may leave a pending row nobody will take |
| `atualizacao_caixa` | violation | an update may be installed with the drawer open |
| `balcao_pagamento` | violation | two payments opened over one cart sell it twice |

The properties are invariants except `ImplementaGaveta` (the refinement),
`EstoqueConciliado`, `PrecoVigente`, `BloqueioIntocado`, `DiretorioSoPorAdmin`,
`VendaRealPermanece` and `MigraComCopia` (what a step may do), and
`SolicitacaoAtendida` and `LeitorEscoa` (liveness).

### Bounds

The number of rows of each table of `PDV` is bounded in the guards that append
(`MaxCaixas`, `MaxVendas`, `MaxMovimentos`, `MaxVias`) and adjusted stock by
`MaxEstoque`. Two openings let a drawer's rows be confused with another's; two
sales with two keys give every pattern of repetition; two lines of one product
against a stock of two units give the exact limit; manual lines of 30.00 stand
on both sides of the limit of 50.00. `pdv_caixa` has one weighed product beside the
manual lines, because its subject is money; `pdv_estoque` has one product because
what interleaves is its editor, its sales and its cancellations.

`FilaDuravel` has two jobs, so that one waits behind the other, two callers at once
for a job, two attempts and two failures (a dead thread and then the end of the
process, or two ends of the process).

`autenticacao` has two administrators, one there from the start and one the other may
create, and tries wrong passwords and codes on the first (`Alvos`): limiters of two
accounts never meet. Two failures block (`Limiar`), so that the property speaks of
four; a second has two ticks, a window and a block four, a block of recovery six, and a
call waits one tick for the lock. With four ticks in all (`MaxTempo`) windows expire, whole
seconds are lost and calls read the clock on either side of a block; the theorem
has no bound on time. Two calls in flight are the least that race; two codes tell a
spent one from the one in force.

`balcao` has one code, a queue that holds one besides the one looked up, two readings,
two lines, one payment and two sessions; two dialogs may exist at once, the second of
a kind in `Juntos`, which names those that follow from the first or contend with it
(approvals over the item they price, and the payment).
Any second dialog of another kind would only be answered in either order.
`balcao_pagamento` has two payments instead.

`producao` has two openings (an id used again), two requests in all among sales, codes
read, closings asked for again, copies and maintenance by hand (`MaxPedidos`; each is one
more fact committed at some moment, and two of them are the least that meet), three
files and one end of the process.

`Atualizacao` has four releases: the one installed, a newer one with the same schema,
one with a new schema, and one that shares its number, so that mismatch and
equivocation occur; people may install the first, the second and the last by hand,
also backwards. `MaxTentativas` bounds the attempts an administrator may start and
lies above the limit of three of the code.

`partida` has two processes of programs of schemas 8 and 9 on no database or on one of
schema 6 (before the mark of the installation) or 8, with or without users, with up to
two open drawers, two writes that a copy may miss, two codes shown and two deaths.

Deadlock is not checked where the system may stop: a closed shop at its bounds, a
queue with nothing to do, a point of sale that refuses to start, a screen after the
last session.

### Fairness

In `FilaDuravel` the thread goes on while it lives (`WF_vars(Trabalho)`; its
`Queue.get`, its transactions with a busy timeout and the print, which has a time-out
of its own, all end) and a caller that committed goes on to `enqueue`, its next
statement. In `Balcao` (`Justica`) the loop of Tk runs the timers that are set and the
poll of the answers, and the threads that look up codes end, since their network
calls have time limits. No user is fair: nobody is obliged to sell, retry, answer a
dialog, close the program or open it again. The liveness properties therefore speak
of the states in which the thread lives, or no dialog is in the way for good.

## What the violations say

Each runs one property that states what the design documents or a comment say, and
TLC finds the code doing otherwise; the sources and the sentences are in
`PROJECT.json`.

1. `ValorVisivel` (`pdv_valor`): a withdrawal is compared with nothing, and a cash
   sale may be cancelled after its money left. `_expected_amount` then passes a
   negative sum to `money()`, which raises: neither the summary nor the closing works
   until a supply covers the difference.
2. `PendenteNaFila` (`fila_aviso`): worker records the outcome; somebody retries and
   commits PENDENTE; `enqueue` finds the id still in `_queued` and drops it; the
   `finally` clause removes the id. The row waits for the next start. The retry is
   `DesktopController.retry_print`, which no screen calls at this commit: the
   controller offers it, the counter does not.
3. `AplicaComCaixaFechado` (`atualizacao_caixa`): `prepare_apply` asks whether the
   drawer is closed, then copies the database in a thread. Meanwhile the person may go
   back to the screen of sales and open the drawer; the update is scheduled all the
   same, and is installed when the program ends.
4. `CarrinhoVendidoUmaVez` (`balcao_pagamento`): the key that makes a confirmation
   count once is drawn when the payment dialog opens. Two dialogs opened over one cart,
   the second before the first took the grab or after an inner dialog let it
   go, have two keys, and each sells the cart.

How far each still holds is proved (the table at the end of Proofs).

Some statements stand in the modules, after the properties the runs check, that the
code does not meet either and that no run repeats. Each is seen by adding its name to
a copy of the configuration:

| Statement | Module, configuration | What happens |
|---|---|---|
| `CancelamentoRepoeBaixa` (as PROPERTY) | `MCPDV`, `PDV_estoque.cfg` | `cancel_sale` restores the products controlled when it runs; `finalize` took from those controlled when it ran |
| `RepeticaoAceita` (as INVARIANT) | `MCPDV`, `PDV_caixa.cfg` with `ChavesVenda = {k1}` | `finalize` checks the drawer, the catalogue and the authorization as they are now before it looks for the key, so a repetition after the closing is refused |
| `AbreConferida` (as INVARIANT) | `MCAtualizacao`, `Atualizacao_caixa.cfg` | an update given up after its third attempt and then installed by what an earlier one had scheduled is taken for an installation by hand and opens unchecked |
| `RecusaTemDono` (as INVARIANT) | `MCPartida`, `Partida.cfg` | a process that dies between `catalog_bootstrap.py:146` and `:214`, whose descriptor does not close or whose removal of the file fails (`:213-216` swallow the error), leaves `.bootstrap.lock`, and every later start without a database is told that another one is under way |
| `ApagadoTemCopia` (as INVARIANT) | `MCProducao`, `Producao.cfg` | a look-up begun with the drawer open ends between the copy of the preparation (`production.py:88`) and its deletion (`:98`): its row in the audit log (`products.py:256`, `:308`) is erased and is not in the copy |
| `FichaDaVenda` (as INVARIANT) | `MCBalcao`, `Balcao.cfg` | a dialog opened for one sale and answered after another payment emptied the cart puts its line in the next one |
| `CancelaAPedida` (as PROPERTY) | `MCBalcao`, `Balcao_pagamento.cfg` | the cancellation cancels whichever sale is the last when it is answered |
| `FechaSemCarrinho` (as PROPERTY) | `MCBalcao`, `Balcao_pagamento.cfg` | a line enters the cart while the closing of the drawer is being answered: a reading in flight, or a product picked before the dialog takes the grab |

## Proofs

TLAPS proves, for all values of the constants that meet the named assumptions:

- `UsuariosProofs`: type correctness, `AdminDisponivel` and
  `DiretorioSoPorAdmin`. `set_user_active` counts active administrators, also
  those who owe a password change, so the count alone is not inductive. The
  argument is who acts: the administrator who deactivates or resets another
  remains able to act, and nothing else takes that ability away.
- `AutenticacaoProofs`: types; that `Autenticacao` implements `Usuarios` through its
  variable `usuarios`, whence the two properties of the directory; `BloqueioIntocado`,
  `CodigoUnicoUso`, `SessaoAtiva`, `LimiteDeTentativas`. `EmOrdem` says that
  a limiter that has counted to the threshold blocks. `CodigosGastos` says that the codes used are below the one in
  force. `Historico` ties the limiter to the wrong passwords in `erros`: the
  failures it counts are the last ones, the first of them compared no later than the
  start of the window, and the last no later than a block before its end, each but for
  the second lost in storing and the wait for the lock (`Folga`).
- `PDVProofs`: `SubtotalArredondado` on the rounding of a line; `TypeOK` with its
  foreign keys, by one lemma per action; that `PDV` implements `Usuarios` through
  its variable `usuarios`, whence `AdminDisponivel` again. Then, by lemmas that say
  what `Next` may do to one table (`Efeito`: rows are appended or their status
  changes once), `CaixaUnico`, `ConfirmacaoUnica`, `CancelamentoUnico`,
  `ExcecaoAutorizada`, `FechamentoConsolidado` and `PrecoVigente`. For
  `FechamentoConsolidado` the expected amount of a closed drawer is unchanged because
  the sets of its movements and standing cash sales are. For `ConfirmacaoUnica` the
  receipts need the strengthening that an original receipt carries the key of its
  sale.
- `PDVProofs`, the sums: what a drawer should hold and what the sales took are
  `SumFunction`s over finite sets of rows. The laws a reader expects (a sum of
  integers is an integer, a new index adds its term, a changed term changes the sum by
  the difference) are proved here: `HaParciais` shows that a function of partial sums
  exists by taking a smallest set without one (`MenorParte`: strict inclusion of finite
  sets is well-founded), which replaces the induction the prover lacks, and
  `QualquerTermo` that the term taken out first does not matter. From them
  `EstoqueConciliado`, and the refinement `ImplementaGaveta`: only the last drawer may
  be open (`UltimaAberta`), so a step that opens one is a step of the abstract drawer
  after a closed one, and each transaction changes one term of one sum or none.
- `FilaProofs`: the types, `FilaCoerente`, and `SaidaUnica` through `Registro`,
  which follows a success from the work to the row: a job whose work has succeeded more
  often than it was interrupted is done or is being recorded as such. `FilaPedidoNovo`
  is below.
- `ProducaoProofs`: the types, `RegistrosTemCopia`, `CopiaContemFechamento`,
  `CopiaAuditada`, `VendaRealPermanece`. Their conjunction is inductive with six
  parts: `Fechamentos` (a closed drawer's closing is in the books), `Maos` and
  `Copiado` (the worker copies for a drawer still pending, and the copy it made has that
  closing), `EmCurso` and `TelaCopiada` (who copies writes a file of its own, whole once
  it is done), `Preparando` (from the first check of a preparation to its deletion its
  conditions hold, and its copy has all that is in the books but rows of look-ups). The
  last is why the window between copy and deletion costs no record of the business: the two
  workers commit only for pending rows, which refuse the preparation, and only the thread of Tk, which is
  busy with it, makes new ones. A look-up has no such row, and can still commit.
- `BalcaoProofs`: the types, `FilaCoerente`, `LeituraDaVenda`, `DialogoDaSessao`,
  `PedidoUnico`, `UltimaDaSessao`. Lemmas say what one step may do to the reader,
  the cart, the dialogs and the books. `Registradas` says that a sale carries the key
  of its payment, and no two the same; `Chaves` that a payment dialog that can still be confirmed holds a
  key no other has, that keys drawn are below the counter, and that a key that
  sold did so in the session of its dialog, whence the last sale is of the session.
- `AtualizacaoProofs`: `TypeOK`, `AbreInteiro`, `EsquemaProprio`,
  `CopiaAntesDeAplicar`, `RetentativasLimitadas`. None is inductive alone: `Etapas`
  says what each step of the task and of the start knows of the state file (a copy
  is made in phase PREPARING, a bundle is scheduled in APPLY_PENDING and is the
  bundle of the target, a health check runs the target), and `Contagem` that the
  attempts written are ahead of the starts that used them.
- `PartidaProofs`: the types, `UmaInstancia`, `PublicadoInteiro`, `InstalacaoCoerente`
  and `MigraComCopia`, for any number of processes. At most one process is past the
  acquisition of the lock (`Exclusao`), so what its step knows (`Sabido`: the new file
  it checks and publishes has the whole catalogue, the database exists once it may
  migrate, a copy of exactly what the database holds exists when it applies, and the
  code it shows is the last one recorded) stays true while the others start, are
  refused and die. `BancoCoerente` ties the mark of the installation to the
  users of the database for every schema on the way.

Where a documented statement fails, the proofs say how far it still holds:

| Theorem | Delimits | Says |
|---|---|---|
| `PDVValorSemSangria` | `ValorVisivel` | a drawer nothing was withdrawn from can always be counted |
| `PDVCancelamentoRepoe` | `CancelamentoRepoeBaixa` | while no edit turns stock control on or off, a cancellation restores what its sale took; deletions and new prices do not matter, because what a sale names is never erased (`BaixaVigente`) |
| `FilaPedidoNovo` | `PendenteNaFila` | while the thread lives, a pending job that was never tried is in the queue, in its hand or about to be put there: only a retry can be forgotten. It is the safety half of `SolicitacaoAtendida` |
| `EsperaComCaixaFechado` | `AplicaComCaixaFechado` | who waits for the update on its screen has the drawer closed: the drawer is opened by who left that screen |
| `AbreConferidaSeFirme` | `AbreConferida` | where nobody installs by hand, a release opens unchecked only if the state file no longer knew of the bundle that was scheduled |
| `PagamentoUnicoVendeUmaVez` | `CarrinhoVendidoUmaVez` | with at most one payment open at a time and no confirmation that fails after its sale was written, no line is sold twice (`VendidasFora`: what was sold is neither in the cart nor in a payment under way) |
| `FichaSemPagamento` | `FichaDaVenda` | where no payment is confirmed while the dialog of an item, or its approval, is open, a line put in the cart by a dialog is of the sale that dialog was opened for (`Fichado`: dialogs and lines carry the generation of the queue) |
| `CancelaDaSessao` | `CancelaAPedida` | the sale cancelled may not be the one asked for, but it is one of the session that stands |
| `PreparoSemConsulta` | `ApagadoTemCopia` | where no look-up is under way when a preparation is asked for, all it erased is in its copy: none can start before it is done (`Calado`) |
| `PartidaRecusaTemDono` | `RecusaTemDono` | where no process dies in its bootstrap, the descriptor of the reservation closes and its file is removed when asked to be, nobody is refused at all |

All but `FilaPedidoNovo`, `EsperaComCaixaFechado` and `CancelaDaSessao` have a
hypothesis that the code does not ensure: it is what would have to be ensured, and the
theorem says that nothing else would.

The assumptions are the `ASSUME`s of the modules: shapes of the constants, an
administrator among the initial accounts, `Nulo` not a person or a key, carts whose
catalogue items name products, positive times of the limiter. Nothing is assumed of a
sum.

Only model-checked: `SolicitacaoAtendida` and `LeitorEscoa` (liveness under fairness,
which the prover does not reach), `RepeticaoAceita` (`ENABLED`), and the violations.

## Plan

1. Done: `Usuarios`, `Checkout`, `PDV`, `Gaveta`, `FilaDuravel` and their proofs.
2. Done: `Atualizacao`, the online update, and its proofs.
3. Done: `Autenticacao`, the limiter and the session, and its proofs.
4. Done: `Producao`, copies and preparation, and its proofs.
5. Done: `Balcao`, the counter screen, and its proofs.
6. Done: `Partida`, lock, bootstrap, migrations and first administrator, and its
   proofs.
7. Done: the sums of the books, `EstoqueConciliado`, the refinement of `Gaveta`, and
   theorems that delimit most of the statements that fail.
8. To do: the same for `FechaSemCarrinho`, and more of the dialogs of `ui/dialogs.py`.

## Not modelled

- The administration screen (`AdminView`, its forms and reports): it calls the
  operations that `PDV`, `Autenticacao`, `Producao` and `Atualizacao` model, one at a
  time in the thread of Tk. That a form was filled before another sale changed the
  stock is not in the model; `UpdateProduct` takes any stock, which covers its writes.
- The look-up of external product bases and `cache_gtin`: HTTP clients; their outcome
  is the choice of what a look-up finds in `Balcao`, and whether it leaves a row in the
  audit log in `Producao`.
- Receipt formatting, IPP and the transport to the printer: a print succeeds or fails.
- PIX encoding and password hashing: functions without state; a password is right or
  wrong.
- The TUF and Velopack adapters: thin layers over external libraries, whose outcomes
  are choices in `Atualizacao`.
- Reports and queries: they read and write nothing.
- Settings files, theme and layout, the installer and the release tools.
- Binary floating point: amounts and quantities are stored as `REAL`, and the residues
  of that are outside integer models.
