# nest-backend-v3: a verification project

This directory holds TLA+ models of a property-management backend (NestJS,
Mongoose, MongoDB): the accounting ledger and everything that writes to it or to
the balances it moves; the components beside it that keep documents, files or
mails of their own; the scripts that migrate the legacy database; and the
calculations, lists and searches that people read. The modules are checked with
TLC on small instances. The main invariants of the ledger, of receipts,
reconciliation, contracts and utility bills, of seven of the components that keep
records (cash box, inventory, mailbox, indexes, settings, codes, the scan of the bank's
notices) and of the migration of the master data are also proved with TLAPS, for every
number of documents, requests and failures.

Paths of the form `accounting-entries.service.ts:1144` are under
`src/src/modules/`; `doc/...` is `src/doc/...`; `migracion/...` is
`src/migracion/...`. `PROJECT.json` maps every definition to the lines it stands
for.

## 1. The system

One Node process serves HTTP requests and runs a few cron jobs. It is single
threaded: between two `await`s a handler runs alone, and at every `await` any
other handler may run. Almost every handler has the same shape: read a document
(`findById`), check and compute on the copy in memory, then write some documents
one after the other, with no transaction and no condition on what was read.
That shape is where the difficulties are, and it is what the models keep:

- a copy that is stale when it is saved (Mongoose's `save()` sets the changed
  paths only, and matches no version when the last change is a `$push`);
- a check made before an `await` and relied on after it;
- two or three writes of one operation, of which the first may stand alone
  after an error or a restart;
- one object in the memory of the process (the entry builder, the cache of
  accounts, the flag of the scan) that several requests use at once;
- one MongoDB session (receipts) around calls that do not receive it.

### Components

| component | state | operations | what makes it correct |
|---|---|---|---|
| Ledger, `accounting-entries` | entries with DEBE/HABER partidas, what was paid and liquidated of each, a derived state, `historial_cambios` | create, registerPayment, anularAsiento, condonarDeuda, liquidarAPropietario, mark*, deleteManyByContractId | no partida is imputed beyond its amount; every credit is recorded in the history; the states mean what they say |
| Financial accounts | balance of each cash box or bank | updateBalance (INGRESO, EGRESO: atomic `$inc`; SET) | the balance is what the histories add up to |
| Receipts, `receipts`, `sequence` | receipts, transactions, a counter | createReceipt: number, imputations through the ledger, then receipt, transaction and pending invoices in one session | unique numbers; a receipt says what was really imputed and moved |
| Cash box, `cash-box` | movements (openings, partial and final closures), adjustment entries | createOpening, createPartialClosure, createFinalClosure | one opening at a time; each discrepancy has its entry; the balance can be explained |
| Bank reconciliation, `banking-sync` | movements read from bank mails, candidates, transactions | create, generateCandidates, updateCandidateStatus, confirmConciliation | a reconciled movement has one matching transaction, reconciled too; a confirmation is not half done |
| Entry factory and builder | one builder and one cache of accounts for the whole process | createMonthlyRentEntry, createDepositEntry, createHonorariosEntry, build | entries balance and hold the partidas of one call |
| Contracts, `contracts`, `contract-settings` | contracts with status and milestones | create, update (activation generates the entries), deleteWithEntries | an activation charges and credits exactly the terms, once |
| Properties | status and current contract of each property | update | a property under contract is not offered as free |
| Utility bills, `service-sync`, `detected-expenses`, part of the ledger | communications, expenses with their proposal, entries, a flag | scanEmails, generateCandidates, processDetectedUtilityInvoices, processDetectedExpenseToEntry, updates by operators | a bill is charged once, is shared out in full, and no mail is forgotten |
| Inventory, `shared/inventory` | the inventory of a property and its numbered versions, in two collections | versions created, edited, copied, removed, made current | no version is lost to its inventory; the current one exists |
| Property files | lists of images, plans and documents, a satellite image, files on disk | upload, order, cover, removal, calibration | one cover; the document and the disk agree |
| Mail synchronisation and inbox | messages with a status, the date of the last synchronisation | the fetch with a callback per mail; statuses one by one and in batches | no mail is left behind; a status is the one asked for |
| Index values | a series of dated values per index | the daily update from the last date stored; look-ups by date | no gaps; the value of a date never changes |
| Contract settings | one document of defaults, with a list of contract types | initialise, update, override of a type, reset | the settings are what was last asked for |
| OTP verification | codes with an expiry, a count of attempts and a mark | validateIdentity, verifyOtp | one code at a time, tried three times at most and used once |
| RedLink scan | a flag, bank movements | the scan of a day, the parsing of a notice | every notice found is registered once, saying what the bank said |
| Migration, `contracts-migration` and `migracion/scripts` | the collections of the new database, by legacy `_id` | agents, properties, contracts, inventories, entries, receipts, payments, links, resets | references whole, no month charged twice, every imputation backed by a transaction, whatever was run, cut or run again |
| Reports, dashboard, lists, searches, the bot | none | statements, financial reports, dashboard, previews, filters, pages | they say what the documents say |
| Users, authentication, catalogues, PDF and mail output | plain records or none | create, list, edit, remove | no protocol of their own: not modelled |

### How they interact

- Receipts, transactions and the pages of an agent's account call the ledger;
  the ledger calls `updateBalance` **before** it saves the entry.
- The activation of a contract calls the factory once per entry; the factory
  asks the chart of accounts for each code and drives the shared builder; each
  entry built is then created in the ledger.
- The creation of a contract writes the property it takes.
- The cash box reads and sets the very balance that the ledger increments.
- Reconciliation reads the transactions that receipts create.
- A scan creates communications and hands each to the classification, which
  creates an expense and calls the ledger for its proposal; an operator's
  confirmation turns the proposal into an entry.
- The bot verifies a user's identity with the codes, and answers from properties
  and agents.
- The scan of the bank's notices creates the movements that reconciliation reads;
  what it does to them ends there.
- The generation of the migrated entries is an endpoint of the server, called by
  a script that may stop waiting for its answer while the server goes on.
- Inventory, property files, mailbox, indexes, settings and codes share no
  document with each other or with the ledger.

### What is hard

`PROJECT.json` lists each hazard at its line. In short: stale copies saved over
newer documents (ledger, cash box, operators' updates); checks separated from the
write they guard (activation, opening, classification, candidates); imputations
and balances outside of the transaction that is aborted (receipts); chains of
writes cut midway (confirmation of a candidate, closure, generation of entries,
classification); the shared builder; a mail seen several times or parsed after
the fetch ended; rounding of shares; and work that nothing takes up again after
an error (a communication left UNPROCESSED, a scan that hangs with its flag up).

## 2. The modules

| module | models | composed with |
|---|---|---|
| `Asiento` | an entry as a document and what the handlers compute on it; `GuardarSobre` is Mongoose's `save()` | |
| `AccountingEntries` | the ledger and its cash account | EXTENDS `Asiento` |
| `Receipts` | createReceipt over the ledger: request `r` of a receipt is request `r` of the ledger, whose actions it runs | EXTENDS `AccountingEntries` |
| `CashBox` | openings and closures; the ledger appears as `UpdateBalance` | |
| `BankingSync` | movements, candidates, confirmations | |
| `EntryBuilder` | the builder, the factory's methods and the cache of accounts, as calls in progress | |
| `Contracts` | contracts and properties; an activation makes the builder's calls | EXTENDS `EntryBuilder` |
| `ServicePipeline` | scan, classification, proposal, confirmation | |
| `LibroContable` | abstract specification: a request moves the balance for one entry and holds the amount until it is written, once, in that entry's history, or is lost with the request or the entry | |
| `LedgerViews` | the statement of an agent, the list of pending entries and the credits to liquidate, against the ledger; the ledger against `LibroContable` under a refinement mapping | EXTENDS `AccountingEntries`; INSTANCE `LibroContable` |
| `Peticiones` | requests to one Node process: begun, suspended, ended, dead | |
| `Inventory`, `PropertyFiles`, `MailSync`, `IndexValues`, `ContractSettings`, `OtpVerification`, `RedLinkScan` | the components of those names | EXTEND `Peticiones` |
| `MigracionMaestros` | collections as partial functions; the scripts of agents, properties, contracts, inventories | |
| `PlanMigracion` | the entries the migration generates of one contract: index, adjustments, opening, months to come, fees, deposit | |
| `MigracionAsientos` | the generation over several contracts: the service's requests, the script that calls it in batches, the one that writes by itself | EXTENDS `PlanMigracion` |
| `MigracionPagos` | the scripts of ad-hoc entries, receipts, payments, links and resets | EXTENDS `MigracionMaestros` |
| `PagosIniciales` | the preview of a contract, and the plan its activation generates | |
| `Reportes` | the financial reports; the dashboard of contracts | |
| `Cuit`, `Avisos` | the check digit of a CUIT; what a notice of the bank says | |
| `ReciboMixto` | processReceipt, line after line over several entries | EXTENDS `Asiento` |
| `Listados`, `Busquedas` | lists with their totals; pagination, searches and look-ups of clients | |
| `Calculos` | one case, the input of one calculation, and the properties over it | INSTANCEs of `PagosIniciales`, `PlanMigracion` and the modules from `Reportes` to `Busquedas` |
| `Registros` | one component that keeps records at a time | INSTANCEs of `CashBox` and of those over `Peticiones` |
| `AccountingEntriesProofs`, `ReceiptsProofs`, `BankingSyncProofs`, `ContractsProofs`, `ServicePipelineProofs`, `RegistrosProofs`, `MigracionProofs` | the theorems about those modules, with their proofs | EXTEND the modules they prove about, `TLAPS` |
| `Sumas` | facts about the sum of a function over a finite set, which the proofs about money use | EXTENDS `TLAPS` and its theorem modules |
| `MC*` | instances for TLC: templates of documents, dtos, plans, mails, records | EXTENDS the module they check |

`MCRegistros` adds the cases of `Calculos` to the components of `Registros`: its
`MCSpec` starts as one or the other, and seen through the variables of `Registros`
each of its behaviours is one of `Registros`, so that what is proved of `Spec` there
holds of the run too.

### How state and actions correspond to the code

Every module follows one convention. A variable holds a collection (a function
from identifiers, or a sequence when the code creates documents without bound).
A request in progress is a record, `local[r]`, `recibo[r]`, `gen[g]`, `op[r]`,
`pedido[r]` or `cadena[r]`, that holds exactly what the handler keeps in memory
across its awaits, and a phase that says at which await it stands. An action is
the stretch of a handler between two awaits, named after the method when it is
its first stretch (`RegisterPayment`, `CreateFinalClosure`, `ScanEmails`) and
after what it writes otherwise (`Save`, `FijarSaldo`, `MarcarProcesada`). A guard
that the code answers with an exception before writing anything disables the
action; an exception after something was written is an action of its own
(`CuentaNoEncontrada`, `ImputacionRechazada`, `GeneracionInterrumpida`, `Falla`).
A restart of the process is `Caida`, `Corte`, `Reinicio`; the modules over
`Peticiones` call the death of a request `Morir`.

`ops` and `fallas` (`muertes`) count started requests and failures and bound a
behaviour. Other variables marked *history* are read by properties only.
`solape` is the most used: it becomes TRUE when a request starts while another
is in progress. Some of what the code promises holds only until then, because
nothing protects it from a second request; a property that begins with
`~ solape =>` says exactly that, and the same run shows beside it what still
holds afterwards.

**Ledger.** A document has up to two DEBE and two HABER partidas: every shape
the factory, the utility bills and the receipts create. Money is an integer
number of units (the code uses floats; no property is about their last digit)
and `Peso` units make the tolerance of one peso within which a partida counts as
liquidated. `historial` sums up `historial_cambios`: the payments, what was
imputed and liquidated of each partida and the cash in and out. `sinRastro` is a
history variable: the cash of an entry whose history was deleted with it or never
written. The entity's state PENDIENTE_AJUSTE is reached by no operation and is
left out of `Estados`.

**Receipts.** The number is taken first and outside of the session
(`Numerar`), the entries are read (`LeerAsientos`: the operation of each line is
inferred from that read), each line runs through the ledger (`Imputacion`,
`MoverCaja`, `GuardarLinea`), and the session's writes become visible at once
(`Emitir`). An abort keeps what the lines did, and so does the death of the
request before a line is saved (`CaidaEnLinea`). A physical amount above the
imputed one always aborts: the credit entry is created without the due date that
its schema requires.

**Cash box.** `Fechar` is the construction of the movement with its timestamp and
`GuardarMovimiento` its save: the order of movements is that of timestamps, and a
later one may be stored earlier. The two sides of an adjustment entry are kept as
the code computes them. `pisado` marks that a closure's SET overwrote a balance it
had not read.

**Reconciliation.** A generation walks its movements and, for each, the
transactions found when it got to it, looking up and creating one candidate at a
time. The unique index on the pair is the branch of `CrearCandidato` that throws.
Dates are numbers (`mes * 30 + dia`), and a tolerance that arrives as text is
concatenated to the day of the month at the end of the window, as JavaScript does.

**Builder and contracts.** A code in the cache resolves in a microtask, before
any other request runs; the first look-up of a code goes to the database and lets
others in. So `Seguir` runs a call to its next uncached code or to the end. The
fees look their first code up *before* they reset the builder (`previo`). A
contract's plan (`Plan`) is the list of calls its activation makes; a deposit
without amount makes the totals NaN, which `build` lets through and the schema
refuses, so the generation stops there.

**Utility bills.** A mail is a member of `Mails`; `Aviso` says whether it has a
Message-ID, what the scan's parser finds and what the text search finds.
`FetchEmails` delivers any subset of the window's mails, because the promise
resolves at `end` while messages are still being parsed. Amounts are in cents and
`Redondeo` is `Math.round` at two decimals. An owner is never the tenant of his own
property, so the replacement of a proposed agent always happens
(`AgenteFinal`). Left out: expenses entered by hand, a PATCH that rewrites a
proposal, edition of the account mappings.

**Views of the ledger.** `LedgerViews` computes of one document what the
statement, the pending list and the pending liquidations show of it; a share of
what was collected is a fraction, counted in units of `1/Escala`, so that nothing is
rounded that the code does not round. `LibroContable` knows requests, entries and
amounts only. In the refinement its `enMano[r]` is the cash that request `r` has moved
and not yet saved, with the entry it is for; `anotado[e]` is what the history of `e`
says came in less what went out, and `perdido` the ledger's `sinRastro`.

**Records.** Each request is `op[r]`, with the step it goes on with and what it
holds. *Inventory*: the number of a version is a count, and `propertyInventory.save()`
a `$push` plus, if the copy read at the start had none, the current version.
*PropertyFiles*: a list is written whole from its copy; files are names, given once.
*MailSync*: time is in hours and IMAP's SINCE looks at the day; the margin is what the
search goes back before the last date. *IndexValues*: dates are numbers; ICL is
fetched in windows from the last date stored, the others whole; `ajena` marks the
failures and hand-made values after which the series is not the service's alone.
*ContractSettings*: the general values are `$set` one by one, the list of types
written whole; -1 stands for a type without an override. *OtpVerification*: a code is
compared after its count was saved; the records before it are marked `verified` to
put them out of use; the TTL index removes a record any time after it expired.
*RedLinkScan*: the array the callbacks push to is walked while it grows.

**Migration.** Documents are partial functions by legacy `_id`; `insertOne` over an
existing key, or over another unique value, is a duplicate. A script is a process with
the documents it has yet to write; it may die between two writes, and be started again
with its options. The service's generation deletes and creates the entries of each
contract with no transaction; script 02 stops waiting for a batch while the server
goes on. In the linker of payments the receipts of different contracts run
concurrently. In `PlanMigracion` dates are half months, so that a contract may start
and end in the middle of one.

**Calculations.** They hold no state: a behaviour is one case. Text is a sequence of
letters, each with its accent if it has one; a document or a telephone, a sequence of
digits; a notice, rows, columns and prose of labels and values. The dates of a contract
to preview are days of a calendar with its short months (`Mas` is luxon's
`plus({months})`, which stays on the last day of a month without the one asked for), and
amounts are in a unit that makes percentages whole; both sides take the dates of the
dto as instants of one clock, although the preview parses them with
`DateTime.fromISO` and the activation reads what was stored (`contracts.service.ts:708`,
616), so that a date sent without its time is, west of UTC, a day apart. An instant in a
list is in quarters of a day of UTC, and `zona` says how far west of it the server's
clock is. `Paginate` is the set of the answers that the sort allows, since the database
may order ties anew in each query.

## 3. What the runs check

Twelve runs, one per question. A run that must pass carries all the properties of
its component on one instance; a run whose name says what goes wrong must find its
property violated.

| run | instance | what it shows |
|---|---|---|
| `ledger` | 1 entry of three templates, 2 requests, amounts 1 and 3, 4 operations, 1 death | `ImputacionAcotada`: no partida beyond its amount, in the database or in a copy about to be saved. `CreditoRespaldado`: a concurrent save may lose a credit, never invent one. `ImplementaLibro`: every step is a step of `LibroContable`. `EstadoDeCuentaFiel`: what the statements show as due, collectable or payable is what the operations would do. Until requests overlap, `CreditoExacto`: credits are exactly the recorded ones; `EstadoCoherente`: COBRADO, PAGADO and CONDONADO mean what they say |
| `ledger_payment_over_debt` | 1 request | `PagosDentroDeLaDeuda` fails: once the DEBE side is collected, payments are checked against the HABER side |
| `receipts` | 2 entries, 2 requests, 7 dtos, 2 receipts, 1 failure of the session, deletions | `NumerosUnicos`; `RecibosRespaldados`: what receipts say they collected is in the entries' histories; `CobrosCuadran`: a receipt that only collects is emitted for the cash its lines moved |
| `receipt_abort_keeps_cash` | 1 request | `CajaConTransaccion` fails: the abort of the session does not undo the lines |
| `reconciliation` | 2 movements, 3 transactions (one matches both movements, one is of the other type), 2 generations, 2 operators, 3 requests, 1 death, fairness | `ConciliacionRespaldada`; `ConfirmadoSoloPorOperador` (an action property: only a request about a candidate takes its confirmation back); `ConfirmacionSeCompleta` (liveness) |
| `contracts` | 2 contracts on one property, 2 requests, 4 operations, cold cache | `AsientosBalanceados` even for mixed entries; until requests overlap, `ContratoContabilizado`: charges and credits of the tenant and the owner are the terms', once per activation; `DisponibleSinContrato` |
| `contracts_mixed_rents` | 2 activations | `EstructuraAlquiler` fails: a rent with partidas of another call |
| `services` | 2 mails, 3 and 3 properties (unset and partial percentages, one without owner), 2 requests, 3 operations, 1 failure or restart | `GastoConComunicacion`, `EscaneoExclusivo`, `AsientoContabilizado` (debits = credit, off the bill by half a cent per property at most); until requests overlap or fail, `UnGastoPorAviso` |
| `services_classified` | a mail without Message-ID of a service of no property and one of no service; scans that classify; 2 requests; fairness | `TodaComunicacionSeClasifica`: nothing a scan stored stays UNPROCESSED unless an await failed |
| `migration` | three focuses: 3 agents (two of one DNI), 2 properties, 2 contracts, 3 catalogues, 4 scripts, 1 death or failed insert; 2 generations at once of 3 started, 1 restart; the accounts, payments and receipts of a rent and a bill, 5 of 10 scripts in any order, 1 death | `MaestrosMigrados`: references, locations and inventories are whole; `PerdidasExplicadas`: an agent is missing only if it was reported or its identifier is taken; `EdicionesPreservadas` (action property): a second run never rewrites an agent or a contract that a person edited, nor moves a contract to another inventory version; its photos are replaced once, with its first version; `GeneracionFiel`: until two generations meet on a contract, its entries are the beginning of one plan, and the whole of it when reported so; `PagosRespaldados`: every imputed peso has its transaction; `RecibosMigrados`; `EstadoSostenido`: COBRADO and LIQUIDADO only of what was paid and settled |
| `registros` | one component at a time, 2 requests, 1 death or restart: the cash box (4 operations), an inventory (2 properties, 3 versions, 3 operations), property files (3 files, 4), the mailbox (2 mails, some of them already in the inbox, 3 days, 1), the indexes (4 dates, 3), the settings (4), the codes (2 codes, 5, so that the fourth attempt on a code happens), the notices (3, one repeated, one unreadable, 2 days); and some 51,000 cases of the calculations | see below |
| `inventory_current_deleted` | 1 request of the same instance | `VersionActualExiste` fails: the current version of an inventory is deleted |

The properties of `registros`:

- `MovimientosDeCaja`: closures and adjustment entries correspond, but for those of
  requests in progress or dead, and until requests overlap openings and closures
  alternate. `SaldoExplicado`: last opening + payments + adjustments, unless
  something was overwritten unread.
- `InventarioEnlazado`: a version is in its inventory or its creation is on the way
  or died. `ArchivosEnDisco`: one cover always; until an overlap or a death, every
  file named exists and nothing else is stored but what a reordering left out.
- `BandejaFiel`: a mail that the next search will not look at is in the inbox, was
  deleted, or its callback is running or failed; until an overlap, a status is the
  one last asked for.
- `SerieSinHuecos`: no series has a gap, whatever updates overlap, go unanswered or
  die, so the value of a date is the same when it is asked for again.
- `CopiasAlDia`: until an overlap, settings are what was last asked for, and one code
  at most is active, counted exactly, compared three times at most and used once;
  whatever overlaps, the count never invents a comparison.
- `AvisosRegistrados`: one scan at a time, the flag up exactly while it is on, and
  every readable notice of a complete scan registered once.
- `VistaPreviaFiel`: the preview of a contract shows the amounts that its activation
  charges and credits, and the fees and the deposit on their due dates. Rents fall due on
  the same days until a month lacks the start day; then the preview goes on from the
  shorter day, up to three days before the activation, which counts each month from the
  start. It shows one rent too many at most: never when the contract starts by day 28 and
  lasts whole months. `AperturaFiel`: the migrated opening and the months to come charge no month
  beyond the contract, and the rents follow the index.
- `InformesCoherentes`: the four financial reports agree; the dashboard's figures are
  one account; lists split by days without loss when the days are the server's (with
  dates alone only a server in UTC loses nothing: which part of the last day is lost
  elsewhere is stated) and add up what they show; a receipt of several lines answers for
  each; pages show only what was asked for, and, when the sort leaves no ties, all of it
  once; contracts, offers and clients are found. `DatosLeidos`: CUITs check, and a
  movement says what the notice said, or nothing, unless an empty cell at or before the
  amount's gave its label the value of another.

A behaviour of `registros` or `migration` moves one component (`foco`) and leaves the
others as they start. That loses nothing: no handler of one reads or writes a variable
of another, so that any behaviour of all of them, seen from one, is a behaviour of that
one alone. It avoids a product of state spaces that would say no more. `solape` and the
bounds are those of the component in focus.

Each property of a passing run has a mutant in `PROJECT.json`: a definition
changed as a plausible mistake would change it (a history record not pushed, a
counter read without increment, a flag not reset in the `finally`, percentages not
normalised, a margin forgotten, a sign dropped), under which TLC finds the property violated. The mutated definitions
stand beside the originals, marked *Mutant*.

### Why the bounds are enough

- *Two requests.* Every interleaving hazard of this code is between a handler
  that has read and one that has written since; a third adds no new kind of pair.
- *One entry* in the ledger: no handler reads two entries, and the one that writes
  several (`deleteManyByContractId`, `mark*`) treats each alone. Receipts touch
  several, and its run has two.
- *Three templates*: a rent (one debtor, two creditors), a prorated bill (two
  debtors, one of them the owner, so that a liquidation compensates), a deposit
  (credit side without agent). Amounts 1 and 3 pay a partida in part, exactly, or
  across two.
- *Three or four operations*: create, pay, liquidate and pay again on an entry;
  create, activate, take back and activate again a contract; open, pay, close and
  open again a cash box; scan, scan again and classify.
- *The mailbox* counts in days of one unit: SINCE looks at the day only, and coarser
  days look further back, so that the margin is at its tightest. A mail that is in the
  inbox from the start, with any status, stands for an earlier request about it.
- *Codes*: a code, four attempts on it, is the least that reaches the limit of
  three; two codes, that one is typed for the other.
- *Calculations*: previews of contracts that start on days 1, 15, 28, 29, 30 and 31, in a
  leap year and out of it, and end 1, 3 or 13 months later, four days before to twenty
  after, so that months of every length are crossed and the difference rounds both ways,
  with adjustments after 1, 2 or 12 months; legacy contracts of 12 and 23.5 months; index tables complete, with holes and with one value; books of
  two balanced entries over six kinds of account; up to three contracts on the
  dashboard; every selection of four to six records for lists and searches, with up
  to two criteria, and limits smaller than what is found.
- *One failure*: the code never retries or compensates, so what a second failure
  leaves is two independent remains of the first kind.

### Fairness

Safety is checked without fairness. The two liveness properties assume weak
fairness of the steps of a handler that wait for the database only
(`Confirmar(o)`, `Atender(r)`): nothing else competes for them, a started handler
runs unless its process dies, and the driver answers or throws (a throw is
`Falla`; a death, `Corte` or `Reinicio`). There is no fairness on requests, crons
or operators, none on failures, and none on `FetchEmails`, since the IMAP server
may never answer and the code has no timeout around it.

## 4. What is proved

The theorems hold for every set of documents, requests, templates, dtos and amounts,
finite or infinite unless the assumptions say otherwise, and for every bound. Each
property below is also one that a run of section 3 checks.

| module | theorem | property |
|---|---|---|
| `AccountingEntriesProofs` | `TypeCorrect`, `ImputacionSiempreAcotada`, `CreditoSiempreRespaldado` | `TypeOK`, `ImputacionAcotada`, `CreditoRespaldado` |
| | `CreditoSiempreExacto`, `EstadoSiempreCoherente` | `CreditoExacto`, `EstadoCoherente` |
| | `LedgerImplementaLibro`, `EstadoDeCuentaSiempreFiel` | `ImplementaLibro`: the refinement of `LibroContable`; `EstadoDeCuentaFiel` |
| `ReceiptsProofs` | `NumeracionSinRepetidos`; `ImputacionBajoRecibos`, `CreditoBajoRecibos` | `NumerosUnicos`; the ledger's two invariants when receipts drive it |
| | `CobrosSiempreCuadran`, `RecibosSiempreRespaldados` | `CobrosCuadran`, `RecibosRespaldados` |
| `BankingSyncProofs` | `MovimientoConciliadoRespaldado`, `ConfirmacionDelOperador` | `ConciliacionRespaldada`; `ConfirmadoSoloPorOperador` (an action property) |
| `ContractsProofs` | `AsientosSiempreBalanceados`, `LibreSinContrato`, `ContratoSiempreContabilizado` | `AsientosBalanceados`, `DisponibleSinContrato`, `ContratoContabilizado` |
| `ServicePipelineProofs` | `EnlaceSiempreDelAviso`, `EscaneoSiempreExclusivo`, `AvisoCobradoUnaVez`, `AsientoSiempreContabilizado` | `GastoConComunicacion`, `EscaneoExclusivo`, `UnGastoPorAviso`, `AsientoContabilizado` |
| `RegistrosProofs` | `AvisosSiempreRegistrados`, `CopiasSiempreAlDia`, `InventarioSiempreEnlazado`, `BandejaSiempreFiel`, `MovimientosSiempreEnRegla`, `SerieSiempreSinHuecos`, `SaldoSiempreExplicado`, `ArchivosSiempreEnDisco` | `AvisosRegistrados`, `CopiasAlDia`, `InventarioEnlazado`, `BandejaFiel`, `MovimientosDeCaja`, `SerieSinHuecos`, `SaldoExplicado`, `ArchivosEnDisco` |
| `MigracionProofs` | `MaestrosSiempreMigrados`, `PerdidasSiempreExplicadas`, `EdicionesSiemprePreservadas`, `GeneracionSiempreFiel`, `EstadoSiempreSostenido`, `RecibosSiempreMigrados`, `PagosSiempreRespaldados` | `MaestrosMigrados`, `PerdidasExplicadas`, `EdicionesPreservadas` (an action property), `GeneracionFiel`, `EstadoSostenido`, `RecibosMigrados`, `PagosRespaldados` |

Every proof has the same shape: an inductive invariant that implies the property, one
lemma for each kind of step, and a lemma that puts them together action by action.

### Assumptions

*Ledger*: there is an entry and a template; templates are documents in state PENDIENTE,
with nothing paid and both amounts equal, which is how every caller of `create` builds
them (`CuadreAssumption` for their totals); amounts of dtos are positive naturals (the dtos also admit 0, `@Min(0)`, which
moves no money). *Receipts*: a dto is a sequence of lines with natural amounts, and requests are finite in
number, because what they have in hand is added up (`RequestsAssumption`).
*Reconciliation*: an amount is natural, a tolerance one digit of days. *Contracts*:
terms are naturals, but for the deposit, which may be missing; the six accounts of an
activation are in the plan of accounts (`CuentasAssumption`; they are in
`doc/json/nest-propietasV3.chartofaccounts.json`), without which an activation stops
half made; and no landlord is the tenant of the same contract or the agency itself
(`PartesAssumption`), whose charges and credits would mix: it is so in the business, and
no code checks it. *Utility bills*: a
service that was recognised is one of `Servicios`, which lists the shares of its agents
with natural percentages.

*Records*: requests are finite in number, since their counts are compared; a notice
that repeats another is a notice; the values that stand for an absent document are no
documents; percentages, the life of a code, the window of a fetch of ICL and the last date of the
series are naturals, and the series of the IPC is one that comes whole; what is counted
in a cash box is an integer. One of them the code does not enforce: `CorreoAssumption` says that
a fetch lasts no more hours than the margin that the next search goes back, and
nothing in `syncImap` stops a fetch that lasts longer.

*Migration*: the default locality of each province is of that province, as the tables of
`02-migrate-agents.ts:145` and `02-migrate-properties.ts:168` have it (their two spellings
of a province, '6' and '06', are one); the value that stands for an absent document is
neither a number nor a property. The contracts of a generation are finite in number,
because script 03 takes them one after another, and their dates and instalments are
integers. `PagosAssumption` says what the accounting scripts find: the legacy payments are
finite in number and natural (`05-migrate-payments.ts:142` skips the others); the lines of
a receipt are natural amounts, which the linker does not check
(`03-link-payments-deterministic.ts:242` adds `entry.amount` as it comes, so a negative
line would lower what was paid under a state already reached); the entries of phase 4 are
pending, with nothing paid, and have each rent of a contract and period once.
`IdentidadesAssumption` says that they, and the entries the scripts create, have
identifiers of their own, and that no legacy account is linked to them before script 04.

### Sums

Most properties about money add up over a set. The library's sum is a fold defined by
recursion over sets, and the induction theorems of the library are out of the provers'
reach because they take an operator. `Sumas` states induction with a set in place of a
predicate (`InduccionNatural`, `InduccionFinita`, from the fact that a non-empty set of
naturals has a least element), shows that the fold of a finite set is what its
unfolding says, whichever element is taken first (`SumaDesplegada`, `SumaQuitable`), and
from there the facts that the proofs cite: `SumaVacia`, `SumaMas`, `SumaUnion`,
`SumaCambia` (one value changes), `SumaParte`, `SumaMonotona`, `SumaLineal`,
`SumaConstante`. For the payments of the migration, `SumaRestringida` adds up over a part
of the set and `SumaPorFibras` over its parts: the sum of a bag of transactions is that
of its members, each as often as it is there.

### The ledger

Neither `ImputacionAcotada` nor `CreditoRespaldado` is inductive, because `Save` merges
a copy into a document that others have changed since it was read. So

    IInv == TypeOK /\ ImputacionAcotada /\ Vigente /\ CreditoRespaldado /\ CopiaRespaldada

- `ImputacionAcotada` speaks of the copies too: a merged partida is either the
  stored one or the copy's, and both are bounded.
- `Vigente`: while a request is in progress, its copy is still about the same
  partidas as the stored entry (an entry is never created again, and no handler
  writes the amounts), so the copy's bound is the stored entry's bound.
- `CopiaRespaldada`: what a save will overwrite is backed by the history as it is
  *now* plus the change about to be pushed. Histories only grow while the entry
  lives, so this survives other saves; when the copy was read it followed from
  `CreditoRespaldado` and from the fact that each handler's change record is exactly
  the difference it made to its copy.

That last fact is the lemma of each handler (`PagoAplica`, `CondonacionAplica`,
`AnulacionAplica`, `LiquidacionAplica`); `ReparteDentroDeLoDebido` is the lemma about
the greedy distribution they share.

`CreditoExacto` and `EstadoCoherente` hold until two requests overlap:

    SInv == IInv /\ SinHistorial /\ (~ solape => Secuencial)

`Secuencial` says that one request at most is in progress, that its copy was made from
what is stored *now* (`AlDia`) and that every entry is exact and coherent. `AlDia` is
where it is delicate: an invoicing mark (`mark*`) may fall between a read and its save
without being an overlap, so the stored state may differ from the one read, but only
by a state that no handler derives. `SinHistorial` covers the creation: an identifier
not used yet has no history. `PagoCoherente`, `CondonacionCoherente` and
`LiquidacionCoherente` are the handlers' sides of it.

The refinement needs no invariant beyond `IInv` and goes step by step:
`ComenzarLibro` and `UpdateBalanceLibro` (a movement, when there is cash to move, and
`Tartamudeo`, a stutter, when not), `SaveLibro` (the movement is written), `PerderLibro`
(the request dies or finds its entry deleted), `DeleteLibro`. The mapping keeps each
request's movement apart, so that no step has to add up over requests.

`EstadoDeCuentaFiel` holds of every document that `TypeOK` admits; what is proved is
arithmetic. A share is a quotient with a remainder, so the shares of the partidas of an
agent, rounded one by one, are compared with the total through their remainders, and a
debt that the list of pending entries shows is one that `registerPayment` admits in full
(`PendienteSePaga`).

### Receipts, reconciliation, contracts, utility bills

`RInv` is `IInv` and `Numeracion`: a number in a request's hands is at most
`secuencia`, two requests hold different ones, and none holds one that was emitted.
Every step of `Receipts` that touches the ledger is a step of the ledger's `Next`, or
an abort or a death of it, so that `IInv` is preserved by the lemmas of
`AccountingEntriesProofs`.

`KInv` is about the money of the receipts. While a request has lines to do, what it says
it moved is the sum of those it has done, plus the one whose cash was written and whose
entry was not saved yet (`MovidoCuadra`): a line that fails before its cash moves leaves
both. `LineaEnMano` says that the ledger's request in progress is about the line the
receipt is in, so that what `Save` pushes to the history is that line's amount.
`Registrado` adds up over receipts: what those emitted and those in progress collected
from an entry is at most what its history recorded, because every line done was pushed
before the next one began.

`BInv`: what a movement is reconciled with was a candidate, so candidates must agree
with their movement (`CandidatosCompatibles`); they come from a generation, so what a
generation has in hand must agree too (`GeneracionCompatible`); and a request about a
candidate outlives no candidate (`OperacionSobreCandidato`).

`InvBalance` adds to `AsientosBalanceados` that what a call took from `build()` balances
(`Armados`). Nothing is asked of the builder, which may hold the partidas of two calls:
the check in `build()` is enough. `InvPropiedad` adds, until an overlap, that a request
about to write a property as free read that no contract holds it, and that a factory
call in progress belongs to a request that waits for it.

`ActivacionInv` follows an activation entry by entry, until an overlap. A request about
to ask for the k-th entry of the plan has left the entries of its contract at all the
earlier activations and the first k - 1 entries of this one (`PedidoInv`, `Van`), and a
contract that nobody is generating or deleting has whole activations only
(`ContratoInv`). While a call to the factory is in progress, the shared builder holds the
partidas of the plan's entry up to the account it waits for (`CadenaBien`); this needs
`InvPropiedad`, since a call that belonged to no request could reset the builder under
another. What `build()` returns is then the entry of the plan, which balances, and storing
it moves the sums one entry on. `Previsto` adds up the plan; that its five stretches (the
rents, the deposit and its custody, the fees of each side) come to the terms is
`PrevistoEnTotal`.

`PInv` says that links stay within what exists (`Documentos`), that what each request
holds exists and runs under the flag only if the scan called it (`Peticiones`), and,
until an overlap or a failure, `UnaPorUna`: a communication still UNPROCESSED has no
expense, but in the one step between creating it and marking the communication; and
what a request has yet to classify was not classified before.

`CuentaInv` follows the amount of a bill to its entry: the proposal of an expense shares
it out, one partida for each agent, rounded (`Justa`), and the sum of the partidas is the
haber of the entry exactly, and the amount of the bill up to half a cent per partida. The
rounding is bounded line by line and added up by `SumaMonotona`.

### Records

- `EscaneoInv`: what a scan found is in the hands of a callback, on the array or lost,
  and what was walked of the array is registered. So a complete walk registered all.
- `ConfigInv`: what a request carries, applied to the stored settings, is what was last
  asked for. `OtpInv`: a code has linked its user, or is about to, no more often than it
  was compared; a request by itself knows of its code what the record says; and every
  code but the last is out of use.
- `InventarioInv`: a version not yet listed is in the hands of its request or of a
  creation that died; an inventory that has versions has a current one, because a
  creation that read none writes one. For unique numbers, until an overlap or a
  deletion, no number is above the count of versions and the number in a request's
  hands is the count plus one.
- `CorreoInv`: a search that begins knows that what is older than its day was attended
  to, and a fetch in progress that all which had arrived before it began was. `Since`
  goes back at least the margin, and the margin covers the fetch, so the date written
  at its end loses nothing. Until an overlap, the copy in hand has the stored status.
- `CajaInv`: an adjustment entry is of one request, and then of the one movement that it
  builds; the entries that no saved movement refers to are no more than the deaths and
  the requests that hold one. For the alternation, until an overlap, the box is closed
  while an opening is in progress, and a movement being saved is the last.

- `CuentaDeCaja`: the balance, plus what the closures in progress have adjusted and not
  yet written to it (`Pendiente`, a sum over requests), is the last opening plus the
  payments and the adjustments since. It holds until a closure overwrites a movement it
  had not read (`pisado`).
- `IndicesInv`: an update that asks for the dates from one on finds those before it in
  the series, and one that inserts has in hand all that is missing up to the end of its
  window; so what is stored is at every moment the dates up to the last one, once each
  until updates overlap. The history of an index is read off a concatenation that the
  library defines by recursion: that it goes down is shown for the least index at which
  it would not, since a non-empty set of naturals has a least element
  (`WFMin` and `NatLessThanWellFounded`).
- `ArchivosInv`: a list of files, and every copy that a request makes of one, names each
  file once and has one cover at most, whatever interleaves. Until an overlap or a death,
  what is stored is what the document names, as the request in progress will leave it
  (`Previsto`, `Concuerda`), and what reorderings left out (`sueltos`): a file that is
  stored has a new name, the one that is deleted is named only in the list it is taken
  from, and a reordering writes names that the list has.

### Migration

`MInv` says what each document is, whichever script wrote it: the transformation of its
legacy document but for what people completed since (`Colecciones`), and so is what the
script in progress has yet to insert (`Pendiente`), because the catalogue does not change
and references, once valid, stay so until their collection is emptied. Versions are
numbered from 1 (`Numeradas`), so that the one just inserted is that of the property in
progress (`Inventariando`). An inventory points at a version of its own, or was cut short,
or is the one in progress (`Inventarios`). While agents are migrated, each of the legacy
ones is covered (in the new database, or its identifier is), counted as omitted or failed,
or still pending (`Repaso`); an omission of the script always has its cover, which is why
none is lost at the end. That a contract is given an inventory version once, and its
photos are replaced once at most, is `PrimeraVersion`: a contract with a version has a
property whose inventory exists, and it is not the property in progress, whose inventory
the script found missing.

`GInv` is about one contract at a time, and only until two generations overlap on it
(`PorContrato`): then one request at most has it in its list, and none while script 03
has. The entries of a contract that a request is writing are exactly those of its plan
before the next one (`Escrito`): the request counted and found none, or deleted them, and
nobody else writes them. At every other moment they are the beginning of some plan, since
a generation that is cut leaves one, and a later request without deletion refuses a
contract that has any. A success is claimed for a whole plan only: an error on an entry
leaves `tope` below its length.

The third `PInv`, of the accounting scripts, says how far the script in progress is and
what that implies (`Turno`): only the linker has tasks, and a reset that touches the
entries or the sequence has deleted the receipts before. That a state is sustained
(`Estados`) survives each script because 05 and the linker only add, and each reset
because it writes the state in the update that clears the amounts, but for 00, which
does so in two. What the linker has in hand exists (`TareasSobreAsientos`). For one rent
per period (`Periodos`), while each receipt's lines are of one contract: the tasks in
progress are of different contracts, and one about to create a rent found none of its
contract and period. Nobody else creates it meanwhile; but this needs that there was one
at most when it searched, since among several the linker takes those of its amount, or
the pending ones, and may then find none (`NadaExacto`).

`PagosRespaldados` has two halves. `RespaldoInv` says that what an entry was paid and
liquidated, plus what the script in progress has read and not yet imputed on it, is at
most what the transactions say of it (`Respaldado`): those stored, those in the script's
hands and those that the linker's tasks hold open. Every entry is so backed, but those
a death or a failed receipt cut, and those a reset is clearing. `UnaVezInv` adds that, with one run of 05 and none of the
linker, what an entry was paid and 05 has yet to pay it is at most what the legacy
accounts it stands for say (`UnaVez`), which takes that its links are to the accounts of
its contract and month (`Anotados`) and that reset 08 leaves nothing paid behind
(`Limpio08`).

### Only model-checked

- *Liveness*, under fairness: `ConfirmacionSeCompleta`, `TodaComunicacionSeClasifica`.
- *Calculations*: `VistaPreviaFiel`, `AperturaFiel`, `InformesCoherentes`, `DatosLeidos`.
  They compare folds and sequences with reference definitions, over bounded inputs: what
  a fold computes for every input takes an induction over data.

## 5. Where the code and its words differ

The four runs that end in a violation are the findings of `PROJECT.json`. Reading
the code for the models showed other differences, which the models reproduce and no
run checks:

- `anularAsiento` refuses PAGADO only, so that an entry collected in full but not
  yet liquidated (COBRADO) is annulled with its payments standing, though the message
  asks to reverse the payment first (`accounting-entries.service.ts:1264`).
- LIQUIDADO is reached with nothing collected, by a liquidation or by
  `markAsLiquidated` (`doc/CONTRACTS/09_LOGICA_PAGOS_Y_LIQUIDACION.md:13` asks for
  both sides).
- A liquidation also compensates DEBE partidas of the agent
  (`doc/ESTADO_CUENTA_API.md:129` says it never does).
- A PAGO line of a receipt is transacted for what was asked and not for what was
  moved (`receipts.service.ts:343`).
- A day tolerance that arrives in the query string moves the end of the window by
  months (`conciliation.service.ts:86`).
- Two activations of a contract at once generate its entries twice
  (`doc/CONTRACTS/03_SCHEMA_CONTRATOS.md:611`); a generation that stops midway is
  not undone or resumed (line 609); a contract can be created VIGENTE without its
  milestones (line 110); the end of a contract does not free its property
  (`properties.service.ts:173`); the months of adjustment are stored PENDIENTE
  (`doc/AGENT/plan_accion.md:51`).
- Two openings of a cash box at once are both accepted (`cash-box.service.ts:84`);
  a surplus goes to the haber of the cash account (line 198 says debit); a payment
  between the count and the SET of a closure is overwritten (line 243).
- A mail without Message-ID is stored by every scan
  (`doc/SERVICES/SERVICE_SYNC_API.md:634`); an expense is created before and whatever
  the number of properties found (line 640); an accounted expense still shows as
  ready to confirm and can be confirmed again
  (`doc/SERVICES/analisis_tecnico_flujo_servicios.md:159`); the rounding of the shares
  is lost (line 42); every share goes to the first owner found (line 46).
- Two confirmed candidates of one movement may stand, although a confirmation is said
  to reject the others (`doc/BANK_TRANSATIONS.md:315`, `conciliation.service.ts:191`);
  a communication may get several expenses (`doc/SERVICES/SERVICE_SYNC_API.md:645`,
  `classification.service.ts:164`).

*Statements and lists.*

- The default statement of an agent drops the refund of a deposit
  (`accounting-entries.service.ts:612`); `getAgentPendingLiquidation` misses COBRADO;
  accrued income and the filters lose the last day after its midnight, and so does the
  bank's list, which also reads `conciliado_sistema=false` as true.
- `getDepositosPendientes` looks for the type *Deposito en Garantia*, while the factory
  and the migration write it with a suffix: it lists none of them.
- `getMovements` totals zero when it is filtered by account (its aggregate does not
  cast the id). The financial reports filter by `fecha_asiento`, which no entry has, and
  show absolute values of liabilities in debit; the cash flow is always *balanceado*. A
  maturity label shifts when a shorter bucket is empty (`contract-reports.service.ts:272`).
- A line of `processReceipt` reports the amount asked for although the liquidation pays
  what is available, and a collection after the debt was collected still brings cash in.
- The preview leaves the deposit out of the first payments
  (`doc/CONTRACTS/05_API_VISTA_PREVIA_PAGOS.md:332`), projects beyond the end when the
  adjustment is later, and shows one rent too many for a short last month. For a start on
  day 29 to 31 its due dates stay on the day of the shortest month so far (line 832),
  while the activation comes back to the start day (line 640), and one rent more than the
  adjustment allows, or than the contract has, may be shown.
- The last day of a list of movements or receipts is said to be whole
  (`doc/MOVIMIENTOS_CAJA_BANCOS_API.md:24`, 301), but a date alone is the midnight of UTC
  and `setHours` moves it within the server's day: west of UTC most of that day is left
  out (`financial-accounts.service.ts:141`, `receipts.service.ts:510`).
- Pages of a list sorted by a field with ties, or by none, may repeat a record and miss
  another (`pagination.service.ts:219`).
- The contracts' search by address misses those whose `propiedad_id` is an ObjectId and
  its filter by type those stored as text; of two criteria on the parties or the status
  the last wins; an unknown criterion is dropped; equality on digits loses leading
  zeros; terms with accents match accented text only; `owners[fullName]` throws.
- The public list with an unknown operation and a text shows unpublished properties, and
  its default order sorts by nothing. The bot filters a city after limiting to 50, and
  its balance reads fields of the wrong level, always 0. `PropertiesService.search`
  returns fixed data.

*Records.*

- Deletion of the current version of an inventory, and a draft that becomes current by
  being copied. A reordering drops the images it does not name.
- A deleted mail comes back with the next synchronisation of the same day.
- A notice with an empty cell in two columns shifts its values, so that the amount may be
  the first digits of an account, a CUIT or a date (`redlink-scan.service.ts:418`); an
  amount with dots only is misread; an error of the connection after the fetch settled leaves `isScanning` set.
- On the last days of a long month the look-up of the IPC stays in the same month.
- The types of contract without an override fall back on rules of their own before the
  general value (`contract-settings.service.ts:177`; its schema, line 68, says the general
  one).
- A code put out of use is marked `verified`, so the mark says nothing of an identity; two
  requests at once leave two codes active, or share an attempt; a code whose mail
  failed stays active (`otp.service.ts:125`, 218, 168).

*Migration.*

- `FULL_HISTORY` is off by one index period (`contracts-migration.service.ts:705`,
  `doc/CONTRACTS/02_ESTADO_ACTUAL_MIGRACION.md:186`), future entries are not adjusted, and
  rents accrue beyond the end of a contract already over.
- Reset 08 announces that scripts 04, 05 and 07 may run again
  (`migracion/scripts/fase-6-verificacion/08-reset-links-payments.ts:98`) but leaves `monto_liquidado` as it was; the guides give
  different orders (`GUIA_MIGRACION_DEFINITIVA.md:106`, `fase-5-pagos/README.md:195`);
  the sequences have two shapes; the inventories script replaces the photos that people
  had uploaded to a contract
  (`migracion/scripts/fase-3.5-inventarios/02-migrate-inventories.ts:132`); the contract in force of a property may dangle; a
  province without a city gets Rawson.
- `processContract` counts and then creates, so that two generations at once duplicate;
  `migratePropertiesFromLegacy` with deletion empties the properties and inserts none.

## 6. What is not modelled, and why

Users, authentication and catalogues are records looked up by id and edited alone. PDF,
mail and WhatsApp output, maps and language processing are I/O. `expenses.service.ts`
always throws before it writes. The periodic tasks are placeholders. AFIP is a stub that
returns one number, and `issueInvoice` looks at nothing before it calls it, so there is
no protocol to model yet. Replies, tags and assignments of messages write one field each.
The parsing of utility mails is abstracted to its result. System administration, seeds,
and the archived copies of the migration under `src/scripts` are run once and by hand.
Details are in the notes of `PROJECT.json`'s components.

Smaller branches that the models leave out, none of which a property turns on:

- *Contracts*. The fees of the landlord and of the tenant have percentages and instalments
  of their own (`contracts.service.ts:529`-562); the plan of `Contracts` has one fee for
  both (`PagosIniciales` has the two). A deposit without amount stops the generation; the
  code resets the builder and adds a line before it fails (`factory.ts:140`-149), the model
  leaves the builder as it was. The builder's refusal of a negative line
  (`builder.ts:87`, 114) is never met, since amounts are naturals.
- *Linking of payments*. Of `findExactAccountingEntry` the rents with their period are
  modelled; its branches for fees, deposits and rents without period
  (`03-link-payments-deterministic.ts:85`-105) only narrow the search further. Script 04
  recognises every type that says *Alquiler*, fees and deposits, by the month of
  `fecha_imputacion` (`04-link-contractual-entries.ts:140`-176); the model links monthly rents by
  their period. After reset 08 the entries count as cut, so that what it leaves in
  `monto_liquidado` is not held against them.
- *Editions between scripts* leave the fiscal identifier as it was.
- *Notices*. The patterns over the whole text are applied to the prose only, but for the
  amount, whose "$" is looked for everywhere.

## 7. Plan

Modules are parameterised by constants with named assumptions, have one action per
stretch of a handler and no RECURSIVE operator, so that each can be proved about.

What is left to model, by weight: `transactions.liquidate` with a death between its two
writes (its second one is `MarkAsLiquidated`, which the ledger already allows at any
time); expenses entered by hand and rewritten proposals; the edition of financial
accounts, which may write a balance; deaths in `deleteWithEntries`.

What is left to prove: nothing that the runs check, but liveness and the calculations.
