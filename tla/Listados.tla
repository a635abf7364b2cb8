------------------------------ MODULE Listados ------------------------------
(***************************************************************************)
(* Lists of records between two dates, with their totals: movements of the *)
(* cash accounts, receipts of an agent, movements of the bank, entries of  *)
(* the ledger, and the deposits to return.  An instant is counted in       *)
(* quarters of a day from a midnight of UTC; a record has its fecha and    *)
(* only the fields that its list reads.                                    *)
(***************************************************************************)
EXTENDS Integers, FiniteSetsExt, SequencesExt

CONSTANT SinFiltro   \* a parameter that the query does not carry

(* new Date(texto): a date alone is the midnight of UTC that begins it.     *)
Dia == 4
SoloFecha(dia) == Dia * dia

(* setHours(23, 59, 59, 999): the last instant of the day in which the      *)
(* server's clock, zona quarters of a day west of UTC, finds t.             *)
SetHours(t, zona) == Dia * ((t - zona) \div Dia + 1) + zona - 1

(* fecha_desde .. fecha_hasta as the lists of movements and receipts read   *)
(* them, and as the other lists do: up to the instant itself.               *)
EntreDias(r, q) ==
  /\ q.desde # SinFiltro => r.fecha >= q.desde
  /\ q.hasta # SinFiltro => r.fecha <= SetHours(q.hasta, q.zona)
EntreInstantes(r, q) ==
  /\ q.desde # SinFiltro => r.fecha >= q.desde
  /\ q.hasta # SinFiltro => r.fecha <= q.hasta

Pide(q, campo, r) == q[campo] # SinFiltro => r[campo] = q[campo]
Donde(rs, P(_)) == {i \in DOMAIN rs : P(rs[i])}
SumaDe(rs, S, F(_)) == MapThenSumSet(LAMBDA i : F(rs[i]), S)

----------------------------------------------------------------------------
(* FinancialAccountsService.getMovements: the aggregation of the totals is  *)
(* not cast, so that an account given as text matches nothing there.        *)
MovimientosPedidos(ts, q) ==
  Donde(ts, LAMBDA t : /\ Pide(q, "cuenta", t) /\ Pide(q, "tipo", t) /\ Pide(q, "conciliado", t)
                       /\ EntreDias(t, q))
GetMovements(ts, q) ==
  LET data == MovimientosPedidos(ts, q)
      totalizados == IF q.cuenta = SinFiltro THEN data ELSE {}
      de(tipo) == {i \in totalizados : ts[i].tipo = tipo}
      monto(t) == t.monto
  IN  [data |-> data, ingresos |-> SumaDe(ts, de("INGRESO"), monto),
       egresos |-> SumaDe(ts, de("EGRESO"), monto)]

(* ReceiptsService.findByAgent.                                             *)
FindByAgent(rs, q) ==
  Donde(rs, LAMBDA r : Pide(q, "agente", r) /\ Pide(q, "tipo", r) /\ EntreDias(r, q))

(* BankingSyncService.findAll: @Type(() => Boolean) reads 'false' as true.  *)
FindAllMovements(ms, q) ==
  Donde(ms, LAMBDA m : /\ Pide(q, "tipo", m)
                       /\ q.conciliado # SinFiltro => m.conciliado
                       /\ EntreInstantes(m, q))
GetStats(ms) ==
  LET total == DOMAIN ms
      conciliados == Donde(ms, LAMBDA m : m.conciliado)
      de(tipo) == Donde(ms, LAMBDA m : m.tipo = tipo)
  IN  [total |-> Cardinality(total), conciliados |-> Cardinality(conciliados),
       pendientes |-> Cardinality(total \ conciliados),
       porTipo |-> [t \in {m.tipo : m \in Range(ms)} |->
                      [count |-> Cardinality(de(t)),
                       total |-> SumaDe(ms, de(t), LAMBDA m : m.monto)]]]

(* InboxService.findAll and getStats: a message is [fuente, status,         *)
(* asignado, tags, textos].  An assignedTo that is not an identifier is     *)
(* left out of the query.                                                   *)
NoEsId == "no es un id"
Mensajes(ms, q) ==
  Donde(ms, LAMBDA m : /\ Pide(q, "fuente", m) /\ Pide(q, "status", m)
                       /\ q.asignado # NoEsId => Pide(q, "asignado", m)
                       /\ q.tag # SinFiltro => q.tag \in m.tags
                       /\ q.texto # SinFiltro => q.texto \in m.textos)
StatsDeBandeja(ms) ==
  [total |-> Len(ms),
   porEstado |-> [e \in {"Nuevo", "Leido", "Archivado"} |-> Cardinality(Donde(ms, LAMBDA m : m.status = e))],
   porFuente |-> [f \in {m.fuente : m \in Range(ms)} |-> Cardinality(Donde(ms, LAMBDA m : m.fuente = f))]]

----------------------------------------------------------------------------
(* AccountingEntriesService.findWithFilters: the page and the totals.  The  *)
(* totals are of the query, the page keeps those with a balance when only   *)
(* the pending ones are asked for.  An entry is [fecha, contrato, estado,   *)
(* debe, pagado, haber, liquidado], with its sides added up.                *)

Pendientes == {"PENDIENTE", "PAGADO_PARCIAL", "PENDIENTE_AJUSTE", "COBRADO"}
Consulta(es, q) ==
  Donde(es, LAMBDA e : /\ Pide(q, "contrato", e)
                       /\ IF q.soloPendientes THEN e.estado \in Pendientes ELSE Pide(q, "estado", e)
                       /\ EntreInstantes(e, q))
FindWithFilters(es, q) ==
  LET query == Consulta(es, q)
  IN  [data |-> {i \in query : q.soloPendientes => es[i].debe > es[i].pagado \/ es[i].haber > es[i].liquidado},
       grandTotalDebe  |-> SumaDe(es, query, LAMBDA e : e.debe),
       grandTotalHaber |-> SumaDe(es, query, LAMBDA e : e.haber)]

(* getAccruedIncome, of the ledger and of a contract.                       *)
FindByContractAndDateRange(es, contrato, desde, hasta) ==
  Donde(es, LAMBDA e : e.contrato = contrato /\ e.fecha \in desde .. hasta)
IngresoDevengado(es, asientos) == SumaDe(es, asientos, LAMBDA e : e.haber)
GetAccruedIncome(es, contrato, desde, hasta) ==
  IngresoDevengado(es, FindByContractAndDateRange(es, contrato, desde, hasta))

----------------------------------------------------------------------------
(* ContractsService.getDepositosPendientes: a contract is [status, fin,     *)
(* deposito, ajuste, tieneDeposito, haber, liquidado, ultimoAlquiler], with *)
(* the credit of its latest entry of type 'Deposito en Garantia' and the    *)
(* amount of its latest rent (0 for none); days are counted from today.     *)

DepositoPedido(c, q) ==
  /\ c.status \in {"VIGENTE", "FINALIZADO"} /\ c.deposito > 0
  /\ IF q.proximos THEN c.fin \in 0 .. 30
     ELSE /\ q.desde # SinFiltro => c.fin >= q.desde
          /\ q.hasta # SinFiltro => c.fin <= q.hasta
MontoADevolver(c) ==
  IF c.ajuste = "AL_ULTIMO_ALQUILER" /\ c.ultimoAlquiler > 0 THEN c.ultimoAlquiler ELSE c.haber
EstadoLiquidacion(c) ==
  IF c.liquidado >= MontoADevolver(c) THEN "LIQUIDADO"
  ELSE IF c.liquidado > 0 THEN "LIQUIDADO_PARCIAL" ELSE "PENDIENTE"
GetDepositosPendientes(cs, q) ==
  LET listados == Donde(cs, LAMBDA c : DepositoPedido(c, q) /\ c.tieneDeposito /\ c.haber > 0)
  IN  [i \in 1 .. Cardinality(listados) |->
         LET n == SetToSortSeq(listados, LAMBDA x, y : cs[x].fin < cs[y].fin \/ (cs[x].fin = cs[y].fin /\ x < y))[i]
         IN  [contrato |-> n, dias |-> cs[n].fin, aDevolver |-> MontoADevolver(cs[n]),
              saldo |-> cs[n].haber - cs[n].liquidado, estado |-> EstadoLiquidacion(cs[n])]]

----------------------------------------------------------------------------
(* Properties.                                                              *)

(* Two queries for days that follow one another list nothing twice.  When   *)
(* they give the days as the server's clock has them (each midnight with    *)
(* its offset) they list what one query for all of them does.  With dates   *)
(* alone they do so only if the server keeps UTC: west of it the first one  *)
(* ends at the local midnight that falls within its last day, and what came *)
(* after is lost to both; east of it, what came after the local midnight    *)
(* that ends that day before UTC does.                                      *)
EnHoraLocal(dia, zona) == SoloFecha(dia) + zona
SeReparten(rs, Lista(_, _), q, dia) ==
  LET antes(t) == Lista(rs, [q EXCEPT !.hasta = t])
      despues(t) == Lista(rs, [q EXCEPT !.desde = t])
      enteros == antes(EnHoraLocal(dia, q.zona)) \cup despues(EnHoraLocal(dia + 1, q.zona))
      sueltos == antes(SoloFecha(dia)) \cup despues(SoloFecha(dia + 1))
      corte == SoloFecha(dia) + q.zona + (IF q.zona > 0 THEN 0 ELSE Dia)
  IN  /\ antes(EnHoraLocal(dia, q.zona)) \cap despues(EnHoraLocal(dia + 1, q.zona)) = {}
      /\ antes(SoloFecha(dia)) \cap despues(SoloFecha(dia + 1)) = {}
      /\ enteros = Lista(rs, q)
      /\ sueltos = {i \in Lista(rs, q) : rs[i].fecha < corte \/ rs[i].fecha >= SoloFecha(dia + 1)}

(* What getMovements adds up is what it lists, in whichever pages, unless   *)
(* it was asked for one account.                                            *)
ResumenDeLoListado(ts, q) ==
  LET r == GetMovements(ts, q)
      signo(t) == IF t.tipo = "INGRESO" THEN t.monto ELSE - t.monto
  IN  q.cuenta = SinFiltro => r.ingresos - r.egresos = SumaDe(ts, r.data, signo)

(* The totals of the entries balance, whatever was asked for, and hold      *)
(* those of the page; what a contract accrued is what was charged on it.    *)
TotalesBalanceados(es, q) ==
  LET r == FindWithFilters(es, q)
  IN  /\ r.grandTotalDebe = r.grandTotalHaber
      /\ SumaDe(es, r.data, LAMBDA e : e.debe) <= r.grandTotalDebe
      /\ (q.contrato # SinFiltro /\ ~ q.soloPendientes /\ q.estado = SinFiltro
          /\ q.desde # SinFiltro /\ q.hasta # SinFiltro) =>
           GetAccruedIncome(es, q.contrato, q.desde, q.hasta) = r.grandTotalDebe

(* The bank's movements are counted once, those of each kind make up the    *)
(* whole, and a list by kind or of the reconciled ones has as many.         *)
CuentaCerrada(ms) ==
  LET s == GetStats(ms)
      todos == [tipo |-> SinFiltro, conciliado |-> SinFiltro, desde |-> SinFiltro, hasta |-> SinFiltro]
  IN  /\ Cardinality(FindAllMovements(ms, [todos EXCEPT !.conciliado = TRUE])) = s.conciliados
      /\ \A t \in DOMAIN s.porTipo :
           Cardinality(FindAllMovements(ms, [todos EXCEPT !.tipo = t])) = s.porTipo[t].count
      /\ s.conciliados + s.pendientes = s.total
      /\ MapThenSumSet(LAMBDA t : s.porTipo[t].count, DOMAIN s.porTipo) = s.total
      /\ MapThenSumSet(LAMBDA t : s.porTipo[t].total, DOMAIN s.porTipo) = SumaDe(ms, DOMAIN ms, LAMBDA m : m.monto)

(* The inbox counts as many messages of each status and source as its list  *)
(* shows when asked for them, and the filters of a query narrow one another.*)
BandejaContada(ms, q) ==
  LET s == StatsDeBandeja(ms)
      todos == [f \in DOMAIN q |-> SinFiltro]
      por(campo, v) == Mensajes(ms, [todos EXCEPT ![campo] = v])
      suma(f) == MapThenSumSet(LAMBDA k : f[k], DOMAIN f)
  IN  /\ suma(s.porEstado) = s.total /\ suma(s.porFuente) = s.total
      /\ \A e \in DOMAIN s.porEstado : Cardinality(por("status", e)) = s.porEstado[e]
      /\ \A f \in DOMAIN s.porFuente : Cardinality(por("fuente", f)) = s.porFuente[f]
      /\ Mensajes(ms, q) = {i \in DOMAIN ms : \A campo \in DOMAIN q : i \in por(campo, q[campo])}

(* A deposit that is not adjusted is listed as returned when nothing of it  *)
(* is left to pay, and those that end first come first.                     *)
DepositosEnOrden(cs, q) ==
  LET ds == GetDepositosPendientes(cs, q)
  IN  /\ \A i \in DOMAIN ds : i > 1 => ds[i - 1].dias <= ds[i].dias
      /\ \A i \in DOMAIN ds : cs[ds[i].contrato].ajuste # "AL_ULTIMO_ALQUILER" =>
           (ds[i].estado = "LIQUIDADO" <=> ds[i].saldo <= 0)
=============================================================================
