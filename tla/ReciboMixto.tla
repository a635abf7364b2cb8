----------------------------- MODULE ReciboMixto -----------------------------
(***************************************************************************)
(* AccountingEntriesService.processReceipt: collections and payments of    *)
(* several entries in one request, one line after another.  A line that    *)
(* throws is answered as an error, and the next ones go on.                *)
(*                                                                         *)
(* A line is [a, tipo, monto, agente]; r is what the request has done: the *)
(* documents, the balance of the account, and what it will answer.         *)
(***************************************************************************)
EXTENDS Asiento, FiniteSetsExt, SequencesExt

Admite(d, l) ==
  CASE l.tipo = "COBRO" -> d.estado \notin {"ANULADO", "CONDONADO"} /\ l.monto <= SaldoPendiente(d)
    [] l.tipo = "PAGO"  -> TienePartidas(d, l.agente)

(* liquidarAPropietario gets no amount: it takes everything available.      *)
Procesado(r, l) ==
  LET d == r.docs[l.a]
  IN  IF l.tipo = "COBRO"
      THEN [r EXCEPT !.docs[l.a] = Pagado(d, l.monto),
                     !.caja = @ + IF Total(d.debe) > 0 THEN l.monto ELSE 0,
                     !.ingreso = @ + l.monto, !.procesadas = @ + 1]
      ELSE [r EXCEPT !.docs[l.a] = Liquidado(d, l.agente, 0),
                     !.caja = @ - Abs(MontoNeto(d, l.agente, 0)),
                     !.egreso = @ + l.monto, !.procesadas = @ + 1]

Linea(r, l) == IF Admite(r.docs[l.a], l) THEN Procesado(r, l) ELSE [r EXCEPT !.errores = @ + 1]

ProcessReceipt(docs, lineas) ==
  FoldLeft(Linea, [docs |-> docs, caja |-> 0, ingreso |-> 0, egreso |-> 0,
                   procesadas |-> 0, errores |-> 0], lineas)

----------------------------------------------------------------------------
(* Properties.                                                              *)

(* Whatever its lines repeat or get wrong, a receipt answers each of them   *)
(* and leaves every entry within its debts and credits; what it pays is no  *)
(* more than the entries owed or were owed; and it reports the movement of  *)
(* the account, where there is a debt to collect and the amounts of its     *)
(* payments are those available to the agent.                               *)
AlDia(d, l) == IF l.tipo = "COBRO" THEN Total(d.debe) > 0 ELSE l.monto = Abs(MontoNeto(d, l.agente, 0))
ReciboCuadra(docs, lineas) ==
  LET r == ProcessReceipt(docs, lineas)
      antes(i) == ProcessReceipt(docs, SubSeq(lineas, 1, i - 1))
      sale(i) == LET d == antes(i).docs[lineas[i].a]
                 IN  IF lineas[i].tipo = "PAGO" /\ Admite(d, lineas[i])
                     THEN Abs(MontoNeto(d, lineas[i].agente, 0)) ELSE 0
      abierto(d) == Total(Menos(d.debe, d.pagado)) + Total(Menos(d.haber, d.liquidado))
  IN  /\ r.procesadas + r.errores = Len(lineas)
      /\ \A a \in DOMAIN docs : \A i \in Lado :
           /\ docs[a].pagado[i] <= r.docs[a].pagado[i] /\ r.docs[a].pagado[i] <= docs[a].debe[i]
           /\ docs[a].liquidado[i] <= r.docs[a].liquidado[i] /\ r.docs[a].liquidado[i] <= docs[a].haber[i]
      /\ MapThenSumSet(sale, DOMAIN lineas) <= MapThenSumSet(LAMBDA a : abierto(docs[a]), DOMAIN docs)
      /\ (\A i \in DOMAIN lineas : LET d == antes(i).docs[lineas[i].a]
                                   IN  Admite(d, lineas[i]) => AlDia(d, lineas[i])) =>
           r.ingreso - r.egreso = r.caja
=============================================================================
