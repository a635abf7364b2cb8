------------------------------ MODULE Receipts ------------------------------
(***************************************************************************)
(* ReceiptsService.createReceipt: a receipt is numbered, its lines are     *)
(* imputed one by one through the ledger (registerPayment for a COBRO,     *)
(* liquidarAPropietario for a PAGO), and then the receipt, its financial   *)
(* transaction and the pending invoices are written in a MongoDB session.  *)
(* The ledger's operations do not receive that session: an abort undoes    *)
(* the receipt and the transaction, never the imputations nor the balance. *)
(*                                                                         *)
(* The ledger runs as in AccountingEntries: a receipt's request r is the   *)
(* ledger's request r, so two receipts interleave at every await.          *)
(***************************************************************************)
EXTENDS AccountingEntries, Sequences, SequencesExt

CONSTANTS
  Dtos,         \* CreateReceiptDto values: see DtosAssumption
  Facturables,  \* entries with a DEBE partida on an account es_facturable
  MaxRecibos    \* bound: receipts started in a behaviour

Linea == [a : Asientos, monto : Nat \ {0}, tipo : {"COBRO", "PAGO", "AUTO"}, agente : Agentes]

(* lineas: asientos_a_imputar; total: monto_total_imputado; fisico:         *)
(* monto_recibido_fisico; banco: the agent has bank accounts; factura:      *)
(* emitir_factura.                                                          *)
ASSUME DtosAssumption ==
  \A dto \in Dtos : /\ dto.lineas \in Seq(Linea)
                    /\ dto.total \in Nat /\ dto.fisico \in Nat
                    /\ dto.banco \in BOOLEAN /\ dto.factura \in BOOLEAN
ASSUME RequestsAssumption == IsFiniteSet(Requests)

VARIABLES
  secuencia,  \* Sequence "receipt"
  recibo,     \* [Requests -> what createReceipt holds in memory]
  emitidos,   \* committed receipts, each with its financial transaction
  abortado    \* history: cash moved by receipts that were then aborted

recibosVars == <<secuencia, recibo, emitidos, abortado>>
todo == <<vars, recibosVars>>

(* fase: "libre", "numerado", "imputando" (between lines), "operando" (a    *)
(* line is in the ledger).  tipos: the operation of each line, as inferred  *)
(* from the entries read before the first imputation.  i: the next line.    *)
(* movido: history, the cash its lines moved.                               *)
Libre == [fase |-> "libre", tipos |-> <<>>, i |-> 1, numero |-> 0,
          lineas |-> <<>>, total |-> 0, fisico |-> 0, banco |-> FALSE, factura |-> FALSE,
          movido |-> 0]

RInit ==
  /\ Init
  /\ secuencia = 0
  /\ recibo = [r \in Requests |-> Libre]
  /\ emitidos = {}
  /\ abortado = 0

----------------------------------------------------------------------------
(* Mutant: the counter is read, not incremented and read.                   *)
NumerarSinIncremento(r, dto) ==
  /\ recibo[r].fase = "libre" /\ secuencia < MaxRecibos
  /\ secuencia' = IF recibo = [q \in Requests |-> Libre] THEN secuencia + 1 ELSE secuencia
  /\ recibo' = [recibo EXCEPT ![r] = [Libre EXCEPT
       !.fase = "numerado", !.numero = secuencia', !.lineas = dto.lineas, !.total = dto.total,
       !.fisico = dto.fisico, !.banco = dto.banco, !.factura = dto.factura]]
  /\ UNCHANGED <<vars, emitidos, abortado>>

(* generateReceiptNumber: findOneAndUpdate($inc, upsert), outside the       *)
(* session.                                                                 *)
Numerar(r, dto) ==
  /\ recibo[r].fase = "libre" /\ secuencia < MaxRecibos
  /\ secuencia' = secuencia + 1
  /\ recibo' = [recibo EXCEPT ![r] = [Libre EXCEPT
       !.fase = "numerado", !.numero = secuencia', !.lineas = dto.lineas, !.total = dto.total,
       !.fisico = dto.fisico, !.banco = dto.banco, !.factura = dto.factura]]
  /\ UNCHANGED <<vars, emitidos, abortado>>

(* abortTransaction: the request ends, the cash it moved stays moved.       *)
Abortar(r, movido) ==
  /\ recibo' = [recibo EXCEPT ![r] = Libre]
  /\ abortado' = abortado + movido
  /\ UNCHANGED <<secuencia, emitidos>>

(* The type of a line without tipoOperacion, from what is pending on the    *)
(* entry as read; "NINGUNO" throws when the line's turn comes.              *)
Inferir(d) ==
  IF Total(d.debe) > Total(d.pagado) THEN "COBRO"
  ELSE IF Total(d.haber) > Total(d.liquidado) THEN "PAGO"
  ELSE "NINGUNO"

LeerAsientos(r) ==
  LET q == recibo[r]
      ids == {q.lineas[i].a : i \in DOMAIN q.lineas}
  IN  /\ q.fase = "numerado"
      /\ UNCHANGED vars
      /\ IF Cardinality(ids) = Len(q.lineas) /\ \A a \in ids : vida[a] = "vivo"
         THEN /\ recibo' = [recibo EXCEPT ![r].fase = "imputando",
                   ![r].tipos = [i \in DOMAIN q.lineas |->
                      IF q.lineas[i].tipo = "AUTO" THEN Inferir(asiento[q.lineas[i].a])
                      ELSE q.lineas[i].tipo]]
              /\ UNCHANGED <<secuencia, emitidos, abortado>>
         ELSE Abortar(r, 0)

(* The next line enters the ledger, or the ledger refuses it.               *)
QuedanLineas(r) == recibo[r].fase = "imputando" /\ recibo[r].i <= Len(recibo[r].lineas)

Imputacion(r) ==
  LET q == recibo[r]
      l == q.lineas[q.i]
  IN  /\ QuedanLineas(r)
      /\ \/ q.tipos[q.i] = "COBRO" /\ RegisterPayment(r, l.a, l.monto)
         \/ q.tipos[q.i] = "PAGO" /\ LiquidarAPropietario(r, l.a, l.agente, l.monto)
      /\ recibo' = [recibo EXCEPT ![r].fase = "operando"]
      /\ UNCHANGED <<secuencia, emitidos, abortado>>

ImputacionRechazada(r) ==
  LET q == recibo[r]
      l == q.lineas[q.i]
  IN  /\ QuedanLineas(r)
      /\ \/ q.tipos[q.i] = "COBRO" /\ ~ AdmitePago(l.a, l.monto)
         \/ q.tipos[q.i] = "PAGO" /\ ~ AdmiteLiquidacion(l.a, l.agente)
         \/ q.tipos[q.i] = "NINGUNO"
      /\ Abortar(r, q.movido)
      /\ UNCHANGED vars

(* The ledger's steps on behalf of the receipt.                             *)
MoverCaja(r) ==
  /\ UpdateBalance(r)
  /\ recibo' = [recibo EXCEPT ![r].movido = @ + Flujo(local[r].cambio)]
  /\ UNCHANGED <<secuencia, emitidos, abortado>>

GuardarLinea(r) ==
  /\ recibo[r].fase = "operando"
  /\ Save(r)
  /\ recibo' = [recibo EXCEPT ![r].fase = "imputando", ![r].i = @ + 1]
  /\ UNCHANGED <<secuencia, emitidos, abortado>>

(* Mutant: a failed line is skipped, as processReceipt does.                *)
LineaFallidaSeOmite(r) ==
  /\ recibo[r].fase = "operando"
  /\ CuentaNoEncontrada(r) \/ SaveNoEncontrado(r)
  /\ recibo' = [recibo EXCEPT ![r].fase = "imputando", ![r].i = @ + 1]
  /\ UNCHANGED <<secuencia, emitidos, abortado>>

LineaFallida(r) ==
  /\ recibo[r].fase = "operando"
  /\ CuentaNoEncontrada(r) \/ SaveNoEncontrado(r)
  /\ Abortar(r, recibo[r].movido)

(* The request dies before the save of a line; the server of the database   *)
(* aborts the session it left open.                                         *)
CaidaEnLinea(r) ==
  /\ recibo[r].fase = "operando"
  /\ Caida(r)
  /\ Abortar(r, recibo[r].movido)

----------------------------------------------------------------------------
(* The end of createReceipt.                                                *)

Suma(q, tipo) ==
  SumFunction([i \in DOMAIN q.lineas |-> IF tipo = q.tipos[i] THEN q.lineas[i].monto ELSE 0])
Neto(q) == Suma(q, "COBRO") - Suma(q, "PAGO")

LineasCompletas(r) == recibo[r].fase = "imputando" /\ recibo[r].i > Len(recibo[r].lineas)

(* The checks made after the lines were imputed.  A physical amount above   *)
(* the imputed one always fails: the entry "saldo a favor" is created       *)
(* without fecha_vencimiento, which the schema requires.                    *)
Emitible(q) ==
  /\ Suma(q, "COBRO") + Suma(q, "PAGO") = q.total
  /\ q.fisico <= q.total
  /\ Neto(q) < 0 => q.banco

Facturar(q) ==
  asiento' = [a \in Asientos |->
    IF q.factura /\ a \in Facturables /\ \E i \in DOMAIN q.lineas : q.lineas[i].a = a
    THEN [asiento[a] EXCEPT !.estado = "PENDIENTE_FACTURAR"] ELSE asiento[a]]

(* newReceipt.save, transactions.create, queueInvoiceGeneration and         *)
(* commitTransaction: one session, visible at once.                         *)
Emitir(r) ==
  LET q == recibo[r]
  IN  /\ LineasCompletas(r)
      /\ Emitible(q)
      /\ emitidos' = emitidos \cup
           {[numero |-> q.numero, neto |-> Neto(q), lineas |-> q.lineas, tipos |-> q.tipos,
             movido |-> q.movido]}
      /\ recibo' = [recibo EXCEPT ![r] = Libre]
      /\ Facturar(q)
      /\ UNCHANGED <<vida, historial, saldo, pc, local, sinRastro, ops, fallas, solape,
                     secuencia, abortado>>

EmisionRechazada(r) ==
  /\ LineasCompletas(r)
  /\ ~ Emitible(recibo[r])
  /\ Abortar(r, recibo[r].movido)
  /\ UNCHANGED vars

(* A write conflict or any other error of the session.                      *)
FallaSesion(r) ==
  /\ LineasCompletas(r)
  /\ fallas < MaxFallas
  /\ fallas' = fallas + 1
  /\ Abortar(r, recibo[r].movido)
  /\ UNCHANGED <<libro, saldo, pc, local, ops, solape>>

----------------------------------------------------------------------------
EnReposo == \A r \in Requests : recibo[r].fase = "libre"

RNext ==
  \/ \E a \in Asientos, p \in Plantillas : Create(a, p) /\ UNCHANGED recibosVars
  \/ \E c \in Contratos : DeleteManyByContractId(c) /\ UNCHANGED recibosVars
  \/ \E r \in Requests :
       \/ \E dto \in Dtos : Numerar(r, dto)
       \/ LeerAsientos(r) \/ Imputacion(r) \/ ImputacionRechazada(r)
       \/ MoverCaja(r) \/ GuardarLinea(r) \/ LineaFallida(r) \/ CaidaEnLinea(r)
       \/ Emitir(r) \/ EmisionRechazada(r) \/ FallaSesion(r)
  \/ EnReposo /\ UNCHANGED todo

RSpec == RInit /\ [][RNext]_todo

----------------------------------------------------------------------------
(* Properties.                                                              *)

(* Two receipts never carry the same number (numero_recibo is unique), even *)
(* when they are numbered at the same time; aborted ones leave gaps.        *)
NumerosUnicos ==
  \A e, f \in emitidos : e.numero = f.numero => e = f

(* Everything an emitted receipt says it collected from an entry was        *)
(* recorded in that entry's history by registerPayment.                     *)
CobradoDe(q, a) ==
  [i \in DOMAIN q.lineas |-> IF q.tipos[i] = "COBRO" /\ q.lineas[i].a = a
                             THEN q.lineas[i].monto ELSE 0]
CobradoPorRecibos(a) == SumFunction([e \in emitidos |-> SumFunction(CobradoDe(e, a))])
RecibosRespaldados ==
  \A a \in Asientos : vida[a] = "vivo" => CobradoPorRecibos(a) <= historial[a].pagos

(* A receipt that only collects is emitted for exactly the cash that its    *)
(* lines moved: errors of a line never leave it out of the balance.         *)
CobrosCuadran ==
  \A e \in emitidos :
    (\A i \in DOMAIN e.tipos : e.tipos[i] = "COBRO") => e.neto = e.movido

----------------------------------------------------------------------------
(* What the documentation and comments say, and the code does not do.       *)

(* "El primero crea automáticamente transacciones en la tabla de            *)
(* caja/bancos" (doc/ESTADO_CUENTA_API.md:332): no receipt moves cash       *)
(* without a transaction.  An abort leaves the balance moved.               *)
CajaConTransaccion == abortado = 0
=============================================================================
