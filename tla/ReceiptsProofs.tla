--------------------------- MODULE ReceiptsProofs ---------------------------
(***************************************************************************)
(* Proofs about Receipts, for every number of requests, entries, receipts  *)
(* and lines: the numbers of the receipts are unique, the ledger keeps its *)
(* invariant when receipts drive it, whatever sessions abort, and the      *)
(* receipts say what the ledger recorded and the cash that moved.          *)
(***************************************************************************)
EXTENDS Receipts, AccountingEntriesProofs, Sumas

CamposRecibo == {"fase", "tipos", "i", "numero", "lineas", "total", "fisico", "banco",
                 "factura", "movido"}
FormaRecibo(q) == q = [f \in CamposRecibo |-> q[f]]
EnMarcha(q) == FormaRecibo(q) /\ q.lineas \in Seq(Linea) /\ q.i \in Nat \ {0}

----------------------------------------------------------------------------
(* The inductive invariant.  A number belongs to one receipt from the       *)
(* moment the counter yields it: to the request that holds it, and then to  *)
(* the receipt it emits; an aborted request takes its number with it.       *)

Numerados == {r \in Requests : recibo[r].fase # "libre"}

Numeracion ==
  /\ secuencia \in Nat
  /\ \A r \in Numerados : recibo[r].numero \in 1 .. secuencia
  /\ \A r, s \in Numerados : recibo[r].numero = recibo[s].numero => r = s
  /\ \A e \in emitidos : /\ e.numero \in 1 .. secuencia
                         /\ \A r \in Numerados : recibo[r].numero # e.numero
  /\ NumerosUnicos

RInv ==
  /\ IInv
  /\ recibo = [r \in Requests |-> recibo[r]]
  /\ \A r \in Requests : EnMarcha(recibo[r])
  /\ Numeracion

LEMMA LibreVale == EnMarcha(Libre) /\ Libre.fase = "libre"
BY DEF Libre, EnMarcha, FormaRecibo, CamposRecibo

----------------------------------------------------------------------------
(* A receipt goes on with its number, or ends and emits nothing.            *)
LEMMA PasoDeRecibo ==
  ASSUME RInv, NEW r \in Requests, NEW q, recibo' = [recibo EXCEPT ![r] = q], EnMarcha(q),
         q.fase = "libre" \/ (r \in Numerados /\ q.numero = recibo[r].numero),
         UNCHANGED <<secuencia, emitidos>>, IInv'
  PROVE  RInv'
<1>1. /\ recibo' = [s \in Requests |-> recibo'[s]] /\ recibo'[r] = q
      /\ \A s \in Requests : s # r => recibo'[s] = recibo[s]
  BY DEF RInv
<1>2. (\A s \in Requests : EnMarcha(recibo[s]))'
  BY <1>1 DEF RInv
<1>3. \A s \in Numerados' : s \in Numerados /\ recibo'[s].numero = recibo[s].numero
  BY <1>1 DEF Numerados
<1>4. Numeracion'
  BY <1>3 DEF RInv, Numeracion, NumerosUnicos
<1>5. QED
  BY <1>1, <1>2, <1>4 DEF RInv

LEMMA AbortarRInv ==
  ASSUME RInv, NEW r \in Requests, NEW m, Abortar(r, m), IInv'
  PROVE  RInv'
BY LibreVale, PasoDeRecibo DEF Abortar

(* The ledger rests.                                                        *)
LEMMA LibroQuieto ==
  ASSUME IInv, UNCHANGED vars
  PROVE  IInv'
BY NextIInv

LEMMA CreceElContador ==
  ASSUME NEW n \in Nat
  PROVE  n + 1 \in Nat /\ n + 1 \in 1 .. (n + 1) /\ \A k \in 1 .. n : k \in 1 .. (n + 1) /\ k # n + 1
OBVIOUS

LEMMA NumerarRInv ==
  ASSUME RInv, NEW r \in Requests, NEW dto \in Dtos, Numerar(r, dto)
  PROVE  RInv'
<1> DEFINE n == secuencia + 1
           q == [Libre EXCEPT !.fase = "numerado", !.numero = n, !.lineas = dto.lineas,
                              !.total = dto.total, !.fisico = dto.fisico, !.banco = dto.banco,
                              !.factura = dto.factura]
<1>1. /\ recibo[r].fase = "libre" /\ recibo' = [recibo EXCEPT ![r] = q] /\ secuencia' = n
      /\ UNCHANGED <<vars, emitidos>>
  BY DEF Numerar
<1>2. secuencia \in Nat
  BY DEF RInv, Numeracion
<1>3. /\ n \in Nat /\ n \in 1 .. n
      /\ \A k \in 1 .. secuencia : k \in 1 .. n /\ k # n
  BY <1>2, CreceElContador
<1> HIDE DEF n
<1>4. EnMarcha(q) /\ q.fase = "numerado" /\ q.numero = n
  <2>1. /\ FormaRecibo(q) /\ q.fase = "numerado" /\ q.numero = n /\ q.lineas = dto.lineas
        /\ q.i = 1
    BY DEF Libre, FormaRecibo, CamposRecibo
  <2> HIDE DEF q
  <2> QED
    BY <2>1, DtosAssumption DEF EnMarcha
<1> HIDE DEF q
<1>5. /\ recibo' = [s \in Requests |-> recibo'[s]] /\ recibo'[r] = q
      /\ \A s \in Requests : s # r => recibo'[s] = recibo[s]
  BY <1>1 DEF RInv
<1>6. (\A s \in Requests : EnMarcha(recibo[s]))'
  BY <1>4, <1>5 DEF RInv
<1>7. \A s \in Numerados' : s = r \/ (s \in Numerados /\ recibo'[s].numero = recibo[s].numero)
  BY <1>5 DEF Numerados
<1>8. Numeracion'
  <2>1. (\A s \in Numerados : recibo[s].numero \in 1 .. secuencia)'
    BY <1>1, <1>3, <1>4, <1>5, <1>7 DEF RInv, Numeracion
  <2>2. (\A s, t \in Numerados : recibo[s].numero = recibo[t].numero => s = t)'
    <3>1. SUFFICES ASSUME NEW s \in Numerados', NEW t \in Numerados',
                          recibo'[s].numero = recibo'[t].numero
                   PROVE  s = t
      OBVIOUS
    <3>2. recibo'[r].numero = n
      BY <1>4, <1>5
    <3>3. \A u \in Numerados : recibo[u].numero \in 1 .. secuencia
      BY DEF RInv, Numeracion
    <3>4. \A u \in Numerados' : u # r => recibo'[u].numero # n
      BY <1>3, <1>7, <3>3
    <3>5. CASE s = r \/ t = r
      BY <3>1, <3>2, <3>4, <3>5
    <3>6. CASE s # r /\ t # r
      BY <1>7, <3>1, <3>6 DEF RInv, Numeracion
    <3>7. QED
      BY <3>5, <3>6
  <2>3. (\A e \in emitidos : /\ e.numero \in 1 .. secuencia
                             /\ \A s \in Numerados : recibo[s].numero # e.numero)'
    BY <1>1, <1>3, <1>4, <1>5, <1>7 DEF RInv, Numeracion
  <2> QED
    BY <1>1, <1>3, <2>1, <2>2, <2>3 DEF RInv, Numeracion, NumerosUnicos
<1>9. IInv'
  BY <1>1, LibroQuieto DEF RInv
<1>10. QED
  BY <1>5, <1>6, <1>8, <1>9 DEF RInv

(* generateReceiptNumber hands out each number once.                        *)
LEMMA LeerAsientosRInv ==
  ASSUME RInv, NEW r \in Requests, LeerAsientos(r)
  PROVE  RInv'
<1>1. recibo[r].fase = "numerado" /\ UNCHANGED vars /\ EnMarcha(recibo[r])
  BY DEF LeerAsientos, RInv
<1>2. IInv'
  BY <1>1, LibroQuieto DEF RInv
<1>3. CASE Abortar(r, 0)
  BY <1>2, <1>3, AbortarRInv
<1>4. ASSUME NEW t, recibo' = [recibo EXCEPT ![r].fase = "imputando", ![r].tipos = t],
             UNCHANGED <<secuencia, emitidos, abortado>>
      PROVE  RInv'
  <2> DEFINE q == [recibo[r] EXCEPT !.fase = "imputando", !.tipos = t]
  <2>1. recibo' = [recibo EXCEPT ![r] = q]
    BY <1>4 DEF RInv
  <2>2. FormaRecibo(q) /\ q.numero = recibo[r].numero /\ q.lineas = recibo[r].lineas
        /\ q.i = recibo[r].i
    BY <1>1 DEF EnMarcha, FormaRecibo, CamposRecibo
  <2> HIDE DEF q
  <2>3. EnMarcha(q) /\ r \in Numerados
    BY <1>1, <2>2 DEF EnMarcha, Numerados
  <2> QED
    BY <1>2, <1>4, <2>1, <2>2, <2>3, PasoDeRecibo
<1>5. QED
  BY <1>3, <1>4 DEF LeerAsientos

(* A line of the receipt enters the ledger, moves the cash or is saved: the *)
(* receipt keeps its number and its lines.                                  *)
LEMMA PasoDeLinea ==
  ASSUME RInv, NEW r \in Requests, NEW q, recibo' = [recibo EXCEPT ![r] = q], FormaRecibo(q),
         q.numero = recibo[r].numero, q.lineas = recibo[r].lineas, q.i \in Nat \ {0},
         recibo[r].fase = "libre" => q.fase = "libre",
         UNCHANGED <<secuencia, emitidos>>, IInv'
  PROVE  RInv'
<1>1. EnMarcha(q)
  BY DEF RInv, EnMarcha
<1>2. q.fase = "libre" \/ r \in Numerados
  BY DEF Numerados
<1>3. QED
  BY <1>1, <1>2, PasoDeRecibo

LEMMA ImputacionRInv ==
  ASSUME RInv, NEW r \in Requests, Imputacion(r)
  PROVE  RInv'
<1> DEFINE l == recibo[r].lineas[recibo[r].i]
<1>1. EnMarcha(recibo[r]) /\ recibo[r].i \in DOMAIN recibo[r].lineas
  BY DEF Imputacion, QuedanLineas, RInv, EnMarcha
<1>2. l \in Linea
  BY <1>1 DEF EnMarcha
<1>3. l.a \in Asientos /\ l.monto \in Nat
  BY <1>2 DEF Linea
<1>4. RegisterPayment(r, l.a, l.monto) \/ LiquidarAPropietario(r, l.a, l.agente, l.monto)
  BY DEF Imputacion
<1> HIDE DEF l
<1>5. IInv'
  BY <1>3, <1>4, RegisterPaymentIInv, LiquidarIInv DEF RInv
<1>6. /\ recibo[r].fase = "imputando" /\ UNCHANGED <<secuencia, emitidos>>
      /\ recibo' = [recibo EXCEPT ![r].fase = "operando"]
  BY DEF Imputacion, QuedanLineas
<1> DEFINE q == [recibo[r] EXCEPT !.fase = "operando"]
<1>7. recibo' = [recibo EXCEPT ![r] = q]
  BY <1>6 DEF RInv
<1>8. FormaRecibo(q) /\ q.numero = recibo[r].numero /\ q.lineas = recibo[r].lineas
      /\ q.i = recibo[r].i
  BY <1>1 DEF EnMarcha, FormaRecibo, CamposRecibo
<1>9. recibo[r].i \in Nat \ {0}
  BY <1>1 DEF EnMarcha
<1> HIDE DEF q
<1>10. QED
  BY <1>5, <1>6, <1>7, <1>8, <1>9, PasoDeLinea

LEMMA ImputacionRechazadaRInv ==
  ASSUME RInv, NEW r \in Requests, ImputacionRechazada(r)
  PROVE  RInv'
BY AbortarRInv, LibroQuieto DEF ImputacionRechazada, RInv

LEMMA MoverCajaRInv ==
  ASSUME RInv, NEW r \in Requests, MoverCaja(r)
  PROVE  RInv'
<1> DEFINE m == recibo[r].movido + Flujo(local[r].cambio)
           q == [recibo[r] EXCEPT !.movido = m]
<1>1. IInv'
  BY UpdateBalanceIInv DEF MoverCaja, RInv
<1>2. /\ FormaRecibo(recibo[r]) /\ recibo[r].i \in Nat \ {0}
      /\ UNCHANGED <<secuencia, emitidos>>
  BY DEF RInv, EnMarcha, MoverCaja
<1>3. recibo' = [recibo EXCEPT ![r] = q]
  BY DEF MoverCaja, RInv
<1> HIDE DEF m
<1>4. FormaRecibo(q) /\ q.numero = recibo[r].numero /\ q.lineas = recibo[r].lineas
      /\ q.i = recibo[r].i /\ q.fase = recibo[r].fase
  BY <1>2 DEF FormaRecibo, CamposRecibo
<1> HIDE DEF q
<1>5. QED
  BY <1>1, <1>2, <1>3, <1>4, PasoDeLinea

LEMMA GuardarLineaRInv ==
  ASSUME RInv, NEW r \in Requests, GuardarLinea(r)
  PROVE  RInv'
<1> DEFINE n == recibo[r].i + 1
           q == [recibo[r] EXCEPT !.fase = "imputando", !.i = n]
<1>1. IInv'
  BY SaveIInv DEF GuardarLinea, RInv
<1>2. /\ FormaRecibo(recibo[r]) /\ n \in Nat \ {0} /\ recibo[r].fase = "operando"
      /\ UNCHANGED <<secuencia, emitidos>>
  BY DEF RInv, EnMarcha, GuardarLinea
<1>3. recibo' = [recibo EXCEPT ![r] = q]
  BY DEF GuardarLinea, RInv
<1> HIDE DEF n
<1>4. FormaRecibo(q) /\ q.numero = recibo[r].numero /\ q.lineas = recibo[r].lineas /\ q.i = n
  BY <1>2 DEF FormaRecibo, CamposRecibo
<1> HIDE DEF q
<1>5. QED
  BY <1>1, <1>2, <1>3, <1>4, PasoDeLinea

(* A line that fails aborts the session; what the ledger did stays done.    *)
LEMMA LineaFallidaRInv ==
  ASSUME RInv, NEW r \in Requests, LineaFallida(r) \/ CaidaEnLinea(r)
  PROVE  RInv'
<1>1. CASE CuentaNoEncontrada(r) /\ Abortar(r, recibo[r].movido)
  <2>1. IInv'
    BY <1>1, AbandonarIInv DEF CuentaNoEncontrada, libro, RInv, IInv, TypeOK
  <2> QED
    BY <1>1, <2>1, AbortarRInv
<1>2. CASE SaveNoEncontrado(r) /\ Abortar(r, recibo[r].movido)
  <2>1. IInv'
    BY <1>2, PerderIInv DEF SaveNoEncontrado, RInv, IInv, TypeOK
  <2> QED
    BY <1>2, <2>1, AbortarRInv
<1>3. CASE Caida(r) /\ Abortar(r, recibo[r].movido)
  <2>1. IInv'
    BY <1>3, PerderIInv DEF Caida, RInv, IInv, TypeOK
  <2> QED
    BY <1>3, <2>1, AbortarRInv
<1>4. QED
  BY <1>1, <1>2, <1>3 DEF LineaFallida, CaidaEnLinea

(* The receipt that is stored takes the number of the request, which ends.  *)
LEMMA EmitirRInv ==
  ASSUME RInv, NEW r \in Requests, Emitir(r)
  PROVE  RInv'
<1> DEFINE q == recibo[r]
           neto == Neto(q)
           e == [numero |-> q.numero, neto |-> neto, lineas |-> q.lineas, tipos |-> q.tipos,
                 movido |-> q.movido]
<1>1. /\ q.fase = "imputando" /\ emitidos' = emitidos \cup {e}
      /\ recibo' = [recibo EXCEPT ![r] = Libre] /\ UNCHANGED secuencia /\ Facturar(q)
      /\ UNCHANGED <<vida, historial, saldo, pc, local, sinRastro, ops, fallas, solape>>
  BY DEF Emitir, LineasCompletas
<1>2. IInv'
  <2>1. /\ asiento' = [a \in Asientos |-> asiento'[a]]
        /\ \A a \in Asientos : asiento'[a] = asiento[a]
                     \/ asiento'[a] = [asiento[a] EXCEPT !.estado = "PENDIENTE_FACTURAR"]
    BY <1>1 DEF Facturar
  <2>2. "PENDIENTE_FACTURAR" \in Estados
    BY DEF Estados
  <2>3. ops' \in Nat
    BY <1>1 DEF RInv, IInv, TypeOK
  <2> QED
    BY <1>1, <2>1, <2>2, <2>3, EstadosIInv DEF RInv
<1>3. e.numero = recibo[r].numero
  OBVIOUS
<1> HIDE DEF e, neto
<1>4. /\ recibo' = [s \in Requests |-> recibo'[s]] /\ recibo'[r] = Libre
      /\ \A s \in Requests : s # r => recibo'[s] = recibo[s]
  BY <1>1 DEF RInv
<1>5. (\A s \in Requests : EnMarcha(recibo[s]))'
  BY <1>4, LibreVale DEF RInv
<1>6. r \in Numerados /\ \A s \in Numerados' : s \in Numerados /\ s # r /\ recibo'[s] = recibo[s]
  BY <1>1, <1>4, LibreVale DEF Numerados
<1>7. Numeracion'
  <2>1. (\A s \in Numerados : recibo[s].numero \in 1 .. secuencia)'
    BY <1>1, <1>6 DEF RInv, Numeracion
  <2>2. (\A s, t \in Numerados : recibo[s].numero = recibo[t].numero => s = t)'
    BY <1>6 DEF RInv, Numeracion
  <2>3. (\A f \in emitidos : /\ f.numero \in 1 .. secuencia
                             /\ \A s \in Numerados : recibo[s].numero # f.numero)'
    BY <1>1, <1>3, <1>6 DEF RInv, Numeracion
  <2>4. NumerosUnicos'
    BY <1>1, <1>3, <1>6 DEF RInv, Numeracion, NumerosUnicos
  <2>5. secuencia' \in Nat
    BY <1>1 DEF RInv, Numeracion
  <2> QED
    BY <2>1, <2>2, <2>3, <2>4, <2>5 DEF Numeracion
<1>8. QED
  BY <1>2, <1>4, <1>5, <1>7 DEF RInv

LEMMA EmisionRechazadaRInv ==
  ASSUME RInv, NEW r \in Requests, EmisionRechazada(r)
  PROVE  RInv'
BY AbortarRInv, LibroQuieto DEF EmisionRechazada, RInv

LEMMA FallaSesionRInv ==
  ASSUME RInv, NEW r \in Requests, FallaSesion(r)
  PROVE  RInv'
<1>1. /\ fallas' = fallas + 1 /\ UNCHANGED <<libro, saldo, pc, local, ops, solape>>
      /\ Abortar(r, recibo[r].movido)
  BY DEF FallaSesion
<1>2. TypeOK'
  BY <1>1 DEF RInv, IInv, TypeOK, libro
<1>3. ImputacionAcotada' /\ Vigente' /\ CreditoRespaldado' /\ CopiaRespaldada'
  BY <1>1 DEF RInv, IInv, ImputacionAcotada, Vigente, CreditoRespaldado, CopiaRespaldada,
              EnCurso, libro
<1>4. QED
  BY <1>1, <1>2, <1>3, AbortarRInv DEF IInv

----------------------------------------------------------------------------
(* The steps of the ledger alone.                                           *)
LEMMA SinRecibo ==
  ASSUME RInv, UNCHANGED recibosVars, IInv'
  PROVE  RInv'
BY DEF RInv, recibosVars, Numeracion, Numerados, NumerosUnicos

LEMMA NextRInv == RInv /\ [RNext]_todo => RInv'
<1> SUFFICES ASSUME RInv, [RNext]_todo
             PROVE  RInv'
  OBVIOUS
<1>1. CASE UNCHANGED todo
  BY <1>1, LibroQuieto, SinRecibo DEF todo, RInv
<1>2. ASSUME NEW a \in Asientos, NEW p \in Plantillas, Create(a, p), UNCHANGED recibosVars
      PROVE  RInv'
  BY <1>2, CreateIInv, SinRecibo DEF RInv
<1>3. ASSUME NEW c \in Contratos, DeleteManyByContractId(c), UNCHANGED recibosVars
      PROVE  RInv'
  BY <1>3, DeleteIInv, SinRecibo DEF RInv
<1>4. ASSUME NEW r \in Requests,
             \/ \E dto \in Dtos : Numerar(r, dto)
             \/ LeerAsientos(r) \/ Imputacion(r) \/ ImputacionRechazada(r)
             \/ MoverCaja(r) \/ GuardarLinea(r) \/ LineaFallida(r) \/ CaidaEnLinea(r)
             \/ Emitir(r) \/ EmisionRechazada(r) \/ FallaSesion(r)
      PROVE  RInv'
  BY <1>4, NumerarRInv, LeerAsientosRInv, ImputacionRInv, ImputacionRechazadaRInv,
     MoverCajaRInv, GuardarLineaRInv, LineaFallidaRInv, EmitirRInv, EmisionRechazadaRInv,
     FallaSesionRInv
<1>5. QED
  BY <1>1, <1>2, <1>3, <1>4 DEF RNext

LEMMA InitRInv == RInit => RInv
BY InitIInv, LibreVale DEF RInit, RInv, Numeracion, Numerados, NumerosUnicos

(* Every reachable state satisfies the inductive invariant.                 *)
THEOREM RecibosInvariante == RSpec => []RInv
BY InitRInv, NextRInv, PTL DEF RSpec

(* Two emitted receipts never carry the same number, however many are       *)
(* numbered at once and however many abort (generateReceiptNumber).         *)
THEOREM NumeracionSinRepetidos == RSpec => []NumerosUnicos
<1>1. RInv => NumerosUnicos
  BY DEF RInv, Numeracion
<1>2. QED
  BY <1>1, RecibosInvariante, PTL

(* Driven by receipts, with sessions that abort and leave their imputations *)
(* behind, the ledger still never imputes beyond a partida's amount         *)
(* (createReceipt over registerPayment and liquidarAPropietario).           *)
THEOREM ImputacionBajoRecibos == RSpec => []ImputacionAcotada
<1>1. RInv => ImputacionAcotada
  BY DEF RInv, IInv
<1>2. QED
  BY <1>1, RecibosInvariante, PTL

(* Nor does it credit a partida with more than the entry's history records. *)
THEOREM CreditoBajoRecibos == RSpec => []CreditoRespaldado
<1>1. RInv => CreditoRespaldado
  BY DEF RInv, IInv
<1>2. QED
  BY <1>1, RecibosInvariante, PTL

----------------------------------------------------------------------------
(* The money of the receipts.  What a request has done of its lines, and    *)
(* what the ledger holds of the line it is in.                              *)

Hechas(q) == {k \in DOMAIN q.lineas : k < q.i}
SoloCobra(tipos) == \A k \in DOMAIN tipos : tipos[k] = "COBRO"
Importes(q) == [k \in DOMAIN q.lineas |-> q.lineas[k].monto]
Hecho(q, a) == SumFunctionOnSet(CobradoDe(q, a), Hechas(q))

LineaEnMano(r) ==
  LET q == recibo[r]
      l == q.lineas[q.i]
  IN  /\ q.i \in DOMAIN q.lineas
      /\ local[r].a = l.a
      /\ q.tipos[q.i] = "COBRO" => local[r].cambio.pagos = l.monto /\ Flujo(local[r].cambio) = l.monto

MientrasImputa(r) ==
  LET q == recibo[r]
  IN  /\ q.fase \in {"libre", "numerado", "imputando", "operando"}
      /\ q.fase \in {"libre", "numerado"} => q.i = 1 /\ q.movido = 0
      /\ q.fase \in {"imputando", "operando"} => DOMAIN q.tipos = DOMAIN q.lineas
      /\ q.fase = "operando" <=> pc[r] # "inactivo"
      /\ q.fase = "operando" => LineaEnMano(r)

(* The cash that the lines of a receipt that only collects have moved.      *)
MovidoCuadra(r) ==
  LET q == recibo[r]
  IN  SoloCobra(q.tipos) =>
        q.movido = SumFunctionOnSet(Importes(q), Hechas(q))
                     + IF pc[r] = "guardar" THEN q.lineas[q.i].monto ELSE 0

Emision == /\ IsFiniteSet(emitidos)
           /\ \A e \in emitidos : e.lineas \in Seq(Linea)

(* What was recorded for the receipts, emitted or in progress.              *)
CobradoEnCurso(a) == SumFunctionOnSet([r \in Requests |-> Hecho(recibo[r], a)], Requests)
Registrado ==
  \A a \in Asientos : vida[a] # "borrado" =>
    CobradoPorRecibos(a) + CobradoEnCurso(a) <= historial[a].pagos

KInv ==
  /\ Cuadrados
  /\ \A r \in Requests : MientrasImputa(r) /\ MovidoCuadra(r)
  /\ Emision
  /\ CobrosCuadran
  /\ Registrado

----------------------------------------------------------------------------
(* The sums are of natural numbers over finite sets.                        *)
LEMMA LineasFinitas ==
  ASSUME NEW q, q.lineas \in Seq(Linea)
  PROVE  /\ IsFiniteSet(DOMAIN q.lineas)
         /\ \A k \in DOMAIN q.lineas : q.lineas[k] \in Linea /\ q.lineas[k].monto \in Nat \ {0} /\ k \in Nat \ {0}
<1>1. PICK n \in Nat : n = Len(q.lineas) /\ DOMAIN q.lineas = 1 .. n
  OBVIOUS
<1>2. IsFiniteSet(1 .. n)
  BY <1>1, FS_Interval
<1>3. \A k \in 1 .. n : q.lineas[k] \in Linea /\ k \in Nat \ {0}
  BY <1>1
<1>4. \A l \in Linea : l.monto \in Nat \ {0}
  BY DEF Linea
<1>5. QED
  BY <1>1, <1>2, <1>3, <1>4

LEMMA HechoNatural ==
  ASSUME NEW q, q.lineas \in Seq(Linea), NEW a
  PROVE  /\ IsFiniteSet(Hechas(q)) /\ Hechas(q) \subseteq DOMAIN q.lineas
         /\ \A k \in DOMAIN q.lineas : CobradoDe(q, a)[k] \in Nat
         /\ Hecho(q, a) \in Nat /\ SumFunction(CobradoDe(q, a)) \in Nat
<1>1. /\ IsFiniteSet(DOMAIN q.lineas) /\ Hechas(q) \subseteq DOMAIN q.lineas
      /\ \A k \in DOMAIN q.lineas : q.lineas[k].monto \in Nat
  BY LineasFinitas DEF Hechas
<1>2. IsFiniteSet(Hechas(q))
  BY <1>1, FS_Subset
<1>3. PICK f, H, D : f = CobradoDe(q, a) /\ H = Hechas(q) /\ D = DOMAIN q.lineas
  OBVIOUS
<1>4. DOMAIN f = D /\ \A k \in D : f[k] \in Nat
  BY <1>1, <1>3 DEF CobradoDe
<1>5. SumFunctionOnSet(f, H) \in Nat /\ SumFunctionOnSet(f, D) \in Nat
  BY <1>1, <1>2, <1>3, <1>4, SumaNatural
<1>6. QED
  BY <1>1, <1>2, <1>3, <1>4, <1>5 DEF Hecho, SumFunction

(* Nothing done before the first line.                                      *)
LEMMA NadaHecho ==
  ASSUME NEW q, q.i = 1, q.lineas \in Seq(Linea), NEW f
  PROVE  Hechas(q) = {} /\ SumFunctionOnSet(f, Hechas(q)) = 0
<1>1. Hechas(q) = {}
  BY LineasFinitas DEF Hechas
<1>2. QED
  BY <1>1, SumaVacia

(* One more line.                                                           *)
LEMMA UnaLineaMas ==
  ASSUME NEW q, NEW p, q.lineas \in Seq(Linea), p.lineas = q.lineas, q.i \in DOMAIN q.lineas, p.i = q.i + 1,
         NEW f, \A k \in DOMAIN q.lineas : f[k] \in Int
  PROVE  SumFunctionOnSet(f, Hechas(p)) = f[q.i] + SumFunctionOnSet(f, Hechas(q))
<1>1. PICK H, i : H = Hechas(q) /\ i = q.i
  OBVIOUS
<1>2. IsFiniteSet(H) /\ H \subseteq DOMAIN q.lineas /\ i \in Nat
  BY <1>1, HechoNatural, LineasFinitas
<1>3. i \notin H /\ Hechas(p) = H \cup {i}
  <2>1. \A k \in DOMAIN q.lineas : k < i + 1 <=> k < i \/ k = i
    BY <1>2, LineasFinitas
  <2>2. QED
    BY <1>1, <1>2, <2>1 DEF Hechas
<1>4. Enteros(f, H) /\ f[i] \in Int
  BY <1>1, <1>2 DEF Enteros
<1>5. QED
  BY <1>1, <1>2, <1>3, <1>4, SumaMas

----------------------------------------------------------------------------
(* The receipts emitted, and one more.                                      *)
CobradoEn(E, a) == SumFunction([e \in E |-> SumFunction(CobradoDe(e, a))])

LEMMA CobradoNatural ==
  ASSUME NEW E, IsFiniteSet(E), \A e \in E : e.lineas \in Seq(Linea), NEW a
  PROVE  CobradoEn(E, a) \in Nat
<1>1. PICK F : F = [e \in E |-> SumFunction(CobradoDe(e, a))]
  OBVIOUS
<1>2. DOMAIN F = E /\ \A e \in E : F[e] \in Nat
  BY <1>1, HechoNatural
<1>3. SumFunctionOnSet(F, E) \in Nat
  BY <1>2, SumaNatural
<1>4. QED
  BY <1>1, <1>2, <1>3 DEF CobradoEn, SumFunction

LEMMA CobradoConUnoMas ==
  ASSUME NEW E, IsFiniteSet(E), \A e \in E : e.lineas \in Seq(Linea), NEW a,
         NEW n, n \notin E, n.lineas \in Seq(Linea)
  PROVE  CobradoEn(E \cup {n}, a) = CobradoEn(E, a) + SumFunction(CobradoDe(n, a))
<1>1. PICK G : G = E \cup {n}
  OBVIOUS
<1>2. PICK F, H : /\ F = [e \in E |-> SumFunction(CobradoDe(e, a))]
                  /\ H = [e \in G |-> SumFunction(CobradoDe(e, a))]
  OBVIOUS
<1>3. DOMAIN F = E /\ DOMAIN H = G /\ \A e \in G : H[e] \in Nat /\ H[e] = SumFunction(CobradoDe(e, a))
  BY <1>1, <1>2, HechoNatural
<1>4. Enteros(H, E) /\ H[n] \in Int /\ \A e \in E : H[e] = F[e]
  <2>1. \A e \in E : F[e] = SumFunction(CobradoDe(e, a)) /\ e \in G
    BY <1>1, <1>2
  <2>2. n \in G /\ \A e \in G : H[e] \in Int
    BY <1>1, <1>3
  <2>3. QED
    BY <1>3, <2>1, <2>2 DEF Enteros
<1>5. SumFunctionOnSet(H, G) = H[n] + SumFunctionOnSet(H, E)
  BY <1>1, <1>4, SumaMas
<1>6. SumFunctionOnSet(H, E) = SumFunctionOnSet(F, E) /\ SumFunctionOnSet(H, E) \in Int
  BY <1>4, SumaIgual, SumaEntera
<1>7. CobradoEn(G, a) = SumFunctionOnSet(H, G) /\ CobradoEn(E, a) = SumFunctionOnSet(F, E)
  BY <1>2, <1>3 DEF CobradoEn, SumFunction
<1>8. QED
  BY <1>1, <1>3, <1>4, <1>5, <1>6, <1>7

(* The request r goes from its line to the next, or ends.                   *)
LEMMA CambiaLoCobrado ==
  ASSUME RInv, NEW r \in Requests, NEW q, recibo' = [recibo EXCEPT ![r] = q],
         q.lineas \in Seq(Linea), NEW a
  PROVE  /\ CobradoEnCurso(a)' = CobradoEnCurso(a) + (Hecho(q, a) - Hecho(recibo[r], a))
         /\ CobradoEnCurso(a) \in Int /\ Hecho(q, a) \in Nat /\ Hecho(recibo[r], a) \in Nat
<1>1. /\ recibo'[r] = q /\ \A s \in Requests : s # r => recibo'[s] = recibo[s]
      /\ \A s \in Requests : recibo[s].lineas \in Seq(Linea)
  BY DEF RInv, EnMarcha
<1>2. PICK F, G : /\ F = [s \in Requests |-> Hecho(recibo[s], a)]
                  /\ G = [s \in Requests |-> Hecho(recibo'[s], a)]
  OBVIOUS
<1>3. Enteros(F, Requests) /\ G[r] = Hecho(q, a) /\ G[r] \in Nat /\ F[r] = Hecho(recibo[r], a)
      /\ F[r] \in Nat
  <2>1. Hecho(q, a) \in Nat
    BY HechoNatural
  <2>2. \A s \in Requests : Hecho(recibo[s], a) \in Nat
    BY <1>1, HechoNatural
  <2>3. \A s \in Requests : F[s] = Hecho(recibo[s], a) /\ G[s] = Hecho(recibo'[s], a)
    BY <1>2
  <2>4. \A s \in Requests : F[s] \in Int
    BY <2>2, <2>3
  <2>5. QED
    BY <1>1, <2>1, <2>2, <2>3, <2>4 DEF Enteros
<1>4. \A s \in Requests \ {r} : G[s] = F[s]
  BY <1>1, <1>2
<1>5. SumFunctionOnSet(G, Requests) = SumFunctionOnSet(F, Requests) + (G[r] - F[r])
      /\ SumFunctionOnSet(F, Requests) \in Int
  BY <1>3, <1>4, RequestsAssumption, SumaCambia
<1>6. CobradoEnCurso(a) = SumFunctionOnSet(F, Requests) /\ CobradoEnCurso(a)' = SumFunctionOnSet(G, Requests)
  BY <1>2 DEF CobradoEnCurso, Hecho, CobradoDe, Hechas
<1>7. QED
  BY <1>3, <1>5, <1>6

(* What a step of r adds to what is recorded in the receipts, it adds to    *)
(* the history of the entry.                                                *)
LEMMA SigueRegistrado ==
  ASSUME RInv, IInv', KInv, NEW r \in Requests, NEW q, recibo' = [recibo EXCEPT ![r] = q],
         q.lineas \in Seq(Linea), emitidos' = emitidos,
         \A a \in Asientos : vida'[a] # "borrado" =>
           /\ vida[a] # "borrado"
           /\ Hecho(q, a) - Hecho(recibo[r], a) <= historial'[a].pagos - historial[a].pagos
  PROVE  Registrado'
<1> SUFFICES ASSUME NEW a \in Asientos, vida'[a] # "borrado"
             PROVE  CobradoPorRecibos(a)' + CobradoEnCurso(a)' <= historial'[a].pagos
  BY DEF Registrado
<1>1. CobradoEnCurso(a)' = CobradoEnCurso(a) + (Hecho(q, a) - Hecho(recibo[r], a))
      /\ CobradoEnCurso(a) \in Int /\ Hecho(q, a) \in Nat /\ Hecho(recibo[r], a) \in Nat
  BY CambiaLoCobrado
<1>2. CobradoPorRecibos(a) = CobradoEn(emitidos, a) /\ CobradoPorRecibos(a)' = CobradoPorRecibos(a)
  BY DEF CobradoPorRecibos, CobradoEn
<1>3. CobradoPorRecibos(a) \in Nat
  BY <1>2, CobradoNatural DEF KInv, Emision
<1>4. CobradoPorRecibos(a) + CobradoEnCurso(a) <= historial[a].pagos
  BY DEF KInv, Registrado
<1>5. historial[a].pagos \in Nat /\ historial'[a].pagos \in Nat
  BY DEF RInv, IInv, TypeOK, Historial
<1>6. QED
  BY <1>1, <1>2, <1>3, <1>4, <1>5

(* The other requests stay as they are.                                     *)
LosDemas(r) == \A s \in Requests \ {r} : pc'[s] = pc[s] /\ local'[s] = local[s]

LEMMA PasoK ==
  ASSUME RInv, KInv, NEW r \in Requests, NEW q, recibo' = [recibo EXCEPT ![r] = q], LosDemas(r),
         Cuadrados', MientrasImputa(r)', MovidoCuadra(r)', Emision', CobrosCuadran', Registrado'
  PROVE  KInv'
<1>1. \A s \in Requests \ {r} : recibo'[s] = recibo[s] /\ pc'[s] = pc[s] /\ local'[s] = local[s]
  BY DEF RInv, LosDemas
<1>2. \A s \in Requests \ {r} : MientrasImputa(s)' /\ MovidoCuadra(s)'
  <2> TAKE s \in Requests \ {r}
  <2>1. MientrasImputa(s) /\ MovidoCuadra(s)
    BY DEF KInv
  <2>2. MientrasImputa(s)'
    BY <1>1, <2>1 DEF MientrasImputa, LineaEnMano
  <2>3. MovidoCuadra(s)'
    BY <1>1, <2>1 DEF MovidoCuadra, Importes, Hechas
  <2>4. QED
    BY <2>2, <2>3
<1>3. QED
  BY <1>2 DEF KInv

----------------------------------------------------------------------------
(* A request at its first line has done nothing.                            *)
LEMMA PrimeraLinea ==
  ASSUME NEW q, q.lineas \in Seq(Linea), q.i = 1
  PROVE  SumFunctionOnSet(Importes(q), Hechas(q)) = 0 /\ \A a : Hecho(q, a) = 0
<1>1. ASSUME NEW f PROVE SumFunctionOnSet(f, Hechas(q)) = 0
  BY NadaHecho
<1>2. QED
  BY <1>1 DEF Hecho

LEMMA MismasLineas ==
  ASSUME NEW q, NEW p, p.lineas = q.lineas, p.tipos = q.tipos
  PROVE  /\ Importes(p) = Importes(q) /\ \A a : CobradoDe(p, a) = CobradoDe(q, a)
         /\ p.i = q.i => Hechas(p) = Hechas(q) /\ \A a : Hecho(p, a) = Hecho(q, a)
BY DEF Importes, CobradoDe, Hechas, Hecho

LEMMA LibreSinLineas ==
  Libre.lineas \in Seq(Linea) /\ Libre.i = 1 /\ Libre.movido = 0 /\ Libre.fase = "libre"
BY DEF Libre

(* A request that ends, or that waits for its number.                       *)
LEMMA AlPrincipio ==
  ASSUME NEW r, (recibo[r].i = 1 /\ recibo[r].movido = 0 /\ recibo[r].lineas \in Seq(Linea))',
         (pc[r] = "inactivo" /\ recibo[r].fase \in {"libre", "numerado", "imputando"})',
         (recibo[r].fase = "imputando" => DOMAIN recibo[r].tipos = DOMAIN recibo[r].lineas)'
  PROVE  MientrasImputa(r)' /\ MovidoCuadra(r)'
<1>1. PICK q : q = recibo'[r]
  OBVIOUS
<1>2. q.movido = SumFunctionOnSet(Importes(q), Hechas(q)) + 0 /\ pc'[r] # "guardar"
  <2>1. SumFunctionOnSet(Importes(q), Hechas(q)) = 0 /\ q.movido = 0
    BY <1>1, PrimeraLinea
  <2>2. QED
    BY <2>1
<1>3. MovidoCuadra(r)'
  BY <1>1, <1>2 DEF MovidoCuadra, Importes, Hechas
<1>4. MientrasImputa(r)'
  BY DEF MientrasImputa
<1>5. QED
  BY <1>3, <1>4

LEMMA InitKInv == RInit => KInv
<1> SUFFICES ASSUME RInit PROVE KInv
  OBVIOUS
<1>1. Cuadrados
  BY CuadreAssumption, MoldeOK DEF RInit, Init, Cuadrados
<1>2. ASSUME NEW r \in Requests
      PROVE  MientrasImputa(r) /\ MovidoCuadra(r)
  <2>1. recibo[r] = Libre /\ pc[r] = "inactivo"
    BY DEF RInit, Init
  <2>2. SumFunctionOnSet(Importes(Libre), Hechas(Libre)) = 0
    BY LibreSinLineas, PrimeraLinea
  <2>3. MovidoCuadra(r)
    BY <2>1, <2>2, LibreSinLineas DEF MovidoCuadra
  <2>4. MientrasImputa(r)
    BY <2>1, LibreSinLineas DEF MientrasImputa
  <2>5. QED
    BY <2>3, <2>4
<1>3. emitidos = {} /\ Emision /\ CobrosCuadran
  BY FS_EmptySet DEF RInit, Emision, CobrosCuadran
<1>4. ASSUME NEW a \in Asientos
      PROVE  CobradoPorRecibos(a) + CobradoEnCurso(a) <= historial[a].pagos
  <2>1. PICK f : f = [e \in emitidos |-> SumFunction(CobradoDe(e, a))]
    OBVIOUS
  <2>2. CobradoPorRecibos(a) = 0
    <3>1. DOMAIN f = {} /\ SumFunctionOnSet(f, {}) = 0
      BY <1>3, <2>1, SumaVacia
    <3>2. QED
      BY <2>1, <3>1 DEF CobradoPorRecibos, SumFunction
  <2>3. PICK g : g = [r \in Requests |-> Hecho(recibo[r], a)]
    OBVIOUS
  <2>4. \A r \in Requests : g[r] = 0
    BY <2>3, LibreSinLineas, PrimeraLinea DEF RInit
  <2>5. SumFunctionOnSet(g, Requests) = 0
    <3>1. SumFunctionOnSet(g, Requests) = 0 * Cardinality(Requests)
      BY <2>4, RequestsAssumption, SumaConstante
    <3>2. Cardinality(Requests) \in Nat
      BY RequestsAssumption, FS_CardinalityType
    <3>3. QED
      BY <3>1, <3>2
  <2>6. CobradoEnCurso(a) = 0
    BY <2>3, <2>5 DEF CobradoEnCurso
  <2>7. historial[a].pagos = 0
    BY DEF RInit, Init, HistorialVacio
  <2>8. QED
    BY <2>2, <2>6, <2>7
<1>5. QED
  BY <1>1, <1>2, <1>3, <1>4 DEF KInv, Registrado

----------------------------------------------------------------------------
(* An aborted receipt leaves what it imputed in the history of the entries. *)
LEMMA AbortarKInv ==
  ASSUME RInv, RInv', KInv, NEW r \in Requests, NEW m, Abortar(r, m), LosDemas(r),
         pc'[r] = "inactivo", UNCHANGED <<vida, asiento, historial>>
  PROVE  KInv'
<1>1. recibo' = [recibo EXCEPT ![r] = Libre] /\ recibo'[r] = Libre /\ emitidos' = emitidos
  BY DEF Abortar, RInv
<1>2. MientrasImputa(r)' /\ MovidoCuadra(r)'
  BY <1>1, LibreSinLineas, AlPrincipio
<1>3. Cuadrados' /\ Emision' /\ CobrosCuadran'
  BY <1>1 DEF KInv, Cuadrados, Emision, CobrosCuadran
<1>4. Registrado'
  <2>1. ASSUME NEW a \in Asientos
        PROVE  Hecho(Libre, a) - Hecho(recibo[r], a) <= historial'[a].pagos - historial[a].pagos
    <3>1. Hecho(Libre, a) = 0 /\ Hecho(recibo[r], a) \in Nat
      BY LibreSinLineas, PrimeraLinea, HechoNatural DEF RInv, EnMarcha
    <3>2. historial[a].pagos \in Nat
      BY DEF RInv, IInv, TypeOK, Historial
    <3>3. QED
      BY <3>1, <3>2
  <2>2. IInv'
    BY DEF RInv
  <2>3. QED
    BY <1>1, <2>1, <2>2, LibreSinLineas, SigueRegistrado
<1>5. QED
  BY <1>1, <1>2, <1>3, <1>4, PasoK

LEMMA TerminarLosDemas ==
  ASSUME RInv, NEW r \in Requests, Terminar(r)
  PROVE  LosDemas(r) /\ pc'[r] = "inactivo"
BY TerminarLocal DEF RInv, IInv, LosDemas

(* The step leaves the ledger as it was, or only moves the balance, and the *)
(* lines done are the same.                                                 *)
LEMMA PasoSinAsiento ==
  ASSUME RInv, RInv', KInv, NEW r \in Requests, NEW q, recibo' = [recibo EXCEPT ![r] = q],
         UNCHANGED <<vida, asiento, historial, emitidos>>, LosDemas(r), q.lineas \in Seq(Linea),
         \A a \in Asientos : Hecho(q, a) = Hecho(recibo[r], a),
         MientrasImputa(r)', MovidoCuadra(r)'
  PROVE  KInv'
<1>1. Cuadrados' /\ Emision' /\ CobrosCuadran'
  BY DEF KInv, Cuadrados, Emision, CobrosCuadran
<1>2. \A a \in Asientos :
        Hecho(q, a) - Hecho(recibo[r], a) <= historial'[a].pagos - historial[a].pagos
  <2> TAKE a \in Asientos
  <2>1. historial[a].pagos \in Nat /\ Hecho(q, a) \in Nat
    BY HechoNatural DEF RInv, IInv, TypeOK, Historial
  <2>2. QED
    BY <2>1
<1>3. IInv'
  BY DEF RInv
<1>4. Registrado'
  BY <1>2, <1>3, SigueRegistrado
<1>5. QED
  BY <1>1, <1>4, PasoK

LEMMA NumerarKInv ==
  ASSUME RInv, RInv', KInv, NEW r \in Requests, NEW dto \in Dtos, Numerar(r, dto)
  PROVE  KInv'
<1>1. PICK q : q = [Libre EXCEPT !.fase = "numerado", !.numero = secuencia', !.lineas = dto.lineas,
                      !.total = dto.total, !.fisico = dto.fisico, !.banco = dto.banco,
                      !.factura = dto.factura]
  OBVIOUS
<1>2. /\ recibo' = [recibo EXCEPT ![r] = q] /\ recibo'[r] = q /\ recibo[r].fase = "libre"
      /\ UNCHANGED <<vida, asiento, historial, emitidos, pc, local>>
  BY <1>1 DEF Numerar, vars, RInv
<1>3. q.fase = "numerado" /\ q.i = 1 /\ q.movido = 0 /\ q.lineas = dto.lineas
  BY <1>1 DEF Libre
<1>4. q.lineas \in Seq(Linea) /\ recibo[r].lineas \in Seq(Linea) /\ recibo[r].i = 1 /\ pc[r] = "inactivo"
  BY <1>2, <1>3, DtosAssumption DEF KInv, MientrasImputa, RInv, EnMarcha
<1>5. \A a \in Asientos : Hecho(q, a) = Hecho(recibo[r], a)
  BY <1>3, <1>4, PrimeraLinea
<1>6. MientrasImputa(r)' /\ MovidoCuadra(r)'
  BY <1>2, <1>3, <1>4, AlPrincipio
<1>7. LosDemas(r)
  BY <1>2 DEF LosDemas
<1>8. QED
  BY <1>2, <1>4, <1>5, <1>6, <1>7, PasoSinAsiento

LEMMA LeerAsientosKInv ==
  ASSUME RInv, RInv', KInv, NEW r \in Requests, LeerAsientos(r)
  PROVE  KInv'
<1>1. /\ recibo[r].fase = "numerado" /\ pc[r] = "inactivo" /\ recibo[r].i = 1 /\ recibo[r].movido = 0
      /\ EnMarcha(recibo[r]) /\ UNCHANGED <<vida, asiento, historial, pc, local>>
  BY DEF LeerAsientos, vars, KInv, MientrasImputa, RInv
<1>2. LosDemas(r)
  BY <1>1 DEF LosDemas
<1>3. CASE Abortar(r, 0)
  BY <1>1, <1>2, <1>3, AbortarKInv
<1>4. ASSUME NEW t, DOMAIN t = DOMAIN recibo[r].lineas,
             recibo' = [recibo EXCEPT ![r].fase = "imputando", ![r].tipos = t],
             UNCHANGED <<secuencia, emitidos, abortado>>
      PROVE  KInv'
  <2>1. PICK q : q = [recibo[r] EXCEPT !.fase = "imputando", !.tipos = t]
    OBVIOUS
  <2>2. recibo' = [recibo EXCEPT ![r] = q] /\ recibo'[r] = q
    BY <1>4, <2>1 DEF RInv
  <2>3. /\ q.fase = "imputando" /\ q.tipos = t /\ q.lineas = recibo[r].lineas /\ q.i = recibo[r].i
        /\ q.movido = recibo[r].movido
    BY <1>1, <2>1 DEF EnMarcha, FormaRecibo, CamposRecibo
  <2>4. q.lineas \in Seq(Linea)
    BY <1>1, <2>3 DEF EnMarcha
  <2>5. \A a \in Asientos : Hecho(q, a) = Hecho(recibo[r], a)
    BY <1>1, <2>3, <2>4, PrimeraLinea
  <2>6. MientrasImputa(r)' /\ MovidoCuadra(r)'
    BY <1>1, <1>4, <2>2, <2>3, <2>4, AlPrincipio
  <2>7. UNCHANGED <<vida, asiento, historial, emitidos>>
    BY <1>1, <1>4
  <2>8. QED
    BY <1>2, <2>2, <2>4, <2>5, <2>6, <2>7, PasoSinAsiento
<1>5. QED
  BY <1>3, <1>4 DEF LeerAsientos

----------------------------------------------------------------------------
(* registerPayment takes no payment of an entry that owes nothing: its two  *)
(* sides add up to the same.  So every COBRO moves its cash.                *)
LEMMA ComenzarPaso ==
  ASSUME TypeOK, NEW r \in Requests, NEW a, NEW n, NEW c, Comenzar(r, a, n, c)
  PROVE  /\ pc[r] = "inactivo" /\ LosDemas(r)
         /\ pc'[r] = IF c.ingresos + c.egresos > 0 THEN "caja" ELSE "guardar"
         /\ local'[r].a = a /\ local'[r].cambio = c
         /\ UNCHANGED <<vida, asiento, historial>>
BY DEF Comenzar, LosDemas, TypeOK, libro

LEMMA CobroMueveCaja ==
  ASSUME TypeOK, Cuadrados, NEW r \in Requests, NEW a \in Asientos, NEW m \in Nat \ {0},
         RegisterPayment(r, a, m)
  PROVE  /\ pc[r] = "inactivo" /\ LosDemas(r) /\ pc'[r] = "caja"
         /\ local'[r].a = a /\ local'[r].cambio.pagos = m /\ Flujo(local'[r].cambio) = m
         /\ UNCHANGED <<vida, asiento, historial>>
<1>1. PICK d, n : d = asiento[a] /\ n = Pagado(d, m)
  OBVIOUS
<1>2. PICK c : c = [pagos |-> m, imputado |-> Menos(n.pagado, d.pagado), liquidado |-> Nada,
                    ingresos |-> IF Total(d.debe) > 0 THEN m ELSE 0, egresos |-> 0]
  OBVIOUS
<1>3. AdmitePago(a, m) /\ Comenzar(r, a, n, c)
  BY <1>1, <1>2 DEF RegisterPayment
<1>4. Total(d.debe) > 0
  <2>1. Total(d.debe) = Total(d.haber) /\ Total(d.debe) \in Nat /\ m <= SaldoPendiente(d)
    BY <1>1, <1>3 DEF AdmitePago, Cuadrados, TypeOK, Documento, Total, Lado
  <2>2. CASE Total(d.debe) = 0
    BY <2>1, <2>2 DEF SaldoPendiente
  <2>3. QED
    BY <2>1, <2>2
<1>5. c.pagos = m /\ c.ingresos = m /\ c.egresos = 0
  BY <1>2, <1>4
<1>6. /\ pc[r] = "inactivo" /\ LosDemas(r)
      /\ pc'[r] = IF c.ingresos + c.egresos > 0 THEN "caja" ELSE "guardar"
      /\ local'[r].a = a /\ local'[r].cambio = c
      /\ UNCHANGED <<vida, asiento, historial>>
  BY <1>3, ComenzarPaso
<1>7. QED
  BY <1>5, <1>6 DEF Flujo

LEMMA LiquidacionEnMano ==
  ASSUME TypeOK, NEW r \in Requests, NEW a \in Asientos, NEW g, NEW m,
         LiquidarAPropietario(r, a, g, m)
  PROVE  /\ pc[r] = "inactivo" /\ LosDemas(r) /\ pc'[r] \in {"caja", "guardar"}
         /\ local'[r].a = a /\ UNCHANGED <<vida, asiento, historial>>
<1>1. PICK n, c : Comenzar(r, a, n, c)
  BY DEF LiquidarAPropietario
<1>2. QED
  BY <1>1, ComenzarPaso

LEMMA ImputacionKInv ==
  ASSUME RInv, RInv', KInv, NEW r \in Requests, Imputacion(r)
  PROVE  KInv'
<1>1. PICK p, q, i, l : /\ p = recibo[r] /\ q = [p EXCEPT !.fase = "operando"] /\ i = p.i
                        /\ l = p.lineas[i]
  OBVIOUS
<1>2. EnMarcha(p) /\ p.fase = "imputando" /\ i \in DOMAIN p.lineas /\ DOMAIN p.tipos = DOMAIN p.lineas
  <2>1. EnMarcha(p) /\ p.fase = "imputando" /\ p.i <= Len(p.lineas)
    BY <1>1 DEF Imputacion, QuedanLineas, RInv
  <2>2. DOMAIN p.tipos = DOMAIN p.lineas
    BY <1>1, <2>1 DEF KInv, MientrasImputa
  <2>3. QED
    BY <1>1, <2>1, <2>2 DEF EnMarcha
<1>3. /\ q.fase = "operando" /\ q.lineas = p.lineas /\ q.tipos = p.tipos /\ q.i = i
      /\ q.movido = p.movido
  BY <1>1, <1>2 DEF EnMarcha, FormaRecibo, CamposRecibo
<1>4. recibo' = [recibo EXCEPT ![r] = q] /\ recibo'[r] = q /\ emitidos' = emitidos
  BY <1>1 DEF Imputacion, RInv
<1>5. p.lineas \in Seq(Linea) /\ l.a \in Asientos /\ l.monto \in Nat \ {0}
  <2>1. p.lineas \in Seq(Linea) /\ l \in Linea
    BY <1>1, <1>2, LineasFinitas DEF EnMarcha
  <2>2. QED
    BY <2>1 DEF Linea
<1>6. TypeOK /\ Cuadrados
  BY DEF RInv, IInv, KInv
<1>7. /\ LosDemas(r) /\ pc[r] = "inactivo" /\ pc'[r] \in {"caja", "guardar"} /\ local'[r].a = l.a
      /\ UNCHANGED <<vida, asiento, historial>>
      /\ p.tipos[i] = "COBRO" => /\ pc'[r] = "caja" /\ local'[r].cambio.pagos = l.monto
                                 /\ Flujo(local'[r].cambio) = l.monto
  <2>1. CASE p.tipos[i] = "COBRO" /\ RegisterPayment(r, l.a, l.monto)
    BY <1>5, <1>6, <2>1, CobroMueveCaja
  <2>2. CASE p.tipos[i] = "PAGO" /\ LiquidarAPropietario(r, l.a, l.agente, l.monto)
    BY <1>5, <1>6, <2>2, LiquidacionEnMano
  <2>3. QED
    BY <1>1, <2>1, <2>2 DEF Imputacion
<1>8. MientrasImputa(r)'
  <2>1. LineaEnMano(r)'
    BY <1>1, <1>2, <1>3, <1>4, <1>7 DEF LineaEnMano, Flujo
  <2>2. QED
    BY <1>2, <1>3, <1>4, <1>7, <2>1 DEF MientrasImputa
<1>9. MovidoCuadra(r)'
  <2>1. ASSUME SoloCobra(q.tipos)
        PROVE  q.movido = SumFunctionOnSet(Importes(q), Hechas(q)) + 0 /\ pc'[r] = "caja"
    <3>1. p.movido = SumFunctionOnSet(Importes(p), Hechas(p)) + 0
      BY <1>1, <1>3, <1>7, <2>1 DEF KInv, MovidoCuadra
    <3>2. pc'[r] = "caja"
      BY <1>2, <1>3, <1>7, <2>1 DEF SoloCobra
    <3>3. q.i = p.i
      BY <1>1, <1>3
    <3>4. Importes(q) = Importes(p) /\ Hechas(q) = Hechas(p)
      BY <1>3, <3>3, MismasLineas
    <3>5. QED
      BY <1>3, <3>1, <3>2, <3>4
  <2>2. QED
    BY <1>4, <2>1 DEF MovidoCuadra, Importes, Hechas
<1>10. \A a \in Asientos : Hecho(q, a) = Hecho(recibo[r], a)
  <2>1. p = recibo[r] /\ q.i = p.i
    BY <1>1, <1>3
  <2>2. QED
    BY <1>3, <2>1, MismasLineas
<1>11. QED
  BY <1>3, <1>4, <1>5, <1>7, <1>8, <1>9, <1>10, PasoSinAsiento

----------------------------------------------------------------------------
(* The rest of a line.                                                      *)
LEMMA MoverCajaKInv ==
  ASSUME RInv, RInv', KInv, NEW r \in Requests, MoverCaja(r)
  PROVE  KInv'
<1>1. PICK p, q, m : /\ p = recibo[r] /\ m = p.movido + Flujo(local[r].cambio)
                     /\ q = [p EXCEPT !.movido = m]
  OBVIOUS
<1>2. /\ pc[r] = "caja" /\ pc' = [pc EXCEPT ![r] = "guardar"] /\ local' = local
      /\ UNCHANGED <<vida, asiento, historial, emitidos>>
  BY DEF MoverCaja, UpdateBalance, libro
<1>3. recibo' = [recibo EXCEPT ![r] = q] /\ recibo'[r] = q
  BY <1>1 DEF MoverCaja, RInv
<1>4. EnMarcha(p) /\ MientrasImputa(r) /\ MovidoCuadra(r) /\ p.fase = "operando"
      /\ DOMAIN p.tipos = DOMAIN p.lineas /\ LineaEnMano(r)
  BY <1>1, <1>2 DEF RInv, KInv, MientrasImputa
<1>5. /\ q.fase = p.fase /\ q.lineas = p.lineas /\ q.tipos = p.tipos /\ q.i = p.i
      /\ q.movido = m
  BY <1>1, <1>4 DEF EnMarcha, FormaRecibo, CamposRecibo
<1>6. LosDemas(r) /\ pc'[r] = "guardar"
  BY <1>2 DEF LosDemas, RInv, IInv, TypeOK
<1>7. MientrasImputa(r)'
  <2>1. LineaEnMano(r)'
    BY <1>1, <1>2, <1>3, <1>4, <1>5 DEF LineaEnMano
  <2>2. QED
    BY <1>3, <1>4, <1>5, <1>6, <2>1 DEF MientrasImputa
<1>8. p.lineas \in Seq(Linea)
  BY <1>4 DEF EnMarcha
<1>9. MovidoCuadra(r)'
  <2>1. ASSUME SoloCobra(q.tipos)
        PROVE  q.movido = SumFunctionOnSet(Importes(q), Hechas(q)) + q.lineas[q.i].monto
    <3>1. PICK s : s = SumFunctionOnSet(Importes(p), Hechas(p))
      OBVIOUS
    <3>2. p.movido = s + 0
      BY <1>1, <1>2, <1>4, <1>5, <2>1, <3>1 DEF MovidoCuadra
    <3>3. s \in Nat
      <4>1. PICK f, H : f = Importes(p) /\ H = Hechas(p)
        OBVIOUS
      <4>2. IsFiniteSet(H) /\ H \subseteq DOMAIN p.lineas
        BY <1>8, <4>1, HechoNatural
      <4>3. \A k \in H : f[k] \in Nat
        BY <1>8, <4>1, <4>2, LineasFinitas DEF Importes
      <4>4. QED
        BY <3>1, <4>1, <4>2, <4>3, SumaNatural
    <3>4. Flujo(local[r].cambio) = p.lineas[p.i].monto
      BY <1>1, <1>4, <1>5, <2>1 DEF LineaEnMano, SoloCobra
    <3>5. SumFunctionOnSet(Importes(q), Hechas(q)) = s
      BY <1>5, <3>1, MismasLineas
    <3>6. QED
      BY <1>1, <1>5, <3>2, <3>3, <3>4, <3>5
  <2>2. QED
    BY <1>3, <1>6, <2>1 DEF MovidoCuadra, Importes, Hechas
<1>10. \A a \in Asientos : Hecho(q, a) = Hecho(recibo[r], a)
  <2>1. p = recibo[r]
    BY <1>1
  <2>2. QED
    BY <1>5, <2>1, MismasLineas
<1>11. QED
  BY <1>2, <1>3, <1>5, <1>6, <1>7, <1>8, <1>9, <1>10, PasoSinAsiento

LEMMA GuardarLineaKInv ==
  ASSUME RInv, RInv', KInv, NEW r \in Requests, GuardarLinea(r)
  PROVE  KInv'
<1>1. PICK p, q, i : /\ p = recibo[r] /\ i = p.i
                     /\ q = [p EXCEPT !.fase = "imputando", !.i = i + 1]
  OBVIOUS
<1>2. /\ p.fase = "operando" /\ pc[r] = "guardar" /\ Terminar(r) /\ Save(r)
      /\ vida' = vida /\ emitidos' = emitidos
  BY <1>1 DEF GuardarLinea, Save
<1>3. recibo' = [recibo EXCEPT ![r] = q] /\ recibo'[r] = q
  BY <1>1 DEF GuardarLinea, RInv
<1>4. EnMarcha(p) /\ MientrasImputa(r) /\ MovidoCuadra(r) /\ LineaEnMano(r)
      /\ DOMAIN p.tipos = DOMAIN p.lineas /\ i \in DOMAIN p.lineas
  BY <1>1, <1>2 DEF RInv, KInv, MientrasImputa, LineaEnMano
<1>5. /\ q.fase = "imputando" /\ q.lineas = p.lineas /\ q.tipos = p.tipos /\ q.i = i + 1
      /\ q.movido = p.movido
  BY <1>1, <1>4 DEF EnMarcha, FormaRecibo, CamposRecibo
<1>6. LosDemas(r) /\ pc'[r] = "inactivo"
  BY <1>2, TerminarLosDemas
<1>7. MientrasImputa(r)'
  BY <1>3, <1>4, <1>5, <1>6 DEF MientrasImputa
<1>8. p.lineas \in Seq(Linea) /\ p.lineas[i].monto \in Nat /\ p.lineas[i].a \in Asientos
  <2>1. p.lineas \in Seq(Linea) /\ p.lineas[i] \in Linea
    BY <1>4, LineasFinitas DEF EnMarcha
  <2>2. QED
    BY <2>1 DEF Linea
<1>8a. p.i \in DOMAIN p.lineas /\ q.i = p.i + 1
  BY <1>1, <1>4, <1>5
<1>9. MovidoCuadra(r)'
  <2>1. ASSUME SoloCobra(q.tipos)
        PROVE  q.movido = SumFunctionOnSet(Importes(q), Hechas(q)) + 0
    <3>1. PICK f, s : f = Importes(p) /\ s = SumFunctionOnSet(f, Hechas(p))
      OBVIOUS
    <3>2. p.movido = s + p.lineas[i].monto
      BY <1>1, <1>2, <1>4, <1>5, <2>1, <3>1 DEF MovidoCuadra
    <3>3. \A k \in DOMAIN p.lineas : f[k] \in Nat
      BY <1>8, <3>1, LineasFinitas DEF Importes
    <3>4. s \in Nat
      <4>1. PICK H : H = Hechas(p)
        OBVIOUS
      <4>2. IsFiniteSet(H) /\ H \subseteq DOMAIN p.lineas
        BY <1>8, <4>1, HechoNatural
      <4>3. QED
        BY <3>1, <3>3, <4>1, <4>2, SumaNatural
    <3>5. SumFunctionOnSet(f, Hechas(q)) = f[i] + s
      <4>1. \A k \in DOMAIN p.lineas : f[k] \in Int
        BY <3>3
      <4>2. SumFunctionOnSet(f, Hechas(q)) = f[p.i] + SumFunctionOnSet(f, Hechas(p))
        BY <1>5, <1>8, <1>8a, <4>1, UnaLineaMas
      <4>3. QED
        BY <1>1, <3>1, <4>2
    <3>6. f[i] = p.lineas[i].monto /\ Importes(q) = f
      BY <1>4, <1>5, <3>1, MismasLineas DEF Importes
    <3>7. QED
      BY <1>5, <1>8, <3>2, <3>4, <3>5, <3>6
  <2>2. QED
    BY <1>3, <1>6, <2>1 DEF MovidoCuadra, Importes, Hechas
<1>10. Cuadrados' /\ Emision' /\ CobrosCuadran'
  <2>1. Cuadrados'
    BY <1>2, SaveCuadrados DEF RInv, IInv, KInv
  <2>2. QED
    BY <1>2, <2>1 DEF KInv, Emision, CobrosCuadran
<1>11. ASSUME NEW a \in Asientos
       PROVE  Hecho(q, a) - Hecho(recibo[r], a) <= historial'[a].pagos - historial[a].pagos
  <2>1. PICK f : f = CobradoDe(p, a)
    OBVIOUS
  <2>2. \A k \in DOMAIN p.lineas : f[k] \in Nat /\ f[k] \in Int
    BY <1>8, <2>1, HechoNatural
  <2>3. Hecho(q, a) = f[i] + Hecho(p, a) /\ f[i] \in Nat /\ Hecho(p, a) \in Nat
    <3>1. SumFunctionOnSet(f, Hechas(q)) = f[p.i] + SumFunctionOnSet(f, Hechas(p))
      BY <1>5, <1>8, <1>8a, <2>2, UnaLineaMas
    <3>2. CobradoDe(q, a) = f
      BY <1>5, <2>1, MismasLineas
    <3>3. Hecho(p, a) \in Nat
      BY <1>8, HechoNatural
    <3>4. QED
      BY <1>1, <1>4, <2>1, <2>2, <3>1, <3>2, <3>3 DEF Hecho
  <2>4. PICK l, c : l = local[r].a /\ c = local[r].cambio
    OBVIOUS
  <2>5. /\ l = p.lineas[i].a /\ l \in Asientos /\ c.pagos \in Nat
        /\ p.tipos[i] = "COBRO" => c.pagos = p.lineas[i].monto
        /\ historial[a].pagos \in Nat /\ historial \in [Asientos -> Historial]
    BY <1>1, <1>4, <2>4 DEF LineaEnMano, RInv, IInv, TypeOK, Local, Historial
  <2>6. historial' = [historial EXCEPT ![l] = Push(historial[l], c)]
    BY <2>4, <2>5 DEF GuardarLinea, Save
  <2>7. historial'[a].pagos = historial[a].pagos + IF a = l THEN c.pagos ELSE 0
    BY <2>5, <2>6 DEF Push
  <2>8. f[i] = IF p.tipos[i] = "COBRO" /\ l = a THEN p.lineas[i].monto ELSE 0
    BY <1>4, <2>1, <2>5 DEF CobradoDe
  <2>9. f[i] <= IF a = l THEN c.pagos ELSE 0
    BY <2>5, <2>8
  <2>10. QED
    BY <1>1, <2>3, <2>5, <2>7, <2>9
<1>12. Registrado'
  <2>1. IInv' /\ \A a \in Asientos : vida'[a] # "borrado" => vida[a] # "borrado"
    BY <1>2 DEF RInv
  <2>2. QED
    BY <1>2, <1>3, <1>5, <1>8, <1>11, <2>1, SigueRegistrado
<1>13. QED
  BY <1>3, <1>6, <1>7, <1>9, <1>10, <1>12, PasoK

----------------------------------------------------------------------------
(* The ways a receipt ends without being emitted.                           *)
LEMMA LineaFallidaKInv ==
  ASSUME RInv, RInv', KInv, NEW r \in Requests, LineaFallida(r) \/ CaidaEnLinea(r)
  PROVE  KInv'
<1>1. Terminar(r) /\ UNCHANGED <<vida, asiento, historial>> /\ Abortar(r, recibo[r].movido)
  BY DEF LineaFallida, CaidaEnLinea, CuentaNoEncontrada, SaveNoEncontrado, Caida, Perder, libro
<1>2. QED
  BY <1>1, TerminarLosDemas, AbortarKInv

LEMMA SinLineaKInv ==
  ASSUME RInv, RInv', KInv, NEW r \in Requests,
         ImputacionRechazada(r) \/ EmisionRechazada(r) \/ FallaSesion(r)
  PROVE  KInv'
<1>1. /\ recibo[r].fase = "imputando" /\ Abortar(r, recibo[r].movido)
      /\ UNCHANGED <<vida, asiento, historial, pc, local>>
  BY DEF ImputacionRechazada, EmisionRechazada, FallaSesion, QuedanLineas, LineasCompletas, vars, libro
<1>2. LosDemas(r) /\ pc'[r] = "inactivo"
  BY <1>1 DEF LosDemas, KInv, MientrasImputa
<1>3. QED
  BY <1>1, <1>2, AbortarKInv

----------------------------------------------------------------------------
(* The receipt is stored with all its lines done.                           *)
LEMMA NetoDeCobros ==
  ASSUME NEW q, q.lineas \in Seq(Linea), DOMAIN q.tipos = DOMAIN q.lineas, SoloCobra(q.tipos)
  PROVE  Neto(q) = SumFunctionOnSet(Importes(q), DOMAIN q.lineas)
<1>1. PICK D, f, g, z : /\ D = DOMAIN q.lineas /\ f = Importes(q)
                        /\ g = [i \in DOMAIN q.lineas |-> IF "COBRO" = q.tipos[i] THEN q.lineas[i].monto ELSE 0]
                        /\ z = [i \in DOMAIN q.lineas |-> IF "PAGO" = q.tipos[i] THEN q.lineas[i].monto ELSE 0]
  OBVIOUS
<1>2. IsFiniteSet(D) /\ DOMAIN g = D /\ DOMAIN z = D
  BY <1>1, LineasFinitas
<1>3. \A k \in D : q.tipos[k] = "COBRO"
  BY <1>1 DEF SoloCobra
<1>4. g = f /\ \A k \in D : z[k] = 0
  BY <1>1, <1>3 DEF Importes
<1>5. SumFunctionOnSet(z, D) = 0
  <2>1. SumFunctionOnSet(z, D) = 0 * Cardinality(D)
    BY <1>2, <1>4, SumaConstante
  <2>2. Cardinality(D) \in Nat
    BY <1>2, FS_CardinalityType
  <2>3. QED
    BY <2>1, <2>2
<1>6. \A k \in D : f[k] \in Nat
  BY <1>1, LineasFinitas DEF Importes
<1>7. SumFunctionOnSet(f, D) \in Nat
  BY <1>2, <1>6, SumaNatural
<1>8. Suma(q, "COBRO") = SumFunctionOnSet(f, D) /\ Suma(q, "PAGO") = 0
  BY <1>1, <1>2, <1>4, <1>5 DEF Suma, SumFunction
<1>9. QED
  BY <1>1, <1>7, <1>8 DEF Neto

LEMMA EmitirKInv ==
  ASSUME RInv, RInv', KInv, NEW r \in Requests, Emitir(r)
  PROVE  KInv'
<1>1. PICK q, n : /\ q = recibo[r] /\ n = Neto(q)
  OBVIOUS
<1>2. PICK e : e = [numero |-> q.numero, neto |-> n, lineas |-> q.lineas, tipos |-> q.tipos,
                    movido |-> q.movido]
  OBVIOUS
<1>3. /\ q.fase = "imputando" /\ q.i > Len(q.lineas) /\ emitidos' = emitidos \cup {e}
      /\ recibo' = [recibo EXCEPT ![r] = Libre] /\ Facturar(q)
      /\ UNCHANGED <<vida, historial, pc, local>>
  BY <1>1, <1>2 DEF Emitir, LineasCompletas
<1>4. /\ e.numero = q.numero /\ e.neto = n /\ e.lineas = q.lineas /\ e.tipos = q.tipos
      /\ e.movido = q.movido
  BY <1>2
<1>5. EnMarcha(q) /\ MientrasImputa(r) /\ MovidoCuadra(r) /\ pc[r] = "inactivo"
      /\ DOMAIN q.tipos = DOMAIN q.lineas
  BY <1>1, <1>3 DEF RInv, KInv, MientrasImputa
<1>6. q.lineas \in Seq(Linea) /\ q.i \in Nat /\ recibo'[r] = Libre
  BY <1>3, <1>5 DEF EnMarcha, RInv
<1>7. Hechas(q) = DOMAIN q.lineas
  <2>1. DOMAIN q.lineas = 1 .. Len(q.lineas) /\ Len(q.lineas) \in Nat
    BY <1>6
  <2>2. QED
    BY <1>3, <1>6, <2>1 DEF Hechas
<1>8. LosDemas(r) /\ pc'[r] = "inactivo"
  BY <1>3, <1>5 DEF LosDemas
<1>9. MientrasImputa(r)' /\ MovidoCuadra(r)'
  BY <1>6, <1>8, LibreSinLineas, AlPrincipio
<1>10. Cuadrados'
  <2>1. \A a \in Asientos : asiento[a] \in Documento
    BY DEF RInv, IInv, TypeOK
  <2>2. \A a \in Asientos : asiento'[a].debe = asiento[a].debe /\ asiento'[a].haber = asiento[a].haber
    BY <1>3, <2>1 DEF Facturar, Documento
  <2>3. QED
    BY <2>2 DEF KInv, Cuadrados
<1>11. Emision'
  <2>1. IsFiniteSet(emitidos')
    BY <1>3, FS_AddElement DEF KInv, Emision
  <2>2. QED
    BY <1>3, <1>4, <1>6, <2>1 DEF KInv, Emision
<1>12. CobrosCuadran'
  <2>1. ASSUME SoloCobra(q.tipos) PROVE n = q.movido
    <3>1. PICK s : s = SumFunctionOnSet(Importes(q), Hechas(q))
      OBVIOUS
    <3>2. q.movido = s + 0
      BY <1>1, <1>5, <2>1, <3>1 DEF MovidoCuadra
    <3>3. n = s
      BY <1>1, <1>5, <1>6, <1>7, <2>1, <3>1, NetoDeCobros
    <3>4. s \in Nat
      <4>1. PICK f, D : f = Importes(q) /\ D = DOMAIN q.lineas
        OBVIOUS
      <4>2. IsFiniteSet(D) /\ \A k \in D : f[k] \in Nat
        BY <1>6, <4>1, LineasFinitas DEF Importes
      <4>3. QED
        BY <1>7, <3>1, <4>1, <4>2, SumaNatural
    <3>5. QED
      BY <3>2, <3>3, <3>4
  <2>2. QED
    BY <1>3, <1>4, <2>1 DEF KInv, CobrosCuadran, SoloCobra
<1>13. ASSUME NEW a \in Asientos, vida'[a] # "borrado"
       PROVE  CobradoPorRecibos(a)' + CobradoEnCurso(a)' <= historial'[a].pagos
  <2>1. CobradoEnCurso(a)' = CobradoEnCurso(a) + (Hecho(Libre, a) - Hecho(q, a))
        /\ CobradoEnCurso(a) \in Int /\ Hecho(q, a) \in Nat
    BY <1>1, <1>3, LibreSinLineas, CambiaLoCobrado
  <2>2. Hecho(Libre, a) = 0
    BY LibreSinLineas, PrimeraLinea
  <2>3. e \notin emitidos /\ e.lineas \in Seq(Linea)
    <3>1. r \in Numerados
      BY <1>1, <1>3 DEF Numerados
    <3>2. \A x \in emitidos : x.numero # e.numero
      BY <1>1, <1>4, <3>1 DEF RInv, Numeracion
    <3>3. QED
      BY <1>4, <1>6, <3>2
  <2>4. IsFiniteSet(emitidos) /\ \A x \in emitidos : x.lineas \in Seq(Linea)
    BY DEF KInv, Emision
  <2>5. CobradoEn(emitidos \cup {e}, a) = CobradoEn(emitidos, a) + SumFunction(CobradoDe(e, a))
    BY <2>3, <2>4, CobradoConUnoMas
  <2>6. SumFunction(CobradoDe(e, a)) = Hecho(q, a)
    <3>1. CobradoDe(e, a) = CobradoDe(q, a) /\ DOMAIN CobradoDe(q, a) = DOMAIN q.lineas
      BY <1>4, MismasLineas DEF CobradoDe
    <3>2. QED
      BY <1>7, <3>1 DEF Hecho, SumFunction
  <2>7. CobradoEn(emitidos, a) \in Nat
    BY <2>4, CobradoNatural
  <2>8. CobradoPorRecibos(a) = CobradoEn(emitidos, a)
    BY DEF CobradoPorRecibos, CobradoEn
  <2>9. CobradoPorRecibos(a)' = CobradoEn(emitidos \cup {e}, a)
    BY <1>3 DEF CobradoPorRecibos, CobradoEn
  <2>10. CobradoPorRecibos(a) + CobradoEnCurso(a) <= historial[a].pagos
    BY <1>3, <1>13 DEF KInv, Registrado
  <2>11. historial'[a].pagos = historial[a].pagos
    BY <1>3
  <2>12. QED
    BY <2>1, <2>2, <2>5, <2>6, <2>7, <2>8, <2>9, <2>10, <2>11
<1>14. Registrado'
  BY <1>13 DEF Registrado
<1>15. QED
  BY <1>3, <1>8, <1>9, <1>10, <1>11, <1>12, <1>14, PasoK

----------------------------------------------------------------------------
(* The steps of the ledger alone.                                           *)
LEMMA SinReciboKInv ==
  ASSUME KInv, UNCHANGED recibosVars, UNCHANGED <<pc, local>>, Cuadrados',
         \A a \in Asientos : vida'[a] # "borrado" => vida[a] # "borrado" /\ historial'[a] = historial[a]
  PROVE  KInv'
<1>1. recibo' = recibo /\ emitidos' = emitidos
  BY DEF recibosVars
<1>2. \A r \in Requests : MientrasImputa(r)' /\ MovidoCuadra(r)'
  <2> TAKE r \in Requests
  <2>1. MientrasImputa(r) /\ MovidoCuadra(r)
    BY DEF KInv
  <2>2. MientrasImputa(r)'
    BY <1>1, <2>1 DEF MientrasImputa, LineaEnMano
  <2>3. MovidoCuadra(r)'
    BY <1>1, <2>1 DEF MovidoCuadra, Importes, Hechas
  <2>4. QED
    BY <2>2, <2>3
<1>3. Emision' /\ CobrosCuadran'
  BY <1>1 DEF KInv, Emision, CobrosCuadran
<1>4. Registrado'
  <2>1. \A a \in Asientos : /\ CobradoPorRecibos(a)' = CobradoPorRecibos(a)
                            /\ CobradoEnCurso(a)' = CobradoEnCurso(a)
    BY <1>1 DEF CobradoPorRecibos, CobradoEnCurso, Hecho, CobradoDe, Hechas
  <2>2. QED
    BY <2>1 DEF KInv, Registrado
<1>5. QED
  BY <1>2, <1>3, <1>4 DEF KInv

LEMMA NextKInv == RInv /\ RInv' /\ KInv /\ [RNext]_todo => KInv'
<1> SUFFICES ASSUME RInv, RInv', KInv, [RNext]_todo
             PROVE  KInv'
  OBVIOUS
<1>1. CASE UNCHANGED todo
  <2>1. UNCHANGED recibosVars /\ UNCHANGED <<vida, asiento, historial, pc, local>>
    BY <1>1 DEF todo, vars
  <2>2. Cuadrados'
    BY <2>1 DEF KInv, Cuadrados
  <2>3. QED
    BY <2>1, <2>2, SinReciboKInv
<1>2. ASSUME NEW a \in Asientos, NEW p \in Plantillas, Create(a, p), UNCHANGED recibosVars
      PROVE  KInv'
  <2>1. Cuadrados'
    BY <1>2, CreateCuadrados DEF RInv, IInv, KInv
  <2>2. /\ vida' = [vida EXCEPT ![a] = "vivo"] /\ vida[a] = "libre"
        /\ UNCHANGED <<historial, pc, local>>
    BY <1>2 DEF Create
  <2>3. \A b \in Asientos : vida'[b] # "borrado" => vida[b] # "borrado" /\ historial'[b] = historial[b]
    BY <2>2 DEF RInv, IInv, TypeOK
  <2>4. QED
    BY <1>2, <2>1, <2>2, <2>3, SinReciboKInv
<1>3. ASSUME NEW c \in Contratos, DeleteManyByContractId(c), UNCHANGED recibosVars
      PROVE  KInv'
  <2>1. UNCHANGED <<asiento, pc, local>>
    BY <1>3 DEF DeleteManyByContractId
  <2>2. Cuadrados'
    BY <2>1 DEF KInv, Cuadrados
  <2>3. \A b \in Asientos : vida'[b] # "borrado" => vida[b] # "borrado" /\ historial'[b] = historial[b]
    BY <1>3 DEF DeleteManyByContractId
  <2>4. QED
    BY <1>3, <2>1, <2>2, <2>3, SinReciboKInv
<1>4. ASSUME NEW r \in Requests,
             \/ \E dto \in Dtos : Numerar(r, dto)
             \/ LeerAsientos(r) \/ Imputacion(r) \/ ImputacionRechazada(r)
             \/ MoverCaja(r) \/ GuardarLinea(r) \/ LineaFallida(r) \/ CaidaEnLinea(r)
             \/ Emitir(r) \/ EmisionRechazada(r) \/ FallaSesion(r)
      PROVE  KInv'
  BY <1>4, NumerarKInv, LeerAsientosKInv, ImputacionKInv, SinLineaKInv, MoverCajaKInv,
     GuardarLineaKInv, LineaFallidaKInv, EmitirKInv
<1>5. QED
  BY <1>1, <1>2, <1>3, <1>4 DEF RNext

LEMMA RecibosCuadran == RSpec => []KInv
BY InitKInv, NextKInv, RecibosInvariante, PTL DEF RSpec

(* A receipt that only collects is emitted for exactly the cash its lines   *)
(* moved, whatever other receipts do meanwhile (createReceipt over          *)
(* registerPayment, which refuses a payment of an entry that owes nothing). *)
THEOREM CobrosSiempreCuadran == RSpec => []CobrosCuadran
<1>1. KInv => CobrosCuadran
  BY DEF KInv
<1>2. QED
  BY <1>1, RecibosCuadran, PTL

(* Everything the emitted receipts say they collected of an entry is in the *)
(* history of the entry, whatever receipts interleave, abort midway or find *)
(* their entries deleted (createReceipt, registerPayment).                  *)
THEOREM RecibosSiempreRespaldados == RSpec => []RecibosRespaldados
<1>1. RInv /\ KInv => RecibosRespaldados
  <2> SUFFICES ASSUME RInv, KInv, NEW a \in Asientos, vida[a] = "vivo"
               PROVE  CobradoPorRecibos(a) <= historial[a].pagos
    BY DEF RecibosRespaldados
  <2>1. CobradoPorRecibos(a) + CobradoEnCurso(a) <= historial[a].pagos
    BY DEF KInv, Registrado
  <2>2. CobradoEnCurso(a) \in Nat
    <3>1. PICK F : F = [s \in Requests |-> Hecho(recibo[s], a)]
      OBVIOUS
    <3>2. \A s \in Requests : F[s] \in Nat
      BY <3>1, HechoNatural DEF RInv, EnMarcha
    <3>3. QED
      BY <3>1, <3>2, RequestsAssumption, SumaNatural DEF CobradoEnCurso
  <2>3. CobradoPorRecibos(a) \in Nat
    <3>1. CobradoPorRecibos(a) = CobradoEn(emitidos, a)
      BY DEF CobradoPorRecibos, CobradoEn
    <3>2. QED
      BY <3>1, CobradoNatural DEF KInv, Emision
  <2>4. historial[a].pagos \in Nat
    BY DEF RInv, IInv, TypeOK, Historial
  <2>5. QED
    BY <2>1, <2>2, <2>3, <2>4
<1>2. QED
  BY <1>1, RecibosInvariante, RecibosCuadran, PTL
=============================================================================
