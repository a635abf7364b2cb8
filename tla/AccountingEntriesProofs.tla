----------------------- MODULE AccountingEntriesProofs -----------------------
(***************************************************************************)
(* Proofs about AccountingEntries, for every number of entries, requests   *)
(* and failures: type correctness, the bound of every imputation and the   *)
(* backing of every credit, under every interleaving of the requests; and  *)
(* about LedgerViews: the ledger implements LibroContable, and its         *)
(* statements promise what its operations would do.                        *)
(***************************************************************************)
EXTENDS LedgerViews, TLAPS

(* The parts of a document that no handler writes.                          *)
MismaForma(d, e) == /\ d.debe = e.debe /\ d.haber = e.haber
                    /\ d.contrato = e.contrato
                    /\ d.monto_original = e.monto_original
                    /\ d.monto_actual = e.monto_actual
                    /\ d.agenteDebe = e.agenteDebe /\ d.agenteHaber = e.agenteHaber

----------------------------------------------------------------------------
(* What the handlers compute on a document.                                 *)

(* What is pending of a partida (registerPayment, condonarDeuda and         *)
(* liquidarAPropietario compare with it) is a natural number, within bounds. *)
LEMMA Deudas ==
  ASSUME NEW d \in Documento, NEW i \in Lado, Acotado(d)
  PROVE  /\ Deuda(d, i) \in Nat /\ d.pagado[i] + Deuda(d, i) = d.debe[i]
  BY DEF Documento, Lado, Acotado, Deuda, Pos

(* The distribution of registerPayment keeps the form of the document and   *)
(* imputes at most what each partida owes.                                  *)
LEMMA ReparteDentroDeLoDebido ==
  ASSUME NEW d \in Documento, NEW m \in Nat, Acotado(d)
  PROVE  /\ Imputar(d, m) \in Documento
         /\ Acotado(Imputar(d, m))
         /\ MismaForma(Imputar(d, m), d)
         /\ Imputar(d, m).liquidado = d.liquidado
         /\ \A i \in Lado : Imputar(d, m).pagado[i] >= d.pagado[i]
<1> DEFINE primera == Menor(m, Deuda(d, 1))
           segunda == Menor(m - primera, Deuda(d, 2))
           pagado  == [i \in Lado |-> d.pagado[i] + IF i = 1 THEN primera ELSE segunda]
<1>1. /\ Deuda(d, 1) \in Nat /\ d.pagado[1] + Deuda(d, 1) = d.debe[1]
      /\ Deuda(d, 2) \in Nat /\ d.pagado[2] + Deuda(d, 2) = d.debe[2]
  BY Deudas DEF Lado
<1>2. /\ primera \in Nat /\ primera <= Deuda(d, 1)
      /\ segunda \in Nat /\ segunda <= Deuda(d, 2)
  BY <1>1 DEF Menor
<1>3. /\ pagado \in [Lado -> Nat]
      /\ \A i \in Lado : pagado[i] <= d.debe[i] /\ pagado[i] >= d.pagado[i]
  BY <1>1, <1>2 DEF Documento, Lado
<1>4. Imputar(d, m) = [d EXCEPT !.pagado = pagado]
  BY DEF Imputar
<1> HIDE DEF pagado
<1>5. QED
  BY <1>3, <1>4 DEF Documento, Acotado, MismaForma

(* A handler that only assigns the state yields a document of its type.     *)
LEMMA CambioDeEstado ==
  ASSUME NEW d \in Documento, NEW e \in Estados
  PROVE  /\ [d EXCEPT !.estado = e] \in Documento
         /\ MismaForma([d EXCEPT !.estado = e], d)
         /\ [d EXCEPT !.estado = e].pagado = d.pagado
         /\ [d EXCEPT !.estado = e].liquidado = d.liquidado
  BY DEF Documento, MismaForma

(* nuevo is what leido becomes when the change is applied to it.            *)
Aplica(leido, nuevo, cambio) ==
  /\ nuevo \in Documento /\ Acotado(nuevo) /\ MismaForma(nuevo, leido)
  /\ cambio \in Historial
  /\ \A i \in Lado : /\ nuevo.pagado[i] = leido.pagado[i] + cambio.imputado[i]
                     /\ nuevo.liquidado[i] = leido.liquidado[i] + cambio.liquidado[i]

(* A document that only changed state keeps its imputations.                *)
LEMMA AplicaConEstado ==
  ASSUME NEW d \in Documento, NEW n \in Documento, NEW c, NEW e \in Estados, Aplica(d, n, c)
  PROVE  Aplica(d, [n EXCEPT !.estado = e], c)
  BY CambioDeEstado DEF Aplica, MismaForma, Acotado

(* A new entry's historial_cambios is a history.                            *)
LEMMA NadaEsHistorial == HistorialVacio \in Historial
  BY DEF HistorialVacio, Historial, Nada

(* registerPayment *)
LEMMA PagoAplica ==
  ASSUME NEW d \in Documento, NEW m \in Nat, Acotado(d),
         NEW ingresos \in Nat
  PROVE  Aplica(d, Pagado(d, m),
                [pagos |-> m, imputado |-> Menos(Pagado(d, m).pagado, d.pagado),
                 liquidado |-> Nada, ingresos |-> ingresos, egresos |-> 0])
<1> DEFINE n == Imputar(d, m)
           c == [pagos |-> m, imputado |-> Menos(n.pagado, d.pagado),
                 liquidado |-> Nada, ingresos |-> ingresos, egresos |-> 0]
<1>1. /\ n \in Documento /\ Acotado(n) /\ MismaForma(n, d) /\ n.liquidado = d.liquidado
      /\ \A i \in Lado : n.pagado[i] >= d.pagado[i]
  BY ReparteDentroDeLoDebido
<1> HIDE DEF n
<1>2. c \in Historial /\ \A i \in Lado : n.pagado[i] = d.pagado[i] + c.imputado[i]
  BY <1>1 DEF Historial, Menos, Nada, Documento
<1>3. Aplica(d, n, c)
  BY <1>1, <1>2 DEF Aplica, Nada, Documento
<1>4. EstadoTrasPago(n) \in Estados
  BY DEF EstadoTrasPago, Estados
<1>5. Pagado(d, m) = [n EXCEPT !.estado = EstadoTrasPago(n)] /\ Pagado(d, m).pagado = n.pagado
  BY <1>1, <1>4, CambioDeEstado DEF Pagado, n
<1>6. QED
  BY <1>1, <1>3, <1>4, <1>5, AplicaConEstado

(* condonarDeuda *)
LEMMA CondonacionAplica ==
  ASSUME NEW d \in Documento, NEW m \in Nat, Acotado(d)
  PROVE  Aplica(d, Condonado(d, m),
                [HistorialVacio EXCEPT !.imputado = Menos(Condonado(d, m).pagado, d.pagado)])
<1> DEFINE k == Pos(MontoCondonar(d, m))
           n == Imputar(d, k)
           c == [HistorialVacio EXCEPT !.imputado = Menos(n.pagado, d.pagado)]
           e == IF Total(n.pagado) >= n.monto_original THEN "CONDONADO" ELSE "PAGADO_PARCIAL"
<1>1. k \in Nat
  BY DEF Pos, MontoCondonar, SaldoCondonable, Total, Documento, Lado
<1>2. /\ n \in Documento /\ Acotado(n) /\ MismaForma(n, d) /\ n.liquidado = d.liquidado
      /\ \A i \in Lado : n.pagado[i] >= d.pagado[i]
  BY <1>1, ReparteDentroDeLoDebido
<1>3. Condonado(d, m) = [n EXCEPT !.estado = e]
  BY DEF Condonado
<1> HIDE DEF n
<1>4. c \in Historial /\ \A i \in Lado : n.pagado[i] = d.pagado[i] + c.imputado[i]
  BY <1>2 DEF Historial, HistorialVacio, Menos, Nada, Documento
<1>5. Aplica(d, n, c)
  BY <1>2, <1>4 DEF Aplica, HistorialVacio, Nada, Documento
<1>6. e \in Estados
  BY DEF Estados
<1> HIDE DEF e
<1>7. Condonado(d, m).pagado = n.pagado
  BY <1>2, <1>3, <1>6, CambioDeEstado
<1>8. QED
  BY <1>2, <1>3, <1>5, <1>6, <1>7, AplicaConEstado

(* anularAsiento *)
LEMMA AnulacionAplica ==
  ASSUME NEW d \in Documento, Acotado(d)
  PROVE  Aplica(d, Anulado(d), HistorialVacio)
<1>1. Aplica(d, d, HistorialVacio)
  BY NadaEsHistorial DEF Aplica, MismaForma, HistorialVacio, Nada, Documento
<1>2. QED
  BY <1>1, AplicaConEstado DEF Anulado, Estados

(* liquidarAPropietario *)
LEMMA LiquidacionAplica ==
  ASSUME NEW d \in Documento, NEW g, NEW m \in Nat, Acotado(d)
  PROVE  Aplica(d, Liquidado(d, g, m),
                [pagos |-> 0, imputado |-> DebeACompensar(d, g),
                 liquidado |-> HaberALiquidar(d, g, m),
                 ingresos |-> 0, egresos |-> Abs(MontoNeto(d, g, m))])
<1> DEFINE h == HaberALiquidar(d, g, m)
           c == DebeACompensar(d, g)
           cambio == [pagos |-> 0, imputado |-> c, liquidado |-> h, ingresos |-> 0,
                      egresos |-> Abs(MontoNeto(d, g, m))]
           liquidado == [i \in Lado |-> d.liquidado[i] + h[i]]
           pagado == [i \in Lado |-> d.pagado[i] + c[i]]
           n == [d EXCEPT !.liquidado = liquidado, !.pagado = pagado]
           e == IF ~ TodasLiquidadas(n) THEN n.estado
                ELSE IF n.estado = "COBRADO" THEN "PAGADO" ELSE "LIQUIDADO"
<1>1. \A i \in Lado : /\ Disponible(d, g, i) \in Nat
                      /\ d.liquidado[i] + Disponible(d, g, i) <= d.haber[i]
  BY DEF Disponible, Pos, Acotado, Documento
<1>2. /\ h \in [Lado -> Nat]
      /\ \A i \in Lado : h[i] <= Disponible(d, g, i)
  <2>1. /\ Disponible(d, g, 1) \in Nat /\ Disponible(d, g, 2) \in Nat
    BY <1>1 DEF Lado
  <2>2. QED
    BY <2>1 DEF HaberALiquidar, Menor, Lado
<1>3. /\ c \in [Lado -> Nat]
      /\ \A i \in Lado : d.pagado[i] + c[i] <= d.debe[i]
  <2>1. \A i \in Lado : Deuda(d, i) \in Nat /\ d.pagado[i] + Deuda(d, i) = d.debe[i]
    BY Deudas
  <2>2. QED
    BY <2>1 DEF DebeACompensar, DeudaDe, Documento, Acotado
<1>4. MontoNeto(d, g, m) \in Int
  BY <1>2, <1>3 DEF MontoNeto, Total, Lado
<1> HIDE DEF h, c
<1>5. cambio \in Historial
  BY <1>2, <1>3, <1>4 DEF Historial, Abs
<1>6. /\ liquidado \in [Lado -> Nat] /\ \A i \in Lado : liquidado[i] <= d.haber[i]
      /\ pagado \in [Lado -> Nat] /\ \A i \in Lado : pagado[i] <= d.debe[i]
  BY <1>1, <1>2, <1>3 DEF Documento
<1>7. n \in Documento /\ Acotado(n) /\ MismaForma(n, d)
      /\ n.liquidado = liquidado /\ n.pagado = pagado
  <2> HIDE DEF liquidado, pagado
  <2> QED
    BY <1>6 DEF Documento, Acotado, MismaForma
<1>8. Aplica(d, n, cambio)
  BY <1>5, <1>7 DEF Aplica
<1>9. Liquidado(d, g, m) = [n EXCEPT !.estado = e]
  BY DEF Liquidado, Mas, h, c
<1> HIDE DEF n
<1>10. e \in Estados
  BY <1>7 DEF Estados, Documento
<1> HIDE DEF e
<1>11. QED
  BY <1>7, <1>8, <1>9, <1>10, AplicaConEstado DEF h, c

----------------------------------------------------------------------------
(* The inductive invariant.  ImputacionAcotada and CreditoRespaldado are    *)
(* not inductive: a save merges a copy into a document that others have     *)
(* changed since it was read, so the copy must still be about the same      *)
(* partidas (Vigente), and what it will overwrite must be backed by the     *)
(* history as it is now, plus the change about to be pushed (CopiaRespaldada). *)

EnCurso(r) == pc[r] # "inactivo"

Vigente ==
  \A r \in Requests : EnCurso(r) =>
    /\ vida[local[r].a] # "libre"
    /\ MismaForma(asiento[local[r].a], local[r].nuevo)

CopiaRespaldada ==
  \A r \in Requests : EnCurso(r) /\ vida[local[r].a] = "vivo" =>
    LET l == local[r]
        h == historial[l.a]
    IN \A i \in Lado :
         /\ l.nuevo.pagado[i] # l.leido.pagado[i] =>
              l.nuevo.pagado[i] <= h.imputado[i] + l.cambio.imputado[i]
         /\ l.nuevo.liquidado[i] # l.leido.liquidado[i] =>
              l.nuevo.liquidado[i] <= h.liquidado[i] + l.cambio.liquidado[i]

IInv == TypeOK /\ ImputacionAcotada /\ Vigente /\ CreditoRespaldado /\ CopiaRespaldada

(* The placeholder of an entry that was never created and the memory of an  *)
(* idle request have their types.                                           *)
LEMMA MoldeOK == /\ Molde \in Plantillas /\ LocalVacio \in Local
                 /\ LocalVacio.nuevo = Molde
  BY PlantillasAssumption, AsientosAssumption, NadaEsHistorial DEF Molde, LocalVacio, Local

(* An entry that create() stores owes the whole of each partida.            *)
LEMMA PlantillaAcotada ==
  ASSUME NEW p \in Plantillas
  PROVE  p \in Documento /\ Acotado(p) /\ \A i \in Lado : p.pagado[i] = 0 /\ p.liquidado[i] = 0
  BY PlantillasAssumption DEF Acotado, Documento

(* Before the first request the collection is empty and no request holds a  *)
(* copy, so the invariant of the ledger holds.                              *)
THEOREM InitIInv == Init => IInv
<1> SUFFICES ASSUME Init PROVE IInv
  OBVIOUS
<1>1. TypeOK
  <2>1. solape \in BOOLEAN
    BY Zenon DEF Init
  <2>2. QED
    BY <2>1, MoldeOK, PlantillaAcotada, NadaEsHistorial DEF Init, TypeOK
<1>2. ImputacionAcotada
  BY MoldeOK, PlantillaAcotada DEF Init, ImputacionAcotada
<1>3. Vigente /\ CreditoRespaldado /\ CopiaRespaldada
  BY DEF Init, Vigente, CreditoRespaldado, CopiaRespaldada, EnCurso
<1>4. QED
  BY <1>1, <1>2, <1>3 DEF IInv

(* The start of any handler, given that its copy is what its change makes   *)
(* of the document it read.                                                 *)
LEMMA ComenzarIInv ==
  ASSUME IInv, NEW r \in Requests, NEW a \in Asientos, vida[a] = "vivo",
         NEW nuevo, NEW cambio, Aplica(asiento[a], nuevo, cambio),
         Comenzar(r, a, nuevo, cambio)
  PROVE  IInv'
<1> DEFINE l == [a |-> a, leido |-> asiento[a], nuevo |-> nuevo, cambio |-> cambio]
<1>1. l \in Local /\ asiento[a] \in Documento /\ historial[a] \in Historial
  BY DEF IInv, TypeOK, Aplica, Local
<1>2. /\ local' = [local EXCEPT ![r] = l]
      /\ pc' \in [Requests -> {"inactivo", "caja", "guardar"}]
      /\ \A q \in Requests \ {r} : pc'[q] = pc[q] /\ local'[q] = local[q]
      /\ local'[r] = l
      /\ UNCHANGED <<vida, asiento, historial, saldo, sinRastro, fallas>>
      /\ ops' = ops + 1 /\ solape' \in BOOLEAN
  BY DEF Comenzar, libro, IInv, TypeOK
<1>3. TypeOK'
  BY <1>1, <1>2 DEF IInv, TypeOK
<1>4. ImputacionAcotada'
  BY <1>2 DEF IInv, ImputacionAcotada, Aplica
<1>5. Vigente'
  BY <1>2 DEF IInv, Vigente, EnCurso, Aplica, MismaForma
<1>6. CreditoRespaldado'
  BY <1>2 DEF IInv, CreditoRespaldado
<1>7. CopiaRespaldada'
  <2>1. ASSUME NEW i \in Lado
        PROVE  /\ nuevo.pagado[i] <= historial[a].imputado[i] + cambio.imputado[i]
               /\ nuevo.liquidado[i] <= historial[a].liquidado[i] + cambio.liquidado[i]
    BY <1>1 DEF IInv, CreditoRespaldado, Aplica, Documento, Historial
  <2>2. ASSUME NEW q \in Requests, q # r, EnCurso(q)', (vida[local[q].a] = "vivo")'
        PROVE  EnCurso(q) /\ vida[local[q].a] = "vivo" /\ local'[q] = local[q]
    BY <1>2, <2>2 DEF EnCurso
  <2>3. QED
    BY <1>2, <2>1, <2>2 DEF IInv, CopiaRespaldada
<1>8. QED
  BY <1>3, <1>4, <1>5, <1>6, <1>7 DEF IInv

(* The end of a handler: the request forgets its copy.                      *)
LEMMA TerminarLocal ==
  ASSUME TypeOK, ImputacionAcotada, NEW r \in Requests, Terminar(r)
  PROVE  /\ pc' \in [Requests -> {"inactivo", "caja", "guardar"}]
         /\ local' \in [Requests -> Local]
         /\ \A q \in Requests : Acotado(local'[q].nuevo)
         /\ pc'[r] = "inactivo"
         /\ \A q \in Requests \ {r} : pc'[q] = pc[q] /\ local'[q] = local[q]
<1>1. LocalVacio \in Local /\ Acotado(LocalVacio.nuevo)
  BY MoldeOK, PlantillaAcotada
<1>2. QED
  BY <1>1 DEF TypeOK, Terminar, ImputacionAcotada

(* The merge that save() performs: each amount is the one the request       *)
(* modified, and else the stored one.                                       *)
Fusionado(f, d, leido, nuevo) ==
  /\ f \in Documento /\ Acotado(f) /\ MismaForma(f, d)
  /\ \A i \in Lado :
       /\ f.pagado[i] = IF nuevo.pagado[i] = leido.pagado[i]
                        THEN d.pagado[i] ELSE nuevo.pagado[i]
       /\ f.liquidado[i] = IF nuevo.liquidado[i] = leido.liquidado[i]
                           THEN d.liquidado[i] ELSE nuevo.liquidado[i]

LEMMA Fusion ==
  ASSUME NEW d \in Documento, NEW leido \in Documento, NEW nuevo \in Documento,
         Acotado(d), Acotado(nuevo), MismaForma(d, nuevo)
  PROVE  Fusionado(GuardarSobre(d, leido, nuevo), d, leido, nuevo)
<1> DEFINE estado == IF nuevo.estado = leido.estado THEN d.estado ELSE nuevo.estado
           pagado == [i \in Lado |-> IF nuevo.pagado[i] = leido.pagado[i]
                                     THEN d.pagado[i] ELSE nuevo.pagado[i]]
           liquidado == [i \in Lado |-> IF nuevo.liquidado[i] = leido.liquidado[i]
                                        THEN d.liquidado[i] ELSE nuevo.liquidado[i]]
<1>1. estado \in Estados /\ pagado \in [Lado -> Nat] /\ liquidado \in [Lado -> Nat]
  BY DEF Documento
<1>2. \A i \in Lado : pagado[i] <= d.debe[i] /\ liquidado[i] <= d.haber[i]
  BY DEF Acotado, MismaForma
<1>3. GuardarSobre(d, leido, nuevo) =
        [d EXCEPT !.estado = estado, !.pagado = pagado, !.liquidado = liquidado]
  BY DEF GuardarSobre
<1>4. \A i \in Lado : /\ pagado[i] = IF nuevo.pagado[i] = leido.pagado[i]
                                     THEN d.pagado[i] ELSE nuevo.pagado[i]
                      /\ liquidado[i] = IF nuevo.liquidado[i] = leido.liquidado[i]
                                        THEN d.liquidado[i] ELSE nuevo.liquidado[i]
  OBVIOUS
<1> HIDE DEF estado, pagado, liquidado
<1> DEFINE f == GuardarSobre(d, leido, nuevo)
<1>5. f \in Documento
  BY <1>1, <1>3 DEF Documento
<1>6. f.pagado = pagado /\ f.liquidado = liquidado
  BY <1>3 DEF Documento
<1>7. MismaForma(f, d)
  BY <1>3 DEF MismaForma
<1> HIDE DEF f
<1>8. Acotado(f)
  BY <1>2, <1>6, <1>7 DEF Acotado, MismaForma
<1>9. QED
  <2>1. Fusionado(f, d, leido, nuevo)
    BY <1>4, <1>5, <1>6, <1>7, <1>8 DEF Fusionado
  <2>2. QED
    BY <2>1 DEF f

(* Saved over the amounts it read, a document is written as it was computed. *)
LEMMA FusionAlDia ==
  ASSUME NEW d \in Documento, NEW leido \in Documento, NEW nuevo \in Documento,
         Acotado(d), Acotado(nuevo), MismaForma(d, nuevo)
  PROVE  LET f == GuardarSobre(d, leido, nuevo)
         IN  leido.pagado = d.pagado /\ leido.liquidado = d.liquidado =>
               f.pagado = nuevo.pagado /\ f.liquidado = nuevo.liquidado
<1> DEFINE f == GuardarSobre(d, leido, nuevo)
<1>1. Fusionado(f, d, leido, nuevo)
  BY Fusion
<1> HIDE DEF f
<1>2. /\ f.pagado \in [Lado -> Nat] /\ nuevo.pagado \in [Lado -> Nat]
      /\ f.liquidado \in [Lado -> Nat] /\ nuevo.liquidado \in [Lado -> Nat]
  BY <1>1 DEF Fusionado, Documento
<1>3. ASSUME leido.pagado = d.pagado, leido.liquidado = d.liquidado
      PROVE  f.pagado = nuevo.pagado /\ f.liquidado = nuevo.liquidado
  <2>1. \A i \in Lado : f.pagado[i] = nuevo.pagado[i]
    BY <1>1, <1>3 DEF Fusionado
  <2>2. \A i \in Lado : f.liquidado[i] = nuevo.liquidado[i]
    BY <1>1, <1>3 DEF Fusionado
  <2>3. f.pagado = nuevo.pagado
    BY <1>2, <2>1
  <2>4. f.liquidado = nuevo.liquidado
    BY <1>2, <2>2
  <2>5. QED
    BY <2>3, <2>4
<1>4. QED
  BY <1>3 DEF f

(* $push appends what a request imputes to what was imputed.                *)
LEMMA PushHistorial ==
  ASSUME NEW g \in Historial, NEW c \in Historial
  PROVE  LET h == Push(g, c) IN
         /\ h \in Historial
         /\ \A i \in Lado : /\ h.imputado[i] = g.imputado[i] + c.imputado[i]
                            /\ h.liquidado[i] = g.liquidado[i] + c.liquidado[i]
<1>1. g.imputado \in [Lado -> Nat] /\ c.imputado \in [Lado -> Nat]
  BY DEF Historial
<1>2. g.liquidado \in [Lado -> Nat] /\ c.liquidado \in [Lado -> Nat]
  BY DEF Historial
<1>3. Mas(g.imputado, c.imputado) \in [Lado -> Nat]
      /\ Mas(g.liquidado, c.liquidado) \in [Lado -> Nat]
  BY <1>1, <1>2 DEF Mas
<1>4. QED
  BY <1>3 DEF Push, Mas, Historial

(* save() writes the paths a request modified over a document that other    *)
(* requests may have changed since it was read: the invariant survives.     *)
LEMMA SaveIInv ==
  ASSUME IInv, NEW r \in Requests, Save(r)
  PROVE  IInv'
<1> DEFINE l == local[r]
           f == GuardarSobre(asiento[l.a], l.leido, l.nuevo)
           h == Push(historial[l.a], l.cambio)
<1>1. /\ l \in Local /\ l.a \in Asientos /\ vida[l.a] = "vivo"
      /\ asiento[l.a] \in Documento /\ Acotado(asiento[l.a]) /\ Acotado(l.nuevo)
      /\ MismaForma(asiento[l.a], l.nuevo)
      /\ historial[l.a] \in Historial
  BY DEF IInv, TypeOK, Local, ImputacionAcotada, Vigente, EnCurso, Save
<1>2. Fusionado(f, asiento[l.a], l.leido, l.nuevo)
  <2>1. l.leido \in Documento /\ l.nuevo \in Documento
    BY <1>1 DEF Local
  <2> HIDE DEF l
  <2>2. QED
    BY <1>1, <2>1, Fusion
<1>3. /\ h \in Historial
      /\ \A i \in Lado : /\ h.imputado[i] = historial[l.a].imputado[i] + l.cambio.imputado[i]
                         /\ h.liquidado[i] = historial[l.a].liquidado[i] + l.cambio.liquidado[i]
  <2>1. l.cambio \in Historial
    BY <1>1 DEF Local
  <2> HIDE DEF l
  <2>2. QED
    BY <1>1, <2>1, PushHistorial
<1> HIDE DEF f, h
<1>4. /\ asiento' = [asiento EXCEPT ![l.a] = f]
      /\ historial' = [historial EXCEPT ![l.a] = h]
      /\ UNCHANGED <<vida, saldo, sinRastro, ops, fallas, solape>>
      /\ Terminar(r)
  BY DEF Save, f, h
<1>5. /\ pc' \in [Requests -> {"inactivo", "caja", "guardar"}]
      /\ local' \in [Requests -> Local]
      /\ \A q \in Requests : Acotado(local'[q].nuevo)
      /\ pc'[r] = "inactivo"
      /\ \A q \in Requests \ {r} : pc'[q] = pc[q] /\ local'[q] = local[q]
  BY <1>4, TerminarLocal DEF IInv
<1>6. TypeOK'
  BY <1>1, <1>2, <1>3, <1>4, <1>5 DEF IInv, TypeOK, Fusionado
<1>7. ImputacionAcotada'
  BY <1>2, <1>4, <1>5 DEF IInv, TypeOK, ImputacionAcotada, Fusionado
<1>8. Vigente'
  BY <1>1, <1>2, <1>4, <1>5 DEF IInv, TypeOK, Vigente, EnCurso, MismaForma, Fusionado
<1>9. CreditoRespaldado'
  <2>1. ASSUME NEW i \in Lado
        PROVE  f.pagado[i] <= h.imputado[i] /\ f.liquidado[i] <= h.liquidado[i]
    <3>1. /\ asiento[l.a].pagado[i] <= historial[l.a].imputado[i]
          /\ asiento[l.a].liquidado[i] <= historial[l.a].liquidado[i]
      BY <1>1 DEF IInv, CreditoRespaldado
    <3>2. /\ l.nuevo.pagado[i] # l.leido.pagado[i] =>
               l.nuevo.pagado[i] <= historial[l.a].imputado[i] + l.cambio.imputado[i]
          /\ l.nuevo.liquidado[i] # l.leido.liquidado[i] =>
               l.nuevo.liquidado[i] <= historial[l.a].liquidado[i] + l.cambio.liquidado[i]
      BY <1>1 DEF IInv, CopiaRespaldada, EnCurso, Save
    <3>3. /\ historial[l.a].imputado[i] \in Nat /\ l.cambio.imputado[i] \in Nat
          /\ historial[l.a].liquidado[i] \in Nat /\ l.cambio.liquidado[i] \in Nat
          /\ asiento[l.a].pagado[i] \in Nat /\ asiento[l.a].liquidado[i] \in Nat
      BY <1>1 DEF Documento, Historial, Local
    <3> HIDE DEF l
    <3>4. f.pagado[i] <= h.imputado[i]
      BY <1>2, <1>3, <3>1, <3>2, <3>3 DEF Fusionado
    <3>5. f.liquidado[i] <= h.liquidado[i]
      BY <1>2, <1>3, <3>1, <3>2, <3>3 DEF Fusionado
    <3>6. QED
      BY <3>4, <3>5
  <2>2. QED
    BY <1>1, <1>4, <2>1 DEF IInv, TypeOK, CreditoRespaldado
<1>10. CopiaRespaldada'
  <2>1. ASSUME NEW a \in Asientos, NEW i \in Lado
        PROVE  /\ historial'[a].imputado[i] >= historial[a].imputado[i]
               /\ historial'[a].liquidado[i] >= historial[a].liquidado[i]
               /\ historial[a].imputado[i] \in Nat /\ historial'[a].imputado[i] \in Nat
               /\ historial[a].liquidado[i] \in Nat /\ historial'[a].liquidado[i] \in Nat
    BY <1>1, <1>3, <1>4, <1>6 DEF IInv, TypeOK, Historial, Local
  <2>2. SUFFICES ASSUME NEW q \in Requests, EnCurso(q)', (vida[local[q].a] = "vivo")',
                        NEW i \in Lado
                 PROVE  LET k == local[q] IN
                   /\ k.nuevo.pagado[i] # k.leido.pagado[i] =>
                        k.nuevo.pagado[i] <= historial'[k.a].imputado[i] + k.cambio.imputado[i]
                   /\ k.nuevo.liquidado[i] # k.leido.liquidado[i] =>
                        k.nuevo.liquidado[i] <= historial'[k.a].liquidado[i] + k.cambio.liquidado[i]
    BY <1>5 DEF CopiaRespaldada, EnCurso
  <2>3. q # r /\ EnCurso(q) /\ vida[local[q].a] = "vivo" /\ local[q] \in Local
    BY <1>4, <1>5, <2>2 DEF EnCurso, IInv, TypeOK
  <2>4. PICK k : k = local[q]
    OBVIOUS
  <2>5. /\ k.a \in Asientos
        /\ k.cambio.imputado[i] \in Nat /\ k.cambio.liquidado[i] \in Nat
        /\ k.nuevo.pagado[i] \in Nat /\ k.nuevo.liquidado[i] \in Nat
    BY <2>3, <2>4 DEF Local, Documento, Historial
  <2>6. /\ k.nuevo.pagado[i] # k.leido.pagado[i] =>
             k.nuevo.pagado[i] <= historial[k.a].imputado[i] + k.cambio.imputado[i]
        /\ k.nuevo.liquidado[i] # k.leido.liquidado[i] =>
             k.nuevo.liquidado[i] <= historial[k.a].liquidado[i] + k.cambio.liquidado[i]
    BY <2>3, <2>4 DEF IInv, CopiaRespaldada
  <2>7. /\ k.nuevo.pagado[i] # k.leido.pagado[i] =>
             k.nuevo.pagado[i] <= historial'[k.a].imputado[i] + k.cambio.imputado[i]
        /\ k.nuevo.liquidado[i] # k.leido.liquidado[i] =>
             k.nuevo.liquidado[i] <= historial'[k.a].liquidado[i] + k.cambio.liquidado[i]
    BY <2>1, <2>5, <2>6
  <2>8. QED
    BY <2>4, <2>7
<1>11. QED
  BY <1>6, <1>7, <1>8, <1>9, <1>10 DEF IInv

(* A request ends without saving: its entry and every history stay.         *)
LEMMA AbandonarIInv ==
  ASSUME IInv, NEW r \in Requests, Terminar(r),
         UNCHANGED <<vida, asiento, historial>>,
         saldo' \in Int, sinRastro' \in [Asientos -> Int], ops' \in Nat, fallas' \in Nat,
         solape' \in BOOLEAN
  PROVE  IInv'
<1>1. /\ pc' \in [Requests -> {"inactivo", "caja", "guardar"}]
      /\ local' \in [Requests -> Local]
      /\ \A q \in Requests : Acotado(local'[q].nuevo)
      /\ \A q \in Requests : EnCurso(q)' => EnCurso(q) /\ local'[q] = local[q]
  BY TerminarLocal DEF IInv, EnCurso
<1>2. TypeOK' /\ ImputacionAcotada' /\ CreditoRespaldado'
  BY <1>1 DEF IInv, TypeOK, ImputacionAcotada, CreditoRespaldado
<1>3. Vigente'
  BY <1>1 DEF IInv, Vigente, EnCurso
<1>4. CopiaRespaldada'
  BY <1>1 DEF IInv, CopiaRespaldada, EnCurso
<1>5. QED
  BY <1>2, <1>3, <1>4 DEF IInv

(* create() stores a new entry, with nothing imputed.                       *)
LEMMA CreateIInv ==
  ASSUME IInv, NEW a \in Asientos, NEW p \in Plantillas, Create(a, p)
  PROVE  IInv'
<1>1. /\ vida[a] = "libre"
      /\ vida' = [vida EXCEPT ![a] = "vivo"]
      /\ asiento' = [asiento EXCEPT ![a] = p]
      /\ UNCHANGED <<historial, saldo, pc, local, sinRastro, ops, fallas, solape>>
  BY DEF Create
<1>2. \A r \in Requests : EnCurso(r) => local[r].a # a
  BY <1>1 DEF IInv, Vigente
<1>3. TypeOK' /\ ImputacionAcotada'
  BY <1>1, PlantillaAcotada DEF IInv, TypeOK, ImputacionAcotada
<1>4. Vigente'
  BY <1>1, <1>2 DEF IInv, TypeOK, Vigente, EnCurso, Local
<1>5. CreditoRespaldado'
  <2>1. \A i \in Lado : 0 <= historial[a].imputado[i] /\ 0 <= historial[a].liquidado[i]
    BY DEF IInv, TypeOK, Historial
  <2>2. QED
    BY <1>1, <2>1, PlantillaAcotada DEF IInv, TypeOK, CreditoRespaldado
<1>6. CopiaRespaldada'
  BY <1>1, <1>2 DEF IInv, TypeOK, CopiaRespaldada, EnCurso, Local
<1>7. QED
  BY <1>3, <1>4, <1>5, <1>6 DEF IInv

(* The money of a history, which updateBalance() moved, is an integer.      *)
LEMMA FlujoEntero ==
  ASSUME NEW h \in Historial
  PROVE  Flujo(h) \in Int
  BY DEF Flujo, Historial

(* deleteManyByContractId() takes an entry from the collection while other  *)
(* requests hold copies of it.                                              *)
LEMMA DeleteIInv ==
  ASSUME IInv, NEW c \in Contratos, DeleteManyByContractId(c)
  PROVE  IInv'
<1> DEFINE borrados == {a \in Asientos : vida[a] = "vivo" /\ asiento[a].contrato = c}
<1>1. /\ vida' = [a \in Asientos |-> IF a \in borrados THEN "borrado" ELSE vida[a]]
      /\ historial' = [a \in Asientos |-> IF a \in borrados THEN HistorialVacio
                                          ELSE historial[a]]
      /\ sinRastro' = [a \in Asientos |-> IF a \in borrados
                                          THEN sinRastro[a] + Flujo(historial[a])
                                          ELSE sinRastro[a]]
      /\ UNCHANGED <<asiento, saldo, pc, local, ops, fallas, solape>>
  BY DEF DeleteManyByContractId
<1>2. \A a \in Asientos : vida'[a] = "vivo" => vida[a] = "vivo" /\ historial'[a] = historial[a]
  BY <1>1
<1>3. \A a \in Asientos : vida'[a] = "libre" => vida[a] = "libre"
  BY <1>1
<1>4. TypeOK'
  <2>1. \A a \in Asientos : Flujo(historial[a]) \in Int /\ sinRastro[a] \in Int
    BY FlujoEntero DEF IInv, TypeOK
  <2>2. sinRastro' \in [Asientos -> Int]
    BY <1>1, <2>1
  <2>3. historial' \in [Asientos -> Historial]
    BY <1>1, NadaEsHistorial DEF IInv, TypeOK
  <2>4. vida' \in [Asientos -> {"libre", "vivo", "borrado"}]
    BY <1>1 DEF IInv, TypeOK
  <2>5. QED
    BY <1>1, <2>2, <2>3, <2>4 DEF IInv, TypeOK
<1> HIDE DEF borrados
<1>5. ImputacionAcotada'
  BY <1>1 DEF IInv, ImputacionAcotada
<1>6. Vigente'
  BY <1>1, <1>3 DEF IInv, TypeOK, Local, Vigente, EnCurso
<1>7. CreditoRespaldado'
  BY <1>1, <1>2 DEF IInv, CreditoRespaldado
<1>8. CopiaRespaldada'
  BY <1>1, <1>2 DEF IInv, TypeOK, Local, CopiaRespaldada, EnCurso
<1>9. QED
  BY <1>4, <1>5, <1>6, <1>7, <1>8 DEF IInv

(* Writing the state of any number of entries, and nothing else of them.    *)
LEMMA EstadosIInv ==
  ASSUME IInv, ops' \in Nat, UNCHANGED <<vida, historial, saldo, pc, local, sinRastro, fallas, solape>>,
         asiento' = [a \in Asientos |-> asiento'[a]],
         \A a \in Asientos : \/ asiento'[a] = asiento[a]
                            \/ \E e \in Estados : asiento'[a] = [asiento[a] EXCEPT !.estado = e]
  PROVE  IInv'
<1>1. \A a \in Asientos :
        /\ asiento'[a] \in Documento /\ MismaForma(asiento'[a], asiento[a])
        /\ asiento'[a].pagado = asiento[a].pagado /\ asiento'[a].liquidado = asiento[a].liquidado
  <2> TAKE a \in Asientos
  <2>1. asiento[a] \in Documento
    BY DEF IInv, TypeOK
  <2>2. CASE asiento'[a] = asiento[a]
    BY <2>1, <2>2 DEF MismaForma
  <2>3. ASSUME NEW e \in Estados, asiento'[a] = [asiento[a] EXCEPT !.estado = e]
        PROVE  /\ asiento'[a] \in Documento /\ MismaForma(asiento'[a], asiento[a])
               /\ asiento'[a].pagado = asiento[a].pagado
               /\ asiento'[a].liquidado = asiento[a].liquidado
    BY <2>1, <2>3, CambioDeEstado
  <2>4. QED
    BY <2>2, <2>3
<1>2. TypeOK'
  BY <1>1 DEF IInv, TypeOK
<1>3. ImputacionAcotada'
  BY <1>1 DEF IInv, TypeOK, ImputacionAcotada, Acotado, MismaForma
<1>4. Vigente'
  BY <1>1 DEF IInv, TypeOK, Vigente, EnCurso, MismaForma, Local
<1>5. CreditoRespaldado' /\ CopiaRespaldada'
  BY <1>1 DEF IInv, TypeOK, CreditoRespaldado, CopiaRespaldada, EnCurso
<1>6. QED
  BY <1>2, <1>3, <1>4, <1>5 DEF IInv

(* markAsPendingInvoice(), markAsInvoiced() and markAsLiquidated() only write *)
(* the state.                                                               *)
LEMMA MarcarIInv ==
  ASSUME IInv, NEW a \in Asientos, NEW e \in Estados, Marcar(a, e)
  PROVE  IInv'
<1>1. /\ asiento' = [asiento EXCEPT ![a] = [asiento[a] EXCEPT !.estado = e]]
      /\ ops' \in Nat
      /\ UNCHANGED <<vida, historial, saldo, pc, local, sinRastro, fallas, solape>>
  BY DEF Marcar, IInv, TypeOK
<1>2. /\ asiento' = [b \in Asientos |-> asiento'[b]]
      /\ \A b \in Asientos : asiento'[b] = asiento[b]
                              \/ asiento'[b] = [asiento[b] EXCEPT !.estado = e]
  BY <1>1 DEF IInv, TypeOK
<1>3. QED
  BY <1>1, <1>2, EstadosIInv

(* updateBalance() moves the account's balance and leaves the entries alone. *)
LEMMA UpdateBalanceIInv ==
  ASSUME IInv, NEW r \in Requests, UpdateBalance(r)
  PROVE  IInv'
<1>1. /\ pc[r] = "caja"
      /\ pc' = [pc EXCEPT ![r] = "guardar"]
      /\ saldo' = saldo + Flujo(local[r].cambio)
      /\ UNCHANGED <<vida, asiento, historial, sinRastro, local, ops, fallas, solape>>
  BY DEF UpdateBalance, libro
<1>2. Flujo(local[r].cambio) \in Int
  BY FlujoEntero DEF IInv, TypeOK, Local
<1>3. TypeOK'
  BY <1>1, <1>2 DEF IInv, TypeOK
<1>4. \A q \in Requests : EnCurso(q)' <=> EnCurso(q)
  BY <1>1 DEF IInv, TypeOK, EnCurso
<1>5. ImputacionAcotada' /\ Vigente' /\ CreditoRespaldado' /\ CopiaRespaldada'
  BY <1>1, <1>4 DEF IInv, ImputacionAcotada, Vigente, CreditoRespaldado, CopiaRespaldada
<1>6. QED
  BY <1>3, <1>5 DEF IInv

(* A request that dies before save() leaves the entries and histories alone. *)
LEMMA PerderIInv ==
  ASSUME IInv, NEW r \in Requests, Perder(r), fallas' \in Nat
  PROVE  IInv'
<1>1. /\ Flujo(local[r].cambio) \in Int /\ local[r].a \in Asientos
  BY FlujoEntero DEF IInv, TypeOK, Local
<1>2. sinRastro' \in [Asientos -> Int]
  BY <1>1 DEF IInv, TypeOK, Perder
<1>3. QED
  BY <1>2, AbandonarIInv DEF IInv, TypeOK, Perder

(* A payment of any amount that is imputed keeps the invariant.             *)
LEMMA RegisterPaymentIInv ==
  ASSUME IInv, NEW r \in Requests, NEW a \in Asientos, NEW m \in Nat, RegisterPayment(r, a, m)
  PROVE  IInv'
<1> DEFINE d == asiento[a]
           ingresos == IF Total(d.debe) > 0 THEN m ELSE 0
           c == [pagos |-> m, imputado |-> Menos(Pagado(d, m).pagado, d.pagado),
                 liquidado |-> Nada, ingresos |-> ingresos, egresos |-> 0]
<1>1. d \in Documento /\ Acotado(d) /\ m \in Nat /\ ingresos \in Nat
  BY DEF IInv, TypeOK, ImputacionAcotada
<1>2. vida[a] = "vivo" /\ Comenzar(r, a, Pagado(d, m), c)
  BY DEF RegisterPayment, AdmitePago
<1> HIDE DEF ingresos
<1>3. Aplica(d, Pagado(d, m), c)
  BY <1>1, PagoAplica
<1>4. QED
  BY <1>2, <1>3, ComenzarIInv

(* So does a liquidation to any agent.                                      *)
LEMMA LiquidarIInv ==
  ASSUME IInv, NEW r \in Requests, NEW a \in Asientos, NEW g, NEW m \in Nat,
         LiquidarAPropietario(r, a, g, m)
  PROVE  IInv'
<1> DEFINE d == asiento[a]
           c == [pagos |-> 0, imputado |-> DebeACompensar(d, g),
                 liquidado |-> HaberALiquidar(d, g, m),
                 ingresos |-> 0, egresos |-> Abs(MontoNeto(d, g, m))]
<1>1. d \in Documento /\ Acotado(d) /\ m \in Nat
  BY DEF IInv, TypeOK, ImputacionAcotada
<1>2. vida[a] = "vivo" /\ Comenzar(r, a, Liquidado(d, g, m), c)
  BY DEF LiquidarAPropietario, AdmiteLiquidacion
<1>3. Aplica(d, Liquidado(d, g, m), c)
  BY <1>1, LiquidacionAplica
<1>4. QED
  BY <1>2, <1>3, ComenzarIInv

(* Every step of every handler of the ledger keeps the invariant.           *)
THEOREM NextIInv == IInv /\ [Next]_vars => IInv'
<1> SUFFICES ASSUME IInv, [Next]_vars PROVE IInv'
  OBVIOUS
<1>1. ASSUME NEW a \in Asientos, NEW p \in Plantillas, Create(a, p) PROVE IInv'
  BY <1>1, CreateIInv
<1>2. ASSUME NEW c \in Contratos, DeleteManyByContractId(c) PROVE IInv'
  BY <1>2, DeleteIInv
<1>3. ASSUME NEW a \in Asientos,
             MarkAsPendingInvoice(a) \/ MarkAsInvoiced(a) \/ MarkAsLiquidated(a)
      PROVE  IInv'
  BY <1>3, MarcarIInv DEF MarkAsPendingInvoice, MarkAsInvoiced, MarkAsLiquidated, Estados
<1>4. ASSUME NEW r \in Requests, NEW a \in Asientos, NEW m \in Montos, RegisterPayment(r, a, m)
      PROVE  IInv'
  BY <1>4, RegisterPaymentIInv, MontosAssumption
<1>5. ASSUME NEW r \in Requests, NEW a \in Asientos, AnularAsiento(r, a) PROVE IInv'
  <2>1. asiento[a] \in Documento /\ Acotado(asiento[a])
    BY DEF IInv, TypeOK, ImputacionAcotada
  <2>2. QED
    BY <1>5, <2>1, AnulacionAplica, ComenzarIInv DEF AnularAsiento
<1>6. ASSUME NEW r \in Requests, NEW a \in Asientos, NEW m \in Montos \cup {0},
             CondonarDeuda(r, a, m)
      PROVE  IInv'
  <2> DEFINE d == asiento[a]
             c == [HistorialVacio EXCEPT !.imputado = Menos(Condonado(d, m).pagado, d.pagado)]
  <2>1. d \in Documento /\ Acotado(d) /\ m \in Nat
    BY MontosAssumption DEF IInv, TypeOK, ImputacionAcotada
  <2>2. vida[a] = "vivo" /\ Comenzar(r, a, Condonado(d, m), c)
    BY <1>6 DEF CondonarDeuda
  <2>3. Aplica(d, Condonado(d, m), c)
    BY <2>1, CondonacionAplica
  <2>4. QED
    BY <2>2, <2>3, ComenzarIInv
<1>7. ASSUME NEW r \in Requests, NEW a \in Asientos, NEW g \in Agentes,
             NEW m \in Montos \cup {0}, LiquidarAPropietario(r, a, g, m)
      PROVE  IInv'
  BY <1>7, LiquidarIInv, MontosAssumption
<1>8. ASSUME NEW r \in Requests, UpdateBalance(r) PROVE IInv'
  BY <1>8, UpdateBalanceIInv
<1>9. ASSUME NEW r \in Requests, CuentaNoEncontrada(r) PROVE IInv'
  BY <1>9, AbandonarIInv DEF CuentaNoEncontrada, libro, IInv, TypeOK
<1>10. ASSUME NEW r \in Requests, Save(r) PROVE IInv'
  BY <1>10, SaveIInv
<1>11. ASSUME NEW r \in Requests, SaveNoEncontrado(r) PROVE IInv'
  BY <1>11, PerderIInv DEF SaveNoEncontrado, IInv, TypeOK
<1>12. ASSUME NEW r \in Requests, Caida(r) PROVE IInv'
  BY <1>12, PerderIInv DEF Caida, IInv, TypeOK
<1>13. CASE UNCHANGED vars
  BY <1>13 DEF vars, IInv, TypeOK, ImputacionAcotada, Vigente, CreditoRespaldado,
               CopiaRespaldada, EnCurso
<1>14. QED
  BY <1>1, <1>2, <1>3, <1>4, <1>5, <1>6, <1>7, <1>8, <1>9, <1>10, <1>11, <1>12, <1>13
     DEF Next, Reposo

(* The invariant of the ledger holds in every behaviour of the service.     *)
THEOREM SpecIInv == Spec => []IInv
  BY InitIInv, NextIInv, PTL DEF Spec

(* The database and the requests' memory only hold documents, states and    *)
(* amounts of their types.                                                  *)
THEOREM TypeCorrect == Spec => []TypeOK
<1>1. IInv => TypeOK
  BY DEF IInv
<1>2. QED
  BY <1>1, SpecIInv, PTL

(* registerPayment, condonarDeuda and liquidarAPropietario never impute     *)
(* beyond a partida's amount, however their requests interleave or die.     *)
THEOREM ImputacionSiempreAcotada == Spec => []ImputacionAcotada
<1>1. IInv => ImputacionAcotada
  BY DEF IInv
<1>2. QED
  BY <1>1, SpecIInv, PTL

(* No partida is credited with more than the entry's historial_cambios      *)
(* accounts for.                                                            *)
THEOREM CreditoSiempreRespaldado == Spec => []CreditoRespaldado
<1>1. IInv => CreditoRespaldado
  BY DEF IInv
<1>2. QED
  BY <1>1, SpecIInv, PTL

----------------------------------------------------------------------------
(* While no two requests have overlapped: the history accounts for every    *)
(* credit exactly, and the states that the handlers derive mean what they   *)
(* say.  Single writes (a new entry, a deletion, the invoicing marks) may   *)
(* still fall between the read and the save of the request in progress.     *)

(* What a state says of the partidas.                                       *)

Coherente(d) ==
  /\ d.estado = "COBRADO" => DebeCobrado(d) /\ ~ HaberLiquidado(d)
  /\ d.estado = "PAGADO" => DebeCobrado(d) /\ TodasLiquidadas(d)
  /\ d.estado = "CONDONADO" => Total(d.pagado) >= d.monto_original

Derivados == {"COBRADO", "PAGADO", "CONDONADO"}

(* A HABER side liquidated as a whole is liquidated partida by partida,     *)
(* since none is liquidated beyond its amount.                              *)
LEMMA HaberPorPartida ==
  ASSUME NEW d \in Documento, Acotado(d), HaberLiquidado(d)
  PROVE  TodasLiquidadas(d)
<1>1. /\ d.haber[1] \in Nat /\ d.liquidado[1] \in Nat /\ d.liquidado[1] <= d.haber[1]
      /\ d.haber[2] \in Nat /\ d.liquidado[2] \in Nat /\ d.liquidado[2] <= d.haber[2]
  BY DEF Documento, Acotado, Lado
<1>2. d.liquidado[1] = d.haber[1] /\ d.liquidado[2] = d.haber[2]
  BY <1>1 DEF HaberLiquidado, Total
<1>3. \A i \in Lado : d.liquidado[i] = d.haber[i] /\ d.haber[i] \in Nat
  BY <1>1, <1>2 DEF Lado
<1>4. QED
  BY <1>3, PesoAssumption DEF TodasLiquidadas, Abs

(* What is collected and what is liquidated never shrink, so a state that   *)
(* was reached stays true of the partidas.                                  *)
LEMMA Crece ==
  ASSUME NEW d \in Documento, NEW n, NEW c, Aplica(d, n, c)
  PROVE  /\ DebeCobrado(d) => DebeCobrado(n)
         /\ Total(d.pagado) >= d.monto_original => Total(n.pagado) >= n.monto_original
         /\ TodasLiquidadas(d) => TodasLiquidadas(n)
<1>1. /\ n \in Documento /\ n.haber = d.haber /\ n.monto_actual = d.monto_actual
      /\ n.monto_original = d.monto_original
      /\ \A i \in Lado : /\ n.pagado[i] \in Nat /\ d.pagado[i] \in Nat /\ n.pagado[i] >= d.pagado[i]
                         /\ n.liquidado[i] \in Nat /\ d.liquidado[i] \in Nat
                         /\ n.liquidado[i] >= d.liquidado[i] /\ n.liquidado[i] <= d.haber[i]
                         /\ d.haber[i] \in Nat
  BY DEF Aplica, MismaForma, Acotado, Documento, Historial
<1>2. Total(n.pagado) >= Total(d.pagado) /\ Total(n.pagado) \in Nat /\ Total(d.pagado) \in Nat
  BY <1>1 DEF Total, Lado
<1>3. d.monto_actual \in Nat /\ d.monto_original \in Nat
  BY DEF Documento
<1>4. TodasLiquidadas(d) => TodasLiquidadas(n)
  BY <1>1, PesoAssumption DEF TodasLiquidadas, Abs
<1>5. QED
  BY <1>1, <1>2, <1>3, <1>4 DEF DebeCobrado

(* registerPayment derives the state from the partidas as it leaves them.   *)
LEMMA PagoCoherente ==
  ASSUME NEW d \in Documento, NEW m \in Nat, Acotado(d)
  PROVE  Coherente(Pagado(d, m))
<1> DEFINE n == Imputar(d, m)
           p == Pagado(d, m)
<1>1. n \in Documento /\ Acotado(n)
  BY ReparteDentroDeLoDebido
<1> HIDE DEF n
<1>2. EstadoTrasPago(n) \in Estados
  BY DEF EstadoTrasPago, Estados
<1>3. /\ p = [n EXCEPT !.estado = EstadoTrasPago(n)] /\ p.estado = EstadoTrasPago(n)
      /\ MismaForma(p, n) /\ p.pagado = n.pagado /\ p.liquidado = n.liquidado
  BY <1>1, <1>2, CambioDeEstado DEF Pagado, n, Documento
<1> HIDE DEF p
<1>4. /\ DebeCobrado(p) <=> DebeCobrado(n)
      /\ HaberLiquidado(p) <=> HaberLiquidado(n)
      /\ TodasLiquidadas(p) <=> TodasLiquidadas(n)
  BY <1>3 DEF DebeCobrado, HaberLiquidado, TodasLiquidadas, MismaForma
<1>5. HaberLiquidado(n) => TodasLiquidadas(n)
  BY <1>1, HaberPorPartida
<1>6. Coherente(p)
  BY <1>3, <1>4, <1>5 DEF Coherente, EstadoTrasPago
<1>7. QED
  BY <1>6 DEF p

(* condonarDeuda *)
LEMMA CondonacionCoherente ==
  ASSUME NEW d \in Documento, NEW m \in Nat, Acotado(d)
  PROVE  Coherente(Condonado(d, m))
<1> DEFINE k == Pos(MontoCondonar(d, m))
           n == Imputar(d, k)
           e == IF Total(n.pagado) >= n.monto_original THEN "CONDONADO" ELSE "PAGADO_PARCIAL"
           x == Condonado(d, m)
<1>1. k \in Nat
  BY DEF Pos, MontoCondonar, SaldoCondonable, Total, Documento, Lado
<1>2. n \in Documento
  BY <1>1, ReparteDentroDeLoDebido
<1>3. x = [n EXCEPT !.estado = e]
  BY DEF Condonado
<1> HIDE DEF n
<1>4. x.estado = e /\ x.pagado = n.pagado /\ x.monto_original = n.monto_original
  BY <1>2, <1>3 DEF Documento
<1> HIDE DEF x
<1>5. Coherente(x)
  BY <1>4 DEF Coherente
<1>6. QED
  BY <1>5 DEF x

(* liquidarAPropietario: COBRADO becomes PAGADO once every credit is paid.  *)
LEMMA LiquidacionCoherente ==
  ASSUME NEW d \in Documento, NEW g, NEW m \in Nat, Acotado(d), Coherente(d)
  PROVE  Coherente(Liquidado(d, g, m))
<1> DEFINE x == Liquidado(d, g, m)
           h == HaberALiquidar(d, g, m)
           c == DebeACompensar(d, g)
           n == [d EXCEPT !.liquidado = Mas(@, h), !.pagado = Mas(@, c)]
           e == IF ~ TodasLiquidadas(n) THEN n.estado
                ELSE IF n.estado = "COBRADO" THEN "PAGADO" ELSE "LIQUIDADO"
           cambio == [pagos |-> 0, imputado |-> c, liquidado |-> h, ingresos |-> 0,
                      egresos |-> Abs(MontoNeto(d, g, m))]
<1>1. Aplica(d, x, cambio)
  BY LiquidacionAplica
<1>2. x = [n EXCEPT !.estado = e]
  BY DEF Liquidado
<1>3. n.estado = d.estado /\ n.haber = d.haber /\ DOMAIN n = DOMAIN d
  BY DEF Documento
<1> HIDE DEF n
<1>4. x.estado = e /\ x.haber = n.haber /\ x.liquidado = n.liquidado
  BY <1>2, <1>3 DEF Documento
<1>5. TodasLiquidadas(x) <=> TodasLiquidadas(n)
  BY <1>4 DEF TodasLiquidadas
<1> HIDE DEF x, cambio
<1>6. HaberLiquidado(x) => TodasLiquidadas(x)
  BY <1>1, HaberPorPartida DEF Aplica
<1>7. /\ DebeCobrado(d) => DebeCobrado(x)
      /\ Total(d.pagado) >= d.monto_original => Total(x.pagado) >= x.monto_original
  BY <1>1, Crece
<1>8. ASSUME TodasLiquidadas(x)
      PROVE  Coherente(x)
  BY <1>3, <1>4, <1>5, <1>7, <1>8 DEF Coherente
<1>9. ASSUME ~ TodasLiquidadas(x)
      PROVE  Coherente(x)
  <2>1. ~ TodasLiquidadas(d)
    BY <1>1, <1>9, Crece
  <2>2. x.estado = d.estado
    BY <1>3, <1>4, <1>5, <1>9
  <2>3. QED
    BY <1>6, <1>7, <1>9, <2>1, <2>2 DEF Coherente
<1>10. QED
  BY <1>8, <1>9 DEF x

----------------------------------------------------------------------------
(* The inductive invariant, on top of IInv.  While no two requests have     *)
(* overlapped, the one in progress works on what is stored, save for a mark *)
(* that may have replaced the state since it was read.                      *)

AlDia(r) ==
  LET l == local[r]
      d == asiento[l.a]
  IN  /\ l.leido.pagado = d.pagado /\ l.leido.liquidado = d.liquidado
      /\ d.estado = l.leido.estado \/ d.estado \notin Derivados
      /\ Aplica(l.leido, l.nuevo, l.cambio)
      /\ Coherente(l.nuevo)

Exacto(a) == vida[a] = "vivo" => /\ asiento[a].pagado = historial[a].imputado
                                 /\ asiento[a].liquidado = historial[a].liquidado

Secuencial ==
  /\ \A r, q \in Requests : EnCurso(r) /\ EnCurso(q) => r = q
  /\ \A r \in Requests : EnCurso(r) => AlDia(r)
  /\ \A a \in Asientos : Coherente(asiento[a]) /\ Exacto(a)

SinHistorial == \A a \in Asientos : vida[a] = "libre" => historial[a] = HistorialVacio

SInv == IInv /\ SinHistorial /\ (~ solape => Secuencial)

(* An entry as create() stores it: nothing imputed, and its state PENDIENTE. *)
LEMMA PlantillaCoherente ==
  ASSUME NEW p \in Plantillas
  PROVE  Coherente(p) /\ p.pagado = Nada /\ p.liquidado = Nada
  BY PlantillasAssumption DEF Coherente, Nada, Documento

LEMMA InitSInv == Init => SInv
<1> SUFFICES ASSUME Init PROVE SInv
  OBVIOUS
<1>1. IInv
  BY InitIInv
<1>2. SinHistorial
  BY DEF Init, SinHistorial
<1>3. Secuencial
  BY MoldeOK, PlantillaCoherente DEF Init, Secuencial, EnCurso, Exacto
<1>4. QED
  BY <1>1, <1>2, <1>3 DEF SInv

(* A handler starts: with no other in progress, its copy is what is stored. *)
LEMMA ComenzarSInv ==
  ASSUME SInv, IInv', NEW r \in Requests, NEW a \in Asientos, vida[a] = "vivo",
         NEW nuevo, NEW cambio, Aplica(asiento[a], nuevo, cambio),
         Coherente(asiento[a]) => Coherente(nuevo),
         Comenzar(r, a, nuevo, cambio)
  PROVE  SInv'
<1> DEFINE l == [a |-> a, leido |-> asiento[a], nuevo |-> nuevo, cambio |-> cambio]
<1>1. /\ local' = [local EXCEPT ![r] = l]
      /\ solape' = (solape \/ \E q \in Requests : pc[q] # "inactivo")
      /\ pc[r] = "inactivo"
      /\ \A q \in Requests \ {r} : pc'[q] = pc[q]
      /\ UNCHANGED <<vida, asiento, historial>>
  BY DEF Comenzar, libro, SInv, IInv, TypeOK
<1>2. SinHistorial'
  BY <1>1 DEF SInv, SinHistorial
<1>3. ASSUME ~ solape'
      PROVE  Secuencial'
  <2>1. Secuencial /\ \A q \in Requests : ~ EnCurso(q)
    BY <1>1, <1>3 DEF SInv, EnCurso
  <2>2. \A q \in Requests : EnCurso(q)' => q = r
    BY <1>1, <2>1 DEF EnCurso
  <2>3. local'[r] = l
    BY <1>1 DEF SInv, IInv, TypeOK
  <2>4. /\ l.a = a /\ l.leido = asiento[a] /\ l.nuevo = nuevo /\ l.cambio = cambio
    OBVIOUS
  <2> HIDE DEF l
  <2>5. AlDia(r)'
    BY <1>1, <2>1, <2>3, <2>4 DEF AlDia, Secuencial
  <2>6. (\A x \in Asientos : Coherente(asiento[x]) /\ Exacto(x))'
    BY <1>1, <2>1 DEF Secuencial, Exacto
  <2>7. QED
    BY <2>2, <2>5, <2>6 DEF Secuencial
<1>4. QED
  BY <1>2, <1>3 DEF SInv

(* save(): what is written is what the request computed, for nobody else    *)
(* wrote the imputations; the state is its own or a mark.                   *)
LEMMA SaveSInv ==
  ASSUME SInv, IInv', NEW r \in Requests, Save(r)
  PROVE  SInv'
<1> DEFINE l == local[r]
           d == asiento[l.a]
           f == GuardarSobre(d, l.leido, l.nuevo)
           h == Push(historial[l.a], l.cambio)
<1>1. /\ l \in Local /\ l.a \in Asientos /\ vida[l.a] = "vivo" /\ EnCurso(r)
      /\ d \in Documento /\ Acotado(d) /\ Acotado(l.nuevo) /\ MismaForma(d, l.nuevo)
      /\ historial[l.a] \in Historial
  BY DEF SInv, IInv, TypeOK, Local, ImputacionAcotada, Vigente, EnCurso, Save
<1>2. l.leido \in Documento /\ l.nuevo \in Documento
  BY <1>1 DEF Local
<1>3. f \in Documento /\ MismaForma(f, d)
  <2> HIDE DEF l, d
  <2>1. QED
    BY <1>1, <1>2, Fusion DEF Fusionado
<1>4. f.estado = IF l.nuevo.estado = l.leido.estado THEN d.estado ELSE l.nuevo.estado
  <2> HIDE DEF l, d
  <2>1. QED
    BY <1>1 DEF GuardarSobre, Documento
<1>5. /\ asiento' = [asiento EXCEPT ![l.a] = f]
      /\ historial' = [historial EXCEPT ![l.a] = h]
      /\ UNCHANGED <<vida, solape>> /\ Terminar(r)
  BY DEF Save
<1>6. SinHistorial'
  BY <1>1, <1>5 DEF SInv, IInv, TypeOK, SinHistorial
<1>7. ASSUME ~ solape'
      PROVE  Secuencial'
  <2>1. Secuencial /\ AlDia(r) /\ Exacto(l.a) /\ Coherente(d)
    BY <1>1, <1>5, <1>7 DEF SInv, Secuencial
  <2>2. f.pagado = l.nuevo.pagado /\ f.liquidado = l.nuevo.liquidado
    <3>1. l.leido.pagado = d.pagado /\ l.leido.liquidado = d.liquidado
      BY <2>1 DEF AlDia
    <3> HIDE DEF l, d
    <3>2. QED
      BY <1>1, <1>2, <3>1, FusionAlDia
  <2>3. Coherente(f)
    <3>1. f.estado = l.nuevo.estado \/ f.estado \notin Derivados
      BY <1>4, <2>1 DEF AlDia
    <3>2. /\ f.haber = l.nuevo.haber /\ f.monto_actual = l.nuevo.monto_actual
          /\ f.monto_original = l.nuevo.monto_original
      BY <1>1, <1>3 DEF MismaForma
    <3>3. Coherente(l.nuevo)
      BY <2>1 DEF AlDia
    <3> HIDE DEF f, d, l
    <3>4. QED
      BY <2>2, <3>1, <3>2, <3>3
         DEF Coherente, Derivados, DebeCobrado, HaberLiquidado, TodasLiquidadas
  <2>4. f.pagado = h.imputado /\ f.liquidado = h.liquidado
    <3>1. /\ \A i \in Lado : /\ l.nuevo.pagado[i] = d.pagado[i] + l.cambio.imputado[i]
                             /\ l.nuevo.liquidado[i] = d.liquidado[i] + l.cambio.liquidado[i]
          /\ d.pagado = historial[l.a].imputado /\ d.liquidado = historial[l.a].liquidado
      BY <1>1, <2>1 DEF AlDia, Aplica, Exacto
    <3>2. /\ h.imputado = [i \in Lado |-> historial[l.a].imputado[i] + l.cambio.imputado[i]]
          /\ h.liquidado = [i \in Lado |-> historial[l.a].liquidado[i] + l.cambio.liquidado[i]]
      BY DEF Push, Mas
    <3>3. /\ f.pagado = [i \in Lado |-> l.nuevo.pagado[i]]
          /\ f.liquidado = [i \in Lado |-> l.nuevo.liquidado[i]]
      BY <1>1, <2>2 DEF Local, Documento
    <3> HIDE DEF f, h, d, l
    <3>4. QED
      BY <3>1, <3>2, <3>3
  <2> HIDE DEF f, h
  <2>5. \A a \in Asientos : Coherente(asiento'[a]) /\ Exacto(a)'
    BY <1>1, <1>5, <2>1, <2>3, <2>4 DEF Secuencial, Exacto, SInv, IInv, TypeOK
  <2>6. \A q \in Requests : ~ EnCurso(q)'
    BY <1>1, <1>5, <2>1 DEF Secuencial, EnCurso, Terminar, SInv, IInv, TypeOK
  <2>7. QED
    BY <2>5, <2>6 DEF Secuencial
<1>8. QED
  BY <1>6, <1>7 DEF SInv

(* A step of a request that writes no entry: it goes on, or ends.           *)
LEMMA PasoSinEscritura ==
  ASSUME SInv, IInv', UNCHANGED <<vida, asiento, historial, solape>>,
         \A q \in Requests : EnCurso(q)' => EnCurso(q) /\ local'[q] = local[q]
  PROVE  SInv'
<1>1. SinHistorial'
  BY DEF SInv, SinHistorial
<1>2. ASSUME ~ solape'
      PROVE  Secuencial'
  <2>1. Secuencial
    BY <1>2 DEF SInv
  <2>2. \A q \in Requests : EnCurso(q)' => AlDia(q)'
    BY <2>1 DEF Secuencial, AlDia
  <2>3. QED
    BY <2>1, <2>2 DEF Secuencial, Exacto
<1>3. QED
  BY <1>1, <1>2 DEF SInv

LEMMA TerminarSinEscritura ==
  ASSUME SInv, IInv', NEW r \in Requests, Terminar(r),
         UNCHANGED <<vida, asiento, historial, solape>>
  PROVE  SInv'
<1>1. \A q \in Requests : EnCurso(q)' => EnCurso(q) /\ local'[q] = local[q]
  BY DEF SInv, IInv, TypeOK, Terminar, EnCurso
<1>2. QED
  BY <1>1, PasoSinEscritura

LEMMA CreateSInv ==
  ASSUME SInv, IInv', NEW a \in Asientos, NEW p \in Plantillas, Create(a, p)
  PROVE  SInv'
<1>1. /\ vida[a] = "libre"
      /\ vida' = [vida EXCEPT ![a] = "vivo"]
      /\ asiento' = [asiento EXCEPT ![a] = p]
      /\ UNCHANGED <<historial, pc, local, solape>>
  BY DEF Create
<1>2. \A r \in Requests : EnCurso(r) => local[r].a \in Asientos \ {a}
  BY <1>1 DEF SInv, IInv, TypeOK, Local, Vigente
<1>3. SinHistorial'
  BY <1>1 DEF SInv, IInv, TypeOK, SinHistorial
<1>4. ASSUME ~ solape'
      PROVE  Secuencial'
  <2>1. Secuencial
    BY <1>1, <1>4 DEF SInv
  <2>2. \A r \in Requests : EnCurso(r)' => EnCurso(r) /\ AlDia(r)'
    BY <1>1, <1>2, <2>1 DEF Secuencial, AlDia, EnCurso, SInv, IInv, TypeOK
  <2>3. historial[a].imputado = Nada /\ historial[a].liquidado = Nada
    BY <1>1 DEF SInv, SinHistorial, HistorialVacio
  <2>4. \A x \in Asientos : Coherente(asiento'[x]) /\ Exacto(x)'
    BY <1>1, <2>1, <2>3, PlantillaCoherente DEF Secuencial, Exacto, SInv, IInv, TypeOK
  <2>5. QED
    BY <2>1, <2>2, <2>4 DEF Secuencial
<1>5. QED
  BY <1>3, <1>4 DEF SInv

(* A deleted entry keeps no history; what is left is as it was.             *)
LEMMA DeleteSInv ==
  ASSUME SInv, IInv', NEW c \in Contratos, DeleteManyByContractId(c)
  PROVE  SInv'
<1>1. /\ \A a \in Asientos : vida'[a] = "vivo" => vida[a] = "vivo" /\ historial'[a] = historial[a]
      /\ \A a \in Asientos : vida'[a] = "libre" => vida[a] = "libre" /\ historial'[a] = historial[a]
      /\ UNCHANGED <<asiento, pc, local, solape>>
  BY DEF DeleteManyByContractId
<1>2. SinHistorial'
  BY <1>1 DEF SInv, SinHistorial
<1>3. ASSUME ~ solape'
      PROVE  Secuencial'
  <2>1. Secuencial
    BY <1>1, <1>3 DEF SInv
  <2>2. \A q \in Requests : EnCurso(q)' => EnCurso(q) /\ AlDia(q)'
    BY <1>1, <2>1 DEF Secuencial, AlDia, EnCurso
  <2>3. \A a \in Asientos : Coherente(asiento'[a]) /\ Exacto(a)'
    BY <1>1, <2>1 DEF Secuencial, Exacto
  <2>4. QED
    BY <2>1, <2>2, <2>3 DEF Secuencial
<1>4. QED
  BY <1>2, <1>3 DEF SInv

(* A mark replaces the state by one that promises nothing of the partidas,  *)
(* even under a request that read the old one.                              *)
LEMMA MarcarSInv ==
  ASSUME SInv, IInv', NEW a \in Asientos, NEW e \in Estados \ Derivados, Marcar(a, e)
  PROVE  SInv'
<1> DEFINE d == [asiento[a] EXCEPT !.estado = e]
<1>1. /\ asiento' = [asiento EXCEPT ![a] = d]
      /\ UNCHANGED <<vida, historial, pc, local, solape>>
  BY DEF Marcar
<1>2. /\ d.pagado = asiento[a].pagado /\ d.liquidado = asiento[a].liquidado
      /\ d.estado = e
  BY CambioDeEstado DEF SInv, IInv, TypeOK, Documento
<1> HIDE DEF d
<1>3. SinHistorial'
  BY <1>1 DEF SInv, SinHistorial
<1>4. ASSUME ~ solape'
      PROVE  Secuencial'
  <2>1. Secuencial
    BY <1>1, <1>4 DEF SInv
  <2>2. /\ asiento'[a] = d
        /\ \A x \in Asientos : x # a => asiento'[x] = asiento[x]
    BY <1>1 DEF SInv, IInv, TypeOK
  <2>3. \A x \in Asientos : /\ asiento'[x].pagado = asiento[x].pagado
                            /\ asiento'[x].liquidado = asiento[x].liquidado
                            /\ asiento'[x].estado = asiento[x].estado \/ asiento'[x].estado = e
    BY <1>2, <2>2
  <2>4. Coherente(d)
    BY <1>2 DEF Coherente, Derivados
  <2>5. ASSUME NEW r \in Requests, EnCurso(r)'
        PROVE  EnCurso(r) /\ AlDia(r)'
    <3>1. EnCurso(r) /\ AlDia(r) /\ local'[r] = local[r] /\ local[r].a \in Asientos
      BY <1>1, <2>1, <2>5 DEF Secuencial, EnCurso, SInv, IInv, TypeOK, Local
    <3>2. QED
      BY <2>3, <3>1 DEF AlDia
  <2>6. \A x \in Asientos : Coherente(asiento'[x])
    BY <2>1, <2>2, <2>4 DEF Secuencial
  <2>7. \A x \in Asientos : Exacto(x)'
    BY <1>1, <2>1, <2>3 DEF Secuencial, Exacto
  <2>8. QED
    BY <2>1, <2>5, <2>6, <2>7 DEF Secuencial
<1>5. QED
  BY <1>3, <1>4 DEF SInv

----------------------------------------------------------------------------
LEMMA NextSInv ==
  ASSUME SInv, [Next]_vars
  PROVE  SInv'
<1>0. IInv' /\ IInv
  BY NextIInv DEF SInv
<1>1. ASSUME NEW a \in Asientos, NEW p \in Plantillas, Create(a, p) PROVE SInv'
  BY <1>0, <1>1, CreateSInv
<1>2. ASSUME NEW c \in Contratos, DeleteManyByContractId(c) PROVE SInv'
  BY <1>0, <1>2, DeleteSInv
<1>3. ASSUME NEW a \in Asientos,
             MarkAsPendingInvoice(a) \/ MarkAsInvoiced(a) \/ MarkAsLiquidated(a)
      PROVE  SInv'
  BY <1>0, <1>3, MarcarSInv
     DEF MarkAsPendingInvoice, MarkAsInvoiced, MarkAsLiquidated, Estados, Derivados
<1>4. \A a \in Asientos : asiento[a] \in Documento /\ Acotado(asiento[a])
  BY <1>0 DEF IInv, TypeOK, ImputacionAcotada
<1>5. ASSUME NEW r \in Requests, NEW a \in Asientos, NEW m \in Montos, RegisterPayment(r, a, m)
      PROVE  SInv'
  <2> DEFINE d == asiento[a]
             ingresos == IF Total(d.debe) > 0 THEN m ELSE 0
             c == [pagos |-> m, imputado |-> Menos(Pagado(d, m).pagado, d.pagado),
                   liquidado |-> Nada, ingresos |-> ingresos, egresos |-> 0]
  <2>1. d \in Documento /\ Acotado(d) /\ m \in Nat /\ ingresos \in Nat
    BY <1>4, MontosAssumption
  <2>2. vida[a] = "vivo" /\ Comenzar(r, a, Pagado(d, m), c)
    BY <1>5 DEF RegisterPayment, AdmitePago
  <2> HIDE DEF ingresos
  <2>3. Aplica(d, Pagado(d, m), c) /\ Coherente(Pagado(d, m))
    BY <2>1, PagoAplica, PagoCoherente
  <2>4. QED
    BY <1>0, <2>2, <2>3, ComenzarSInv
<1>6. ASSUME NEW r \in Requests, NEW a \in Asientos, AnularAsiento(r, a) PROVE SInv'
  <2>1. Aplica(asiento[a], Anulado(asiento[a]), HistorialVacio)
    BY <1>4, AnulacionAplica
  <2>2. Coherente(Anulado(asiento[a]))
    BY <1>4 DEF Anulado, Coherente, Documento
  <2>3. QED
    BY <1>0, <1>6, <2>1, <2>2, ComenzarSInv DEF AnularAsiento
<1>7. ASSUME NEW r \in Requests, NEW a \in Asientos, NEW m \in Montos \cup {0},
             CondonarDeuda(r, a, m)
      PROVE  SInv'
  <2> DEFINE d == asiento[a]
             c == [HistorialVacio EXCEPT !.imputado = Menos(Condonado(d, m).pagado, d.pagado)]
  <2>1. d \in Documento /\ Acotado(d) /\ m \in Nat
    BY <1>4, MontosAssumption
  <2>2. vida[a] = "vivo" /\ Comenzar(r, a, Condonado(d, m), c)
    BY <1>7 DEF CondonarDeuda
  <2>3. Aplica(d, Condonado(d, m), c) /\ Coherente(Condonado(d, m))
    BY <2>1, CondonacionAplica, CondonacionCoherente
  <2>4. QED
    BY <1>0, <2>2, <2>3, ComenzarSInv
<1>8. ASSUME NEW r \in Requests, NEW a \in Asientos, NEW g \in Agentes,
             NEW m \in Montos \cup {0}, LiquidarAPropietario(r, a, g, m)
      PROVE  SInv'
  <2> DEFINE d == asiento[a]
             c == [pagos |-> 0, imputado |-> DebeACompensar(d, g),
                   liquidado |-> HaberALiquidar(d, g, m),
                   ingresos |-> 0, egresos |-> Abs(MontoNeto(d, g, m))]
  <2>1. d \in Documento /\ Acotado(d) /\ m \in Nat
    BY <1>4, MontosAssumption
  <2>2. vida[a] = "vivo" /\ Comenzar(r, a, Liquidado(d, g, m), c)
    BY <1>8 DEF LiquidarAPropietario, AdmiteLiquidacion
  <2>3. Aplica(d, Liquidado(d, g, m), c) /\ (Coherente(d) => Coherente(Liquidado(d, g, m)))
    BY <2>1, LiquidacionAplica, LiquidacionCoherente
  <2>4. QED
    BY <1>0, <2>2, <2>3, ComenzarSInv
<1>9. ASSUME NEW r \in Requests, UpdateBalance(r) PROVE SInv'
  <2>1. /\ pc[r] = "caja" /\ pc' = [pc EXCEPT ![r] = "guardar"]
        /\ UNCHANGED <<vida, asiento, historial, local, solape>>
    BY <1>9 DEF UpdateBalance, libro
  <2>2. \A q \in Requests : EnCurso(q)' => EnCurso(q) /\ local'[q] = local[q]
    BY <1>0, <2>1 DEF IInv, TypeOK, EnCurso
  <2>3. QED
    BY <1>0, <2>1, <2>2, PasoSinEscritura
<1>10. ASSUME NEW r \in Requests, CuentaNoEncontrada(r) PROVE SInv'
  BY <1>0, <1>10, TerminarSinEscritura DEF CuentaNoEncontrada, libro
<1>11. ASSUME NEW r \in Requests, Save(r) PROVE SInv'
  BY <1>0, <1>11, SaveSInv
<1>12. ASSUME NEW r \in Requests, Perder(r) PROVE SInv'
  BY <1>0, <1>12, TerminarSinEscritura DEF Perder
<1>13. CASE UNCHANGED vars
  BY <1>0, <1>13, PasoSinEscritura DEF vars, EnCurso
<1>14. QED
  BY <1>1, <1>2, <1>3, <1>5, <1>6, <1>7, <1>8, <1>9, <1>10, <1>11, <1>12, <1>13
     DEF Next, Reposo, SaveNoEncontrado, Caida

THEOREM SpecSInv == Spec => []SInv
<1>1. SInv /\ [Next]_vars => SInv'
  BY NextSInv
<1>2. QED
  BY InitSInv, <1>1, PTL DEF Spec

(* An owner is never liquidated twice, nor a payment credited twice, by     *)
(* requests that come one after the other: the history of a live entry adds *)
(* up to exactly what its partidas were credited with.                      *)
THEOREM CreditoSiempreExacto == Spec => []CreditoExacto
<1>1. SInv => CreditoExacto
  BY DEF SInv, Secuencial, Exacto, CreditoExacto
<1>2. QED
  BY <1>1, SpecSInv, PTL

(* COBRADO, PAGADO and CONDONADO mean what registerPayment, condonarDeuda   *)
(* and liquidarAPropietario say, even if an invoicing mark fell between a   *)
(* request's read and its save.                                             *)
THEOREM EstadoSiempreCoherente == Spec => []EstadoCoherente
<1>1. SInv => EstadoCoherente
  BY DEF SInv, Secuencial, Coherente, EstadoCoherente
<1>2. QED
  BY <1>1, SpecSInv, PTL

----------------------------------------------------------------------------
(* The ledger seen from outside (LedgerViews).  Between its $inc and its    *)
(* save a request holds exactly what it moved; the histories of IInv are    *)
(* what makes each amount a number.                                         *)

LEMMA InitLibro == Init => LC!Init
<1>1. ASSUME Init, NEW a \in Asientos PROVE Anotado[a] = 0
  BY <1>1 DEF Init, Anotado, Flujo, HistorialVacio
<1>2. ASSUME Init PROVE EnMano = [r \in Requests |-> LC!Libre]
  BY <1>2 DEF Init, EnMano, Ninguno, LC!Libre
<1>3. ASSUME Init PROVE Anotado = LC!Cero
  BY <1>1, <1>3 DEF Anotado, LC!Cero
<1>4. QED
  BY <1>2, <1>3 DEF Init, LC!Init, LC!Cero

(* A step that moves no balance, writes no history and leaves every request *)
(* at "guardar" where it was is not seen by LibroContable.                  *)
LEMMA Tartamudeo ==
  ASSUME UNCHANGED <<saldo, historial, sinRastro>>,
         \A r \in Requests : (pc'[r] = "guardar" <=> pc[r] = "guardar")
                             /\ (pc[r] = "guardar" => local'[r] = local[r])
  PROVE  UNCHANGED LC!vars
<1>1. EnMano' = EnMano
  BY DEF EnMano
<1>2. Anotado' = Anotado
  BY DEF Anotado
<1>3. QED
  BY <1>1, <1>2 DEF LC!vars

(* The mapping of one request changes, the others stay.                     *)
LEMMA EnManoDe ==
  ASSUME NEW r \in Requests, NEW v,
         v = IF pc'[r] = "guardar"
             THEN [lleno |-> TRUE, a |-> local'[r].a, x |-> Flujo(local'[r].cambio)] ELSE Ninguno,
         \A q \in Requests \ {r} : pc'[q] = pc[q] /\ local'[q] = local[q]
  PROVE  EnMano' = [EnMano EXCEPT ![r] = v]
<1>1. EnMano' = [q \in Requests |->
         IF pc'[q] = "guardar"
         THEN [lleno |-> TRUE, a |-> local'[q].a, x |-> Flujo(local'[q].cambio)] ELSE Ninguno]
  BY DEF EnMano
<1>2. \A q \in Requests : EnMano'[q] = IF q = r THEN v ELSE EnMano[q]
  BY <1>1 DEF EnMano
<1>3. QED
  BY <1>1, <1>2 DEF EnMano

(* A handler starts: nothing moved yet; if nothing is to move, it goes      *)
(* straight to its save with an empty hand.                                 *)
LEMMA ComenzarLibro ==
  ASSUME IInv, NEW r \in Requests, NEW a \in Asientos, NEW nuevo, NEW cambio \in Historial,
         Comenzar(r, a, nuevo, cambio)
  PROVE  [LC!Next]_(LC!vars)
<1> DEFINE l == [a |-> a, leido |-> asiento[a], nuevo |-> nuevo, cambio |-> cambio]
<1>1. /\ pc[r] = "inactivo"
      /\ pc'[r] = IF cambio.ingresos + cambio.egresos > 0 THEN "caja" ELSE "guardar"
      /\ local'[r] = l
      /\ \A q \in Requests \ {r} : pc'[q] = pc[q] /\ local'[q] = local[q]
      /\ UNCHANGED <<saldo, historial, sinRastro>>
  BY DEF Comenzar, libro, IInv, TypeOK
<1>2. l.a = a /\ l.cambio = cambio
  OBVIOUS
<1> HIDE DEF l
<1>3. CASE cambio.ingresos + cambio.egresos > 0
  BY <1>1, <1>3, Tartamudeo
<1>4. CASE ~ (cambio.ingresos + cambio.egresos > 0)
  <2>1. Flujo(cambio) = 0
    BY <1>4 DEF Flujo, Historial
  <2>2. saldo \in Int /\ saldo' = saldo
    BY <1>1 DEF IInv, TypeOK
  <2>3. saldo' - saldo = 0
    BY <2>2
  <2>4. EnMano' = [EnMano EXCEPT ![r] = [lleno |-> TRUE, a |-> a, x |-> saldo' - saldo]]
    <3>1. /\ pc'[r] = "guardar" /\ local'[r].a = a
          /\ Flujo(local'[r].cambio) = saldo' - saldo
      BY <1>1, <1>2, <1>4, <2>1, <2>3
    <3>2. QED
      BY <1>1, <3>1, EnManoDe
  <2>5. ~ EnMano[r].lleno
    BY <1>1 DEF EnMano, Ninguno
  <2>6. Anotado' = Anotado
    BY <1>1 DEF Anotado
  <2>7. LC!Mover(r)
    BY <1>1, <2>2, <2>4, <2>5, <2>6 DEF LC!Mover
  <2>8. QED
    BY <2>7 DEF LC!Next
<1>5. QED
  BY <1>3, <1>4

(* updateBalance moves what the request will write.                         *)
LEMMA UpdateBalanceLibro ==
  ASSUME IInv, NEW r \in Requests, UpdateBalance(r)
  PROVE  LC!Next
<1> DEFINE x == Flujo(local[r].cambio)
<1>1. x \in Int /\ local[r].a \in Asientos
  BY FlujoEntero DEF IInv, TypeOK, Local
<1>2. /\ pc[r] = "caja" /\ pc'[r] = "guardar" /\ local' = local
      /\ saldo' = saldo + x /\ saldo \in Int
      /\ \A q \in Requests \ {r} : pc'[q] = pc[q] /\ local'[q] = local[q]
      /\ UNCHANGED <<historial, sinRastro>>
  BY DEF UpdateBalance, libro, IInv, TypeOK
<1>3. EnMano' = [EnMano EXCEPT ![r] = [lleno |-> TRUE, a |-> local[r].a, x |-> x]]
  BY <1>2, EnManoDe
<1> HIDE DEF x
<1>4. saldo' - saldo = x /\ saldo' \in Int
  BY <1>1, <1>2
<1>5. ~ EnMano[r].lleno
  BY <1>2 DEF EnMano, Ninguno
<1>6. Anotado' = Anotado
  BY <1>2 DEF Anotado
<1>7. LC!Mover(r)
  BY <1>1, <1>2, <1>3, <1>4, <1>5, <1>6 DEF LC!Mover
<1>8. QED
  BY <1>7 DEF LC!Next

(* The end of a request that had something in hand empties it.              *)
LEMMA ManoVacia ==
  ASSUME IInv, NEW r \in Requests, pc[r] = "guardar", Terminar(r)
  PROVE  /\ EnMano[r].lleno /\ EnMano[r].a = local[r].a
         /\ EnMano[r].x = Flujo(local[r].cambio)
         /\ EnMano' = [EnMano EXCEPT ![r] = LC!Libre]
<1>1. /\ pc'[r] = "inactivo"
      /\ \A q \in Requests \ {r} : pc'[q] = pc[q] /\ local'[q] = local[q]
  BY DEF Terminar, IInv, TypeOK
<1>2. EnMano' = [EnMano EXCEPT ![r] = Ninguno]
  BY <1>1, EnManoDe
<1>3. QED
  BY <1>2 DEF EnMano, Ninguno, LC!Libre

(* save() writes in the history of the entry what the request moved for it. *)
LEMMA SaveLibro ==
  ASSUME IInv, NEW r \in Requests, Save(r)
  PROVE  LC!Next
<1> DEFINE k == local[r].a
           c == local[r].cambio
           h == Push(historial[k], c)
<1>1. k \in Asientos /\ c \in Historial /\ historial[k] \in Historial /\ pc[r] = "guardar"
  BY DEF Save, IInv, TypeOK, Local
<1>2. /\ historial' = [historial EXCEPT ![k] = h]
      /\ Terminar(r) /\ UNCHANGED <<saldo, sinRastro>>
  BY DEF Save
<1>3. Flujo(h) = Flujo(historial[k]) + Flujo(c)
  BY <1>1 DEF Flujo, Push, Historial
<1>4. /\ EnMano[r].lleno /\ EnMano[r].a = k /\ EnMano[r].x = Flujo(c)
      /\ EnMano' = [EnMano EXCEPT ![r] = LC!Libre]
  BY <1>1, <1>2, ManoVacia
<1> HIDE DEF k, c, h
<1>5. Anotado' = [Anotado EXCEPT ![k] = @ + Flujo(c)]
  <2>1. Anotado' = [a \in Asientos |-> Flujo(historial'[a])]
    BY DEF Anotado
  <2>2. \A a \in Asientos : Flujo(historial'[a]) =
                              IF a = k THEN Anotado[k] + Flujo(c) ELSE Anotado[a]
    BY <1>1, <1>2, <1>3 DEF Anotado, IInv, TypeOK
  <2>3. QED
    BY <2>1, <2>2 DEF Anotado
<1>6. LC!Anotar(r)
  BY <1>2, <1>4, <1>5 DEF LC!Anotar
<1>7. QED
  BY <1>6 DEF LC!Next

(* A request that dies after its $inc loses what it moved.                  *)
LEMMA PerderLibro ==
  ASSUME IInv, NEW r \in Requests, pc[r] = "guardar", Perder(r)
  PROVE  LC!Next
<1>1. /\ sinRastro' = [sinRastro EXCEPT ![local[r].a] = @ + Flujo(local[r].cambio)]
      /\ Terminar(r) /\ UNCHANGED <<historial, saldo>>
  BY DEF Perder
<1>2. /\ EnMano[r].lleno /\ EnMano[r].a = local[r].a
      /\ EnMano[r].x = Flujo(local[r].cambio)
      /\ EnMano' = [EnMano EXCEPT ![r] = LC!Libre]
  BY <1>1, ManoVacia
<1>3. Anotado' = Anotado
  BY <1>1 DEF Anotado
<1>4. LC!Perder(r)
  BY <1>1, <1>2, <1>3 DEF LC!Perder
<1>5. QED
  BY <1>4 DEF LC!Next

(* The histories that deleteManyByContractId takes away are lost.           *)
LEMMA DeleteLibro ==
  ASSUME IInv, NEW c \in Contratos, DeleteManyByContractId(c)
  PROVE  LC!Next
<1> DEFINE B == {a \in Asientos : vida[a] = "vivo" /\ asiento[a].contrato = c}
<1>1. /\ historial' = [a \in Asientos |-> IF a \in B THEN HistorialVacio ELSE historial[a]]
      /\ sinRastro' = [a \in Asientos |-> IF a \in B THEN sinRastro[a] + Flujo(historial[a])
                                          ELSE sinRastro[a]]
      /\ UNCHANGED <<saldo, pc, local>>
  BY DEF DeleteManyByContractId
<1>2. B \in SUBSET Asientos
  OBVIOUS
<1> HIDE DEF B
<1>3. Flujo(HistorialVacio) = 0
  BY DEF Flujo, HistorialVacio
<1>4. Anotado' = [a \in Asientos |-> IF a \in B THEN 0 ELSE Anotado[a]]
  <2>1. Anotado' = [a \in Asientos |-> Flujo(historial'[a])]
    BY DEF Anotado
  <2>2. \A a \in Asientos : Flujo(historial'[a]) = IF a \in B THEN 0 ELSE Anotado[a]
    BY <1>1, <1>3 DEF Anotado
  <2>3. QED
    BY <2>1, <2>2
<1>5. sinRastro' = [a \in Asientos |-> IF a \in B THEN sinRastro[a] + Anotado[a] ELSE sinRastro[a]]
  BY <1>1 DEF Anotado
<1>6. EnMano' = EnMano
  BY <1>1 DEF EnMano
<1>7. LC!Borrar(B)
  BY <1>1, <1>4, <1>5, <1>6 DEF LC!Borrar
<1>8. QED
  BY <1>2, <1>7 DEF LC!Next

----------------------------------------------------------------------------
(* Every step of the ledger is a step of LibroContable, or a stutter.       *)
LEMMA PasoLibro ==
  ASSUME IInv, [Next]_vars
  PROVE  [LC!Next]_(LC!vars)
<1>1. ASSUME NEW a \in Asientos, NEW p \in Plantillas, Create(a, p) PROVE UNCHANGED LC!vars
  BY <1>1, Tartamudeo DEF Create
<1>2. ASSUME NEW a \in Asientos, NEW e, Marcar(a, e) PROVE UNCHANGED LC!vars
  BY <1>2, Tartamudeo DEF Marcar
<1>3. ASSUME NEW c \in Contratos, DeleteManyByContractId(c) PROVE LC!Next
  BY <1>3, DeleteLibro
<1>4. \A a \in Asientos : asiento[a] \in Documento /\ Acotado(asiento[a])
  BY DEF IInv, TypeOK, ImputacionAcotada
<1>5. ASSUME NEW r \in Requests, NEW a \in Asientos, NEW m \in Montos, RegisterPayment(r, a, m)
      PROVE  [LC!Next]_(LC!vars)
  <2> DEFINE d == asiento[a]
             ingresos == IF Total(d.debe) > 0 THEN m ELSE 0
             c == [pagos |-> m, imputado |-> Menos(Pagado(d, m).pagado, d.pagado),
                   liquidado |-> Nada, ingresos |-> ingresos, egresos |-> 0]
  <2>1. d \in Documento /\ Acotado(d) /\ m \in Nat /\ ingresos \in Nat
    BY <1>4, MontosAssumption
  <2>2. Comenzar(r, a, Pagado(d, m), c)
    BY <1>5 DEF RegisterPayment
  <2> HIDE DEF ingresos
  <2>3. c \in Historial
    BY <2>1, PagoAplica DEF Aplica
  <2>4. QED
    BY <2>2, <2>3, ComenzarLibro
<1>6. ASSUME NEW r \in Requests, NEW a \in Asientos, AnularAsiento(r, a)
      PROVE  [LC!Next]_(LC!vars)
  BY <1>6, NadaEsHistorial, ComenzarLibro DEF AnularAsiento
<1>7. ASSUME NEW r \in Requests, NEW a \in Asientos, NEW m \in Montos \cup {0},
             CondonarDeuda(r, a, m)
      PROVE  [LC!Next]_(LC!vars)
  <2> DEFINE d == asiento[a]
             c == [HistorialVacio EXCEPT !.imputado = Menos(Condonado(d, m).pagado, d.pagado)]
  <2>1. d \in Documento /\ Acotado(d) /\ m \in Nat
    BY <1>4, MontosAssumption
  <2>2. c \in Historial
    BY <2>1, CondonacionAplica DEF Aplica
  <2>3. Comenzar(r, a, Condonado(d, m), c)
    BY <1>7 DEF CondonarDeuda
  <2>4. QED
    BY <2>2, <2>3, ComenzarLibro
<1>8. ASSUME NEW r \in Requests, NEW a \in Asientos, NEW g \in Agentes,
             NEW m \in Montos \cup {0}, LiquidarAPropietario(r, a, g, m)
      PROVE  [LC!Next]_(LC!vars)
  <2> DEFINE d == asiento[a]
             c == [pagos |-> 0, imputado |-> DebeACompensar(d, g),
                   liquidado |-> HaberALiquidar(d, g, m),
                   ingresos |-> 0, egresos |-> Abs(MontoNeto(d, g, m))]
  <2>1. d \in Documento /\ Acotado(d) /\ m \in Nat
    BY <1>4, MontosAssumption
  <2>2. c \in Historial
    BY <2>1, LiquidacionAplica DEF Aplica
  <2>3. Comenzar(r, a, Liquidado(d, g, m), c)
    BY <1>8 DEF LiquidarAPropietario
  <2>4. QED
    BY <2>2, <2>3, ComenzarLibro
<1>9. ASSUME NEW r \in Requests, UpdateBalance(r) PROVE LC!Next
  BY <1>9, UpdateBalanceLibro
<1>10. ASSUME NEW r \in Requests, CuentaNoEncontrada(r) PROVE UNCHANGED LC!vars
  BY <1>10, Tartamudeo DEF CuentaNoEncontrada, Terminar, libro, IInv, TypeOK
<1>11. ASSUME NEW r \in Requests, Save(r) PROVE LC!Next
  BY <1>11, SaveLibro
<1>12. ASSUME NEW r \in Requests, SaveNoEncontrado(r) \/ Caida(r) PROVE LC!Next
  BY <1>12, PerderLibro DEF SaveNoEncontrado, Caida
<1>13. CASE UNCHANGED vars
  BY <1>13, Tartamudeo DEF vars
<1>14. QED
  BY <1>1, <1>2, <1>3, <1>5, <1>6, <1>7, <1>8, <1>9, <1>10, <1>11, <1>12, <1>13
     DEF Next, Reposo, MarkAsPendingInvoice, MarkAsInvoiced, MarkAsLiquidated

(* The ledger keeps the promise of LibroContable: every $inc of             *)
(* updateBalance belongs to one entry and is written once in its            *)
(* historial_cambios, or lost with the request or the entry.                *)
THEOREM LedgerImplementaLibro == Spec => ImplementaLibro
<1>1. IInv /\ [Next]_vars => [LC!Next]_(LC!vars)
  BY PasoLibro
<1>2. QED
  BY InitLibro, SpecIInv, <1>1, PTL DEF Spec, ImplementaLibro, LC!Spec

----------------------------------------------------------------------------
(* The statements.  No handler writes the amounts of a partida, so the two  *)
(* sides of a stored entry add up to the same, as its builder left them.    *)
Cuadrados == \A a \in Asientos : Total(asiento[a].debe) = Total(asiento[a].haber)

LEMMA EscrituraCuadra ==
  ASSUME TypeOK, Cuadrados, NEW a \in Asientos, NEW d, asiento' = [asiento EXCEPT ![a] = d],
         Total(d.debe) = Total(d.haber)
  PROVE  Cuadrados'
BY DEF TypeOK, Cuadrados

LEMMA CreateCuadrados ==
  ASSUME TypeOK, Cuadrados, NEW a \in Asientos, NEW p \in Plantillas, Create(a, p)
  PROVE  Cuadrados'
BY CuadreAssumption, EscrituraCuadra DEF Create

LEMMA SaveCuadrados ==
  ASSUME TypeOK, Cuadrados, NEW r \in Requests, Save(r)
  PROVE  Cuadrados'
<1>1. PICK a, l, n : a = local[r].a /\ l = local[r].leido /\ n = local[r].nuevo
  OBVIOUS
<1>2. PICK d : d = GuardarSobre(asiento[a], l, n)
  OBVIOUS
<1>3. a \in Asientos /\ asiento[a] \in Documento
  BY <1>1 DEF TypeOK, Local
<1>4. asiento' = [asiento EXCEPT ![a] = d]
  BY <1>1, <1>2, <1>3 DEF Save, TypeOK
<1>5. d.debe = asiento[a].debe /\ d.haber = asiento[a].haber
  BY <1>2, <1>3 DEF GuardarSobre, Documento
<1>6. QED
  BY <1>3, <1>4, <1>5, EscrituraCuadra DEF Cuadrados

LEMMA NextCuadrados == IInv /\ Cuadrados /\ [Next]_vars => Cuadrados'
<1> SUFFICES ASSUME IInv, Cuadrados, [Next]_vars PROVE Cuadrados'
  OBVIOUS
<1>1. TypeOK /\ \A a \in Asientos : asiento[a] \in Documento
  BY DEF IInv, TypeOK
<1>2. CASE asiento' = asiento
  BY <1>2 DEF Cuadrados
<1>3. ASSUME NEW a \in Asientos, NEW p \in Plantillas, Create(a, p) PROVE Cuadrados'
  BY <1>1, <1>3, CreateCuadrados
<1>4. ASSUME NEW a \in Asientos, NEW e, Marcar(a, e) PROVE Cuadrados'
  <2>1. PICK d : d = [asiento[a] EXCEPT !.estado = e]
    OBVIOUS
  <2>2. asiento' = [asiento EXCEPT ![a] = d]
    BY <1>1, <1>4, <2>1 DEF Marcar, TypeOK
  <2>3. d.debe = asiento[a].debe /\ d.haber = asiento[a].haber
    BY <1>1, <2>1 DEF Documento
  <2>4. QED
    BY <1>1, <2>2, <2>3, EscrituraCuadra DEF Cuadrados
<1>5. ASSUME NEW r \in Requests, Save(r) PROVE Cuadrados'
  BY <1>1, <1>5, SaveCuadrados
<1>6. QED
  <2>1. \A r \in Requests : UpdateBalance(r) \/ CuentaNoEncontrada(r) \/ SaveNoEncontrado(r) \/ Caida(r)
          => asiento' = asiento
    BY DEF UpdateBalance, CuentaNoEncontrada, SaveNoEncontrado, Caida, Perder, libro
  <2>2. \A r \in Requests, a \in Asientos :
          /\ \A m \in Montos : RegisterPayment(r, a, m) => asiento' = asiento
          /\ AnularAsiento(r, a) => asiento' = asiento
          /\ \A m \in Montos \cup {0} : CondonarDeuda(r, a, m) => asiento' = asiento
          /\ \A g \in Agentes, m \in Montos \cup {0} :
               LiquidarAPropietario(r, a, g, m) => asiento' = asiento
    BY DEF RegisterPayment, AnularAsiento, CondonarDeuda, LiquidarAPropietario, Comenzar, libro
  <2>3. \A c \in Contratos : DeleteManyByContractId(c) => asiento' = asiento
    BY DEF DeleteManyByContractId
  <2>4. UNCHANGED vars => asiento' = asiento
    BY DEF vars
  <2>5. QED
    BY <1>2, <1>3, <1>4, <1>5, <2>1, <2>2, <2>3, <2>4
       DEF Next, MarkAsPendingInvoice, MarkAsInvoiced, MarkAsLiquidated, Reposo

(* What an agent may still be paid, and still owes, through a partida.      *)
LEMMA Disponibles ==
  ASSUME NEW d \in Documento, NEW g, NEW i \in Lado, Acotado(d)
  PROVE  /\ HaberALiquidar(d, g, 0)[i] = Disponible(d, g, i)
         /\ Disponible(d, g, i) = (IF i \in Propias(d.haber, d.agenteHaber, g)
                                   THEN d.haber[i] - d.liquidado[i] ELSE 0)
         /\ Disponible(d, g, i) \in Nat
         /\ DebeACompensar(d, g)[i] = (IF i \in Propias(d.debe, d.agenteDebe, g)
                                       THEN SaldoDebe(d, i) ELSE 0)
         /\ DebeACompensar(d, g)[i] \in Nat
<1>1. \A k \in Lado : /\ d.haber[k] \in Nat /\ d.liquidado[k] \in Nat /\ d.liquidado[k] <= d.haber[k]
                      /\ d.debe[k] \in Nat /\ d.pagado[k] \in Nat /\ d.pagado[k] <= d.debe[k]
  BY DEF Documento, Acotado
<1>2. \A k \in Lado : Disponible(d, g, k) \in Nat
  BY <1>1 DEF Disponible, Pos
<1>3. Disponible(d, g, i) = (IF i \in Propias(d.haber, d.agenteHaber, g)
                             THEN d.haber[i] - d.liquidado[i] ELSE 0)
  BY <1>1 DEF Disponible, Pos, Propias
<1>4. DebeACompensar(d, g)[i] = DeudaDe(d, g, i)
  BY DEF DebeACompensar
<1>5. DeudaDe(d, g, i) = (IF i \in Propias(d.debe, d.agenteDebe, g) THEN SaldoDebe(d, i) ELSE 0)
      /\ DeudaDe(d, g, i) \in Nat
  BY <1>1 DEF DeudaDe, Deuda, Pos, Propias, SaldoDebe
<1>6. HaberALiquidar(d, g, 0)[i] = Disponible(d, g, i)
  BY <1>2 DEF HaberALiquidar, Menor, Lado
<1>7. QED
  BY <1>2, <1>3, <1>4, <1>5, <1>6

LEMMA DeudaSeMuestra ==
  ASSUME NEW d \in Documento, NEW g, Acotado(d)
  PROVE  DeudaMostrada(d, g)
<1>1. \A i \in Lado : DebeACompensar(d, g)[i] = IF i \in Propias(d.debe, d.agenteDebe, g)
                                               THEN SaldoDebe(d, i) ELSE 0
  BY Disponibles
<1>2. 1 \in Lado /\ 2 \in Lado
  BY DEF Lado
<1>3. SaldoPendienteDebe(d, g) = Total(DebeACompensar(d, g))
  BY <1>1, <1>2 DEF SaldoPendienteDebe, Total
<1>4. DebePendientes(d, g) = {i \in Lado : DebeACompensar(d, g)[i] > 0}
  BY <1>1 DEF DebePendientes, Propias
<1>5. QED
  BY <1>3, <1>4 DEF DeudaMostrada

(* What was collected is at most what is credited: the share of an agent in *)
(* it is at most its credit.                                                *)
LEMMA Recaudado ==
  ASSUME NEW T \in Nat, NEW H \in Nat \ {0}, T <= H, NEW E \in Nat, NEW h \in Nat
  PROVE  T * h * (E \div H) <= E * h
<1>1. PICK q \in Int : q = E \div H
  OBVIOUS
<1>2. q \in Nat /\ H * q <= E
  BY <1>1
<1>3. PICK x \in Nat, y \in Nat : x = H - T /\ y = E - H * q
  BY <1>2
<1>4. E * h - T * h * q = x * (h * q) + y * h
  BY <1>2, <1>3
<1>5. x * (h * q) \in Nat /\ y * h \in Nat
  BY <1>2, <1>3
<1>6. QED
  BY <1>1, <1>2, <1>4, <1>5

LEMMA Ofrecido ==
  ASSUME NEW T \in Nat, NEW H \in Nat \ {0}, T <= H, NEW h \in Nat, NEW l \in Nat, l * H < T * h
  PROVE  l < h
<1>1. PICK x \in Nat : x = H - T
  OBVIOUS
<1>2. SUFFICES ASSUME h <= l PROVE FALSE
  OBVIOUS
<1>3. PICK y \in Nat : y = l - h
  BY <1>2
<1>4. l * H - T * h = y * H + x * h
  BY <1>1, <1>3
<1>5. y * H \in Nat /\ x * h \in Nat
  BY <1>1, <1>3
<1>6. QED
  BY <1>4, <1>5

LEMMA CreditoSeMuestra ==
  ASSUME NEW d \in Documento, NEW g, Acotado(d), Total(d.debe) = Total(d.haber)
  PROVE  CreditoMostrado(d, g)
<1>1. PICK P : P = HaberALiquidar(d, g, 0)
  OBVIOUS
<1>2. /\ \A i \in Lado : /\ P[i] = IF i \in Propias(d.haber, d.agenteHaber, g)
                                   THEN d.haber[i] - d.liquidado[i] ELSE 0
                         /\ P[i] \in Nat
      /\ 1 \in Lado /\ 2 \in Lado
  BY <1>1, Disponibles DEF Lado
<1>3. ASSUME ~ EsDevolucion(d)
      PROVE  /\ HaberPendientes(d, g) = {i \in Lado : P[i] > 0}
             /\ \A i \in HaberPendientes(d, g) : MontoTotalLiquidable(d, i) = P[i]
  BY <1>2, <1>3 DEF HaberPendientes, MontoTotalLiquidable, Propias
<1>4. PICK T, H : T = Total(d.pagado) /\ H = Total(d.haber)
  OBVIOUS
<1>5. T \in Nat /\ H \in Nat /\ T <= H
  BY <1>2, <1>4 DEF Documento, Acotado, Total
<1>6. \A i \in Lado : /\ d.haber[i] \in Nat /\ d.liquidado[i] \in Nat
                      /\ d.haber[i] > 0 => H \in Nat \ {0}
  BY <1>2, <1>4 DEF Documento, Total, Lado
<1>7. SaldoDisponibleHaber(d, g) <= Escala * Total(P)
  <2>1. PICK R : R = [i \in Lado |-> IF i \in Propias(d.haber, d.agenteHaber, g)
                                     THEN RecaudadoDisponible(d, i) ELSE 0]
    OBVIOUS
  <2>2. ASSUME NEW i \in Lado PROVE R[i] \in Int /\ R[i] <= Escala * P[i]
    <3>1. CASE i \notin Propias(d.haber, d.agenteHaber, g)
      BY <1>2, <2>1, <3>1, EscalaAssumption
    <3>2. CASE i \in Propias(d.haber, d.agenteHaber, g)
      <4>1. PICK h, l \in Nat : h = d.haber[i] /\ l = d.liquidado[i]
        BY <1>6
      <4>2. h \in Nat /\ H \in Nat \ {0} /\ P[i] = h - l /\ R[i] = RecaudadoDisponible(d, i)
        BY <1>2, <1>6, <2>1, <3>2, <4>1 DEF Propias
      <4>3. CASE EsDevolucion(d)
        BY <4>1, <4>2, <4>3, EscalaAssumption DEF RecaudadoDisponible
      <4>4. CASE ~ EsDevolucion(d)
        <5>1. R[i] = T * h * (Escala \div H) - Escala * l
          BY <1>4, <4>1, <4>2, <4>4 DEF RecaudadoDisponible
        <5>2. PICK z \in Int : z = T * h * (Escala \div H)
          BY <1>5, <4>2, EscalaAssumption
        <5>3. z <= Escala * h
          BY <1>5, <4>2, <5>2, EscalaAssumption, Recaudado
        <5>4. Escala * h - Escala * l = Escala * (h - l) /\ Escala * l \in Int /\ Escala * h \in Int
          BY <4>1, <4>2, EscalaAssumption
        <5>5. QED
          BY <4>2, <5>1, <5>2, <5>3, <5>4
      <4>5. QED
        BY <4>3, <4>4
    <3>3. QED
      BY <3>1, <3>2
  <2>3. R[1] + R[2] <= Escala * P[1] + Escala * P[2]
    <3>1. Escala * P[1] \in Int /\ Escala * P[2] \in Int
      BY <1>2, EscalaAssumption
    <3>2. QED
      BY <1>2, <2>2, <3>1
  <2>4. Escala * P[1] + Escala * P[2] = Escala * (P[1] + P[2])
    BY <1>2, EscalaAssumption
  <2>5. SaldoDisponibleHaber(d, g) = R[1] + R[2]
    BY <2>1 DEF SaldoDisponibleHaber, Total
  <2>6. QED
    BY <2>3, <2>4, <2>5 DEF Total
<1>8. PendientesDeLiquidar(d, g) \subseteq {i \in Lado : P[i] > 0}
  <2> SUFFICES ASSUME NEW i \in PendientesDeLiquidar(d, g) PROVE i \in Lado /\ P[i] > 0
    OBVIOUS
  <2>1. i \in Propias(d.haber, d.agenteHaber, g) /\ T * d.haber[i] > d.liquidado[i] * H
    BY <1>4 DEF PendientesDeLiquidar
  <2>2. i \in Lado /\ d.haber[i] > 0
    BY <2>1 DEF Propias
  <2>3. PICK h, l \in Nat : h = d.haber[i] /\ l = d.liquidado[i]
    BY <1>6, <2>2
  <2>4. h \in Nat /\ H \in Nat \ {0} /\ l * H < T * h
    <3>1. h \in Nat /\ H \in Nat \ {0}
      BY <1>6, <2>2, <2>3
    <3>2. T * h \in Int /\ l * H \in Int
      BY <1>5, <2>3, <3>1
    <3>3. QED
      BY <2>1, <2>3, <3>1, <3>2
  <2>5. l < h
    BY <1>5, <2>4, Ofrecido
  <2>6. QED
    BY <1>2, <2>1, <2>2, <2>3, <2>4, <2>5
<1>9. QED
  BY <1>1, <1>3, <1>7, <1>8 DEF CreditoMostrado

LEMMA BalanceSeMuestra ==
  ASSUME NEW d \in Documento, NEW g, Acotado(d), DeudaMostrada(d, g), CreditoMostrado(d, g)
  PROVE  BalanceMostrado(d, g)
<1>1. PICK p, c : p = Total(HaberALiquidar(d, g, 0)) /\ c = Total(DebeACompensar(d, g))
  OBVIOUS
<1>2. p \in Nat /\ c \in Nat
  BY <1>1, Disponibles DEF Total, Lado
<1>3. SaldoPendienteDebe(d, g) = c /\ SaldoDisponibleHaber(d, g) <= Escala * p
  BY <1>1 DEF DeudaMostrada, CreditoMostrado
<1>4. MontoNeto(d, g, 0) = p - c
  BY <1>1 DEF MontoNeto
<1>5. PICK s : s = SaldoDisponibleHaber(d, g)
  OBVIOUS
<1>6. s \in Int
  <2>1. \A i \in Lado : /\ d.haber[i] \in Nat /\ d.liquidado[i] \in Nat
                        /\ d.haber[i] > 0 => Total(d.haber) \in Nat \ {0}
    BY DEF Documento, Total, Lado
  <2>2. Total(d.pagado) \in Nat
    BY DEF Documento, Total, Lado
  <2>3. \A i \in Propias(d.haber, d.agenteHaber, g) : RecaudadoDisponible(d, i) \in Int
    <3> TAKE i \in Propias(d.haber, d.agenteHaber, g)
    <3>1. PICK h, l, H, T : /\ h = d.haber[i] /\ l = d.liquidado[i]
                            /\ H = Total(d.haber) /\ T = Total(d.pagado)
      OBVIOUS
    <3>2. h \in Nat /\ l \in Nat /\ H \in Nat \ {0} /\ T \in Nat
      BY <2>1, <2>2, <3>1 DEF Propias
    <3>3. Escala * (h - l) \in Int /\ T * h * (Escala \div H) - Escala * l \in Int
      BY <3>2, EscalaAssumption
    <3>4. QED
      BY <3>1, <3>3 DEF RecaudadoDisponible
  <2>4. QED
    BY <1>5, <2>3 DEF SaldoDisponibleHaber, Total, Lado
<1>7. AgentBalance(d, g) = Escala * c - s
  BY <1>3, <1>5 DEF AgentBalance
<1>8. - Escala * (p - c) = Escala * c - Escala * p /\ Escala * p \in Int /\ Escala * c \in Int
  BY <1>2, EscalaAssumption
<1>9. QED
  BY <1>3, <1>4, <1>5, <1>6, <1>7, <1>8 DEF BalanceMostrado

(* A debt in the list of pending entries can be paid in full.               *)
LEMMA PendienteSePaga ==
  ASSUME NEW a \in Asientos, asiento[a] \in Documento, vida[a] = "vivo"
  PROVE  PendienteCobrable(a)
<1>1. PICK D, T : D = Total(asiento[a].debe) /\ T = Total(asiento[a].pagado)
  OBVIOUS
<1>2. D \in Nat /\ T \in Nat
  BY <1>1 DEF Documento, Total, Lado
<1>3. ASSUME EnListaDePendientes(asiento[a]), D - T > 0
      PROVE  AdmitePago(a, D - T)
  <2>1. SaldoPendiente(asiento[a]) = D - T
    BY <1>1, <1>2, <1>3 DEF SaldoPendiente
  <2>2. asiento[a].estado \notin {"ANULADO", "CONDONADO"}
    BY <1>3 DEF EnListaDePendientes
  <2>3. QED
    BY <1>2, <2>1, <2>2 DEF AdmitePago
<1>4. QED
  BY <1>1, <1>3 DEF PendienteCobrable

(* The statements never promise what the operations would not do, whatever  *)
(* requests interleave, die or find their entry deleted                     *)
(* (getEstadoCuentaByAgente, findWithFilters, getAgentPendingLiquidation).  *)
THEOREM EstadoDeCuentaSiempreFiel == Spec => []EstadoDeCuentaFiel
<1>1. Init => Cuadrados
  BY MoldeOK, CuadreAssumption DEF Init, Cuadrados
<1>2. IInv /\ Cuadrados /\ [Next]_vars => Cuadrados'
  BY NextCuadrados
<1>3. ASSUME IInv, Cuadrados PROVE EstadoDeCuentaFiel
  <2> SUFFICES ASSUME NEW a \in Asientos, vida[a] = "vivo"
               PROVE  /\ \A g \in Agentes : /\ DeudaMostrada(asiento[a], g)
                                            /\ CreditoMostrado(asiento[a], g)
                                            /\ BalanceMostrado(asiento[a], g)
                      /\ PendienteCobrable(a)
    BY DEF EstadoDeCuentaFiel
  <2>1. PICK d : d = asiento[a]
    OBVIOUS
  <2>2. d \in Documento /\ Acotado(d) /\ Total(d.debe) = Total(d.haber)
    BY <1>3, <2>1 DEF IInv, TypeOK, ImputacionAcotada, Cuadrados
  <2>3. \A g \in Agentes : DeudaMostrada(d, g) /\ CreditoMostrado(d, g) /\ BalanceMostrado(d, g)
    BY <2>2, DeudaSeMuestra, CreditoSeMuestra, BalanceSeMuestra
  <2>4. PendienteCobrable(a)
    BY <2>1, <2>2, PendienteSePaga
  <2>5. QED
    BY <2>1, <2>3, <2>4
<1>4. Spec => []IInv
  BY SpecIInv
<1>5. QED
  BY <1>1, <1>2, <1>3, <1>4, PTL DEF Spec
=============================================================================
