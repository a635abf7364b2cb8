----------------------------- MODULE MCReceipts -----------------------------
(* Instances of Receipts for TLC.                                           *)
EXTENDS Receipts

CONSTANTS a1, a2

Par(x, y) == [i \in Lado |-> IF i = 1 THEN x ELSE y]

Plantilla(c, monto, debe, gDebe, haber, gHaber) ==
  [contrato |-> c, estado |-> "PENDIENTE", monto_original |-> monto, monto_actual |-> monto,
   debe |-> debe, agenteDebe |-> gDebe, pagado |-> Par(0, 0),
   haber |-> haber, agenteHaber |-> gHaber, liquidado |-> Par(0, 0)]

(* A monthly rent, and the fees that the owner owes the agency.             *)
Alquiler == Plantilla("c1", 3, Par(3, 0), Par("locatario", SinAgente),
                      Par(2, 1), Par("locador", "inmobiliaria"))
Honorarios == Plantilla("c1", 2, Par(2, 0), Par("locador", SinAgente),
                        Par(2, 0), Par("inmobiliaria", SinAgente))

MCPlantillas == {Alquiler, Honorarios}
MCAgentes == {"locatario", "locador", "inmobiliaria"}
MCAsientos == {a1, a2}
MCFacturables == {a1}

L(a, monto, tipo, agente) == [a |-> a, monto |-> monto, tipo |-> tipo, agente |-> agente]
Dto(lineas, total, fisico, banco, factura) ==
  [lineas |-> lineas, total |-> total, fisico |-> fisico, banco |-> banco, factura |-> factura]

Cobro       == Dto(<<L(a1, 2, "AUTO", "locador")>>, 2, 2, TRUE, TRUE)
CobroDoble  == Dto(<<L(a1, 1, "COBRO", "locador"), L(a2, 2, "COBRO", "locador")>>, 3, 3, FALSE, FALSE)
Mixto       == Dto(<<L(a1, 3, "COBRO", "locador"), L(a2, 1, "PAGO", "locador")>>, 4, 4, FALSE, FALSE)
PagoDeMas   == Dto(<<L(a1, 3, "PAGO", "locador")>>, 3, 3, TRUE, FALSE)
SinBanco    == Dto(<<L(a1, 2, "PAGO", "locador")>>, 2, 2, FALSE, FALSE)
ConSobrante == Dto(<<L(a1, 2, "COBRO", "locador")>>, 2, 3, TRUE, FALSE)
MalSumado   == Dto(<<L(a1, 1, "COBRO", "locador")>>, 2, 2, TRUE, FALSE)

MCDtos == {Cobro, CobroDoble, Mixto, PagoDeMas, SinBanco, ConSobrante, MalSumado}
=============================================================================
