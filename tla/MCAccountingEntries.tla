------------------------ MODULE MCAccountingEntries ------------------------
(* Instances of AccountingEntries for TLC.                                  *)
EXTENDS LedgerViews, TLC

CONSTANTS r1, r2

MCRequests == {r1, r2}
MCSimetria == Permutations(MCRequests)

Par(x, y) == [i \in Lado |-> IF i = 1 THEN x ELSE y]

Plantilla(c, monto, debe, gDebe, haber, gHaber) ==
  [contrato |-> c, estado |-> "PENDIENTE", monto_original |-> monto, monto_actual |-> monto,
   debe |-> debe, agenteDebe |-> gDebe, pagado |-> Par(0, 0),
   haber |-> haber, agenteHaber |-> gHaber, liquidado |-> Par(0, 0)]

(* A monthly rent: the tenant owes, the owner and the agency are credited.  *)
Alquiler == Plantilla("c1", 4, Par(4, 0), Par("locatario", SinAgente),
                      Par(3, 1), Par("locador", "inmobiliaria"))

(* A detected utility bill prorated over two properties, one without a      *)
(* tenant: its owner pays.                                                  *)
Servicio == Plantilla("c1", 3, Par(2, 1), Par("locatario", "locador"),
                      Par(3, 0), Par("proveedor", SinAgente))

(* The collection of a deposit: the credit side is the agency's own account. *)
Deposito == Plantilla("c2", 2, Par(2, 0), Par("locatario", SinAgente),
                      Par(2, 0), Par(SinAgente, SinAgente))

(* The refund of a deposit: the agency's own account owes the tenant.       *)
Devolucion == Plantilla("c2", 2, Par(2, 0), Par(SinAgente, SinAgente),
                        Par(2, 0), Par("locatario", SinAgente))
MCEsDevolucion(d) == d.agenteDebe[1] = SinAgente

MCPlantillas == {Alquiler, Servicio, Deposito, Devolucion}
MCAgentes == {"locatario", "locador", "inmobiliaria", "proveedor"}
=============================================================================
