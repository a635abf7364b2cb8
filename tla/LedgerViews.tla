---------------------------- MODULE LedgerViews ----------------------------
(***************************************************************************)
(* The ledger seen from outside: its statements against what its           *)
(* operations would do, and its cash against the abstract specification    *)
(* LibroContable.                                                          *)
(*                                                                         *)
(* AccountingEntriesService shows of an entry the agent's statement        *)
(* (getEstadoCuentaByAgente), the list of pending entries                  *)
(* (findWithFilters) and the credits waiting to be liquidated              *)
(* (getAgentPendingLiquidation): queries only.  A share of what was        *)
(* collected is a fraction of the HABER side; it is counted in units of    *)
(* 1/Escala.                                                               *)
(***************************************************************************)
EXTENDS AccountingEntries

CONSTANTS
  EsDevolucion(_),  \* the tipo_asiento of a document is the deposit's refund
  Escala            \* a multiple of every HABER total

ASSUME EscalaAssumption == Escala \in Nat \ {0}

(* incluir_anulados = false, the default.                                   *)
EnEstadoDeCuenta(d) == d.estado \notin {"ANULADO", "CONDONADO"}

Propias(f, agente, g) == {i \in Lado : f[i] > 0 /\ agente[i] = g}

(* saldo_pendiente of a DEBE movement.                                      *)
SaldoDebe(d, i) == d.debe[i] - d.pagado[i]

(* Mutant: monto_ya_liquidado is left out of the movement.                  *)
MontoTotalLiquidableBruto(d, i) == d.haber[i]

(* monto_total_liquidable of a HABER movement, collected or not.            *)
MontoTotalLiquidable(d, i) == d.haber[i] - d.liquidado[i]

(* monto_recaudado_disponible: the agent's share of what the DEBE side      *)
(* collected, less what it was already paid.  A refund does not wait for    *)
(* any collection.                                                          *)
RecaudadoDisponible(d, i) ==
  IF EsDevolucion(d) THEN Escala * (d.haber[i] - d.liquidado[i])
  ELSE Total(d.pagado) * d.haber[i] * (Escala \div Total(d.haber)) - Escala * d.liquidado[i]

(* The movements that the default filter (solo_pendientes) keeps.  That of  *)
(* a refund has no monto_total_liquidable, and undefined > 0 is false.      *)
DebePendientes(d, g) == {i \in Propias(d.debe, d.agenteDebe, g) : SaldoDebe(d, i) > 0}
HaberPendientes(d, g) ==
  {i \in Propias(d.haber, d.agenteHaber, g) : ~ EsDevolucion(d) /\ MontoTotalLiquidable(d, i) > 0}

(* resumen: over every movement of the agent, shown or not.                 *)
SaldoPendienteDebe(d, g) ==
  Total([i \in Lado |-> IF i \in Propias(d.debe, d.agenteDebe, g) THEN SaldoDebe(d, i) ELSE 0])
SaldoDisponibleHaber(d, g) ==
  Total([i \in Lado |-> IF i \in Propias(d.haber, d.agenteHaber, g)
                        THEN RecaudadoDisponible(d, i) ELSE 0])

(* calculateAgentBalance: positive when the agent owes.                     *)
AgentBalance(d, g) == Escala * SaldoPendienteDebe(d, g) - SaldoDisponibleHaber(d, g)

(* findWithFilters with solo_pendientes.  PENDIENTE_AJUSTE is never set by  *)
(* the operations of the ledger.                                            *)
EnListaDePendientes(d) ==
  /\ d.estado \in {"PENDIENTE", "PAGADO_PARCIAL", "COBRADO"}
  /\ Total(d.debe) - Total(d.pagado) > 0 \/ Total(d.haber) - Total(d.liquidado) > 0

(* getAgentPendingLiquidation.                                              *)
PendientesDeLiquidar(d, g) ==
  {i \in Propias(d.haber, d.agenteHaber, g) :
     /\ d.estado \in {"PAGADO", "PAGADO_PARCIAL"}
     /\ Total(d.pagado) > 0
     /\ Total(d.pagado) * d.haber[i] > d.liquidado[i] * Total(d.haber)}

----------------------------------------------------------------------------

(* The statements never promise what the operations would not do.  Of every *)
(* live entry and agent: the debt that getEstadoCuentaByAgente adds up is   *)
(* what liquidarAPropietario would compensate, the credits it lists are     *)
(* what liquidarAPropietario would pay if asked for everything, its         *)
(* collected share and the offers of getAgentPendingLiquidation stay within *)
(* that, and registerPayment takes the whole balance of an entry that       *)
(* findWithFilters lists with a debt.                                       *)
DeudaMostrada(d, g) ==
  LET compensaria == DebeACompensar(d, g)
  IN  /\ SaldoPendienteDebe(d, g) = Total(compensaria)
      /\ DebePendientes(d, g) = {i \in Lado : compensaria[i] > 0}
CreditoMostrado(d, g) ==
  LET pagaria == HaberALiquidar(d, g, 0)
  IN  /\ ~ EsDevolucion(d) =>
           /\ HaberPendientes(d, g) = {i \in Lado : pagaria[i] > 0}
           /\ \A i \in HaberPendientes(d, g) : MontoTotalLiquidable(d, i) = pagaria[i]
      /\ SaldoDisponibleHaber(d, g) <= Escala * Total(pagaria)
      /\ PendientesDeLiquidar(d, g) \subseteq {i \in Lado : pagaria[i] > 0}
BalanceMostrado(d, g) == AgentBalance(d, g) >= - Escala * MontoNeto(d, g, 0)
PendienteCobrable(a) ==
  LET deuda == Total(asiento[a].debe) - Total(asiento[a].pagado)
  IN  EnListaDePendientes(asiento[a]) /\ deuda > 0 => AdmitePago(a, deuda)
EstadoDeCuentaFiel ==
  \A a \in Asientos : vida[a] = "vivo" =>
    /\ EnEstadoDeCuenta(asiento[a]) =>
         \A g \in Agentes : /\ DeudaMostrada(asiento[a], g)
                            /\ CreditoMostrado(asiento[a], g)
                            /\ BalanceMostrado(asiento[a], g)
    /\ PendienteCobrable(a)

----------------------------------------------------------------------------
(* The ledger implements LibroContable.                                     *)

Ninguno == [lleno |-> FALSE, a |-> "ninguno", x |-> 0]
EnMano == [r \in Requests |-> IF pc[r] = "guardar"
                              THEN [lleno |-> TRUE, a |-> local[r].a,
                                    x |-> Flujo(local[r].cambio)]
                              ELSE Ninguno]
Anotado == [a \in Asientos |-> Flujo(historial[a])]

LC == INSTANCE LibroContable WITH Portadores <- Requests, enMano <- EnMano,
                                  anotado <- Anotado, perdido <- sinRastro

(* Whatever requests interleave, die or find their entry deleted, every     *)
(* $inc of updateBalance is one movement of one entry, written once in its  *)
(* historial_cambios by save() or lost with the request or the entry.       *)
ImplementaLibro == LC!Spec
=============================================================================
