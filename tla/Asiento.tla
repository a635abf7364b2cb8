------------------------------ MODULE Asiento ------------------------------
(***************************************************************************)
(* The accounting entry ("asiento") as a document, and what the handlers   *)
(* of AccountingEntriesService compute on a document they hold in memory.  *)
(* No state here: AccountingEntries, Receipts and the proofs share these   *)
(* operators.                                                              *)
(*                                                                         *)
(* A document has at most two DEBE partidas and two HABER partidas, which  *)
(* covers every shape the factory, the detected-expense pipeline and the   *)
(* receipts create; an absent partida has amount 0.  Money is an integer   *)
(* number of units; Peso units make one peso (the tolerance of the code).  *)
(***************************************************************************)
EXTENDS Integers

CONSTANTS
  Agentes,    \* agents that partidas belong to
  Contratos,  \* contracts that entries belong to
  Peso        \* money units in one peso

ASSUME PesoAssumption == Peso \in Nat \ {0}

Lado == 1 .. 2

(* The agente_id of a partida that has none (the agency's own accounts).    *)
SinAgente == "sin agente"
Titulares == Agentes \cup {SinAgente}

Estados == {"PENDIENTE", "PAGADO", "PAGADO_PARCIAL", "COBRADO", "ANULADO",
            "CONDONADO", "LIQUIDADO", "PENDIENTE_FACTURAR", "FACTURADO"}

Documento ==
  [contrato : Contratos, estado : Estados,
   monto_original : Nat, monto_actual : Nat,
   debe  : [Lado -> Nat], agenteDebe  : [Lado -> Titulares], pagado    : [Lado -> Nat],
   haber : [Lado -> Nat], agenteHaber : [Lado -> Titulares], liquidado : [Lado -> Nat]]

Menor(x, y) == IF x <= y THEN x ELSE y
Pos(x) == IF x > 0 THEN x ELSE 0
Abs(x) == IF x < 0 THEN -x ELSE x
Total(f) == f[1] + f[2]
Mas(f, g) == [i \in Lado |-> f[i] + g[i]]
Menos(f, g) == [i \in Lado |-> f[i] - g[i]]

----------------------------------------------------------------------------
(* Sums and per-partida debts.                                             *)

Deuda(d, i) == Pos(d.debe[i] - d.pagado[i])

(* What an agent may still be paid on (or still owes through) a partida.   *)
Disponible(d, g, i) ==
  IF d.haber[i] > 0 /\ d.agenteHaber[i] = g THEN Pos(d.haber[i] - d.liquidado[i]) ELSE 0
DeudaDe(d, g, i) ==
  IF d.debe[i] > 0 /\ d.agenteDebe[i] = g THEN Deuda(d, i) ELSE 0

TienePartidas(d, g) ==
  \E i \in Lado : \/ d.haber[i] > 0 /\ d.agenteHaber[i] = g
                  \/ d.debe[i] > 0 /\ d.agenteDebe[i] = g

DebeCobrado(d) == Total(d.pagado) >= d.monto_actual
HaberLiquidado(d) == Total(d.haber) = 0 \/ Total(d.liquidado) >= Total(d.haber)
TodasLiquidadas(d) == \A i \in Lado : d.haber[i] > 0 => Abs(d.liquidado[i] - d.haber[i]) < Peso

----------------------------------------------------------------------------
(* registerPayment.                                                        *)

(* The balance a payment is validated against.  The HABER partidas' own    *)
(* monto_pagado_acumulado is never written, hence 0 in the second branch.  *)
SaldoPendiente(d) ==
  IF Total(d.debe) > 0 /\ Total(d.pagado) < Total(d.debe)
  THEN Total(d.debe) - Total(d.pagado)
  ELSE Total(d.haber)

(* Mutant: the first partida takes the whole payment.                       *)
ImputarSinTope(d, m) ==
  [d EXCEPT !.pagado = [i \in Lado |-> @[i] + IF i = 1 THEN m ELSE 0]]

(* Greedy imputation of m to the DEBE partidas, in order.                  *)
Imputar(d, m) ==
  LET primera == Menor(m, Deuda(d, 1))
      segunda == Menor(m - primera, Deuda(d, 2))
  IN  [d EXCEPT !.pagado = [i \in Lado |-> @[i] + IF i = 1 THEN primera ELSE segunda]]

(* Mutant: collected means paid, whatever is owed to the HABER agents.      *)
EstadoTrasPagoSinHaber(d) == IF DebeCobrado(d) THEN "PAGADO" ELSE "PAGADO_PARCIAL"

EstadoTrasPago(d) ==
  IF DebeCobrado(d)
  THEN IF HaberLiquidado(d) THEN "PAGADO" ELSE "COBRADO"
  ELSE "PAGADO_PARCIAL"

Pagado(d, m) == [Imputar(d, m) EXCEPT !.estado = EstadoTrasPago(Imputar(d, m))]

----------------------------------------------------------------------------
(* condonarDeuda: m = 0 stands for a dto without monto_condonado (|| takes *)
(* the whole balance for 0 too).                                           *)

SaldoCondonable(d) == d.monto_original - Total(d.pagado)
MontoCondonar(d, m) == IF m = 0 THEN SaldoCondonable(d) ELSE m

Condonado(d, m) ==
  LET n == Imputar(d, Pos(MontoCondonar(d, m)))
  IN  [n EXCEPT !.estado = IF Total(n.pagado) >= n.monto_original
                           THEN "CONDONADO" ELSE "PAGADO_PARCIAL"]

(* Mutant: a state that the entity's enum does not have.                    *)
AnuladoFueraDeEnum(d) == [d EXCEPT !.estado = "CANCELADO"]

Anulado(d) == [d EXCEPT !.estado = "ANULADO"]

----------------------------------------------------------------------------
(* liquidarAPropietario: m = 0 stands for a dto without monto_a_liquidar   *)
(* (everything available).                                                 *)

HaberALiquidar(d, g, m) ==
  LET tope    == IF m = 0 THEN Disponible(d, g, 1) + Disponible(d, g, 2) ELSE m
      primera == Menor(tope, Disponible(d, g, 1))
      segunda == Menor(tope - primera, Disponible(d, g, 2))
  IN  [i \in Lado |-> IF i = 1 THEN primera ELSE segunda]

DebeACompensar(d, g) == [i \in Lado |-> DeudaDe(d, g, i)]

MontoNeto(d, g, m) == Total(HaberALiquidar(d, g, m)) - Total(DebeACompensar(d, g))

(* Mutant: monto_liquidado is assigned, not accumulated.                    *)
LiquidadoSinAcumular(d, g, m) ==
  LET h == HaberALiquidar(d, g, m)
  IN  [d EXCEPT !.liquidado = [i \in Lado |-> IF h[i] > 0 THEN h[i] ELSE @[i]],
                !.pagado    = Mas(@, DebeACompensar(d, g))]

Liquidado(d, g, m) ==
  LET h == HaberALiquidar(d, g, m)
      c == DebeACompensar(d, g)
      n == [d EXCEPT !.liquidado = Mas(@, h), !.pagado = Mas(@, c)]
  IN  [n EXCEPT !.estado = IF ~ TodasLiquidadas(n) THEN @
                           ELSE IF @ = "COBRADO" THEN "PAGADO" ELSE "LIQUIDADO"]

----------------------------------------------------------------------------
(* Mongoose's save(): of a document read as leido and modified in memory   *)
(* to nuevo, only the paths whose value changed are $set on the stored     *)
(* document; the version key is incremented but never matched, because the *)
(* last modified path is the $push on historial_cambios.                   *)
GuardarSobre(actual, leido, nuevo) ==
  [actual EXCEPT
     !.estado    = IF nuevo.estado = leido.estado THEN @ ELSE nuevo.estado,
     !.pagado    = [i \in Lado |-> IF nuevo.pagado[i] = leido.pagado[i]
                                   THEN @[i] ELSE nuevo.pagado[i]],
     !.liquidado = [i \in Lado |-> IF nuevo.liquidado[i] = leido.liquidado[i]
                                   THEN @[i] ELSE nuevo.liquidado[i]]]
=============================================================================
