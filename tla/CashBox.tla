------------------------------ MODULE CashBox ------------------------------
(***************************************************************************)
(* CashBoxService: openings and closures of one cash box (a financial      *)
(* account of type CAJA_EFECTIVO), over the balance that the payments and  *)
(* liquidations of the ledger move meanwhile with an atomic $inc.          *)
(*                                                                         *)
(* A closure reads the balance and, some awaits later, overwrites it with  *)
(* the physical count (updateBalance 'SET'); its adjustment entry and its  *)
(* movement are separate writes.  A request may die between any two.       *)
(***************************************************************************)
EXTENDS Integers, Sequences, FiniteSetsExt, SequencesExt

CONSTANTS
  Requests,   \* requests that may be in progress at the same time
  Importes,   \* amounts of a payment, a declaration or a count
  MaxOps,     \* bound: requests and payments in a behaviour
  MaxMuertes  \* bound: requests that die

VARIABLES
  saldo,     \* FinancialAccount.saldo_inicial
  movs,      \* cash box movements by timestamp, the unsaved ones included
  ajustes,   \* adjustment entries, in the order they were created
  op,        \* [Requests -> the request in progress]
  apertura,  \* history: balance set by the last opening
  flujos,    \* history: what payments moved since then
  base,      \* history: number of adjustment entries by then
  pisado,    \* history: a SET overwrote what its request had not read
  solape,    \* history: two requests have been in progress at the same time
  muertes, ops

hist == <<apertura, flujos, base, pisado>>
xvars == <<saldo, movs, ajustes, op, hist, solape, muertes, ops>>

Tipos == {"OPENING", "PARTIAL_CLOSURE", "FINAL_CLOSURE"}
SinAjuste == 0
SinOp == [paso |-> "libre", tipo |-> "OPENING", importe |-> 0, esperado |-> 0,
          ajuste |-> SinAjuste, mov |-> 0]

XInit ==
  /\ saldo = 0 /\ movs = <<>> /\ ajustes = <<>>
  /\ op = [r \in Requests |-> SinOp]
  /\ apertura = 0 /\ flujos = 0 /\ base = 0 /\ pisado = FALSE /\ solape = FALSE
  /\ muertes = 0 /\ ops = 0

----------------------------------------------------------------------------
Guardados == {k \in DOMAIN movs : movs[k].guardado}
Libre(r) ==
  /\ op[r].paso = "libre" /\ ops < MaxOps
  /\ ops' = ops + 1
  /\ solape' = (solape \/ \E s \in Requests : op[s].paso # "libre")

(* The ledger collects or pays m in cash.                                   *)
Mover(m) ==
  /\ ops < MaxOps /\ ops' = ops + 1
  /\ saldo' = saldo + m
  /\ flujos' = flujos + m
  /\ UNCHANGED <<movs, ajustes, op, apertura, base, pisado, solape, muertes>>

UpdateBalance == \E m \in Importes : Mover(m) \/ Mover(-m)

(* The first read of a handler, and what the request then knows.            *)
Comenzar(r, tipo, paso, importe, esperado) ==
  /\ Libre(r)
  /\ op' = [op EXCEPT ![r] = [SinOp EXCEPT !.tipo = tipo, !.paso = paso,
                                           !.importe = importe, !.esperado = esperado]]

(* Mutant: an opening does not look at the last movement.                   *)
CreateOpeningSinRevisar(r, declared_amount) ==
  /\ Comenzar(r, "OPENING", "fijar", declared_amount, 0)
  /\ UNCHANGED <<saldo, movs, ajustes, hist, muertes>>

(* createOpening(): the latest movement must be a final closure.            *)
CreateOpening(r, declared_amount) ==
  /\ Guardados # {} => movs[Max(Guardados)].tipo = "FINAL_CLOSURE"
  /\ Comenzar(r, "OPENING", "fijar", declared_amount, 0)
  /\ UNCHANGED <<saldo, movs, ajustes, hist, muertes>>

(* Mutant: a partial closure sets the balance too.                          *)
CreatePartialClosureFija(r, physical_count) ==
  /\ Comenzar(r, "PARTIAL_CLOSURE", "fijar", physical_count, saldo)
  /\ UNCHANGED <<saldo, movs, ajustes, hist, muertes>>

(* createPartialClosure(): reads the balance; it writes a movement only.    *)
CreatePartialClosure(r, physical_count) ==
  /\ Comenzar(r, "PARTIAL_CLOSURE", "fechar", physical_count, saldo)
  /\ UNCHANGED <<saldo, movs, ajustes, hist, muertes>>

(* createFinalClosure(): reads the balance, whatever the last movement was. *)
CreateFinalClosure(r, physical_count) ==
  /\ Comenzar(r, "FINAL_CLOSURE", IF physical_count # saldo THEN "ajustar" ELSE "fijar",
              physical_count, saldo)
  /\ UNCHANGED <<saldo, movs, ajustes, hist, muertes>>

Discrepancia(q) == q.importe - q.esperado
Abs(n) == IF n < 0 THEN -n ELSE n

(* Mutant: a shortage is not recorded.                                      *)
AsientoDeAjusteSoloSobrante(q) ==
  [descripcion |-> IF Discrepancia(q) > 0 THEN "Sobrante" ELSE "Faltante",
   debe |-> 0, haber |-> IF Discrepancia(q) > 0 THEN Discrepancia(q) ELSE 0]

(* The entry of a discrepancy: debe and haber of the cash box's partida;    *)
(* the other partida has them exchanged.                                    *)
AsientoDeAjuste(q) ==
  [descripcion |-> IF Discrepancia(q) > 0 THEN "Sobrante" ELSE "Faltante",
   debe  |-> IF Discrepancia(q) < 0 THEN Abs(Discrepancia(q)) ELSE 0,
   haber |-> IF Discrepancia(q) > 0 THEN Discrepancia(q) ELSE 0]

Ajustar(r) ==
  /\ op[r].paso = "ajustar"
  /\ ajustes' = Append(ajustes, AsientoDeAjuste(op[r]))
  /\ op' = [op EXCEPT ![r].paso = "fijar", ![r].ajuste = Len(ajustes) + 1]
  /\ UNCHANGED <<saldo, movs, hist, solape, muertes, ops>>

(* updateBalance(..., 'SET').                                               *)
FijarSaldo(r) ==
  LET q == op[r]
  IN  /\ q.paso = "fijar"
      /\ saldo' = q.importe
      /\ IF q.tipo = "OPENING"
         THEN /\ apertura' = q.importe /\ flujos' = 0 /\ base' = Len(ajustes)
              /\ pisado' = (\E s \in Requests \ {r} : op[s].tipo = "FINAL_CLOSURE"
                                                      /\ op[s].paso \in {"ajustar", "fijar"})
         ELSE /\ pisado' = (pisado \/ saldo # q.esperado)
              /\ UNCHANGED <<apertura, flujos, base>>
      /\ op' = [op EXCEPT ![r].paso = "fechar"]
      /\ UNCHANGED <<movs, ajustes, solape, muertes, ops>>

(* The movement is built, with its timestamp, and sent to be saved.         *)
Fechar(r) ==
  LET q == op[r]
  IN  /\ q.paso = "fechar"
      /\ movs' = Append(movs, [tipo |-> q.tipo, importe |-> q.importe, esperado |-> q.esperado,
                               ajuste |-> q.ajuste, guardado |-> FALSE])
      /\ op' = [op EXCEPT ![r].paso = "guardar", ![r].mov = Len(movs) + 1]
      /\ UNCHANGED <<saldo, ajustes, hist, solape, muertes, ops>>

(* newMovement.save().                                                      *)
GuardarMovimiento(r) ==
  /\ op[r].paso = "guardar"
  /\ movs' = [movs EXCEPT ![op[r].mov].guardado = TRUE]
  /\ op' = [op EXCEPT ![r] = SinOp]
  /\ UNCHANGED <<saldo, ajustes, hist, solape, muertes, ops>>

(* The process dies, or a write fails: nothing is undone or retried.        *)
Caida(r) ==
  /\ op[r].paso # "libre"
  /\ muertes < MaxMuertes
  /\ muertes' = muertes + 1
  /\ pisado' = (pisado \/ (op[r].paso = "fijar" /\ op[r].ajuste # SinAjuste))
  /\ op' = [op EXCEPT ![r] = SinOp]
  /\ UNCHANGED <<saldo, movs, ajustes, apertura, flujos, base, solape, ops>>

EnReposo == \A r \in Requests : op[r].paso = "libre"

XNext ==
  \/ UpdateBalance
  \/ \E r \in Requests :
       \/ \E m \in Importes : \/ CreateOpening(r, m) \/ CreatePartialClosure(r, m)
                              \/ CreateFinalClosure(r, m)
       \/ Ajustar(r) \/ FijarSaldo(r) \/ Fechar(r) \/ GuardarMovimiento(r) \/ Caida(r)
  \/ EnReposo /\ UNCHANGED xvars

XSpec == XInit /\ [][XNext]_xvars

----------------------------------------------------------------------------
(* Properties.                                                              *)

(* Every final closure that found a discrepancy refers to an adjustment     *)
(* entry of that amount and sign, its own; and an entry that no closure     *)
(* refers to belongs to a request in progress or to one that died           *)
(* (createFinalClosure writes the entry before the movement).               *)
Firmado(a) == IF a.descripcion = "Sobrante" THEN a.debe + a.haber ELSE -(a.debe + a.haber)
CierreAjustado ==
  /\ \A k \in Guardados : movs[k].tipo = "FINAL_CLOSURE" =>
       IF movs[k].importe = movs[k].esperado THEN movs[k].ajuste = SinAjuste
       ELSE /\ movs[k].ajuste # SinAjuste
            /\ Firmado(ajustes[movs[k].ajuste]) = movs[k].importe - movs[k].esperado
  /\ \A j, k \in Guardados : movs[j].ajuste = movs[k].ajuste /\ j # k => movs[j].ajuste = SinAjuste
  /\ Cardinality(DOMAIN ajustes \ {movs[k].ajuste : k \in Guardados})
       <= muertes + Cardinality({r \in Requests : op[r].ajuste # SinAjuste})

(* The balance is explained: what the last opening set, plus the payments   *)
(* and the adjustments since then, unless a closure overwrote a movement    *)
(* that it had not read or died after its adjustment.                       *)
SaldoExplicado ==
  EnReposo /\ ~ pisado =>
    saldo = apertura + flujos
            + SumFunctionOnSet([k \in DOMAIN ajustes |-> Firmado(ajustes[k])], (base + 1) .. Len(ajustes))

(* Until two requests overlap, two openings have a final closure between    *)
(* them: createOpening() refuses a cash box that is open, whatever died or  *)
(* was closed partially before.                                             *)
AperturaUnica ==
  ~ solape => \A j, k \in Guardados : j < k /\ movs[j].tipo = "OPENING" /\ movs[k].tipo = "OPENING" =>
    \E i \in Guardados : j < i /\ i < k /\ movs[i].tipo = "FINAL_CLOSURE"

(* The movements of the box as a whole.                                     *)
MovimientosDeCaja == CierreAjustado /\ AperturaUnica
=============================================================================
