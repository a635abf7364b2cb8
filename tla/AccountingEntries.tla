------------------------- MODULE AccountingEntries -------------------------
(***************************************************************************)
(* AccountingEntriesService: the ledger of entries and the balance of the  *)
(* financial account their operations move.                                *)
(*                                                                         *)
(* An operation is a request that runs between awaits: it reads the entry  *)
(* (findById), checks and computes on its copy, moves the balance          *)
(* (updateBalance, an atomic $inc), and saves the copy.  Requests          *)
(* interleave at those awaits; a request may die at any of them.           *)
(***************************************************************************)
EXTENDS Asiento, FiniteSetsExt

CONSTANTS
  Asientos,    \* entry identifiers
  Requests,    \* HTTP requests that may be in progress at the same time
  Plantillas,  \* documents that create() may store
  Montos,      \* amounts that a dto may carry
  MaxOps,      \* bound: operations started in a behaviour
  MaxFallas    \* bound: requests that die in a behaviour

ASSUME AsientosAssumption == Asientos # {}
ASSUME MontosAssumption == Montos \subseteq Nat \ {0}
ASSUME BoundsAssumption == MaxOps \in Nat /\ MaxFallas \in Nat
ASSUME PlantillasAssumption ==
  /\ Plantillas \subseteq Documento
  /\ Plantillas # {}
  /\ \A p \in Plantillas : /\ p.estado = "PENDIENTE"
                           /\ p.monto_actual = p.monto_original
                           /\ \A i \in Lado : p.pagado[i] = 0 /\ p.liquidado[i] = 0
(* The two sides of an entry add up to the same: the calls of the factory   *)
(* split one amount, build() refuses what differs, and the entry of a bill  *)
(* owes the provider its debits.                                            *)
ASSUME CuadreAssumption == \A p \in Plantillas : Total(p.debe) = Total(p.haber)

VARIABLES
  vida,       \* [Asientos -> {"libre", "vivo", "borrado"}]
  asiento,    \* [Asientos -> Documento]: the stored documents
  historial,  \* [Asientos -> Historial]: amounts of historial_cambios, by kind
  saldo,      \* FinancialAccount.saldo_inicial
  pc,         \* [Requests -> {"inactivo", "caja", "guardar"}]
  local,      \* [Requests -> Local]: what a request holds in memory
  sinRastro,  \* history: cash of each entry whose historial was deleted or never written
  ops, fallas, \* history: operations started and requests that died
  solape      \* history: two requests have been in progress at the same time

libro == <<vida, asiento, historial, sinRastro>>
vars == <<vida, asiento, historial, saldo, pc, local, sinRastro, ops, fallas, solape>>

(* Historial sums up historial_cambios: the payments, what the changes      *)
(* imputed to each DEBE partida and liquidated of each HABER partida, and   *)
(* the cash they stand for.                                                 *)
Historial == [pagos : Nat, imputado : [Lado -> Nat], liquidado : [Lado -> Nat],
              ingresos : Nat, egresos : Nat]
Nada == [i \in Lado |-> 0]
HistorialVacio == [pagos |-> 0, imputado |-> Nada, liquidado |-> Nada,
                   ingresos |-> 0, egresos |-> 0]

Flujo(h) == h.ingresos - h.egresos

(* $push of one record on historial_cambios.                                *)
Push(h, c) == [pagos     |-> h.pagos + c.pagos,
               imputado  |-> Mas(h.imputado, c.imputado),
               liquidado |-> Mas(h.liquidado, c.liquidado),
               ingresos  |-> h.ingresos + c.ingresos,
               egresos   |-> h.egresos + c.egresos]

(* A request's memory: the entry, its copy as read and as modified, and the *)
(* change it will push.                                                     *)
Local == [a : Asientos, leido : Documento, nuevo : Documento, cambio : Historial]

Molde == CHOOSE p \in Plantillas : TRUE
LocalVacio == [a |-> CHOOSE a \in Asientos : TRUE, leido |-> Molde, nuevo |-> Molde,
               cambio |-> HistorialVacio]

TypeOK ==
  /\ vida \in [Asientos -> {"libre", "vivo", "borrado"}]
  /\ asiento \in [Asientos -> Documento]
  /\ historial \in [Asientos -> Historial]
  /\ saldo \in Int
  /\ sinRastro \in [Asientos -> Int]
  /\ pc \in [Requests -> {"inactivo", "caja", "guardar"}]
  /\ local \in [Requests -> Local]
  /\ ops \in Nat /\ fallas \in Nat /\ solape \in BOOLEAN

Init ==
  /\ vida = [a \in Asientos |-> "libre"]
  /\ asiento = [a \in Asientos |-> Molde]
  /\ historial = [a \in Asientos |-> HistorialVacio]
  /\ saldo = 0
  /\ sinRastro = [a \in Asientos |-> 0]
  /\ pc = [r \in Requests |-> "inactivo"]
  /\ local = [r \in Requests |-> LocalVacio]
  /\ ops = 0 /\ fallas = 0 /\ solape = FALSE

----------------------------------------------------------------------------
(* Single database writes.                                                  *)

(* create(): a new document, as its caller built it.                        *)
Create(a, p) ==
  /\ vida[a] = "libre"
  /\ vida' = [vida EXCEPT ![a] = "vivo"]
  /\ asiento' = [asiento EXCEPT ![a] = p]
  /\ UNCHANGED <<historial, saldo, pc, local, sinRastro, ops, fallas, solape>>

(* deleteManyByContractId(): whatever their state.                          *)
DeleteManyByContractId(c) ==
  LET borrados == {a \in Asientos : vida[a] = "vivo" /\ asiento[a].contrato = c}
  IN  /\ borrados # {}
      /\ vida' = [a \in Asientos |-> IF a \in borrados THEN "borrado" ELSE vida[a]]
      /\ historial' = [a \in Asientos |-> IF a \in borrados THEN HistorialVacio
                                          ELSE historial[a]]
      /\ sinRastro' = [a \in Asientos |-> IF a \in borrados
                                          THEN sinRastro[a] + Flujo(historial[a])
                                          ELSE sinRastro[a]]
      /\ UNCHANGED <<asiento, saldo, pc, local, ops, fallas, solape>>

(* markAsPendingInvoice, markAsInvoiced, markAsLiquidated: updateMany on    *)
(* the identifiers, with no condition on the state they had.                *)
Marcar(a, e) ==
  /\ vida[a] = "vivo"
  /\ ops < MaxOps
  /\ asiento' = [asiento EXCEPT ![a].estado = e]
  /\ ops' = ops + 1
  /\ UNCHANGED <<vida, historial, saldo, pc, local, sinRastro, fallas, solape>>

MarkAsPendingInvoice(a) == Marcar(a, "PENDIENTE_FACTURAR")
MarkAsInvoiced(a) == Marcar(a, "FACTURADO")
MarkAsLiquidated(a) == Marcar(a, "LIQUIDADO")

----------------------------------------------------------------------------
(* First part of a handler, up to its first await after findById: the read, *)
(* the checks and the computation on the copy.                              *)

Comenzar(r, a, nuevo, cambio) ==
  /\ pc[r] = "inactivo" /\ ops < MaxOps
  /\ ops' = ops + 1
  /\ solape' = (solape \/ \E q \in Requests : pc[q] # "inactivo")
  /\ local' = [local EXCEPT ![r] = [a |-> a, leido |-> asiento[a], nuevo |-> nuevo,
                                    cambio |-> cambio]]
  /\ pc' = [pc EXCEPT ![r] = IF cambio.ingresos + cambio.egresos > 0 THEN "caja"
                             ELSE "guardar"]
  /\ UNCHANGED <<libro, saldo, fallas>>

AdmitePago(a, m) ==
  /\ vida[a] = "vivo"
  /\ asiento[a].estado \notin {"ANULADO", "CONDONADO"}
  /\ m <= SaldoPendiente(asiento[a])

RegisterPayment(r, a, m) ==
  LET d == asiento[a]
      n == Pagado(d, m)
  IN  /\ AdmitePago(a, m)
      /\ Comenzar(r, a, n, [pagos |-> m, imputado |-> Menos(n.pagado, d.pagado),
                            liquidado |-> Nada,
                            ingresos |-> IF Total(d.debe) > 0 THEN m ELSE 0, egresos |-> 0])

AnularAsiento(r, a) ==
  /\ vida[a] = "vivo"
  /\ asiento[a].estado \notin {"PAGADO", "ANULADO"}
  /\ Comenzar(r, a, Anulado(asiento[a]), HistorialVacio)

CondonarDeuda(r, a, m) ==
  LET d == asiento[a]
      n == Condonado(d, m)
  IN  /\ vida[a] = "vivo"
      /\ d.estado \notin {"ANULADO", "CONDONADO"}
      /\ MontoCondonar(d, m) <= SaldoCondonable(d)
      /\ Comenzar(r, a, n, [HistorialVacio EXCEPT !.imputado = Menos(n.pagado, d.pagado)])

AdmiteLiquidacion(a, g) == vida[a] = "vivo" /\ TienePartidas(asiento[a], g)

LiquidarAPropietario(r, a, g, m) ==
  LET d == asiento[a]
  IN  /\ AdmiteLiquidacion(a, g)
      /\ Comenzar(r, a, Liquidado(d, g, m),
                  [pagos |-> 0, imputado |-> DebeACompensar(d, g),
                   liquidado |-> HaberALiquidar(d, g, m),
                   ingresos |-> 0, egresos |-> Abs(MontoNeto(d, g, m))])

----------------------------------------------------------------------------
(* The rest of a handler.                                                   *)

Terminar(r) ==
  /\ pc' = [pc EXCEPT ![r] = "inactivo"]
  /\ local' = [local EXCEPT ![r] = LocalVacio]

(* Mutant: liquidations move the balance as INGRESO.                        *)
UpdateBalanceIngreso(r) ==
  /\ pc[r] = "caja"
  /\ saldo' = saldo + Abs(Flujo(local[r].cambio))
  /\ pc' = [pc EXCEPT ![r] = "guardar"]
  /\ UNCHANGED <<libro, local, ops, fallas, solape>>

(* updateBalance: $inc on the account.                                      *)
UpdateBalance(r) ==
  /\ pc[r] = "caja"
  /\ saldo' = saldo + Flujo(local[r].cambio)
  /\ pc' = [pc EXCEPT ![r] = "guardar"]
  /\ UNCHANGED <<libro, local, ops, fallas, solape>>

(* updateBalance finds no such account: the handler throws, nothing saved.  *)
CuentaNoEncontrada(r) ==
  /\ pc[r] = "caja"
  /\ Terminar(r)
  /\ UNCHANGED <<libro, saldo, ops, fallas, solape>>

(* Mutant: the whole copy is written back, without its history record.      *)
SaveSinHistorial(r) ==
  LET l == local[r]
  IN  /\ pc[r] = "guardar"
      /\ vida[l.a] = "vivo"
      /\ asiento' = [asiento EXCEPT ![l.a] = l.nuevo]
      /\ Terminar(r)
      /\ UNCHANGED <<vida, historial, saldo, sinRastro, ops, fallas, solape>>

(* asiento.save().                                                          *)
Save(r) ==
  LET l == local[r]
  IN  /\ pc[r] = "guardar"
      /\ vida[l.a] = "vivo"
      /\ asiento' = [asiento EXCEPT ![l.a] = GuardarSobre(@, l.leido, l.nuevo)]
      /\ historial' = [historial EXCEPT ![l.a] = Push(@, l.cambio)]
      /\ Terminar(r)
      /\ UNCHANGED <<vida, saldo, sinRastro, ops, fallas, solape>>

(* save() of a document deleted meanwhile, or the death of the process      *)
(* before save(): the balance was already moved.                            *)
Perder(r) ==
  /\ sinRastro' = [sinRastro EXCEPT ![local[r].a] = @ + Flujo(local[r].cambio)]
  /\ Terminar(r)
  /\ UNCHANGED <<vida, asiento, historial, saldo, ops, solape>>

SaveNoEncontrado(r) ==
  /\ pc[r] = "guardar"
  /\ vida[local[r].a] = "borrado"
  /\ Perder(r)
  /\ UNCHANGED fallas

Caida(r) ==
  /\ pc[r] = "guardar"
  /\ fallas < MaxFallas
  /\ fallas' = fallas + 1
  /\ Perder(r)

(* The server may stay idle; only a request stuck midway is a deadlock.     *)
Reposo == (\A r \in Requests : pc[r] = "inactivo") /\ UNCHANGED vars

Next ==
  \/ \E a \in Asientos, p \in Plantillas : Create(a, p)
  \/ \E c \in Contratos : DeleteManyByContractId(c)
  \/ \E a \in Asientos : MarkAsPendingInvoice(a) \/ MarkAsInvoiced(a) \/ MarkAsLiquidated(a)
  \/ \E r \in Requests, a \in Asientos :
       \/ \E m \in Montos : RegisterPayment(r, a, m)
       \/ AnularAsiento(r, a)
       \/ \E m \in Montos \cup {0} : CondonarDeuda(r, a, m)
       \/ \E g \in Agentes, m \in Montos \cup {0} : LiquidarAPropietario(r, a, g, m)
  \/ \E r \in Requests : \/ UpdateBalance(r) \/ CuentaNoEncontrada(r)
                         \/ Save(r) \/ SaveNoEncontrado(r) \/ Caida(r)
  \/ Reposo

Spec == Init /\ [][Next]_vars

----------------------------------------------------------------------------
(* Properties.                                                              *)

(* No partida is ever collected, remitted or compensated beyond its debt,   *)
(* nor liquidated beyond its credit: neither in the database nor in the     *)
(* copy a request is about to save, whatever the interleaving of            *)
(* registerPayment, condonarDeuda and liquidarAPropietario.                 *)
Acotado(d) == \A i \in Lado : d.pagado[i] <= d.debe[i] /\ d.liquidado[i] <= d.haber[i]
ImputacionAcotada ==
  /\ \A a \in Asientos : Acotado(asiento[a])
  /\ \A r \in Requests : Acotado(local[r].nuevo)

(* Every amount credited on a partida is backed by changes that the entry's *)
(* historial_cambios records: concurrent saves may lose a credit, never     *)
(* invent one.                                                              *)
CreditoRespaldado ==
  \A a \in Asientos : vida[a] = "vivo" =>
    \A i \in Lado : /\ asiento[a].pagado[i] <= historial[a].imputado[i]
                    /\ asiento[a].liquidado[i] <= historial[a].liquidado[i]

(* Until two requests overlap, every credit is exactly what the history     *)
(* records, so an owner is never liquidated twice for the same credit.      *)
CreditoExacto ==
  ~ solape => \A a \in Asientos : vida[a] = "vivo" =>
    /\ asiento[a].pagado = historial[a].imputado
    /\ asiento[a].liquidado = historial[a].liquidado

(* Until two requests overlap, the states that registerPayment,             *)
(* condonarDeuda and liquidarAPropietario derive mean what they say of the  *)
(* partidas.                                                                *)
EstadoCoherente ==
  ~ solape => \A a \in Asientos :
    LET d == asiento[a] IN
    /\ d.estado = "COBRADO" => DebeCobrado(d) /\ ~ HaberLiquidado(d)
    /\ d.estado = "PAGADO" => DebeCobrado(d) /\ TodasLiquidadas(d)
    /\ d.estado = "CONDONADO" => Total(d.pagado) >= d.monto_original

----------------------------------------------------------------------------
(* What the documentation and the messages of the code say, and the code    *)
(* does not do.                                                             *)

(* "Valida que el monto_pagado no exceda el saldo"                          *)
(* (doc/CONTRACTS/04_API_ASIENTOS_CONTABLES.md:207): an entry never takes   *)
(* more payments than its debt.  Once the DEBE side is collected,           *)
(* registerPayment validates against the HABER side instead.                *)
PagosDentroDeLaDeuda ==
  \A a \in Asientos : historial[a].pagos <= Total(asiento[a].debe)
=============================================================================
