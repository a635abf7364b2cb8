---------------------------- MODULE BankingSync ----------------------------
(***************************************************************************)
(* Bank reconciliation: movements read from the bank's mails, the          *)
(* candidates that ConciliationService pairs them with, and what an        *)
(* operator's confirmation writes, one collection after the other.         *)
(*                                                                         *)
(* Requests interleave at every await of generateForMovement,              *)
(* updateCandidateStatus and confirmConciliation, and may die there.       *)
(***************************************************************************)
EXTENDS Integers, FiniteSets

CONSTANTS
  Movs,         \* identificador_unico of the bank movements
  Txs,          \* internal transactions
  Operacion,    \* [Movs \cup Txs -> [tipo, monto, mes, dia]]
  Tolerancias,  \* fechaToleranceDays of a request: [texto : BOOLEAN, dias : 0 .. 9]
  MaxPorMov,    \* maxCandidatesPerMovement
  Generadores,  \* requests to candidates/generate
  Operadores,   \* requests to candidates/status
  MaxOps,       \* bound: requests started
  MaxFallas     \* bound: requests that die

DiasDelMes == 30

ASSUME OperacionAssumption ==
  Operacion \in [Movs \cup Txs -> [tipo : {"INGRESO", "EGRESO"}, monto : Nat,
                                   mes : Nat, dia : 1 .. DiasDelMes]]
ASSUME ToleranciasAssumption == Tolerancias \subseteq [texto : BOOLEAN, dias : 0 .. 9]
ASSUME BancoBoundsAssumption == MaxPorMov \in Nat /\ MaxOps \in Nat /\ MaxFallas \in Nat

VARIABLES
  movs,         \* stored movements: [m -> "ausente", "libre" or "conciliado"]
  transaccion,  \* transaccion_id of each movement (SinTx when unset)
  txs,          \* [t -> "ausente", "libre" or "conciliada"]
  candidatos,   \* [<<m, t>> -> "ninguno", "PENDING", "CONFIRMED", "REJECTED"]
  gen,          \* requests that generate candidates
  op,           \* requests that change the status of a candidate
  cortadas,     \* history: confirmations that died before finishing
  ops, fallas

datos == <<movs, transaccion, txs, candidatos>>
bvars == <<movs, transaccion, txs, candidatos, gen, op, cortadas, ops, fallas>>

SinTx == "sin transaccion"
Pares == Movs \X Txs
Inactivo == "inactivo"

GenVacio == [pc |-> Inactivo, tol |-> [texto |-> FALSE, dias |-> 1], movs |-> {},
             m |-> SinTx, txs |-> {}, t |-> SinTx, creados |-> 0]
OpVacio == [pc |-> Inactivo, c |-> <<SinTx, SinTx>>, leido |-> "PENDING", nuevo |-> "PENDING"]

BInit ==
  /\ movs = [m \in Movs |-> "ausente"]
  /\ transaccion = [m \in Movs |-> SinTx]
  /\ txs = [t \in Txs |-> "ausente"]
  /\ candidatos = [c \in Pares |-> "ninguno"]
  /\ gen = [g \in Generadores |-> GenVacio]
  /\ op = [o \in Operadores |-> OpVacio]
  /\ cortadas = {}
  /\ ops = 0 /\ fallas = 0

----------------------------------------------------------------------------
(* The data that requests work on.                                          *)

(* BankingSyncService.create: a mail seen again is not stored again.        *)
CreateMovement(m) ==
  /\ movs[m] = "ausente"
  /\ movs' = [movs EXCEPT ![m] = "libre"]
  /\ UNCHANGED <<transaccion, txs, candidatos, gen, op, cortadas, ops, fallas>>

(* TransactionsService.create, by a receipt.                                *)
CreateTransaction(t) ==
  /\ txs[t] = "ausente"
  /\ txs' = [txs EXCEPT ![t] = "libre"]
  /\ UNCHANGED <<movs, transaccion, candidatos, gen, op, cortadas, ops, fallas>>

----------------------------------------------------------------------------
(* generateCandidates.                                                      *)

Fecha(x) == Operacion[x].mes * DiasDelMes + Operacion[x].dia

(* The window of dates.  A tolerance that arrives in the query string is    *)
(* text: getDate() - "n" subtracts, getDate() + "n" concatenates digits.    *)
Desde(m, tol) == Fecha(m) - tol.dias
Hasta(m, tol) ==
  IF tol.texto THEN Operacion[m].mes * DiasDelMes + (10 * Operacion[m].dia + tol.dias)
  ELSE Fecha(m) + tol.dias

(* Mutant: the type of operation is not compared.                           *)
CoincideSinTipo(m, t, tol) ==
  /\ Operacion[t].monto = Operacion[m].monto
  /\ Desde(m, tol) <= Fecha(t) /\ Fecha(t) <= Hasta(m, tol)

Coincide(m, t, tol) ==
  /\ Operacion[t].tipo = Operacion[m].tipo
  /\ Operacion[t].monto = Operacion[m].monto
  /\ Desde(m, tol) <= Fecha(t) /\ Fecha(t) <= Hasta(m, tol)

FindUnreconciledTransactions(m, tol) == {t \in Txs : txs[t] = "libre" /\ Coincide(m, t, tol)}

(* Of every movement, or of the one that the dto names.                     *)
GenerateCandidates(g, tol, pedidos) ==
  /\ gen[g].pc = Inactivo /\ ops < MaxOps
  /\ ops' = ops + 1
  /\ gen' = [gen EXCEPT ![g] = [GenVacio EXCEPT !.pc = "movimiento", !.tol = tol,
                                                !.movs = {m \in pedidos : movs[m] = "libre"}]]
  /\ UNCHANGED <<datos, op, cortadas, fallas>>

(* The next movement and its transactions, as they are now.                 *)
GenerateForMovement(g) ==
  /\ gen[g].pc = "movimiento"
  /\ \/ /\ gen[g].movs = {}
        /\ gen' = [gen EXCEPT ![g] = GenVacio]
     \/ \E m \in gen[g].movs :
          gen' = [gen EXCEPT ![g].pc = "candidato", ![g].movs = @ \ {m}, ![g].m = m,
                             ![g].txs = FindUnreconciledTransactions(m, gen[g].tol),
                             ![g].creados = 0]
  /\ UNCHANGED <<datos, op, cortadas, ops, fallas>>

(* The next transaction, up to maxCandidatesPerMovement new candidates.     *)
BuscarCandidato(g) ==
  /\ gen[g].pc = "candidato"
  /\ IF gen[g].txs = {} \/ gen[g].creados >= MaxPorMov
     THEN gen' = [gen EXCEPT ![g].pc = "movimiento", ![g].txs = {}, ![g].creados = 0]
     ELSE \E t \in gen[g].txs :
            gen' = [gen EXCEPT ![g].txs = @ \ {t}, ![g].t = t,
                               ![g].pc = IF candidatos[<<gen[g].m, t>>] = "ninguno" THEN "crear"
                                         ELSE @]
  /\ UNCHANGED <<datos, op, cortadas, ops, fallas>>

(* The unique index refuses a pair that another request has created since   *)
(* the search: the whole generation throws.                                 *)
CrearCandidato(g) ==
  LET c == <<gen[g].m, gen[g].t>>
  IN  /\ gen[g].pc = "crear"
      /\ IF candidatos[c] = "ninguno"
         THEN /\ candidatos' = [candidatos EXCEPT ![c] = "PENDING"]
              /\ gen' = [gen EXCEPT ![g].pc = "candidato", ![g].creados = @ + 1]
         ELSE /\ gen' = [gen EXCEPT ![g] = GenVacio]
              /\ UNCHANGED candidatos
      /\ UNCHANGED <<movs, transaccion, txs, op, cortadas, ops, fallas>>

----------------------------------------------------------------------------
(* updateCandidateStatus and confirmConciliation.                           *)

(* Whatever the candidate's status was; only a return to PENDING is refused.*)
UpdateCandidateStatus(o, c, e) ==
  /\ op[o].pc = Inactivo /\ ops < MaxOps
  /\ candidatos[c] # "ninguno"
  /\ ops' = ops + 1
  /\ op' = [op EXCEPT ![o] = [pc |-> "guardar", c |-> c, leido |-> candidatos[c], nuevo |-> e]]
  /\ UNCHANGED <<datos, gen, cortadas, fallas>>

(* candidate.save() writes the status only if it differs from what was read.*)
GuardarCandidato(o) ==
  LET q == op[o]
  IN  /\ q.pc = "guardar"
      /\ candidatos' = [candidatos EXCEPT ![q.c] = IF q.nuevo = q.leido THEN @ ELSE q.nuevo]
      /\ op' = [op EXCEPT ![o] = IF q.nuevo = "CONFIRMED" THEN [q EXCEPT !.pc = "movimiento"]
                                 ELSE OpVacio]
      /\ UNCHANGED <<movs, transaccion, txs, gen, cortadas, ops, fallas>>

MarcarMovimiento(o) ==
  LET m == op[o].c[1]
      t == op[o].c[2]
  IN  /\ op[o].pc = "movimiento"
      /\ movs' = [movs EXCEPT ![m] = "conciliado"]
      /\ transaccion' = [transaccion EXCEPT ![m] = t]
      /\ op' = [op EXCEPT ![o].pc = "transaccion"]
      /\ UNCHANGED <<txs, candidatos, gen, cortadas, ops, fallas>>

(* Mutant: the transaction is never marked.                                 *)
MarkAsReconciledSalteada(o) ==
  /\ op[o].pc = "transaccion"
  /\ op' = [op EXCEPT ![o].pc = "rechazar"]
  /\ UNCHANGED <<movs, transaccion, txs, candidatos, gen, cortadas, ops, fallas>>

MarkAsReconciled(o) ==
  /\ op[o].pc = "transaccion"
  /\ txs' = [txs EXCEPT ![op[o].c[2]] = "conciliada"]
  /\ op' = [op EXCEPT ![o].pc = "rechazar"]
  /\ UNCHANGED <<movs, transaccion, candidatos, gen, cortadas, ops, fallas>>

(* Mutant: every other candidate of the movement, whatever its status.      *)
RechazarTodos(o) ==
  LET q == op[o]
  IN  /\ q.pc = "rechazar"
      /\ candidatos' = [c \in Pares |->
           IF c[1] = q.c[1] /\ c # q.c /\ candidatos[c] # "ninguno" THEN "REJECTED"
           ELSE candidatos[c]]
      /\ op' = [op EXCEPT ![o] = OpVacio]
      /\ UNCHANGED <<movs, transaccion, txs, gen, cortadas, ops, fallas>>

RechazarOtros(o) ==
  LET q == op[o]
  IN  /\ q.pc = "rechazar"
      /\ candidatos' = [c \in Pares |->
           IF c[1] = q.c[1] /\ c # q.c /\ candidatos[c] = "PENDING" THEN "REJECTED"
           ELSE candidatos[c]]
      /\ op' = [op EXCEPT ![o] = OpVacio]
      /\ UNCHANGED <<movs, transaccion, txs, gen, cortadas, ops, fallas>>

(* The process dies between two writes of a confirmation.                   *)
Corte(o) ==
  /\ op[o].pc \in {"movimiento", "transaccion", "rechazar"}
  /\ fallas < MaxFallas
  /\ fallas' = fallas + 1
  /\ cortadas' = cortadas \cup {op[o].c}
  /\ op' = [op EXCEPT ![o] = OpVacio]
  /\ UNCHANGED <<datos, gen, ops>>

----------------------------------------------------------------------------
BReposo ==
  /\ \A g \in Generadores : gen[g].pc = Inactivo
  /\ \A o \in Operadores : op[o].pc = Inactivo

Confirmar(o) == \/ GuardarCandidato(o) \/ MarcarMovimiento(o)
                \/ MarkAsReconciled(o) \/ RechazarOtros(o)

BNext ==
  \/ \E m \in Movs : CreateMovement(m)
  \/ \E t \in Txs : CreateTransaction(t)
  \/ \E g \in Generadores : \/ \E tol \in Tolerancias, pedidos \in {Movs} \cup {{m} : m \in Movs} :
                                 GenerateCandidates(g, tol, pedidos)
                            \/ GenerateForMovement(g) \/ BuscarCandidato(g) \/ CrearCandidato(g)
  \/ \E o \in Operadores :
       \/ \E c \in Pares, e \in {"CONFIRMED", "REJECTED"} : UpdateCandidateStatus(o, c, e)
       \/ Confirmar(o) \/ Corte(o)
  \/ BReposo /\ UNCHANGED bvars

BSpec == BInit /\ [][BNext]_bvars

(* A started handler goes on: its awaits are database calls that return.    *)
BFairSpec == BSpec /\ \A o \in Operadores : WF_bvars(Confirmar(o))

----------------------------------------------------------------------------
(* Properties.                                                              *)

(* A reconciled movement points to a transaction of its own type and amount *)
(* that was a candidate for it, and that transaction is reconciled too,     *)
(* save while (or because) a confirmation stands between the two writes.    *)
ConciliacionRespaldada ==
  \A m \in Movs : movs[m] = "conciliado" =>
    LET t == transaccion[m] IN
    /\ Operacion[t].tipo = Operacion[m].tipo /\ Operacion[t].monto = Operacion[m].monto
    /\ candidatos[<<m, t>>] # "ninguno"
    /\ \/ txs[t] = "conciliada"
       \/ <<m, t>> \in cortadas
       \/ \E o \in Operadores : op[o].pc = "transaccion" /\ op[o].c = <<m, t>>

(* Only an operator's own request takes back a confirmed candidate: the     *)
(* confirmation of another candidate of the movement never does.            *)
ConfirmadoSoloPorOperador ==
  [][\A c \in Pares :
       candidatos[c] = "CONFIRMED" /\ candidatos'[c] # "CONFIRMED" =>
         \E o \in Operadores : op[o].pc = "guardar" /\ op[o].c = c /\ op'[o] # op[o]]_bvars

(* Unless its process dies, a confirmation reconciles the transaction too.  *)
ConfirmacionSeCompleta ==
  \A c \in Pares : candidatos[c] = "CONFIRMED" ~> (txs[c[2]] = "conciliada" \/ c \in cortadas)

=============================================================================
