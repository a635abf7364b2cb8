-------------------------- MODULE BankingSyncProofs --------------------------
(***************************************************************************)
(* Proofs about BankingSync, for every set of movements and transactions   *)
(* and every number of generations, operators and deaths: what a           *)
(* reconciled movement rests on, and who may take a confirmation back.     *)
(***************************************************************************)
EXTENDS BankingSync, TLAPS

EstadosCandidato == {"ninguno", "PENDING", "CONFIRMED", "REJECTED"}

Generacion ==
  [pc : {Inactivo, "movimiento", "candidato", "crear"},
   tol : [texto : BOOLEAN, dias : 0 .. 9], movs : SUBSET Movs,
   m : Movs \cup {SinTx}, txs : SUBSET Txs, t : Txs \cup {SinTx}, creados : Nat]

Operacion_ ==
  [pc : {Inactivo, "guardar", "movimiento", "transaccion", "rechazar"},
   c : Pares \cup {<<SinTx, SinTx>>},
   leido : EstadosCandidato, nuevo : {"PENDING", "CONFIRMED", "REJECTED"}]

BTypeOK ==
  /\ movs \in [Movs -> {"ausente", "libre", "conciliado"}]
  /\ transaccion \in [Movs -> Txs \cup {SinTx}]
  /\ txs \in [Txs -> {"ausente", "libre", "conciliada"}]
  /\ candidatos \in [Pares -> EstadosCandidato]
  /\ gen \in [Generadores -> Generacion]
  /\ op \in [Operadores -> Operacion_]
  /\ cortadas \in SUBSET Pares
  /\ ops \in Nat /\ fallas \in Nat

----------------------------------------------------------------------------
(* The inductive invariant.  What a movement is reconciled with was a       *)
(* candidate, so candidates must agree with their movement; they were       *)
(* created by a generation, so what a generation still has in hand must     *)
(* agree too; and a request about a candidate outlives no candidate.        *)

Compatible(m, t) == /\ Operacion[t].tipo = Operacion[m].tipo
                    /\ Operacion[t].monto = Operacion[m].monto

CandidatosCompatibles == \A c \in Pares : candidatos[c] # "ninguno" => Compatible(c[1], c[2])

GeneracionCompatible(q) ==
  /\ q.pc \in {"candidato", "crear"} => q.m \in Movs /\ \A t \in q.txs : Compatible(q.m, t)
  /\ q.pc = "crear" => q.t \in Txs /\ Compatible(q.m, q.t)

OperacionSobreCandidato(q) == q.pc # Inactivo => q.c \in Pares /\ candidatos[q.c] # "ninguno"

ConTransaccion == \A m \in Movs : movs[m] = "conciliado" => transaccion[m] \in Txs

BInv ==
  /\ BTypeOK
  /\ ConTransaccion
  /\ CandidatosCompatibles
  /\ \A g \in Generadores : GeneracionCompatible(gen[g])
  /\ \A o \in Operadores : OperacionSobreCandidato(op[o])
  /\ ConciliacionRespaldada

(* Before the first request nothing is stored and nothing is in progress.   *)
LEMMA InitBInv == BInit => BInv
  BY DEF BInit, BInv, BTypeOK, ConTransaccion, CandidatosCompatibles,
         GeneracionCompatible, OperacionSobreCandidato, ConciliacionRespaldada, GenVacio, OpVacio, Generacion,
         Operacion_, EstadosCandidato, Inactivo

----------------------------------------------------------------------------
(* One lemma for each kind of step.                                         *)

(* A generation's step that touches no candidate and leaves it with         *)
(* compatible transactions in hand.                                         *)
LEMMA PasoDeGeneracion ==
  ASSUME BInv, NEW g \in Generadores, NEW q \in Generacion, GeneracionCompatible(q),
         gen' = [gen EXCEPT ![g] = q], ops' \in Nat,
         UNCHANGED <<datos, op, cortadas, fallas>>
  PROVE  BInv'
<1>1. BTypeOK'
  BY DEF BInv, BTypeOK, datos
<1>2. \A x \in Generadores : GeneracionCompatible(gen'[x])
  BY DEF BInv, BTypeOK
<1>3. ConTransaccion' /\ CandidatosCompatibles' /\ ConciliacionRespaldada'
      /\ (\A o \in Operadores : OperacionSobreCandidato(op[o]))'
  BY DEF BInv, ConTransaccion, CandidatosCompatibles, OperacionSobreCandidato,
         ConciliacionRespaldada, datos
<1>4. QED
  BY <1>1, <1>2, <1>3 DEF BInv, GeneracionCompatible

(* What generateForMovement finds of a movement is of its type and amount.  *)
LEMMA Hallados ==
  ASSUME NEW m \in Movs, NEW tol
  PROVE  /\ FindUnreconciledTransactions(m, tol) \in SUBSET Txs
         /\ \A t \in FindUnreconciledTransactions(m, tol) : Compatible(m, t)
  BY DEF FindUnreconciledTransactions, Coincide, Compatible

LEMMA GenerateCandidatesBInv ==
  ASSUME BInv, NEW g \in Generadores, NEW tol \in Tolerancias, NEW pedidos \in SUBSET Movs,
         GenerateCandidates(g, tol, pedidos)
  PROVE  BInv'
<1> DEFINE q == [GenVacio EXCEPT !.pc = "movimiento", !.tol = tol,
                                 !.movs = {m \in pedidos : movs[m] = "libre"}]
<1>1. q \in Generacion /\ GeneracionCompatible(q)
  BY ToleranciasAssumption DEF GenVacio, Generacion, GeneracionCompatible
<1>2. ops' \in Nat
  BY DEF GenerateCandidates, BInv, BTypeOK
<1> HIDE DEF q
<1>3. gen' = [gen EXCEPT ![g] = q] /\ UNCHANGED <<datos, op, cortadas, fallas>>
  BY DEF GenerateCandidates, q
<1>4. QED
  BY <1>1, <1>2, <1>3, PasoDeGeneracion

(* A request that throws or ends forgets what it had in hand.               *)
LEMMA GeneracionVacia == GenVacio \in Generacion /\ GeneracionCompatible(GenVacio)
  BY DEF GenVacio, Generacion, GeneracionCompatible, Inactivo

LEMMA GenerateForMovementBInv ==
  ASSUME BInv, NEW g \in Generadores, GenerateForMovement(g)
  PROVE  BInv'
<1>1. /\ ops' \in Nat /\ UNCHANGED <<datos, op, cortadas, fallas>>
      /\ gen[g] \in Generacion
  BY DEF GenerateForMovement, BInv, BTypeOK
<1>2. CASE gen' = [gen EXCEPT ![g] = GenVacio]
  BY <1>1, <1>2, GeneracionVacia, PasoDeGeneracion
<1>3. ASSUME NEW m \in gen[g].movs,
             gen' = [gen EXCEPT ![g].pc = "candidato", ![g].movs = @ \ {m}, ![g].m = m,
                                ![g].txs = FindUnreconciledTransactions(m, gen[g].tol),
                                ![g].creados = 0]
      PROVE  BInv'
  <2> DEFINE T == FindUnreconciledTransactions(m, gen[g].tol)
             q == [gen[g] EXCEPT !.pc = "candidato", !.movs = @ \ {m}, !.m = m,
                                 !.txs = T, !.creados = 0]
  <2>1. m \in Movs /\ T \in SUBSET Txs /\ \A t \in T : Compatible(m, t)
    BY <1>1, Hallados DEF Generacion
  <2> HIDE DEF T
  <2>2. q \in Generacion /\ GeneracionCompatible(q)
    BY <1>1, <2>1 DEF Generacion, GeneracionCompatible
  <2>3. gen' = [gen EXCEPT ![g] = q]
    BY <1>3 DEF T, BInv, BTypeOK
  <2> HIDE DEF q
  <2>4. QED
    BY <1>1, <2>2, <2>3, PasoDeGeneracion
<1>4. QED
  BY <1>2, <1>3 DEF GenerateForMovement

LEMMA BuscarCandidatoBInv ==
  ASSUME BInv, NEW g \in Generadores, BuscarCandidato(g)
  PROVE  BInv'
<1>1. /\ ops' \in Nat /\ UNCHANGED <<datos, op, cortadas, fallas>>
      /\ gen[g] \in Generacion /\ gen[g].pc = "candidato"
      /\ GeneracionCompatible(gen[g])
  BY DEF BuscarCandidato, BInv, BTypeOK
<1>2. ASSUME gen' = [gen EXCEPT ![g].pc = "movimiento", ![g].txs = {}, ![g].creados = 0]
      PROVE  BInv'
  <2> DEFINE q == [gen[g] EXCEPT !.pc = "movimiento", !.txs = {}, !.creados = 0]
  <2>1. q \in Generacion /\ GeneracionCompatible(q)
    BY <1>1 DEF Generacion, GeneracionCompatible
  <2>2. gen' = [gen EXCEPT ![g] = q]
    BY <1>2 DEF BInv, BTypeOK
  <2> HIDE DEF q
  <2>3. QED
    BY <1>1, <2>1, <2>2, PasoDeGeneracion
<1>3. ASSUME NEW t \in gen[g].txs, NEW pc \in {"candidato", "crear"},
             gen' = [gen EXCEPT ![g].txs = @ \ {t}, ![g].t = t, ![g].pc = pc]
      PROVE  BInv'
  <2> DEFINE q == [gen[g] EXCEPT !.txs = @ \ {t}, !.t = t, !.pc = pc]
  <2>1. t \in Txs /\ Compatible(gen[g].m, t) /\ gen[g].m \in Movs
    BY <1>1 DEF Generacion, GeneracionCompatible
  <2>2. q \in Generacion /\ GeneracionCompatible(q)
    BY <1>1, <2>1 DEF Generacion, GeneracionCompatible
  <2>3. gen' = [gen EXCEPT ![g] = q]
    BY <1>3 DEF BInv, BTypeOK
  <2> HIDE DEF q
  <2>4. QED
    BY <1>1, <2>2, <2>3, PasoDeGeneracion
<1>4. QED
  BY <1>1, <1>2, <1>3 DEF BuscarCandidato

(* A candidate is created of a pair that the generation found compatible.   *)
LEMMA CrearCandidatoBInv ==
  ASSUME BInv, NEW g \in Generadores, CrearCandidato(g)
  PROVE  BInv'
<1> DEFINE c == <<gen[g].m, gen[g].t>>
<1>1. /\ gen[g] \in Generacion /\ gen[g].pc = "crear"
      /\ c \in Pares /\ Compatible(c[1], c[2]) /\ GeneracionCompatible(gen[g])
  BY DEF CrearCandidato, BInv, BTypeOK, GeneracionCompatible, Pares
<1> HIDE DEF c
<1>2. CASE candidatos[c] # "ninguno"
  <2>1. gen' = [gen EXCEPT ![g] = GenVacio] /\ ops' \in Nat
        /\ UNCHANGED <<datos, op, cortadas, fallas>>
    BY <1>2 DEF CrearCandidato, c, BInv, BTypeOK, datos
  <2>2. QED
    BY <2>1, GeneracionVacia, PasoDeGeneracion
<1>3. CASE candidatos[c] = "ninguno"
  <2> DEFINE n == gen[g].creados + 1
             q == [gen[g] EXCEPT !.pc = "candidato", !.creados = n]
  <2>0. n \in Nat
    BY <1>1 DEF Generacion
  <2> HIDE DEF n
  <2>1. q \in Generacion /\ GeneracionCompatible(q)
    BY <1>1, <2>0 DEF Generacion, GeneracionCompatible
  <2>2. gen' = [gen EXCEPT ![g] = q]
    BY <1>3 DEF CrearCandidato, c, n, BInv, BTypeOK
  <2> HIDE DEF q
  <2>3. /\ candidatos' = [candidatos EXCEPT ![c] = "PENDING"]
        /\ UNCHANGED <<movs, transaccion, txs, op, cortadas, ops, fallas>>
    BY <1>3 DEF CrearCandidato, c
  <2>4. BTypeOK'
    BY <1>1, <2>1, <2>2, <2>3 DEF BInv, BTypeOK, EstadosCandidato
  <2>5. CandidatosCompatibles'
    BY <1>1, <2>3 DEF BInv, BTypeOK, CandidatosCompatibles
  <2>6. \A x \in Generadores : GeneracionCompatible(gen'[x])
    BY <2>1, <2>2 DEF BInv, BTypeOK
  <2>7. (\A o \in Operadores : OperacionSobreCandidato(op[o]))'
    BY <1>1, <2>3 DEF BInv, BTypeOK, OperacionSobreCandidato
  <2>8. ConTransaccion' /\ ConciliacionRespaldada'
    BY <1>1, <2>3 DEF BInv, BTypeOK, Pares, ConTransaccion, ConciliacionRespaldada
  <2>9. QED
    BY <2>4, <2>5, <2>6, <2>7, <2>8 DEF BInv, GeneracionCompatible
<1>4. QED
  BY <1>2, <1>3

(* A request is about a candidate, and writes a status that is not its      *)
(* absence.                                                                 *)
LEMMA UpdateCandidateStatusBInv ==
  ASSUME BInv, NEW o \in Operadores, NEW c \in Pares, NEW e \in {"CONFIRMED", "REJECTED"},
         UpdateCandidateStatus(o, c, e)
  PROVE  BInv'
<1> DEFINE q == [pc |-> "guardar", c |-> c, leido |-> candidatos[c], nuevo |-> e]
<1>1. /\ op' = [op EXCEPT ![o] = q] /\ candidatos[c] # "ninguno" /\ op[o].pc = Inactivo
      /\ ops' = ops + 1
      /\ UNCHANGED <<movs, transaccion, txs, candidatos, gen, cortadas, fallas>>
  BY DEF UpdateCandidateStatus, datos
<1>2. q \in Operacion_ /\ OperacionSobreCandidato(q)
  BY <1>1 DEF Operacion_, OperacionSobreCandidato, BInv, BTypeOK
<1> HIDE DEF q
<1>3. BTypeOK'
  BY <1>1, <1>2 DEF BInv, BTypeOK
<1>4. CandidatosCompatibles' /\ (\A g \in Generadores : GeneracionCompatible(gen[g]))'
  BY <1>1 DEF BInv, CandidatosCompatibles, GeneracionCompatible
<1>5. (\A x \in Operadores : OperacionSobreCandidato(op[x]))'
  BY <1>1, <1>2 DEF BInv, BTypeOK, OperacionSobreCandidato
<1>6. ConTransaccion' /\ ConciliacionRespaldada'
  BY <1>1 DEF BInv, BTypeOK, ConTransaccion, ConciliacionRespaldada, Inactivo
<1>7. QED
  BY <1>3, <1>4, <1>5, <1>6 DEF BInv

(* The writes of the candidates by an operator: no candidate appears or     *)
(* disappears, and the request goes on or ends.                             *)
LEMMA EscrituraDeCandidatos ==
  ASSUME BInv, NEW o \in Operadores, NEW q \in Operacion_,
         op[o].pc \in {"guardar", "rechazar"}, q = OpVacio \/ q = [op[o] EXCEPT !.pc = "movimiento"],
         op' = [op EXCEPT ![o] = q],
         candidatos' \in [Pares -> EstadosCandidato],
         \A c \in Pares : candidatos'[c] = "ninguno" <=> candidatos[c] = "ninguno",
         UNCHANGED <<movs, transaccion, txs, gen, cortadas, ops, fallas>>
  PROVE  BInv'
<1>1. BTypeOK'
  BY DEF BInv, BTypeOK
<1>2. CandidatosCompatibles' /\ (\A g \in Generadores : GeneracionCompatible(gen[g]))'
  BY DEF BInv, CandidatosCompatibles, GeneracionCompatible
<1>3. op[o] \in Operacion_ /\ OperacionSobreCandidato(op[o])
  BY DEF BInv, BTypeOK
<1>4. q.pc # Inactivo => q.c \in Pares /\ candidatos[q.c] # "ninguno"
  BY <1>3 DEF OperacionSobreCandidato, OpVacio, Operacion_, Inactivo
<1>5. (\A x \in Operadores : OperacionSobreCandidato(op[x]))'
  BY <1>4 DEF BInv, BTypeOK, OperacionSobreCandidato
<1>6. ConTransaccion'
  BY DEF BInv, ConTransaccion
<1>7. ASSUME NEW m \in Movs, movs'[m] = "conciliado"
      PROVE  /\ Compatible(m, transaccion'[m])
             /\ candidatos'[<<m, transaccion'[m]>>] # "ninguno"
             /\ \/ txs'[transaccion'[m]] = "conciliada"
                \/ <<m, transaccion'[m]>> \in cortadas'
                \/ \E x \in Operadores :
                     op'[x].pc = "transaccion" /\ op'[x].c = <<m, transaccion'[m]>>
  <2> DEFINE c == <<m, transaccion[m]>>
  <2>1. c \in Pares
    BY <1>7 DEF BInv, ConTransaccion, Pares
  <2>2. /\ Compatible(m, transaccion[m]) /\ candidatos[c] # "ninguno"
        /\ \/ txs[transaccion[m]] = "conciliada"
           \/ c \in cortadas
           \/ \E x \in Operadores : op[x].pc = "transaccion" /\ op[x].c = c
    BY <1>7 DEF BInv, ConciliacionRespaldada, Compatible
  <2>3. transaccion'[m] = transaccion[m] /\ cortadas' = cortadas /\ txs' = txs
    OBVIOUS
  <2>4. \A x \in Operadores : op[x].pc = "transaccion" => op'[x] = op[x]
    BY DEF BInv, BTypeOK
  <2> HIDE DEF c
  <2>5. candidatos'[c] # "ninguno"
    BY <2>1, <2>2
  <2>6. \/ txs'[transaccion[m]] = "conciliada"
        \/ c \in cortadas'
        \/ \E x \in Operadores : op'[x].pc = "transaccion" /\ op'[x].c = c
    BY <2>2, <2>3, <2>4
  <2>7. QED
    BY <2>2, <2>3, <2>5, <2>6 DEF c
<1>8. ConciliacionRespaldada'
  BY <1>7 DEF ConciliacionRespaldada, Compatible
<1>9. QED
  BY <1>1, <1>2, <1>5, <1>6, <1>8 DEF BInv

LEMMA GuardarCandidatoBInv ==
  ASSUME BInv, NEW o \in Operadores, GuardarCandidato(o)
  PROVE  BInv'
<1> DEFINE q == IF op[o].nuevo = "CONFIRMED" THEN [op[o] EXCEPT !.pc = "movimiento"] ELSE OpVacio
<1>1. /\ op[o] \in Operacion_ /\ op[o].c \in Pares /\ candidatos[op[o].c] # "ninguno"
      /\ op[o].pc = "guardar"
  BY DEF GuardarCandidato, BInv, BTypeOK, OperacionSobreCandidato, Inactivo
<1>2. q \in Operacion_ /\ (q = OpVacio \/ q = [op[o] EXCEPT !.pc = "movimiento"])
  BY <1>1 DEF Operacion_, OpVacio, EstadosCandidato, Inactivo
<1>3. op' = [op EXCEPT ![o] = q] /\ UNCHANGED <<movs, transaccion, txs, gen, cortadas, ops, fallas>>
  BY DEF GuardarCandidato
<1>4. op[o].nuevo \in EstadosCandidato \ {"ninguno"} /\ candidatos \in [Pares -> EstadosCandidato]
  BY <1>1 DEF Operacion_, EstadosCandidato, BInv, BTypeOK
<1>5. candidatos' = [candidatos EXCEPT ![op[o].c] = IF op[o].nuevo = op[o].leido THEN @
                                                    ELSE op[o].nuevo]
  BY DEF GuardarCandidato
<1>6. /\ candidatos' \in [Pares -> EstadosCandidato]
      /\ \A c \in Pares : candidatos'[c] = "ninguno" <=> candidatos[c] = "ninguno"
  BY <1>1, <1>4, <1>5
<1> HIDE DEF q
<1>7. QED
  BY <1>1, <1>2, <1>3, <1>6, EscrituraDeCandidatos

LEMMA RechazarOtrosBInv ==
  ASSUME BInv, NEW o \in Operadores, RechazarOtros(o)
  PROVE  BInv'
<1>1. op[o].pc = "rechazar" /\ OpVacio \in Operacion_
  BY DEF RechazarOtros, Operacion_, OpVacio, EstadosCandidato, Inactivo
<1>2. /\ candidatos' \in [Pares -> EstadosCandidato]
      /\ \A c \in Pares : candidatos'[c] = "ninguno" <=> candidatos[c] = "ninguno"
  BY DEF RechazarOtros, BInv, BTypeOK, EstadosCandidato
<1>3. op' = [op EXCEPT ![o] = OpVacio]
      /\ UNCHANGED <<movs, transaccion, txs, gen, cortadas, ops, fallas>>
  BY DEF RechazarOtros
<1>4. QED
  BY <1>1, <1>2, <1>3, EscrituraDeCandidatos

(* The movement is marked with a candidate's transaction, and the request   *)
(* that marked it is the one that will mark the transaction.                *)
LEMMA MarcarMovimientoBInv ==
  ASSUME BInv, NEW o \in Operadores, MarcarMovimiento(o)
  PROVE  BInv'
<1> DEFINE m == op[o].c[1]
           t == op[o].c[2]
<1>1. /\ op[o] \in Operacion_ /\ op[o].c \in Pares /\ candidatos[op[o].c] # "ninguno"
      /\ op[o].pc = "movimiento"
  BY DEF MarcarMovimiento, BInv, BTypeOK, OperacionSobreCandidato, Inactivo
<1>2. m \in Movs /\ t \in Txs /\ op[o].c = <<m, t>>
  BY <1>1 DEF Pares
<1>3. Compatible(m, t)
  BY <1>1 DEF BInv, CandidatosCompatibles
<1>4. /\ movs' = [movs EXCEPT ![m] = "conciliado"]
      /\ transaccion' = [transaccion EXCEPT ![m] = t]
      /\ op' = [op EXCEPT ![o].pc = "transaccion"]
      /\ UNCHANGED <<txs, candidatos, gen, cortadas, ops, fallas>>
  BY DEF MarcarMovimiento
<1>5. /\ op' \in [Operadores -> Operacion_]
      /\ op'[o].pc = "transaccion" /\ op'[o].c = op[o].c
      /\ \A x \in Operadores : x # o => op'[x] = op[x]
  BY <1>1, <1>4 DEF Operacion_, BInv, BTypeOK
<1> HIDE DEF m, t
<1>6. BTypeOK'
  BY <1>2, <1>4, <1>5 DEF BInv, BTypeOK
<1>7. CandidatosCompatibles' /\ (\A g \in Generadores : GeneracionCompatible(gen[g]))'
  BY <1>4 DEF BInv, CandidatosCompatibles, GeneracionCompatible
<1>8. (\A x \in Operadores : OperacionSobreCandidato(op[x]))'
  BY <1>1, <1>4, <1>5 DEF BInv, OperacionSobreCandidato, Inactivo
<1>9. ConTransaccion'
  BY <1>2, <1>4 DEF BInv, BTypeOK, ConTransaccion
<1>10. ASSUME NEW n \in Movs, movs'[n] = "conciliado"
       PROVE  /\ Compatible(n, transaccion'[n])
              /\ candidatos[<<n, transaccion'[n]>>] # "ninguno"
              /\ \/ txs[transaccion'[n]] = "conciliada"
                 \/ <<n, transaccion'[n]>> \in cortadas
                 \/ \E x \in Operadores :
                      op'[x].pc = "transaccion" /\ op'[x].c = <<n, transaccion'[n]>>
  <2>1. CASE n = m
    BY <2>1, <1>1, <1>2, <1>3, <1>4, <1>5 DEF BInv, BTypeOK
  <2>2. CASE n # m
    <3>1. movs[n] = "conciliado" /\ transaccion'[n] = transaccion[n]
      BY <2>2, <1>4, <1>10 DEF BInv, BTypeOK
    <3>2. \A x \in Operadores : op[x].pc = "transaccion" => op'[x] = op[x]
      BY <1>1, <1>5
    <3>3. QED
      BY <3>1, <3>2 DEF BInv, ConciliacionRespaldada, Compatible
  <2>3. QED
    BY <2>1, <2>2
<1>11. ConciliacionRespaldada'
  BY <1>4, <1>10 DEF ConciliacionRespaldada, Compatible
<1>12. QED
  BY <1>6, <1>7, <1>8, <1>9, <1>11 DEF BInv

(* The end of a request that stood at "transaccion" leaves the transaction  *)
(* reconciled, or the pair among those cut short.                           *)
LEMMA FinDelRespaldo ==
  ASSUME BInv, NEW o \in Operadores, NEW q \in Operacion_, OperacionSobreCandidato(q),
         op[o].pc # Inactivo, op' = [op EXCEPT ![o] = q],
         txs' \in [Txs -> {"ausente", "libre", "conciliada"}],
         \A t \in Txs : txs[t] = "conciliada" => txs'[t] = "conciliada",
         cortadas \subseteq cortadas', cortadas' \in SUBSET Pares,
         op[o].pc = "transaccion" => txs'[op[o].c[2]] = "conciliada" \/ op[o].c \in cortadas',
         fallas' \in Nat,
         UNCHANGED <<movs, transaccion, candidatos, gen, ops>>
  PROVE  BInv'
<1>1. op' \in [Operadores -> Operacion_] /\ \A x \in Operadores : x # o => op'[x] = op[x]
  BY DEF BInv, BTypeOK
<1>2. BTypeOK'
  BY <1>1 DEF BInv, BTypeOK
<1>3. CandidatosCompatibles' /\ (\A g \in Generadores : GeneracionCompatible(gen[g]))'
  BY DEF BInv, CandidatosCompatibles, GeneracionCompatible
<1>4. (\A x \in Operadores : OperacionSobreCandidato(op[x]))'
  BY DEF BInv, BTypeOK, OperacionSobreCandidato
<1>5. ConTransaccion'
  BY DEF BInv, ConTransaccion
<1>6. ASSUME NEW m \in Movs, movs[m] = "conciliado"
      PROVE  /\ Compatible(m, transaccion[m])
             /\ candidatos[<<m, transaccion[m]>>] # "ninguno"
             /\ \/ txs'[transaccion[m]] = "conciliada"
                \/ <<m, transaccion[m]>> \in cortadas'
                \/ \E x \in Operadores :
                     op'[x].pc = "transaccion" /\ op'[x].c = <<m, transaccion[m]>>
  <2>1. transaccion[m] \in Txs
    BY <1>6 DEF BInv, ConTransaccion
  <2>2. /\ Compatible(m, transaccion[m]) /\ candidatos[<<m, transaccion[m]>>] # "ninguno"
        /\ \/ txs[transaccion[m]] = "conciliada"
           \/ <<m, transaccion[m]>> \in cortadas
           \/ \E x \in Operadores : op[x].pc = "transaccion" /\ op[x].c = <<m, transaccion[m]>>
    BY <1>6 DEF BInv, ConciliacionRespaldada, Compatible
  <2>3. QED
    BY <1>1, <2>1, <2>2
<1>7. ConciliacionRespaldada'
  BY <1>6 DEF ConciliacionRespaldada, Compatible
<1>8. QED
  BY <1>2, <1>3, <1>4, <1>5, <1>7 DEF BInv

LEMMA MarkAsReconciledBInv ==
  ASSUME BInv, NEW o \in Operadores, MarkAsReconciled(o)
  PROVE  BInv'
<1> DEFINE q == [op[o] EXCEPT !.pc = "rechazar"]
           t == op[o].c[2]
<1>1. /\ op[o] \in Operacion_ /\ op[o].c \in Pares /\ candidatos[op[o].c] # "ninguno"
      /\ op[o].pc = "transaccion"
  BY DEF MarkAsReconciled, BInv, BTypeOK, OperacionSobreCandidato, Inactivo
<1>2. t \in Txs
  BY <1>1 DEF Pares
<1>3. q \in Operacion_ /\ OperacionSobreCandidato(q)
  BY <1>1 DEF Operacion_, OperacionSobreCandidato
<1>4. op' = [op EXCEPT ![o] = q]
  BY <1>1 DEF MarkAsReconciled, BInv, BTypeOK
<1>5. /\ txs' = [txs EXCEPT ![t] = "conciliada"]
      /\ UNCHANGED <<movs, transaccion, candidatos, gen, cortadas, ops, fallas>>
  BY DEF MarkAsReconciled
<1> HIDE DEF q
<1>6. /\ txs' \in [Txs -> {"ausente", "libre", "conciliada"}] /\ txs'[t] = "conciliada"
      /\ \A u \in Txs : txs[u] = "conciliada" => txs'[u] = "conciliada"
  BY <1>2, <1>5 DEF BInv, BTypeOK
<1>7. op[o].pc # Inactivo /\ fallas' \in Nat /\ cortadas' \in SUBSET Pares /\ cortadas \subseteq cortadas'
  BY <1>1, <1>5 DEF Inactivo, BInv, BTypeOK
<1>8. QED
  BY <1>3, <1>4, <1>5, <1>6, <1>7, FinDelRespaldo

LEMMA CorteBInv ==
  ASSUME BInv, NEW o \in Operadores, Corte(o)
  PROVE  BInv'
<1>1. /\ op[o].c \in Pares /\ op[o].pc # Inactivo
      /\ fallas' \in Nat
  BY DEF Corte, BInv, BTypeOK, OperacionSobreCandidato, Inactivo
<1>2. OpVacio \in Operacion_ /\ OperacionSobreCandidato(OpVacio)
  BY DEF OpVacio, Operacion_, OperacionSobreCandidato, EstadosCandidato, Inactivo
<1>3. /\ op' = [op EXCEPT ![o] = OpVacio] /\ cortadas' = cortadas \cup {op[o].c}
      /\ UNCHANGED <<movs, transaccion, txs, candidatos, gen, ops>>
  BY DEF Corte, datos
<1>4. txs' \in [Txs -> {"ausente", "libre", "conciliada"}] /\ cortadas' \in SUBSET Pares
  BY <1>1, <1>3 DEF BInv, BTypeOK
<1>5. QED
  BY <1>1, <1>2, <1>3, <1>4, FinDelRespaldo

(* A new movement is not reconciled, and a new transaction was not either.  *)
LEMMA CreateMovementBInv ==
  ASSUME BInv, NEW m \in Movs, CreateMovement(m)
  PROVE  BInv'
<1>1. BTypeOK'
  BY DEF CreateMovement, BInv, BTypeOK
<1>2. \A n \in Movs : movs'[n] = "conciliado" => movs[n] = "conciliado"
  BY DEF CreateMovement, BInv, BTypeOK
<1>3. ConTransaccion' /\ ConciliacionRespaldada'
  BY <1>2 DEF CreateMovement, BInv, ConTransaccion, ConciliacionRespaldada
<1>4. QED
  BY <1>1, <1>3 DEF CreateMovement, BInv, CandidatosCompatibles, GeneracionCompatible,
                    OperacionSobreCandidato

LEMMA CreateTransactionBInv ==
  ASSUME BInv, NEW t \in Txs, CreateTransaction(t)
  PROVE  BInv'
<1>1. BTypeOK'
  BY DEF CreateTransaction, BInv, BTypeOK
<1>2. \A u \in Txs : txs[u] = "conciliada" => txs'[u] = "conciliada"
  BY DEF CreateTransaction, BInv, BTypeOK
<1>3. ConTransaccion'
  BY DEF CreateTransaction, BInv, ConTransaccion
<1>4. ConciliacionRespaldada'
  BY <1>2 DEF CreateTransaction, BInv, ConTransaccion, ConciliacionRespaldada
<1>5. QED
  BY <1>1, <1>3, <1>4 DEF CreateTransaction, BInv, CandidatosCompatibles, GeneracionCompatible,
                          OperacionSobreCandidato

LEMMA NextBInv ==
  ASSUME BInv, [BNext]_bvars
  PROVE  BInv'
<1>1. CASE UNCHANGED bvars
  BY <1>1 DEF bvars, BInv, BTypeOK, ConTransaccion, CandidatosCompatibles,
              GeneracionCompatible, OperacionSobreCandidato, ConciliacionRespaldada
<1>2. CASE \E m \in Movs : CreateMovement(m)
  BY <1>2, CreateMovementBInv
<1>3. CASE \E t \in Txs : CreateTransaction(t)
  BY <1>3, CreateTransactionBInv
<1>4. ASSUME NEW g \in Generadores, NEW tol \in Tolerancias,
             NEW pedidos \in {Movs} \cup {{m} : m \in Movs}, GenerateCandidates(g, tol, pedidos)
      PROVE  BInv'
  <2>1. pedidos \in SUBSET Movs
    OBVIOUS
  <2>2. QED
    BY <1>4, <2>1, GenerateCandidatesBInv
<1>5. CASE \E g \in Generadores : GenerateForMovement(g) \/ BuscarCandidato(g) \/ CrearCandidato(g)
  BY <1>5, GenerateForMovementBInv, BuscarCandidatoBInv, CrearCandidatoBInv
<1>6. CASE \E o \in Operadores : \E c \in Pares, e \in {"CONFIRMED", "REJECTED"} :
             UpdateCandidateStatus(o, c, e)
  BY <1>6, UpdateCandidateStatusBInv
<1>7. CASE \E o \in Operadores : Confirmar(o) \/ Corte(o)
  BY <1>7, GuardarCandidatoBInv, MarcarMovimientoBInv, MarkAsReconciledBInv, RechazarOtrosBInv,
     CorteBInv DEF Confirmar
<1>8. QED
  BY <1>1, <1>2, <1>3, <1>4, <1>5, <1>6, <1>7 DEF BNext

----------------------------------------------------------------------------
(* The inductive invariant holds of every execution.                        *)
THEOREM BancoInvariante == BSpec => []BInv
<1>1. BInv /\ [BNext]_bvars => BInv'
  BY NextBInv
<1>2. QED
  BY InitBInv, <1>1, PTL DEF BSpec

(* confirmConciliation's promise, whatever requests interleave with it and  *)
(* wherever a process dies: a reconciled movement rests on a candidate of   *)
(* its type and amount, whose transaction is reconciled or was cut short.   *)
THEOREM MovimientoConciliadoRespaldado == BSpec => []ConciliacionRespaldada
<1>1. BInv => ConciliacionRespaldada
  BY DEF BInv
<1>2. QED
  BY BancoInvariante, <1>1, PTL

(* No step but an operator's own request about it takes a candidate out of  *)
(* CONFIRMED: the updateMany of another confirmation spares it.             *)
THEOREM ConfirmacionDelOperador == BSpec => ConfirmadoSoloPorOperador
<1> DEFINE Retira(c) == candidatos[c] = "CONFIRMED" /\ candidatos'[c] # "CONFIRMED" =>
                          \E o \in Operadores : op[o].pc = "guardar" /\ op[o].c = c /\ op'[o] # op[o]
<1>1. ASSUME BInv, [BNext]_bvars, NEW c \in Pares
      PROVE  Retira(c)
  <2>1. ASSUME NEW o \in Operadores, GuardarCandidato(o)
        PROVE  Retira(c)
    <3>1. op[o].pc = "guardar" /\ op'[o] # op[o]
      BY <2>1, <1>1 DEF GuardarCandidato, BInv, BTypeOK, Operacion_, OpVacio, Inactivo
    <3>2. op[o].c # c => candidatos'[c] = candidatos[c]
      BY <2>1, <1>1 DEF GuardarCandidato, BInv, BTypeOK
    <3>3. QED
      BY <3>1, <3>2
  <2>2. ASSUME NEW o \in Operadores, RechazarOtros(o)
        PROVE  Retira(c)
    BY <2>2, <1>1 DEF RechazarOtros, BInv, BTypeOK
  <2>3. ASSUME NEW g \in Generadores, CrearCandidato(g)
        PROVE  Retira(c)
    BY <2>3, <1>1 DEF CrearCandidato, BInv, BTypeOK
  <2>4. CASE UNCHANGED candidatos
    BY <2>4
  <2>5. QED
    BY <1>1, <2>1, <2>2, <2>3, <2>4
       DEF BNext, bvars, datos, Confirmar, CreateMovement, CreateTransaction, GenerateCandidates,
           GenerateForMovement, BuscarCandidato, UpdateCandidateStatus, MarcarMovimiento,
           MarkAsReconciled, Corte
<1>2. BInv /\ [BNext]_bvars => [\A c \in Pares : Retira(c)]_bvars
  BY <1>1
<1>3. QED
  BY BancoInvariante, <1>2, PTL DEF BSpec, ConfirmadoSoloPorOperador
=============================================================================
