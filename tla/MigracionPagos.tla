-------------------------- MODULE MigracionPagos --------------------------
(***************************************************************************)
(* The migration scripts of the accounting data, after the contractual     *)
(* entries were generated: the ad-hoc entries (fase 4.5 and fase 5), the   *)
(* links to the legacy accounts (04), the receipts (01), the payments (05),*)
(* the receipts' impact (07), the deterministic linker (03), and the three *)
(* reset scripts.  One script runs at a time, started by hand, in any      *)
(* order and any number of times; it may die between two writes.  Inside   *)
(* the linker the receipts of different contracts run concurrently.        *)
(***************************************************************************)
EXTENDS MigracionMaestros

CONSTANTS
  Scripts,      \* the scripts a behaviour may start
  LCuentas,     \* accounts: id -> [clase, tipo, contrato, per, monto, maestro]
  LPagos,       \* accountentries: id -> [cuenta, monto, agente, recibo]
  LRecibos,     \* receipts: id -> [valido, lineas]
  Contractuales, \* the entries of fase 4: id -> entry
  Deudor,       \* the agent the surgical script puts on an ad-hoc entry
  Nuevos,       \* ids for entries the scripts create
  MaxScripts, MaxMuertes  \* bounds: scripts started, deaths

(* 05 skips a payment that is not positive; phase 4 generated each rent     *)
(* once, and nothing has been paid when these scripts start.  The linker    *)
(* takes the amounts of a receipt as they come; here they are natural.      *)
ASSUME PagosAssumption ==
  /\ IsFiniteSet(DOMAIN LPagos) /\ \A x \in DOMAIN LPagos : LPagos[x].monto \in Nat
  /\ \A c \in DOMAIN LCuentas : LCuentas[c].monto \in Int
  /\ \A r \in DOMAIN LRecibos :
       LET s == LRecibos[r].lineas
       IN  s \in Seq(Range(s)) /\ \A i \in DOMAIN s : s[i].monto \in Nat
  /\ \A a \in DOMAIN Contractuales :
       LET d == Contractuales[a]
       IN  /\ d = [x \in {"tipo", "contrato", "per", "legacy_id", "debe", "haber", "agenteDebe", "agenteHaber",
                           "pagado", "liquidado", "estado", "debito", "credito", "recibo"} |-> d[x]]
           /\ d.debe \in Int /\ d.haber \in Int /\ d.pagado = 0 /\ d.liquidado = 0 /\ d.estado = "PENDIENTE"
  /\ \A a, b \in {c \in DOMAIN Contractuales : Contractuales[c].tipo = "Alquiler Mensual"} :
       /\ Contractuales[a].contrato = Contractuales[b].contrato
       /\ Contractuales[a].per = Contractuales[b].per => a = b

(* Every collection numbers its own documents: an entry of fase 4, or one a *)
(* script inserts, never has the id of a legacy account.  Fase 4 links no   *)
(* legacy account: script 04 does.                                          *)
ASSUME IdentidadesAssumption ==
  /\ Nulo \notin DOMAIN LCuentas
  /\ \A a \in DOMAIN Contractuales \cup Nuevos :
       a \notin DOMAIN LCuentas /\ \A x \in DOMAIN LPagos : LPagos[x].cuenta # a
  /\ \A a \in DOMAIN Contractuales : Contractuales[a].debito = {}

VARIABLES
  asientos,       \* accountingentries
  transacciones,  \* bag of [detalle, externa, recibo]
  recibos,        \* receipts: id -> [numero, afectados, pendiente]
  secuencia,      \* sequences 'receipt_number'
  script,         \* the running script: name, step, what it holds in memory
  tareas,         \* the linker's receipts in progress
  huella, lanzados, muertes

pagos == <<asientos, transacciones, recibos, secuencia, script, tareas, huella, lanzados, muertes>>

Quieto == [nombre |-> "ninguno", paso |-> 1, pend |-> {}, tx |-> EmptyBag, quirurgico |-> FALSE]

(* huella.pagos: runs of 05 since the last complete reset.  huella.enlaces: the *)
(* linker ran.  huella.cortados: entries left half written by a death, by a   *)
(* receipt with an unmatched line or by reset 08.  huella.cruzados: receipts  *)
(* whose lines name several origins were linked.                            *)
PInit ==
  /\ asientos = Contractuales
  /\ transacciones = EmptyBag
  /\ recibos = <<>> /\ tareas = <<>>
  /\ secuencia = 0
  /\ script = Quieto
  /\ huella = [pagos |-> 0, enlaces |-> FALSE, cortados |-> {}, cruzados |-> FALSE, reset00 |-> FALSE]
  /\ lanzados = 0 /\ muertes = 0

Corre(nombre, paso) == script.nombre = nombre /\ script.paso = paso
Avanzar == script' = [script EXCEPT !.paso = @ + 1, !.pend = {}]
Hecho(x) == script' = [script EXCEPT !.pend = @ \ {x}]
Fin == script' = Quieto

SumaSobre(S, f(_)) == SumFunctionOnSet([x \in S |-> f(x)], S)

----------------------------------------------------------------------------
(* Ad-hoc entries.  03-migrate-adhoc-entries and its surgical version       *)
(* upsert by the legacy account's _id with $set of the whole document;      *)
(* 01-migrate-adhoc-entries inserts one per master account, with a new _id. *)
AdHoc(id, monto, deudor) ==
  [tipo |-> "Ad-Hoc", contrato |-> Nulo, per |-> 0, legacy_id |-> id,
   debe |-> monto, haber |-> monto, agenteDebe |-> deudor, agenteHaber |-> Nulo,
   pagado |-> 0, liquidado |-> 0, estado |-> "PENDIENTE",
   debito |-> {}, credito |-> {}, recibo |-> Nulo]

CuentasAdHoc == {c \in DOMAIN LCuentas : LCuentas[c].clase = "adhoc"}

UpsertAdHoc(c) ==
  /\ Corre("adhoc", 1) /\ c \in script.pend
  /\ asientos' = Insertado(asientos, c, AdHoc(c, LCuentas[c].monto,
                             IF script.quirurgico THEN Deudor ELSE Nulo))
  /\ Hecho(c)
  /\ UNCHANGED <<transacciones, recibos, secuencia, tareas, huella, lanzados, muertes>>

InsertarAdHocMaestro(c) ==
  /\ Corre("adhocMaestro", 1) /\ c \in script.pend
  /\ Nuevos \ DOMAIN asientos # {}
  /\ LET n == CHOOSE n \in Nuevos : n \notin DOMAIN asientos
     IN  asientos' = Insertado(asientos, n, AdHoc(LCuentas[c].maestro, LCuentas[c].monto, Deudor))
  /\ Hecho(c)
  /\ UNCHANGED <<transacciones, recibos, secuencia, tareas, huella, lanzados, muertes>>

(* 04-link-contractual-entries: the account goes to the entry of its        *)
(* contract, concept and month, on the side of its type ($addToSet).        *)
DestinoContractual(c) ==
  {a \in DOMAIN asientos : /\ asientos[a].tipo = "Alquiler Mensual"
                           /\ asientos[a].contrato = LCuentas[c].contrato
                           /\ asientos[a].per = LCuentas[c].per}

Vincular(c) ==
  /\ Corre("vincular", 1) /\ c \in script.pend
  /\ \/ /\ DestinoContractual(c) = {}
        /\ UNCHANGED asientos
     \/ \E a \in DestinoContractual(c) :
          asientos' = IF LCuentas[c].tipo = "Debito"
                      THEN [asientos EXCEPT ![a].debito = @ \cup {c}]
                      ELSE [asientos EXCEPT ![a].credito = @ \cup {c}]
  /\ Hecho(c)
  /\ UNCHANGED <<transacciones, recibos, secuencia, tareas, huella, lanzados, muertes>>

----------------------------------------------------------------------------
(* 01-migrate-receipts: each valid legacy receipt takes a new number, then  *)
(* is upserted under its _id with no entries and its _legacy_data.          *)
(* Mutant: the number is a count, the sequence is not incremented.          *)
NumerarSinIncremento(r) ==
  /\ Corre("recibos", 1) /\ r \in script.pend
  /\ secuencia' = Cardinality(DOMAIN recibos) + 1
  /\ recibos' = Insertado(recibos, r, [numero |-> secuencia', afectados |-> <<>>, pendiente |-> TRUE])
  /\ Hecho(r)
  /\ UNCHANGED <<asientos, transacciones, tareas, huella, lanzados, muertes>>

MigrarRecibo(r) ==
  /\ Corre("recibos", 1) /\ r \in script.pend
  /\ secuencia' = secuencia + 1
  /\ recibos' = Insertado(recibos, r, [numero |-> secuencia', afectados |-> <<>>, pendiente |-> TRUE])
  /\ Hecho(r)
  /\ UNCHANGED <<asientos, transacciones, tareas, huella, lanzados, muertes>>

----------------------------------------------------------------------------
(* 05-migrate-payments.  The V3 entry of a legacy account: the ad-hoc entry *)
(* with its _id, charged on the debe side, or the contractual entry linked  *)
(* to it.                                                                   *)
Resueltos(c) ==
  IF c \in DOMAIN asientos THEN {<<c, "D">>}
  ELSE {<<a, IF c \in asientos[a].debito THEN "D" ELSE "H">> :
          a \in {b \in DOMAIN asientos : c \in asientos[b].debito \cup asientos[b].credito}}

(* The payments of one entry, agent and side are consolidated; each one     *)
(* also becomes a transaction.                                              *)
PagosResueltos == {x \in DOMAIN LPagos : Resueltos(LPagos[x].cuenta) # {}}
Destino(x) == CHOOSE d \in Resueltos(LPagos[x].cuenta) : TRUE
Clave(x) == [a |-> Destino(x)[1], lado |-> Destino(x)[2], agente |-> LPagos[x].agente]
Consolidado(k) == SumaSobre({x \in PagosResueltos : Clave(x) = k}, LAMBDA x : LPagos[x].monto)

TransaccionDe(x) ==
  [detalle |-> <<[a |-> Destino(x)[1], monto |-> LPagos[x].monto]>>, externa |-> TRUE,
   recibo |-> LPagos[x].recibo, pago |-> x]

CargarPagos ==
  /\ Corre("pagos", 1)
  /\ script' = [script EXCEPT !.paso = 2,
                  !.pend = {[k |-> Clave(x), monto |-> Consolidado(Clave(x))] : x \in PagosResueltos},
                  !.tx = SetToBag({TransaccionDe(x) : x \in PagosResueltos})]
  /\ huella' = [huella EXCEPT !.pagos = @ + 1]
  /\ UNCHANGED <<asientos, transacciones, recibos, secuencia, tareas, lanzados, muertes>>

(* The array filter picks the partidas of that side and that agent.         *)
(* Mutant: the filter has lost its side.                                    *)
ImputadoSinLado(d, k, monto) ==
  [d EXCEPT !.pagado = IF d.agenteDebe = k.agente \/ k.lado = "D" THEN @ + monto ELSE @,
            !.liquidado = IF k.lado = "H" /\ d.agenteHaber = k.agente THEN @ + monto ELSE @]
Imputado(d, k, monto) ==
  [d EXCEPT !.pagado = IF k.lado = "D" /\ d.agenteDebe = k.agente THEN @ + monto ELSE @,
            !.liquidado = IF k.lado = "H" /\ d.agenteHaber = k.agente THEN @ + monto ELSE @]

ImputarConsolidado(op) ==
  /\ Corre("pagos", 2) /\ op \in script.pend
  /\ asientos' = [asientos EXCEPT ![op.k.a] = Imputado(@, op.k, op.monto)]
  /\ Hecho(op)
  /\ UNCHANGED <<transacciones, recibos, secuencia, tareas, huella, lanzados, muertes>>

(* The state of every entry touched, from its sums.                         *)
(* Mutant: COBRADO as soon as something was paid.                           *)
EstadoFinalApresurado(d) ==
  LET cobrado   == d.pagado > 0 /\ d.debe > 0
      liquidado == d.agenteHaber = Nulo \/ d.liquidado >= d.haber
  IN  IF cobrado /\ liquidado THEN "LIQUIDADO"
      ELSE IF cobrado THEN "COBRADO"
      ELSE IF d.pagado > 0 THEN "PAGADO_PARCIAL" ELSE "PENDIENTE"

EstadoFinal(d) ==
  LET cobrado   == d.pagado >= d.debe /\ d.debe > 0
      liquidado == d.agenteHaber = Nulo \/ d.liquidado >= d.haber
  IN  IF cobrado /\ liquidado THEN "LIQUIDADO"
      ELSE IF cobrado THEN "COBRADO"
      ELSE IF d.pagado > 0 THEN "PAGADO_PARCIAL" ELSE "PENDIENTE"

FinalizarEstados ==
  /\ Corre("pagos", 2) /\ script.pend = {}
  /\ asientos' = [a \in DOMAIN asientos |->
       IF \E t \in BagToSet(script.tx) : t.detalle[1].a = a
       THEN [asientos[a] EXCEPT !.estado = EstadoFinal(asientos[a])] ELSE asientos[a]]
  /\ Avanzar
  /\ UNCHANGED <<transacciones, recibos, secuencia, tareas, huella, lanzados, muertes>>

(* Mutant: one transaction per consolidated operation's entry is lost.      *)
InsertarTransaccionesUnaMenos ==
  /\ Corre("pagos", 3)
  /\ transacciones' = IF script.tx = EmptyBag THEN transacciones
                      ELSE transacciones (+) (script.tx (-) SetToBag({CHOOSE t \in BagToSet(script.tx) : TRUE}))
  /\ Fin
  /\ UNCHANGED <<asientos, recibos, secuencia, tareas, huella, lanzados, muertes>>

InsertarTransacciones ==
  /\ Corre("pagos", 3)
  /\ transacciones' = transacciones (+) script.tx
  /\ Fin
  /\ UNCHANGED <<asientos, recibos, secuencia, tareas, huella, lanzados, muertes>>

----------------------------------------------------------------------------
(* 07-link-receipts-impact: each receipt gets the entries its payments      *)
(* resolve to, one per legacy account; then each entry, a receipt.          *)
ConRecibo == {x \in PagosResueltos : LPagos[x].recibo # Nulo}
PagosDe(r) == {x \in ConRecibo : LPagos[x].recibo = r}
(* One payment per legacy account: the first one found.                     *)
SinRepetir(S) == {x \in S : x = CHOOSE y \in S : LPagos[y].cuenta = LPagos[x].cuenta}

ImpactarRecibo(r) ==
  /\ Corre("impacto", 1) /\ r \in script.pend
  /\ recibos' = IF r \in DOMAIN recibos
                THEN [recibos EXCEPT ![r].afectados =
                        SetToSeq({[a |-> Destino(x)[1], monto |-> LPagos[x].monto] : x \in SinRepetir(PagosDe(r))})]
                ELSE recibos
  /\ Hecho(r)
  /\ UNCHANGED <<asientos, transacciones, secuencia, tareas, huella, lanzados, muertes>>

PasarAAsientos ==
  /\ Corre("impacto", 1) /\ script.pend = {}
  /\ script' = [script EXCEPT !.paso = 2, !.pend = ConRecibo]
  /\ UNCHANGED <<asientos, transacciones, recibos, secuencia, tareas, huella, lanzados, muertes>>

ImpactarAsiento(x) ==
  /\ Corre("impacto", 2) /\ x \in script.pend
  /\ asientos' = [asientos EXCEPT ![Destino(x)[1]].recibo = LPagos[x].recibo]
  /\ Hecho(x)
  /\ UNCHANGED <<transacciones, recibos, secuencia, tareas, huella, lanzados, muertes>>

----------------------------------------------------------------------------
(* 03-link-payments-deterministic.  A line [clase, maestro, contrato, per,  *)
(* monto] of a receipt matches the ad-hoc entry of its master account, or   *)
(* the rent of its contract and period; among several, the one of its       *)
(* amount, then a pending one.                                              *)
Exactos(l) ==
  LET adhoc == {a \in DOMAIN asientos : asientos[a].legacy_id = l.maestro}
      cand  == {a \in DOMAIN asientos : /\ asientos[a].tipo = "Alquiler Mensual"
                                        /\ asientos[a].contrato = l.contrato
                                        /\ asientos[a].per = l.per}
      monto == {a \in cand : asientos[a].debe = l.monto}
  IN  IF l.maestro # Nulo /\ adhoc # {} THEN adhoc
      ELSE IF l.contrato = Nulo \/ l.clase # "alquiler" THEN {}
      ELSE IF Cardinality(cand) <= 1 THEN cand
      ELSE IF monto # {} THEN monto
      ELSE {a \in cand : asientos[a].estado = "PENDIENTE"}

(* Receipts are grouped by the origin of their first line; a group runs its *)
(* receipts in turn, the groups and the receipts without origin at once.    *)
(* Mutant: every receipt is a group of its own.                             *)
TareaLibreSinGrupos(r) == r \notin DOMAIN tareas
Origen(r) == LRecibos[r].lineas[1].contrato
TareaLibre(r) ==
  \A q \in DOMAIN tareas : q # r /\ (Origen(q) # Nulo => Origen(q) # Origen(r))

Tarea(r, t) == tareas' = Insertado(tareas, r, t)
EnTarea(r, paso) == script.nombre = "enlazar" /\ r \in DOMAIN tareas /\ tareas[r].paso = paso
Linea(r) == LRecibos[r].lineas[tareas[r].i]
QuedanLineas(r) == tareas[r].i <= Len(LRecibos[r].lineas)

EmpezarTarea(r) ==
  /\ script.nombre = "enlazar" /\ r \in script.pend /\ TareaLibre(r)
  /\ Tarea(r, [paso |-> "buscar", i |-> 1, a |-> Nulo, afectados |-> <<>>, fallo |-> FALSE])
  /\ Hecho(r)
  /\ huella' = [huella EXCEPT !.cruzados =
       @ \/ \E i \in DOMAIN LRecibos[r].lineas : LRecibos[r].lineas[i].contrato \notin {Nulo, Origen(r)}]
  /\ UNCHANGED <<asientos, transacciones, recibos, secuencia, lanzados, muertes>>

SaltarLinea(r) == Tarea(r, [tareas[r] EXCEPT !.i = @ + 1, !.fallo = TRUE])

(* A line without a match creates the missing rent of its period, or fails  *)
(* the receipt; the lines after it go on.                                   *)
BuscarAsiento(r) ==
  LET l == Linea(r)
  IN  /\ EnTarea(r, "buscar") /\ QuedanLineas(r)
      /\ \/ \E a \in Exactos(l) : Tarea(r, [tareas[r] EXCEPT !.paso = "imputar", !.a = a])
         \/ /\ Exactos(l) = {} /\ l.contrato # Nulo /\ l.clase = "alquiler" /\ l.per # 0
            /\ Tarea(r, [tareas[r] EXCEPT !.paso = "crear"])
         \/ /\ Exactos(l) = {} /\ (l.contrato = Nulo \/ l.clase # "alquiler" \/ l.per = 0)
            /\ SaltarLinea(r)
      /\ UNCHANGED <<asientos, transacciones, recibos, secuencia, script, huella, lanzados, muertes>>

CrearFaltante(r) ==
  LET l == Linea(r)
      n == CHOOSE n \in Nuevos : n \notin DOMAIN asientos
  IN  /\ EnTarea(r, "crear") /\ Nuevos \ DOMAIN asientos # {}
      /\ asientos' = Insertado(asientos, n,
           [AdHoc(Nulo, l.monto, Nulo) EXCEPT !.tipo = "Alquiler Mensual", !.contrato = l.contrato, !.per = l.per])
      /\ Tarea(r, [tareas[r] EXCEPT !.paso = "imputar", !.a = n])
      /\ UNCHANGED <<transacciones, recibos, secuencia, script, huella, lanzados, muertes>>

ImputarLinea(r) ==
  LET t == tareas[r]
      l == Linea(r)
  IN  /\ EnTarea(r, "imputar")
      /\ asientos' = [asientos EXCEPT ![t.a].pagado = IF asientos[t.a].debe > 0 THEN @ + l.monto ELSE @,
                                      ![t.a].liquidado = IF asientos[t.a].debe > 0 THEN @ ELSE @ + l.monto]
      /\ Tarea(r, [t EXCEPT !.paso = "buscar", !.i = @ + 1, !.a = Nulo,
                     !.afectados = Append(@, [a |-> t.a, monto |-> l.monto])])
      /\ UNCHANGED <<transacciones, recibos, secuencia, script, huella, lanzados, muertes>>

(* With every line matched, the transaction, then the receipt; otherwise    *)
(* what was imputed stays without either.                                   *)
Marcados(t) == {t.afectados[i].a : i \in DOMAIN t.afectados}

CerrarTarea(r) ==
  LET t == tareas[r]
  IN  /\ EnTarea(r, "buscar") /\ ~ QuedanLineas(r)
      /\ IF ~ t.fallo /\ t.afectados # <<>>
         THEN /\ transacciones' = transacciones (+) SetToBag({
                   [detalle |-> t.afectados, externa |-> FALSE, recibo |-> r, pago |-> Nulo]})
              /\ Tarea(r, [t EXCEPT !.paso = "recibo"])
              /\ UNCHANGED huella
         ELSE /\ tareas' = Restrict(tareas, DOMAIN tareas \ {r})
              /\ huella' = [huella EXCEPT !.cortados = @ \cup Marcados(t)]
              /\ UNCHANGED transacciones
      /\ UNCHANGED <<asientos, recibos, secuencia, script, lanzados, muertes>>

GuardarRecibo(r) ==
  /\ EnTarea(r, "recibo")
  /\ recibos' = [recibos EXCEPT ![r].afectados = tareas[r].afectados, ![r].pendiente = FALSE]
  /\ tareas' = Restrict(tareas, DOMAIN tareas \ {r})
  /\ UNCHANGED <<asientos, transacciones, secuencia, script, huella, lanzados, muertes>>

----------------------------------------------------------------------------
(* The resets, each a series of updates.  00-reset-migration: receipts,     *)
(* transactions, amounts, states, sequence.                                 *)
SinPagos(d) == [d EXCEPT !.pagado = 0, !.liquidado = 0]
ConPagosEnEstado(d) == d.estado \in {"COBRADO", "PAGADO", "PAGADO_PARCIAL", "LIQUIDADO"}

Reset00 ==
  /\ script.nombre = "reset00"
  /\ recibos' = IF script.paso = 1 THEN <<>> ELSE recibos
  /\ transacciones' = IF script.paso = 2 THEN EmptyBag ELSE transacciones
  /\ asientos' = IF script.paso = 3 THEN [a \in DOMAIN asientos |-> SinPagos(asientos[a])]
                 ELSE IF script.paso = 4
                 THEN [a \in DOMAIN asientos |->
                         IF ConPagosEnEstado(asientos[a])
                         THEN [asientos[a] EXCEPT !.estado = "PENDIENTE", !.recibo = Nulo] ELSE asientos[a]]
                 ELSE asientos
  /\ secuencia' = IF script.paso = 5 THEN 0 ELSE secuencia
  /\ IF script.paso < 5 THEN Avanzar /\ UNCHANGED huella
     ELSE Fin /\ huella' = [huella EXCEPT !.pagos = 0, !.enlaces = FALSE, !.cortados = {}, !.reset00 = FALSE]
  /\ UNCHANGED <<tareas, lanzados, muertes>>

(* 08-reset-links-payments: the transactions with an external reference, the *)
(* linked contractual entries, the ad-hoc entries, the receipts' links.  The *)
(* settled amounts (monto_liquidado) are left as they are.                   *)
Reset08 ==
  /\ script.nombre = "reset08"
  /\ transacciones' = IF script.paso = 1
                      THEN [t \in {u \in BagToSet(transacciones) : ~ u.externa} |-> transacciones[t]]
                      ELSE transacciones
  /\ asientos' =
       IF script.paso = 2
       THEN [a \in DOMAIN asientos |->
               IF asientos[a].debito \cup asientos[a].credito # {}
               THEN [asientos[a] EXCEPT !.debito = {}, !.credito = {}, !.pagado = 0,
                                        !.estado = "PENDIENTE", !.recibo = Nulo]
               ELSE asientos[a]]
       ELSE IF script.paso = 3
       THEN [a \in DOMAIN asientos |->
               IF asientos[a].legacy_id # Nulo
               THEN [asientos[a] EXCEPT !.pagado = 0, !.estado = "PENDIENTE", !.recibo = Nulo]
               ELSE asientos[a]]
       ELSE asientos
  /\ recibos' = IF script.paso = 4 THEN [r \in DOMAIN recibos |-> [recibos[r] EXCEPT !.afectados = <<>>]]
                ELSE recibos
  /\ huella' = [huella EXCEPT !.cortados = @ \cup DOMAIN asientos,
                          !.pagos = IF script.paso = 4 THEN 0 ELSE @]
  /\ IF script.paso < 4 THEN Avanzar ELSE Fin
  /\ UNCHANGED <<secuencia, tareas, lanzados, muertes>>

(* reset-payments: transactions, receipts, the ad-hoc entries, the payments  *)
(* of the rest.  Mutant: the receipts survive.                               *)
ResetPagosConRecibos ==
  /\ script.nombre = "resetPagos"
  /\ transacciones' = IF script.paso = 1 THEN EmptyBag ELSE transacciones
  /\ asientos' =
       IF script.paso = 3 THEN Restrict(asientos, {a \in DOMAIN asientos : asientos[a].legacy_id = Nulo})
       ELSE IF script.paso = 4
       THEN [a \in DOMAIN asientos |-> [SinPagos(asientos[a]) EXCEPT !.estado = "PENDIENTE"]]
       ELSE asientos
  /\ IF script.paso < 4 THEN Avanzar /\ UNCHANGED huella
     ELSE Fin /\ huella' = [huella EXCEPT !.pagos = 0, !.enlaces = FALSE, !.cortados = {}, !.reset00 = FALSE]
  /\ UNCHANGED <<recibos, secuencia, tareas, lanzados, muertes>>

ResetPagos ==
  /\ script.nombre = "resetPagos"
  /\ transacciones' = IF script.paso = 1 THEN EmptyBag ELSE transacciones
  /\ recibos' = IF script.paso = 2 THEN <<>> ELSE recibos
  /\ asientos' =
       IF script.paso = 3 THEN Restrict(asientos, {a \in DOMAIN asientos : asientos[a].legacy_id = Nulo})
       ELSE IF script.paso = 4
       THEN [a \in DOMAIN asientos |-> [SinPagos(asientos[a]) EXCEPT !.estado = "PENDIENTE"]]
       ELSE asientos
  /\ IF script.paso < 4 THEN Avanzar /\ UNCHANGED huella
     ELSE Fin /\ huella' = [huella EXCEPT !.pagos = 0, !.enlaces = FALSE, !.cortados = {}, !.reset00 = FALSE]
  /\ UNCHANGED <<secuencia, tareas, lanzados, muertes>>

----------------------------------------------------------------------------
(* Starting a script, with what it reads; ending it; dying.                 *)
Lectura(nombre) ==
  CASE nombre = "adhoc"        -> CuentasAdHoc
    [] nombre = "adhocMaestro" -> CuentasAdHoc
    [] nombre = "vincular"     -> DOMAIN LCuentas \ CuentasAdHoc
    [] nombre = "recibos"      -> {r \in DOMAIN LRecibos : LRecibos[r].valido}
    [] nombre = "impacto"      -> {LPagos[x].recibo : x \in ConRecibo}
    [] nombre = "enlazar"      -> {r \in DOMAIN recibos : recibos[r].pendiente}
    [] OTHER                   -> {}

EmpezarScript(nombre) ==
  /\ script.nombre = "ninguno" /\ lanzados < MaxScripts
  /\ \E q \in IF nombre = "adhoc" THEN BOOLEAN ELSE {FALSE} :
       script' = [Quieto EXCEPT !.nombre = nombre, !.pend = Lectura(nombre), !.quirurgico = q]
  /\ lanzados' = lanzados + 1
  /\ huella' = [huella EXCEPT !.enlaces = @ \/ nombre = "enlazar"]
  /\ UNCHANGED <<asientos, transacciones, recibos, secuencia, tareas, muertes>>

TerminarScript ==
  /\ \/ script.nombre \in {"adhoc", "adhocMaestro", "vincular", "recibos"}
     \/ Corre("impacto", 2)
     \/ script.nombre = "enlazar" /\ tareas = <<>>
  /\ script.pend = {}
  /\ Fin
  /\ UNCHANGED <<asientos, transacciones, recibos, secuencia, tareas, huella, lanzados, muertes>>

EnCurso ==
  {t.detalle[1].a : t \in BagToSet(script.tx)}
    \cup UNION {Marcados(tareas[r]) : r \in {q \in DOMAIN tareas : tareas[q].paso # "recibo"}}

MorirScript ==
  /\ script.nombre # "ninguno" /\ muertes < MaxMuertes
  /\ huella' = [huella EXCEPT !.cortados = @ \cup EnCurso \cup
                            IF script.nombre \in {"reset00", "resetPagos"} THEN DOMAIN asientos ELSE {},
                          !.reset00 = @ \/ Corre("reset00", 4)]
  /\ script' = Quieto /\ tareas' = <<>>
  /\ muertes' = muertes + 1
  /\ UNCHANGED <<asientos, transacciones, recibos, secuencia, lanzados>>

PNext ==
  \/ \E n \in Scripts : EmpezarScript(n)
  \/ \E c \in DOMAIN LCuentas : UpsertAdHoc(c) \/ InsertarAdHocMaestro(c) \/ Vincular(c)
  \/ \E r \in DOMAIN LRecibos :
       \/ MigrarRecibo(r) \/ ImpactarRecibo(r)
       \/ EmpezarTarea(r) \/ BuscarAsiento(r) \/ CrearFaltante(r) \/ ImputarLinea(r)
       \/ CerrarTarea(r) \/ GuardarRecibo(r)
  \/ \E x \in DOMAIN LPagos : ImpactarAsiento(x)
  \/ \E op \in script.pend : ImputarConsolidado(op)
  \/ CargarPagos \/ FinalizarEstados \/ InsertarTransacciones \/ PasarAAsientos
  \/ Reset00 \/ Reset08 \/ ResetPagos
  \/ TerminarScript \/ MorirScript

PSpec == PInit /\ [][PNext]_pagos

----------------------------------------------------------------------------
(* Properties.                                                              *)

MontoEn(t, a) == SumaSobre({i \in DOMAIN t.detalle : t.detalle[i].a = a}, LAMBDA i : t.detalle[i].monto)
Respaldo(a) == SumaSobre(BagToSet(transacciones), LAMBDA t : transacciones[t] * MontoEn(t, a))

(* Every peso a script imputed on an entry has its financial transaction,   *)
(* whatever scripts ran and however often: only entries that a death, an    *)
(* unmatched line or reset 08 left half written may lack it.                *)
ImputadoRespaldado ==
  \A a \in DOMAIN asientos \ (huella.cortados \cup EnCurso) :
    script.nombre \in {"reset00", "resetPagos"} \/
      asientos[a].pagado + asientos[a].liquidado <= Respaldo(a)

(* Two migrated receipts never share a number, and none is beyond the       *)
(* sequence, also when a reset dies halfway.                                *)
NumerosDeRecibo ==
  /\ \A q, r \in DOMAIN recibos : recibos[q].numero = recibos[r].numero => q = r
  /\ \A r \in DOMAIN recibos : recibos[r].numero <= secuencia

(* The linker creates at most one rent per contract and period while each   *)
(* receipt's lines are of one contract: receipts of a contract never run at *)
(* once.                                                                    *)
UnAsientoPorPeriodo ==
  huella.cruzados \/
    \A a, b \in DOMAIN asientos :
      /\ asientos[a].tipo = "Alquiler Mensual" /\ asientos[b].tipo = "Alquiler Mensual"
      /\ asientos[a].contrato = asientos[b].contrato /\ asientos[a].per = asientos[b].per
      => a = b

(* An entry is COBRADO or LIQUIDADO only when its debt was paid, and        *)
(* LIQUIDADO only when what its agents are owed was settled; no script nor  *)
(* reset leaves a state behind, except 00 when it dies between its two      *)
(* updates of the entries.                                                  *)
EstadoSostenido ==
  \/ huella.reset00 \/ Corre("reset00", 4)
  \/ \A a \in DOMAIN asientos :
       /\ asientos[a].estado \in {"COBRADO", "LIQUIDADO"} => asientos[a].pagado >= asientos[a].debe
       /\ asientos[a].estado = "LIQUIDADO" /\ asientos[a].agenteHaber # Nulo =>
            asientos[a].liquidado >= asientos[a].haber

(* What a receipt affects exists: no reset deletes the ad-hoc entries under *)
(* the receipts that name them.                                             *)
AfectadosExisten ==
  \A r \in DOMAIN recibos : \A i \in DOMAIN recibos[r].afectados :
    recibos[r].afectados[i].a \in DOMAIN asientos

(* With at most one run of 05 since the last reset and none of the linker,  *)
(* the debt side of an entry never receives more than its own agent paid in *)
(* the legacy accounts it stands for.                                       *)
PagoLegacy(a, lado) ==
  SumaSobre({x \in DOMAIN LPagos :
               LET c == LPagos[x].cuenta
               IN  /\ LPagos[x].agente = IF lado = "D" THEN asientos[a].agenteDebe ELSE asientos[a].agenteHaber
                   /\ IF c \in CuentasAdHoc THEN lado = "D" /\ c = a
                      ELSE (LCuentas[c].tipo = "Debito") = (lado = "D") /\ a \in DestinoContractual(c)},
            LAMBDA x : LPagos[x].monto)

PagadoUnaVez ==
  huella.pagos <= 1 /\ ~ huella.enlaces =>
    \A a \in DOMAIN asientos : asientos[a].pagado <= PagoLegacy(a, "D")

(* What was imputed has its transaction, and was imputed once.              *)
PagosRespaldados == ImputadoRespaldado /\ PagadoUnaVez

(* Receipts have numbers of their own, affect entries that exist, and two   *)
(* of them never create the rent of one period twice.                       *)
RecibosMigrados == NumerosDeRecibo /\ AfectadosExisten /\ UnAsientoPorPeriodo

=============================================================================
