-------------------------- MODULE ServicePipeline --------------------------
(***************************************************************************)
(* The pipeline of utility bills: mails scanned into communications        *)
(* (CamuzziScanService, ServiceSyncService), communications classified     *)
(* into detected expenses (ClassificationService), expenses prorated into  *)
(* a proposal and, confirmed by an operator, into an accounting entry      *)
(* (AccountingEntriesService).                                             *)
(*                                                                         *)
(* Each stage reads, awaits and writes one document, with no transaction   *)
(* and no condition on the write: requests interleave at every await.      *)
(* Amounts are in cents.                                                   *)
(***************************************************************************)
EXTENDS Integers, Sequences, FiniteSets, SequencesExt

CONSTANTS
  Mails,          \* mails in the window of dates that is scanned
  Aviso,          \* [Mails -> [mid : has a Message-ID, sid : what parseEmail finds,
                  \*            enTexto : what extractServiceIdFromText finds, monto]]
  Servicios,      \* [service ids -> Seq([pct : Nat, propietario])], its properties; pct 0: unset
  SinServicio,    \* no service id was found
  SinDuenio,      \* a property without propietarios_ids
  ConMapping,     \* service ids with an enabled account mapping
  AutoCandidatos, \* values of autoCandidates with which a scan is started
  EstadosOperador,\* statuses that an operator gives a communication
  Requests,       \* requests that may be in progress at the same time
  MaxOps,         \* bound: requests started
  MaxFallas       \* bound: failed awaits and restarts

ASSUME AvisoAssumption ==
  /\ SinServicio \notin DOMAIN Servicios
  /\ Aviso \in [Mails -> [mid : BOOLEAN, sid : DOMAIN Servicios \cup {SinServicio},
                          enTexto : DOMAIN Servicios \cup {SinServicio}, monto : Nat]]
ASSUME ServiciosAssumption ==
  \A s \in DOMAIN Servicios :
    /\ Servicios[s] \in Seq({Servicios[s][k] : k \in DOMAIN Servicios[s]})
    /\ \A k \in DOMAIN Servicios[s] : Servicios[s][k].pct \in Nat
ASSUME PipelineBoundsAssumption ==
  MaxOps \in Nat /\ MaxFallas \in Nat /\ AutoCandidatos \subseteq BOOLEAN

VARIABLES
  com,        \* service_communications: [mail, sid, estado, gasto]; reabierta,
              \* history: an operator gave it back to be classified
  gasto,      \* detected expenses: [com, sid, monto, estado, propuesta, asiento]
  asientos,   \* accounting entries of expenses: [gasto, monto, debe, haber]
  escaneando, \* CamuzziScanService.isScanning
  op,         \* [Requests -> the request in progress]
  solape,     \* history: two requests have been in progress at the same time
  ops, fallas

docs == <<com, gasto, asientos>>
svars == <<com, gasto, asientos, escaneando, op, solape, ops, fallas>>

EstadosGasto == {"PENDIENTE_VALIDACION", "ASIGNADO", "DESCARTADO"}
Eliminado == "eliminado"
SinPropuesta == [monto |-> 0, partidas |-> <<>>]
Ninguno == 0

SinOp == [paso |-> "libre", escaneo |-> FALSE, auto |-> FALSE, extraer |-> TRUE, mails |-> {},
          coms |-> {}, sids |-> <<>>, c |-> Ninguno, g |-> Ninguno, a |-> Ninguno,
          propuesta |-> SinPropuesta, leido |-> "UNPROCESSED", nuevo |-> "UNPROCESSED"]

SInit ==
  /\ com = <<>> /\ gasto = <<>> /\ asientos = <<>>
  /\ escaneando = FALSE
  /\ op = [r \in Requests |-> SinOp]
  /\ ops = 0 /\ fallas = 0 /\ solape = FALSE

----------------------------------------------------------------------------
Pedir(r) ==
  /\ op[r].paso = "libre" /\ ops < MaxOps
  /\ ops' = ops + 1
  /\ solape' = (solape \/ \E s \in Requests : op[s].paso # "libre")

UnprocessedDe(S) == {k \in S : com[k].estado = "UNPROCESSED"}

(* scanEmails().                                                            *)

(* A scan in progress turns the others away, cron or request.               *)
ScanEmails(r, auto) ==
  /\ Pedir(r) /\ ~ escaneando
  /\ escaneando' = TRUE
  /\ op' = [op EXCEPT ![r] = [SinOp EXCEPT !.paso = "descargar", !.escaneo = TRUE, !.auto = auto]]
  /\ UNCHANGED <<docs, fallas>>

(* fetchEmails(): 'end' resolves with the mails parsed by then, and those   *)
(* parsed while the scan runs join it; the rest are not seen.               *)
FetchEmails(r) ==
  /\ op[r].paso = "descargar"
  /\ \E S \in SUBSET Mails : op' = [op EXCEPT ![r].paso = "mails", ![r].mails = S]
  /\ UNCHANGED <<docs, escaneando, solape, ops, fallas>>

(* email_id is the Message-ID, or the time and a random number.             *)
Duplicada(m) == Aviso[m].mid /\ \E k \in DOMAIN com : com[k].mail = m

Comunicacion(m) == [mail |-> m, sid |-> Aviso[m].sid, estado |-> "UNPROCESSED",
                    gasto |-> Ninguno, reabierta |-> FALSE]

(* Mutant: the mail is stored without looking it up.                        *)
CreateSinBuscar(r, m) ==
  /\ op[r].paso = "mails" /\ m \in op[r].mails
  /\ com' = Append(com, Comunicacion(m))
  /\ op' = [op EXCEPT ![r].mails = @ \ {m},
                      ![r].paso = IF op[r].auto THEN "buscar" ELSE "mails",
                      ![r].coms = IF op[r].auto THEN {Len(com) + 1} ELSE {}]
  /\ UNCHANGED <<gasto, asientos, escaneando, solape, ops, fallas>>

(* Mutant: the new communication is not handed to the classification.       *)
CreateSinClasificar(r, m) ==
  /\ op[r].paso = "mails" /\ m \in op[r].mails
  /\ com' = IF Duplicada(m) THEN com ELSE Append(com, Comunicacion(m))
  /\ op' = [op EXCEPT ![r].mails = @ \ {m}]
  /\ UNCHANGED <<gasto, asientos, escaneando, solape, ops, fallas>>

(* ServiceSyncService.create(), and the classification of what it created.  *)
Create(r, m) ==
  /\ op[r].paso = "mails" /\ m \in op[r].mails
  /\ IF Duplicada(m)
     THEN op' = [op EXCEPT ![r].mails = @ \ {m}] /\ UNCHANGED com
     ELSE /\ com' = Append(com, Comunicacion(m))
          /\ op' = [op EXCEPT ![r].mails = @ \ {m},
                              ![r].paso = IF op[r].auto THEN "buscar" ELSE "mails",
                              ![r].coms = IF op[r].auto THEN {Len(com) + 1} ELSE {}]
  /\ UNCHANGED <<gasto, asientos, escaneando, solape, ops, fallas>>

(* finally { isScanning = false }                                           *)
FinEscaneo(r) ==
  /\ op[r].paso = "mails" /\ op[r].mails = {}
  /\ escaneando' = FALSE
  /\ op' = [op EXCEPT ![r] = SinOp]
  /\ UNCHANGED <<docs, solape, ops, fallas>>

----------------------------------------------------------------------------
(* ClassificationService.generateCandidates().                              *)

GenerateCandidates(r, S, extraer) ==
  /\ Pedir(r)
  /\ op' = [op EXCEPT ![r] = [SinOp EXCEPT !.paso = "buscar", !.coms = S, !.extraer = extraer]]
  /\ UNCHANGED <<docs, escaneando, fallas>>

(* find({estado_procesamiento: UNPROCESSED, ...}): the documents stay in    *)
(* memory, sids is their identificador_servicio.                            *)
BuscarComunicaciones(r) ==
  LET coms == UnprocessedDe(op[r].coms)
  IN  /\ op[r].paso = "buscar"
      /\ op' = [op EXCEPT ![r].paso = "clasificar", ![r].coms = coms,
                          ![r].sids = [k \in coms |-> com[k].sid]]
      /\ UNCHANGED <<docs, escaneando, solape, ops, fallas>>

FinClasificacion(r) ==
  /\ op[r].paso = "clasificar" /\ op[r].coms = {}
  /\ op' = [op EXCEPT ![r] = IF op[r].escaneo THEN [op[r] EXCEPT !.paso = "mails", !.sids = <<>>] ELSE SinOp]
  /\ UNCHANGED <<docs, escaneando, solape, ops, fallas>>

(* The service id of a communication as read, or searched in its text.      *)
ExtractServiceId(r, k) ==
  IF op[r].sids[k] = SinServicio /\ op[r].extraer THEN Aviso[com[k].mail].enTexto
  ELSE op[r].sids[k]

(* Each communication of the list read before, as it was then.              *)
ProcessCommunication(r, k) ==
  LET sid == ExtractServiceId(r, k)
  IN  /\ op[r].paso = "clasificar" /\ k \in op[r].coms
      /\ com' = [com EXCEPT ![k].sid = IF sid = op[r].sids[k] THEN @ ELSE sid,
                            ![k].estado = IF sid = SinServicio THEN "ERROR" ELSE @]
      /\ op' = [op EXCEPT ![r].coms = @ \ {k}, ![r].c = k,
                          ![r].paso = IF sid = SinServicio THEN "clasificar" ELSE "crear"]
      /\ UNCHANGED <<gasto, asientos, escaneando, solape, ops, fallas>>

Gasto(k, sid, monto) == [com |-> k, sid |-> sid, monto |-> monto, estado |-> "PENDIENTE_VALIDACION",
                         propuesta |-> SinPropuesta, asiento |-> Ninguno]

CrearGasto(r) ==
  LET k == op[r].c
  IN  /\ op[r].paso = "crear"
      /\ gasto' = Append(gasto, Gasto(k, ExtractServiceId(r, k), Aviso[com[k].mail].monto))
      /\ op' = [op EXCEPT ![r].paso = "marcar", ![r].g = Len(gasto) + 1]
      /\ UNCHANGED <<com, asientos, escaneando, solape, ops, fallas>>

(* Mutant: the communication is linked to the latest expense.               *)
MarcarConElUltimo(r) ==
  /\ op[r].paso = "marcar"
  /\ com' = [com EXCEPT ![op[r].c].estado = "PROCESSED", ![op[r].c].gasto = Len(gasto)]
  /\ op' = [op EXCEPT ![r].paso = "leer"]
  /\ UNCHANGED <<gasto, asientos, escaneando, solape, ops, fallas>>

(* Whatever its status is by now.                                           *)
MarcarProcesada(r) ==
  /\ op[r].paso = "marcar"
  /\ com' = [com EXCEPT ![op[r].c].estado = "PROCESSED", ![op[r].c].gasto = op[r].g]
  /\ op' = [op EXCEPT ![r].paso = "leer"]
  /\ UNCHANGED <<gasto, asientos, escaneando, solape, ops, fallas>>

----------------------------------------------------------------------------
(* processDetectedUtilityInvoices().                                        *)

(* n / d rounded to the nearest, halves up.                                 *)
Redondeo(n, d) == (2 * n + d) \div (2 * d)

(* Mutant: the percentages are taken as they are.                           *)
ProrrateoSinNormalizar(monto, props) ==
  [k \in DOMAIN props |-> [agente |-> props[k].propietario,
                           monto |-> Redondeo(monto * props[k].pct, 100)]]

(* The percentages normalised to 100, or equal parts when none is set.      *)
Prorrateo(monto, props) ==
  LET total == SumFunction([k \in DOMAIN props |-> props[k].pct])
      peso(k) == IF total = 0 THEN 1 ELSE props[k].pct
      pesos == IF total = 0 THEN Len(props) ELSE total
  IN  [k \in DOMAIN props |-> [agente |-> props[k].propietario,
                               monto |-> Redondeo(monto * peso(k), pesos)]]

LeerGasto(r) ==
  /\ op[r].paso = "leer"
  /\ op' = [op EXCEPT ![r].paso = IF gasto[op[r].g].estado = "PENDIENTE_VALIDACION"
                                  THEN "proponer" ELSE "clasificar"]
  /\ UNCHANGED <<docs, escaneando, solape, ops, fallas>>

(* findByIdAndUpdate: nothing happens to an expense removed meanwhile.      *)
Proponer(r) ==
  LET g == op[r].g
      props == Servicios[gasto[g].sid]
  IN  /\ op[r].paso = "proponer"
      /\ gasto' =
           CASE gasto[g].estado = Eliminado -> gasto
             [] gasto[g].estado # Eliminado /\ props = <<>> ->
                  [gasto EXCEPT ![g].estado = "DESCARTADO"]
             [] OTHER ->
                  [gasto EXCEPT ![g].estado = "ASIGNADO",
                                ![g].propuesta = [monto |-> gasto[g].monto,
                                                  partidas |-> Prorrateo(gasto[g].monto, props)]]
      /\ op' = [op EXCEPT ![r].paso = "clasificar"]
      /\ UNCHANGED <<com, asientos, escaneando, solape, ops, fallas>>

----------------------------------------------------------------------------
(* processDetectedExpenseToEntry().                                         *)

(* Everything is read before the entry is created; that the expense already *)
(* has one is not looked at.                                                *)
ProcessDetectedExpenseToEntry(r, g) ==
  /\ gasto[g].estado # Eliminado
  /\ gasto[g].propuesta # SinPropuesta
  /\ gasto[g].sid \in ConMapping
  /\ Pedir(r)
  /\ op' = [op EXCEPT ![r] = [SinOp EXCEPT !.paso = "asentar", !.g = g,
                                           !.propuesta = gasto[g].propuesta]]
  /\ UNCHANGED <<docs, escaneando, fallas>>

(* A proposed agent that is no tenant of the properties (the proposals name *)
(* owners) is replaced by the first owner found.                            *)
AgenteFinal(agente, props) ==
  IF agente = SinDuenio THEN SinDuenio
  ELSE props[SelectInSeq(props, LAMBDA p : p.propietario # SinDuenio)].propietario

(* The debit of each property, and their total to the provider.             *)
AsientoDeGasto(g, propuesta) ==
  LET partidas == propuesta.partidas
      total == SumFunction([k \in DOMAIN partidas |-> partidas[k].monto])
  IN  [gasto |-> g,
       monto |-> IF propuesta.monto # 0 THEN propuesta.monto ELSE total,
       debe |-> [k \in DOMAIN partidas |->
                   [agente |-> AgenteFinal(partidas[k].agente, Servicios[gasto[g].sid]),
                    monto |-> partidas[k].monto]],
       haber |-> total]

CrearAsiento(r) ==
  /\ op[r].paso = "asentar"
  /\ asientos' = Append(asientos, AsientoDeGasto(op[r].g, op[r].propuesta))
  /\ op' = [op EXCEPT ![r].paso = "enlazar", ![r].a = Len(asientos) + 1]
  /\ UNCHANGED <<com, gasto, escaneando, solape, ops, fallas>>

(* estado_final says PROCESADO; estado_procesamiento stays ASIGNADO.        *)
EnlazarAsiento(r) ==
  LET g == op[r].g
  IN  /\ op[r].paso = "enlazar"
      /\ gasto' = IF gasto[g].estado = Eliminado THEN gasto
                  ELSE [gasto EXCEPT ![g].estado = "ASIGNADO", ![g].asiento = op[r].a]
      /\ op' = [op EXCEPT ![r] = SinOp]
      /\ UNCHANGED <<com, asientos, escaneando, solape, ops, fallas>>

----------------------------------------------------------------------------
(* The operators.                                                           *)

UpdateStatus(r, k, e) ==
  /\ Pedir(r)
  /\ op' = [op EXCEPT ![r] = [SinOp EXCEPT !.paso = "estado", !.c = k,
                                           !.leido = com[k].estado, !.nuevo = e]]
  /\ UNCHANGED <<docs, escaneando, fallas>>

(* doc.save() writes the status only if it differs from what was read.      *)
GuardarStatus(r) ==
  LET q == op[r]
  IN  /\ q.paso = "estado"
      /\ com' = [com EXCEPT ![q.c].estado = IF q.nuevo = q.leido THEN @ ELSE q.nuevo,
                            ![q.c].reabierta = @ \/ q.nuevo = "UNPROCESSED"]
      /\ op' = [op EXCEPT ![r] = SinOp]
      /\ UNCHANGED <<gasto, asientos, escaneando, solape, ops, fallas>>

(* PATCH of a detected expense, by an operator.                             *)
UpdateExpense(g, e) ==
  /\ ops < MaxOps /\ ops' = ops + 1
  /\ gasto[g].estado # Eliminado
  /\ gasto' = [gasto EXCEPT ![g].estado = e]
  /\ UNCHANGED <<com, asientos, escaneando, op, solape, fallas>>

RemoveExpense(g) ==
  /\ ops < MaxOps /\ ops' = ops + 1
  /\ gasto[g].estado # Eliminado
  /\ gasto' = [gasto EXCEPT ![g].estado = Eliminado]
  /\ UNCHANGED <<com, asientos, escaneando, op, solape, fallas>>

----------------------------------------------------------------------------
(* Failures.                                                                *)

EnClasificacion == {"crear", "marcar", "leer", "proponer"}

(* Mutant: a scan that throws leaves the flag set.                          *)
FallaSinFinally(r) ==
  LET q == op[r]
  IN  /\ q.paso \notin {"libre", "mails", "clasificar"} /\ fallas < MaxFallas
      /\ fallas' = fallas + 1
      /\ op' = [op EXCEPT ![r] =
           CASE q.paso \in EnClasificacion -> [q EXCEPT !.paso = "clasificar"]
             [] q.paso = "buscar" /\ q.escaneo -> [q EXCEPT !.paso = "mails", !.coms = {}]
             [] OTHER -> SinOp]
      /\ UNCHANGED <<docs, escaneando, solape, ops>>

(* An await throws: the classification goes on with the next communication, *)
(* the scan with the next mail, and any other request ends.                 *)
Falla(r) ==
  LET q == op[r]
  IN  /\ q.paso \notin {"libre", "mails", "clasificar"} /\ fallas < MaxFallas
      /\ fallas' = fallas + 1
      /\ op' = [op EXCEPT ![r] =
           CASE q.paso \in EnClasificacion -> [q EXCEPT !.paso = "clasificar"]
             [] q.paso = "buscar" /\ q.escaneo -> [q EXCEPT !.paso = "mails", !.coms = {}]
             [] OTHER -> SinOp]
      /\ escaneando' = (escaneando /\ q.paso # "descargar")
      /\ UNCHANGED <<docs, solape, ops>>

(* The process restarts: the flag was in its memory.                        *)
Reinicio ==
  /\ fallas < MaxFallas /\ fallas' = fallas + 1
  /\ escaneando' = FALSE
  /\ op' = [r \in Requests |-> SinOp]
  /\ UNCHANGED <<docs, solape, ops>>

----------------------------------------------------------------------------
SReposo == \A r \in Requests : op[r].paso = "libre"

(* The steps of a started handler that wait only for the database.          *)
Atender(r) ==
  \/ \E m \in Mails : Create(r, m)
  \/ FinEscaneo(r) \/ BuscarComunicaciones(r) \/ FinClasificacion(r)
  \/ \E k \in DOMAIN com : ProcessCommunication(r, k)
  \/ CrearGasto(r) \/ MarcarProcesada(r) \/ LeerGasto(r) \/ Proponer(r)
  \/ CrearAsiento(r) \/ EnlazarAsiento(r) \/ GuardarStatus(r)

SNext ==
  \/ \E r \in Requests :
       \/ \E auto \in AutoCandidatos : ScanEmails(r, auto)
       \/ FetchEmails(r)
       \/ \E S \in {DOMAIN com} \cup {{k} : k \in DOMAIN com}, extraer \in BOOLEAN :
            S # {} /\ GenerateCandidates(r, S, extraer)
       \/ \E g \in DOMAIN gasto : ProcessDetectedExpenseToEntry(r, g)
       \/ \E k \in DOMAIN com, e \in EstadosOperador : UpdateStatus(r, k, e)
       \/ Atender(r)
       \/ Falla(r)
  \/ \E g \in DOMAIN gasto : (\E e \in EstadosGasto : UpdateExpense(g, e)) \/ RemoveExpense(g)
  \/ Reinicio
  \/ SReposo /\ UNCHANGED svars

SSpec == SInit /\ [][SNext]_svars

(* A started handler goes on; the mail server may never answer.             *)
SFairSpec == SSpec /\ \A r \in Requests : WF_svars(Atender(r))

----------------------------------------------------------------------------
(* Properties.                                                              *)

(* The expense a communication is linked to is one that was created for it, *)
(* however many classifications run at once (processCommunication, whose    *)
(* creation and link are two writes).                                       *)
GastoConComunicacion ==
  \A k \in DOMAIN com : com[k].gasto # Ninguno => gasto[com[k].gasto].com = k

(* The flag that turns scans away is set exactly while one runs: a scan     *)
(* that fails does not leave the cron out for good (the finally of          *)
(* scanEmails).                                                             *)
EscaneoExclusivo ==
  /\ escaneando <=> \E r \in Requests : op[r].escaneo
  /\ \A r, s \in Requests : op[r].escaneo /\ op[s].escaneo => r = s

(* An entry's debits add up to what is owed to the provider, and rounding   *)
(* takes them from the bill by half a cent per property at most, whatever   *)
(* percentages the properties carry (processDetectedUtilityInvoices,        *)
(* processDetectedExpenseToEntry).                                          *)
AsientoContabilizado ==
  \A k \in DOMAIN asientos :
    LET a == asientos[k]
        desvio == 2 * (a.haber - a.monto)
    IN  /\ SumFunction([j \in DOMAIN a.debe |-> a.debe[j].monto]) = a.haber
        /\ -Len(a.debe) <= desvio /\ desvio <= Len(a.debe)

(* Until two requests overlap, an await fails or an operator gives a        *)
(* communication back: a mail with a Message-ID is charged once, however    *)
(* often it is scanned and classified (ServiceSyncService.create,           *)
(* generateCandidates).                                                     *)
UnGastoPorAviso ==
  ~ solape /\ fallas = 0 => \A i, j \in DOMAIN gasto :
    i # j /\ Aviso[com[gasto[i].com].mail].mid /\ ~ com[gasto[i].com].reabierta =>
      com[gasto[i].com].mail # com[gasto[j].com].mail

(* A communication stored by a scan that generates candidates is not left   *)
(* UNPROCESSED, unless an await fails on the way: no cron takes it up again.*)
Pendiente(k) == k \in DOMAIN com /\ com[k].estado = "UNPROCESSED"
TodaComunicacionSeClasifica ==
  \A k \in 1 .. MaxOps * Cardinality(Mails) : Pendiente(k) ~> (~ Pendiente(k) \/ fallas > 0)

=============================================================================
