---------------------------- MODULE RedLinkScan ----------------------------
(***************************************************************************)
(* RedlinkScanService.scanEmails: the notices of the bank, one mail each,  *)
(* become bank movements.  The scan of each day searches the last days of  *)
(* the mailbox; every mail is parsed by a callback that pushes it on the   *)
(* array that the scan, once the fetch has ended, walks while it grows.    *)
(***************************************************************************)
EXTENDS Peticiones, Sequences

CONSTANTS
  Avisos,      \* notices that will arrive
  Ilegibles,   \* those that parseEmail gives null for
  Repite,      \* [Avisos -> Avisos]: the notice that has the same identificador_unico
  CheckPeriodDays,     \* config.check_period_days
  MaxDia       \* bound: days of a behaviour

VARIABLES
  llegado,     \* [Avisos -> day of arrival, or -1]
  dia,
  isScanning,
  emails,      \* the live array of the scan in progress
  parseando,   \* callbacks of its fetch in progress
  movimientos, \* [Avisos -> Nat]: BankMovements stored of each identifier
  buscados,    \* history: notices that a scan that completed had found
  perdidos     \* history: notices whose callback came late or failed, or whose insertion failed

redlinkVars == <<llegado, dia, isScanning, emails, parseando, movimientos, buscados, perdidos>>
banco == <<llegado, dia>>
fetch == <<emails, parseando>>
guardado == <<movimientos, buscados, perdidos>>

InitRedlink ==
  /\ llegado = [m \in Avisos |-> -1] /\ dia = 0
  /\ isScanning = FALSE /\ emails = <<>> /\ parseando = {}
  /\ movimientos = [m \in Avisos |-> 0] /\ buscados = {} /\ perdidos = {}

Llega(m) ==
  /\ llegado[m] = -1
  /\ llegado' = [llegado EXCEPT ![m] = dia]
  /\ UNCHANGED <<dia, isScanning, fetch, guardado, peticiones>>

PasaUnDia ==
  /\ dia < MaxDia
  /\ dia' = dia + 1
  /\ UNCHANGED <<llegado, isScanning, fetch, guardado, peticiones>>

----------------------------------------------------------------------------
(* Mutant: the flag is not looked at.                                       *)
ScanEmailsSinMirar(r) ==
  /\ Comenzar(r, [paso |-> "conectar", hallados |-> {}, i |-> 1])
  /\ isScanning' = TRUE
  /\ UNCHANGED <<banco, fetch, guardado>>

(* The cron of 8 AM, and POST by hand: at once nothing if a scan is on.     *)
ScanEmails(r) ==
  /\ ~ isScanning
  /\ Comenzar(r, [paso |-> "conectar", hallados |-> {}, i |-> 1])
  /\ isScanning' = TRUE
  /\ UNCHANGED <<banco, fetch, guardado>>

(* openBox and search, once connected: SINCE the day that opens the period. *)
Buscar(r) ==
  LET hallados == {m \in Avisos : llegado[m] # -1 /\ llegado[m] >= dia - CheckPeriodDays}
  IN  /\ op[r].paso = "conectar"
      /\ Seguir(r, [paso |-> IF hallados = {} THEN "procesar" ELSE "leyendo",
                    hallados |-> hallados, i |-> 1])
      /\ parseando' = hallados /\ emails' = <<>>
      /\ UNCHANGED <<banco, isScanning, guardado>>

(* simpleParser calls back, with the mail or with an error.                 *)
Parsear(m) ==
  /\ m \in parseando
  /\ parseando' = parseando \ {m}
  /\ \/ emails' = Append(emails, m) /\ UNCHANGED guardado
     \/ emails' = emails /\ perdidos' = perdidos \cup {m} /\ UNCHANGED <<movimientos, buscados>>
  /\ UNCHANGED <<banco, isScanning, peticiones>>

FinDelFetch(r) ==
  /\ op[r].paso = "leyendo"
  /\ Seguir(r, [op[r] EXCEPT !.paso = "procesar"])
  /\ UNCHANGED redlinkVars

(* parseEmail, and the findOne of BankingSyncService.create.                *)
Procesar(r) ==
  LET q == op[r]
      nuevo == emails[q.i] \notin Ilegibles /\ movimientos[Repite[emails[q.i]]] = 0
  IN  /\ q.paso = "procesar" /\ q.i <= Len(emails)
      /\ Seguir(r, IF nuevo THEN [q EXCEPT !.paso = "insertar"] ELSE [q EXCEPT !.i = @ + 1])
      /\ UNCHANGED redlinkVars

(* save(), under the unique index, or an error that is counted.             *)
Insertar(r) ==
  LET q == op[r]
      m == emails[q.i]
  IN  /\ q.paso = "insertar"
      /\ Seguir(r, [q EXCEPT !.paso = "procesar", !.i = @ + 1])
      /\ \/ /\ movimientos[Repite[m]] = 0
            /\ movimientos' = [movimientos EXCEPT ![Repite[m]] = 1]
            /\ UNCHANGED perdidos
         \/ perdidos' = perdidos \cup {m} /\ UNCHANGED movimientos
      /\ UNCHANGED <<banco, isScanning, fetch, buscados>>

Soltar ==
  /\ isScanning' = FALSE
  /\ emails' = <<>> /\ parseando' = {}

(* The loop has reached the end of the array; what is still being parsed    *)
(* will be pushed on it for nobody.                                         *)
Completar(r) ==
  /\ op[r].paso = "procesar" /\ op[r].i > Len(emails)
  /\ Terminar(r)
  /\ Soltar
  /\ buscados' = buscados \cup op[r].hallados
  /\ perdidos' = perdidos \cup parseando
  /\ UNCHANGED <<banco, movimientos>>

(* The configuration, the connection, the box, the search or the fetch      *)
(* fails: finally.                                                          *)
Fallar(r) ==
  /\ op[r].paso \in {"conectar", "leyendo"}
  /\ Morir(r)
  /\ Soltar
  /\ UNCHANGED <<banco, guardado>>

(* The connection breaks once it was ready: its promise is settled, and     *)
(* that of the fetch may never be.                                          *)
Colgarse(r) ==
  /\ op[r].paso = "leyendo"
  /\ Seguir(r, [op[r] EXCEPT !.paso = "colgado"])
  /\ UNCHANGED redlinkVars

Reinicio ==
  /\ muertes < MaxMuertes /\ muertes' = muertes + 1
  /\ op' = [r \in Requests |-> Libre]
  /\ Soltar
  /\ UNCHANGED <<banco, guardado, ops, solape>>

NextRedlink ==
  \/ \E m \in Avisos : Llega(m) \/ Parsear(m)
  \/ PasaUnDia \/ Reinicio
  \/ \E r \in Requests : \/ ScanEmails(r) \/ Buscar(r) \/ FinDelFetch(r) \/ Procesar(r)
                         \/ Insertar(r) \/ Completar(r) \/ Fallar(r) \/ Colgarse(r)

----------------------------------------------------------------------------
(* Properties.                                                              *)

(* The flag is up exactly while a scan is on (or hung), and one at most is, *)
(* across failures and restarts; and a readable notice that a complete scan *)
(* found has its movement, and one only, unless its callback was late or    *)
(* failed or its insertion did, although the array was walked growing.      *)
AvisosRegistrados ==
  /\ Cardinality(EnCurso) <= 1 /\ (isScanning <=> EnCurso # {})
  /\ \A m \in buscados \ (Ilegibles \cup perdidos) : movimientos[Repite[m]] = 1
=============================================================================
