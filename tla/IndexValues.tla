----------------------------- MODULE IndexValues -----------------------------
(***************************************************************************)
(* IndexScrapperService: the series that rents are adjusted with, fetched  *)
(* from their publishers.  ICL is fetched in windows, from the last date   *)
(* stored; the others whole.  saveNewDocuments looks for the dates that    *)
(* exist and then inserts the rest; no index of the collection is unique.  *)
(***************************************************************************)
EXTENDS Peticiones, FiniteSetsExt, SequencesExt

CONSTANTS
  Enteras,   \* formulas fetched whole: IPC, CASAPROPIA
  Ventana,   \* dates of one window of ICL
  MaxFecha   \* bound: dates that will be published

VARIABLES
  publicado,  \* dates 1 .. publicado are published
  serie,      \* [Formulas -> [1 .. MaxFecha -> Nat]]: documents stored of each date
  ajena       \* history: an insertion failed, or the series changed under an update,
              \* or someone stored a value by hand

indicesVars == <<publicado, serie, ajena>>

Formulas == Enteras \cup {"ICL"}
Fechas(f) == {d \in 1 .. MaxFecha : serie[f][d] > 0}

InitIndices ==
  /\ publicado = 0
  /\ serie = [f \in Formulas |-> [d \in 1 .. MaxFecha |-> 0]]
  /\ ajena = FALSE

----------------------------------------------------------------------------
Publicar ==
  /\ publicado < MaxFecha
  /\ publicado' = publicado + 1
  /\ ajena' = (ajena \/ EnCurso # {})
  /\ UNCHANGED <<serie, peticiones>>

(* saveIndexValue(): POST /index-value.                                     *)
SaveIndexValue(f, d) ==
  /\ Atomica
  /\ serie' = [serie EXCEPT ![f][d] = @ + 1]
  /\ ajena' = TRUE
  /\ UNCHANGED publicado

(* updateICL(): from the last date stored, or the first ever.               *)
StartDate == IF Fechas("ICL") = {} THEN 1 ELSE Max(Fechas("ICL"))

(* The next formula of triggerUpdate().                                     *)
UpdateIndexData(cola) ==
  IF cola = <<>> THEN Libre
  ELSE [paso |-> "pedir", f |-> Head(cola), cola |-> Tail(cola),
        desde |-> IF Head(cola) = "ICL" THEN StartDate ELSE 1]

(* handleCron and POST /index-value/update/all.                             *)
TriggerUpdate(r, cola) ==
  /\ Comenzar(r, UpdateIndexData(cola))
  /\ UNCHANGED indicesVars

EndDate == MaxFecha + 1
NextEndDate(desde) == IF desde + Ventana < EndDate THEN desde + Ventana ELSE EndDate
Hasta(q) == IF q.f = "ICL" THEN NextEndDate(q.desde) ELSE MaxFecha

(* Mutant: the windows do not touch.                                        *)
SiguienteConSalto(q) ==
  IF q.f = "ICL" /\ Hasta(q) + 2 < EndDate
  THEN [paso |-> "pedir", f |-> q.f, cola |-> q.cola, desde |-> Hasta(q) + 2]
  ELSE UpdateIndexData(q.cola)

(* startDate = nextEndDate.plus({ days: 1 }), while startDate < endDate.    *)
Siguiente(q) ==
  IF q.f = "ICL" /\ Hasta(q) + 1 < EndDate
  THEN [paso |-> "pedir", f |-> q.f, cola |-> q.cola, desde |-> Hasta(q) + 1]
  ELSE UpdateIndexData(q.cola)

(* The publisher answers, and saveNewDocuments filters what exists.         *)
BuscarExistentes(r) ==
  LET q == op[r]
      recibidas == {d \in q.desde .. Hasta(q) : d <= publicado}
  IN  /\ q.paso = "pedir"
      /\ Seguir(r, [paso |-> "insertar", f |-> q.f, cola |-> q.cola, desde |-> q.desde,
                    nuevas |-> recibidas \ Fechas(q.f)])
      /\ UNCHANGED indicesVars

(* The publisher does not answer, or not with a list: the formula is left   *)
(* for the next update, and triggerUpdate goes on with the others.          *)
SinRespuesta(r) ==
  /\ op[r].paso = "pedir"
  /\ Seguir(r, UpdateIndexData(op[r].cola))
  /\ UNCHANGED indicesVars

InsertMany(r) ==
  LET q == op[r]
  IN  /\ q.paso = "insertar"
      /\ serie' = [serie EXCEPT ![q.f] =
                     [d \in 1 .. MaxFecha |-> @[d] + IF d \in q.nuevas THEN 1 ELSE 0]]
      /\ Seguir(r, Siguiente(q))
      /\ UNCHANGED <<publicado, ajena>>

(* saveNewDocuments swallows the error, and updateICL goes on to the next   *)
(* window.                                                                  *)
ErrorAlInsertar(r) ==
  /\ op[r].paso = "insertar" /\ op[r].nuevas # {}
  /\ Seguir(r, Siguiente(op[r]))
  /\ ajena' = TRUE
  /\ UNCHANGED <<publicado, serie>>

MuerteIndices(r) == Morir(r) /\ UNCHANGED indicesVars

NextIndices ==
  \/ Publicar
  \/ \E f \in Formulas, d \in 1 .. MaxFecha : SaveIndexValue(f, d)
  \/ \E r \in Requests :
       \/ \E f \in Enteras : TriggerUpdate(r, <<f, "ICL">>)
       \/ BuscarExistentes(r) \/ SinRespuesta(r) \/ InsertMany(r) \/ ErrorAlInsertar(r)
       \/ MuerteIndices(r)

----------------------------------------------------------------------------
(* IndexValueService: which of the stored dates a request gets the value    *)
(* of, as a set (empty when it gets null, or an error).  A date of IPC is a *)
(* month: setMonth(getMonth() - 1) goes back one, or, on the last days of a *)
(* month longer than the one before (desborda), stays in the same.          *)

UltimaHasta(f, d) == LET anteriores == {e \in Fechas(f) : e <= d}
                     IN  IF anteriores = {} THEN {} ELSE {Max(anteriores)}
GetLatestIndexValue(f) == UltimaHasta(f, MaxFecha)
GetLatestICLValueBeforeDate(d) == UltimaHasta("ICL", d)
GetICLValueByDate(d) == Fechas("ICL") \cap {d}
GetIPCValueByDate(d, desborda) == UltimaHasta("IPC", IF desborda THEN d ELSE d - 1)
GetLatestIPCDate == UltimaHasta("IPC", MaxFecha)

(* The latest documents, one after another.                                 *)
GetIndexHistory(f, limite) ==
  LET repetidas == [i \in 1 .. MaxFecha |-> [k \in 1 .. serie[f][MaxFecha + 1 - i] |-> MaxFecha + 1 - i]]
      todas == FlattenSeq(repetidas)
  IN  SubSeq(todas, 1, Min({limite, Len(todas)}))

----------------------------------------------------------------------------
(* Properties.                                                              *)

(* updateICL never comes back for a date before the last one it stored:     *)
(* unless an insertion fails, or a date is published or stored by hand in   *)
(* between, no series has a gap, whatever updates overlap, are not answered *)
(* or die; so the value that a rent is adjusted with is that of the day, or *)
(* of the month before, and the same when it is asked for again later.      *)
(* Until two updates overlap every date is stored once, and the history     *)
(* tells each once.                                                         *)
SinHuecos == \A f \in Formulas : \A d \in Fechas(f) : 1 .. d \subseteq Fechas(f)
ValorDefinitivo ==
  \A d \in 1 .. MaxFecha :
    /\ (\E e \in GetLatestIndexValue("ICL") : d <= e) =>
         GetLatestICLValueBeforeDate(d) = {d} /\ GetICLValueByDate(d) = {d}
    /\ d > 1 /\ (\E e \in GetLatestIPCDate : d <= e) => GetIPCValueByDate(d, FALSE) = {d - 1}
UnaVezCadaFecha ==
  \A f \in Formulas :
    /\ \A d \in Fechas(f) : serie[f][d] = 1
    /\ \A n \in 1 .. MaxFecha : LET h == GetIndexHistory(f, n)
                               IN  \A i \in 2 .. Len(h) : h[i] < h[i - 1]
SerieSinHuecos == ~ ajena => SinHuecos /\ ValorDefinitivo /\ (~ solape => UnaVezCadaFecha)
=============================================================================
