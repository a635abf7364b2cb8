------------------------ MODULE ServicePipelineProofs ------------------------
(***************************************************************************)
(* Proofs about ServicePipeline, for every set of mails, services and      *)
(* requests and every number of failures: what a communication is linked   *)
(* to, when a scan is turned away, how often a mail is charged, and what   *)
(* the entry of a bill adds up to.                                         *)
(***************************************************************************)
EXTENDS ServicePipeline, SequenceTheorems, Sumas, TLAPS

Pasos == {"libre", "descargar", "mails", "buscar", "clasificar", "crear", "marcar", "leer",
          "proponer", "asentar", "enlazar", "estado"}

(* The records have their fields; of their values only those that the       *)
(* properties rest on are typed.                                            *)
EsSecuencia(s) == s \in Seq({s[i] : i \in DOMAIN s})

CamposCom == {"mail", "sid", "estado", "gasto", "reabierta"}
CamposGasto == {"com", "sid", "monto", "estado", "propuesta", "asiento"}
CamposOp == {"paso", "escaneo", "auto", "extraer", "mails", "coms", "sids", "c", "g", "a",
             "propuesta", "leido", "nuevo"}

FormaCom(x) == x = [f \in CamposCom |-> x[f]]
FormaGasto(x) == x = [f \in CamposGasto |-> x[f]]
FormaOp(q) == q = [f \in CamposOp |-> q[f]]

----------------------------------------------------------------------------
(* The inductive invariant.                                                 *)

(* A Message-ID is stored once.                                             *)
UnicaPorMail ==
  \A k, l \in DOMAIN com : k # l /\ com[k].mail = com[l].mail => ~ Aviso[com[k].mail].mid

Documentos ==
  /\ EsSecuencia(com) /\ EsSecuencia(gasto)
  /\ \A k \in DOMAIN com : FormaCom(com[k]) /\ com[k].gasto \in DOMAIN gasto \cup {Ninguno}
  /\ \A g \in DOMAIN gasto : FormaGasto(gasto[g]) /\ gasto[g].com \in DOMAIN com
  /\ UnicaPorMail
  /\ GastoConComunicacion

(* What a request in progress has in hand exists, and only the scan and     *)
(* what it calls run under the flag.                                        *)
EnCurso(q) ==
  /\ FormaOp(q) /\ q.paso \in Pasos /\ q.escaneo \in BOOLEAN /\ q.coms \subseteq DOMAIN com
  /\ q.paso \in {"descargar", "mails"} => q.escaneo
  /\ q.paso \in {"libre", "asentar", "enlazar", "estado"} => ~ q.escaneo
  /\ q.paso \in {"crear", "marcar", "estado"} => q.c \in DOMAIN com
  /\ q.paso \in {"marcar", "leer", "proponer", "asentar", "enlazar"} => q.g \in DOMAIN gasto
  /\ q.paso = "marcar" => gasto[q.g].com = q.c

Peticiones == op = [r \in Requests |-> op[r]] /\ \A r \in Requests : EnCurso(op[r])

(* A communication that may still be classified: given back by an operator, *)
(* or no expense was created for it.                                        *)
Nueva(k) == com[k].reabierta \/ \A g \in DOMAIN gasto : gasto[g].com # k

PorClasificar(q) ==
  /\ q.paso \in {"clasificar"} \cup EnClasificacion => \A k \in q.coms : Nueva(k)
  /\ q.paso = "crear" => Nueva(q.c) /\ q.c \notin q.coms

(* While requests come one at a time and nothing fails: one expense for     *)
(* each communication, and one that is UNPROCESSED has none, but for the    *)
(* step between creating it and marking the communication.                  *)
UnaPorUna ==
  /\ \A r, s \in Requests : op[r].paso # "libre" /\ op[s].paso # "libre" => r = s
  /\ \A i, j \in DOMAIN gasto :
       i # j /\ gasto[i].com = gasto[j].com => com[gasto[i].com].reabierta
  /\ \A r \in Requests : PorClasificar(op[r])
  /\ \A k \in DOMAIN com :
       com[k].estado = "UNPROCESSED" =>
         Nueva(k) \/ \E r \in Requests : op[r].paso = "marcar" /\ op[r].c = k

PInv ==
  /\ escaneando \in BOOLEAN /\ solape \in BOOLEAN /\ ops \in Nat /\ fallas \in Nat
  /\ Documentos
  /\ Peticiones
  /\ EscaneoExclusivo
  /\ ~ solape /\ fallas = 0 => UnaPorUna

----------------------------------------------------------------------------
(* Sequences of documents.                                                  *)

LEMMA SecuenciaDominio ==
  ASSUME NEW s, EsSecuencia(s)
  PROVE  Len(s) \in Nat /\ DOMAIN s = 1 .. Len(s)
  BY DEF EsSecuencia

LEMMA Agregada ==
  ASSUME NEW s, EsSecuencia(s), NEW e
  PROVE  /\ EsSecuencia(Append(s, e))
         /\ DOMAIN Append(s, e) = DOMAIN s \cup {Len(s) + 1}
         /\ Len(s) + 1 \notin DOMAIN s /\ Len(s) + 1 # 0
         /\ \A i \in DOMAIN s : Append(s, e)[i] = s[i]
         /\ Append(s, e)[Len(s) + 1] = e
<1> DEFINE S == {s[i] : i \in DOMAIN s} \cup {e}
           t == Append(s, e)
<1>1. s \in Seq({s[i] : i \in DOMAIN s}) /\ s \in Seq(S) /\ e \in S
  BY DEF EsSecuencia
<1> HIDE DEF S
<1>2. /\ t \in Seq(S) /\ Len(t) = Len(s) + 1 /\ t[Len(s) + 1] = e
      /\ \A i \in 1 .. Len(s) : t[i] = s[i]
  BY <1>1, AppendProperties
<1>3. Len(s) \in Nat /\ DOMAIN s = 1 .. Len(s) /\ DOMAIN t = 1 .. Len(t)
  BY <1>1, <1>2
<1> HIDE DEF t
<1>4. EsSecuencia(t)
  <2>1. t = [i \in 1 .. Len(t) |-> t[i]] /\ Len(t) \in Nat
    BY <1>2
  <2>2. \A i \in 1 .. Len(t) : t[i] \in {t[j] : j \in DOMAIN t}
    BY <1>3
  <2> QED
    BY <2>1, <2>2 DEF EsSecuencia
<1>5. QED
  BY <1>2, <1>3, <1>4 DEF t

LEMMA Cambiada ==
  ASSUME NEW s, EsSecuencia(s), NEW g \in DOMAIN s, NEW e
  PROVE  /\ EsSecuencia([s EXCEPT ![g] = e])
         /\ DOMAIN [s EXCEPT ![g] = e] = DOMAIN s
         /\ \A i \in DOMAIN s : [s EXCEPT ![g] = e][i] = IF i = g THEN e ELSE s[i]
<1> DEFINE t == [s EXCEPT ![g] = e]
<1>1. Len(s) \in Nat /\ DOMAIN s = 1 .. Len(s) /\ s = [i \in 1 .. Len(s) |-> s[i]]
  BY DEF EsSecuencia
<1>2. t = [i \in 1 .. Len(s) |-> t[i]] /\ DOMAIN t = 1 .. Len(s)
  BY <1>1
<1> HIDE DEF t
<1>3. \A i \in 1 .. Len(s) : t[i] \in {t[j] : j \in DOMAIN t}
  BY <1>2
<1>4. EsSecuencia(t)
  BY <1>1, <1>2, <1>3 DEF EsSecuencia
<1>5. QED
  BY <1>1, <1>4 DEF t

----------------------------------------------------------------------------
(* The steps of one request.                                                *)

(* Documents change in what the links and the marks do not look at, or a    *)
(* mark leaves UNPROCESSED, or a communication is given back.               *)
MismosGastos == /\ DOMAIN gasto' = DOMAIN gasto
                /\ \A g \in DOMAIN gasto : gasto'[g].com = gasto[g].com

MismasComunicaciones ==
  /\ DOMAIN com' = DOMAIN com
  /\ \A k \in DOMAIN com :
       /\ com'[k].mail = com[k].mail
       /\ com[k].reabierta => com'[k].reabierta
       /\ com'[k].estado = "UNPROCESSED" => com[k].estado = "UNPROCESSED" \/ com'[k].reabierta

(* Where r goes, if requests come one at a time and nothing fails.          *)
Ordenado(r, q) ==
  ~ solape' /\ fallas' = 0 =>
    /\ ~ solape /\ fallas = 0
    /\ op[r].paso # "libre" \/ \A s \in Requests : op[s].paso = "libre"
    /\ PorClasificar(q)
    /\ op[r].paso = "marcar" => com'[op[r].c].estado # "UNPROCESSED"

LEMMA PasoDePeticion ==
  ASSUME PInv, NEW r \in Requests, NEW q, op' = [op EXCEPT ![r] = q], EnCurso(q),
         Documentos', MismosGastos, MismasComunicaciones,
         EscaneoExclusivo', escaneando' \in BOOLEAN,
         solape' \in BOOLEAN, ops' \in Nat, fallas' \in Nat, Ordenado(r, q)
  PROVE  PInv'
<1>1. Peticiones /\ Documentos
  BY DEF PInv
<1>2. /\ op' = [s \in Requests |-> op'[s]] /\ op'[r] = q
      /\ \A s \in Requests : s # r => op'[s] = op[s]
  BY <1>1 DEF Peticiones
<1>3. Peticiones'
  <2>1. \A s \in Requests : EnCurso(op'[s])
    BY <1>1, <1>2 DEF Peticiones
  <2>2. \A s \in Requests : EnCurso(op[s])'
    BY <2>1 DEF EnCurso, MismosGastos, MismasComunicaciones
  <2>3. QED
    BY <1>2, <2>2 DEF Peticiones
<1>4. ASSUME ~ solape', fallas' = 0
      PROVE  UnaPorUna'
  <2>1. /\ UnaPorUna /\ PorClasificar(q)
        /\ op[r].paso # "libre" \/ \A s \in Requests : op[s].paso = "libre"
        /\ op[r].paso = "marcar" => com'[op[r].c].estado # "UNPROCESSED"
    BY <1>4 DEF Ordenado, PInv
  <2>2. \A k \in DOMAIN com : Nueva(k) => Nueva(k)'
    BY DEF Nueva, MismosGastos, MismasComunicaciones
  <2>3. (\A s, t \in Requests : op[s].paso # "libre" /\ op[t].paso # "libre" => s = t)'
    BY <1>2, <2>1 DEF UnaPorUna
  <2>4. (\A i, j \in DOMAIN gasto :
           i # j /\ gasto[i].com = gasto[j].com => com[gasto[i].com].reabierta)'
    BY <1>1, <2>1 DEF UnaPorUna, Documentos, MismosGastos, MismasComunicaciones
  <2>5. \A s \in Requests : PorClasificar(op'[s]) /\ EnCurso(op'[s])
    BY <1>1, <1>2, <2>1 DEF UnaPorUna, Peticiones
  <2>6. (\A s \in Requests : PorClasificar(op[s]))'
    <3> TAKE s \in Requests
    <3>1. PorClasificar(op'[s]) /\ EnCurso(op'[s])
      BY <2>5
    <3>2. op'[s].coms \subseteq DOMAIN com /\ (op'[s].paso = "crear" => op'[s].c \in DOMAIN com)
      BY <3>1 DEF EnCurso
    <3> QED
      BY <3>1, <3>2, <2>2 DEF PorClasificar
  <2>7. (\A k \in DOMAIN com : com[k].estado = "UNPROCESSED" =>
           Nueva(k) \/ \E s \in Requests : op[s].paso = "marcar" /\ op[s].c = k)'
    <3> SUFFICES ASSUME NEW k \in DOMAIN com', com'[k].estado = "UNPROCESSED"
                 PROVE  Nueva(k)' \/ \E s \in Requests : op'[s].paso = "marcar" /\ op'[s].c = k
      OBVIOUS
    <3>1. k \in DOMAIN com
      BY DEF MismasComunicaciones
    <3>2. CASE com'[k].reabierta
      BY <3>2 DEF Nueva
    <3>3. CASE Nueva(k)
      BY <3>1, <3>3, <2>2
    <3>4. ASSUME NEW s \in Requests, op[s].paso = "marcar", op[s].c = k
          PROVE  op'[s].paso = "marcar" /\ op'[s].c = k
      BY <3>4, <1>2, <2>1
    <3>5. CASE com[k].estado = "UNPROCESSED"
      BY <3>1, <3>3, <3>4, <3>5, <2>1 DEF UnaPorUna
    <3> QED
      BY <3>1, <3>2, <3>5 DEF MismasComunicaciones
  <2> QED
    BY <2>3, <2>4, <2>6, <2>7 DEF UnaPorUna
<1>5. QED
  BY <1>3, <1>4 DEF PInv

(* The flag and the scan that runs under it stay as they are.               *)
LEMMA EscaneoIgual ==
  ASSUME PInv, NEW r \in Requests, NEW q, op' = [op EXCEPT ![r] = q],
         q.escaneo = op[r].escaneo, escaneando' = escaneando
  PROVE  EscaneoExclusivo' /\ escaneando' \in BOOLEAN
<1>1. op = [s \in Requests |-> op[s]]
  BY DEF PInv, Peticiones
<1>2. \A s \in Requests : op'[s].escaneo = op[s].escaneo
  BY <1>1
<1>3. QED
  BY <1>2 DEF PInv, EscaneoExclusivo

(* No document changes.                                                     *)
LEMMA SinEscrituras ==
  ASSUME PInv, UNCHANGED <<com, gasto>>
  PROVE  Documentos' /\ MismosGastos /\ MismasComunicaciones
BY DEF PInv, Documentos, UnicaPorMail, GastoConComunicacion, MismosGastos, MismasComunicaciones

(* A request that starts.                                                   *)
LEMMA PedirOrdenado ==
  ASSUME PInv, NEW r \in Requests, NEW q, Pedir(r), fallas' = fallas, UNCHANGED <<com, gasto>>,
         PorClasificar(q)
  PROVE  /\ solape' \in BOOLEAN /\ ops' \in Nat /\ fallas' \in Nat
         /\ Ordenado(r, q)
         /\ ~ op[r].escaneo /\ op[r].paso = "libre"
<1>1. ops' \in Nat /\ fallas' \in Nat /\ op[r].paso = "libre"
  BY PipelineBoundsAssumption DEF PInv, Pedir
<1>2. solape' <=> solape \/ \E s \in Requests : op[s].paso # "libre"
  BY DEF Pedir
<1>3. solape' \in BOOLEAN
  BY DEF Pedir
<1>4. Ordenado(r, q)
  BY <1>2 DEF Ordenado, PInv, Pedir
<1>5. ~ op[r].escaneo
  BY <1>1 DEF PInv, Peticiones, EnCurso
<1>6. QED
  BY <1>1, <1>3, <1>4, <1>5

(* A request that goes on without writing a communication.                  *)
LEMMA SigueOrdenado ==
  ASSUME PInv, NEW r \in Requests, NEW q, UNCHANGED <<solape, ops, fallas>>,
         op[r].paso \notin {"libre", "marcar"},
         ~ solape /\ fallas = 0 /\ UnaPorUna => PorClasificar(q)
  PROVE  /\ solape' \in BOOLEAN /\ ops' \in Nat /\ fallas' \in Nat
         /\ Ordenado(r, q)
BY DEF PInv, Ordenado

----------------------------------------------------------------------------
(* The scan.                                                                *)

LEMMA SinOpVale ==
  /\ EnCurso(SinOp) /\ PorClasificar(SinOp)
  /\ ~ SinOp.escaneo /\ SinOp.paso = "libre"
BY DEF SinOp, EnCurso, FormaOp, CamposOp, Pasos, PorClasificar, EnClasificacion, Ninguno

LEMMA ScanEmailsPInv ==
  ASSUME PInv, NEW r \in Requests, NEW auto \in AutoCandidatos, ScanEmails(r, auto)
  PROVE  PInv'
<1> DEFINE q == [SinOp EXCEPT !.paso = "descargar", !.escaneo = TRUE, !.auto = auto]
<1>1. EnCurso(q) /\ PorClasificar(q) /\ q.escaneo
  <2>1. FormaOp(q) /\ q.paso = "descargar" /\ q.escaneo = TRUE /\ q.coms = {}
    BY DEF SinOp, FormaOp, CamposOp
  <2> HIDE DEF q
  <2> QED
    BY <2>1 DEF EnCurso, Pasos, PorClasificar, EnClasificacion
<1> HIDE DEF q
<1>2. op' = [op EXCEPT ![r] = q] /\ Pedir(r) /\ fallas' = fallas /\ UNCHANGED <<com, gasto>>
      /\ ~ escaneando /\ escaneando' = TRUE
  BY DEF ScanEmails, q, docs
<1>3. EscaneoExclusivo'
  <2>1. \A s \in Requests : ~ op[s].escaneo
    BY <1>2 DEF PInv, EscaneoExclusivo
  <2>2. \A s \in Requests : op'[s] = IF s = r THEN q ELSE op[s]
    BY <1>2 DEF PInv, Peticiones
  <2> QED
    BY <1>1, <1>2, <2>1, <2>2 DEF EscaneoExclusivo
<1>4. QED
  BY <1>1, <1>2, <1>3, SinEscrituras, PedirOrdenado, PasoDePeticion

(* A step of a request in progress that writes no document.                 *)
LEMMA PasoInterno ==
  ASSUME PInv, NEW r \in Requests, NEW q, op' = [op EXCEPT ![r] = q], EnCurso(q),
         q.escaneo = op[r].escaneo, UNCHANGED <<com, gasto, escaneando, solape, ops, fallas>>,
         op[r].paso \notin {"libre", "marcar"},
         ~ solape /\ fallas = 0 /\ UnaPorUna => PorClasificar(q)
  PROVE  PInv'
BY SinEscrituras, SigueOrdenado, EscaneoIgual, PasoDePeticion

LEMMA EnCursoDe ==
  ASSUME PInv, NEW r \in Requests
  PROVE  EnCurso(op[r]) /\ (~ solape /\ fallas = 0 => PorClasificar(op[r]))
BY DEF PInv, Peticiones, UnaPorUna

LEMMA FetchEmailsPInv ==
  ASSUME PInv, NEW r \in Requests, FetchEmails(r)
  PROVE  PInv'
<1>1. PICK S \in SUBSET Mails : op' = [op EXCEPT ![r].paso = "mails", ![r].mails = S]
  BY DEF FetchEmails
<1> DEFINE q == [op[r] EXCEPT !.paso = "mails", !.mails = S]
<1>2. EnCurso(q) /\ PorClasificar(q) /\ q.escaneo = op[r].escaneo
  <2>1. EnCurso(op[r]) /\ op[r].paso = "descargar"
    BY EnCursoDe DEF FetchEmails
  <2>2. FormaOp(op[r])
    BY <2>1 DEF EnCurso
  <2>3. FormaOp(q) /\ q.paso = "mails" /\ q.escaneo = op[r].escaneo /\ q.coms = op[r].coms
    BY <2>2 DEF FormaOp, CamposOp
  <2> HIDE DEF q
  <2> QED
    BY <2>1, <2>3 DEF EnCurso, Pasos, PorClasificar, EnClasificacion
<1>3. op' = [op EXCEPT ![r] = q]
  BY <1>1 DEF PInv, Peticiones
<1> HIDE DEF q
<1>4. QED
  BY <1>2, <1>3, PasoInterno DEF FetchEmails, docs

LEMMA FinEscaneoPInv ==
  ASSUME PInv, NEW r \in Requests, FinEscaneo(r)
  PROVE  PInv'
<1>1. /\ op[r].paso = "mails" /\ op' = [op EXCEPT ![r] = SinOp] /\ escaneando' = FALSE
      /\ UNCHANGED <<com, gasto, solape, ops, fallas>>
  BY DEF FinEscaneo, docs
<1>2. EscaneoExclusivo'
  <2>1. op[r].escaneo
    BY <1>1, EnCursoDe DEF EnCurso
  <2>2. \A s \in Requests : op'[s] = IF s = r THEN SinOp ELSE op[s]
    BY <1>1 DEF PInv, Peticiones
  <2> QED
    BY <1>1, <2>1, <2>2, SinOpVale DEF PInv, EscaneoExclusivo
<1>3. QED
  BY <1>1, <1>2, SinOpVale, SinEscrituras, SigueOrdenado, PasoDePeticion

(* A mail that is stored already is skipped; of a new one there is no       *)
(* expense yet.                                                             *)
LEMMA CreateDuplicadaPInv ==
  ASSUME PInv, NEW r \in Requests, NEW m \in Mails, Create(r, m), Duplicada(m)
  PROVE  PInv'
<1> DEFINE q == [op[r] EXCEPT !.mails = @ \ {m}]
<1>1. /\ EnCurso(q) /\ q.escaneo = op[r].escaneo
      /\ ~ solape /\ fallas = 0 => PorClasificar(q)
  <2>1. EnCurso(op[r])
    BY EnCursoDe
  <2>2. FormaOp(op[r])
    BY <2>1 DEF EnCurso
  <2>3. /\ FormaOp(q) /\ q.paso = op[r].paso /\ q.escaneo = op[r].escaneo /\ q.coms = op[r].coms
        /\ q.c = op[r].c /\ q.g = op[r].g
    BY <2>2 DEF FormaOp, CamposOp
  <2> HIDE DEF q
  <2>4. EnCurso(q)
    BY <2>1, <2>3 DEF EnCurso
  <2>5. PorClasificar(op[r]) => PorClasificar(q)
    BY <2>3 DEF PorClasificar
  <2> QED
    BY <2>3, <2>4, <2>5, EnCursoDe
<1>2. op' = [op EXCEPT ![r] = q] /\ op[r].paso = "mails"
      /\ UNCHANGED <<com, gasto, escaneando, solape, ops, fallas>>
  BY DEF PInv, Peticiones, Create
<1> HIDE DEF q
<1>3. QED
  BY <1>1, <1>2, PasoInterno

LEMMA CreateNuevaPInv ==
  ASSUME PInv, NEW r \in Requests, NEW m \in Mails, Create(r, m), ~ Duplicada(m)
  PROVE  PInv'
<1> DEFINE n == Len(com) + 1
           e == Comunicacion(m)
           q == [op[r] EXCEPT !.mails = @ \ {m}, !.paso = IF op[r].auto THEN "buscar" ELSE "mails",
                              !.coms = IF op[r].auto THEN {n} ELSE {}]
<1>1. /\ com' = Append(com, e) /\ op' = [op EXCEPT ![r] = q] /\ op[r].paso = "mails"
      /\ UNCHANGED <<gasto, escaneando, solape, ops, fallas>>
  BY DEF PInv, Peticiones, Create
<1>2. FormaCom(e) /\ e.mail = m /\ e.gasto = Ninguno
  BY DEF Comunicacion, FormaCom, CamposCom
<1>3. /\ FormaOp(q) /\ q.paso \in {"buscar", "mails"} /\ q.escaneo = op[r].escaneo
      /\ q.coms \in SUBSET {n}
  <2>1. FormaOp(op[r])
    BY EnCursoDe DEF EnCurso
  <2> QED
    BY <2>1 DEF FormaOp, CamposOp
<1> HIDE DEF e, q
<1>4. Documentos /\ EsSecuencia(com)
  BY DEF PInv, Documentos
<1>5. /\ EsSecuencia(com') /\ DOMAIN com' = DOMAIN com \cup {n} /\ n \notin DOMAIN com
      /\ (\A k \in DOMAIN com : com'[k] = com[k]) /\ com'[n] = e
  BY <1>1, <1>4, Agregada
<1> HIDE DEF n
<1>6. Documentos'
  <2>1. EsSecuencia(gasto)' /\ EsSecuencia(com)'
    BY <1>1, <1>4, <1>5 DEF Documentos
  <2>2. (\A k \in DOMAIN com : FormaCom(com[k]) /\ com[k].gasto \in DOMAIN gasto \cup {Ninguno})'
    BY <1>1, <1>2, <1>4, <1>5 DEF Documentos
  <2>3. (\A g \in DOMAIN gasto : FormaGasto(gasto[g]) /\ gasto[g].com \in DOMAIN com)'
    BY <1>1, <1>4, <1>5 DEF Documentos
  <2>4. UnicaPorMail'
    BY <1>2, <1>4, <1>5 DEF Documentos, UnicaPorMail, Duplicada
  <2>5. GastoConComunicacion'
    BY <1>1, <1>2, <1>4, <1>5 DEF Documentos, GastoConComunicacion
  <2> QED
    BY <2>1, <2>2, <2>3, <2>4, <2>5 DEF Documentos
<1>7. \A s \in Requests : op'[s] = IF s = r THEN q ELSE op[s]
  BY <1>1 DEF PInv, Peticiones
<1>8. Peticiones'
  <2>1. op' = [s \in Requests |-> op'[s]]
    BY <1>1 DEF PInv, Peticiones
  <2>2. \A s \in Requests : s # r => EnCurso(op[s])'
    BY <1>1, <1>5, <1>7 DEF PInv, Peticiones, EnCurso
  <2>3. EnCurso(op[r])'
    BY <1>1, <1>3, <1>5, <1>7, EnCursoDe DEF EnCurso, Pasos
  <2> QED
    BY <2>1, <2>2, <2>3 DEF Peticiones
<1>9. EscaneoExclusivo' /\ escaneando' \in BOOLEAN
  BY <1>1, <1>3, EscaneoIgual
<1>10. ASSUME ~ solape', fallas' = 0
       PROVE  UnaPorUna'
  <2>1. UnaPorUna
    BY <1>1, <1>10 DEF PInv
  <2>2. \A g \in DOMAIN gasto : gasto[g].com # n
    BY <1>4, <1>5 DEF Documentos
  <2>a. \A k \in DOMAIN com : Nueva(k) => Nueva(k)'
    BY <1>1, <1>5 DEF Nueva
  <2>3. (\A s, t \in Requests : op[s].paso # "libre" /\ op[t].paso # "libre" => s = t)'
    BY <1>1, <1>7, <2>1 DEF UnaPorUna
  <2>4. (\A i, j \in DOMAIN gasto :
           i # j /\ gasto[i].com = gasto[j].com => com[gasto[i].com].reabierta)'
    BY <1>1, <1>4, <1>5, <2>1 DEF UnaPorUna, Documentos
  <2>5. (\A s \in Requests : PorClasificar(op[s]))'
    <3> TAKE s \in Requests
    <3>1. CASE s = r
      BY <1>3, <1>7, <3>1 DEF PorClasificar, EnClasificacion
    <3>2. CASE s # r
      <4>1. op'[s] = op[s] /\ PorClasificar(op[s]) /\ EnCurso(op[s])
        BY <1>7, <2>1, <3>2, EnCursoDe DEF UnaPorUna
      <4>2. op[s].coms \subseteq DOMAIN com /\ (op[s].paso = "crear" => op[s].c \in DOMAIN com)
        BY <4>1 DEF EnCurso
      <4> QED
        BY <4>1, <4>2, <2>a DEF PorClasificar
    <3> QED
      BY <3>1, <3>2
  <2>6. (\A k \in DOMAIN com : com[k].estado = "UNPROCESSED" =>
           Nueva(k) \/ \E s \in Requests : op[s].paso = "marcar" /\ op[s].c = k)'
    <3> SUFFICES ASSUME NEW k \in DOMAIN com', com'[k].estado = "UNPROCESSED"
                 PROVE  Nueva(k)' \/ \E s \in Requests : op'[s].paso = "marcar" /\ op'[s].c = k
      OBVIOUS
    <3>1. CASE k = n
      BY <1>1, <2>2, <3>1 DEF Nueva
    <3>2. CASE k \in DOMAIN com
      BY <1>1, <1>5, <1>7, <2>1, <2>a, <3>2 DEF UnaPorUna
    <3> QED
      BY <1>5, <3>1, <3>2
  <2> QED
    BY <2>3, <2>4, <2>5, <2>6 DEF UnaPorUna
<1>11. QED
  BY <1>1, <1>6, <1>8, <1>9, <1>10 DEF PInv

LEMMA CreatePInv ==
  ASSUME PInv, NEW r \in Requests, NEW m \in Mails, Create(r, m)
  PROVE  PInv'
BY CreateDuplicadaPInv, CreateNuevaPInv

----------------------------------------------------------------------------
(* The classification.                                                      *)

(* A request that starts and writes nothing.                                *)
LEMMA PasoInicial ==
  ASSUME PInv, NEW r \in Requests, NEW q, op' = [op EXCEPT ![r] = q], EnCurso(q),
         ~ q.escaneo, PorClasificar(q), Pedir(r), UNCHANGED <<com, gasto, escaneando, fallas>>
  PROVE  PInv'
<1>1. /\ solape' \in BOOLEAN /\ ops' \in Nat /\ fallas' \in Nat /\ Ordenado(r, q)
      /\ ~ op[r].escaneo
  BY PedirOrdenado
<1>2. op[r].escaneo \in BOOLEAN /\ q.escaneo \in BOOLEAN
  BY EnCursoDe DEF EnCurso
<1>3. q.escaneo = op[r].escaneo
  BY <1>1, <1>2
<1>4. QED
  BY <1>1, <1>3, SinEscrituras, EscaneoIgual, PasoDePeticion

LEMMA GenerateCandidatesPInv ==
  ASSUME PInv, NEW r \in Requests, NEW S \in SUBSET DOMAIN com, NEW extraer \in BOOLEAN,
         GenerateCandidates(r, S, extraer)
  PROVE  PInv'
<1> DEFINE q == [SinOp EXCEPT !.paso = "buscar", !.coms = S, !.extraer = extraer]
<1>1. FormaOp(q) /\ q.paso = "buscar" /\ q.escaneo = FALSE /\ q.coms = S
  BY DEF SinOp, FormaOp, CamposOp
<1>2. op' = [op EXCEPT ![r] = q] /\ Pedir(r) /\ UNCHANGED <<com, gasto, escaneando, fallas>>
  BY DEF GenerateCandidates, docs
<1> HIDE DEF q
<1>3. EnCurso(q) /\ PorClasificar(q)
  BY <1>1 DEF EnCurso, PorClasificar, EnClasificacion, Pasos
<1>4. QED
  BY <1>1, <1>2, <1>3, PasoInicial

(* What is found UNPROCESSED had no expense.                                *)
LEMMA BuscarComunicacionesPInv ==
  ASSUME PInv, NEW r \in Requests, BuscarComunicaciones(r)
  PROVE  PInv'
<1> DEFINE S == UnprocessedDe(op[r].coms)
           q == [op[r] EXCEPT !.paso = "clasificar", !.coms = S, !.sids = [k \in S |-> com[k].sid]]
<1>1. EnCurso(op[r]) /\ op[r].paso = "buscar" /\ op = [s \in Requests |-> op[s]]
  BY EnCursoDe DEF BuscarComunicaciones, PInv, Peticiones
<1>2. op' = [op EXCEPT ![r] = q] /\ UNCHANGED <<com, gasto, escaneando, solape, ops, fallas>>
  BY <1>1 DEF BuscarComunicaciones, docs
<1>3. FormaOp(q) /\ q.paso = "clasificar" /\ q.escaneo = op[r].escaneo /\ q.coms = S
  <2> HIDE DEF S
  <2> QED
    BY <1>1 DEF EnCurso, FormaOp, CamposOp
<1> HIDE DEF q
<1>4. S \subseteq DOMAIN com /\ \A k \in S : com[k].estado = "UNPROCESSED"
  BY <1>1 DEF UnprocessedDe, EnCurso
<1>5. EnCurso(q)
  BY <1>1, <1>3, <1>4 DEF EnCurso, Pasos
<1>6. ASSUME ~ solape, fallas = 0, UnaPorUna
      PROVE  PorClasificar(q)
  <2>1. \A s \in Requests : op[s].paso # "marcar"
    BY <1>1, <1>6 DEF UnaPorUna
  <2>2. \A k \in S : Nueva(k)
    BY <1>4, <1>6, <2>1 DEF UnaPorUna
  <2> QED
    BY <1>3, <2>2 DEF PorClasificar
<1>7. QED
  BY <1>1, <1>2, <1>3, <1>5, <1>6, PasoInterno

LEMMA FinClasificacionPInv ==
  ASSUME PInv, NEW r \in Requests, FinClasificacion(r)
  PROVE  PInv'
<1>1. /\ EnCurso(op[r]) /\ op[r].paso = "clasificar" /\ op[r].coms = {}
      /\ op = [s \in Requests |-> op[s]]
      /\ UNCHANGED <<com, gasto, escaneando, solape, ops, fallas>>
  BY EnCursoDe DEF FinClasificacion, PInv, Peticiones, docs
<1>2. CASE op[r].escaneo
  <2> DEFINE q == [op[r] EXCEPT !.paso = "mails", !.sids = <<>>]
  <2>1. op' = [op EXCEPT ![r] = q]
    BY <1>2 DEF FinClasificacion
  <2>2. FormaOp(q) /\ q.paso = "mails" /\ q.escaneo = op[r].escaneo /\ q.coms = {}
    BY <1>1 DEF EnCurso, FormaOp, CamposOp
  <2> HIDE DEF q
  <2>3. EnCurso(q) /\ PorClasificar(q)
    BY <1>1, <1>2, <2>2 DEF EnCurso, PorClasificar, EnClasificacion, Pasos
  <2> QED
    BY <1>1, <2>1, <2>2, <2>3, PasoInterno
<1>3. CASE ~ op[r].escaneo
  <2>1. op' = [op EXCEPT ![r] = SinOp]
    BY <1>3 DEF FinClasificacion
  <2>2. SinOp.escaneo = op[r].escaneo
    BY <1>1, <1>3, SinOpVale DEF EnCurso
  <2> QED
    BY <1>1, <2>1, <2>2, SinOpVale, PasoInterno
<1>4. QED
  BY <1>2, <1>3

(* A communication is written in place.                                     *)
LEMMA ComunicacionEscrita ==
  ASSUME PInv, NEW k \in DOMAIN com, NEW e, com' = [com EXCEPT ![k] = e], UNCHANGED gasto,
         FormaCom(e), e.mail = com[k].mail, com[k].reabierta => e.reabierta,
         e.gasto # Ninguno => e.gasto \in DOMAIN gasto /\ gasto[e.gasto].com = k,
         e.estado = "UNPROCESSED" => com[k].estado = "UNPROCESSED" \/ e.reabierta
  PROVE  Documentos' /\ MismosGastos /\ MismasComunicaciones
<1>1. Documentos /\ EsSecuencia(com)
  BY DEF PInv, Documentos
<1>2. /\ EsSecuencia(com') /\ DOMAIN com' = DOMAIN com
      /\ \A i \in DOMAIN com : com'[i] = IF i = k THEN e ELSE com[i]
  BY <1>1, Cambiada
<1>3. EsSecuencia(gasto)' /\ EsSecuencia(com)'
  BY <1>1, <1>2 DEF Documentos
<1>4. (\A i \in DOMAIN com : FormaCom(com[i]) /\ com[i].gasto \in DOMAIN gasto \cup {Ninguno})'
  BY <1>1, <1>2 DEF Documentos
<1>5. (\A g \in DOMAIN gasto : FormaGasto(gasto[g]) /\ gasto[g].com \in DOMAIN com)'
  BY <1>1, <1>2 DEF Documentos
<1>6. UnicaPorMail'
  BY <1>1, <1>2 DEF Documentos, UnicaPorMail
<1>7. GastoConComunicacion'
  BY <1>1, <1>2 DEF Documentos, GastoConComunicacion
<1>8. QED
  BY <1>2, <1>3, <1>4, <1>5, <1>6, <1>7 DEF Documentos, MismosGastos, MismasComunicaciones

LEMMA ProcessCommunicationPInv ==
  ASSUME PInv, NEW r \in Requests, NEW k \in DOMAIN com, ProcessCommunication(r, k)
  PROVE  PInv'
<1> DEFINE sid == ExtractServiceId(r, k)
           nsid == IF sid = op[r].sids[k] THEN com[k].sid ELSE sid
           nestado == IF sid = SinServicio THEN "ERROR" ELSE com[k].estado
           npaso == IF sid = SinServicio THEN "clasificar" ELSE "crear"
           e == [com[k] EXCEPT !.sid = nsid, !.estado = nestado]
           q == [op[r] EXCEPT !.coms = @ \ {k}, !.c = k, !.paso = npaso]
<1>1. /\ EnCurso(op[r]) /\ op[r].paso = "clasificar" /\ k \in op[r].coms
      /\ op = [s \in Requests |-> op[s]] /\ Documentos
      /\ UNCHANGED <<gasto, escaneando, solape, ops, fallas>>
  BY EnCursoDe DEF ProcessCommunication, PInv, Peticiones
<1>2. com' = [com EXCEPT ![k] = e] /\ op' = [op EXCEPT ![r] = q]
  BY <1>1 DEF ProcessCommunication
<1>3. npaso \in {"clasificar", "crear"} /\ nestado \in {"ERROR", com[k].estado}
  OBVIOUS
<1> HIDE DEF sid, nsid, nestado, npaso
<1>4. /\ FormaCom(e) /\ e.mail = com[k].mail /\ e.gasto = com[k].gasto
      /\ e.reabierta = com[k].reabierta /\ e.estado = nestado
  <2>1. FormaCom(com[k])
    BY <1>1 DEF Documentos
  <2>2. PICK c : c = com[k]
    OBVIOUS
  <2>3. c = [f \in CamposCom |-> c[f]] /\ e = [c EXCEPT !.sid = nsid, !.estado = nestado]
    BY <2>1, <2>2 DEF FormaCom
  <2>4. e = [f \in CamposCom |-> IF f = "sid" THEN nsid ELSE IF f = "estado" THEN nestado ELSE c[f]]
    BY <2>3
  <2>5. QED
    BY <2>2, <2>4 DEF FormaCom, CamposCom
<1>5. /\ FormaOp(q) /\ q.paso = npaso /\ q.escaneo = op[r].escaneo
      /\ q.coms = op[r].coms \ {k} /\ q.c = k
  BY <1>1 DEF EnCurso, FormaOp, CamposOp
<1> HIDE DEF e, q
<1>6. com[k].gasto # Ninguno => com[k].gasto \in DOMAIN gasto /\ gasto[com[k].gasto].com = k
  BY <1>1 DEF Documentos, GastoConComunicacion
<1>7. Documentos' /\ MismosGastos /\ MismasComunicaciones
  BY <1>1, <1>2, <1>3, <1>4, <1>6, ComunicacionEscrita
<1>8. EnCurso(q)
  BY <1>1, <1>3, <1>5 DEF EnCurso, Pasos
<1>9. PorClasificar(op[r]) => PorClasificar(q)
  BY <1>1, <1>3, <1>5 DEF PorClasificar, EnClasificacion
<1>10. /\ solape' \in BOOLEAN /\ ops' \in Nat /\ fallas' \in Nat /\ Ordenado(r, q)
  BY <1>1, <1>9, EnCursoDe, SigueOrdenado
<1>11. EscaneoExclusivo' /\ escaneando' \in BOOLEAN
  BY <1>1, <1>2, <1>5, EscaneoIgual
<1>12. QED
  BY <1>2, <1>7, <1>8, <1>10, <1>11, PasoDePeticion

(* The expense is one of the communication that the request has in hand,    *)
(* which had none unless it was given back.                                 *)
LEMMA CrearGastoPInv ==
  ASSUME PInv, NEW r \in Requests, CrearGasto(r)
  PROVE  PInv'
<1> DEFINE n == Len(gasto) + 1
           k == op[r].c
           e == Gasto(k, ExtractServiceId(r, k), Aviso[com[k].mail].monto)
           q == [op[r] EXCEPT !.paso = "marcar", !.g = n]
<1>1. /\ EnCurso(op[r]) /\ op[r].paso = "crear" /\ k \in DOMAIN com
      /\ op = [s \in Requests |-> op[s]] /\ Documentos /\ EsSecuencia(gasto)
      /\ UNCHANGED <<com, escaneando, solape, ops, fallas>>
  BY EnCursoDe DEF CrearGasto, PInv, Peticiones, Documentos, EnCurso
<1>2. gasto' = Append(gasto, e) /\ op' = [op EXCEPT ![r] = q]
  BY <1>1 DEF CrearGasto
<1>3. FormaGasto(e) /\ e.com = k
  BY DEF Gasto, FormaGasto, CamposGasto
<1> HIDE DEF n, e
<1>4. /\ FormaOp(q) /\ q.paso = "marcar" /\ q.escaneo = op[r].escaneo
      /\ q.coms = op[r].coms /\ q.c = k /\ q.g = n
  BY <1>1 DEF EnCurso, FormaOp, CamposOp
<1> HIDE DEF q, k
<1>5. /\ EsSecuencia(gasto') /\ DOMAIN gasto' = DOMAIN gasto \cup {n} /\ n \notin DOMAIN gasto
      /\ (\A g \in DOMAIN gasto : gasto'[g] = gasto[g]) /\ gasto'[n] = e
  BY <1>1, <1>2, Agregada DEF n
<1>6. Documentos'
  <2>1. EsSecuencia(gasto)' /\ EsSecuencia(com)'
    BY <1>1, <1>5 DEF Documentos
  <2>2. (\A i \in DOMAIN com : FormaCom(com[i]) /\ com[i].gasto \in DOMAIN gasto \cup {Ninguno})'
    BY <1>1, <1>5 DEF Documentos
  <2>3. (\A g \in DOMAIN gasto : FormaGasto(gasto[g]) /\ gasto[g].com \in DOMAIN com)'
    BY <1>1, <1>3, <1>5 DEF Documentos
  <2>4. UnicaPorMail'
    BY <1>1 DEF Documentos, UnicaPorMail
  <2>5. GastoConComunicacion'
    BY <1>1, <1>5 DEF Documentos, GastoConComunicacion
  <2> QED
    BY <2>1, <2>2, <2>3, <2>4, <2>5 DEF Documentos
<1>7. \A s \in Requests : op'[s] = IF s = r THEN q ELSE op[s]
  BY <1>1, <1>2
<1>8. Peticiones'
  <2>1. op' = [s \in Requests |-> op'[s]]
    BY <1>1, <1>2
  <2>2. \A s \in Requests : s # r => EnCurso(op[s])'
    BY <1>1, <1>5, <1>7 DEF PInv, Peticiones, EnCurso
  <2>3. EnCurso(op[r])'
    BY <1>1, <1>3, <1>4, <1>5, <1>7 DEF EnCurso, Pasos
  <2> QED
    BY <2>1, <2>2, <2>3 DEF Peticiones
<1>9. EscaneoExclusivo' /\ escaneando' \in BOOLEAN
  BY <1>1, <1>2, <1>4, EscaneoIgual
<1>10. ASSUME ~ solape', fallas' = 0
       PROVE  UnaPorUna'
  <2>1. UnaPorUna /\ PorClasificar(op[r])
    BY <1>1, <1>10, EnCursoDe DEF PInv
  <2>2. Nueva(k) /\ k \notin op[r].coms /\ \A i \in op[r].coms : Nueva(i)
    BY <1>1, <2>1 DEF PorClasificar, EnClasificacion, k
  <2>3. \A i \in DOMAIN com : i # k /\ Nueva(i) => Nueva(i)'
    BY <1>1, <1>3, <1>5 DEF Nueva
  <2>4. (\A s, t \in Requests : op[s].paso # "libre" /\ op[t].paso # "libre" => s = t)'
    BY <1>1, <1>7, <2>1 DEF UnaPorUna
  <2>5. (\A i, j \in DOMAIN gasto :
           i # j /\ gasto[i].com = gasto[j].com => com[gasto[i].com].reabierta)'
    <3>1. \A g \in DOMAIN gasto : gasto[g].com = k => com[k].reabierta
      BY <2>2 DEF Nueva
    <3> QED
      BY <1>1, <1>3, <1>5, <2>1, <3>1 DEF UnaPorUna
  <2>6. (\A s \in Requests : PorClasificar(op[s]))'
    <3> TAKE s \in Requests
    <3>1. CASE s = r
      BY <1>1, <1>4, <1>7, <2>2, <2>3, <3>1 DEF PorClasificar, EnCurso
    <3>2. CASE s # r
      BY <1>1, <1>7, <2>1, <3>2, EnCursoDe DEF UnaPorUna, PorClasificar, EnClasificacion
    <3> QED
      BY <3>1, <3>2
  <2>7. (\A i \in DOMAIN com : com[i].estado = "UNPROCESSED" =>
           Nueva(i) \/ \E s \in Requests : op[s].paso = "marcar" /\ op[s].c = i)'
    <3> SUFFICES ASSUME NEW i \in DOMAIN com, com[i].estado = "UNPROCESSED"
                 PROVE  Nueva(i)' \/ \E s \in Requests : op'[s].paso = "marcar" /\ op'[s].c = i
      BY <1>1
    <3>1. CASE i = k
      BY <1>4, <1>7, <3>1
    <3>2. CASE i # k
      BY <1>1, <1>7, <2>1, <2>3, <3>2 DEF UnaPorUna
    <3> QED
      BY <3>1, <3>2
  <2> QED
    BY <2>4, <2>5, <2>6, <2>7 DEF UnaPorUna
<1>11. QED
  BY <1>1, <1>6, <1>8, <1>9, <1>10 DEF PInv

LEMMA MarcarProcesadaPInv ==
  ASSUME PInv, NEW r \in Requests, MarcarProcesada(r)
  PROVE  PInv'
<1> DEFINE k == op[r].c
           g == op[r].g
           e == [com[k] EXCEPT !.estado = "PROCESSED", !.gasto = g]
           q == [op[r] EXCEPT !.paso = "leer"]
<1>1. /\ EnCurso(op[r]) /\ op[r].paso = "marcar" /\ op = [s \in Requests |-> op[s]]
      /\ Documentos /\ k \in DOMAIN com /\ g \in DOMAIN gasto /\ gasto[g].com = k
      /\ UNCHANGED <<gasto, escaneando, solape, ops, fallas>>
  BY EnCursoDe DEF MarcarProcesada, PInv, Peticiones, EnCurso
<1>2. com' = [com EXCEPT ![k] = e] /\ op' = [op EXCEPT ![r] = q]
  BY <1>1 DEF MarcarProcesada
<1>3. /\ FormaOp(q) /\ q.paso = "leer" /\ q.escaneo = op[r].escaneo /\ q.coms = op[r].coms
      /\ q.g = g
  BY <1>1 DEF EnCurso, FormaOp, CamposOp
<1> HIDE DEF q, k, g
<1>4. /\ FormaCom(e) /\ e.mail = com[k].mail /\ e.gasto = g
      /\ e.reabierta = com[k].reabierta /\ e.estado = "PROCESSED"
  <2>1. FormaCom(com[k])
    BY <1>1 DEF Documentos
  <2> QED
    BY <2>1 DEF FormaCom, CamposCom
<1> HIDE DEF e
<1>5. Documentos' /\ MismosGastos /\ MismasComunicaciones
  BY <1>1, <1>2, <1>4, ComunicacionEscrita
<1>6. EnCurso(q)
  BY <1>1, <1>3 DEF EnCurso, Pasos, g
<1>7. PorClasificar(op[r]) => PorClasificar(q)
  BY <1>1, <1>3 DEF PorClasificar, EnClasificacion
<1>8. com'[k].estado = "PROCESSED"
  BY <1>1, <1>2, <1>4
<1>9. solape' \in BOOLEAN /\ ops' \in Nat /\ fallas' \in Nat /\ Ordenado(r, q)
  BY <1>1, <1>7, <1>8, EnCursoDe DEF PInv, Ordenado, k
<1>10. EscaneoExclusivo' /\ escaneando' \in BOOLEAN
  BY <1>1, <1>2, <1>3, EscaneoIgual
<1>11. QED
  BY <1>2, <1>5, <1>6, <1>9, <1>10, PasoDePeticion

(* An expense is written in place, and stays of its communication.          *)
LEMMA GastoEscrito ==
  ASSUME PInv, NEW g \in DOMAIN gasto, NEW e, gasto' = [gasto EXCEPT ![g] = e], UNCHANGED com,
         FormaGasto(e), e.com = gasto[g].com
  PROVE  Documentos' /\ MismosGastos /\ MismasComunicaciones
<1>1. Documentos /\ EsSecuencia(gasto)
  BY DEF PInv, Documentos
<1>2. /\ EsSecuencia(gasto') /\ DOMAIN gasto' = DOMAIN gasto
      /\ \A i \in DOMAIN gasto : gasto'[i] = IF i = g THEN e ELSE gasto[i]
  BY <1>1, Cambiada
<1>3. EsSecuencia(gasto)' /\ EsSecuencia(com)'
  BY <1>1, <1>2 DEF Documentos
<1>4. (\A i \in DOMAIN com : FormaCom(com[i]) /\ com[i].gasto \in DOMAIN gasto \cup {Ninguno})'
  BY <1>1, <1>2 DEF Documentos
<1>5. (\A i \in DOMAIN gasto : FormaGasto(gasto[i]) /\ gasto[i].com \in DOMAIN com)'
  BY <1>1, <1>2 DEF Documentos
<1>6. UnicaPorMail'
  BY <1>1 DEF Documentos, UnicaPorMail
<1>7. GastoConComunicacion'
  BY <1>1, <1>2 DEF Documentos, GastoConComunicacion
<1>8. QED
  BY <1>2, <1>3, <1>4, <1>5, <1>6, <1>7 DEF Documentos, MismosGastos, MismasComunicaciones

LEMMA LeerGastoPInv ==
  ASSUME PInv, NEW r \in Requests, LeerGasto(r)
  PROVE  PInv'
<1> DEFINE npaso == IF gasto[op[r].g].estado = "PENDIENTE_VALIDACION" THEN "proponer" ELSE "clasificar"
           q == [op[r] EXCEPT !.paso = npaso]
<1>1. /\ EnCurso(op[r]) /\ op[r].paso = "leer" /\ op = [s \in Requests |-> op[s]]
      /\ UNCHANGED <<com, gasto, escaneando, solape, ops, fallas>>
  BY EnCursoDe DEF LeerGasto, PInv, Peticiones, docs
<1>2. op' = [op EXCEPT ![r] = q]
  BY <1>1 DEF LeerGasto
<1>3. npaso \in {"proponer", "clasificar"}
  OBVIOUS
<1> HIDE DEF npaso
<1>4. /\ FormaOp(q) /\ q.paso = npaso /\ q.escaneo = op[r].escaneo /\ q.coms = op[r].coms
      /\ q.g = op[r].g
  BY <1>1 DEF EnCurso, FormaOp, CamposOp
<1> HIDE DEF q
<1>5. EnCurso(q) /\ (PorClasificar(op[r]) => PorClasificar(q))
  BY <1>1, <1>3, <1>4 DEF EnCurso, Pasos, PorClasificar, EnClasificacion
<1>6. QED
  BY <1>1, <1>2, <1>4, <1>5, EnCursoDe, PasoInterno

LEMMA ProponerPInv ==
  ASSUME PInv, NEW r \in Requests, Proponer(r)
  PROVE  PInv'
<1> DEFINE g == op[r].g
           props == Servicios[gasto[g].sid]
           p == [monto |-> gasto[g].monto, partidas |-> Prorrateo(gasto[g].monto, props)]
           e1 == [gasto[g] EXCEPT !.estado = "DESCARTADO"]
           e2 == [gasto[g] EXCEPT !.estado = "ASIGNADO", !.propuesta = p]
           q == [op[r] EXCEPT !.paso = "clasificar"]
<1>1. /\ EnCurso(op[r]) /\ op[r].paso = "proponer" /\ op = [s \in Requests |-> op[s]]
      /\ Documentos /\ g \in DOMAIN gasto
      /\ UNCHANGED <<com, escaneando, solape, ops, fallas>>
  BY EnCursoDe DEF Proponer, PInv, Peticiones, EnCurso
<1>2. op' = [op EXCEPT ![r] = q]
  BY <1>1 DEF Proponer
<1>3. \/ UNCHANGED gasto
      \/ gasto' = [gasto EXCEPT ![g] = e1]
      \/ gasto' = [gasto EXCEPT ![g] = e2]
  BY <1>1 DEF Proponer
<1>4. /\ FormaOp(q) /\ q.paso = "clasificar" /\ q.escaneo = op[r].escaneo
      /\ q.coms = op[r].coms
  BY <1>1 DEF EnCurso, FormaOp, CamposOp
<1> HIDE DEF q, p, g
<1>5. FormaGasto(e1) /\ e1.com = gasto[g].com /\ FormaGasto(e2) /\ e2.com = gasto[g].com
  BY <1>1 DEF Documentos, FormaGasto, CamposGasto
<1> HIDE DEF e1, e2
<1>6. Documentos' /\ MismosGastos /\ MismasComunicaciones
  BY <1>1, <1>3, <1>5, GastoEscrito, SinEscrituras
<1>7. EnCurso(q) /\ (PorClasificar(op[r]) => PorClasificar(q))
  BY <1>1, <1>4 DEF EnCurso, Pasos, PorClasificar, EnClasificacion
<1>8. solape' \in BOOLEAN /\ ops' \in Nat /\ fallas' \in Nat /\ Ordenado(r, q)
  BY <1>1, <1>7, EnCursoDe DEF PInv, Ordenado
<1>9. EscaneoExclusivo' /\ escaneando' \in BOOLEAN
  BY <1>1, <1>2, <1>4, EscaneoIgual
<1>10. QED
  BY <1>2, <1>6, <1>7, <1>8, <1>9, PasoDePeticion

----------------------------------------------------------------------------
(* The entries and the operators.                                           *)

LEMMA ProcessDetectedExpenseToEntryPInv ==
  ASSUME PInv, NEW r \in Requests, NEW g \in DOMAIN gasto, ProcessDetectedExpenseToEntry(r, g)
  PROVE  PInv'
<1> DEFINE p == gasto[g].propuesta
           q == [SinOp EXCEPT !.paso = "asentar", !.g = g, !.propuesta = p]
<1>1. op' = [op EXCEPT ![r] = q] /\ Pedir(r) /\ UNCHANGED <<com, gasto, escaneando, fallas>>
  BY DEF ProcessDetectedExpenseToEntry, docs
<1> HIDE DEF p
<1>2. FormaOp(q) /\ q.paso = "asentar" /\ q.escaneo = FALSE /\ q.coms = {} /\ q.g = g
  BY DEF SinOp, FormaOp, CamposOp
<1> HIDE DEF q
<1>3. EnCurso(q) /\ PorClasificar(q)
  BY <1>2 DEF EnCurso, PorClasificar, EnClasificacion, Pasos
<1>4. QED
  BY <1>1, <1>2, <1>3, PasoInicial

LEMMA CrearAsientoPInv ==
  ASSUME PInv, NEW r \in Requests, CrearAsiento(r)
  PROVE  PInv'
<1> DEFINE na == Len(asientos) + 1
           q == [op[r] EXCEPT !.paso = "enlazar", !.a = na]
<1>1. /\ EnCurso(op[r]) /\ op[r].paso = "asentar" /\ op = [s \in Requests |-> op[s]]
      /\ UNCHANGED <<com, gasto, escaneando, solape, ops, fallas>>
  BY EnCursoDe DEF CrearAsiento, PInv, Peticiones
<1>2. op' = [op EXCEPT ![r] = q]
  BY <1>1 DEF CrearAsiento
<1> HIDE DEF na
<1>3. /\ FormaOp(q) /\ q.paso = "enlazar" /\ q.escaneo = op[r].escaneo /\ q.coms = op[r].coms
      /\ q.g = op[r].g
  BY <1>1 DEF EnCurso, FormaOp, CamposOp
<1> HIDE DEF q
<1>4. EnCurso(q) /\ PorClasificar(q)
  BY <1>1, <1>3 DEF EnCurso, Pasos, PorClasificar, EnClasificacion
<1>5. QED
  BY <1>1, <1>2, <1>3, <1>4, PasoInterno

(* A request that ends outside a scan.                                      *)
LEMMA PasoFinal ==
  ASSUME PInv, NEW r \in Requests, op' = [op EXCEPT ![r] = SinOp],
         op[r].paso \in {"enlazar", "estado"}, Documentos', MismosGastos, MismasComunicaciones,
         UNCHANGED <<escaneando, solape, ops, fallas>>
  PROVE  PInv'
<1>1. SinOp.escaneo = op[r].escaneo
  BY SinOpVale, EnCursoDe DEF EnCurso
<1>2. solape' \in BOOLEAN /\ ops' \in Nat /\ fallas' \in Nat /\ Ordenado(r, SinOp)
  BY SinOpVale DEF PInv, Ordenado
<1>3. QED
  BY <1>1, <1>2, SinOpVale, EscaneoIgual, PasoDePeticion

LEMMA EnlazarAsientoPInv ==
  ASSUME PInv, NEW r \in Requests, EnlazarAsiento(r)
  PROVE  PInv'
<1> DEFINE g == op[r].g
           a == op[r].a
           e == [gasto[g] EXCEPT !.estado = "ASIGNADO", !.asiento = a]
<1>1. /\ op[r].paso = "enlazar" /\ g \in DOMAIN gasto /\ FormaGasto(gasto[g])
      /\ op' = [op EXCEPT ![r] = SinOp] /\ UNCHANGED <<com, escaneando, solape, ops, fallas>>
  BY EnCursoDe DEF EnlazarAsiento, EnCurso, PInv, Documentos
<1>2. UNCHANGED gasto \/ gasto' = [gasto EXCEPT ![g] = e]
  BY <1>1 DEF EnlazarAsiento
<1> HIDE DEF g, a
<1>3. FormaGasto(e) /\ e.com = gasto[g].com
  BY <1>1 DEF FormaGasto, CamposGasto
<1> HIDE DEF e
<1>4. Documentos' /\ MismosGastos /\ MismasComunicaciones
  BY <1>1, <1>2, <1>3, GastoEscrito, SinEscrituras
<1>5. QED
  BY <1>1, <1>4, PasoFinal

LEMMA UpdateStatusPInv ==
  ASSUME PInv, NEW r \in Requests, NEW k \in DOMAIN com, NEW e \in EstadosOperador,
         UpdateStatus(r, k, e)
  PROVE  PInv'
<1> DEFINE l == com[k].estado
           q == [SinOp EXCEPT !.paso = "estado", !.c = k, !.leido = l, !.nuevo = e]
<1>1. op' = [op EXCEPT ![r] = q] /\ Pedir(r) /\ UNCHANGED <<com, gasto, escaneando, fallas>>
  BY DEF UpdateStatus, docs
<1> HIDE DEF l
<1>2. FormaOp(q) /\ q.paso = "estado" /\ q.escaneo = FALSE /\ q.coms = {} /\ q.c = k
  BY DEF SinOp, FormaOp, CamposOp
<1> HIDE DEF q
<1>3. EnCurso(q) /\ PorClasificar(q)
  BY <1>2 DEF EnCurso, PorClasificar, EnClasificacion, Pasos
<1>4. QED
  BY <1>1, <1>2, <1>3, PasoInicial

(* Giving a communication back marks it as given back.                      *)
LEMMA GuardarStatusPInv ==
  ASSUME PInv, NEW r \in Requests, GuardarStatus(r)
  PROVE  PInv'
<1> DEFINE k == op[r].c
           ne == IF op[r].nuevo = op[r].leido THEN com[k].estado ELSE op[r].nuevo
           nr == com[k].reabierta \/ op[r].nuevo = "UNPROCESSED"
           e == [com[k] EXCEPT !.estado = ne, !.reabierta = nr]
<1>1. /\ op[r].paso = "estado" /\ k \in DOMAIN com /\ FormaCom(com[k])
      /\ op' = [op EXCEPT ![r] = SinOp] /\ UNCHANGED <<gasto, escaneando, solape, ops, fallas>>
  BY EnCursoDe DEF GuardarStatus, EnCurso, PInv, Documentos
<1>2. com' = [com EXCEPT ![k] = e]
  BY DEF GuardarStatus
<1>3. /\ ne = "UNPROCESSED" => com[k].estado = "UNPROCESSED" \/ nr
      /\ com[k].reabierta => nr
  OBVIOUS
<1>4. com[k].gasto # Ninguno => com[k].gasto \in DOMAIN gasto /\ gasto[com[k].gasto].com = k
  BY <1>1 DEF PInv, Documentos, GastoConComunicacion
<1> HIDE DEF k, ne, nr
<1>5. FormaCom(e) /\ e.mail = com[k].mail /\ e.gasto = com[k].gasto /\ e.estado = ne
      /\ e.reabierta = nr
  BY <1>1 DEF FormaCom, CamposCom
<1> HIDE DEF e
<1>6. Documentos' /\ MismosGastos /\ MismasComunicaciones
  BY <1>1, <1>2, <1>3, <1>4, <1>5, ComunicacionEscrita
<1>7. QED
  BY <1>1, <1>6, PasoFinal

(* No request moves.                                                        *)
LEMMA SinPeticion ==
  ASSUME PInv, UNCHANGED <<com, op, escaneando, solape, fallas>>, ops' \in Nat,
         Documentos', MismosGastos
  PROVE  PInv'
<1>1. Peticiones'
  BY DEF PInv, Peticiones, EnCurso, MismosGastos
<1>2. EscaneoExclusivo'
  BY DEF PInv, EscaneoExclusivo
<1>3. \A k \in DOMAIN com : Nueva(k) <=> Nueva(k)'
  BY DEF Nueva, MismosGastos
<1>4. ASSUME UnaPorUna
      PROVE  UnaPorUna'
  <2>1. (\A s \in Requests : PorClasificar(op[s]))'
    <3> TAKE s \in Requests
    <3>1. PorClasificar(op[s]) /\ op[s].coms \subseteq DOMAIN com
          /\ (op[s].paso = "crear" => op[s].c \in DOMAIN com)
      BY <1>4, EnCursoDe DEF UnaPorUna, EnCurso
    <3> QED
      BY <1>3, <3>1 DEF PorClasificar
  <2>2. (\A k \in DOMAIN com : com[k].estado = "UNPROCESSED" =>
           Nueva(k) \/ \E s \in Requests : op[s].paso = "marcar" /\ op[s].c = k)'
    BY <1>3, <1>4 DEF UnaPorUna
  <2>3. (\A i, j \in DOMAIN gasto :
           i # j /\ gasto[i].com = gasto[j].com => com[gasto[i].com].reabierta)'
    BY <1>4 DEF UnaPorUna, MismosGastos
  <2>4. (\A s, t \in Requests : op[s].paso # "libre" /\ op[t].paso # "libre" => s = t)'
    BY <1>4 DEF UnaPorUna
  <2> QED
    BY <2>1, <2>2, <2>3, <2>4 DEF UnaPorUna
<1>5. QED
  BY <1>1, <1>2, <1>4 DEF PInv

LEMMA ExpensePInv ==
  ASSUME PInv, NEW g \in DOMAIN gasto,
         (\E e \in EstadosGasto : UpdateExpense(g, e)) \/ RemoveExpense(g)
  PROVE  PInv'
<1>1. /\ UNCHANGED <<com, op, escaneando, solape, fallas>> /\ ops' \in Nat
      /\ FormaGasto(gasto[g])
  BY DEF UpdateExpense, RemoveExpense, PInv, Documentos
<1>2. PICK e : gasto' = [gasto EXCEPT ![g].estado = e]
  BY DEF UpdateExpense, RemoveExpense
<1> DEFINE d == [gasto[g] EXCEPT !.estado = e]
<1>3. gasto' = [gasto EXCEPT ![g] = d]
  BY <1>2
<1>4. FormaGasto(d) /\ d.com = gasto[g].com
  BY <1>1 DEF FormaGasto, CamposGasto
<1> HIDE DEF d
<1>5. QED
  BY <1>1, <1>3, <1>4, GastoEscrito, SinPeticion

----------------------------------------------------------------------------
(* Failures.                                                                *)

LEMMA FallaPInv ==
  ASSUME PInv, NEW r \in Requests, Falla(r)
  PROVE  PInv'
<1> DEFINE q1 == [op[r] EXCEPT !.paso = "clasificar"]
           q2 == [op[r] EXCEPT !.paso = "mails", !.coms = {}]
           q == CASE op[r].paso \in EnClasificacion -> q1
                  [] op[r].paso = "buscar" /\ op[r].escaneo -> q2
                  [] OTHER -> SinOp
<1>1. /\ EnCurso(op[r]) /\ op[r].paso \notin {"libre", "mails", "clasificar"}
      /\ fallas' = fallas + 1 /\ escaneando' = (escaneando /\ op[r].paso # "descargar")
      /\ op' = [op EXCEPT ![r] = q] /\ UNCHANGED <<com, gasto, solape, ops>>
  BY EnCursoDe DEF Falla, docs
<1>2. /\ solape' \in BOOLEAN /\ ops' \in Nat /\ fallas' \in Nat /\ escaneando' \in BOOLEAN
      /\ Ordenado(r, q)
  BY <1>1 DEF PInv, Ordenado
<1>3. /\ FormaOp(q1) /\ q1.paso = "clasificar" /\ q1.escaneo = op[r].escaneo
      /\ q1.coms = op[r].coms
      /\ FormaOp(q2) /\ q2.paso = "mails" /\ q2.escaneo = op[r].escaneo /\ q2.coms = {}
  BY <1>1 DEF EnCurso, FormaOp, CamposOp
<1> HIDE DEF q1, q2
<1>4. EnCurso(q1) /\ (op[r].escaneo => EnCurso(q2))
  BY <1>1, <1>3 DEF EnCurso, Pasos
<1>5. EnCurso(q)
  BY <1>4, SinOpVale
<1>6. q.escaneo <=> op[r].escaneo /\ op[r].paso # "descargar"
  <2>1. op[r].paso \in EnClasificacion \/ (op[r].paso = "buscar" /\ op[r].escaneo)
          => q.escaneo = op[r].escaneo /\ op[r].paso # "descargar"
    BY <1>3 DEF EnClasificacion
  <2>2. op[r].paso \notin EnClasificacion /\ ~ (op[r].paso = "buscar" /\ op[r].escaneo)
          => ~ q.escaneo /\ (op[r].escaneo => op[r].paso = "descargar")
    BY <1>1, SinOpVale DEF EnClasificacion, EnCurso, Pasos
  <2> QED
    BY <2>1, <2>2
<1> HIDE DEF q
<1>7. EscaneoExclusivo'
  <2>1. \A s \in Requests : op'[s] = IF s = r THEN q ELSE op[s]
    BY <1>1 DEF PInv, Peticiones
  <2>2. op[r].paso = "descargar" => op[r].escaneo
    BY <1>1 DEF EnCurso
  <2>3. \A s, t \in Requests : op'[s].escaneo /\ op'[t].escaneo => s = t
    BY <1>6, <2>1 DEF PInv, EscaneoExclusivo
  <2>4. escaneando' => \E s \in Requests : op'[s].escaneo
    BY <1>1, <1>6, <2>1 DEF PInv, EscaneoExclusivo
  <2>5. ASSUME NEW s \in Requests, op'[s].escaneo
        PROVE  escaneando'
    <3>1. CASE s = r
      BY <1>1, <1>6, <2>1, <2>5, <3>1 DEF PInv, EscaneoExclusivo
    <3>2. CASE s # r
      BY <1>1, <2>1, <2>2, <2>5, <3>2 DEF PInv, EscaneoExclusivo
    <3> QED
      BY <3>1, <3>2
  <2> QED
    BY <2>3, <2>4, <2>5 DEF EscaneoExclusivo
<1>8. QED
  BY <1>1, <1>2, <1>5, <1>7, SinEscrituras, PasoDePeticion

(* Nothing is in progress after a restart, and the flag is down.            *)
LEMMA ReinicioPInv ==
  ASSUME PInv, Reinicio
  PROVE  PInv'
<1>1. /\ fallas' = fallas + 1 /\ escaneando' = FALSE /\ op' = [r \in Requests |-> SinOp]
      /\ UNCHANGED <<com, gasto, solape, ops>>
  BY DEF Reinicio, docs
<1>2. Documentos'
  BY <1>1, SinEscrituras
<1>3. \A r \in Requests : EnCurso(op[r])'
  BY <1>1, SinOpVale DEF EnCurso
<1>4. Peticiones'
  BY <1>1, <1>3 DEF Peticiones
<1>5. EscaneoExclusivo'
  BY <1>1, SinOpVale DEF EscaneoExclusivo
<1>6. fallas' \in Nat /\ fallas' # 0 /\ ops' \in Nat
  <2>1. fallas \in Nat /\ ops \in Nat
    BY DEF PInv
  <2> QED
    BY <1>1, <2>1
<1>7. escaneando' \in BOOLEAN /\ solape' \in BOOLEAN
  BY <1>1 DEF PInv
<1>8. QED
  BY <1>2, <1>4, <1>5, <1>6, <1>7 DEF PInv

----------------------------------------------------------------------------
(* The inductive invariant, and what it says of every behaviour.            *)

LEMMA InitPInv == SInit => PInv
<1> SUFFICES ASSUME SInit PROVE PInv
  OBVIOUS
<1>1. Documentos
  BY DEF SInit, Documentos, EsSecuencia, UnicaPorMail, GastoConComunicacion
<1>2. Peticiones
  BY SinOpVale DEF SInit, Peticiones
<1>3. EscaneoExclusivo
  BY SinOpVale DEF SInit, EscaneoExclusivo
<1>4. UnaPorUna
  BY SinOpVale DEF SInit, UnaPorUna
<1>5. QED
  BY <1>1, <1>2, <1>3, <1>4 DEF SInit, PInv

LEMMA AtenderPInv ==
  ASSUME PInv, NEW r \in Requests, Atender(r)
  PROVE  PInv'
BY CreatePInv, FinEscaneoPInv, BuscarComunicacionesPInv, FinClasificacionPInv,
   ProcessCommunicationPInv, CrearGastoPInv, MarcarProcesadaPInv, LeerGastoPInv, ProponerPInv,
   CrearAsientoPInv, EnlazarAsientoPInv, GuardarStatusPInv
   DEF Atender

LEMMA NextPInv == PInv /\ [SNext]_svars => PInv'
<1> SUFFICES ASSUME PInv, [SNext]_svars
             PROVE  PInv'
  OBVIOUS
<1>1. CASE UNCHANGED svars
  <2>1. Documentos' /\ MismosGastos
    BY <1>1, SinEscrituras DEF svars, docs
  <2> QED
    BY <1>1, <2>1, SinPeticion DEF svars, docs, PInv
<1>2. ASSUME NEW r \in Requests, NEW auto \in AutoCandidatos, ScanEmails(r, auto)
      PROVE  PInv'
  BY <1>2, ScanEmailsPInv
<1>3. ASSUME NEW r \in Requests, FetchEmails(r)
      PROVE  PInv'
  BY <1>3, FetchEmailsPInv
<1>4. ASSUME NEW r \in Requests, NEW S \in {DOMAIN com} \cup {{k} : k \in DOMAIN com},
             NEW extraer \in BOOLEAN, GenerateCandidates(r, S, extraer)
      PROVE  PInv'
  BY <1>4, GenerateCandidatesPInv
<1>5. ASSUME NEW r \in Requests, NEW g \in DOMAIN gasto, ProcessDetectedExpenseToEntry(r, g)
      PROVE  PInv'
  BY <1>5, ProcessDetectedExpenseToEntryPInv
<1>6. ASSUME NEW r \in Requests, NEW k \in DOMAIN com, NEW e \in EstadosOperador,
             UpdateStatus(r, k, e)
      PROVE  PInv'
  BY <1>6, UpdateStatusPInv
<1>7. ASSUME NEW r \in Requests, Atender(r) \/ Falla(r)
      PROVE  PInv'
  BY <1>7, AtenderPInv, FallaPInv
<1>8. ASSUME NEW g \in DOMAIN gasto,
             (\E e \in EstadosGasto : UpdateExpense(g, e)) \/ RemoveExpense(g)
      PROVE  PInv'
  BY <1>8, ExpensePInv
<1>9. CASE Reinicio
  BY <1>9, ReinicioPInv
<1>10. QED
  BY <1>1, <1>2, <1>3, <1>4, <1>5, <1>6, <1>7, <1>8, <1>9 DEF SNext

(* Every reachable state satisfies the inductive invariant.                 *)
THEOREM PipelineInvariante == SSpec => []PInv
BY InitPInv, NextPInv, PTL DEF SSpec

(* The expense a communication is linked to was created for it, whatever    *)
(* classifications run at once, fail or are cut by a restart                *)
(* (processCommunication).                                                  *)
THEOREM EnlaceSiempreDelAviso == SSpec => []GastoConComunicacion
<1>1. PInv => GastoConComunicacion
  BY DEF PInv, Documentos
<1>2. QED
  BY <1>1, PipelineInvariante, PTL

(* The flag of scanEmails is set exactly while a scan runs, and one at most *)
(* runs: neither a failed scan nor a restart leaves it set.                 *)
THEOREM EscaneoSiempreExclusivo == SSpec => []EscaneoExclusivo
<1>1. PInv => EscaneoExclusivo
  BY DEF PInv
<1>2. QED
  BY <1>1, PipelineInvariante, PTL

(* While requests come one at a time, no await fails and no operator gives  *)
(* the communication back, a mail with a Message-ID yields one expense,     *)
(* however often it is scanned and classified (create, generateCandidates). *)
THEOREM AvisoCobradoUnaVez == SSpec => []UnGastoPorAviso
<1>1. ASSUME PInv
      PROVE  UnGastoPorAviso
  <2> SUFFICES ASSUME ~ solape, fallas = 0, NEW i \in DOMAIN gasto, NEW j \in DOMAIN gasto,
                      i # j, Aviso[com[gasto[i].com].mail].mid, ~ com[gasto[i].com].reabierta,
                      com[gasto[i].com].mail = com[gasto[j].com].mail
               PROVE  FALSE
    BY DEF UnGastoPorAviso
  <2>1. UnaPorUna /\ UnicaPorMail /\ gasto[i].com \in DOMAIN com /\ gasto[j].com \in DOMAIN com
    BY <1>1 DEF PInv, Documentos
  <2>2. gasto[i].com = gasto[j].com
    BY <2>1 DEF UnicaPorMail
  <2> QED
    BY <2>1, <2>2 DEF UnaPorUna
<1>2. QED
  BY <1>1, PipelineInvariante, PTL

----------------------------------------------------------------------------
(* The amounts.  A division rounded to the nearest is within half a unit.   *)
LEMMA DivisionEntera ==
  ASSUME NEW a \in Int, NEW b \in Nat \ {0}
  PROVE  a \div b \in Int /\ b * (a \div b) <= a /\ a < b * (a \div b) + b
OBVIOUS

LEMMA RedondeoCerca ==
  ASSUME NEW n \in Int, NEW d \in Nat \ {0}
  PROVE  /\ Redondeo(n, d) \in Int
         /\ (2 * d) * Redondeo(n, d) <= 2 * n + d
         /\ 2 * n - d <= (2 * d) * Redondeo(n, d)
<1>1. PICK a \in Int, b \in Nat \ {0} : a = 2 * n + d /\ b = 2 * d
  OBVIOUS
<1>2. PICK q \in Int : q = a \div b
  BY DivisionEntera
<1>3. b * q <= a /\ a < b * q + b
  BY <1>2, DivisionEntera
<1>4. Redondeo(n, d) = q
  BY <1>1, <1>2 DEF Redondeo
<1>5. b * q = (2 * d) * q
  BY <1>1
<1>6. PICK t \in Int : t = b * q
  BY <1>1, <1>2
<1>7. t <= 2 * n + d /\ 2 * n - d <= t
  BY <1>1, <1>3, <1>6
<1>8. QED
  BY <1>4, <1>5, <1>6, <1>7

LEMMA Dividir ==
  ASSUME NEW a \in Int, NEW w \in Nat \ {0}, w * a <= 0 PROVE a <= 0
OBVIOUS

(* A proposal whose parts add up to the bill but for half a cent each.      *)
Partes(p) == [k \in DOMAIN p |-> p[k].monto]
Cerca(total, monto, n) == -n <= 2 * (total - monto) /\ 2 * (total - monto) <= n
Justa(p) ==
  /\ p.monto \in Nat
  /\ \A k \in DOMAIN p.partidas : p.partidas[k].monto \in Int
  /\ \E n \in Nat : DOMAIN p.partidas = 1 .. n /\ Cerca(SumFunction(Partes(p.partidas)), p.monto, n)

LEMMA ProrrateoJusto ==
  ASSUME NEW m \in Nat, NEW s \in DOMAIN Servicios, Servicios[s] # <<>>
  PROVE  Justa([monto |-> m, partidas |-> Prorrateo(m, Servicios[s])])
<1>1. PICK props : props = Servicios[s]
  OBVIOUS
<1>2. PICK n \in Nat : n = Len(props) /\ DOMAIN props = 1 .. n /\ n # 0
  <2>1. PICK P : props \in Seq(P)
    BY <1>1, ServiciosAssumption
  <2>2. Len(props) \in Nat /\ DOMAIN props = 1 .. Len(props) /\ (Len(props) = 0 => props = <<>>)
    BY <2>1
  <2>3. QED
    BY <1>1, <2>2
<1>3. PICK D : D = 1 .. n
  OBVIOUS
<1>4. IsFiniteSet(D) /\ Cardinality(D) = n
  <2>1. IsFiniteSet(1 .. n) /\ Cardinality(1 .. n) = IF 1 > n THEN 0 ELSE n - 1 + 1
    BY <1>2, FS_Interval
  <2>2. QED
    BY <1>2, <1>3, <2>1
<1>5. PICK P : P = [k \in D |-> props[k].pct]
  OBVIOUS
<1>6. PICK total : total = SumFunctionOnSet(P, D)
  OBVIOUS
<1>7. /\ \A k \in D : P[k] = props[k].pct /\ P[k] \in Nat
      /\ total \in Nat
  <2>1. \A k \in D : P[k] = props[k].pct /\ P[k] \in Nat
    BY <1>1, <1>2, <1>3, <1>5, ServiciosAssumption
  <2>2. QED
    BY <1>4, <1>6, <2>1, SumaNatural
<1>8. total = SumFunction([k \in DOMAIN props |-> props[k].pct])
  BY <1>2, <1>3, <1>5, <1>6 DEF SumFunction
(* The weights.                                                             *)
<1>9. PICK W : W = IF total = 0 THEN Len(props) ELSE total
  OBVIOUS
<1>10. PICK Q : Q = [k \in D |-> IF total = 0 THEN 1 ELSE props[k].pct]
  OBVIOUS
<1>11. W \in Nat \ {0} /\ (\A k \in D : Q[k] \in Nat) /\ Enteros(Q, D) /\ SumFunctionOnSet(Q, D) = W
  <2>1. CASE total = 0
    <3>1. \A k \in D : Q[k] = 1
      BY <1>10, <2>1
    <3>2. SumFunctionOnSet(Q, D) = 1 * Cardinality(D)
      BY <1>4, <3>1, SumaConstante
    <3>3. QED
      BY <1>2, <1>4, <1>9, <2>1, <3>1, <3>2 DEF Enteros
  <2>2. CASE total # 0
    <3>1. Q = P
      BY <1>5, <1>10, <2>2
    <3>2. QED
      BY <1>6, <1>7, <1>9, <2>2, <3>1 DEF Enteros
  <2>3. QED
    BY <2>1, <2>2
(* The parts.                                                               *)
<1>12. PICK M : M = [k \in D |-> Redondeo(m * Q[k], W)]
  OBVIOUS
<1>13. PICK p : p = Prorrateo(m, props)
  OBVIOUS
<1>14. p = [k \in D |-> [agente |-> props[k].propietario, monto |-> M[k]]]
  <2>1. \A k \in D : Q[k] = IF total = 0 THEN 1 ELSE props[k].pct
    BY <1>10
  <2>2. p = [k \in D |-> [agente |-> props[k].propietario, monto |-> Redondeo(m * Q[k], W)]]
    BY <1>2, <1>3, <1>8, <1>9, <1>13, <2>1 DEF Prorrateo
  <2>3. QED
    BY <1>12, <2>2
<1>15. DOMAIN p = D /\ Partes(p) = M
  BY <1>12, <1>14 DEF Partes
<1>16. \A k \in D : /\ M[k] \in Int /\ m * Q[k] \in Int
                    /\ (2 * W) * M[k] <= 2 * (m * Q[k]) + W
                    /\ 2 * (m * Q[k]) - W <= (2 * W) * M[k]
  <2> TAKE k \in D
  <2>1. m * Q[k] \in Int /\ M[k] = Redondeo(m * Q[k], W)
    BY <1>11, <1>12
  <2>2. QED
    BY <1>11, <2>1, RedondeoCerca
(* Adding up.                                                               *)
<1>17. PICK A, B, C, U, Z :
         /\ A = [k \in D |-> (2 * W) * M[k]] /\ B = [k \in D |-> 2 * (m * Q[k]) + W]
         /\ C = [k \in D |-> 2 * (m * Q[k]) - W] /\ U = [k \in D |-> W] /\ Z = [k \in D |-> 0]
  OBVIOUS
<1>18. /\ Enteros(M, D) /\ Enteros(A, D) /\ Enteros(B, D) /\ Enteros(C, D) /\ Enteros(U, D) /\ Enteros(Z, D)
       /\ \A k \in D : A[k] <= B[k] /\ C[k] <= A[k]
  BY <1>11, <1>16, <1>17 DEF Enteros
<1>19. PICK X \in Int : X = SumFunctionOnSet(M, D)
  BY <1>4, <1>18, SumaEntera
<1>20. SumFunctionOnSet(Z, D) = 0 /\ SumFunctionOnSet(U, D) = W * n
  <2>1. \A k \in D : Z[k] = 0 /\ U[k] = W
    BY <1>17
  <2>2. SumFunctionOnSet(Z, D) = 0 * Cardinality(D) /\ SumFunctionOnSet(U, D) = W * Cardinality(D)
    BY <1>4, <1>11, <2>1, SumaConstante
  <2>3. QED
    BY <1>2, <1>4, <2>2
<1>21. SumFunctionOnSet(A, D) = (2 * W) * X
  <2>1. Combina(A, 2 * W, M, Z, D) /\ 2 * W \in Int
    BY <1>11, <1>16, <1>17 DEF Combina
  <2>2. SumFunctionOnSet(A, D) = (2 * W) * SumFunctionOnSet(M, D) + SumFunctionOnSet(Z, D)
    BY <1>4, <1>11, <1>18, <2>1, SumaLineal
  <2>3. QED
    BY <1>11, <1>19, <1>20, <2>2
<1>22. PICK dm \in Int, mW \in Int : dm = 2 * m /\ mW = -W
  BY <1>11
<1>31. SumFunctionOnSet(B, D) = dm * W + W * n
  <2>1. Combina(B, dm, Q, U, D)
    BY <1>11, <1>17, <1>22 DEF Combina
  <2>2. SumFunctionOnSet(B, D) = dm * SumFunctionOnSet(Q, D) + SumFunctionOnSet(U, D)
    BY <1>4, <1>11, <1>18, <2>1, SumaLineal
  <2>3. QED
    BY <1>11, <1>20, <2>2
<1>23. SumFunctionOnSet(C, D) = dm * W - W * n
  <2>1. PICK V : V = [k \in D |-> mW]
    OBVIOUS
  <2>2. Enteros(V, D) /\ Combina(C, dm, Q, V, D) /\ \A k \in D : V[k] = mW
    BY <1>11, <1>17, <1>22, <2>1 DEF Enteros, Combina
  <2>3. SumFunctionOnSet(V, D) = mW * n
    BY <1>4, <2>2, SumaConstante
  <2>4. SumFunctionOnSet(C, D) = dm * SumFunctionOnSet(Q, D) + SumFunctionOnSet(V, D)
    BY <1>4, <1>11, <1>18, <2>2, SumaLineal
  <2>5. mW * n = -(W * n)
    BY <1>2, <1>11, <1>22
  <2>6. dm * W \in Int /\ W * n \in Int
    BY <1>2, <1>11
  <2>7. QED
    BY <1>11, <2>3, <2>4, <2>5, <2>6
<1>24. (2 * W) * X <= dm * W + W * n /\ dm * W - W * n <= (2 * W) * X
  BY <1>4, <1>18, <1>21, <1>31, <1>23, SumaMonotona
<1>25. /\ W * (2 * X - 2 * m - n) = (2 * W) * X - (2 * m) * W - W * n
       /\ W * (2 * m - n - 2 * X) = (2 * m) * W - W * n - (2 * W) * X
  BY <1>2, <1>11
<1>26. 2 * X - 2 * m - n <= 0 /\ 2 * m - n - 2 * X <= 0
  BY <1>2, <1>11, <1>22, <1>24, <1>25, Dividir
<1>27. Cerca(X, m, n)
  BY <1>2, <1>26 DEF Cerca
<1>28. SumFunction(Partes(p)) = X
  BY <1>12, <1>15, <1>19 DEF SumFunction
<1>29. \A k \in DOMAIN p : p[k].monto \in Int
  BY <1>14, <1>15, <1>16
<1>30. QED
  BY <1>1, <1>2, <1>3, <1>13, <1>15, <1>27, <1>28, <1>29 DEF Justa

----------------------------------------------------------------------------
(* The invariant of the amounts.                                            *)
SidVale(s) == s \in DOMAIN Servicios \cup {SinServicio}
SidEnMano(q, k) == IF q.sids[k] = SinServicio /\ q.extraer THEN Aviso[com[k].mail].enTexto ELSE q.sids[k]

ComContable == \A k \in DOMAIN com : com[k].mail \in Mails /\ SidVale(com[k].sid)
GastoContable(e) ==
  /\ e.sid \in DOMAIN Servicios /\ e.monto \in Nat
  /\ e.propuesta = SinPropuesta \/ Justa(e.propuesta)
OpContable(q) ==
  /\ q.paso \in {"clasificar"} \cup EnClasificacion => \A k \in q.coms : SidVale(q.sids[k])
  /\ q.paso = "crear" => SidEnMano(q, q.c) \in DOMAIN Servicios
  /\ q.paso = "asentar" => Justa(q.propuesta)
AsientoJusto(a) ==
  /\ \E n \in Nat : DOMAIN a.debe = 1 .. n /\ Len(a.debe) = n
                    /\ -n <= 2 * (a.haber - a.monto) /\ 2 * (a.haber - a.monto) <= n
  /\ SumFunction(Partes(a.debe)) = a.haber

CuentaInv ==
  /\ ComContable
  /\ \A g \in DOMAIN gasto : GastoContable(gasto[g])
  /\ \A r \in Requests : OpContable(op[r])
  /\ EsSecuencia(asientos) /\ \A k \in DOMAIN asientos : AsientoJusto(asientos[k])

LEMMA CuentaInvAlcanza == CuentaInv => AsientoContabilizado
<1> SUFFICES ASSUME CuentaInv, NEW k \in DOMAIN asientos
             PROVE  LET a == asientos[k]
                        desvio == 2 * (a.haber - a.monto)
                    IN  /\ SumFunction([j \in DOMAIN a.debe |-> a.debe[j].monto]) = a.haber
                        /\ -Len(a.debe) <= desvio /\ desvio <= Len(a.debe)
  BY DEF AsientoContabilizado
<1>1. AsientoJusto(asientos[k])
  BY DEF CuentaInv
<1>2. QED
  BY <1>1 DEF AsientoJusto, Partes

LEMMA InitCuenta == SInit => CuentaInv
<1> SUFFICES ASSUME SInit PROVE CuentaInv
  OBVIOUS
<1>1. DOMAIN com = {} /\ DOMAIN gasto = {} /\ DOMAIN asientos = {} /\ EsSecuencia(asientos)
  BY DEF SInit, EsSecuencia
<1>2. \A r \in Requests : OpContable(op[r])
  BY DEF SInit, SinOp, OpContable, EnClasificacion
<1>3. QED
  BY <1>1, <1>2 DEF CuentaInv, ComContable

(* A step of one request: the mails stay, and what it writes is right.      *)
MismosMails == \A k \in DOMAIN com : k \in DOMAIN com' /\ com'[k].mail = com[k].mail

LEMMA PasoContable ==
  ASSUME PInv, CuentaInv, NEW r \in Requests, NEW q, op' = [op EXCEPT ![r] = q],
         ComContable', MismosMails, \A g \in DOMAIN gasto' : GastoContable(gasto'[g]),
         OpContable(q)',
         EsSecuencia(asientos'), \A k \in DOMAIN asientos' : AsientoJusto(asientos'[k])
  PROVE  CuentaInv'
<1>1. op'[r] = q /\ \A s \in Requests : s # r => op'[s] = op[s]
  BY DEF PInv, Peticiones
<1>2. ASSUME NEW s \in Requests, s # r
      PROVE  OpContable(op[s])'
  <2>1. OpContable(op[s]) /\ EnCurso(op[s]) /\ op'[s] = op[s]
    BY <1>1, <1>2 DEF CuentaInv, PInv, Peticiones
  <2>2. op[s].paso = "crear" => op[s].c \in DOMAIN com
    BY <2>1 DEF EnCurso
  <2>3. QED
    BY <2>1, <2>2 DEF OpContable, SidEnMano, SidVale, MismosMails
<1>3. OpContable(op[r])'
  BY <1>1
<1>4. QED
  BY <1>2, <1>3 DEF CuentaInv

(* The request goes on without writing an expense or an entry.              *)
LEMMA PasoSinGasto ==
  ASSUME PInv, CuentaInv, NEW r \in Requests, NEW q, op' = [op EXCEPT ![r] = q],
         ComContable', MismosMails, gasto' = gasto, asientos' = asientos, OpContable(q)'
  PROVE  CuentaInv'
<1>1. /\ \A g \in DOMAIN gasto' : GastoContable(gasto'[g])
      /\ EsSecuencia(asientos') /\ \A k \in DOMAIN asientos' : AsientoJusto(asientos'[k])
  BY DEF CuentaInv
<1>2. QED
  BY <1>1, PasoContable

LEMMA PasoSinEscribir ==
  ASSUME PInv, CuentaInv, NEW r \in Requests, NEW q, op' = [op EXCEPT ![r] = q],
         UNCHANGED docs, OpContable(q)
  PROVE  CuentaInv'
<1>1. com' = com /\ gasto' = gasto /\ asientos' = asientos
  BY DEF docs
<1>2. ComContable' /\ MismosMails /\ OpContable(q)'
  BY <1>1 DEF CuentaInv, ComContable, MismosMails, OpContable, SidEnMano, SidVale
<1>3. QED
  BY <1>1, <1>2, PasoSinGasto

LEMMA SinOpContable == OpContable(SinOp)
BY DEF SinOp, OpContable, EnClasificacion

(* Steps after which nothing is to be classified or entered.                *)
Indiferentes == {"libre", "descargar", "mails", "buscar", "enlazar", "estado"}
LEMMA IndiferenteContable ==
  ASSUME NEW q, q.paso \in Indiferentes PROVE OpContable(q)
BY DEF OpContable, Indiferentes, EnClasificacion

LEMMA PasoIndiferente ==
  ASSUME PInv, CuentaInv, NEW r \in Requests, NEW q, op' = [op EXCEPT ![r] = q],
         UNCHANGED docs, q.paso \in Indiferentes
  PROVE  CuentaInv'
<1>1. OpContable(q)
  BY IndiferenteContable
<1>2. QED
  BY <1>1, PasoSinEscribir

LEMMA ScanEmailsCuenta ==
  ASSUME PInv, CuentaInv, NEW r \in Requests, NEW auto, ScanEmails(r, auto)
  PROVE  CuentaInv'
<1>1. PICK q : q = [SinOp EXCEPT !.paso = "descargar", !.escaneo = TRUE, !.auto = auto]
  OBVIOUS
<1>2. q.paso = "descargar"
  BY <1>1 DEF SinOp
<1>3. op' = [op EXCEPT ![r] = q] /\ UNCHANGED docs
  BY <1>1 DEF ScanEmails, docs
<1>4. QED
  BY <1>2, <1>3, PasoIndiferente DEF Indiferentes

LEMMA FetchEmailsCuenta ==
  ASSUME PInv, CuentaInv, NEW r \in Requests, FetchEmails(r)
  PROVE  CuentaInv'
<1>1. FormaOp(op[r]) /\ op = [s \in Requests |-> op[s]]
  BY DEF PInv, Peticiones, EnCurso
<1>2. PICK S : op' = [op EXCEPT ![r].paso = "mails", ![r].mails = S]
  BY DEF FetchEmails
<1>3. PICK q : q = [op[r] EXCEPT !.paso = "mails", !.mails = S]
  OBVIOUS
<1>4. q.paso = "mails"
  BY <1>1, <1>3 DEF FormaOp, CamposOp
<1>5. op' = [op EXCEPT ![r] = q] /\ UNCHANGED docs
  BY <1>1, <1>2, <1>3 DEF FetchEmails, docs
<1>6. QED
  BY <1>4, <1>5, PasoIndiferente DEF Indiferentes

(* A new communication is of a mail, with the service that was found in it. *)
LEMMA CreateCuenta ==
  ASSUME PInv, CuentaInv, NEW r \in Requests, NEW m \in Mails, Create(r, m)
  PROVE  CuentaInv'
<1>1. FormaOp(op[r]) /\ op = [s \in Requests |-> op[s]] /\ EsSecuencia(com) /\ ComContable
  BY DEF PInv, Peticiones, EnCurso, Documentos, CuentaInv
<1>2. gasto' = gasto /\ asientos' = asientos
  BY DEF Create
<1>3. CASE Duplicada(m)
  <2>1. PICK q : q = [op[r] EXCEPT !.mails = @ \ {m}]
    OBVIOUS
  <2>2. q.paso = "mails"
    BY <1>1, <2>1 DEF FormaOp, CamposOp, Create
  <2>3. op' = [op EXCEPT ![r] = q] /\ UNCHANGED docs
    BY <1>1, <1>2, <1>3, <2>1 DEF Create, docs
  <2>4. QED
    BY <2>2, <2>3, PasoIndiferente DEF Indiferentes
<1>4. CASE ~ Duplicada(m)
  <2>1. PICK q : q = [op[r] EXCEPT !.mails = @ \ {m},
                                   !.paso = IF op[r].auto THEN "buscar" ELSE "mails",
                                   !.coms = IF op[r].auto THEN {Len(com) + 1} ELSE {}]
    OBVIOUS
  <2>2. q.paso \in Indiferentes
    BY <1>1, <2>1 DEF FormaOp, CamposOp, Indiferentes
  <2>3. op' = [op EXCEPT ![r] = q] /\ com' = Append(com, Comunicacion(m))
    BY <1>1, <1>4, <2>1 DEF Create
  <2>4. PICK e : e = Comunicacion(m)
    OBVIOUS
  <2>5. e.mail = m /\ SidVale(e.sid)
    BY <2>4, AvisoAssumption DEF Comunicacion, SidVale
  <2>6. /\ DOMAIN com' = DOMAIN com \cup {Len(com) + 1}
        /\ \A i \in DOMAIN com : com'[i] = com[i]
        /\ com'[Len(com) + 1] = e
    BY <1>1, <2>3, <2>4, Agregada
  <2>7. ComContable' /\ MismosMails
    BY <1>1, <2>5, <2>6 DEF ComContable, MismosMails, SidVale
  <2>8. OpContable(q)'
    BY <2>2 DEF OpContable, Indiferentes, EnClasificacion
  <2>9. QED
    BY <1>2, <2>3, <2>7, <2>8, PasoSinGasto
<1>5. QED
  BY <1>3, <1>4

LEMMA FinEscaneoCuenta ==
  ASSUME PInv, CuentaInv, NEW r \in Requests, FinEscaneo(r)
  PROVE  CuentaInv'
<1>1. op' = [op EXCEPT ![r] = SinOp] /\ UNCHANGED docs /\ SinOp.paso = "libre"
  BY SinOpVale DEF FinEscaneo
<1>2. QED
  BY <1>1, PasoIndiferente DEF Indiferentes

----------------------------------------------------------------------------
(* The classification.                                                      *)

LEMMA GenerateCandidatesCuenta ==
  ASSUME PInv, CuentaInv, NEW r \in Requests, NEW S, NEW extraer, GenerateCandidates(r, S, extraer)
  PROVE  CuentaInv'
<1>1. PICK q : q = [SinOp EXCEPT !.paso = "buscar", !.coms = S, !.extraer = extraer]
  OBVIOUS
<1>2. q.paso = "buscar"
  BY <1>1 DEF SinOp
<1>3. op' = [op EXCEPT ![r] = q] /\ UNCHANGED docs
  BY <1>1 DEF GenerateCandidates
<1>4. QED
  BY <1>2, <1>3, PasoIndiferente DEF Indiferentes

LEMMA BuscarComunicacionesCuenta ==
  ASSUME PInv, CuentaInv, NEW r \in Requests, BuscarComunicaciones(r)
  PROVE  CuentaInv'
<1>1. /\ FormaOp(op[r]) /\ op = [s \in Requests |-> op[s]] /\ op[r].coms \subseteq DOMAIN com
      /\ ComContable
  BY DEF PInv, Peticiones, EnCurso, CuentaInv
<1>2. PICK S : S = UnprocessedDe(op[r].coms)
  OBVIOUS
<1>3. PICK q : q = [op[r] EXCEPT !.paso = "clasificar", !.coms = S, !.sids = [k \in S |-> com[k].sid]]
  OBVIOUS
<1>4. op' = [op EXCEPT ![r] = q] /\ UNCHANGED docs
  BY <1>1, <1>2, <1>3 DEF BuscarComunicaciones
<1>5. q.paso = "clasificar" /\ q.coms = S /\ q.sids = [k \in S |-> com[k].sid]
  BY <1>1, <1>3 DEF FormaOp, CamposOp
<1>6. S \subseteq DOMAIN com
  BY <1>1, <1>2 DEF UnprocessedDe
<1>7. OpContable(q)
  BY <1>1, <1>5, <1>6 DEF OpContable, ComContable
<1>8. QED
  BY <1>4, <1>7, PasoSinEscribir

LEMMA FinClasificacionCuenta ==
  ASSUME PInv, CuentaInv, NEW r \in Requests, FinClasificacion(r)
  PROVE  CuentaInv'
<1>1. FormaOp(op[r]) /\ UNCHANGED docs
  BY DEF PInv, Peticiones, EnCurso, FinClasificacion
<1>2. PICK q1 : q1 = [op[r] EXCEPT !.paso = "mails", !.sids = <<>>]
  OBVIOUS
<1>3. PICK q : q = IF op[r].escaneo THEN q1 ELSE SinOp
  OBVIOUS
<1>4. op' = [op EXCEPT ![r] = q]
  BY <1>2, <1>3 DEF FinClasificacion
<1>5. q1.paso = "mails" /\ SinOp.paso = "libre"
  BY <1>1, <1>2, SinOpVale DEF FormaOp, CamposOp
<1>6. q.paso \in Indiferentes
  BY <1>3, <1>5 DEF Indiferentes
<1>7. QED
  BY <1>1, <1>4, <1>6, PasoIndiferente

(* A communication rewritten in place.                                      *)
LEMMA ComReescrita ==
  ASSUME PInv, CuentaInv, NEW k \in DOMAIN com, NEW e, com' = [com EXCEPT ![k] = e],
         e.mail = com[k].mail, SidVale(e.sid)
  PROVE  /\ ComContable' /\ MismosMails
         /\ DOMAIN com' = DOMAIN com /\ \A i \in DOMAIN com : com'[i].mail = com[i].mail
<1>1. EsSecuencia(com) /\ ComContable
  BY DEF PInv, Documentos, CuentaInv
<1>2. /\ DOMAIN com' = DOMAIN com
      /\ \A i \in DOMAIN com : com'[i] = IF i = k THEN e ELSE com[i]
  BY <1>1, Cambiada
<1>3. QED
  BY <1>1, <1>2 DEF ComContable, MismosMails, SidVale

(* The service id of a communication in hand is one there is.               *)
LEMMA ProcessCommunicationCuenta ==
  ASSUME PInv, CuentaInv, NEW r \in Requests, NEW k \in DOMAIN com, ProcessCommunication(r, k)
  PROVE  CuentaInv'
<1>1. /\ FormaOp(op[r]) /\ op = [s \in Requests |-> op[s]] /\ FormaCom(com[k])
      /\ ComContable /\ OpContable(op[r]) /\ op[r].paso = "clasificar" /\ k \in op[r].coms
      /\ gasto' = gasto /\ asientos' = asientos
  BY DEF PInv, Peticiones, EnCurso, Documentos, CuentaInv, ProcessCommunication
<1>2. PICK sid : sid = ExtractServiceId(r, k)
  OBVIOUS
<1>3. PICK ns : ns = IF sid = op[r].sids[k] THEN com[k].sid ELSE sid
  OBVIOUS
<1>4. PICK ne : ne = IF sid = SinServicio THEN "ERROR" ELSE com[k].estado
  OBVIOUS
<1>5. PICK np : np = IF sid = SinServicio THEN "clasificar" ELSE "crear"
  OBVIOUS
<1>6. PICK e : e = [com[k] EXCEPT !.sid = ns, !.estado = ne]
  OBVIOUS
<1>7. PICK q : q = [op[r] EXCEPT !.coms = @ \ {k}, !.c = k, !.paso = np]
  OBVIOUS
<1>8. com' = [com EXCEPT ![k] = e] /\ op' = [op EXCEPT ![r] = q]
  BY <1>1, <1>2, <1>3, <1>4, <1>5, <1>6, <1>7 DEF ProcessCommunication
<1>9. e.mail = com[k].mail /\ e.sid = ns
  BY <1>1, <1>6 DEF FormaCom, CamposCom
<1>10. /\ q.paso = np /\ q.coms = op[r].coms \ {k} /\ q.c = k /\ q.sids = op[r].sids
       /\ q.extraer = op[r].extraer
  BY <1>1, <1>7 DEF FormaOp, CamposOp
<1>11. SidVale(sid)
  <2>1. SidVale(op[r].sids[k]) /\ com[k].mail \in Mails
    BY <1>1 DEF OpContable, ComContable
  <2>2. SidVale(Aviso[com[k].mail].enTexto)
    BY <2>1, AvisoAssumption DEF SidVale
  <2>3. QED
    BY <1>2, <2>1, <2>2 DEF ExtractServiceId
<1>12. SidVale(e.sid)
  BY <1>1, <1>3, <1>9, <1>11 DEF ComContable
<1>13. ComContable' /\ MismosMails
  BY <1>8, <1>9, <1>12, ComReescrita
<1>14. SidEnMano(q, k)' = sid
  BY <1>2, <1>10, <1>13 DEF SidEnMano, ExtractServiceId, MismosMails
<1>15. OpContable(q)'
  <2>1. \A i \in q.coms : SidVale(q.sids[i])
    BY <1>1, <1>10 DEF OpContable
  <2>2. np = "crear" => sid \in DOMAIN Servicios
    BY <1>5, <1>11 DEF SidVale
  <2>3. np \in {"clasificar", "crear"}
    BY <1>5
  <2>4. q.paso # "asentar" /\ (q.paso = "crear" => SidEnMano(q, q.c)' \in DOMAIN Servicios)
    BY <1>10, <1>14, <2>2, <2>3
  <2>5. QED
    BY <2>1, <2>4 DEF OpContable, SidVale
<1>16. QED
  BY <1>1, <1>8, <1>13, <1>15, PasoSinGasto

(* A step after which the rest of the list is classified as it was read.    *)
LEMMA SigueClasificando ==
  ASSUME NEW q, NEW p, OpContable(p), p.paso \in {"clasificar"} \cup EnClasificacion,
         q.coms = p.coms, q.sids = p.sids, q.paso \in {"clasificar", "marcar", "leer", "proponer"}
  PROVE  OpContable(q) /\ OpContable(q)'
BY DEF OpContable, EnClasificacion, SidVale

LEMMA CrearGastoCuenta ==
  ASSUME PInv, CuentaInv, NEW r \in Requests, CrearGasto(r)
  PROVE  CuentaInv'
<1>1. /\ FormaOp(op[r]) /\ op = [s \in Requests |-> op[s]] /\ EsSecuencia(gasto)
      /\ ComContable /\ OpContable(op[r]) /\ op[r].paso = "crear" /\ op[r].c \in DOMAIN com
      /\ com' = com /\ asientos' = asientos
  BY DEF PInv, Peticiones, EnCurso, Documentos, CuentaInv, CrearGasto
<1>2. PICK k : k = op[r].c
  OBVIOUS
<1>3. PICK sid, monto : sid = ExtractServiceId(r, k) /\ monto = Aviso[com[k].mail].monto
  OBVIOUS
<1>4. PICK e : e = Gasto(k, sid, monto)
  OBVIOUS
<1>5. PICK n : n = Len(gasto) + 1
  OBVIOUS
<1>6. PICK q : q = [op[r] EXCEPT !.paso = "marcar", !.g = n]
  OBVIOUS
<1>7. gasto' = Append(gasto, e) /\ op' = [op EXCEPT ![r] = q]
  BY <1>1, <1>2, <1>3, <1>4, <1>5, <1>6 DEF CrearGasto
<1>8. sid \in DOMAIN Servicios /\ monto \in Nat
  BY <1>1, <1>2, <1>3, AvisoAssumption DEF OpContable, SidEnMano, ExtractServiceId, ComContable
<1>9. GastoContable(e)
  BY <1>4, <1>8 DEF Gasto, GastoContable
<1>10. q.paso = "marcar" /\ q.coms = op[r].coms /\ q.sids = op[r].sids
  BY <1>1, <1>6 DEF FormaOp, CamposOp
<1>11. OpContable(q)'
  BY <1>1, <1>10, SigueClasificando DEF EnClasificacion
<1>12. ComContable' /\ MismosMails
  BY <1>1 DEF ComContable, MismosMails, SidVale
<1>13. \A g \in DOMAIN gasto' : GastoContable(gasto'[g])
  <2>1. /\ DOMAIN gasto' = DOMAIN gasto \cup {Len(gasto) + 1}
        /\ \A i \in DOMAIN gasto : gasto'[i] = gasto[i]
        /\ gasto'[Len(gasto) + 1] = e
    BY <1>1, <1>7, Agregada
  <2>2. QED
    BY <1>9, <2>1 DEF CuentaInv
<1>14. EsSecuencia(asientos') /\ \A a \in DOMAIN asientos' : AsientoJusto(asientos'[a])
  BY <1>1 DEF CuentaInv
<1>15. QED
  BY <1>7, <1>11, <1>12, <1>13, <1>14, PasoContable

LEMMA MarcarProcesadaCuenta ==
  ASSUME PInv, CuentaInv, NEW r \in Requests, MarcarProcesada(r)
  PROVE  CuentaInv'
<1>1. /\ FormaOp(op[r]) /\ op = [s \in Requests |-> op[s]] /\ op[r].paso = "marcar"
      /\ op[r].c \in DOMAIN com /\ FormaCom(com[op[r].c])
      /\ ComContable /\ OpContable(op[r])
      /\ gasto' = gasto /\ asientos' = asientos
  BY DEF PInv, Peticiones, EnCurso, Documentos, CuentaInv, MarcarProcesada
<1>2. PICK k, g : k = op[r].c /\ g = op[r].g
  OBVIOUS
<1>3. PICK e : e = [com[k] EXCEPT !.estado = "PROCESSED", !.gasto = g]
  OBVIOUS
<1>4. PICK q : q = [op[r] EXCEPT !.paso = "leer"]
  OBVIOUS
<1>5. com' = [com EXCEPT ![k] = e] /\ op' = [op EXCEPT ![r] = q]
  BY <1>1, <1>2, <1>3, <1>4 DEF MarcarProcesada
<1>6. e.mail = com[k].mail /\ e.sid = com[k].sid
  BY <1>1, <1>2, <1>3 DEF FormaCom, CamposCom
<1>7. k \in DOMAIN com /\ SidVale(e.sid)
  BY <1>1, <1>2, <1>6 DEF ComContable
<1>8. ComContable' /\ MismosMails
  BY <1>5, <1>6, <1>7, ComReescrita
<1>9. q.paso = "leer" /\ q.coms = op[r].coms /\ q.sids = op[r].sids
  BY <1>1, <1>4 DEF FormaOp, CamposOp
<1>10. OpContable(q)'
  BY <1>1, <1>9, SigueClasificando DEF EnClasificacion
<1>11. QED
  BY <1>1, <1>5, <1>8, <1>10, PasoSinGasto

LEMMA LeerGastoCuenta ==
  ASSUME PInv, CuentaInv, NEW r \in Requests, LeerGasto(r)
  PROVE  CuentaInv'
<1>1. /\ FormaOp(op[r]) /\ op[r].paso = "leer" /\ OpContable(op[r]) /\ UNCHANGED docs
      /\ op = [s \in Requests |-> op[s]]
  BY DEF PInv, Peticiones, EnCurso, CuentaInv, LeerGasto
<1>2. PICK np : np = IF gasto[op[r].g].estado = "PENDIENTE_VALIDACION" THEN "proponer" ELSE "clasificar"
  OBVIOUS
<1>3. PICK q : q = [op[r] EXCEPT !.paso = np]
  OBVIOUS
<1>4. op' = [op EXCEPT ![r] = q]
  BY <1>1, <1>2, <1>3 DEF LeerGasto
<1>5. q.paso = np /\ np \in {"proponer", "clasificar"} /\ q.coms = op[r].coms /\ q.sids = op[r].sids
  BY <1>1, <1>2, <1>3 DEF FormaOp, CamposOp
<1>6. OpContable(q)
  BY <1>1, <1>5, SigueClasificando DEF EnClasificacion
<1>7. QED
  BY <1>1, <1>4, <1>6, PasoSinEscribir

(* An expense rewritten in place.                                           *)
LEMMA GastoReescrito ==
  ASSUME PInv, CuentaInv, NEW g \in DOMAIN gasto, NEW e,
         gasto' = gasto \/ (gasto' = [gasto EXCEPT ![g] = e] /\ GastoContable(e))
  PROVE  \A i \in DOMAIN gasto' : GastoContable(gasto'[i])
<1>1. EsSecuencia(gasto)
  BY DEF PInv, Documentos
<1>2. CASE gasto' = gasto
  BY <1>2 DEF CuentaInv
<1>3. CASE gasto' = [gasto EXCEPT ![g] = e] /\ GastoContable(e)
  <2>1. /\ DOMAIN gasto' = DOMAIN gasto
        /\ \A i \in DOMAIN gasto : gasto'[i] = IF i = g THEN e ELSE gasto[i]
    BY <1>1, <1>3, Cambiada
  <2>2. QED
    BY <1>3, <2>1 DEF CuentaInv
<1>4. QED
  BY <1>2, <1>3

LEMMA ProponerCuenta ==
  ASSUME PInv, CuentaInv, NEW r \in Requests, Proponer(r)
  PROVE  CuentaInv'
<1>1. /\ FormaOp(op[r]) /\ op = [s \in Requests |-> op[s]] /\ op[r].paso = "proponer"
      /\ op[r].g \in DOMAIN gasto /\ FormaGasto(gasto[op[r].g])
      /\ GastoContable(gasto[op[r].g]) /\ OpContable(op[r])
      /\ com' = com /\ asientos' = asientos
  BY DEF PInv, Peticiones, EnCurso, Documentos, CuentaInv, Proponer
<1>2. PICK g : g = op[r].g
  OBVIOUS
<1>3. PICK s, m : s = gasto[g].sid /\ m = gasto[g].monto
  OBVIOUS
<1>4. s \in DOMAIN Servicios /\ m \in Nat
  BY <1>1, <1>2, <1>3 DEF GastoContable
<1>5. PICK p : p = [monto |-> m, partidas |-> Prorrateo(m, Servicios[s])]
  OBVIOUS
<1>6. PICK e1, e2 : /\ e1 = [gasto[g] EXCEPT !.estado = "DESCARTADO"]
                    /\ e2 = [gasto[g] EXCEPT !.estado = "ASIGNADO", !.propuesta = p]
  OBVIOUS
<1>7. PICK q : q = [op[r] EXCEPT !.paso = "clasificar"]
  OBVIOUS
<1>8. op' = [op EXCEPT ![r] = q]
  BY <1>1, <1>7 DEF Proponer
<1>9. \/ gasto' = gasto
      \/ gasto' = [gasto EXCEPT ![g] = e1]
      \/ Servicios[s] # <<>> /\ gasto' = [gasto EXCEPT ![g] = e2]
  BY <1>1, <1>2, <1>3, <1>5, <1>6 DEF Proponer
<1>10. /\ e1.sid = s /\ e1.monto = m /\ e1.propuesta = gasto[g].propuesta
       /\ e2.sid = s /\ e2.monto = m /\ e2.propuesta = p
  BY <1>1, <1>2, <1>3, <1>6 DEF FormaGasto, CamposGasto
<1>11. GastoContable(e1)
  BY <1>1, <1>2, <1>4, <1>10 DEF GastoContable
<1>12. Servicios[s] # <<>> => GastoContable(e2)
  BY <1>4, <1>5, <1>10, ProrrateoJusto DEF GastoContable
<1>13. g \in DOMAIN gasto
  BY <1>1, <1>2
<1>14. \A i \in DOMAIN gasto' : GastoContable(gasto'[i])
  BY <1>9, <1>11, <1>12, <1>13, GastoReescrito
<1>15. q.paso = "clasificar" /\ q.coms = op[r].coms /\ q.sids = op[r].sids
  BY <1>1, <1>7 DEF FormaOp, CamposOp
<1>16. OpContable(q)'
  BY <1>1, <1>15, SigueClasificando DEF EnClasificacion
<1>17. ComContable' /\ MismosMails
  BY <1>1 DEF CuentaInv, ComContable, MismosMails, SidVale
<1>18. EsSecuencia(asientos') /\ \A a \in DOMAIN asientos' : AsientoJusto(asientos'[a])
  BY <1>1 DEF CuentaInv
<1>19. QED
  BY <1>8, <1>14, <1>16, <1>17, <1>18, PasoContable

----------------------------------------------------------------------------
(* The entries and the operators.                                           *)

LEMMA ProcessDetectedExpenseToEntryCuenta ==
  ASSUME PInv, CuentaInv, NEW r \in Requests, NEW g \in DOMAIN gasto,
         ProcessDetectedExpenseToEntry(r, g)
  PROVE  CuentaInv'
<1>1. PICK p : p = gasto[g].propuesta
  OBVIOUS
<1>2. Justa(p)
  BY <1>1 DEF ProcessDetectedExpenseToEntry, CuentaInv, GastoContable
<1>3. PICK q : q = [SinOp EXCEPT !.paso = "asentar", !.g = g, !.propuesta = p]
  OBVIOUS
<1>4. q.paso = "asentar" /\ q.propuesta = p
  BY <1>3 DEF SinOp
<1>5. op' = [op EXCEPT ![r] = q] /\ UNCHANGED docs
  BY <1>1, <1>3 DEF ProcessDetectedExpenseToEntry
<1>6. OpContable(q)
  BY <1>2, <1>4 DEF OpContable, EnClasificacion
<1>7. QED
  BY <1>5, <1>6, PasoSinEscribir

(* An entry is posted with the parts of the proposal it was given.          *)
LEMMA AsientoDeGastoJusto ==
  ASSUME NEW g, NEW p, Justa(p)
  PROVE  AsientoJusto(AsientoDeGasto(g, p))
<1>1. PICK n \in Nat : DOMAIN p.partidas = 1 .. n /\ Cerca(SumFunction(Partes(p.partidas)), p.monto, n)
  BY DEF Justa
<1>2. PICK T : T = SumFunction(Partes(p.partidas))
  OBVIOUS
<1>3. PICK a : a = AsientoDeGasto(g, p)
  OBVIOUS
<1>4. PICK ag : ag = [k \in DOMAIN p.partidas |-> AgenteFinal(p.partidas[k].agente, Servicios[gasto[g].sid])]
  OBVIOUS
<1>5. /\ a.haber = T /\ a.monto = (IF p.monto # 0 THEN p.monto ELSE T)
      /\ a.debe = [k \in DOMAIN p.partidas |-> [agente |-> ag[k], monto |-> p.partidas[k].monto]]
  BY <1>2, <1>3, <1>4 DEF AsientoDeGasto, Partes
<1>6. DOMAIN a.debe = 1 .. n /\ Partes(a.debe) = Partes(p.partidas)
  BY <1>1, <1>5 DEF Partes
<1>7. Len(a.debe) = n
  BY <1>1, <1>5
<1>8. T \in Int
  <2>1. PICK f, S : f = Partes(p.partidas) /\ S = 1 .. n
    OBVIOUS
  <2>2. DOMAIN f = S /\ \A k \in S : f[k] \in Int
    BY <1>1, <2>1 DEF Partes, Justa
  <2>3. IsFiniteSet(S) /\ Enteros(f, S)
    BY <1>1, <2>1, <2>2, FS_Interval DEF Enteros
  <2>4. QED
    BY <1>2, <2>1, <2>2, <2>3, SumaEntera DEF SumFunction
<1>9. -n <= 2 * (T - a.monto) /\ 2 * (T - a.monto) <= n
  <2>1. CASE p.monto # 0
    BY <1>1, <1>2, <1>5, <2>1 DEF Cerca
  <2>2. CASE p.monto = 0
    BY <1>1, <1>5, <1>8, <2>2
  <2>3. QED
    BY <2>1, <2>2
<1>10. QED
  BY <1>2, <1>3, <1>5, <1>6, <1>7, <1>9 DEF AsientoJusto

LEMMA CrearAsientoCuenta ==
  ASSUME PInv, CuentaInv, NEW r \in Requests, CrearAsiento(r)
  PROVE  CuentaInv'
<1>1. /\ FormaOp(op[r]) /\ op = [s \in Requests |-> op[s]] /\ op[r].paso = "asentar"
      /\ Justa(op[r].propuesta) /\ EsSecuencia(asientos)
      /\ com' = com /\ gasto' = gasto
  BY DEF PInv, Peticiones, EnCurso, CuentaInv, OpContable, CrearAsiento
<1>2. PICK n : n = Len(asientos) + 1
  OBVIOUS
<1>3. PICK a : a = AsientoDeGasto(op[r].g, op[r].propuesta)
  OBVIOUS
<1>4. PICK q : q = [op[r] EXCEPT !.paso = "enlazar", !.a = n]
  OBVIOUS
<1>5. asientos' = Append(asientos, a) /\ op' = [op EXCEPT ![r] = q]
  BY <1>1, <1>2, <1>3, <1>4 DEF CrearAsiento
<1>6. AsientoJusto(a)
  BY <1>1, <1>3, AsientoDeGastoJusto
<1>7. q.paso = "enlazar"
  BY <1>1, <1>4 DEF FormaOp, CamposOp
<1>8. OpContable(q)'
  BY <1>7 DEF OpContable, EnClasificacion
<1>9. ComContable' /\ MismosMails /\ \A i \in DOMAIN gasto' : GastoContable(gasto'[i])
  BY <1>1 DEF CuentaInv, ComContable, MismosMails, SidVale
<1>10. EsSecuencia(asientos') /\ \A k \in DOMAIN asientos' : AsientoJusto(asientos'[k])
  <2>1. /\ EsSecuencia(asientos') /\ DOMAIN asientos' = DOMAIN asientos \cup {Len(asientos) + 1}
        /\ \A i \in DOMAIN asientos : asientos'[i] = asientos[i]
        /\ asientos'[Len(asientos) + 1] = a
    BY <1>1, <1>5, Agregada
  <2>2. QED
    BY <1>6, <2>1 DEF CuentaInv
<1>11. QED
  BY <1>5, <1>8, <1>9, <1>10, PasoContable

LEMMA EnlazarAsientoCuenta ==
  ASSUME PInv, CuentaInv, NEW r \in Requests, EnlazarAsiento(r)
  PROVE  CuentaInv'
<1>1. /\ op[r].paso = "enlazar" /\ op[r].g \in DOMAIN gasto /\ FormaGasto(gasto[op[r].g])
      /\ GastoContable(gasto[op[r].g])
      /\ op' = [op EXCEPT ![r] = SinOp] /\ com' = com /\ asientos' = asientos
  BY DEF PInv, Peticiones, EnCurso, Documentos, CuentaInv, EnlazarAsiento
<1>2. PICK g, a : g = op[r].g /\ a = op[r].a
  OBVIOUS
<1>3. PICK e : e = [gasto[g] EXCEPT !.estado = "ASIGNADO", !.asiento = a]
  OBVIOUS
<1>4. gasto' = gasto \/ gasto' = [gasto EXCEPT ![g] = e]
  BY <1>2, <1>3 DEF EnlazarAsiento
<1>5. g \in DOMAIN gasto /\ e.sid = gasto[g].sid /\ e.monto = gasto[g].monto
      /\ e.propuesta = gasto[g].propuesta
  BY <1>1, <1>2, <1>3 DEF FormaGasto, CamposGasto
<1>6. GastoContable(e)
  BY <1>1, <1>2, <1>5 DEF GastoContable
<1>7. \A i \in DOMAIN gasto' : GastoContable(gasto'[i])
  BY <1>4, <1>5, <1>6, GastoReescrito
<1>8. OpContable(SinOp)'
  BY DEF SinOp, OpContable, EnClasificacion
<1>9. ComContable' /\ MismosMails
  BY <1>1 DEF CuentaInv, ComContable, MismosMails, SidVale
<1>10. EsSecuencia(asientos') /\ \A k \in DOMAIN asientos' : AsientoJusto(asientos'[k])
  BY <1>1 DEF CuentaInv
<1>11. QED
  BY <1>1, <1>7, <1>8, <1>9, <1>10, PasoContable

LEMMA UpdateStatusCuenta ==
  ASSUME PInv, CuentaInv, NEW r \in Requests, NEW k \in DOMAIN com, NEW e, UpdateStatus(r, k, e)
  PROVE  CuentaInv'
<1>1. PICK l : l = com[k].estado
  OBVIOUS
<1>2. PICK q : q = [SinOp EXCEPT !.paso = "estado", !.c = k, !.leido = l, !.nuevo = e]
  OBVIOUS
<1>3. q.paso = "estado"
  BY <1>2 DEF SinOp
<1>4. op' = [op EXCEPT ![r] = q] /\ UNCHANGED docs
  BY <1>1, <1>2 DEF UpdateStatus
<1>5. QED
  BY <1>3, <1>4, PasoIndiferente DEF Indiferentes

LEMMA GuardarStatusCuenta ==
  ASSUME PInv, CuentaInv, NEW r \in Requests, GuardarStatus(r)
  PROVE  CuentaInv'
<1>1. /\ op[r].paso = "estado" /\ op[r].c \in DOMAIN com /\ FormaCom(com[op[r].c]) /\ ComContable
      /\ op' = [op EXCEPT ![r] = SinOp] /\ gasto' = gasto /\ asientos' = asientos
  BY DEF PInv, Peticiones, EnCurso, Documentos, CuentaInv, GuardarStatus
<1>2. PICK k : k = op[r].c
  OBVIOUS
<1>3. PICK ne, nr : /\ ne = (IF op[r].nuevo = op[r].leido THEN com[k].estado ELSE op[r].nuevo)
                    /\ nr = (com[k].reabierta \/ op[r].nuevo = "UNPROCESSED")
  OBVIOUS
<1>4. PICK e : e = [com[k] EXCEPT !.estado = ne, !.reabierta = nr]
  OBVIOUS
<1>5. com' = [com EXCEPT ![k] = e]
  BY <1>2, <1>3, <1>4 DEF GuardarStatus
<1>6. k \in DOMAIN com /\ e.mail = com[k].mail /\ e.sid = com[k].sid
  BY <1>1, <1>2, <1>4 DEF FormaCom, CamposCom
<1>7. SidVale(e.sid)
  BY <1>1, <1>6 DEF ComContable
<1>8. ComContable' /\ MismosMails
  BY <1>5, <1>6, <1>7, ComReescrita
<1>9. OpContable(SinOp)'
  BY DEF SinOp, OpContable, EnClasificacion
<1>10. QED
  BY <1>1, <1>8, <1>9, PasoSinGasto

LEMMA ExpenseCuenta ==
  ASSUME PInv, CuentaInv, NEW g \in DOMAIN gasto,
         (\E e \in EstadosGasto : UpdateExpense(g, e)) \/ RemoveExpense(g)
  PROVE  CuentaInv'
<1>1. /\ com' = com /\ op' = op /\ asientos' = asientos /\ FormaGasto(gasto[g])
      /\ GastoContable(gasto[g])
  BY DEF UpdateExpense, RemoveExpense, PInv, Documentos, CuentaInv
<1>2. PICK e : gasto' = [gasto EXCEPT ![g].estado = e]
  BY DEF UpdateExpense, RemoveExpense
<1>3. PICK d : d = [gasto[g] EXCEPT !.estado = e]
  OBVIOUS
<1>4. gasto' = [gasto EXCEPT ![g] = d]
  BY <1>2, <1>3
<1>5. d.sid = gasto[g].sid /\ d.monto = gasto[g].monto /\ d.propuesta = gasto[g].propuesta
  BY <1>1, <1>3 DEF FormaGasto, CamposGasto
<1>6. GastoContable(d)
  BY <1>1, <1>5 DEF GastoContable
<1>7. \A i \in DOMAIN gasto' : GastoContable(gasto'[i])
  BY <1>4, <1>6, GastoReescrito
<1>8. QED
  BY <1>1, <1>7 DEF CuentaInv, ComContable, OpContable, SidEnMano, SidVale

----------------------------------------------------------------------------
(* Failures.                                                                *)

LEMMA FallaCuenta ==
  ASSUME PInv, CuentaInv, NEW r \in Requests, Falla(r)
  PROVE  CuentaInv'
<1>1. FormaOp(op[r]) /\ OpContable(op[r]) /\ op = [s \in Requests |-> op[s]] /\ UNCHANGED docs
  BY DEF PInv, Peticiones, EnCurso, CuentaInv, Falla
<1>2. PICK q1, q2 : /\ q1 = [op[r] EXCEPT !.paso = "clasificar"]
                    /\ q2 = [op[r] EXCEPT !.paso = "mails", !.coms = {}]
  OBVIOUS
<1>3. PICK q : q = CASE op[r].paso \in EnClasificacion -> q1
                     [] op[r].paso = "buscar" /\ op[r].escaneo -> q2
                     [] OTHER -> SinOp
  OBVIOUS
<1>4. op' = [op EXCEPT ![r] = q]
  BY <1>2, <1>3 DEF Falla
<1>5. /\ q1.paso = "clasificar" /\ q1.coms = op[r].coms /\ q1.sids = op[r].sids
      /\ q2.paso = "mails" /\ SinOp.paso = "libre"
  BY <1>1, <1>2, SinOpVale DEF FormaOp, CamposOp
<1>6. OpContable(q2) /\ OpContable(SinOp)
  BY <1>5, IndiferenteContable DEF Indiferentes
<1>7. op[r].paso \in EnClasificacion => OpContable(q1)
  BY <1>1, <1>5, SigueClasificando
<1>8. op[r].paso \in EnClasificacion => op[r].paso # "buscar"
  BY DEF EnClasificacion
<1>9. OpContable(q)
  BY <1>3, <1>6, <1>7, <1>8
<1>10. QED
  BY <1>1, <1>4, <1>9, PasoSinEscribir

LEMMA ReinicioCuenta ==
  ASSUME PInv, CuentaInv, Reinicio
  PROVE  CuentaInv'
<1>1. com' = com /\ gasto' = gasto /\ asientos' = asientos /\ op' = [r \in Requests |-> SinOp]
  BY DEF Reinicio, docs
<1>2. OpContable(SinOp)'
  BY DEF SinOp, OpContable, EnClasificacion
<1>3. \A r \in Requests : OpContable(op[r])'
  BY <1>1, <1>2
<1>4. QED
  BY <1>1, <1>3 DEF CuentaInv, ComContable, SidVale

LEMMA AtenderCuenta ==
  ASSUME PInv, CuentaInv, NEW r \in Requests, Atender(r)
  PROVE  CuentaInv'
BY CreateCuenta, FinEscaneoCuenta, BuscarComunicacionesCuenta, FinClasificacionCuenta,
   ProcessCommunicationCuenta, CrearGastoCuenta, MarcarProcesadaCuenta, LeerGastoCuenta,
   ProponerCuenta, CrearAsientoCuenta, EnlazarAsientoCuenta, GuardarStatusCuenta
   DEF Atender

LEMMA NextCuenta == PInv /\ CuentaInv /\ [SNext]_svars => CuentaInv'
<1> SUFFICES ASSUME PInv, CuentaInv, [SNext]_svars
             PROVE  CuentaInv'
  OBVIOUS
<1>1. CASE UNCHANGED svars
  BY <1>1 DEF svars, docs, CuentaInv, ComContable, OpContable, SidEnMano, SidVale
<1>2. ASSUME NEW r \in Requests,
             (\E auto \in AutoCandidatos : ScanEmails(r, auto)) \/ FetchEmails(r)
      PROVE  CuentaInv'
  BY <1>2, ScanEmailsCuenta, FetchEmailsCuenta
<1>3. ASSUME NEW r \in Requests, NEW S, NEW extraer, GenerateCandidates(r, S, extraer)
      PROVE  CuentaInv'
  BY <1>3, GenerateCandidatesCuenta
<1>4. ASSUME NEW r \in Requests,
             \/ \E g \in DOMAIN gasto : ProcessDetectedExpenseToEntry(r, g)
             \/ \E k \in DOMAIN com, e \in EstadosOperador : UpdateStatus(r, k, e)
      PROVE  CuentaInv'
  BY <1>4, ProcessDetectedExpenseToEntryCuenta, UpdateStatusCuenta
<1>5. ASSUME NEW r \in Requests, Atender(r) \/ Falla(r)
      PROVE  CuentaInv'
  BY <1>5, AtenderCuenta, FallaCuenta
<1>6. ASSUME NEW g \in DOMAIN gasto,
             (\E e \in EstadosGasto : UpdateExpense(g, e)) \/ RemoveExpense(g)
      PROVE  CuentaInv'
  BY <1>6, ExpenseCuenta
<1>7. CASE Reinicio
  BY <1>7, ReinicioCuenta
<1>8. QED
  BY <1>1, <1>2, <1>3, <1>4, <1>5, <1>6, <1>7 DEF SNext

(* The debits of every entry add up to what is owed to the provider, and    *)
(* stay within half a cent per property of the bill, whatever percentages   *)
(* the properties carry and however the requests interleave, fail or are    *)
(* cut by a restart (processDetectedUtilityInvoices,                        *)
(* processDetectedExpenseToEntry).                                          *)
THEOREM AsientoSiempreContabilizado == SSpec => []AsientoContabilizado
<1>1. SInit => CuentaInv
  BY InitCuenta
<1>2. PInv /\ CuentaInv /\ [SNext]_svars => CuentaInv'
  BY NextCuenta
<1>3. CuentaInv => AsientoContabilizado
  BY CuentaInvAlcanza
<1>4. QED
  BY <1>1, <1>2, <1>3, PipelineInvariante, PTL DEF SSpec
=============================================================================
