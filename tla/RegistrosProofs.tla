--------------------------- MODULE RegistrosProofs ---------------------------
(***************************************************************************)
(* Proofs about the components of Registros, for every set of requests and *)
(* every number of deaths: one section for each, with its inductive        *)
(* invariant.                                                              *)
(***************************************************************************)
EXTENDS Registros, SequenceTheorems, Sumas, TLAPS

Nadie == [paso |-> "libre"]

(* At most one request is in progress.                                      *)
UnaSola == \A r, s \in Requests : op[r] # Nadie /\ op[s] # Nadie => r = s

----------------------------------------------------------------------------
(* RedLinkScan.  What a scan found is in the hands of a callback, on the    *)
(* array or lost; and what it has walked of the array is registered.        *)

EnSusManos(m) == m \in parseando \cup perdidos \/ \E j \in DOMAIN emails : emails[j] = m
Registrado(m) == m \in Ilegibles \cup perdidos \/ movimientos[Repite[m]] = 1

CamposEscaneo == {"paso", "hallados", "i"}
UnEscaneo(q) ==
  /\ q = [f \in CamposEscaneo |-> q[f]]
  /\ q.paso # "libre" /\ q.hallados \subseteq Llegan /\ q.i \in Nat \ {0}
Andado(q) ==
  /\ \A m \in q.hallados : EnSusManos(m)
  /\ q.i <= Len(emails) + 1
  /\ \A j \in DOMAIN emails : j < q.i => Registrado(emails[j])
Escaneo(q) ==
  /\ UnEscaneo(q)
  /\ q.paso \in {"leyendo", "procesar", "insertar"} => Andado(q)
  /\ q.paso = "insertar" => q.i \in DOMAIN emails

EscaneoInv ==
  /\ parseando \subseteq Llegan /\ emails \in Seq(Llegan)
  /\ movimientos \in [Llegan -> {0, 1}]
  /\ op = [r \in Requests |-> op[r]]
  /\ \A r \in Requests : op[r] # Nadie => Escaneo(op[r])
  /\ UnaSola
  /\ isScanning \in BOOLEAN /\ (isScanning <=> \E r \in Requests : op[r] # Nadie)
  /\ \A m \in buscados : m \in Llegan /\ Registrado(m)

(* What the component calls Cardinality is Cardinality.                     *)
LEMMA CardinalEscaner == \A S : Escaner!Cardinality(S) = Cardinality(S)
BY DEF Escaner!Cardinality, Cardinality

(* Before the first request.                                                *)
LEMMA InitPeticiones ==
  ASSUME Init
  PROVE  op = [r \in Requests |-> Nadie] /\ ops = 0 /\ solape = FALSE /\ muertes = 0
BY DEF Init, Inventarios!InitPeticiones, Inventarios!Libre, Nadie

LEMMA InitEscaneo == Init => EscaneoInv
<1> SUFFICES ASSUME Init PROVE EscaneoInv
  OBVIOUS
<1>1. /\ isScanning = FALSE /\ emails = <<>> /\ parseando = {}
      /\ movimientos = [m \in Llegan |-> 0] /\ buscados = {}
  BY DEF Init, Escaner!InitRedlink
<1>2. op = [r \in Requests |-> op[r]] /\ \A r \in Requests : op[r] = Nadie
  BY InitPeticiones
<1>3. emails \in Seq(Llegan) /\ movimientos \in [Llegan -> {0, 1}]
  BY <1>1
<1>4. QED
  BY <1>1, <1>2, <1>3 DEF EscaneoInv, UnaSola

(* The one request of the scan goes on, and nothing registered is lost.     *)
LEMMA SigueElEscaneo ==
  ASSUME EscaneoInv, NEW r \in Requests, NEW q, op[r] # Nadie, op' = [op EXCEPT ![r] = q],
         Escaneo(q)', parseando' \subseteq Llegan, emails' \in Seq(Llegan),
         movimientos' \in [Llegan -> {0, 1}], \A m \in Llegan : Registrado(m) => Registrado(m)',
         isScanning' = isScanning, buscados' = buscados
  PROVE  EscaneoInv'
<1>1. q # Nadie
  BY DEF Escaneo, UnEscaneo, Nadie
<1>2. op' = [s \in Requests |-> op'[s]] /\ op'[r] = q /\ \A s \in Requests : s # r => op'[s] = Nadie
  BY DEF EscaneoInv, UnaSola
<1>3. UnaSola' /\ (isScanning <=> \E s \in Requests : op[s] # Nadie)'
  BY <1>1, <1>2 DEF EscaneoInv, UnaSola
<1>4. ASSUME NEW s \in Requests, op'[s] # Nadie
      PROVE  (Escaneo(op[s]))'
  <2>1. op'[s] = q
    BY <1>2, <1>4
  <2>2. QED
    BY <2>1
<1>5. \A m \in buscados' : m \in Llegan /\ Registrado(m)'
  BY DEF EscaneoInv
<1>6. QED
  BY <1>2, <1>3, <1>4, <1>5 DEF EscaneoInv

(* The scan ends, or a restart ends it.                                     *)
LEMMA TerminaElEscaneo ==
  ASSUME EscaneoInv, op' = [r \in Requests |-> op'[r]], \A r \in Requests : op'[r] = Nadie,
         Escaner!Soltar, movimientos' = movimientos, \A m \in buscados' : m \in Llegan /\ Registrado(m)'
  PROVE  EscaneoInv'
<1>1. isScanning' = FALSE /\ emails' = <<>> /\ parseando' = {}
  BY DEF Escaner!Soltar
<1>2. emails' \in Seq(Llegan)
  BY <1>1
<1>3. QED
  BY <1>1, <1>2 DEF EscaneoInv, UnaSola

(* A notice that is pushed on the array, or lost, is still in hand.         *)
LEMMA AvisosEnMano ==
  ASSUME EscaneoInv, emails' \in Seq(Llegan), Len(emails) <= Len(emails'),
         \A j \in DOMAIN emails : emails'[j] = emails[j],
         \A m \in parseando : EnSusManos(m)', perdidos \subseteq perdidos'
  PROVE  \A m : EnSusManos(m) => EnSusManos(m)'
<1>1. DOMAIN emails = 1 .. Len(emails) /\ DOMAIN emails' = 1 .. Len(emails')
      /\ Len(emails) \in Nat /\ Len(emails') \in Nat
  BY DEF EscaneoInv
<1>2. DOMAIN emails \subseteq DOMAIN emails'
  BY <1>1
<1>3. QED
  BY <1>2 DEF EnSusManos

(* ScanEmails, behind the flag.                                             *)
LEMMA ScanEmailsInv ==
  ASSUME EscaneoInv, NEW r \in Requests, Escaner!ScanEmails(r)
  PROVE  EscaneoInv'
<1> DEFINE q == [paso |-> "conectar", hallados |-> {}, i |-> 1]
<1>1. /\ op' = [op EXCEPT ![r] = q] /\ isScanning' = TRUE /\ ~ isScanning
      /\ parseando' = parseando /\ emails' = emails /\ movimientos' = movimientos
      /\ buscados' = buscados /\ perdidos' = perdidos
  BY DEF Escaner!ScanEmails, Escaner!Comenzar, Escaner!fetch, Escaner!guardado
<1>2. q = [f \in CamposEscaneo |-> q[f]] /\ q # Nadie /\ q.paso = "conectar" /\ q.i = 1 /\ q.hallados = {}
  BY DEF CamposEscaneo, Nadie
<1> HIDE DEF q
<1>3. \A x : Registrado(x)' <=> Registrado(x)
  BY <1>1 DEF Registrado
<1>4. Escaneo(q)'
  BY <1>2 DEF Escaneo, UnEscaneo
<1>5. op' = [s \in Requests |-> op'[s]] /\ op'[r] = q /\ \A s \in Requests : s # r => op'[s] = Nadie
  BY <1>1 DEF EscaneoInv
<1>6. QED
  BY <1>1, <1>2, <1>3, <1>4, <1>5 DEF EscaneoInv, UnaSola

(* openBox and search: every notice found is left to a callback.            *)
LEMMA BuscarInv ==
  ASSUME EscaneoInv, NEW r \in Requests, Escaner!Buscar(r)
  PROVE  EscaneoInv'
<1>1. PICK hallados \in SUBSET Llegan :
        /\ op' = [op EXCEPT ![r] = [paso |-> IF hallados = {} THEN "procesar" ELSE "leyendo",
                                     hallados |-> hallados, i |-> 1]]
        /\ isScanning' = isScanning /\ parseando' = hallados /\ emails' = <<>>
        /\ movimientos' = movimientos /\ buscados' = buscados /\ perdidos' = perdidos
        /\ op[r].paso = "conectar"
  BY DEF Escaner!Buscar, Escaner!Seguir, Escaner!guardado
<1> DEFINE q == [paso |-> IF hallados = {} THEN "procesar" ELSE "leyendo", hallados |-> hallados, i |-> 1]
<1>2. /\ q = [f \in CamposEscaneo |-> q[f]] /\ q.paso \in {"procesar", "leyendo"}
      /\ q.i = 1 /\ q.hallados = hallados /\ op' = [op EXCEPT ![r] = q]
  BY <1>1 DEF CamposEscaneo
<1>3. hallados \subseteq Llegan
  OBVIOUS
<1> HIDE DEF q
<1>4. \A x : Registrado(x)' <=> Registrado(x)
  BY <1>1 DEF Registrado
<1>5. \A m \in hallados : EnSusManos(m)'
  BY <1>1 DEF EnSusManos
<1>6. emails' \in Seq(Llegan) /\ Len(emails') = 0 /\ DOMAIN emails' = {}
  BY <1>1
<1>7. Escaneo(q)'
  <2>1. UnEscaneo(q)
    BY <1>2, <1>3 DEF UnEscaneo
  <2>2. Andado(q)'
    BY <1>2, <1>5, <1>6 DEF Andado
  <2>3. QED
    BY <2>1, <2>2, <1>2 DEF Escaneo
<1>8. op[r] # Nadie
  BY <1>1 DEF Nadie
<1>9. movimientos' \in [Llegan -> {0, 1}]
  BY <1>1 DEF EscaneoInv
<1>10. QED
  BY <1>1, <1>2, <1>4, <1>6, <1>7, <1>8, <1>9, SigueElEscaneo

(* A callback pushes its notice, or loses it.                               *)
LEMMA ParsearInv ==
  ASSUME EscaneoInv, NEW m \in Llegan, Escaner!Parsear(m)
  PROVE  EscaneoInv'
<1>1. /\ m \in parseando /\ parseando' = parseando \ {m}
      /\ movimientos' = movimientos /\ buscados' = buscados /\ isScanning' = isScanning /\ op' = op
      /\ \/ emails' = Append(emails, m) /\ perdidos' = perdidos
         \/ emails' = emails /\ perdidos' = perdidos \cup {m}
  BY DEF Escaner!Parsear, Escaner!guardado, Escaner!banco, Escaner!peticiones
<1>2. emails \in Seq(Llegan) /\ parseando \subseteq Llegan
  BY DEF EscaneoInv
<1>3. /\ emails' \in Seq(Llegan) /\ Len(emails) <= Len(emails')
      /\ \A j \in DOMAIN emails : emails'[j] = emails[j]
      /\ DOMAIN emails = 1 .. Len(emails) /\ DOMAIN emails' = 1 .. Len(emails')
      /\ Len(emails) \in Nat /\ Len(emails') \in Nat
  BY <1>1, <1>2
<1>4. m \in perdidos' \/ (Len(emails) + 1 \in DOMAIN emails' /\ emails'[Len(emails) + 1] = m)
  BY <1>1, <1>2
<1>5. \A x \in parseando : EnSusManos(x)'
  BY <1>1, <1>4 DEF EnSusManos
<1>6. \A x : EnSusManos(x) => EnSusManos(x)'
  BY <1>1, <1>3, <1>5, AvisosEnMano
<1>7. \A x : Registrado(x) => Registrado(x)'
  BY <1>1 DEF Registrado
<1>8. ASSUME NEW r \in Requests, op'[r] # Nadie
      PROVE  (Escaneo(op[r]))'
  <2>1. Escaneo(op[r])
    BY <1>1, <1>8 DEF EscaneoInv
  <2>2. ASSUME NEW q, Escaneo(q)
        PROVE  Escaneo(q)'
    <3>1. q.i \in Nat
      BY <2>2 DEF Escaneo, UnEscaneo
    <3>2. ASSUME Andado(q)
          PROVE  Andado(q)'
      <4>1. q.i <= Len(emails) + 1 /\ q.i <= Len(emails') + 1
        BY <3>1, <3>2, <1>3 DEF Andado
      <4>2. ASSUME NEW j \in DOMAIN emails', j < q.i
            PROVE  Registrado(emails[j])'
        <5>1. j \in DOMAIN emails /\ emails'[j] = emails[j]
          BY <4>1, <4>2, <3>1, <1>3
        <5>2. Registrado(emails[j])
          BY <5>1, <4>2, <3>2 DEF Andado
        <5>3. QED
          BY <5>1, <5>2, <1>7
      <4>3. \A x \in q.hallados : EnSusManos(x)'
        BY <3>2, <1>6 DEF Andado
      <4>4. QED
        BY <4>1, <4>2, <4>3 DEF Andado
    <3>3. q.i \in DOMAIN emails => q.i \in DOMAIN emails'
      BY <1>3
    <3>4. QED
      BY <2>2, <3>2, <3>3 DEF Escaneo
  <2>3. QED
    BY <1>1, <2>1, <2>2
<1>9. QED
  BY <1>1, <1>3, <1>7, <1>8 DEF EscaneoInv, UnaSola

(* Nothing changes but what the request goes on with.                       *)
LEMMA SoloElPaso ==
  ASSUME EscaneoInv, NEW r \in Requests, NEW q, op[r] # Nadie, op' = [op EXCEPT ![r] = q],
         Escaneo(q), UNCHANGED redlinkVars
  PROVE  EscaneoInv'
<1>1. /\ parseando' = parseando /\ emails' = emails /\ movimientos' = movimientos
      /\ isScanning' = isScanning /\ buscados' = buscados /\ perdidos' = perdidos
  BY DEF redlinkVars
<1>2. \A x : Registrado(x)' <=> Registrado(x)
  BY <1>1 DEF Registrado
<1>3. \A x : EnSusManos(x)' <=> EnSusManos(x)
  BY <1>1 DEF EnSusManos
<1>4. Andado(q) => Andado(q)'
  BY <1>1, <1>2, <1>3 DEF Andado
<1>5. Escaneo(q)'
  BY <1>1, <1>4 DEF Escaneo
<1>6. parseando' \subseteq Llegan /\ emails' \in Seq(Llegan) /\ movimientos' \in [Llegan -> {0, 1}]
  BY <1>1 DEF EscaneoInv
<1>7. QED
  BY <1>1, <1>2, <1>5, <1>6, SigueElEscaneo

(* The end of the fetch, or a connection that breaks in it.                 *)
LEMMA FinDelFetchInv ==
  ASSUME EscaneoInv, NEW r \in Requests, Escaner!FinDelFetch(r) \/ Escaner!Colgarse(r)
  PROVE  EscaneoInv'
<1>1. PICK p \in {"procesar", "colgado"} : op' = [op EXCEPT ![r] = [op[r] EXCEPT !.paso = p]]
  BY DEF Escaner!FinDelFetch, Escaner!Colgarse, Escaner!Seguir
<1>2. op[r].paso = "leyendo" /\ UNCHANGED redlinkVars
  BY DEF Escaner!FinDelFetch, Escaner!Colgarse, Escaner!redlinkVars, redlinkVars
<1>3. op[r] # Nadie
  BY <1>2 DEF Nadie
<1>4. PICK q : q = op[r] /\ Escaneo(q) /\ q.paso = "leyendo"
  BY <1>2, <1>3 DEF EscaneoInv
<1>5. PICK q1 : q1 = [q EXCEPT !.paso = p]
  OBVIOUS
<1>6. /\ q1 = [f \in CamposEscaneo |-> q1[f]]
      /\ q1.paso = p /\ q1.hallados = q.hallados /\ q1.i = q.i
  BY <1>4, <1>5 DEF Escaneo, UnEscaneo, CamposEscaneo
<1>7. UnEscaneo(q1)
  BY <1>4, <1>6 DEF Escaneo, UnEscaneo
<1>8. Andado(q1)
  BY <1>4, <1>6 DEF Escaneo, Andado
<1>9. Escaneo(q1)
  BY <1>6, <1>7, <1>8 DEF Escaneo
<1>10. QED
  BY <1>1, <1>2, <1>3, <1>4, <1>5, <1>9, SoloElPaso

(* parseEmail and findOne: a notice that is unreadable, or stored already,  *)
(* is walked past.                                                          *)
LEMMA ProcesarInv ==
  ASSUME EscaneoInv, NEW r \in Requests, Escaner!Procesar(r)
  PROVE  EscaneoInv'
<1>1. /\ op[r].paso = "procesar" /\ op[r].i <= Len(emails) /\ UNCHANGED redlinkVars
      /\ op' = [op EXCEPT ![r] =
           IF emails[op[r].i] \notin Ilegibles /\ movimientos[Repite[emails[op[r].i]]] = 0
           THEN [op[r] EXCEPT !.paso = "insertar"] ELSE [op[r] EXCEPT !.i = @ + 1]]
  BY DEF Escaner!Procesar, Escaner!Seguir, Escaner!redlinkVars, redlinkVars
<1>2. op[r] # Nadie
  BY <1>1 DEF Nadie
<1>3. PICK q : q = op[r] /\ Escaneo(q) /\ q.paso = "procesar"
  BY <1>1, <1>2 DEF EscaneoInv
<1>4. UnEscaneo(q) /\ Andado(q) /\ q.i \in Nat /\ q.i <= Len(emails)
  BY <1>1, <1>3 DEF Escaneo, UnEscaneo
<1>5. emails \in Seq(Llegan) /\ q.i \in DOMAIN emails /\ emails[q.i] \in Llegan
      /\ DOMAIN emails = 1 .. Len(emails) /\ Len(emails) \in Nat
  BY <1>4 DEF EscaneoInv, UnEscaneo
<1>6. CASE emails[q.i] \notin Ilegibles /\ movimientos[Repite[emails[q.i]]] = 0
  <2>1. PICK q1 : q1 = [q EXCEPT !.paso = "insertar"]
    OBVIOUS
  <2>2. /\ q1 = [f \in CamposEscaneo |-> q1[f]]
        /\ q1.paso = "insertar" /\ q1.hallados = q.hallados /\ q1.i = q.i
    BY <1>4, <2>1 DEF UnEscaneo, CamposEscaneo
  <2>3. UnEscaneo(q1) /\ Andado(q1)
    BY <1>4, <2>2 DEF UnEscaneo, Andado
  <2>4. Escaneo(q1)
    BY <1>5, <2>2, <2>3 DEF Escaneo
  <2>5. QED
    BY <1>1, <1>2, <1>3, <1>6, <2>1, <2>4, SoloElPaso
<1>7. CASE ~ (emails[q.i] \notin Ilegibles /\ movimientos[Repite[emails[q.i]]] = 0)
  <2>1. PICK q1 : q1 = [q EXCEPT !.i = @ + 1]
    OBVIOUS
  <2>2. /\ q1 = [f \in CamposEscaneo |-> q1[f]]
        /\ q1.paso = "procesar" /\ q1.hallados = q.hallados /\ q1.i = q.i + 1
    BY <1>3, <1>4, <2>1 DEF UnEscaneo, CamposEscaneo
  <2>3. Registrado(emails[q.i])
    BY <1>5, <1>7, AvisosAssumption DEF Registrado, EscaneoInv
  <2>4. UnEscaneo(q1)
    BY <1>3, <1>4, <2>2 DEF UnEscaneo
  <2>5. Andado(q1)
    <3>1. q1.i <= Len(emails) + 1
      BY <1>4, <1>5, <2>2
    <3>2. \A j \in DOMAIN emails : j < q1.i => Registrado(emails[j])
      <4>1. ASSUME NEW j \in DOMAIN emails, j < q1.i PROVE j < q.i \/ j = q.i
        BY <1>4, <1>5, <2>2, <4>1
      <4>2. QED
        BY <4>1, <1>4, <2>3 DEF Andado
    <3>3. QED
      BY <1>4, <2>2, <3>1, <3>2 DEF Andado
  <2>6. Escaneo(q1)
    BY <2>2, <2>4, <2>5 DEF Escaneo
  <2>7. QED
    BY <1>1, <1>2, <1>3, <1>7, <2>1, <2>6, SoloElPaso
<1>8. QED
  BY <1>6, <1>7

(* save(), under the unique index: the notice is stored or lost, and walked *)
(* past.                                                                    *)
LEMMA InsertarInv ==
  ASSUME EscaneoInv, NEW r \in Requests, Escaner!Insertar(r)
  PROVE  EscaneoInv'
<1>1. /\ op[r].paso = "insertar" /\ emails' = emails /\ parseando' = parseando
      /\ isScanning' = isScanning /\ buscados' = buscados
      /\ op' = [op EXCEPT ![r] = [op[r] EXCEPT !.paso = "procesar", !.i = @ + 1]]
      /\ \/ /\ movimientos[Repite[emails[op[r].i]]] = 0
            /\ movimientos' = [movimientos EXCEPT ![Repite[emails[op[r].i]]] = 1]
            /\ perdidos' = perdidos
         \/ perdidos' = perdidos \cup {emails[op[r].i]} /\ movimientos' = movimientos
  BY DEF Escaner!Insertar, Escaner!Seguir, Escaner!fetch, Escaner!banco
<1>2. op[r] # Nadie
  BY <1>1 DEF Nadie
<1>3. PICK q : q = op[r] /\ Escaneo(q) /\ q.paso = "insertar"
  BY <1>1, <1>2 DEF EscaneoInv
<1>4. UnEscaneo(q) /\ Andado(q) /\ q.i \in Nat /\ q.i \in DOMAIN emails
  BY <1>3 DEF Escaneo, UnEscaneo
<1>5. emails \in Seq(Llegan) /\ emails[q.i] \in Llegan /\ Repite[emails[q.i]] \in Llegan
      /\ DOMAIN emails = 1 .. Len(emails) /\ Len(emails) \in Nat
  BY <1>4, AvisosAssumption DEF EscaneoInv
<1>6. movimientos' \in [Llegan -> {0, 1}] /\ \A m \in Llegan : movimientos[m] = 1 => movimientos'[m] = 1
  BY <1>1, <1>3, <1>5 DEF EscaneoInv
<1>7. \A m \in Llegan : Registrado(m) => Registrado(m)'
  BY <1>1, <1>6, AvisosAssumption DEF Registrado
<1>8. Registrado(emails[q.i])'
  BY <1>1, <1>3, <1>5 DEF Registrado, EscaneoInv
<1>9. \A m : EnSusManos(m) => EnSusManos(m)'
  BY <1>1 DEF EnSusManos
<1>10. PICK q1 : q1 = [q EXCEPT !.paso = "procesar", !.i = @ + 1]
  OBVIOUS
<1>11. /\ q1 = [f \in CamposEscaneo |-> q1[f]]
       /\ q1.paso = "procesar" /\ q1.hallados = q.hallados /\ q1.i = q.i + 1
  BY <1>4, <1>10 DEF UnEscaneo, CamposEscaneo
<1>12. UnEscaneo(q1)
  BY <1>4, <1>11 DEF UnEscaneo
<1>13. Andado(q1)'
  <2>1. q1.i <= Len(emails') + 1
    BY <1>1, <1>4, <1>5, <1>11
  <2>2. ASSUME NEW j \in DOMAIN emails', j < q1.i
        PROVE  Registrado(emails[j])'
    <3>1. j \in DOMAIN emails /\ emails'[j] = emails[j] /\ emails[j] \in Llegan /\ (j < q.i \/ j = q.i)
      BY <2>2, <1>1, <1>4, <1>5, <1>11
    <3>2. CASE j < q.i
      <4>1. Registrado(emails[j])
        BY <3>1, <3>2, <1>4 DEF Andado
      <4>2. QED
        BY <3>1, <4>1, <1>7
    <3>3. CASE j = q.i
      BY <3>3, <1>1, <1>8
    <3>4. QED
      BY <3>1, <3>2, <3>3
  <2>3. \A m \in q1.hallados : EnSusManos(m)'
    BY <1>4, <1>9, <1>11 DEF Andado
  <2>4. QED
    BY <2>1, <2>2, <2>3 DEF Andado
<1>14. Escaneo(q1)'
  BY <1>11, <1>12, <1>13 DEF Escaneo
<1>15. op' = [op EXCEPT ![r] = q1]
  BY <1>1, <1>3, <1>10
<1>16. parseando' \subseteq Llegan /\ emails' \in Seq(Llegan)
  BY <1>1, <1>5 DEF EscaneoInv
<1>17. QED
  BY <1>1, <1>2, <1>6, <1>7, <1>14, <1>15, <1>16, SigueElEscaneo

(* The array has been walked: what was found is registered or late.         *)
LEMMA CompletarInv ==
  ASSUME EscaneoInv, NEW r \in Requests, Escaner!Completar(r)
  PROVE  EscaneoInv'
<1>1. /\ op[r].paso = "procesar" /\ op[r].i > Len(emails) /\ Escaner!Soltar
      /\ op' = [op EXCEPT ![r] = Nadie] /\ movimientos' = movimientos
      /\ buscados' = buscados \cup op[r].hallados /\ perdidos' = perdidos \cup parseando
  BY DEF Escaner!Completar, Escaner!Terminar, Escaner!Seguir, Escaner!Libre, Nadie
<1>2. op[r] # Nadie
  BY <1>1 DEF Nadie
<1>3. PICK q : q = op[r] /\ Escaneo(q) /\ q.paso = "procesar"
  BY <1>1, <1>2 DEF EscaneoInv
<1>4. UnEscaneo(q) /\ Andado(q)
  BY <1>3 DEF Escaneo
<1>5. \A m : Registrado(m) => Registrado(m)'
  BY <1>1 DEF Registrado
<1>6. ASSUME NEW m \in q.hallados
      PROVE  m \in Llegan /\ Registrado(m)'
  <2>1. m \in Llegan /\ EnSusManos(m)
    BY <1>4 DEF UnEscaneo, Andado
  <2>2. CASE m \in parseando \cup perdidos
    BY <2>1, <2>2, <1>1 DEF Registrado
  <2>3. CASE \E j \in DOMAIN emails : emails[j] = m
    <3>1. PICK j \in DOMAIN emails : emails[j] = m
      BY <2>3
    <3>2. j < q.i
      BY <1>1, <1>3, <1>4 DEF EscaneoInv, UnEscaneo
    <3>3. QED
      BY <2>1, <3>1, <3>2, <1>4, <1>5 DEF Andado
  <2>4. QED
    BY <2>1, <2>2, <2>3 DEF EnSusManos
<1>7. \A m \in buscados' : m \in Llegan /\ Registrado(m)'
  BY <1>1, <1>3, <1>5, <1>6 DEF EscaneoInv
<1>8. op' = [s \in Requests |-> op'[s]] /\ \A s \in Requests : op'[s] = Nadie
  BY <1>1, <1>2 DEF EscaneoInv, UnaSola
<1>9. QED
  BY <1>1, <1>7, <1>8, TerminaElEscaneo

(* A scan that fails, or the process that restarts, leaves nothing behind.  *)
LEMMA FallarInv ==
  ASSUME EscaneoInv, (\E r \in Requests : Escaner!Fallar(r)) \/ Escaner!Reinicio
  PROVE  EscaneoInv'
<1>1. Escaner!Soltar /\ movimientos' = movimientos /\ buscados' = buscados /\ perdidos' = perdidos
  BY DEF Escaner!Fallar, Escaner!Reinicio, Escaner!guardado
<1>2. op' = [s \in Requests |-> op'[s]] /\ \A s \in Requests : op'[s] = Nadie
  <2>1. CASE Escaner!Reinicio
    BY <2>1 DEF Escaner!Reinicio, Escaner!Libre, Nadie
  <2>2. ASSUME NEW r \in Requests, Escaner!Fallar(r)
        PROVE  op' = [s \in Requests |-> op'[s]] /\ \A s \in Requests : op'[s] = Nadie
    <3>1. op' = [op EXCEPT ![r] = Nadie] /\ op[r] # Nadie
      BY <2>2 DEF Escaner!Fallar, Escaner!Morir, Escaner!Libre, Nadie
    <3>2. QED
      BY <3>1 DEF EscaneoInv, UnaSola
  <2>3. QED
    BY <2>1, <2>2
<1>3. \A m \in buscados' : m \in Llegan /\ Registrado(m)'
  BY <1>1 DEF EscaneoInv, Registrado
<1>4. QED
  BY <1>1, <1>2, <1>3, TerminaElEscaneo

(* What the scan does not do: a mail arrives, a day goes by; or nothing.    *)
LEMMA NadaDelEscaneo ==
  ASSUME EscaneoInv, op' = op,
         UNCHANGED <<isScanning, emails, parseando, movimientos, buscados, perdidos>>
  PROVE  EscaneoInv'
<1>1. \A x : Registrado(x)' <=> Registrado(x)
  BY DEF Registrado
<1>2. \A x : EnSusManos(x)' <=> EnSusManos(x)
  BY DEF EnSusManos
<1>3. \A q : Andado(q) => Andado(q)'
  BY <1>1, <1>2 DEF Andado
<1>4. \A q : Escaneo(q) => Escaneo(q)'
  BY <1>3 DEF Escaneo
<1>5. QED
  BY <1>1, <1>4 DEF EscaneoInv, UnaSola

LEMMA PasoEscaneo == EscaneoInv /\ Escaner!NextRedlink => EscaneoInv'
<1> SUFFICES ASSUME EscaneoInv, Escaner!NextRedlink PROVE EscaneoInv'
  OBVIOUS
<1>1. CASE \E m \in Llegan : Escaner!Llega(m)
  BY <1>1, NadaDelEscaneo DEF Escaner!Llega, Escaner!fetch, Escaner!guardado, Escaner!peticiones
<1>2. CASE Escaner!PasaUnDia
  BY <1>2, NadaDelEscaneo DEF Escaner!PasaUnDia, Escaner!fetch, Escaner!guardado, Escaner!peticiones
<1>3. CASE \E m \in Llegan : Escaner!Parsear(m)
  BY <1>3, ParsearInv
<1>4. CASE \E r \in Requests : Escaner!ScanEmails(r)
  BY <1>4, ScanEmailsInv
<1>5. CASE \E r \in Requests : Escaner!Buscar(r)
  BY <1>5, BuscarInv
<1>6. CASE \E r \in Requests : Escaner!FinDelFetch(r) \/ Escaner!Colgarse(r)
  BY <1>6, FinDelFetchInv
<1>7. CASE \E r \in Requests : Escaner!Procesar(r)
  BY <1>7, ProcesarInv
<1>8. CASE \E r \in Requests : Escaner!Insertar(r)
  BY <1>8, InsertarInv
<1>9. CASE \E r \in Requests : Escaner!Completar(r)
  BY <1>9, CompletarInv
<1>10. CASE (\E r \in Requests : Escaner!Fallar(r)) \/ Escaner!Reinicio
  BY <1>10, FallarInv
<1>11. QED
  BY <1>1, <1>2, <1>3, <1>4, <1>5, <1>6, <1>7, <1>8, <1>9, <1>10 DEF Escaner!NextRedlink

(* RedLinkScan: the flag is up exactly while a scan is on, one at most is,  *)
(* and every notice that a complete scan found is registered once, unless   *)
(* it could not be read or was lost (redlink-scan.service.ts, scanEmails).  *)
THEOREM AvisosSiempreRegistrados == Spec => []AvisosRegistrados
<1> DEFINE I == foco = "redlink" => EscaneoInv
<1>1. Init => I
  BY InitEscaneo
<1>2. I /\ [Next]_registrosVars => I'
  <2> SUFFICES ASSUME I, [Next]_registrosVars, foco' = "redlink" PROVE EscaneoInv'
    OBVIOUS
  <2>1. CASE Next
    <3>1. foco = "redlink"
      BY <2>1 DEF Next, LosDemas
    <3>2. QED
      BY <2>1, <3>1, PasoEscaneo DEF Next
  <2>2. CASE UNCHANGED registrosVars
    BY <2>2, NadaDelEscaneo DEF registrosVars, peticionesVars, redlinkVars
  <2>3. QED
    BY <2>1, <2>2
<1>3. I => AvisosRegistrados
  <2> SUFFICES ASSUME EscaneoInv PROVE Escaner!AvisosRegistrados
    BY DEF AvisosRegistrados
  <2>1. Cardinality(Escaner!EnCurso) <= 1
    <3>1. CASE Escaner!EnCurso = {}
      BY <3>1, FS_EmptySet
    <3>2. CASE Escaner!EnCurso # {}
      <4>1. PICK r : r \in Escaner!EnCurso
        BY <3>2
      <4>2. Escaner!EnCurso = {r}
        BY <4>1 DEF Escaner!EnCurso, Escaner!Libre, EscaneoInv, UnaSola, Nadie
      <4>3. Cardinality({r}) = 1
        BY FS_Singleton
      <4>4. QED
        BY <4>2, <4>3
    <3>3. QED
      BY <3>1, <3>2
  <2>2. isScanning <=> Escaner!EnCurso # {}
    BY DEF EscaneoInv, Escaner!EnCurso, Escaner!Libre, Nadie
  <2>3. \A m \in buscados \ (Ilegibles \cup perdidos) : movimientos[Repite[m]] = 1
    BY DEF EscaneoInv, Registrado
  <2>4. QED
    BY <2>1, <2>2, <2>3, CardinalEscaner DEF Escaner!AvisosRegistrados
<1>4. QED
  BY <1>1, <1>2, <1>3, PTL DEF Spec

----------------------------------------------------------------------------
(* ContractSettings.  What a request carries, written over the settings, is *)
(* what was last asked for, until two requests overlap.                     *)

Ajuste == [general : Int, tipos : [TiposDeContrato -> Int]]
PedidoDeAjuste(q) ==
  /\ q = [f \in {"paso", "general", "tipos"} |-> q[f]] /\ q.paso # "libre"
  /\ q.general = {} \/ \E x \in Int : q.general = {x}
  /\ q.tipos = {} \/ \E f \in [TiposDeContrato -> Int] : q.tipos = {f}
Aplicado(q, c) ==
  [general |-> IF q.general = {} THEN c.general ELSE CHOOSE x \in q.general : TRUE,
   tipos |-> IF q.tipos = {} THEN c.tipos ELSE CHOOSE x \in q.tipos : TRUE]

ConfigInv ==
  /\ ajustes_ \in Ajuste \cup {SinConfig} /\ pedidos \in Ajuste
  /\ op = [r \in Requests |-> op[r]]
  /\ \A r \in Requests : op[r] # Nadie => PedidoDeAjuste(op[r])
  /\ ajustes_ = SinConfig => pedidos = Ajustes!Defaults /\ \A r \in Requests : op[r] = Nadie
  /\ ~ solape =>
       /\ UnaSola
       /\ \A r \in Requests : op[r] # Nadie => Aplicado(op[r], ajustes_) = pedidos
       /\ ajustes_ # SinConfig /\ (\A r \in Requests : op[r] = Nadie) => ajustes_ = pedidos

LEMMA AplicadoEsAjuste ==
  ASSUME NEW q, PedidoDeAjuste(q), NEW c \in Ajuste
  PROVE  Aplicado(q, c) \in Ajuste
<1>1. (IF q.general = {} THEN c.general ELSE CHOOSE x \in q.general : TRUE) \in Int
  <2>1. ASSUME NEW x \in Int, q.general = {x} PROVE (CHOOSE y \in q.general : TRUE) \in Int
    BY <2>1
  <2>2. QED
    BY <2>1 DEF PedidoDeAjuste, Ajuste
<1>2. (IF q.tipos = {} THEN c.tipos ELSE CHOOSE x \in q.tipos : TRUE) \in [TiposDeContrato -> Int]
  <2>1. ASSUME NEW f \in [TiposDeContrato -> Int], q.tipos = {f}
        PROVE  (CHOOSE y \in q.tipos : TRUE) \in [TiposDeContrato -> Int]
    BY <2>1
  <2>2. QED
    BY <2>1 DEF PedidoDeAjuste, Ajuste
<1>3. QED
  BY <1>1, <1>2 DEF Aplicado, Ajuste

LEMMA DefaultsEsAjuste == Ajustes!Defaults \in Ajuste
BY DEF Ajustes!Defaults, Ajustes!PorDefecto, Ajustes!SinValor, Ajuste

LEMMA InitConfigInv == Init => ConfigInv
<1> SUFFICES ASSUME Init PROVE ConfigInv
  OBVIOUS
<1>1. ajustes_ = SinConfig /\ pedidos = Ajustes!Defaults
  BY DEF Init, Ajustes!InitConfig
<1>2. op = [r \in Requests |-> op[r]] /\ \A r \in Requests : op[r] = Nadie
  BY InitPeticiones
<1>3. QED
  BY <1>1, <1>2, DefaultsEsAjuste DEF ConfigInv, UnaSola

(* A request begins with what it was asked for.                             *)
LEMMA PedirInv ==
  ASSUME ConfigInv, NEW r \in Requests, NEW general, NEW tipos, NEW pide \in Ajuste,
         Ajustes!Pedir(r, general, tipos, pide),
         general = {} \/ \E x \in Int : general = {x},
         tipos = {} \/ \E f \in [TiposDeContrato -> Int] : tipos = {f},
         ajustes_ = pedidos => Aplicado([paso |-> "escribir", general |-> general, tipos |-> tipos], ajustes_) = pide
  PROVE  ConfigInv'
<1> DEFINE q == [paso |-> "escribir", general |-> general, tipos |-> tipos]
<1>1. /\ ajustes_ # SinConfig /\ ajustes_' = ajustes_ /\ pedidos' = pide /\ op[r] = Nadie
      /\ op' = [op EXCEPT ![r] = q] /\ (~ solape' => ~ solape /\ \A s \in Requests : op[s] = Nadie)
  BY DEF Ajustes!Pedir, Ajustes!Comenzar, Ajustes!EnCurso, Ajustes!Libre, Nadie
<1>2. PedidoDeAjuste(q) /\ q # Nadie
  BY DEF PedidoDeAjuste, Nadie
<1>3. ajustes_ = pedidos => Aplicado(q, ajustes_) = pide
  OBVIOUS
<1> HIDE DEF q
<1>4. op' = [s \in Requests |-> op'[s]] /\ \A s \in Requests : op'[s] = IF s = r THEN q ELSE op[s]
  BY <1>1 DEF ConfigInv
<1>5. \A s \in Requests : op'[s] # Nadie => PedidoDeAjuste(op'[s])
  BY <1>2, <1>4 DEF ConfigInv
<1>6. ASSUME ~ solape'
      PROVE  UnaSola' /\ Aplicado(q, ajustes_) = pide
  BY <1>1, <1>3, <1>4, <1>6 DEF ConfigInv, UnaSola
<1>7. ~ solape' => \A s \in Requests : op'[s] # Nadie => Aplicado(op'[s], ajustes_') = pedidos'
  BY <1>1, <1>4, <1>6
<1>8. QED
  BY <1>1, <1>2, <1>4, <1>5, <1>6, <1>7 DEF ConfigInv

LEMMA UpdateHonorariosForTipoInv ==
  ASSUME ConfigInv, NEW r \in Requests, NEW t \in TiposDeContrato, NEW x \in Porcentajes,
         Ajustes!UpdateHonorariosForTipo(r, t, x)
  PROVE  ConfigInv'
<1>1. x \in Int /\ pedidos \in Ajuste /\ ajustes_ \in Ajuste
  BY ConfigAssumption DEF ConfigInv, Ajustes!UpdateHonorariosForTipo, Ajustes!Pedir
<1>2. PICK f \in [TiposDeContrato -> Int], p \in Ajuste :
        f = [ajustes_.tipos EXCEPT ![t] = x] /\ p = [pedidos EXCEPT !.tipos[t] = x]
  <2>1. [ajustes_.tipos EXCEPT ![t] = x] \in [TiposDeContrato -> Int]
    BY <1>1 DEF Ajuste
  <2>2. [pedidos EXCEPT !.tipos[t] = x] \in Ajuste
    <3>1. pedidos.tipos \in [TiposDeContrato -> Int]
      BY <1>1 DEF Ajuste
    <3>2. [pedidos.tipos EXCEPT ![t] = x] \in [TiposDeContrato -> Int]
      BY <1>1, <3>1
    <3>3. [pedidos EXCEPT !.tipos = [pedidos.tipos EXCEPT ![t] = x]] \in Ajuste
      BY <1>1, <3>2 DEF Ajuste
    <3>4. QED
      BY <3>3
  <2>3. QED
    BY <2>1, <2>2
<1>3. Ajustes!Pedir(r, {}, {f}, p)
  BY <1>2 DEF Ajustes!UpdateHonorariosForTipo
<1>4. ajustes_ = pedidos => Aplicado([paso |-> "escribir", general |-> {}, tipos |-> {f}], ajustes_) = p
  <2>1. p = [general |-> pedidos.general, tipos |-> [pedidos.tipos EXCEPT ![t] = x]]
    BY <1>1, <1>2 DEF Ajuste
  <2>2. (CHOOSE y \in {f} : TRUE) = f
    OBVIOUS
  <2>3. QED
    BY <1>2, <2>1, <2>2 DEF Aplicado
<1>5. QED
  BY <1>3, <1>4, PedirInv

LEMMA UpdateSettingsInv ==
  ASSUME ConfigInv, NEW r \in Requests, NEW x \in Porcentajes, NEW b \in BOOLEAN,
         NEW y \in {Ajustes!SinValor, x}, Ajustes!UpdateSettings(r, x, b, y)
  PROVE  ConfigInv'
<1>1. x \in Int /\ y \in Int /\ pedidos \in Ajuste /\ ajustes_ \in Ajuste
  BY ConfigAssumption DEF ConfigInv, Ajustes!UpdateSettings, Ajustes!Pedir, Ajustes!SinValor
<1>2. PICK f \in [TiposDeContrato -> Int] : f = [t \in TiposDeContrato |-> y]
  BY <1>1
<1>3. PICK p \in Ajuste : p = [general |-> x, tipos |-> IF b THEN f ELSE pedidos.tipos]
  BY <1>1 DEF Ajuste
<1>4. Ajustes!Pedir(r, {x}, IF b THEN {f} ELSE {}, p)
  BY <1>2, <1>3 DEF Ajustes!UpdateSettings
<1>5. ajustes_ = pedidos =>
        Aplicado([paso |-> "escribir", general |-> {x}, tipos |-> IF b THEN {f} ELSE {}], ajustes_) = p
  <2>1. (CHOOSE z \in {x} : TRUE) = x /\ (CHOOSE z \in {f} : TRUE) = f
    OBVIOUS
  <2>2. QED
    BY <1>3, <2>1 DEF Aplicado
<1>6. QED
  BY <1>1, <1>4, <1>5, PedirInv

LEMMA ResetToDefaultsInv ==
  ASSUME ConfigInv, NEW r \in Requests, Ajustes!ResetToDefaults(r)
  PROVE  ConfigInv'
<1>1. pedidos \in Ajuste
  BY DEF ConfigInv
<1>2. PICK p \in Ajuste : p = [pedidos EXCEPT !.general = 5]
  <2>1. 5 \in Int
    OBVIOUS
  <2>2. [pedidos EXCEPT !.general = 5] \in Ajuste
    BY <1>1, <2>1 DEF Ajuste
  <2>3. QED
    BY <2>2
<1>3. Ajustes!Pedir(r, {5}, {}, p)
  BY <1>2 DEF Ajustes!ResetToDefaults, Ajustes!PorDefecto
<1>4. ajustes_ = pedidos => Aplicado([paso |-> "escribir", general |-> {5}, tipos |-> {}], ajustes_) = p
  <2>1. p = [general |-> 5, tipos |-> pedidos.tipos]
    BY <1>1, <1>2 DEF Ajuste
  <2>2. QED
    BY <2>1 DEF Aplicado
<1>5. QED
  BY <1>3, <1>4, PedirInv

(* findByIdAndUpdate(): what it carries is on the settings.                 *)
LEMMA EscribirInv ==
  ASSUME ConfigInv, NEW r \in Requests, Ajustes!Escribir(r)
  PROVE  ConfigInv'
<1>1. /\ op[r].paso = "escribir" /\ ajustes_' = Aplicado(op[r], ajustes_) /\ pedidos' = pedidos
      /\ op' = [op EXCEPT ![r] = Nadie] /\ solape' = solape
  BY DEF Ajustes!Escribir, Ajustes!Terminar, Ajustes!Seguir, Ajustes!Libre, Nadie, Aplicado
<1>2. op[r] # Nadie
  BY <1>1 DEF Nadie
<1>3. ajustes_ \in Ajuste /\ PedidoDeAjuste(op[r])
  BY <1>2 DEF ConfigInv
<1>4. ajustes_' \in Ajuste /\ ajustes_' # SinConfig
  BY <1>1, <1>3, AplicadoEsAjuste, ConfigAssumption DEF Ajuste
<1>5. op' = [s \in Requests |-> op'[s]] /\ \A s \in Requests : op'[s] = IF s = r THEN Nadie ELSE op[s]
  BY <1>1 DEF ConfigInv
<1>6. ~ solape => ajustes_' = pedidos' /\ \A s \in Requests : op'[s] = Nadie
  BY <1>1, <1>2, <1>5 DEF ConfigInv, UnaSola
<1>7. QED
  BY <1>1, <1>4, <1>5, <1>6 DEF ConfigInv, UnaSola

LEMMA PasoConfig == ConfigInv /\ Ajustes!NextConfig => ConfigInv'
<1> SUFFICES ASSUME ConfigInv, Ajustes!NextConfig PROVE ConfigInv'
  OBVIOUS
<1>1. CASE Ajustes!InitializeDefaults
  <2>1. /\ ajustes_' = IF ajustes_ = SinConfig THEN Ajustes!Defaults ELSE ajustes_
        /\ pedidos' = pedidos /\ op' = op
        /\ (~ solape' => ~ solape /\ \A s \in Requests : op[s] = Nadie)
    BY <1>1 DEF Ajustes!InitializeDefaults, Ajustes!Atomica, Ajustes!EnCurso, Ajustes!Libre, Nadie
  <2>2. Ajustes!Defaults # SinConfig
    BY DefaultsEsAjuste, ConfigAssumption DEF Ajuste
  <2>3. QED
    BY <2>1, <2>2, DefaultsEsAjuste DEF ConfigInv, UnaSola
<1>2. CASE \E r \in Requests, x \in Porcentajes, t \in TiposDeContrato : Ajustes!UpdateHonorariosForTipo(r, t, x)
  BY <1>2, UpdateHonorariosForTipoInv
<1>3. CASE \E r \in Requests, x \in Porcentajes, b \in BOOLEAN : \E y \in {Ajustes!SinValor, x} :
             Ajustes!UpdateSettings(r, x, b, y)
  BY <1>3, UpdateSettingsInv
<1>4. CASE \E r \in Requests : Ajustes!ResetToDefaults(r)
  BY <1>4, ResetToDefaultsInv
<1>5. CASE \E r \in Requests : Ajustes!Escribir(r)
  BY <1>5, EscribirInv
<1>6. QED
  BY <1>1, <1>2, <1>3, <1>4, <1>5 DEF Ajustes!NextConfig

LEMMA ConfiguracionInv == ConfigInv => Ajustes!ConfiguracionPedida
<1> SUFFICES ASSUME ConfigInv, ~ solape, Ajustes!EnCurso = {}, ajustes_ # SinConfig
             PROVE  /\ ajustes_ = pedidos
                    /\ \A t \in TiposDeContrato :
                         Ajustes!HonorariosEfectivos(t) =
                           IF pedidos.tipos[t] # Ajustes!SinValor THEN pedidos.tipos[t]
                           ELSE IF Ajustes!Defaults.tipos[t] # Ajustes!SinValor THEN Ajustes!Defaults.tipos[t]
                           ELSE pedidos.general
  BY DEF Ajustes!ConfiguracionPedida
<1>1. ajustes_ = pedidos
  BY DEF ConfigInv, Ajustes!EnCurso, Ajustes!Libre, Nadie
<1>2. \A t \in TiposDeContrato :
        Ajustes!Defaults.tipos[t] = CASE t \in {"VIVIENDA_UNICA", "VIVIENDA"} -> 2
                                      [] t = "COMERCIAL" -> 5 [] OTHER -> -1
  BY DEF Ajustes!Defaults, Ajustes!SinValor
<1>3. QED
  BY <1>1, <1>2 DEF Ajustes!HonorariosEfectivos, Ajustes!SinValor

----------------------------------------------------------------------------
(* OtpVerification.  A code has linked its user, or is about to, no more    *)
(* often than it was compared; and a request by itself knows of its code    *)
(* what the record says.                                                    *)

Codigo == [otp : Codigos, expiresAt : Int, verified : BOOLEAN, attempts : Nat, borrado : BOOLEAN]
Vinculando(j, i) == {r \in Requests : op[r].paso = "vincular" /\ op[r].jid = j /\ op[r].i = i}

PedidoDeOtp(q) ==
  \/ /\ q.paso \in {"invalidar", "crear"} /\ q = [f \in {"paso", "jid"} |-> q[f]]
     /\ q.jid \in Jids
  \/ /\ q.paso \in {"contar", "vincular"}
     /\ q = [f \in {"paso", "jid", "i", "attempts", "otp"} |-> q[f]]
     /\ q.jid \in Jids /\ q.i \in DOMAIN otps[q.jid] /\ q.attempts \in Nat
Contado(q) == q.paso = "contar" => q.attempts <= probados[q.jid][q.i] + 1
Sabido(q) ==
  /\ q.paso = "crear" => \A i \in DOMAIN otps[q.jid] : otps[q.jid][i].verified
  /\ q.paso \in {"contar", "vincular"} => vinculados[q.jid][q.i] = 0
  /\ q.paso = "contar" => q.attempts = otps[q.jid][q.i].attempts + 1 /\ q.attempts <= 3

OtpTipos ==
  /\ minuto \in Nat /\ otps \in [Jids -> Seq(Codigo)]
  /\ probados \in [Jids -> Seq(Nat)] /\ vinculados \in [Jids -> Seq(Nat)]
  /\ \A j \in Jids : Len(probados[j]) = Len(otps[j]) /\ Len(vinculados[j]) = Len(otps[j])
Cuenta(j, i) ==
  /\ otps[j][i].attempts <= probados[j][i]
  /\ vinculados[j][i] + Cardinality(Vinculando(j, i)) <= probados[j][i]
  /\ vinculados[j][i] > 0 => otps[j][i].verified
Cuentas == \A j \in Jids : \A i \in DOMAIN otps[j] : Cuenta(j, i)
Ordenado(j, i) ==
  /\ i < Len(otps[j]) => otps[j][i].verified
  /\ probados[j][i] = otps[j][i].attempts /\ probados[j][i] <= 3 /\ vinculados[j][i] <= 1
Ordenados == \A j \in Jids : \A i \in DOMAIN otps[j] : Ordenado(j, i)

OtpInv ==
  /\ OtpTipos /\ Cuentas
  /\ op = [r \in Requests |-> op[r]]
  /\ \A r \in Requests : op[r] # Nadie => PedidoDeOtp(op[r]) /\ Contado(op[r])
  /\ ~ solape => /\ UnaSola /\ Ordenados
                 /\ \A r \in Requests : op[r] # Nadie => Sabido(op[r])

LEMMA Registro ==
  ASSUME OtpTipos, NEW j \in Jids, NEW i \in DOMAIN otps[j]
  PROVE  /\ otps[j] \in Seq(Codigo) /\ otps[j][i] \in Codigo
         /\ DOMAIN otps[j] = 1 .. Len(otps[j]) /\ Len(otps[j]) \in Nat /\ i \in Nat
         /\ i \in DOMAIN probados[j] /\ probados[j][i] \in Nat /\ probados[j] \in Seq(Nat)
         /\ i \in DOMAIN vinculados[j] /\ vinculados[j][i] \in Nat /\ vinculados[j] \in Seq(Nat)
<1>1. /\ otps[j] \in Seq(Codigo) /\ probados[j] \in Seq(Nat) /\ vinculados[j] \in Seq(Nat)
      /\ Len(probados[j]) = Len(otps[j]) /\ Len(vinculados[j]) = Len(otps[j])
  BY DEF OtpTipos
<1>2. i \in 1 .. Len(otps[j]) /\ DOMAIN otps[j] = 1 .. Len(otps[j]) /\ Len(otps[j]) \in Nat
  BY <1>1
<1>3. i \in DOMAIN probados[j] /\ i \in DOMAIN vinculados[j]
  BY <1>1, <1>2
<1>4. QED
  BY <1>1, <1>2, <1>3

LEMMA AlFinal ==
  ASSUME NEW S, NEW t \in Seq(S), NEW x \in S, NEW u, u = Append(t, x)
  PROVE  /\ u \in Seq(S) /\ Len(u) = Len(t) + 1 /\ Len(t) \in Nat
         /\ DOMAIN t = 1 .. Len(t) /\ DOMAIN u = 1 .. Len(u)
         /\ \A i \in DOMAIN t : u[i] = t[i]
BY AppendProperties, LenProperties

LEMMA VinculandoFinito ==
  ASSUME NEW j, NEW i
  PROVE  /\ IsFiniteSet(Vinculando(j, i)) /\ Cardinality(Vinculando(j, i)) \in Nat
         /\ IsFiniteSet(Vinculando(j, i)') /\ Cardinality(Vinculando(j, i)') \in Nat
<1>1. Vinculando(j, i) \in SUBSET Requests /\ Vinculando(j, i)' \in SUBSET Requests
  BY DEF Vinculando
<1>2. IsFiniteSet(Vinculando(j, i)) /\ IsFiniteSet(Vinculando(j, i)')
  BY <1>1, FS_Subset, PeticionesAssumption
<1>3. QED
  BY <1>2, FS_CardinalityType

(* A request that does not go on to link adds to no count.                  *)
LEMMA VinculandoBaja ==
  ASSUME NEW j, NEW i, Vinculando(j, i)' \subseteq Vinculando(j, i)
  PROVE  Cardinality(Vinculando(j, i)') <= Cardinality(Vinculando(j, i))
BY VinculandoFinito, FS_Subset

LEMMA InitOtpInv == Init => OtpInv
<1> SUFFICES ASSUME Init PROVE OtpInv
  OBVIOUS
<1>1. /\ otps = [j \in Jids |-> <<>>] /\ minuto = 0
      /\ probados = [j \in Jids |-> <<>>] /\ vinculados = [j \in Jids |-> <<>>]
  BY DEF Init, Otp!InitOtp
<1>2. op = [r \in Requests |-> op[r]] /\ \A r \in Requests : op[r] = Nadie
  BY InitPeticiones
<1>3. OtpTipos
  BY <1>1 DEF OtpTipos
<1>4. \A j \in Jids : DOMAIN otps[j] = {}
  BY <1>1
<1>5. QED
  BY <1>2, <1>3, <1>4 DEF OtpInv, UnaSola, Cuentas, Ordenados

(* A request goes on with q, Nadie if it ends, and the records that it and  *)
(* the others hold are still there.                                         *)
LEMMA OtpSigue ==
  ASSUME OtpInv, NEW r \in Requests, NEW q, op' = [op EXCEPT ![r] = q],
         OtpTipos', Cuentas', q # Nadie => PedidoDeOtp(q)' /\ Contado(q)',
         \A p : PedidoDeOtp(p) /\ Contado(p) => PedidoDeOtp(p)' /\ Contado(p)',
         ~ solape' => /\ ~ solape /\ Ordenados' /\ (q # Nadie => Sabido(q)')
                      /\ \A s \in Requests : s # r => op[s] = Nadie
  PROVE  OtpInv'
<1>1. op' = [s \in Requests |-> op'[s]] /\ \A s \in Requests : op'[s] = IF s = r THEN q ELSE op[s]
  BY DEF OtpInv
<1>2. ASSUME NEW s \in Requests, op'[s] # Nadie
      PROVE  (PedidoDeOtp(op[s]))' /\ (Contado(op[s]))'
  <2>1. CASE s = r
    BY <1>1, <1>2, <2>1
  <2>2. CASE s # r
    <3>1. op'[s] = op[s] /\ PedidoDeOtp(op[s]) /\ Contado(op[s])
      BY <1>1, <1>2, <2>2 DEF OtpInv
    <3>2. PICK p : p = op[s]
      OBVIOUS
    <3>3. PedidoDeOtp(p)' /\ Contado(p)'
      BY <3>1, <3>2
    <3>4. QED
      BY <3>1, <3>2, <3>3
  <2>3. QED
    BY <2>1, <2>2
<1>3. ASSUME ~ solape'
      PROVE  UnaSola' /\ \A s \in Requests : op'[s] # Nadie => (Sabido(op[s]))'
  <2>1. \A s \in Requests : op'[s] # Nadie => s = r /\ op'[s] = q
    BY <1>1, <1>3
  <2>2. QED
    BY <2>1, <1>3 DEF UnaSola
<1>4. QED
  BY <1>1, <1>2, <1>3 DEF OtpInv

(* A request that begins or ends without a write.                           *)
LEMMA OtpSinEscribir ==
  ASSUME OtpInv, NEW r \in Requests, NEW q, op' = [op EXCEPT ![r] = q], UNCHANGED otpVars,
         q # Nadie => PedidoDeOtp(q) /\ q.paso \in {"invalidar", "contar"} /\ Sabido(q),
         ~ solape' => ~ solape /\ \A s \in Requests : s # r => op[s] = Nadie
  PROVE  OtpInv'
<1>1. otps' = otps /\ minuto' = minuto /\ probados' = probados /\ vinculados' = vinculados
  BY DEF otpVars
<1>2. OtpTipos' /\ OtpTipos
  BY <1>1 DEF OtpInv, OtpTipos
<1>3. \A p : PedidoDeOtp(p)' = PedidoDeOtp(p) /\ Contado(p)' = Contado(p) /\ Sabido(p)' = Sabido(p)
  BY <1>1 DEF PedidoDeOtp, Contado, Sabido
<1>4. \A s \in Requests : op'[s] = IF s = r THEN q ELSE op[s]
  BY DEF OtpInv
<1>5. q.paso # "vincular"
  BY DEF Nadie
<1>6. Cuentas'
  <2>1. ASSUME NEW j \in Jids, NEW i \in DOMAIN otps[j]
        PROVE  Cuenta(j, i)'
    <3>1. Cuenta(j, i)
      BY <2>1 DEF OtpInv, Cuentas
    <3>2. Vinculando(j, i)' \subseteq Vinculando(j, i)
      BY <1>4, <1>5 DEF Vinculando
    <3>3. Cardinality(Vinculando(j, i)') <= Cardinality(Vinculando(j, i))
      BY <3>2, VinculandoBaja
    <3>4. otps[j] \in Seq(Codigo) /\ probados[j][i] \in Nat /\ vinculados[j][i] \in Nat
      BY <1>2, <2>1 DEF OtpTipos
    <3>5. QED
      BY <1>1, <3>1, <3>3, <3>4, VinculandoFinito DEF Cuenta
  <2>2. QED
    BY <1>1, <2>1 DEF Cuentas
<1>7. ~ solape' => Ordenados'
  BY <1>1 DEF OtpInv, Ordenados, Ordenado
<1>8. q # Nadie => Contado(q)
  <2>1. ASSUME q # Nadie, q.paso = "contar" PROVE q.attempts <= probados[q.jid][q.i] + 1
    <3>1. q.jid \in Jids /\ q.i \in DOMAIN otps[q.jid] /\ q.attempts = otps[q.jid][q.i].attempts + 1
      BY <2>1 DEF PedidoDeOtp, Sabido
    <3>2. otps[q.jid][q.i].attempts <= probados[q.jid][q.i]
      BY <3>1 DEF OtpInv, Cuentas, Cuenta
    <3>3. otps[q.jid][q.i] \in Codigo /\ probados[q.jid][q.i] \in Nat
      BY <3>1, <1>2, Registro
    <3>4. QED
      BY <3>1, <3>2, <3>3 DEF Codigo
  <2>2. QED
    BY <2>1 DEF Contado
<1>9. QED
  BY <1>2, <1>3, <1>6, <1>7, <1>8, OtpSigue

(* What Comenzar and the ends of a request say of solape.                   *)
LEMMA ValidateIdentityInv ==
  ASSUME OtpInv, NEW r \in Requests, NEW j \in Jids, Otp!ValidateIdentity(r, j)
  PROVE  OtpInv'
<1>1. PICK q : q = [paso |-> "invalidar", jid |-> j]
  OBVIOUS
<1>2. op' = [op EXCEPT ![r] = q] /\ UNCHANGED otpVars
      /\ (~ solape' => ~ solape /\ \A s \in Requests : op[s] = Nadie)
  BY <1>1 DEF Otp!ValidateIdentity, Otp!Comenzar, Otp!EnCurso, Otp!Libre, Nadie, Otp!otpVars, otpVars
<1>3. q.paso = "invalidar" /\ PedidoDeOtp(q)
  BY <1>1 DEF PedidoDeOtp
<1>4. Sabido(q)
  BY <1>3 DEF Sabido
<1>5. QED
  BY <1>2, <1>3, <1>4, OtpSinEscribir

LEMMA VerifyOtpInv ==
  ASSUME OtpInv, NEW r \in Requests, NEW j \in Jids, NEW c, Otp!VerifyOtp(r, j, c)
  PROVE  OtpInv'
<1>1. PICK i \in Otp!Activos(j) :
        /\ otps[j][i].attempts < 3 /\ UNCHANGED otpVars
        /\ op' = [op EXCEPT ![r] = [paso |-> "contar", jid |-> j, i |-> i,
                                    attempts |-> otps[j][i].attempts + 1, otp |-> c]]
        /\ (~ solape' => ~ solape /\ \A s \in Requests : op[s] = Nadie)
  BY DEF Otp!VerifyOtp, Otp!MAX_ATTEMPTS, Otp!Comenzar, Otp!EnCurso, Otp!Libre, Nadie, Otp!otpVars, otpVars
<1>2. i \in DOMAIN otps[j] /\ ~ otps[j][i].verified
  BY <1>1 DEF Otp!Activos
<1>3. otps[j][i] \in Codigo /\ vinculados[j][i] \in Nat
  BY <1>2 DEF OtpInv, OtpTipos
<1>4. vinculados[j][i] = 0
  BY <1>2, <1>3 DEF OtpInv, Cuentas, Cuenta
<1>5. PICK q : q = [paso |-> "contar", jid |-> j, i |-> i, attempts |-> otps[j][i].attempts + 1, otp |-> c]
  OBVIOUS
<1>6. /\ q = [f \in {"paso", "jid", "i", "attempts", "otp"} |-> q[f]] /\ q.paso = "contar" /\ q.jid = j
      /\ q.i = i /\ q.attempts = otps[j][i].attempts + 1
  BY <1>5
<1>7. PedidoDeOtp(q) /\ Sabido(q)
  BY <1>1, <1>2, <1>3, <1>4, <1>6 DEF PedidoDeOtp, Sabido, Codigo
<1>8. QED
  BY <1>1, <1>5, <1>6, <1>7, OtpSinEscribir

(* A record that is gone, or a death.                                       *)
LEMMA TerminaSinEscribir ==
  ASSUME OtpInv, NEW r \in Requests, Otp!NoGuardar(r) \/ (Otp!Morir(r) /\ UNCHANGED Otp!otpVars)
  PROVE  OtpInv'
<1>1. op' = [op EXCEPT ![r] = Nadie] /\ op[r] # Nadie /\ solape' = solape /\ UNCHANGED otpVars
  BY DEF Otp!NoGuardar, Otp!Terminar, Otp!Seguir, Otp!Morir, Otp!Libre, Nadie, Otp!otpVars, otpVars
<1>2. ~ solape' => ~ solape /\ \A s \in Requests : s # r => op[s] = Nadie
  BY <1>1 DEF OtpInv, UnaSola
<1>3. QED
  BY <1>1, <1>2, OtpSinEscribir

(* updateMany(): every code of the user is marked.                          *)
LEMMA InvalidarInv ==
  ASSUME OtpInv, NEW r \in Requests, Otp!Invalidar(r)
  PROVE  OtpInv'
<1>1. /\ op[r].paso = "invalidar" /\ op' = [op EXCEPT ![r] = [op[r] EXCEPT !.paso = "crear"]]
      /\ otps' = [otps EXCEPT ![op[r].jid] =
                     [i \in DOMAIN otps[op[r].jid] |-> [otps[op[r].jid][i] EXCEPT !.verified = TRUE]]]
      /\ minuto' = minuto /\ probados' = probados /\ vinculados' = vinculados /\ solape' = solape
  BY DEF Otp!Invalidar, Otp!Seguir
<1>2. op[r] # Nadie
  BY <1>1 DEF Nadie
<1>3. PICK q : q = op[r] /\ PedidoDeOtp(q) /\ q.paso = "invalidar"
  BY <1>1, <1>2 DEF OtpInv
<1>4. q = [f \in {"paso", "jid"} |-> q[f]] /\ q.jid \in Jids /\ OtpTipos
  BY <1>3 DEF PedidoDeOtp, OtpInv
<1>5. PICK q1 : q1 = [q EXCEPT !.paso = "crear"]
  OBVIOUS
<1>6. q1 = [f \in {"paso", "jid"} |-> q1[f]] /\ q1.paso = "crear" /\ q1.jid = q.jid /\ q1 # Nadie
  BY <1>4, <1>5 DEF Nadie
<1>7. ASSUME NEW j \in Jids
      PROVE  /\ otps'[j] \in Seq(Codigo) /\ Len(otps'[j]) = Len(otps[j]) /\ DOMAIN otps'[j] = DOMAIN otps[j]
             /\ \A i \in DOMAIN otps[j] :
                  /\ otps'[j][i].attempts = otps[j][i].attempts
                  /\ otps'[j][i].verified = (j = q.jid \/ otps[j][i].verified)
  <2>1. otps[j] \in Seq(Codigo)
    BY <1>4 DEF OtpTipos
  <2>2. CASE j = q.jid
    <3>1. otps'[j] = [i \in DOMAIN otps[j] |-> [otps[j][i] EXCEPT !.verified = TRUE]]
      BY <1>1, <1>3, <1>4, <2>2 DEF OtpTipos
    <3>2. \A i \in DOMAIN otps[j] :
            /\ [otps[j][i] EXCEPT !.verified = TRUE] \in Codigo
            /\ [otps[j][i] EXCEPT !.verified = TRUE].attempts = otps[j][i].attempts
            /\ [otps[j][i] EXCEPT !.verified = TRUE].verified = TRUE
      <4>1. ASSUME NEW c \in Codigo
            PROVE  /\ [c EXCEPT !.verified = TRUE] \in Codigo
                   /\ [c EXCEPT !.verified = TRUE].attempts = c.attempts
                   /\ [c EXCEPT !.verified = TRUE].verified = TRUE
        BY DEF Codigo
      <4>2. QED
        BY <2>1, <4>1
    <3>3. otps'[j] \in Seq(Codigo) /\ Len(otps'[j]) = Len(otps[j]) /\ DOMAIN otps'[j] = DOMAIN otps[j]
      <4>1. DOMAIN otps[j] = 1 .. Len(otps[j]) /\ Len(otps[j]) \in Nat
        BY <2>1
      <4>2. otps'[j] \in [1 .. Len(otps[j]) -> Codigo]
        BY <3>1, <3>2, <4>1
      <4>3. otps'[j] \in Seq(Codigo) /\ DOMAIN otps'[j] = 1 .. Len(otps[j])
        BY <4>1, <4>2, SeqDef
      <4>4. QED
        BY <4>1, <4>3
    <3>4. ASSUME NEW i \in DOMAIN otps[j]
          PROVE  otps'[j][i].attempts = otps[j][i].attempts /\ otps'[j][i].verified = TRUE
      BY <3>1, <3>2
    <3>5. QED
      BY <2>2, <3>3, <3>4
  <2>3. CASE j # q.jid
    <3>1. otps'[j] = otps[j]
      BY <1>1, <1>3, <1>4, <2>3 DEF OtpTipos
    <3>2. \A i \in DOMAIN otps[j] : otps[j][i].verified \in BOOLEAN
      <4>1. \A c \in Codigo : c.verified \in BOOLEAN
        BY DEF Codigo
      <4>2. QED
        BY <2>1, <4>1
    <3>3. QED
      BY <2>1, <2>3, <3>1, <3>2
  <2>4. QED
    BY <2>2, <2>3
<1>8. OtpTipos'
  <2>1. otps' \in [Jids -> Seq(Codigo)]
    BY <1>1, <1>4, <1>7 DEF OtpTipos
  <2>2. QED
    BY <1>1, <1>4, <1>7, <2>1 DEF OtpTipos
<1>9. \A s \in Requests : op'[s] = IF s = r THEN q1 ELSE op[s]
  BY <1>1, <1>3, <1>5 DEF OtpInv
<1>10. Cuentas'
  <2>1. ASSUME NEW j \in Jids, NEW i \in DOMAIN otps[j]
        PROVE  Cuenta(j, i)'
    <3>1. Cuenta(j, i)
      BY <2>1 DEF OtpInv, Cuentas
    <3>2. Vinculando(j, i)' \subseteq Vinculando(j, i)
      BY <1>6, <1>9 DEF Vinculando
    <3>3. Cardinality(Vinculando(j, i)') <= Cardinality(Vinculando(j, i))
      BY <3>2, VinculandoBaja
    <3>4. probados[j][i] \in Nat /\ vinculados[j][i] \in Nat
      BY <1>4, Registro
    <3>5. /\ otps'[j][i].attempts = otps[j][i].attempts
          /\ otps'[j][i].verified = (j = q.jid \/ otps[j][i].verified)
          /\ probados' = probados /\ vinculados' = vinculados
      BY <1>1, <1>7
    <3>6. PICK a : a = Cardinality(Vinculando(j, i))
      OBVIOUS
    <3>7. PICK b : b = Cardinality(Vinculando(j, i)')
      OBVIOUS
    <3>8. a \in Nat /\ b \in Nat /\ b <= a
      BY <3>3, <3>6, <3>7, VinculandoFinito
    <3>9. vinculados[j][i] + b <= probados[j][i]
      <4>1. vinculados[j][i] + a <= probados[j][i]
        BY <3>1, <3>6 DEF Cuenta
      <4>2. QED
        BY <3>4, <3>8, <4>1
    <3>10. QED
      BY <3>1, <3>5, <3>7, <3>9 DEF Cuenta
  <2>2. QED
    BY <1>7, <2>1 DEF Cuentas
<1>11. \A p : PedidoDeOtp(p) /\ Contado(p) => PedidoDeOtp(p)' /\ Contado(p)'
  BY <1>1, <1>7 DEF PedidoDeOtp, Contado
<1>12. PedidoDeOtp(q1)' /\ Contado(q1)'
  BY <1>4, <1>6 DEF PedidoDeOtp, Contado
<1>13. ASSUME ~ solape'
       PROVE  Ordenados' /\ Sabido(q1)' /\ \A s \in Requests : s # r => op[s] = Nadie
  <2>1. \A s \in Requests : s # r => op[s] = Nadie
    BY <1>1, <1>2, <1>13 DEF OtpInv, UnaSola
  <2>2. Sabido(q1)'
    BY <1>4, <1>6, <1>7 DEF Sabido
  <2>3. ASSUME NEW j \in Jids, NEW i \in DOMAIN otps[j]
        PROVE  Ordenado(j, i)'
    <3>1. Ordenado(j, i)
      BY <1>1, <1>13 DEF OtpInv, Ordenados
    <3>2. QED
      BY <1>1, <1>7, <3>1 DEF Ordenado
  <2>4. Ordenados'
    BY <1>7, <2>3 DEF Ordenados
  <2>5. QED
    BY <2>1, <2>2, <2>4
<1>14. op' = [op EXCEPT ![r] = q1]
  BY <1>1, <1>3, <1>5
<1>15. QED
  BY <1>1, <1>8, <1>10, <1>11, <1>12, <1>13, <1>14, OtpSigue

(* create(): the new code is the only one that is not marked.               *)
LEMMA CrearInv ==
  ASSUME OtpInv, NEW r \in Requests, NEW c \in Codigos, Otp!Crear(r, c)
  PROVE  OtpInv'
<1>1. PICK j, nuevo : j = op[r].jid
        /\ nuevo = [otp |-> c, expiresAt |-> minuto + Vigencia, verified |-> FALSE,
                    attempts |-> 0, borrado |-> FALSE]
  OBVIOUS
<1>2. /\ op[r].paso = "crear" /\ op' = [op EXCEPT ![r] = Nadie]
      /\ otps' = [otps EXCEPT ![j] = Append(otps[j], nuevo)]
      /\ probados' = [probados EXCEPT ![j] = Append(probados[j], 0)]
      /\ vinculados' = [vinculados EXCEPT ![j] = Append(vinculados[j], 0)]
      /\ minuto' = minuto /\ solape' = solape
  BY <1>1 DEF Otp!Crear, Otp!Terminar, Otp!Seguir, Otp!Libre, Nadie
<1>3. op[r] # Nadie
  BY <1>2 DEF Nadie
<1>4. PICK q : q = op[r] /\ PedidoDeOtp(q) /\ q.paso = "crear"
  BY <1>2, <1>3 DEF OtpInv
<1>5. j \in Jids /\ q.jid = j /\ OtpTipos
  BY <1>1, <1>4 DEF PedidoDeOtp, OtpInv
<1>6. nuevo \in Codigo /\ nuevo.attempts = 0 /\ ~ nuevo.verified
  BY <1>1, <1>5, OtpAssumption DEF Codigo, OtpTipos
<1>7. ASSUME NEW k \in Jids
      PROVE  /\ otps'[k] = (IF k = j THEN Append(otps[k], nuevo) ELSE otps[k])
             /\ probados'[k] = (IF k = j THEN Append(probados[k], 0) ELSE probados[k])
             /\ vinculados'[k] = (IF k = j THEN Append(vinculados[k], 0) ELSE vinculados[k])
             /\ otps[k] \in Seq(Codigo) /\ probados[k] \in Seq(Nat) /\ vinculados[k] \in Seq(Nat)
             /\ Len(probados[k]) = Len(otps[k]) /\ Len(vinculados[k]) = Len(otps[k])
  BY <1>2, <1>5 DEF OtpTipos
<1>8. ASSUME NEW k \in Jids
      PROVE  /\ otps'[k] \in Seq(Codigo) /\ probados'[k] \in Seq(Nat) /\ vinculados'[k] \in Seq(Nat)
             /\ Len(otps'[k]) = (IF k = j THEN Len(otps[k]) + 1 ELSE Len(otps[k]))
             /\ Len(probados'[k]) = Len(otps'[k]) /\ Len(vinculados'[k]) = Len(otps'[k])
             /\ DOMAIN otps[k] = 1 .. Len(otps[k]) /\ DOMAIN otps'[k] = 1 .. Len(otps'[k])
             /\ Len(otps[k]) \in Nat
             /\ \A i \in DOMAIN otps[k] : /\ otps'[k][i] = otps[k][i] /\ probados'[k][i] = probados[k][i]
                                         /\ vinculados'[k][i] = vinculados[k][i]
  <2>1. CASE k = j
    <3>1. otps[k] \in Seq(Codigo) /\ nuevo \in Codigo /\ otps'[k] = Append(otps[k], nuevo)
      BY <1>6, <1>7, <2>1
    <3>2. /\ otps'[k] \in Seq(Codigo) /\ Len(otps'[k]) = Len(otps[k]) + 1 /\ Len(otps[k]) \in Nat
          /\ DOMAIN otps[k] = 1 .. Len(otps[k]) /\ DOMAIN otps'[k] = 1 .. Len(otps'[k])
          /\ \A i \in DOMAIN otps[k] : otps'[k][i] = otps[k][i]
      BY <3>1, AlFinal
    <3>3. /\ probados'[k] \in Seq(Nat) /\ Len(probados'[k]) = Len(probados[k]) + 1
          /\ DOMAIN probados[k] = 1 .. Len(probados[k])
          /\ \A i \in DOMAIN probados[k] : probados'[k][i] = probados[k][i]
      <4>1. probados[k] \in Seq(Nat) /\ 0 \in Nat /\ probados'[k] = Append(probados[k], 0)
        BY <1>7, <2>1
      <4>2. QED
        BY <4>1
    <3>4. /\ vinculados'[k] \in Seq(Nat) /\ Len(vinculados'[k]) = Len(vinculados[k]) + 1
          /\ DOMAIN vinculados[k] = 1 .. Len(vinculados[k])
          /\ \A i \in DOMAIN vinculados[k] : vinculados'[k][i] = vinculados[k][i]
      <4>1. vinculados[k] \in Seq(Nat) /\ 0 \in Nat /\ vinculados'[k] = Append(vinculados[k], 0)
        BY <1>7, <2>1
      <4>2. QED
        BY <4>1
    <3>5. QED
      BY <1>7, <2>1, <3>2, <3>3, <3>4
  <2>2. CASE k # j
    BY <1>7, <2>2
  <2>3. QED
    BY <2>1, <2>2
<1>9. /\ otps'[j][Len(otps[j]) + 1] = nuevo /\ probados'[j][Len(otps[j]) + 1] = 0
      /\ vinculados'[j][Len(otps[j]) + 1] = 0
  <2>1. \A S, x : \A t \in Seq(S) : x \in S => Append(t, x)[Len(t) + 1] = x
    BY AppendProperties
  <2>2. otps[j] \in Seq(Codigo) /\ otps'[j] = Append(otps[j], nuevo)
    BY <1>5, <1>7
  <2>3. /\ probados[j] \in Seq(Nat) /\ probados'[j] = Append(probados[j], 0)
        /\ vinculados[j] \in Seq(Nat) /\ vinculados'[j] = Append(vinculados[j], 0)
        /\ Len(probados[j]) = Len(otps[j]) /\ Len(vinculados[j]) = Len(otps[j])
    BY <1>5, <1>7
  <2>4. probados'[j][Len(probados[j]) + 1] = 0 /\ vinculados'[j][Len(vinculados[j]) + 1] = 0
    BY <2>1, <2>3
  <2>5. otps'[j][Len(otps[j]) + 1] = nuevo
    BY <1>6, <2>1, <2>2
  <2>6. QED
    BY <2>3, <2>4, <2>5
<1>10. OtpTipos'
  <2>1. /\ otps' \in [Jids -> Seq(Codigo)] /\ probados' \in [Jids -> Seq(Nat)]
        /\ vinculados' \in [Jids -> Seq(Nat)]
    BY <1>2, <1>5, <1>8 DEF OtpTipos
  <2>2. QED
    BY <1>2, <1>5, <1>8, <2>1 DEF OtpTipos
<1>11. \A s \in Requests : op'[s] = IF s = r THEN Nadie ELSE op[s]
  BY <1>2 DEF OtpInv
<1>12. Cuentas'
  <2>1. ASSUME NEW k \in Jids, NEW i \in DOMAIN otps'[k]
        PROVE  Cuenta(k, i)'
    <3>1. Vinculando(k, i)' \subseteq Vinculando(k, i)
      BY <1>11 DEF Vinculando, Nadie
    <3>2. Cardinality(Vinculando(k, i)') <= Cardinality(Vinculando(k, i))
      BY <3>1, VinculandoBaja
    <3>3. CASE i \in DOMAIN otps[k]
      <4>1. Cuenta(k, i)
        BY <3>3 DEF OtpInv, Cuentas
      <4>2. probados[k][i] \in Nat /\ vinculados[k][i] \in Nat
        BY <3>3, <1>5, Registro
      <4>3. otps'[k][i] = otps[k][i] /\ probados'[k][i] = probados[k][i] /\ vinculados'[k][i] = vinculados[k][i]
        BY <1>8, <3>3
      <4>4. QED
        BY <3>2, <4>1, <4>2, <4>3, VinculandoFinito DEF Cuenta
    <3>4. CASE i \notin DOMAIN otps[k]
      <4>1. k = j /\ i = Len(otps[j]) + 1
        BY <1>8, <3>4
      <4>2. \A s \in Requests : op[s].paso = "vincular" => op[s] # Nadie /\ PedidoDeOtp(op[s])
        BY DEF OtpInv, Nadie
      <4>3. Vinculando(k, i) = {}
        <5>1. ASSUME NEW s \in Vinculando(k, i) PROVE FALSE
          <6>1. s \in Requests /\ op[s].paso = "vincular" /\ op[s].jid = k /\ op[s].i = i
            BY <5>1 DEF Vinculando
          <6>2. op[s].i \in DOMAIN otps[op[s].jid]
            BY <4>2, <6>1 DEF PedidoDeOtp
          <6>3. QED
            BY <3>4, <6>1, <6>2
        <5>2. QED
          BY <5>1
      <4>4. Cardinality(Vinculando(k, i)') = 0
        BY <3>1, <4>3, FS_EmptySet
      <4>5. QED
        BY <1>6, <1>9, <4>1, <4>4 DEF Cuenta
    <3>5. QED
      BY <3>3, <3>4
  <2>2. QED
    BY <2>1 DEF Cuentas
<1>13. ASSUME NEW p, PedidoDeOtp(p), Contado(p)
       PROVE  PedidoDeOtp(p)' /\ Contado(p)'
  <2>1. p.paso \in {"contar", "vincular"} =>
          p.jid \in Jids /\ p.i \in DOMAIN otps[p.jid] /\ p.i \in DOMAIN otps'[p.jid]
          /\ probados'[p.jid][p.i] = probados[p.jid][p.i]
    BY <1>8, <1>13 DEF PedidoDeOtp
  <2>2. QED
    BY <1>13, <2>1 DEF PedidoDeOtp, Contado
<1>14. ASSUME ~ solape'
       PROVE  Ordenados' /\ \A s \in Requests : s # r => op[s] = Nadie
  <2>1. \A s \in Requests : s # r => op[s] = Nadie
    BY <1>2, <1>3, <1>14 DEF OtpInv, UnaSola
  <2>2. \A i \in DOMAIN otps[j] : otps[j][i].verified
    BY <1>2, <1>3, <1>4, <1>5, <1>14 DEF OtpInv, Sabido
  <2>3. ASSUME NEW k \in Jids, NEW i \in DOMAIN otps'[k]
        PROVE  Ordenado(k, i)'
    <3>1. CASE i \in DOMAIN otps[k]
      <4>1. Ordenado(k, i)
        BY <1>2, <1>14, <3>1 DEF OtpInv, Ordenados
      <4>2. i < Len(otps'[k]) => otps[k][i].verified
        BY <1>8, <2>2, <3>1, <4>1 DEF Ordenado
      <4>3. QED
        BY <1>8, <3>1, <4>1, <4>2 DEF Ordenado
    <3>2. CASE i \notin DOMAIN otps[k]
      <4>1. k = j /\ i = Len(otps[j]) + 1
        BY <1>8, <3>2
      <4>2. QED
        BY <1>6, <1>8, <1>9, <4>1 DEF Ordenado
    <3>3. QED
      BY <3>1, <3>2
  <2>4. QED
    BY <2>1, <2>3 DEF Ordenados
<1>15. QED
  BY <1>2, <1>10, <1>12, <1>13, <1>14, OtpSigue

(* One element of one of the sequences changes.                             *)
SoloUno(g, S, f, j, i, c) ==
  /\ g \in [Jids -> Seq(S)]
  /\ \A k \in Jids : /\ Len(g[k]) = Len(f[k]) /\ DOMAIN g[k] = DOMAIN f[k]
                    /\ \A l \in DOMAIN f[k] : g[k][l] = IF k = j /\ l = i THEN c ELSE f[k][l]

LEMMA UnElemento ==
  ASSUME NEW S, NEW f \in [Jids -> Seq(S)], NEW j \in Jids, NEW i \in DOMAIN f[j], NEW c \in S,
         NEW g, g = [f EXCEPT ![j] = [f[j] EXCEPT ![i] = c]]
  PROVE  SoloUno(g, S, f, j, i, c)
<1>1. f[j] \in Seq(S) /\ DOMAIN f[j] = 1 .. Len(f[j]) /\ i \in 1 .. Len(f[j])
  BY LenProperties
<1>2. PICK t : t = [f[j] EXCEPT ![i] = c]
  OBVIOUS
<1>3. /\ t \in Seq(S) /\ Len(t) = Len(f[j])
      /\ \A l \in 1 .. Len(f[j]) : t[l] = IF l = i THEN c ELSE f[j][l]
  BY <1>1, <1>2, ExceptSeq
<1>4. DOMAIN t = DOMAIN f[j]
  BY <1>2
<1>5. g \in [Jids -> Seq(S)] /\ \A k \in Jids : g[k] = IF k = j THEN t ELSE f[k]
  BY <1>2, <1>3
<1>6. QED
  BY <1>1, <1>3, <1>4, <1>5 DEF SoloUno

LEMMA UnContador ==
  ASSUME NEW f \in [Jids -> Seq(Nat)], NEW j \in Jids, NEW i \in DOMAIN f[j],
         NEW g, g = [f EXCEPT ![j][i] = @ + 1]
  PROVE  /\ g \in [Jids -> Seq(Nat)]
         /\ \A k \in Jids : /\ Len(g[k]) = Len(f[k]) /\ DOMAIN g[k] = DOMAIN f[k]
                           /\ \A l \in DOMAIN f[k] : g[k][l] = IF k = j /\ l = i THEN f[k][l] + 1 ELSE f[k][l]
<1>1. PICK c, N : N = Nat /\ c = f[j][i] + 1
  OBVIOUS
<1>2. f \in [Jids -> Seq(N)] /\ c \in N /\ g = [f EXCEPT ![j] = [f[j] EXCEPT ![i] = c]]
  BY <1>1
<1>3. /\ g \in [Jids -> Seq(N)]
      /\ \A k \in Jids : /\ Len(g[k]) = Len(f[k]) /\ DOMAIN g[k] = DOMAIN f[k]
                        /\ \A l \in DOMAIN f[k] : g[k][l] = IF k = j /\ l = i THEN c ELSE f[k][l]
  BY <1>1, <1>2, UnElemento DEF SoloUno
<1>4. QED
  BY <1>1, <1>3

(* The domains stay, and what a request holds of its record.                *)
LEMMA MismosRegistros ==
  ASSUME OtpTipos, \A k \in Jids : DOMAIN otps'[k] = DOMAIN otps[k],
         \A k \in Jids : \A l \in DOMAIN otps[k] : probados[k][l] <= probados'[k][l],
         \A k \in Jids : \A l \in DOMAIN otps[k] : probados'[k][l] \in Nat,
         NEW p, PedidoDeOtp(p), Contado(p)
  PROVE  PedidoDeOtp(p)' /\ Contado(p)'
<1>1. PedidoDeOtp(p)'
  BY DEF PedidoDeOtp
<1>2. ASSUME p.paso = "contar"
      PROVE  p.attempts <= probados'[p.jid][p.i] + 1
  <2>1. p.jid \in Jids /\ p.i \in DOMAIN otps[p.jid] /\ p.attempts \in Nat
    BY <1>2 DEF PedidoDeOtp
  <2>2. /\ probados[p.jid][p.i] \in Nat /\ probados'[p.jid][p.i] \in Nat
        /\ probados[p.jid][p.i] <= probados'[p.jid][p.i]
    BY <2>1, Registro
  <2>3. p.attempts <= probados[p.jid][p.i] + 1
    BY <1>2 DEF Contado
  <2>4. QED
    BY <2>1, <2>2, <2>3
<1>3. QED
  BY <1>1, <1>2 DEF Contado

(* save() of the count and the comparison.                                  *)
LEMMA ContarInv ==
  ASSUME OtpInv, NEW r \in Requests, Otp!Contar(r)
  PROVE  OtpInv'
<1>1. op[r].paso = "contar" /\ op[r] # Nadie
  BY DEF Otp!Contar, Nadie
<1>2. PICK q : q = op[r] /\ PedidoDeOtp(q) /\ Contado(q) /\ q.paso = "contar"
  BY <1>1 DEF OtpInv
<1>3. PICK j \in Jids, i, n \in Nat :
        /\ q = [f \in {"paso", "jid", "i", "attempts", "otp"} |-> q[f]]
        /\ q.jid = j /\ q.i = i /\ q.attempts = n /\ i \in DOMAIN otps[j]
  <2>1. /\ q = [f \in {"paso", "jid", "i", "attempts", "otp"} |-> q[f]]
        /\ q.jid \in Jids /\ q.i \in DOMAIN otps[q.jid] /\ q.attempts \in Nat
    BY <1>2 DEF PedidoDeOtp
  <2>2. q.i \in Nat
    BY <2>1, Registro DEF OtpInv
  <2>3. QED
    BY <2>1, <2>2
<1>4. OtpTipos /\ n <= probados[j][i] + 1
  BY <1>2, <1>3 DEF OtpInv, Contado
<1>5. /\ otps' = [otps EXCEPT ![j][i].attempts = n] /\ probados' = [probados EXCEPT ![j][i] = @ + 1]
      /\ minuto' = minuto /\ vinculados' = vinculados /\ solape' = solape
  BY <1>2, <1>3 DEF Otp!Contar, Otp!Terminar, Otp!Seguir
<1>6. PICK q1 : op' = [op EXCEPT ![r] = q1] /\ (q1 = Nadie \/ q1 = [q EXCEPT !.paso = "vincular"])
  BY <1>2 DEF Otp!Contar, Otp!Terminar, Otp!Seguir, Otp!Libre, Nadie
<1>7. q1 # Nadie => /\ q1 = [f \in {"paso", "jid", "i", "attempts", "otp"} |-> q1[f]]
                    /\ q1.paso = "vincular" /\ q1.jid = j /\ q1.i = i /\ q1.attempts = n
  BY <1>3, <1>6
<1>8. PICK c \in Codigo :
        /\ c.attempts = n /\ c.verified = otps[j][i].verified
        /\ otps' = [otps EXCEPT ![j] = [otps[j] EXCEPT ![i] = c]]
  <2>1. otps[j][i] \in Codigo
    BY <1>3, <1>4, Registro
  <2>2. PICK c : c = [otps[j][i] EXCEPT !.attempts = n]
    OBVIOUS
  <2>3. c \in Codigo /\ c.attempts = n /\ c.verified = otps[j][i].verified
    BY <2>1, <2>2 DEF Codigo
  <2>4. otps' = [otps EXCEPT ![j] = [otps[j] EXCEPT ![i] = c]]
    BY <1>5, <2>2
  <2>5. QED
    BY <2>3, <2>4
<1>9. /\ otps' \in [Jids -> Seq(Codigo)]
      /\ \A k \in Jids : /\ Len(otps'[k]) = Len(otps[k]) /\ DOMAIN otps'[k] = DOMAIN otps[k]
                        /\ \A l \in DOMAIN otps[k] : otps'[k][l] = IF k = j /\ l = i THEN c ELSE otps[k][l]
  <2>1. otps \in [Jids -> Seq(Codigo)] /\ j \in Jids /\ i \in DOMAIN otps[j]
    BY <1>3, <1>4, Registro DEF OtpTipos
  <2>2. SoloUno(otps', Codigo, otps, j, i, c)
    BY <1>8, <2>1, UnElemento
  <2>3. QED
    BY <2>2 DEF SoloUno
<1>10. /\ probados' \in [Jids -> Seq(Nat)]
       /\ \A k \in Jids : /\ Len(probados'[k]) = Len(probados[k]) /\ DOMAIN probados'[k] = DOMAIN probados[k]
                         /\ \A l \in DOMAIN probados[k] :
                              probados'[k][l] = IF k = j /\ l = i THEN probados[k][l] + 1 ELSE probados[k][l]
  <2>1. i \in DOMAIN probados[j] /\ probados \in [Jids -> Seq(Nat)]
    BY <1>3, <1>4, Registro DEF OtpTipos
  <2>2. QED
    BY <1>5, <2>1, UnContador
<1>11. OtpTipos'
  BY <1>4, <1>5, <1>9, <1>10 DEF OtpTipos
<1>12. \A s \in Requests : op'[s] = IF s = r THEN q1 ELSE op[s]
  BY <1>6 DEF OtpInv
<1>13. ASSUME NEW k \in Jids, NEW l \in DOMAIN otps[k]
       PROVE  /\ probados[k][l] \in Nat /\ vinculados[k][l] \in Nat /\ otps[k][l] \in Codigo
              /\ probados'[k][l] = IF k = j /\ l = i THEN probados[k][l] + 1 ELSE probados[k][l]
              /\ otps'[k][l] = IF k = j /\ l = i THEN c ELSE otps[k][l]
  BY <1>4, <1>9, <1>10, Registro
<1>14. Cuentas'
  <2>1. ASSUME NEW k \in Jids, NEW l \in DOMAIN otps[k]
        PROVE  Cuenta(k, l)'
    <3>1. Cuenta(k, l)
      BY <2>1 DEF OtpInv, Cuentas
    <3>2. CASE k = j /\ l = i
      <4>1. Vinculando(k, l)' \subseteq Vinculando(k, l) \cup {r}
        BY <1>12 DEF Vinculando
      <4>2. /\ IsFiniteSet(Vinculando(k, l) \cup {r})
            /\ Cardinality(Vinculando(k, l) \cup {r}) <= Cardinality(Vinculando(k, l)) + 1
        <5>1. IsFiniteSet(Vinculando(k, l)) /\ Cardinality(Vinculando(k, l)) \in Nat
          BY VinculandoFinito
        <5>2. /\ IsFiniteSet(Vinculando(k, l) \cup {r})
              /\ Cardinality(Vinculando(k, l) \cup {r}) =
                   IF r \in Vinculando(k, l) THEN Cardinality(Vinculando(k, l))
                   ELSE Cardinality(Vinculando(k, l)) + 1
          BY <5>1, FS_AddElement
        <5>3. QED
          BY <5>1, <5>2
      <4>3. Cardinality(Vinculando(k, l)') <= Cardinality(Vinculando(k, l) \cup {r})
        BY <4>1, <4>2, FS_Subset
      <4>4. Cardinality(Vinculando(k, l) \cup {r}) \in Nat
        BY <4>2, FS_CardinalityType
      <4>5. /\ otps'[k][l] = c /\ probados'[k][l] = probados[k][l] + 1 /\ vinculados'[k][l] = vinculados[k][l]
            /\ probados[k][l] \in Nat /\ vinculados[k][l] \in Nat
        BY <1>5, <1>13, <3>2
      <4>6. otps'[k][l].attempts <= probados'[k][l]
        BY <1>4, <1>8, <3>2, <4>5
      <4>7. vinculados'[k][l] > 0 => otps'[k][l].verified
        BY <1>8, <3>1, <3>2, <4>5 DEF Cuenta
      <4>8. vinculados'[k][l] + Cardinality(Vinculando(k, l)') <= probados'[k][l]
        BY <3>1, <4>2, <4>3, <4>4, <4>5, VinculandoFinito DEF Cuenta
      <4>9. QED
        BY <4>6, <4>7, <4>8 DEF Cuenta
    <3>3. CASE ~ (k = j /\ l = i)
      <4>1. Vinculando(k, l)' \subseteq Vinculando(k, l)
        BY <1>7, <1>12, <3>3 DEF Vinculando, Nadie
      <4>2. Cardinality(Vinculando(k, l)') <= Cardinality(Vinculando(k, l))
        BY <4>1, VinculandoBaja
      <4>3. /\ otps'[k][l] = otps[k][l] /\ probados'[k][l] = probados[k][l] /\ vinculados'[k][l] = vinculados[k][l]
            /\ probados[k][l] \in Nat /\ vinculados[k][l] \in Nat
        BY <1>5, <1>13, <3>3
      <4>4. QED
        BY <3>1, <4>2, <4>3, VinculandoFinito DEF Cuenta
    <3>4. QED
      BY <3>2, <3>3
  <2>2. QED
    BY <1>9, <2>1 DEF Cuentas
<1>15. \A p : PedidoDeOtp(p) /\ Contado(p) => PedidoDeOtp(p)' /\ Contado(p)'
  <2>1. \A k \in Jids : DOMAIN otps'[k] = DOMAIN otps[k]
    BY <1>9
  <2>2. \A k \in Jids : \A l \in DOMAIN otps[k] : probados[k][l] <= probados'[k][l] /\ probados'[k][l] \in Nat
    BY <1>13
  <2>3. QED
    BY <1>4, <2>1, <2>2, MismosRegistros
<1>16. q1 # Nadie => PedidoDeOtp(q1)' /\ Contado(q1)'
  BY <1>3, <1>7, <1>9 DEF PedidoDeOtp, Contado
<1>17. ASSUME ~ solape'
       PROVE  Ordenados' /\ (q1 # Nadie => Sabido(q1)') /\ \A s \in Requests : s # r => op[s] = Nadie
  <2>1. \A s \in Requests : s # r => op[s] = Nadie
    BY <1>1, <1>5, <1>17 DEF OtpInv, UnaSola
  <2>2. Sabido(q)
    BY <1>1, <1>2, <1>5, <1>17 DEF OtpInv
  <2>3. n = otps[j][i].attempts + 1 /\ n <= 3 /\ vinculados[j][i] = 0
    BY <1>2, <1>3, <2>2 DEF Sabido
  <2>4. q1 # Nadie => Sabido(q1)'
    BY <1>5, <1>7, <2>3 DEF Sabido
  <2>5. ASSUME NEW k \in Jids, NEW l \in DOMAIN otps[k]
        PROVE  Ordenado(k, l)'
    <3>1. Ordenado(k, l)
      BY <1>5, <1>17 DEF OtpInv, Ordenados
    <3>2. Len(otps'[k]) = Len(otps[k]) /\ vinculados'[k][l] = vinculados[k][l]
      BY <1>5, <1>9
    <3>3. CASE k = j /\ l = i
      <4>1. otps'[k][l] = c /\ probados'[k][l] = probados[k][l] + 1
        BY <1>13, <3>3
      <4>2. QED
        BY <1>8, <2>3, <3>1, <3>2, <3>3, <4>1 DEF Ordenado
    <3>4. CASE ~ (k = j /\ l = i)
      <4>1. otps'[k][l] = otps[k][l] /\ probados'[k][l] = probados[k][l]
        BY <1>13, <3>4
      <4>2. QED
        BY <3>1, <3>2, <4>1 DEF Ordenado
    <3>5. QED
      BY <3>3, <3>4
  <2>6. Ordenados'
    BY <1>9, <2>5 DEF Ordenados
  <2>7. QED
    BY <2>1, <2>4, <2>6
<1>18. QED
  BY <1>5, <1>6, <1>11, <1>14, <1>15, <1>16, <1>17, OtpSigue

(* The second save(): one request less is about to link, and one did.       *)
LEMMA VincularInv ==
  ASSUME OtpInv, NEW r \in Requests, Otp!Vincular(r)
  PROVE  OtpInv'
<1>1. op[r].paso = "vincular" /\ op[r] # Nadie
  BY DEF Otp!Vincular, Nadie
<1>2. PICK q : q = op[r] /\ PedidoDeOtp(q) /\ Contado(q) /\ q.paso = "vincular"
  BY <1>1 DEF OtpInv
<1>3. PICK j \in Jids, i \in Nat : q.jid = j /\ q.i = i /\ i \in DOMAIN otps[j]
  <2>1. q.jid \in Jids /\ q.i \in DOMAIN otps[q.jid]
    BY <1>2 DEF PedidoDeOtp
  <2>2. q.i \in Nat
    BY <2>1, Registro DEF OtpInv
  <2>3. QED
    BY <2>1, <2>2
<1>4. OtpTipos
  BY DEF OtpInv
<1>5. /\ otps' = [otps EXCEPT ![j][i].verified = TRUE] /\ vinculados' = [vinculados EXCEPT ![j][i] = @ + 1]
      /\ minuto' = minuto /\ probados' = probados /\ solape' = solape
      /\ op' = [op EXCEPT ![r] = Nadie]
  BY <1>2, <1>3 DEF Otp!Vincular, Otp!Terminar, Otp!Seguir, Otp!Libre, Nadie
<1>6. PICK c \in Codigo :
        /\ c.attempts = otps[j][i].attempts /\ c.verified
        /\ otps' = [otps EXCEPT ![j] = [otps[j] EXCEPT ![i] = c]]
  <2>1. otps[j][i] \in Codigo
    BY <1>3, <1>4, Registro
  <2>2. PICK c : c = [otps[j][i] EXCEPT !.verified = TRUE]
    OBVIOUS
  <2>3. c \in Codigo /\ c.attempts = otps[j][i].attempts /\ c.verified
    BY <2>1, <2>2 DEF Codigo
  <2>4. otps' = [otps EXCEPT ![j] = [otps[j] EXCEPT ![i] = c]]
    BY <1>5, <2>2
  <2>5. QED
    BY <2>3, <2>4
<1>7. /\ otps' \in [Jids -> Seq(Codigo)]
      /\ \A k \in Jids : /\ Len(otps'[k]) = Len(otps[k]) /\ DOMAIN otps'[k] = DOMAIN otps[k]
                        /\ \A l \in DOMAIN otps[k] : otps'[k][l] = IF k = j /\ l = i THEN c ELSE otps[k][l]
  <2>1. otps \in [Jids -> Seq(Codigo)] /\ j \in Jids /\ i \in DOMAIN otps[j]
    BY <1>3, <1>4, Registro DEF OtpTipos
  <2>2. SoloUno(otps', Codigo, otps, j, i, c)
    BY <1>6, <2>1, UnElemento
  <2>3. QED
    BY <2>2 DEF SoloUno
<1>8. /\ vinculados' \in [Jids -> Seq(Nat)]
      /\ \A k \in Jids :
           /\ Len(vinculados'[k]) = Len(vinculados[k]) /\ DOMAIN vinculados'[k] = DOMAIN vinculados[k]
           /\ \A l \in DOMAIN vinculados[k] :
                vinculados'[k][l] = IF k = j /\ l = i THEN vinculados[k][l] + 1 ELSE vinculados[k][l]
  <2>1. i \in DOMAIN vinculados[j] /\ vinculados \in [Jids -> Seq(Nat)]
    BY <1>3, <1>4, Registro DEF OtpTipos
  <2>2. QED
    BY <1>5, <2>1, UnContador
<1>9. OtpTipos'
  BY <1>4, <1>5, <1>7, <1>8 DEF OtpTipos
<1>10. \A s \in Requests : op'[s] = IF s = r THEN Nadie ELSE op[s]
  BY <1>5 DEF OtpInv
<1>11. ASSUME NEW k \in Jids, NEW l \in DOMAIN otps[k]
       PROVE  /\ probados[k][l] \in Nat /\ vinculados[k][l] \in Nat
              /\ vinculados'[k][l] = IF k = j /\ l = i THEN vinculados[k][l] + 1 ELSE vinculados[k][l]
              /\ otps'[k][l] = IF k = j /\ l = i THEN c ELSE otps[k][l]
  BY <1>4, <1>7, <1>8, Registro
<1>12. Cuentas'
  <2>1. ASSUME NEW k \in Jids, NEW l \in DOMAIN otps[k]
        PROVE  Cuenta(k, l)'
    <3>1. Cuenta(k, l)
      BY <2>1 DEF OtpInv, Cuentas
    <3>2. probados'[k][l] = probados[k][l]
      BY <1>5
    <3>3. CASE k = j /\ l = i
      <4>1. Vinculando(k, l)' = Vinculando(k, l) \ {r} /\ r \in Vinculando(k, l)
        BY <1>1, <1>2, <1>3, <1>10, <3>3 DEF Vinculando, Nadie
      <4>2. IsFiniteSet(Vinculando(k, l)) /\ Cardinality(Vinculando(k, l)) \in Nat
        BY VinculandoFinito
      <4>3. Cardinality(Vinculando(k, l)') = Cardinality(Vinculando(k, l)) - 1
        BY <4>1, <4>2, FS_RemoveElement
      <4>4. /\ otps'[k][l] = c /\ vinculados'[k][l] = vinculados[k][l] + 1
            /\ probados[k][l] \in Nat /\ vinculados[k][l] \in Nat
        BY <1>11, <3>3
      <4>5. vinculados'[k][l] + Cardinality(Vinculando(k, l)') <= probados'[k][l]
        BY <3>1, <3>2, <4>2, <4>3, <4>4 DEF Cuenta
      <4>6. QED
        BY <1>6, <3>1, <3>2, <3>3, <4>4, <4>5 DEF Cuenta
    <3>4. CASE ~ (k = j /\ l = i)
      <4>1. Vinculando(k, l)' \subseteq Vinculando(k, l)
        BY <1>10 DEF Vinculando, Nadie
      <4>2. Cardinality(Vinculando(k, l)') <= Cardinality(Vinculando(k, l))
        BY <4>1, VinculandoBaja
      <4>3. /\ otps'[k][l] = otps[k][l] /\ vinculados'[k][l] = vinculados[k][l]
            /\ probados[k][l] \in Nat /\ vinculados[k][l] \in Nat
        BY <1>11, <3>4
      <4>4. QED
        BY <3>1, <3>2, <4>2, <4>3, VinculandoFinito DEF Cuenta
    <3>5. QED
      BY <3>3, <3>4
  <2>2. QED
    BY <1>7, <2>1 DEF Cuentas
<1>13. \A p : PedidoDeOtp(p) /\ Contado(p) => PedidoDeOtp(p)' /\ Contado(p)'
  <2>1. \A k \in Jids : DOMAIN otps'[k] = DOMAIN otps[k]
    BY <1>7
  <2>2. \A k \in Jids : \A l \in DOMAIN otps[k] : probados[k][l] <= probados'[k][l] /\ probados'[k][l] \in Nat
    BY <1>5, <1>11
  <2>3. QED
    BY <1>4, <2>1, <2>2, MismosRegistros
<1>14. ASSUME ~ solape'
       PROVE  Ordenados' /\ \A s \in Requests : s # r => op[s] = Nadie
  <2>1. \A s \in Requests : s # r => op[s] = Nadie
    BY <1>1, <1>5, <1>14 DEF OtpInv, UnaSola
  <2>2. Sabido(q)
    BY <1>1, <1>2, <1>5, <1>14 DEF OtpInv
  <2>3. vinculados[j][i] = 0
    BY <1>2, <1>3, <2>2 DEF Sabido
  <2>4. ASSUME NEW k \in Jids, NEW l \in DOMAIN otps[k]
        PROVE  Ordenado(k, l)'
    <3>1. Ordenado(k, l)
      BY <1>5, <1>14 DEF OtpInv, Ordenados
    <3>2. Len(otps'[k]) = Len(otps[k]) /\ probados'[k][l] = probados[k][l]
      BY <1>5, <1>7
    <3>3. CASE k = j /\ l = i
      <4>1. otps'[k][l] = c /\ vinculados'[k][l] = 1
        BY <1>11, <2>3, <3>3
      <4>2. QED
        BY <1>6, <3>1, <3>2, <3>3, <4>1 DEF Ordenado
    <3>4. CASE ~ (k = j /\ l = i)
      <4>1. otps'[k][l] = otps[k][l] /\ vinculados'[k][l] = vinculados[k][l]
        BY <1>11, <3>4
      <4>2. QED
        BY <3>1, <3>2, <4>1 DEF Ordenado
    <3>5. QED
      BY <3>3, <3>4
  <2>5. Ordenados'
    BY <1>7, <2>4 DEF Ordenados
  <2>6. QED
    BY <2>1, <2>5
<1>15. QED
  BY <1>5, <1>9, <1>12, <1>13, <1>14, OtpSigue

(* The clock, the index that deletes what expired, or nothing: marks and    *)
(* counts stay.                                                             *)
LEMMA OtpSinPeticion ==
  ASSUME OtpInv, op' = op, solape' = solape, minuto' \in Nat, probados' = probados, vinculados' = vinculados,
         otps' \in [Jids -> Seq(Codigo)],
         \A k \in Jids : /\ Len(otps'[k]) = Len(otps[k]) /\ DOMAIN otps'[k] = DOMAIN otps[k]
                       /\ \A l \in DOMAIN otps[k] : /\ otps'[k][l].attempts = otps[k][l].attempts
                                                   /\ otps'[k][l].verified = otps[k][l].verified
  PROVE  OtpInv'
<1>1. OtpTipos /\ OtpTipos'
  BY DEF OtpInv, OtpTipos
<1>2. \A k, l : Vinculando(k, l)' = Vinculando(k, l)
  BY DEF Vinculando
<1>3. Cuentas'
  <2>1. ASSUME NEW k \in Jids, NEW l \in DOMAIN otps[k]
        PROVE  Cuenta(k, l)'
    <3>1. Cuenta(k, l)
      BY <2>1 DEF OtpInv, Cuentas
    <3>2. QED
      BY <1>2, <3>1 DEF Cuenta
  <2>2. QED
    BY <2>1 DEF Cuentas
<1>4. ASSUME ~ solape
      PROVE  Ordenados'
  <2>1. ASSUME NEW k \in Jids, NEW l \in DOMAIN otps[k]
        PROVE  Ordenado(k, l)'
    <3>1. Ordenado(k, l)
      BY <1>4, <2>1 DEF OtpInv, Ordenados
    <3>2. QED
      BY <3>1 DEF Ordenado
  <2>2. QED
    BY <2>1 DEF Ordenados
<1>5. ASSUME NEW p, PedidoDeOtp(p)
      PROVE  PedidoDeOtp(p)' /\ (Contado(p) => Contado(p)') /\ (Sabido(p) => Sabido(p)')
  <2>1. p.jid \in Jids /\ (p.paso \in {"contar", "vincular"} => p.i \in DOMAIN otps[p.jid])
    BY <1>5 DEF PedidoDeOtp
  <2>2. PedidoDeOtp(p)'
    BY <1>5 DEF PedidoDeOtp
  <2>3. Contado(p) => Contado(p)'
    BY DEF Contado
  <2>4. Sabido(p) => Sabido(p)'
    BY <2>1 DEF Sabido
  <2>5. QED
    BY <2>2, <2>3, <2>4
<1>6. ASSUME NEW s \in Requests, op[s] # Nadie
      PROVE  /\ (PedidoDeOtp(op[s]))' /\ (Contado(op[s]))'
             /\ ~ solape => (Sabido(op[s]))'
  <2>1. PICK p : p = op[s]
    OBVIOUS
  <2>2. PedidoDeOtp(p) /\ Contado(p) /\ (~ solape => Sabido(p))
    BY <1>6, <2>1 DEF OtpInv
  <2>3. PedidoDeOtp(p)' /\ Contado(p)' /\ (~ solape => Sabido(p)')
    BY <1>5, <2>2
  <2>4. p = op'[s]
    BY <2>1
  <2>5. QED
    BY <2>3, <2>4
<1>7. UnaSola => UnaSola'
  BY DEF UnaSola
<1>8. QED
  BY <1>1, <1>3, <1>4, <1>6, <1>7 DEF OtpInv

LEMMA CaducarInv ==
  ASSUME OtpInv, NEW j \in Jids, NEW i \in DOMAIN otps[j], Otp!Caducar(j, i)
  PROVE  OtpInv'
<1>1. /\ otps' = [otps EXCEPT ![j][i].borrado = TRUE] /\ minuto' = minuto /\ probados' = probados
      /\ vinculados' = vinculados /\ op' = op /\ solape' = solape
  BY DEF Otp!Caducar, Otp!peticiones
<1>2. OtpTipos
  BY DEF OtpInv
<1>3. PICK c \in Codigo :
        /\ c.attempts = otps[j][i].attempts /\ c.verified = otps[j][i].verified
        /\ otps' = [otps EXCEPT ![j] = [otps[j] EXCEPT ![i] = c]]
  <2>1. otps[j][i] \in Codigo
    BY <1>2, Registro
  <2>2. PICK c : c = [otps[j][i] EXCEPT !.borrado = TRUE]
    OBVIOUS
  <2>3. c \in Codigo /\ c.attempts = otps[j][i].attempts /\ c.verified = otps[j][i].verified
    BY <2>1, <2>2 DEF Codigo
  <2>4. otps' = [otps EXCEPT ![j] = [otps[j] EXCEPT ![i] = c]]
    BY <1>1, <2>2
  <2>5. QED
    BY <2>3, <2>4
<1>4. /\ otps' \in [Jids -> Seq(Codigo)]
      /\ \A k \in Jids : /\ Len(otps'[k]) = Len(otps[k]) /\ DOMAIN otps'[k] = DOMAIN otps[k]
                        /\ \A l \in DOMAIN otps[k] : otps'[k][l] = IF k = j /\ l = i THEN c ELSE otps[k][l]
  <2>1. otps \in [Jids -> Seq(Codigo)] /\ j \in Jids /\ i \in DOMAIN otps[j]
    BY <1>2, Registro DEF OtpTipos
  <2>2. SoloUno(otps', Codigo, otps, j, i, c)
    BY <1>3, <2>1, UnElemento
  <2>3. QED
    BY <2>2 DEF SoloUno
<1>5. \A k \in Jids : \A l \in DOMAIN otps[k] : /\ otps'[k][l].attempts = otps[k][l].attempts
                                                /\ otps'[k][l].verified = otps[k][l].verified
  BY <1>3, <1>4
<1>6. minuto' \in Nat
  BY <1>1, <1>2 DEF OtpTipos
<1>7. QED
  BY <1>1, <1>4, <1>5, <1>6, OtpSinPeticion

LEMMA PasoOtp == OtpInv /\ Otp!NextOtp => OtpInv'
<1> SUFFICES ASSUME OtpInv, Otp!NextOtp PROVE OtpInv'
  OBVIOUS
<1>1. CASE \E r \in Requests, j \in Jids : Otp!ValidateIdentity(r, j)
  BY <1>1, ValidateIdentityInv
<1>2. CASE \E r \in Requests, j \in Jids, c \in Codigos : Otp!VerifyOtp(r, j, c)
  BY <1>2, VerifyOtpInv
<1>3. CASE \E r \in Requests : Otp!Invalidar(r)
  BY <1>3, InvalidarInv
<1>4. CASE \E r \in Requests, c \in Codigos : Otp!Crear(r, c)
  BY <1>4, CrearInv
<1>5. CASE \E r \in Requests : Otp!Contar(r)
  BY <1>5, ContarInv
<1>6. CASE \E r \in Requests : Otp!Vincular(r)
  BY <1>6, VincularInv
<1>7. CASE \E r \in Requests : Otp!NoGuardar(r) \/ (Otp!Morir(r) /\ UNCHANGED Otp!otpVars)
  BY <1>7, TerminaSinEscribir
<1>8. CASE Otp!PasaElTiempo
  BY <1>8, OtpSinPeticion DEF Otp!PasaElTiempo, Otp!peticiones, OtpInv, OtpTipos
<1>9. CASE \E j \in Jids : \E i \in DOMAIN otps[j] : Otp!Caducar(j, i)
  BY <1>9, CaducarInv
<1>10. QED
  BY <1>1, <1>2, <1>3, <1>4, <1>5, <1>6, <1>7, <1>8, <1>9 DEF Otp!NextOtp

LEMMA CodigosInv == OtpInv => Otp!UnSoloCodigo /\ Otp!VinculoComprobado
<1> SUFFICES ASSUME OtpInv PROVE Otp!UnSoloCodigo /\ Otp!VinculoComprobado
  OBVIOUS
<1>1. ASSUME NEW j \in Jids, NEW i \in DOMAIN otps[j]
      PROVE  /\ otps[j][i].attempts <= probados[j][i] /\ vinculados[j][i] <= probados[j][i]
             /\ vinculados[j][i] > 0 => otps[j][i].verified
             /\ vinculados[j][i] \in Nat
  <2>1. Cuenta(j, i)
    BY <1>1 DEF OtpInv, Cuentas
  <2>2. probados[j][i] \in Nat /\ vinculados[j][i] \in Nat
    BY <1>1, Registro DEF OtpInv
  <2>3. QED
    BY <2>1, <2>2, VinculandoFinito DEF Cuenta
<1>2. ASSUME NEW j \in Jids, NEW i \in Otp!Activos(j)
      PROVE  i \in DOMAIN otps[j] /\ ~ otps[j][i].verified
  BY <1>2 DEF Otp!Activos
<1>3. Otp!VinculoComprobado
  BY <1>1, <1>2 DEF Otp!VinculoComprobado
<1>4. ASSUME ~ solape, NEW j \in Jids
      PROVE  /\ Otp!Activos(j) \subseteq {Len(otps[j])}
             /\ \A i \in Otp!Activos(j) : vinculados[j][i] = 0
             /\ \A i \in DOMAIN otps[j] : /\ probados[j][i] = otps[j][i].attempts
                                          /\ probados[j][i] <= 3 /\ vinculados[j][i] <= 1
  <2>1. \A i \in DOMAIN otps[j] : Ordenado(j, i)
    BY <1>4 DEF OtpInv, Ordenados
  <2>2. ASSUME NEW i \in Otp!Activos(j)
        PROVE  i = Len(otps[j]) /\ vinculados[j][i] = 0
    <3>1. i \in DOMAIN otps[j] /\ ~ otps[j][i].verified
      BY <1>2
    <3>2. i \in 1 .. Len(otps[j]) /\ Len(otps[j]) \in Nat
      BY <3>1, Registro DEF OtpInv
    <3>3. QED
      BY <1>1, <2>1, <3>1, <3>2 DEF Ordenado
  <2>3. QED
    BY <2>1, <2>2 DEF Ordenado
<1>5. Otp!UnSoloCodigo
  BY <1>4 DEF Otp!UnSoloCodigo, Otp!MAX_ATTEMPTS
<1>6. QED
  BY <1>3, <1>5

(* ContractSettings and OtpVerification: what is written back from a copy   *)
(* was up to date.  The settings are what was last asked for, and a code is *)
(* one, counted and used once, until two requests overlap; and whatever     *)
(* overlaps, only comparisons are counted and link (contract-settings and   *)
(* otp services).                                                           *)
THEOREM CopiasSiempreAlDia == Spec => []CopiasAlDia
<1> DEFINE I == (foco = "config" => ConfigInv) /\ (foco = "otp" => OtpInv)
<1>1. Init => I
  BY InitConfigInv, InitOtpInv
<1>2. I /\ [Next]_registrosVars => I'
  <2> SUFFICES ASSUME I, [Next]_registrosVars PROVE I'
    OBVIOUS
  <2>1. CASE Next
    <3>1. foco' = foco
      BY <2>1 DEF Next, LosDemas
    <3>2. CASE foco = "config"
      BY <2>1, <3>1, <3>2, PasoConfig DEF Next
    <3>3. CASE foco = "otp"
      BY <2>1, <3>1, <3>3, PasoOtp DEF Next
    <3>4. QED
      BY <3>1, <3>2, <3>3
  <2>2. CASE UNCHANGED registrosVars
    <3>1. foco' = foco /\ op' = op /\ solape' = solape /\ UNCHANGED <<configVars, otpVars>>
      BY <2>2 DEF registrosVars, peticionesVars
    <3>2. CASE foco = "config"
      <4>1. ajustes_' = ajustes_ /\ pedidos' = pedidos
        BY <3>1 DEF configVars
      <4>2. QED
        BY <3>1, <3>2, <4>1 DEF ConfigInv, UnaSola
    <3>3. CASE foco = "otp"
      BY <3>1, <3>3, OtpSinPeticion DEF otpVars, OtpInv, OtpTipos
    <3>4. QED
      BY <3>1, <3>2, <3>3
  <2>3. QED
    BY <2>1, <2>2
<1>3. I => CopiasAlDia
  BY ConfiguracionInv, CodigosInv DEF CopiasAlDia
<1>4. QED
  BY <1>1, <1>2, <1>3, PTL DEF Spec

----------------------------------------------------------------------------
(* Inventory.  A creation that read no current version will write one, and  *)
(* one that read a current version still finds one; and, until two requests *)
(* overlap or a version is deleted, the numbers of the versions of a        *)
(* property are no greater than how many there are.                         *)

VersionDe == [de : Propiedades, numero : Nat, status : Inventarios!Estados]
FichaInventario == [existe : BOOLEAN, actual : Nat \cup {NoVersion}, versions : SUBSET Nat]
Cuantas(p) == Cardinality(Inventarios!De(p))

PedidoDeInventario(q) ==
  \/ /\ q.paso \in {"contar", "insertar", "enlazar"} /\ q.p \in Propiedades
     /\ ~ q.sinActual => inventario[q.p].actual # NoVersion
     /\ q.paso = "contar" => q.status \in Inventarios!Estados
     /\ q.paso = "insertar" => q.doc \in VersionDe /\ q.doc.de = q.p
     /\ q.paso = "enlazar" => q.v \in 1 .. creadas /\ (version[q.v] # NoVersion => version[q.v].de = q.p)
  \/ q.paso \in {"modificar", "borrar"} /\ q.v \in 1 .. MaxVersiones
     /\ (q.paso = "modificar" => q.status \in Inventarios!Estados)
  \/ q.paso = "fijar" /\ q.p \in Propiedades /\ q.v \in 1 .. MaxVersiones

InvTipos ==
  /\ creadas \in 0 .. MaxVersiones
  /\ version \in [1 .. MaxVersiones -> VersionDe \cup {NoVersion}]
  /\ \A v \in 1 .. MaxVersiones : v > creadas => version[v] = NoVersion
  /\ inventario \in [Propiedades -> FichaInventario]
Enlazadas ==
  \A p \in Propiedades : \A v \in Inventarios!De(p) :
    \/ v \in inventario[p].versions \cup sinEnlace
    \/ \E r \in Requests : op[r].paso = "enlazar" /\ op[r].v = v
ConActual == \A p \in Propiedades : inventario[p].versions # {} => inventario[p].actual # NoVersion
Numeradas ==
  \A p \in Propiedades : \A v \in Inventarios!De(p) :
    /\ version[v].numero <= Cuantas(p)
    /\ \A w \in Inventarios!De(p) : v # w => version[v].numero # version[w].numero
PorNumerar(q) == q.paso = "insertar" => q.doc.numero = Cuantas(q.p) + 1

InventarioInv ==
  /\ InvTipos /\ Enlazadas /\ ConActual
  /\ op = [r \in Requests |-> op[r]]
  /\ \A r \in Requests : op[r] # Nadie => PedidoDeInventario(op[r])
  /\ ~ solape => UnaSola
  /\ ~ solape /\ ~ borrada =>
       Numeradas /\ \A r \in Requests : op[r] # Nadie => PorNumerar(op[r])

LEMMA CardinalInventario == \A S : Inventarios!Cardinality(S) = Cardinality(S)
BY DEF Inventarios!Cardinality, Cardinality

LEMMA InitInventarioInv == Init => InventarioInv
<1> SUFFICES ASSUME Init PROVE InventarioInv
  OBVIOUS
<1>1. /\ inventario = [p \in Propiedades |-> [existe |-> FALSE, actual |-> NoVersion, versions |-> {}]]
      /\ version = [v \in 1 .. MaxVersiones |-> NoVersion] /\ creadas = 0
  BY DEF Init, Inventarios!InitInventario, Inventarios!Versiones
<1>2. op = [r \in Requests |-> op[r]] /\ \A r \in Requests : op[r] = Nadie
  BY InitPeticiones
<1>3. \A p : Inventarios!De(p) = {}
  BY <1>1 DEF Inventarios!De, Inventarios!Versiones
<1>4. InvTipos
  BY <1>1, InventarioAssumption DEF InvTipos, FichaInventario
<1>5. ConActual
  BY <1>1 DEF ConActual
<1>6. QED
  BY <1>2, <1>3, <1>4, <1>5 DEF InventarioInv, UnaSola, Enlazadas, Numeradas

LEMMA DeFinito ==
  ASSUME InvTipos, NEW p
  PROVE  IsFiniteSet(Inventarios!De(p)) /\ Cuantas(p) \in Nat
<1>1. IsFiniteSet(1 .. MaxVersiones)
  BY InventarioAssumption, FS_Interval
<1>2. Inventarios!De(p) \in SUBSET (1 .. MaxVersiones)
  BY DEF Inventarios!De, Inventarios!Versiones
<1>3. IsFiniteSet(Inventarios!De(p))
  BY <1>1, <1>2, FS_Subset
<1>4. QED
  BY <1>3, FS_CardinalityType DEF Cuantas

(* A request goes on with q, Nadie if it ends.                              *)
LEMMA InventarioSigue ==
  ASSUME InventarioInv, NEW r \in Requests, NEW q, op' = [op EXCEPT ![r] = q],
         InvTipos', Enlazadas', ConActual', q # Nadie => PedidoDeInventario(q)',
         \A p \in Propiedades : inventario[p].actual # NoVersion => inventario'[p].actual # NoVersion,
         creadas <= creadas',
         \A v \in 1 .. creadas : version'[v] # NoVersion =>
           version[v] # NoVersion /\ version'[v].de = version[v].de,
         ~ solape' => ~ solape /\ \A s \in Requests : s # r => op[s] = Nadie,
         ~ solape' /\ ~ borrada' => Numeradas' /\ (q # Nadie => PorNumerar(q)')
  PROVE  InventarioInv'
<1>1. op' = [s \in Requests |-> op'[s]] /\ \A s \in Requests : op'[s] = IF s = r THEN q ELSE op[s]
  BY DEF InventarioInv
<1>2. ASSUME NEW p, PedidoDeInventario(p)
      PROVE  PedidoDeInventario(p)'
  <2>1. creadas \in Nat /\ creadas' \in Nat
    BY DEF InventarioInv, InvTipos
  <2>2. 1 .. creadas \subseteq 1 .. creadas'
    BY <2>1
  <2>3. CASE p.paso \in {"contar", "insertar", "enlazar"}
    <3>1. p.paso = "enlazar" => p.v \in 1 .. creadas /\ (version[p.v] # NoVersion => version[p.v].de = p.p)
      BY <1>2, <2>3 DEF PedidoDeInventario
    <3>2. p.paso = "enlazar" => p.v \in 1 .. creadas' /\ (version'[p.v] # NoVersion => version'[p.v].de = p.p)
      BY <2>2, <3>1
    <3>3. QED
      BY <1>2, <2>3, <3>2 DEF PedidoDeInventario
  <2>4. CASE p.paso \notin {"contar", "insertar", "enlazar"}
    BY <1>2, <2>4 DEF PedidoDeInventario
  <2>5. QED
    BY <2>3, <2>4
<1>3. ASSUME NEW s \in Requests, op'[s] # Nadie
      PROVE  (PedidoDeInventario(op[s]))'
  <2>1. PICK p : p = op'[s]
    OBVIOUS
  <2>2. PedidoDeInventario(p)'
    <3>1. CASE s = r
      BY <1>1, <1>3, <2>1, <3>1
    <3>2. CASE s # r
      BY <1>1, <1>2, <1>3, <2>1, <3>2 DEF InventarioInv
    <3>3. QED
      BY <3>1, <3>2
  <2>3. QED
    BY <2>1, <2>2
<1>4. ASSUME ~ solape'
      PROVE  UnaSola' /\ (~ borrada' => \A s \in Requests : op'[s] # Nadie => (PorNumerar(op[s]))')
  <2>1. \A s \in Requests : op'[s] # Nadie => s = r /\ op'[s] = q
    BY <1>1, <1>4
  <2>2. QED
    BY <2>1, <1>4 DEF UnaSola
<1>5. QED
  BY <1>1, <1>3, <1>4 DEF InventarioInv

(* Neither the versions nor the inventories change: a request that begins,  *)
(* counts, or ends without a link to write.                                 *)
LEMMA InventarioSinEscribir ==
  ASSUME InventarioInv, NEW r \in Requests, NEW q, op' = [op EXCEPT ![r] = q],
         op[r].paso # "enlazar", version' = version, creadas' = creadas, sinEnlace' = sinEnlace,
         borrada' = borrada, inventario' \in [Propiedades -> FichaInventario],
         \A p \in Propiedades : /\ inventario'[p].actual = inventario[p].actual
                              /\ inventario'[p].versions = inventario[p].versions,
         q # Nadie => PedidoDeInventario(q),
         ~ solape' => ~ solape /\ \A s \in Requests : s # r => op[s] = Nadie,
         ~ solape' /\ ~ borrada /\ q # Nadie => PorNumerar(q)
  PROVE  InventarioInv'
<1>1. InvTipos'
  BY DEF InventarioInv, InvTipos
<1>2. \A p : Inventarios!De(p)' = Inventarios!De(p)
  BY DEF Inventarios!De
<1>3. \A s \in Requests : op[s].paso = "enlazar" => op'[s] = op[s]
  BY DEF InventarioInv
<1>4. Enlazadas'
  <2>1. ASSUME NEW p \in Propiedades, NEW v \in Inventarios!De(p)
        PROVE  \/ v \in inventario'[p].versions \cup sinEnlace'
               \/ \E s \in Requests : op'[s].paso = "enlazar" /\ op'[s].v = v
    <3>1. \/ v \in inventario[p].versions \cup sinEnlace
          \/ \E s \in Requests : op[s].paso = "enlazar" /\ op[s].v = v
      BY <2>1 DEF InventarioInv, Enlazadas
    <3>2. QED
      BY <1>3, <3>1
  <2>2. QED
    BY <1>2, <2>1 DEF Enlazadas
<1>5. ConActual'
  BY DEF InventarioInv, ConActual
<1>6. q # Nadie => PedidoDeInventario(q)'
  BY DEF PedidoDeInventario
<1>7. ~ solape' /\ ~ borrada' => Numeradas'
  BY <1>2 DEF InventarioInv, Numeradas, Cuantas
<1>8. ~ solape' /\ ~ borrada' => (q # Nadie => PorNumerar(q)')
  BY <1>2 DEF PorNumerar, Cuantas
<1>9. creadas <= creadas' /\ \A v \in 1 .. creadas : version'[v] # NoVersion =>
           version[v] # NoVersion /\ version'[v].de = version[v].de
  BY DEF InventarioInv, InvTipos
<1>10. QED
  BY <1>1, <1>4, <1>5, <1>6, <1>7, <1>8, <1>9, InventarioSigue

(* Nothing but the existence of an inventory changes.                       *)
LEMMA InventarioSinPeticion ==
  ASSUME InventarioInv, op' = op, version' = version, creadas' = creadas, sinEnlace' = sinEnlace,
         borrada' = borrada, ~ solape' => ~ solape, inventario' \in [Propiedades -> FichaInventario],
         \A p \in Propiedades : /\ inventario'[p].actual = inventario[p].actual
                              /\ inventario'[p].versions = inventario[p].versions
  PROVE  InventarioInv'
<1>1. InvTipos'
  BY DEF InventarioInv, InvTipos
<1>2. \A p : Inventarios!De(p)' = Inventarios!De(p)
  BY DEF Inventarios!De
<1>3. Enlazadas' /\ ConActual'
  BY <1>2 DEF InventarioInv, Enlazadas, ConActual
<1>4. \A p : PedidoDeInventario(p) => PedidoDeInventario(p)'
  BY DEF PedidoDeInventario
<1>5. \A p : PorNumerar(p) => PorNumerar(p)'
  BY <1>2 DEF PorNumerar, Cuantas
<1>6. UnaSola => UnaSola'
  BY DEF UnaSola
<1>7. Numeradas => Numeradas'
  BY <1>2 DEF Numeradas, Cuantas
<1>8. QED
  BY <1>1, <1>3, <1>4, <1>5, <1>6, <1>7 DEF InventarioInv

(* Of the requests that begin: createVersion, and the copy of an inventory. *)
LEMMA CreateVersionInv ==
  ASSUME InventarioInv, NEW r \in Requests, NEW p \in Propiedades, NEW status \in Inventarios!Estados,
         Inventarios!CreateVersion(r, p, status)
  PROVE  InventarioInv'
<1>1. PICK b, q : b = (inventario[p].actual = NoVersion)
                  /\ q = [paso |-> "contar", p |-> p, status |-> status, sinActual |-> b]
  OBVIOUS
<1>2. /\ op[r] = Nadie /\ op' = [op EXCEPT ![r] = q] /\ inventario' = [inventario EXCEPT ![p].existe = TRUE]
      /\ version' = version /\ creadas' = creadas /\ sinEnlace' = sinEnlace /\ borrada' = borrada
      /\ (~ solape' => ~ solape /\ \A s \in Requests : op[s] = Nadie)
  BY <1>1 DEF Inventarios!CreateVersion, Inventarios!Comenzar, Inventarios!EnCurso, Inventarios!Libre, Nadie
<1>3. q.paso = "contar" /\ q.p = p /\ q.status = status /\ (~ q.sinActual => inventario[p].actual # NoVersion)
  BY <1>1
<1>4. op[r].paso # "enlazar"
  BY <1>2 DEF Nadie
<1>5. /\ inventario' \in [Propiedades -> FichaInventario]
      /\ \A k \in Propiedades : /\ inventario'[k].actual = inventario[k].actual
                               /\ inventario'[k].versions = inventario[k].versions
  BY <1>2 DEF InventarioInv, InvTipos, FichaInventario
<1>6. PedidoDeInventario(q) /\ PorNumerar(q)
  BY <1>3 DEF PedidoDeInventario, PorNumerar
<1>7. QED
  BY <1>2, <1>4, <1>5, <1>6, InventarioSinEscribir

(* updateVersion, setCurrentVersion and deleteVersion, up to their writes.  *)
LEMMA ComenzarConVersionInv ==
  ASSUME InventarioInv, NEW r \in Requests, NEW q, Inventarios!Comenzar(r, q),
         UNCHANGED Inventarios!inventarioVars,
         q.paso \in {"modificar", "fijar", "borrar"}, PedidoDeInventario(q)
  PROVE  InventarioInv'
<1>1. /\ op[r] = Nadie /\ op' = [op EXCEPT ![r] = q] /\ inventario' = inventario
      /\ version' = version /\ creadas' = creadas /\ sinEnlace' = sinEnlace /\ borrada' = borrada
      /\ (~ solape' => ~ solape /\ \A s \in Requests : op[s] = Nadie)
  BY DEF Inventarios!Comenzar, Inventarios!EnCurso, Inventarios!Libre, Nadie, Inventarios!inventarioVars
<1>2. op[r].paso # "enlazar" /\ PorNumerar(q)
  BY <1>1 DEF Nadie, PorNumerar
<1>3. inventario' \in [Propiedades -> FichaInventario]
  BY <1>1 DEF InventarioInv, InvTipos
<1>4. QED
  BY <1>1, <1>2, <1>3, InventarioSinEscribir

(* versionCount + 1.                                                        *)
LEMMA ContarVersionesInv ==
  ASSUME InventarioInv, NEW r \in Requests, Inventarios!Contar(r)
  PROVE  InventarioInv'
<1>1. /\ op[r].paso = "contar" /\ inventario' = inventario
      /\ version' = version /\ creadas' = creadas /\ sinEnlace' = sinEnlace /\ borrada' = borrada
      /\ solape' = solape
  BY DEF Inventarios!Contar, Inventarios!Seguir, Inventarios!inventarioVars
<1>2. op[r] # Nadie
  BY <1>1 DEF Nadie
<1>3. PICK q : q = op[r] /\ PedidoDeInventario(q) /\ q.paso = "contar"
  BY <1>1, <1>2 DEF InventarioInv
<1>4. PICK d, q1 :
        /\ d = [de |-> q.p, status |-> q.status, numero |-> Cuantas(q.p) + 1]
        /\ q1 = [paso |-> "insertar", p |-> q.p, sinActual |-> q.sinActual, doc |-> d]
  OBVIOUS
<1>5. op' = [op EXCEPT ![r] = q1]
  BY <1>3, <1>4, CardinalInventario DEF Inventarios!Contar, Inventarios!Seguir, Cuantas
<1>6. Cuantas(q.p) \in Nat
  BY DeFinito DEF InventarioInv
<1>7. d \in VersionDe /\ d.de = q.p /\ d.numero = Cuantas(q.p) + 1
  BY <1>3, <1>4, <1>6 DEF VersionDe, PedidoDeInventario
<1>8. PedidoDeInventario(q1) /\ PorNumerar(q1)
  BY <1>3, <1>4, <1>7 DEF PedidoDeInventario, PorNumerar
<1>9. ~ solape' => ~ solape /\ \A s \in Requests : s # r => op[s] = Nadie
  BY <1>1, <1>2 DEF InventarioInv, UnaSola
<1>10. QED
  BY <1>1, <1>5, <1>8, <1>9, InventarioSinEscribir DEF InventarioInv, InvTipos

(* The next version is inserted, with the number that was counted.          *)
LEMMA InsertarVersionInv ==
  ASSUME InventarioInv, NEW r \in Requests, Inventarios!Insertar(r)
  PROVE  InventarioInv'
<1>1. /\ op[r].paso = "insertar" /\ creadas < MaxVersiones /\ creadas' = creadas + 1
      /\ version' = [version EXCEPT ![creadas + 1] = op[r].doc]
      /\ op' = [op EXCEPT ![r] = [paso |-> "enlazar", p |-> op[r].p, v |-> creadas + 1,
                                  sinActual |-> op[r].sinActual]]
      /\ inventario' = inventario /\ sinEnlace' = sinEnlace /\ borrada' = borrada /\ solape' = solape
  BY DEF Inventarios!Insertar, Inventarios!Seguir
<1>2. op[r] # Nadie
  BY <1>1 DEF Nadie
<1>3. PICK q : q = op[r] /\ PedidoDeInventario(q) /\ q.paso = "insertar"
  BY <1>1, <1>2 DEF InventarioInv
<1>4. PICK p \in Propiedades, d \in VersionDe :
        /\ q.p = p /\ q.doc = d /\ d.de = p /\ (~ q.sinActual => inventario[p].actual # NoVersion)
  BY <1>3 DEF PedidoDeInventario
<1>5. PICK n \in 1 .. MaxVersiones : n = creadas + 1 /\ version[n] = NoVersion
  BY <1>1, InventarioAssumption DEF InventarioInv, InvTipos
<1>6. PICK q1 : q1 = [paso |-> "enlazar", p |-> p, v |-> n, sinActual |-> q.sinActual]
  OBVIOUS
<1>7. op' = [op EXCEPT ![r] = q1] /\ q1.paso = "enlazar" /\ q1.p = p /\ q1.v = n /\ q1.sinActual = q.sinActual
  BY <1>1, <1>3, <1>4, <1>5, <1>6
<1>8. InvTipos /\ d # NoVersion
  BY <1>4, InventarioAssumption DEF InventarioInv, VersionDe, Inventarios!Estados
<1>9. /\ creadas \in Nat /\ creadas' \in 0 .. MaxVersiones
      /\ \A v \in 1 .. MaxVersiones : version'[v] = IF v = n THEN d ELSE version[v]
      /\ version' \in [1 .. MaxVersiones -> VersionDe \cup {NoVersion}]
  BY <1>1, <1>3, <1>4, <1>5, <1>8, InventarioAssumption DEF InvTipos
<1>10. InvTipos'
  BY <1>1, <1>5, <1>8, <1>9, InventarioAssumption DEF InvTipos
<1>11. /\ Inventarios!De(p)' = Inventarios!De(p) \cup {n} /\ n \notin Inventarios!De(p)
       /\ \A k : k # p => Inventarios!De(k)' = Inventarios!De(k)
  BY <1>4, <1>5, <1>8, <1>9 DEF Inventarios!De, Inventarios!Versiones
<1>12. \A s \in Requests : op'[s] = IF s = r THEN q1 ELSE op[s]
  BY <1>7 DEF InventarioInv
<1>13. Enlazadas'
  <2>1. ASSUME NEW k \in Propiedades, NEW v \in Inventarios!De(k)'
        PROVE  \/ v \in inventario'[k].versions \cup sinEnlace'
               \/ \E s \in Requests : op'[s].paso = "enlazar" /\ op'[s].v = v
    <3>1. CASE v = n
      BY <1>7, <1>12, <3>1
    <3>2. CASE v # n
      <4>1. v \in Inventarios!De(k)
        BY <1>11, <2>1, <3>2
      <4>2. \/ v \in inventario[k].versions \cup sinEnlace
            \/ \E s \in Requests : op[s].paso = "enlazar" /\ op[s].v = v
        BY <4>1 DEF InventarioInv, Enlazadas
      <4>3. \A s \in Requests : op[s].paso = "enlazar" => op'[s] = op[s]
        BY <1>1, <1>12
      <4>4. QED
        BY <1>1, <4>2, <4>3
    <3>3. QED
      BY <3>1, <3>2
  <2>2. QED
    BY <2>1 DEF Enlazadas
<1>14. ConActual'
  BY <1>1 DEF InventarioInv, ConActual
<1>15. PedidoDeInventario(q1)'
  BY <1>1, <1>4, <1>5, <1>7, <1>9 DEF PedidoDeInventario
<1>16. /\ creadas <= creadas'
       /\ \A v \in 1 .. creadas : version'[v] # NoVersion =>
            version[v] # NoVersion /\ version'[v].de = version[v].de
  BY <1>1, <1>5, <1>9, InventarioAssumption
<1>17. ~ solape' => ~ solape /\ \A s \in Requests : s # r => op[s] = Nadie
  BY <1>1, <1>2 DEF InventarioInv, UnaSola
<1>18. ASSUME ~ solape', ~ borrada'
       PROVE  Numeradas'
  <2>1. Numeradas /\ d.numero = Cuantas(p) + 1
    BY <1>1, <1>2, <1>3, <1>4, <1>18 DEF InventarioInv, PorNumerar
  <2>2. Cuantas(p) \in Nat /\ IsFiniteSet(Inventarios!De(p))
    BY <1>8, DeFinito
  <2>3. Cuantas(p)' = Cuantas(p) + 1
    BY <1>11, <2>2, FS_AddElement DEF Cuantas
  <2>4. \A k : k # p => Cuantas(k)' = Cuantas(k)
    BY <1>11 DEF Cuantas
  <2>5. \A k : \A v \in Inventarios!De(k) : /\ version'[v] = version[v] /\ version[v].numero \in Nat
                                         /\ version'[n] = d
    BY <1>5, <1>8, <1>9 DEF Inventarios!De, Inventarios!Versiones, InvTipos, VersionDe
  <2>6. version'[n].numero = Cuantas(p) + 1
    BY <1>9, <2>1
  <2>7. ASSUME NEW k \in Propiedades, NEW v \in Inventarios!De(k)'
        PROVE  /\ version'[v].numero <= Cuantas(k)'
               /\ \A w \in Inventarios!De(k)' : v # w => version'[v].numero # version'[w].numero
    <3>1. CASE k # p
      <4>1. Inventarios!De(k)' = Inventarios!De(k) /\ Cuantas(k)' = Cuantas(k)
        BY <1>11, <2>4, <3>1
      <4>2. QED
        BY <2>1, <2>5, <2>7, <4>1 DEF Numeradas
    <3>2. CASE k = p
      <4>1. \A w \in Inventarios!De(p) : version'[w].numero <= Cuantas(p) /\ version'[w].numero \in Nat
        BY <2>1, <2>5 DEF Numeradas
      <4>2. \A w, x \in Inventarios!De(p) : w # x => version'[w].numero # version'[x].numero
        BY <2>1, <2>5 DEF Numeradas
      <4>3. version'[v].numero <= Cuantas(p) + 1
        BY <1>11, <2>2, <2>6, <2>7, <3>2, <4>1
      <4>4. \A w \in Inventarios!De(p) : version'[w].numero # version'[n].numero
        BY <2>2, <2>6, <4>1
      <4>5. QED
        BY <1>11, <2>3, <2>7, <3>2, <4>2, <4>3, <4>4
    <3>3. QED
      BY <3>1, <3>2
  <2>8. QED
    BY <2>7 DEF Numeradas
<1>19. PorNumerar(q1)'
  BY <1>7 DEF PorNumerar
<1>20. QED
  BY <1>1, <1>7, <1>10, <1>13, <1>14, <1>15, <1>16, <1>17, <1>18, <1>19, InventarioSigue

(* The request that ends has the place of the others checked.               *)
LEMMA InventarioTermina ==
  ASSUME InventarioInv, NEW r \in Requests, op[r] # Nadie, Inventarios!Terminar(r)
  PROVE  /\ op' = [op EXCEPT ![r] = Nadie]
         /\ \A s \in Requests : op'[s] = IF s = r THEN Nadie ELSE op[s]
         /\ ~ solape' => ~ solape /\ \A s \in Requests : s # r => op[s] = Nadie
BY DEF Inventarios!Terminar, Inventarios!Seguir, Inventarios!Libre, Nadie, InventarioInv, UnaSola

(* The inventory is saved with the version in its list.                     *)
LEMMA EnlazarInv ==
  ASSUME InventarioInv, NEW r \in Requests, Inventarios!Enlazar(r)
  PROVE  InventarioInv'
<1>1. op[r].paso = "enlazar" /\ op[r] # Nadie
  BY DEF Inventarios!Enlazar, Nadie
<1>2. PICK q : q = op[r] /\ PedidoDeInventario(q) /\ q.paso = "enlazar"
  BY <1>1 DEF InventarioInv
<1>3. PICK p \in Propiedades, v \in 1 .. creadas :
        /\ q.p = p /\ q.v = v /\ (version[v] # NoVersion => version[v].de = p)
        /\ (~ q.sinActual => inventario[p].actual # NoVersion)
  BY <1>2 DEF PedidoDeInventario
<1>4. /\ version' = version /\ creadas' = creadas /\ sinEnlace' = sinEnlace /\ borrada' = borrada
      /\ inventario' = [inventario EXCEPT ![p].versions = @ \cup {v},
                                          ![p].actual = IF q.sinActual THEN v ELSE @]
      /\ Inventarios!Terminar(r)
  BY <1>2, <1>3 DEF Inventarios!Enlazar
<1>5. InvTipos /\ v \in Nat /\ v # NoVersion
  BY <1>3, InventarioAssumption DEF InventarioInv, InvTipos
<1>6. /\ inventario' \in [Propiedades -> FichaInventario]
      /\ \A k \in Propiedades : k # p => inventario'[k] = inventario[k]
      /\ inventario'[p].versions = inventario[p].versions \cup {v}
      /\ inventario'[p].actual = IF q.sinActual THEN v ELSE inventario[p].actual
  BY <1>4, <1>5 DEF InvTipos, FichaInventario
<1>7. /\ op' = [op EXCEPT ![r] = Nadie]
      /\ \A s \in Requests : op'[s] = IF s = r THEN Nadie ELSE op[s]
      /\ ~ solape' => ~ solape /\ \A s \in Requests : s # r => op[s] = Nadie
  BY <1>1, <1>4, InventarioTermina
<1>8. InvTipos'
  BY <1>4, <1>5, <1>6 DEF InvTipos
<1>9. \A k : Inventarios!De(k)' = Inventarios!De(k)
  BY <1>4 DEF Inventarios!De
<1>10. Enlazadas'
  <2>1. ASSUME NEW k \in Propiedades, NEW w \in Inventarios!De(k)
        PROVE  \/ w \in inventario'[k].versions \cup sinEnlace'
               \/ \E s \in Requests : op'[s].paso = "enlazar" /\ op'[s].v = w
    <3>1. inventario[k].versions \subseteq inventario'[k].versions
      BY <1>6
    <3>2. CASE w \in inventario[k].versions \cup sinEnlace
      BY <1>4, <3>1, <3>2
    <3>3. CASE \E s \in Requests : op[s].paso = "enlazar" /\ op[s].v = w
      <4>1. PICK s \in Requests : op[s].paso = "enlazar" /\ op[s].v = w
        BY <3>3
      <4>2. CASE s = r
        <5>1. w = v /\ version[w] # NoVersion /\ version[w].de = k
          BY <1>2, <1>3, <2>1, <4>1, <4>2 DEF Inventarios!De
        <5>2. QED
          BY <1>3, <1>6, <5>1
      <4>3. CASE s # r
        BY <1>7, <4>1, <4>3
      <4>4. QED
        BY <4>2, <4>3
    <3>4. QED
      BY <2>1, <3>2, <3>3 DEF InventarioInv, Enlazadas
  <2>2. QED
    BY <1>9, <2>1 DEF Enlazadas
<1>11. \A k \in Propiedades : inventario[k].actual # NoVersion => inventario'[k].actual # NoVersion
  BY <1>5, <1>6
<1>12. ConActual'
  <2>1. inventario'[p].actual # NoVersion
    BY <1>3, <1>5, <1>6
  <2>2. QED
    BY <1>6, <2>1 DEF InventarioInv, ConActual
<1>13. ~ solape' /\ ~ borrada' => Numeradas'
  BY <1>4, <1>7, <1>9 DEF InventarioInv, Numeradas, Cuantas
<1>14. /\ creadas <= creadas'
       /\ \A w \in 1 .. creadas : version'[w] # NoVersion =>
            version[w] # NoVersion /\ version'[w].de = version[w].de
  BY <1>4, <1>5 DEF InvTipos
<1>15. QED
  BY <1>7, <1>8, <1>10, <1>11, <1>12, <1>13, <1>14, InventarioSigue

(* A version changes its status and nothing else.                           *)
LEMMA ModificarInv ==
  ASSUME InventarioInv, NEW r \in Requests, Inventarios!Modificar(r)
  PROVE  InventarioInv'
<1>1. op[r].paso = "modificar" /\ op[r] # Nadie
  BY DEF Inventarios!Modificar, Nadie
<1>2. PICK q : q = op[r] /\ PedidoDeInventario(q) /\ q.paso = "modificar"
  BY <1>1 DEF InventarioInv
<1>3. PICK v \in 1 .. MaxVersiones, e \in Inventarios!Estados : q.v = v /\ q.status = e
  BY <1>2 DEF PedidoDeInventario
<1>4. /\ version' = IF version[v] = NoVersion THEN version ELSE [version EXCEPT ![v].status = e]
      /\ inventario' = inventario /\ creadas' = creadas /\ sinEnlace' = sinEnlace /\ borrada' = borrada
      /\ Inventarios!Terminar(r)
  BY <1>2, <1>3 DEF Inventarios!Modificar
<1>5. InvTipos
  BY DEF InventarioInv
<1>6. /\ version' \in [1 .. MaxVersiones -> VersionDe \cup {NoVersion}]
      /\ \A w \in 1 .. MaxVersiones : version'[w] = NoVersion <=> version[w] = NoVersion
      /\ \A w \in 1 .. MaxVersiones : version[w] # NoVersion => version'[w].de = version[w].de
      /\ \A w \in 1 .. MaxVersiones : version[w] # NoVersion => version'[w].numero = version[w].numero
  <2>1. CASE version[v] = NoVersion
    BY <1>4, <1>5, <2>1 DEF InvTipos
  <2>2. CASE version[v] # NoVersion
    <3>1. PICK d : d = [version[v] EXCEPT !.status = e]
      OBVIOUS
    <3>2. version[v] \in VersionDe
      BY <1>5, <2>2 DEF InvTipos
    <3>3. d \in VersionDe /\ d.de = version[v].de /\ d.numero = version[v].numero
      BY <3>1, <3>2 DEF VersionDe
    <3>4. d # NoVersion
      BY <3>3, InventarioAssumption DEF VersionDe, Inventarios!Estados
    <3>5. version' = [version EXCEPT ![v] = d]
      BY <1>4, <2>2, <3>1
    <3>6. QED
      BY <1>5, <2>2, <3>3, <3>4, <3>5 DEF InvTipos
  <2>3. QED
    BY <2>1, <2>2
<1>7. InvTipos'
  BY <1>4, <1>5, <1>6 DEF InvTipos
<1>8. \A k : Inventarios!De(k)' = Inventarios!De(k)
  BY <1>6 DEF Inventarios!De, Inventarios!Versiones
<1>9. /\ op' = [op EXCEPT ![r] = Nadie]
      /\ \A s \in Requests : op'[s] = IF s = r THEN Nadie ELSE op[s]
      /\ ~ solape' => ~ solape /\ \A s \in Requests : s # r => op[s] = Nadie
  BY <1>1, <1>4, InventarioTermina
<1>10. Enlazadas'
  <2>1. \A s \in Requests : op[s].paso = "enlazar" => op'[s] = op[s]
    BY <1>1, <1>9
  <2>2. QED
    BY <1>4, <1>8, <2>1 DEF InventarioInv, Enlazadas
<1>11. ConActual'
  BY <1>4 DEF InventarioInv, ConActual
<1>12. ~ solape' /\ ~ borrada' => Numeradas'
  <2>1. \A k : \A w \in Inventarios!De(k) : version'[w].numero = version[w].numero
    BY <1>6 DEF Inventarios!De, Inventarios!Versiones
  <2>2. QED
    BY <1>4, <1>8, <1>9, <2>1 DEF InventarioInv, Numeradas, Cuantas
<1>13. creadas <= creadas' /\ 1 .. creadas \subseteq 1 .. MaxVersiones
  BY <1>4, <1>5, InventarioAssumption DEF InvTipos
<1>14. \A w \in 1 .. creadas : version'[w] # NoVersion =>
         version[w] # NoVersion /\ version'[w].de = version[w].de
  BY <1>6, <1>13
<1>15. QED
  BY <1>4, <1>7, <1>9, <1>10, <1>11, <1>12, <1>13, <1>14, InventarioSigue

(* The current version of an inventory is set.                              *)
LEMMA FijarInv ==
  ASSUME InventarioInv, NEW r \in Requests, Inventarios!Fijar(r)
  PROVE  InventarioInv'
<1>1. op[r].paso = "fijar" /\ op[r] # Nadie
  BY DEF Inventarios!Fijar, Nadie
<1>2. PICK q : q = op[r] /\ PedidoDeInventario(q) /\ q.paso = "fijar"
  BY <1>1 DEF InventarioInv
<1>3. PICK p \in Propiedades, v \in 1 .. MaxVersiones : q.p = p /\ q.v = v
  BY <1>2 DEF PedidoDeInventario
<1>4. /\ version' = version /\ creadas' = creadas /\ sinEnlace' = sinEnlace /\ borrada' = borrada
      /\ inventario' = [inventario EXCEPT ![p].actual = v]
      /\ Inventarios!Terminar(r)
  BY <1>2, <1>3 DEF Inventarios!Fijar
<1>5. InvTipos /\ v \in Nat /\ v # NoVersion
  BY <1>3, InventarioAssumption DEF InventarioInv
<1>6. /\ inventario' \in [Propiedades -> FichaInventario]
      /\ \A k \in Propiedades : /\ inventario'[k].versions = inventario[k].versions
                                /\ inventario'[k].actual = IF k = p THEN v ELSE inventario[k].actual
  BY <1>4, <1>5 DEF InvTipos, FichaInventario
<1>7. /\ op' = [op EXCEPT ![r] = Nadie]
      /\ \A s \in Requests : op'[s] = IF s = r THEN Nadie ELSE op[s]
      /\ ~ solape' => ~ solape /\ \A s \in Requests : s # r => op[s] = Nadie
  BY <1>1, <1>4, InventarioTermina
<1>8. InvTipos'
  BY <1>4, <1>5, <1>6 DEF InvTipos
<1>9. \A k : Inventarios!De(k)' = Inventarios!De(k)
  BY <1>4 DEF Inventarios!De
<1>10. Enlazadas'
  <2>1. \A s \in Requests : op[s].paso = "enlazar" => op'[s] = op[s]
    BY <1>1, <1>7
  <2>2. QED
    BY <1>4, <1>6, <1>9, <2>1 DEF InventarioInv, Enlazadas
<1>11. ConActual' /\ \A k \in Propiedades : inventario[k].actual # NoVersion => inventario'[k].actual # NoVersion
  BY <1>5, <1>6 DEF InventarioInv, ConActual
<1>12. ~ solape' /\ ~ borrada' => Numeradas'
  BY <1>4, <1>7, <1>9 DEF InventarioInv, Numeradas, Cuantas
<1>13. /\ creadas <= creadas'
       /\ \A w \in 1 .. creadas : version'[w] # NoVersion =>
            version[w] # NoVersion /\ version'[w].de = version[w].de
  BY <1>4, <1>5 DEF InvTipos
<1>14. QED
  BY <1>7, <1>8, <1>10, <1>11, <1>12, <1>13, InventarioSigue

(* A version is deleted, and stays in the list of its inventory.            *)
LEMMA BorrarInv ==
  ASSUME InventarioInv, NEW r \in Requests, Inventarios!Borrar(r)
  PROVE  InventarioInv'
<1>1. op[r].paso = "borrar" /\ op[r] # Nadie
  BY DEF Inventarios!Borrar, Nadie
<1>2. PICK q : q = op[r] /\ PedidoDeInventario(q) /\ q.paso = "borrar"
  BY <1>1 DEF InventarioInv
<1>3. PICK v \in 1 .. MaxVersiones : q.v = v
  BY <1>2 DEF PedidoDeInventario
<1>4. /\ version' = [version EXCEPT ![v] = NoVersion] /\ borrada'
      /\ inventario' = inventario /\ creadas' = creadas /\ sinEnlace' = sinEnlace
      /\ Inventarios!Terminar(r)
  BY <1>2, <1>3 DEF Inventarios!Borrar
<1>5. InvTipos
  BY DEF InventarioInv
<1>6. /\ version' \in [1 .. MaxVersiones -> VersionDe \cup {NoVersion}]
      /\ \A w \in 1 .. MaxVersiones : version'[w] = IF w = v THEN NoVersion ELSE version[w]
  BY <1>4, <1>5 DEF InvTipos
<1>7. InvTipos'
  BY <1>4, <1>5, <1>6 DEF InvTipos
<1>8. \A k : Inventarios!De(k)' \subseteq Inventarios!De(k)
  BY <1>6 DEF Inventarios!De, Inventarios!Versiones
<1>9. /\ op' = [op EXCEPT ![r] = Nadie]
      /\ \A s \in Requests : op'[s] = IF s = r THEN Nadie ELSE op[s]
      /\ ~ solape' => ~ solape /\ \A s \in Requests : s # r => op[s] = Nadie
  BY <1>1, <1>4, InventarioTermina
<1>10. Enlazadas'
  <2>1. \A s \in Requests : op[s].paso = "enlazar" => op'[s] = op[s]
    BY <1>1, <1>9
  <2>2. QED
    BY <1>4, <1>8, <2>1 DEF InventarioInv, Enlazadas
<1>11. ConActual'
  BY <1>4 DEF InventarioInv, ConActual
<1>12. creadas <= creadas' /\ 1 .. creadas \subseteq 1 .. MaxVersiones
  BY <1>4, <1>5, InventarioAssumption DEF InvTipos
<1>13. \A w \in 1 .. creadas : version'[w] # NoVersion =>
         version[w] # NoVersion /\ version'[w].de = version[w].de
  BY <1>6, <1>12
<1>14. QED
  BY <1>4, <1>7, <1>9, <1>10, <1>11, <1>12, <1>13, InventarioSigue

(* A request dies: the version it had inserted is remembered as unlinked.   *)
LEMMA MuerteInventarioInv ==
  ASSUME InventarioInv, NEW r \in Requests, Inventarios!MuerteInventario(r)
  PROVE  InventarioInv'
<1>1. /\ op[r] # Nadie /\ op' = [op EXCEPT ![r] = Nadie] /\ solape' = solape
      /\ version' = version /\ creadas' = creadas /\ inventario' = inventario /\ borrada' = borrada
      /\ sinEnlace' = sinEnlace \cup (IF op[r].paso = "enlazar" THEN {op[r].v} ELSE {})
  BY DEF Inventarios!MuerteInventario, Inventarios!Morir, Inventarios!Terminar, Inventarios!Libre,
         Inventarios!EnCurso, Nadie
<1>2. /\ \A s \in Requests : op'[s] = IF s = r THEN Nadie ELSE op[s]
      /\ ~ solape' => ~ solape /\ \A s \in Requests : s # r => op[s] = Nadie
  BY <1>1 DEF InventarioInv, UnaSola
<1>3. InvTipos /\ InvTipos'
  BY <1>1 DEF InventarioInv, InvTipos
<1>4. \A k : Inventarios!De(k)' = Inventarios!De(k)
  BY <1>1 DEF Inventarios!De
<1>5. Enlazadas'
  <2>1. ASSUME NEW k \in Propiedades, NEW w \in Inventarios!De(k)
        PROVE  \/ w \in inventario'[k].versions \cup sinEnlace'
               \/ \E s \in Requests : op'[s].paso = "enlazar" /\ op'[s].v = w
    <3>1. CASE w \in inventario[k].versions \cup sinEnlace
      BY <1>1, <3>1
    <3>2. CASE \E s \in Requests : op[s].paso = "enlazar" /\ op[s].v = w
      BY <1>1, <1>2, <3>2
    <3>3. QED
      BY <2>1, <3>1, <3>2 DEF InventarioInv, Enlazadas
  <2>2. QED
    BY <1>4, <2>1 DEF Enlazadas
<1>6. ConActual'
  BY <1>1 DEF InventarioInv, ConActual
<1>7. ~ solape' /\ ~ borrada' => Numeradas'
  BY <1>1, <1>2, <1>4 DEF InventarioInv, Numeradas, Cuantas
<1>8. /\ creadas <= creadas'
      /\ \A w \in 1 .. creadas : version'[w] # NoVersion =>
           version[w] # NoVersion /\ version'[w].de = version[w].de
  BY <1>1, <1>3 DEF InvTipos
<1>9. QED
  BY <1>1, <1>2, <1>3, <1>5, <1>6, <1>7, <1>8, InventarioSigue

LEMMA PasoInventario == InventarioInv /\ Inventarios!NextInventario => InventarioInv'
<1> SUFFICES ASSUME InventarioInv, Inventarios!NextInventario PROVE InventarioInv'
  OBVIOUS
<1>1. ASSUME NEW p \in Propiedades, Inventarios!CreatePropertyInventory(p)
      PROVE  InventarioInv'
  <2>1. /\ op' = op /\ version' = version /\ creadas' = creadas /\ sinEnlace' = sinEnlace
        /\ borrada' = borrada /\ (~ solape' => ~ solape)
        /\ inventario' = [inventario EXCEPT ![p].existe = TRUE]
    BY <1>1 DEF Inventarios!CreatePropertyInventory, Inventarios!Atomica
  <2>2. /\ inventario' \in [Propiedades -> FichaInventario]
        /\ \A k \in Propiedades : /\ inventario'[k].actual = inventario[k].actual
                                 /\ inventario'[k].versions = inventario[k].versions
    BY <2>1 DEF InventarioInv, InvTipos, FichaInventario
  <2>3. QED
    BY <2>1, <2>2, InventarioSinPeticion
<1>2. ASSUME NEW r \in Requests, NEW p \in Propiedades, NEW s \in Inventarios!Estados,
             Inventarios!CreateVersion(r, p, s)
      PROVE  InventarioInv'
  BY <1>2, CreateVersionInv
<1>3. ASSUME NEW r \in Requests, NEW p \in Propiedades, NEW q \in Propiedades,
             Inventarios!CopyInventoryToProperty(r, p, q)
      PROVE  InventarioInv'
  BY <1>3, CreateVersionInv DEF Inventarios!CopyInventoryToProperty, Inventarios!Estados
<1>4. ASSUME NEW r \in Requests, NEW p \in Propiedades, NEW v \in Inventarios!Versiones,
             Inventarios!SetCurrentVersion(r, p, v)
      PROVE  InventarioInv'
  <2>1. PICK q : q = [paso |-> "fijar", p |-> p, v |-> v]
    OBVIOUS
  <2>2. Inventarios!Comenzar(r, q) /\ UNCHANGED Inventarios!inventarioVars
    BY <1>4, <2>1 DEF Inventarios!SetCurrentVersion
  <2>3. q.paso = "fijar" /\ PedidoDeInventario(q)
    BY <2>1 DEF PedidoDeInventario, Inventarios!Versiones
  <2>4. QED
    BY <2>2, <2>3, ComenzarConVersionInv
<1>5. ASSUME NEW r \in Requests, NEW p \in Propiedades, NEW v \in Inventarios!Versiones,
             Inventarios!DeleteVersion(r, p, v)
      PROVE  InventarioInv'
  <2>1. PICK q : q = [paso |-> "borrar", v |-> v]
    OBVIOUS
  <2>2. Inventarios!Comenzar(r, q) /\ UNCHANGED Inventarios!inventarioVars
    BY <1>5, <2>1 DEF Inventarios!DeleteVersion
  <2>3. q.paso = "borrar" /\ PedidoDeInventario(q)
    BY <2>1 DEF PedidoDeInventario, Inventarios!Versiones
  <2>4. QED
    BY <2>2, <2>3, ComenzarConVersionInv
<1>6. ASSUME NEW r \in Requests, NEW v \in Inventarios!Versiones, NEW s \in Inventarios!Estados,
             Inventarios!UpdateVersion(r, v, s)
      PROVE  InventarioInv'
  <2>1. PICK q : q = [paso |-> "modificar", v |-> v, status |-> s]
    OBVIOUS
  <2>2. Inventarios!Comenzar(r, q) /\ UNCHANGED Inventarios!inventarioVars
    BY <1>6, <2>1 DEF Inventarios!UpdateVersion
  <2>3. q.paso = "modificar" /\ PedidoDeInventario(q)
    BY <2>1 DEF PedidoDeInventario, Inventarios!Versiones
  <2>4. QED
    BY <2>2, <2>3, ComenzarConVersionInv
<1>7. QED
  BY <1>1, <1>2, <1>3, <1>4, <1>5, <1>6, ContarVersionesInv, InsertarVersionInv, EnlazarInv,
     ModificarInv, FijarInv, BorrarInv, MuerteInventarioInv DEF Inventarios!NextInventario

LEMMA InventariosInv == InventarioInv => Inventarios!InventarioEnlazado
BY DEF InventarioInv, Inventarios!InventarioEnlazado, Inventarios!VersionesEnlazadas, Enlazadas,
       ConActual, Numeradas

(* Inventory: no version is lost to its inventory, which has a current one  *)
(* once it has any; and numbers are unique until requests overlap or a      *)
(* version is deleted (inventory.service.ts, createVersion).                *)
THEOREM InventarioSiempreEnlazado == Spec => []InventarioEnlazado
<1> DEFINE I == foco = "inventario" => InventarioInv
<1>1. Init => I
  BY InitInventarioInv
<1>2. I /\ [Next]_registrosVars => I'
  <2> SUFFICES ASSUME I, [Next]_registrosVars, foco' = "inventario" PROVE InventarioInv'
    OBVIOUS
  <2>1. CASE Next
    <3>1. foco = "inventario"
      BY <2>1 DEF Next, LosDemas
    <3>2. QED
      BY <2>1, <3>1, PasoInventario DEF Next
  <2>2. CASE UNCHANGED registrosVars
    <3>1. /\ foco = "inventario" /\ op' = op /\ version' = version /\ creadas' = creadas
          /\ sinEnlace' = sinEnlace /\ borrada' = borrada /\ solape' = solape /\ inventario' = inventario
      BY <2>2 DEF registrosVars, peticionesVars, inventarioVars
    <3>2. inventario' \in [Propiedades -> FichaInventario]
      BY <3>1 DEF InventarioInv, InvTipos
    <3>3. QED
      BY <3>1, <3>2, InventarioSinPeticion
  <2>3. QED
    BY <2>1, <2>2
<1>3. I => InventarioEnlazado
  BY InventariosInv DEF InventarioEnlazado
<1>4. QED
  BY <1>1, <1>2, <1>3, PTL DEF Spec

----------------------------------------------------------------------------
(* MailSync.  A search that begins knows that what is older than its day    *)
(* was attended to, one that reads that all which had arrived when it began *)
(* to read was; so the date at the end of the fetch loses nothing, as the   *)
(* margin covers the hours that the fetch lasted.                           *)

EstadoDeMail == Bandeja!Estados \cup {Bandeja!Ausente}
Atendido(m) == mensaje[m] # Bandeja!Ausente \/ m \in explicados \/ \E x \in vuelo : x[2] = m
AtendidosHasta(h) == \A m \in Mails : llegada[m] # -1 /\ llegada[m] < h => Atendido(m)
Sincronizacion(s) ==
  /\ s.fase = "conectando" => s.desde \in Int /\ s.desde <= hora /\ AtendidosHasta(s.desde)
  /\ s.fase = "leyendo" => /\ s.inicio \in 0 .. hora /\ hora - s.inicio <= Duracion
                           /\ AtendidosHasta(s.inicio)
PedidoDeCorreo(q) ==
  /\ q.paso = "guardar" => q.m \in Mails /\ q.nuevo \in Bandeja!Estados
  /\ ~ solape => /\ q.paso = "guardar"
                 /\ mensaje[q.m] = q.leido /\ q.leido # Bandeja!Ausente /\ (q.visita => q.leido = "Nuevo")

CorreoTipos ==
  /\ hora \in Nat /\ ultima \in -1 .. hora
  /\ llegada \in [Mails -> Int] /\ \A m \in Mails : llegada[m] <= hora /\ llegada[m] >= -1
  /\ mensaje \in [Mails -> EstadoDeMail] /\ pedido \in [Mails -> EstadoDeMail]
CorreoInv ==
  /\ CorreoTipos
  /\ ultima # -1 => AtendidosHasta(Bandeja!Since(ultima))
  /\ sinc = [s \in Sincs |-> sinc[s]] /\ \A s \in Sincs : Sincronizacion(sinc[s])
  /\ op = [r \in Requests |-> op[r]]
  /\ \A r \in Requests : op[r] # Nadie => PedidoDeCorreo(op[r])
  /\ ~ solape => UnaSola /\ mensaje = pedido

(* The search goes back to a day that began the margin before, or earlier.  *)
LEMMA SinceAtras ==
  ASSUME NEW u \in Int, u >= -1
  PROVE  Bandeja!Since(u) \in Int /\ Bandeja!Since(u) <= IF u < Margen THEN 0 ELSE u - Margen
<1>1. ASSUME NEW x \in Nat, NEW d \in Nat \ {0}
      PROVE  (x \div d) * d \in Int /\ (x \div d) * d <= x
  OBVIOUS
<1>2. CASE u < Margen
  BY <1>2 DEF Bandeja!Since
<1>3. CASE ~ (u < Margen)
  <2>1. u - Margen \in Nat /\ HorasDelDia \in Nat \ {0}
    BY <1>3, CorreoAssumption
  <2>2. PICK x \in Nat, d \in Nat \ {0} : x = u - Margen /\ d = HorasDelDia
    BY <2>1
  <2>3. Bandeja!Since(u) = (x \div d) * d
    BY <1>3, <2>2 DEF Bandeja!Since
  <2>4. QED
    BY <1>1, <1>3, <2>2, <2>3
<1>4. QED
  BY <1>2, <1>3

LEMMA InitCorreoInv == Init /\ foco = "correo" => CorreoInv
<1> SUFFICES ASSUME Init, foco = "correo" PROVE CorreoInv
  OBVIOUS
<1>1. PICK H \in SUBSET Mails, e \in Bandeja!Estados : Bandeja!Buzon(H, e)
  BY DEF Init, Bandeja!InitCorreo
<1>2. op = [r \in Requests |-> op[r]] /\ \A r \in Requests : op[r] = Nadie
  BY InitPeticiones
<1>3. ultima = (IF H = {} THEN -1 ELSE 0) /\ hora = 0 /\ sinc = [s \in Sincs |-> Bandeja!Quieta]
      /\ llegada = [m \in Mails |-> IF m \in H THEN 0 ELSE -1]
      /\ mensaje = [m \in Mails |-> IF m \in H THEN e ELSE Bandeja!Ausente] /\ pedido = mensaje
  BY <1>1 DEF Bandeja!Buzon
<1>4. CorreoTipos
  BY <1>3 DEF CorreoTipos, EstadoDeMail
<1>5. ASSUME NEW h \in Int, h <= 0
      PROVE  AtendidosHasta(h)
  BY <1>3, <1>5 DEF AtendidosHasta
<1>6. ultima # -1 => AtendidosHasta(Bandeja!Since(ultima))
  <2>1. CASE ultima = 0
    BY <1>5, <2>1, SinceAtras, CorreoAssumption
  <2>2. QED
    BY <1>3, <2>1
<1>7. \A s \in Sincs : sinc[s].fase = "libre"
  BY <1>3 DEF Bandeja!Quieta
<1>8. sinc = [s \in Sincs |-> sinc[s]]
  BY <1>3
<1>9. QED
  BY <1>2, <1>3, <1>4, <1>6, <1>7, <1>8 DEF CorreoInv, Sincronizacion, UnaSola

(* Nobody who was attended to stops being so, and time does not go back.    *)
Adelante ==
  /\ hora <= hora'
  /\ \A m \in Mails : Atendido(m) => Atendido(m)'
  /\ \A m \in Mails : llegada'[m] = llegada[m] \/ (llegada[m] = -1 /\ llegada'[m] = hora)

LEMMA SigueAtendido ==
  ASSUME CorreoTipos, Adelante, NEW h \in Int, h <= hora, AtendidosHasta(h)
  PROVE  AtendidosHasta(h)'
BY DEF CorreoTipos, Adelante, AtendidosHasta

(* A step that leaves the requests alone, or begins or ends one.            *)
LEMMA CorreoSigue ==
  ASSUME CorreoInv, CorreoTipos', Adelante,
         ultima' = ultima \/ (ultima' # -1 => AtendidosHasta(Bandeja!Since(ultima))'),
         sinc' = [s \in Sincs |-> sinc'[s]],
         \A s \in Sincs : \/ sinc'[s] = sinc[s] /\ (sinc[s].fase = "leyendo" => hora' - sinc[s].inicio <= Duracion)
                          \/ Sincronizacion(sinc[s])',
         op' = [r \in Requests |-> op'[r]],
         \A r \in Requests : op'[r] # Nadie => PedidoDeCorreo(op[r])',
         ~ solape' => UnaSola' /\ mensaje' = pedido'
  PROVE  CorreoInv'
<1>1. ultima' # -1 => AtendidosHasta(Bandeja!Since(ultima))'
  <2>1. CASE ultima' = ultima /\ ultima # -1
    <3>1. Bandeja!Since(ultima) \in Int /\ Bandeja!Since(ultima) <= hora
      BY <2>1, SinceAtras, CorreoAssumption DEF CorreoInv, CorreoTipos
    <3>2. PICK h \in Int : h = Bandeja!Since(ultima) /\ h <= hora
      BY <3>1
    <3>3. AtendidosHasta(h)'
      BY <2>1, <3>2, SigueAtendido DEF CorreoInv
    <3>4. Bandeja!Since(ultima)' = h
      BY <2>1, <3>2 DEF Bandeja!Since
    <3>5. QED
      BY <3>3, <3>4
  <2>2. QED
    BY <2>1
<1>2. ASSUME NEW s \in Sincs
      PROVE  Sincronizacion(sinc[s])'
  <2>1. CASE sinc'[s] = sinc[s] /\ (sinc[s].fase = "leyendo" => hora' - sinc[s].inicio <= Duracion)
    <3>1. PICK z : z = sinc[s] /\ z = sinc'[s] /\ Sincronizacion(z)
      BY <2>1 DEF CorreoInv
    <3>2. hora \in Nat /\ hora' \in Nat /\ hora <= hora'
      BY DEF CorreoInv, CorreoTipos, Adelante
    <3>3. z.fase = "conectando" => z.desde \in Int /\ z.desde <= hora' /\ AtendidosHasta(z.desde)'
      BY <3>1, <3>2, SigueAtendido DEF CorreoInv, Sincronizacion
    <3>4. z.fase = "leyendo" => /\ z.inicio \in 0 .. hora' /\ hora' - z.inicio <= Duracion
                               /\ AtendidosHasta(z.inicio)'
      BY <2>1, <3>1, <3>2, SigueAtendido DEF CorreoInv, Sincronizacion
    <3>5. Sincronizacion(z)'
      BY <3>3, <3>4 DEF Sincronizacion
    <3>6. QED
      BY <3>1, <3>5
  <2>2. QED
    BY <2>1
<1>3. QED
  BY <1>1, <1>2 DEF CorreoInv

(* Neither the requests nor the statuses change.                            *)
LEMMA CorreoSinBandeja ==
  ASSUME CorreoInv, op' = op, solape' = solape, mensaje' = mensaje, pedido' = pedido, CorreoTipos', Adelante,
         ultima' = ultima \/ (ultima' # -1 => AtendidosHasta(Bandeja!Since(ultima))'),
         sinc' = [s \in Sincs |-> sinc'[s]],
         \A s \in Sincs : \/ sinc'[s] = sinc[s] /\ (sinc[s].fase = "leyendo" => hora' - sinc[s].inicio <= Duracion)
                          \/ Sincronizacion(sinc[s])'
  PROVE  CorreoInv'
<1>1. \A q : PedidoDeCorreo(q) => PedidoDeCorreo(q)'
  BY DEF PedidoDeCorreo
<1>2. \A r \in Requests : op'[r] # Nadie => PedidoDeCorreo(op[r])'
  BY <1>1 DEF CorreoInv
<1>3. op' = [r \in Requests |-> op'[r]] /\ (~ solape' => UnaSola' /\ mensaje' = pedido')
  BY DEF CorreoInv, UnaSola
<1>4. QED
  BY <1>2, <1>3, CorreoSigue

(* A mail arrives, after every search that has already looked.              *)
LEMMA LlegaInv ==
  ASSUME CorreoInv, NEW m \in Mails, Bandeja!Llega(m)
  PROVE  CorreoInv'
<1>1. /\ llegada[m] = -1 /\ llegada' = [llegada EXCEPT ![m] = hora] /\ hora' = hora /\ ultima' = ultima
      /\ sinc' = sinc /\ vuelo' = vuelo /\ explicados' = explicados /\ mensaje' = mensaje /\ pedido' = pedido
      /\ op' = op /\ solape' = solape
  BY DEF Bandeja!Llega, Bandeja!bandeja, Bandeja!peticiones
<1>2. CorreoTipos' /\ Adelante
  BY <1>1 DEF CorreoInv, CorreoTipos, Adelante, Atendido
<1>3. sinc' = [s \in Sincs |-> sinc'[s]] /\ \A s \in Sincs : sinc[s].fase = "leyendo" => hora' - sinc[s].inicio <= Duracion
  BY <1>1 DEF CorreoInv, Sincronizacion
<1>4. QED
  BY <1>1, <1>2, <1>3, CorreoSinBandeja

LEMMA PasaUnaHoraInv ==
  ASSUME CorreoInv, Bandeja!PasaUnaHora
  PROVE  CorreoInv'
<1>1. /\ \A s \in Sincs : sinc[s].fase = "leyendo" => hora - sinc[s].inicio < Duracion
      /\ llegada' = llegada /\ hora' = hora + 1 /\ ultima' = ultima
      /\ sinc' = sinc /\ vuelo' = vuelo /\ explicados' = explicados /\ mensaje' = mensaje /\ pedido' = pedido
      /\ op' = op /\ solape' = solape
  BY DEF Bandeja!PasaUnaHora, Bandeja!bandeja, Bandeja!peticiones
<1>2. CorreoTipos' /\ Adelante
  BY <1>1 DEF CorreoInv, CorreoTipos, Adelante, Atendido
<1>3. sinc' = [s \in Sincs |-> sinc'[s]] /\ \A s \in Sincs : sinc[s].fase = "leyendo" => hora' - sinc[s].inicio <= Duracion
  BY <1>1, CorreoAssumption DEF CorreoInv, CorreoTipos, Sincronizacion
<1>4. QED
  BY <1>1, <1>2, <1>3, CorreoSinBandeja

(* Only the state of a synchronisation changes, or the date too.            *)
LEMMA CorreoSinMensajes ==
  ASSUME CorreoInv, NEW s \in Sincs, NEW z, sinc' = [sinc EXCEPT ![s] = z], Sincronizacion(z)',
         llegada' = llegada, hora' = hora, mensaje' = mensaje, pedido' = pedido, explicados' = explicados,
         vuelo \subseteq vuelo', op' = op, solape' = solape,
         ultima' = ultima \/ (ultima' = hora /\ AtendidosHasta(Bandeja!Since(ultima))')
  PROVE  CorreoInv'
<1>1. CorreoTipos' /\ Adelante
  BY DEF CorreoInv, CorreoTipos, Adelante, Atendido
<1>2. sinc' = [k \in Sincs |-> sinc'[k]] /\ sinc'[s] = z /\ \A k \in Sincs : k # s => sinc'[k] = sinc[k]
  BY DEF CorreoInv
<1>3. \A k \in Sincs : sinc[k].fase = "leyendo" => hora' - sinc[k].inicio <= Duracion
  BY DEF CorreoInv, Sincronizacion
<1>4. \A k \in Sincs : \/ sinc'[k] = sinc[k] /\ (sinc[k].fase = "leyendo" => hora' - sinc[k].inicio <= Duracion)
                       \/ Sincronizacion(sinc[k])'
  <2>1. PICK f : f = sinc'[s]
    OBVIOUS
  <2>2. Sincronizacion(f)'
    BY <1>2, <2>1
  <2>3. Sincronizacion(sinc[s])'
    BY <2>1, <2>2
  <2>4. QED
    BY <1>2, <1>3, <2>3
<1>5. QED
  BY <1>1, <1>2, <1>4, CorreoSinBandeja

(* Whoever begins searches from the day of the last date.                   *)
LEMMA SyncUserEmailInv ==
  ASSUME CorreoInv, NEW s \in Sincs, Bandeja!SyncUserEmail(s)
  PROVE  CorreoInv'
<1>1. PICK z : z = [fase |-> "conectando", desde |-> Bandeja!Since(ultima), inicio |-> 0]
  OBVIOUS
<1>2. /\ llegada' = llegada /\ hora' = hora /\ ultima' = ultima
      /\ sinc' = [sinc EXCEPT ![s] = z] /\ vuelo' = vuelo /\ explicados' = explicados
      /\ mensaje' = mensaje /\ pedido' = pedido /\ op' = op /\ solape' = solape
  BY <1>1 DEF Bandeja!SyncUserEmail, Bandeja!buzon, Bandeja!bandeja, Bandeja!peticiones
<1>3. PICK h \in Int : h = Bandeja!Since(ultima) /\ h <= hora /\ (ultima = -1 => h <= 0)
  BY SinceAtras, CorreoAssumption DEF CorreoInv, CorreoTipos
<1>4. AtendidosHasta(h)
  <2>1. CASE ultima = -1
    BY <1>3, <2>1 DEF CorreoInv, CorreoTipos, AtendidosHasta
  <2>2. CASE ultima # -1
    BY <1>3, <2>2 DEF CorreoInv
  <2>3. QED
    BY <2>1, <2>2
<1>5. AtendidosHasta(h)'
  BY <1>2, <1>4 DEF AtendidosHasta, Atendido
<1>6. z.fase = "conectando" /\ z.desde = h
  BY <1>1, <1>3
<1>7. Sincronizacion(z)'
  BY <1>2, <1>3, <1>5, <1>6 DEF Sincronizacion
<1>8. QED
  BY <1>2, <1>7, CorreoSinMensajes

(* Every mail of the search has a callback from then on.                    *)
LEMMA BuscarCorreoInv ==
  ASSUME CorreoInv, NEW s \in Sincs, Bandeja!Buscar(s)
  PROVE  CorreoInv'
<1>1. PICK hallados : hallados = {m \in Mails : llegada[m] # -1 /\ llegada[m] >= sinc[s].desde}
  OBVIOUS
<1>2. /\ sinc[s].fase = "conectando" /\ llegada' = llegada /\ hora' = hora /\ ultima' = ultima
      /\ explicados' = explicados /\ mensaje' = mensaje /\ pedido' = pedido /\ op' = op /\ solape' = solape
  BY DEF Bandeja!Buscar, Bandeja!buzon, Bandeja!bandeja, Bandeja!peticiones
<1>3. CASE hallados = {}
  <2>1. sinc' = [sinc EXCEPT ![s] = Bandeja!Quieta] /\ vuelo' = vuelo
    BY <1>1, <1>3 DEF Bandeja!Buscar
  <2>2. Sincronizacion(Bandeja!Quieta)'
    BY DEF Sincronizacion, Bandeja!Quieta
  <2>3. QED
    BY <1>2, <2>1, <2>2, CorreoSinMensajes
<1>4. CASE hallados # {}
  <2>1. PICK z : z = [fase |-> "leyendo", desde |-> 0, inicio |-> hora]
    OBVIOUS
  <2>2. sinc' = [sinc EXCEPT ![s] = z] /\ vuelo' = vuelo \cup {<<s, m, "buscar">> : m \in hallados}
    BY <1>1, <1>4, <2>1 DEF Bandeja!Buscar
  <2>3. PICK h \in Int : h = sinc[s].desde /\ AtendidosHasta(h)
    BY <1>2 DEF CorreoInv, Sincronizacion
  <2>4. ASSUME NEW m \in Mails, llegada'[m] # -1
        PROVE  Atendido(m)'
    <3>1. CASE m \in hallados
      <4>1. <<s, m, "buscar">> \in vuelo' /\ <<s, m, "buscar">>[2] = m
        BY <2>2, <3>1
      <4>2. QED
        BY <4>1 DEF Atendido
    <3>2. CASE m \notin hallados
      <4>1. llegada[m] < h
        BY <1>1, <1>2, <2>3, <2>4, <3>2 DEF CorreoInv, CorreoTipos
      <4>2. Atendido(m)
        BY <1>2, <2>3, <2>4, <4>1 DEF AtendidosHasta
      <4>3. QED
        BY <1>2, <2>2, <4>2 DEF Atendido
    <3>3. QED
      BY <3>1, <3>2
  <2>5. AtendidosHasta(hora)'
    BY <2>4 DEF AtendidosHasta
  <2>6. z.fase = "leyendo" /\ z.inicio = hora /\ hora \in Nat /\ hora' = hora
    BY <1>2, <2>1 DEF CorreoInv, CorreoTipos
  <2>7. AtendidosHasta(z.inicio)'
    BY <2>5, <2>6
  <2>8. Sincronizacion(z)'
    BY <2>6, <2>7, CorreoAssumption DEF Sincronizacion
  <2>9. QED
    BY <1>2, <2>2, <2>8, CorreoSinMensajes
<1>5. QED
  BY <1>3, <1>4

(* The date that is written is within the margin of the search.             *)
LEMMA FinDelFetchDeCorreoInv ==
  ASSUME CorreoInv, NEW s \in Sincs, Bandeja!FinDelFetch(s)
  PROVE  CorreoInv'
<1>1. /\ sinc[s].fase = "leyendo" /\ llegada' = llegada /\ hora' = hora /\ ultima' = hora
      /\ sinc' = [sinc EXCEPT ![s] = Bandeja!Quieta] /\ vuelo' = vuelo
      /\ explicados' = explicados /\ mensaje' = mensaje /\ pedido' = pedido /\ op' = op /\ solape' = solape
  BY DEF Bandeja!FinDelFetch, Bandeja!buzon, Bandeja!bandeja, Bandeja!peticiones
<1>2. Sincronizacion(Bandeja!Quieta)'
  BY DEF Sincronizacion, Bandeja!Quieta
<1>3. PICK i \in Int : i >= 0 /\ i = sinc[s].inicio /\ hora - i <= Duracion /\ AtendidosHasta(i)
  BY <1>1 DEF CorreoInv, CorreoTipos, Sincronizacion
<1>4. PICK h \in Int : h = Bandeja!Since(hora) /\ h <= i
  BY <1>3, SinceAtras, CorreoAssumption DEF CorreoInv, CorreoTipos
<1>5. AtendidosHasta(h)
  BY <1>3, <1>4 DEF AtendidosHasta, CorreoInv, CorreoTipos
<1>6. AtendidosHasta(h)' /\ Bandeja!Since(ultima)' = h
  BY <1>1, <1>4, <1>5 DEF AtendidosHasta, Atendido, Bandeja!Since
<1>7. AtendidosHasta(Bandeja!Since(ultima))'
  BY <1>6
<1>8. QED
  BY <1>1, <1>2, <1>7, CorreoSinMensajes

LEMMA ErrorImapInv ==
  ASSUME CorreoInv, NEW s \in Sincs, Bandeja!ErrorImap(s)
  PROVE  CorreoInv'
<1>1. /\ llegada' = llegada /\ hora' = hora /\ ultima' = ultima
      /\ sinc' = [sinc EXCEPT ![s] = Bandeja!Quieta] /\ vuelo' = vuelo
      /\ explicados' = explicados /\ mensaje' = mensaje /\ pedido' = pedido /\ op' = op /\ solape' = solape
  BY DEF Bandeja!ErrorImap, Bandeja!buzon, Bandeja!bandeja, Bandeja!peticiones
<1>2. Sincronizacion(Bandeja!Quieta)'
  BY DEF Sincronizacion, Bandeja!Quieta
<1>3. QED
  BY <1>1, <1>2, CorreoSinMensajes

(* A callback goes on, or ends as its mail says: nobody is forgotten.       *)
LEMMA CorreoSinSincs ==
  ASSUME CorreoInv, op' = op, solape' = solape, mensaje' = mensaje, pedido' = pedido,
         llegada' = llegada, hora' = hora, ultima' = ultima, sinc' = sinc,
         \A m \in Mails : Atendido(m) => Atendido(m)'
  PROVE  CorreoInv'
<1>1. CorreoTipos' /\ Adelante
  BY DEF CorreoInv, CorreoTipos, Adelante
<1>2. sinc' = [k \in Sincs |-> sinc'[k]] /\ \A k \in Sincs : sinc[k].fase = "leyendo" => hora' - sinc[k].inicio <= Duracion
  BY DEF CorreoInv, Sincronizacion
<1>3. QED
  BY <1>1, <1>2, CorreoSinBandeja

LEMMA FindByMessageIdInv ==
  ASSUME CorreoInv, NEW s \in Sincs, NEW m \in Mails, Bandeja!FindByMessageId(s, m)
  PROVE  CorreoInv'
<1>1. /\ llegada' = llegada /\ hora' = hora /\ ultima' = ultima /\ sinc' = sinc
      /\ vuelo' = (vuelo \ {<<s, m, "buscar">>})
                    \cup (IF mensaje[m] = Bandeja!Ausente THEN {<<s, m, "crear">>} ELSE {})
      /\ explicados' = explicados /\ mensaje' = mensaje /\ pedido' = pedido /\ op' = op /\ solape' = solape
  BY DEF Bandeja!FindByMessageId, Bandeja!buzon, Bandeja!bandeja, Bandeja!peticiones
<1>2. ASSUME NEW k \in Mails, Atendido(k)
      PROVE  Atendido(k)'
  <2>1. CASE k = m
    <3>1. <<s, m, "crear">>[2] = m
      OBVIOUS
    <3>2. mensaje[m] = Bandeja!Ausente => <<s, m, "crear">> \in vuelo'
      BY <1>1
    <3>3. QED
      BY <1>1, <2>1, <3>1, <3>2 DEF Atendido
  <2>2. CASE k # m
    <3>1. \A x \in vuelo : x[2] = k => x \in vuelo'
      BY <1>1, <2>2
    <3>2. QED
      BY <1>1, <1>2, <3>1 DEF Atendido
  <2>3. QED
    BY <2>1, <2>2
<1>3. QED
  BY <1>1, <1>2, CorreoSinSincs

LEMMA ErrorDeMailInv ==
  ASSUME CorreoInv, NEW s \in Sincs, NEW m \in Mails, Bandeja!ErrorDeMail(s, m)
  PROVE  CorreoInv'
<1>1. PICK p : vuelo' = vuelo \ {<<s, m, p>>}
  BY DEF Bandeja!ErrorDeMail
<1>2. /\ llegada' = llegada /\ hora' = hora /\ ultima' = ultima /\ sinc' = sinc
      /\ explicados' = explicados \cup {m}
      /\ mensaje' = mensaje /\ pedido' = pedido /\ op' = op /\ solape' = solape
  BY DEF Bandeja!ErrorDeMail, Bandeja!buzon, Bandeja!bandeja
<1>3. \A k \in Mails : Atendido(k) => Atendido(k)'
  <2>1. ASSUME NEW k \in Mails, k # m, Atendido(k)
        PROVE  Atendido(k)'
    <3>1. \A x \in vuelo : x[2] = k => x \in vuelo'
      BY <1>1, <2>1
    <3>2. QED
      BY <1>2, <2>1, <3>1 DEF Atendido
  <2>2. Atendido(m)'
    BY <1>2 DEF Atendido
  <2>3. QED
    BY <2>1, <2>2
<1>4. QED
  BY <1>2, <1>3, CorreoSinSincs

(* The message is created unless it is there already.                       *)
LEMMA CreateMessageInv ==
  ASSUME CorreoInv, NEW s \in Sincs, NEW m \in Mails, Bandeja!CreateMessage(s, m)
  PROVE  CorreoInv'
<1>1. /\ llegada' = llegada /\ hora' = hora /\ ultima' = ultima /\ sinc' = sinc
      /\ vuelo' = vuelo \ {<<s, m, "crear">>} /\ explicados' = explicados /\ op' = op /\ solape' = solape
      /\ IF mensaje[m] = Bandeja!Ausente
         THEN mensaje' = [mensaje EXCEPT ![m] = "Nuevo"] /\ pedido' = [pedido EXCEPT ![m] = "Nuevo"]
         ELSE mensaje' = mensaje /\ pedido' = pedido
  BY DEF Bandeja!CreateMessage, Bandeja!buzon, Bandeja!peticiones
<1>2. /\ CorreoTipos'
      /\ \A k \in Mails : mensaje[k] # Bandeja!Ausente => mensaje'[k] = mensaje[k]
      /\ mensaje'[m] # Bandeja!Ausente
  BY <1>1 DEF CorreoInv, CorreoTipos, EstadoDeMail, Bandeja!Estados, Bandeja!Ausente
<1>3. \A k \in Mails : Atendido(k) => Atendido(k)'
  <2>1. ASSUME NEW k \in Mails, k # m, Atendido(k)
        PROVE  Atendido(k)'
    <3>1. \A x \in vuelo : x[2] = k => x \in vuelo'
      BY <1>1, <2>1
    <3>2. QED
      BY <1>1, <1>2, <2>1, <3>1 DEF Atendido
  <2>2. Atendido(m)'
    BY <1>2 DEF Atendido
  <2>3. QED
    BY <2>1, <2>2
<1>4. Adelante
  BY <1>1, <1>3 DEF Adelante, CorreoInv, CorreoTipos
<1>5. \A q : PedidoDeCorreo(q) => PedidoDeCorreo(q)'
  BY <1>1, <1>2 DEF PedidoDeCorreo
<1>6. \A r \in Requests : op'[r] # Nadie => PedidoDeCorreo(op[r])'
  BY <1>1, <1>5 DEF CorreoInv
<1>7. op' = [r \in Requests |-> op'[r]] /\ (~ solape' => UnaSola' /\ mensaje' = pedido')
  BY <1>1 DEF CorreoInv, UnaSola
<1>8. sinc' = [k \in Sincs |-> sinc'[k]] /\ \A k \in Sincs : sinc[k].fase = "leyendo" => hora' - sinc[k].inicio <= Duracion
  BY <1>1 DEF CorreoInv, Sincronizacion
<1>9. QED
  BY <1>1, <1>2, <1>4, <1>6, <1>7, <1>8, CorreoSigue

(* The process restarts: whoever was in a callback is explained.            *)
LEMMA ReinicioDeCorreoInv ==
  ASSUME CorreoInv, Bandeja!Reinicio
  PROVE  CorreoInv'
<1>1. /\ llegada' = llegada /\ hora' = hora /\ ultima' = ultima /\ sinc' = [s \in Sincs |-> Bandeja!Quieta]
      /\ explicados' = explicados \cup {x[2] : x \in vuelo} /\ solape' = solape
      /\ mensaje' = mensaje /\ pedido' = pedido /\ op' = [r \in Requests |-> Nadie]
  BY DEF Bandeja!Reinicio, Bandeja!buzon, Bandeja!bandeja, Bandeja!Libre, Nadie
<1>2. CorreoTipos'
  BY <1>1 DEF CorreoInv, CorreoTipos
<1>3. \A k \in Mails : Atendido(k) => Atendido(k)'
  BY <1>1 DEF Atendido
<1>4. Adelante
  BY <1>1, <1>3 DEF Adelante, CorreoInv, CorreoTipos
<1>5. \A s \in Sincs : Sincronizacion(sinc[s])'
  BY <1>1 DEF Sincronizacion, Bandeja!Quieta
<1>6. op' = [r \in Requests |-> op'[r]] /\ sinc' = [s \in Sincs |-> sinc'[s]]
  BY <1>1
<1>7. \A r \in Requests : op'[r] # Nadie => PedidoDeCorreo(op[r])'
  BY <1>1
<1>8. ~ solape' => UnaSola' /\ mensaje' = pedido'
  BY <1>1 DEF CorreoInv, UnaSola
<1>9. QED
  BY <1>1, <1>2, <1>4, <1>5, <1>6, <1>7, <1>8, CorreoSigue

(* Whoever looks at a message, or asks for a status, has just read it.      *)
LEMMA ComenzarConMensajeInv ==
  ASSUME CorreoInv, NEW r \in Requests, NEW q, Bandeja!Comenzar(r, q), UNCHANGED Bandeja!correoVars,
         PedidoDeCorreo(q), q.paso = "guardar"
  PROVE  CorreoInv'
<1>1. /\ op[r] = Nadie /\ op' = [op EXCEPT ![r] = q] /\ (~ solape' => ~ solape /\ \A s \in Requests : op[s] = Nadie)
      /\ llegada' = llegada /\ hora' = hora /\ ultima' = ultima /\ sinc' = sinc
      /\ vuelo' = vuelo /\ explicados' = explicados /\ mensaje' = mensaje /\ pedido' = pedido
  BY DEF Bandeja!Comenzar, Bandeja!EnCurso, Bandeja!Libre, Nadie, Bandeja!correoVars
<1>2. CorreoTipos' /\ Adelante
  BY <1>1 DEF CorreoInv, CorreoTipos, Adelante, Atendido
<1>3. op' = [s \in Requests |-> op'[s]] /\ \A s \in Requests : op'[s] = IF s = r THEN q ELSE op[s]
  BY <1>1 DEF CorreoInv
<1>4. \A p : PedidoDeCorreo(p) => PedidoDeCorreo(p)'
  BY <1>1 DEF PedidoDeCorreo
<1>5. ASSUME NEW s \in Requests, op'[s] # Nadie
      PROVE  PedidoDeCorreo(op[s])'
  <2>1. PICK p : p = op'[s]
    OBVIOUS
  <2>2. PedidoDeCorreo(p)'
    BY <1>3, <1>4, <1>5, <2>1 DEF CorreoInv
  <2>3. QED
    BY <2>1, <2>2
<1>6. ~ solape' => UnaSola' /\ mensaje' = pedido'
  BY <1>1, <1>3 DEF CorreoInv, UnaSola
<1>7. sinc' = [k \in Sincs |-> sinc'[k]] /\ \A k \in Sincs : sinc[k].fase = "leyendo" => hora' - sinc[k].inicio <= Duracion
  BY <1>1 DEF CorreoInv, Sincronizacion
<1>8. QED
  BY <1>1, <1>2, <1>3, <1>5, <1>6, <1>7, CorreoSigue

(* The status is saved, over the one that was read.                         *)
LEMMA GuardarEstadoInv ==
  ASSUME CorreoInv, NEW r \in Requests, Bandeja!GuardarEstado(r)
  PROVE  CorreoInv'
<1>1. op[r].paso = "guardar" /\ op[r] # Nadie
  BY DEF Bandeja!GuardarEstado, Nadie
<1>2. PICK q : q = op[r] /\ PedidoDeCorreo(q) /\ q.paso = "guardar"
  BY <1>1 DEF CorreoInv
<1>3. PICK m \in Mails, e \in Bandeja!Estados : q.m = m /\ q.nuevo = e
  BY <1>2 DEF PedidoDeCorreo
<1>4. /\ mensaje' = IF mensaje[m] # Bandeja!Ausente /\ e # q.leido THEN [mensaje EXCEPT ![m] = e] ELSE mensaje
      /\ pedido' = IF mensaje[m] # Bandeja!Ausente /\ (~ q.visita \/ pedido[m] = "Nuevo")
                   THEN [pedido EXCEPT ![m] = e] ELSE pedido
      /\ llegada' = llegada /\ hora' = hora /\ ultima' = ultima /\ sinc' = sinc
      /\ vuelo' = vuelo /\ explicados' = explicados /\ solape' = solape /\ op' = [op EXCEPT ![r] = Nadie]
  BY <1>2, <1>3 DEF Bandeja!GuardarEstado, Bandeja!Terminar, Bandeja!Seguir, Bandeja!Libre, Nadie, Bandeja!buzon
<1>5. e # Bandeja!Ausente /\ e \in EstadoDeMail
  BY DEF EstadoDeMail, Bandeja!Estados, Bandeja!Ausente
<1>6. mensaje \in [Mails -> EstadoDeMail] /\ pedido \in [Mails -> EstadoDeMail]
  BY DEF CorreoInv, CorreoTipos
<1>7. mensaje' \in [Mails -> EstadoDeMail] /\ pedido' \in [Mails -> EstadoDeMail]
  BY <1>4, <1>5, <1>6
<1>8. CorreoTipos'
  BY <1>4, <1>7 DEF CorreoInv, CorreoTipos
<1>9. \A k \in Mails : mensaje[k] # Bandeja!Ausente => mensaje'[k] # Bandeja!Ausente
  BY <1>4, <1>5, <1>6
<1>10. Adelante
  BY <1>4, <1>9 DEF CorreoInv, CorreoTipos, Adelante, Atendido
<1>11. op' = [s \in Requests |-> op'[s]] /\ \A s \in Requests : op'[s] = IF s = r THEN Nadie ELSE op[s]
  BY <1>4 DEF CorreoInv
<1>12. ASSUME NEW s \in Requests, op'[s] # Nadie
       PROVE  PedidoDeCorreo(op[s])'
  <2>1. PICK p : p = op'[s] /\ p = op[s] /\ PedidoDeCorreo(p) /\ s # r
    BY <1>11, <1>12 DEF CorreoInv
  <2>2. solape'
    BY <1>1, <1>4, <2>1, <1>12 DEF CorreoInv, UnaSola
  <2>3. PedidoDeCorreo(p)'
    BY <2>1, <2>2 DEF PedidoDeCorreo
  <2>4. QED
    BY <2>1, <2>3
<1>13. ASSUME ~ solape'
       PROVE  UnaSola' /\ mensaje' = pedido'
  <2>1. mensaje = pedido /\ mensaje[m] = q.leido /\ q.leido # Bandeja!Ausente /\ (q.visita => q.leido = "Nuevo")
    BY <1>2, <1>3, <1>4, <1>13 DEF CorreoInv, PedidoDeCorreo
  <2>2. pedido' = [pedido EXCEPT ![m] = e]
    BY <1>4, <2>1
  <2>3. mensaje' = [mensaje EXCEPT ![m] = e]
    BY <1>4, <1>6, <2>1
  <2>4. UnaSola'
    BY <1>4, <1>11, <1>13 DEF CorreoInv, UnaSola
  <2>5. QED
    BY <2>1, <2>2, <2>3, <2>4
<1>14. sinc' = [k \in Sincs |-> sinc'[k]] /\ \A k \in Sincs : sinc[k].fase = "leyendo" => hora' - sinc[k].inicio <= Duracion
  BY <1>4 DEF CorreoInv, Sincronizacion
<1>15. QED
  BY <1>4, <1>8, <1>10, <1>11, <1>12, <1>13, <1>14, CorreoSigue

(* A batch is written at once, and overlaps any request in progress.        *)
LEMMA LoteInv ==
  ASSUME CorreoInv, NEW M \in SUBSET Mails, NEW e \in EstadoDeMail, Bandeja!Atomica,
         mensaje' = [m \in Mails |-> IF m \in M THEN e ELSE mensaje[m]],
         pedido' = [m \in Mails |-> IF m \in M THEN e ELSE pedido[m]],
         llegada' = llegada, hora' = hora, ultima' = ultima, sinc' = sinc, vuelo' = vuelo,
         explicados \subseteq explicados', e = Bandeja!Ausente => M \subseteq explicados'
  PROVE  CorreoInv'
<1>1. op' = op /\ (~ solape' => ~ solape /\ \A s \in Requests : op[s] = Nadie)
  BY DEF Bandeja!Atomica, Bandeja!EnCurso, Bandeja!Libre, Nadie
<1>2. CorreoTipos' /\ Adelante
  BY DEF CorreoInv, CorreoTipos, Adelante, Atendido
<1>3. op' = [s \in Requests |-> op'[s]]
  BY <1>1 DEF CorreoInv
<1>4. ASSUME NEW s \in Requests, op'[s] # Nadie
      PROVE  PedidoDeCorreo(op[s])'
  <2>1. PICK p : p = op'[s] /\ p = op[s] /\ PedidoDeCorreo(p)
    BY <1>1, <1>4 DEF CorreoInv
  <2>2. solape'
    BY <1>1, <1>4
  <2>3. PedidoDeCorreo(p)'
    BY <2>1, <2>2 DEF PedidoDeCorreo
  <2>4. QED
    BY <2>1, <2>3
<1>5. ~ solape' => UnaSola' /\ mensaje' = pedido'
  BY <1>1 DEF CorreoInv, UnaSola
<1>6. sinc' = [k \in Sincs |-> sinc'[k]] /\ \A k \in Sincs : sinc[k].fase = "leyendo" => hora' - sinc[k].inicio <= Duracion
  BY DEF CorreoInv, Sincronizacion
<1>7. QED
  BY <1>2, <1>3, <1>4, <1>5, <1>6, CorreoSigue

LEMMA PasoCorreo == CorreoInv /\ Bandeja!NextCorreo => CorreoInv'
<1> SUFFICES ASSUME CorreoInv, Bandeja!NextCorreo PROVE CorreoInv'
  OBVIOUS
<1>1. ASSUME NEW r \in Requests, NEW m \in Mails, Bandeja!FindById(r, m)
      PROVE  CorreoInv'
  <2>1. PICK q : q = [paso |-> "guardar", m |-> m, leido |-> "Nuevo", nuevo |-> "Leido", visita |-> TRUE]
    OBVIOUS
  <2>2. mensaje[m] = "Nuevo" /\ Bandeja!Comenzar(r, q) /\ UNCHANGED Bandeja!correoVars
    BY <1>1, <2>1 DEF Bandeja!FindById
  <2>3. PedidoDeCorreo(q) /\ q.paso = "guardar"
    BY <2>1, <2>2 DEF PedidoDeCorreo, Bandeja!Estados, Bandeja!Ausente
  <2>4. QED
    BY <2>2, <2>3, ComenzarConMensajeInv
<1>2. ASSUME NEW r \in Requests, NEW m \in Mails, NEW e \in Bandeja!Estados, Bandeja!UpdateStatus(r, m, e)
      PROVE  CorreoInv'
  <2>1. PICK l : l = mensaje[m]
    OBVIOUS
  <2>2. PICK q : q = [paso |-> "guardar", m |-> m, leido |-> l, nuevo |-> e, visita |-> FALSE]
    OBVIOUS
  <2>3. l # Bandeja!Ausente /\ Bandeja!Comenzar(r, q) /\ UNCHANGED Bandeja!correoVars
    BY <1>2, <2>1, <2>2 DEF Bandeja!UpdateStatus
  <2>4. PedidoDeCorreo(q) /\ q.paso = "guardar"
    BY <2>1, <2>2, <2>3 DEF PedidoDeCorreo
  <2>5. QED
    BY <2>3, <2>4, ComenzarConMensajeInv
<1>3. ASSUME NEW M \in SUBSET Mails, Bandeja!DeleteMessagesBatch(M)
      PROVE  CorreoInv'
  <2>1. /\ Bandeja!Atomica /\ explicados' = explicados \cup M /\ Bandeja!Ausente \in EstadoDeMail
        /\ mensaje' = [m \in Mails |-> IF m \in M THEN Bandeja!Ausente ELSE mensaje[m]]
        /\ pedido' = [m \in Mails |-> IF m \in M THEN Bandeja!Ausente ELSE pedido[m]]
        /\ llegada' = llegada /\ hora' = hora /\ ultima' = ultima /\ sinc' = sinc /\ vuelo' = vuelo
    BY <1>3 DEF Bandeja!DeleteMessagesBatch, Bandeja!buzon, EstadoDeMail
  <2>2. QED
    BY <2>1, LoteInv
<1>4. ASSUME NEW M \in SUBSET Mails, NEW e \in Bandeja!Estados, Bandeja!UpdateMessagesBatchStatus(M, e)
      PROVE  CorreoInv'
  <2>1. /\ Bandeja!Atomica /\ explicados' = explicados /\ e \in EstadoDeMail /\ e # Bandeja!Ausente
        /\ mensaje' = [m \in Mails |-> IF m \in M THEN e ELSE mensaje[m]]
        /\ pedido' = [m \in Mails |-> IF m \in M THEN e ELSE pedido[m]]
        /\ llegada' = llegada /\ hora' = hora /\ ultima' = ultima /\ sinc' = sinc /\ vuelo' = vuelo
    BY <1>4 DEF Bandeja!UpdateMessagesBatchStatus, Bandeja!buzon, EstadoDeMail, Bandeja!Estados, Bandeja!Ausente
  <2>2. QED
    BY <2>1, LoteInv
<1>5. QED
  BY <1>1, <1>2, <1>3, <1>4, LlegaInv, PasaUnaHoraInv, SyncUserEmailInv, BuscarCorreoInv,
     FinDelFetchDeCorreoInv, ErrorImapInv, FindByMessageIdInv, CreateMessageInv, ErrorDeMailInv,
     ReinicioDeCorreoInv, GuardarEstadoInv DEF Bandeja!NextCorreo

LEMMA CorreoSinPasos == CorreoInv /\ UNCHANGED registrosVars => CorreoInv'
<1> SUFFICES ASSUME CorreoInv, UNCHANGED registrosVars PROVE CorreoInv'
  OBVIOUS
<1>1. /\ llegada' = llegada /\ hora' = hora /\ ultima' = ultima /\ sinc' = sinc /\ op' = op /\ solape' = solape
      /\ vuelo' = vuelo /\ explicados' = explicados /\ mensaje' = mensaje /\ pedido' = pedido
  BY DEF registrosVars, peticionesVars, correoVars
<1>2. \A m \in Mails : Atendido(m) => Atendido(m)'
  BY <1>1 DEF Atendido
<1>3. QED
  BY <1>1, <1>2, CorreoSinSincs

(* MailSync: a mail that the next search will not look at is in the inbox,  *)
(* was deleted from it, is in a callback or its callback failed; and a      *)
(* message has the status that was last asked for                           *)
(* (email-sync.service.ts, syncImap; inbox.service.ts, findById).           *)
THEOREM BandejaSiempreFiel == Spec => []BandejaFiel
<1> DEFINE I == foco = "correo" => CorreoInv
<1>1. Init => I
  BY InitCorreoInv
<1>2. I /\ [Next]_registrosVars => I'
  <2> SUFFICES ASSUME I, [Next]_registrosVars, foco' = "correo" PROVE CorreoInv'
    OBVIOUS
  <2>1. CASE Next
    <3>1. foco = "correo"
      BY <2>1 DEF Next, LosDemas
    <3>2. QED
      BY <2>1, <3>1, PasoCorreo DEF Next
  <2>2. CASE UNCHANGED registrosVars
    <3>1. foco = "correo"
      BY <2>2 DEF registrosVars
    <3>2. QED
      BY <2>2, <3>1, CorreoSinPasos
  <2>3. QED
    BY <2>1, <2>2
<1>3. I => BandejaFiel
  BY DEF BandejaFiel, Bandeja!BandejaFiel, Bandeja!CorreoNoPerdido, Bandeja!EstadoPedido, CorreoInv,
         AtendidosHasta, Atendido
<1>4. QED
  BY <1>1, <1>2, <1>3, PTL DEF Spec

----------------------------------------------------------------------------
(* CashBox.  An adjustment entry is of the request that wrote it, and then  *)
(* of the movement that it builds, saved or not; an entry that no saved     *)
(* movement refers to is charged to its request or to a death.              *)

PeticionCaja == [paso : {"libre", "ajustar", "fijar", "fechar", "guardar"}, tipo : Caja!Tipos,
                 importe : Int, esperado : Int, ajuste : Nat, mov : Nat]
MovimientoCaja == [tipo : Caja!Tipos, importe : Int, esperado : Int, ajuste : Nat, guardado : BOOLEAN]
AsientoCaja == [descripcion : {"Sobrante", "Faltante"}, debe : Int, haber : Int]

CajaTipos ==
  /\ saldo \in Int /\ muertes \in Nat
  /\ movs \in Seq(MovimientoCaja) /\ ajustes \in Seq(AsientoCaja)
  /\ opCaja \in [Requests -> PeticionCaja]

Cuadrado(d) ==
  IF d.tipo = "FINAL_CLOSURE" /\ d.importe # d.esperado
  THEN d.ajuste \in DOMAIN ajustes /\ Caja!Firmado(ajustes[d.ajuste]) = d.importe - d.esperado
  ELSE d.ajuste = 0
PeticionDeCaja(q) ==
  /\ q.paso = "libre" => q.ajuste = 0
  /\ q.paso = "ajustar" => q.ajuste = 0 /\ q.tipo = "FINAL_CLOSURE" /\ q.importe # q.esperado
  /\ q.paso \in {"fijar", "fechar"} => Cuadrado(q)
  /\ q.paso = "guardar" => /\ q.mov \in DOMAIN movs /\ ~ movs[q.mov].guardado
                           /\ movs[q.mov].ajuste = q.ajuste /\ movs[q.mov].tipo = q.tipo
CajaCuadrada ==
  /\ \A k \in DOMAIN movs : Cuadrado(movs[k])
  /\ \A r \in Requests : PeticionDeCaja(opCaja[r])

Ajenos(q, t) ==
  /\ q.ajuste # 0 => q.ajuste # t.ajuste
  /\ q.paso = "guardar" /\ t.paso = "guardar" => q.mov # t.mov
Guardable(q) ==
  q.ajuste # 0 /\ q.paso # "guardar" => \A k \in DOMAIN movs : movs[k].ajuste # q.ajuste
CajaPropia ==
  /\ \A j, k \in DOMAIN movs : j # k /\ movs[j].ajuste = movs[k].ajuste => movs[j].ajuste = 0
  /\ \A r, s \in Requests : r # s => Ajenos(opCaja[r], opCaja[s])
  /\ \A r \in Requests : Guardable(opCaja[r])

Huerfanos == DOMAIN ajustes \ {movs[k].ajuste : k \in Caja!Guardados}
Tenedores == {r \in Requests : opCaja[r].ajuste # 0}
SinHuerfanos == Cardinality(Huerfanos) <= muertes + Cardinality(Tenedores)

Cerrada ==
  \A j \in Caja!Guardados : movs[j].tipo = "OPENING" =>
    \E i \in Caja!Guardados : j < i /\ movs[i].tipo = "FINAL_CLOSURE"
Alternadas ==
  \A j, k \in Caja!Guardados : j < k /\ movs[j].tipo = "OPENING" /\ movs[k].tipo = "OPENING" =>
    \E i \in Caja!Guardados : j < i /\ i < k /\ movs[i].tipo = "FINAL_CLOSURE"
EnOrden(q) ==
  /\ q.paso # "libre" /\ q.tipo = "OPENING" => Cerrada
  /\ q.paso = "guardar" => q.mov = Len(movs)
CajaOrdenada ==
  /\ Caja!Guardados # {} => \E k \in Caja!Guardados : \A j \in Caja!Guardados : j <= k
  /\ ~ solape => /\ Alternadas /\ \A r \in Requests : EnOrden(opCaja[r])
                 /\ \A r, s \in Requests : opCaja[r].paso # "libre" /\ opCaja[s].paso # "libre" => r = s

CajaInv == CajaTipos /\ CajaCuadrada /\ CajaPropia /\ SinHuerfanos /\ CajaOrdenada

LEMMA CardinalCaja == \A S : Caja!Cardinality(S) = Cardinality(S)
BY DEF Caja!Cardinality, Cardinality

LEMMA CajaFinita ==
  ASSUME CajaTipos
  PROVE  /\ IsFiniteSet(Huerfanos) /\ Cardinality(Huerfanos) \in Nat
         /\ IsFiniteSet(Tenedores) /\ Cardinality(Tenedores) \in Nat
         /\ Caja!Guardados \subseteq DOMAIN movs /\ DOMAIN movs \subseteq Nat
<1>1. DOMAIN ajustes = 1 .. Len(ajustes) /\ Len(ajustes) \in Nat /\ DOMAIN movs = 1 .. Len(movs)
  BY DEF CajaTipos
<1>2. IsFiniteSet(DOMAIN ajustes)
  BY <1>1, FS_Interval
<1>3. IsFiniteSet(Huerfanos) /\ IsFiniteSet(Tenedores)
  BY <1>2, PeticionesAssumption, FS_Subset DEF Huerfanos, Tenedores
<1>4. QED
  BY <1>1, <1>3, FS_CardinalityType DEF Caja!Guardados

LEMMA InitCajaInv == Init => CajaInv
<1> SUFFICES ASSUME Init PROVE CajaInv
  OBVIOUS
<1>1. /\ saldo = 0 /\ movs = <<>> /\ ajustes = <<>> /\ muertes = 0
      /\ opCaja = [r \in Requests |-> Caja!SinOp]
  BY DEF Init, Caja!XInit
<1>2. Caja!SinOp \in PeticionCaja /\ Caja!SinOp.paso = "libre" /\ Caja!SinOp.ajuste = 0
  BY DEF Caja!SinOp, PeticionCaja, Caja!Tipos, Caja!SinAjuste
<1>3. CajaTipos
  BY <1>1, <1>2 DEF CajaTipos
<1>4. DOMAIN movs = {} /\ DOMAIN ajustes = {} /\ Caja!Guardados = {}
  BY <1>1 DEF Caja!Guardados
<1>5. \A r \in Requests : opCaja[r].paso = "libre" /\ opCaja[r].ajuste = 0
  BY <1>1, <1>2
<1>6. CajaCuadrada
  BY <1>4, <1>5 DEF CajaCuadrada, PeticionDeCaja
<1>7. CajaPropia
  BY <1>4, <1>5 DEF CajaPropia, Ajenos, Guardable
<1>8. Huerfanos = {} /\ Tenedores = {}
  BY <1>4, <1>5 DEF Huerfanos, Tenedores
<1>9. SinHuerfanos
  BY <1>1, <1>8, FS_EmptySet DEF SinHuerfanos
<1>10. CajaOrdenada
  BY <1>4, <1>5 DEF CajaOrdenada, Alternadas, EnOrden
<1>11. QED
  BY <1>3, <1>6, <1>7, <1>9, <1>10 DEF CajaInv

(* A step that writes neither a movement nor an adjustment entry.           *)
LEMMA CajaSinMovimientos ==
  ASSUME CajaInv, NEW r \in Requests, NEW q \in PeticionCaja, opCaja' = [opCaja EXCEPT ![r] = q],
         movs' = movs, ajustes' = ajustes, saldo' \in Int, muertes' \in Nat,
         PeticionDeCaja(q), q.paso # "guardar",
         q.ajuste = 0 \/ (q.ajuste = opCaja[r].ajuste /\ opCaja[r].paso # "guardar"),
         IF q.ajuste = opCaja[r].ajuste THEN muertes <= muertes' ELSE muertes' = muertes + 1,
         ~ solape' => ~ solape /\ \A s \in Requests : s # r => opCaja[s].paso = "libre",
         ~ solape' => EnOrden(q)
  PROVE  CajaInv'
<1>1. \A s \in Requests : opCaja'[s] = IF s = r THEN q ELSE opCaja[s]
  BY DEF CajaInv, CajaTipos
<1>2. CajaTipos'
  BY DEF CajaInv, CajaTipos
<1>3. Caja!Guardados' = Caja!Guardados /\ Huerfanos' = Huerfanos /\ Cerrada' = Cerrada /\ Alternadas' = Alternadas
  BY DEF Caja!Guardados, Huerfanos, Cerrada, Alternadas
<1>4. \A p : /\ PeticionDeCaja(p) => PeticionDeCaja(p)'
             /\ Guardable(p) => Guardable(p)'
             /\ EnOrden(p) => EnOrden(p)'
  BY <1>3 DEF PeticionDeCaja, Cuadrado, Guardable, EnOrden
<1>5. ASSUME NEW s \in Requests
      PROVE  PeticionDeCaja(opCaja[s])' /\ Guardable(opCaja[s])' /\ (~ solape' => EnOrden(opCaja[s])')
  <2>1. PICK p : p = opCaja'[s]
    OBVIOUS
  <2>2. CASE s = r
    <3>1. p = q
      BY <1>1, <2>1, <2>2
    <3>2. Guardable(q)
      BY DEF CajaInv, CajaPropia, Guardable
    <3>3. PeticionDeCaja(p)' /\ Guardable(p)' /\ (~ solape' => EnOrden(p)')
      BY <1>4, <3>1, <3>2
    <3>4. QED
      BY <2>1, <3>3
  <2>3. CASE s # r
    <3>1. p = opCaja[s]
      BY <1>1, <2>1, <2>3
    <3>2. PeticionDeCaja(p)' /\ Guardable(p)' /\ (~ solape' => EnOrden(p)')
      BY <1>4, <3>1 DEF CajaInv, CajaCuadrada, CajaPropia, CajaOrdenada
    <3>3. QED
      BY <2>1, <3>2
  <2>4. QED
    BY <2>2, <2>3
<1>6. CajaCuadrada'
  BY <1>5 DEF CajaInv, CajaCuadrada, Cuadrado
<1>7. ASSUME NEW s \in Requests, NEW t \in Requests, s # t
      PROVE  Ajenos(opCaja[s], opCaja[t])'
  <2>1. Ajenos(opCaja[s], opCaja[t])
    BY <1>7 DEF CajaInv, CajaPropia
  <2>2. Ajenos(opCaja'[s], opCaja'[t])
    BY <1>1, <1>7, <2>1 DEF Ajenos
  <2>3. QED
    BY <2>2 DEF Ajenos
<1>8. CajaPropia'
  BY <1>5, <1>7 DEF CajaInv, CajaPropia
<1>9. SinHuerfanos'
  <2>1. /\ IsFiniteSet(Tenedores) /\ Cardinality(Tenedores) \in Nat /\ Cardinality(Huerfanos) \in Nat
        /\ Cardinality(Huerfanos) <= muertes + Cardinality(Tenedores) /\ muertes \in Nat /\ muertes' \in Nat
    BY CajaFinita DEF CajaInv, SinHuerfanos, CajaTipos
  <2>2. CASE q.ajuste = opCaja[r].ajuste
    <3>1. Tenedores' = Tenedores
      BY <1>1, <2>2 DEF Tenedores
    <3>2. QED
      BY <1>3, <2>1, <2>2, <3>1 DEF SinHuerfanos
  <2>3. CASE q.ajuste # opCaja[r].ajuste
    <3>1. Tenedores' = Tenedores \ {r} /\ r \in Tenedores
      BY <1>1, <2>3 DEF Tenedores
    <3>2. Cardinality(Tenedores') = Cardinality(Tenedores) - 1
      BY <2>1, <3>1, FS_RemoveElement
    <3>3. QED
      BY <1>3, <2>1, <2>3, <3>2 DEF SinHuerfanos
  <2>4. QED
    BY <2>2, <2>3
<1>10. ~ solape' => \A s, t \in Requests : opCaja'[s].paso # "libre" /\ opCaja'[t].paso # "libre" => s = t
  BY <1>1 DEF CajaInv, CajaOrdenada
<1>11. CajaOrdenada'
  BY <1>3, <1>5, <1>10 DEF CajaInv, CajaOrdenada
<1>12. QED
  BY <1>2, <1>6, <1>8, <1>9, <1>11 DEF CajaInv

LEMMA CajaSinPeticion ==
  ASSUME CajaInv, opCaja' = opCaja, movs' = movs, ajustes' = ajustes, saldo' \in Int, muertes' = muertes,
         solape' = solape
  PROVE  CajaInv'
<1>1. Caja!Guardados' = Caja!Guardados
  BY DEF Caja!Guardados
<1>2. CajaTipos' /\ CajaCuadrada' /\ CajaPropia'
  BY DEF CajaInv, CajaTipos, CajaCuadrada, CajaPropia, PeticionDeCaja, Cuadrado, Ajenos, Guardable
<1>3. Huerfanos' = Huerfanos /\ Tenedores' = Tenedores
  BY <1>1 DEF Huerfanos, Tenedores
<1>4. SinHuerfanos'
  BY <1>3 DEF CajaInv, SinHuerfanos
<1>5. CajaOrdenada'
  BY <1>1 DEF CajaInv, CajaOrdenada, Alternadas, EnOrden, Cerrada
<1>6. QED
  BY <1>2, <1>4, <1>5 DEF CajaInv

(* The latest movement is the one that the code looks at: nothing was saved *)
(* after it.                                                                *)
LEMMA UltimoMovimiento ==
  ASSUME CajaInv, Caja!Guardados # {}
  PROVE  /\ Caja!Max(Caja!Guardados) \in Caja!Guardados
         /\ \A j \in Caja!Guardados : j <= Caja!Max(Caja!Guardados)
<1>1. PICK S : S = Caja!Guardados /\ S \subseteq Nat
  BY CajaFinita DEF CajaInv
<1>2. \E k \in S : \A j \in S : k >= j
  BY <1>1 DEF CajaInv, CajaOrdenada
<1>3. Caja!Max(S) \in S /\ \A j \in S : Caja!Max(S) >= j
  BY <1>2 DEF Caja!Max
<1>4. QED
  BY <1>1, <1>3

LEMMA ComenzarEnCajaInv ==
  ASSUME CajaInv, NEW r \in Requests, NEW q \in PeticionCaja,
         opCaja[r].paso = "libre", opCaja' = [opCaja EXCEPT ![r] = q],
         solape' = (solape \/ \E s \in Requests : opCaja[s].paso # "libre"),
         movs' = movs, ajustes' = ajustes, saldo' = saldo, muertes' = muertes,
         q.ajuste = 0, PeticionDeCaja(q), q.paso # "guardar", q.tipo = "OPENING" => Cerrada
  PROVE  CajaInv'
<1>1. opCaja[r].ajuste = 0 /\ saldo' \in Int /\ muertes' \in Nat /\ muertes <= muertes'
  BY DEF CajaInv, CajaCuadrada, PeticionDeCaja, CajaTipos
<1>2. EnOrden(q)
  BY DEF EnOrden
<1>3. QED
  BY <1>1, <1>2, CajaSinMovimientos

LEMMA CreateOpeningInv ==
  ASSUME CajaInv, NEW r \in Requests, NEW m \in Importes, Caja!CreateOpening(r, m)
  PROVE  CajaInv'
<1>1. PICK q : q = [Caja!SinOp EXCEPT !.tipo = "OPENING", !.paso = "fijar", !.importe = m, !.esperado = 0]
  OBVIOUS
<1>2. /\ opCaja[r].paso = "libre" /\ opCaja' = [opCaja EXCEPT ![r] = q]
      /\ solape' = (solape \/ \E s \in Requests : opCaja[s].paso # "libre")
      /\ movs' = movs /\ ajustes' = ajustes /\ saldo' = saldo /\ muertes' = muertes
      /\ Caja!Guardados # {} => movs[Caja!Max(Caja!Guardados)].tipo = "FINAL_CLOSURE"
  BY <1>1 DEF Caja!CreateOpening, Caja!Comenzar, Caja!Libre, Caja!hist
<1>3. q \in PeticionCaja /\ q.ajuste = 0 /\ q.paso = "fijar" /\ q.tipo = "OPENING"
  <2>1. m \in Int
    BY CajaAssumption
  <2>2. q = [paso |-> "fijar", tipo |-> "OPENING", importe |-> m, esperado |-> 0, ajuste |-> 0, mov |-> 0]
    BY <1>1 DEF Caja!SinOp, Caja!SinAjuste
  <2>3. QED
    BY <2>1, <2>2 DEF PeticionCaja, Caja!Tipos
<1>4. PeticionDeCaja(q)
  BY <1>3 DEF PeticionDeCaja, Cuadrado
<1>5. Cerrada
  <2>1. CASE Caja!Guardados = {}
    BY <2>1 DEF Cerrada
  <2>2. CASE Caja!Guardados # {}
    <3>1. PICK i \in Caja!Guardados : movs[i].tipo = "FINAL_CLOSURE" /\ \A j \in Caja!Guardados : j <= i
      BY <1>2, <2>2, UltimoMovimiento
    <3>2. ASSUME NEW j \in Caja!Guardados, movs[j].tipo = "OPENING"
          PROVE  j < i
      <4>1. j <= i /\ j # i /\ j \in Nat /\ i \in Nat
        BY <3>1, <3>2, CajaFinita DEF CajaInv
      <4>2. QED
        BY <4>1
    <3>3. QED
      BY <3>1, <3>2 DEF Cerrada
  <2>3. QED
    BY <2>1, <2>2
<1>6. QED
  BY <1>2, <1>3, <1>4, <1>5, ComenzarEnCajaInv

LEMMA CreatePartialClosureInv ==
  ASSUME CajaInv, NEW r \in Requests, NEW m \in Importes, Caja!CreatePartialClosure(r, m)
  PROVE  CajaInv'
<1>1. PICK q : q = [Caja!SinOp EXCEPT !.tipo = "PARTIAL_CLOSURE", !.paso = "fechar", !.importe = m, !.esperado = saldo]
  OBVIOUS
<1>2. /\ opCaja[r].paso = "libre" /\ opCaja' = [opCaja EXCEPT ![r] = q]
      /\ solape' = (solape \/ \E s \in Requests : opCaja[s].paso # "libre")
      /\ movs' = movs /\ ajustes' = ajustes /\ saldo' = saldo /\ muertes' = muertes
  BY <1>1 DEF Caja!CreatePartialClosure, Caja!Comenzar, Caja!Libre, Caja!hist
<1>3. saldo \in Int
  BY DEF CajaInv, CajaTipos
<1>4. q \in PeticionCaja /\ q.ajuste = 0 /\ q.paso = "fechar" /\ q.tipo = "PARTIAL_CLOSURE"
  BY <1>1, <1>3, CajaAssumption DEF Caja!SinOp, PeticionCaja, Caja!Tipos, Caja!SinAjuste
<1>5. PeticionDeCaja(q)
  BY <1>4 DEF PeticionDeCaja, Cuadrado
<1>6. QED
  BY <1>2, <1>4, <1>5, ComenzarEnCajaInv

LEMMA CreateFinalClosureInv ==
  ASSUME CajaInv, NEW r \in Requests, NEW m \in Importes, Caja!CreateFinalClosure(r, m)
  PROVE  CajaInv'
<1>1. PICK q : q = [Caja!SinOp EXCEPT !.tipo = "FINAL_CLOSURE", !.paso = IF m # saldo THEN "ajustar" ELSE "fijar",
                                      !.importe = m, !.esperado = saldo]
  OBVIOUS
<1>2. /\ opCaja[r].paso = "libre" /\ opCaja' = [opCaja EXCEPT ![r] = q]
      /\ solape' = (solape \/ \E s \in Requests : opCaja[s].paso # "libre")
      /\ movs' = movs /\ ajustes' = ajustes /\ saldo' = saldo /\ muertes' = muertes
  BY <1>1 DEF Caja!CreateFinalClosure, Caja!Comenzar, Caja!Libre, Caja!hist
<1>3. saldo \in Int
  BY DEF CajaInv, CajaTipos
<1>4. /\ q \in PeticionCaja /\ q.ajuste = 0 /\ q.tipo = "FINAL_CLOSURE"
      /\ q.paso = IF q.importe # q.esperado THEN "ajustar" ELSE "fijar"
  BY <1>1, <1>3, CajaAssumption DEF Caja!SinOp, PeticionCaja, Caja!Tipos, Caja!SinAjuste
<1>5. PeticionDeCaja(q)
  BY <1>4 DEF PeticionDeCaja, Cuadrado
<1>6. QED
  BY <1>2, <1>4, <1>5, ComenzarEnCajaInv

(* The balance is set: the request keeps its adjustment.                    *)
LEMMA FijarSaldoInv ==
  ASSUME CajaInv, NEW r \in Requests, Caja!FijarSaldo(r)
  PROVE  CajaInv'
<1>1. PICK p \in PeticionCaja : p = opCaja[r] /\ p.paso = "fijar" /\ PeticionDeCaja(p)
  BY DEF Caja!FijarSaldo, CajaInv, CajaTipos, CajaCuadrada
<1>2. PICK q : q = [p EXCEPT !.paso = "fechar"]
  OBVIOUS
<1>3. /\ opCaja' = [opCaja EXCEPT ![r] = q] /\ movs' = movs /\ ajustes' = ajustes /\ muertes' = muertes
      /\ solape' = solape /\ saldo' = p.importe
  BY <1>1, <1>2 DEF Caja!FijarSaldo, Caja!hist, CajaInv, CajaTipos
<1>4. /\ q \in PeticionCaja /\ q.paso = "fechar" /\ q.tipo = p.tipo /\ q.ajuste = p.ajuste
      /\ q.importe = p.importe /\ q.esperado = p.esperado
  BY <1>2 DEF PeticionCaja
<1>5. PeticionDeCaja(q)
  BY <1>1, <1>4 DEF PeticionDeCaja, Cuadrado
<1>6. saldo' \in Int /\ muertes' \in Nat /\ muertes <= muertes'
  BY <1>3 DEF CajaInv, CajaTipos, PeticionCaja
<1>7. ~ solape' => EnOrden(q) /\ \A s \in Requests : s # r => opCaja[s].paso = "libre"
  BY <1>1, <1>3, <1>4 DEF CajaInv, CajaOrdenada, EnOrden
<1>8. QED
  BY <1>1, <1>3, <1>4, <1>5, <1>6, <1>7, CajaSinMovimientos

(* A request dies: its adjustment entry, if any, is charged to its death.   *)
LEMMA CaidaInv ==
  ASSUME CajaInv, NEW r \in Requests, Caja!Caida(r)
  PROVE  CajaInv'
<1>1. PICK q : q = Caja!SinOp
  OBVIOUS
<1>2. /\ opCaja' = [opCaja EXCEPT ![r] = q] /\ movs' = movs /\ ajustes' = ajustes /\ muertes' = muertes + 1
      /\ solape' = solape /\ saldo' = saldo /\ opCaja[r].paso # "libre"
  BY <1>1 DEF Caja!Caida
<1>3. q \in PeticionCaja /\ q.paso = "libre" /\ q.ajuste = 0
  BY <1>1 DEF Caja!SinOp, PeticionCaja, Caja!Tipos, Caja!SinAjuste
<1>4. PeticionDeCaja(q) /\ EnOrden(q)
  BY <1>3 DEF PeticionDeCaja, Cuadrado, EnOrden
<1>5. saldo' \in Int /\ muertes' \in Nat /\ muertes <= muertes'
  BY <1>2 DEF CajaInv, CajaTipos
<1>6. ~ solape' => ~ solape /\ \A s \in Requests : s # r => opCaja[s].paso = "libre"
  BY <1>2 DEF CajaInv, CajaOrdenada
<1>7. q.paso # "guardar" /\ muertes' = muertes + 1
  BY <1>2, <1>3
<1>8. q \in PeticionCaja /\ q.ajuste = 0 /\ opCaja' = [opCaja EXCEPT ![r] = q] /\ movs' = movs /\ ajustes' = ajustes
  BY <1>2, <1>3
<1>9. QED
  BY <1>4, <1>5, <1>6, <1>7, <1>8, CajaSinMovimientos

(* The adjustment entry, of the amount and the sign of the discrepancy.     *)
LEMMA AjustarInv ==
  ASSUME CajaInv, NEW r \in Requests, Caja!Ajustar(r)
  PROVE  CajaInv'
<1>1. PICK p \in PeticionCaja : /\ p = opCaja[r] /\ p.paso = "ajustar" /\ p.ajuste = 0
                                /\ p.tipo = "FINAL_CLOSURE" /\ p.importe # p.esperado
  BY DEF Caja!Ajustar, CajaInv, CajaTipos, CajaCuadrada, PeticionDeCaja
<1>2. PICK a : a = Caja!AsientoDeAjuste(p)
  OBVIOUS
<1>3. a \in AsientoCaja /\ Caja!Firmado(a) = p.importe - p.esperado
  <2>1. PICK d \in Int : d = p.importe - p.esperado /\ d # 0
    BY <1>1 DEF PeticionCaja
  <2>2. a = [descripcion |-> IF d > 0 THEN "Sobrante" ELSE "Faltante",
             debe |-> IF d < 0 THEN -d ELSE 0, haber |-> IF d > 0 THEN d ELSE 0]
    BY <1>2, <2>1 DEF Caja!AsientoDeAjuste, Caja!Discrepancia, Caja!Abs
  <2>3. QED
    BY <2>1, <2>2 DEF AsientoCaja, Caja!Firmado
<1>4. PICK n \in Nat : n = Len(ajustes) + 1
  BY DEF CajaInv, CajaTipos
<1>5. PICK q : q = [p EXCEPT !.paso = "fijar", !.ajuste = n]
  OBVIOUS
<1>6. /\ q \in PeticionCaja /\ q.paso = "fijar" /\ q.tipo = p.tipo /\ q.ajuste = n
      /\ q.importe = p.importe /\ q.esperado = p.esperado
  BY <1>5 DEF PeticionCaja
<1>7. /\ ajustes' = Append(ajustes, a) /\ opCaja' = [opCaja EXCEPT ![r] = q] /\ movs' = movs
      /\ saldo' = saldo /\ muertes' = muertes /\ solape' = solape
  BY <1>1, <1>2, <1>4, <1>5 DEF Caja!Ajustar, Caja!hist, CajaInv, CajaTipos
<1>8. \A s \in Requests : opCaja'[s] = IF s = r THEN q ELSE opCaja[s]
  BY <1>7 DEF CajaInv, CajaTipos
<1>9. CajaTipos'
  BY <1>3, <1>6, <1>7 DEF CajaInv, CajaTipos
<1>10. /\ DOMAIN ajustes' = DOMAIN ajustes \cup {n} /\ n \notin DOMAIN ajustes /\ n # 0
       /\ ajustes'[n] = a /\ \A k \in DOMAIN ajustes : ajustes'[k] = ajustes[k]
  BY <1>3, <1>4, <1>7 DEF CajaInv, CajaTipos
<1>11. /\ \A d : Cuadrado(d) => Cuadrado(d)'
       /\ \A d : Cuadrado(d) => d.ajuste # n
  <2>1. \A d : Cuadrado(d) => d.ajuste # n
    BY <1>10 DEF Cuadrado
  <2>2. ASSUME NEW d, Cuadrado(d)
        PROVE  Cuadrado(d)'
    <3>1. CASE d.tipo = "FINAL_CLOSURE" /\ d.importe # d.esperado
      <4>1. d.ajuste \in DOMAIN ajustes /\ ajustes'[d.ajuste] = ajustes[d.ajuste] /\ d.ajuste \in DOMAIN ajustes'
        BY <1>10, <2>2, <3>1 DEF Cuadrado
      <4>2. QED
        BY <2>2, <3>1, <4>1 DEF Cuadrado
    <3>2. CASE ~ (d.tipo = "FINAL_CLOSURE" /\ d.importe # d.esperado)
      BY <2>2, <3>2 DEF Cuadrado
    <3>3. QED
      BY <3>1, <3>2
  <2>3. QED
    BY <2>1, <2>2
<1>12. Cuadrado(q)'
  BY <1>1, <1>3, <1>6, <1>10 DEF Cuadrado
<1>13. \A k \in DOMAIN movs : movs[k].ajuste # n
  BY <1>11 DEF CajaInv, CajaCuadrada
<1>14. \A s \in Requests : s # r => opCaja[s].ajuste # n
  <2>1. \A x : PeticionDeCaja(x) /\ x \in PeticionCaja => x.ajuste # n
    BY <1>10, <1>11, <1>13 DEF PeticionDeCaja, PeticionCaja
  <2>2. QED
    BY <2>1 DEF CajaInv, CajaCuadrada, CajaTipos
<1>15. \A x : PeticionDeCaja(x) => PeticionDeCaja(x)'
  BY <1>7, <1>11 DEF PeticionDeCaja
<1>16. PeticionDeCaja(q)'
  BY <1>6, <1>12 DEF PeticionDeCaja
<1>17. CajaCuadrada'
  <2>1. \A k \in DOMAIN movs' : Cuadrado(movs[k])'
    <3>1. ASSUME NEW k \in DOMAIN movs
          PROVE  Cuadrado(movs[k])'
      <4>1. PICK d : d = movs[k] /\ d = movs'[k] /\ Cuadrado(d)
        BY <1>7 DEF CajaInv, CajaCuadrada
      <4>2. Cuadrado(d)'
        BY <1>11, <4>1
      <4>3. QED
        BY <4>1, <4>2
    <3>2. QED
      BY <1>7, <3>1
  <2>2. ASSUME NEW s \in Requests
        PROVE  PeticionDeCaja(opCaja[s])'
    <3>1. PICK x : x = opCaja'[s]
      OBVIOUS
    <3>2. PeticionDeCaja(x)'
      BY <1>8, <1>15, <1>16, <3>1 DEF CajaInv, CajaCuadrada
    <3>3. QED
      BY <3>1, <3>2
  <2>3. QED
    BY <2>1, <2>2 DEF CajaCuadrada
<1>18. CajaPropia'
  <2>1. ASSUME NEW s \in Requests, NEW t \in Requests, s # t
        PROVE  Ajenos(opCaja[s], opCaja[t])'
    <3>1. Ajenos(opCaja[s], opCaja[t])
      BY <2>1 DEF CajaInv, CajaPropia
    <3>2. Ajenos(opCaja'[s], opCaja'[t])
      BY <1>1, <1>6, <1>8, <1>10, <1>14, <2>1, <3>1 DEF Ajenos
    <3>3. QED
      BY <3>2 DEF Ajenos
  <2>2. ASSUME NEW s \in Requests
        PROVE  Guardable(opCaja[s])'
    <3>1. Guardable(opCaja'[s])
      BY <1>6, <1>8, <1>13 DEF CajaInv, CajaPropia, Guardable
    <3>2. QED
      BY <1>7, <3>1 DEF Guardable
  <2>3. QED
    BY <1>7, <2>1, <2>2 DEF CajaInv, CajaPropia
<1>19. Caja!Guardados' = Caja!Guardados
  BY <1>7 DEF Caja!Guardados
<1>20. SinHuerfanos'
  <2>1. /\ IsFiniteSet(Tenedores) /\ Cardinality(Tenedores) \in Nat /\ Cardinality(Huerfanos) \in Nat
        /\ IsFiniteSet(Huerfanos) /\ Caja!Guardados \subseteq DOMAIN movs
        /\ Cardinality(Huerfanos) <= muertes + Cardinality(Tenedores) /\ muertes \in Nat /\ muertes' = muertes
    BY <1>7, CajaFinita DEF CajaInv, SinHuerfanos, CajaTipos
  <2>2. Tenedores' = Tenedores \cup {r} /\ r \notin Tenedores
    BY <1>1, <1>6, <1>8, <1>10 DEF Tenedores
  <2>3. Huerfanos' = Huerfanos \cup {n} /\ n \notin Huerfanos
    BY <1>7, <1>10, <1>13, <1>19, <2>1 DEF Huerfanos
  <2>4. /\ Cardinality(Tenedores') = Cardinality(Tenedores) + 1
        /\ Cardinality(Huerfanos') = Cardinality(Huerfanos) + 1
    BY <2>1, <2>2, <2>3, FS_AddElement
  <2>5. QED
    BY <2>1, <2>4 DEF SinHuerfanos
<1>21. CajaOrdenada'
  <2>1. Alternadas' = Alternadas /\ Cerrada' = Cerrada
    BY <1>7, <1>19 DEF Alternadas, Cerrada
  <2>2. ASSUME ~ solape
        PROVE  /\ \A s \in Requests : EnOrden(opCaja[s])'
               /\ \A s, t \in Requests : opCaja'[s].paso # "libre" /\ opCaja'[t].paso # "libre" => s = t
    <3>1. \A s \in Requests : EnOrden(opCaja'[s])
      BY <1>1, <1>6, <1>8, <2>2 DEF CajaInv, CajaOrdenada, EnOrden
    <3>2. \A s \in Requests : EnOrden(opCaja[s])'
      BY <1>7, <2>1, <3>1 DEF EnOrden
    <3>3. QED
      BY <1>1, <1>8, <2>2, <3>2 DEF CajaInv, CajaOrdenada
  <2>3. QED
    BY <1>7, <1>19, <2>1, <2>2 DEF CajaInv, CajaOrdenada
<1>22. QED
  BY <1>9, <1>17, <1>18, <1>20, <1>21 DEF CajaInv

(* The movement is built, with the adjustment of its request, unsaved.      *)
LEMMA FecharInv ==
  ASSUME CajaInv, NEW r \in Requests, Caja!Fechar(r)
  PROVE  CajaInv'
<1>1. PICK p \in PeticionCaja : p = opCaja[r] /\ p.paso = "fechar" /\ Cuadrado(p) /\ Guardable(p)
  BY DEF Caja!Fechar, CajaInv, CajaTipos, CajaCuadrada, CajaPropia, PeticionDeCaja
<1>2. PICK n \in Nat : n = Len(movs) + 1
  BY DEF CajaInv, CajaTipos
<1>3. PICK d, q : /\ d = [tipo |-> p.tipo, importe |-> p.importe, esperado |-> p.esperado,
                          ajuste |-> p.ajuste, guardado |-> FALSE]
                  /\ q = [p EXCEPT !.paso = "guardar", !.mov = n]
  OBVIOUS
<1>4. /\ q \in PeticionCaja /\ q.paso = "guardar" /\ q.tipo = p.tipo /\ q.ajuste = p.ajuste /\ q.mov = n
      /\ d \in MovimientoCaja /\ d.ajuste = p.ajuste /\ d.tipo = p.tipo /\ ~ d.guardado
      /\ d.importe = p.importe /\ d.esperado = p.esperado
  BY <1>2, <1>3 DEF PeticionCaja, MovimientoCaja
<1>5. /\ movs' = Append(movs, d) /\ opCaja' = [opCaja EXCEPT ![r] = q]
      /\ saldo' = saldo /\ ajustes' = ajustes /\ muertes' = muertes /\ solape' = solape
  BY <1>1, <1>2, <1>3 DEF Caja!Fechar, Caja!hist, CajaInv, CajaTipos
<1>6. \A s \in Requests : opCaja'[s] = IF s = r THEN q ELSE opCaja[s]
  BY <1>5 DEF CajaInv, CajaTipos
<1>7. CajaTipos'
  BY <1>4, <1>5 DEF CajaInv, CajaTipos
<1>8. /\ DOMAIN movs' = DOMAIN movs \cup {n} /\ n \notin DOMAIN movs /\ Len(movs') = n
      /\ movs'[n] = d /\ \A k \in DOMAIN movs : movs'[k] = movs[k]
  BY <1>2, <1>4, <1>5 DEF CajaInv, CajaTipos
<1>9. Caja!Guardados' = Caja!Guardados /\ Caja!Guardados \subseteq DOMAIN movs
  BY <1>4, <1>8 DEF Caja!Guardados
<1>10. \A x : Cuadrado(x) <=> Cuadrado(x)'
  BY <1>5 DEF Cuadrado
<1>11. Cuadrado(d)
  BY <1>1, <1>4 DEF Cuadrado
<1>12. \A x : PeticionDeCaja(x) => PeticionDeCaja(x)'
  BY <1>8, <1>10 DEF PeticionDeCaja
<1>13. PeticionDeCaja(q)'
  BY <1>4, <1>8 DEF PeticionDeCaja
<1>14. CajaCuadrada'
  <2>1. ASSUME NEW k \in DOMAIN movs'
        PROVE  Cuadrado(movs[k])'
    <3>1. PICK x : x = movs'[k]
      OBVIOUS
    <3>2. Cuadrado(x)
      BY <1>8, <1>11, <2>1, <3>1 DEF CajaInv, CajaCuadrada
    <3>3. Cuadrado(x)'
      BY <1>10, <3>2
    <3>4. QED
      BY <3>1, <3>3
  <2>2. ASSUME NEW s \in Requests
        PROVE  PeticionDeCaja(opCaja[s])'
    <3>1. PICK x : x = opCaja'[s]
      OBVIOUS
    <3>2. PeticionDeCaja(x)'
      BY <1>6, <1>12, <1>13, <3>1 DEF CajaInv, CajaCuadrada
    <3>3. QED
      BY <3>1, <3>2
  <2>3. QED
    BY <2>1, <2>2 DEF CajaCuadrada
<1>15. CajaPropia'
  <2>1. \A k \in DOMAIN movs : movs[k].ajuste = d.ajuste => d.ajuste = 0
    BY <1>1, <1>4 DEF Guardable
  <2>2. \A j, k \in DOMAIN movs' : j # k /\ movs'[j].ajuste = movs'[k].ajuste => movs'[j].ajuste = 0
    BY <1>8, <2>1 DEF CajaInv, CajaPropia
  <2>3. ASSUME NEW s \in Requests, NEW t \in Requests, s # t
        PROVE  Ajenos(opCaja[s], opCaja[t])'
    <3>1. Ajenos(opCaja[s], opCaja[t])
      BY <2>3 DEF CajaInv, CajaPropia
    <3>2. \A u \in Requests : opCaja[u].paso = "guardar" => opCaja[u].mov # n
      BY <1>8 DEF CajaInv, CajaCuadrada, PeticionDeCaja
    <3>3. Ajenos(opCaja'[s], opCaja'[t])
      BY <1>1, <1>4, <1>6, <2>3, <3>1, <3>2 DEF Ajenos
    <3>4. QED
      BY <3>3 DEF Ajenos
  <2>4. ASSUME NEW s \in Requests
        PROVE  Guardable(opCaja[s])'
    <3>1. CASE s = r
      <4>1. opCaja'[s].paso = "guardar"
        BY <1>4, <1>6, <3>1
      <4>2. QED
        BY <4>1 DEF Guardable
    <3>2. CASE s # r
      <4>1. Guardable(opCaja[s]) /\ (opCaja[s].ajuste # 0 => opCaja[s].ajuste # p.ajuste) /\ opCaja'[s] = opCaja[s]
        BY <1>1, <1>6, <3>2 DEF CajaInv, CajaPropia, Ajenos
      <4>2. QED
        BY <1>4, <1>8, <4>1 DEF Guardable
    <3>3. QED
      BY <3>1, <3>2
  <2>5. QED
    BY <2>2, <2>3, <2>4 DEF CajaPropia
<1>16. SinHuerfanos'
  <2>1. Huerfanos' = Huerfanos
    BY <1>5, <1>8, <1>9 DEF Huerfanos
  <2>2. Tenedores' = Tenedores
    BY <1>1, <1>4, <1>6 DEF Tenedores
  <2>3. QED
    BY <1>5, <2>1, <2>2 DEF CajaInv, SinHuerfanos
<1>17. CajaOrdenada'
  <2>1. Alternadas => Alternadas'
    BY <1>8, <1>9 DEF Alternadas
  <2>2. Cerrada => Cerrada'
    BY <1>8, <1>9 DEF Cerrada
  <2>3. ASSUME ~ solape
        PROVE  /\ \A s \in Requests : EnOrden(opCaja[s])'
               /\ \A s, t \in Requests : opCaja'[s].paso # "libre" /\ opCaja'[t].paso # "libre" => s = t
    <3>1. \A s \in Requests : s # r => opCaja[s].paso = "libre"
      BY <1>1, <2>3 DEF CajaInv, CajaOrdenada
    <3>2. EnOrden(p)
      BY <1>1, <2>3 DEF CajaInv, CajaOrdenada
    <3>3. EnOrden(q)'
      BY <1>1, <1>4, <1>8, <2>2, <3>2 DEF EnOrden
    <3>4. ASSUME NEW s \in Requests
          PROVE  EnOrden(opCaja[s])'
      <4>1. PICK x : x = opCaja'[s]
        OBVIOUS
      <4>2. x.paso = "libre" \/ x = q
        BY <1>6, <3>1, <4>1
      <4>3. EnOrden(x)'
        BY <3>3, <4>2 DEF EnOrden
      <4>4. QED
        BY <4>1, <4>3
    <3>5. QED
      BY <1>6, <3>1, <3>4
  <2>4. QED
    BY <1>5, <1>9, <2>1, <2>3 DEF CajaInv, CajaOrdenada
<1>18. QED
  BY <1>7, <1>14, <1>15, <1>16, <1>17 DEF CajaInv

(* The movement is saved, and refers to its adjustment from then on.        *)
LEMMA GuardarMovimientoInv ==
  ASSUME CajaInv, NEW r \in Requests, Caja!GuardarMovimiento(r)
  PROVE  CajaInv'
<1>1. PICK p \in PeticionCaja : p = opCaja[r] /\ p.paso = "guardar" /\ PeticionDeCaja(p)
  BY DEF Caja!GuardarMovimiento, CajaInv, CajaTipos, CajaCuadrada
<1>2. PICK k \in DOMAIN movs : /\ k = p.mov /\ ~ movs[k].guardado /\ movs[k].ajuste = p.ajuste
                               /\ movs[k].tipo = p.tipo /\ Cuadrado(movs[k])
  BY <1>1 DEF PeticionDeCaja, CajaInv, CajaCuadrada
<1>3. PICK q : q = Caja!SinOp
  OBVIOUS
<1>4. q \in PeticionCaja /\ q.paso = "libre" /\ q.ajuste = 0
  BY <1>3 DEF Caja!SinOp, PeticionCaja, Caja!Tipos, Caja!SinAjuste
<1>5. /\ movs' = [movs EXCEPT ![k].guardado = TRUE] /\ opCaja' = [opCaja EXCEPT ![r] = q]
      /\ saldo' = saldo /\ ajustes' = ajustes /\ muertes' = muertes /\ solape' = solape
  BY <1>1, <1>2, <1>3 DEF Caja!GuardarMovimiento, Caja!hist
<1>6. PICK d : d = [movs[k] EXCEPT !.guardado = TRUE]
  OBVIOUS
<1>7. /\ d \in MovimientoCaja /\ d.guardado /\ d.tipo = p.tipo /\ d.ajuste = p.ajuste
      /\ d.tipo = movs[k].tipo /\ d.ajuste = movs[k].ajuste
      /\ d.importe = movs[k].importe /\ d.esperado = movs[k].esperado
  <2>1. PICK m \in MovimientoCaja : m = movs[k]
    BY DEF CajaInv, CajaTipos
  <2>2. d = [m EXCEPT !.guardado = TRUE]
    BY <1>6, <2>1
  <2>3. d = [tipo |-> m.tipo, importe |-> m.importe, esperado |-> m.esperado, ajuste |-> m.ajuste,
             guardado |-> TRUE]
    BY <2>2 DEF MovimientoCaja
  <2>4. QED
    BY <1>2, <2>1, <2>3 DEF MovimientoCaja
<1>8. /\ movs' \in Seq(MovimientoCaja) /\ DOMAIN movs' = DOMAIN movs /\ Len(movs') = Len(movs)
      /\ movs'[k] = d /\ \A i \in DOMAIN movs : i # k => movs'[i] = movs[i]
  BY <1>5, <1>6, <1>7 DEF CajaInv, CajaTipos
<1>9. \A i \in DOMAIN movs : /\ movs'[i].tipo = movs[i].tipo /\ movs'[i].ajuste = movs[i].ajuste
                             /\ movs'[i].importe = movs[i].importe /\ movs'[i].esperado = movs[i].esperado
  BY <1>7, <1>8
<1>10. Caja!Guardados' = Caja!Guardados \cup {k} /\ k \notin Caja!Guardados /\ Caja!Guardados \subseteq DOMAIN movs
  BY <1>2, <1>7, <1>8 DEF Caja!Guardados
<1>11. \A s \in Requests : opCaja'[s] = IF s = r THEN q ELSE opCaja[s]
  BY <1>5 DEF CajaInv, CajaTipos
<1>12. CajaTipos'
  BY <1>4, <1>5, <1>8 DEF CajaInv, CajaTipos
<1>13. CajaCuadrada'
  <2>1. \A i \in DOMAIN movs' : Cuadrado(movs[i])'
    BY <1>5, <1>8, <1>9 DEF Cuadrado, CajaInv, CajaCuadrada
  <2>2. ASSUME NEW s \in Requests
        PROVE  PeticionDeCaja(opCaja[s])'
    <3>1. CASE s = r
      <4>1. opCaja'[s].paso = "libre" /\ opCaja'[s].ajuste = 0
        BY <1>4, <1>11, <3>1
      <4>2. QED
        BY <4>1 DEF PeticionDeCaja
    <3>2. CASE s # r
      <4>1. PICK x : x = opCaja'[s] /\ x = opCaja[s] /\ PeticionDeCaja(x) /\ (x.paso = "guardar" => x.mov # k)
        BY <1>1, <1>2, <1>11, <3>2 DEF CajaInv, CajaCuadrada, CajaPropia, Ajenos
      <4>2. Cuadrado(x)' <=> Cuadrado(x)
        BY <1>5 DEF Cuadrado
      <4>3. PeticionDeCaja(x)'
        BY <1>8, <4>1, <4>2 DEF PeticionDeCaja
      <4>4. QED
        BY <4>1, <4>3
    <3>3. QED
      BY <3>1, <3>2
  <2>3. QED
    BY <2>1, <2>2 DEF CajaCuadrada
<1>14. CajaPropia'
  <2>1. \A i, j \in DOMAIN movs' : i # j /\ movs'[i].ajuste = movs'[j].ajuste => movs'[i].ajuste = 0
    BY <1>8, <1>9 DEF CajaInv, CajaPropia
  <2>2. ASSUME NEW s \in Requests, NEW t \in Requests, s # t
        PROVE  Ajenos(opCaja[s], opCaja[t])'
    <3>1. Ajenos(opCaja[s], opCaja[t])
      BY <2>2 DEF CajaInv, CajaPropia
    <3>2. Ajenos(opCaja'[s], opCaja'[t])
      BY <1>4, <1>11, <3>1 DEF Ajenos
    <3>3. QED
      BY <3>2 DEF Ajenos
  <2>3. ASSUME NEW s \in Requests
        PROVE  Guardable(opCaja[s])'
    <3>1. Guardable(opCaja'[s])
      BY <1>4, <1>11 DEF CajaInv, CajaPropia, Guardable
    <3>2. QED
      BY <1>8, <1>9, <3>1 DEF Guardable
  <2>4. QED
    BY <2>1, <2>2, <2>3 DEF CajaPropia
<1>15. SinHuerfanos'
  <2>1. /\ IsFiniteSet(Tenedores) /\ Cardinality(Tenedores) \in Nat /\ Cardinality(Huerfanos) \in Nat
        /\ IsFiniteSet(Huerfanos)
        /\ Cardinality(Huerfanos) <= muertes + Cardinality(Tenedores) /\ muertes \in Nat /\ muertes' = muertes
    BY <1>5, CajaFinita DEF CajaInv, SinHuerfanos, CajaTipos
  <2>2. Huerfanos' = Huerfanos \ {p.ajuste}
    <3>1. {movs'[i].ajuste : i \in Caja!Guardados'} = {movs[i].ajuste : i \in Caja!Guardados} \cup {p.ajuste}
      BY <1>2, <1>9, <1>10
    <3>2. QED
      BY <1>5, <3>1 DEF Huerfanos
  <2>3. CASE p.ajuste = 0
    <3>1. Tenedores' = Tenedores
      BY <1>1, <1>4, <1>11, <2>3 DEF Tenedores
    <3>2. 0 \notin Huerfanos
      BY DEF Huerfanos, CajaInv, CajaTipos
    <3>3. Huerfanos' = Huerfanos
      BY <2>2, <2>3, <3>2
    <3>4. QED
      BY <2>1, <3>1, <3>3 DEF SinHuerfanos
  <2>4. CASE p.ajuste # 0
    <3>1. Tenedores' = Tenedores \ {r} /\ r \in Tenedores
      BY <1>1, <1>4, <1>11, <2>4 DEF Tenedores
    <3>2. p.ajuste \in Huerfanos
      <4>1. p.ajuste \in DOMAIN ajustes
        BY <1>2, <2>4 DEF Cuadrado
      <4>2. \A i \in Caja!Guardados : movs[i].ajuste # p.ajuste
        BY <1>2, <1>10, <2>4 DEF CajaInv, CajaPropia
      <4>3. QED
        BY <4>1, <4>2 DEF Huerfanos
    <3>3. /\ Cardinality(Tenedores') = Cardinality(Tenedores) - 1
          /\ Cardinality(Huerfanos') = Cardinality(Huerfanos) - 1
      BY <2>1, <2>2, <3>1, <3>2, FS_RemoveElement
    <3>4. QED
      BY <2>1, <3>3 DEF SinHuerfanos
  <2>5. QED
    BY <2>3, <2>4
<1>16. CajaOrdenada'
  <2>1. DOMAIN movs = 1 .. Len(movs) /\ Len(movs) \in Nat
    BY DEF CajaInv, CajaTipos
  <2>2. \E m \in Caja!Guardados' : \A j \in Caja!Guardados' : j <= m
    <3>1. CASE Caja!Guardados = {}
      BY <1>10, <2>1, <3>1
    <3>2. CASE Caja!Guardados # {}
      <4>1. PICK m \in Caja!Guardados : \A j \in Caja!Guardados : j <= m
        BY <3>2 DEF CajaInv, CajaOrdenada
      <4>2. m \in Nat /\ k \in Nat /\ \A j \in Caja!Guardados : j \in Nat
        BY <1>10, <2>1
      <4>3. CASE k <= m
        BY <1>10, <4>1, <4>3
      <4>4. CASE m < k
        <5>1. \A j \in Caja!Guardados : j <= k
          BY <4>1, <4>2, <4>4
        <5>2. k <= k
          BY <4>2
        <5>3. QED
          BY <1>10, <5>1, <5>2
      <4>5. QED
        BY <4>2, <4>3, <4>4
    <3>3. QED
      BY <3>1, <3>2
  <2>3. ASSUME ~ solape
        PROVE  /\ Alternadas' /\ \A s \in Requests : EnOrden(opCaja[s])'
               /\ \A s, t \in Requests : opCaja'[s].paso # "libre" /\ opCaja'[t].paso # "libre" => s = t
    <3>1. \A s \in Requests : opCaja'[s].paso = "libre"
      BY <1>1, <1>4, <1>11, <2>3 DEF CajaInv, CajaOrdenada
    <3>2. k = Len(movs) /\ (p.tipo = "OPENING" => Cerrada) /\ Alternadas
      BY <1>1, <1>2, <2>3 DEF CajaInv, CajaOrdenada, EnOrden
    <3>3. ASSUME NEW i \in Caja!Guardados', NEW j \in Caja!Guardados', i < j,
                 movs'[i].tipo = "OPENING", movs'[j].tipo = "OPENING"
          PROVE  \E h \in Caja!Guardados' : i < h /\ h < j /\ movs'[h].tipo = "FINAL_CLOSURE"
      <4>1. i \in Caja!Guardados /\ movs[i].tipo = "OPENING" /\ i \in Nat /\ j \in Nat
        BY <1>9, <1>10, <2>1, <3>2, <3>3
      <4>2. CASE j = k
        <5>1. PICK h \in Caja!Guardados : i < h /\ movs[h].tipo = "FINAL_CLOSURE"
          BY <1>2, <1>9, <3>2, <3>3, <4>1, <4>2 DEF Cerrada
        <5>2. h < k
          BY <1>10, <2>1, <3>2, <5>1
        <5>3. QED
          BY <1>9, <1>10, <4>2, <5>1, <5>2
      <4>3. CASE j # k
        <5>1. j \in Caja!Guardados /\ movs[j].tipo = "OPENING"
          BY <1>9, <1>10, <3>3, <4>3
        <5>2. PICK h \in Caja!Guardados : i < h /\ h < j /\ movs[h].tipo = "FINAL_CLOSURE"
          BY <3>2, <3>3, <4>1, <5>1 DEF Alternadas
        <5>3. QED
          BY <1>9, <1>10, <5>2
      <4>4. QED
        BY <4>2, <4>3
    <3>4. Alternadas'
      BY <3>3 DEF Alternadas
    <3>5. \A s \in Requests : EnOrden(opCaja[s])'
      BY <3>1 DEF EnOrden
    <3>6. QED
      BY <3>1, <3>4, <3>5
  <2>4. QED
    BY <1>5, <2>2, <2>3 DEF CajaOrdenada
<1>17. QED
  BY <1>12, <1>13, <1>14, <1>15, <1>16 DEF CajaInv

LEMMA PasoCaja == CajaInv /\ Caja!XNext => CajaInv'
<1> SUFFICES ASSUME CajaInv, Caja!XNext PROVE CajaInv'
  OBVIOUS
<1>1. ASSUME NEW m \in Int, Caja!Mover(m)
      PROVE  CajaInv'
  <2>1. /\ opCaja' = opCaja /\ movs' = movs /\ ajustes' = ajustes /\ saldo' = saldo + m
        /\ muertes' = muertes /\ solape' = solape
    BY <1>1 DEF Caja!Mover
  <2>2. saldo' \in Int
    BY <2>1 DEF CajaInv, CajaTipos
  <2>3. QED
    BY <2>1, <2>2, CajaSinPeticion
<1>2. ASSUME Caja!UpdateBalance
      PROVE  CajaInv'
  <2>1. PICK m \in Importes : Caja!Mover(m) \/ Caja!Mover(-m)
    BY <1>2 DEF Caja!UpdateBalance
  <2>2. m \in Int /\ -m \in Int
    BY CajaAssumption
  <2>3. QED
    BY <1>1, <2>1, <2>2
<1>3. ASSUME UNCHANGED Caja!xvars
      PROVE  CajaInv'
  BY <1>3, CajaSinPeticion DEF Caja!xvars, CajaInv, CajaTipos
<1>4. QED
  BY <1>2, <1>3, CreateOpeningInv, CreatePartialClosureInv, CreateFinalClosureInv, AjustarInv,
     FijarSaldoInv, FecharInv, GuardarMovimientoInv, CaidaInv DEF Caja!XNext

LEMMA CajaEnRegla == CajaInv => Caja!MovimientosDeCaja
<1> SUFFICES ASSUME CajaInv PROVE Caja!MovimientosDeCaja
  OBVIOUS
<1>1. Caja!Guardados \subseteq DOMAIN movs /\ 0 \notin DOMAIN ajustes
  BY CajaFinita DEF CajaInv, CajaTipos
<1>2. \A k \in Caja!Guardados : movs[k].tipo = "FINAL_CLOSURE" =>
        IF movs[k].importe = movs[k].esperado THEN movs[k].ajuste = Caja!SinAjuste
        ELSE /\ movs[k].ajuste # Caja!SinAjuste
             /\ Caja!Firmado(ajustes[movs[k].ajuste]) = movs[k].importe - movs[k].esperado
  BY <1>1 DEF CajaInv, CajaCuadrada, Cuadrado, Caja!SinAjuste
<1>3. \A j, k \in Caja!Guardados : movs[j].ajuste = movs[k].ajuste /\ j # k => movs[j].ajuste = Caja!SinAjuste
  BY <1>1 DEF CajaInv, CajaPropia, Caja!SinAjuste
<1>4. Caja!Cardinality(DOMAIN ajustes \ {movs[k].ajuste : k \in Caja!Guardados})
        <= muertes + Caja!Cardinality({r \in Requests : opCaja[r].ajuste # Caja!SinAjuste})
  BY CardinalCaja DEF CajaInv, SinHuerfanos, Huerfanos, Tenedores, Caja!SinAjuste
<1>5. Caja!AperturaUnica
  BY DEF CajaInv, CajaOrdenada, Alternadas, Caja!AperturaUnica
<1>6. QED
  BY <1>2, <1>3, <1>4, <1>5 DEF Caja!MovimientosDeCaja, Caja!CierreAjustado

(* CashBox: a final closure that found a discrepancy has an adjustment      *)
(* entry of its own of that amount; an entry without a movement belongs to  *)
(* a request in progress or to a death; and two openings have a final       *)
(* closure between them (cash-box.service.ts, createFinalClosure and        *)
(* createOpening).                                                          *)
THEOREM MovimientosSiempreEnRegla == Spec => []MovimientosDeCaja
<1> DEFINE I == foco = "caja" => CajaInv
<1>1. Init => I
  BY InitCajaInv
<1>2. I /\ [Next]_registrosVars => I'
  <2> SUFFICES ASSUME I, [Next]_registrosVars, foco' = "caja" PROVE CajaInv'
    OBVIOUS
  <2>1. CASE Next
    <3>1. foco = "caja"
      BY <2>1 DEF Next, LosDemas
    <3>2. QED
      BY <2>1, <3>1, PasoCaja DEF Next
  <2>2. CASE UNCHANGED registrosVars
    <3>1. /\ foco = "caja" /\ opCaja' = opCaja /\ movs' = movs /\ ajustes' = ajustes /\ saldo' = saldo
          /\ muertes' = muertes /\ solape' = solape
      BY <2>2 DEF registrosVars, peticionesVars, cajaVars
    <3>2. saldo' \in Int
      BY <3>1 DEF CajaInv, CajaTipos
    <3>3. QED
      BY <3>1, <3>2, CajaSinPeticion
  <2>3. QED
    BY <2>1, <2>2
<1>3. I => MovimientosDeCaja
  BY CajaEnRegla DEF MovimientosDeCaja
<1>4. QED
  BY <1>1, <1>2, <1>3, PTL DEF Spec

----------------------------------------------------------------------------
(* CashBox, the balance.  A closure that has written its adjustment and not *)
(* yet its balance owes the balance the discrepancy it found.               *)

PorFijar(q) == IF q.paso = "fijar" /\ q.ajuste # 0 THEN q.importe - q.esperado ELSE 0
Firmados == [k \in DOMAIN ajustes |-> Caja!Firmado(ajustes[k])]
Pendientes == [r \in Requests |-> PorFijar(opCaja[r])]
Ajustado == SumFunctionOnSet(Firmados, (base + 1) .. Len(ajustes))
Pendiente == SumFunctionOnSet(Pendientes, Requests)

CuentaTipos ==
  /\ apertura \in Int /\ flujos \in Int /\ base \in Nat /\ base <= Len(ajustes)
  /\ \A r \in Requests : opCaja[r].paso = "fijar" => opCaja[r].tipo # "PARTIAL_CLOSURE"
Explicado == ~ pisado => saldo + Pendiente = apertura + flujos + Ajustado
CuentaDeCaja == CuentaTipos /\ Explicado

LEMMA SumaDeCaja == \A f, S : Caja!SumFunctionOnSet(f, S) = SumFunctionOnSet(f, S)
BY DEF Caja!SumFunctionOnSet, Caja!FoldFunctionOnSet, Caja!MapThenFoldSet,
       SumFunctionOnSet, FoldFunctionOnSet, MapThenFoldSet

LEMMA PendientesEnteros ==
  ASSUME CajaTipos
  PROVE  /\ Enteros(Pendientes, Requests) /\ Pendiente \in Int
         /\ \A q \in PeticionCaja : PorFijar(q) \in Int
         /\ \A r \in Requests : Pendientes[r] = PorFijar(opCaja[r])
<1>1. \A q \in PeticionCaja : PorFijar(q) \in Int
  BY DEF PorFijar, PeticionCaja
<1>2. \A r \in Requests : opCaja[r] \in PeticionCaja /\ Pendientes[r] = PorFijar(opCaja[r])
  BY DEF CajaTipos, Pendientes
<1>3. Enteros(Pendientes, Requests)
  BY <1>1, <1>2 DEF Enteros
<1>4. Pendiente \in Int
  BY <1>3, PeticionesAssumption, SumaEntera DEF Pendiente
<1>5. QED
  BY <1>1, <1>2, <1>3, <1>4

LEMMA FirmadosEnteros ==
  ASSUME CajaTipos, NEW n \in Nat
  PROVE  /\ IsFiniteSet((n + 1) .. Len(ajustes)) /\ Enteros(Firmados, (n + 1) .. Len(ajustes))
         /\ SumFunctionOnSet(Firmados, (n + 1) .. Len(ajustes)) \in Int
<1>1. Len(ajustes) \in Nat /\ DOMAIN ajustes = 1 .. Len(ajustes)
      /\ \A k \in DOMAIN ajustes : ajustes[k] \in AsientoCaja
  BY DEF CajaTipos
<1>2. \A a \in AsientoCaja : Caja!Firmado(a) \in Int
  BY DEF AsientoCaja, Caja!Firmado
<1>3. PICK S : S = (n + 1) .. Len(ajustes)
  OBVIOUS
<1>4. IsFiniteSet(S) /\ S \subseteq DOMAIN ajustes
  <2>1. n + 1 \in Int /\ Len(ajustes) \in Int
    BY <1>1
  <2>2. IsFiniteSet(S)
    BY <1>3, <2>1, FS_Interval
  <2>3. QED
    BY <1>1, <1>3, <2>2
<1>5. Enteros(Firmados, S)
  BY <1>1, <1>2, <1>4 DEF Enteros, Firmados
<1>6. SumFunctionOnSet(Firmados, S) \in Int
  BY <1>4, <1>5, SumaEntera
<1>7. QED
  BY <1>3, <1>4, <1>5, <1>6

(* One request changes what it owes.                                        *)
LEMMA CambiaLoPendiente ==
  ASSUME CajaTipos, NEW r \in Requests, NEW q \in PeticionCaja, opCaja' = [opCaja EXCEPT ![r] = q]
  PROVE  /\ Pendiente' = Pendiente + (PorFijar(q) - PorFijar(opCaja[r]))
         /\ Pendiente \in Int /\ PorFijar(q) \in Int /\ PorFijar(opCaja[r]) \in Int
<1>1. PICK f, g : f = Pendientes /\ g = [s \in Requests |-> PorFijar(opCaja'[s])]
  OBVIOUS
<1>2. /\ opCaja'[r] = q /\ \A s \in Requests : s # r => opCaja'[s] = opCaja[s]
      /\ opCaja[r] \in PeticionCaja
  BY DEF CajaTipos
<1>3. /\ Enteros(f, Requests) /\ \A s \in Requests : f[s] = PorFijar(opCaja[s])
      /\ \A t \in PeticionCaja : PorFijar(t) \in Int
  BY <1>1, PendientesEnteros
<1>4. g[r] = PorFijar(q) /\ g[r] \in Int /\ f[r] = PorFijar(opCaja[r])
  BY <1>1, <1>2, <1>3
<1>5. \A s \in Requests \ {r} : g[s] = f[s]
  BY <1>1, <1>2, <1>3
<1>6. SumFunctionOnSet(g, Requests) = SumFunctionOnSet(f, Requests) + (g[r] - f[r])
      /\ SumFunctionOnSet(f, Requests) \in Int
  BY <1>3, <1>4, <1>5, PeticionesAssumption, SumaCambia
<1>7. Pendiente = SumFunctionOnSet(f, Requests) /\ Pendiente' = SumFunctionOnSet(g, Requests)
  BY <1>1 DEF Pendiente, Pendientes
<1>8. QED
  BY <1>2, <1>3, <1>4, <1>6, <1>7

LEMMA InitCuenta == Init => CuentaDeCaja
<1> SUFFICES ASSUME Init PROVE CuentaDeCaja
  OBVIOUS
<1>1. /\ saldo = 0 /\ ajustes = <<>> /\ apertura = 0 /\ flujos = 0 /\ base = 0
      /\ \A r \in Requests : opCaja[r] = Caja!SinOp
  BY DEF Init, Caja!XInit
<1>2. PICK f : f = Pendientes
  OBVIOUS
<1>3. \A r \in Requests : f[r] = 0
  BY <1>1, <1>2 DEF Pendientes, PorFijar, Caja!SinOp
<1>4. SumFunctionOnSet(f, Requests) = 0 * Cardinality(Requests) /\ Cardinality(Requests) \in Nat
  BY <1>3, PeticionesAssumption, SumaConstante, FS_CardinalityType
<1>5. Pendiente = 0
  BY <1>2, <1>4 DEF Pendiente
<1>6. (base + 1) .. Len(ajustes) = {} /\ Len(ajustes) = 0
  BY <1>1
<1>7. Ajustado = 0
  BY <1>6, SumaVacia DEF Ajustado
<1>8. \A r \in Requests : opCaja[r].paso # "fijar"
  BY <1>1 DEF Caja!SinOp
<1>9. QED
  BY <1>1, <1>5, <1>6, <1>7, <1>8 DEF CuentaDeCaja, CuentaTipos, Explicado

(* A step that writes nothing the balance depends on, for a request that    *)
(* owes the balance nothing before or after it.                             *)
LEMMA CuentaSinSaldo ==
  ASSUME CajaTipos, CuentaDeCaja, NEW r \in Requests, NEW q \in PeticionCaja,
         opCaja' = [opCaja EXCEPT ![r] = q],
         UNCHANGED <<saldo, ajustes, apertura, flujos, base>>,
         q.paso = "fijar" => q.tipo # "PARTIAL_CLOSURE",
         ~ pisado' => ~ pisado /\ PorFijar(q) = PorFijar(opCaja[r])
  PROVE  CuentaDeCaja'
<1>1. CuentaTipos'
  BY DEF CuentaDeCaja, CuentaTipos, CajaTipos
<1>2. Ajustado' = Ajustado
  BY DEF Ajustado, Firmados
<1>3. ~ pisado' => Pendiente' = Pendiente
  <2>1. /\ Pendiente' = Pendiente + (PorFijar(q) - PorFijar(opCaja[r]))
        /\ Pendiente \in Int /\ PorFijar(q) \in Int
    BY CambiaLoPendiente
  <2>2. ASSUME ~ pisado' PROVE PorFijar(q) - PorFijar(opCaja[r]) = 0
    <3>1. PorFijar(q) = PorFijar(opCaja[r])
      BY <2>2
    <3>2. QED
      BY <2>1, <3>1
  <2>3. QED
    BY <2>1, <2>2
<1>4. Explicado'
  BY <1>2, <1>3 DEF CuentaDeCaja, Explicado
<1>5. QED
  BY <1>1, <1>4 DEF CuentaDeCaja

LEMMA ComenzarCuenta ==
  ASSUME CajaInv, CuentaDeCaja, NEW r \in Requests, NEW m \in Importes,
         Caja!CreateOpening(r, m) \/ Caja!CreatePartialClosure(r, m) \/ Caja!CreateFinalClosure(r, m)
  PROVE  CuentaDeCaja'
<1>1. PICK t \in Caja!Tipos, p \in {"fijar", "fechar", "ajustar"}, e \in Int :
        Caja!Comenzar(r, t, p, m, e) /\ (p = "fijar" => t # "PARTIAL_CLOSURE")
  BY DEF Caja!CreateOpening, Caja!CreatePartialClosure, Caja!CreateFinalClosure, CajaInv, CajaTipos, Caja!Tipos
<1>2. PICK q : q = [Caja!SinOp EXCEPT !.tipo = t, !.paso = p, !.importe = m, !.esperado = e]
  OBVIOUS
<1>3. m \in Int
  BY CajaAssumption
<1>4. q \in PeticionCaja /\ q.ajuste = 0 /\ q.paso = p /\ q.tipo = t
  BY <1>2, <1>3 DEF Caja!SinOp, PeticionCaja, Caja!Tipos, Caja!SinAjuste
<1>5. opCaja' = [opCaja EXCEPT ![r] = q] /\ opCaja[r].paso = "libre"
  BY <1>1, <1>2 DEF Caja!Comenzar, Caja!Libre
<1>6. UNCHANGED <<saldo, ajustes, apertura, flujos, base, pisado>>
  BY DEF Caja!CreateOpening, Caja!CreatePartialClosure, Caja!CreateFinalClosure, Caja!hist
<1>7. PorFijar(q) = 0 /\ PorFijar(opCaja[r]) = 0
  BY <1>4, <1>5 DEF PorFijar
<1>8. QED
  BY <1>1, <1>4, <1>5, <1>6, <1>7, CuentaSinSaldo DEF CajaInv

(* The adjustment is written, and owed to the balance.                      *)
LEMMA AjustarCuenta ==
  ASSUME CajaInv, CuentaDeCaja, NEW r \in Requests, Caja!Ajustar(r)
  PROVE  CuentaDeCaja'
<1>1. PICK p \in PeticionCaja : p = opCaja[r] /\ p.paso = "ajustar"
  BY DEF Caja!Ajustar, CajaInv, CajaTipos
<1>2. PICK a : a = Caja!AsientoDeAjuste(p)
  OBVIOUS
<1>3. a \in AsientoCaja /\ Caja!Firmado(a) = p.importe - p.esperado
  <2>1. PICK d \in Int : d = p.importe - p.esperado
    BY <1>1 DEF PeticionCaja
  <2>2. a = [descripcion |-> IF d > 0 THEN "Sobrante" ELSE "Faltante",
             debe |-> IF d < 0 THEN -d ELSE 0, haber |-> IF d > 0 THEN d ELSE 0]
    BY <1>2, <2>1 DEF Caja!AsientoDeAjuste, Caja!Discrepancia, Caja!Abs
  <2>3. QED
    BY <2>1, <2>2 DEF AsientoCaja, Caja!Firmado
<1>4. PICK n : n = Len(ajustes) + 1
  OBVIOUS
<1>5. PICK q : q = [p EXCEPT !.paso = "fijar", !.ajuste = n]
  OBVIOUS
<1>6. Len(ajustes) \in Nat /\ ajustes \in Seq(AsientoCaja) /\ n \in Nat \ {0}
  BY <1>4 DEF CajaInv, CajaTipos
<1>7. /\ q \in PeticionCaja /\ q.paso = "fijar" /\ q.ajuste = n
      /\ q.importe = p.importe /\ q.esperado = p.esperado
  BY <1>1, <1>5, <1>6 DEF PeticionCaja
<1>8. /\ ajustes' = Append(ajustes, a) /\ opCaja' = [opCaja EXCEPT ![r] = q]
      /\ UNCHANGED <<saldo, apertura, flujos, base, pisado>>
  BY <1>1, <1>2, <1>4, <1>5 DEF Caja!Ajustar, Caja!hist, CajaInv, CajaTipos
<1>9. /\ Len(ajustes') = n /\ \A k \in 1 .. Len(ajustes) : ajustes'[k] = ajustes[k]
      /\ ajustes'[n] = a /\ DOMAIN ajustes' = 1 .. n /\ DOMAIN ajustes = 1 .. Len(ajustes)
  BY <1>4, <1>6, <1>8
<1>10. CuentaTipos'
  <2>1. opCaja \in [Requests -> PeticionCaja] /\ p.tipo = "FINAL_CLOSURE" /\ q.tipo = p.tipo
    BY <1>1, <1>5 DEF CajaInv, CajaTipos, CajaCuadrada, PeticionDeCaja, PeticionCaja
  <2>2. \A s \in Requests : opCaja'[s] = IF s = r THEN q ELSE opCaja[s]
    BY <1>8, <2>1
  <2>3. (\A s \in Requests : opCaja[s].paso = "fijar" => opCaja[s].tipo # "PARTIAL_CLOSURE")'
    BY <2>1, <2>2 DEF CuentaDeCaja, CuentaTipos
  <2>4. QED
    BY <1>4, <1>6, <1>8, <1>9, <2>3 DEF CuentaDeCaja, CuentaTipos
<1>11. Pendiente' = Pendiente + (p.importe - p.esperado) /\ Pendiente \in Int
  <2>1. PorFijar(q) = p.importe - p.esperado /\ PorFijar(opCaja[r]) = 0
    BY <1>1, <1>6, <1>7 DEF PorFijar
  <2>2. Pendiente' = Pendiente + (PorFijar(q) - PorFijar(opCaja[r])) /\ Pendiente \in Int
    BY <1>7, <1>8, CambiaLoPendiente DEF CajaInv
  <2>3. p.importe \in Int /\ p.esperado \in Int
    BY <1>1 DEF PeticionCaja
  <2>4. QED
    BY <2>1, <2>2, <2>3
<1>12. Ajustado' = Ajustado + (p.importe - p.esperado) /\ Ajustado \in Int
  <2>1. PICK f, g, S, T : /\ f = Firmados /\ g = [k \in DOMAIN ajustes' |-> Caja!Firmado(ajustes'[k])]
                          /\ S = (base + 1) .. Len(ajustes) /\ T = (base + 1) .. n
    OBVIOUS
  <2>2. base \in Nat /\ base <= Len(ajustes)
    BY DEF CuentaDeCaja, CuentaTipos
  <2>3. T = S \cup {n} /\ n \notin S
    BY <1>4, <1>6, <2>1, <2>2
  <2>4. IsFiniteSet(S) /\ Enteros(f, S) /\ SumFunctionOnSet(f, S) \in Int
    BY <2>1, <2>2, FirmadosEnteros DEF CajaInv
  <2>5. \A k \in S : f[k] = g[k]
    <3>1. \A k \in S : k \in 1 .. Len(ajustes) /\ k \in DOMAIN ajustes'
      BY <1>4, <1>6, <1>9, <2>1, <2>2
    <3>2. QED
      BY <1>9, <2>1, <3>1 DEF Firmados
  <2>6. g[n] = p.importe - p.esperado /\ g[n] \in Int
    <3>1. n \in DOMAIN ajustes'
      BY <1>6, <1>9
    <3>2. p.importe \in Int /\ p.esperado \in Int
      BY <1>1 DEF PeticionCaja
    <3>3. QED
      BY <1>3, <1>9, <2>1, <3>1, <3>2
  <2>7. SumFunctionOnSet(f, S) = SumFunctionOnSet(g, S)
    BY <2>4, <2>5, SumaIgual
  <2>8. Enteros(g, S)
    BY <2>4, <2>5 DEF Enteros
  <2>9. SumFunctionOnSet(g, T) = g[n] + SumFunctionOnSet(g, S)
    BY <2>3, <2>4, <2>6, <2>8, SumaMas
  <2>10. Ajustado = SumFunctionOnSet(f, S) /\ Ajustado' = SumFunctionOnSet(g, T)
    BY <1>8, <1>9, <2>1 DEF Ajustado, Firmados
  <2>11. QED
    BY <2>4, <2>6, <2>7, <2>9, <2>10
<1>13. Explicado'
  <2>1. p.importe \in Int /\ p.esperado \in Int /\ saldo \in Int /\ apertura \in Int /\ flujos \in Int
    BY <1>1 DEF PeticionCaja, CajaInv, CajaTipos, CuentaDeCaja, CuentaTipos
  <2>2. SUFFICES ASSUME ~ pisado'
                 PROVE  saldo' + Pendiente' = apertura' + flujos' + Ajustado'
    BY DEF Explicado
  <2>3. saldo + Pendiente = apertura + flujos + Ajustado
    BY <1>8, <2>2 DEF CuentaDeCaja, Explicado
  <2>4. saldo' = saldo /\ apertura' = apertura /\ flujos' = flujos
    BY <1>8
  <2>5. PICK d \in Int : d = p.importe - p.esperado
    BY <2>1
  <2>6. /\ Pendiente' = Pendiente + d /\ Pendiente \in Int
        /\ Ajustado' = Ajustado + d /\ Ajustado \in Int
    BY <1>11, <1>12, <2>5
  <2>7. QED
    BY <2>1, <2>3, <2>4, <2>5, <2>6
<1>14. QED
  BY <1>10, <1>13 DEF CuentaDeCaja

(* The balance is set.  An opening starts the account anew, if no closure   *)
(* is between its read and its balance; a closure that overwrites what it   *)
(* read pays what it owed.                                                  *)
LEMMA FijarSaldoCuenta ==
  ASSUME CajaInv, CuentaDeCaja, NEW r \in Requests, Caja!FijarSaldo(r)
  PROVE  CuentaDeCaja'
<1>1. PICK p \in PeticionCaja : p = opCaja[r] /\ p.paso = "fijar" /\ PeticionDeCaja(p)
  BY DEF Caja!FijarSaldo, CajaInv, CajaTipos, CajaCuadrada
<1>2. PICK q : q = [p EXCEPT !.paso = "fechar"]
  OBVIOUS
<1>3. opCaja' = [opCaja EXCEPT ![r] = q] /\ ajustes' = ajustes /\ saldo' = p.importe
  BY <1>1, <1>2 DEF Caja!FijarSaldo, CajaInv, CajaTipos
<1>3a. \A s \in Requests : opCaja'[s].paso = "fijar" => opCaja'[s] = opCaja[s]
  BY <1>2, <1>3 DEF CajaInv, CajaTipos, PeticionCaja
<1>4. q \in PeticionCaja /\ q.paso = "fechar" /\ PorFijar(q) = 0
  BY <1>1, <1>2 DEF PeticionCaja, PorFijar
<1>5. p.importe \in Int /\ p.esperado \in Int /\ saldo \in Int /\ Len(ajustes) \in Nat
  BY <1>1 DEF PeticionCaja, CajaInv, CajaTipos
<1>6. /\ Pendiente' = Pendiente + (PorFijar(q) - PorFijar(opCaja[r])) /\ Pendiente \in Int
      /\ PorFijar(opCaja[r]) \in Int
  BY <1>3, <1>4, CambiaLoPendiente DEF CajaInv
<1>7. CASE p.tipo = "OPENING"
  <2>1. /\ apertura' = p.importe /\ flujos' = 0 /\ base' = Len(ajustes)
        /\ pisado' = \E s \in Requests \ {r} : opCaja[s].tipo = "FINAL_CLOSURE"
                                               /\ opCaja[s].paso \in {"ajustar", "fijar"}
    BY <1>1, <1>7 DEF Caja!FijarSaldo
  <2>2. CuentaTipos'
    BY <1>3, <1>3a, <1>5, <2>1 DEF CuentaDeCaja, CuentaTipos
  <2>3. Ajustado' = 0
    <3>1. (base' + 1) .. Len(ajustes') = {}
      BY <1>3, <1>5, <2>1
    <3>2. QED
      BY <3>1, SumaVacia DEF Ajustado
  <2>4. ASSUME ~ pisado' PROVE Pendiente' = 0
    <3>1. PICK g : g = [s \in Requests |-> PorFijar(opCaja'[s])]
      OBVIOUS
    <3>2. \A s \in Requests : g[s] = 0
      <4>1. ASSUME NEW s \in Requests, s # r PROVE PorFijar(opCaja'[s]) = 0
        <5>1. opCaja'[s] = opCaja[s] /\ PeticionDeCaja(opCaja[s])
          BY <1>3, <4>1 DEF CajaInv, CajaTipos, CajaCuadrada
        <5>2. opCaja[s].paso = "fijar" => opCaja[s].tipo # "FINAL_CLOSURE"
          BY <2>1, <2>4, <4>1
        <5>3. QED
          BY <5>1, <5>2 DEF PorFijar, PeticionDeCaja, Cuadrado
      <4>2. PorFijar(opCaja'[r]) = 0
        BY <1>3, <1>4 DEF CajaInv, CajaTipos
      <4>3. QED
        BY <3>1, <4>1, <4>2
    <3>3. SumFunctionOnSet(g, Requests) = 0 * Cardinality(Requests) /\ Cardinality(Requests) \in Nat
      BY <3>2, PeticionesAssumption, SumaConstante, FS_CardinalityType
    <3>4. QED
      BY <3>1, <3>3 DEF Pendiente, Pendientes
  <2>5. Explicado'
    BY <1>3, <1>5, <2>1, <2>3, <2>4 DEF Explicado
  <2>6. QED
    BY <2>2, <2>5 DEF CuentaDeCaja
<1>8. CASE p.tipo # "OPENING"
  <2>1. pisado' = (pisado \/ saldo # p.esperado) /\ UNCHANGED <<apertura, flujos, base>>
    BY <1>1, <1>8 DEF Caja!FijarSaldo
  <2>2. CuentaTipos'
    BY <1>3, <1>3a, <2>1 DEF CuentaDeCaja, CuentaTipos
  <2>3. p.tipo = "FINAL_CLOSURE"
    BY <1>1, <1>8 DEF PeticionCaja, Caja!Tipos, CuentaDeCaja, CuentaTipos
  <2>4. PorFijar(p) = p.importe - p.esperado
    BY <1>1, <1>5, <2>3 DEF PorFijar, PeticionDeCaja, Cuadrado
  <2>5. Ajustado' = Ajustado
    BY <1>3, <2>1 DEF Ajustado, Firmados
  <2>6. Explicado'
    <3>1. SUFFICES ASSUME ~ pisado'
                   PROVE  saldo' + Pendiente' = apertura' + flujos' + Ajustado'
      BY DEF Explicado
    <3>2. saldo = p.esperado /\ saldo + Pendiente = apertura + flujos + Ajustado
      BY <2>1, <3>1 DEF CuentaDeCaja, Explicado
    <3>3. saldo' + Pendiente' = saldo + Pendiente
      <4>1. PorFijar(opCaja[r]) = p.importe - p.esperado /\ PorFijar(q) = 0
        BY <1>1, <1>4, <2>4
      <4>2. PICK d \in Int : d = p.importe - p.esperado
        BY <1>5
      <4>3. Pendiente' = Pendiente - d /\ Pendiente \in Int
        BY <1>6, <4>1, <4>2
      <4>4. saldo' = saldo + d
        BY <1>3, <1>5, <3>2, <4>2
      <4>5. QED
        BY <1>5, <4>2, <4>3, <4>4
    <3>4. QED
      BY <2>1, <2>5, <3>2, <3>3
  <2>7. QED
    BY <2>2, <2>6 DEF CuentaDeCaja
<1>9. QED
  BY <1>7, <1>8

(* The movement is dated and saved, or the request dies.                    *)
LEMMA CerrarCuenta ==
  ASSUME CajaInv, CuentaDeCaja, NEW r \in Requests, NEW q \in PeticionCaja,
         opCaja' = [opCaja EXCEPT ![r] = q], q.paso # "fijar",
         UNCHANGED <<saldo, ajustes, apertura, flujos, base>>,
         \/ pisado' = pisado /\ opCaja[r].paso # "fijar"
         \/ pisado' = (pisado \/ (opCaja[r].paso = "fijar" /\ opCaja[r].ajuste # 0))
  PROVE  CuentaDeCaja'
<1>1. PorFijar(q) = 0
  BY DEF PorFijar
<1>2. ASSUME ~ pisado'
      PROVE  ~ pisado /\ ~ (opCaja[r].paso = "fijar" /\ opCaja[r].ajuste # 0)
  <2>1. CASE pisado' = pisado /\ opCaja[r].paso # "fijar"
    BY <1>2, <2>1
  <2>2. CASE pisado' = (pisado \/ (opCaja[r].paso = "fijar" /\ opCaja[r].ajuste # 0))
    <3>1. ~ (pisado \/ (opCaja[r].paso = "fijar" /\ opCaja[r].ajuste # 0))
      BY <1>2, <2>2
    <3>2. QED
      BY <3>1
  <2>3. QED
    BY <2>1, <2>2
<1>3. ASSUME ~ pisado' PROVE PorFijar(opCaja[r]) = 0
  BY <1>2, <1>3 DEF PorFijar
<1>4. QED
  BY <1>1, <1>2, <1>3, CuentaSinSaldo DEF CajaInv

LEMMA FecharCuenta ==
  ASSUME CajaInv, CuentaDeCaja, NEW r \in Requests, Caja!Fechar(r)
  PROVE  CuentaDeCaja'
<1>1. PICK p \in PeticionCaja : p = opCaja[r] /\ p.paso = "fechar"
  BY DEF Caja!Fechar, CajaInv, CajaTipos
<1>2. PICK n, q : n = Len(movs) + 1 /\ q = [p EXCEPT !.paso = "guardar", !.mov = n]
  OBVIOUS
<1>3. n \in Nat
  BY <1>2 DEF CajaInv, CajaTipos
<1>4. q \in PeticionCaja /\ q.paso = "guardar"
  BY <1>1, <1>2, <1>3 DEF PeticionCaja
<1>5. /\ opCaja' = [opCaja EXCEPT ![r] = q]
      /\ UNCHANGED <<saldo, ajustes, apertura, flujos, base, pisado>>
  BY <1>1, <1>2 DEF Caja!Fechar, Caja!hist, CajaInv, CajaTipos
<1>6. q.paso # "fijar" /\ opCaja[r].paso # "fijar"
  BY <1>1, <1>4
<1>7. QED
  BY <1>4, <1>5, <1>6, CerrarCuenta

LEMMA TerminarCuenta ==
  ASSUME CajaInv, CuentaDeCaja, NEW r \in Requests, Caja!GuardarMovimiento(r) \/ Caja!Caida(r)
  PROVE  CuentaDeCaja'
<1>1. PICK q : q = Caja!SinOp
  OBVIOUS
<1>2. q \in PeticionCaja /\ q.paso # "fijar"
  BY <1>1 DEF Caja!SinOp, PeticionCaja, Caja!Tipos, Caja!SinAjuste
<1>3. /\ opCaja' = [opCaja EXCEPT ![r] = q]
      /\ UNCHANGED <<saldo, ajustes, apertura, flujos, base>>
      /\ \/ pisado' = pisado /\ opCaja[r].paso # "fijar"
         \/ pisado' = (pisado \/ (opCaja[r].paso = "fijar" /\ opCaja[r].ajuste # 0))
  BY <1>1 DEF Caja!GuardarMovimiento, Caja!Caida, Caja!hist, Caja!SinAjuste
<1>4. QED
  BY <1>2, <1>3, CerrarCuenta

(* A payment moves the balance and the flow.                                *)
LEMMA MoverCuenta ==
  ASSUME CajaInv, CuentaDeCaja, NEW m \in Int, Caja!Mover(m)
  PROVE  CuentaDeCaja'
<1>1. /\ saldo' = saldo + m /\ flujos' = flujos + m
      /\ UNCHANGED <<ajustes, opCaja, apertura, base, pisado>>
  BY DEF Caja!Mover
<1>2. Pendiente' = Pendiente /\ Ajustado' = Ajustado
  BY <1>1 DEF Pendiente, Pendientes, Ajustado, Firmados
<1>3. /\ saldo \in Int /\ apertura \in Int /\ flujos \in Int /\ Pendiente \in Int
      /\ Ajustado \in Int
  BY PendientesEnteros, FirmadosEnteros DEF CajaInv, CajaTipos, CuentaDeCaja, CuentaTipos, Ajustado
<1>4. CuentaTipos'
  BY <1>1, <1>3 DEF CuentaDeCaja, CuentaTipos
<1>5. Explicado'
  <2>1. SUFFICES ASSUME ~ pisado'
                 PROVE  saldo' + Pendiente' = apertura' + flujos' + Ajustado'
    BY DEF Explicado
  <2>2. saldo + Pendiente = apertura + flujos + Ajustado
    BY <1>1, <2>1 DEF CuentaDeCaja, Explicado
  <2>3. QED
    BY <1>1, <1>2, <1>3, <2>2
<1>6. QED
  BY <1>4, <1>5 DEF CuentaDeCaja

LEMMA CuentaQuieta ==
  ASSUME CuentaDeCaja, UNCHANGED <<saldo, ajustes, opCaja, apertura, flujos, base, pisado>>
  PROVE  CuentaDeCaja'
<1>1. Pendiente' = Pendiente /\ Ajustado' = Ajustado
  BY DEF Pendiente, Pendientes, Ajustado, Firmados
<1>2. QED
  BY <1>1 DEF CuentaDeCaja, CuentaTipos, Explicado

LEMMA PasoCuenta == CajaInv /\ CuentaDeCaja /\ Caja!XNext => CuentaDeCaja'
<1> SUFFICES ASSUME CajaInv, CuentaDeCaja, Caja!XNext PROVE CuentaDeCaja'
  OBVIOUS
<1>1. ASSUME Caja!UpdateBalance
      PROVE  CuentaDeCaja'
  <2>1. PICK m \in Importes : Caja!Mover(m) \/ Caja!Mover(-m)
    BY <1>1 DEF Caja!UpdateBalance
  <2>2. m \in Int /\ -m \in Int
    BY CajaAssumption
  <2>3. QED
    BY <2>1, <2>2, MoverCuenta
<1>2. ASSUME UNCHANGED Caja!xvars
      PROVE  CuentaDeCaja'
  BY <1>2, CuentaQuieta DEF Caja!xvars, Caja!hist
<1>3. QED
  BY <1>1, <1>2, ComenzarCuenta, AjustarCuenta, FijarSaldoCuenta, FecharCuenta, TerminarCuenta
     DEF Caja!XNext

LEMMA CuentaExplicada == CajaInv /\ CuentaDeCaja => Caja!SaldoExplicado
<1> SUFFICES ASSUME CajaInv, CuentaDeCaja, Caja!EnReposo, ~ pisado
             PROVE  saldo = apertura + flujos + Caja!SumFunctionOnSet(Firmados, (base + 1) .. Len(ajustes))
  BY DEF Caja!SaldoExplicado, Firmados
<1>1. PICK f : f = Pendientes
  OBVIOUS
<1>2. \A r \in Requests : f[r] = 0
  BY <1>1 DEF Pendientes, PorFijar, Caja!EnReposo
<1>3. SumFunctionOnSet(f, Requests) = 0 * Cardinality(Requests) /\ Cardinality(Requests) \in Nat
  BY <1>2, PeticionesAssumption, SumaConstante, FS_CardinalityType
<1>4. Pendiente = 0
  BY <1>1, <1>3 DEF Pendiente
<1>5. saldo + Pendiente = apertura + flujos + Ajustado /\ saldo \in Int
  BY DEF CuentaDeCaja, Explicado, CajaInv, CajaTipos
<1>6. Caja!SumFunctionOnSet(Firmados, (base + 1) .. Len(ajustes)) = Ajustado
  BY SumaDeCaja DEF Ajustado
<1>7. QED
  BY <1>4, <1>5, <1>6

(* CashBox: at rest, the balance is what the last opening set, plus the     *)
(* payments and the adjustments since then, however many they are, unless a *)
(* closure overwrote what it had not read or died after its adjustment      *)
(* (createFinalClosure, updateBalance 'SET').                               *)
THEOREM SaldoSiempreExplicado == Spec => []SaldoExplicado
<1> DEFINE I == foco = "caja" => CajaInv /\ CuentaDeCaja
<1>1. Init => I
  BY InitCajaInv, InitCuenta
<1>2. I /\ [Next]_registrosVars => I'
  <2> SUFFICES ASSUME I, [Next]_registrosVars, foco' = "caja" PROVE CajaInv' /\ CuentaDeCaja'
    OBVIOUS
  <2>1. CASE Next
    <3>1. foco = "caja"
      BY <2>1 DEF Next, LosDemas
    <3>2. QED
      BY <2>1, <3>1, PasoCaja, PasoCuenta DEF Next
  <2>2. CASE UNCHANGED registrosVars
    <3>1. foco = "caja" /\ UNCHANGED <<opCaja, movs, ajustes, saldo, muertes, solape, apertura, flujos,
                                       base, pisado>>
      BY <2>2 DEF registrosVars, peticionesVars, cajaVars
    <3>2. saldo' \in Int
      BY <3>1 DEF CajaInv, CajaTipos
    <3>3. QED
      BY <3>1, <3>2, CajaSinPeticion, CuentaQuieta
  <2>3. QED
    BY <2>1, <2>2
<1>3. I => SaldoExplicado
  BY CuentaExplicada DEF SaldoExplicado
<1>4. QED
  BY <1>1, <1>2, <1>3, PTL DEF Spec

----------------------------------------------------------------------------
(* IndexValues.  An update that asks for dates from one on finds those      *)
(* before it in the series, and one that inserts has in hand all that is    *)
(* missing up to the end of its window.                                     *)

FechasDe(f) == Indices!Fechas(f)
Contigua(f) == \A d \in FechasDe(f) : 1 .. d \subseteq FechasDe(f)

PedidoDeIndice(q) ==
  /\ q.paso \in {"pedir", "insertar"}
  /\ q.f \in Indices!Formulas /\ q.cola \in Seq(Indices!Formulas)
  /\ q.desde \in Nat \ {0} /\ (q.f # "ICL" => q.desde = 1)
  /\ q.paso = "insertar" => q.nuevas \subseteq {d \in 1 .. publicado : d <= Indices!Hasta(q)}
Completo(q) ==
  /\ q.paso = "pedir" => \A d \in 1 .. publicado : d < q.desde => d \in FechasDe(q.f)
  /\ q.paso = "insertar" =>
       \A d \in 1 .. publicado : d <= Indices!Hasta(q) => d \in FechasDe(q.f) \cup q.nuevas
SinRepetir(q) == q.paso = "insertar" => q.nuevas \cap FechasDe(q.f) = {}

IndicesTipos ==
  /\ publicado \in 0 .. MaxFecha /\ ajena \in BOOLEAN
  /\ serie \in [Indices!Formulas -> [1 .. MaxFecha -> Nat]]
IndicesInv ==
  /\ IndicesTipos
  /\ op = [r \in Requests |-> op[r]]
  /\ \A r \in Requests : op[r] # Nadie => PedidoDeIndice(op[r])
  /\ ~ ajena => /\ \A f \in Indices!Formulas : Contigua(f)
                /\ \A r \in Requests : op[r] # Nadie => Completo(op[r])
  /\ ~ solape => UnaSola
  /\ ~ solape /\ ~ ajena =>
       /\ \A f \in Indices!Formulas : \A d \in 1 .. MaxFecha : serie[f][d] \in {0, 1}
       /\ \A r \in Requests : op[r] # Nadie => SinRepetir(op[r])

LEMMA InitIndicesInv == Init => IndicesInv
<1> SUFFICES ASSUME Init PROVE IndicesInv
  OBVIOUS
<1>1. /\ publicado = 0 /\ ajena = FALSE
      /\ serie = [f \in Indices!Formulas |-> [d \in 1 .. MaxFecha |-> 0]]
  BY DEF Init, Indices!InitIndices
<1>2. op = [r \in Requests |-> op[r]] /\ \A r \in Requests : op[r] = Nadie
  BY InitPeticiones
<1>3. \A f \in Indices!Formulas : FechasDe(f) = {}
  BY <1>1 DEF FechasDe, Indices!Fechas
<1>4. IndicesTipos
  <2>1. PICK z : z = [d \in 1 .. MaxFecha |-> 0]
    OBVIOUS
  <2>2. z \in [1 .. MaxFecha -> Nat] /\ serie = [f \in Indices!Formulas |-> z]
    BY <1>1, <2>1
  <2>3. serie \in [Indices!Formulas -> [1 .. MaxFecha -> Nat]]
    BY <2>2
  <2>4. 0 \in 0 .. MaxFecha
    BY IndicesAssumption
  <2>5. QED
    BY <1>1, <2>3, <2>4 DEF IndicesTipos
<1>5. QED
  BY <1>1, <1>2, <1>3, <1>4 DEF IndicesInv, UnaSola, Contigua

(* A set of naturals that is bounded and not empty has a greatest element.  *)
LEMMA Ultimo ==
  ASSUME NEW N \in Nat, NEW S, S \subseteq 1 .. N, S # {}
  PROVE  /\ Indices!Max(S) \in S /\ \A m \in S : m <= Indices!Max(S)
<1> DEFINE T == {n \in Nat : \A m \in S : m <= n}
<1>1. N \in T
  OBVIOUS
<1>2. PICK n \in T : \A m \in T : n <= m
  BY <1>1, Primero
<1>3. n \in S
  <2>1. SUFFICES ASSUME n \notin S PROVE FALSE
    OBVIOUS
  <2>2. n # 0
    <3>1. PICK m \in S : TRUE
      OBVIOUS
    <3>2. m \in 1 .. N /\ m <= n
      BY <3>1
    <3>3. QED
      BY <3>2
  <2>3. n - 1 \in T
    BY <2>1, <2>2
  <2>4. QED
    BY <2>3, <1>2
<1>4. \E x \in S : \A y \in S : x >= y
  BY <1>3
<1>5. QED
  BY <1>4 DEF Indices!Max

----------------------------------------------------------------------------
(* What triggerUpdate() goes on with.                                       *)

(* The window ends where it says, or before.                                *)
LEMMA Ventanas ==
  ASSUME NEW q, q.desde \in Nat
  PROVE  Indices!Hasta(q) \in Nat
BY IndicesAssumption DEF Indices!Hasta, Indices!NextEndDate, Indices!EndDate

LEMMA EmpiezaFormula ==
  ASSUME IndicesTipos, NEW cola \in Seq(Indices!Formulas)
  PROVE  LET q == Indices!UpdateIndexData(cola)
         IN  /\ q # Nadie => PedidoDeIndice(q)
             /\ q # Nadie => SinRepetir(q)
             /\ q # Nadie /\ (\A f \in Indices!Formulas : Contigua(f)) => Completo(q)
<1> DEFINE q == Indices!UpdateIndexData(cola)
<1>1. CASE cola = <<>>
  BY <1>1 DEF Indices!UpdateIndexData, Indices!Libre, Nadie
<1>2. CASE cola # <<>>
  <2>1. Head(cola) \in Indices!Formulas /\ Tail(cola) \in Seq(Indices!Formulas)
    BY <1>2
  <2>2. /\ q.paso = "pedir" /\ q.f = Head(cola) /\ q.cola = Tail(cola)
        /\ q.desde = IF Head(cola) = "ICL" THEN Indices!StartDate ELSE 1
    BY <1>2 DEF Indices!UpdateIndexData
  <2>3. /\ FechasDe("ICL") \subseteq 1 .. MaxFecha
        /\ Indices!StartDate \in Nat \ {0}
        /\ Indices!StartDate = 1 \/ Indices!StartDate \in FechasDe("ICL")
    <3>1. Indices!Fechas("ICL") \subseteq 1 .. MaxFecha
      BY DEF Indices!Fechas
    <3>2. CASE Indices!Fechas("ICL") = {}
      BY <3>1, <3>2 DEF Indices!StartDate, FechasDe
    <3>3. CASE Indices!Fechas("ICL") # {}
      <4>1. Indices!StartDate \in Indices!Fechas("ICL")
        BY <3>1, <3>3, Ultimo, IndicesAssumption DEF Indices!StartDate
      <4>2. QED
        BY <4>1, <3>1 DEF FechasDe
    <3>4. QED
      BY <3>2, <3>3
  <2>4. PedidoDeIndice(q) /\ SinRepetir(q)
    BY <2>1, <2>2, <2>3 DEF PedidoDeIndice, SinRepetir
  <2>5. ASSUME \A f \in Indices!Formulas : Contigua(f)
        PROVE  Completo(q)
    <3>1. ASSUME NEW d \in 1 .. publicado, d < q.desde PROVE d \in FechasDe(q.f)
      <4>1. Head(cola) = "ICL" /\ q.desde \in FechasDe("ICL")
        BY <2>2, <2>3, <3>1 DEF IndicesTipos
      <4>2. Contigua("ICL")
        BY <4>1, <2>1, <2>5
      <4>3. d \in 1 .. q.desde
        BY <2>2, <2>3, <3>1, <4>1
      <4>4. QED
        BY <4>1, <4>2, <4>3, <2>2 DEF Contigua
    <3>2. QED
      BY <3>1, <2>2 DEF Completo
  <2>6. QED
    BY <2>4, <2>5
<1>3. QED
  BY <1>1, <1>2

----------------------------------------------------------------------------
(* One lemma for each kind of step.                                         *)

(* A request begins, goes on or ends, and no document is lost.              *)
LEMMA PasoDeIndice ==
  ASSUME IndicesInv, IndicesTipos', NEW r \in Requests, NEW q, op' = [op EXCEPT ![r] = q],
         publicado' = publicado, ajena => ajena',
         q # Nadie => PedidoDeIndice(q),
         \/ solape' = solape /\ op[r] # Nadie
         \/ op[r] = Nadie /\ solape' = (solape \/ \E s \in Requests : op[s] # Nadie),
         \A f \in Indices!Formulas : FechasDe(f) \subseteq FechasDe(f)',
         ~ ajena' => \A f \in Indices!Formulas : Contigua(f)',
         ~ ajena' /\ q # Nadie => Completo(q)',
         ~ ajena' /\ ~ solape' =>
           /\ \A f \in Indices!Formulas : \A d \in 1 .. MaxFecha : serie'[f][d] \in {0, 1}
           /\ q # Nadie => SinRepetir(q)'
  PROVE  IndicesInv'
<1>1. /\ op' = [s \in Requests |-> op'[s]] /\ op'[r] = q
      /\ \A s \in Requests : s # r => op'[s] = op[s]
  BY DEF IndicesInv
<1>2. \A x : PedidoDeIndice(x) => PedidoDeIndice(x)'
  BY DEF PedidoDeIndice, Indices!Hasta, Indices!NextEndDate, Indices!EndDate
<1>3. \A s \in Requests : op'[s] # Nadie => PedidoDeIndice(op[s])'
  BY <1>1, <1>2 DEF IndicesInv
<1>4. ASSUME NEW s \in Requests, s # r, op'[s] # Nadie, ~ ajena'
      PROVE  Completo(op[s])'
  <2>1. op'[s] = op[s] /\ Completo(op[s]) /\ op[s].f \in Indices!Formulas
    BY <1>1, <1>4 DEF IndicesInv, PedidoDeIndice
  <2>2. Completo(op[s])'
    BY <2>1 DEF Completo, Indices!Hasta, Indices!NextEndDate, Indices!EndDate
  <2>3. QED
    BY <2>1, <2>2
<1>5. ASSUME ~ solape'
      PROVE  ~ solape /\ \A s \in Requests : s # r => op'[s] = Nadie
  <2>1. CASE solape' = solape /\ op[r] # Nadie
    BY <1>1, <1>5, <2>1 DEF IndicesInv, UnaSola
  <2>2. CASE op[r] = Nadie /\ solape' = (solape \/ \E s \in Requests : op[s] # Nadie)
    <3>1. ~ (solape \/ \E s \in Requests : op[s] # Nadie)
      BY <1>5, <2>2, Zenon
    <3>2. QED
      BY <1>1, <3>1
  <2>3. QED
    BY <2>1, <2>2
<1>6. ~ solape' => UnaSola'
  BY <1>5 DEF UnaSola
<1>7. ASSUME ~ ajena', ~ solape', NEW s \in Requests, op'[s] # Nadie
      PROVE  SinRepetir(op[s])'
  BY <1>1, <1>5, <1>7
<1>8. ASSUME ~ ajena', NEW s \in Requests, op'[s] # Nadie
      PROVE  Completo(op[s])'
  BY <1>1, <1>4, <1>8
<1>9. QED
  BY <1>1, <1>3, <1>6, <1>7, <1>8 DEF IndicesInv

(* The same when no document is stored.                                     *)
LEMMA IndiceSinEscribir ==
  ASSUME IndicesInv, NEW r \in Requests, NEW q, op' = [op EXCEPT ![r] = q],
         publicado' = publicado, serie' = serie, ajena' = ajena,
         q # Nadie => PedidoDeIndice(q),
         \/ solape' = solape /\ op[r] # Nadie
         \/ op[r] = Nadie /\ solape' = (solape \/ \E s \in Requests : op[s] # Nadie),
         ~ ajena /\ q # Nadie => Completo(q),
         ~ ajena /\ ~ solape /\ q # Nadie => SinRepetir(q)
  PROVE  IndicesInv'
<1>1. IndicesTipos'
  BY DEF IndicesInv, IndicesTipos
<1>2. \A f : FechasDe(f)' = FechasDe(f)
  BY DEF FechasDe, Indices!Fechas
<1>3. ~ solape' => ~ solape
  OBVIOUS
<1>4. ~ ajena' => \A f \in Indices!Formulas : Contigua(f)'
  BY <1>2 DEF IndicesInv, Contigua
<1>5. ~ ajena' /\ q # Nadie => Completo(q)'
  BY <1>2 DEF Completo, Indices!Hasta, Indices!NextEndDate, Indices!EndDate
<1>6. ~ ajena' /\ ~ solape' /\ q # Nadie => SinRepetir(q)'
  BY <1>2, <1>3 DEF SinRepetir
<1>7. ~ ajena' /\ ~ solape' =>
        \A f \in Indices!Formulas : \A d \in 1 .. MaxFecha : serie'[f][d] \in {0, 1}
  BY <1>3 DEF IndicesInv
<1>8. QED
  BY <1>1, <1>2, <1>4, <1>5, <1>6, <1>7, PasoDeIndice

LEMMA TriggerUpdateInv ==
  ASSUME IndicesInv, NEW r \in Requests, NEW f \in Enteras, Indices!TriggerUpdate(r, <<f, "ICL">>)
  PROVE  IndicesInv'
<1> DEFINE cola == <<f, "ICL">>
           q == Indices!UpdateIndexData(cola)
<1>1. cola \in Seq(Indices!Formulas)
  BY DEF Indices!Formulas
<1>2. /\ op[r] = Nadie /\ op' = [op EXCEPT ![r] = q]
      /\ solape' = (solape \/ \E s \in Requests : op[s] # Nadie)
      /\ publicado' = publicado /\ serie' = serie /\ ajena' = ajena
  BY DEF Indices!TriggerUpdate, Indices!Comenzar, Indices!indicesVars, Indices!EnCurso, Indices!Libre, Nadie
<1> HIDE DEF cola
<1>3. /\ q # Nadie => PedidoDeIndice(q) /\ SinRepetir(q)
      /\ q # Nadie /\ ~ ajena => Completo(q)
  BY <1>1, EmpiezaFormula DEF IndicesInv
<1> HIDE DEF q
<1>4. QED
  BY <1>2, <1>3, IndiceSinEscribir

LEMMA BuscarExistentesInv ==
  ASSUME IndicesInv, NEW r \in Requests, Indices!BuscarExistentes(r)
  PROVE  IndicesInv'
<1> DEFINE p == op[r]
           recibidas == {d \in p.desde .. Indices!Hasta(p) : d <= publicado}
<1>1. PICK q : q = [paso |-> "insertar", f |-> p.f, cola |-> p.cola, desde |-> p.desde,
                    nuevas |-> recibidas \ FechasDe(p.f)]
  OBVIOUS
<1>2. /\ p.paso = "pedir" /\ p # Nadie /\ op' = [op EXCEPT ![r] = q] /\ solape' = solape
      /\ publicado' = publicado /\ serie' = serie /\ ajena' = ajena
  BY <1>1 DEF Indices!BuscarExistentes, Indices!Seguir, Indices!indicesVars, FechasDe, Nadie
<1>3. PedidoDeIndice(p) /\ (~ ajena => Completo(p))
  BY <1>2 DEF IndicesInv
<1>4. /\ q.paso = "insertar" /\ q.f = p.f /\ q.cola = p.cola /\ q.desde = p.desde
      /\ q.nuevas = recibidas \ FechasDe(p.f)
  BY <1>1
<1>5. Indices!Hasta(q) = Indices!Hasta(p) /\ Indices!Hasta(p) \in Nat /\ p.desde \in Nat \ {0}
  BY <1>3, <1>4, Ventanas DEF PedidoDeIndice, Indices!Hasta
<1>6. publicado \in Nat
  BY DEF IndicesInv, IndicesTipos
<1>7. PedidoDeIndice(q)
  <2>1. recibidas \subseteq {d \in 1 .. publicado : d <= Indices!Hasta(q)}
    BY <1>5, <1>6
  <2>2. QED
    BY <2>1, <1>3, <1>4 DEF PedidoDeIndice
<1>8. SinRepetir(q)
  BY <1>4 DEF SinRepetir
<1>9. ASSUME ~ ajena PROVE Completo(q)
  <2>1. ASSUME NEW d \in 1 .. publicado, d <= Indices!Hasta(p)
        PROVE  d \in FechasDe(p.f) \cup recibidas
    <3>1. CASE d < p.desde
      BY <1>2, <1>3, <1>9, <2>1, <3>1 DEF Completo
    <3>2. CASE ~ (d < p.desde)
      BY <1>5, <1>6, <2>1, <3>2
    <3>3. QED
      BY <3>1, <3>2
  <2>2. QED
    BY <2>1, <1>4, <1>5 DEF Completo
<1>10. QED
  BY <1>2, <1>7, <1>8, <1>9, IndiceSinEscribir

LEMMA SinRespuestaInv ==
  ASSUME IndicesInv, NEW r \in Requests, Indices!SinRespuesta(r) \/ Indices!MuerteIndices(r)
  PROVE  IndicesInv'
<1>1. CASE Indices!SinRespuesta(r)
  <2>1. PICK q : q = Indices!UpdateIndexData(op[r].cola)
    OBVIOUS
  <2>2. /\ op[r] # Nadie /\ op' = [op EXCEPT ![r] = q] /\ solape' = solape
        /\ publicado' = publicado /\ serie' = serie /\ ajena' = ajena
    BY <1>1, <2>1 DEF Indices!SinRespuesta, Indices!Seguir, Indices!indicesVars, Nadie
  <2>3. op[r].cola \in Seq(Indices!Formulas)
    BY <2>2 DEF IndicesInv, PedidoDeIndice
  <2>4. /\ q # Nadie => PedidoDeIndice(q) /\ SinRepetir(q)
        /\ q # Nadie /\ ~ ajena => Completo(q)
    BY <2>1, <2>3, EmpiezaFormula DEF IndicesInv
  <2>5. QED
    BY <2>2, <2>4, IndiceSinEscribir
<1>2. CASE Indices!MuerteIndices(r)
  <2>1. /\ op[r] # Nadie /\ op' = [op EXCEPT ![r] = Nadie] /\ solape' = solape
        /\ publicado' = publicado /\ serie' = serie /\ ajena' = ajena
    BY <1>2 DEF Indices!MuerteIndices, Indices!Morir, Indices!indicesVars, Indices!Libre, Nadie
  <2>2. QED
    BY <2>1, IndiceSinEscribir
<1>3. QED
  BY <1>1, <1>2

(* What goes on after an insertion is the next window, or the next formula  *)
(* as its series was before.                                                *)
LEMMA SiguienteVale ==
  ASSUME IndicesTipos, NEW p, PedidoDeIndice(p)
  PROVE  LET q == Indices!Siguiente(p)
         IN  q # Nadie =>
               /\ PedidoDeIndice(q) /\ q.paso = "pedir"
               /\ (\A f \in Indices!Formulas : Contigua(f)) =>
                    \A d \in 1 .. publicado : d < q.desde =>
                      d \in FechasDe(q.f) \/ (q.f = p.f /\ d <= Indices!Hasta(p))
<1> DEFINE q == Indices!Siguiente(p)
<1>1. p.cola \in Seq(Indices!Formulas) /\ p.f \in Indices!Formulas /\ Indices!Hasta(p) \in Nat
  BY Ventanas DEF PedidoDeIndice
<1>2. CASE p.f = "ICL" /\ Indices!Hasta(p) + 1 < Indices!EndDate
  <2>1. /\ q.paso = "pedir" /\ q.f = p.f /\ q.cola = p.cola /\ q.desde = Indices!Hasta(p) + 1
    BY <1>2 DEF Indices!Siguiente
  <2>2. PedidoDeIndice(q)
    BY <1>1, <1>2, <2>1 DEF PedidoDeIndice
  <2>3. \A d \in 1 .. publicado : d < q.desde => d <= Indices!Hasta(p)
    BY <2>1, <1>1 DEF IndicesTipos
  <2>4. QED
    BY <2>1, <2>2, <2>3
<1>3. CASE ~ (p.f = "ICL" /\ Indices!Hasta(p) + 1 < Indices!EndDate)
  <2>1. q = Indices!UpdateIndexData(p.cola)
    BY <1>3 DEF Indices!Siguiente
  <2>2. q # Nadie => q.paso = "pedir"
    BY <2>1 DEF Indices!UpdateIndexData, Indices!Libre, Nadie
  <2>3. QED
    BY <1>1, <2>1, <2>2, EmpiezaFormula DEF Completo
<1>4. QED
  BY <1>2, <1>3

(* The series that the request was at, with what it had in hand.            *)
LEMMA InsertManyInv ==
  ASSUME IndicesInv, NEW r \in Requests, Indices!InsertMany(r)
  PROVE  IndicesInv'
<1>0. PICK p, q : p = op[r] /\ q = Indices!Siguiente(p)
  OBVIOUS
<1> DEFINE fila == [d \in 1 .. MaxFecha |-> serie[p.f][d] + IF d \in p.nuevas THEN 1 ELSE 0]
<1>1. /\ p.paso = "insertar" /\ p # Nadie /\ op' = [op EXCEPT ![r] = q] /\ solape' = solape
      /\ publicado' = publicado /\ ajena' = ajena
  BY <1>0 DEF Indices!InsertMany, Indices!Seguir, Nadie
<1>2. serie' = [serie EXCEPT ![p.f] = fila]
  BY <1>0 DEF Indices!InsertMany
<1>3. PedidoDeIndice(p) /\ p.f \in Indices!Formulas
  BY <1>0, <1>1 DEF IndicesInv, PedidoDeIndice
<1>4. IndicesTipos
  BY DEF IndicesInv
<1>5. /\ serie \in [Indices!Formulas -> [1 .. MaxFecha -> Nat]]
      /\ \A d \in 1 .. MaxFecha : serie[p.f][d] \in Nat
  BY <1>3, <1>4 DEF IndicesTipos
<1>6. fila \in [1 .. MaxFecha -> Nat]
  BY <1>5
<1>7. /\ serie'[p.f] = fila
      /\ \A f \in Indices!Formulas : f # p.f => serie'[f] = serie[f]
      /\ serie' \in [Indices!Formulas -> [1 .. MaxFecha -> Nat]]
  <2> HIDE DEF fila
  <2> QED
    BY <1>2, <1>3, <1>5, <1>6
<1>8. p.nuevas \subseteq {d \in 1 .. publicado : d <= Indices!Hasta(p)} /\ p.nuevas \subseteq 1 .. MaxFecha
  <2>1. p.nuevas \subseteq {d \in 1 .. publicado : d <= Indices!Hasta(p)}
    BY <1>1, <1>3 DEF PedidoDeIndice
  <2>2. 1 .. publicado \subseteq 1 .. MaxFecha
    BY <1>4, IndicesAssumption DEF IndicesTipos
  <2>3. QED
    BY <2>1, <2>2
<1>9. /\ FechasDe(p.f)' = FechasDe(p.f) \cup p.nuevas
      /\ \A f \in Indices!Formulas : f # p.f => FechasDe(f)' = FechasDe(f)
  <2>1. \A d \in 1 .. MaxFecha : serie'[p.f][d] > 0 <=> serie[p.f][d] > 0 \/ d \in p.nuevas
    BY <1>5, <1>7
  <2>2. {d \in 1 .. MaxFecha : serie'[p.f][d] > 0} = {d \in 1 .. MaxFecha : serie[p.f][d] > 0} \cup p.nuevas
    BY <2>1, <1>8
  <2>3. FechasDe(p.f)' = {d \in 1 .. MaxFecha : serie'[p.f][d] > 0}
    BY DEF FechasDe, Indices!Fechas
  <2>4. FechasDe(p.f) = {d \in 1 .. MaxFecha : serie[p.f][d] > 0}
    BY DEF FechasDe, Indices!Fechas
  <2>5. QED
    BY <2>2, <2>3, <2>4, <1>7 DEF FechasDe, Indices!Fechas
<1>10. ASSUME ~ ajena'
       PROVE  \A f \in Indices!Formulas : Contigua(f)'
  <2>1. \A f \in Indices!Formulas : f # p.f => Contigua(f)'
    BY <1>1, <1>9, <1>10 DEF IndicesInv, Contigua
  <2>2. Contigua(p.f) /\ Completo(p)
    BY <1>0, <1>1, <1>3, <1>10 DEF IndicesInv
  <2>3. ASSUME NEW d \in p.nuevas, NEW e \in 1 .. d PROVE e \in FechasDe(p.f) \cup p.nuevas
    <3>1. d \in 1 .. publicado /\ d <= Indices!Hasta(p) /\ publicado \in Nat /\ Indices!Hasta(p) \in Nat
      BY <1>3, <1>4, <1>8, Ventanas DEF IndicesTipos, PedidoDeIndice
    <3>2. e \in 1 .. publicado /\ e <= Indices!Hasta(p)
      BY <3>1
    <3>3. QED
      BY <1>1, <2>2, <3>2 DEF Completo
  <2>4. \A d \in FechasDe(p.f) \cup p.nuevas : 1 .. d \subseteq FechasDe(p.f) \cup p.nuevas
    BY <2>2, <2>3 DEF Contigua
  <2>5. (\A d \in FechasDe(p.f) : 1 .. d \subseteq FechasDe(p.f))'
    BY <1>9, <2>4
  <2>6. Contigua(p.f)'
    BY <2>5 DEF Contigua
  <2>7. QED
    BY <2>1, <2>6
<1>11. IndicesTipos'
  BY <1>1, <1>4, <1>7 DEF IndicesTipos
<1>12. ASSUME q # Nadie
       PROVE  PedidoDeIndice(q) /\ q.paso = "pedir"
  BY <1>0, <1>3, <1>4, <1>12, SiguienteVale
<1>13. ASSUME ~ ajena', q # Nadie
       PROVE  Completo(q)'
  <2>1. /\ Completo(p) /\ \A f \in Indices!Formulas : Contigua(f)
    BY <1>0, <1>1, <1>13 DEF IndicesInv
  <2>2. \A d \in 1 .. publicado : d < q.desde =>
          d \in FechasDe(q.f) \/ (q.f = p.f /\ d <= Indices!Hasta(p))
    BY <1>0, <1>3, <1>4, <1>13, <2>1, SiguienteVale
  <2>3. q.f \in Indices!Formulas
    BY <1>12, <1>13 DEF PedidoDeIndice
  <2>4. QED
    BY <1>1, <1>9, <1>12, <1>13, <2>1, <2>2, <2>3 DEF Completo
<1>14. ASSUME ~ ajena', ~ solape'
       PROVE  \A f \in Indices!Formulas : \A d \in 1 .. MaxFecha : serie'[f][d] \in {0, 1}
  <2>1. SinRepetir(p) /\ \A f \in Indices!Formulas : \A d \in 1 .. MaxFecha : serie[f][d] \in {0, 1}
    BY <1>0, <1>1, <1>14 DEF IndicesInv
  <2>2. \A d \in 1 .. MaxFecha : d \in p.nuevas => serie[p.f][d] = 0
    BY <1>1, <1>3, <1>5, <2>1 DEF SinRepetir, FechasDe, Indices!Fechas
  <2>3. \A d \in 1 .. MaxFecha : serie'[p.f][d] \in {0, 1}
    BY <1>3, <1>7, <2>1, <2>2
  <2>4. QED
    BY <1>7, <2>1, <2>3
<1>15. \A f \in Indices!Formulas : FechasDe(f) \subseteq FechasDe(f)'
  BY <1>9
<1>16. q # Nadie => SinRepetir(q)'
  BY <1>12 DEF SinRepetir
<1>17. QED
  BY <1>0, <1>1, <1>10, <1>11, <1>12, <1>13, <1>14, <1>15, <1>16, PasoDeIndice

(* An error of the insertion is of the series' history from then on.        *)
LEMMA ErrorAlInsertarInv ==
  ASSUME IndicesInv, NEW r \in Requests, Indices!ErrorAlInsertar(r)
  PROVE  IndicesInv'
<1>1. PICK p : p = op[r]
  OBVIOUS
<1>2. PICK q : q = Indices!Siguiente(p)
  OBVIOUS
<1>3. /\ op[r] # Nadie /\ op' = [op EXCEPT ![r] = q] /\ solape' = solape
      /\ publicado' = publicado /\ serie' = serie /\ ajena' = TRUE
  BY <1>1, <1>2 DEF Indices!ErrorAlInsertar, Indices!Seguir, Nadie
<1>4. q # Nadie => PedidoDeIndice(q)
  BY <1>1, <1>2, <1>3, SiguienteVale DEF IndicesInv
<1>5. IndicesTipos'
  BY <1>3 DEF IndicesInv, IndicesTipos
<1>6. \A f : FechasDe(f) \subseteq FechasDe(f)'
  BY <1>3 DEF FechasDe, Indices!Fechas
<1>7. QED
  BY <1>3, <1>4, <1>5, <1>6, PasoDeIndice

(* What happens outside of the updates.                                     *)
LEMMA FueraDeLosPedidos ==
  ASSUME IndicesInv, op' = op, IndicesTipos', publicado <= publicado', solape => solape',
         \/ ajena'
         \/ /\ serie' = serie /\ ajena' = ajena
            /\ publicado' = publicado \/ \A r \in Requests : op[r] = Nadie
  PROVE  IndicesInv'
<1>1. \A q : PedidoDeIndice(q) => PedidoDeIndice(q)'
  <2>1. 1 .. publicado \subseteq 1 .. publicado'
    BY DEF IndicesInv, IndicesTipos
  <2>2. QED
    BY <2>1 DEF PedidoDeIndice, Indices!Hasta, Indices!NextEndDate, Indices!EndDate
<1>2. UnaSola => UnaSola'
  BY DEF UnaSola
<1>3. CASE ajena'
  BY <1>1, <1>2, <1>3 DEF IndicesInv
<1>4. CASE /\ serie' = serie /\ ajena' = ajena
           /\ publicado' = publicado \/ \A r \in Requests : op[r] = Nadie
  <2>1. \A f : FechasDe(f)' = FechasDe(f)
    BY <1>4 DEF FechasDe, Indices!Fechas
  <2>2. \A f : Contigua(f) => Contigua(f)'
    BY <2>1 DEF Contigua
  <2>3. \A q : SinRepetir(q) => SinRepetir(q)'
    BY <2>1 DEF SinRepetir
  <2>4. publicado' = publicado => \A q : Completo(q) => Completo(q)'
    BY <2>1 DEF Completo, Indices!Hasta, Indices!NextEndDate, Indices!EndDate
  <2>5. ~ solape' => ~ solape
    OBVIOUS
  <2>6. ~ ajena' => (\A r \in Requests : op[r] # Nadie => Completo(op[r]))'
    BY <1>4, <2>4 DEF IndicesInv
  <2>7. QED
    BY <1>1, <1>2, <1>4, <2>1, <2>2, <2>3, <2>5, <2>6 DEF IndicesInv
<1>5. QED
  BY <1>3, <1>4

LEMMA PasoIndices == IndicesInv /\ Indices!NextIndices => IndicesInv'
<1> SUFFICES ASSUME IndicesInv, Indices!NextIndices PROVE IndicesInv'
  OBVIOUS
<1>1. CASE Indices!Publicar
  <2>1. /\ op' = op /\ solape' = solape /\ serie' = serie
        /\ publicado < MaxFecha /\ publicado' = publicado + 1
        /\ ajena' = (ajena \/ \E r \in Requests : op[r] # Nadie)
    BY <1>1 DEF Indices!Publicar, Indices!peticiones, Indices!EnCurso, Indices!Libre, Nadie
  <2>2. ajena' \/ (ajena' = ajena /\ \A r \in Requests : op[r] = Nadie)
    BY <2>1 DEF IndicesInv, IndicesTipos
  <2>3. ajena' \in BOOLEAN
    BY <2>1
  <2>4. IndicesTipos' /\ publicado <= publicado'
    BY <2>1, <2>3, IndicesAssumption DEF IndicesInv, IndicesTipos
  <2>5. QED
    BY <2>1, <2>2, <2>4, FueraDeLosPedidos
<1>2. ASSUME NEW f \in Indices!Formulas, NEW d \in 1 .. MaxFecha, Indices!SaveIndexValue(f, d)
      PROVE  IndicesInv'
  <2>1. /\ op' = op /\ publicado' = publicado /\ ajena' = TRUE
        /\ serie' = [serie EXCEPT ![f] = [serie[f] EXCEPT ![d] = serie[f][d] + 1]]
        /\ solape' = (solape \/ Indices!EnCurso # {})
    BY <1>2 DEF Indices!SaveIndexValue, Indices!Atomica
  <2>2. serie \in [Indices!Formulas -> [1 .. MaxFecha -> Nat]] /\ serie[f] \in [1 .. MaxFecha -> Nat]
    BY DEF IndicesInv, IndicesTipos
  <2>3. PICK g : g = [serie[f] EXCEPT ![d] = serie[f][d] + 1]
    OBVIOUS
  <2>4. g \in [1 .. MaxFecha -> Nat]
    BY <2>2, <2>3
  <2>5. serie' \in [Indices!Formulas -> [1 .. MaxFecha -> Nat]]
    BY <2>1, <2>2, <2>3, <2>4
  <2>6. IndicesTipos' /\ publicado <= publicado'
    BY <2>1, <2>5 DEF IndicesInv, IndicesTipos
  <2>7. solape => solape'
    BY <2>1, Zenon
  <2>8. QED
    BY <2>1, <2>6, <2>7, FueraDeLosPedidos
<1>3. QED
  BY <1>1, <1>2, TriggerUpdateInv, BuscarExistentesInv, SinRespuestaInv, InsertManyInv,
     ErrorAlInsertarInv DEF Indices!NextIndices

----------------------------------------------------------------------------
(* The history: sequences put one after another.                            *)

(* FlattenSeq's function exists, for any number of sequences.               *)
LEMMA AplanarExiste ==
  ASSUME NEW s, NEW N \in Nat
  PROVE  \E g : g = [i \in 1 .. N |-> IF i = 1 THEN s[i] ELSE g[i - 1] \o s[i]]
<1> DEFINE Es(g, n) == g = [i \in 1 .. n |-> IF i = 1 THEN s[i] ELSE g[i - 1] \o s[i]]
           T == {n \in Nat : ~ \E g : Es(g, n)}
<1>1. SUFFICES ASSUME T # {} PROVE FALSE
  OBVIOUS
<1>2. PICK n \in T : \A m \in T : n <= m
  <2> HIDE DEF T
  <2>1. T \subseteq Nat
    BY DEF T
  <2>2. QED
    BY <1>1, <2>1, Primero
<1>3. CASE n = 0
  <2>1. PICK g : g = [i \in 1 .. 0 |-> 0]
    OBVIOUS
  <2>2. Es(g, 0)
    BY <2>1
  <2>3. QED
    BY <1>2, <1>3, <2>2
<1>4. CASE n # 0
  <2>1. n - 1 \in Nat /\ n \in Nat /\ n - 1 \notin T
    <3>1. T \subseteq Nat
      OBVIOUS
    <3> HIDE DEF T
    <3>2. n \in Nat /\ n - 1 \in Nat
      BY <3>1, <1>2, <1>4
    <3>3. QED
      BY <3>2, <1>2
  <2>2. PICK g : Es(g, n - 1)
    BY <2>1
  <2>3. PICK h : h = [i \in 1 .. n |-> IF i = n THEN (IF n = 1 THEN s[n] ELSE g[n - 1] \o s[n]) ELSE g[i]]
    OBVIOUS
  <2>4. \A i \in 1 .. n - 1 : h[i] = g[i] /\ g[i] = IF i = 1 THEN s[i] ELSE g[i - 1] \o s[i]
    <3>1. \A i \in 1 .. n - 1 : g[i] = IF i = 1 THEN s[i] ELSE g[i - 1] \o s[i]
      BY <2>2
    <3>2. \A i \in 1 .. n - 1 : i \in 1 .. n /\ i # n
      BY <2>1
    <3>3. \A i \in 1 .. n - 1 : h[i] = g[i]
      BY <2>3, <3>2
    <3>4. QED
      BY <3>1, <3>3
  <2>5. \A i \in 1 .. n : h[i] = IF i = 1 THEN s[i] ELSE h[i - 1] \o s[i]
    <3>1. TAKE i \in 1 .. n
    <3>2. CASE i = n
      <4>1. h[n] = IF n = 1 THEN s[n] ELSE g[n - 1] \o s[n]
        BY <2>1, <2>3, <3>2
      <4>2. n # 1 => h[n - 1] = g[n - 1]
        BY <2>1, <2>4
      <4>3. QED
        BY <3>2, <4>1, <4>2
    <3>3. CASE i # n
      <4>1. i \in 1 .. n - 1 /\ (i # 1 => i - 1 \in 1 .. n - 1)
        BY <2>1, <3>3
      <4>2. QED
        BY <4>1, <2>4
    <3>4. QED
      BY <3>2, <3>3
  <2>6. h = [i \in 1 .. n |-> h[i]]
    BY <2>3
  <2>7. Es(h, n)
    BY <2>5, <2>6
  <2>8. QED
    BY <1>2, <2>7
<1>5. QED
  BY <1>3, <1>4

Baja(t) == t \in Seq(Int) /\ \A k \in 2 .. Len(t) : t[k] < t[k - 1]

LEMMA BajaMas ==
  ASSUME NEW t, Baja(t), NEW c \in Int, NEW u \in {<<>>, <<c>>}, \A k \in 1 .. Len(t) : c < t[k]
  PROVE  Baja(t \o u) /\ \A k \in 1 .. Len(t \o u) : c <= (t \o u)[k]
<1>1. t \in Seq(Int) /\ Len(t) \in Nat
  BY DEF Baja
<1>2. u \in Seq(Int) /\ Len(u) \in {0, 1} /\ (Len(u) = 1 => u[1] = c)
  <2>1. CASE u = <<>>
    BY <2>1
  <2>2. CASE u = <<c>>
    BY <2>2
  <2>3. QED
    BY <2>1, <2>2
<1> DEFINE v == t \o u
<1>3. /\ v \in Seq(Int) /\ Len(v) = Len(t) + Len(u)
      /\ \A k \in 1 .. Len(v) : v[k] = IF k <= Len(t) THEN t[k] ELSE u[k - Len(t)]
  BY <1>1, <1>2, ConcatProperties
<1> HIDE DEF v
<1>4. \A k \in 1 .. Len(v) : IF k <= Len(t) THEN v[k] = t[k] ELSE k = Len(t) + 1 /\ v[k] = c
  <2>1. TAKE k \in 1 .. Len(v)
  <2>2. k \in Nat /\ 1 <= k /\ k <= Len(t) + Len(u)
    BY <1>1, <1>2, <1>3
  <2>3. CASE k <= Len(t)
    BY <1>3, <2>3
  <2>4. CASE ~ (k <= Len(t))
    <3>1. ASSUME NEW a \in Nat, NEW b \in {0, 1}, NEW j \in Nat, ~ (j <= a), j <= a + b
          PROVE  b = 1 /\ j = a + 1 /\ j - a = 1
      BY <3>1
    <3>2. Len(u) = 1 /\ k = Len(t) + 1 /\ k - Len(t) = 1
      BY <1>1, <1>2, <2>2, <2>4, <3>1
    <3>3. QED
      BY <1>2, <1>3, <3>2, <2>4
  <2>5. QED
    BY <2>3, <2>4
<1>5. \A k \in 1 .. Len(t) : t[k] \in Int
  BY <1>1
<1>6. \A k \in 1 .. Len(v) : c <= v[k]
  <2>1. TAKE k \in 1 .. Len(v)
  <2>2. CASE k <= Len(t)
    <3>1. k \in 1 .. Len(t) /\ v[k] = t[k]
      BY <1>1, <1>2, <1>3, <1>4, <2>2
    <3>2. QED
      BY <1>5, <3>1
  <2>3. CASE ~ (k <= Len(t))
    BY <1>4, <2>3
  <2>4. QED
    BY <2>2, <2>3
<1>7. \A k \in 2 .. Len(v) : v[k] < v[k - 1]
  <2>1. TAKE k \in 2 .. Len(v)
  <2>2. k \in 1 .. Len(v) /\ k - 1 \in 1 .. Len(v) /\ k \in Nat
    BY <1>1, <1>2, <1>3
  <2>3. CASE k <= Len(t)
    <3>1. k \in 2 .. Len(t) /\ k - 1 <= Len(t)
      BY <1>1, <2>2, <2>3
    <3>2. v[k] = t[k] /\ v[k - 1] = t[k - 1]
      BY <1>4, <2>2, <2>3, <3>1
    <3>3. QED
      BY <3>1, <3>2 DEF Baja
  <2>4. CASE ~ (k <= Len(t))
    <3>1. k = Len(t) + 1 /\ v[k] = c
      <4>1. k \in 1 .. Len(v)
        BY <2>2
      <4>2. QED
        BY <1>4, <2>4, <4>1
    <3>2. k - 1 \in 1 .. Len(t) /\ v[k - 1] = t[k - 1]
      BY <1>1, <1>4, <2>2, <3>1
    <3>3. QED
      BY <3>1, <3>2
  <2>5. QED
    BY <2>3, <2>4
<1>8. QED
  BY <1>3, <1>6, <1>7 DEF Baja, v

LEMMA UnoBaja ==
  ASSUME NEW u \in Seq(Int), Len(u) \in {0, 1}
  PROVE  Baja(u)
<1>1. \A n \in {0, 1} : \A k \in 2 .. n : FALSE
  OBVIOUS
<1>2. QED
  BY <1>1 DEF Baja

(* What is flattened, one at most of each date from the last, goes down.    *)
LEMMA AplanadaBaja ==
  ASSUME NEW N \in Nat, NEW s, s = [i \in 1 .. N |-> s[i]], NEW c \in Int,
         \A i \in 1 .. N : s[i] \in {<<>>, <<c - i>>}
  PROVE  Baja(Indices!FlattenSeq(s))
<1>1. s \in Seq({s[i] : i \in 1 .. N}) /\ Len(s) = N
  <2>1. s \in [1 .. N -> {s[i] : i \in 1 .. N}]
    OBVIOUS
  <2>2. QED
    BY <2>1
<1>2. CASE N = 0
  BY <1>1, <1>2 DEF Indices!FlattenSeq, Baja
<1>3. CASE N # 0
  <2> DEFINE Def(g) == g = [i \in 1 .. N |-> IF i = 1 THEN s[i] ELSE g[i - 1] \o s[i]]
  <2>1. \E g : Def(g)
    BY AplanarExiste
  <2>2. PICK g : Def(g) /\ Indices!FlattenSeq(s) = g[N]
    <3>1. Def(CHOOSE g : Def(g))
      BY <2>1
    <3>2. Indices!FlattenSeq(s) = (CHOOSE g : Def(g))[N]
      BY <1>1, <1>3 DEF Indices!FlattenSeq
    <3>3. QED
      BY <3>1, <3>2
  <2> DEFINE Bien(i) == Baja(g[i]) /\ \A k \in 1 .. Len(g[i]) : c - i <= g[i][k]
             T == {i \in 1 .. N : ~ Bien(i)}
  <2>3. SUFFICES ASSUME T # {} PROVE FALSE
    <3>1. N \in 1 .. N
      BY <1>3
    <3>2. Bien(N)
      <4> HIDE DEF Bien
      <4>1. QED
        BY <2>3, <3>1
    <3>3. Baja(g[N])
      BY <3>2, Zenon
    <3>4. QED
      BY <2>2, <3>3, Zenon
  <2>4. PICK i \in T : \A j \in T : i <= j
    <3> HIDE DEF T
    <3>1. T \subseteq Nat
      BY DEF T
    <3>2. QED
      BY <2>3, <3>1, Primero
  <2>5. i \in 1 .. N /\ ~ Bien(i)
    BY <2>4
  <2>6. CASE i = 1
    <3>1. g[i] = s[1] /\ s[1] \in {<<>>, <<c - 1>>} /\ c - 1 \in Int
      BY <2>2, <2>5, <2>6
    <3>2. ASSUME NEW e \in Int, NEW u, u = <<>> \/ u = <<e>>
          PROVE  u \in Seq(Int) /\ Len(u) \in {0, 1} /\ \A k \in 1 .. Len(u) : u[k] = e
      <4>1. CASE u = <<>>
        BY <4>1
      <4>2. CASE u = <<e>>
        BY <4>2
      <4>3. QED
        BY <3>2, <4>1, <4>2
    <3>3. g[i] \in Seq(Int) /\ Len(g[i]) \in {0, 1} /\ \A k \in 1 .. Len(g[i]) : g[i][k] = c - 1
      BY <3>1, <3>2
    <3>4. Baja(g[i])
      <4>1. PICK u : u = g[i]
        OBVIOUS
      <4>2. u \in Seq(Int) /\ Len(u) \in {0, 1}
        BY <3>3, <4>1, Zenon
      <4>3. QED
        BY <4>1, <4>2, UnoBaja
    <3>5. \A k \in 1 .. Len(g[i]) : c - i <= g[i][k]
      <4>1. c - 1 <= c - 1
        BY <3>1
      <4>2. QED
        BY <2>6, <3>3, <4>1, Zenon
    <3>6. QED
      BY <2>5, <3>4, <3>5, Zenon
  <2>7. CASE i # 1
    <3>1. i - 1 \in 1 .. N /\ i - 1 \notin T
      BY <2>4, <2>5, <2>7
    <3>2. Bien(i - 1)
      BY <3>1
    <3>3. g[i] = g[i - 1] \o s[i] /\ s[i] \in {<<>>, <<c - i>>}
      BY <2>2, <2>5, <2>7
    <3>4. c - i \in Int /\ \A k \in 1 .. Len(g[i - 1]) : c - i < g[i - 1][k]
      <4>1. i \in Int /\ c - i \in Int /\ c - i < c - (i - 1)
        BY <2>5
      <4>2. PICK u : u = g[i - 1]
        OBVIOUS
      <4>3. u \in Seq(Int) /\ \A k \in 1 .. Len(u) : c - (i - 1) <= u[k]
        BY <3>2, <4>2, Zenon DEF Baja
      <4>4. \A k \in 1 .. Len(u) : u[k] \in Int
        BY <4>3
      <4>5. \A k \in 1 .. Len(u) : c - i < u[k]
        <5> HIDE DEF T
        <5>1. TAKE k \in 1 .. Len(u)
        <5>2. c - (i - 1) <= u[k] /\ u[k] \in Int /\ c - (i - 1) \in Int
          BY <4>1, <4>3, <4>4
        <5>3. QED
          BY <4>1, <5>2
      <4>6. QED
        BY <4>1, <4>2, <4>5, Zenon
    <3>5. Bien(i)
      BY <3>2, <3>3, <3>4, BajaMas
    <3>6. QED
      BY <3>5, <2>5
  <2>8. QED
    BY <2>6, <2>7
<1>4. QED
  BY <1>2, <1>3

(* What is published once is told once, the latest first.                   *)
LEMMA HistoriaBaja ==
  ASSUME IndicesTipos, NEW f \in Indices!Formulas, NEW n \in 1 .. MaxFecha,
         \A d \in 1 .. MaxFecha : serie[f][d] \in {0, 1}
  PROVE  LET h == Indices!GetIndexHistory(f, n)
         IN  \A i \in 2 .. Len(h) : h[i] < h[i - 1]
<1> DEFINE rep == [i \in 1 .. MaxFecha |->
                     [k \in 1 .. serie[f][MaxFecha + 1 - i] |-> MaxFecha + 1 - i]]
           t == Indices!FlattenSeq(rep)
           m == Indices!Min({n, Len(t)})
<1>1. MaxFecha \in Nat
  BY IndicesAssumption
<1>2. \A i \in 1 .. MaxFecha : rep[i] \in {<<>>, <<MaxFecha + 1 - i>>}
  <2>1. TAKE i \in 1 .. MaxFecha
  <2>2. MaxFecha + 1 - i \in 1 .. MaxFecha
    BY <1>1
  <2>3. ASSUME NEW e \in Int
        PROVE  [k \in 1 .. 0 |-> e] = <<>> /\ [k \in 1 .. 1 |-> e] = <<e>>
    OBVIOUS
  <2>4. serie[f][MaxFecha + 1 - i] \in {0, 1}
    BY <2>2
  <2>5. QED
    BY <2>2, <2>3, <2>4
<1>3. rep = [i \in 1 .. MaxFecha |-> rep[i]]
  OBVIOUS
<1>4. Indices!GetIndexHistory(f, n) = SubSeq(t, 1, m)
  BY DEF Indices!GetIndexHistory
<1> HIDE DEF rep
<1>5. Baja(t)
  <2>1. PICK c \in Int : c = MaxFecha + 1
    BY <1>1
  <2>2. \A i \in 1 .. MaxFecha : rep[i] \in {<<>>, <<c - i>>}
    <3>1. TAKE i \in 1 .. MaxFecha
    <3>2. i \in Int /\ MaxFecha \in Int
      BY <1>1
    <3>3. MaxFecha + 1 - i = c - i
      BY <2>1, <3>2
    <3>4. QED
      BY <1>2, <3>3, Zenon
  <2>3. QED
    BY <1>1, <1>3, <2>2, AplanadaBaja
<1> HIDE DEF t
<1>6. m \in Nat /\ m <= Len(t) /\ t \in Seq(Int) /\ Len(t) \in Nat
  <2>1. n \in Nat /\ Len(t) \in Nat /\ t \in Seq(Int)
    BY <1>1, <1>5 DEF Baja
  <2>2. \E x \in {n, Len(t)} : \A y \in {n, Len(t)} : x <= y
    BY <2>1
  <2>3. m \in {n, Len(t)} /\ \A y \in {n, Len(t)} : m <= y
    BY <2>2 DEF Indices!Min
  <2> HIDE DEF m
  <2>4. QED
    BY <2>1, <2>3
<1> HIDE DEF m
<1>7. PICK h : h = SubSeq(t, 1, m)
  OBVIOUS
<1>8. Len(h) = m /\ \A i \in 1 .. m : h[i] = t[i]
  BY <1>6, <1>7
<1>9. \A i \in 2 .. m : i \in 2 .. Len(t) /\ i \in 1 .. m /\ i - 1 \in 1 .. m
  BY <1>6
<1>10. \A i \in 2 .. Len(h) : h[i] < h[i - 1]
  BY <1>5, <1>8, <1>9 DEF Baja
<1>11. QED
  BY <1>4, <1>7, <1>10

(* The value of a date is that of the date, or of the month before.         *)
LEMMA ValoresDefinitivos ==
  ASSUME IndicesTipos, \A f \in Indices!Formulas : Contigua(f)
  PROVE  Indices!ValorDefinitivo
<1>1. "ICL" \in Indices!Formulas /\ "IPC" \in Indices!Formulas
  BY IndicesAssumption DEF Indices!Formulas
<1>2. MaxFecha \in Nat
  BY IndicesAssumption
<1>3. ASSUME NEW f \in Indices!Formulas, NEW d \in 1 .. MaxFecha, NEW e \in 1 .. d,
             \E x \in Indices!UltimaHasta(f, MaxFecha) : d <= x
      PROVE  e \in Indices!Fechas(f) /\ Indices!UltimaHasta(f, e) = {e}
  <2>1. Indices!Fechas(f) \subseteq 1 .. MaxFecha
    BY DEF Indices!Fechas
  <2>2. PICK x \in Indices!Fechas(f) : d <= x
    <3>1. {y \in Indices!Fechas(f) : y <= MaxFecha} = Indices!Fechas(f)
      BY <1>2, <2>1
    <3>2. Indices!Fechas(f) # {} /\ d <= Indices!Max(Indices!Fechas(f))
      BY <1>3, <3>1 DEF Indices!UltimaHasta
    <3>3. Indices!Max(Indices!Fechas(f)) \in Indices!Fechas(f)
      BY <1>2, <2>1, <3>2, Ultimo
    <3>4. QED
      BY <3>2, <3>3
  <2>3. e \in 1 .. x
    BY <1>2, <2>1, <2>2
  <2>4. e \in Indices!Fechas(f)
    BY <2>2, <2>3 DEF Contigua, FechasDe
  <2> DEFINE S == {y \in Indices!Fechas(f) : y <= e}
  <2>5. e \in S /\ S \subseteq 1 .. MaxFecha /\ \A y \in S : y <= e
    BY <1>2, <2>1, <2>4
  <2>6. Indices!Max(S) = e
    <3> HIDE DEF S
    <3>1. Indices!Max(S) \in S /\ \A y \in S : y <= Indices!Max(S)
      BY <1>2, <2>5, Ultimo
    <3>2. PICK m : m = Indices!Max(S)
      OBVIOUS
    <3>3. m <= e /\ e <= m
      BY <2>5, <3>1, <3>2, Zenon
    <3>4. S \subseteq Int
      BY <2>5
    <3>5. m \in Int /\ e \in Int
      BY <2>5, <3>1, <3>2, <3>4, Zenon
    <3>6. QED
      BY <3>2, <3>3, <3>5
  <2>7. QED
    BY <2>4, <2>5, <2>6 DEF Indices!UltimaHasta
<1>4. ASSUME NEW d \in 1 .. MaxFecha, \E e \in Indices!GetLatestIndexValue("ICL") : d <= e
      PROVE  Indices!GetLatestICLValueBeforeDate(d) = {d} /\ Indices!GetICLValueByDate(d) = {d}
  <2>1. d \in 1 .. d
    BY <1>2
  <2>2. d \in Indices!Fechas("ICL") /\ Indices!UltimaHasta("ICL", d) = {d}
    BY <1>1, <1>3, <1>4, <2>1 DEF Indices!GetLatestIndexValue
  <2>3. QED
    BY <2>2 DEF Indices!GetLatestICLValueBeforeDate, Indices!GetICLValueByDate
<1>5. ASSUME NEW d \in 1 .. MaxFecha, d > 1, \E e \in Indices!GetLatestIPCDate : d <= e
      PROVE  Indices!GetIPCValueByDate(d, FALSE) = {d - 1}
  <2>1. d - 1 \in 1 .. d
    BY <1>2, <1>5
  <2>2. Indices!UltimaHasta("IPC", d - 1) = {d - 1}
    BY <1>1, <1>3, <1>5, <2>1 DEF Indices!GetLatestIPCDate
  <2>3. QED
    BY <2>2 DEF Indices!GetIPCValueByDate
<1>6. QED
  BY <1>4, <1>5 DEF Indices!ValorDefinitivo

LEMMA SeriesInv == IndicesInv => Indices!SerieSinHuecos
<1> SUFFICES ASSUME IndicesInv, ~ ajena
             PROVE  /\ Indices!SinHuecos /\ Indices!ValorDefinitivo
                    /\ ~ solape => Indices!UnaVezCadaFecha
  BY DEF Indices!SerieSinHuecos
<1>1. IndicesTipos /\ \A f \in Indices!Formulas : Contigua(f)
  BY DEF IndicesInv
<1>2. Indices!SinHuecos
  BY <1>1 DEF Indices!SinHuecos, Contigua, FechasDe
<1>3. ASSUME ~ solape PROVE Indices!UnaVezCadaFecha
  <2>1. \A f \in Indices!Formulas : \A d \in 1 .. MaxFecha : serie[f][d] \in {0, 1}
    BY <1>3 DEF IndicesInv
  <2>2. \A f \in Indices!Formulas : \A d \in Indices!Fechas(f) : serie[f][d] = 1
    BY <2>1 DEF Indices!Fechas
  <2>3. QED
    BY <1>1, <2>1, <2>2, HistoriaBaja DEF Indices!UnaVezCadaFecha
<1>4. QED
  BY <1>1, <1>2, <1>3, ValoresDefinitivos

(* IndexValues: unless an insertion fails or a value is published or stored *)
(* by hand under an update, no series has a gap, so that the value a rent   *)
(* is adjusted with is that of its date whenever it is asked for; and until *)
(* two updates overlap each date is stored and told once                    *)
(* (index-scrapper.service.ts, updateICL; index-value.service.ts).          *)
THEOREM SerieSiempreSinHuecos == Spec => []SerieSinHuecos
<1> DEFINE I == foco = "indices" => IndicesInv
<1>1. Init => I
  BY InitIndicesInv
<1>2. I /\ [Next]_registrosVars => I'
  <2> SUFFICES ASSUME I, [Next]_registrosVars, foco' = "indices" PROVE IndicesInv'
    OBVIOUS
  <2>1. CASE Next
    <3>1. foco = "indices"
      BY <2>1 DEF Next, LosDemas
    <3>2. QED
      BY <2>1, <3>1, PasoIndices DEF Next
  <2>2. CASE UNCHANGED registrosVars
    <3>1. /\ foco = "indices" /\ op' = op /\ solape' = solape
          /\ publicado' = publicado /\ serie' = serie /\ ajena' = ajena
      BY <2>2 DEF registrosVars, peticionesVars, indicesVars
    <3>2. IndicesTipos' /\ publicado <= publicado'
      BY <3>1 DEF IndicesInv, IndicesTipos
    <3>3. QED
      BY <3>1, <3>2, FueraDeLosPedidos
  <2>3. QED
    BY <2>1, <2>2
<1>3. I => SerieSinHuecos
  BY SeriesInv DEF SerieSinHuecos
<1>4. QED
  BY <1>1, <1>2, <1>3, PTL DEF Spec

----------------------------------------------------------------------------
(* PropertyFiles.  A list names each file once and has one cover at most,   *)
(* and so have the copies that requests make of one.  Until two overlap or  *)
(* one dies, the disk agrees with the document as the request in progress   *)
(* will leave it.                                                           *)

EntradaDe(d) == [n : 1 .. d, portada : BOOLEAN]
ListaDe(s, d) ==
  /\ s \in Seq(EntradaDe(d))
  /\ \A i, j \in DOMAIN s : s[i].n = s[j].n => i = j
  /\ \A i, j \in DOMAIN s : s[i].portada /\ s[j].portada => i = j
SateliteDe(d) == [n : 0 .. d, calibrada : BOOLEAN]

CamposDeSubida == {"paso", "t", "copia", "faltan"}
PedidoDeArchivos(q) ==
  \/ /\ q.paso = "procesar" /\ q = [f \in CamposDeSubida |-> q[f]] /\ q.faltan \in Nat
     /\ q.t \in Ficheros!Tipos /\ ListaDe(q.copia, dados)
  \/ q.paso \in {"eliminar", "escribir"} /\ q.t \in Ficheros!Tipos /\ ListaDe(q.copia, dados)
  \/ q.paso \in {"quitarSatelite", "guardarSatelite"}
  \/ q.paso = "escribirSatelite" /\ q.s \in SateliteDe(dados)

ArchivosTipos ==
  /\ dados \in Nat /\ disco \subseteq 1 .. dados /\ muertes \in Nat
  /\ lista = [t \in Ficheros!Tipos |-> lista[t]] /\ \A t \in Ficheros!Tipos : ListaDe(lista[t], dados)
  /\ satelite \in SateliteDe(dados)

(* The names of a document, by the place that has them.                     *)
Lugares == Ficheros!Tipos \cup {"satelite"}
NombresDe(s) == Ficheros!Nombres(s)
DelSatelite(s) == {s.n} \ {Ficheros!SinArchivo}
Documento == [k \in Lugares |-> IF k = "satelite" THEN DelSatelite(satelite) ELSE NombresDe(lista[k])]

(* The document as a request will leave it, for the disk.                   *)
Previsto(q) ==
  IF q.paso = "procesar" \/ (q.paso = "escribir" /\ ~ q.reordena)
  THEN [Documento EXCEPT ![q.t] = NombresDe(q.copia)]
  ELSE IF q.paso = "guardarSatelite" THEN [Documento EXCEPT !["satelite"] = {}]
  ELSE IF q.paso = "escribirSatelite" THEN [Documento EXCEPT !["satelite"] = DelSatelite(q.s)]
  ELSE Documento

Concuerda(doc) ==
  /\ \A k \in Lugares : doc[k] \subseteq disco
  /\ \A n \in disco : n \in sueltos \/ \E k \in Lugares : n \in doc[k]
  /\ \A k, l \in Lugares : k # l => doc[k] \cap doc[l] = {}

EnMarcha(q) ==
  /\ Concuerda(Previsto(q))
  /\ q.paso = "eliminar" => /\ q.n \in NombresDe(lista[q.t])
                            /\ NombresDe(q.copia) = NombresDe(lista[q.t]) \ {q.n}
  /\ q.paso = "escribir" => /\ q.reordena \in BOOLEAN
                            /\ q.reordena => NombresDe(q.copia) \subseteq NombresDe(lista[q.t])
  /\ q.paso = "quitarSatelite" => q.n = satelite.n

ArchivosInv ==
  /\ ArchivosTipos
  /\ op = [r \in Requests |-> op[r]]
  /\ \A r \in Requests : op[r] # Nadie => PedidoDeArchivos(op[r])
  /\ ~ solape /\ muertes = 0 =>
       /\ UnaSola
       /\ \A r \in Requests : op[r] # Nadie => EnMarcha(op[r])
       /\ (\A r \in Requests : op[r] = Nadie) => Concuerda(Documento)

LEMMA CardinalArchivos == \A S : Ficheros!Cardinality(S) = Cardinality(S)
BY DEF Ficheros!Cardinality, Cardinality

LEMMA InitArchivosInv == Init => ArchivosInv
<1> SUFFICES ASSUME Init PROVE ArchivosInv
  OBVIOUS
<1>1. /\ lista = [t \in Ficheros!Tipos |-> <<>>] /\ satelite = [n |-> 0, calibrada |-> FALSE]
      /\ disco = {} /\ dados = 0 /\ sueltos = {}
  BY DEF Init, Ficheros!InitArchivos, Ficheros!SinSatelite, Ficheros!SinArchivo
<1>2. op = [r \in Requests |-> op[r]] /\ \A r \in Requests : op[r] = Nadie
  BY InitPeticiones
<1>3. ArchivosTipos
  BY <1>1, InitPeticiones DEF ArchivosTipos, ListaDe, SateliteDe
<1>4. \A k \in Lugares : Documento[k] = {}
  BY <1>1 DEF Documento, Lugares, DelSatelite, NombresDe, Ficheros!Nombres, Ficheros!SinArchivo
<1>5. Concuerda(Documento)
  BY <1>1, <1>4 DEF Concuerda
<1>6. QED
  BY <1>2, <1>3, <1>5 DEF ArchivosInv, UnaSola

(* What is added to a list, taken from it, put in another order or marked.  *)
LEMMA ListaMayor ==
  ASSUME NEW d \in Nat, NEW e \in Nat, d <= e, NEW s, ListaDe(s, d)
  PROVE  ListaDe(s, e)
<1>1. EntradaDe(d) \subseteq EntradaDe(e)
  BY DEF EntradaDe
<1>2. s \in Seq(EntradaDe(e))
  BY <1>1 DEF ListaDe
<1>3. QED
  BY <1>2 DEF ListaDe

LEMMA ListaAgregada ==
  ASSUME NEW d \in Nat, NEW s, ListaDe(s, d), NEW b \in BOOLEAN, b => s = <<>>,
         NEW x, x = Append(s, [n |-> d + 1, portada |-> b])
  PROVE  ListaDe(x, d + 1) /\ NombresDe(x) = NombresDe(s) \cup {d + 1}
<1>1. PICK m \in Nat : m = Len(s)
  BY DEF ListaDe
<1>2. s \in Seq(EntradaDe(d)) /\ ListaDe(s, d + 1)
  BY ListaMayor DEF ListaDe
<1>3. PICK e : e = [n |-> d + 1, portada |-> b]
  OBVIOUS
<1>4. e \in EntradaDe(d + 1) /\ e.n = d + 1 /\ e.portada = b
  BY <1>3 DEF EntradaDe
<1>5. s \in Seq(EntradaDe(d + 1)) /\ DOMAIN s = 1 .. m
  BY <1>1, <1>2 DEF ListaDe
<1>6. /\ x \in Seq(EntradaDe(d + 1)) /\ DOMAIN x = 1 .. m + 1
      /\ x[m + 1] = e /\ \A i \in 1 .. m : x[i] = s[i]
  BY <1>1, <1>3, <1>4, <1>5
<1>7. \A i \in 1 .. m : s[i].n \in 1 .. d
  <2>1. ASSUME NEW i \in 1 .. m PROVE s[i].n \in 1 .. d
    <3>1. s[i] \in EntradaDe(d)
      BY <1>2, <1>5, <2>1
    <3> QED
      BY <3>1 DEF EntradaDe
  <2> QED
    BY <2>1
<1>8. \A i, j \in DOMAIN x : x[i].n = x[j].n => i = j
  <2>1. ASSUME NEW i \in 1 .. m + 1, NEW j \in 1 .. m + 1, x[i].n = x[j].n
        PROVE  i = j
    <3>1. CASE i \in 1 .. m /\ j \in 1 .. m
      BY <1>5, <1>6, <2>1, <3>1 DEF ListaDe
    <3>2. CASE i = m + 1 \/ j = m + 1
      BY <1>4, <1>6, <1>7, <2>1, <3>2
    <3> QED
      BY <3>1, <3>2
  <2> QED
    BY <1>6, <2>1
<1>9. \A i, j \in DOMAIN x : x[i].portada /\ x[j].portada => i = j
  <2>1. CASE b
    <3>1. m = 0
      BY <1>1, <2>1
    <3> QED
      BY <1>6, <3>1
  <2>2. CASE ~ b
    <3>1. \A i \in DOMAIN x : x[i].portada => i \in 1 .. m
      BY <1>4, <1>6, <2>2
    <3> QED
      BY <1>5, <1>6, <3>1 DEF ListaDe
  <2> QED
    BY <2>1, <2>2
<1>10. NombresDe(x) = NombresDe(s) \cup {d + 1}
  <2>1. 1 .. m + 1 = (1 .. m) \cup {m + 1}
    OBVIOUS
  <2> QED
    BY <1>4, <1>5, <1>6, <2>1 DEF NombresDe, Ficheros!Nombres
<1>11. QED
  BY <1>6, <1>8, <1>9, <1>10 DEF ListaDe
LEMMA ListaSinUno ==
  ASSUME NEW d \in Nat, NEW s, ListaDe(s, d), NEW i \in DOMAIN s,
         NEW x, x = Ficheros!RemoveAt(s, i)
  PROVE  ListaDe(x, d) /\ NombresDe(x) = NombresDe(s) \ {s[i].n}
<1>1. PICK m \in Nat : m = Len(s)
  BY DEF ListaDe
<1>2. s \in Seq(EntradaDe(d)) /\ DOMAIN s = 1 .. m /\ i \in 1 .. m
  BY <1>1 DEF ListaDe
<1>3. PICK a, b : a = SubSeq(s, 1, i - 1) /\ b = SubSeq(s, i + 1, m) /\ x = a \o b
  BY <1>1 DEF Ficheros!RemoveAt
<1>4. /\ a \in Seq(EntradaDe(d)) /\ Len(a) = i - 1 /\ \A j \in 1 .. i - 1 : a[j] = s[j]
      /\ b \in Seq(EntradaDe(d)) /\ Len(b) = m - i /\ \A j \in 1 .. m - i : b[j] = s[j + i]
  <2>1. a \in Seq(EntradaDe(d)) /\ b \in Seq(EntradaDe(d))
    BY <1>2, <1>3
  <2>2. Len(a) = i - 1
    BY <1>2, <1>3
  <2>5. \A j \in 1 .. i - 1 : a[j] = s[j]
    BY <1>2, <1>3
  <2>3. Len(b) = m - i
    BY <1>2, <1>3
  <2>4. \A j \in 1 .. m - i : b[j] = s[j + i]
    <3>1. PICK k \in Nat : k = i + 1
      BY <1>2
    <3>2. \A j \in k .. m : s[j] \in EntradaDe(d)
      BY <1>2, <3>1
    <3>3. \A j \in 1 .. m - k + 1 : SubSeq(s, k, m)[j] = s[k + j - 1]
      BY <3>2, SubSeqProperties
    <3>4. ASSUME NEW j \in 1 .. m - i PROVE b[j] = s[j + i]
      <4>1. j \in 1 .. m - k + 1 /\ k + j - 1 = j + i
        BY <1>2, <3>1
      <4> QED
        BY <1>3, <3>1, <3>3, <4>1
    <3> QED
      BY <3>4
  <2> QED
    BY <2>1, <2>2, <2>3, <2>4, <2>5
<1>5. /\ x \in Seq(EntradaDe(d)) /\ DOMAIN x = 1 .. m - 1
      /\ \A j \in 1 .. m - 1 : x[j] = IF j < i THEN s[j] ELSE s[j + 1]
  <2>1. /\ x \in Seq(EntradaDe(d)) /\ Len(x) = (i - 1) + (m - i)
        /\ \A j \in 1 .. (i - 1) + (m - i) : x[j] = IF j <= i - 1 THEN a[j] ELSE b[j - (i - 1)]
    <3>1. a \in Seq(EntradaDe(d)) /\ b \in Seq(EntradaDe(d))
      BY <1>4
    <3>2. /\ a \o b \in Seq(EntradaDe(d)) /\ Len(a \o b) = Len(a) + Len(b)
          /\ \A j \in 1 .. Len(a) + Len(b) :
               (a \o b)[j] = IF j <= Len(a) THEN a[j] ELSE b[j - Len(a)]
      BY <3>1, ConcatProperties
    <3>3. Len(a) = i - 1 /\ Len(b) = m - i
      BY <1>4
    <3> QED
      BY <1>3, <3>2, <3>3
  <2>2. (i - 1) + (m - i) = m - 1
    BY <1>2
  <2>3. ASSUME NEW j \in 1 .. m - 1 PROVE x[j] = IF j < i THEN s[j] ELSE s[j + 1]
    <3>1. x[j] = IF j <= i - 1 THEN a[j] ELSE b[j - (i - 1)]
      BY <2>1, <2>2
    <3>2. CASE j < i
      <4>1. j \in 1 .. i - 1 /\ j <= i - 1
        BY <1>2, <3>2
      <4> QED
        BY <1>4, <3>1, <3>2, <4>1
    <3>3. CASE ~ (j < i)
      <4>1. PICK k \in Int : k = j - (i - 1)
        BY <1>2
      <4>2. k \in 1 .. m - i /\ k + i = j + 1 /\ ~ (j <= i - 1)
        BY <1>2, <3>3, <4>1
      <4> QED
        BY <1>4, <3>1, <3>3, <4>1, <4>2
    <3> QED
      BY <3>2, <3>3
  <2> QED
    BY <2>1, <2>2, <2>3
<1>6. PICK g : g = [j \in 1 .. m - 1 |-> IF j < i THEN j ELSE j + 1]
  OBVIOUS
<1>7. /\ \A j \in 1 .. m - 1 : g[j] \in (1 .. m) \ {i} /\ x[j] = s[g[j]]
      /\ \A j, k \in 1 .. m - 1 : g[j] = g[k] => j = k
      /\ \A k \in (1 .. m) \ {i} : \E j \in 1 .. m - 1 : g[j] = k
  <2>1. \A j \in 1 .. m - 1 : g[j] = IF j < i THEN j ELSE j + 1
    BY <1>6
  <2>2. ASSUME NEW k \in (1 .. m) \ {i} PROVE \E j \in 1 .. m - 1 : g[j] = k
    <3>1. CASE k < i
      <4>1. k \in 1 .. m - 1
        BY <1>2, <2>2, <3>1
      <4> QED
        BY <2>1, <3>1, <4>1
    <3>2. CASE k > i
      <4>1. k - 1 \in 1 .. m - 1 /\ ~ (k - 1 < i)
        BY <1>2, <2>2, <3>2
      <4> QED
        BY <2>1, <4>1
    <3> QED
      BY <1>2, <2>2, <3>1, <3>2
  <2>3. \A j \in 1 .. m - 1 : g[j] \in (1 .. m) \ {i} /\ x[j] = s[g[j]]
    BY <1>2, <1>5, <2>1
  <2>4. \A j, k \in 1 .. m - 1 : g[j] = g[k] => j = k
    BY <1>2, <2>1
  <2> QED
    BY <2>2, <2>3, <2>4
<1>8. \A j, k \in DOMAIN x : x[j].n = x[k].n => j = k
  <2>1. ASSUME NEW j \in 1 .. m - 1, NEW k \in 1 .. m - 1, x[j].n = x[k].n
        PROVE  g[j] = g[k]
    <3>1. g[j] \in DOMAIN s /\ g[k] \in DOMAIN s /\ s[g[j]].n = s[g[k]].n
      BY <1>2, <1>7, <2>1
    <3> QED
      BY <3>1 DEF ListaDe
  <2> QED
    BY <1>5, <1>7, <2>1
<1>9. \A j, k \in DOMAIN x : x[j].portada /\ x[k].portada => j = k
  <2>1. ASSUME NEW j \in 1 .. m - 1, NEW k \in 1 .. m - 1, x[j].portada, x[k].portada
        PROVE  g[j] = g[k]
    <3>1. /\ g[j] \in DOMAIN s /\ g[k] \in DOMAIN s
          /\ s[g[j]].portada /\ s[g[k]].portada
      BY <1>2, <1>7, <2>1
    <3> QED
      BY <3>1 DEF ListaDe
  <2> QED
    BY <1>5, <1>7, <2>1
<1>10. NombresDe(x) = NombresDe(s) \ {s[i].n}
  <2>1. NombresDe(x) = {x[j].n : j \in 1 .. m - 1} /\ NombresDe(s) = {s[k].n : k \in 1 .. m}
    BY <1>2, <1>5 DEF NombresDe, Ficheros!Nombres
  <2>2. \A k \in 1 .. m : s[k].n = s[i].n => k = i
    BY <1>2 DEF ListaDe
  <2>3. ASSUME NEW n \in NombresDe(x) PROVE n \in NombresDe(s) \ {s[i].n}
    BY <1>7, <2>1, <2>2, <2>3
  <2>4. ASSUME NEW n \in NombresDe(s) \ {s[i].n} PROVE n \in NombresDe(x)
    <3>1. PICK k \in 1 .. m : s[k].n = n
      BY <2>1, <2>4
    <3>2. PICK j \in 1 .. m - 1 : g[j] = k
      BY <1>7, <2>4, <3>1
    <3> QED
      BY <1>7, <2>1, <3>1, <3>2
  <2> QED
    BY <2>3, <2>4
<1>11. QED
  BY <1>5, <1>8, <1>9, <1>10 DEF ListaDe

(* Each place of x has what one place of s has, and no two places the same. *)
LEMMA ListaEscogida ==
  ASSUME NEW d \in Nat, NEW s, ListaDe(s, d), NEW m \in Nat, NEW x,
         x = [j \in 1 .. m |-> x[j]],
         \A j \in 1 .. m : \E i \in DOMAIN s : x[j] = s[i],
         \A j, k \in 1 .. m : x[j].n = x[k].n => j = k
  PROVE  ListaDe(x, d) /\ NombresDe(x) \subseteq NombresDe(s)
<1>1. s \in Seq(EntradaDe(d))
  BY DEF ListaDe
<1>2. \A j \in 1 .. m : x[j] \in EntradaDe(d)
  BY <1>1
<1>3. x \in Seq(EntradaDe(d)) /\ DOMAIN x = 1 .. m
  BY <1>2
<1>4. ASSUME NEW j \in 1 .. m, NEW k \in 1 .. m, x[j].portada, x[k].portada
      PROVE  j = k
  <2>1. PICK a \in DOMAIN s : x[j] = s[a]
    OBVIOUS
  <2>2. PICK b \in DOMAIN s : x[k] = s[b]
    OBVIOUS
  <2>3. a = b
    BY <1>4, <2>1, <2>2 DEF ListaDe
  <2> QED
    BY <2>1, <2>2, <2>3
<1>5. NombresDe(x) \subseteq NombresDe(s)
  BY <1>3 DEF NombresDe, Ficheros!Nombres
<1>6. QED
  BY <1>3, <1>4, <1>5 DEF ListaDe

LEMMA ListaMarcada ==
  ASSUME NEW d \in Nat, NEW s, ListaDe(s, d), NEW n,
         NEW x, x = [i \in DOMAIN s |-> [n |-> s[i].n, portada |-> s[i].n = n]]
  PROVE  ListaDe(x, d) /\ NombresDe(x) = NombresDe(s)
<1>1. PICK m \in Nat : m = Len(s)
  BY DEF ListaDe
<1>2. s \in Seq(EntradaDe(d)) /\ DOMAIN s = 1 .. m
  BY <1>1 DEF ListaDe
<1>3. ASSUME NEW i \in 1 .. m PROVE x[i] \in EntradaDe(d) /\ x[i].n = s[i].n
                                    /\ (x[i].portada => s[i].n = n)
  <2>1. s[i] \in EntradaDe(d)
    BY <1>2
  <2>2. x[i] = [n |-> s[i].n, portada |-> s[i].n = n]
    BY <1>2
  <2>3. s[i].n \in 1 .. d
    BY <2>1 DEF EntradaDe
  <2>4. PICK c \in BOOLEAN : c <=> s[i].n = n
    OBVIOUS
  <2>5. x[i] = [n |-> s[i].n, portada |-> c]
    BY <2>2, <2>4
  <2>6. x[i] \in EntradaDe(d) /\ x[i].n = s[i].n /\ x[i].portada = c
    BY <2>3, <2>5 DEF EntradaDe
  <2> QED
    BY <2>4, <2>6
<1>4. x \in Seq(EntradaDe(d)) /\ DOMAIN x = 1 .. m
  BY <1>2, <1>3
<1>5. \A i, j \in DOMAIN x : x[i].n = x[j].n => i = j
  BY <1>2, <1>3, <1>4 DEF ListaDe
<1>6. \A i, j \in DOMAIN x : x[i].portada /\ x[j].portada => i = j
  BY <1>3, <1>4, <1>5
<1>7. NombresDe(x) = NombresDe(s)
  BY <1>2, <1>3, <1>4 DEF NombresDe, Ficheros!Nombres
<1>8. QED
  BY <1>4, <1>5, <1>6, <1>7 DEF ListaDe

(* The disk and the document.                                               *)
LEMMA ElMismoDocumento ==
  ASSUME NEW t \in Ficheros!Tipos
  PROVE  [Documento EXCEPT ![t] = NombresDe(lista[t])] = Documento
<1>1. t \in Lugares /\ t # "satelite"
  BY DEF Lugares, Ficheros!Tipos
<1>2. Documento[t] = NombresDe(lista[t])
  BY <1>1 DEF Documento
<1>3. QED
  BY <1>1, <1>2 DEF Documento

LEMMA SinTocarArchivos ==
  ASSUME UNCHANGED Ficheros!archivosVars
  PROVE  /\ \A q : EnMarcha(q)' <=> EnMarcha(q)
         /\ Concuerda(Documento)' <=> Concuerda(Documento)
         /\ \A q : PedidoDeArchivos(q)' <=> PedidoDeArchivos(q)
<1>1. /\ lista' = lista /\ satelite' = satelite /\ disco' = disco
      /\ dados' = dados /\ sueltos' = sueltos
  BY DEF Ficheros!archivosVars
<1>2. Documento' = Documento
  BY <1>1 DEF Documento
<1>3. \A q : Previsto(q)' = Previsto(q)
  BY <1>2 DEF Previsto
<1>4. \A doc : Concuerda(doc)' <=> Concuerda(doc)
  BY <1>1 DEF Concuerda
<1>5. \A q : PedidoDeArchivos(q)' <=> PedidoDeArchivos(q)
  BY <1>1 DEF PedidoDeArchivos
<1>6. \A q : EnMarcha(q)' <=> EnMarcha(q)
  BY <1>1, <1>3, <1>4 DEF EnMarcha
<1>7. QED
  BY <1>2, <1>4, <1>5, <1>6

LEMMA ConcuerdaGuardado ==
  ASSUME NEW doc, Concuerda(doc), doc = [k \in Lugares |-> doc[k]], NEW p \in Lugares, NEW n,
         n \notin disco, disco' = disco \cup {n}, sueltos' = sueltos,
         NEW d, d = [doc EXCEPT ![p] = doc[p] \cup {n}]
  PROVE  Concuerda(d)'
<1>1. \A k \in Lugares : d[k] = IF k = p THEN doc[p] \cup {n} ELSE doc[k]
  OBVIOUS
<1>2. \A k \in Lugares : doc[k] \subseteq disco
  BY DEF Concuerda
<1>3. \A k \in Lugares : d[k] \subseteq disco'
  BY <1>1, <1>2
<1>4. \A m \in disco' : m \in sueltos' \/ \E k \in Lugares : m \in d[k]
  BY <1>1 DEF Concuerda
<1>5. \A k, l \in Lugares : k # l => d[k] \cap d[l] = {}
  <2>1. ASSUME NEW k \in Lugares, NEW l \in Lugares, k # l, NEW m \in d[k], m \in d[l]
        PROVE  FALSE
    <3>1. CASE m = n
      BY <1>1, <1>2, <2>1, <3>1
    <3>2. CASE m # n
      <4>1. m \in doc[k] /\ m \in doc[l]
        BY <1>1, <2>1, <3>2
      <4> QED
        BY <2>1, <4>1 DEF Concuerda
    <3> QED
      BY <3>1, <3>2
  <2> QED
    BY <2>1
<1>6. QED
  BY <1>3, <1>4, <1>5 DEF Concuerda

LEMMA ConcuerdaBorrado ==
  ASSUME NEW doc, Concuerda(doc), doc = [k \in Lugares |-> doc[k]], NEW p \in Lugares, NEW n,
         n \in doc[p] \/ n \notin disco, disco' = disco \ {n}, sueltos' = sueltos,
         NEW d, d = [doc EXCEPT ![p] = doc[p] \ {n}]
  PROVE  Concuerda(d)'
<1>1. \A k \in Lugares : d[k] = IF k = p THEN doc[p] \ {n} ELSE doc[k]
  OBVIOUS
<1>2. \A k \in Lugares : doc[k] \subseteq disco
  BY DEF Concuerda
<1>3. \A k, l \in Lugares : k # l => doc[k] \cap doc[l] = {}
  BY DEF Concuerda
<1>4. \A k \in Lugares : d[k] \subseteq disco'
  BY <1>1, <1>2, <1>3
<1>5. \A m \in disco' : m \in sueltos' \/ \E k \in Lugares : m \in d[k]
  BY <1>1 DEF Concuerda
<1>6. \A k, l \in Lugares : k # l => d[k] \cap d[l] = {}
  BY <1>1, <1>3
<1>7. QED
  BY <1>4, <1>5, <1>6 DEF Concuerda

LEMMA ConcuerdaSuelto ==
  ASSUME NEW doc, Concuerda(doc), doc = [k \in Lugares |-> doc[k]], NEW p \in Lugares, NEW N,
         N \subseteq doc[p], disco' = disco, sueltos' = sueltos \cup (doc[p] \ N),
         NEW d, d = [doc EXCEPT ![p] = N]
  PROVE  Concuerda(d)'
<1>1. \A k \in Lugares : d[k] = IF k = p THEN N ELSE doc[k]
  OBVIOUS
<1>2. \A k \in Lugares : d[k] \subseteq doc[k]
  BY <1>1
<1>3. \A m \in disco' : m \in sueltos' \/ \E k \in Lugares : m \in d[k]
  BY <1>1 DEF Concuerda
<1>4. QED
  BY <1>2, <1>3 DEF Concuerda

(* A request goes on with q, Nadie if it ends.                              *)
LEMMA ArchivosSigue ==
  ASSUME ArchivosInv, NEW r \in Requests, NEW q, op' = [op EXCEPT ![r] = q],
         ArchivosTipos', dados <= dados', q # Nadie => PedidoDeArchivos(q)',
         ~ solape' /\ muertes' = 0 =>
           /\ \A s \in Requests : s # r => op[s] = Nadie
           /\ q = Nadie => Concuerda(Documento)'
           /\ q # Nadie => EnMarcha(q)'
  PROVE  ArchivosInv'
<1>1. op' = [s \in Requests |-> op'[s]] /\ \A s \in Requests : op'[s] = IF s = r THEN q ELSE op[s]
  BY DEF ArchivosInv
<1>2. ASSUME NEW p, PedidoDeArchivos(p) PROVE PedidoDeArchivos(p)'
  <2>1. dados \in Nat /\ dados' \in Nat
    BY DEF ArchivosInv, ArchivosTipos
  <2>2. ListaDe(p.copia, dados) => ListaDe(p.copia, dados')
    BY <2>1, ListaMayor
  <2>3. SateliteDe(dados) \subseteq SateliteDe(dados')
    BY <2>1 DEF SateliteDe
  <2> QED
    BY <1>2, <2>2, <2>3 DEF PedidoDeArchivos
<1>3. ASSUME NEW s \in Requests, op'[s] # Nadie PROVE (PedidoDeArchivos(op[s]))'
  <2>1. PICK p : p = op'[s]
    OBVIOUS
  <2>2. PedidoDeArchivos(p)'
    BY <1>1, <1>2, <1>3, <2>1 DEF ArchivosInv
  <2> QED
    BY <2>1, <2>2
<1>4. ASSUME ~ solape', muertes' = 0
      PROVE  /\ UnaSola'
             /\ \A s \in Requests : op'[s] # Nadie => (EnMarcha(op[s]))'
             /\ (\A s \in Requests : op'[s] = Nadie) => Concuerda(Documento)'
  <2>1. \A s \in Requests : op'[s] # Nadie => s = r /\ op'[s] = q
    BY <1>1, <1>4
  <2>2. UnaSola'
    BY <2>1 DEF UnaSola
  <2>3. ASSUME NEW s \in Requests, op'[s] # Nadie PROVE (EnMarcha(op[s]))'
    <3>1. PICK p : p = op'[s]
      OBVIOUS
    <3>2. EnMarcha(p)'
      BY <1>4, <2>1, <2>3, <3>1
    <3> QED
      BY <3>1, <3>2
  <2>4. (\A s \in Requests : op'[s] = Nadie) => Concuerda(Documento)'
    BY <1>1, <1>4
  <2> QED
    BY <2>2, <2>3, <2>4
<1>5. QED
  BY <1>1, <1>3, <1>4 DEF ArchivosInv

(* A handler that reads the document and goes on with q.                    *)
LEMMA ArchivosComienza ==
  ASSUME ArchivosInv, NEW r \in Requests, NEW q, Ficheros!Comenzar(r, q),
         UNCHANGED Ficheros!archivosVars, q # Nadie, PedidoDeArchivos(q),
         Concuerda(Documento) => EnMarcha(q)
  PROVE  ArchivosInv'
<1>1. /\ op[r] = Nadie /\ op' = [op EXCEPT ![r] = q] /\ muertes' = muertes
      /\ ~ solape' => ~ solape /\ \A s \in Requests : op[s] = Nadie
  BY DEF Ficheros!Comenzar, Ficheros!EnCurso, Ficheros!Libre, Nadie
<1>2. ArchivosTipos' /\ dados <= dados'
  BY <1>1 DEF ArchivosInv, ArchivosTipos, Ficheros!archivosVars
<1>3. PedidoDeArchivos(q)' /\ (EnMarcha(q)' <=> EnMarcha(q))
  BY SinTocarArchivos
<1>4. ~ solape' /\ muertes' = 0 => Concuerda(Documento)
  BY <1>1 DEF ArchivosInv
<1>5. QED
  BY <1>1, <1>2, <1>3, <1>4, ArchivosSigue

(* A request in progress, by itself.                                        *)
LEMMA ArchivosSolo ==
  ASSUME ArchivosInv, NEW r \in Requests, op[r] # Nadie, solape' = solape, muertes' = muertes
  PROVE  /\ PedidoDeArchivos(op[r])
         /\ ~ solape' /\ muertes' = 0 =>
              EnMarcha(op[r]) /\ \A s \in Requests : s # r => op[s] = Nadie
BY DEF ArchivosInv, UnaSola

LEMMA UploadInv ==
  ASSUME ArchivosInv, NEW r \in Requests, NEW t \in Ficheros!Tipos, NEW k \in 1 .. 2,
         Ficheros!Upload(r, t, k)
  PROVE  ArchivosInv'
<1>1. PICK q : q = [paso |-> "procesar", t |-> t, copia |-> lista[t], faltan |-> k]
  OBVIOUS
<1>2. Ficheros!Comenzar(r, q) /\ UNCHANGED Ficheros!archivosVars
  BY <1>1 DEF Ficheros!Upload
<1>3. ListaDe(lista[t], dados)
  BY DEF ArchivosInv, ArchivosTipos
<1>4. /\ q.paso = "procesar" /\ q = [f \in CamposDeSubida |-> q[f]]
      /\ q.t = t /\ q.copia = lista[t] /\ q.faltan \in Nat
  BY <1>1 DEF CamposDeSubida
<1>5. PedidoDeArchivos(q) /\ q # Nadie
  BY <1>3, <1>4 DEF PedidoDeArchivos, Nadie
<1>6. Previsto(q) = Documento
  BY <1>4, ElMismoDocumento DEF Previsto
<1>7. Concuerda(Documento) => EnMarcha(q)
  BY <1>4, <1>6 DEF EnMarcha
<1>8. QED
  BY <1>2, <1>5, <1>7, ArchivosComienza

LEMMA DeleteFileInv ==
  ASSUME ArchivosInv, NEW r \in Requests, NEW t \in Ficheros!Tipos, NEW n,
         Ficheros!DeleteFile(r, t, n)
  PROVE  ArchivosInv'
<1>1. PICK i \in DOMAIN lista[t] :
        /\ lista[t][i].n = n
        /\ Ficheros!Comenzar(r, [paso |-> "eliminar", t |-> t, n |-> n,
                                 copia |-> Ficheros!RemoveAt(lista[t], i)])
  BY DEF Ficheros!DeleteFile
<1>2. PICK x : x = Ficheros!RemoveAt(lista[t], i)
  OBVIOUS
<1>3. PICK q : q = [paso |-> "eliminar", t |-> t, n |-> n, copia |-> x]
  OBVIOUS
<1>4. Ficheros!Comenzar(r, q) /\ UNCHANGED Ficheros!archivosVars
  BY <1>1, <1>2, <1>3 DEF Ficheros!DeleteFile
<1>5. ListaDe(lista[t], dados) /\ dados \in Nat
  BY DEF ArchivosInv, ArchivosTipos
<1>6. ListaDe(x, dados) /\ NombresDe(x) = NombresDe(lista[t]) \ {n}
  BY <1>1, <1>2, <1>5, ListaSinUno
<1>7. q.paso = "eliminar" /\ q.t = t /\ q.copia = x /\ q.n = n
  BY <1>3
<1>8. PedidoDeArchivos(q) /\ q # Nadie
  BY <1>6, <1>7 DEF PedidoDeArchivos, Nadie
<1>9. Previsto(q) = Documento
  BY <1>7 DEF Previsto
<1>10. n \in NombresDe(lista[t])
  BY <1>1 DEF NombresDe, Ficheros!Nombres
<1>11. Concuerda(Documento) => EnMarcha(q)
  BY <1>6, <1>7, <1>9, <1>10 DEF EnMarcha
<1>12. QED
  BY <1>4, <1>8, <1>11, ArchivosComienza

LEMMA ReorderImagesInv ==
  ASSUME ArchivosInv, NEW r \in Requests, NEW S, NEW orden \in Ficheros!SetToSeqs(S),
         Ficheros!ReorderImages(r, orden), IsFiniteSet(S)
  PROVE  ArchivosInv'
<1>1. PICK s : s = lista["imagenes"]
  OBVIOUS
<1>2. PICK m \in Nat : m = Cardinality(S)
  BY FS_CardinalityType
<1>3. orden \in [1 .. m -> S] /\ \A i, j \in 1 .. m : i # j => orden[i] # orden[j]
  BY <1>2, CardinalArchivos DEF Ficheros!SetToSeqs
<1>4. PICK e : e = [n \in NombresDe(s) |-> CHOOSE x \in Ficheros!Range(s) : x.n = n]
  OBVIOUS
<1>5. PICK x : x = [i \in 1 .. m |-> e[orden[i]]]
  OBVIOUS
<1>6. \A i \in 1 .. m : orden[i] \in NombresDe(s)
  BY <1>1, <1>3 DEF Ficheros!ReorderImages, Ficheros!Range, NombresDe
<1>7. PICK q : q = [paso |-> "escribir", t |-> "imagenes", copia |-> x, reordena |-> TRUE]
  OBVIOUS
<1>8. Ficheros!Comenzar(r, q) /\ UNCHANGED Ficheros!archivosVars
  <2>1. /\ Ficheros!Comenzar(r, Ficheros!Escritura("imagenes",
              [i \in DOMAIN orden |->
                CHOOSE y \in Ficheros!Range(lista["imagenes"]) : y.n = orden[i]], TRUE))
        /\ UNCHANGED Ficheros!archivosVars
    BY Zenon DEF Ficheros!ReorderImages
  <2>2. x = [i \in DOMAIN orden |->
              CHOOSE y \in Ficheros!Range(lista["imagenes"]) : y.n = orden[i]]
    BY <1>1, <1>3, <1>4, <1>5, <1>6
  <2> QED
    BY <1>7, <2>1, <2>2 DEF Ficheros!Escritura
<1>9. ListaDe(s, dados) /\ dados \in Nat
  BY <1>1 DEF ArchivosInv, ArchivosTipos, Ficheros!Tipos
<1>10. ASSUME NEW n \in NombresDe(s)
       PROVE  e[n].n = n /\ \E i \in DOMAIN s : e[n] = s[i]
  <2>1. \E y \in Ficheros!Range(s) : y.n = n
    BY <1>10 DEF NombresDe, Ficheros!Nombres, Ficheros!Range
  <2>2. e[n] \in Ficheros!Range(s) /\ e[n].n = n
    BY <1>4, <1>10, <2>1
  <2> QED
    BY <2>2 DEF Ficheros!Range
<1>11. /\ x = [j \in 1 .. m |-> x[j]] /\ \A j \in 1 .. m : x[j].n = orden[j]
       /\ \A j \in 1 .. m : \E i \in DOMAIN s : x[j] = s[i]
  BY <1>5, <1>6, <1>10
<1>12. \A j, k \in 1 .. m : x[j].n = x[k].n => j = k
  BY <1>3, <1>11
<1>13. ListaDe(x, dados) /\ NombresDe(x) \subseteq NombresDe(s)
  BY <1>9, <1>11, <1>12, ListaEscogida
<1>14. q.paso = "escribir" /\ q.t = "imagenes" /\ q.copia = x /\ q.reordena = TRUE
  BY <1>7
<1>15. PedidoDeArchivos(q) /\ q # Nadie
  BY <1>13, <1>14 DEF PedidoDeArchivos, Nadie, Ficheros!Tipos
<1>16. Previsto(q) = Documento
  BY <1>14 DEF Previsto
<1>17. Concuerda(Documento) => EnMarcha(q)
  BY <1>1, <1>13, <1>14, <1>16 DEF EnMarcha
<1>18. QED
  BY <1>8, <1>15, <1>17, ArchivosComienza

LEMMA SetImageAsPortadaInv ==
  ASSUME ArchivosInv, NEW r \in Requests, NEW n, Ficheros!SetImageAsPortada(r, n)
  PROVE  ArchivosInv'
<1>1. PICK s : s = lista["imagenes"]
  OBVIOUS
<1>2. PICK x : x = [i \in DOMAIN s |-> [n |-> s[i].n, portada |-> s[i].n = n]]
  OBVIOUS
<1>3. PICK q : q = [paso |-> "escribir", t |-> "imagenes", copia |-> x, reordena |-> FALSE]
  OBVIOUS
<1>4. Ficheros!Comenzar(r, q) /\ UNCHANGED Ficheros!archivosVars
  BY <1>1, <1>2, <1>3 DEF Ficheros!SetImageAsPortada, Ficheros!Escritura
<1>5. ListaDe(s, dados) /\ dados \in Nat
  BY <1>1 DEF ArchivosInv, ArchivosTipos, Ficheros!Tipos
<1>6. ListaDe(x, dados) /\ NombresDe(x) = NombresDe(s)
  BY <1>2, <1>5, ListaMarcada
<1>7. q.paso = "escribir" /\ q.t = "imagenes" /\ q.copia = x /\ q.reordena = FALSE
  BY <1>3
<1>8. PedidoDeArchivos(q) /\ q # Nadie /\ "imagenes" \in Ficheros!Tipos
  BY <1>6, <1>7 DEF PedidoDeArchivos, Nadie, Ficheros!Tipos
<1>9. Previsto(q) = Documento
  BY <1>1, <1>6, <1>7, <1>8, ElMismoDocumento DEF Previsto
<1>10. Concuerda(Documento) => EnMarcha(q)
  BY <1>7, <1>9 DEF EnMarcha
<1>11. QED
  BY <1>4, <1>8, <1>10, ArchivosComienza

LEMMA UploadSatelliteImageInv ==
  ASSUME ArchivosInv, NEW r \in Requests, Ficheros!UploadSatelliteImage(r)
  PROVE  ArchivosInv'
<1>1. PICK q : q = [paso |-> "quitarSatelite", n |-> satelite.n]
  OBVIOUS
<1>2. Ficheros!Comenzar(r, q) /\ UNCHANGED Ficheros!archivosVars
  BY <1>1 DEF Ficheros!UploadSatelliteImage
<1>3. PedidoDeArchivos(q) /\ q # Nadie
  BY <1>1 DEF PedidoDeArchivos, Nadie
<1>4. Concuerda(Documento) => EnMarcha(q)
  BY <1>1 DEF EnMarcha, Previsto
<1>5. QED
  BY <1>2, <1>3, <1>4, ArchivosComienza

LEMMA CalibrateSatelliteImageInv ==
  ASSUME ArchivosInv, NEW r \in Requests, Ficheros!CalibrateSatelliteImage(r)
  PROVE  ArchivosInv'
<1>1. PICK x : x = [satelite EXCEPT !.calibrada = TRUE]
  OBVIOUS
<1>2. PICK q : q = [paso |-> "escribirSatelite", s |-> x]
  OBVIOUS
<1>3. Ficheros!Comenzar(r, q) /\ UNCHANGED Ficheros!archivosVars
  BY <1>1, <1>2 DEF Ficheros!CalibrateSatelliteImage
<1>4. satelite \in SateliteDe(dados)
  BY DEF ArchivosInv, ArchivosTipos
<1>5. x \in SateliteDe(dados) /\ x.n = satelite.n
  BY <1>1, <1>4 DEF SateliteDe
<1>6. q.paso = "escribirSatelite" /\ q.s = x
  BY <1>2
<1>7. PedidoDeArchivos(q) /\ q # Nadie
  <2>1. q.paso # Nadie.paso
    BY <1>6 DEF Nadie
  <2> QED
    BY <1>5, <1>6, <2>1 DEF PedidoDeArchivos
<1>8. Previsto(q) = Documento
  <2>1. DelSatelite(x) = Documento["satelite"] /\ "satelite" \in Lugares
    BY <1>5 DEF DelSatelite, Documento, Lugares
  <2>2. [Documento EXCEPT !["satelite"] = DelSatelite(x)] = Documento
    BY <2>1 DEF Documento
  <2> QED
    BY <1>6, <2>2 DEF Previsto
<1>9. Concuerda(Documento) => EnMarcha(q)
  BY <1>6, <1>8 DEF EnMarcha
<1>10. QED
  BY <1>3, <1>7, <1>9, ArchivosComienza

(* One more file is stored, and named in the copy.                          *)
LEMMA ProcesarArchivoInv ==
  ASSUME ArchivosInv, NEW r \in Requests, Ficheros!ProcesarArchivo(r)
  PROVE  ArchivosInv'
<1>1. PICK q : q = op[r]
  OBVIOUS
<1>2. /\ q.paso = "procesar" /\ q.faltan > 0 /\ dados' = dados + 1 /\ disco' = disco \cup {dados + 1}
      /\ lista' = lista /\ satelite' = satelite /\ sueltos' = sueltos
      /\ solape' = solape /\ muertes' = muertes
  BY <1>1 DEF Ficheros!ProcesarArchivo, Ficheros!Guardar, Ficheros!Seguir
<1>3. op[r] # Nadie
  BY <1>1, <1>2 DEF Nadie
<1>4. /\ q = [f \in CamposDeSubida |-> q[f]] /\ q.faltan \in Nat
      /\ q.t \in Ficheros!Tipos /\ ListaDe(q.copia, dados)
  BY <1>1, <1>2, <1>3, ArchivosSolo DEF PedidoDeArchivos
<1>5. PICK b \in BOOLEAN : b <=> q.t = "imagenes" /\ q.copia = <<>>
  OBVIOUS
<1>6. PICK x : x = Append(q.copia, [n |-> dados + 1, portada |-> b])
  OBVIOUS
<1>7. PICK q1 : q1 = [q EXCEPT !.copia = x, !.faltan = @ - 1]
  OBVIOUS
<1>8. op' = [op EXCEPT ![r] = q1]
  <2>1. Ficheros!Entrada(q.t, q.copia, dados') = [n |-> dados + 1, portada |-> b]
    BY <1>2, <1>5 DEF Ficheros!Entrada
  <2>2. q1 = [q EXCEPT !.copia = Append(@, [n |-> dados + 1, portada |-> b]), !.faltan = @ - 1]
    BY <1>4, <1>6, <1>7 DEF CamposDeSubida
  <2>3. op' = [op EXCEPT ![r] = [q EXCEPT !.copia = Append(@, Ficheros!Entrada(q.t, q.copia, dados')),
                                          !.faltan = @ - 1]]
    BY <1>1 DEF Ficheros!ProcesarArchivo, Ficheros!Seguir
  <2> QED
    BY <2>1, <2>2, <2>3
<1>9. dados \in Nat /\ dados' \in Nat /\ dados <= dados' /\ disco \subseteq 1 .. dados
  BY <1>2 DEF ArchivosInv, ArchivosTipos
<1>10. ListaDe(x, dados + 1) /\ NombresDe(x) = NombresDe(q.copia) \cup {dados + 1}
  BY <1>4, <1>5, <1>6, <1>9, ListaAgregada
<1>11. /\ q1.paso = "procesar" /\ q1 = [f \in CamposDeSubida |-> q1[f]] /\ q1.faltan \in Nat
       /\ q1.t = q.t /\ q1.copia = x
  <2>1. q.faltan - 1 \in Nat
    BY <1>2, <1>4
  <2>2. /\ DOMAIN q = CamposDeSubida /\ "paso" \in CamposDeSubida /\ "t" \in CamposDeSubida
        /\ "copia" \in CamposDeSubida /\ "faltan" \in CamposDeSubida
    BY <1>4 DEF CamposDeSubida
  <2>3. /\ q1 = [f \in CamposDeSubida |-> q1[f]] /\ q1.paso = q.paso /\ q1.t = q.t
        /\ q1.copia = x /\ q1.faltan = q.faltan - 1
    BY <1>7, <2>2
  <2> QED
    BY <1>2, <2>1, <2>3
<1>12. PedidoDeArchivos(q1)' /\ q1 # Nadie
  BY <1>2, <1>4, <1>10, <1>11 DEF PedidoDeArchivos, Nadie
<1>13. ArchivosTipos'
  <2>1. \A t \in Ficheros!Tipos : ListaDe(lista[t], dados + 1)
    <3>1. ASSUME NEW t \in Ficheros!Tipos PROVE ListaDe(lista[t], dados + 1)
      <4>1. ListaDe(lista[t], dados) /\ dados + 1 \in Nat /\ dados <= dados + 1
        BY <1>9 DEF ArchivosInv, ArchivosTipos
      <4> QED
        BY <1>9, <4>1, ListaMayor
    <3> QED
      BY <3>1
  <2>2. satelite \in SateliteDe(dados + 1)
    BY <1>9 DEF ArchivosInv, ArchivosTipos, SateliteDe
  <2> QED
    BY <1>2, <1>9, <2>1, <2>2 DEF ArchivosInv, ArchivosTipos
<1>14. ASSUME ~ solape', muertes' = 0
       PROVE  EnMarcha(q1)' /\ \A s \in Requests : s # r => op[s] = Nadie
  <2>1. EnMarcha(q) /\ \A s \in Requests : s # r => op[s] = Nadie
    BY <1>1, <1>2, <1>3, <1>14, ArchivosSolo
  <2>2. PICK doc : doc = Previsto(q)
    OBVIOUS
  <2>3. doc = [Documento EXCEPT ![q.t] = NombresDe(q.copia)] /\ q.t \in Lugares
    BY <1>2, <1>4, <2>2 DEF Previsto, Lugares
  <2>4. doc = [k \in Lugares |-> doc[k]] /\ doc[q.t] = NombresDe(q.copia)
    <3>1. PICK d0 : d0 = Documento
      OBVIOUS
    <3>2. d0 = [k \in Lugares |-> d0[k]]
      BY <3>1 DEF Documento
    <3>3. doc = [d0 EXCEPT ![q.t] = NombresDe(q.copia)]
      BY <2>3, <3>1
    <3> QED
      BY <2>3, <3>2, <3>3
  <2>5. dados + 1 \notin disco
    BY <1>9
  <2>6. PICK d : d = [doc EXCEPT ![q.t] = doc[q.t] \cup {dados + 1}]
    OBVIOUS
  <2>7. Concuerda(doc)
    BY <2>1, <2>2 DEF EnMarcha
  <2>8. Concuerda(d)'
    <3>1. disco' = disco \cup {dados + 1} /\ sueltos' = sueltos /\ q.t \in Lugares
      BY <1>2, <2>3
    <3>2. doc = [k \in Lugares |-> doc[k]]
      BY <2>4
    <3> QED
      BY <2>5, <2>6, <2>7, <3>1, <3>2, ConcuerdaGuardado
  <2>9. Previsto(q1)' = d
    <3>1. Documento' = Documento
      BY <1>2 DEF Documento
    <3>2. Previsto(q1)' = [Documento EXCEPT ![q.t] = NombresDe(x)]
      BY <1>11, <3>1 DEF Previsto
    <3>3. d = [Documento EXCEPT ![q.t] = NombresDe(x)]
      BY <1>10, <2>3, <2>4, <2>6
    <3> QED
      BY <3>2, <3>3
  <2> QED
    BY <1>11, <2>1, <2>8, <2>9 DEF EnMarcha
<1>15. QED
  BY <1>8, <1>9, <1>12, <1>13, <1>14, ArchivosSigue

(* The copy is written over the list.                                       *)
LEMMA EscribirListaInv ==
  ASSUME ArchivosInv, NEW r \in Requests, Ficheros!EscribirLista(r)
  PROVE  ArchivosInv'
<1>1. PICK q : q = op[r]
  OBVIOUS
<1>2. /\ q.paso \in {"escribir", "procesar"} /\ lista' = [lista EXCEPT ![q.t] = q.copia]
      /\ sueltos' = IF q.paso = "escribir" /\ q.reordena
                    THEN sueltos \cup (NombresDe(lista[q.t]) \ NombresDe(q.copia)) ELSE sueltos
      /\ op' = [op EXCEPT ![r] = Nadie] /\ solape' = solape /\ muertes' = muertes
      /\ satelite' = satelite /\ disco' = disco /\ dados' = dados
  BY <1>1 DEF Ficheros!EscribirLista, Ficheros!Terminar, Ficheros!Seguir, Ficheros!Libre, Nadie, NombresDe
<1>3. op[r] # Nadie
  BY <1>1, <1>2 DEF Nadie
<1>4. q.t \in Ficheros!Tipos /\ ListaDe(q.copia, dados)
  BY <1>1, <1>2, <1>3, ArchivosSolo DEF PedidoDeArchivos
<1>5. ArchivosTipos' /\ dados <= dados'
  BY <1>2, <1>4 DEF ArchivosInv, ArchivosTipos
<1>6. ASSUME ~ solape', muertes' = 0
      PROVE  Concuerda(Documento)' /\ \A s \in Requests : s # r => op[s] = Nadie
  <2>1. EnMarcha(q) /\ \A s \in Requests : s # r => op[s] = Nadie
    BY <1>1, <1>2, <1>3, <1>6, ArchivosSolo
  <2>2. PICK d : d = [Documento EXCEPT ![q.t] = NombresDe(q.copia)]
    OBVIOUS
  <2>3. Documento' = d
    <3>1. q.t \in Lugares /\ q.t # "satelite"
      BY <1>4 DEF Lugares, Ficheros!Tipos
    <3>2. \A k \in Ficheros!Tipos : lista'[k] = IF k = q.t THEN q.copia ELSE lista[k]
      BY <1>2, <1>4 DEF ArchivosInv, ArchivosTipos
    <3>3. ASSUME NEW k \in Lugares
          PROVE  (IF k = "satelite" THEN DelSatelite(satelite') ELSE NombresDe(lista'[k])) = d[k]
      <4>1. d[k] = IF k = q.t THEN NombresDe(q.copia) ELSE Documento[k]
        BY <2>2, <3>3 DEF Documento
      <4>2. CASE k = "satelite"
        BY <1>2, <3>1, <4>1, <4>2 DEF Documento
      <4>3. CASE k # "satelite"
        BY <3>2, <3>3, <4>1, <4>3 DEF Documento, Lugares
      <4> QED
        BY <4>2, <4>3
    <3>4. d = [k \in Lugares |-> d[k]]
      BY <2>2 DEF Documento
    <3>5. Documento' = [k \in Lugares |-> IF k = "satelite" THEN DelSatelite(satelite')
                                         ELSE NombresDe(lista'[k])]
      BY DEF Documento, Lugares, DelSatelite, NombresDe, Ficheros!Nombres
    <3> QED
      BY <3>3, <3>4, <3>5
  <2>4. CASE q.paso = "escribir" /\ q.reordena
    <3>1. Concuerda(Documento) /\ NombresDe(q.copia) \subseteq NombresDe(lista[q.t])
      BY <2>1, <2>4 DEF EnMarcha, Previsto
    <3>2. /\ Documento = [k \in Lugares |-> Documento[k]] /\ q.t \in Lugares
          /\ Documento[q.t] = NombresDe(lista[q.t])
      BY <1>4 DEF Documento, Lugares, Ficheros!Tipos
    <3>3. Concuerda(d)'
      BY <1>2, <2>2, <2>4, <3>1, <3>2, ConcuerdaSuelto
    <3> QED
      BY <2>1, <2>3, <3>3
  <2>5. CASE ~ (q.paso = "escribir" /\ q.reordena)
    <3>1. Previsto(q) = d
      BY <1>2, <2>2, <2>5 DEF Previsto
    <3>2. Concuerda(d)
      BY <2>1, <3>1 DEF EnMarcha
    <3>3. disco' = disco /\ sueltos' = sueltos
      BY <1>2, <2>5
    <3>4. Concuerda(d)'
      BY <3>2, <3>3 DEF Concuerda
    <3> QED
      BY <2>1, <2>3, <3>4
  <2> QED
    BY <2>4, <2>5
<1>7. QED
  BY <1>2, <1>5, <1>6, ArchivosSigue

(* The file is deleted, and the copy without it is still to be written.     *)
LEMMA UnlinkInv ==
  ASSUME ArchivosInv, NEW r \in Requests, Ficheros!Unlink(r)
  PROVE  ArchivosInv'
<1>1. PICK q : q = op[r]
  OBVIOUS
<1>2. PICK q1 : q1 = [paso |-> "escribir", t |-> q.t, copia |-> q.copia, reordena |-> FALSE]
  OBVIOUS
<1>3. /\ q.paso = "eliminar" /\ disco' = disco \ {q.n} /\ solape' = solape /\ muertes' = muertes
      /\ lista' = lista /\ satelite' = satelite /\ dados' = dados /\ sueltos' = sueltos
      /\ \/ q.n \notin disco /\ op' = [op EXCEPT ![r] = Nadie]
         \/ op' = [op EXCEPT ![r] = q1]
  BY <1>1, <1>2 DEF Ficheros!Unlink, Ficheros!Terminar, Ficheros!Seguir, Ficheros!Escritura,
     Ficheros!Libre, Nadie
<1>4. op[r] # Nadie
  BY <1>1, <1>3 DEF Nadie
<1>5. q.t \in Ficheros!Tipos /\ ListaDe(q.copia, dados)
  BY <1>1, <1>3, <1>4, ArchivosSolo DEF PedidoDeArchivos
<1>6. ArchivosTipos' /\ dados <= dados'
  BY <1>3 DEF ArchivosInv, ArchivosTipos
<1>7. q1.paso = "escribir" /\ q1.t = q.t /\ q1.copia = q.copia /\ q1.reordena = FALSE
  BY <1>2
<1>8. PedidoDeArchivos(q1)' /\ q1 # Nadie
  BY <1>3, <1>5, <1>7 DEF PedidoDeArchivos, Nadie
<1>9. ASSUME ~ solape', muertes' = 0
      PROVE  EnMarcha(q1)' /\ q.n \in disco /\ \A s \in Requests : s # r => op[s] = Nadie
  <2>1. EnMarcha(q) /\ \A s \in Requests : s # r => op[s] = Nadie
    BY <1>1, <1>3, <1>4, <1>9, ArchivosSolo
  <2>2. Concuerda(Documento)
    BY <1>3, <2>1 DEF EnMarcha, Previsto
  <2>3. /\ Documento = [k \in Lugares |-> Documento[k]] /\ q.t \in Lugares
        /\ Documento[q.t] = NombresDe(lista[q.t])
    BY <1>5 DEF Documento, Lugares, Ficheros!Tipos
  <2>4. q.n \in Documento[q.t] /\ NombresDe(q.copia) = Documento[q.t] \ {q.n}
    BY <1>3, <2>1, <2>3 DEF EnMarcha
  <2>5. PICK d : d = [Documento EXCEPT ![q.t] = Documento[q.t] \ {q.n}]
    OBVIOUS
  <2>6. Concuerda(d)'
    BY <1>3, <2>2, <2>3, <2>4, <2>5, ConcuerdaBorrado
  <2>7. Previsto(q1)' = d
    <3>1. Documento' = Documento
      BY <1>3 DEF Documento
    <3> QED
      BY <1>7, <2>4, <2>5, <3>1 DEF Previsto
  <2>8. q.n \in disco
    BY <2>2, <2>3, <2>4 DEF Concuerda
  <2> QED
    BY <1>7, <2>1, <2>6, <2>7, <2>8 DEF EnMarcha
<1>10. CASE op' = [op EXCEPT ![r] = q1]
  BY <1>6, <1>8, <1>9, <1>10, ArchivosSigue
<1>11. CASE q.n \notin disco /\ op' = [op EXCEPT ![r] = Nadie]
  BY <1>6, <1>9, <1>11, ArchivosSigue
<1>12. QED
  BY <1>3, <1>10, <1>11

(* uploadSatelliteImage: the old file, the new file, the document.          *)
LEMMA QuitarSateliteInv ==
  ASSUME ArchivosInv, NEW r \in Requests, Ficheros!QuitarSatelite(r)
  PROVE  ArchivosInv'
<1>1. PICK q : q = op[r]
  OBVIOUS
<1>2. PICK q1 : q1 = [paso |-> "guardarSatelite"]
  OBVIOUS
<1>3. /\ q.paso = "quitarSatelite" /\ disco' = disco \ {q.n} /\ solape' = solape
      /\ muertes' = muertes /\ lista' = lista /\ satelite' = satelite /\ dados' = dados
      /\ sueltos' = sueltos /\ op' = [op EXCEPT ![r] = q1]
  BY <1>1, <1>2 DEF Ficheros!QuitarSatelite, Ficheros!Seguir
<1>4. op[r] # Nadie
  BY <1>1, <1>3 DEF Nadie
<1>5. ArchivosTipos' /\ dados <= dados'
  BY <1>3 DEF ArchivosInv, ArchivosTipos
<1>6. q1.paso = "guardarSatelite"
  BY <1>2
<1>7. PedidoDeArchivos(q1)' /\ q1 # Nadie
  BY <1>6 DEF PedidoDeArchivos, Nadie
<1>8. ASSUME ~ solape', muertes' = 0
      PROVE  EnMarcha(q1)' /\ \A s \in Requests : s # r => op[s] = Nadie
  <2>1. EnMarcha(q) /\ \A s \in Requests : s # r => op[s] = Nadie
    BY <1>1, <1>3, <1>4, <1>8, ArchivosSolo
  <2>2. Concuerda(Documento) /\ q.n = satelite.n
    BY <1>3, <2>1 DEF EnMarcha, Previsto
  <2>3. /\ Documento = [k \in Lugares |-> Documento[k]] /\ "satelite" \in Lugares
        /\ Documento["satelite"] = {q.n} \ {0}
    BY <2>2 DEF Documento, Lugares, DelSatelite, Ficheros!SinArchivo
  <2>4. q.n \in Documento["satelite"] \/ q.n \notin disco
    <3>1. 0 \notin disco
      BY DEF ArchivosInv, ArchivosTipos
    <3> QED
      BY <2>3, <3>1
  <2>5. PICK d : d = [Documento EXCEPT !["satelite"] = Documento["satelite"] \ {q.n}]
    OBVIOUS
  <2>6. Concuerda(d)'
    BY <1>3, <2>2, <2>3, <2>4, <2>5, ConcuerdaBorrado
  <2>7. Previsto(q1)' = d
    <3>1. Documento' = Documento
      BY <1>3 DEF Documento
    <3>2. Documento["satelite"] \ {q.n} = {}
      BY <2>3
    <3> QED
      BY <1>6, <2>5, <3>1, <3>2 DEF Previsto
  <2> QED
    BY <1>6, <2>1, <2>6, <2>7 DEF EnMarcha
<1>9. QED
  BY <1>3, <1>5, <1>7, <1>8, ArchivosSigue

LEMMA GuardarSateliteInv ==
  ASSUME ArchivosInv, NEW r \in Requests, Ficheros!GuardarSatelite(r)
  PROVE  ArchivosInv'
<1>1. PICK q : q = op[r]
  OBVIOUS
<1>2. PICK x : x = [n |-> dados + 1, calibrada |-> FALSE]
  OBVIOUS
<1>3. PICK q1 : q1 = [paso |-> "escribirSatelite", s |-> x]
  OBVIOUS
<1>4. /\ q.paso = "guardarSatelite" /\ dados' = dados + 1 /\ disco' = disco \cup {dados + 1}
      /\ lista' = lista /\ satelite' = satelite /\ sueltos' = sueltos
      /\ solape' = solape /\ muertes' = muertes
  BY <1>1 DEF Ficheros!GuardarSatelite, Ficheros!Guardar, Ficheros!Seguir
<1>5. op' = [op EXCEPT ![r] = q1]
  BY <1>2, <1>3, <1>4 DEF Ficheros!GuardarSatelite, Ficheros!Seguir
<1>6. op[r] # Nadie
  BY <1>1, <1>4 DEF Nadie
<1>7. dados \in Nat /\ dados' \in Nat /\ dados <= dados' /\ disco \subseteq 1 .. dados
  BY <1>4 DEF ArchivosInv, ArchivosTipos
<1>8. ArchivosTipos'
  <2>1. \A t \in Ficheros!Tipos : ListaDe(lista[t], dados + 1)
    <3>1. ASSUME NEW t \in Ficheros!Tipos PROVE ListaDe(lista[t], dados + 1)
      <4>1. ListaDe(lista[t], dados) /\ dados + 1 \in Nat /\ dados <= dados + 1
        BY <1>7 DEF ArchivosInv, ArchivosTipos
      <4> QED
        BY <1>7, <4>1, ListaMayor
    <3> QED
      BY <3>1
  <2>2. satelite \in SateliteDe(dados + 1)
    BY <1>7 DEF ArchivosInv, ArchivosTipos, SateliteDe
  <2> QED
    BY <1>4, <1>7, <2>1, <2>2 DEF ArchivosInv, ArchivosTipos
<1>9. q1.paso = "escribirSatelite" /\ q1.s = x
  BY <1>3
<1>10. PedidoDeArchivos(q1)' /\ q1 # Nadie
  <2>1. q1.paso # Nadie.paso
    BY <1>9 DEF Nadie
  <2>2. x \in SateliteDe(dados')
    BY <1>2, <1>4, <1>7 DEF SateliteDe
  <2> QED
    BY <1>9, <2>1, <2>2 DEF PedidoDeArchivos
<1>11. ASSUME ~ solape', muertes' = 0
       PROVE  EnMarcha(q1)' /\ \A s \in Requests : s # r => op[s] = Nadie
  <2>1. EnMarcha(q) /\ \A s \in Requests : s # r => op[s] = Nadie
    BY <1>1, <1>4, <1>6, <1>11, ArchivosSolo
  <2>2. PICK doc : doc = Previsto(q)
    OBVIOUS
  <2>3. doc = [Documento EXCEPT !["satelite"] = {}] /\ "satelite" \in Lugares
    BY <1>4, <2>2 DEF Previsto, Lugares
  <2>4. doc = [k \in Lugares |-> doc[k]] /\ doc["satelite"] = {}
    BY <2>3 DEF Documento
  <2>5. dados + 1 \notin disco
    BY <1>7
  <2>6. PICK d : d = [doc EXCEPT !["satelite"] = doc["satelite"] \cup {dados + 1}]
    OBVIOUS
  <2>7. Concuerda(doc)
    BY <2>1, <2>2 DEF EnMarcha
  <2>8. Concuerda(d)'
    BY <1>4, <2>3, <2>4, <2>5, <2>6, <2>7, ConcuerdaGuardado
  <2>9. Previsto(q1)' = d
    <3>1. Documento' = Documento
      BY <1>4 DEF Documento
    <3>2. DelSatelite(x) = {dados + 1}
      BY <1>2, <1>7 DEF DelSatelite, Ficheros!SinArchivo
    <3>3. Previsto(q1)' = [Documento EXCEPT !["satelite"] = {dados + 1}]
      BY <1>9, <3>1, <3>2 DEF Previsto
    <3>4. d = [Documento EXCEPT !["satelite"] = {dados + 1}]
      BY <2>3, <2>4, <2>6
    <3> QED
      BY <3>3, <3>4
  <2> QED
    BY <1>9, <2>1, <2>8, <2>9 DEF EnMarcha
<1>12. QED
  BY <1>5, <1>7, <1>8, <1>10, <1>11, ArchivosSigue

LEMMA EscribirSateliteInv ==
  ASSUME ArchivosInv, NEW r \in Requests, Ficheros!EscribirSatelite(r)
  PROVE  ArchivosInv'
<1>1. PICK q : q = op[r]
  OBVIOUS
<1>2. /\ q.paso = "escribirSatelite" /\ satelite' = q.s /\ op' = [op EXCEPT ![r] = Nadie]
      /\ solape' = solape /\ muertes' = muertes
      /\ lista' = lista /\ disco' = disco /\ dados' = dados /\ sueltos' = sueltos
  BY <1>1 DEF Ficheros!EscribirSatelite, Ficheros!Terminar, Ficheros!Seguir, Ficheros!Libre, Nadie
<1>3. op[r] # Nadie
  BY <1>1, <1>2 DEF Nadie
<1>4. q.s \in SateliteDe(dados)
  BY <1>1, <1>2, <1>3, ArchivosSolo DEF PedidoDeArchivos
<1>5. ArchivosTipos' /\ dados <= dados'
  BY <1>2, <1>4 DEF ArchivosInv, ArchivosTipos
<1>6. ASSUME ~ solape', muertes' = 0
      PROVE  Concuerda(Documento)' /\ \A s \in Requests : s # r => op[s] = Nadie
  <2>1. EnMarcha(q) /\ \A s \in Requests : s # r => op[s] = Nadie
    BY <1>1, <1>2, <1>3, <1>6, ArchivosSolo
  <2>2. PICK d : d = [Documento EXCEPT !["satelite"] = DelSatelite(q.s)]
    OBVIOUS
  <2>3. Concuerda(d)
    BY <1>2, <2>1, <2>2 DEF EnMarcha, Previsto
  <2>4. Concuerda(d)'
    BY <1>2, <2>3 DEF Concuerda
  <2>5. Documento' = d
    BY <1>2, <2>2 DEF Documento, Lugares
  <2> QED
    BY <2>1, <2>4, <2>5
<1>7. QED
  BY <1>2, <1>5, <1>6, ArchivosSigue

(* A death leaves nothing to agree on.                                      *)
LEMMA MuerteArchivosInv ==
  ASSUME ArchivosInv, NEW r \in Requests, Ficheros!MuerteArchivos(r)
  PROVE  ArchivosInv'
<1>1. /\ op' = [op EXCEPT ![r] = Nadie] /\ muertes' = muertes + 1
      /\ lista' = lista /\ satelite' = satelite /\ disco' = disco /\ dados' = dados
  BY DEF Ficheros!MuerteArchivos, Ficheros!Morir, Ficheros!Libre, Nadie, Ficheros!archivosVars
<1>2. ArchivosTipos' /\ dados <= dados' /\ muertes' # 0
  BY <1>1 DEF ArchivosInv, ArchivosTipos
<1>3. QED
  BY <1>1, <1>2, ArchivosSigue

LEMMA PasoArchivos == ArchivosInv /\ Ficheros!NextArchivos => ArchivosInv'
<1> SUFFICES ASSUME ArchivosInv, Ficheros!NextArchivos PROVE ArchivosInv'
  OBVIOUS
<1>1. PICK r \in Requests :
        \/ \E t \in Ficheros!Tipos : \/ \E k \in 1 .. 2 : Ficheros!Upload(r, t, k)
                                     \/ \E n \in 1 .. dados : Ficheros!DeleteFile(r, t, n)
        \/ \E S \in SUBSET (1 .. dados) :
             \E orden \in Ficheros!SetToSeqs(S) : Ficheros!ReorderImages(r, orden)
        \/ \E n \in 1 .. dados : Ficheros!SetImageAsPortada(r, n)
        \/ Ficheros!UploadSatelliteImage(r) \/ Ficheros!QuitarSatelite(r)
        \/ Ficheros!GuardarSatelite(r)
        \/ Ficheros!CalibrateSatelliteImage(r) \/ Ficheros!EscribirSatelite(r)
        \/ Ficheros!ProcesarArchivo(r) \/ Ficheros!EscribirLista(r) \/ Ficheros!Unlink(r)
        \/ Ficheros!MuerteArchivos(r)
  BY DEF Ficheros!NextArchivos
<1>2. \A S \in SUBSET (1 .. dados) : IsFiniteSet(S)
  <2>1. IsFiniteSet(1 .. dados)
    BY FS_Interval DEF ArchivosInv, ArchivosTipos
  <2> QED
    BY <2>1, FS_Subset
<1>3. ASSUME NEW S \in SUBSET (1 .. dados), NEW orden \in Ficheros!SetToSeqs(S),
             Ficheros!ReorderImages(r, orden)
      PROVE  ArchivosInv'
  BY <1>2, <1>3, ReorderImagesInv
<1>4. ASSUME NEW t \in Ficheros!Tipos, NEW k \in 1 .. 2, Ficheros!Upload(r, t, k)
      PROVE  ArchivosInv'
  BY <1>4, UploadInv
<1>5. ASSUME NEW t \in Ficheros!Tipos, NEW n \in 1 .. dados, Ficheros!DeleteFile(r, t, n)
      PROVE  ArchivosInv'
  BY <1>5, DeleteFileInv
<1>6. ASSUME NEW n \in 1 .. dados, Ficheros!SetImageAsPortada(r, n)
      PROVE  ArchivosInv'
  BY <1>6, SetImageAsPortadaInv
<1>7. QED
  BY <1>1, <1>3, <1>4, <1>5, <1>6, UploadSatelliteImageInv, QuitarSateliteInv,
     GuardarSateliteInv, CalibrateSatelliteImageInv, EscribirSateliteInv, ProcesarArchivoInv,
     EscribirListaInv, UnlinkInv, MuerteArchivosInv

(* A list that names each file once names as many files as it has places.   *)
LEMMA TantosNombres ==
  ASSUME NEW d \in Nat, NEW s, ListaDe(s, d)
  PROVE  /\ Cardinality(NombresDe(s)) = Len(s)
         /\ Cardinality({i \in DOMAIN s : s[i].portada}) <= 1
<1>1. PICK m \in Nat : m = Len(s) /\ DOMAIN s = 1 .. m
  BY DEF ListaDe
<1>2. IsFiniteSet(1 .. m) /\ Cardinality(1 .. m) = m
  <2>1. Cardinality(1 .. m) = IF 1 > m THEN 0 ELSE m - 1 + 1
    BY FS_Interval
  <2> QED
    BY <2>1, FS_Interval
<1>3. PICK f : f = [i \in 1 .. m |-> s[i].n]
  OBVIOUS
<1>4. NombresDe(s) = {f[i] : i \in 1 .. m}
  BY <1>1, <1>3 DEF NombresDe, Ficheros!Nombres
<1>5. f \in Bijection(1 .. m, NombresDe(s))
  <2>1. \A i, j \in 1 .. m : f[i] = f[j] => i = j
    BY <1>1, <1>3 DEF ListaDe
  <2>2. f \in [1 .. m -> NombresDe(s)]
    BY <1>3, <1>4
  <2> QED
    BY <1>4, <2>1, <2>2 DEF Bijection, Injection, Surjection, IsInjective
<1>6. Cardinality(NombresDe(s)) = m
  BY <1>2, <1>5, FS_Bijection DEF ExistsBijection
<1>7. Cardinality({i \in DOMAIN s : s[i].portada}) <= 1
  <2>1. PICK C : C = {i \in DOMAIN s : s[i].portada}
    OBVIOUS
  <2>2. CASE C = {}
    BY <2>1, <2>2, FS_EmptySet
  <2>3. CASE C # {}
    <3>1. PICK i : i \in C
      BY <2>3
    <3>2. C = {i}
      BY <2>1, <3>1 DEF ListaDe
    <3>3. Cardinality({i}) = 1
      BY FS_Singleton
    <3> QED
      BY <2>1, <3>2, <3>3
  <2> QED
    BY <2>2, <2>3
<1>8. QED
  BY <1>1, <1>6, <1>7

LEMMA ArchivosConcuerdan == ArchivosInv => Ficheros!ArchivosEnDisco
<1> SUFFICES ASSUME ArchivosInv PROVE Ficheros!ArchivosEnDisco
  OBVIOUS
<1>1. /\ dados \in Nat /\ \A t \in Ficheros!Tipos : ListaDe(lista[t], dados)
      /\ "imagenes" \in Ficheros!Tipos
  BY DEF ArchivosInv, ArchivosTipos, Ficheros!Tipos
<1>2. Ficheros!Cardinality({i \in DOMAIN lista["imagenes"] : lista["imagenes"][i].portada}) <= 1
  BY <1>1, TantosNombres, CardinalArchivos
<1>3. \A t \in Ficheros!Tipos : Ficheros!Cardinality(Ficheros!Nombres(lista[t])) = Len(lista[t])
  BY <1>1, TantosNombres, CardinalArchivos DEF NombresDe
<1>4. ASSUME ~ solape, muertes = 0, Ficheros!EnCurso = {}
      PROVE  Ficheros!Nombrados \subseteq disco /\ disco \subseteq Ficheros!Nombrados \cup sueltos
  <2>1. \A r \in Requests : op[r] = Nadie
    BY <1>4 DEF Ficheros!EnCurso, Ficheros!Libre, Nadie
  <2>2. Concuerda(Documento)
    BY <1>4, <2>1 DEF ArchivosInv
  <2>3. ASSUME NEW n PROVE n \in Ficheros!Nombrados <=> \E k \in Lugares : n \in Documento[k]
    <3>1. n \in Ficheros!Nombrados <=> \/ \E t \in Ficheros!Tipos : n \in NombresDe(lista[t])
                                       \/ n \in DelSatelite(satelite)
      <4>1. ASSUME n \in Ficheros!Nombrados
            PROVE  (\E t \in Ficheros!Tipos : n \in NombresDe(lista[t])) \/ n \in DelSatelite(satelite)
        BY Zenon, <4>1 DEF Ficheros!Nombrados, NombresDe, DelSatelite
      <4>2. ASSUME NEW t \in Ficheros!Tipos, n \in NombresDe(lista[t])
            PROVE  n \in Ficheros!Nombrados
        BY Zenon, <4>2 DEF Ficheros!Nombrados, NombresDe
      <4>3. ASSUME n \in DelSatelite(satelite) PROVE n \in Ficheros!Nombrados
        BY Zenon, <4>3 DEF Ficheros!Nombrados, DelSatelite
      <4> QED
        BY <4>1, <4>2, <4>3
    <3>2. \A t \in Ficheros!Tipos : t \in Lugares /\ Documento[t] = NombresDe(lista[t])
      BY DEF Documento, Lugares, Ficheros!Tipos
    <3>3. "satelite" \in Lugares /\ Documento["satelite"] = DelSatelite(satelite)
      BY DEF Documento, Lugares
    <3>4. \A k \in Lugares : k = "satelite" \/ k \in Ficheros!Tipos
      BY DEF Lugares
    <3> QED
      BY <3>1, <3>2, <3>3, <3>4
  <2> QED
    BY <2>2, <2>3 DEF Concuerda
<1>5. QED
  BY <1>2, <1>3, <1>4 DEF Ficheros!ArchivosEnDisco

(* PropertyFiles: one cover at most, whatever requests interleave; and      *)
(* until two overlap or one dies, between requests every file that the      *)
(* document names is on disk, is named once, and nothing else is but what a *)
(* reordering dropped (property-files.service.ts, storage.service.ts).      *)
THEOREM ArchivosSiempreEnDisco == Spec => []ArchivosEnDisco
<1> DEFINE I == foco = "archivos" => ArchivosInv
<1>1. Init => I
  BY InitArchivosInv
<1>2. I /\ [Next]_registrosVars => I'
  <2> SUFFICES ASSUME I, [Next]_registrosVars, foco' = "archivos" PROVE ArchivosInv'
    OBVIOUS
  <2>1. CASE Next
    <3>1. foco = "archivos"
      BY <2>1 DEF Next, LosDemas
    <3>2. QED
      BY <2>1, <3>1, PasoArchivos DEF Next
  <2>2. CASE UNCHANGED registrosVars
    <3>1. /\ foco = "archivos" /\ op' = op /\ solape' = solape /\ muertes' = muertes
          /\ UNCHANGED Ficheros!archivosVars
      BY <2>2 DEF registrosVars, peticionesVars, archivosVars, Ficheros!archivosVars
    <3>2. ArchivosInv
      BY <3>1
    <3>3. ArchivosTipos'
      BY <3>1, <3>2 DEF ArchivosInv, ArchivosTipos, Ficheros!archivosVars
    <3> QED
      BY <3>1, <3>2, <3>3, SinTocarArchivos DEF ArchivosInv, UnaSola
  <2>3. QED
    BY <2>1, <2>2
<1>3. I => ArchivosEnDisco
  BY ArchivosConcuerdan DEF ArchivosEnDisco
<1>4. QED
  BY <1>1, <1>2, <1>3, PTL DEF Spec
=============================================================================
