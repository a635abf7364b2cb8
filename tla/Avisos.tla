------------------------------- MODULE Avisos -------------------------------
(***************************************************************************)
(* RedlinkScanService.parseEmail: what a movement takes from a notice of   *)
(* the bank.  A notice says things in rows of a label and a value, or in   *)
(* two columns, a table of labels beside a table of values, whose cells    *)
(* are paired after the empty ones were thrown away; or in its prose.      *)
(*                                                                         *)
(* A notice is [trata, filas, etiquetas, valores, prosa]: what its subject *)
(* is about, its rows, its two columns, and [label -> value] for what the  *)
(* regular expressions find in its prose.  A value is [es, v]: an amount,  *)
(* with its "$", is written as [grupos, centavos], and of any other text v *)
(* stands for its first digits.                                            *)
(***************************************************************************)
EXTENDS Integers, Sequences, SequencesExt, Functions

Vacia == [es |-> "vacia", v |-> 0]
Dicha(c) == c.es # "vacia"

(* Of the labels that may name a datum, in the order they are looked for.   *)
Variantes(dato) ==
  CASE dato = "idIngreso" -> <<"Identificador del Debin">>
    [] dato = "idEgreso"  -> <<"Identificador de Transferencia", "Nº de transacción">>
    [] dato = "monto"     -> <<"Importe">>
    [] dato = "fecha"     -> <<"Fecha">>
    [] dato = "debito"    -> <<"CBU débito", "Cuenta origen">>
    [] dato = "credito"   -> <<"CBU crédito", "CBU/CVU">>
    [] dato = "cuit"      -> <<"CUIT", "CUIT del pagador", "CUIT del destinatario">>

(* The kind of text that a pattern accepts; an identifier takes any, and an *)
(* amount the first digits of any.                                          *)
Acepta(dato, c) ==
  CASE dato \in {"idIngreso", "idEgreso", "monto"} -> Dicha(c)
    [] dato \in {"debito", "credito"} -> c.es = "cbu"
    [] dato = "cuit" -> c.es \in {"cuit", "cbu"}
    [] OTHER -> c.es = dato

----------------------------------------------------------------------------
(* Mutant: the columns are not read.                                        *)
BuildLabelMapSinColumnas(x) ==
  LET filas == {x.filas[i] : i \in DOMAIN x.filas}
  IN  [e \in {f[1] : f \in filas} |-> (CHOOSE f \in filas : f[1] = e)[2]]

(* buildLabelMap(): a row with an empty cell says nothing, the last row of  *)
(* a label wins, and the columns win over the rows.                         *)
BuildLabelMap(x) ==
  LET filas == SelectSeq(x.filas, LAMBDA f : Dicha(f[2]))
      valores == SelectSeq(x.valores, Dicha)
      n == IF Len(x.etiquetas) < Len(valores) THEN Len(x.etiquetas) ELSE Len(valores)
      pares == filas \o [i \in 1 .. n |-> <<x.etiquetas[i], valores[i]>>]
  IN  [e \in {pares[i][1] : i \in DOMAIN pares} |->
         pares[CHOOSE i \in DOMAIN pares :
                 pares[i][1] = e /\ \A j \in DOMAIN pares : pares[j][1] = e => j <= i][2]]

(* What follows a "$" anywhere in the notice.                               *)
ConPesos(x) ==
  SelectSeq([i \in DOMAIN x.filas |-> x.filas[i][2]] \o x.valores, LAMBDA c : c.es = "monto")
    \o (IF "Importe" \in DOMAIN x.prosa THEN <<x.prosa["Importe"]>> ELSE <<>>)

(* extractIdentificador, extractMonto, extractFecha, extractCBU and         *)
(* extractCUIT: the labels, and then the text: its prose, or for an amount  *)
(* whose label has no value the first "$".                                  *)
Extraer(x, mapa, dato) ==
  LET vs == Variantes(dato)
      hay(i) == vs[i] \in DOMAIN mapa /\ Acepta(dato, mapa[vs[i]])
      enMapa == {i \in DOMAIN vs : hay(i)}
      primera == CHOOSE i \in enMapa : \A j \in enMapa : i <= j
      enTexto == CASE dato = "monto" -> ConPesos(x)
                   [] vs[1] \in DOMAIN x.prosa -> <<x.prosa[vs[1]]>>
                   [] OTHER -> <<>>
  IN  IF enMapa # {} THEN mapa[vs[primera]] ELSE IF enTexto # <<>> THEN enTexto[1] ELSE Vacia

(* extractMonto(), in thousandths: dots are thousands only with a comma;    *)
(* without one, parseFloat stops at the second dot.  Of a text that is not  *)
(* an amount (a date, a CUIT, an account), its first digits.                *)
MontoLeido(c) ==
  LET g == c.v.grupos
      entero == FoldLeft(LAMBDA n, k : 1000 * n + k, 0, g)
  IN  IF c.es # "monto" THEN 1000 * c.v
      ELSE IF c.v.centavos # -1 THEN 1000 * entero + 10 * c.v.centavos
      ELSE IF Len(g) = 1 THEN 1000 * g[1]
      ELSE 1000 * g[1] + g[2]

MontoEscrito(e) ==
  1000 * FoldLeft(LAMBDA n, k : 1000 * n + k, 0, e.grupos) + (IF e.centavos = -1 THEN 0 ELSE 10 * e.centavos)

Nulo == [tipo |-> "ninguno"]

(* parseEmail(): a debin comes in, a transfer goes out, and nothing else is *)
(* read; without an identifier or an amount there is no movement.           *)
ParseEmail(x) ==
  LET mapa == BuildLabelMap(x)
      dato(d) == Extraer(x, mapa, d)
      id == dato(IF x.trata = "debin" THEN "idIngreso" ELSE "idEgreso")
      monto == IF Dicha(dato("monto")) THEN MontoLeido(dato("monto")) ELSE 0
  IN  IF x.trata = "otra cosa" \/ ~ Dicha(id) \/ monto = 0 THEN Nulo
      ELSE [tipo |-> IF x.trata = "debin" THEN "INGRESO" ELSE "EGRESO", id |-> id, monto |-> monto,
            fecha |-> dato("fecha"), credito |-> dato("credito"), cuit |-> dato("cuit"),
            debito |-> IF x.trata = "debin" THEN Vacia ELSE dato("debito")]

----------------------------------------------------------------------------
(* What a notice says, cell by cell, in its rows, its columns or its prose. *)
Dice(x, dato) ==
  LET dichos == {x.filas[i] : i \in DOMAIN x.filas}
                  \cup {<<x.etiquetas[i], x.valores[i]>> : i \in DOMAIN x.etiquetas}
                  \cup {<<e, x.prosa[e]>> : e \in DOMAIN x.prosa}
      de == {d \in dichos : Contains(Variantes(dato), d[1]) /\ Acepta(dato, d[2])}
  IN  IF de = {} THEN Vacia ELSE (CHOOSE d \in de : TRUE)[2]

(* An empty cell of the columns at or before the amount's leaves another    *)
(* value, of those that follow, beside its label.                           *)
ImporteCorrido(x) ==
  LET quedan == Len(SelectSeq(x.valores, Dicha))
  IN  \E i \in DOMAIN x.etiquetas :
        x.etiquetas[i] = "Importe" /\ i <= quedan /\ \E j \in 1 .. i : ~ Dicha(x.valores[j])

(* A movement has the amount that its notice says, if it was not written    *)
(* with dots and without cents, and none is made up, unless an empty cell   *)
(* shifted another value to its label: then it is a wrong one.  When no     *)
(* cell of the columns is empty the rest of it is what the notice says too. *)
MovimientoFiel(x) ==
  LET m == ParseEmail(x)
      e == Dice(x, "monto")
      completo == \A i \in DOMAIN x.valores : Dicha(x.valores[i])
  IN  m # Nulo =>
        /\ ~ ImporteCorrido(x) =>
             /\ Dicha(e)
             /\ e.v.centavos # -1 \/ Len(e.v.grupos) = 1 => m.monto = MontoEscrito(e.v)
        /\ completo =>
             /\ m.id = Dice(x, IF x.trata = "debin" THEN "idIngreso" ELSE "idEgreso")
             /\ m.fecha = Dice(x, "fecha") /\ m.credito = Dice(x, "credito") /\ m.cuit = Dice(x, "cuit")
             /\ m.debito = (IF m.tipo = "EGRESO" THEN Dice(x, "debito") ELSE Vacia)
=============================================================================
