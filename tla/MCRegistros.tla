---------------------------- MODULE MCRegistros ----------------------------
(* Instances of Registros for TLC, and of the calculations: a behaviour     *)
(* without a component in focus evaluates one of their cases.               *)
EXTENDS Registros, Calculos, FiniteSets, Functions, TLC

CONSTANTS r1, r2, m1, m2, s1, a1, a2, a3

MCRequests == {r1, r2}
MCMails == {m1, m2}
MCSincs == {s1}
MCLlegan == {a1, a2, a3}
(* a2 is the notice of a1 sent again; a3 cannot be read.                    *)
MCIlegibles == {a3}
MCRepite == (a1 :> a1) @@ (a2 :> a1) @@ (a3 :> a3)
MCSimetria == Permutations(MCRequests) \cup Permutations(MCMails)

MCInit == Init /\ IF foco = "ninguno" THEN CalInit ELSE caso = [de |-> "ninguna"]
MCNext == Next /\ UNCHANGED caso
MCSpec == MCInit /\ [][MCNext]_<<registrosVars, caso>>

----------------------------------------------------------------------------
(* Terms of a contract to be previewed: it starts on each kind of day, in a *)
(* leap year or not, and ends after some months, some days less or more.    *)
Inicios ==
  {[mes |-> x[1], dia |-> x[2]] :
     x \in {<<0, 1>>, <<0, 15>>, <<0, 28>>, <<0, 29>>, <<0, 31>>, <<12, 30>>, <<19, 31>>}}
Corrida(f, dias) ==
  CHOOSE g \in [mes : {f.mes - 1, f.mes, f.mes + 1}, dia : 1 .. 31] :
    g.dia <= Pagos!DiasDelMes(g.mes) /\ Pagos!Numero(g) = Pagos!Numero(f) + dias
Plazos ==
  {[inicio |-> i, fin |-> Corrida(Pagos!Mas(i, n), d)] :
     i \in Inicios, n \in {1, 3, 13}, d \in {-4, -1, 0, 9, 20}}
MCTerminos ==
  {[inicio |-> p.inicio, fin |-> p.fin, ajuste |-> Pagos!Mas(p.inicio, n),
    monto |-> 100, comision |-> x[1], periodicidad |-> k, fijo |-> fijo, deposito |-> x[2],
    honLocador |-> h[1], cuotasLocador |-> h[2], honLocatario |-> h[3], cuotasLocatario |-> h[4]] :
     p \in Plazos, n \in {1, 2, 12}, k \in {0, 1, 2}, fijo \in BOOLEAN, x \in {<<0, 0>>, <<7, 50>>},
     h \in {<<0, 1, 5, 2>>, <<3, 3, 5, 1>>}}

(* Legacy contracts, in half months, against three tables of the index:     *)
(* complete, with holes, and with one value.                                *)
Plazo(indice, inicio, fin, ajuste) ==
  [monto |-> 1000, comision |-> 10, indice |-> indice, inicio |-> inicio, fin |-> fin,
   ajuste |-> ajuste, deposito |-> 50, honLocador |-> 5, cuotasLocador |-> 3,
   honLocatario |-> 0, cuotasLocatario |-> 1, partes |-> {"LOCADOR", "LOCATARIO"}]
MCTablas ==
  {[f \in -2 .. 60 |-> 10 + f \div 4], [f \in {0, 12, 25, 37} |-> 7 + f], [f \in {30} |-> 9]}
MCLegados ==
  {c \in [t : {Plazo(i, s, s + m, s + a) : i \in {"FIJO", "ICL", "IPC"}, s \in {0, 1},
                                           m \in {24, 47}, a \in {12, 7}},
          tabla : MCTablas, hoy : 0 .. 48] : c.hoy \in c.t.inicio .. c.t.fin}

MCTipo ==
  [c \in {"ACT_CAJ", "CXC_ALQ", "CXP_LOC", "PAT", "ING_HNR", "EGR_GTO"} |->
     CASE c \in {"ACT_CAJ", "CXC_ALQ"} -> "ACTIVO" [] c = "CXP_LOC" -> "PASIVO"
       [] c = "PAT" -> "PATRIMONIO_NETO" [] c = "ING_HNR" -> "INGRESO" [] OTHER -> "EGRESO"]
(* Books of two balanced entries of two partidas each, of any accounts.     *)
Partidas(e, debe, haber, m) ==
  <<[estado |-> e, codigo |-> debe, debe |-> m, haber |-> 0],
    [estado |-> e, codigo |-> haber, debe |-> 0, haber |-> m]>>
MCLibro(e, d1, h1, d2, h2) ==
  [partidas |-> Partidas(e[1], d1, h1, 3) \o Partidas(e[2], d2, h2, 2),
   cajas |-> [k \in {1, 2} |-> [activa |-> k = 1, saldo |-> 5]]]
MCLibros ==
  {[l |-> MCLibro(e, d1, h1, d2, h2), fechas |-> f] :
     e \in {<<"PAGADO", "LIQUIDADO">>, <<"PAGADO_PARCIAL", "COBRADO">>},
     d1 \in DOMAIN MCTipo, h1 \in DOMAIN MCTipo, d2 \in DOMAIN MCTipo, h2 \in DOMAIN MCTipo,
     f \in BOOLEAN}

Contrato(s, i, f, a, m) ==
  [status |-> s, inicio |-> i, fin |-> f, ajuste |-> a, monto |-> m,
   partes |-> <<"LOCADOR", "LOCATARIO", "GARANTE">>]
MCContratos ==
  {Contrato("VIGENTE", -10, -1, 99, 4), Contrato("VIGENTE", -8, 2, 5, 3),
   Contrato("VIGENTE", -5, 15, 1, 6), Contrato("VIGENTE", -30, 6, 99, 2),
   Contrato("FINALIZADO", -14, -4, 99, 5), Contrato("RESCINDIDO", -6, 20, 2, 7),
   Contrato("PENDIENTE", 1, 25, 13, 8), Contrato("VIGENTE", 5, 4, 99, 1)}
MCCarteras == UNION {[1 .. n -> MCContratos] : n \in 0 .. 3}

MCDocumentos ==
  {<<1, 2, 3, 4, 5, 6, 7>>, <<2, 0, 1, 5, 5, 9, 0, 0>>, <<3, 8, 9, 9, 1, 0, 4, 2>>,
   <<0, 0, 0, 0, 0, 0, 1>>}

----------------------------------------------------------------------------
(* Notices: the first k things in rows, the next ones in columns, the last  *)
(* p in prose, and one of the cells empty if vacia is its number.           *)
Dato(es, v) == [es |-> es, v |-> v]
Importe(grupos, centavos) == Dato("monto", [grupos |-> grupos, centavos |-> centavos])
Dichos(trata, monto) ==
  IF trata = "debin"
  THEN <<<<"Identificador del Debin", Dato("id", 1)>>, <<"CUIT del pagador", Dato("cuit", 3)>>,
         <<"CBU crédito", Dato("cbu", 4)>>, <<"Fecha", Dato("fecha", 5)>>, <<"Importe", monto>>>>
  ELSE <<<<"Nº de transacción", Dato("id", 2)>>, <<"Importe", monto>>,
         <<"Cuenta origen", Dato("cbu", 6)>>, <<"CBU/CVU", Dato("cbu", 4)>>,
         <<"CUIT", Dato("cuit", 3)>>, <<"Fecha", Dato("fecha", 5)>>>>
DatosDeAviso == {"idIngreso", "idEgreso", "monto", "fecha", "debito", "credito", "cuit"}
PrimeraVariante(etiqueta) ==
  Correo!Variantes(CHOOSE d \in DatosDeAviso : Correo!Contains(Correo!Variantes(d), etiqueta))[1]
Nota(trata, monto, k, p, vacia) ==
  LET ds == Dichos(trata, monto)
      h == Len(ds) - p
      valor(i) == IF i = vacia THEN Correo!Vacia ELSE ds[i][2]
      enProsa == h + 1 .. Len(ds)
  IN  [trata |-> trata,
       filas |-> [i \in 1 .. k |-> <<ds[i][1], valor(i)>>],
       etiquetas |-> [i \in 1 .. h - k |-> ds[k + i][1]],
       valores |-> [i \in 1 .. h - k |-> valor(k + i)],
       prosa |-> [e \in {PrimeraVariante(ds[i][1]) : i \in enProsa} |->
                    ds[CHOOSE i \in enProsa : PrimeraVariante(ds[i][1]) = e][2]]]
MCNotas ==
  {Nota(t, m, k, p, v) :
     t \in {"debin", "transferencia", "otra cosa"},
     m \in {Importe(<<8>>, -1), Importe(<<500>>, 50), Importe(<<1, 234>>, 50),
            Importe(<<1, 234>>, -1), Importe(<<1, 2, 3>>, 7)},
     k \in 0 .. 3, p \in 0 .. 2, v \in 0 .. 6}

----------------------------------------------------------------------------
(* Lists and searches: every selection, in order, of a few records.         *)
Selecciones(s) == {SelectSeq(s, LAMBDA r : r \in R) : R \in SUBSET {s[i] : i \in DOMAIN s}}
HastaDos(S) == {<<>>} \cup {<<a>> : a \in S} \cup {<<a, b>> : a \in S, b \in S}
ConLetras(l) == [i \in DOMAIN l |-> [l |-> l[i], signo |-> ""]]
ConTilde(l, k, s) == [ConLetras(l) EXCEPT ![k].signo = s]

MCMovimiento(c, t, m, k, f) ==
  [cuenta |-> c, agente |-> c, tipo |-> t, monto |-> m, conciliado |-> k, fecha |-> f]
MCMovimientos ==
  <<MCMovimiento("c1", "INGRESO", 5, TRUE, 4), MCMovimiento("c1", "EGRESO", 3, FALSE, 5),
    MCMovimiento("c2", "INGRESO", 2, FALSE, 7), MCMovimiento("c1", "INGRESO", 7, FALSE, 8),
    MCMovimiento("c2", "EGRESO", 4, TRUE, 10)>>
MCConsultasDeCaja ==
  [cuenta : {SinFiltro, "c1"}, agente : {SinFiltro, "c1"}, tipo : {SinFiltro, "INGRESO"},
   conciliado : {SinFiltro, FALSE}, desde : {SinFiltro, 4}, hasta : {SinFiltro, 8}, zona : -1 .. 1]

MCEntrada(c, f, e, debe, pagado, liquidado) ==
  [contrato |-> c, fecha |-> f, estado |-> e, debe |-> debe, haber |-> debe,
   pagado |-> pagado, liquidado |-> liquidado]
MCEntradas ==
  <<MCEntrada("k1", 4, "PENDIENTE", 4, 0, 0), MCEntrada("k1", 6, "COBRADO", 3, 3, 1),
    MCEntrada("k2", 8, "PAGADO", 2, 2, 2), MCEntrada("k1", 8, "PAGADO_PARCIAL", 5, 5, 5),
    MCEntrada("k1", 9, "ANULADO", 6, 0, 0)>>
MCConsultasDeLibro ==
  [contrato : {SinFiltro, "k1"}, estado : {SinFiltro, "PAGADO"}, soloPendientes : BOOLEAN,
   desde : {SinFiltro, 4}, hasta : {SinFiltro, 8}]

MCDeposito(s, f, a, hay, h, l, u) ==
  [status |-> s, fin |-> f, deposito |-> 9, ajuste |-> a, tieneDeposito |-> hay, haber |-> h,
   liquidado |-> l, ultimoAlquiler |-> u]
MCDepositos ==
  <<MCDeposito("VIGENTE", 20, "AL_ORIGEN", TRUE, 9, 9, 12), MCDeposito("VIGENTE", 5, "AL_ORIGEN", TRUE, 9, 4, 0),
    MCDeposito("FINALIZADO", -3, "AL_ORIGEN", TRUE, 9, 0, 0), MCDeposito("VIGENTE", 7, "AL_ULTIMO_ALQUILER", TRUE, 9, 9, 12),
    MCDeposito("VIGENTE", 8, "AL_ORIGEN", FALSE, 0, 0, 0), MCDeposito("RESCINDIDO", 9, "AL_ORIGEN", TRUE, 9, 0, 0)>>
MCMensaje(f, s, a, g, t) == [fuente |-> f, status |-> s, asignado |-> a, tags |-> g, textos |-> t]
MCMensajes ==
  <<MCMensaje("Email", "Nuevo", "u1", {"g"}, {"hola"}), MCMensaje("Email", "Archivado", "nadie", {}, {"hola"}),
    MCMensaje("WhatsApp", "Leido", "u1", {"g"}, {}), MCMensaje("Interno", "Leido", "u2", {}, {"hola"})>>

(* Documents that registerPayment and liquidarAPropietario leave, of an     *)
(* owner that may owe part of what another owes; two lines on each.         *)
MCAsiento(e, debe, agenteDebe, pagado, haber, liquidado) ==
  [contrato |-> "k", estado |-> e, monto_original |-> debe[1] + debe[2], monto_actual |-> debe[1] + debe[2],
   debe |-> debe, agenteDebe |-> agenteDebe, pagado |-> pagado,
   haber |-> haber, agenteHaber |-> <<"locador", "sin agente">>, liquidado |-> liquidado]
MCAsientos ==
  {MCAsiento("PENDIENTE", <<5, 0>>, <<"locatario", "locatario">>, <<0, 0>>, <<4, 1>>, <<0, 0>>),
   MCAsiento("PAGADO_PARCIAL", <<5, 2>>, <<"locatario", "locador">>, <<3, 0>>, <<6, 1>>, <<0, 0>>),
   MCAsiento("COBRADO", <<5, 0>>, <<"locatario", "locatario">>, <<5, 0>>, <<4, 1>>, <<2, 0>>),
   MCAsiento("PENDIENTE", <<0, 0>>, <<"locatario", "locatario">>, <<0, 0>>, <<4, 0>>, <<0, 0>>),
   MCAsiento("ANULADO", <<5, 0>>, <<"locatario", "locatario">>, <<0, 0>>, <<5, 0>>, <<0, 0>>)}
MCLineas ==
  {[a |-> a, tipo |-> "COBRO", monto |-> m, agente |-> "locatario"] : a \in 1 .. 2, m \in {2, 5}}
    \cup {[a |-> a, tipo |-> "PAGO", monto |-> m, agente |-> g] : a \in 1 .. 2, m \in {2, 4}, g \in {"locador", "otro"}}

MCConsultas ==
  [bandeja   |-> [rs : Selecciones(MCMensajes),
                  q : [fuente : {SinFiltro, "Email"}, status : {SinFiltro, "Leido"},
                       asignado : {SinFiltro, "u1", "no es un id"}, tag : {SinFiltro, "g"}, texto : {SinFiltro, "hola"}]],
   recibo    |-> [rs : MCAsientos \X MCAsientos, q : HastaDos(MCLineas)],
   caja      |-> [rs : Selecciones(MCMovimientos), q : MCConsultasDeCaja, dia : {1}],
   banco     |-> [rs : Selecciones(MCMovimientos)],
   libro     |-> [rs : Selecciones(MCEntradas), q : MCConsultasDeLibro],
   depositos |-> [rs : Selecciones(MCDepositos),
                  q : [proximos : BOOLEAN, desde : {SinFiltro, 0}, hasta : {SinFiltro, 10}]]]

MCFicha(t, ceros, m, as) == [titulo |-> t, codigo |-> [ceros |-> ceros, num |-> m], monto |-> m, amenities |-> as]
MCFichas ==
  <<MCFicha(ConLetras(<<"c", "a", "s", "a">>), 0, 1, {ConTilde(<<"u", "n">>, 1, "dieresis")}),
    MCFicha(ConTilde(<<"c", "a", "s", "a">>, 2, "tilde"), 1, 1, {}),
    MCFicha(ConTilde(<<"s", "u", "r">>, 2, "tilde"), 0, 2, {ConLetras(<<"c", "a">>)}),
    MCFicha(ConLetras(<<"a", "s">>), 2, 3, {})>>
MCCriterio(campos, oper, t, n) == [campos |-> campos, op |-> oper, t |-> ConLetras(t), n |-> [ceros |-> 0, num |-> n]]
MCCriterios ==
  {MCCriterio(<<"titulo">>, o, t, 0) : o \in {"contains", "eq"}, t \in {<<"c", "a", "s", "a">>, <<"a", "s">>, <<"u">>}}
    \cup {MCCriterio(<<"monto">>, o, <<>>, 2) : o \in {"gt", "gte", "lt", "lte", "eq"}}
    \cup {MCCriterio(<<"codigo", "monto">>, "eq", <<>>, 1), MCCriterio(<<"codigo">>, "eq", <<>>, 2),
          MCCriterio(<<"amenities">>, "contains", <<"u">>, 0)}

MCArrendado(s, d, t, txt, locador, locatario) ==
  [status |-> s, direccion |-> d, tipo |-> t, enTexto |-> txt, locador |-> locador, locatario |-> locatario]
Ana == ConLetras(<<"a", "n", "a">>)
Alem == ConLetras(<<"a", "l", "e", "m">>)
Malena == ConTilde(<<"m", "a", "l", "e", "n", "a">>, 2, "tilde")
MCArrendados ==
  <<MCArrendado("VIGENTE", Alem, "casa", TRUE, Ana, Malena), MCArrendado("VIGENTE", Alem, "local", FALSE, Malena, Ana),
    MCArrendado("FINALIZADO", Ana, "casa", TRUE, Ana, Alem), MCArrendado("VIGENTE", Malena, "casa", FALSE, Alem, Alem)>>
MCPedidos ==
  {[campo |-> c, t |-> ConLetras(t), v |-> ""] :
     c \in {"direccion", "locatario"}, t \in {<<"a", "l", "e">>, <<"e", "n">>, <<"n", "a">>, <<"z">>}}
    \cup {[campo |-> "status", t |-> <<>>, v |-> s] : s \in {"VIGENTE", "FINALIZADO"}}
    \cup {[campo |-> "tipo", t |-> <<>>, v |-> "casa"]}

MCOfrecida(s, v, a, c, lat, amb, p) ==
  [status |-> s, venta |-> v, alquiler |-> a, titulo |-> Alem, ciudad |-> c, lat |-> lat, ambientes |-> amb,
   precio |-> p, tipo |-> IF v THEN "casa" ELSE "local"]
MCOferta ==
  <<MCOfrecida("DISPONIBLE", TRUE, FALSE, Ana, 1, 2, 10), MCOfrecida("DISPONIBLE", FALSE, TRUE, Malena, 2, 3, 5),
    MCOfrecida("DISPONIBLE", TRUE, TRUE, Ana, 3, 1, 8), MCOfrecida("ALQUILADO", TRUE, TRUE, Ana, 1, 4, 9),
    MCOfrecida("DISPONIBLE", FALSE, FALSE, Malena, 2, 2, 7), MCOfrecida("DISPONIBLE", TRUE, FALSE, Ana, 2, 2, 0)>>
MCAvisos ==
  [operacion : {"sale", "rent", "ninguna", "otra"}, tipo : {"", "casa"}, q : {<<>>, ConLetras(<<"l", "e">>), Ana},
   sur : {1}, norte : {2, 3}]
MCAgentes ==
  <<[telefonos |-> {<<1, 1, 2, 5>>}], [telefonos |-> {<<5, 4, 9, 1, 1, 2, 6>>, <<2, 8, 0, 4>>}],
    [telefonos |-> {<<5, 4, 9, 2, 8, 0, 4>>}], [telefonos |-> {}]>>
MCJids == {<<5, 4, 9, 1, 1, 2, 5>>, <<5, 4, 9, 1, 1, 2, 6>>, <<5, 4, 9, 2, 8, 0, 4>>, <<5, 4, 9, 1, 1, 2, 7>>}
Ceros(k, n) == [i \in 1 .. k |-> 0] \o n
MCDnis == {Ceros(k, n) : k \in 0 .. 1, n \in {<<5, 9, 8, 2, 0, 1, 5>>, <<1, 9, 8, 2, 0, 1, 5>>}}
            \cup {<<2, 5, 9, 8, 2, 0, 1, 5>>, <<2, 0>> \o Ceros(1, <<5, 9, 8, 2, 0, 1, 5, 3>>)}
MCBuscados ==
  [identidad |-> [rs : HastaDos([documentos : {D \in SUBSET MCDnis : Cardinality(D) <= 2}]), q : MCDnis],
   cliente   |-> [rs : Selecciones(MCAgentes), q : MCJids],
   pagina    |-> [rs : Selecciones(MCFichas), q : HastaDos(MCCriterios), sort : {"", "-monto"}, n : {1, 2}],
   contratos |-> [rs : Selecciones(MCArrendados), q : HastaDos(MCPedidos)],
   oferta    |-> [rs : Selecciones(MCOferta), q : MCAvisos]]
=============================================================================
