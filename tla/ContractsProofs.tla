--------------------------- MODULE ContractsProofs ---------------------------
(***************************************************************************)
(* Proofs about Contracts, for every set of contracts, properties and      *)
(* requests and whatever terms the contracts have: the entries that the    *)
(* shared builder lets through balance; and while requests do not overlap, *)
(* a property offered as free is held by no contract, and the accounts of  *)
(* a contract are what its terms say, once for each activation.            *)
(***************************************************************************)
EXTENDS Contracts, SequenceTheorems, Sumas, TLAPS

EsSecuencia(s) == s \in Seq({s[i] : i \in DOMAIN s})

----------------------------------------------------------------------------
(* The entries.  Nothing is asked of the calls, nor of what two of them     *)
(* leave mixed in the builder: build() is the only way to "armado".         *)

Armados == \A r \in Requests : cadena[r].fase = "armado" => Balanceado(cadena[r].armado.partidas)

InvBalance ==
  /\ asientos = [c \in Contratos |-> asientos[c]]
  /\ \A c \in Contratos : EsSecuencia(asientos[c])
  /\ cadena = [r \in Requests |-> cadena[r]]
  /\ Armados
  /\ AsientosBalanceados

LEMMA Agregada ==
  ASSUME NEW s, EsSecuencia(s), NEW e
  PROVE  /\ EsSecuencia(Append(s, e))
         /\ \A i \in DOMAIN Append(s, e) :
              (i \in DOMAIN s /\ Append(s, e)[i] = s[i]) \/ Append(s, e)[i] = e
<1> DEFINE S == {s[i] : i \in DOMAIN s} \cup {e}
           t == Append(s, e)
<1>1. s \in Seq({s[i] : i \in DOMAIN s}) /\ s \in Seq(S) /\ e \in S
  BY DEF EsSecuencia
<1> HIDE DEF S
<1>2. /\ t \in Seq(S) /\ Len(t) = Len(s) + 1 /\ t[Len(s) + 1] = e
      /\ \A i \in 1 .. Len(s) : t[i] = s[i]
  BY <1>1, AppendProperties
<1>3. Len(s) \in Nat /\ DOMAIN s = 1 .. Len(s) /\ DOMAIN t = 1 .. Len(t)
  BY <1>1, <1>2
<1> HIDE DEF t
<1>4. EsSecuencia(t)
  <2>1. t = [i \in 1 .. Len(t) |-> t[i]] /\ Len(t) \in Nat
    BY <1>2
  <2>2. \A i \in 1 .. Len(t) : t[i] \in {t[j] : j \in DOMAIN t}
    BY <1>3
  <2> QED
    BY <2>1, <2>2 DEF EsSecuencia
<1>5. \A i \in DOMAIN t : (i \in DOMAIN s /\ t[i] = s[i]) \/ t[i] = e
  BY <1>2, <1>3
<1>6. QED
  BY <1>4, <1>5 DEF t

(* A call that goes on ends as "armado" only through build().               *)
LEMMA SeguirBalance ==
  ASSUME InvBalance, NEW r \in Requests, NEW llamada, NEW b, NEW i, NEW conocidas,
         Seguir(r, llamada, b, i, conocidas), UNCHANGED asientos
  PROVE  InvBalance'
<1> DEFINE c == Agregar(b, llamada, i, conocidas)
           j == Hasta(llamada, i, conocidas)
           listo == j <= Len(llamada.partidas)
           q == [fase |-> IF listo THEN "cuenta"
                          ELSE IF Balanceado(c.partidas) THEN "armado" ELSE "error",
                 llamada |-> llamada, i |-> j,
                 armado |-> IF listo THEN NadaArmado ELSE c]
<1>1. cadena' = [cadena EXCEPT ![r] = q]
  BY DEF Seguir
<1> HIDE DEF c, j, listo
<1>2. ASSUME q.fase = "armado"
      PROVE  Balanceado(q.armado.partidas)
  <2>1. ~ listo /\ Balanceado(c.partidas)
    BY <1>2
  <2> QED
    BY <2>1
<1> HIDE DEF q
<1>3. cadena' = [s \in Requests |-> cadena'[s]] /\ cadena'[r] = q
      /\ \A s \in Requests : s # r => cadena'[s] = cadena[s]
  BY <1>1 DEF InvBalance
<1>4. Armados'
  BY <1>2, <1>3 DEF InvBalance, Armados
<1>5. QED
  BY <1>3, <1>4 DEF InvBalance, AsientosBalanceados

(* A call that ends or waits.                                               *)
LEMMA CadenaBalance ==
  ASSUME InvBalance, NEW r \in Requests, NEW q, cadena' = [cadena EXCEPT ![r] = q],
         q.fase # "armado", UNCHANGED asientos
  PROVE  InvBalance'
<1>1. cadena' = [s \in Requests |-> cadena'[s]] /\ cadena'[r] = q
      /\ \A s \in Requests : s # r => cadena'[s] = cadena[s]
  BY DEF InvBalance
<1>2. Armados'
  BY <1>1 DEF InvBalance, Armados
<1>3. QED
  BY <1>1, <1>2 DEF InvBalance, AsientosBalanceados

LEMMA GenerarBalance ==
  ASSUME InvBalance, NEW r \in Requests, Generar(r)
  PROVE  InvBalance'
<1> DEFINE l == Plan(pedido[r].c)[pedido[r].k]
           q == [SinCadena EXCEPT !.fase = "previa", !.llamada = l]
<1>1. UNCHANGED asientos
  BY DEF Generar
<1>2. CASE Seguir(r, l, Reset(l), 1, cuentas)
  BY <1>1, <1>2, SeguirBalance
<1>3. CASE cadena' = [cadena EXCEPT ![r] = q]
  <2> HIDE DEF l
  <2>1. q.fase = "previa"
    BY DEF SinCadena
  <2> QED
    BY <1>1, <1>3, <2>1, CadenaBalance
<1>4. CASE UNCHANGED cadena
  BY <1>1, <1>4 DEF InvBalance, Armados, AsientosBalanceados
<1>5. QED
  BY <1>2, <1>3, <1>4 DEF Generar, Llamar, bldVars

LEMMA BuscarCuentaBalance ==
  ASSUME InvBalance, NEW r \in Requests, BuscarCuenta(r)
  PROVE  InvBalance'
<1> DEFINE q == [SinCadena EXCEPT !.fase = "error"]
<1>1. UNCHANGED asientos
  BY DEF BuscarCuenta, ctrVars
<1>2. ASSUME NEW l, NEW b, NEW i, NEW conocidas, Seguir(r, l, b, i, conocidas)
      PROVE  InvBalance'
  BY <1>1, <1>2, SeguirBalance
<1>3. CASE cadena' = [cadena EXCEPT ![r] = q]
  <2>1. q.fase = "error"
    BY DEF SinCadena
  <2> QED
    BY <1>1, <1>3, <2>1, CadenaBalance
<1>4. QED
  BY <1>2, <1>3 DEF BuscarCuenta, GetAccountByCode

(* What is stored is what build() let through.                              *)
LEMMA GuardarAsientoBalance ==
  ASSUME InvBalance, NEW r \in Requests, GuardarAsiento(r)
  PROVE  InvBalance'
<1> DEFINE b == cadena[r].armado
           e == [tipo |-> b.tipo, estado |-> "PENDIENTE", ajuste |-> b.ajuste,
                 partidas |-> b.partidas]
           d == pedido[r].c
<1>1. /\ cadena[r].fase = "armado" /\ cadena' = [cadena EXCEPT ![r] = SinCadena]
      /\ asientos' = [asientos EXCEPT ![d] = Append(@, e)]
  BY DEF GuardarAsiento
<1>2. e.partidas = cadena[r].armado.partidas
  OBVIOUS
<1>3. TotalDebe(e.partidas) - TotalHaber(e.partidas) \in -Centavos .. Centavos
  BY <1>1, <1>2 DEF InvBalance, Armados, Balanceado
<1> HIDE DEF e, d
<1>4. /\ asientos' = [c \in Contratos |-> asientos'[c]]
      /\ \A c \in Contratos : asientos'[c] = asientos[c] \/ asientos'[c] = Append(asientos[c], e)
  BY <1>1 DEF InvBalance
<1>5. ASSUME NEW c \in Contratos
      PROVE  /\ EsSecuencia(asientos'[c])
             /\ \A k \in DOMAIN asientos'[c] :
                  (k \in DOMAIN asientos[c] /\ asientos'[c][k] = asientos[c][k])
                  \/ asientos'[c][k] = e
  <2>1. EsSecuencia(asientos[c])
    BY DEF InvBalance
  <2>2. CASE asientos'[c] = asientos[c]
    BY <2>1, <2>2
  <2>3. CASE asientos'[c] = Append(asientos[c], e)
    BY <2>1, <2>3, Agregada
  <2> QED
    BY <1>4, <2>2, <2>3
<1>6. (\A c \in Contratos : EsSecuencia(asientos[c]))'
  BY <1>5
<1>7. AsientosBalanceados'
  <2> SUFFICES ASSUME NEW c \in Contratos, NEW k \in DOMAIN asientos'[c]
               PROVE  TotalDebe(asientos'[c][k].partidas) - TotalHaber(asientos'[c][k].partidas)
                        \in -Centavos .. Centavos
    BY DEF AsientosBalanceados
  <2>1. CASE asientos'[c][k] = e
    BY <1>3, <2>1
  <2>2. CASE k \in DOMAIN asientos[c] /\ asientos'[c][k] = asientos[c][k]
    BY <2>2 DEF InvBalance, AsientosBalanceados
  <2> QED
    BY <1>5, <2>1, <2>2
<1>8. Armados' /\ cadena' = [s \in Requests |-> cadena'[s]]
  BY <1>1 DEF InvBalance, Armados, SinCadena
<1>9. QED
  BY <1>4, <1>6, <1>7, <1>8 DEF InvBalance

LEMMA InterrumpidaBalance ==
  ASSUME InvBalance, NEW r \in Requests, GeneracionInterrumpida(r)
  PROVE  InvBalance'
<1>1. SinCadena.fase # "armado"
  BY DEF SinCadena
<1>2. QED
  BY <1>1, CadenaBalance DEF GeneracionInterrumpida

LEMMA DeleteWithEntriesBalance ==
  ASSUME InvBalance, NEW r \in Requests, NEW c \in Contratos, DeleteWithEntries(r, c)
  PROVE  InvBalance'
<1>1. asientos' = [asientos EXCEPT ![c] = <<>>] /\ UNCHANGED cadena
  BY DEF DeleteWithEntries, bldVars
<1>2. asientos' = [d \in Contratos |-> asientos'[d]]
      /\ \A d \in Contratos : asientos'[d] = IF d = c THEN <<>> ELSE asientos[d]
  BY <1>1 DEF InvBalance
<1>3. EsSecuencia(<<>>)
  BY DEF EsSecuencia
<1>4. (\A d \in Contratos : EsSecuencia(asientos[d]))'
  BY <1>2, <1>3 DEF InvBalance
<1>5. AsientosBalanceados'
  BY <1>2 DEF InvBalance, AsientosBalanceados
<1>6. QED
  BY <1>1, <1>2, <1>4, <1>5 DEF InvBalance, Armados

LEMMA NextBalance == InvBalance /\ [CNext]_cvars => InvBalance'
<1> SUFFICES ASSUME InvBalance, [CNext]_cvars
             PROVE  InvBalance'
  OBVIOUS
<1>1. CASE UNCHANGED <<asientos, cadena>>
  BY <1>1 DEF InvBalance, Armados, AsientosBalanceados
<1>2. ASSUME NEW r \in Requests,
             \/ \E c \in Contratos : (\E e \in Altas : Create(r, c, e))
                                     \/ (\E dto \in DtosContrato : Update(r, c, dto))
             \/ \E p \in Propiedades, dto \in DtosPropiedad : UpdateProperty(r, p, dto)
             \/ TomarPropiedad(r) \/ Actualizar(r) \/ BorrarContrato(r) \/ EscribirPropiedad(r)
      PROVE  UNCHANGED <<asientos, cadena>>
  BY <1>2 DEF Create, Update, UpdateProperty, TomarPropiedad, Actualizar, BorrarContrato,
              EscribirPropiedad, bldVars
<1>3. ASSUME NEW r \in Requests,
             \/ \E c \in Contratos : DeleteWithEntries(r, c)
             \/ Generar(r) \/ BuscarCuenta(r) \/ GuardarAsiento(r) \/ GeneracionInterrumpida(r)
      PROVE  InvBalance'
  BY <1>3, DeleteWithEntriesBalance, GenerarBalance, BuscarCuentaBalance,
     GuardarAsientoBalance, InterrumpidaBalance
<1>4. CASE UNCHANGED cvars
  BY <1>1, <1>4 DEF cvars, ctrVars, bldVars
<1>5. QED
  BY <1>1, <1>2, <1>3, <1>4 DEF CNext

LEMMA InitBalance == CInit => InvBalance
BY DEF CInit, BldInit, InvBalance, EsSecuencia, Armados, SinCadena, AsientosBalanceados

(* Every entry stored for a contract balances within Centavos, also one     *)
(* that two requests mixed in the shared builder, or that was built after   *)
(* another had failed (AccountingEntryBuilder.build).                       *)
THEOREM AsientosSiempreBalanceados == CSpec => []AsientosBalanceados
<1>1. InvBalance => AsientosBalanceados
  BY DEF InvBalance
<1>2. QED
  BY <1>1, InitBalance, NextBalance, PTL DEF CSpec

----------------------------------------------------------------------------
(* The properties.  A request read that the property was free of contracts  *)
(* before it writes; while requests do not overlap it still is.  A factory  *)
(* call in progress belongs to a request that waits for it.                 *)

CamposPedido == {"fase", "c", "p", "status", "hitos", "liberar", "generar", "k"}
FormaPedido(q) == q = [f \in CamposPedido |-> q[f]]
FormaPropiedad(x) == x = [f \in {"status", "vigente"} |-> x[f]]

Solo ==
  /\ \A r, s \in Requests : pedido[r].fase # "libre" /\ pedido[s].fase # "libre" => r = s
  /\ \A r \in Requests : pedido[r].fase = "escribir" /\ pedido[r].status = "DISPONIBLE" =>
       propiedad[pedido[r].p].vigente = SinContrato
  /\ \A p \in Propiedades :
       propiedad[p].status = "DISPONIBLE" => propiedad[p].vigente = SinContrato

InvPropiedad ==
  /\ solape \in BOOLEAN
  /\ pedido = [r \in Requests |-> pedido[r]]
  /\ \A r \in Requests : FormaPedido(pedido[r])
  /\ propiedad = [p \in Propiedades |-> propiedad[p]]
  /\ \A p \in Propiedades : FormaPropiedad(propiedad[p])
  /\ cadena = [r \in Requests |-> cadena[r]]
  /\ \A r \in Requests : cadena[r].fase # "libre" => pedido[r].fase = "armando"
  /\ ~ solape => Solo

LEMMA SinPedidoVale == FormaPedido(SinPedido) /\ SinPedido.fase = "libre"
BY DEF SinPedido, FormaPedido, CamposPedido

(* A request goes on or ends, and no property is written.                   *)
LEMMA PasoDePedido ==
  ASSUME InvPropiedad, NEW r \in Requests, NEW q, pedido' = [pedido EXCEPT ![r] = q],
         FormaPedido(q), UNCHANGED <<propiedad, cadena>>,
         pedido[r].fase # "armando",
         \/ UNCHANGED solape /\ pedido[r].fase # "libre" /\ q.fase # "escribir"
         \/ /\ Libre(r)
            /\ q.fase = "escribir" /\ q.status = "DISPONIBLE" =>
                 propiedad[q.p].vigente = SinContrato
  PROVE  InvPropiedad'
<1>1. /\ pedido' = [s \in Requests |-> pedido'[s]] /\ pedido'[r] = q
      /\ \A s \in Requests : s # r => pedido'[s] = pedido[s]
  BY DEF InvPropiedad
<1>2. solape' \in BOOLEAN
  BY DEF InvPropiedad, Libre
<1>3. (\A s \in Requests : FormaPedido(pedido[s]))'
  BY <1>1 DEF InvPropiedad
<1>4. (\A s \in Requests : cadena[s].fase # "libre" => pedido[s].fase = "armando")'
  BY <1>1 DEF InvPropiedad
<1>5. ASSUME ~ solape'
      PROVE  Solo'
  <2>1. CASE UNCHANGED solape /\ pedido[r].fase # "libre" /\ q.fase # "escribir"
    BY <1>1, <1>5, <2>1 DEF InvPropiedad, Solo
  <2>2. CASE /\ Libre(r)
             /\ q.fase = "escribir" /\ q.status = "DISPONIBLE" =>
                  propiedad[q.p].vigente = SinContrato
    <3>1. ~ solape /\ \A s \in Requests : pedido[s].fase = "libre"
      BY <1>5, <2>2 DEF Libre
    <3> QED
      BY <1>1, <2>2, <3>1 DEF InvPropiedad, Solo
  <2> QED
    BY <2>1, <2>2
<1>6. QED
  BY <1>1, <1>2, <1>3, <1>4, <1>5 DEF InvPropiedad, FormaPropiedad

(* A request writes a property and ends.                                    *)
LEMMA PropiedadEscrita ==
  ASSUME InvPropiedad, NEW r \in Requests, pedido' = [pedido EXCEPT ![r] = SinPedido],
         pedido[r].fase \in {"propiedad", "escribir"}, UNCHANGED <<solape, cadena>>,
         propiedad' = [p \in Propiedades |-> propiedad'[p]],
         \A p \in Propiedades : FormaPropiedad(propiedad'[p]),
         ~ solape /\ Solo => \A p \in Propiedades :
            propiedad'[p].status = "DISPONIBLE" => propiedad'[p].vigente = SinContrato
  PROVE  InvPropiedad'
<1>1. /\ pedido' = [s \in Requests |-> pedido'[s]] /\ pedido'[r] = SinPedido
      /\ \A s \in Requests : s # r => pedido'[s] = pedido[s]
  BY DEF InvPropiedad
<1>2. (\A s \in Requests : FormaPedido(pedido[s]))'
  BY <1>1, SinPedidoVale DEF InvPropiedad
<1>3. (\A s \in Requests : cadena[s].fase # "libre" => pedido[s].fase = "armando")'
  BY <1>1 DEF InvPropiedad
<1>4. ASSUME ~ solape'
      PROVE  Solo'
  <2>1. ~ solape /\ Solo /\ \A s \in Requests : pedido'[s].fase = "libre"
    BY <1>1, <1>4, SinPedidoVale DEF InvPropiedad, Solo
  <2> QED
    BY <2>1 DEF Solo
<1>5. (\A p \in Propiedades : FormaPropiedad(propiedad[p]))'
  OBVIOUS
<1>6. QED
  BY <1>1, <1>2, <1>3, <1>4, <1>5 DEF InvPropiedad

LEMMA CreatePropiedad ==
  ASSUME InvPropiedad, NEW r \in Requests, NEW c \in Contratos, NEW e \in Altas, Create(r, c, e)
  PROVE  InvPropiedad'
<1> DEFINE q == [SinPedido EXCEPT !.fase = "propiedad", !.c = c]
<1>1. FormaPedido(q) /\ q.fase = "propiedad"
  BY DEF SinPedido, FormaPedido, CamposPedido
<1>2. pedido' = [pedido EXCEPT ![r] = q] /\ Libre(r) /\ UNCHANGED <<propiedad, cadena>>
  BY DEF Create, bldVars
<1> HIDE DEF q
<1>3. pedido[r].fase = "libre"
  BY <1>2 DEF Libre
<1>4. QED
  BY <1>1, <1>2, <1>3, PasoDePedido

LEMMA UpdatePropiedad ==
  ASSUME InvPropiedad, NEW r \in Requests, NEW c \in Contratos, NEW dto \in DtosContrato,
         Update(r, c, dto)
  PROVE  InvPropiedad'
<1> DEFINE g == dto.status = "VIGENTE" /\ contrato[c].status = "PENDIENTE"
           q == [SinPedido EXCEPT !.fase = "actualizar", !.c = c, !.status = dto.status,
                                  !.hitos = dto.hitos, !.generar = g]
<1>1. pedido' = [pedido EXCEPT ![r] = q] /\ Libre(r) /\ UNCHANGED <<propiedad, cadena>>
  BY DEF Update, bldVars
<1> HIDE DEF g
<1>2. FormaPedido(q) /\ q.fase = "actualizar"
  BY DEF SinPedido, FormaPedido, CamposPedido
<1> HIDE DEF q
<1>3. pedido[r].fase = "libre"
  BY <1>1 DEF Libre
<1>4. QED
  BY <1>1, <1>2, <1>3, PasoDePedido

LEMMA DeleteWithEntriesPropiedad ==
  ASSUME InvPropiedad, NEW r \in Requests, NEW c \in Contratos, DeleteWithEntries(r, c)
  PROVE  InvPropiedad'
<1> DEFINE q == [SinPedido EXCEPT !.fase = "borrar", !.c = c]
<1>1. FormaPedido(q) /\ q.fase = "borrar"
  BY DEF SinPedido, FormaPedido, CamposPedido
<1>2. pedido' = [pedido EXCEPT ![r] = q] /\ Libre(r) /\ UNCHANGED <<propiedad, cadena>>
  BY DEF DeleteWithEntries, bldVars
<1> HIDE DEF q
<1>3. pedido[r].fase = "libre"
  BY <1>2 DEF Libre
<1>4. QED
  BY <1>1, <1>2, <1>3, PasoDePedido

(* DISPONIBLE is refused to a property that a contract holds.               *)
LEMMA UpdatePropertyPropiedad ==
  ASSUME InvPropiedad, NEW r \in Requests, NEW p \in Propiedades, NEW dto \in DtosPropiedad,
         UpdateProperty(r, p, dto)
  PROVE  InvPropiedad'
<1> DEFINE q == [SinPedido EXCEPT !.fase = "escribir", !.p = p, !.status = dto.status,
                                  !.liberar = dto.liberar]
<1>1. FormaPedido(q) /\ q.fase = "escribir" /\ q.p = p /\ q.status = dto.status
  BY DEF SinPedido, FormaPedido, CamposPedido
<1>2. /\ pedido' = [pedido EXCEPT ![r] = q] /\ Libre(r) /\ UNCHANGED <<propiedad, cadena>>
      /\ dto.status = "DISPONIBLE" => propiedad[p].vigente = SinContrato
  BY DEF UpdateProperty, bldVars
<1> HIDE DEF q
<1>3. pedido[r].fase = "libre"
  BY <1>2 DEF Libre
<1>4. QED
  BY <1>1, <1>2, <1>3, PasoDePedido

(* A property that a contract takes is no longer offered.                   *)
LEMMA TomarPropiedadPropiedad ==
  ASSUME InvPropiedad, NEW r \in Requests, TomarPropiedad(r)
  PROVE  InvPropiedad'
<1> DEFINE h == Terminos[pedido[r].c].propiedad
           d == pedido[r].c
           x == [status |-> "ALQUILADO", vigente |-> d]
<1>1. /\ pedido[r].fase = "propiedad" /\ pedido' = [pedido EXCEPT ![r] = SinPedido]
      /\ UNCHANGED <<solape, cadena>> /\ propiedad' = [propiedad EXCEPT ![h] = x]
  BY DEF TomarPropiedad, Terminar, bldVars
<1> HIDE DEF h, d
<1>2. FormaPropiedad(x) /\ x.status = "ALQUILADO"
  BY DEF FormaPropiedad
<1> HIDE DEF x
<1>3. /\ propiedad' = [p \in Propiedades |-> propiedad'[p]]
      /\ \A p \in Propiedades : propiedad'[p] = x \/ propiedad'[p] = propiedad[p]
  BY <1>1 DEF InvPropiedad
<1>4. \A p \in Propiedades : FormaPropiedad(propiedad'[p])
  BY <1>2, <1>3 DEF InvPropiedad
<1>5. QED
  BY <1>1, <1>2, <1>3, <1>4, PropiedadEscrita DEF Solo

LEMMA EscribirPropiedadPropiedad ==
  ASSUME InvPropiedad, NEW r \in Requests, EscribirPropiedad(r)
  PROVE  InvPropiedad'
<1> DEFINE h == pedido[r].p
           ns == IF pedido[r].status = "igual" THEN propiedad[h].status ELSE pedido[r].status
           nv == IF pedido[r].liberar THEN SinContrato ELSE propiedad[h].vigente
           x == [propiedad[h] EXCEPT !.status = ns, !.vigente = nv]
<1>1. /\ pedido[r].fase = "escribir" /\ pedido' = [pedido EXCEPT ![r] = SinPedido]
      /\ UNCHANGED <<solape, cadena>> /\ propiedad' = [propiedad EXCEPT ![h] = x]
  BY DEF EscribirPropiedad, Terminar, bldVars
<1>2. ~ solape /\ Solo /\ h \in Propiedades /\ ns = "DISPONIBLE" => nv = SinContrato
  BY <1>1 DEF Solo
<1> HIDE DEF h, ns, nv
<1>3. h \in Propiedades => FormaPropiedad(x) /\ x.status = ns /\ x.vigente = nv
  <2> SUFFICES ASSUME h \in Propiedades
               PROVE  FormaPropiedad(x) /\ x.status = ns /\ x.vigente = nv
    OBVIOUS
  <2>1. FormaPropiedad(propiedad[h])
    BY DEF InvPropiedad
  <2> QED
    BY <2>1 DEF FormaPropiedad
<1> HIDE DEF x
<1>4. /\ propiedad' = [p \in Propiedades |-> propiedad'[p]]
      /\ \A p \in Propiedades : propiedad'[p] = IF p = h THEN x ELSE propiedad[p]
  BY <1>1 DEF InvPropiedad
<1>5. \A p \in Propiedades : FormaPropiedad(propiedad'[p])
  BY <1>3, <1>4 DEF InvPropiedad
<1>6. ~ solape /\ Solo => \A p \in Propiedades :
        propiedad'[p].status = "DISPONIBLE" => propiedad'[p].vigente = SinContrato
  BY <1>2, <1>3, <1>4 DEF Solo
<1>7. QED
  BY <1>1, <1>4, <1>5, <1>6, PropiedadEscrita

(* A step of the generation, with the factory call it makes, goes on with   *)
(* or ends.                                                                 *)
LEMMA PasoDeFabrica ==
  ASSUME InvPropiedad, NEW r \in Requests, NEW q, NEW z, pedido' = [pedido EXCEPT ![r] = q],
         cadena' = [cadena EXCEPT ![r] = z], FormaPedido(q), UNCHANGED <<propiedad, solape>>,
         pedido[r].fase # "libre", q.fase # "escribir", z.fase # "libre" => q.fase = "armando"
  PROVE  InvPropiedad'
<1>1. /\ pedido' = [s \in Requests |-> pedido'[s]] /\ pedido'[r] = q
      /\ \A s \in Requests : s # r => pedido'[s] = pedido[s]
  BY DEF InvPropiedad
<1>2. /\ cadena' = [s \in Requests |-> cadena'[s]] /\ cadena'[r] = z
      /\ \A s \in Requests : s # r => cadena'[s] = cadena[s]
  BY DEF InvPropiedad
<1>3. (\A s \in Requests : FormaPedido(pedido[s]))'
  BY <1>1 DEF InvPropiedad
<1>4. (\A s \in Requests : cadena[s].fase # "libre" => pedido[s].fase = "armando")'
  BY <1>1, <1>2 DEF InvPropiedad
<1>5. ASSUME ~ solape'
      PROVE  Solo'
  BY <1>1, <1>5 DEF InvPropiedad, Solo
<1>6. QED
  BY <1>1, <1>2, <1>3, <1>4, <1>5 DEF InvPropiedad, FormaPropiedad

LEMMA GenerarPropiedad ==
  ASSUME InvPropiedad, NEW r \in Requests, Generar(r)
  PROVE  InvPropiedad'
<1> DEFINE q == [pedido[r] EXCEPT !.fase = "armando"]
           l == Plan(pedido[r].c)[pedido[r].k]
<1>1. /\ pedido[r].fase = "generar" /\ UNCHANGED <<propiedad, solape>> /\ FormaPedido(pedido[r])
  BY DEF Generar, InvPropiedad
<1>2. CASE Terminar(r) /\ UNCHANGED bldVars
  BY <1>1, <1>2, SinPedidoVale, PasoDePedido DEF Terminar, bldVars
<1>3. CASE pedido' = [pedido EXCEPT ![r].fase = "armando"] /\ Llamar(r, l)
  <2>1. FormaPedido(q) /\ q.fase = "armando"
    BY <1>1 DEF FormaPedido, CamposPedido
  <2>2. pedido' = [pedido EXCEPT ![r] = q]
    BY <1>3 DEF InvPropiedad
  <2>3. PICK z : cadena' = [cadena EXCEPT ![r] = z]
    BY <1>3 DEF Llamar, Seguir
  <2> HIDE DEF q, l
  <2> QED
    BY <1>1, <2>1, <2>2, <2>3, PasoDeFabrica
<1>4. QED
  BY <1>2, <1>3 DEF Generar

LEMMA BuscarCuentaPropiedad ==
  ASSUME InvPropiedad, NEW r \in Requests, BuscarCuenta(r)
  PROVE  InvPropiedad'
<1>1. /\ cadena[r].fase \in {"previa", "cuenta"} /\ UNCHANGED <<propiedad, solape, pedido>>
  BY DEF BuscarCuenta, GetAccountByCode, ctrVars
<1>2. pedido[r].fase = "armando" /\ FormaPedido(pedido[r])
  BY <1>1 DEF InvPropiedad
<1>3. pedido' = [pedido EXCEPT ![r] = pedido[r]]
  BY <1>1 DEF InvPropiedad
<1>4. PICK z : cadena' = [cadena EXCEPT ![r] = z]
  BY DEF BuscarCuenta, GetAccountByCode, Seguir
<1>5. QED
  BY <1>1, <1>2, <1>3, <1>4, PasoDeFabrica

LEMMA GuardarAsientoPropiedad ==
  ASSUME InvPropiedad, NEW r \in Requests, GuardarAsiento(r)
  PROVE  InvPropiedad'
<1> DEFINE n == pedido[r].k + 1
           q == [pedido[r] EXCEPT !.fase = "generar", !.k = n]
<1>1. /\ cadena[r].fase = "armado" /\ UNCHANGED <<propiedad, solape>>
      /\ cadena' = [cadena EXCEPT ![r] = SinCadena]
  BY DEF GuardarAsiento
<1>2. pedido[r].fase = "armando" /\ FormaPedido(pedido[r])
  BY <1>1 DEF InvPropiedad
<1>3. pedido' = [pedido EXCEPT ![r] = q]
  BY DEF GuardarAsiento, InvPropiedad
<1> HIDE DEF n
<1>4. FormaPedido(q) /\ q.fase = "generar"
  BY <1>2 DEF FormaPedido, CamposPedido
<1> HIDE DEF q
<1>5. SinCadena.fase = "libre"
  BY DEF SinCadena
<1>6. QED
  BY <1>1, <1>2, <1>3, <1>4, <1>5, PasoDeFabrica

LEMMA InterrumpidaPropiedad ==
  ASSUME InvPropiedad, NEW r \in Requests, GeneracionInterrumpida(r)
  PROVE  InvPropiedad'
<1>1. /\ cadena[r].fase = "error" /\ UNCHANGED <<propiedad, solape>>
      /\ cadena' = [cadena EXCEPT ![r] = SinCadena]
      /\ pedido' = [pedido EXCEPT ![r] = SinPedido]
  BY DEF GeneracionInterrumpida, Terminar
<1>2. pedido[r].fase = "armando"
  BY <1>1 DEF InvPropiedad
<1>3. SinCadena.fase = "libre"
  BY DEF SinCadena
<1>4. QED
  BY <1>1, <1>2, <1>3, SinPedidoVale, PasoDeFabrica

LEMMA ActualizarPropiedad ==
  ASSUME InvPropiedad, NEW r \in Requests, Actualizar(r)
  PROVE  InvPropiedad'
<1> DEFINE q == [pedido[r] EXCEPT !.fase = "generar"]
<1>1. /\ pedido[r].fase = "actualizar" /\ UNCHANGED <<propiedad, cadena, solape>>
      /\ FormaPedido(pedido[r])
      /\ Terminar(r) \/ pedido' = [pedido EXCEPT ![r].fase = "generar"]
  BY DEF Actualizar, InvPropiedad, bldVars
<1>2. FormaPedido(q) /\ q.fase = "generar"
  BY <1>1 DEF FormaPedido, CamposPedido
<1>3. CASE pedido' = [pedido EXCEPT ![r].fase = "generar"]
  <2>1. pedido' = [pedido EXCEPT ![r] = q]
    BY <1>3 DEF InvPropiedad
  <2> HIDE DEF q
  <2> QED
    BY <1>1, <1>2, <2>1, PasoDePedido
<1>4. CASE Terminar(r)
  BY <1>1, <1>4, SinPedidoVale, PasoDePedido DEF Terminar
<1>5. QED
  BY <1>1, <1>3, <1>4

LEMMA BorrarContratoPropiedad ==
  ASSUME InvPropiedad, NEW r \in Requests, BorrarContrato(r)
  PROVE  InvPropiedad'
BY SinPedidoVale, PasoDePedido DEF BorrarContrato, Terminar, bldVars

LEMMA NextPropiedad == InvPropiedad /\ [CNext]_cvars => InvPropiedad'
<1> SUFFICES ASSUME InvPropiedad, [CNext]_cvars
             PROVE  InvPropiedad'
  OBVIOUS
<1>1. CASE UNCHANGED cvars
  BY <1>1 DEF cvars, ctrVars, bldVars, InvPropiedad, Solo
<1>2. ASSUME NEW r \in Requests,
             \E c \in Contratos : \/ \E e \in Altas : Create(r, c, e)
                                  \/ \E dto \in DtosContrato : Update(r, c, dto)
                                  \/ DeleteWithEntries(r, c)
      PROVE  InvPropiedad'
  BY <1>2, CreatePropiedad, UpdatePropiedad, DeleteWithEntriesPropiedad
<1>3. ASSUME NEW r \in Requests,
             \/ \E p \in Propiedades, dto \in DtosPropiedad : UpdateProperty(r, p, dto)
             \/ TomarPropiedad(r) \/ Actualizar(r) \/ Generar(r) \/ BuscarCuenta(r)
             \/ GuardarAsiento(r) \/ GeneracionInterrumpida(r)
             \/ BorrarContrato(r) \/ EscribirPropiedad(r)
      PROVE  InvPropiedad'
  BY <1>3, UpdatePropertyPropiedad, TomarPropiedadPropiedad, ActualizarPropiedad,
     GenerarPropiedad, BuscarCuentaPropiedad, GuardarAsientoPropiedad, InterrumpidaPropiedad,
     BorrarContratoPropiedad, EscribirPropiedadPropiedad
<1>4. QED
  BY <1>1, <1>2, <1>3 DEF CNext

LEMMA InitPropiedad == CInit => InvPropiedad
<1> SUFFICES ASSUME CInit PROVE InvPropiedad
  OBVIOUS
<1> DEFINE x == [status |-> "DISPONIBLE", vigente |-> SinContrato]
<1>1. /\ \A p \in Propiedades : propiedad[p] = x
      /\ propiedad = [p \in Propiedades |-> propiedad[p]] /\ solape \in BOOLEAN
  BY DEF CInit
<1>2. FormaPropiedad(x) /\ x.vigente = SinContrato
  BY DEF FormaPropiedad
<1> HIDE DEF x
<1>3. /\ \A r \in Requests : pedido[r] = SinPedido
      /\ pedido = [r \in Requests |-> pedido[r]]
      /\ \A r \in Requests : cadena[r] = SinCadena
      /\ cadena = [r \in Requests |-> cadena[r]]
  BY DEF CInit, BldInit
<1>4. SinCadena.fase = "libre"
  BY DEF SinCadena
<1>5. Solo
  BY <1>1, <1>2, <1>3, SinPedidoVale DEF Solo
<1>6. QED
  BY <1>1, <1>2, <1>3, <1>4, <1>5, SinPedidoVale DEF InvPropiedad

(* Until two requests overlap, a property that is offered as free is held   *)
(* by no contract, whatever statuses the operators write                    *)
(* (PropertiesService.update, ContractsService.create).                     *)
THEOREM LibreSinContrato == CSpec => []DisponibleSinContrato
<1>1. InvPropiedad => DisponibleSinContrato
  BY DEF InvPropiedad, DisponibleSinContrato, Solo
<1>2. QED
  BY <1>1, InitPropiedad, NextPropiedad, PTL DEF CSpec

----------------------------------------------------------------------------
(* The accounts of a contract.  A request that generates entries is at the  *)
(* k-th of the plan: the entries of its contract are those of every earlier *)
(* activation and the first k - 1 of this one, and the shared builder holds *)
(* exactly the partidas that the call in progress has added, because no     *)
(* other request has touched it.                                            *)

Lados == {"debe", "haber"}

(* A deposit without amount stops the activation after the rents: of such a *)
(* contract nothing is claimed.                                             *)
ConDeposito(c) == Terminos[c].deposito >= 0
DePartida == [codigo : Codigos, debe : Int, haber : Int, agente : Agentes \cup {Nadie, Inmobiliaria}]
Previsto(c, g, lado, n) ==
  SumFunctionOnSet([k \in 1 .. Len(Plan(c)) |-> Imputado(Plan(c)[k].partidas, g, lado)], 1 .. n)
(* What the entries of s put to the account of g.                           *)
Suma(s, g, lado) ==
  SumFunctionOnSet([k \in DOMAIN s |-> Imputado(s[k].partidas, g, lado)], DOMAIN s)
DeAsientos(s) == \A k \in DOMAIN s : s[k].partidas \in Seq(DePartida)

(* The entries s of c are a times the plan, and n entries more of it.       *)
Van(s, c, a, n) ==
  \A g \in Agentes, lado \in Lados :
    Suma(s, g, lado) = a * Previsto(c, g, lado, Len(Plan(c))) + Previsto(c, g, lado, n)

(* The call in progress is that of the plan, and the builder holds what it  *)
(* has put so far.                                                          *)
CadenaBien(q, l, puestas) ==
  /\ q.llamada = l
  /\ q.fase \in {"previa", "cuenta", "armado"}
  /\ q.fase = "previa" => q.i = 1
  /\ q.fase = "cuenta" => /\ q.i \in 1 .. Len(l.partidas)
                          /\ puestas = SubSeq(l.partidas, 1, q.i - 1)
  /\ q.fase = "armado" => q.armado.partidas = l.partidas

EnCadena(r) ==
  LET q == pedido[r]
  IN  q.k \in 1 .. Len(Plan(q.c)) /\ CadenaBien(cadena[r], Plan(q.c)[q.k], constructor.partidas)

Obras == {"generar", "armando", "borrar"}
EnObra(c) == \E r \in Requests : pedido[r].fase \in Obras /\ pedido[r].c = c

ContratoInv(c) ==
  /\ activados[c] \in Nat
  /\ contrato[c].vida = "ausente" => asientos[c] = <<>> /\ activados[c] = 0
  /\ ConDeposito(c) => /\ DeAsientos(asientos[c])
                       /\ contrato[c].vida = "vivo" /\ ~ EnObra(c) => Van(asientos[c], c, activados[c], 0)

PedidoInv(r) ==
  LET q == pedido[r]
      c == q.c
  IN  /\ q.fase \in {"actualizar"} \cup Obras => c \in Contratos
      /\ q.fase = "actualizar" =>
           /\ contrato[c].vida = "vivo" /\ q.k = 1
           /\ q.generar <=> q.status = "VIGENTE" /\ contrato[c].status = "PENDIENTE"
      /\ q.fase \in {"generar", "armando"} => contrato[c].vida = "vivo"
      /\ q.fase \in {"generar", "armando"} /\ ConDeposito(c) =>
           /\ q.k \in 1 .. Len(Plan(c)) + 1 /\ Van(asientos[c], c, activados[c] - 1, q.k - 1)
      /\ q.fase = "armando" /\ ConDeposito(c) => EnCadena(r)

CamposConstructor == {"tipo", "ajuste", "partidas"}
FormaConstructor(b) == b = [f \in CamposConstructor |-> b[f]]
FormaContrato(x) == x = [f \in {"vida", "status", "hitos"} |-> x[f]]

ActivacionInv ==
  /\ contrato = [c \in Contratos |-> contrato[c]] /\ \A c \in Contratos : FormaContrato(contrato[c])
  /\ asientos = [c \in Contratos |-> asientos[c]]
  /\ activados = [c \in Contratos |-> activados[c]]
  /\ FormaConstructor(constructor)
  /\ ~ solape => (\A c \in Contratos : ContratoInv(c)) /\ \A r \in Requests : PedidoInv(r)
----------------------------------------------------------------------------
(* The next term.                                                           *)
LEMMA SumaSiguiente ==
  ASSUME NEW f, NEW n \in Nat, NEW m, m = n + 1, Enteros(f, 1 .. m)
  PROVE  /\ SumFunctionOnSet(f, 1 .. m) = SumFunctionOnSet(f, 1 .. n) + f[m]
         /\ SumFunctionOnSet(f, 1 .. n) \in Int /\ f[m] \in Int
<1>1. PICK R : R = 1 .. n
  OBVIOUS
<1>2. IsFiniteSet(R)
  BY <1>1, FS_Interval
<1>3. R \cup {m} = 1 .. m /\ m \notin R /\ m \in 1 .. m
  BY <1>1
<1>4. Enteros(f, R) /\ f[m] \in Int
  BY <1>3 DEF Enteros
<1>5. PICK T : T = R \cup {m}
  OBVIOUS
<1>6. SumFunctionOnSet(f, T) = f[m] + SumFunctionOnSet(f, R)
  BY <1>2, <1>3, <1>4, <1>5, SumaMas
<1>7. SumFunctionOnSet(f, R) \in Int
  BY <1>2, <1>4, SumaEntera
<1>8. T = 1 .. m
  BY <1>3, <1>5
<1>9. SumFunctionOnSet(f, T) = SumFunctionOnSet(f, R) + f[m]
  BY <1>4, <1>6, <1>7
<1>10. QED
  BY <1>1, <1>4, <1>7, <1>8, <1>9

LEMMA DosSumandos ==
  ASSUME NEW f, Enteros(f, 1 .. 2)
  PROVE  SumFunctionOnSet(f, 1 .. 2) = f[1] + f[2]
<1>1. Enteros(f, 1 .. 1)
  BY DEF Enteros
<1>2. 1 .. 0 = {}
  OBVIOUS
<1>3. SumFunctionOnSet(f, 1 .. 0) = 0
  BY <1>2, SumaVacia
<1>4. SumFunctionOnSet(f, 1 .. 1) = SumFunctionOnSet(f, 1 .. 0) + f[1] /\ f[1] \in Int
  <2>1. 0 \in Nat /\ 1 = 0 + 1
    OBVIOUS
  <2> QED
    BY <1>1, <2>1, SumaSiguiente
<1>5. SumFunctionOnSet(f, 1 .. 2) = SumFunctionOnSet(f, 1 .. 1) + f[2] /\ f[2] \in Int
  <2>1. 1 \in Nat /\ 2 = 1 + 1
    OBVIOUS
  <2> QED
    BY <2>1, SumaSiguiente
<1>6. QED
  BY <1>3, <1>4, <1>5

LEMMA TresSumandos ==
  ASSUME NEW f, Enteros(f, 1 .. 3)
  PROVE  SumFunctionOnSet(f, 1 .. 3) = f[1] + f[2] + f[3]
<1>1. Enteros(f, 1 .. 2)
  BY DEF Enteros
<1>2. SumFunctionOnSet(f, 1 .. 2) = f[1] + f[2]
  BY <1>1, DosSumandos
<1>3. SumFunctionOnSet(f, 1 .. 3) = SumFunctionOnSet(f, 1 .. 2) + f[3]
  <2>1. 2 \in Nat /\ 3 = 2 + 1
    OBVIOUS
  <2> QED
    BY <2>1, SumaSiguiente
<1>4. QED
  BY <1>2, <1>3

(* A stretch of equal terms.                                                *)
Tramo(f, n, m, p, x) == p = n + m /\ \A k \in n + 1 .. p : f[k] = x

LEMMA SumaTramo ==
  ASSUME NEW f, NEW n \in Nat, NEW m \in Nat, NEW x \in Int, NEW p,
         Enteros(f, 1 .. n), Tramo(f, n, m, p, x)
  PROVE  /\ SumFunctionOnSet(f, 1 .. p) = SumFunctionOnSet(f, 1 .. n) + m * x
         /\ Enteros(f, 1 .. p) /\ SumFunctionOnSet(f, 1 .. n) \in Int
<1>0. p = n + m /\ \A k \in n + 1 .. p : f[k] = x
  BY DEF Tramo
<1>1. PICK R : R = 1 .. n
  OBVIOUS
<1>2. PICK S : S = n + 1 .. p
  OBVIOUS
<1>3. /\ IsFiniteSet(R) /\ IsFiniteSet(S) /\ Cardinality(S) = m /\ S \cap R = {}
      /\ R \cup S = 1 .. p
  <2>1. IsFiniteSet(R)
    BY <1>1, FS_Interval
  <2>2. IsFiniteSet(S) /\ Cardinality(S) = IF n + 1 > p THEN 0 ELSE p - (n + 1) + 1
    <3>1. n + 1 \in Int /\ p \in Int
      BY <1>0
    <3> QED
      BY <1>2, <3>1, FS_Interval
  <2>3. S \cap R = {} /\ R \cup S = 1 .. p
    BY <1>0, <1>1, <1>2
  <2> QED
    BY <1>0, <2>1, <2>2, <2>3
<1>4. Enteros(f, R) /\ Enteros(f, S) /\ Enteros(f, 1 .. p) /\ \A k \in S : f[k] = x
  BY <1>0, <1>1, <1>2 DEF Enteros
<1>5. SumFunctionOnSet(f, R \cup S) = SumFunctionOnSet(f, R) + SumFunctionOnSet(f, S)
  BY <1>3, <1>4, SumaUnion
<1>6. SumFunctionOnSet(f, S) = x * Cardinality(S)
  BY <1>3, <1>4, SumaConstante
<1>7. SumFunctionOnSet(f, R) \in Int
  BY <1>3, <1>4, SumaEntera
<1>8. x * m = m * x
  OBVIOUS
<1>9. QED
  BY <1>1, <1>3, <1>4, <1>5, <1>6, <1>7, <1>8

(* What is put to the account of g by partidas that are listed.             *)
De(x, g, lado) == IF x.agente = g THEN x[lado] ELSE 0

LEMMA DePartidaVale ==
  ASSUME NEW codigo \in Codigos, NEW debe \in Int, NEW haber \in Int,
         NEW agente \in Agentes \cup {Nadie, Inmobiliaria}
  PROVE  /\ Partida(codigo, debe, haber, agente) \in DePartida
         /\ Partida(codigo, debe, haber, agente)["debe"] = debe
         /\ Partida(codigo, debe, haber, agente)["haber"] = haber
         /\ Partida(codigo, debe, haber, agente).agente = agente
BY DEF Partida, DePartida

LEMMA DePartidaEntera ==
  ASSUME NEW x \in DePartida, NEW lado \in Lados, NEW g
  PROVE  x[lado] \in Int /\ De(x, g, lado) \in Int
BY DEF DePartida, Lados, De

LEMMA DosPartidas ==
  ASSUME NEW x \in DePartida, NEW y \in DePartida, NEW lado \in Lados, NEW g
  PROVE  /\ Imputado(<<x, y>>, g, lado) = De(x, g, lado) + De(y, g, lado)
         /\ TotalDe(<<x, y>>, lado) = x[lado] + y[lado]
         /\ <<x, y>> \in Seq(DePartida) /\ Len(<<x, y>>) = 2
<1>1. PICK s : s = <<x, y>>
  OBVIOUS
<1>2. DOMAIN s = 1 .. 2 /\ s[1] = x /\ s[2] = y
  BY <1>1
<1>3. /\ x[lado] \in Int /\ De(x, g, lado) \in Int
      /\ y[lado] \in Int /\ De(y, g, lado) \in Int
  BY DePartidaEntera
<1>4. PICK e : e = [j \in 1 .. 2 |-> IF s[j].agente = g THEN s[j][lado] ELSE 0]
  OBVIOUS
<1>5. e[1] = De(x, g, lado) /\ e[2] = De(y, g, lado)
  BY <1>2, <1>4 DEF De
<1>6. Enteros(e, 1 .. 2)
  BY <1>3, <1>5 DEF Enteros
<1>7. SumFunctionOnSet(e, 1 .. 2) = De(x, g, lado) + De(y, g, lado)
  BY <1>5, <1>6, DosSumandos
<1>8. Imputado(s, g, lado) = SumFunctionOnSet(e, 1 .. 2)
  BY <1>2, <1>4 DEF Imputado
<1>9. PICK t : t = [j \in 1 .. 2 |-> s[j][lado]]
  OBVIOUS
<1>10. t[1] = x[lado] /\ t[2] = y[lado]
  BY <1>2, <1>9
<1>11. Enteros(t, 1 .. 2)
  BY <1>3, <1>10 DEF Enteros
<1>12. SumFunctionOnSet(t, 1 .. 2) = x[lado] + y[lado]
  BY <1>10, <1>11, DosSumandos
<1>13. TotalDe(s, lado) = SumFunctionOnSet(t, 1 .. 2)
  BY <1>2, <1>9 DEF TotalDe
<1>14. <<x, y>> \in Seq(DePartida) /\ Len(<<x, y>>) = 2
  OBVIOUS
<1>15. QED
  BY <1>1, <1>7, <1>8, <1>12, <1>13, <1>14

LEMMA TresPartidas ==
  ASSUME NEW x \in DePartida, NEW y \in DePartida, NEW z \in DePartida, NEW lado \in Lados, NEW g
  PROVE  /\ Imputado(<<x, y, z>>, g, lado) = De(x, g, lado) + De(y, g, lado) + De(z, g, lado)
         /\ TotalDe(<<x, y, z>>, lado) = x[lado] + y[lado] + z[lado]
         /\ <<x, y, z>> \in Seq(DePartida) /\ Len(<<x, y, z>>) = 3
<1>1. PICK s : s = <<x, y, z>>
  OBVIOUS
<1>2. DOMAIN s = 1 .. 3 /\ s[1] = x /\ s[2] = y /\ s[3] = z
  BY <1>1
<1>3. /\ x[lado] \in Int /\ De(x, g, lado) \in Int
      /\ y[lado] \in Int /\ De(y, g, lado) \in Int
      /\ z[lado] \in Int /\ De(z, g, lado) \in Int
  BY DePartidaEntera
<1>4. PICK e : e = [j \in 1 .. 3 |-> IF s[j].agente = g THEN s[j][lado] ELSE 0]
  OBVIOUS
<1>5. e[1] = De(x, g, lado) /\ e[2] = De(y, g, lado) /\ e[3] = De(z, g, lado)
  BY <1>2, <1>4 DEF De
<1>6. Enteros(e, 1 .. 3)
  BY <1>3, <1>5 DEF Enteros
<1>7. SumFunctionOnSet(e, 1 .. 3) = De(x, g, lado) + De(y, g, lado) + De(z, g, lado)
  BY <1>5, <1>6, TresSumandos
<1>8. Imputado(s, g, lado) = SumFunctionOnSet(e, 1 .. 3)
  BY <1>2, <1>4 DEF Imputado
<1>9. PICK t : t = [j \in 1 .. 3 |-> s[j][lado]]
  OBVIOUS
<1>10. t[1] = x[lado] /\ t[2] = y[lado] /\ t[3] = z[lado]
  BY <1>2, <1>9
<1>11. Enteros(t, 1 .. 3)
  BY <1>3, <1>10 DEF Enteros
<1>12. SumFunctionOnSet(t, 1 .. 3) = x[lado] + y[lado] + z[lado]
  BY <1>10, <1>11, TresSumandos
<1>13. TotalDe(s, lado) = SumFunctionOnSet(t, 1 .. 3)
  BY <1>2, <1>9 DEF TotalDe
<1>14. <<x, y, z>> \in Seq(DePartida) /\ Len(<<x, y, z>>) = 3
  OBVIOUS
<1>15. QED
  BY <1>1, <1>7, <1>8, <1>12, <1>13, <1>14

(* A call that build() lets through: its partidas are of known accounts, in *)
(* amounts, and balance.                                                    *)
EntradaBuena(l) ==
  /\ l.partidas \in Seq(DePartida) /\ Len(l.partidas) > 0
  /\ ~ SinMonto(l) /\ Balanceado(l.partidas)

LEMMA EntradaDeDos ==
  ASSUME NEW l, NEW x \in DePartida, NEW y \in DePartida, l.partidas = <<x, y>>,
         x["debe"] >= 0, y["debe"] >= 0, x["debe"] + y["debe"] = x["haber"] + y["haber"]
  PROVE  EntradaBuena(l)
<1>1. "debe" \in Lados /\ "haber" \in Lados
  BY DEF Lados
<1>2. PICK s : s = <<x, y>>
  OBVIOUS
<1>3. /\ TotalDe(s, "debe") = x["debe"] + y["debe"] /\ TotalDe(s, "haber") = x["haber"] + y["haber"]
      /\ s \in Seq(DePartida) /\ Len(s) = 2
  BY <1>1, <1>2, DosPartidas
<1>4. x["debe"] \in Int /\ y["debe"] \in Int
  BY <1>1, DePartidaEntera
<1>5. 0 \in -Centavos .. Centavos
  BY CentavosAssumption
<1>6. Balanceado(s)
  BY <1>3, <1>4, <1>5 DEF Balanceado, TotalDebe, TotalHaber
<1>7. DOMAIN s = 1 .. 2 /\ s[1] = x /\ s[2] = y
  BY <1>2
<1>8. ~ \E k \in DOMAIN s : s[k].debe < 0
  BY <1>4, <1>7
<1>9. l.partidas = s
  BY <1>2
<1>10. QED
  BY <1>3, <1>6, <1>8, <1>9 DEF EntradaBuena, SinMonto

LEMMA EntradaDeTres ==
  ASSUME NEW l, NEW x \in DePartida, NEW y \in DePartida, NEW z \in DePartida,
         l.partidas = <<x, y, z>>, x["debe"] >= 0, y["debe"] >= 0, z["debe"] >= 0,
         x["debe"] + y["debe"] + z["debe"] = x["haber"] + y["haber"] + z["haber"]
  PROVE  EntradaBuena(l)
<1>1. "debe" \in Lados /\ "haber" \in Lados
  BY DEF Lados
<1>2. PICK s : s = <<x, y, z>>
  OBVIOUS
<1>3. /\ TotalDe(s, "debe") = x["debe"] + y["debe"] + z["debe"]
      /\ TotalDe(s, "haber") = x["haber"] + y["haber"] + z["haber"]
      /\ s \in Seq(DePartida) /\ Len(s) = 3
  BY <1>1, <1>2, TresPartidas
<1>4. x["debe"] \in Int /\ y["debe"] \in Int /\ z["debe"] \in Int
  BY <1>1, DePartidaEntera
<1>5. 0 \in -Centavos .. Centavos
  BY CentavosAssumption
<1>6. Balanceado(s)
  BY <1>3, <1>4, <1>5 DEF Balanceado, TotalDebe, TotalHaber
<1>7. DOMAIN s = 1 .. 3 /\ s[1] = x /\ s[2] = y /\ s[3] = z
  BY <1>2
<1>8. ~ \E k \in DOMAIN s : s[k].debe < 0
  BY <1>4, <1>7
<1>9. l.partidas = s
  BY <1>2
<1>10. QED
  BY <1>3, <1>6, <1>8, <1>9 DEF EntradaBuena, SinMonto

(* What an entry puts to the tenant's debit, the owner's credit and the     *)
(* owner's debit.                                                           *)
Pone(t, l, x, y, z) ==
  /\ EntradaBuena(l)
  /\ Imputado(l.partidas, t.locatario, "debe") = x
  /\ Imputado(l.partidas, t.locador, "haber") = y
  /\ Imputado(l.partidas, t.locador, "debe") = z

TerminosBien(t) ==
  /\ t.meses \in Nat /\ t.monto \in Nat /\ t.comision \in Nat /\ t.deposito \in Int
  /\ t.honorarios \in Nat /\ t.cuotasLocador \in Nat /\ t.cuotasLocatario \in Nat
  /\ t.locador \in Agentes /\ t.locatario \in Agentes
  /\ t.locador # t.locatario /\ t.locador # Inmobiliaria
  /\ t.locador # Nadie /\ t.locatario # Nadie

LEMMA TerminosValen ==
  ASSUME NEW c \in Contratos PROVE TerminosBien(Terminos[c])
<1>1. /\ Terminos[c].meses \in Nat /\ Terminos[c].monto \in Nat
      /\ Terminos[c].comision \in Nat /\ Terminos[c].deposito \in Int
      /\ Terminos[c].honorarios \in Nat /\ Terminos[c].cuotasLocador \in Nat
      /\ Terminos[c].cuotasLocatario \in Nat
      /\ Terminos[c].locador \in Agentes /\ Terminos[c].locatario \in Agentes
  BY TerminosAssumption
<1>2. QED
  BY <1>1, PartesAssumption DEF TerminosBien

(* The entries of an activation.                                            *)
RentaDe(t, mes) ==
  CreateMonthlyRentEntry(t.monto, t.comision, EsMesAjuste(t, mes), t.locatario, t.locador, Inmobiliaria)
CobroDe(t) == CreateDepositEntry("COBRO", t.deposito, t.locatario, t.locador, Nadie)
DevolucionDe(t) == CreateDepositEntry("DEVOLUCION", t.deposito, t.locatario, t.locador, Nadie)
DelLocador(t) == CreateHonorariosEntry("LOCADOR", t.honorarios, t.locador, Inmobiliaria)
DelLocatario(t) == CreateHonorariosEntry("LOCATARIO", t.honorarios, t.locatario, Inmobiliaria)

(* A rent.                                                                  *)
LEMMA RentaPone ==
  ASSUME NEW c \in Contratos, NEW t, t = Terminos[c], NEW mes
  PROVE  Pone(t, RentaDe(t, mes), t.monto, t.monto - t.comision, 0)
<1>1. TerminosBien(t)
  BY TerminosValen
<1>2. PICK l : l = RentaDe(t, mes)
  OBVIOUS
<1>3. PICK x : x = Partida("CXC_ALQ", t.monto, 0, t.locatario)
  OBVIOUS
<1>4. PICK y : y = Partida("CXP_LOC", 0, t.monto - t.comision, t.locador)
  OBVIOUS
<1>5. PICK z : z = Partida("ING_HNR", 0, t.comision, Inmobiliaria)
  OBVIOUS
<1>6. l.partidas = <<x, y, z>>
  BY <1>2, <1>3, <1>4, <1>5 DEF RentaDe, CreateMonthlyRentEntry
<1>7. /\ x \in DePartida /\ x["debe"] = t.monto /\ x["haber"] = 0
      /\ x.agente = t.locatario
  <2>1. "CXC_ALQ" \in Codigos /\ t.locatario \in Agentes \cup {Nadie, Inmobiliaria}
    BY <1>1, CuentasAssumption DEF TerminosBien
  <2>2. t.monto \in Int /\ 0 \in Int
    BY <1>1 DEF TerminosBien
  <2> QED
    BY <1>3, <2>1, <2>2, DePartidaVale
<1>8. /\ y \in DePartida /\ y["debe"] = 0 /\ y["haber"] = t.monto - t.comision
      /\ y.agente = t.locador
  <2>1. "CXP_LOC" \in Codigos /\ t.locador \in Agentes \cup {Nadie, Inmobiliaria}
    BY <1>1, CuentasAssumption DEF TerminosBien
  <2>2. 0 \in Int /\ t.monto - t.comision \in Int
    BY <1>1 DEF TerminosBien
  <2> QED
    BY <1>4, <2>1, <2>2, DePartidaVale
<1>9. /\ z \in DePartida /\ z["debe"] = 0 /\ z["haber"] = t.comision
      /\ z.agente = Inmobiliaria
  <2>1. "ING_HNR" \in Codigos /\ Inmobiliaria \in Agentes \cup {Nadie, Inmobiliaria}
    BY <1>1, CuentasAssumption DEF TerminosBien
  <2>2. 0 \in Int /\ t.comision \in Int
    BY <1>1 DEF TerminosBien
  <2> QED
    BY <1>5, <2>1, <2>2, DePartidaVale
<1>10. EntradaBuena(l)
  <2>1. x["debe"] >= 0 /\ y["debe"] >= 0 /\ z["debe"] >= 0
    BY <1>1, <1>7, <1>8, <1>9 DEF TerminosBien
  <2>2. x["debe"] + y["debe"] + z["debe"] = x["haber"] + y["haber"] + z["haber"]
    BY <1>1, <1>7, <1>8, <1>9 DEF TerminosBien
  <2> QED
    BY <1>6, <1>7, <1>8, <1>9, <2>1, <2>2, EntradaDeTres
<1>11. "debe" \in Lados /\ "haber" \in Lados
  BY DEF Lados
<1>12. Imputado(l.partidas, t.locatario, "debe") = t.monto
  <2>1. Imputado(<<x, y, z>>, t.locatario, "debe") =
          De(x, t.locatario, "debe") + De(y, t.locatario, "debe") + De(z, t.locatario, "debe")
    BY <1>11, <1>7, <1>8, <1>9, TresPartidas
  <2>2. De(x, t.locatario, "debe") + De(y, t.locatario, "debe") + De(z, t.locatario, "debe") = t.monto
    BY <1>1, <1>7, <1>8, <1>9 DEF De, TerminosBien
  <2> QED
    BY <1>6, <2>1, <2>2
<1>13. Imputado(l.partidas, t.locador, "haber") = t.monto - t.comision
  <2>1. Imputado(<<x, y, z>>, t.locador, "haber") =
          De(x, t.locador, "haber") + De(y, t.locador, "haber") + De(z, t.locador, "haber")
    BY <1>11, <1>7, <1>8, <1>9, TresPartidas
  <2>2. De(x, t.locador, "haber") + De(y, t.locador, "haber") + De(z, t.locador, "haber") =
          t.monto - t.comision
    BY <1>1, <1>7, <1>8, <1>9 DEF De, TerminosBien
  <2> QED
    BY <1>6, <2>1, <2>2
<1>14. Imputado(l.partidas, t.locador, "debe") = 0
  <2>1. Imputado(<<x, y, z>>, t.locador, "debe") =
          De(x, t.locador, "debe") + De(y, t.locador, "debe") + De(z, t.locador, "debe")
    BY <1>11, <1>7, <1>8, <1>9, TresPartidas
  <2>2. De(x, t.locador, "debe") + De(y, t.locador, "debe") + De(z, t.locador, "debe") = 0
    BY <1>1, <1>7, <1>8, <1>9 DEF De, TerminosBien
  <2> QED
    BY <1>6, <2>1, <2>2
<1>15. QED
  BY <1>2, <1>10, <1>12, <1>13, <1>14 DEF Pone

(* An entry of two partidas of one amount.                                  *)
LEMMA ParPone ==
  ASSUME NEW c \in Contratos, NEW t, t = Terminos[c], NEW monto \in Nat,
         NEW cargo \in Codigos, NEW abono \in Codigos,
         NEW g \in Agentes \cup {Nadie, Inmobiliaria}, NEW h \in Agentes \cup {Nadie, Inmobiliaria},
         NEW l, l.partidas = <<Partida(cargo, monto, 0, g), Partida(abono, 0, monto, h)>>
  PROVE  Pone(t, l, IF g = t.locatario THEN monto ELSE 0, IF h = t.locador THEN monto ELSE 0,
              IF g = t.locador THEN monto ELSE 0)
<1>1. PICK x : x = Partida(cargo, monto, 0, g)
  OBVIOUS
<1>2. PICK y : y = Partida(abono, 0, monto, h)
  OBVIOUS
<1>3. x \in DePartida /\ x["debe"] = monto /\ x["haber"] = 0 /\ x.agente = g
  <2>1. monto \in Int /\ 0 \in Int
    OBVIOUS
  <2> QED
    BY <1>1, <2>1, DePartidaVale
<1>4. y \in DePartida /\ y["debe"] = 0 /\ y["haber"] = monto /\ y.agente = h
  <2>1. monto \in Int /\ 0 \in Int
    OBVIOUS
  <2> QED
    BY <1>2, <2>1, DePartidaVale
<1>5. PICK s : s = l.partidas
  OBVIOUS
<1>6. s = <<x, y>>
  BY <1>1, <1>2, <1>5
<1>7. EntradaBuena(l)
  <2>1. x["debe"] >= 0 /\ y["debe"] >= 0 /\ x["debe"] + y["debe"] = x["haber"] + y["haber"]
    BY <1>3, <1>4
  <2> QED
    BY <1>3, <1>4, <1>5, <1>6, <2>1, EntradaDeDos
<1>8. ASSUME NEW quien, NEW lado \in Lados
      PROVE  Imputado(s, quien, lado) = De(x, quien, lado) + De(y, quien, lado)
  BY <1>3, <1>4, <1>6, DosPartidas
<1>9. "debe" \in Lados /\ "haber" \in Lados
  BY DEF Lados
<1>10. /\ \A quien : Imputado(s, quien, "debe") = IF g = quien THEN monto ELSE 0
       /\ \A quien : Imputado(s, quien, "haber") = IF h = quien THEN monto ELSE 0
  BY <1>3, <1>4, <1>8, <1>9 DEF De
<1>11. QED
  BY <1>5, <1>7, <1>10 DEF Pone

(* The two entries of the deposit, and the fees.                            *)
LEMMA CobroPone ==
  ASSUME NEW c \in Contratos, ConDeposito(c), NEW t, t = Terminos[c]
  PROVE  Pone(t, CobroDe(t), t.deposito, 0, 0)
<1>1. TerminosBien(t) /\ t.deposito \in Nat
  BY TerminosValen DEF TerminosBien, ConDeposito
<1>2. PICK l : l = CobroDe(t)
  OBVIOUS
<1>3. l.partidas = <<Partida("CXC_ALQ", t.deposito, 0, t.locatario),
                     Partida("ACT_FID", 0, t.deposito, Nadie)>>
  BY <1>2 DEF CobroDe, CreateDepositEntry
<1>4. "CXC_ALQ" \in Codigos /\ "ACT_FID" \in Codigos
  BY CuentasAssumption
<1>5. /\ t.locatario \in Agentes \cup {Nadie, Inmobiliaria}
      /\ Nadie \in Agentes \cup {Nadie, Inmobiliaria}
      /\ t.locatario # t.locador /\ Nadie # t.locador
  BY <1>1 DEF TerminosBien
<1>6. Pone(t, l, IF t.locatario = t.locatario THEN t.deposito ELSE 0,
           IF Nadie = t.locador THEN t.deposito ELSE 0, IF t.locatario = t.locador THEN t.deposito ELSE 0)
  BY <1>1, <1>3, <1>4, <1>5, ParPone
<1>7. QED
  BY <1>2, <1>5, <1>6

LEMMA DevolucionPone ==
  ASSUME NEW c \in Contratos, ConDeposito(c), NEW t, t = Terminos[c]
  PROVE  Pone(t, DevolucionDe(t), 0, t.deposito, 0)
<1>1. TerminosBien(t) /\ t.deposito \in Nat
  BY TerminosValen DEF TerminosBien, ConDeposito
<1>2. PICK l : l = DevolucionDe(t)
  OBVIOUS
<1>3. l.partidas = <<Partida("ACT_FID", t.deposito, 0, Nadie),
                     Partida("PAS_DEP", 0, t.deposito, t.locador)>>
  BY <1>2 DEF DevolucionDe, CreateDepositEntry
<1>4. "ACT_FID" \in Codigos /\ "PAS_DEP" \in Codigos
  BY CuentasAssumption
<1>5. /\ t.locador \in Agentes \cup {Nadie, Inmobiliaria} /\ Nadie \in Agentes \cup {Nadie, Inmobiliaria}
      /\ Nadie # t.locatario /\ Nadie # t.locador
  BY <1>1 DEF TerminosBien
<1>6. Pone(t, l, IF Nadie = t.locatario THEN t.deposito ELSE 0,
           IF t.locador = t.locador THEN t.deposito ELSE 0, IF Nadie = t.locador THEN t.deposito ELSE 0)
  BY <1>1, <1>3, <1>4, <1>5, ParPone
<1>7. QED
  BY <1>2, <1>5, <1>6

LEMMA HonorarioLocadorPone ==
  ASSUME NEW c \in Contratos, NEW t, t = Terminos[c]
  PROVE  Pone(t, DelLocador(t), 0, 0, t.honorarios)
<1>1. TerminosBien(t) /\ t.honorarios \in Nat
  BY TerminosValen DEF TerminosBien
<1>2. PICK l : l = DelLocador(t)
  OBVIOUS
<1>3. l.partidas = <<Partida("CXP_LOC", t.honorarios, 0, t.locador),
                     Partida("ING_HNR_INIC", 0, t.honorarios, Inmobiliaria)>>
  BY <1>2 DEF DelLocador, CreateHonorariosEntry
<1>4. "CXP_LOC" \in Codigos /\ "ING_HNR_INIC" \in Codigos
  BY CuentasAssumption
<1>5. /\ t.locador \in Agentes \cup {Nadie, Inmobiliaria}
      /\ Inmobiliaria \in Agentes \cup {Nadie, Inmobiliaria}
      /\ t.locador # t.locatario /\ Inmobiliaria # t.locador
  BY <1>1 DEF TerminosBien
<1>6. Pone(t, l, IF t.locador = t.locatario THEN t.honorarios ELSE 0,
           IF Inmobiliaria = t.locador THEN t.honorarios ELSE 0,
           IF t.locador = t.locador THEN t.honorarios ELSE 0)
  BY <1>1, <1>3, <1>4, <1>5, ParPone
<1>7. QED
  BY <1>2, <1>5, <1>6

LEMMA HonorarioLocatarioPone ==
  ASSUME NEW c \in Contratos, NEW t, t = Terminos[c]
  PROVE  Pone(t, DelLocatario(t), t.honorarios, 0, 0)
<1>1. TerminosBien(t) /\ t.honorarios \in Nat
  BY TerminosValen DEF TerminosBien
<1>2. PICK l : l = DelLocatario(t)
  OBVIOUS
<1>3. l.partidas = <<Partida("CXC_ALQ", t.honorarios, 0, t.locatario),
                     Partida("ING_HNR_INIC", 0, t.honorarios, Inmobiliaria)>>
  BY <1>2 DEF DelLocatario, CreateHonorariosEntry
<1>4. "CXC_ALQ" \in Codigos /\ "ING_HNR_INIC" \in Codigos
  BY CuentasAssumption
<1>5. /\ t.locatario \in Agentes \cup {Nadie, Inmobiliaria}
      /\ Inmobiliaria \in Agentes \cup {Nadie, Inmobiliaria}
      /\ t.locatario # t.locador /\ Inmobiliaria # t.locador
  BY <1>1 DEF TerminosBien
<1>6. Pone(t, l, IF t.locatario = t.locatario THEN t.honorarios ELSE 0,
           IF Inmobiliaria = t.locador THEN t.honorarios ELSE 0,
           IF t.locatario = t.locador THEN t.honorarios ELSE 0)
  BY <1>1, <1>3, <1>4, <1>5, ParPone
<1>7. QED
  BY <1>2, <1>5, <1>6

LEMMA Pegadas ==
  ASSUME NEW S, NEW s \in Seq(S), NEW t \in Seq(S), NEW w, w = s \o t
  PROVE  /\ w \in Seq(S) /\ Len(w) = Len(s) + Len(t)
         /\ \A i \in 1 .. Len(s) : w[i] = s[i]
         /\ \A i \in 1 .. Len(t) : w[Len(s) + i] = t[i]
<1>1. Len(s) \in Nat /\ Len(t) \in Nat
  OBVIOUS
<1>2. w \in Seq(S) /\ Len(w) = Len(s) + Len(t)
  BY ConcatProperties
<1>3. \A i \in 1 .. Len(s) + Len(t) : w[i] = IF i <= Len(s) THEN s[i] ELSE t[i - Len(s)]
  BY ConcatProperties
<1>4. \A i \in 1 .. Len(s) : w[i] = s[i]
  BY <1>1, <1>3
<1>5. ASSUME NEW i \in 1 .. Len(t) PROVE w[Len(s) + i] = t[i]
  <2>1. Len(s) + i \in 1 .. Len(s) + Len(t) /\ ~ (Len(s) + i <= Len(s)) /\ Len(s) + i - Len(s) = i
    BY <1>1
  <2> QED
    BY <1>3, <2>1
<1>6. QED
  BY <1>2, <1>4, <1>5

(* The plan: the rents, the two entries of the deposit, and the fees.       *)
Traza(p, t) ==
  /\ Len(p) = t.meses + 2 + t.cuotasLocador + t.cuotasLocatario
  /\ \A k \in 1 .. t.meses : p[k] = RentaDe(t, k)
  /\ p[t.meses + 1] = CobroDe(t) /\ p[t.meses + 2] = DevolucionDe(t)
  /\ \A k \in t.meses + 3 .. t.meses + 2 + t.cuotasLocador : p[k] = DelLocador(t)
  /\ \A k \in t.meses + 3 + t.cuotasLocador .. Len(p) : p[k] = DelLocatario(t)

LEMMA PlanTrazado ==
  ASSUME NEW c \in Contratos
  PROVE  /\ Traza(Plan(c), Terminos[c]) /\ DOMAIN Plan(c) = 1 .. Len(Plan(c))
<1>0. PICK t : t = Terminos[c]
  OBVIOUS
<1>1. PICK m \in Nat, a \in Nat, b \in Nat :
        m = t.meses /\ a = t.cuotasLocador /\ b = t.cuotasLocatario
  BY <1>0, TerminosValen DEF TerminosBien
<1>2. PICK S : S = {RentaDe(t, k) : k \in 1 .. m}
                     \cup {CobroDe(t), DevolucionDe(t), DelLocador(t), DelLocatario(t)}
  OBVIOUS
<1>3. PICK r : r = [k \in 1 .. m |-> RentaDe(t, k)]
  OBVIOUS
<1>4. r \in Seq(S) /\ Len(r) = m
  BY <1>2, <1>3
<1>5. PICK d : d = <<CobroDe(t), DevolucionDe(t)>>
  OBVIOUS
<1>6. d \in Seq(S) /\ Len(d) = 2
  BY <1>2, <1>5
<1>7. PICK u : u = [k \in 1 .. a |-> DelLocador(t)]
  OBVIOUS
<1>8. u \in Seq(S) /\ Len(u) = a
  BY <1>2, <1>7
<1>9. PICK v : v = [k \in 1 .. b |-> DelLocatario(t)]
  OBVIOUS
<1>10. v \in Seq(S) /\ Len(v) = b
  BY <1>2, <1>9
<1>11. Plan(c) = (r \o d) \o (u \o v)
  BY <1>0, <1>1, <1>3, <1>5, <1>7, <1>9
     DEF Plan, Rents, Deposit, Honorarios, RentaDe, CobroDe, DevolucionDe, DelLocador, DelLocatario
<1>12. PICK x : x = r \o d
  OBVIOUS
<1>13. /\ x \in Seq(S) /\ Len(x) = Len(r) + Len(d)
       /\ \A i \in 1 .. Len(r) : x[i] = r[i]
       /\ \A i \in 1 .. Len(d) : x[Len(r) + i] = d[i]
  <2>1. r \in Seq(S) /\ d \in Seq(S)
    BY <1>4, <1>6
  <2> QED
    BY <1>12, <2>1, Pegadas
<1>14. PICK y : y = u \o v
  OBVIOUS
<1>15. /\ y \in Seq(S) /\ Len(y) = Len(u) + Len(v)
       /\ \A i \in 1 .. Len(u) : y[i] = u[i]
       /\ \A i \in 1 .. Len(v) : y[Len(u) + i] = v[i]
  <2>1. u \in Seq(S) /\ v \in Seq(S)
    BY <1>8, <1>10
  <2> QED
    BY <1>14, <2>1, Pegadas
<1>16. PICK p : p = x \o y
  OBVIOUS
<1>17. /\ p \in Seq(S) /\ Len(p) = Len(x) + Len(y)
       /\ \A i \in 1 .. Len(x) : p[i] = x[i]
       /\ \A i \in 1 .. Len(y) : p[Len(x) + i] = y[i]
  <2>1. x \in Seq(S) /\ y \in Seq(S)
    BY <1>13, <1>15
  <2> QED
    BY <1>16, <2>1, Pegadas
<1>18. Len(x) = m + 2
  BY <1>4, <1>6, <1>13
<1>19. Len(y) = a + b
  BY <1>8, <1>10, <1>15
<1>20. Len(p) = m + 2 + (a + b)
  BY <1>17, <1>18, <1>19
<1>21. ASSUME NEW k \in 1 .. m PROVE p[k] = RentaDe(t, k)
  <2>1. k \in 1 .. Len(x) /\ k \in 1 .. Len(r)
    BY <1>4, <1>18
  <2>2. p[k] = x[k] /\ x[k] = r[k]
    BY <1>13, <1>17, <2>1
  <2> QED
    BY <1>3, <2>2
<1>22. p[m + 1] = CobroDe(t) /\ p[m + 2] = DevolucionDe(t)
  <2>1. /\ m + 1 \in 1 .. Len(x) /\ m + 2 \in 1 .. Len(x)
        /\ m + 1 = Len(r) + 1 /\ m + 2 = Len(r) + 2 /\ 1 \in 1 .. Len(d) /\ 2 \in 1 .. Len(d)
    BY <1>4, <1>6, <1>18
  <2>2. p[m + 1] = x[m + 1] /\ p[m + 2] = x[m + 2]
    BY <1>17, <2>1
  <2>3. x[m + 1] = d[1] /\ x[m + 2] = d[2]
    BY <1>13, <2>1
  <2> QED
    BY <1>5, <2>2, <2>3
<1>23. ASSUME NEW k \in m + 3 .. m + 2 + a PROVE p[k] = DelLocador(t)
  <2>1. PICK i \in Int : i = k - (m + 2)
    OBVIOUS
  <2>2. i \in 1 .. a /\ k = (m + 2) + i
    BY <2>1
  <2>3. i \in 1 .. Len(y) /\ i \in 1 .. Len(u) /\ k = Len(x) + i
    BY <1>8, <1>18, <1>19, <2>2
  <2>4. p[k] = y[i] /\ y[i] = u[i]
    BY <1>15, <1>17, <2>3
  <2> QED
    BY <1>7, <2>2, <2>4
<1>24. ASSUME NEW k \in m + 3 + a .. m + 2 + (a + b) PROVE p[k] = DelLocatario(t)
  <2>1. PICK i \in Int : i = k - (m + 2 + a)
    OBVIOUS
  <2>2. i \in 1 .. b /\ k = (m + 2) + (a + i)
    BY <2>1
  <2>3. /\ a + i \in 1 .. Len(y) /\ i \in 1 .. Len(v) /\ k = Len(x) + (a + i)
        /\ a + i = Len(u) + i
    BY <1>8, <1>10, <1>18, <1>19, <2>2
  <2>4. p[k] = y[a + i]
    BY <1>17, <2>3
  <2>5. y[a + i] = v[i]
    BY <1>15, <2>3
  <2> QED
    BY <1>9, <2>2, <2>4, <2>5
<1>25. Traza(p, t)
  <2>1. m + 2 + (a + b) = m + 2 + a + b
    OBVIOUS
  <2> QED
    BY <1>1, <1>20, <1>21, <1>22, <1>23, <1>24, <2>1 DEF Traza
<1>26. DOMAIN p = 1 .. Len(p)
  BY <1>17
<1>27. QED
  BY <1>0, <1>11, <1>12, <1>14, <1>16, <1>25, <1>26

(* The sum of five stretches of equal terms.                                *)
EnTramos(f, m, a, b, x1, x2, x3, x4, x5) ==
  /\ \A k \in 1 .. m : f[k] = x1
  /\ f[m + 1] = x2 /\ f[m + 2] = x3
  /\ \A k \in m + 3 .. m + 2 + a : f[k] = x4
  /\ \A k \in m + 3 + a .. m + 2 + a + b : f[k] = x5

LEMMA CincoTramos ==
  ASSUME NEW f, NEW m \in Nat, NEW a \in Nat, NEW b \in Nat,
         NEW x1 \in Int, NEW x2 \in Int, NEW x3 \in Int, NEW x4 \in Int, NEW x5 \in Int,
         EnTramos(f, m, a, b, x1, x2, x3, x4, x5)
  PROVE  SumFunctionOnSet(f, 1 .. m + 2 + a + b) = m * x1 + x2 + x3 + a * x4 + b * x5
<1>0. PICK n0 \in Nat, n1 \in Nat, n2 \in Nat, n3 \in Nat, n4 \in Nat, n5 \in Nat :
        n0 = 0 /\ n1 = n0 + m /\ n2 = n1 + 1 /\ n3 = n2 + 1 /\ n4 = n3 + a /\ n5 = n4 + b
  <2>1. 0 \in Nat /\ m + 1 \in Nat /\ m + 1 + 1 \in Nat /\ m + 1 + 1 + a \in Nat
        /\ m + 1 + 1 + a + b \in Nat /\ 0 + m = m
    OBVIOUS
  <2> QED
    BY <2>1
<1>1. /\ Tramo(f, n0, m, n1, x1)
      /\ Tramo(f, n1, 1, n2, x2)
      /\ Tramo(f, n2, 1, n3, x3)
      /\ Tramo(f, n3, a, n4, x4)
      /\ Tramo(f, n4, b, n5, x5)
  BY <1>0 DEF EnTramos, Tramo
<1>2. 1 .. n0 = {}
  BY <1>0
<1>3. Enteros(f, 1 .. n0) /\ SumFunctionOnSet(f, 1 .. n0) = 0
  BY <1>2, SumaVacia DEF Enteros
<1>4. SumFunctionOnSet(f, 1 .. n1) = 0 + m * x1 /\ Enteros(f, 1 .. n1)
  <2>1. /\ m \in Nat /\ Enteros(f, 1 .. n0)
        /\ Tramo(f, n0, m, n1, x1)
    BY <1>0, <1>1, <1>3
  <2>2. SumFunctionOnSet(f, 1 .. n1) = SumFunctionOnSet(f, 1 .. n0) + m * x1
        /\ Enteros(f, 1 .. n1)
    BY <2>1, SumaTramo
  <2> QED
    BY <1>3, <2>2
<1>5. /\ SumFunctionOnSet(f, 1 .. n2) = SumFunctionOnSet(f, 1 .. n1) + 1 * x2
      /\ Enteros(f, 1 .. n2)
  <2>1. /\ 1 \in Nat /\ Enteros(f, 1 .. n1)
        /\ Tramo(f, n1, 1, n2, x2)
    BY <1>0, <1>1, <1>4
  <2>2. SumFunctionOnSet(f, 1 .. n2) = SumFunctionOnSet(f, 1 .. n1) + 1 * x2
        /\ Enteros(f, 1 .. n2)
    BY <2>1, SumaTramo
  <2> QED
    BY <2>2
<1>6. /\ SumFunctionOnSet(f, 1 .. n3) = SumFunctionOnSet(f, 1 .. n2) + 1 * x3
      /\ Enteros(f, 1 .. n3)
  <2>1. /\ 1 \in Nat /\ Enteros(f, 1 .. n2)
        /\ Tramo(f, n2, 1, n3, x3)
    BY <1>0, <1>1, <1>5
  <2>2. SumFunctionOnSet(f, 1 .. n3) = SumFunctionOnSet(f, 1 .. n2) + 1 * x3
        /\ Enteros(f, 1 .. n3)
    BY <2>1, SumaTramo
  <2> QED
    BY <2>2
<1>7. /\ SumFunctionOnSet(f, 1 .. n4) = SumFunctionOnSet(f, 1 .. n3) + a * x4
      /\ Enteros(f, 1 .. n4)
  <2>1. /\ a \in Nat /\ Enteros(f, 1 .. n3)
        /\ Tramo(f, n3, a, n4, x4)
    BY <1>0, <1>1, <1>6
  <2>2. SumFunctionOnSet(f, 1 .. n4) = SumFunctionOnSet(f, 1 .. n3) + a * x4
        /\ Enteros(f, 1 .. n4)
    BY <2>1, SumaTramo
  <2> QED
    BY <2>2
<1>8. SumFunctionOnSet(f, 1 .. n5) = SumFunctionOnSet(f, 1 .. n4) + b * x5
  <2>1. /\ b \in Nat /\ Enteros(f, 1 .. n4)
        /\ Tramo(f, n4, b, n5, x5)
    BY <1>0, <1>1, <1>7
  <2>2. SumFunctionOnSet(f, 1 .. n5) = SumFunctionOnSet(f, 1 .. n4) + b * x5
        /\ Enteros(f, 1 .. n5)
    BY <2>1, SumaTramo
  <2> QED
    BY <2>2
<1>9. PICK p \in Int, q \in Int, r \in Int : p = m * x1 /\ q = a * x4 /\ r = b * x5
  OBVIOUS
<1>10. SumFunctionOnSet(f, 1 .. n5) = p + x2 + x3 + q + r
  <2>1. SumFunctionOnSet(f, 1 .. n1) = p
    BY <1>4, <1>9
  <2>2. SumFunctionOnSet(f, 1 .. n2) = p + x2
    BY <1>5, <2>1
  <2>3. SumFunctionOnSet(f, 1 .. n3) = p + x2 + x3
    BY <1>6, <2>2
  <2>4. SumFunctionOnSet(f, 1 .. n4) = p + x2 + x3 + q
    BY <1>7, <1>9, <2>3
  <2> QED
    BY <1>8, <1>9, <2>4
<1>11. n5 = m + 2 + a + b
  BY <1>0
<1>12. QED
  BY <1>9, <1>10, <1>11

LEMMA ImputadoEntero ==
  ASSUME NEW s \in Seq(DePartida), NEW lado \in Lados, NEW g
  PROVE  Imputado(s, g, lado) \in Int
<1>1. PICK n \in Nat : n = Len(s)
  OBVIOUS
<1>2. DOMAIN s = 1 .. n /\ \A j \in 1 .. n : s[j] \in DePartida
  BY <1>1
<1>3. PICK e : e = [j \in 1 .. n |-> IF s[j].agente = g THEN s[j][lado] ELSE 0]
  OBVIOUS
<1>4. ASSUME NEW j \in 1 .. n PROVE e[j] \in Int
  <2>1. e[j] = De(s[j], g, lado) /\ s[j] \in DePartida
    BY <1>2, <1>3 DEF De
  <2> QED
    BY <2>1, DePartidaEntera
<1>5. Enteros(e, 1 .. n) /\ IsFiniteSet(1 .. n)
  BY <1>4, FS_Interval DEF Enteros
<1>6. SumFunctionOnSet(e, 1 .. n) \in Int
  BY <1>5, SumaEntera
<1>7. QED
  BY <1>2, <1>3, <1>6 DEF Imputado

(* Every entry of the plan of a contract with a deposit.                    *)
PlanPone(t, p) ==
  /\ \A k \in 1 .. t.meses : Pone(t, p[k], t.monto, t.monto - t.comision, 0)
  /\ Pone(t, p[t.meses + 1], t.deposito, 0, 0) /\ Pone(t, p[t.meses + 2], 0, t.deposito, 0)
  /\ \A k \in t.meses + 3 .. t.meses + 2 + t.cuotasLocador : Pone(t, p[k], 0, 0, t.honorarios)
  /\ \A k \in t.meses + 3 + t.cuotasLocador .. Len(p) : Pone(t, p[k], t.honorarios, 0, 0)

LEMMA PlanBien ==
  ASSUME NEW c \in Contratos, ConDeposito(c)
  PROVE  /\ PlanPone(Terminos[c], Plan(c))
         /\ \A k \in 1 .. Len(Plan(c)) : EntradaBuena(Plan(c)[k])
<1>0. PICK t : t = Terminos[c]
  OBVIOUS
<1>1. PICK p : p = Plan(c)
  OBVIOUS
<1>2. Traza(p, t)
  BY <1>0, <1>1, PlanTrazado
<1>3. \A k \in 1 .. t.meses : Pone(t, p[k], t.monto, t.monto - t.comision, 0)
  BY <1>0, <1>2, RentaPone DEF Traza
<1>4. Pone(t, p[t.meses + 1], t.deposito, 0, 0)
  BY <1>0, <1>2, CobroPone DEF Traza
<1>5. Pone(t, p[t.meses + 2], 0, t.deposito, 0)
  BY <1>0, <1>2, DevolucionPone DEF Traza
<1>6. \A k \in t.meses + 3 .. t.meses + 2 + t.cuotasLocador : Pone(t, p[k], 0, 0, t.honorarios)
  BY <1>0, <1>2, HonorarioLocadorPone DEF Traza
<1>7. \A k \in t.meses + 3 + t.cuotasLocador .. Len(p) : Pone(t, p[k], t.honorarios, 0, 0)
  BY <1>0, <1>2, HonorarioLocatarioPone DEF Traza
<1>8. PlanPone(t, p)
  BY <1>3, <1>4, <1>5, <1>6, <1>7 DEF PlanPone
<1>9. PICK m \in Nat, a \in Nat, b \in Nat :
        m = t.meses /\ a = t.cuotasLocador /\ b = t.cuotasLocatario
  BY <1>0, TerminosValen DEF TerminosBien
<1>10. Len(p) = m + 2 + a + b
  BY <1>2, <1>9 DEF Traza
<1>11. ASSUME NEW k \in 1 .. Len(p) PROVE EntradaBuena(p[k])
  <2>0. PICK i \in Int, n \in Int : i = k /\ n = Len(p)
    BY <1>9, <1>10
  <2>1. \/ i \in 1 .. m \/ i = m + 1 \/ i = m + 2 \/ i \in m + 3 .. m + 2 + a
        \/ i \in m + 3 + a .. n
    BY <1>10, <2>0
  <2> QED
    BY <1>3, <1>4, <1>5, <1>6, <1>7, <1>9, <2>0, <2>1 DEF Pone
<1>12. QED
  BY <1>0, <1>1, <1>8, <1>11

(* What the plan foresees, entry by entry.                                  *)
LEMMA PrevistoVale ==
  ASSUME NEW c \in Contratos, ConDeposito(c), NEW g, NEW lado \in Lados
  PROVE  /\ Previsto(c, g, lado, 0) = 0
         /\ \A n \in 0 .. Len(Plan(c)) : Previsto(c, g, lado, n) \in Int
         /\ \A n \in 1 .. Len(Plan(c)) :
              /\ Imputado(Plan(c)[n].partidas, g, lado) \in Int
              /\ Previsto(c, g, lado, n) =
                   Previsto(c, g, lado, n - 1) + Imputado(Plan(c)[n].partidas, g, lado)
<1>0. PICK p : p = Plan(c)
  OBVIOUS
<1>1. PICK N \in Nat : N = Len(p)
  BY <1>0, PlanTrazado, TerminosValen DEF Traza, TerminosBien
<1>2. PICK f : f = [k \in 1 .. N |-> Imputado(p[k].partidas, g, lado)]
  OBVIOUS
<1>3. ASSUME NEW k \in 1 .. N PROVE f[k] \in Int
  <2>1. p[k].partidas \in Seq(DePartida)
    BY <1>0, <1>1, PlanBien DEF EntradaBuena
  <2> QED
    BY <1>2, <2>1, ImputadoEntero
<1>4. \A n : Previsto(c, g, lado, n) = SumFunctionOnSet(f, 1 .. n)
  BY <1>0, <1>1, <1>2 DEF Previsto
<1>5. 1 .. 0 = {}
  OBVIOUS
<1>6. SumFunctionOnSet(f, 1 .. 0) = 0
  BY <1>5, SumaVacia
<1>7. ASSUME NEW n \in 0 .. N PROVE SumFunctionOnSet(f, 1 .. n) \in Int
  <2>1. IsFiniteSet(1 .. n)
    BY FS_Interval
  <2>2. Enteros(f, 1 .. n)
    BY <1>3 DEF Enteros
  <2> QED
    BY <2>1, <2>2, SumaEntera
<1>8. ASSUME NEW n \in 1 .. N
      PROVE  SumFunctionOnSet(f, 1 .. n) = SumFunctionOnSet(f, 1 .. n - 1) + f[n]
  <2>1. PICK i \in Nat : i = n - 1
    OBVIOUS
  <2>2. n = i + 1 /\ Enteros(f, 1 .. n)
    BY <1>3, <2>1 DEF Enteros
  <2>3. SumFunctionOnSet(f, 1 .. n) = SumFunctionOnSet(f, 1 .. i) + f[n]
    BY <2>2, SumaSiguiente
  <2> QED
    BY <2>1, <2>3
<1>9. Previsto(c, g, lado, 0) = 0
  BY <1>4, <1>6
<1>10. \A n \in 0 .. N : Previsto(c, g, lado, n) \in Int
  BY <1>4, <1>7
<1>11. ASSUME NEW n \in 1 .. N
       PROVE  /\ Imputado(p[n].partidas, g, lado) \in Int
              /\ Previsto(c, g, lado, n) =
                   Previsto(c, g, lado, n - 1) + Imputado(p[n].partidas, g, lado)
  <2>1. f[n] = Imputado(p[n].partidas, g, lado) /\ f[n] \in Int
    BY <1>2, <1>3
  <2>2. /\ Previsto(c, g, lado, n) = SumFunctionOnSet(f, 1 .. n)
        /\ Previsto(c, g, lado, n - 1) = SumFunctionOnSet(f, 1 .. n - 1)
    BY <1>4
  <2> QED
    BY <1>8, <2>1, <2>2
<1>12. QED
  BY <1>0, <1>1, <1>9, <1>10, <1>11

(* And in all: what the terms of the contract say.                          *)
LEMMA PrevistoEnTotal ==
  ASSUME NEW c \in Contratos, ConDeposito(c), NEW t, t = Terminos[c], NEW N, N = Len(Plan(c))
  PROVE  /\ Previsto(c, t.locatario, "debe", N) =
              t.meses * t.monto + t.deposito + t.cuotasLocatario * t.honorarios
         /\ Previsto(c, t.locador, "haber", N) = t.meses * (t.monto - t.comision) + t.deposito
         /\ Previsto(c, t.locador, "debe", N) = t.cuotasLocador * t.honorarios
<1>1. TerminosBien(t)
  BY TerminosValen
<1>2. PICK m \in Nat, a \in Nat, b \in Nat, x \in Int, y \in Int, d \in Int, h \in Int :
        /\ m = t.meses /\ a = t.cuotasLocador /\ b = t.cuotasLocatario
        /\ x = t.monto /\ y = t.monto - t.comision /\ d = t.deposito /\ h = t.honorarios
  <2>1. /\ t.meses \in Nat /\ t.cuotasLocador \in Nat /\ t.cuotasLocatario \in Nat
        /\ t.monto \in Int /\ t.deposito \in Int /\ t.honorarios \in Int
        /\ t.monto - t.comision \in Int
    BY <1>1 DEF TerminosBien
  <2> QED
    BY <2>1
<1>3. PICK p : p = Plan(c)
  OBVIOUS
<1>4. PlanPone(t, p) /\ Len(p) = m + 2 + a + b /\ N = Len(p)
  BY <1>2, <1>3, PlanBien, PlanTrazado DEF Traza
<1>5. /\ \A k \in 1 .. m : Pone(t, p[k], x, y, 0)
      /\ Pone(t, p[m + 1], d, 0, 0) /\ Pone(t, p[m + 2], 0, d, 0)
      /\ \A k \in m + 3 .. m + 2 + a : Pone(t, p[k], 0, 0, h)
      /\ \A k \in m + 3 + a .. m + 2 + a + b : Pone(t, p[k], h, 0, 0)
  BY <1>2, <1>4 DEF PlanPone
<1>6. PICK f : f = [k \in 1 .. m + 2 + a + b |-> Imputado(p[k].partidas, t.locatario, "debe")]
  OBVIOUS
<1>7. PICK g : g = [k \in 1 .. m + 2 + a + b |-> Imputado(p[k].partidas, t.locador, "haber")]
  OBVIOUS
<1>8. PICK e : e = [k \in 1 .. m + 2 + a + b |-> Imputado(p[k].partidas, t.locador, "debe")]
  OBVIOUS
<1>9. /\ 1 .. m \subseteq 1 .. m + 2 + a + b
      /\ m + 1 \in 1 .. m + 2 + a + b /\ m + 2 \in 1 .. m + 2 + a + b
      /\ m + 3 .. m + 2 + a \subseteq 1 .. m + 2 + a + b
      /\ m + 3 + a .. m + 2 + a + b \subseteq 1 .. m + 2 + a + b
  OBVIOUS
<1>10. EnTramos(f, m, a, b, x, d, 0, 0, h)
  BY <1>5, <1>6, <1>9 DEF EnTramos, Pone
<1>11. EnTramos(g, m, a, b, y, 0, d, 0, 0)
  BY <1>5, <1>7, <1>9 DEF EnTramos, Pone
<1>12. EnTramos(e, m, a, b, 0, 0, 0, h, 0)
  BY <1>5, <1>8, <1>9 DEF EnTramos, Pone
<1>13. 0 \in Int /\ m * 0 = 0 /\ a * 0 = 0 /\ b * 0 = 0
  OBVIOUS
<1>14. SumFunctionOnSet(f, 1 .. m + 2 + a + b) = m * x + d + 0 + a * 0 + b * h
  BY <1>10, <1>13, CincoTramos
<1>15. SumFunctionOnSet(g, 1 .. m + 2 + a + b) = m * y + 0 + d + a * 0 + b * 0
  BY <1>11, <1>13, CincoTramos
<1>16. SumFunctionOnSet(e, 1 .. m + 2 + a + b) = m * 0 + 0 + 0 + a * h + b * 0
  BY <1>12, <1>13, CincoTramos
<1>17. /\ Previsto(c, t.locatario, "debe", N) = SumFunctionOnSet(f, 1 .. m + 2 + a + b)
       /\ Previsto(c, t.locador, "haber", N) = SumFunctionOnSet(g, 1 .. m + 2 + a + b)
       /\ Previsto(c, t.locador, "debe", N) = SumFunctionOnSet(e, 1 .. m + 2 + a + b)
  BY <1>3, <1>4, <1>6, <1>7, <1>8 DEF Previsto
<1>18. /\ m * x + d + 0 + a * 0 + b * h = m * x + d + b * h
       /\ m * y + 0 + d + a * 0 + b * 0 = m * y + d
       /\ m * 0 + 0 + 0 + a * h + b * 0 = a * h
  BY <1>13
<1>19. QED
  BY <1>2, <1>14, <1>15, <1>16, <1>17, <1>18

LEMMA SumaDeNada ==
  ASSUME NEW g, NEW lado PROVE Suma(<<>>, g, lado) = 0
<1>1. DOMAIN <<>> = {}
  OBVIOUS
<1>2. QED
  BY <1>1, SumaVacia DEF Suma

Agrega(s, e, t) == t = Append(s, e) /\ e.partidas \in Seq(DePartida)

LEMMA SumaAgregada ==
  ASSUME NEW s, EsSecuencia(s), DeAsientos(s), NEW e, NEW t, Agrega(s, e, t), NEW g, NEW lado \in Lados
  PROVE  /\ Suma(t, g, lado) = Suma(s, g, lado) + Imputado(e.partidas, g, lado)
         /\ Suma(s, g, lado) \in Int /\ DeAsientos(t)
<1>0. t = Append(s, e) /\ e.partidas \in Seq(DePartida)
  BY DEF Agrega
<1>1. PICK n \in Nat, m \in Nat : n = Len(s) /\ m = n + 1
  BY DEF EsSecuencia
<1>2. PICK S : S = {s[i] : i \in DOMAIN s} \cup {e}
  OBVIOUS
<1>3. s \in Seq(S) /\ e \in S
  BY <1>2 DEF EsSecuencia
<1>4. /\ t \in Seq(S) /\ Len(t) = Len(s) + 1 /\ t[Len(s) + 1] = e
      /\ \A i \in 1 .. Len(s) : t[i] = s[i]
  BY <1>0, <1>3, AppendProperties
<1>5. DOMAIN s = 1 .. n /\ DOMAIN t = 1 .. m /\ t[m] = e /\ \A i \in 1 .. n : t[i] = s[i]
  BY <1>1, <1>3, <1>4
<1>6. DeAsientos(t)
  BY <1>0, <1>1, <1>5 DEF DeAsientos
<1>7. PICK f : f = [k \in 1 .. n |-> Imputado(s[k].partidas, g, lado)]
  OBVIOUS
<1>8. PICK h : h = [k \in 1 .. m |-> Imputado(t[k].partidas, g, lado)]
  OBVIOUS
<1>9. ASSUME NEW k \in 1 .. m PROVE h[k] \in Int
  <2>1. t[k].partidas \in Seq(DePartida)
    BY <1>5, <1>6 DEF DeAsientos
  <2> QED
    BY <1>8, <2>1, ImputadoEntero
<1>10. Enteros(h, 1 .. m)
  BY <1>9 DEF Enteros
<1>11. /\ SumFunctionOnSet(h, 1 .. m) = SumFunctionOnSet(h, 1 .. n) + h[m]
       /\ SumFunctionOnSet(h, 1 .. n) \in Int
  BY <1>1, <1>10, SumaSiguiente
<1>12. SumFunctionOnSet(h, 1 .. n) = SumFunctionOnSet(f, 1 .. n)
  <2>1. IsFiniteSet(1 .. n)
    BY FS_Interval
  <2>2. Enteros(h, 1 .. n) /\ \A k \in 1 .. n : h[k] = f[k]
    <3>1. \A k \in 1 .. n : k \in 1 .. m
      BY <1>1
    <3>2. \A k \in 1 .. n : h[k] = f[k]
      BY <1>5, <1>7, <1>8, <3>1
    <3> QED
      BY <1>10, <3>1, <3>2 DEF Enteros
  <2> QED
    BY <2>1, <2>2, SumaIgual
<1>13. h[m] = Imputado(e.partidas, g, lado)
  BY <1>1, <1>5, <1>8
<1>14. Suma(s, g, lado) = SumFunctionOnSet(f, 1 .. n) /\ Suma(t, g, lado) = SumFunctionOnSet(h, 1 .. m)
  BY <1>5, <1>7, <1>8 DEF Suma
<1>15. QED
  BY <1>6, <1>11, <1>12, <1>13, <1>14

LEMMA VanNada ==
  ASSUME NEW c \in Contratos, ConDeposito(c)
  PROVE  Van(<<>>, c, 0, 0)
<1>1. ASSUME NEW g, NEW lado \in Lados
      PROVE  Suma(<<>>, g, lado) = 0 * Previsto(c, g, lado, Len(Plan(c))) + Previsto(c, g, lado, 0)
  <2>1. PICK n \in Nat : n = Len(Plan(c))
    BY PlanTrazado, TerminosValen DEF Traza, TerminosBien
  <2>2. n \in 0 .. Len(Plan(c))
    BY <2>1
  <2>3. Previsto(c, g, lado, Len(Plan(c))) \in Int /\ Previsto(c, g, lado, 0) = 0
    BY <2>1, <2>2, PrevistoVale
  <2> QED
    BY <2>3, SumaDeNada
<1>2. QED
  BY <1>1 DEF Van

(* One entry more of the plan, and the plan completed.                      *)
LEMMA VanMas ==
  ASSUME NEW c \in Contratos, ConDeposito(c), NEW s, EsSecuencia(s), DeAsientos(s),
         NEW a, NEW k \in 1 .. Len(Plan(c)), NEW e, e.partidas = Plan(c)[k].partidas,
         NEW t, Agrega(s, e, t), Van(s, c, a, k - 1)
  PROVE  Van(t, c, a, k) /\ DeAsientos(t)
<1>1. ASSUME NEW g \in Agentes, NEW lado \in Lados
      PROVE  Suma(t, g, lado) = a * Previsto(c, g, lado, Len(Plan(c))) + Previsto(c, g, lado, k)
  <2>1. Suma(t, g, lado) = Suma(s, g, lado) + Imputado(e.partidas, g, lado)
        /\ Suma(s, g, lado) \in Int
    BY SumaAgregada
  <2>2. PICK x : x = a * Previsto(c, g, lado, Len(Plan(c)))
    OBVIOUS
  <2>3. Suma(s, g, lado) = x + Previsto(c, g, lado, k - 1)
    BY <2>2 DEF Van
  <2>4. /\ Imputado(e.partidas, g, lado) \in Int
        /\ Previsto(c, g, lado, k) = Previsto(c, g, lado, k - 1) + Imputado(e.partidas, g, lado)
    BY PrevistoVale
  <2>5. Previsto(c, g, lado, k - 1) \in Int
    <3>1. k - 1 \in 0 .. Len(Plan(c))
      BY PlanTrazado, TerminosValen DEF Traza, TerminosBien
    <3> QED
      BY <3>1, PrevistoVale
  <2> QED
    BY <2>1, <2>2, <2>3, <2>4, <2>5
<1>2. DeAsientos(t)
  <2>1. "debe" \in Lados
    BY DEF Lados
  <2>2. Suma(t, 0, "debe") = Suma(s, 0, "debe") + Imputado(e.partidas, 0, "debe") /\ DeAsientos(t)
    BY <2>1, SumaAgregada
  <2> QED
    BY <2>2
<1>3. QED
  BY <1>1, <1>2 DEF Van

LEMMA VanTodo ==
  ASSUME NEW c \in Contratos, ConDeposito(c), NEW s, NEW a \in Int,
         Van(s, c, a - 1, Len(Plan(c)))
  PROVE  Van(s, c, a, 0)
<1>1. ASSUME NEW g \in Agentes, NEW lado \in Lados
      PROVE  Suma(s, g, lado) = a * Previsto(c, g, lado, Len(Plan(c))) + Previsto(c, g, lado, 0)
  <2>1. PICK n \in Nat : n = Len(Plan(c))
    BY PlanTrazado, TerminosValen DEF Traza, TerminosBien
  <2>2. n \in 0 .. Len(Plan(c))
    BY <2>1
  <2>3. PICK x \in Int : x = Previsto(c, g, lado, Len(Plan(c)))
    BY <2>1, <2>2, PrevistoVale
  <2>4. Suma(s, g, lado) = (a - 1) * x + x
    BY <2>3 DEF Van
  <2>5. (a - 1) * x + x = a * x + 0
    OBVIOUS
  <2>6. Previsto(c, g, lado, 0) = 0
    BY PrevistoVale
  <2> QED
    BY <2>3, <2>4, <2>5, <2>6
<1>2. QED
  BY <1>1 DEF Van

----------------------------------------------------------------------------
(* A call that goes on.                                                     *)
LEMMA MenorDeTramo ==
  ASSUME NEW S, S \subseteq Nat, S # {} PROVE Min(S) \in S
<1>1. PICK n \in S : \A m \in S : n <= m
  BY Primero
<1>2. QED
  BY <1>1 DEF Min

LEMMA HastaVale ==
  ASSUME NEW l, NEW n \in Nat, n = Len(l.partidas), NEW i \in 1 .. n + 1, NEW conocidas
  PROVE  Hasta(l, i, conocidas) \in i .. n + 1
<1>1. PICK F : F = {j \in i .. n : l.partidas[j].codigo \notin conocidas}
  OBVIOUS
<1>2. Hasta(l, i, conocidas) = IF F = {} THEN n + 1 ELSE Min(F)
  BY <1>1 DEF Hasta
<1>3. F # {} => Min(F) \in F
  <2>1. F \subseteq Nat
    BY <1>1
  <2> QED
    BY <2>1, MenorDeTramo
<1>4. CASE F = {}
  <2>1. n + 1 \in i .. n + 1
    OBVIOUS
  <2> QED
    BY <1>2, <1>4, <2>1
<1>5. CASE F # {}
  <2>1. Hasta(l, i, conocidas) \in i .. n
    BY <1>1, <1>2, <1>3, <1>5
  <2> QED
    BY <2>1
<1>6. QED
  BY <1>4, <1>5

LEMMA SecuenciaSeguida ==
  ASSUME NEW S, NEW s \in Seq(S), NEW n \in Nat, n = Len(s), NEW i \in 1 .. n + 1, NEW j \in i .. n + 1
  PROVE  SubSeq(s, 1, i - 1) \o SubSeq(s, i, j - 1) = SubSeq(s, 1, j - 1)
<1>1. PICK k \in Int, m \in Int : k = i - 1 /\ m = j - 1
  OBVIOUS
<1>2. 1 \in 1 .. Len(s) + 1 /\ k \in 1 - 1 .. Len(s) /\ m \in k .. Len(s) /\ k + 1 = i
  BY <1>1
<1>3. SubSeq(s, 1, k) \o SubSeq(s, k + 1, m) = SubSeq(s, 1, m)
  BY <1>2, ConcatAdjacentSubSeq
<1>4. QED
  BY <1>1, <1>2, <1>3

(* The call goes on: it stops at another account, or ends as the plan says. *)
LEMMA AgregarSigue ==
  ASSUME NEW l, EntradaBuena(l), NEW n, n = Len(l.partidas), NEW i \in 1 .. n + 1,
         NEW b, FormaConstructor(b), b.partidas = SubSeq(l.partidas, 1, i - 1), NEW conocidas
  PROVE  /\ Hasta(l, i, conocidas) \in i .. n + 1 /\ n \in Nat
         /\ Agregar(b, l, i, conocidas).partidas = SubSeq(l.partidas, 1, Hasta(l, i, conocidas) - 1)
<1>1. PICK s : s = l.partidas
  OBVIOUS
<1>2. s \in Seq(DePartida) /\ n \in Nat /\ n = Len(s)
  BY <1>1 DEF EntradaBuena
<1>3. PICK j \in i .. n + 1 : j = Hasta(l, i, conocidas)
  BY <1>2, HastaVale
<1>4. Agregar(b, l, i, conocidas).partidas = b.partidas \o SubSeq(s, i, j - 1)
  <2>1. "partidas" \in DOMAIN b
    BY DEF FormaConstructor, CamposConstructor
  <2> QED
    BY <1>1, <1>3, <2>1 DEF Agregar
<1>5. SubSeq(s, 1, i - 1) \o SubSeq(s, i, j - 1) = SubSeq(s, 1, j - 1)
  BY <1>2, SecuenciaSeguida
<1>6. QED
  BY <1>1, <1>2, <1>3, <1>4, <1>5

LEMMA AgregarForma ==
  ASSUME NEW b, FormaConstructor(b), NEW l, NEW i, NEW conocidas
  PROVE  FormaConstructor(Agregar(b, l, i, conocidas))
<1>1. PICK x : x = b.partidas \o SubSeq(l.partidas, i, Hasta(l, i, conocidas) - 1)
  OBVIOUS
<1>2. Agregar(b, l, i, conocidas) = [b EXCEPT !.partidas = x]
  BY <1>1 DEF Agregar
<1>3. FormaConstructor([b EXCEPT !.partidas = x])
  BY DEF FormaConstructor, CamposConstructor
<1>4. QED
  BY <1>2, <1>3

LEMMA ResetForma ==
  ASSUME NEW l
  PROVE  FormaConstructor(Reset(l)) /\ Reset(l).partidas = <<>>
BY DEF Reset, FormaConstructor, CamposConstructor

LEMMA SeguirForma ==
  ASSUME NEW b, FormaConstructor(b), NEW r, NEW l, NEW i, NEW conocidas,
         Seguir(r, l, b, i, conocidas)
  PROVE  FormaConstructor(constructor')
<1>1. constructor' = Agregar(b, l, i, conocidas)
  BY DEF Seguir
<1>2. QED
  BY <1>1, AgregarForma

LEMMA SeguirBien ==
  ASSUME NEW r \in Requests, cadena = [s \in Requests |-> cadena[s]],
         NEW l, EntradaBuena(l), NEW n, n = Len(l.partidas), NEW i \in 1 .. n + 1,
         NEW b, FormaConstructor(b), b.partidas = SubSeq(l.partidas, 1, i - 1), NEW conocidas,
         Seguir(r, l, b, i, conocidas)
  PROVE  CadenaBien(cadena'[r], l, constructor'.partidas)
<1>1. PICK j : j = Hasta(l, i, conocidas)
  OBVIOUS
<1>2. PICK c : c = Agregar(b, l, i, conocidas)
  OBVIOUS
<1>3. j \in i .. n + 1 /\ n \in Nat /\ c.partidas = SubSeq(l.partidas, 1, j - 1)
  <2>1. /\ Hasta(l, i, conocidas) \in i .. n + 1 /\ n \in Nat
        /\ Agregar(b, l, i, conocidas).partidas =
             SubSeq(l.partidas, 1, Hasta(l, i, conocidas) - 1)
    BY AgregarSigue
  <2> QED
    BY <1>1, <1>2, <2>1
<1>4. PICK q : q = [fase |-> IF j <= n THEN "cuenta"
                            ELSE IF Balanceado(c.partidas) THEN "armado" ELSE "error",
                    llamada |-> l, i |-> j, armado |-> IF j <= n THEN NadaArmado ELSE c]
  OBVIOUS
<1>5. constructor' = c /\ cadena' = [cadena EXCEPT ![r] = q]
  BY <1>1, <1>2, <1>4 DEF Seguir
<1>6. cadena'[r] = q
  BY <1>5
<1>7. CASE j <= n
  <2>1. q.fase = "cuenta" /\ q.llamada = l /\ q.i = j
    BY <1>4, <1>7
  <2>2. j \in 1 .. n
    BY <1>3, <1>7
  <2> QED
    BY <1>3, <1>5, <1>6, <2>1, <2>2 DEF CadenaBien
<1>8. CASE ~ (j <= n)
  <2>1. j - 1 = n
    <3>1. n \in Nat /\ j \in i .. n + 1
      BY <1>3
    <3>2. j \in Int /\ j <= n + 1
      BY <3>1
    <3> QED
      BY <1>8, <3>1, <3>2
  <2>2. c.partidas = l.partidas
    <3>1. l.partidas \in Seq(DePartida)
      BY DEF EntradaBuena
    <3>2. SubSeq(l.partidas, 1, n) = l.partidas
      BY <3>1, SubSeqFull
    <3> QED
      BY <1>3, <2>1, <3>2
  <2>3. Balanceado(c.partidas)
    BY <2>2 DEF EntradaBuena
  <2>4. q.fase = "armado" /\ q.llamada = l /\ q.armado = c
    BY <1>4, <1>8, <2>3
  <2> QED
    BY <1>6, <2>2, <2>4 DEF CadenaBien
<1>9. QED
  BY <1>7, <1>8

----------------------------------------------------------------------------
(* A step: only the contracts of T change, or are those of the request that *)
(* goes on.                                                                 *)
Toca(r, d) == pedido[r].fase \in Obras /\ pedido[r].c = d

Igual(d) == contrato'[d] = contrato[d] /\ asientos'[d] = asientos[d] /\ activados'[d] = activados[d]

Formas ==
  /\ contrato = [c \in Contratos |-> contrato[c]] /\ \A c \in Contratos : FormaContrato(contrato[c])
  /\ asientos = [c \in Contratos |-> asientos[c]]
  /\ activados = [c \in Contratos |-> activados[c]]
  /\ FormaConstructor(constructor)

LEMMA ObraSola ==
  ASSUME InvPropiedad, ~ solape, NEW r \in Requests, NEW d,
         pedido[r].fase # "libre" \/ \A s \in Requests : pedido[s].fase = "libre"
  PROVE  /\ EnObra(d) <=> Toca(r, d)
         /\ \A s \in Requests : s # r => pedido[s].fase = "libre"
<1>1. \A s \in Requests : s # r => pedido[s].fase = "libre"
  BY DEF InvPropiedad, Solo
<1>2. "libre" \notin Obras
  BY DEF Obras
<1>3. QED
  BY <1>1, <1>2 DEF EnObra, Toca

LEMMA PedidoLibre ==
  ASSUME NEW r, pedido[r].fase = "libre"
  PROVE  PedidoInv(r)
BY DEF PedidoInv, Obras

LEMMA PasoCuenta ==
  ASSUME ActivacionInv, InvPropiedad, NEW r \in Requests, NEW q, pedido' = [pedido EXCEPT ![r] = q],
         \/ Libre(r)
         \/ pedido[r].fase # "libre" /\ UNCHANGED solape,
         Formas',
         NEW T, \A d \in Contratos \ T : Igual(d) /\ ~ Toca(r, d),
         ~ solape /\ PedidoInv(r) /\ (\A d \in Contratos : ContratoInv(d)) =>
            PedidoInv(r)' /\ \A d \in Contratos \cap T : ContratoInv(d)',
         ~ solape => \A d \in Contratos \ T : ~ (q.fase \in Obras /\ q.c = d)
  PROVE  ActivacionInv'
<1>1. pedido'[r] = q /\ \A s \in Requests : s # r => pedido'[s] = pedido[s]
  BY DEF InvPropiedad
<1>2. ASSUME ~ solape'
      PROVE  (\A c \in Contratos : ContratoInv(c))' /\ (\A s \in Requests : PedidoInv(s))'
  <2>1. ~ solape /\ (pedido[r].fase # "libre" \/ \A s \in Requests : pedido[s].fase = "libre")
    BY <1>2 DEF Libre, InvPropiedad
  <2>2. \A s \in Requests : s # r => pedido[s].fase = "libre"
    BY <2>1, ObraSola
  <2>3. PedidoInv(r) /\ \A d \in Contratos : ContratoInv(d)
    BY <2>1 DEF ActivacionInv
  <2>4. PedidoInv(r)' /\ \A d \in Contratos \cap T : ContratoInv(d)'
    BY <2>1, <2>3
  <2>5. ASSUME NEW s \in Requests, s # r PROVE PedidoInv(s)'
    <3>1. pedido'[s].fase = "libre"
      BY <1>1, <2>2, <2>5
    <3> QED
      BY <3>1 DEF PedidoInv, Obras
  <2>6. ASSUME NEW d \in Contratos, d \notin T PROVE ContratoInv(d)'
    <3>1. ContratoInv(d) /\ Igual(d) /\ ~ Toca(r, d)
      BY <2>3, <2>6
    <3>2. ~ EnObra(d)
      BY <2>1, <3>1, ObraSola
    <3> QED
      BY <3>1, <3>2 DEF ContratoInv, Igual
  <2>7. (\A s \in Requests : PedidoInv(s))'
    BY <2>4, <2>5
  <2> QED
    BY <2>4, <2>6, <2>7
<1>3. QED
  BY <1>2 DEF ActivacionInv, Formas

LEMMA FormasIguales ==
  ASSUME ActivacionInv, UNCHANGED <<contrato, asientos, activados, constructor>>
  PROVE  Formas' /\ \A d : Igual(d)
BY DEF ActivacionInv, Formas, Igual

(* The request goes on, or ends, with nothing stored.                       *)
LEMMA SoloElPedido ==
  ASSUME ActivacionInv, InvPropiedad, NEW r \in Requests, NEW q, pedido' = [pedido EXCEPT ![r] = q],
         \/ Libre(r)
         \/ pedido[r].fase # "libre" /\ UNCHANGED solape,
         pedido[r].fase \notin Obras, q.fase \notin Obras,
         UNCHANGED <<contrato, asientos, activados, bldVars>>,
         ~ solape => PedidoInv(r)'
  PROVE  ActivacionInv'
<1>1. UNCHANGED constructor
  BY DEF bldVars
<1>2. Formas' /\ \A d : Igual(d)
  BY <1>1, FormasIguales
<1>3. \A d : ~ Toca(r, d)
  BY DEF Toca
<1>4. \A d \in Contratos \ {} : Igual(d) /\ ~ Toca(r, d)
  BY <1>2, <1>3
<1>5. \A d \in Contratos \cap {} : ContratoInv(d)'
  OBVIOUS
<1>6. CASE Libre(r)
  BY <1>2, <1>4, <1>5, <1>6, PasoCuenta
<1>7. CASE pedido[r].fase # "libre" /\ UNCHANGED solape
  BY <1>2, <1>4, <1>5, <1>7, PasoCuenta
<1>8. QED
  BY <1>6, <1>7

LEMMA SinPedidoInv ==
  ASSUME InvPropiedad, NEW r \in Requests, pedido' = [pedido EXCEPT ![r] = SinPedido]
  PROVE  PedidoInv(r)' /\ SinPedido.fase \notin Obras
<1>1. SinPedido.fase = "libre" /\ "libre" \notin Obras
  BY DEF SinPedido, Obras
<1>2. pedido'[r].fase = "libre"
  BY <1>1 DEF InvPropiedad
<1>3. QED
  BY <1>1, <1>2 DEF PedidoInv, Obras

LEMMA CreateCuenta ==
  ASSUME ActivacionInv, InvPropiedad, NEW r \in Requests, NEW c \in Contratos, NEW e \in Altas,
         Create(r, c, e)
  PROVE  ActivacionInv'
<1> DEFINE q == [SinPedido EXCEPT !.fase = "propiedad", !.c = c]
<1>1. q.fase = "propiedad" /\ q.fase \notin Obras
  BY DEF SinPedido, Obras
<1>2. PICK x : x = [vida |-> "vivo", status |-> e.status, hitos |-> e.hitos]
  OBVIOUS
<1>3. /\ Libre(r) /\ pedido' = [pedido EXCEPT ![r] = q] /\ contrato[c].vida = "ausente"
      /\ contrato' = [contrato EXCEPT ![c] = x] /\ UNCHANGED <<asientos, activados, constructor>>
  BY <1>2 DEF Create, bldVars
<1> HIDE DEF q
<1>4. FormaContrato(x)
  BY <1>2 DEF FormaContrato
<1>5. /\ contrato' = [d \in Contratos |-> contrato'[d]] /\ contrato'[c] = x
      /\ \A d \in Contratos : d # c => contrato'[d] = contrato[d]
  BY <1>3 DEF ActivacionInv
<1>6. Formas'
  BY <1>3, <1>4, <1>5 DEF ActivacionInv, Formas
<1>7. pedido[r].fase = "libre" /\ "libre" \notin Obras
  BY <1>3 DEF Libre, Obras
<1>8. \A d \in Contratos \ {c} : Igual(d) /\ ~ Toca(r, d)
  BY <1>3, <1>5, <1>7 DEF Igual, Toca
<1>9. pedido'[r] = q
  BY <1>3 DEF InvPropiedad
<1>10. PedidoInv(r)'
  BY <1>1, <1>9 DEF PedidoInv, Obras
<1>11. ASSUME \A d \in Contratos : ContratoInv(d)
       PROVE  \A d \in Contratos \cap {c} : ContratoInv(d)'
  <2>1. asientos'[c] = <<>> /\ activados'[c] = 0 /\ contrato'[c].vida = "vivo"
    BY <1>2, <1>3, <1>5, <1>11 DEF ContratoInv
  <2>2. DeAsientos(<<>>)
    BY DEF DeAsientos
  <2>3. ConDeposito(c) => Van(asientos'[c], c, activados'[c], 0)
    BY <2>1, VanNada
  <2>4. ContratoInv(c)'
    BY <2>1, <2>2, <2>3 DEF ContratoInv
  <2> QED
    BY <2>4
<1>12. QED
  BY <1>1, <1>3, <1>6, <1>8, <1>10, <1>11, PasoCuenta

LEMMA UpdateCuenta ==
  ASSUME ActivacionInv, InvPropiedad, NEW r \in Requests, NEW c \in Contratos, NEW dto \in DtosContrato,
         Update(r, c, dto)
  PROVE  ActivacionInv'
<1> DEFINE g == dto.status = "VIGENTE" /\ contrato[c].status = "PENDIENTE"
           q == [SinPedido EXCEPT !.fase = "actualizar", !.c = c, !.status = dto.status,
                                  !.hitos = dto.hitos, !.generar = g]
<1>1. /\ Libre(r) /\ pedido' = [pedido EXCEPT ![r] = q] /\ contrato[c].vida = "vivo"
      /\ UNCHANGED <<contrato, asientos, activados, bldVars>>
  BY DEF Update
<1> HIDE DEF g
<1>2. /\ q.fase = "actualizar" /\ q.c = c /\ q.status = dto.status /\ q.generar = g /\ q.k = 1
  BY DEF SinPedido
<1> HIDE DEF q
<1>3. pedido'[r] = q
  BY <1>1 DEF InvPropiedad
<1>4. q.fase \notin Obras /\ pedido[r].fase \notin Obras
  BY <1>1, <1>2 DEF Obras, Libre
<1>5. PedidoInv(r)'
  BY <1>1, <1>2, <1>3 DEF PedidoInv, Obras, g
<1>6. QED
  BY <1>1, <1>4, <1>5, SoloElPedido

LEMMA UpdatePropertyCuenta ==
  ASSUME ActivacionInv, InvPropiedad, NEW r \in Requests, NEW p \in Propiedades,
         NEW dto \in DtosPropiedad, UpdateProperty(r, p, dto)
  PROVE  ActivacionInv'
<1> DEFINE q == [SinPedido EXCEPT !.fase = "escribir", !.p = p, !.status = dto.status,
                                  !.liberar = dto.liberar]
<1>1. /\ Libre(r) /\ pedido' = [pedido EXCEPT ![r] = q]
      /\ UNCHANGED <<contrato, asientos, activados, bldVars>>
  BY DEF UpdateProperty
<1>2. q.fase = "escribir"
  BY DEF SinPedido
<1> HIDE DEF q
<1>3. pedido'[r] = q
  BY <1>1 DEF InvPropiedad
<1>4. q.fase \notin Obras /\ pedido[r].fase \notin Obras
  BY <1>1, <1>2 DEF Obras, Libre
<1>5. PedidoInv(r)'
  BY <1>2, <1>3 DEF PedidoInv, Obras
<1>6. QED
  BY <1>1, <1>4, <1>5, SoloElPedido

LEMMA EscrituraCuenta ==
  ASSUME ActivacionInv, InvPropiedad, NEW r \in Requests, TomarPropiedad(r) \/ EscribirPropiedad(r)
  PROVE  ActivacionInv'
<1>1. /\ pedido' = [pedido EXCEPT ![r] = SinPedido] /\ pedido[r].fase \in {"propiedad", "escribir"}
      /\ UNCHANGED <<contrato, asientos, activados, bldVars, solape>>
  BY DEF TomarPropiedad, EscribirPropiedad, Terminar
<1>2. pedido[r].fase \notin Obras /\ pedido[r].fase # "libre"
  BY <1>1 DEF Obras
<1>3. PedidoInv(r)' /\ SinPedido.fase \notin Obras
  BY <1>1, SinPedidoInv
<1>4. QED
  BY <1>1, <1>2, <1>3, SoloElPedido

(* A request that stops at the contract c: what holds of it then.           *)
LEMMA PasoDe ==
  ASSUME ActivacionInv, InvPropiedad, NEW r \in Requests, NEW c, c = pedido[r].c,
         NEW q, pedido' = [pedido EXCEPT ![r] = q], q.c = c \/ q.fase \notin Obras,
         pedido[r].fase # "libre", UNCHANGED solape, Formas',
         \A d \in Contratos : d # c => Igual(d),
         ~ solape /\ PedidoInv(r) /\ (\A d \in Contratos : ContratoInv(d)) =>
            PedidoInv(r)' /\ (c \in Contratos => ContratoInv(c)')
  PROVE  ActivacionInv'
<1>1. \A d \in Contratos \ {c} : Igual(d) /\ ~ Toca(r, d) /\ ~ (q.fase \in Obras /\ q.c = d)
  BY DEF Toca
<1>2. ~ solape /\ PedidoInv(r) /\ (\A d \in Contratos : ContratoInv(d)) =>
         PedidoInv(r)' /\ \A d \in Contratos \cap {c} : ContratoInv(d)'
  OBVIOUS
<1>3. QED
  BY <1>1, <1>2, PasoCuenta

LEMMA DeleteWithEntriesCuenta ==
  ASSUME ActivacionInv, InvPropiedad, NEW r \in Requests, NEW c \in Contratos, DeleteWithEntries(r, c)
  PROVE  ActivacionInv'
<1> DEFINE q == [SinPedido EXCEPT !.fase = "borrar", !.c = c]
<1>1. q.fase = "borrar" /\ q.c = c
  BY DEF SinPedido
<1>2. /\ Libre(r) /\ pedido' = [pedido EXCEPT ![r] = q] /\ contrato[c].vida = "vivo"
      /\ asientos' = [asientos EXCEPT ![c] = <<>>] /\ UNCHANGED <<contrato, activados, constructor>>
  BY DEF DeleteWithEntries, bldVars
<1> HIDE DEF q
<1>3. /\ asientos' = [d \in Contratos |-> asientos'[d]] /\ asientos'[c] = <<>>
      /\ \A d \in Contratos : d # c => asientos'[d] = asientos[d]
  BY <1>2 DEF ActivacionInv
<1>4. Formas'
  BY <1>2, <1>3 DEF ActivacionInv, Formas
<1>5. pedido[r].fase = "libre" /\ "libre" \notin Obras
  BY <1>2 DEF Libre, Obras
<1>6. \A d \in Contratos \ {c} : Igual(d) /\ ~ Toca(r, d) /\ ~ (q.fase \in Obras /\ q.c = d)
  BY <1>1, <1>2, <1>3, <1>5 DEF Igual, Toca
<1>7. pedido'[r] = q
  BY <1>2 DEF InvPropiedad
<1>8. PedidoInv(r)'
  BY <1>1, <1>7 DEF PedidoInv, Obras
<1>9. ASSUME \A d \in Contratos : ContratoInv(d)
      PROVE  \A d \in Contratos \cap {c} : ContratoInv(d)'
  <2>1. EnObra(c)'
    BY <1>1, <1>7 DEF EnObra, Obras
  <2>2. DeAsientos(<<>>)
    BY DEF DeAsientos
  <2>3. ContratoInv(c)'
    BY <1>2, <1>3, <1>9, <2>1, <2>2 DEF ContratoInv
  <2> QED
    BY <2>3
<1>10. QED
  BY <1>2, <1>4, <1>6, <1>8, <1>9, PasoCuenta

LEMMA BorrarContratoCuenta ==
  ASSUME ActivacionInv, InvPropiedad, NEW r \in Requests, BorrarContrato(r)
  PROVE  ActivacionInv'
<1>1. PICK c : c = pedido[r].c
  OBVIOUS
<1>2. PICK x : x = [contrato[c] EXCEPT !.vida = "borrado"]
  OBVIOUS
<1>3. /\ pedido[r].fase = "borrar" /\ pedido' = [pedido EXCEPT ![r] = SinPedido]
      /\ contrato' = [contrato EXCEPT ![c] = x]
      /\ UNCHANGED <<asientos, activados, constructor, solape>>
  BY <1>1, <1>2 DEF BorrarContrato, Terminar, bldVars
<1>4. c \in Contratos => FormaContrato(x) /\ x.vida = "borrado"
  <2>1. c \in Contratos => FormaContrato(contrato[c])
    BY DEF ActivacionInv
  <2> QED
    BY <1>2, <2>1 DEF FormaContrato
<1>5. /\ contrato' = [d \in Contratos |-> contrato'[d]] /\ (c \in Contratos => contrato'[c] = x)
      /\ \A d \in Contratos : d # c => contrato'[d] = contrato[d]
  BY <1>3 DEF ActivacionInv
<1>6. Formas'
  BY <1>3, <1>4, <1>5 DEF ActivacionInv, Formas
<1>7. \A d \in Contratos : d # c => Igual(d)
  BY <1>3, <1>5 DEF Igual
<1>8. PedidoInv(r)' /\ SinPedido.fase \notin Obras
  BY <1>3, SinPedidoInv
<1>9. ASSUME c \in Contratos, \A d \in Contratos : ContratoInv(d) PROVE ContratoInv(c)'
  <2>1. contrato'[c].vida = "borrado"
    BY <1>4, <1>5, <1>9
  <2> QED
    BY <1>3, <1>9, <2>1 DEF ContratoInv
<1>10. pedido[r].fase # "libre"
  BY <1>3
<1>11. QED
  BY <1>1, <1>3, <1>6, <1>7, <1>8, <1>9, <1>10, PasoDe

(* findByIdAndUpdate: the entries will be generated exactly when the status *)
(* goes from PENDIENTE to VIGENTE.                                          *)
LEMMA ActualizarCuenta ==
  ASSUME ActivacionInv, InvPropiedad, NEW r \in Requests, Actualizar(r)
  PROVE  ActivacionInv'
<1>1. PICK c : c = pedido[r].c
  OBVIOUS
<1>2. PICK p : p = pedido[r]
  OBVIOUS
<1>3. PICK s : s = IF p.status = "igual" THEN contrato[c].status ELSE p.status
  OBVIOUS
<1>4. PICK h : h = Hitos(c, p.hitos)
  OBVIOUS
<1>5. PICK a : a = IF s = "VIGENTE" /\ contrato[c].status = "PENDIENTE" THEN activados[c] + 1
                   ELSE activados[c]
  OBVIOUS
<1>6. PICK q : q = [p EXCEPT !.fase = "generar"]
  OBVIOUS
<1>7. PICK x : x = [contrato[c] EXCEPT !.status = s, !.hitos = h]
  OBVIOUS
<1>8. FormaPedido(p) /\ c = p.c
  BY <1>1, <1>2 DEF InvPropiedad
<1>9. q.fase = "generar" /\ q.c = c /\ q.k = p.k
  BY <1>6, <1>8 DEF FormaPedido, CamposPedido
<1>10. /\ p.fase = "actualizar" /\ UNCHANGED <<asientos, constructor, solape>>
       /\ \/ /\ contrato[c].vida = "vivo"
             /\ contrato' = [contrato EXCEPT ![c].status = s, ![c].hitos = h]
             /\ activados' = [activados EXCEPT ![c] = a]
             /\ pedido' = [pedido EXCEPT ![r] = IF p.generar THEN q ELSE SinPedido]
          \/ /\ contrato[c].vida # "vivo" /\ pedido' = [pedido EXCEPT ![r] = SinPedido]
             /\ UNCHANGED <<contrato, activados>>
  <2>1. pedido' = [pedido EXCEPT ![r].fase = "generar"] => pedido' = [pedido EXCEPT ![r] = q]
    BY <1>2, <1>6
  <2> QED
    BY <1>1, <1>2, <1>3, <1>4, <1>5, <1>6 DEF Actualizar, Terminar, bldVars
<1>11. pedido[r].fase # "libre" /\ pedido[r].fase \notin Obras
  BY <1>2, <1>10 DEF Obras
<1>12. CASE contrato[c].vida # "vivo"
  <2>1. pedido' = [pedido EXCEPT ![r] = SinPedido] /\ UNCHANGED <<contrato, activados>>
    BY <1>10, <1>12
  <2>2. Formas' /\ \A d : Igual(d)
    BY <1>10, <2>1, FormasIguales
  <2>3. PedidoInv(r)' /\ SinPedido.fase \notin Obras
    BY <2>1, SinPedidoInv
  <2>4. ~ solape /\ PedidoInv(r) => FALSE
    BY <1>1, <1>2, <1>10, <1>12 DEF PedidoInv
  <2> QED
    BY <1>1, <1>10, <1>11, <2>1, <2>2, <2>3, <2>4, PasoDe
<1>13. CASE contrato[c].vida = "vivo"
  <2>1. PICK n : n = IF p.generar THEN q ELSE SinPedido
    OBVIOUS
  <2>2. /\ contrato' = [contrato EXCEPT ![c].status = s, ![c].hitos = h]
        /\ activados' = [activados EXCEPT ![c] = a] /\ pedido' = [pedido EXCEPT ![r] = n]
    BY <1>10, <1>13, <2>1
  <2>3. contrato' = [contrato EXCEPT ![c] = x]
    BY <1>7, <2>2 DEF ActivacionInv
  <2>4. /\ contrato' = [d \in Contratos |-> contrato'[d]] /\ (c \in Contratos => contrato'[c] = x)
        /\ \A d \in Contratos : d # c => contrato'[d] = contrato[d]
    BY <2>3 DEF ActivacionInv
  <2>5. /\ activados' = [d \in Contratos |-> activados'[d]] /\ (c \in Contratos => activados'[c] = a)
        /\ \A d \in Contratos : d # c => activados'[d] = activados[d]
    BY <2>2 DEF ActivacionInv
  <2>6. c \in Contratos => FormaContrato(x) /\ x.vida = "vivo" /\ x.status = s
    <3>1. c \in Contratos => FormaContrato(contrato[c])
      BY DEF ActivacionInv
    <3> QED
      BY <1>7, <1>13, <3>1 DEF FormaContrato
  <2>7. Formas' /\ \A d \in Contratos : d # c => Igual(d)
    BY <1>10, <2>4, <2>5, <2>6 DEF ActivacionInv, Formas, Igual
  <2>8. pedido'[r] = n
    BY <2>2 DEF InvPropiedad
  <2>9. n.c = c \/ n.fase \notin Obras
    BY <1>9, <2>1 DEF SinPedido, Obras
  <2>10. ASSUME ~ solape, PedidoInv(r), \A d \in Contratos : ContratoInv(d)
         PROVE  PedidoInv(r)' /\ (c \in Contratos => ContratoInv(c)')
    <3>1. /\ c \in Contratos /\ p.k = 1
          /\ p.generar <=> p.status = "VIGENTE" /\ contrato[c].status = "PENDIENTE"
      BY <1>1, <1>2, <1>10, <2>10 DEF PedidoInv
    <3>2. p.generar <=> s = "VIGENTE" /\ contrato[c].status = "PENDIENTE"
      BY <1>3, <3>1
    <3>3. ~ EnObra(c)
      BY <1>11, <2>10, ObraSola DEF Toca
    <3>4. /\ activados[c] \in Nat /\ (ConDeposito(c) => Van(asientos[c], c, activados[c], 0))
          /\ ConDeposito(c) => DeAsientos(asientos[c])
      BY <1>13, <2>10, <3>1, <3>3 DEF ContratoInv
    <3>5. CASE p.generar
      <4>0. n = q /\ a = activados[c] + 1
        BY <1>5, <2>1, <3>2, <3>5
      <4>1. n = q /\ a - 1 = activados[c] /\ a \in Nat
        <5>1. activados[c] \in Nat
          BY <3>4
        <5> QED
          BY <4>0, <5>1
      <4>2. ConDeposito(c) => 1 \in 1 .. Len(Plan(c)) + 1
        BY PlanTrazado, TerminosValen, <3>1 DEF Traza, TerminosBien
      <4>3. PedidoInv(r)'
        BY <1>9, <1>10, <2>4, <2>5, <2>6, <2>8, <3>1, <3>4, <4>1, <4>2 DEF PedidoInv, Obras
      <4>4. EnObra(c)'
        BY <1>9, <2>8, <4>1 DEF EnObra, Obras
      <4>5. ContratoInv(c)'
        BY <1>10, <2>4, <2>5, <2>6, <3>1, <3>4, <4>1, <4>4 DEF ContratoInv
      <4> QED
        BY <4>3, <4>5
    <3>6. CASE ~ p.generar
      <4>1. n = SinPedido /\ a = activados[c]
        BY <1>5, <2>1, <3>2, <3>6
      <4>2. PedidoInv(r)'
        BY <2>2, <4>1, SinPedidoInv
      <4>3. ContratoInv(c)'
        BY <1>10, <2>4, <2>5, <2>6, <3>1, <3>4, <4>1 DEF ContratoInv
      <4> QED
        BY <4>2, <4>3
    <3> QED
      BY <3>5, <3>6
  <2> QED
    BY <1>1, <1>10, <1>11, <2>2, <2>7, <2>9, <2>10, PasoDe
<1>14. QED
  BY <1>12, <1>13

LEMMA LargoDelPlan ==
  ASSUME NEW c \in Contratos PROVE Len(Plan(c)) \in Nat
BY PlanTrazado, TerminosValen DEF Traza, TerminosBien

(* The contract of a request goes as it was, as the plan is not complete.   *)
LEMMA SigueIgual ==
  ASSUME ActivacionInv, InvPropiedad, NEW r \in Requests, NEW c, c = pedido[r].c,
         pedido[r].fase \in {"generar", "armando"},
         NEW q, pedido' = [pedido EXCEPT ![r] = q], q.c = c, q.fase \in {"generar", "armando"},
         UNCHANGED <<contrato, asientos, activados, solape>>, FormaConstructor(constructor'),
         q.k = pedido[r].k,
         ~ solape /\ PedidoInv(r) /\ q.fase = "armando" /\ ConDeposito(c) => EnCadena(r)'
  PROVE  ActivacionInv'
<1>1. Formas' /\ \A d : Igual(d)
  BY DEF ActivacionInv, Formas, Igual
<1>2. pedido'[r] = q
  BY DEF InvPropiedad
<1>3. ASSUME ~ solape, PedidoInv(r), \A d \in Contratos : ContratoInv(d)
      PROVE  PedidoInv(r)' /\ (c \in Contratos => ContratoInv(c)')
  <2>1. c \in Contratos
    BY <1>3 DEF PedidoInv, Obras
  <2>7. contrato[c].vida = "vivo"
    BY <1>3 DEF PedidoInv
  <2>2. ConDeposito(c) =>
          /\ q.k \in 1 .. Len(Plan(c)) + 1 /\ Van(asientos[c], c, activados[c] - 1, q.k - 1)
    BY <1>3 DEF PedidoInv
  <2>3. q.fase = "armando" /\ ConDeposito(c) => EnCadena(r)'
    BY <1>3
  <2>4. PedidoInv(r)'
    BY <1>2, <2>1, <2>2, <2>3, <2>7 DEF PedidoInv, Obras
  <2>5. EnObra(c)'
    BY <1>2 DEF EnObra, Obras
  <2>6. ContratoInv(c)'
    BY <1>3, <2>1, <2>5 DEF ContratoInv
  <2> QED
    BY <2>4, <2>6
<1>4. pedido[r].fase # "libre" /\ \A d \in Contratos : d # c => Igual(d)
  BY <1>1
<1>5. QED
  BY <1>1, <1>3, <1>4, PasoDe

LEMMA GenerarCuenta ==
  ASSUME ActivacionInv, InvPropiedad, NEW r \in Requests, Generar(r)
  PROVE  ActivacionInv'
<1>1. PICK c : c = pedido[r].c
  OBVIOUS
<1>2. PICK k : k = pedido[r].k
  OBVIOUS
<1>3. PICK l : l = Plan(c)[k]
  OBVIOUS
<1>4. /\ pedido[r].fase = "generar" /\ UNCHANGED <<contrato, asientos, activados, solape>>
      /\ \/ /\ k <= Len(Plan(c)) /\ ~ SinMonto(l) /\ Llamar(r, l)
            /\ pedido' = [pedido EXCEPT ![r].fase = "armando"]
         \/ /\ ~ (k <= Len(Plan(c)) /\ ~ SinMonto(l))
            /\ pedido' = [pedido EXCEPT ![r] = SinPedido] /\ UNCHANGED bldVars
  BY <1>1, <1>2, <1>3 DEF Generar, Terminar
<1>5. FormaPedido(pedido[r]) /\ cadena = [s \in Requests |-> cadena[s]]
  BY DEF InvPropiedad
<1>6. CASE k <= Len(Plan(c)) /\ ~ SinMonto(l)
  <2>1. PICK q : q = [pedido[r] EXCEPT !.fase = "armando"]
    OBVIOUS
  <2>2. Llamar(r, l) /\ pedido' = [pedido EXCEPT ![r] = q]
    BY <1>4, <1>6, <2>1 DEF InvPropiedad
  <2>3. q.fase = "armando" /\ q.c = c /\ q.k = k
    BY <1>1, <1>2, <1>5, <2>1 DEF FormaPedido, CamposPedido
  <2>4. pedido'[r] = q
    BY <2>2 DEF InvPropiedad
  <2>5. PICK p : p = [SinCadena EXCEPT !.fase = "previa", !.llamada = l]
    OBVIOUS
  <2>6. \/ cadena' = [cadena EXCEPT ![r] = p] /\ UNCHANGED constructor
        \/ Seguir(r, l, Reset(l), 1, cuentas)
    BY <2>2, <2>5 DEF Llamar
  <2>7. FormaConstructor(constructor')
    <3>1. CASE UNCHANGED constructor
      BY <3>1 DEF ActivacionInv
    <3>2. CASE Seguir(r, l, Reset(l), 1, cuentas)
      BY <3>2, ResetForma, SeguirForma
    <3> QED
      BY <2>6, <3>1, <3>2
  <2>8. ASSUME ~ solape, PedidoInv(r), ConDeposito(c) PROVE EnCadena(r)'
    <3>1. c \in Contratos /\ k \in 1 .. Len(Plan(c)) + 1
      BY <1>1, <1>2, <1>4, <2>8 DEF PedidoInv, Obras
    <3>2. k \in 1 .. Len(Plan(c))
      BY <1>6, <3>1, LargoDelPlan
    <3>3. EntradaBuena(l)
      BY <1>3, <2>8, <3>1, <3>2, PlanBien
    <3>4. CadenaBien(cadena'[r], l, constructor'.partidas)
      <4>1. CASE cadena' = [cadena EXCEPT ![r] = p]
        <5>1. cadena'[r] = p
          BY <1>5, <4>1
        <5>2. p.fase = "previa" /\ p.llamada = l /\ p.i = 1
          BY <2>5 DEF SinCadena
        <5> QED
          BY <5>1, <5>2 DEF CadenaBien
      <4>2. CASE Seguir(r, l, Reset(l), 1, cuentas)
        <5>1. PICK n \in Nat : n = Len(l.partidas)
          BY <3>3 DEF EntradaBuena
        <5>2. 1 \in 1 .. n + 1 /\ SubSeq(l.partidas, 1, 1 - 1) = <<>>
          BY SubSeqEmpty
        <5>3. FormaConstructor(Reset(l)) /\ Reset(l).partidas = SubSeq(l.partidas, 1, 1 - 1)
          BY <5>2, ResetForma
        <5> QED
          BY <1>5, <3>3, <4>2, <5>1, <5>2, <5>3, SeguirBien
      <4> QED
        BY <2>6, <4>1, <4>2
    <3> QED
      BY <1>3, <2>3, <2>4, <3>2, <3>4 DEF EnCadena
  <2> QED
    BY <1>1, <1>2, <1>4, <2>2, <2>3, <2>7, <2>8, SigueIgual
<1>7. CASE ~ (k <= Len(Plan(c)) /\ ~ SinMonto(l))
  <2>1. pedido' = [pedido EXCEPT ![r] = SinPedido] /\ UNCHANGED constructor
    BY <1>4, <1>7 DEF bldVars
  <2>2. Formas' /\ \A d : Igual(d)
    BY <1>4, <2>1, FormasIguales
  <2>3. PedidoInv(r)' /\ SinPedido.fase \notin Obras
    BY <2>1, SinPedidoInv
  <2>4. ASSUME ~ solape, PedidoInv(r), \A d \in Contratos : ContratoInv(d), c \in Contratos
        PROVE  ContratoInv(c)'
    <3>1. CASE ~ ConDeposito(c)
      BY <1>4, <2>4, <3>1 DEF ContratoInv
    <3>2. CASE ConDeposito(c)
      <4>1. k \in 1 .. Len(Plan(c)) + 1 /\ Van(asientos[c], c, activados[c] - 1, k - 1)
        BY <1>1, <1>2, <1>4, <2>4, <3>2 DEF PedidoInv
      <4>2. k <= Len(Plan(c)) => ~ SinMonto(l)
        <5>1. ASSUME k <= Len(Plan(c)) PROVE ~ SinMonto(l)
          <6>1. k \in 1 .. Len(Plan(c))
            BY <2>4, <4>1, <5>1, LargoDelPlan
          <6> QED
            BY <1>3, <2>4, <3>2, <6>1, PlanBien DEF EntradaBuena
        <5> QED
          BY <5>1
      <4>3. k - 1 = Len(Plan(c))
        <5>1. Len(Plan(c)) \in Nat /\ ~ (k <= Len(Plan(c)))
          BY <1>7, <2>4, <4>2, LargoDelPlan
        <5> QED
          BY <4>1, <5>1
      <4>4. activados[c] \in Int
        BY <2>4 DEF ContratoInv
      <4>5. Van(asientos[c], c, activados[c], 0)
        BY <2>4, <3>2, <4>1, <4>3, <4>4, VanTodo
      <4> QED
        BY <1>4, <2>4, <4>5 DEF ContratoInv
    <3> QED
      BY <3>1, <3>2
  <2>5. pedido[r].fase # "libre"
    BY <1>4
  <2> QED
    BY <1>1, <1>4, <2>1, <2>2, <2>3, <2>4, <2>5, PasoDe
<1>8. QED
  BY <1>6, <1>7

(* A call in progress belongs to a request that waits for it.               *)
LEMMA Esperando ==
  ASSUME InvPropiedad, NEW r \in Requests, cadena[r].fase # "libre"
  PROVE  pedido[r].fase = "armando"
BY DEF InvPropiedad

LEMMA BuscarCuentaCuenta ==
  ASSUME ActivacionInv, InvPropiedad, NEW r \in Requests, BuscarCuenta(r)
  PROVE  ActivacionInv'
<1>1. PICK c : c = pedido[r].c
  OBVIOUS
<1>2. PICK l : l = cadena[r].llamada
  OBVIOUS
<1>3. PICK i : i = cadena[r].i
  OBVIOUS
<1>4. PICK codigo : codigo = l.partidas[i].codigo
  OBVIOUS
<1>5. PICK conocidas : conocidas = cuentas \cup {codigo}
  OBVIOUS
<1>6. PICK b : b = IF cadena[r].fase = "previa" THEN Reset(l) ELSE constructor
  OBVIOUS
<1>7. /\ UNCHANGED <<contrato, asientos, activados, solape, pedido>>
      /\ cadena[r].fase \in {"previa", "cuenta"}
      /\ \/ codigo \in Codigos /\ Seguir(r, l, b, i, conocidas)
         \/ codigo \notin Codigos /\ UNCHANGED constructor
  BY <1>2, <1>3, <1>4, <1>5, <1>6 DEF BuscarCuenta, GetAccountByCode, ctrVars
<1>8. FormaConstructor(b)
  BY <1>6, ResetForma DEF ActivacionInv
<1>9. FormaConstructor(constructor')
  <2>1. CASE Seguir(r, l, b, i, conocidas)
    BY <1>8, <2>1, SeguirForma
  <2>2. CASE UNCHANGED constructor
    BY <2>2 DEF ActivacionInv
  <2> QED
    BY <1>7, <2>1, <2>2
<1>10. PICK q : q = pedido[r]
  OBVIOUS
<1>11. pedido' = [pedido EXCEPT ![r] = q]
  BY <1>7, <1>10 DEF InvPropiedad
<1>12. q.fase = "armando" /\ q.c = c
  BY <1>1, <1>7, <1>10, Esperando
<1>13. ASSUME ~ solape, PedidoInv(r), ConDeposito(c) PROVE EnCadena(r)'
  <2>1. /\ c \in Contratos /\ q.k \in 1 .. Len(Plan(c))
        /\ CadenaBien(cadena[r], Plan(c)[q.k], constructor.partidas)
    BY <1>1, <1>10, <1>12, <1>13 DEF PedidoInv, EnCadena, Obras
  <2>2. l = Plan(c)[q.k] /\ EntradaBuena(l)
    BY <1>2, <1>13, <2>1, PlanBien DEF CadenaBien
  <2>3. PICK n \in Nat : n = Len(l.partidas) /\ n > 0
    BY <2>2 DEF EntradaBuena
  <2>4. i \in 1 .. n /\ b.partidas = SubSeq(l.partidas, 1, i - 1)
    <3>1. CASE cadena[r].fase = "previa"
      <4>1. i = 1 /\ b = Reset(l)
        BY <1>3, <1>6, <2>1, <3>1 DEF CadenaBien
      <4>2. i - 1 \in Int /\ i - 1 < 1 /\ 1 \in Int /\ i \in 1 .. n
        BY <2>3, <4>1
      <4>3. SubSeq(l.partidas, 1, i - 1) = <<>>
        BY <4>2, SubSeqEmpty
      <4>4. b.partidas = <<>>
        BY <4>1, ResetForma
      <4> QED
        BY <4>2, <4>3, <4>4
    <3>2. CASE cadena[r].fase = "cuenta"
      <4>1. b = constructor
        BY <1>6, <3>2
      <4> QED
        BY <1>3, <2>1, <2>2, <2>3, <3>2, <4>1 DEF CadenaBien
    <3> QED
      BY <1>7, <3>1, <3>2
  <2>5. codigo \in Codigos
    <3>1. l.partidas \in Seq(DePartida)
      BY <2>2 DEF EntradaBuena
    <3>2. l.partidas[i] \in DePartida
      BY <2>3, <2>4, <3>1
    <3> QED
      BY <1>4, <3>2 DEF DePartida
  <2>6. Seguir(r, l, b, i, conocidas) /\ i \in 1 .. n + 1
    BY <1>7, <2>3, <2>4, <2>5
  <2>7. cadena = [s \in Requests |-> cadena[s]]
    BY DEF InvPropiedad
  <2>8. CadenaBien(cadena'[r], l, constructor'.partidas)
    BY <1>8, <2>2, <2>3, <2>4, <2>6, <2>7, SeguirBien
  <2> QED
    BY <1>1, <1>7, <1>10, <2>1, <2>2, <2>8 DEF EnCadena
<1>14. /\ pedido[r].fase \in {"generar", "armando"}
       /\ q.fase \in {"generar", "armando"} /\ q.k = pedido[r].k
  BY <1>10, <1>12
<1>15. ~ solape /\ PedidoInv(r) /\ q.fase = "armando" /\ ConDeposito(c) => EnCadena(r)'
  BY <1>13
<1>16. UNCHANGED <<contrato, asientos, activados, solape>>
  BY <1>7
<1>17. QED
  BY <1>1, <1>9, <1>11, <1>12, <1>14, <1>15, <1>16, SigueIgual

(* What build() returned is the entry of the plan, and it is stored once.   *)
LEMMA GuardarAsientoCuenta ==
  ASSUME ActivacionInv, InvBalance, InvPropiedad, NEW r \in Requests, GuardarAsiento(r)
  PROVE  ActivacionInv'
<1>1. PICK c : c = pedido[r].c
  OBVIOUS
<1>2. PICK b : b = cadena[r].armado
  OBVIOUS
<1>3. PICK e : e = [tipo |-> b.tipo, estado |-> "PENDIENTE", ajuste |-> b.ajuste,
                    partidas |-> b.partidas]
  OBVIOUS
<1>4. PICK k : k = pedido[r].k
  OBVIOUS
<1>5. PICK q : q = [pedido[r] EXCEPT !.fase = "generar", !.k = k + 1]
  OBVIOUS
<1>6. /\ cadena[r].fase = "armado" /\ UNCHANGED <<contrato, activados, solape, constructor>>
      /\ asientos' = [asientos EXCEPT ![c] = Append(@, e)]
      /\ pedido' = [pedido EXCEPT ![r].fase = "generar", ![r].k = @ + 1]
  BY <1>1, <1>2, <1>3 DEF GuardarAsiento
<1>7. pedido' = [pedido EXCEPT ![r] = q]
  BY <1>4, <1>5, <1>6 DEF InvPropiedad
<1>8. FormaPedido(pedido[r]) /\ pedido[r].fase = "armando"
  BY <1>6, Esperando DEF InvPropiedad
<1>9. q.fase = "generar" /\ q.c = c /\ q.k = k + 1
  BY <1>1, <1>5, <1>8 DEF FormaPedido, CamposPedido
<1>10. /\ asientos' = [d \in Contratos |-> asientos'[d]]
       /\ c \in Contratos => asientos'[c] = Append(asientos[c], e)
       /\ \A d \in Contratos : d # c => asientos'[d] = asientos[d]
  BY <1>6 DEF ActivacionInv
<1>11. Formas' /\ \A d \in Contratos : d # c => Igual(d)
  BY <1>6, <1>10 DEF ActivacionInv, Formas, Igual
<1>12. pedido'[r] = q
  BY <1>7 DEF InvPropiedad
<1>13. ASSUME ~ solape, PedidoInv(r), \A d \in Contratos : ContratoInv(d)
       PROVE  PedidoInv(r)' /\ (c \in Contratos => ContratoInv(c)')
  <2>1. c \in Contratos
    BY <1>1, <1>8, <1>13 DEF PedidoInv, Obras
  <2>2. EnObra(c)' /\ activados[c] \in Nat
    BY <1>9, <1>12, <1>13, <2>1 DEF EnObra, Obras, ContratoInv
  <2>3. contrato[c].vida = "vivo"
    BY <1>1, <1>8, <1>13 DEF PedidoInv
  <2>4. ASSUME ConDeposito(c)
        PROVE  /\ k + 1 \in 1 .. Len(Plan(c)) + 1
               /\ Van(asientos'[c], c, activados[c] - 1, (k + 1) - 1) /\ DeAsientos(asientos'[c])
    <3>1. /\ Van(asientos[c], c, activados[c] - 1, k - 1)
          /\ k \in 1 .. Len(Plan(c)) /\ CadenaBien(cadena[r], Plan(c)[k], constructor.partidas)
      BY <1>1, <1>4, <1>8, <1>13, <2>4 DEF PedidoInv, EnCadena
    <3>2. e.partidas = Plan(c)[k].partidas
      BY <1>2, <1>3, <1>6, <3>1 DEF CadenaBien
    <3>3. EsSecuencia(asientos[c]) /\ DeAsientos(asientos[c])
      BY <1>13, <2>1, <2>4 DEF InvBalance, ContratoInv
    <3>4. Agrega(asientos[c], e, asientos'[c])
      <4>1. Plan(c)[k].partidas \in Seq(DePartida)
        BY <2>1, <2>4, <3>1, PlanBien DEF EntradaBuena
      <4> QED
        BY <1>10, <2>1, <3>2, <4>1 DEF Agrega
    <3>5. Van(asientos'[c], c, activados[c] - 1, k) /\ DeAsientos(asientos'[c])
      <4>1. PICK a : a = activados[c] - 1
        OBVIOUS
      <4> QED
        BY <2>1, <2>4, <3>1, <3>2, <3>3, <3>4, <4>1, VanMas
    <3>6. k + 1 \in 1 .. Len(Plan(c)) + 1 /\ (k + 1) - 1 = k
      BY <2>1, <3>1, LargoDelPlan
    <3> QED
      BY <3>1, <3>5, <3>6
  <2>5. PedidoInv(r)'
    BY <1>6, <1>9, <1>12, <2>1, <2>3, <2>4 DEF PedidoInv, Obras
  <2>6. ContratoInv(c)'
    BY <1>6, <2>1, <2>2, <2>3, <2>4 DEF ContratoInv
  <2> QED
    BY <2>5, <2>6
<1>14. pedido[r].fase # "libre" /\ c = pedido[r].c /\ UNCHANGED solape
  BY <1>1, <1>6, <1>8
<1>15. QED
  BY <1>7, <1>9, <1>11, <1>13, <1>14, PasoDe

(* Only a contract without an amount of deposit is left half made.          *)
LEMMA InterrumpidaCuenta ==
  ASSUME ActivacionInv, InvPropiedad, NEW r \in Requests, GeneracionInterrumpida(r)
  PROVE  ActivacionInv'
<1>1. PICK c : c = pedido[r].c
  OBVIOUS
<1>2. /\ cadena[r].fase = "error" /\ pedido' = [pedido EXCEPT ![r] = SinPedido]
      /\ UNCHANGED <<contrato, asientos, activados, constructor, solape>>
  BY DEF GeneracionInterrumpida, Terminar
<1>3. pedido[r].fase = "armando"
  BY <1>2, Esperando
<1>4. Formas' /\ \A d : Igual(d)
  BY <1>2, FormasIguales
<1>5. PedidoInv(r)' /\ SinPedido.fase \notin Obras
  BY <1>2, SinPedidoInv
<1>6. ASSUME ~ solape, PedidoInv(r), \A d \in Contratos : ContratoInv(d), c \in Contratos
      PROVE  ContratoInv(c)'
  <2>1. ConDeposito(c) => CadenaBien(cadena[r], Plan(c)[pedido[r].k], constructor.partidas)
    BY <1>1, <1>3, <1>6 DEF PedidoInv, EnCadena
  <2>2. ~ ConDeposito(c)
    BY <1>2, <2>1 DEF CadenaBien
  <2> QED
    BY <1>2, <1>6, <2>2 DEF ContratoInv
<1>7. pedido[r].fase # "libre" /\ UNCHANGED solape
  BY <1>2, <1>3
<1>8. QED
  BY <1>1, <1>2, <1>4, <1>5, <1>6, <1>7, PasoDe

LEMMA NextCuenta ==
  ActivacionInv /\ InvBalance /\ InvPropiedad /\ [CNext]_cvars => ActivacionInv'
<1> SUFFICES ASSUME ActivacionInv, InvBalance, InvPropiedad, [CNext]_cvars
             PROVE  ActivacionInv'
  OBVIOUS
<1>1. CASE UNCHANGED cvars
  <2>1. UNCHANGED <<contrato, asientos, activados, constructor, pedido, cadena, solape>>
    BY <1>1 DEF cvars, ctrVars, bldVars
  <2>2. ASSUME NEW c \in Contratos, ContratoInv(c) PROVE ContratoInv(c)'
    BY <2>1, <2>2 DEF ContratoInv, EnObra
  <2>3. ASSUME NEW r \in Requests, PedidoInv(r) PROVE PedidoInv(r)'
    BY <2>1, <2>3 DEF PedidoInv, EnCadena
  <2> QED
    BY <2>1, <2>2, <2>3 DEF ActivacionInv
<1>2. ASSUME NEW r \in Requests, NEW c \in Contratos,
             \/ \E e \in Altas : Create(r, c, e)
             \/ \E dto \in DtosContrato : Update(r, c, dto)
             \/ DeleteWithEntries(r, c)
      PROVE  ActivacionInv'
  BY <1>2, CreateCuenta, UpdateCuenta, DeleteWithEntriesCuenta
<1>3. ASSUME NEW r \in Requests,
             \/ \E p \in Propiedades, dto \in DtosPropiedad : UpdateProperty(r, p, dto)
             \/ TomarPropiedad(r) \/ EscribirPropiedad(r) \/ Actualizar(r) \/ BorrarContrato(r)
      PROVE  ActivacionInv'
  BY <1>3, UpdatePropertyCuenta, EscrituraCuenta, ActualizarCuenta, BorrarContratoCuenta
<1>4. ASSUME NEW r \in Requests,
             Generar(r) \/ BuscarCuenta(r) \/ GuardarAsiento(r) \/ GeneracionInterrumpida(r)
      PROVE  ActivacionInv'
  BY <1>4, GenerarCuenta, BuscarCuentaCuenta, GuardarAsientoCuenta, InterrumpidaCuenta
<1>5. QED
  BY <1>1, <1>2, <1>3, <1>4 DEF CNext

LEMMA InitCuenta == CInit => ActivacionInv
<1> SUFFICES ASSUME CInit PROVE ActivacionInv
  OBVIOUS
<1>1. /\ contrato = [c \in Contratos |-> contrato[c]] /\ asientos = [c \in Contratos |-> asientos[c]]
      /\ activados = [c \in Contratos |-> activados[c]] /\ constructor = NadaArmado
      /\ \A c \in Contratos : contrato[c] = Ausente /\ asientos[c] = <<>> /\ activados[c] = 0
      /\ \A r \in Requests : pedido[r] = SinPedido
  BY DEF CInit, BldInit
<1>2. /\ FormaContrato(Ausente) /\ Ausente.vida = "ausente" /\ FormaConstructor(NadaArmado)
      /\ SinPedido.fase = "libre"
  BY DEF FormaContrato, Ausente, FormaConstructor, NadaArmado, CamposConstructor, SinPedido
<1>3. ASSUME NEW c \in Contratos PROVE ContratoInv(c)
  <2>1. contrato[c].vida # "vivo" /\ asientos[c] = <<>> /\ activados[c] = 0
    BY <1>1, <1>2
  <2>2. DeAsientos(<<>>)
    BY DEF DeAsientos
  <2> QED
    BY <2>1, <2>2 DEF ContratoInv
<1>4. ASSUME NEW r \in Requests PROVE PedidoInv(r)
  BY <1>1, <1>2, PedidoLibre
<1>5. QED
  BY <1>1, <1>2, <1>3, <1>4 DEF ActivacionInv

(* With nothing in progress, what the entries say is what the terms say.    *)
LEMMA CuentaContabiliza == ActivacionInv => ContratoContabilizado
<1> SUFFICES ASSUME ActivacionInv, EnReposo, ~ solape, NEW c \in Contratos,
                    contrato[c].vida = "vivo", Terminos[c].deposito >= 0
             PROVE  LET t == Terminos[c] IN
                    /\ Cargo(c, t.locatario) =
                         activados[c] * (t.meses * t.monto + t.deposito + t.cuotasLocatario * t.honorarios)
                    /\ Credito(c, t.locador) =
                         activados[c] * (t.meses * (t.monto - t.comision) + t.deposito)
                    /\ Cargo(c, t.locador) = activados[c] * t.cuotasLocador * t.honorarios
  BY DEF ContratoContabilizado
<1>1. PICK t : t = Terminos[c]
  OBVIOUS
<1>2. PICK n : n = Len(Plan(c))
  OBVIOUS
<1>3. ConDeposito(c) /\ ContratoInv(c)
  BY DEF ConDeposito, ActivacionInv
<1>4. ~ EnObra(c)
  BY DEF EnObra, EnReposo, Obras
<1>5. PICK a \in Nat : a = activados[c]
  BY <1>3 DEF ContratoInv
<1>6. Van(asientos[c], c, a, 0)
  BY <1>3, <1>4, <1>5 DEF ContratoInv
<1>7. ASSUME NEW g \in Agentes, NEW lado \in Lados
      PROVE  Acumulado(c, g, lado) = a * Previsto(c, g, lado, n)
  <2>1. Suma(asientos[c], g, lado) = a * Previsto(c, g, lado, n) + Previsto(c, g, lado, 0)
    BY <1>2, <1>6 DEF Van
  <2>2. Previsto(c, g, lado, 0) = 0 /\ Previsto(c, g, lado, n) \in Int
    <3>1. n \in 0 .. Len(Plan(c))
      BY <1>2, LargoDelPlan
    <3> QED
      BY <1>3, <3>1, PrevistoVale
  <2>3. Acumulado(c, g, lado) = Suma(asientos[c], g, lado)
    BY DEF Acumulado, Suma
  <2> QED
    BY <2>1, <2>2, <2>3
<1>8. t.locatario \in Agentes /\ t.locador \in Agentes /\ "debe" \in Lados /\ "haber" \in Lados
  BY <1>1, TerminosValen DEF TerminosBien, Lados
<1>9. /\ Previsto(c, t.locatario, "debe", n) =
           t.meses * t.monto + t.deposito + t.cuotasLocatario * t.honorarios
      /\ Previsto(c, t.locador, "haber", n) = t.meses * (t.monto - t.comision) + t.deposito
      /\ Previsto(c, t.locador, "debe", n) = t.cuotasLocador * t.honorarios
  BY <1>1, <1>2, <1>3, PrevistoEnTotal
<1>10. /\ Cargo(c, t.locatario) =
            a * (t.meses * t.monto + t.deposito + t.cuotasLocatario * t.honorarios)
       /\ Credito(c, t.locador) = a * (t.meses * (t.monto - t.comision) + t.deposito)
       /\ Cargo(c, t.locador) = a * (t.cuotasLocador * t.honorarios)
  BY <1>7, <1>8, <1>9 DEF Cargo, Credito
<1>11. a * (t.cuotasLocador * t.honorarios) = a * t.cuotasLocador * t.honorarios
  <2>1. PICK x \in Nat, y \in Nat : x = t.cuotasLocador /\ y = t.honorarios
    BY <1>1, TerminosValen DEF TerminosBien
  <2>2. a * (x * y) = a * x * y
    OBVIOUS
  <2> QED
    BY <2>1, <2>2
<1>12. QED
  BY <1>1, <1>5, <1>10, <1>11

(* Until two requests overlap, the activation of a contract charges the     *)
(* tenant the rents, the deposit and the fees of its terms, and credits the *)
(* owner the rents net of commission and the deposit, once for each time it *)
(* goes from PENDIENTE to VIGENTE, whatever the terms, the accounts already *)
(* in the cache and the requests before (ContractsService.update,           *)
(* AccountingEntryFactory).                                                 *)
THEOREM ContratoSiempreContabilizado == CSpec => []ContratoContabilizado
<1>1. InvBalance /\ InvPropiedad /\ ActivacionInv /\ [CNext]_cvars => ActivacionInv'
  BY NextCuenta
<1>2. QED
  BY <1>1, InitBalance, NextBalance, InitPropiedad, NextPropiedad, InitCuenta,
     CuentaContabiliza, PTL DEF CSpec
=============================================================================
