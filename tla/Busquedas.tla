----------------------------- MODULE Busquedas -----------------------------
(***************************************************************************)
(* What a search finds: PaginationService, the list of contracts, the      *)
(* public list of properties and the bot's.  A word is a sequence of       *)
(* letters [l, signo]; a document is a record with the fields that the     *)
(* searches read.                                                          *)
(***************************************************************************)
EXTENDS Integers, SequencesExt

CONSTANTS
  LimiteBot,   \* documents that the bot's query reads (50)
  MaximoBot    \* documents that it answers (10)

(* accentInsensitive: a vowel typed bare stands for its accented forms too. *)
Variantes(c) ==
  IF c.signo = "" /\ c.l \in {"a", "e", "i", "o", "u"}
  THEN {"", "tilde"} \cup (IF c.l = "u" THEN {"dieresis"} ELSE {})
  ELSE {c.signo}
AccentInsensitive(t) == [i \in DOMAIN t |-> {[l |-> t[i].l, signo |-> s] : s \in Variantes(t[i])}]

Contiene(texto, patron) ==
  \E k \in 0 .. Len(texto) - Len(patron) : \A i \in DOMAIN patron : texto[k + i] \in patron[i]
Encuentra(texto, t) == Contiene(texto, AccentInsensitive(t))

(* Equality under the collation {locale: 'es', strength: 1}.                *)
SinSignos(t) == [i \in DOMAIN t |-> t[i].l]

----------------------------------------------------------------------------
(* PaginationService.paginate.  A criterion is [campos, op, t, n]: the   *)
(* term as a word, or as the number [ceros, num] with its leading zeros.    *)

Compara(op, x, y) ==
  CASE op = "eq" -> x = y [] op = "gt" -> x > y [] op = "lt" -> x < y
    [] op = "gte" -> x >= y [] op = "lte" -> x <= y

(* One field: on a text field of digits, eq asks for Number(term), which    *)
(* the schema turns back to text without its leading zeros.                 *)
CumpleCampo(d, campo, op, t, n) ==
  CASE campo = "titulo"    -> IF op = "contains" THEN Encuentra(d.titulo, t)
                              ELSE SinSignos(d.titulo) = SinSignos(t)
    [] campo = "amenities" -> \E a \in d.amenities : Encuentra(a, t)
    [] campo = "codigo"    -> d.codigo = [ceros |-> 0, num |-> n.num]
    [] campo = "monto"     -> Compara(op, d.monto, n.num)
(* Several fields: any of them, as text or by equality.                     *)
CumpleAlguno(d, campo, op, t, n) ==
  IF campo = "codigo" THEN d.codigo = n
  ELSE IF campo = "monto" THEN d.monto = n.num ELSE CumpleCampo(d, campo, op, t, n)
Cumple(d, c) ==
  IF Len(c.campos) = 1 THEN CumpleCampo(d, c.campos[1], c.op, c.t, c.n)
  ELSE \E i \in DOMAIN c.campos : CumpleAlguno(d, c.campos[i], c.op, c.t, c.n)

(* sort names a field, or none: what the field leaves tied comes in any     *)
(* order, another one in each query.                                        *)
Antes(sort, d, e) ==
  \/ sort = "monto" /\ d.monto < e.monto
  \/ sort = "-monto" /\ d.monto > e.monto
Ordenes(docs, hallados, sort) ==
  {o \in SetToSeqs(hallados) : \A i, j \in DOMAIN o : i < j => ~ Antes(sort, docs[o[j]], docs[o[i]])}

Pagina(s, page, n) == SubSeq(s, page * n + 1, IF (page + 1) * n < Len(s) THEN (page + 1) * n ELSE Len(s))
TotalPages(s, n) == (Len(s) + n - 1) \div n

(* The answers to a query for a page of those that satisfy all the criteria.*)
Paginate(docs, criterios, sort, page, n) ==
  LET hallados == {i \in DOMAIN docs : \A c \in Range(criterios) : Cumple(docs[i], c)}
  IN  {[items |-> Pagina(o, page, n), totalPages |-> TotalPages(o, n), totalItems |-> Len(o)] :
         o \in Ordenes(docs, hallados, sort)}

----------------------------------------------------------------------------
(* ContractsService.findAll.  A contract is [status, direccion, tipo,       *)
(* enTexto, locador, locatario]: enTexto when its propiedad_id is stored as *)
(* text.  A criterion is [campo, t, v].  The properties and the agents are  *)
(* those of the contracts.                                                  *)

(* $expr compares as text what it finds; a plain $in casts to ObjectId.     *)
PorDireccion(c, t) == c.enTexto /\ Encuentra(c.direccion, t)
PorTipo(c, v) == ~ c.enTexto /\ c.tipo = v
PorParte(c, t) == Encuentra(c.locador, t) \/ Encuentra(c.locatario, t)

HayDireccion(cs, t) == \E c \in Range(cs) : Encuentra(c.direccion, t)
HayParte(cs, t) == \E c \in Range(cs) : PorParte(c, t)

(* The criteria that assign baseFilter.partes: the last one stays.          *)
EscribePartes(cs, k) ==
  \/ k.campo = "locatario"
  \/ k.campo = "direccion" /\ HayParte(cs, k.t) /\ ~ HayDireccion(cs, k.t)
Ultimo(ks, P(_)) ==
  {i \in DOMAIN ks : P(ks[i]) /\ \A j \in DOMAIN ks : P(ks[j]) => j <= i}

FindAll(cs, ks) ==
  {n \in DOMAIN cs :
     LET c == cs[n] IN
     /\ \A i \in Ultimo(ks, LAMBDA k : k.campo = "status") : c.status = ks[i].v
     /\ \A i \in Ultimo(ks, LAMBDA k : EscribePartes(cs, k)) :
          IF ks[i].campo = "locatario" THEN Encuentra(c.locatario, ks[i].t) ELSE PorParte(c, ks[i].t)
     /\ \A k \in Range(ks) :
          /\ k.campo = "tipo" => PorTipo(c, k.v)
          /\ k.campo = "direccion" => HayDireccion(cs, k.t) \/ HayParte(cs, k.t)
          /\ k.campo = "direccion" /\ HayDireccion(cs, k.t) => PorDireccion(c, k.t) \/ PorParte(c, k.t)
          /\ k.campo = "locatario" => \E e \in Range(cs) : Encuentra(e.locatario, k.t) \/ Encuentra(e.locador, k.t)}

----------------------------------------------------------------------------
(* PublicPropertiesService.findAllPublic: a property is [status, venta,     *)
(* alquiler, titulo, ciudad, lat, ambientes, precio]; the query has an      *)
(* operation (or "ninguna"), a text (or the empty one) and a range.         *)

ConTexto(p, q) == Contiene(p.titulo, [i \in DOMAIN q |-> {q[i]}])
EnVenta(p) == p.venta
EnAlquiler(p) == p.alquiler

FindAllPublic(ps, o) ==
  {n \in DOMAIN ps :
     LET p == ps[n] IN
     /\ p.status = "DISPONIBLE"
     /\ o.tipo # "" => p.tipo = o.tipo
     /\ p.lat \in o.sur .. o.norte
     /\ CASE o.operacion = "sale" -> EnVenta(p)
          [] o.operacion = "rent" -> EnAlquiler(p)
          [] o.operacion = "ninguna" \/ o.q = <<>> -> EnVenta(p) \/ EnAlquiler(p)
          [] OTHER -> TRUE     \* the $or of the text replaces that of the operation
     /\ ConTexto(p, o.q)}

(* BotService: the city is looked for among the first LimiteBot results.    *)
Publicada(p, operacion) ==
  /\ p.status = "DISPONIBLE" /\ p.precio > 0
  /\ IF operacion = "rent" THEN EnAlquiler(p) ELSE EnVenta(p)
SearchPublishedProperties(ps, o) ==
  LET base == SelectSeq(ps, LAMBDA p : /\ Publicada(p, o.operacion)
                                       /\ o.tipo # "" => p.tipo = o.tipo
                                       /\ p.ambientes >= o.ambientes
                                       /\ o.maximo # 0 => p.precio <= o.maximo)
      ciudad == SelectSeq(Pagina(base, 0, LimiteBot), LAMBDA p : ConTexto([titulo |-> p.ciudad], o.q))
  IN  Pagina(ciudad, 0, MaximoBot)

(* How many properties each city offers, for rent and for sale.             *)
GetAvailableCities(ps) ==
  LET ciudades == {p.ciudad : p \in {e \in Range(ps) : Publicada(e, "rent") \/ Publicada(e, "sale")}}
      cuantas(c, o) == Len(SelectSeq(ps, LAMBDA p : p.ciudad = c /\ Publicada(p, o)))
  IN  {[city |-> c, rent |-> cuantas(c, "rent"), sale |-> cuantas(c, "sale")] : c \in ciudades}

(* findClientByJid: an agent with a phone that contains the number, with or *)
(* without the 549 of the jid; a jid and a phone are sequences of digits.   *)
NormalizeJid(jid) ==
  {jid} \cup (IF SubSeq(jid, 1, 3) = <<5, 4, 9>> THEN {SubSeq(jid, 4, Len(jid))} ELSE {})
FindClientByJid(agentes, jid) ==
  LET hallados == {i \in DOMAIN agentes :
                     \E t \in agentes[i].telefonos, n \in NormalizeJid(jid) :
                       Contiene(t, [k \in DOMAIN n |-> {n[k]}])}
  IN  IF hallados = {} THEN {} ELSE {CHOOSE i \in hallados : \A j \in hallados : i <= j}

(* validateIdentity: the client with a document of the digits typed, which  *)
(* may lack the zero that old documents of seven digits are stored with.    *)
NormalizeDni(dni) == IF Len(dni) = 7 THEN <<0>> \o dni ELSE dni
BuscarPorDni(agentes, dni) ==
  LET n == NormalizeDni(dni)
      variantes == {n} \cup (IF Len(n) = 8 /\ n[1] = 0 THEN {Tail(n)} ELSE {})
      hallados == {i \in DOMAIN agentes : agentes[i].documentos \cap variantes # {}}
  IN  IF hallados = {} THEN {} ELSE {CHOOSE i \in hallados : \A j \in hallados : i <= j}

----------------------------------------------------------------------------
(* Properties.                                                              *)

(* What a criterion asks for, to the one who typed it.                      *)
LoPedido(d, c) ==
  \E campo \in Range(c.campos) :
    CASE campo = "titulo" /\ c.op = "contains" ->
           Contiene(SinSignos(d.titulo), [i \in DOMAIN c.t |-> {c.t[i].l}])
      [] campo = "titulo" -> SinSignos(d.titulo) = SinSignos(c.t)
      [] campo = "codigo" -> d.codigo = c.n
      [] campo = "monto"  -> Compara(c.op, d.monto, c.n.num)
      [] OTHER -> \E a \in d.amenities : Contiene(SinSignos(a), [i \in DOMAIN c.t |-> {c.t[i].l}])

(* The pages of a search, turned in order, have as many places as documents *)
(* were asked for, when the terms are typed without accents or leading      *)
(* zeros, and show nothing else; a document that the sort field tells from  *)
(* all the others is shown once, in its place.  Those it leaves tied may    *)
(* come twice, or never, when they share two pages.                         *)
PaginasFieles(docs, criterios, sort, n) ==
  LET pedidos == {i \in DOMAIN docs : \A c \in Range(criterios) : LoPedido(docs[i], c)}
      antes(i) == {j \in pedidos : Antes(sort, docs[j], docs[i])}
      distinto(i) == \A j \in pedidos \ {i} : Antes(sort, docs[i], docs[j]) \/ j \in antes(i)
      lugar(i) == Cardinality(antes(i)) + 1
  IN  \A k \in 0 .. Len(docs) : \A r \in Paginate(docs, criterios, sort, k, n) :
        /\ r.totalItems = Cardinality(pedidos) /\ r.totalPages * n \in r.totalItems .. r.totalItems + n - 1
        /\ Len(r.items) = Cardinality(1 .. n \cap 1 .. r.totalItems - k * n)
        /\ Range(r.items) \subseteq pedidos /\ IsInjective(r.items)
        /\ \A i \in pedidos : distinto(i) =>
             /\ i \in Range(r.items) <=> lugar(i) \in k * n + 1 .. (k + 1) * n
             /\ i \in Range(r.items) => r.items[lugar(i) - k * n] = i

(* A list of contracts has those that answer to all the criteria: none is   *)
(* missed but by the form in which its propiedad_id is stored (text for the *)
(* address, ObjectId for the type), and none is added unless two criteria   *)
(* set the same condition.                                                  *)
PideContrato(c, k) ==
  CASE k.campo = "status" -> c.status = k.v
    [] k.campo = "tipo" -> c.tipo = k.v
    [] k.campo = "locatario" -> Encuentra(c.locatario, k.t)
    [] OTHER -> Encuentra(c.direccion, k.t) \/ PorParte(c, k.t)
ContratosHallados(cs, ks) ==
  LET repetido(P(_)) == \E i, j \in DOMAIN ks : i # j /\ P(ks[i]) /\ P(ks[j])
      pedidos == {n \in DOMAIN cs : \A k \in Range(ks) : PideContrato(cs[n], k)}
      hallables == {n \in pedidos : \A k \in Range(ks) :
                      /\ k.campo = "direccion" => cs[n].enTexto \/ PorParte(cs[n], k.t)
                      /\ k.campo = "tipo" => ~ cs[n].enTexto}
      status(k) == k.campo = "status"
      partes(k) == EscribePartes(cs, k)
  IN  ~ repetido(status) =>
        /\ hallables \subseteq FindAll(cs, ks)
        /\ ~ repetido(partes) => FindAll(cs, ks) \subseteq pedidos

(* Who writes from a phone that only one agent has is that agent, whichever *)
(* of the two has the prefix: the phone of the agent, or the jid.           *)
ClienteHallado(agentes, jid) ==
  LET sinPrefijo(n) == IF SubSeq(n, 1, 3) = <<5, 4, 9>> THEN SubSeq(n, 4, Len(n)) ELSE n
      suyos == {i \in DOMAIN agentes : \E t \in agentes[i].telefonos : sinPrefijo(t) = sinPrefijo(jid)}
  IN  Cardinality(suyos) = 1 => FindClientByJid(agentes, jid) = suyos

(* Who types the document of a client, with or without the zero that it may *)
(* start with, is the first client with that number, and nobody else is.    *)
IdentidadHallada(agentes, dni) ==
  LET numero(d) == IF Len(d) = 8 /\ d[1] = 0 THEN Tail(d) ELSE d
      suyos == {i \in DOMAIN agentes : \E d \in agentes[i].documentos : numero(d) = numero(dni)}
      hallado == BuscarPorDni(agentes, dni)
  IN  /\ hallado \subseteq suyos
      /\ suyos # {} => \E i \in hallado : \A j \in suyos : i <= j

(* What is shown to the public is on offer, for the operation asked for,    *)
(* and a city that the bot announces has the properties it counts, up to    *)
(* its limits.                                                              *)
OfertaReal(ps, o) ==
  /\ o.operacion # "otra" =>
       \A n \in FindAllPublic(ps, o) :
         /\ ps[n].status = "DISPONIBLE"
         /\ o.operacion = "sale" => ps[n].venta
         /\ o.operacion = "rent" => ps[n].alquiler
         /\ ps[n].venta \/ ps[n].alquiler
  /\ \A c \in GetAvailableCities(ps) : \A op \in {"rent", "sale"} :
       LET cuantas == IF op = "rent" THEN c.rent ELSE c.sale
           halladas == SearchPublishedProperties(ps, [operacion |-> op, tipo |-> "", ambientes |-> 0,
                                                      maximo |-> 0, q |-> c.city])
       IN  Len(SelectSeq(ps, LAMBDA p : Publicada(p, op))) <= LimiteBot =>
             Len(halladas) >= (IF cuantas < MaximoBot THEN cuantas ELSE MaximoBot)
=============================================================================
