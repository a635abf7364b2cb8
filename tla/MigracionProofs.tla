--------------------------- MODULE MigracionProofs ---------------------------
(***************************************************************************)
(* Proofs about the migration: of the master data, for every legacy        *)
(* database, every catalogue and every number of scripts, deaths and       *)
(* failed inserts; of the accounting entries, for every set of contracts,  *)
(* of requests and of batches, and every number of restarts; and of the    *)
(* accounting data scripts, for all the legacy accounts, payments and      *)
(* receipts, and every order of the scripts and of the linker's tasks.     *)
(***************************************************************************)
EXTENDS MigracionMaestros, MigracionAsientos, MigracionPagos,
        SequenceTheorems, Sumas, TLAPS

----------------------------------------------------------------------------
(* The inductive invariant.                                                 *)

(* A document is what the script transforms its legacy one into, whatever   *)
(* people have completed since.                                             *)
Ubicado(l) == Ubicar(l.prov, l.loc)
EsAgente(a, d) ==
  /\ d = [fiscal |-> d.fiscal, ubicacion |-> Ubicado(LAgentes[a]), editado |-> d.editado]
  /\ d.fiscal \in IdentificadoresFiscales(a) /\ SeUbica(LAgentes[a])
EsPropiedad(p, d) == d.ubicacion = Ubicado(LPropiedades[p]) /\ SeUbica(LPropiedades[p])

CamposContrato == {"propiedad", "partes", "status", "ubicacion", "inventory_version_id",
                   "fotos_inventario", "editado"}
EsContrato(d) ==
  /\ d = [x \in CamposContrato |-> d[x]]
  /\ "propiedades" \in hist.vaciadas \/ d.propiedad \in DOMAIN propiedades
  /\ d.inventory_version_id # Nulo =>
       /\ d.inventory_version_id \in DOMAIN versiones
       /\ versiones[d.inventory_version_id] = d.propiedad

Colecciones ==
  /\ \A a \in DOMAIN agentes : EsAgente(a, agentes[a])
  /\ \A p \in DOMAIN propiedades : EsPropiedad(p, propiedades[p])
  /\ \A c \in DOMAIN contratos : EsContrato(contratos[c])

(* Versions are numbered as they are inserted.                              *)
Ultima == Cardinality(DOMAIN versiones)
Numeradas == Ultima \in Nat /\ DOMAIN versiones = 1 .. Ultima

(* What the script in progress has left to insert.                          *)
CamposProceso == {"fase", "pend", "omitidos", "errores", "paso", "prop"}
Pendiente ==
  /\ proceso.fase = "agentes" => \A a \in DOMAIN proceso.pend : EsAgente(a, proceso.pend[a])
  /\ proceso.fase = "propiedades" => \A p \in DOMAIN proceso.pend : EsPropiedad(p, proceso.pend[p])
  /\ proceso.fase = "contratos" => \A c \in DOMAIN proceso.pend : EsContrato(proceso.pend[c])

(* The property whose inventory is being migrated, and how far it is.       *)
Inventariando ==
  /\ proceso.paso \in {"leer", "version", "apuntar", "contratos"}
  /\ proceso.paso = "leer" <=> proceso.prop = Nulo
  /\ proceso.prop # Nulo => /\ proceso.fase = "inventarios"
                            /\ proceso.prop \in DOMAIN proceso.pend /\ proceso.prop \in DOMAIN inventarios
  /\ proceso.paso \in {"apuntar", "contratos"} =>
       Ultima \in DOMAIN versiones /\ versiones[Ultima] = proceso.prop
  /\ proceso.paso = "contratos" => inventarios[proceso.prop] = Ultima

Formas ==
  /\ proceso = [x \in CamposProceso |-> proceso[x]]
  /\ proceso.fase \in Fases \cup {"ninguna"}
  /\ hist = [x \in {"perdidos", "agentesCompletos", "vaciadas", "cortados"} |-> hist[x]]
  /\ hist.agentesCompletos \in BOOLEAN

(* An inventory points at its version, was cut short or is in progress.     *)
Apuntado(p) == inventarios[p] \in DOMAIN versiones /\ versiones[inventarios[p]] = p
Inventarios ==
  \A p \in DOMAIN inventarios :
    Apuntado(p) \/ p \in hist.cortados \/ (p = proceso.prop /\ p # Nulo)

(* A legacy agent is in V3, or one that holds its fiscal identifier.        *)
Cubierto(a) ==
  a \in DOMAIN agentes \/ \E b \in DOMAIN agentes : agentes[b].fiscal \in IdentificadoresFiscales(a)
Repaso ==
  /\ proceso.fase = "agentes" =>
       \A a \in DOMAIN LAgentes :
         Cubierto(a) \/ a \in proceso.omitidos \cup proceso.errores \cup DOMAIN proceso.pend
  /\ hist.agentesCompletos => \A a \in DOMAIN LAgentes : Cubierto(a) \/ a \in hist.perdidos

MInv ==
  /\ Formas /\ Colecciones /\ Numeradas /\ Pendiente /\ Inventariando /\ Inventarios /\ Repaso

----------------------------------------------------------------------------
(* Helpers.                                                                 *)

LEMMA Vacia ==
  DOMAIN <<>> = {}
OBVIOUS

(* The catalogue never changes, nor then where a document is located.       *)
LEMMA MismaUbicacion ==
  ASSUME catalogo' = catalogo
  PROVE  /\ \A a, d : EsAgente(a, d)' <=> EsAgente(a, d)
         /\ \A p, d : EsPropiedad(p, d)' <=> EsPropiedad(p, d)
<1>1. ASSUME NEW prov, NEW loc
      PROVE  Ubicar(prov, loc)' = Ubicar(prov, loc)
  BY DEF Ubicar
<1>2. ASSUME NEW a, NEW d
      PROVE  EsAgente(a, d)' <=> EsAgente(a, d)
  BY <1>1 DEF EsAgente, Ubicado, SeUbica
<1>3. ASSUME NEW p, NEW d
      PROVE  EsPropiedad(p, d)' <=> EsPropiedad(p, d)
  BY <1>1 DEF EsPropiedad, Ubicado, SeUbica
<1>4. QED
  BY <1>2, <1>3

(* A contract keeps its references while its property and its version stay. *)
LEMMA MismoContrato ==
  ASSUME NEW d, EsContrato(d),
         DOMAIN propiedades \subseteq DOMAIN propiedades' \/ "propiedades" \in hist'.vaciadas,
         hist.vaciadas \subseteq hist'.vaciadas,
         DOMAIN versiones \subseteq DOMAIN versiones',
         \A v \in DOMAIN versiones : versiones'[v] = versiones[v]
  PROVE  EsContrato(d)'
BY DEF EsContrato

(* The default locality of a province is of that province.                  *)
LEMMA UbicarCompleta ==
  ASSUME NEW l, SeUbica(l), Completa(l)
  PROVE  ProvinciaDe[Ubicado(l).loc] = Ubicado(l).prov
<1> DEFINE s == IF l.prov = Nulo THEN Global ELSE l.prov
           c0 == IF l.loc = Nulo THEN LocalidadDe[Global] ELSE l.loc
           c == IF s \in catalogo.provincias /\ c0 \notin catalogo.localidades /\ s \in DOMAIN LocalidadDe
                THEN LocalidadDe[s] ELSE c0
           g == LocalidadDe[Global]
<1>1. ProvinciaDe[g] = Global /\ \A v \in DOMAIN LocalidadDe : ProvinciaDe[LocalidadDe[v]] = v
  BY LegacyAssumption
<1>2. ProvinciaDe[c0] = s
  BY <1>1 DEF Completa
<1>3. ProvinciaDe[c] = s
  BY <1>1, <1>2
<1>4. Ubicado(l) = IF s \in catalogo.provincias /\ c \in catalogo.localidades THEN [prov |-> s, loc |-> c]
                   ELSE IF Global \in catalogo.provincias /\ g \in catalogo.localidades
                        THEN [prov |-> Global, loc |-> g]
                   ELSE [prov |-> Nulo, loc |-> Nulo]
  BY DEF Ubicado, Ubicar
<1>5. Ubicado(l).prov # Nulo
  BY DEF SeUbica, Ubicado
<1> HIDE DEF s, c0, c, g
<1>6. Ubicado(l) \in {[prov |-> s, loc |-> c], [prov |-> Global, loc |-> g]}
  BY <1>4, <1>5
<1>7. QED
  BY <1>1, <1>3, <1>6

LEMMA MInvImplica == MInv => MaestrosMigrados /\ PerdidasExplicadas
<1> SUFFICES ASSUME MInv PROVE MaestrosMigrados /\ PerdidasExplicadas
  OBVIOUS
<1>1. ReferenciasMigradas
  BY DEF MInv, Colecciones, EsContrato, ReferenciasMigradas
<1>2. UbicacionCoherente
  BY UbicarCompleta DEF MInv, Colecciones, EsAgente, EsPropiedad, UbicacionCoherente
<1>3. InventarioConVersion
  <2>1. \A v \in DOMAIN versiones : v # Nulo
    BY LegacyAssumption DEF MInv, Numeradas
  <2>2. QED
    BY <2>1 DEF MInv, Inventarios, Apuntado, InventarioConVersion
<1>4. PerdidasExplicadas
  BY DEF MInv, Repaso, Cubierto, PerdidasExplicadas
<1>5. QED
  BY <1>1, <1>2, <1>3, <1>4 DEF MaestrosMigrados

LEMMA MInitMInv == MInit => MInv
<1> SUFFICES ASSUME MInit PROVE MInv
  OBVIOUS
<1>1. Cardinality({}) = 0 /\ 1 .. 0 = {}
  BY FS_EmptySet
<1>2. Formas
  BY DEF MInit, Formas, Inactivo, CamposProceso
<1>3. Colecciones /\ Inventarios
  BY DEF MInit, Colecciones, Inventarios
<1>4. Numeradas
  BY <1>1, Vacia DEF MInit, Numeradas, Ultima
<1>5. Pendiente /\ Inventariando /\ Repaso
  BY DEF MInit, Pendiente, Inventariando, Repaso, Inactivo
<1>6. QED
  BY <1>2, <1>3, <1>4, <1>5 DEF MInv

(* The collections hold what they should if each document of theirs was     *)
(* there, or is what a script transforms, and no reference is lost.         *)
LEMMA ColeccionesSiguen ==
  ASSUME catalogo' = catalogo,
         \A a \in DOMAIN agentes' : EsAgente(a, agentes'[a]),
         \A p \in DOMAIN propiedades' : EsPropiedad(p, propiedades'[p]),
         \A c \in DOMAIN contratos' : EsContrato(contratos'[c]),
         DOMAIN propiedades \subseteq DOMAIN propiedades' \/ "propiedades" \in hist'.vaciadas,
         hist.vaciadas \subseteq hist'.vaciadas,
         DOMAIN versiones \subseteq DOMAIN versiones',
         \A v \in DOMAIN versiones : versiones'[v] = versiones[v]
  PROVE  Colecciones'
<1>1. ASSUME NEW a \in DOMAIN agentes'
      PROVE  EsAgente(a, agentes[a])'
  <2>1. PICK d : d = agentes[a]'
    OBVIOUS
  <2>2. EsAgente(a, d)'
    BY <1>1, <2>1, MismaUbicacion
  <2>3. QED
    BY <2>1, <2>2 DEF EsAgente
<1>2. ASSUME NEW p \in DOMAIN propiedades'
      PROVE  EsPropiedad(p, propiedades[p])'
  <2>1. PICK d : d = propiedades[p]'
    OBVIOUS
  <2>2. EsPropiedad(p, d)'
    BY <1>2, <2>1, MismaUbicacion
  <2>3. QED
    BY <2>1, <2>2 DEF EsPropiedad
<1>3. ASSUME NEW c \in DOMAIN contratos'
      PROVE  EsContrato(contratos[c])'
  <2>1. PICK d : d = contratos[c]'
    OBVIOUS
  <2>2. EsContrato(d)
    BY <1>3, <2>1
  <2>3. EsContrato(d)'
    BY <2>2, MismoContrato
  <2>4. QED
    BY <2>1, <2>3 DEF EsContrato
<1>4. QED
  BY <1>1, <1>2, <1>3 DEF Colecciones

----------------------------------------------------------------------------
(* The steps that write no document: a script starts, ends, dies, skips a   *)
(* document or a property that fails.                                       *)
LEMMA MismasColecciones ==
  ASSUME MInv, UNCHANGED <<catalogo, agentes, propiedades, contratos, versiones>>,
         hist'.vaciadas = hist.vaciadas
  PROVE  /\ Colecciones' /\ Numeradas' /\ Ultima' = Ultima
         /\ \A a : Cubierto(a)' <=> Cubierto(a)
         /\ \A a, d : EsAgente(a, d)' <=> EsAgente(a, d)
         /\ \A p, d : EsPropiedad(p, d)' <=> EsPropiedad(p, d)
         /\ \A d : EsContrato(d)' <=> EsContrato(d)
<1>1. /\ \A a, d : EsAgente(a, d)' <=> EsAgente(a, d)
      /\ \A p, d : EsPropiedad(p, d)' <=> EsPropiedad(p, d)
  BY MismaUbicacion
<1>2. \A d : EsContrato(d)' <=> EsContrato(d)
  BY DEF EsContrato
<1>3. \A a : Cubierto(a)' <=> Cubierto(a)
  BY DEF Cubierto
<1>4. Numeradas' /\ Ultima' = Ultima
  BY DEF MInv, Numeradas, Ultima
<1>5. Colecciones'
  BY ColeccionesSiguen DEF MInv, Colecciones
<1>6. QED
  BY <1>1, <1>2, <1>3, <1>4, <1>5

(* A script has transformed its documents and starts.                       *)
LEMMA DocumentosTransformados ==
  ASSUME NEW fase \in Fases, NEW pend \in Documentos(fase, Transformables(fase))
  PROVE  /\ DOMAIN pend = Transformables(fase)
         /\ fase = "agentes" => \A a \in DOMAIN pend : EsAgente(a, pend[a])
         /\ fase = "propiedades" => \A p \in DOMAIN pend : EsPropiedad(p, pend[p])
         /\ fase = "contratos" => \A c \in DOMAIN pend : EsContrato(pend[c])
<1>1. CASE fase = "agentes"
  <2>1. DOMAIN pend = Transformables(fase)
        /\ \A a \in DOMAIN pend : \E x \in IdentificadoresFiscales(a) : pend[a] = AgenteV3(a, x)
    BY <1>1 DEF Documentos
  <2>2. \A a \in Transformables(fase) : SeUbica(LAgentes[a])
    BY <1>1 DEF Transformables
  <2>3. ASSUME NEW a, SeUbica(LAgentes[a]), NEW x \in IdentificadoresFiscales(a)
        PROVE  EsAgente(a, AgenteV3(a, x))
    BY <2>3 DEF EsAgente, AgenteV3, Ubicado
  <2>4. QED
    BY <1>1, <2>1, <2>2, <2>3
<1>2. CASE fase = "propiedades"
  <2>1. pend = [p \in Transformables(fase) |-> PropiedadV3(p)]
    BY <1>2 DEF Documentos
  <2>2. \A p \in Transformables(fase) : SeUbica(LPropiedades[p])
    BY <1>2 DEF Transformables
  <2>3. ASSUME NEW p, SeUbica(LPropiedades[p])
        PROVE  EsPropiedad(p, PropiedadV3(p))
    BY <2>3 DEF EsPropiedad, PropiedadV3, Ubicado
  <2>4. QED
    BY <1>2, <2>1, <2>2, <2>3
<1>3. CASE fase = "contratos"
  <2>1. pend = [c \in Transformables(fase) |-> ContratoV3(c)]
    BY <1>3 DEF Documentos
  <2>2. \A c \in Transformables(fase) : LContratos[c].propiedad \in DOMAIN propiedades
    BY <1>3 DEF Transformables, AdmiteContrato
  <2>3. ASSUME NEW c, LContratos[c].propiedad \in DOMAIN propiedades
        PROVE  EsContrato(ContratoV3(c))
    BY <2>3 DEF EsContrato, ContratoV3, CamposContrato
  <2>4. QED
    BY <1>3, <2>1, <2>2, <2>3
<1>4. CASE fase = "inventarios"
  BY <1>4 DEF Documentos
<1>5. QED
  BY <1>1, <1>2, <1>3, <1>4 DEF Fases

LEMMA ComenzarDe ==
  ASSUME NEW fase \in Fases, NEW pend, Comenzar(fase, pend)
  PROVE  /\ proceso' = [x \in CamposProceso |-> proceso'[x]]
         /\ proceso'.fase = fase /\ proceso'.pend = pend /\ proceso'.errores = {}
         /\ proceso'.omitidos = LegacyDe(fase) \ DOMAIN pend
         /\ proceso'.paso = "leer" /\ proceso'.prop = Nulo
BY DEF Comenzar, Inactivo, CamposProceso

(* Nothing changes but the counters.                                        *)
LEMMA MismoProceso ==
  ASSUME MInv,
         UNCHANGED <<catalogo, agentes, propiedades, contratos, inventarios, versiones, proceso, hist>>
  PROVE  Formas' /\ Pendiente' /\ Inventariando' /\ Inventarios' /\ Repaso'
<1>1. Formas' /\ Inventarios' /\ Repaso'
  BY DEF MInv, Formas, Inventarios, Apuntado, Repaso, Cubierto
<1>2. Inventariando'
  BY DEF MInv, Inventariando, Ultima
<1>3. Pendiente'
  <2>1. PICK pend : pend = proceso.pend
    OBVIOUS
  <2>2. /\ proceso.fase = "agentes" => \A a \in DOMAIN pend : EsAgente(a, pend[a])'
        /\ proceso.fase = "propiedades" => \A p \in DOMAIN pend : EsPropiedad(p, pend[p])'
        /\ proceso.fase = "contratos" => \A c \in DOMAIN pend : EsContrato(pend[c])'
    BY <2>1, MismasColecciones DEF MInv, Pendiente
  <2>3. QED
    BY <2>1, <2>2 DEF Pendiente, EsAgente, EsPropiedad, EsContrato
<1>4. QED
  BY <1>1, <1>2, <1>3

LEMMA EmpezarMInv ==
  ASSUME MInv, NEW fase \in Fases, Empezar(fase)
  PROVE  MInv'
<1>1. PICK pend \in Documentos(fase, Transformables(fase)) : Comenzar(fase, pend)
  BY DEF Empezar
<1>2. /\ proceso.fase = "ninguna" /\ hist' = hist /\ inventarios' = inventarios
      /\ UNCHANGED <<catalogo, agentes, propiedades, contratos, versiones>>
  BY DEF Empezar
<1>3. /\ proceso' = [x \in CamposProceso |-> proceso'[x]]
      /\ proceso'.fase = fase /\ proceso'.pend = pend
      /\ proceso'.omitidos = LegacyDe(fase) \ DOMAIN pend
      /\ proceso'.paso = "leer" /\ proceso'.prop = Nulo
  BY <1>1, ComenzarDe
<1>4. Colecciones' /\ Numeradas'
  BY <1>2, MismasColecciones
<1>5. Formas'
  BY <1>2, <1>3 DEF MInv, Formas
<1>6. Pendiente'
  <2>1. /\ fase = "agentes" => \A a \in DOMAIN pend : EsAgente(a, pend[a])'
        /\ fase = "propiedades" => \A p \in DOMAIN pend : EsPropiedad(p, pend[p])'
        /\ fase = "contratos" => \A c \in DOMAIN pend : EsContrato(pend[c])'
    BY <1>1, <1>2, DocumentosTransformados, MismasColecciones
  <2>2. QED
    BY <1>3, <2>1 DEF Pendiente, EsAgente, EsPropiedad, EsContrato
<1>7. Inventariando'
  BY <1>3 DEF Inventariando
<1>8. Inventarios'
  BY <1>2, <1>3 DEF MInv, Inventariando, Inventarios, Apuntado
<1>9. Repaso'
  <2>1. fase = "agentes" => LegacyDe(fase) = DOMAIN LAgentes
    BY DEF LegacyDe
  <2>2. QED
    BY <1>2, <1>3, <2>1, MismasColecciones DEF MInv, Repaso
<1>10. QED
  BY <1>4, <1>5, <1>6, <1>7, <1>8, <1>9 DEF MInv

(* --truncate loses what was there, and says so.                            *)
LEMMA EmpezarVaciandoMInv ==
  ASSUME MInv, NEW fase \in Fases, EmpezarVaciando(fase)
  PROVE  MInv'
<1>1. PICK pend \in Documentos(fase, Transformables(fase)) : Comenzar(fase, pend)
  BY DEF EmpezarVaciando
<1>2. /\ proceso.fase = "ninguna" /\ inventarios' = inventarios
      /\ catalogo' = catalogo /\ versiones' = versiones
      /\ agentes' = IF fase = "agentes" THEN <<>> ELSE agentes
      /\ propiedades' = IF fase = "propiedades" THEN <<>> ELSE propiedades
      /\ contratos' = IF fase = "contratos" THEN <<>> ELSE contratos
  BY DEF EmpezarVaciando
<1>3. /\ proceso' = [x \in CamposProceso |-> proceso'[x]]
      /\ proceso'.fase = fase /\ proceso'.pend = pend
      /\ proceso'.omitidos = LegacyDe(fase) \ DOMAIN pend
      /\ proceso'.paso = "leer" /\ proceso'.prop = Nulo
  BY <1>1, ComenzarDe
<1>4. /\ hist' = [x \in {"perdidos", "agentesCompletos", "vaciadas", "cortados"} |-> hist'[x]]
      /\ hist'.vaciadas = hist.vaciadas \cup {fase} /\ hist'.perdidos = hist.perdidos
      /\ hist'.agentesCompletos = (hist.agentesCompletos /\ fase # "agentes")
      /\ hist'.cortados = hist.cortados
  BY DEF EmpezarVaciando, MInv, Formas
<1>5. /\ DOMAIN propiedades \subseteq DOMAIN propiedades' \/ "propiedades" \in hist'.vaciadas
      /\ hist.vaciadas \subseteq hist'.vaciadas
  BY <1>2, <1>4
<1>6. Colecciones' /\ Numeradas'
  <2>1. \A a \in DOMAIN agentes' : EsAgente(a, agentes'[a])
    BY <1>2, Vacia DEF MInv, Colecciones
  <2>2. \A p \in DOMAIN propiedades' : EsPropiedad(p, propiedades'[p])
    BY <1>2, Vacia DEF MInv, Colecciones
  <2>3. \A c \in DOMAIN contratos' : EsContrato(contratos'[c])
    BY <1>2, Vacia DEF MInv, Colecciones
  <2>4. Colecciones'
    BY <1>2, <1>5, <2>1, <2>2, <2>3, ColeccionesSiguen
  <2>5. Numeradas'
    BY <1>2 DEF MInv, Numeradas, Ultima
  <2>6. QED
    BY <2>4, <2>5
<1>7. Formas'
  BY <1>3, <1>4 DEF MInv, Formas
<1>8. Pendiente'
  <2>1. /\ fase = "agentes" => \A a \in DOMAIN pend : EsAgente(a, pend[a])'
        /\ fase = "propiedades" => \A p \in DOMAIN pend : EsPropiedad(p, pend[p])'
    BY <1>1, <1>2, DocumentosTransformados, MismaUbicacion
  <2>2. fase = "contratos" => \A c \in DOMAIN pend : EsContrato(pend[c])'
    <3>1. SUFFICES ASSUME fase = "contratos", NEW c \in DOMAIN pend
                   PROVE  EsContrato(pend[c])'
      OBVIOUS
    <3>2. EsContrato(pend[c])
      BY <1>1, <3>1, DocumentosTransformados
    <3>3. QED
      BY <1>2, <1>5, <3>2, MismoContrato
  <2>3. QED
    BY <1>3, <2>1, <2>2 DEF Pendiente, EsAgente, EsPropiedad, EsContrato
<1>9. Inventariando'
  BY <1>3 DEF Inventariando
<1>10. Inventarios'
  BY <1>2, <1>3, <1>4 DEF MInv, Inventariando, Inventarios, Apuntado
<1>11. Repaso'
  <2>1. fase = "agentes" => LegacyDe(fase) = DOMAIN LAgentes
    BY DEF LegacyDe
  <2>2. fase # "agentes" => \A a : Cubierto(a)' <=> Cubierto(a)
    BY <1>2 DEF Cubierto
  <2>3. QED
    BY <1>3, <1>4, <2>1, <2>2 DEF MInv, Repaso
<1>12. QED
  BY <1>6, <1>7, <1>8, <1>9, <1>10, <1>11 DEF MInv

LEMMA MigratePropertiesMInv ==
  ASSUME MInv, NEW borrar \in BOOLEAN, MigratePropertiesFromLegacy(borrar)
  PROVE  MInv'
<1>1. /\ proceso.fase = "ninguna"
      /\ propiedades' = IF borrar THEN <<>> ELSE propiedades
      /\ UNCHANGED <<catalogo, agentes, contratos, inventarios, versiones, proceso>>
  BY DEF MigratePropertiesFromLegacy
<1>2. /\ hist' = [x \in {"perdidos", "agentesCompletos", "vaciadas", "cortados"} |-> hist'[x]]
      /\ hist'.vaciadas = hist.vaciadas \cup (IF borrar THEN {"propiedades"} ELSE {})
      /\ hist'.perdidos = hist.perdidos /\ hist'.cortados = hist.cortados
      /\ hist'.agentesCompletos = hist.agentesCompletos
  BY DEF MigratePropertiesFromLegacy, MInv, Formas
<1>3. Colecciones'
  <2>1. \A p \in DOMAIN propiedades' : EsPropiedad(p, propiedades'[p])
    BY <1>1, Vacia DEF MInv, Colecciones
  <2>2. DOMAIN propiedades \subseteq DOMAIN propiedades' \/ "propiedades" \in hist'.vaciadas
    BY <1>1, <1>2
  <2>3. QED
    BY <1>1, <1>2, <2>1, <2>2, ColeccionesSiguen DEF MInv, Colecciones
<1>4. Formas' /\ Numeradas' /\ Inventariando'
  BY <1>1, <1>2 DEF MInv, Formas, Numeradas, Ultima, Inventariando
<1>5. Pendiente'
  BY <1>1 DEF Pendiente
<1>6. Inventarios' /\ Repaso'
  BY <1>1, <1>2 DEF MInv, Inventarios, Apuntado, Repaso, Cubierto
<1>7. QED
  BY <1>3, <1>4, <1>5, <1>6 DEF MInv

----------------------------------------------------------------------------
(* The documents, one by one.                                               *)

(* What is left of the documents in hand is still what it was.              *)
LEMMA PendienteSigue ==
  ASSUME MInv, catalogo' = catalogo, proceso'.fase = proceso.fase,
         proceso.fase \in {"agentes", "propiedades", "contratos"},
         \A x \in DOMAIN proceso'.pend : x \in DOMAIN proceso.pend
                                         /\ proceso'.pend[x] = proceso.pend[x],
         DOMAIN propiedades \subseteq DOMAIN propiedades',
         hist' = hist, versiones' = versiones
  PROVE  Pendiente'
<1>1. PICK pend : pend = proceso'.pend
  OBVIOUS
<1>2. /\ proceso.fase = "agentes" => \A a \in DOMAIN pend : EsAgente(a, pend[a])
      /\ proceso.fase = "propiedades" => \A p \in DOMAIN pend : EsPropiedad(p, pend[p])
      /\ proceso.fase = "contratos" => \A c \in DOMAIN pend : EsContrato(pend[c])
  BY <1>1 DEF MInv, Pendiente
<1>3. /\ proceso.fase = "agentes" => \A a \in DOMAIN pend : EsAgente(a, pend[a])'
      /\ proceso.fase = "propiedades" => \A p \in DOMAIN pend : EsPropiedad(p, pend[p])'
  BY <1>2, MismaUbicacion
<1>4. ASSUME proceso.fase = "contratos", NEW c \in DOMAIN pend
      PROVE  EsContrato(pend[c])'
  <2>1. EsContrato(pend[c])
    BY <1>2, <1>4
  <2>2. QED
    BY <2>1, MismoContrato
<1>5. QED
  BY <1>1, <1>3, <1>4 DEF Pendiente, EsAgente, EsPropiedad, EsContrato

(* A document that is not there yet is inserted, and every other stays.     *)
LEMMA InsertarDe ==
  ASSUME MInv, NEW id, Insertar(id)
  PROVE  /\ proceso.fase \in {"agentes", "propiedades", "contratos"} /\ id \in DOMAIN proceso.pend
         /\ proceso' = [x \in CamposProceso |-> proceso'[x]]
         /\ proceso'.fase = proceso.fase /\ proceso'.pend = Quitar(proceso.pend, id)
         /\ proceso'.omitidos = proceso.omitidos /\ proceso'.errores = proceso.errores
         /\ proceso'.paso = proceso.paso /\ proceso'.prop = proceso.prop
         /\ UNCHANGED <<catalogo, inventarios, versiones, hist>>
         /\ agentes' = agentes \/ /\ proceso.fase = "agentes" /\ id \notin DOMAIN agentes
                                  /\ agentes' = Insertado(agentes, id, proceso.pend[id])
         /\ propiedades' = propiedades
              \/ /\ proceso.fase = "propiedades" /\ id \notin DOMAIN propiedades
                 /\ propiedades' = Insertado(propiedades, id, proceso.pend[id])
         /\ contratos' = contratos \/ /\ proceso.fase = "contratos" /\ id \notin DOMAIN contratos
                                      /\ contratos' = Insertado(contratos, id, proceso.pend[id])
<1>1. /\ proceso.fase \in {"agentes", "propiedades", "contratos"} /\ id \in DOMAIN proceso.pend
      /\ proceso' = [proceso EXCEPT !.pend = Quitar(proceso.pend, id)]
      /\ UNCHANGED <<catalogo, inventarios, versiones, hist>>
  BY DEF Insertar
<1>2. /\ proceso' = [x \in CamposProceso |-> proceso'[x]]
      /\ proceso'.fase = proceso.fase /\ proceso'.pend = Quitar(proceso.pend, id)
      /\ proceso'.omitidos = proceso.omitidos /\ proceso'.errores = proceso.errores
      /\ proceso'.paso = proceso.paso /\ proceso'.prop = proceso.prop
  BY <1>1 DEF MInv, Formas, CamposProceso
<1>3. /\ agentes' = agentes \/ /\ proceso.fase = "agentes" /\ id \notin DOMAIN agentes
                               /\ agentes' = Insertado(agentes, id, proceso.pend[id])
      /\ propiedades' = propiedades
           \/ /\ proceso.fase = "propiedades" /\ id \notin DOMAIN propiedades
              /\ propiedades' = Insertado(propiedades, id, proceso.pend[id])
      /\ contratos' = contratos \/ /\ proceso.fase = "contratos" /\ id \notin DOMAIN contratos
                                   /\ contratos' = Insertado(contratos, id, proceso.pend[id])
  BY <1>1 DEF Insertar, EscribirDocumento, Duplicado
<1>4. QED
  BY <1>1, <1>2, <1>3

LEMMA InsertarMInv ==
  ASSUME MInv, NEW id, Insertar(id)
  PROVE  MInv'
<1> DEFINE doc == proceso.pend[id]
<1>1. /\ proceso.fase \in {"agentes", "propiedades", "contratos"} /\ id \in DOMAIN proceso.pend
      /\ UNCHANGED <<catalogo, inventarios, versiones, hist>>
  BY InsertarDe
<1>2. /\ proceso' = [x \in CamposProceso |-> proceso'[x]]
      /\ proceso'.fase = proceso.fase /\ proceso'.pend = Quitar(proceso.pend, id)
      /\ proceso'.omitidos = proceso.omitidos /\ proceso'.errores = proceso.errores
      /\ proceso'.paso = proceso.paso /\ proceso'.prop = proceso.prop
  BY InsertarDe
<1>3. /\ proceso.fase = "agentes" => EsAgente(id, doc)
      /\ proceso.fase = "propiedades" => EsPropiedad(id, doc)
      /\ proceso.fase = "contratos" => EsContrato(doc)
  BY <1>1 DEF MInv, Pendiente
<1>4. /\ \A a \in DOMAIN agentes : a \in DOMAIN agentes' /\ agentes'[a] = agentes[a]
      /\ \A a \in DOMAIN agentes' : EsAgente(a, agentes'[a])
  <2>1. CASE agentes' = agentes
    BY <2>1 DEF MInv, Colecciones
  <2>2. CASE /\ proceso.fase = "agentes" /\ id \notin DOMAIN agentes
             /\ agentes' = Insertado(agentes, id, doc)
    <3>1. /\ DOMAIN agentes' = DOMAIN agentes \cup {id} /\ agentes'[id] = doc
          /\ \A a \in DOMAIN agentes : agentes'[a] = agentes[a]
      BY <2>2 DEF Insertado
    <3>2. QED
      BY <1>3, <2>2, <3>1 DEF MInv, Colecciones
  <2>3. QED
    BY <2>1, <2>2, InsertarDe
<1>5. /\ DOMAIN propiedades \subseteq DOMAIN propiedades'
      /\ \A p \in DOMAIN propiedades' : EsPropiedad(p, propiedades'[p])
  <2>1. CASE propiedades' = propiedades
    BY <2>1 DEF MInv, Colecciones
  <2>2. CASE /\ proceso.fase = "propiedades" /\ id \notin DOMAIN propiedades
             /\ propiedades' = Insertado(propiedades, id, doc)
    <3>1. /\ DOMAIN propiedades' = DOMAIN propiedades \cup {id} /\ propiedades'[id] = doc
          /\ \A p \in DOMAIN propiedades : propiedades'[p] = propiedades[p]
      BY <2>2 DEF Insertado
    <3>2. QED
      BY <1>3, <2>2, <3>1 DEF MInv, Colecciones
  <2>3. QED
    BY <2>1, <2>2, InsertarDe
<1>6. \A c \in DOMAIN contratos' : EsContrato(contratos'[c])
  <2>1. CASE contratos' = contratos
    BY <2>1 DEF MInv, Colecciones
  <2>2. CASE /\ proceso.fase = "contratos" /\ id \notin DOMAIN contratos
             /\ contratos' = Insertado(contratos, id, doc)
    <3>1. /\ DOMAIN contratos' = DOMAIN contratos \cup {id} /\ contratos'[id] = doc
          /\ \A c \in DOMAIN contratos : contratos'[c] = contratos[c]
      BY <2>2 DEF Insertado
    <3>2. QED
      BY <1>3, <2>2, <3>1 DEF MInv, Colecciones
  <2>3. QED
    BY <2>1, <2>2, InsertarDe
<1>7. /\ DOMAIN proceso'.pend = DOMAIN proceso.pend \ {id}
      /\ \A x \in DOMAIN proceso'.pend : proceso'.pend[x] = proceso.pend[x]
  BY <1>2 DEF Quitar, Restrict
<1>8. Colecciones'
  BY <1>1, <1>4, <1>5, <1>6, ColeccionesSiguen
<1>9. Formas' /\ Numeradas' /\ Inventariando' /\ Inventarios'
  <2>1. Formas' /\ Numeradas'
    BY <1>1, <1>2 DEF MInv, Formas, Numeradas, Ultima
  <2>2. proceso.prop = Nulo /\ proceso.paso = "leer"
    BY <1>1 DEF MInv, Inventariando
  <2>3. QED
    BY <1>1, <1>2, <2>1, <2>2 DEF MInv, Inventariando, Inventarios, Apuntado
<1>10. Pendiente'
  BY <1>1, <1>2, <1>5, <1>7, PendienteSigue
<1>11. Repaso'
  <2>1. \A a : Cubierto(a) => Cubierto(a)'
    BY <1>4 DEF Cubierto
  <2>2. proceso.fase = "agentes" => Cubierto(id)'
    <3>1. SUFFICES ASSUME proceso.fase = "agentes" PROVE Cubierto(id)'
      OBVIOUS
    <3>2. CASE Duplicado("agentes", id, doc)
      <4>1. agentes' = agentes
        BY <3>1, <3>2 DEF Insertar
      <4>2. doc.fiscal \in IdentificadoresFiscales(id)
        BY <1>3, <3>1 DEF EsAgente
      <4>3. QED
        BY <3>2, <4>1, <4>2 DEF Duplicado, Cubierto
    <3>3. CASE ~ Duplicado("agentes", id, doc)
      <4>1. agentes' = Insertado(agentes, id, doc)
        BY <3>1, <3>3 DEF Insertar, EscribirDocumento
      <4>2. id \in DOMAIN agentes'
        BY <4>1 DEF Insertado
      <4>3. QED
        BY <4>2 DEF Cubierto
    <3>4. QED
      BY <3>2, <3>3
  <2>3. QED
    BY <1>1, <1>2, <1>7, <2>1, <2>2 DEF MInv, Repaso
<1>12. QED
  BY <1>8, <1>9, <1>10, <1>11 DEF MInv

LEMMA FalloAlInsertarMInv ==
  ASSUME MInv, NEW id, FalloAlInsertar(id)
  PROVE  MInv'
<1>1. /\ proceso.fase \in {"agentes", "propiedades", "contratos"} /\ id \in DOMAIN proceso.pend
      /\ proceso' = [proceso EXCEPT !.pend = Quitar(proceso.pend, id), !.errores = @ \cup {id}]
      /\ hist' = hist /\ inventarios' = inventarios
      /\ UNCHANGED <<catalogo, agentes, propiedades, contratos, versiones>>
  BY DEF FalloAlInsertar
<1>2. /\ proceso' = [x \in CamposProceso |-> proceso'[x]]
      /\ proceso'.fase = proceso.fase /\ proceso'.pend = Quitar(proceso.pend, id)
      /\ proceso'.omitidos = proceso.omitidos /\ proceso'.errores = proceso.errores \cup {id}
      /\ proceso'.paso = proceso.paso /\ proceso'.prop = proceso.prop
  BY <1>1 DEF MInv, Formas, CamposProceso
<1>3. /\ DOMAIN proceso'.pend = DOMAIN proceso.pend \ {id}
      /\ \A x \in DOMAIN proceso'.pend : proceso'.pend[x] = proceso.pend[x]
  BY <1>2 DEF Quitar, Restrict
<1>4. Colecciones' /\ Numeradas' /\ \A a : Cubierto(a)' <=> Cubierto(a)
  BY <1>1, MismasColecciones
<1>5. Pendiente'
  BY <1>1, <1>2, <1>3, PendienteSigue
<1>6. Formas' /\ Inventariando' /\ Inventarios'
  <2>1. proceso.prop = Nulo /\ proceso.paso = "leer"
    BY <1>1 DEF MInv, Inventariando
  <2>2. QED
    BY <1>1, <1>2, <2>1 DEF MInv, Formas, Inventariando, Inventarios, Apuntado
<1>7. Repaso'
  BY <1>1, <1>2, <1>3, <1>4 DEF MInv, Repaso
<1>8. QED
  BY <1>4, <1>5, <1>6, <1>7 DEF MInv

----------------------------------------------------------------------------
(* The inventories, property by property.                                   *)

LEMMA PropiedadSiguienteDe ==
  ASSUME MInv, NEW p, PropiedadSiguiente(p)
  PROVE  /\ proceso' = [x \in CamposProceso |-> proceso'[x]]
         /\ proceso'.fase = proceso.fase /\ proceso'.paso = "leer" /\ proceso'.prop = Nulo
BY DEF PropiedadSiguiente, MInv, Formas, CamposProceso

LEMMA CrearInventarioMInv ==
  ASSUME MInv, NEW p \in DOMAIN LPropiedades, CrearInventario(p)
  PROVE  MInv'
<1>1. /\ proceso.fase = "inventarios" /\ proceso.paso = "leer" /\ p \in DOMAIN proceso.pend
      /\ proceso.prop = Nulo /\ p # Nulo /\ hist' = hist
      /\ UNCHANGED <<catalogo, agentes, propiedades, contratos, versiones>>
  BY LegacyAssumption DEF CrearInventario, EnInventario, MInv, Inventariando
<1>2. Colecciones' /\ Numeradas' /\ \A a : Cubierto(a)' <=> Cubierto(a)
  BY <1>1, MismasColecciones
<1>3. CASE PropiedadSiguiente(p) /\ inventarios' = inventarios
  <2>1. Formas' /\ Pendiente' /\ Inventariando'
    BY <1>1, <1>3, PropiedadSiguienteDe DEF MInv, Formas, Pendiente, Inventariando
  <2>2. Inventarios'
    BY <1>1, <1>3 DEF MInv, Inventarios, Apuntado
  <2>3. Repaso'
    BY <1>1, <1>2, <1>3, PropiedadSiguienteDe DEF MInv, Repaso
  <2>4. QED
    BY <1>2, <2>1, <2>2, <2>3 DEF MInv
<1>4. CASE /\ p \notin DOMAIN inventarios
           /\ inventarios' = Insertado(inventarios, p, Nulo)
           /\ proceso' = [proceso EXCEPT !.paso = "version", !.prop = p]
  <2>1. /\ proceso' = [x \in CamposProceso |-> proceso'[x]]
        /\ proceso'.fase = proceso.fase /\ proceso'.pend = proceso.pend
        /\ proceso'.paso = "version" /\ proceso'.prop = p
    BY <1>4 DEF MInv, Formas, CamposProceso
  <2>2. /\ DOMAIN inventarios' = DOMAIN inventarios \cup {p}
        /\ \A q \in DOMAIN inventarios : inventarios'[q] = inventarios[q]
    BY <1>4 DEF Insertado
  <2>3. Formas' /\ Pendiente' /\ Inventariando'
    BY <1>1, <2>1, <2>2 DEF MInv, Formas, Pendiente, Inventariando
  <2>4. Inventarios'
    BY <1>1, <2>1, <2>2 DEF MInv, Inventarios, Apuntado
  <2>5. Repaso'
    BY <1>1, <1>2, <2>1 DEF MInv, Repaso
  <2>6. QED
    BY <1>2, <2>3, <2>4, <2>5 DEF MInv
<1>5. QED
  BY <1>3, <1>4 DEF CrearInventario

LEMMA CrearVersionMInv ==
  ASSUME MInv, NEW p, CrearVersion(p)
  PROVE  MInv'
<1>1. /\ proceso.fase = "inventarios" /\ proceso.paso = "version" /\ p = proceso.prop /\ p # Nulo
      /\ p \in DOMAIN proceso.pend /\ p \in DOMAIN inventarios
      /\ hist' = hist /\ UNCHANGED <<catalogo, agentes, propiedades, contratos, inventarios>>
  BY DEF CrearVersion, EnInventario, MInv, Inventariando
<1>2. PICK n \in Nat : n = Ultima /\ DOMAIN versiones = 1 .. n
  BY DEF MInv, Numeradas
<1>3. versiones' = Insertado(versiones, n + 1, p)
  BY <1>2 DEF CrearVersion, Ultima
<1>4. /\ DOMAIN versiones' = DOMAIN versiones \cup {n + 1} /\ versiones'[n + 1] = p
      /\ \A v \in DOMAIN versiones : versiones'[v] = versiones[v]
  <2>1. n + 1 \notin DOMAIN versiones
    BY <1>2
  <2>2. QED
    BY <1>3, <2>1 DEF Insertado
<1>5. DOMAIN versiones' = 1 .. n + 1 /\ Ultima' = n + 1 /\ n + 1 \in Nat
  <2>1. DOMAIN versiones' = 1 .. n + 1
    BY <1>2, <1>4
  <2>2. Cardinality(1 .. n + 1) = n + 1
    BY <1>2, FS_Interval
  <2>3. Ultima' = Cardinality(DOMAIN versiones')
    BY DEF Ultima
  <2>4. QED
    BY <1>2, <2>1, <2>2, <2>3
<1>6. /\ proceso' = [x \in CamposProceso |-> proceso'[x]]
      /\ proceso'.fase = proceso.fase /\ proceso'.pend = proceso.pend
      /\ proceso'.paso = "apuntar" /\ proceso'.prop = proceso.prop
  BY DEF CrearVersion, MInv, Formas, CamposProceso
<1>7. Colecciones'
  BY <1>1, <1>4, ColeccionesSiguen DEF MInv, Colecciones
<1>8. Numeradas'
  BY <1>5 DEF Numeradas
<1>9. Formas' /\ Pendiente'
  BY <1>1, <1>6 DEF MInv, Formas, Pendiente
<1>10. Inventariando'
  <2>1. n + 1 \in DOMAIN versiones'
    BY <1>4
  <2>2. QED
    BY <1>1, <1>4, <1>5, <1>6, <2>1 DEF Inventariando
<1>11. Inventarios'
  BY <1>1, <1>4, <1>6 DEF MInv, Inventarios, Apuntado
<1>12. Repaso'
  BY <1>1, <1>6 DEF MInv, Repaso, Cubierto
<1>13. QED
  BY <1>7, <1>8, <1>9, <1>10, <1>11, <1>12 DEF MInv

LEMMA ApuntarVersionMInv ==
  ASSUME MInv, NEW p, ApuntarVersion(p)
  PROVE  MInv'
<1>1. /\ proceso.fase = "inventarios" /\ proceso.paso = "apuntar" /\ p = proceso.prop /\ p # Nulo
      /\ p \in DOMAIN proceso.pend /\ p \in DOMAIN inventarios
      /\ Ultima \in DOMAIN versiones /\ versiones[Ultima] = p
      /\ hist' = hist /\ UNCHANGED <<catalogo, agentes, propiedades, contratos, versiones>>
  BY DEF ApuntarVersion, EnInventario, MInv, Inventariando
<1>2. /\ DOMAIN inventarios' = DOMAIN inventarios /\ inventarios'[p] = Ultima
      /\ \A q \in DOMAIN inventarios : q # p => inventarios'[q] = inventarios[q]
  BY <1>1 DEF ApuntarVersion, Ultima
<1>3. /\ proceso' = [x \in CamposProceso |-> proceso'[x]]
      /\ proceso'.fase = proceso.fase /\ proceso'.pend = proceso.pend
      /\ proceso'.paso = "contratos" /\ proceso'.prop = proceso.prop
  BY DEF ApuntarVersion, MInv, Formas, CamposProceso
<1>4. Colecciones' /\ Numeradas' /\ Ultima' = Ultima /\ \A a : Cubierto(a)' <=> Cubierto(a)
  BY <1>1, MismasColecciones
<1>5. Formas' /\ Pendiente' /\ Inventariando'
  BY <1>1, <1>2, <1>3, <1>4 DEF MInv, Formas, Pendiente, Inventariando
<1>6. Inventarios'
  BY <1>1, <1>2, <1>3 DEF MInv, Inventarios, Apuntado
<1>7. Repaso'
  BY <1>1, <1>3, <1>4 DEF MInv, Repaso
<1>8. QED
  BY <1>4, <1>5, <1>6, <1>7 DEF MInv

(* What updateMany makes of a contract: its version and its photos.         *)
LEMMA ConVersionDe ==
  ASSUME NEW c, EsContrato(contratos[c])
  PROVE  /\ ConVersion(c) = [x \in CamposContrato |-> ConVersion(c)[x]]
         /\ ConVersion(c).propiedad = contratos[c].propiedad
         /\ ConVersion(c).inventory_version_id = Ultima
         /\ ConVersion(c).editado = contratos[c].editado
<1>1. PICK d : d = contratos[c] /\ d = [x \in CamposContrato |-> d[x]]
  BY DEF EsContrato
<1>2. ConVersion(c) = [d EXCEPT !.inventory_version_id = Ultima, !.fotos_inventario = "migradas"]
  BY <1>1 DEF ConVersion, Ultima
<1>3. ConVersion(c) = [x \in CamposContrato |-> IF x = "inventory_version_id" THEN Ultima
                                               ELSE IF x = "fotos_inventario" THEN "migradas" ELSE d[x]]
  BY <1>1, <1>2 DEF CamposContrato
<1>4. QED
  BY <1>1, <1>3 DEF CamposContrato

(* Only the contracts of the property are pointed at its version.           *)
LEMMA ApuntarContratosMInv ==
  ASSUME MInv, NEW p, ApuntarContratos(p)
  PROVE  MInv'
<1>1. /\ proceso.fase = "inventarios" /\ proceso.paso = "contratos" /\ p = proceso.prop /\ p # Nulo
      /\ Ultima \in DOMAIN versiones /\ versiones[Ultima] = p /\ inventarios[p] = Ultima
      /\ hist' = hist /\ PropiedadSiguiente(p)
      /\ UNCHANGED <<catalogo, agentes, propiedades, inventarios, versiones>>
  BY DEF ApuntarContratos, EnInventario, MInv, Inventariando
<1>2. \A c \in DOMAIN contratos' : EsContrato(contratos'[c])
  <2>1. contratos' = [c \in DOMAIN contratos |->
                        IF contratos[c].propiedad = p THEN ConVersion(c) ELSE contratos[c]]
    BY DEF ApuntarContratos
  <2>2. TAKE c \in DOMAIN contratos'
  <2>3. PICK d : d = contratos[c] /\ EsContrato(d)
    BY <2>1, <2>2 DEF MInv, Colecciones
  <2>4. PICK e : e = ConVersion(c)
    OBVIOUS
  <2>5. CASE d.propiedad = p
    <3>1. /\ e = [x \in CamposContrato |-> e[x]] /\ e.propiedad = d.propiedad
          /\ e.inventory_version_id = Ultima
      BY <2>3, <2>4, ConVersionDe
    <3>2. EsContrato(e)
      BY <1>1, <2>3, <2>5, <3>1 DEF EsContrato
    <3>3. contratos'[c] = e
      BY <2>1, <2>2, <2>3, <2>4, <2>5
    <3>4. QED
      BY <3>2, <3>3
  <2>6. CASE d.propiedad # p
    <3>1. contratos'[c] = d
      BY <2>1, <2>2, <2>3, <2>6
    <3>2. QED
      BY <2>3, <3>1
  <2>7. QED
    BY <2>5, <2>6
<1>3. Colecciones'
  BY <1>1, <1>2, ColeccionesSiguen DEF MInv, Colecciones
<1>4. Numeradas' /\ \A a : Cubierto(a)' <=> Cubierto(a)
  BY <1>1 DEF MInv, Numeradas, Ultima, Cubierto
<1>5. Formas' /\ Pendiente' /\ Inventariando'
  BY <1>1, PropiedadSiguienteDe DEF MInv, Formas, Pendiente, Inventariando
<1>6. Inventarios'
  BY <1>1, PropiedadSiguienteDe DEF MInv, Inventarios, Apuntado
<1>7. Repaso'
  BY <1>1, <1>4, PropiedadSiguienteDe DEF MInv, Repaso
<1>8. QED
  BY <1>3, <1>4, <1>5, <1>6, <1>7 DEF MInv

LEMMA FalloDeInventarioMInv ==
  ASSUME MInv, NEW p, FalloDeInventario(p)
  PROVE  MInv'
<1>1. /\ proceso.fase = "inventarios" /\ p = proceso.prop /\ PropiedadSiguiente(p)
      /\ inventarios' = inventarios
      /\ UNCHANGED <<catalogo, agentes, propiedades, contratos, versiones>>
  BY DEF FalloDeInventario
<1>2. /\ hist' = [x \in {"perdidos", "agentesCompletos", "vaciadas", "cortados"} |-> hist'[x]]
      /\ hist'.vaciadas = hist.vaciadas /\ hist'.perdidos = hist.perdidos
      /\ hist'.agentesCompletos = hist.agentesCompletos /\ hist'.cortados = hist.cortados \cup {p}
  BY DEF FalloDeInventario, MInv, Formas
<1>3. Colecciones' /\ Numeradas' /\ \A a : Cubierto(a)' <=> Cubierto(a)
  BY <1>1, <1>2, MismasColecciones
<1>4. Formas' /\ Pendiente' /\ Inventariando'
  BY <1>1, <1>2, PropiedadSiguienteDe DEF MInv, Formas, Pendiente, Inventariando
<1>5. Inventarios' /\ Repaso'
  BY <1>1, <1>2, <1>3, PropiedadSiguienteDe DEF MInv, Inventarios, Apuntado, Repaso
<1>6. QED
  BY <1>3, <1>4, <1>5 DEF MInv

----------------------------------------------------------------------------
(* A script ends or dies, and people edit what it left.                     *)

LEMMA TerminarMInv ==
  ASSUME MInv, Terminar
  PROVE  MInv'
<1>1. /\ proceso.fase # "ninguna" /\ proceso.pend = <<>> /\ proceso' = Inactivo
      /\ inventarios' = inventarios
      /\ UNCHANGED <<catalogo, agentes, propiedades, contratos, versiones>>
  BY DEF Terminar
<1>2. /\ hist' = [x \in {"perdidos", "agentesCompletos", "vaciadas", "cortados"} |-> hist'[x]]
      /\ hist'.vaciadas = hist.vaciadas /\ hist'.cortados = hist.cortados
      /\ proceso.fase = "agentes" => hist'.perdidos = proceso.omitidos \cup proceso.errores
      /\ proceso.fase # "agentes" => hist' = hist
      /\ hist'.agentesCompletos \in BOOLEAN
  BY DEF Terminar, MInv, Formas
<1>3. Colecciones' /\ Numeradas' /\ \A a : Cubierto(a)' <=> Cubierto(a)
  BY <1>1, <1>2, MismasColecciones
<1>4. DOMAIN proceso.pend = {} /\ proceso.prop = Nulo
  BY <1>1, Vacia DEF MInv, Inventariando
<1>5. Formas' /\ Pendiente' /\ Inventariando'
  BY <1>1, <1>2 DEF Formas, Pendiente, Inventariando, Inactivo, CamposProceso
<1>6. Inventarios'
  BY <1>1, <1>2, <1>4 DEF MInv, Inventarios, Apuntado
<1>7. Repaso'
  BY <1>1, <1>2, <1>3, <1>4 DEF MInv, Repaso, Inactivo
<1>8. QED
  BY <1>3, <1>5, <1>6, <1>7 DEF MInv

LEMMA MorirMInv ==
  ASSUME MInv, Morir
  PROVE  MInv'
<1>1. /\ proceso' = Inactivo /\ inventarios' = inventarios
      /\ UNCHANGED <<catalogo, agentes, propiedades, contratos, versiones>>
  BY DEF Morir
<1>2. /\ hist' = [x \in {"perdidos", "agentesCompletos", "vaciadas", "cortados"} |-> hist'[x]]
      /\ hist'.vaciadas = hist.vaciadas /\ hist'.perdidos = hist.perdidos
      /\ hist'.agentesCompletos = hist.agentesCompletos
      /\ hist'.cortados = hist.cortados \cup (IF proceso.prop = Nulo THEN {} ELSE {proceso.prop})
  BY DEF Morir, MInv, Formas
<1>3. Colecciones' /\ Numeradas' /\ \A a : Cubierto(a)' <=> Cubierto(a)
  BY <1>1, <1>2, MismasColecciones
<1>4. Formas' /\ Pendiente' /\ Inventariando'
  BY <1>1, <1>2 DEF MInv, Formas, Pendiente, Inventariando, Inactivo, CamposProceso
<1>5. Inventarios' /\ Repaso'
  BY <1>1, <1>2, <1>3 DEF MInv, Inventarios, Apuntado, Repaso, Inactivo
<1>6. QED
  BY <1>3, <1>4, <1>5 DEF MInv

LEMMA EditarMInv ==
  ASSUME MInv, Editar
  PROVE  MInv'
<1>1. /\ proceso.fase = "ninguna"
      /\ UNCHANGED <<catalogo, propiedades, inventarios, versiones, proceso, hist>>
  BY DEF Editar, SinEditar
<1>2. \/ agentes' = agentes
      \/ \E a \in DOMAIN agentes : agentes' = [agentes EXCEPT ![a].editado = TRUE]
  BY DEF Editar
<1>3. \/ contratos' = contratos
      \/ \E c \in DOMAIN contratos : contratos' = [contratos EXCEPT ![c].editado = TRUE]
  BY DEF Editar
<1>4. /\ DOMAIN agentes' = DOMAIN agentes
      /\ \A a \in DOMAIN agentes : EsAgente(a, agentes'[a]) /\ agentes'[a].fiscal = agentes[a].fiscal
  <2>1. CASE agentes' = agentes
    BY <2>1 DEF MInv, Colecciones
  <2>2. CASE \E b \in DOMAIN agentes : agentes' = [agentes EXCEPT ![b].editado = TRUE]
    <3>1. PICK b \in DOMAIN agentes : agentes' = [agentes EXCEPT ![b].editado = TRUE]
      BY <2>2
    <3>2. PICK d : d = agentes[b] /\ EsAgente(b, d)
      BY DEF MInv, Colecciones
    <3>3. PICK e : e = [d EXCEPT !.editado = TRUE]
      OBVIOUS
    <3>4. EsAgente(b, e) /\ e.fiscal = d.fiscal
      <4>1. PICK u, f, v : u = Ubicado(LAgentes[b]) /\ f = d.fiscal /\ v = d.editado
        OBVIOUS
      <4>2. d = [fiscal |-> f, ubicacion |-> u, editado |-> v]
        BY <3>2, <4>1 DEF EsAgente
      <4>3. e = [fiscal |-> f, ubicacion |-> u, editado |-> TRUE]
        BY <3>3, <4>2
      <4>4. e.fiscal = f /\ e.editado = TRUE
        BY <4>3
      <4>5. QED
        BY <3>2, <4>1, <4>3, <4>4 DEF EsAgente
    <3>5. DOMAIN agentes' = DOMAIN agentes
          /\ \A a \in DOMAIN agentes : agentes'[a] = IF a = b THEN e ELSE agentes[a]
      BY <3>1, <3>2, <3>3
    <3>6. QED
      BY <3>2, <3>4, <3>5 DEF MInv, Colecciones
  <2>3. QED
    BY <1>2, <2>1, <2>2
<1>5. \A c \in DOMAIN contratos' : EsContrato(contratos'[c])
  <2>1. CASE contratos' = contratos
    BY <2>1 DEF MInv, Colecciones
  <2>2. CASE \E b \in DOMAIN contratos : contratos' = [contratos EXCEPT ![b].editado = TRUE]
    <3>1. PICK b \in DOMAIN contratos : contratos' = [contratos EXCEPT ![b].editado = TRUE]
      BY <2>2
    <3>2. PICK d : d = contratos[b] /\ EsContrato(d)
      BY DEF MInv, Colecciones
    <3>3. PICK e : e = [d EXCEPT !.editado = TRUE]
      OBVIOUS
    <3>4. EsContrato(e)
      BY <3>2, <3>3 DEF EsContrato, CamposContrato
    <3>5. DOMAIN contratos' = DOMAIN contratos
          /\ \A c \in DOMAIN contratos : contratos'[c] = IF c = b THEN e ELSE contratos[c]
      BY <3>1, <3>2, <3>3
    <3>6. QED
      BY <3>4, <3>5 DEF MInv, Colecciones
  <2>3. QED
    BY <1>3, <2>1, <2>2
<1>6. Colecciones'
  BY <1>1, <1>4, <1>5, ColeccionesSiguen DEF MInv, Colecciones
<1>7. Formas' /\ Numeradas' /\ Pendiente' /\ Inventariando' /\ Inventarios'
  BY <1>1 DEF MInv, Formas, Numeradas, Ultima, Pendiente, Inventariando, Inventarios, Apuntado
<1>8. Repaso'
  BY <1>1, <1>4 DEF MInv, Repaso, Cubierto
<1>9. QED
  BY <1>6, <1>7, <1>8 DEF MInv

LEMMA CompletarFotosMInv ==
  ASSUME MInv, CompletarFotos
  PROVE  MInv'
<1>1. UNCHANGED <<catalogo, agentes, propiedades, inventarios, versiones, proceso, hist>>
  BY DEF CompletarFotos
<1>2. PICK b \in DOMAIN contratos : contratos' = [contratos EXCEPT ![b].fotos_inventario = "propias"]
  BY DEF CompletarFotos
<1>3. PICK d : d = contratos[b] /\ EsContrato(d)
  BY DEF MInv, Colecciones
<1>4. PICK e : e = [d EXCEPT !.fotos_inventario = "propias"]
  OBVIOUS
<1>5. EsContrato(e)
  BY <1>3, <1>4 DEF EsContrato, CamposContrato
<1>6. /\ DOMAIN contratos' = DOMAIN contratos
      /\ \A c \in DOMAIN contratos : contratos'[c] = IF c = b THEN e ELSE contratos[c]
  BY <1>2, <1>3, <1>4
<1>7. \A c \in DOMAIN contratos' : EsContrato(contratos'[c])
  BY <1>5, <1>6 DEF MInv, Colecciones
<1>8. Colecciones'
  BY <1>1, <1>7, ColeccionesSiguen DEF MInv, Colecciones
<1>9. Formas' /\ Numeradas' /\ Pendiente' /\ Inventariando' /\ Inventarios'
  <2>1. Formas' /\ Numeradas' /\ Inventariando' /\ Inventarios'
    BY <1>1 DEF MInv, Formas, Numeradas, Ultima, Inventariando, Inventarios, Apuntado
  <2>2. proceso.fase = "ninguna"
    BY DEF CompletarFotos, SinEditar
  <2>3. QED
    BY <1>1, <2>1, <2>2 DEF Pendiente
<1>10. Repaso'
  BY <1>1 DEF MInv, Repaso, Cubierto
<1>11. QED
  BY <1>8, <1>9, <1>10 DEF MInv

LEMMA PasoMInv == MInv /\ [MNext]_maestros => MInv'
<1> SUFFICES ASSUME MInv, [MNext]_maestros PROVE MInv'
  OBVIOUS
<1>1. ASSUME NEW f \in Fases, Empezar(f) \/ EmpezarVaciando(f) \/ EnSeco(f)
      PROVE  MInv'
  <2>1. CASE EnSeco(f)
    <3>1. UNCHANGED <<catalogo, agentes, propiedades, contratos, inventarios, versiones, proceso, hist>>
      BY <2>1 DEF EnSeco
    <3>2. Colecciones' /\ Numeradas'
      BY <3>1, MismasColecciones
    <3>3. QED
      BY <3>1, <3>2, MismoProceso DEF MInv
  <2>2. QED
    BY <1>1, <2>1, EmpezarMInv, EmpezarVaciandoMInv
<1>2. ASSUME NEW b \in BOOLEAN, MigratePropertiesFromLegacy(b)
      PROVE  MInv'
  BY <1>2, MigratePropertiesMInv
<1>3. ASSUME NEW id \in Documento, Insertar(id) \/ FalloAlInsertar(id)
      PROVE  MInv'
  BY <1>3, InsertarMInv, FalloAlInsertarMInv
<1>4. ASSUME NEW p \in DOMAIN LPropiedades,
             \/ CrearInventario(p) \/ CrearVersion(p) \/ ApuntarVersion(p)
             \/ ApuntarContratos(p) \/ FalloDeInventario(p)
      PROVE  MInv'
  BY <1>4, CrearInventarioMInv, CrearVersionMInv, ApuntarVersionMInv, ApuntarContratosMInv,
     FalloDeInventarioMInv
<1>5. CASE Terminar \/ Morir \/ Editar \/ CompletarFotos
  BY <1>5, TerminarMInv, MorirMInv, EditarMInv, CompletarFotosMInv
<1>6. CASE UNCHANGED maestros
  <2>1. UNCHANGED <<catalogo, agentes, propiedades, contratos, inventarios, versiones, proceso, hist>>
    BY <1>6 DEF maestros
  <2>2. Colecciones' /\ Numeradas'
    BY <2>1, MismasColecciones
  <2>3. QED
    BY <2>1, <2>2, MismoProceso DEF MInv
<1>7. QED
  BY <1>1, <1>2, <1>3, <1>4, <1>5, <1>6 DEF MNext

----------------------------------------------------------------------------
(* The theorems.                                                            *)

LEMMA SiempreMInv == MSpec => []MInv
  BY MInitMInv, PasoMInv, PTL DEF MSpec

(* The migration of the master data leaves references that hold, locations  *)
(* of their own province, and an inventory with its current version unless  *)
(* its script was cut short there: the order of the scripts and their       *)
(* lookups give it (02-migrate-contracts.ts, transformContract;             *)
(* 02-migrate-agents.ts; 02-migrate-inventories.ts).                        *)
THEOREM MaestrosSiempreMigrados == MSpec => []MaestrosMigrados
  BY SiempreMInv, MInvImplica, PTL

(* No legacy agent is lost without being reported, whatever fails between   *)
(* two inserts: bulkInsertWithDuplicateHandling goes on after a duplicate   *)
(* (db-helpers.ts).                                                         *)
THEOREM PerdidasSiempreExplicadas == MSpec => []PerdidasExplicadas
  BY SiempreMInv, MInvImplica, PTL

(* A contract gets its inventory version once: the inventory of a property  *)
(* is inserted once, and while its script is at it none of the contracts of *)
(* the property has a version yet.                                          *)
PrimeraVersion ==
  /\ proceso.fase = "contratos" =>
       \A c \in DOMAIN proceso.pend : proceso.pend[c].inventory_version_id = Nulo
  /\ \A c \in DOMAIN contratos : contratos[c].inventory_version_id # Nulo =>
       /\ contratos[c].propiedad \in DOMAIN inventarios
       /\ proceso.prop # Nulo => contratos[c].propiedad # proceso.prop

(* The versions and the properties of the contracts stay, or there are      *)
(* fewer contracts, and no property begins.                                 *)
LEMMA PrimeraVersionSigue ==
  ASSUME PrimeraVersion, inventarios' = inventarios,
         proceso'.fase = "contratos" =>
           \A c \in DOMAIN proceso'.pend : proceso'.pend[c].inventory_version_id = Nulo,
         proceso'.prop \in {Nulo, proceso.prop},
         \A c \in DOMAIN contratos' :
           \/ contratos'[c].inventory_version_id = Nulo
           \/ /\ c \in DOMAIN contratos /\ contratos'[c].propiedad = contratos[c].propiedad
              /\ contratos'[c].inventory_version_id = contratos[c].inventory_version_id
  PROVE  PrimeraVersion'
BY DEF PrimeraVersion

LEMMA EmpezarPrimeraVersion ==
  ASSUME MInv, PrimeraVersion, NEW fase \in Fases,
         Empezar(fase) \/ EmpezarVaciando(fase) \/ EnSeco(fase)
  PROVE  PrimeraVersion'
<1>1. CASE EnSeco(fase)
  BY <1>1 DEF EnSeco, PrimeraVersion
<1>2. CASE Empezar(fase) \/ EmpezarVaciando(fase)
  <2>1. PICK pend \in Documentos(fase, Transformables(fase)) : Comenzar(fase, pend)
    BY <1>2 DEF Empezar, EmpezarVaciando
  <2>2. proceso'.fase = fase /\ proceso'.pend = pend /\ proceso'.prop = Nulo
    BY <2>1, ComenzarDe
  <2>3. ASSUME fase = "contratos", NEW c \in DOMAIN pend
        PROVE  pend[c].inventory_version_id = Nulo
    <3>1. pend[c] = ContratoV3(c)
      BY <2>1, <2>3 DEF Documentos
    <3>2. QED
      BY <3>1 DEF ContratoV3
  <2>4. inventarios' = inventarios /\ contratos' \in {contratos, <<>>}
    BY <1>2 DEF Empezar, EmpezarVaciando
  <2>5. \A c \in DOMAIN contratos' : c \in DOMAIN contratos /\ contratos'[c] = contratos[c]
    BY <2>4, Vacia
  <2>6. QED
    BY <2>2, <2>3, <2>4, <2>5, PrimeraVersionSigue
<1>3. QED
  BY <1>1, <1>2

LEMMA InsertarPrimeraVersion ==
  ASSUME MInv, PrimeraVersion, NEW id, Insertar(id) \/ FalloAlInsertar(id)
  PROVE  PrimeraVersion'
<1>1. /\ id \in DOMAIN proceso.pend /\ inventarios' = inventarios
      /\ proceso'.fase = proceso.fase /\ proceso'.pend = Quitar(proceso.pend, id)
      /\ proceso'.prop = proceso.prop
      /\ contratos' = contratos \/ /\ proceso.fase = "contratos" /\ id \notin DOMAIN contratos
                                   /\ contratos' = Insertado(contratos, id, proceso.pend[id])
  <2>1. CASE Insertar(id)
    BY <2>1, InsertarDe
  <2>2. CASE FalloAlInsertar(id)
    <3>1. /\ proceso' = [proceso EXCEPT !.pend = Quitar(proceso.pend, id), !.errores = @ \cup {id}]
          /\ id \in DOMAIN proceso.pend /\ contratos' = contratos /\ inventarios' = inventarios
      BY <2>2 DEF FalloAlInsertar
    <3>2. QED
      BY <3>1 DEF MInv, Formas, CamposProceso
  <2>3. QED
    BY <2>1, <2>2
<1>2. /\ DOMAIN proceso'.pend = DOMAIN proceso.pend \ {id}
      /\ \A x \in DOMAIN proceso'.pend : proceso'.pend[x] = proceso.pend[x]
  BY <1>1 DEF Quitar, Restrict
<1>3. ASSUME NEW c \in DOMAIN contratos'
      PROVE  \/ contratos'[c].inventory_version_id = Nulo
             \/ c \in DOMAIN contratos /\ contratos'[c] = contratos[c]
  <2>1. CASE contratos' = contratos
    BY <2>1, <1>3
  <2>2. CASE proceso.fase = "contratos" /\ contratos' = Insertado(contratos, id, proceso.pend[id])
    <3>1. proceso.pend[id].inventory_version_id = Nulo
      BY <1>1, <2>2 DEF PrimeraVersion
    <3>2. /\ c = id => contratos'[c] = proceso.pend[id]
          /\ c # id => c \in DOMAIN contratos /\ contratos'[c] = contratos[c]
      BY <1>3, <2>2 DEF Insertado
    <3>3. QED
      BY <3>1, <3>2
  <2>3. QED
    BY <1>1, <2>1, <2>2
<1>4. proceso'.fase = "contratos" =>
        \A c \in DOMAIN proceso'.pend : proceso'.pend[c].inventory_version_id = Nulo
  BY <1>1, <1>2 DEF PrimeraVersion
<1>5. QED
  BY <1>1, <1>3, <1>4, PrimeraVersionSigue

LEMMA InventarioPrimeraVersion ==
  ASSUME MInv, PrimeraVersion, NEW p \in DOMAIN LPropiedades,
         CrearInventario(p) \/ CrearVersion(p) \/ ApuntarVersion(p) \/ FalloDeInventario(p)
  PROVE  PrimeraVersion'
<1>1. proceso.fase = "inventarios" /\ contratos' = contratos
  BY DEF CrearInventario, CrearVersion, ApuntarVersion, FalloDeInventario, EnInventario
<1>2. CASE PropiedadSiguiente(p) /\ inventarios' = inventarios
  BY <1>1, <1>2, PropiedadSiguienteDe, PrimeraVersionSigue
<1>3. CASE /\ p \notin DOMAIN inventarios
           /\ inventarios' = Insertado(inventarios, p, Nulo)
           /\ proceso' = [proceso EXCEPT !.paso = "version", !.prop = p]
  <2>1. proceso'.fase = proceso.fase /\ proceso'.prop = p
    BY <1>3 DEF MInv, Formas, CamposProceso
  <2>2. DOMAIN inventarios' = DOMAIN inventarios \cup {p}
    BY <1>3 DEF Insertado
  <2>3. QED
    BY <1>1, <1>3, <2>1, <2>2 DEF PrimeraVersion
<1>4. CASE CrearVersion(p) \/ ApuntarVersion(p)
  <2>1. proceso'.fase = proceso.fase /\ proceso'.prop = proceso.prop
    BY <1>4 DEF CrearVersion, ApuntarVersion, MInv, Formas, CamposProceso
  <2>2. DOMAIN inventarios' = DOMAIN inventarios
    BY <1>4 DEF CrearVersion, ApuntarVersion
  <2>3. QED
    BY <1>1, <2>1, <2>2 DEF PrimeraVersion
<1>5. QED
  BY <1>2, <1>3, <1>4 DEF CrearInventario, FalloDeInventario

(* The contracts of the property have no version yet, and get one; nothing  *)
(* else of them changes but the photos, and the other contracts stay.       *)
LEMMA ApuntarContratosDe ==
  ASSUME MInv, PrimeraVersion, NEW p, ApuntarContratos(p)
  PROVE  /\ agentes' = agentes /\ inventarios' = inventarios
         /\ proceso.fase = "inventarios" /\ p = proceso.prop /\ p # Nulo /\ p \in DOMAIN inventarios
         /\ proceso'.fase = proceso.fase /\ proceso'.prop = Nulo
         /\ DOMAIN contratos' = DOMAIN contratos /\ Ultima # Nulo
         /\ \A c \in DOMAIN contratos :
              \/ contratos'[c] = contratos[c]
              \/ /\ contratos[c].propiedad = p /\ contratos'[c].propiedad = p
                 /\ contratos[c].inventory_version_id = Nulo
                 /\ contratos'[c].inventory_version_id = Ultima
                 /\ contratos'[c].editado = contratos[c].editado
<1>1. /\ proceso.fase = "inventarios" /\ proceso.paso = "contratos" /\ p = proceso.prop
      /\ PropiedadSiguiente(p) /\ agentes' = agentes /\ inventarios' = inventarios
  BY DEF ApuntarContratos, EnInventario
<1>2. p # Nulo /\ p \in DOMAIN inventarios
  BY <1>1 DEF MInv, Inventariando
<1>3. Ultima # Nulo
  BY LegacyAssumption DEF MInv, Numeradas
<1>4. contratos' = [c \in DOMAIN contratos |->
                      IF contratos[c].propiedad = p THEN ConVersion(c) ELSE contratos[c]]
  BY DEF ApuntarContratos
<1>5. ASSUME NEW c \in DOMAIN contratos, contratos[c].propiedad = p
      PROVE  /\ contratos'[c].propiedad = p
             /\ contratos[c].inventory_version_id = Nulo
             /\ contratos'[c].inventory_version_id = Ultima
             /\ contratos'[c].editado = contratos[c].editado
  <2>1. EsContrato(contratos[c])
    BY <1>5 DEF MInv, Colecciones
  <2>2. contratos'[c] = ConVersion(c)
    BY <1>4, <1>5
  <2>3. contratos[c].inventory_version_id = Nulo
    BY <1>1, <1>2, <1>5 DEF PrimeraVersion
  <2>4. QED
    BY <1>5, <2>1, <2>2, <2>3, ConVersionDe
<1>6. \A c \in DOMAIN contratos : contratos[c].propiedad # p => contratos'[c] = contratos[c]
  BY <1>4
<1>7. proceso'.fase = proceso.fase /\ proceso'.prop = Nulo
  BY <1>1, PropiedadSiguienteDe
<1>8. QED
  BY <1>1, <1>2, <1>3, <1>4, <1>5, <1>6, <1>7

(* What people edit changes no version and no property of a contract.       *)
LEMMA EdicionDe ==
  ASSUME MInv, Editar \/ CompletarFotos
  PROVE  /\ inventarios' = inventarios /\ proceso' = proceso
         /\ \A a \in DOMAIN agentes' : agentes'[a].editado = agentes[a].editado \/ agentes'[a].editado = TRUE
         /\ DOMAIN contratos' = DOMAIN contratos
         /\ \A c \in DOMAIN contratos :
              /\ contratos'[c].propiedad = contratos[c].propiedad
              /\ contratos'[c].inventory_version_id = contratos[c].inventory_version_id
              /\ contratos'[c].editado = contratos[c].editado \/ contratos'[c].editado = TRUE
              /\ \/ contratos'[c].fotos_inventario = contratos[c].fotos_inventario
                 \/ contratos'[c].fotos_inventario = "propias"
<1>1. inventarios' = inventarios /\ proceso' = proceso
  BY DEF Editar, CompletarFotos
<1>2. \/ agentes' = agentes
      \/ \E b \in DOMAIN agentes : agentes' = [agentes EXCEPT ![b].editado = TRUE]
  BY DEF Editar, CompletarFotos
<1>3. \/ contratos' = contratos
      \/ \E b \in DOMAIN contratos : contratos' = [contratos EXCEPT ![b].editado = TRUE]
      \/ \E b \in DOMAIN contratos : contratos' = [contratos EXCEPT ![b].fotos_inventario = "propias"]
  BY DEF Editar, CompletarFotos
<1>4. ASSUME NEW a \in DOMAIN agentes'
      PROVE  agentes'[a].editado = agentes[a].editado \/ agentes'[a].editado = TRUE
  <2>1. PICK d : d = agentes[a]
    OBVIOUS
  <2>2. PICK e : e = [d EXCEPT !.editado = TRUE]
    OBVIOUS
  <2>3. agentes'[a] \in {d, e} /\ a \in DOMAIN agentes
    BY <1>2, <1>4, <2>1, <2>2
  <2>4. EsAgente(a, d)
    BY <2>1, <2>3 DEF MInv, Colecciones
  <2>5. e.editado = TRUE
    BY <2>2, <2>4 DEF EsAgente
  <2>6. QED
    BY <2>1, <2>3, <2>5
<1>5. ASSUME NEW c \in DOMAIN contratos
      PROVE  /\ contratos'[c].propiedad = contratos[c].propiedad
             /\ contratos'[c].inventory_version_id = contratos[c].inventory_version_id
             /\ contratos'[c].editado = contratos[c].editado \/ contratos'[c].editado = TRUE
             /\ \/ contratos'[c].fotos_inventario = contratos[c].fotos_inventario
                \/ contratos'[c].fotos_inventario = "propias"
  <2>1. PICK d : d = contratos[c] /\ EsContrato(d)
    BY <1>5 DEF MInv, Colecciones
  <2>2. PICK e : e = [d EXCEPT !.editado = TRUE]
    OBVIOUS
  <2>3. PICK f : f = [d EXCEPT !.fotos_inventario = "propias"]
    OBVIOUS
  <2>4. contratos'[c] \in {d, e, f}
    BY <1>3, <1>5, <2>1, <2>2, <2>3
  <2>5. /\ e.propiedad = d.propiedad /\ e.inventory_version_id = d.inventory_version_id
        /\ e.editado = TRUE /\ e.fotos_inventario = d.fotos_inventario
    BY <2>1, <2>2 DEF EsContrato, CamposContrato
  <2>6. /\ f.propiedad = d.propiedad /\ f.inventory_version_id = d.inventory_version_id
        /\ f.editado = d.editado /\ f.fotos_inventario = "propias"
    BY <2>1, <2>3 DEF EsContrato, CamposContrato
  <2>7. QED
    BY <2>1, <2>4, <2>5, <2>6
<1>6. DOMAIN contratos' = DOMAIN contratos
  BY <1>3
<1>7. QED
  BY <1>1, <1>4, <1>5, <1>6

LEMMA PasoPrimeraVersion == MInv /\ PrimeraVersion /\ [MNext]_maestros => PrimeraVersion'
<1> SUFFICES ASSUME MInv, PrimeraVersion, [MNext]_maestros PROVE PrimeraVersion'
  OBVIOUS
<1>1. ASSUME NEW f \in Fases, Empezar(f) \/ EmpezarVaciando(f) \/ EnSeco(f)
      PROVE  PrimeraVersion'
  BY <1>1, EmpezarPrimeraVersion
<1>2. ASSUME NEW b \in BOOLEAN, MigratePropertiesFromLegacy(b)
      PROVE  PrimeraVersion'
  BY <1>2 DEF MigratePropertiesFromLegacy, PrimeraVersion
<1>3. ASSUME NEW id \in Documento, Insertar(id) \/ FalloAlInsertar(id)
      PROVE  PrimeraVersion'
  BY <1>3, InsertarPrimeraVersion
<1>4. ASSUME NEW p \in DOMAIN LPropiedades,
             CrearInventario(p) \/ CrearVersion(p) \/ ApuntarVersion(p) \/ FalloDeInventario(p)
      PROVE  PrimeraVersion'
  BY <1>4, InventarioPrimeraVersion
<1>5. ASSUME NEW p \in DOMAIN LPropiedades, ApuntarContratos(p)
      PROVE  PrimeraVersion'
  BY <1>5, ApuntarContratosDe DEF PrimeraVersion
<1>6. CASE Terminar \/ Morir
  <2>1. proceso' = Inactivo /\ UNCHANGED <<contratos, inventarios>>
    BY <1>6 DEF Terminar, Morir
  <2>2. proceso'.fase = "ninguna" /\ proceso'.prop = Nulo
    BY <2>1 DEF Inactivo
  <2>3. QED
    BY <2>1, <2>2 DEF PrimeraVersion
<1>7. CASE Editar \/ CompletarFotos
  BY <1>7, EdicionDe DEF PrimeraVersion
<1>8. CASE UNCHANGED maestros
  BY <1>8 DEF maestros, PrimeraVersion
<1>9. QED
  BY <1>1, <1>2, <1>3, <1>4, <1>5, <1>6, <1>7, <1>8 DEF MNext

LEMMA SiemprePrimeraVersion == MSpec => []PrimeraVersion
<1>1. MInit => PrimeraVersion
  BY Vacia DEF MInit, PrimeraVersion, Inactivo
<1>2. QED
  BY <1>1, SiempreMInv, PasoPrimeraVersion, PTL DEF MSpec

(* A step rewrites no document that people completed, moves no contract to  *)
(* another version, and takes its photos only with its first version.       *)
LEMMA PasoConservaEdiciones ==
  ASSUME MInv, PrimeraVersion, MNext
  PROVE  /\ \A a \in DOMAIN agentes \cap DOMAIN agentes' : agentes[a].editado => agentes'[a].editado
         /\ \A c \in DOMAIN contratos \cap DOMAIN contratos' :
              ContratoConservado(contratos[c], contratos'[c])
<1> DEFINE A == \A a \in DOMAIN agentes \cap DOMAIN agentes' : agentes[a].editado => agentes'[a].editado
           C == \A c \in DOMAIN contratos \cap DOMAIN contratos' :
                  ContratoConservado(contratos[c], contratos'[c])
<1>1. agentes' = agentes \/ agentes' = <<>> => A
  BY Vacia
<1>2. (\A c \in DOMAIN contratos \cap DOMAIN contratos' : contratos'[c] = contratos[c]) => C
  BY DEF ContratoConservado
<1>3. contratos' = contratos \/ contratos' = <<>> => C
  BY <1>2, Vacia
<1>4. ASSUME NEW id, Insertar(id)
      PROVE  A /\ C
  <2>1. ASSUME id \notin DOMAIN agentes, agentes' = Insertado(agentes, id, proceso.pend[id])
        PROVE  A
    <3>1. \A a \in DOMAIN agentes : agentes'[a] = agentes[a]
      BY <2>1 DEF Insertado
    <3>2. QED
      BY <3>1
  <2>2. ASSUME id \notin DOMAIN contratos, contratos' = Insertado(contratos, id, proceso.pend[id])
        PROVE  C
    <3>1. \A c \in DOMAIN contratos : contratos'[c] = contratos[c]
      BY <2>2 DEF Insertado
    <3>2. QED
      BY <1>2, <3>1
  <2> HIDE DEF A, C
  <2>3. QED
    BY <1>1, <1>3, <1>4, <2>1, <2>2, InsertarDe
<1>5. ASSUME NEW p, ApuntarContratos(p)
      PROVE  A /\ C
  <2>1. C
    BY <1>5, ApuntarContratosDe DEF ContratoConservado
  <2>2. QED
    BY <1>1, <1>5, <2>1, ApuntarContratosDe
<1>6. ASSUME Editar \/ CompletarFotos
      PROVE  A /\ C
  BY <1>6, EdicionDe DEF ContratoConservado
<1> HIDE DEF A, C
<1>7. ASSUME NEW f \in Fases, Empezar(f) \/ EmpezarVaciando(f) \/ EnSeco(f)
      PROVE  A /\ C
  BY <1>1, <1>3, <1>7 DEF Empezar, EmpezarVaciando, EnSeco
<1>8. ASSUME NEW b \in BOOLEAN, MigratePropertiesFromLegacy(b)
      PROVE  A /\ C
  BY <1>1, <1>3, <1>8 DEF MigratePropertiesFromLegacy
<1>9. ASSUME NEW id, FalloAlInsertar(id)
      PROVE  A /\ C
  BY <1>1, <1>3, <1>9 DEF FalloAlInsertar
<1>10. ASSUME NEW p, CrearInventario(p) \/ CrearVersion(p) \/ ApuntarVersion(p) \/ FalloDeInventario(p)
       PROVE  A /\ C
  BY <1>1, <1>3, <1>10 DEF CrearInventario, CrearVersion, ApuntarVersion, FalloDeInventario
<1>11. ASSUME Terminar \/ Morir
       PROVE  A /\ C
  BY <1>1, <1>3, <1>11 DEF Terminar, Morir
<1>12. A /\ C
  BY <1>4, <1>5, <1>6, <1>7, <1>8, <1>9, <1>10, <1>11 DEF MNext
<1>13. QED
  BY <1>12 DEF A, C

(* "Omiten registros ya migrados": running a script again rewrites neither  *)
(* an agent nor a contract somebody completed since (db-helpers.ts,         *)
(* bulkInsertWithDuplicateHandling), and a contract gets its inventory      *)
(* version once; only that first time does the script replace the photos    *)
(* people uploaded (02-migrate-inventories.ts).                             *)
THEOREM EdicionesSiemprePreservadas == MSpec => EdicionesPreservadas
<1>1. MInv /\ PrimeraVersion /\ [MNext]_maestros =>
        [ /\ \A a \in DOMAIN agentes \cap DOMAIN agentes' : agentes[a].editado => agentes'[a].editado
          /\ \A c \in DOMAIN contratos \cap DOMAIN contratos' :
               ContratoConservado(contratos[c], contratos'[c]) ]_maestros
  BY PasoConservaEdiciones
<1>2. QED
  BY <1>1, SiempreMInv, SiemprePrimeraVersion, PTL DEF MSpec, EdicionesPreservadas

----------------------------------------------------------------------------
(* The generation of the entries: the inductive invariant.                  *)

Contratos == DOMAIN GContratos
EsSecuencia(s) == \E A : s \in Seq(A)

CamposPeticion == {"fase", "lista", "k", "plan", "tope", "estrategia", "borrar", "seco"}
EsPeticion(q) ==
  /\ q = [x \in CamposPeticion |-> q[x]]
  /\ q.fase \in {"libre", "contar", "borrar", "generar"} /\ q.lista \in Seq(Contratos)
  /\ q.fase = "libre" <=> q.lista = <<>>
  /\ q.seco \in BOOLEAN
  /\ q.fase = "generar" =>
       /\ q.plan = PlanDe(q.lista[1], q.estrategia)
       /\ q.tope \in 0 .. Len(q.plan) /\ q.k \in 1 .. q.tope + 1

GTipos ==
  /\ asientosDe = [c \in Contratos |-> asientosDe[c]]
  /\ \A c \in Contratos : EsSecuencia(asientosDe[c])
  /\ peticion = [r \in Peticiones |-> peticion[r]]
  /\ \A r \in Peticiones : EsPeticion(peticion[r])
  /\ directo = [x \in {"activo", "lista"} |-> directo[x]]
  /\ directo.activo \in BOOLEAN /\ directo.lista \in Seq(Contratos) /\ IsInjective(directo.lista)
  /\ directo.activo \/ directo.lista = <<>>
  /\ informe = [c \in Contratos |-> informe[c]]
  /\ lote \in Int

EnDirecto(c) == c \in Alcance(directo)
Pide(r, c) == c \in Alcance(peticion[r])
(* The request is writing the entries of the contract.                      *)
Genera(r, c) == peticion[r].fase = "generar" /\ peticion[r].lista[1] = c /\ ~ peticion[r].seco
Escrito(q) == [i \in 1 .. q.k - 1 |-> q.plan[i]]
Comienza(s, t) == Len(s) <= Len(t) /\ \A i \in 1 .. Len(s) : s[i] = t[i]

(* What holds of a contract that one generation at most is working on.      *)
PorContrato(c) ==
  /\ \A r, s \in Peticiones : Pide(r, c) /\ Pide(s, c) => r = s
  /\ EnDirecto(c) => /\ \A r \in Peticiones : ~ Pide(r, c)
                     /\ asientosDe[c] = <<>> /\ informe[c] # "exito"
  /\ \A r \in Peticiones : Genera(r, c) => asientosDe[c] = Escrito(peticion[r])
  /\ \E plan \in Planes(c) : Comienza(asientosDe[c], plan)
  /\ informe[c] = "exito" =>
       \/ asientosDe[c] \in Planes(c)
       \/ \E r \in Peticiones : Pide(r, c) /\ ~ peticion[r].seco

GInv == GTipos /\ \A c \in Contratos \ solapados : PorContrato(c)

----------------------------------------------------------------------------
(* A set of naturals that is bounded and not empty has a greatest element.  *)
LEMMA Maximo ==
  ASSUME NEW N \in Nat, NEW S, S \subseteq 0 .. N, S # {}
  PROVE  Max(S) \in S /\ \A m \in S : m <= Max(S)
<1> DEFINE T == {n \in Nat : \A m \in S : m <= n}
<1>1. N \in T
  OBVIOUS
<1>2. PICK n \in T : \A m \in T : n <= m
  BY <1>1, Primero
<1>3. n \in S
  <2>1. SUFFICES ASSUME n \notin S PROVE FALSE
    OBVIOUS
  <2>2. n # 0
    <3>1. PICK m \in S : TRUE
      OBVIOUS
    <3>2. m \in 0 .. N /\ m <= n
      BY <3>1
    <3>3. QED
      BY <2>1, <3>1, <3>2
  <2>3. n - 1 \in T
    BY <2>1, <2>2
  <2>4. QED
    BY <2>3, <1>2
<1>4. \E x \in S : \A y \in S : x >= y
  BY <1>3
<1>5. QED
  BY <1>4 DEF Max

----------------------------------------------------------------------------
(* Plans are sequences.                                                     *)

LEMMA SecuenciaDe ==
  ASSUME NEW N \in Int, NEW s, s = [i \in 1 .. N |-> s[i]]
  PROVE  EsSecuencia(s)
<1> DEFINE M == IF N < 0 THEN 0 ELSE N
           A == {s[i] : i \in 1 .. N}
<1>1. M \in Nat /\ 1 .. M = 1 .. N
  OBVIOUS
<1>2. s \in [1 .. N -> A]
  OBVIOUS
<1>3. s \in Seq(A)
  BY <1>1, <1>2, SeqDef
<1>4. QED
  BY <1>3 DEF EsSecuencia

LEMMA Concatenada ==
  ASSUME NEW s, NEW t, EsSecuencia(s), EsSecuencia(t)
  PROVE  EsSecuencia(s \o t)
<1>1. PICK A : s \in Seq(A)
  BY DEF EsSecuencia
<1>2. PICK B : t \in Seq(B)
  BY DEF EsSecuencia
<1>3. s \in Seq(A \cup B) /\ t \in Seq(A \cup B)
  BY <1>1, <1>2, SeqMonotonic
<1>4. s \o t \in Seq(A \cup B)
  BY <1>3
<1>5. QED
  BY <1>4 DEF EsSecuencia

LEMMA Literales ==
  /\ EsSecuencia(<<>>)
  /\ \A a : EsSecuencia(<<a>>)
  /\ \A a, b : EsSecuencia(<<a, b>>)
<1>1. <<>> \in Seq({})
  OBVIOUS
<1>2. \A a : <<a>> \in Seq({a})
  OBVIOUS
<1>3. \A a, b : <<a, b>> \in Seq({a, b})
  OBVIOUS
<1>4. QED
  BY <1>1, <1>2, <1>3 DEF EsSecuencia

LEMMA PartesDelPlan ==
  ASSUME NEW t, t.inicio \in Int, t.fin \in Int, t.cuotasLocador \in Nat, t.cuotasLocatario \in Nat
  PROVE  /\ EsSecuencia(Alquileres(t, Tabla)) /\ EsSecuencia(Futuros(t, Hoy))
         /\ EsSecuencia(Depositos(t)) /\ EsSecuencia(Apertura(t, Tabla, Hoy))
         /\ EsSecuencia(HonorariosLocador(t)) /\ EsSecuencia(HonorariosLocatario(t))
         /\ EsSecuencia(PlanDirecto(t))
<1>1. MesesDelContrato(t) \in Int
  BY DEF MesesDelContrato
<1>2. EsSecuencia(Alquileres(t, Tabla))
  <2>1. PICK R : R = RentasHistoricas(t, Tabla)
    OBVIOUS
  <2>2. DOMAIN R = 1 .. MesesDelContrato(t)
    BY <2>1 DEF RentasHistoricas
  <2>3. Alquileres(t, Tabla) = [n \in DOMAIN R |-> Asiento("Alquiler", n, PartidasAlquiler(t, R[n]))]
    BY <2>1 DEF Alquileres
  <2>4. Alquileres(t, Tabla) = [n \in 1 .. MesesDelContrato(t) |-> Alquileres(t, Tabla)[n]]
    BY <2>2, <2>3
  <2>5. QED
    BY <1>1, <2>4, SecuenciaDe
<1>3. EsSecuencia(Futuros(t, Hoy))
  <2> DEFINE primero == 2 * (Hoy \div 2) + 2
             cuantos == IF Hoy >= t.fin \/ primero >= t.fin THEN 0 ELSE -((primero - t.fin) \div 2)
  <2>1. Hoy \in Int
    BY GeneracionAssumption
  <2>2. primero \in Int
    BY <2>1
  <2>3. cuantos \in Int
    <3> HIDE DEF primero
    <3> QED
      BY <2>1, <2>2
  <2>4. Futuros(t, Hoy) =
          [n \in 1 .. cuantos |-> Asiento("Alquiler", primero + 2 * (n - 1), PartidasAlquiler(t, t.monto))]
    BY DEF Futuros
  <2> HIDE DEF cuantos
  <2>5. Futuros(t, Hoy) = [n \in 1 .. cuantos |-> Futuros(t, Hoy)[n]]
    BY <2>4
  <2>6. QED
    BY <2>3, <2>5, SecuenciaDe
<1>4. EsSecuencia(Depositos(t))
  BY Literales DEF Depositos
<1>5. EsSecuencia(Apertura(t, Tabla, Hoy))
  BY Literales DEF Apertura
<1>6. EsSecuencia(HonorariosLocador(t))
  <2> DEFINE cuota == CuotaHonorarios(t, t.honLocador, t.cuotasLocador)
             N == IF cuota > 0 THEN t.cuotasLocador ELSE 0
  <2>1. N \in Int
    OBVIOUS
  <2>2. HonorariosLocador(t) = [n \in 1 .. N |-> HonorariosLocador(t)[n]]
    BY DEF HonorariosLocador
  <2> HIDE DEF N
  <2>3. QED
    BY <2>1, <2>2, SecuenciaDe
<1>7. EsSecuencia(HonorariosLocatario(t))
  <2> DEFINE cuota == CuotaHonorarios(t, t.honLocatario, t.cuotasLocatario)
             N == IF cuota > 0 THEN t.cuotasLocatario ELSE 0
  <2>1. N \in Int
    OBVIOUS
  <2>2. HonorariosLocatario(t) = [n \in 1 .. N |-> HonorariosLocatario(t)[n]]
    BY DEF HonorariosLocatario
  <2> HIDE DEF N
  <2>3. QED
    BY <2>1, <2>2, SecuenciaDe
<1>8. EsSecuencia(PlanDirecto(t))
  <2> DEFINE a == [n \in 1 .. MesesDelContrato(t) |->
                     Asiento("Alquiler Mensual", n, PartidasAlquiler(t, t.monto))]
  <2>1. EsSecuencia(a)
    <3>1. a = [n \in 1 .. MesesDelContrato(t) |-> a[n]]
      OBVIOUS
    <3> HIDE DEF a
    <3>2. QED
      BY <1>1, <3>1, SecuenciaDe
  <2>2. PlanDirecto(t) = IF ~ {"LOCADOR", "LOCATARIO"} \subseteq t.partes THEN <<>>
                         ELSE a \o Depositos(t) \o HonorariosLocador(t) \o HonorariosLocatario(t)
    BY DEF PlanDirecto
  <2> HIDE DEF a
  <2>3. EsSecuencia(a \o Depositos(t) \o HonorariosLocador(t) \o HonorariosLocatario(t))
    BY <1>4, <1>6, <1>7, <2>1, Concatenada
  <2>4. QED
    BY <2>2, <2>3, Literales
<1>9. QED
  BY <1>2, <1>3, <1>4, <1>5, <1>6, <1>7, <1>8

LEMMA PlanEsSecuencia ==
  ASSUME NEW c \in Contratos, NEW e
  PROVE  /\ EsSecuencia(PlanDe(c, e)) /\ PlanDe(c, e) \in Planes(c)
         /\ EsSecuencia(PlanDirecto(GContratos[c])) /\ PlanDirecto(GContratos[c]) \in Planes(c)
<1>1. PICK t : t = GContratos[c]
  OBVIOUS
<1>2. t.inicio \in Int /\ t.fin \in Int /\ t.cuotasLocador \in Nat /\ t.cuotasLocatario \in Nat
  BY <1>1, GeneracionAssumption DEF Contratos
<1>3. EsSecuencia(PlanApertura(t, Tabla, Hoy))
  BY <1>2, PartesDelPlan, Concatenada DEF PlanApertura
<1>4. EsSecuencia(PlanHistorial(t, Tabla))
  BY <1>2, PartesDelPlan, Concatenada DEF PlanHistorial
<1>5. EsSecuencia(PlanDirecto(t))
  BY <1>2, PartesDelPlan
<1>6. PlanDe(c, e) \in Planes(c) /\ EsSecuencia(PlanDe(c, e))
  BY <1>1, <1>3, <1>4 DEF PlanDe, Planes
<1>7. QED
  BY <1>1, <1>5, <1>6 DEF Planes

(* The first n entries of a plan.                                           *)
Tramo(p, n) == [i \in 1 .. n |-> p[i]]

LEMMA TramoEsComienzo ==
  ASSUME NEW p, EsSecuencia(p), NEW n \in 0 .. Len(p)
  PROVE  /\ EsSecuencia(Tramo(p, n)) /\ Comienza(Tramo(p, n), p) /\ Len(Tramo(p, n)) = n
         /\ n = Len(p) => Tramo(p, n) = p
         /\ n < Len(p) => Append(Tramo(p, n), p[n + 1]) = Tramo(p, n + 1)
<1>1. PICK A : p \in Seq(A)
  BY DEF EsSecuencia
<1>2. Len(p) \in Nat /\ n \in Nat /\ p \in [1 .. Len(p) -> A]
  BY <1>1
<1>3. Tramo(p, n) \in [1 .. n -> A]
  BY <1>2 DEF Tramo
<1>4. Tramo(p, n) \in Seq(A) /\ Len(Tramo(p, n)) = n
  BY <1>2, <1>3
<1>5. Comienza(Tramo(p, n), p)
  BY <1>2, <1>4 DEF Comienza, Tramo
<1>6. n = Len(p) => Tramo(p, n) = p
  BY <1>2 DEF Tramo
<1>7. ASSUME n < Len(p)
      PROVE  Append(Tramo(p, n), p[n + 1]) = Tramo(p, n + 1)
  <2>1. n + 1 \in Nat /\ n + 1 \in 1 .. Len(p) /\ p[n + 1] \in A
    BY <1>2, <1>7
  <2>2. Tramo(p, n + 1) \in [1 .. n + 1 -> A]
    BY <1>2, <2>1 DEF Tramo
  <2>3. Tramo(p, n + 1) \in Seq(A) /\ Len(Tramo(p, n + 1)) = n + 1
    BY <2>1, <2>2
  <2> DEFINE u == Append(Tramo(p, n), p[n + 1])
  <2>4. u \in Seq(A) /\ Len(u) = n + 1
    BY <1>4, <2>1
  <2>5. \A i \in 1 .. n + 1 : u[i] = Tramo(p, n + 1)[i]
    <3>1. TAKE i \in 1 .. n + 1
    <3>2. CASE i = n + 1
      <4>1. u[i] = p[n + 1]
        BY <1>4, <2>1, <3>2
      <4>2. QED
        BY <2>1, <3>2, <4>1 DEF Tramo
    <3>3. CASE i # n + 1
      <4>1. i \in 1 .. n
        BY <1>2, <3>3
      <4>2. u[i] = Tramo(p, n)[i]
        BY <1>4, <2>1, <4>1
      <4>3. QED
        BY <4>1, <4>2 DEF Tramo
    <3>4. QED
      BY <3>2, <3>3
  <2>6. QED
    BY <2>3, <2>4, <2>5, SeqEqual
<1>8. QED
  BY <1>4, <1>5, <1>6, <1>7 DEF EsSecuencia

LEMMA ComienzoEsPrefijo ==
  ASSUME NEW s, NEW t, EsSecuencia(s), EsSecuencia(t), Comienza(s, t)
  PROVE  IsPrefix(s, t)
<1>1. PICK A : s \in Seq(A)
  BY DEF EsSecuencia
<1>2. PICK B : t \in Seq(B)
  BY DEF EsSecuencia
<1>3. Len(s) \in Nat /\ Len(t) \in Nat /\ Len(s) <= Len(t)
  BY <1>1, <1>2 DEF Comienza
<1>4. \A i \in 1 .. Len(s) : i \in 1 .. Len(t) /\ s[i] = t[i]
  BY <1>3 DEF Comienza
<1>5. SubSeq(s, 1, Len(s)) = [i \in 1 .. Len(s) |-> s[i]]
  BY <1>1, <1>3
<1>6. SubSeq(t, 1, Len(s)) = [i \in 1 .. Len(s) |-> t[i]]
  BY <1>2, <1>3
<1>7. QED
  BY <1>3, <1>4, <1>5, <1>6 DEF IsPrefix

LEMMA VacioComienza ==
  ASSUME NEW c \in Contratos
  PROVE  \E plan \in Planes(c) : Comienza(<<>>, plan)
<1>1. PICK p : p = PlanDirecto(GContratos[c])
  OBVIOUS
<1>2. p \in Planes(c) /\ EsSecuencia(p)
  BY <1>1, PlanEsSecuencia
<1>3. Len(<<>>) = 0 /\ Len(p) \in Nat
  BY <1>2 DEF EsSecuencia
<1>4. Comienza(<<>>, p)
  BY <1>3 DEF Comienza
<1>5. QED
  BY <1>2, <1>4

(* What stops the writing leaves a beginning of the plan.                   *)
LEMMA TopeDelPlan ==
  ASSUME NEW c \in Contratos, NEW p, EsSecuencia(p)
  PROVE  Interrupcion(GContratos[c], Tabla, p) \in 0 .. Len(p)
<1> DEFINE malos == {k \in DOMAIN p : ~ ConParte(GContratos[c], p[k])} \cup SinIndice(GContratos[c], Tabla)
           S == {n \in 0 .. Len(p) : malos \cap 1 .. n = {}}
<1>1. Len(p) \in Nat
  BY DEF EsSecuencia
<1>2. 0 \in S /\ S \subseteq 0 .. Len(p)
  BY <1>1
<1>3. Interrupcion(GContratos[c], Tabla, p) = Max(S)
  BY DEF Interrupcion
<1> HIDE DEF S
<1>4. Max(S) \in S
  BY <1>1, <1>2, Maximo
<1>5. QED
  BY <1>2, <1>3, <1>4

----------------------------------------------------------------------------
(* What a request goes on with.                                             *)

LEMMA SiguientePeticion ==
  ASSUME NEW q, EsPeticion(q), q.fase # "libre", NEW n, n = ContratoSiguiente(q)
  PROVE  /\ EsPeticion(n) /\ n.fase # "generar"
         /\ Alcance(n) \subseteq Alcance(q) /\ Alcance(q) \ {q.lista[1]} \subseteq Alcance(n)
         /\ q.lista[1] \in Contratos /\ q.lista[1] \in Alcance(q)
         /\ n.seco = q.seco \/ Alcance(n) = {}
<1>1. q.lista \in Seq(Contratos) /\ q.lista # <<>> /\ Len(q.lista) \in Nat /\ Len(q.lista) # 0
  BY DEF EsPeticion
<1>2. 1 \in DOMAIN q.lista /\ q.lista[1] \in Contratos /\ q.lista[1] \in Alcance(q)
  BY <1>1 DEF Alcance
<1>3. CASE Len(q.lista) = 1
  <2>1. n = SinPeticion
    BY <1>3 DEF ContratoSiguiente
  <2>2. n.lista = <<>> /\ n.fase = "libre" /\ n.seco = FALSE
    BY <2>1 DEF SinPeticion
  <2>3. EsPeticion(n)
    <3>1. n = [x \in CamposPeticion |-> n[x]]
      BY <2>1 DEF SinPeticion, CamposPeticion
    <3>2. <<>> \in Seq(Contratos)
      OBVIOUS
    <3>3. QED
      BY <2>2, <3>1, <3>2 DEF EsPeticion
  <2>4. Alcance(n) = {}
    BY <2>2 DEF Alcance
  <2>5. Alcance(q) = {q.lista[1]}
    BY <1>1, <1>3 DEF Alcance
  <2>6. QED
    BY <1>2, <2>2, <2>3, <2>4, <2>5
<1>4. CASE Len(q.lista) # 1
  <2>1. n = [q EXCEPT !.fase = "contar", !.lista = Tail(@), !.k = 1]
    BY <1>4 DEF ContratoSiguiente
  <2>2. q = [x \in CamposPeticion |-> q[x]]
    BY DEF EsPeticion
  <2>3. /\ n = [x \in CamposPeticion |-> n[x]] /\ n.fase = "contar" /\ n.lista = Tail(q.lista)
        /\ n.seco = q.seco
    BY <2>1, <2>2 DEF CamposPeticion
  <2>4. /\ n.lista \in Seq(Contratos) /\ Len(n.lista) = Len(q.lista) - 1
        /\ \A i \in 1 .. Len(q.lista) - 1 : n.lista[i] = q.lista[i + 1]
    <3>1. PICK u : u = q.lista
      OBVIOUS
    <3>2. u \in Seq(Contratos) /\ u # <<>>
      BY <1>1, <3>1
    <3>3. /\ Tail(u) \in Seq(Contratos) /\ Len(Tail(u)) = Len(u) - 1
          /\ \A i \in 1 .. Len(u) - 1 : Tail(u)[i] = u[i + 1]
      BY <3>2, HeadTailProperties
    <3>4. QED
      BY <2>3, <3>1, <3>3
  <2>5. n.lista # <<>>
    <3>1. Len(n.lista) # 0
      BY <1>1, <1>4, <2>4
    <3>2. QED
      BY <3>1, EmptySeq
  <2>6. EsPeticion(n)
    BY <2>3, <2>4, <2>5 DEF EsPeticion
  <2>7. DOMAIN q.lista = 1 .. Len(q.lista) /\ DOMAIN n.lista = 1 .. Len(q.lista) - 1
    BY <1>1, <2>4
  <2>8. ASSUME NEW i \in 1 .. Len(q.lista) - 1
        PROVE  n.lista[i] = q.lista[i + 1] /\ i + 1 \in 1 .. Len(q.lista)
    BY <1>1, <2>4
  <2>9. Alcance(n) \subseteq Alcance(q)
    BY <2>7, <2>8 DEF Alcance
  <2>10. ASSUME NEW i \in 1 .. Len(q.lista), i # 1
         PROVE  q.lista[i] \in Alcance(n)
    <3>1. i - 1 \in 1 .. Len(q.lista) - 1 /\ (i - 1) + 1 = i
      BY <1>1, <2>10
    <3>2. QED
      BY <2>7, <2>8, <3>1 DEF Alcance
  <2>11. Alcance(q) \ {q.lista[1]} \subseteq Alcance(n)
    BY <2>7, <2>10 DEF Alcance
  <2>12. QED
    BY <1>2, <2>3, <2>6, <2>9, <2>11
<1>5. QED
  BY <1>3, <1>4

LEMMA PeticionConPlan ==
  ASSUME NEW q, EsPeticion(q), q.fase # "libre", NEW n, n = ConPlan(q, q.lista[1])
  PROVE  /\ EsPeticion(n) /\ n.fase = "generar" /\ n.k = 1
         /\ n.lista = q.lista /\ n.seco = q.seco
<1>1. PICK c \in Contratos : c = q.lista[1]
  BY DEF EsPeticion
<1>2. PICK p : p = PlanDe(c, q.estrategia)
  OBVIOUS
<1>3. PICK tope : tope = Interrupcion(GContratos[c], Tabla, p)
  OBVIOUS
<1>4. EsSecuencia(p) /\ tope \in 0 .. Len(p)
  BY <1>2, <1>3, PlanEsSecuencia, TopeDelPlan
<1>5. n = [q EXCEPT !.fase = "generar", !.k = 1, !.plan = p, !.tope = tope]
  BY <1>1, <1>2, <1>3 DEF ConPlan
<1>6. q = [x \in CamposPeticion |-> q[x]]
  BY DEF EsPeticion
<1>7. /\ n = [x \in CamposPeticion |-> n[x]] /\ n.fase = "generar" /\ n.lista = q.lista
      /\ n.seco = q.seco /\ n.k = 1 /\ n.plan = p /\ n.tope = tope /\ n.estrategia = q.estrategia
  BY <1>5, <1>6 DEF CamposPeticion
<1>8. 1 \in 1 .. tope + 1
  <2>1. tope \in Nat
    BY <1>4 DEF EsSecuencia
  <2>2. QED
    BY <2>1
<1>9. q.lista # <<>> /\ q.lista \in Seq(Contratos) /\ q.seco \in BOOLEAN
  BY DEF EsPeticion
<1>10. EsPeticion(n)
  BY <1>1, <1>2, <1>4, <1>7, <1>8, <1>9 DEF EsPeticion
<1>11. QED
  BY <1>7, <1>10

(* A step of one request disturbs the contract it is about only.            *)
LEMMA PasoDePeticion ==
  ASSUME GInv, NEW r \in Peticiones, NEW n, EsPeticion(n),
         NEW c0, c0 \in Contratos, Pide(r, c0),
         peticion' = [peticion EXCEPT ![r] = n],
         directo' = directo, lote' = lote, solapados' = solapados,
         asientosDe' = [c \in Contratos |-> asientosDe'[c]],
         informe' = [c \in Contratos |-> informe'[c]],
         \A c \in Contratos : c # c0 => asientosDe'[c] = asientosDe[c] /\ informe'[c] = informe[c],
         EsSecuencia(asientosDe'[c0]),
         Alcance(n) \subseteq Alcance(peticion[r]), Alcance(peticion[r]) \ {c0} \subseteq Alcance(n),
         n.seco = peticion[r].seco \/ Alcance(n) = {},
         n.fase = "generar" => n.lista[1] = c0,
         c0 \notin solapados =>
           /\ n.fase = "generar" /\ ~ n.seco => asientosDe'[c0] = Escrito(n)
           /\ \E plan \in Planes(c0) : Comienza(asientosDe'[c0], plan)
           /\ informe'[c0] = "exito" =>
                asientosDe'[c0] \in Planes(c0) \/ (c0 \in Alcance(n) /\ ~ n.seco)
                  \/ (informe[c0] = "exito" /\ asientosDe'[c0] = asientosDe[c0] /\ peticion[r].seco)
  PROVE  GInv'
<1>1. GTipos
  BY DEF GInv
<1>2. /\ peticion' = [s \in Peticiones |-> peticion'[s]] /\ peticion'[r] = n
      /\ \A s \in Peticiones : s # r => peticion'[s] = peticion[s]
  BY <1>1 DEF GTipos
<1>3. GTipos'
  BY <1>1, <1>2 DEF GTipos
<1>4. \A s \in Peticiones : \A c : Pide(s, c)' => Pide(s, c)
  BY <1>2 DEF Pide
<1>5. \A c : EnDirecto(c)' <=> EnDirecto(c)
  BY DEF EnDirecto
<1>6. \A c : Planes(c)' = Planes(c)
  BY DEF Planes, PlanDe
<1>7. ASSUME NEW c \in Contratos \ solapados
      PROVE  PorContrato(c)'
  <2>1. PorContrato(c)
    BY <1>7 DEF GInv
  <2>2. \A s, t \in Peticiones : Pide(s, c)' /\ Pide(t, c)' => s = t
    BY <1>4, <2>1 DEF PorContrato
  <2>3. CASE c = c0
    <3>1. ~ EnDirecto(c)'
      BY <1>5, <2>1, <2>3 DEF PorContrato
    <3>2. ASSUME NEW s \in Peticiones, Genera(s, c)'
          PROVE  asientosDe'[c] = Escrito(peticion'[s])
      <4>1. Pide(s, c)'
        <5>1. peticion'[s].lista[1] = c /\ peticion'[s].lista # <<>> /\ peticion'[s].lista \in Seq(Contratos)
          BY <1>3, <3>2 DEF Genera, GTipos, EsPeticion
        <5>2. 1 \in DOMAIN peticion'[s].lista
          BY <5>1
        <5>3. QED
          BY <5>1, <5>2 DEF Pide, Alcance
      <4>2. s = r
        BY <1>4, <2>1, <2>3, <4>1 DEF PorContrato
      <4>3. n.fase = "generar" /\ ~ n.seco
        BY <1>2, <3>2, <4>2 DEF Genera
      <4>4. QED
        BY <1>2, <1>7, <2>3, <4>2, <4>3
    <3>3. \E plan \in Planes(c)' : Comienza(asientosDe'[c], plan)
      BY <1>6, <1>7, <2>3
    <3>4. ASSUME informe'[c] = "exito"
          PROVE  \/ asientosDe'[c] \in Planes(c)'
                 \/ \E s \in Peticiones : Pide(s, c)' /\ ~ peticion'[s].seco
      <4>1. CASE asientosDe'[c0] \in Planes(c0)
        BY <1>6, <2>3, <4>1
      <4>2. CASE c0 \in Alcance(n) /\ ~ n.seco
        BY <1>2, <2>3, <4>2 DEF Pide
      <4>3. CASE informe[c0] = "exito" /\ asientosDe'[c0] = asientosDe[c0] /\ peticion[r].seco
        <5>1. ~ \E s \in Peticiones : Pide(s, c) /\ ~ peticion[s].seco
          BY <2>1, <2>3, <4>3 DEF PorContrato
        <5>2. asientosDe[c] \in Planes(c)
          BY <2>1, <2>3, <4>3, <5>1 DEF PorContrato
        <5>3. QED
          BY <1>6, <2>3, <4>3, <5>2
      <4>4. QED
        BY <1>7, <2>3, <3>4, <4>1, <4>2, <4>3
    <3>5. QED
      BY <2>2, <3>1, <3>2, <3>3, <3>4 DEF PorContrato, Comienza, Escrito
  <2>4. CASE c # c0
    <3>1. asientosDe'[c] = asientosDe[c] /\ informe'[c] = informe[c]
      BY <1>7, <2>4
    <3>2. \A s \in Peticiones : Pide(s, c)' <=> Pide(s, c)
      BY <1>2, <1>4, <2>4 DEF Pide
    <3>3. \A s \in Peticiones : Genera(s, c)' => Genera(s, c) /\ peticion'[s] = peticion[s]
      BY <1>2, <2>4 DEF Genera
    <3>4. EnDirecto(c)' =>
            /\ \A s \in Peticiones : ~ Pide(s, c)' 
            /\ asientosDe'[c] = <<>> /\ informe'[c] # "exito"
      BY <1>5, <2>1, <3>1, <3>2 DEF PorContrato
    <3>5. \A s \in Peticiones : Genera(s, c)' => asientosDe'[c] = Escrito(peticion'[s])
      BY <2>1, <3>1, <3>3 DEF PorContrato
    <3>6. \E plan \in Planes(c)' : Comienza(asientosDe'[c], plan)
      BY <1>6, <2>1, <3>1 DEF PorContrato
    <3>7. ASSUME NEW s \in Peticiones, Pide(s, c), ~ peticion[s].seco
          PROVE  Pide(s, c)' /\ ~ peticion'[s].seco
      <4>1. CASE s # r
        BY <1>2, <3>2, <3>7, <4>1
      <4>2. CASE s = r
        <5>1. c \in Alcance(n)
          BY <1>2, <3>2, <3>7, <4>2 DEF Pide
        <5>2. n.seco = peticion[r].seco
          BY <5>1
        <5>3. QED
          BY <1>2, <3>2, <3>7, <4>2, <5>2
      <4>3. QED
        BY <4>1, <4>2
    <3>8. informe'[c] = "exito" =>
            \/ asientosDe'[c] \in Planes(c)'
            \/ \E s \in Peticiones : Pide(s, c)' /\ ~ peticion'[s].seco
      BY <1>6, <2>1, <3>1, <3>7 DEF PorContrato
    <3>9. QED
      BY <2>2, <3>4, <3>5, <3>6, <3>8 DEF PorContrato, Comienza, Escrito
  <2>5. QED
    BY <2>3, <2>4
<1>8. QED
  BY <1>3, <1>7 DEF GInv

----------------------------------------------------------------------------
(* The invariant, action by action.                                         *)

LEMMA EnCursoPide ==
  ASSUME GInv, NEW r \in Peticiones, peticion[r].fase # "libre"
  PROVE  /\ EsPeticion(peticion[r]) /\ Actual(r) = peticion[r].lista[1]
         /\ Actual(r) \in Contratos /\ Pide(r, Actual(r))
<1>1. EsPeticion(peticion[r])
  BY DEF GInv, GTipos
<1>2. PICK n : n = ContratoSiguiente(peticion[r])
  OBVIOUS
<1>3. QED
  BY <1>1, <1>2, SiguientePeticion DEF Actual, Pide

LEMMA ObraDe ==
  \A c : c \in EnObra <=> EnDirecto(c) \/ \E r \in Peticiones : Pide(r, c)
<1> SUFFICES ASSUME NEW c
             PROVE  c \in EnObra <=> EnDirecto(c) \/ \E r \in Peticiones : Pide(r, c)
  OBVIOUS
<1>1. c \in EnObra <=> \/ c \in UNION {Alcance(peticion[r]) : r \in Peticiones}
                       \/ c \in Alcance(directo)
  BY Zenon DEF EnObra
<1>2. c \in UNION {Alcance(peticion[r]) : r \in Peticiones} <=> \E r \in Peticiones : Pide(r, c)
  BY Zenon DEF Pide
<1>3. EnDirecto(c) <=> c \in Alcance(directo)
  BY Zenon DEF EnDirecto
<1>4. QED
  BY <1>1, <1>2, <1>3, Zenon

LEMMA InitGInv == GInit => GInv
<1> SUFFICES ASSUME GInit PROVE GInv
  OBVIOUS
<1>1. EsPeticion(SinPeticion) /\ Alcance(SinPeticion) = {}
  <2>1. PICK n : n = SinPeticion
    OBVIOUS
  <2>2. n = [x \in CamposPeticion |-> n[x]] /\ n.lista = <<>> /\ n.fase = "libre" /\ n.seco = FALSE
    BY <2>1 DEF SinPeticion, CamposPeticion
  <2>3. <<>> \in Seq(Contratos) /\ DOMAIN <<>> = {}
    OBVIOUS
  <2>4. EsPeticion(n) /\ Alcance(n) = {}
    BY <2>2, <2>3 DEF EsPeticion, Alcance
  <2>5. QED
    BY <2>1, <2>4
<1>2. directo = [activo |-> FALSE, lista |-> <<>>]
  BY DEF GInit, Parado
<1>3. /\ directo = [x \in {"activo", "lista"} |-> directo[x]]
      /\ directo.activo = FALSE /\ directo.lista = <<>>
  BY <1>2
<1>4. <<>> \in Seq(Contratos) /\ IsInjective(<<>>) /\ Alcance(directo) = {}
  BY <1>3 DEF IsInjective, Alcance
<1>5. GTipos
  <2>1. /\ asientosDe = [c \in Contratos |-> <<>>] /\ informe = [c \in Contratos |-> "nada"]
        /\ peticion = [r \in Peticiones |-> SinPeticion] /\ lote = 0
    BY DEF GInit, Contratos
  <2>2. /\ asientosDe = [c \in Contratos |-> asientosDe[c]]
        /\ informe = [c \in Contratos |-> informe[c]]
        /\ peticion = [r \in Peticiones |-> peticion[r]]
    BY <2>1
  <2>3. \A c \in Contratos : EsSecuencia(asientosDe[c])
    BY <2>1, Literales
  <2>4. \A r \in Peticiones : EsPeticion(peticion[r])
    BY <1>1, <2>1
  <2>5. lote \in Int
    BY <2>1
  <2>6. QED
    BY <1>3, <1>4, <2>2, <2>3, <2>4, <2>5 DEF GTipos
<1>6. ASSUME NEW c \in Contratos PROVE PorContrato(c)
  <2>1. asientosDe[c] = <<>> /\ informe[c] = "nada" /\ \A r \in Peticiones : peticion[r] = SinPeticion
    BY DEF GInit, Contratos
  <2>2. \A r \in Peticiones : ~ Pide(r, c) /\ ~ Genera(r, c)
    BY <1>1, <2>1 DEF Pide, Genera, SinPeticion
  <2>3. ~ EnDirecto(c)
    BY <1>4 DEF EnDirecto
  <2>4. \E plan \in Planes(c) : Comienza(<<>>, plan)
    BY VacioComienza
  <2>5. QED
    BY <2>1, <2>2, <2>3, <2>4 DEF PorContrato
<1>7. QED
  BY <1>5, <1>6 DEF GInv

LEMMA PasoContar ==
  ASSUME GInv, NEW r \in Peticiones, Contar(r)
  PROVE  GInv'
<1> DEFINE q == peticion[r]
           c0 == Actual(r)
<1>1. q.fase = "contar"
  BY DEF Contar
<1>2. EsPeticion(q) /\ c0 = q.lista[1] /\ c0 \in Contratos /\ Pide(r, c0)
  BY <1>1, EnCursoPide
<1>3. GTipos
  BY DEF GInv
<1>4. /\ asientosDe' = asientosDe /\ directo' = directo /\ lote' = lote /\ solapados' = solapados
      /\ EsSecuencia(asientosDe'[c0]) /\ asientosDe' = [c \in Contratos |-> asientosDe'[c]]
  BY <1>2, <1>3 DEF Contar, GTipos
<1>5. c0 \notin solapados => \E plan \in Planes(c0) : Comienza(asientosDe'[c0], plan)
  BY <1>2, <1>4 DEF GInv, PorContrato
<1>6. CASE asientosDe[c0] = <<>>
  <2>1. PICK n : n = ConPlan(q, c0)
    OBVIOUS
  <2>2. peticion' = [peticion EXCEPT ![r] = n] /\ informe' = informe
    BY <1>6, <2>1 DEF Contar
  <2>3. EsPeticion(n) /\ n.fase = "generar" /\ n.k = 1 /\ n.lista = q.lista /\ n.seco = q.seco
    BY <1>1, <1>2, <2>1, PeticionConPlan
  <2>4. Alcance(n) = Alcance(q)
    BY <2>3 DEF Alcance
  <2>5. Escrito(n) = <<>>
    BY <2>3 DEF Escrito
  <2>6. c0 \notin solapados /\ informe'[c0] = "exito" =>
          \/ asientosDe'[c0] \in Planes(c0)
          \/ c0 \in Alcance(n) /\ ~ n.seco
          \/ informe[c0] = "exito" /\ asientosDe'[c0] = asientosDe[c0] /\ q.seco
    BY <1>2, <1>4, <2>2, <2>3, <2>4 DEF Pide, EsPeticion
  <2>7. informe' = [c \in Contratos |-> informe'[c]]
    BY <1>3, <2>2 DEF GTipos
  <2>8. QED
    BY <1>2, <1>4, <1>5, <1>6, <2>2, <2>3, <2>4, <2>5, <2>6, <2>7, PasoDePeticion
<1>7. CASE asientosDe[c0] # <<>> /\ q.borrar
  <2>1. PICK n : n = [q EXCEPT !.fase = "borrar"]
    OBVIOUS
  <2>2. peticion' = [peticion EXCEPT ![r] = n] /\ informe' = informe
    BY <1>3, <1>7, <2>1 DEF Contar, GTipos
  <2>3. /\ n = [x \in CamposPeticion |-> n[x]] /\ n.fase = "borrar" /\ n.lista = q.lista
        /\ n.seco = q.seco
    BY <1>2, <2>1 DEF EsPeticion, CamposPeticion
  <2>4. EsPeticion(n)
    BY <1>1, <1>2, <2>3 DEF EsPeticion
  <2>9. Alcance(n) = Alcance(q)
    BY <2>3 DEF Alcance
  <2>5. informe' = [c \in Contratos |-> informe'[c]]
    BY <1>3, <2>2 DEF GTipos
  <2>6. QED
    BY <1>2, <1>4, <1>5, <2>2, <2>3, <2>4, <2>9, <2>5, PasoDePeticion DEF Pide, EsPeticion
<1>8. CASE asientosDe[c0] # <<>> /\ ~ q.borrar
  <2>1. PICK n : n = ContratoSiguiente(q)
    OBVIOUS
  <2>2. /\ peticion' = [peticion EXCEPT ![r] = n]
        /\ informe' = [informe EXCEPT ![c0] = IF q.seco THEN @ ELSE "error"]
    BY <1>8, <2>1 DEF Contar, ConResultado
  <2>3. /\ EsPeticion(n) /\ n.fase # "generar"
        /\ Alcance(n) \subseteq Alcance(q) /\ Alcance(q) \ {c0} \subseteq Alcance(n)
        /\ n.seco = q.seco \/ Alcance(n) = {}
    BY <1>1, <1>2, <2>1, SiguientePeticion
  <2>4. /\ informe' = [c \in Contratos |-> informe'[c]]
        /\ \A c \in Contratos : c # c0 => informe'[c] = informe[c]
        /\ informe'[c0] = "exito" => q.seco /\ informe[c0] = "exito"
    BY <1>2, <1>3, <2>2 DEF GTipos
  <2>5. QED
    BY <1>2, <1>4, <1>5, <2>2, <2>3, <2>4, PasoDePeticion
<1>9. QED
  BY <1>6, <1>7, <1>8

LEMMA PasoBorrarExistentes ==
  ASSUME GInv, NEW r \in Peticiones, BorrarExistentes(r)
  PROVE  GInv'
<1> DEFINE q == peticion[r]
           c0 == Actual(r)
<1>1. q.fase = "borrar"
  BY DEF BorrarExistentes
<1>2. EsPeticion(q) /\ c0 = q.lista[1] /\ c0 \in Contratos /\ Pide(r, c0) /\ q.seco \in BOOLEAN
  BY <1>1, EnCursoPide DEF EsPeticion
<1>3. GTipos
  BY DEF GInv
<1>4. PICK n : n = ConPlan(q, c0)
  OBVIOUS
<1>5. /\ peticion' = [peticion EXCEPT ![r] = n] /\ informe' = informe
      /\ directo' = directo /\ lote' = lote /\ solapados' = solapados
      /\ asientosDe' = IF q.seco THEN asientosDe ELSE [asientosDe EXCEPT ![c0] = <<>>]
  BY <1>4 DEF BorrarExistentes
<1>6. EsPeticion(n) /\ n.fase = "generar" /\ n.k = 1 /\ n.lista = q.lista /\ n.seco = q.seco
  BY <1>1, <1>2, <1>4, PeticionConPlan
<1>7. Alcance(n) = Alcance(q) /\ Escrito(n) = <<>>
  BY <1>6 DEF Alcance, Escrito
<1>8. /\ asientosDe' = [c \in Contratos |-> asientosDe'[c]]
      /\ informe' = [c \in Contratos |-> informe'[c]]
      /\ \A c \in Contratos : c # c0 => asientosDe'[c] = asientosDe[c]
      /\ asientosDe'[c0] = IF q.seco THEN asientosDe[c0] ELSE <<>>
  BY <1>2, <1>3, <1>5 DEF GTipos
<1>9. EsSecuencia(asientosDe'[c0])
  BY <1>2, <1>3, <1>8, Literales DEF GTipos
<1>10. c0 \notin solapados => \E plan \in Planes(c0) : Comienza(asientosDe'[c0], plan)
  BY <1>2, <1>8, VacioComienza DEF GInv, PorContrato
<1>11. informe'[c0] = "exito" =>
          \/ asientosDe'[c0] \in Planes(c0)
          \/ c0 \in Alcance(n) /\ ~ n.seco
          \/ informe[c0] = "exito" /\ asientosDe'[c0] = asientosDe[c0] /\ q.seco
  BY <1>2, <1>5, <1>6, <1>7, <1>8 DEF Pide
<1>12. n.fase = "generar" /\ ~ n.seco => asientosDe'[c0] = Escrito(n)
  BY <1>6, <1>7, <1>8
<1>13. QED
  BY <1>2, <1>5, <1>6, <1>7, <1>8, <1>9, <1>10, <1>11, <1>12, PasoDePeticion

LEMMA PasoCrearAsiento ==
  ASSUME GInv, NEW r \in Peticiones, CrearAsiento(r)
  PROVE  GInv'
<1> DEFINE q == peticion[r]
           c0 == Actual(r)
<1>1. q.fase = "generar" /\ q.k <= q.tope
  BY DEF CrearAsiento
<1>2. /\ EsPeticion(q) /\ c0 = q.lista[1] /\ c0 \in Contratos /\ Pide(r, c0) /\ q.seco \in BOOLEAN
      /\ q.plan = PlanDe(c0, q.estrategia) /\ q.tope \in 0 .. Len(q.plan) /\ q.k \in 1 .. q.tope + 1
  BY <1>1, EnCursoPide DEF EsPeticion
<1>3. GTipos
  BY DEF GInv
<1>4. PICK p : p = q.plan
  OBVIOUS
<1>5. PICK k : k = q.k
  OBVIOUS
<1>6. EsSecuencia(p) /\ p \in Planes(c0)
  BY <1>2, <1>4, PlanEsSecuencia
<1>7. /\ Len(p) \in Nat /\ k \in 1 .. Len(p) /\ k \in 1 .. q.tope /\ k + 1 \in 1 .. q.tope + 1
      /\ k - 1 \in 0 .. Len(p) /\ k - 1 < Len(p) /\ (k - 1) + 1 = k /\ k \in 0 .. Len(p)
      /\ (k + 1) - 1 = k
  <2>1. Len(p) \in Nat
    BY <1>6 DEF EsSecuencia
  <2>2. q.tope \in 0 .. Len(p) /\ k \in 1 .. q.tope + 1 /\ k <= q.tope
    BY <1>1, <1>2, <1>4, <1>5
  <2>3. QED
    BY <2>1, <2>2
<1>8. PICK n : n = [q EXCEPT !.k = @ + 1]
  OBVIOUS
<1>9. /\ peticion' = [peticion EXCEPT ![r] = n] /\ informe' = informe
      /\ directo' = directo /\ lote' = lote /\ solapados' = solapados
      /\ asientosDe' = IF q.seco THEN asientosDe ELSE [asientosDe EXCEPT ![c0] = Append(@, p[k])]
  BY <1>3, <1>4, <1>5, <1>8 DEF CrearAsiento, GTipos
<1>10. /\ n = [x \in CamposPeticion |-> n[x]] /\ n.fase = "generar" /\ n.k = k + 1 /\ n.lista = q.lista
       /\ n.plan = p /\ n.tope = q.tope /\ n.seco = q.seco /\ n.estrategia = q.estrategia
  BY <1>1, <1>2, <1>4, <1>5, <1>8 DEF EsPeticion, CamposPeticion
<1>11. EsPeticion(n) /\ Alcance(n) = Alcance(q)
  <2>1. n.plan = PlanDe(n.lista[1], n.estrategia)
    BY <1>2, <1>4, <1>10
  <2>2. n.tope \in 0 .. Len(n.plan) /\ n.k \in 1 .. n.tope + 1
    BY <1>2, <1>4, <1>7, <1>10
  <2>3. n.lista \in Seq(Contratos) /\ n.lista # <<>> /\ n.seco \in BOOLEAN
    BY <1>1, <1>2, <1>10 DEF EsPeticion
  <2>4. EsPeticion(n)
    BY <1>10, <2>1, <2>2, <2>3 DEF EsPeticion
  <2>5. QED
    BY <1>10, <2>4 DEF Alcance
<1>12. /\ asientosDe' = [c \in Contratos |-> asientosDe'[c]]
       /\ informe' = [c \in Contratos |-> informe'[c]]
       /\ \A c \in Contratos : c # c0 => asientosDe'[c] = asientosDe[c]
       /\ asientosDe'[c0] = IF q.seco THEN asientosDe[c0] ELSE Append(asientosDe[c0], p[k])
  BY <1>2, <1>3, <1>9 DEF GTipos
<1>13. EsSecuencia(asientosDe'[c0])
  <2>1. PICK A : asientosDe[c0] \in Seq(A)
    BY <1>2, <1>3 DEF GTipos, EsSecuencia
  <2>2. asientosDe[c0] \in Seq(A \cup {p[k]}) /\ p[k] \in A \cup {p[k]}
    BY <2>1, SeqMonotonic
  <2>3. Append(asientosDe[c0], p[k]) \in Seq(A \cup {p[k]})
    BY <2>2
  <2>4. QED
    BY <1>12, <2>1, <2>3 DEF EsSecuencia
<1>14. ASSUME c0 \notin solapados, ~ q.seco
       PROVE  asientosDe'[c0] = Escrito(n) /\ Comienza(asientosDe'[c0], p)
  <2>1. Genera(r, c0)
    BY <1>1, <1>2, <1>14 DEF Genera
  <2>2. asientosDe[c0] = Escrito(q)
    BY <1>2, <1>14, <2>1 DEF GInv, PorContrato
  <2>3. Escrito(q) = Tramo(p, k - 1) /\ Escrito(n) = Tramo(p, k)
    BY <1>4, <1>5, <1>7, <1>10 DEF Escrito, Tramo
  <2>4. Append(Tramo(p, k - 1), p[k]) = Tramo(p, k)
    <3>1. PICK m : m = k - 1
      OBVIOUS
    <3>2. m \in 0 .. Len(p) /\ m < Len(p) /\ m + 1 = k
      BY <1>7, <3>1
    <3>3. Append(Tramo(p, m), p[m + 1]) = Tramo(p, m + 1)
      BY <1>6, <3>2, TramoEsComienzo
    <3>4. QED
      BY <3>1, <3>2, <3>3
  <2>5. Comienza(Tramo(p, k), p)
    BY <1>6, <1>7, TramoEsComienzo
  <2>6. QED
    BY <1>12, <1>14, <2>2, <2>3, <2>4, <2>5
<1>15. c0 \notin solapados => \E plan \in Planes(c0) : Comienza(asientosDe'[c0], plan)
  BY <1>2, <1>6, <1>12, <1>14 DEF GInv, PorContrato
<1>16. informe'[c0] = "exito" =>
          \/ asientosDe'[c0] \in Planes(c0)
          \/ c0 \in Alcance(n) /\ ~ n.seco
          \/ informe[c0] = "exito" /\ asientosDe'[c0] = asientosDe[c0] /\ q.seco
  BY <1>2, <1>9, <1>10, <1>11, <1>12 DEF Pide
<1>17. c0 \notin solapados /\ n.fase = "generar" /\ ~ n.seco => asientosDe'[c0] = Escrito(n)
  BY <1>10, <1>14
<1>18. c0 \in Contratos /\ Pide(r, c0)
  BY <1>2
<1>19. /\ peticion' = [peticion EXCEPT ![r] = n]
       /\ directo' = directo /\ lote' = lote /\ solapados' = solapados
       /\ \A c \in Contratos : c # c0 => asientosDe'[c] = asientosDe[c] /\ informe'[c] = informe[c]
  BY <1>9, <1>12
<1>20. /\ Alcance(n) \subseteq Alcance(q) /\ Alcance(q) \ {c0} \subseteq Alcance(n)
       /\ n.seco = q.seco /\ n.lista[1] = c0
  BY <1>2, <1>10, <1>11
<1>21. QED
  BY <1>11, <1>12, <1>13, <1>15, <1>16, <1>17, <1>18, <1>19, <1>20, PasoDePeticion

LEMMA PasoContratoProcesado ==
  ASSUME GInv, NEW r \in Peticiones, ContratoProcesado(r)
  PROVE  GInv'
<1> DEFINE q == peticion[r]
           c0 == Actual(r)
<1>1. q.fase = "generar" /\ q.k > q.tope
  BY DEF ContratoProcesado
<1>2. /\ EsPeticion(q) /\ c0 = q.lista[1] /\ c0 \in Contratos /\ Pide(r, c0) /\ q.seco \in BOOLEAN
      /\ q.plan = PlanDe(c0, q.estrategia) /\ q.tope \in 0 .. Len(q.plan) /\ q.k \in 1 .. q.tope + 1
  BY <1>1, EnCursoPide DEF EsPeticion
<1>3. GTipos
  BY DEF GInv
<1>4. PICK n : n = ContratoSiguiente(q)
  OBVIOUS
<1>5. /\ peticion' = [peticion EXCEPT ![r] = n]
      /\ informe' = [informe EXCEPT ![c0] = IF q.seco THEN @
                                            ELSE IF q.tope = Len(q.plan) THEN "exito" ELSE "error"]
      /\ asientosDe' = asientosDe /\ directo' = directo /\ lote' = lote /\ solapados' = solapados
  BY <1>4 DEF ContratoProcesado, ConResultado
<1>6. /\ EsPeticion(n) /\ n.fase # "generar"
      /\ Alcance(n) \subseteq Alcance(q) /\ Alcance(q) \ {c0} \subseteq Alcance(n)
      /\ n.seco = q.seco \/ Alcance(n) = {}
  BY <1>1, <1>2, <1>4, SiguientePeticion
<1>7. /\ informe' = [c \in Contratos |-> informe'[c]]
      /\ \A c \in Contratos : c # c0 => informe'[c] = informe[c]
      /\ informe'[c0] = "exito" => \/ q.seco /\ informe[c0] = "exito"
                                   \/ ~ q.seco /\ q.tope = Len(q.plan)
  BY <1>2, <1>3, <1>5 DEF GTipos
<1>8. EsSecuencia(asientosDe'[c0]) /\ asientosDe' = [c \in Contratos |-> asientosDe'[c]]
  BY <1>2, <1>3, <1>5 DEF GTipos
<1>9. c0 \notin solapados => \E plan \in Planes(c0) : Comienza(asientosDe'[c0], plan)
  BY <1>2, <1>5 DEF GInv, PorContrato
<1>10. ASSUME c0 \notin solapados, ~ q.seco, q.tope = Len(q.plan)
       PROVE  asientosDe'[c0] \in Planes(c0)
  <2>1. PICK p : p = q.plan
    OBVIOUS
  <2>2. EsSecuencia(p) /\ p \in Planes(c0)
    BY <1>2, <2>1, PlanEsSecuencia
  <2>3. Len(p) \in Nat
    BY <2>2 DEF EsSecuencia
  <2>4. q.k - 1 = Len(p) /\ Len(p) \in 0 .. Len(p)
    BY <1>1, <1>2, <1>10, <2>1, <2>3
  <2>5. Genera(r, c0)
    BY <1>1, <1>2, <1>10 DEF Genera
  <2>6. asientosDe[c0] = Escrito(q)
    BY <1>2, <1>10, <2>5 DEF GInv, PorContrato
  <2>7. Escrito(q) = Tramo(p, Len(p))
    BY <2>1, <2>4 DEF Escrito, Tramo
  <2>8. Tramo(p, Len(p)) = p
    BY <2>2, <2>4, TramoEsComienzo
  <2>9. QED
    BY <1>5, <2>2, <2>6, <2>7, <2>8
<1>11. QED
  BY <1>2, <1>5, <1>6, <1>7, <1>8, <1>9, <1>10, PasoDePeticion

(* A request that begins overlaps what was under way.                       *)
LEMMA PasoPedir ==
  ASSUME GInv, NEW r \in Peticiones, NEW l \in Seq(Contratos), l # <<>>, NEW e, NEW b, NEW s \in BOOLEAN,
         Pedir(r, l, e, b, s),
         asientosDe' = asientosDe, directo' = directo, informe' = informe, lote' = lote
  PROVE  GInv'
<1>1. PICK n : n = [SinPeticion EXCEPT !.fase = "contar", !.lista = l,
                           !.estrategia = e, !.borrar = b, !.seco = s]
  OBVIOUS
<1>2. /\ n = [x \in CamposPeticion |-> n[x]] /\ n.fase = "contar" /\ n.lista = l /\ n.seco = s
  BY <1>1 DEF SinPeticion, CamposPeticion
<1>3. EsPeticion(n) /\ Alcance(n) = {l[i] : i \in DOMAIN l}
  BY <1>2 DEF EsPeticion, Alcance
<1>4. /\ peticion[r].fase = "libre" /\ peticion' = [peticion EXCEPT ![r] = n]
      /\ solapados' = solapados \cup (EnObra \cap Alcance(n))
  BY <1>1, <1>3 DEF Pedir
<1>5. GTipos
  BY DEF GInv
<1>6. /\ peticion' = [q \in Peticiones |-> peticion'[q]] /\ peticion'[r] = n
      /\ \A q \in Peticiones : q # r => peticion'[q] = peticion[q]
  BY <1>4, <1>5 DEF GTipos
<1>7. GTipos'
  BY <1>3, <1>5, <1>6 DEF GTipos
<1>8. Alcance(peticion[r]) = {}
  <2>1. peticion[r].lista = <<>>
    BY <1>4, <1>5 DEF GTipos, EsPeticion
  <2>2. QED
    BY <2>1 DEF Alcance
<1>9. ASSUME NEW c \in Contratos \ solapados'
      PROVE  PorContrato(c)'
  <2>1. c \notin solapados /\ PorContrato(c)
    BY <1>4, <1>9 DEF GInv
  <2>2. Planes(c)' = Planes(c) /\ (EnDirecto(c)' <=> EnDirecto(c))
    BY DEF Planes, PlanDe, EnDirecto
  <2>3. c \in Alcance(n) => ~ EnDirecto(c) /\ \A q \in Peticiones : ~ Pide(q, c)
    <3>1. c \in EnObra => c \notin Alcance(n)
      BY <1>4, <1>9
    <3>2. EnDirecto(c) \/ (\E q \in Peticiones : Pide(q, c)) => c \in EnObra
      BY ObraDe
    <3>3. QED
      BY <3>1, <3>2
  <2>4. \A q \in Peticiones : Pide(q, c)' <=> IF q = r THEN c \in Alcance(n) ELSE Pide(q, c)
    BY <1>6 DEF Pide
  <2>5. \A q \in Peticiones : Genera(q, c)' => Genera(q, c) /\ peticion'[q] = peticion[q]
    BY <1>2, <1>6 DEF Genera
  <2>6. \A q \in Peticiones : Pide(q, c) => q # r /\ peticion'[q] = peticion[q]
    BY <1>6, <1>8 DEF Pide
  <2>7. \A q, t \in Peticiones : Pide(q, c)' /\ Pide(t, c)' => q = t
    BY <2>1, <2>3, <2>4 DEF PorContrato
  <2>8. EnDirecto(c)' => /\ \A q \in Peticiones : ~ Pide(q, c)'
                         /\ asientosDe'[c] = <<>> /\ informe'[c] # "exito"
    BY <2>1, <2>2, <2>3, <2>4 DEF PorContrato
  <2>9. \A q \in Peticiones : Genera(q, c)' => asientosDe'[c] = Escrito(peticion'[q])
    BY <2>1, <2>5 DEF PorContrato
  <2>10. informe'[c] = "exito" =>
           \/ asientosDe'[c] \in Planes(c)'
           \/ \E q \in Peticiones : Pide(q, c)' /\ ~ peticion'[q].seco
    BY <2>1, <2>2, <2>4, <2>6 DEF PorContrato
  <2>11. \E plan \in Planes(c)' : Comienza(asientosDe'[c], plan)
    BY <2>1, <2>2 DEF PorContrato
  <2>12. QED
    BY <2>7, <2>8, <2>9, <2>10, <2>11 DEF PorContrato, Comienza, Escrito
<1>10. QED
  BY <1>7, <1>9 DEF GInv

LEMMA PasoMigrarContrato ==
  ASSUME GInv, NEW r \in Peticiones, NEW c \in DOMAIN GContratos, NEW o \in Opciones,
         MigrateSpecificContract(r, c, o.estrategia, o.borrar, o.seco)
  PROVE  GInv'
<1>1. <<c>> \in Seq(Contratos) /\ <<c>> # <<>>
  BY DEF Contratos
<1>2. o.seco \in BOOLEAN
  BY GeneracionAssumption
<1>3. QED
  BY <1>1, <1>2, PasoPedir DEF MigrateSpecificContract

LEMMA PasoEnviarLote ==
  ASSUME GInv, NEW r \in Peticiones, EnviarLote(r)
  PROVE  GInv'
<1>1. lote \in Int /\ lote # 0 /\ NumeroDeLote <= Len(Lotes)
  BY DEF GInv, GTipos, EnviarLote
<1>2. Lotes \in Seq(Seq(Contratos) \ {<<>>}) /\ Len(Lotes) \in Nat
  BY GeneracionAssumption DEF Contratos
<1>3. NumeroDeLote \in 1 .. Len(Lotes)
  BY <1>1, <1>2 DEF NumeroDeLote
<1>4. PICK l : l = Lotes[NumeroDeLote]
  OBVIOUS
<1>5. l \in Seq(Contratos) \ {<<>>}
  BY <1>2, <1>3, <1>4
<1>6. PICK seco \in BOOLEAN : seco = (lote < 0)
  <2>1. CASE lote < 0
    <3>1. TRUE = (lote < 0)
      BY <2>1
    <3>2. QED
      BY <3>1
  <2>2. CASE ~ (lote < 0)
    <3>1. FALSE = (lote < 0)
      BY <2>2
    <3>2. FALSE \in BOOLEAN
      BY Zenon
    <3>3. QED
      BY <3>1, <3>2, Zenon
  <2>3. QED
    BY <2>1, <2>2
<1>7. /\ Pedir(r, l, "FULL_HISTORY", TRUE, seco)
      /\ asientosDe' = asientosDe /\ directo' = directo /\ informe' = informe /\ lote' = lote
  BY <1>4, <1>6 DEF EnviarLote
<1>8. QED
  BY <1>5, <1>6, <1>7, PasoPedir, Zenon

(* The script beside the requests: when a batch goes, nothing is written.   *)
LEMMA PasoDeLotes ==
  ASSUME GInv, lote' \in Int,
         asientosDe' = asientosDe, peticion' = peticion, directo' = directo, informe' = informe,
         solapados' = solapados
  PROVE  GInv'
<1>1. GTipos'
  BY DEF GInv, GTipos
<1>2. \A c : PorContrato(c)' <=> PorContrato(c)
  BY DEF PorContrato, Pide, EnDirecto, Genera, Planes, PlanDe, Comienza, Escrito
<1>3. QED
  BY <1>1, <1>2 DEF GInv

(* Script 03 begins: everything is deleted, and what was under way overlaps.*)
LEMMA PasoEmpezarDirecto ==
  ASSUME GInv, EmpezarDirecto
  PROVE  GInv'
<1>1. PICK l : l = SetToSeq(Contratos)
  OBVIOUS
<1>2. l \in Seq(Contratos) /\ IsInjective(l)
  <2>1. IsFiniteSet(Contratos)
    BY GeneracionAssumption DEF Contratos
  <2>2. PICK N : N = Cardinality(Contratos)
    OBVIOUS
  <2>3. N \in Nat /\ ExistsBijection(1 .. N, Contratos)
    BY <2>1, <2>2, FS_CardinalityType
  <2>4. \E f \in [1 .. N -> Contratos] : IsInjective(f)
    BY <2>3 DEF ExistsBijection, Bijection, Injection, IsInjective
  <2>5. l \in [1 .. N -> Contratos] /\ IsInjective(l)
    BY <1>1, <2>2, <2>4 DEF SetToSeq
  <2>6. QED
    BY <2>3, <2>5, SeqDef
<1>3. /\ asientosDe' = [c \in Contratos |-> <<>>] /\ informe' = [c \in Contratos |-> "nada"]
      /\ directo' = [activo |-> TRUE, lista |-> l] /\ solapados' = EnObra
      /\ peticion' = peticion /\ lote' = lote
  BY <1>1 DEF EmpezarDirecto, Contratos
<1>4. /\ asientosDe' = [c \in Contratos |-> asientosDe'[c]]
      /\ informe' = [c \in Contratos |-> informe'[c]]
      /\ directo' = [x \in {"activo", "lista"} |-> directo'[x]]
      /\ directo'.activo = TRUE /\ directo'.lista = l
      /\ \A c \in Contratos : asientosDe'[c] = <<>> /\ informe'[c] = "nada"
  BY <1>3
<1>5. GTipos'
  <2>1. \A c \in Contratos : EsSecuencia(asientosDe'[c])
    BY <1>4, Literales
  <2>2. GTipos
    BY DEF GInv
  <2>3. QED
    BY <1>2, <1>3, <1>4, <2>1, <2>2 DEF GTipos
<1>6. ASSUME NEW c \in Contratos \ solapados'
      PROVE  PorContrato(c)'
  <2>1. \A r \in Peticiones : ~ Pide(r, c)'
    BY <1>3, <1>6, ObraDe DEF Pide
  <2>2. \A r \in Peticiones : ~ Genera(r, c)'
    <3>1. ASSUME NEW r \in Peticiones, Genera(r, c)' PROVE FALSE
      <4>1. peticion[r].fase # "libre" /\ Actual(r) = c
        BY <1>3, <3>1 DEF Genera, Actual
      <4>2. Pide(r, c)
        BY <4>1, EnCursoPide
      <4>3. QED
        BY <1>3, <2>1, <4>2 DEF Pide
    <3>2. QED
      BY <3>1
  <2>3. \E plan \in Planes(c) : Comienza(<<>>, plan)
    BY <1>6, VacioComienza
  <2>4. \E plan \in Planes(c)' : Comienza(asientosDe'[c], plan)
    BY <1>4, <1>6, <2>3 DEF Planes, PlanDe
  <2>5. QED
    BY <1>4, <1>6, <2>1, <2>2, <2>4 DEF PorContrato, Comienza
<1>7. QED
  BY <1>5, <1>6 DEF GInv

(* What script 03 does to a contract, and to its list.                      *)
LEMMA PasoDirecto ==
  ASSUME GInv, GTipos', peticion' = peticion, solapados' = solapados,
         \A c \in Contratos : EnDirecto(c)' => EnDirecto(c),
         \A c \in Contratos \ solapados :
           \/ asientosDe'[c] = asientosDe[c] /\ informe'[c] = informe[c]
           \/ /\ EnDirecto(c) /\ ~ EnDirecto(c)' /\ asientosDe'[c] \in Planes(c)
              /\ \E plan \in Planes(c) : Comienza(asientosDe'[c], plan)
  PROVE  GInv'
<1>1. ASSUME NEW c \in Contratos \ solapados
      PROVE  PorContrato(c)'
  <2>1. PorContrato(c)
    BY <1>1 DEF GInv
  <2>2. \A r \in Peticiones : (Pide(r, c)' <=> Pide(r, c)) /\ (Genera(r, c)' <=> Genera(r, c))
    BY DEF Pide, Genera
  <2>3. Planes(c)' = Planes(c)
    BY DEF Planes, PlanDe
  <2>4. CASE asientosDe'[c] = asientosDe[c] /\ informe'[c] = informe[c]
    <3>1. EnDirecto(c)' => EnDirecto(c)
      BY <1>1
    <3>2. \A r, s \in Peticiones : Pide(r, c)' /\ Pide(s, c)' => r = s
      BY <2>1, <2>2 DEF PorContrato
    <3>3. EnDirecto(c)' => /\ \A r \in Peticiones : ~ Pide(r, c)'
                           /\ asientosDe'[c] = <<>> /\ informe'[c] # "exito"
      BY <2>1, <2>2, <2>4, <3>1 DEF PorContrato
    <3>4. \A r \in Peticiones : Genera(r, c)' => asientosDe'[c] = Escrito(peticion'[r])
      BY <2>1, <2>2, <2>4 DEF PorContrato
    <3>5. \E plan \in Planes(c)' : Comienza(asientosDe'[c], plan)
      BY <2>1, <2>3, <2>4 DEF PorContrato
    <3>6. informe'[c] = "exito" =>
            \/ asientosDe'[c] \in Planes(c)'
            \/ \E r \in Peticiones : Pide(r, c)' /\ ~ peticion'[r].seco
      BY <2>1, <2>2, <2>3, <2>4 DEF PorContrato
    <3>7. QED
      BY <3>2, <3>3, <3>4, <3>5, <3>6 DEF PorContrato, Comienza, Escrito
  <2>5. CASE /\ EnDirecto(c) /\ ~ EnDirecto(c)' /\ asientosDe'[c] \in Planes(c)
             /\ \E plan \in Planes(c) : Comienza(asientosDe'[c], plan)
    <3>1. \A r \in Peticiones : ~ Pide(r, c)'
      BY <2>1, <2>2, <2>5 DEF PorContrato
    <3>2. \A r \in Peticiones : ~ Genera(r, c)'
      <4>1. ASSUME NEW r \in Peticiones, Genera(r, c)' PROVE FALSE
        <5>1. peticion[r].fase # "libre" /\ Actual(r) = c
          BY <4>1 DEF Genera, Actual
        <5>2. QED
          BY <2>2, <3>1, <5>1, EnCursoPide
      <4>2. QED
        BY <4>1
    <3>3. QED
      BY <2>3, <2>5, <3>1, <3>2 DEF PorContrato, Comienza
  <2>6. QED
    BY <1>1, <2>4, <2>5
<1>2. QED
  BY <1>1 DEF GInv

LEMMA PasoMorirDirecto ==
  ASSUME GInv, directo' = Parado, asientosDe' = asientosDe, informe' = informe,
         peticion' = peticion, solapados' = solapados, lote' = lote
  PROVE  GInv'
<1>1. /\ directo' = [x \in {"activo", "lista"} |-> directo'[x]]
      /\ directo'.activo = FALSE /\ directo'.lista = <<>>
  BY DEF Parado
<1>2. <<>> \in Seq(Contratos) /\ IsInjective(<<>>) /\ DOMAIN <<>> = {}
  BY DEF IsInjective
<1>3. GTipos
  BY DEF GInv
<1>4. GTipos'
  BY <1>1, <1>2, <1>3 DEF GTipos
<1>5. \A c : ~ EnDirecto(c)'
  BY <1>1, <1>2 DEF EnDirecto, Alcance
<1>6. QED
  BY <1>4, <1>5, PasoDirecto

LEMMA PasoInsertarDirecto ==
  ASSUME GInv, InsertarDirecto
  PROVE  GInv'
<1>1. GTipos
  BY DEF GInv
<1>2. CASE directo.lista = <<>>
  BY <1>2, PasoMorirDirecto DEF InsertarDirecto
<1>3. CASE directo.lista # <<>>
  <2>1. PICK l : l = directo.lista
    OBVIOUS
  <2>2. l \in Seq(Contratos) /\ l # <<>> /\ IsInjective(l)
    BY <1>1, <1>3, <2>1 DEF GTipos
  <2>3. PICK c0 : c0 = Head(l)
    OBVIOUS
  <2>4. PICK t : t = Tail(l)
    OBVIOUS
  <2>5. /\ c0 \in Contratos /\ c0 = l[1] /\ t \in Seq(Contratos)
        /\ Len(l) \in Nat \ {0} /\ Len(t) = Len(l) - 1 /\ \A i \in 1 .. Len(t) : t[i] = l[i + 1]
    BY <2>2, <2>3, <2>4, HeadTailProperties, EmptySeq
  <2>6. /\ DOMAIN l = 1 .. Len(l) /\ DOMAIN t = 1 .. Len(t)
        /\ 1 \in DOMAIN l /\ \A i \in DOMAIN t : i + 1 \in DOMAIN l /\ i + 1 # 1
    <3>1. DOMAIN l = 1 .. Len(l) /\ DOMAIN t = 1 .. Len(t)
      BY <2>2, <2>5
    <3>2. QED
      BY <2>5, <3>1
  <2>7. IsInjective(t)
    <3>1. ASSUME NEW i \in DOMAIN t, NEW j \in DOMAIN t, t[i] = t[j]
          PROVE  i = j
      <4>1. l[i + 1] = l[j + 1] /\ i \in Int /\ j \in Int
        BY <2>5, <2>6, <3>1
      <4>2. i + 1 = j + 1
        BY <2>2, <2>6, <4>1 DEF IsInjective
      <4>3. QED
        BY <4>1, <4>2
    <3>2. QED
      BY <3>1 DEF IsInjective
  <2>8. PICK p : p = PlanDirecto(GContratos[c0])
    OBVIOUS
  <2>9. EsSecuencia(p) /\ p \in Planes(c0)
    BY <2>5, <2>8, PlanEsSecuencia
  <2>10. /\ asientosDe' = [asientosDe EXCEPT ![c0] = @ \o p]
         /\ informe' = [informe EXCEPT ![c0] = "directo"]
         /\ directo' = [directo EXCEPT !.lista = t]
         /\ peticion' = peticion /\ lote' = lote /\ solapados' = solapados
    BY <1>1, <1>3, <2>1, <2>3, <2>4, <2>8 DEF InsertarDirecto, GTipos
  <2>11. /\ asientosDe' = [c \in Contratos |-> asientosDe'[c]]
         /\ informe' = [c \in Contratos |-> informe'[c]]
         /\ asientosDe'[c0] = asientosDe[c0] \o p
         /\ \A c \in Contratos : c # c0 => asientosDe'[c] = asientosDe[c] /\ informe'[c] = informe[c]
    BY <1>1, <2>5, <2>10 DEF GTipos
  <2>12. /\ directo' = [x \in {"activo", "lista"} |-> directo'[x]]
         /\ directo'.activo = directo.activo /\ directo'.lista = t /\ directo.activo
    BY <1>1, <1>3, <2>10 DEF GTipos
  <2>13. EsSecuencia(asientosDe'[c0])
    BY <1>1, <2>5, <2>9, <2>11, Concatenada DEF GTipos
  <2>14. GTipos'
    BY <1>1, <2>5, <2>7, <2>10, <2>11, <2>12, <2>13 DEF GTipos
  <2>15. \A c : EnDirecto(c)' <=> \E i \in DOMAIN t : t[i] = c
    BY <2>12 DEF EnDirecto, Alcance
  <2>16. \A c : EnDirecto(c) <=> \E i \in DOMAIN l : l[i] = c
    BY <2>1 DEF EnDirecto, Alcance
  <2>17. \A c : EnDirecto(c)' => EnDirecto(c)
    BY <2>5, <2>6, <2>15, <2>16
  <2>18. EnDirecto(c0) /\ ~ EnDirecto(c0)'
    <3>1. EnDirecto(c0)
      BY <2>5, <2>6, <2>16
    <3>2. ASSUME NEW i \in DOMAIN t, t[i] = c0 PROVE FALSE
      <4>1. l[i + 1] = l[1] /\ i + 1 \in DOMAIN l /\ i + 1 # 1 /\ 1 \in DOMAIN l
        BY <2>5, <2>6, <3>2
      <4>2. QED
        BY <2>2, <4>1 DEF IsInjective
    <3>3. QED
      BY <2>15, <3>1, <3>2
  <2>19. ASSUME c0 \notin solapados
         PROVE  asientosDe'[c0] = p /\ Comienza(asientosDe'[c0], p)
    <3>1. asientosDe[c0] = <<>>
      BY <2>5, <2>18, <2>19 DEF GInv, PorContrato
    <3>2. <<>> \o p = p /\ Len(p) \in Nat
      BY <2>9, ConcatEmptySeq DEF EsSecuencia
    <3>3. Comienza(p, p)
      BY <3>2 DEF Comienza
    <3>4. QED
      BY <2>11, <3>1, <3>2, <3>3
  <2>20. QED
    BY <2>9, <2>10, <2>11, <2>14, <2>17, <2>18, <2>19, PasoDirecto
<1>4. QED
  BY <1>2, <1>3

(* The server restarts.                                                     *)
LEMMA PasoReiniciar ==
  ASSUME GInv, Reiniciar
  PROVE  GInv'
<1>1. GTipos
  BY DEF GInv
<1>2. /\ peticion' = [r \in Peticiones |-> SinPeticion]
      /\ informe' = [c \in Contratos |->
           IF \E r \in Peticiones : Pide(r, c) /\ ~ peticion[r].seco THEN "error" ELSE informe[c]]
      /\ asientosDe' = asientosDe /\ lote' = lote /\ directo' = directo /\ solapados' = solapados
  BY DEF Reiniciar, Contratos, Pide
<1>3. EsPeticion(SinPeticion) /\ Alcance(SinPeticion) = {} /\ SinPeticion.fase = "libre"
  <2>1. PICK n : n = SinPeticion
    OBVIOUS
  <2>2. n = [x \in CamposPeticion |-> n[x]] /\ n.lista = <<>> /\ n.fase = "libre" /\ n.seco = FALSE
    BY <2>1 DEF SinPeticion, CamposPeticion
  <2>3. <<>> \in Seq(Contratos) /\ DOMAIN <<>> = {}
    OBVIOUS
  <2>4. EsPeticion(n) /\ Alcance(n) = {}
    BY <2>2, <2>3 DEF EsPeticion, Alcance
  <2>5. QED
    BY <2>1, <2>2, <2>4
<1>4. /\ peticion' = [r \in Peticiones |-> peticion'[r]] /\ informe' = [c \in Contratos |-> informe'[c]]
      /\ \A r \in Peticiones : peticion'[r] = SinPeticion
  BY <1>2
<1>5. GTipos'
  BY <1>1, <1>2, <1>3, <1>4 DEF GTipos
<1>6. ASSUME NEW c \in Contratos \ solapados
      PROVE  PorContrato(c)'
  <2>1. PorContrato(c)
    BY <1>6 DEF GInv
  <2>2. \A r \in Peticiones : ~ Pide(r, c)' /\ ~ Genera(r, c)'
    BY <1>3, <1>4 DEF Pide, Genera
  <2>3. Planes(c)' = Planes(c) /\ (EnDirecto(c)' <=> EnDirecto(c))
    BY <1>2 DEF Planes, PlanDe, EnDirecto
  <2>4. EnDirecto(c)' => asientosDe'[c] = <<>> /\ informe'[c] # "exito"
    BY <1>2, <1>6, <2>1, <2>3 DEF PorContrato
  <2>5. informe'[c] = "exito" => asientosDe'[c] \in Planes(c)'
    BY <1>2, <1>6, <2>1, <2>3 DEF PorContrato
  <2>6. \E plan \in Planes(c)' : Comienza(asientosDe'[c], plan)
    BY <1>2, <2>1, <2>3 DEF PorContrato
  <2>7. QED
    BY <2>2, <2>4, <2>5, <2>6 DEF PorContrato, Comienza
<1>7. QED
  BY <1>2, <1>5, <1>6 DEF GInv

LEMMA PasoG ==
  ASSUME GInv, [GNext]_generacion
  PROVE  GInv'
<1>1. CASE UNCHANGED generacion
  <2>1. /\ asientosDe' = asientosDe /\ peticion' = peticion /\ directo' = directo
        /\ informe' = informe /\ solapados' = solapados /\ lote' = lote
    BY <1>1 DEF generacion
  <2>2. lote' \in Int
    BY <2>1 DEF GInv, GTipos
  <2>3. QED
    BY <2>1, <2>2, PasoDeLotes
<1>2. ASSUME NEW r \in Peticiones, NEW c \in DOMAIN GContratos, NEW o \in Opciones,
             MigrateSpecificContract(r, c, o.estrategia, o.borrar, o.seco)
      PROVE  GInv'
  BY <1>2, PasoMigrarContrato
<1>3. ASSUME NEW r \in Peticiones,
             Contar(r) \/ BorrarExistentes(r) \/ CrearAsiento(r) \/ ContratoProcesado(r) \/ EnviarLote(r)
      PROVE  GInv'
  BY <1>3, PasoContar, PasoBorrarExistentes, PasoCrearAsiento, PasoContratoProcesado, PasoEnviarLote
<1>4. ASSUME NEW s \in BOOLEAN, EmpezarLotes(s) PROVE GInv'
  BY <1>4, PasoDeLotes DEF EmpezarLotes
<1>5. CASE LoteSiguiente
  <2>1. lote \in Int /\ NumeroDeLote \in Int
    BY DEF GInv, GTipos, NumeroDeLote
  <2>2. lote' \in Int
    BY <1>5, <2>1 DEF LoteSiguiente
  <2>3. QED
    BY <1>5, <2>2, PasoDeLotes DEF LoteSiguiente
<1>6. CASE EmpezarDirecto
  BY <1>6, PasoEmpezarDirecto
<1>7. CASE InsertarDirecto
  BY <1>7, PasoInsertarDirecto
<1>8. CASE MorirDirecto
  BY <1>8, PasoMorirDirecto DEF MorirDirecto
<1>9. CASE Reiniciar
  BY <1>9, PasoReiniciar
<1>10. QED
  BY <1>1, <1>2, <1>3, <1>4, <1>5, <1>6, <1>7, <1>8, <1>9 DEF GNext

----------------------------------------------------------------------------
(* What the invariant gives.                                                *)

LEMMA InvarianteFiel == GInv => GeneracionFiel
<1> SUFFICES ASSUME GInv PROVE GeneracionFiel
  OBVIOUS
<1>1. ASSUME NEW c \in DOMAIN GContratos \ solapados
      PROVE  \E plan \in Planes(c) : IsPrefix(asientosDe[c], plan)
  <2>1. c \in Contratos \ solapados
    BY DEF Contratos
  <2>2. PICK plan \in Planes(c) : Comienza(asientosDe[c], plan)
    BY <2>1 DEF GInv, PorContrato
  <2>3. EsSecuencia(plan)
    BY <2>1, <2>2, PlanEsSecuencia DEF Planes
  <2>4. EsSecuencia(asientosDe[c])
    BY <2>1 DEF GInv, GTipos
  <2>5. QED
    BY <2>2, <2>3, <2>4, ComienzoEsPrefijo
<1>2. ASSUME NEW c \in DOMAIN GContratos \ (solapados \cup EnObra), informe[c] = "exito"
      PROVE  asientosDe[c] \in Planes(c)
  <2>1. c \in Contratos \ solapados /\ \A r \in Peticiones : ~ Pide(r, c)
    BY <1>2, ObraDe DEF Contratos
  <2>2. QED
    BY <1>2, <2>1 DEF GInv, PorContrato
<1>3. QED
  BY <1>1, <1>2 DEF GeneracionFiel, GeneracionUnica, ExitoCompleto

THEOREM GeneracionSiempreFiel == GSpec => []GeneracionFiel
<1>1. GInit => GInv
  BY InitGInv
<1>2. GInv /\ [GNext]_generacion => GInv'
  BY PasoG
<1>3. QED
  BY <1>1, <1>2, InvarianteFiel, PTL DEF GSpec

----------------------------------------------------------------------------
(* The accounting data.  Documents, by the fields they have.                *)
CamposAsiento == {"tipo", "contrato", "per", "legacy_id", "debe", "haber", "agenteDebe", "agenteHaber",
                  "pagado", "liquidado", "estado", "debito", "credito", "recibo"}
EsAsiento(d) ==
  /\ d = [x \in CamposAsiento |-> d[x]]
  /\ d.debe \in Int /\ d.haber \in Int /\ d.pagado \in Int /\ d.liquidado \in Int
EsRecibo(d) == d = [x \in {"numero", "afectados", "pendiente"} |-> d[x]] /\ d.numero \in Nat
EsTarea(t) ==
  /\ t = [x \in {"paso", "i", "a", "afectados", "fallo"} |-> t[x]]
  /\ t.i \in Nat \ {0} /\ EsSecuencia(t.afectados)

PFormas ==
  /\ \A a \in DOMAIN asientos : EsAsiento(asientos[a])
  /\ \A r \in DOMAIN recibos : EsRecibo(recibos[r])
  /\ \A r \in DOMAIN tareas : EsTarea(tareas[r]) /\ r \in DOMAIN LRecibos
  /\ script = [x \in {"nombre", "paso", "pend", "tx", "quirurgico"} |-> script[x]]
  /\ huella = [x \in {"pagos", "enlaces", "cortados", "cruzados", "reset00"} |-> huella[x]]
  /\ huella.cruzados \in BOOLEAN /\ huella.reset00 \in BOOLEAN
  /\ secuencia \in Nat

(* How far the script in progress is, and what that implies: only the       *)
(* linker has tasks, 05 adds amounts that are not negative, and the resets  *)
(* that touch the entries or the sequence deleted the receipts first.       *)
Turno ==
  /\ script.paso \in 1 .. 5
  /\ script.nombre = "reset08" \/ script.nombre = "resetPagos" => script.paso <= 4
  /\ script.nombre # "enlazar" => tareas = <<>>
  /\ script.nombre = "pagos" => \A op \in script.pend : op.monto \in Nat
  /\ script.nombre = "reset00" /\ script.paso >= 2 => DOMAIN recibos = {}
  /\ script.nombre = "resetPagos" /\ script.paso >= 3 => DOMAIN recibos = {}

(* The state of an entry is sustained by its amounts.                       *)
Sostenido(d) ==
  /\ d.estado \in {"COBRADO", "LIQUIDADO"} => d.pagado >= d.debe
  /\ d.estado = "LIQUIDADO" /\ d.agenteHaber # Nulo => d.liquidado >= d.haber
Sostenidos == \A a \in DOMAIN asientos : Sostenido(asientos[a])
Estados ==
  /\ huella.reset00 \/ Corre("reset00", 4) \/ Sostenidos
  /\ Corre("reset00", 5) => Sostenidos

(* What the linker has in hand exists.                                      *)
TareasSobreAsientos ==
  \A r \in DOMAIN tareas :
    /\ tareas[r].paso = "imputar" => tareas[r].a \in DOMAIN asientos
    /\ tareas[r].paso \in {"crear", "imputar"} => QuedanLineas(r)
    /\ \A i \in DOMAIN tareas[r].afectados : tareas[r].afectados[i].a \in DOMAIN asientos

(* The rents of a contract and a period.  Tasks in progress are of          *)
(* different contracts, and a task about to create a rent found none.       *)
Rentas(contrato, per) ==
  {a \in DOMAIN asientos : /\ asientos[a].tipo = "Alquiler Mensual"
                           /\ asientos[a].contrato = contrato /\ asientos[a].per = per}
RentaUnica == \A contrato, per : \A a, b \in Rentas(contrato, per) : a = b
TareaDe(r) ==
  /\ \A i \in DOMAIN LRecibos[r].lineas : LRecibos[r].lineas[i].contrato \in {Nulo, Origen(r)}
  /\ tareas[r].paso = "crear" =>
       /\ Linea(r).contrato # Nulo
       /\ Rentas(Linea(r).contrato, Linea(r).per) = {}
  /\ \A q \in DOMAIN tareas : q # r /\ Origen(q) # Nulo => Origen(q) # Origen(r)
Periodos ==
  ~ huella.cruzados => RentaUnica /\ \A r \in DOMAIN tareas : TareaDe(r)

PInv ==
  /\ PFormas /\ Turno /\ Estados /\ NumerosDeRecibo
  /\ AfectadosExisten /\ TareasSobreAsientos /\ Periodos

LEMMA PInitPInv == PInit => PInv
<1> SUFFICES ASSUME PInit PROVE PInv
  OBVIOUS
<1> USE DEF PInit, Quieto
<1>1. DOMAIN recibos = {} /\ DOMAIN tareas = {} /\ tareas = <<>>
  BY Vacia
<1>2. ASSUME NEW a \in DOMAIN asientos
      PROVE  EsAsiento(asientos[a]) /\ Sostenido(asientos[a])
  <2>1. PICK d : d = asientos[a]
    OBVIOUS
  <2>2. /\ d = [x \in CamposAsiento |-> d[x]] /\ d.debe \in Int /\ d.haber \in Int
        /\ d.pagado = 0 /\ d.liquidado = 0 /\ d.estado = "PENDIENTE"
    BY <2>1, PagosAssumption DEF CamposAsiento
  <2>3. EsAsiento(d) /\ Sostenido(d)
    BY <2>2 DEF EsAsiento, Sostenido
  <2>4. QED
    BY <2>1, <2>3
<1>3. PFormas
  BY <1>1, <1>2 DEF PFormas
<1>4. Turno
  BY <1>1 DEF Turno
<1>5. Estados
  BY <1>2 DEF Estados, Sostenidos, Corre
<1>6. NumerosDeRecibo /\ AfectadosExisten /\ TareasSobreAsientos
  BY <1>1 DEF NumerosDeRecibo, AfectadosExisten, TareasSobreAsientos
<1>7. RentaUnica
  <2>1. ASSUME NEW contrato, NEW per, NEW a \in Rentas(contrato, per), NEW b \in Rentas(contrato, per)
        PROVE  a = b
    <3>1. /\ a \in {c \in DOMAIN Contractuales : Contractuales[c].tipo = "Alquiler Mensual"}
          /\ b \in {c \in DOMAIN Contractuales : Contractuales[c].tipo = "Alquiler Mensual"}
          /\ Contractuales[a].contrato = Contractuales[b].contrato
          /\ Contractuales[a].per = Contractuales[b].per
      BY DEF Rentas
    <3>2. QED
      BY <3>1, PagosAssumption
  <2>2. QED
    BY <2>1 DEF RentaUnica
<1>8. Periodos
  BY <1>1, <1>7 DEF Periodos
<1>9. QED
  BY <1>3, <1>4, <1>5, <1>6, <1>8 DEF PInv

(* A script that writes entries alone, and is not the linker nor a reset:   *)
(* it may add entries that are no rents, and keeps what is sustained.       *)
Renovado(a) ==
  /\ EsAsiento(asientos[a])'
  /\ Sostenidos => Sostenido(asientos[a])'
  /\ asientos'[a].tipo = "Alquiler Mensual" =>
       /\ a \in DOMAIN asientos /\ asientos[a].tipo = "Alquiler Mensual"
       /\ asientos'[a].contrato = asientos[a].contrato /\ asientos'[a].per = asientos[a].per

LEMMA SoloAsientos ==
  ASSUME PInv, UNCHANGED <<recibos, secuencia, tareas, huella>>,
         script.nombre \notin {"enlazar", "reset00"}, script'.nombre \notin {"enlazar", "reset00"},
         script' = [x \in {"nombre", "paso", "pend", "tx", "quirurgico"} |-> script'[x]],
         Turno',
         DOMAIN asientos \subseteq DOMAIN asientos',
         \A a \in DOMAIN asientos' : Renovado(a)
  PROVE  PInv'
<1>1. tareas = <<>> /\ DOMAIN tareas = {}
  BY Vacia DEF PInv, Turno
<1>2. PFormas'
  BY <1>1 DEF PInv, PFormas, Renovado
<1>3. Estados'
  BY DEF PInv, Estados, Sostenidos, Corre, Renovado
<1>4. NumerosDeRecibo' /\ AfectadosExisten'
  BY DEF PInv, NumerosDeRecibo, AfectadosExisten
<1>5. TareasSobreAsientos'
  BY <1>1 DEF TareasSobreAsientos
<1>6. ASSUME RentaUnica PROVE RentaUnica'
  <2>1. ASSUME NEW contrato, NEW per
        PROVE  Rentas(contrato, per)' \subseteq Rentas(contrato, per)
    BY DEF Rentas, Renovado
  <2>2. QED
    BY <1>6, <2>1 DEF RentaUnica
<1>7. Periodos'
  BY <1>1, <1>6 DEF PInv, Periodos
<1>8. QED
  BY <1>2, <1>3, <1>4, <1>5, <1>7 DEF PInv

(* What each script makes of a document.                                    *)
Igual(d, e) == e.tipo = d.tipo /\ e.contrato = d.contrato /\ e.per = d.per
Mejora(d, e) == EsAsiento(e) /\ Igual(d, e) /\ (Sostenido(d) => Sostenido(e))

LEMMA MejoraRenueva ==
  ASSUME NEW a \in DOMAIN asientos, Mejora(asientos[a], asientos'[a])
  PROVE  Renovado(a)
BY DEF Mejora, Igual, Renovado, Sostenidos

LEMMA DocumentosNuevos ==
  ASSUME NEW d, EsAsiento(d)
  PROVE  /\ Mejora(d, d)
         /\ \A k : \A monto \in Nat : Mejora(d, Imputado(d, k, monto))
         /\ Mejora(d, [d EXCEPT !.estado = EstadoFinal(d)])
         /\ \A x : Mejora(d, [d EXCEPT !.recibo = x]) 
         /\ \A x : Mejora(d, [d EXCEPT !.debito = x]) /\ Mejora(d, [d EXCEPT !.credito = x])
         /\ \A m \in Nat : /\ Mejora(d, [d EXCEPT !.pagado = @ + m])
                           /\ Mejora(d, [d EXCEPT !.liquidado = @ + m])
<1> USE DEF Mejora, EsAsiento, CamposAsiento, Igual, Sostenido
<1>1. Mejora(d, d)
  OBVIOUS
<1>2. ASSUME NEW k, NEW monto \in Nat PROVE Mejora(d, Imputado(d, k, monto))
  <2> DEFINE p == IF k.lado = "D" /\ d.agenteDebe = k.agente THEN d.pagado + monto ELSE d.pagado
             l == IF k.lado = "H" /\ d.agenteHaber = k.agente THEN d.liquidado + monto ELSE d.liquidado
  <2>1. p \in Int /\ l \in Int /\ p >= d.pagado /\ l >= d.liquidado
    OBVIOUS
  <2>2. Imputado(d, k, monto) = [d EXCEPT !.pagado = p, !.liquidado = l]
    BY DEF Imputado
  <2> HIDE DEF p, l
  <2>3. PICK e : e = [d EXCEPT !.pagado = p, !.liquidado = l]
    OBVIOUS
  <2>4. /\ e = [x \in CamposAsiento |-> e[x]] /\ e.pagado = p /\ e.liquidado = l
        /\ e.debe = d.debe /\ e.haber = d.haber /\ e.estado = d.estado /\ e.agenteHaber = d.agenteHaber
        /\ Igual(d, e)
    BY <2>3
  <2>5. Mejora(d, e)
    BY <2>1, <2>4
  <2>6. QED
    BY <2>2, <2>3, <2>5
<1>3. Mejora(d, [d EXCEPT !.estado = EstadoFinal(d)])
  BY DEF EstadoFinal
<1>4. ASSUME NEW x PROVE Mejora(d, [d EXCEPT !.recibo = x])
  OBVIOUS
<1>5. ASSUME NEW x PROVE Mejora(d, [d EXCEPT !.debito = x]) /\ Mejora(d, [d EXCEPT !.credito = x])
  OBVIOUS
<1>6. ASSUME NEW m \in Nat
      PROVE  Mejora(d, [d EXCEPT !.pagado = @ + m]) /\ Mejora(d, [d EXCEPT !.liquidado = @ + m])
  OBVIOUS
<1>7. QED
  BY <1>1, <1>2, <1>3, <1>4, <1>5, <1>6

LEMMA AdHocFormado ==
  ASSUME NEW id, NEW m \in Int, NEW g
  PROVE  /\ EsAsiento(AdHoc(id, m, g)) /\ Sostenido(AdHoc(id, m, g))
         /\ AdHoc(id, m, g).tipo # "Alquiler Mensual"
BY DEF AdHoc, EsAsiento, Sostenido, CamposAsiento

(* The script goes on, or ends.                                             *)
LEMMA MismoGuion ==
  ASSUME PInv
  PROVE  /\ \A x : LET s == [script EXCEPT !.pend = @ \ {x}]
                   IN  /\ s = [y \in {"nombre", "paso", "pend", "tx", "quirurgico"} |-> s[y]]
                       /\ s.nombre = script.nombre /\ s.paso = script.paso /\ s.pend = script.pend \ {x}
                       /\ s.tx = script.tx
         /\ LET s == [script EXCEPT !.paso = @ + 1, !.pend = {}]
            IN  /\ s = [y \in {"nombre", "paso", "pend", "tx", "quirurgico"} |-> s[y]]
                /\ s.nombre = script.nombre /\ s.paso = script.paso + 1 /\ s.pend = {}
                /\ s.tx = script.tx
         /\ Quieto = [y \in {"nombre", "paso", "pend", "tx", "quirurgico"} |-> Quieto[y]]
         /\ Quieto.nombre = "ninguno" /\ Quieto.paso = 1 /\ Quieto.pend = {}
BY DEF PInv, PFormas, Quieto

LEMMA UpsertAdHocPInv ==
  ASSUME PInv, NEW c \in DOMAIN LCuentas, UpsertAdHoc(c)
  PROVE  PInv'
<1> USE DEF UpsertAdHoc, Corre, Hecho
<1>1. PICK g : asientos' = Insertado(asientos, c, AdHoc(c, LCuentas[c].monto, g))
  OBVIOUS
<1>2. PICK d : d = AdHoc(c, LCuentas[c].monto, g) /\ EsAsiento(d) /\ Sostenido(d) /\ d.tipo # "Alquiler Mensual"
  <2>1. LCuentas[c].monto \in Int
    BY PagosAssumption
  <2>2. QED
    BY <2>1, AdHocFormado
<1>3. asientos' = [x \in DOMAIN asientos \cup {c} |-> IF x = c THEN d ELSE asientos[x]]
  BY <1>1, <1>2 DEF Insertado
<1>4. ASSUME NEW a \in DOMAIN asientos' PROVE Renovado(a)
  BY <1>2, <1>3 DEF Renovado, PInv, PFormas, Sostenidos
<1>5. /\ script'.nombre = "adhoc" /\ script'.paso = 1 /\ script.nombre = "adhoc"
      /\ script' = [y \in {"nombre", "paso", "pend", "tx", "quirurgico"} |-> script'[y]]
  BY MismoGuion
<1>6. Turno'
  BY <1>5 DEF PInv, Turno
<1>7. QED
  BY <1>3, <1>4, <1>5, <1>6, SoloAsientos

LEMMA InsertarAdHocMaestroPInv ==
  ASSUME PInv, NEW c \in DOMAIN LCuentas, InsertarAdHocMaestro(c)
  PROVE  PInv'
<1> USE DEF InsertarAdHocMaestro, Corre, Hecho
<1> DEFINE n == CHOOSE n \in Nuevos : n \notin DOMAIN asientos
<1>1. n \notin DOMAIN asientos
  OBVIOUS
<1> HIDE DEF n
<1>2. PICK d : d = AdHoc(LCuentas[c].maestro, LCuentas[c].monto, Deudor)
               /\ EsAsiento(d) /\ Sostenido(d) /\ d.tipo # "Alquiler Mensual"
  <2>1. LCuentas[c].monto \in Int
    BY PagosAssumption
  <2>2. QED
    BY <2>1, AdHocFormado
<1>3. asientos' = [x \in DOMAIN asientos \cup {n} |-> IF x = n THEN d ELSE asientos[x]]
  BY <1>2 DEF Insertado, n
<1>4. ASSUME NEW a \in DOMAIN asientos' PROVE Renovado(a)
  BY <1>2, <1>3 DEF Renovado, PInv, PFormas, Sostenidos
<1>5. /\ script'.nombre = "adhocMaestro" /\ script'.paso = 1 /\ script.nombre = "adhocMaestro"
      /\ script' = [y \in {"nombre", "paso", "pend", "tx", "quirurgico"} |-> script'[y]]
  BY MismoGuion
<1>6. Turno'
  BY <1>5 DEF PInv, Turno
<1>7. QED
  BY <1>3, <1>4, <1>5, <1>6, SoloAsientos

(* A script that renews the entries and goes on.                            *)
LEMMA RenovarPInv ==
  ASSUME PInv, UNCHANGED <<recibos, secuencia, tareas, huella>>,
         script.nombre \in {"vincular", "pagos", "impacto", "reset08"},
         NEW x, script' \in {[script EXCEPT !.pend = @ \ {x}], [script EXCEPT !.paso = @ + 1, !.pend = {}], Quieto},
         script.paso \in 1 .. 4, script.nombre = "reset08" => script.paso <= 3,
         DOMAIN asientos' = DOMAIN asientos,
         \A a \in DOMAIN asientos : Mejora(asientos[a], asientos'[a])
  PROVE  PInv'
<1>1. /\ script' = [y \in {"nombre", "paso", "pend", "tx", "quirurgico"} |-> script'[y]]
      /\ script'.nombre \in {script.nombre, "ninguno"} /\ script'.pend \subseteq script.pend
      /\ script'.paso \in {1, script.paso, script.paso + 1}
      /\ script'.nombre = "reset08" => script'.paso <= 4
  <2>1. CASE script' = [script EXCEPT !.pend = @ \ {x}]
    <3>1. LET s == [script EXCEPT !.pend = @ \ {x}]
          IN  /\ s = [y \in {"nombre", "paso", "pend", "tx", "quirurgico"} |-> s[y]]
              /\ s.nombre = script.nombre /\ s.paso = script.paso /\ s.pend = script.pend \ {x}
      BY MismoGuion
    <3>2. QED
      BY <2>1, <3>1
  <2>2. CASE script' = [script EXCEPT !.paso = @ + 1, !.pend = {}]
    BY <2>2, MismoGuion
  <2>3. CASE script' = Quieto
    BY <2>3, MismoGuion
  <2>4. QED
    BY <2>1, <2>2, <2>3
<1>2. Turno'
  BY <1>1 DEF PInv, Turno
<1>3. \A a \in DOMAIN asientos' : Renovado(a)
  BY MejoraRenueva
<1>4. QED
  BY <1>1, <1>2, <1>3, SoloAsientos

LEMMA FormadosMejoran ==
  ASSUME PInv, NEW a \in DOMAIN asientos
  PROVE  EsAsiento(asientos[a]) /\ Mejora(asientos[a], asientos[a])
BY DocumentosNuevos DEF PInv, PFormas

LEMMA VincularPInv ==
  ASSUME PInv, NEW c \in DOMAIN LCuentas, Vincular(c)
  PROVE  PInv'
<1> USE DEF Vincular, Corre, Hecho
<1>1. DOMAIN asientos' = DOMAIN asientos
  OBVIOUS
<1>2. ASSUME NEW a \in DOMAIN asientos PROVE Mejora(asientos[a], asientos'[a])
  <2>1. EsAsiento(asientos[a]) /\ Mejora(asientos[a], asientos[a])
    BY FormadosMejoran
  <2>2. PICK x : asientos'[a] \in {asientos[a], [asientos[a] EXCEPT !.debito = x], [asientos[a] EXCEPT !.credito = x]}
    <3>1. CASE UNCHANGED asientos
      BY <3>1
    <3>2. ASSUME NEW b \in DestinoContractual(c),
                 asientos' = IF LCuentas[c].tipo = "Debito"
                             THEN [asientos EXCEPT ![b].debito = @ \cup {c}]
                             ELSE [asientos EXCEPT ![b].credito = @ \cup {c}]
          PROVE  \E x : asientos'[a] \in {asientos[a], [asientos[a] EXCEPT !.debito = x], [asientos[a] EXCEPT !.credito = x]}
      BY <3>2
    <3>3. QED
      BY <3>1, <3>2
  <2>3. /\ Mejora(asientos[a], [asientos[a] EXCEPT !.debito = x])
        /\ Mejora(asientos[a], [asientos[a] EXCEPT !.credito = x])
    BY <2>1, DocumentosNuevos
  <2>4. QED
    BY <2>1, <2>2, <2>3
<1>3. script' = [script EXCEPT !.pend = @ \ {c}] /\ script.nombre = "vincular" /\ script.paso = 1
  OBVIOUS
<1>4. QED
  BY <1>1, <1>2, <1>3, RenovarPInv

LEMMA ImputarConsolidadoPInv ==
  ASSUME PInv, NEW op, ImputarConsolidado(op)
  PROVE  PInv'
<1> USE DEF ImputarConsolidado, Corre, Hecho
<1>1. DOMAIN asientos' = DOMAIN asientos
  OBVIOUS
<1>2. op.monto \in Nat
  BY DEF PInv, Turno
<1>3. ASSUME NEW a \in DOMAIN asientos PROVE Mejora(asientos[a], asientos'[a])
  <2>1. EsAsiento(asientos[a]) /\ Mejora(asientos[a], asientos[a])
    BY FormadosMejoran
  <2>2. asientos'[a] \in {asientos[a], Imputado(asientos[a], op.k, op.monto)}
    OBVIOUS
  <2>3. Mejora(asientos[a], Imputado(asientos[a], op.k, op.monto))
    BY <1>2, <2>1, DocumentosNuevos
  <2>4. QED
    BY <2>1, <2>2, <2>3
<1>4. script' = [script EXCEPT !.pend = @ \ {op}] /\ script.nombre = "pagos" /\ script.paso = 2
  OBVIOUS
<1>5. QED
  BY <1>1, <1>3, <1>4, RenovarPInv

LEMMA FinalizarEstadosPInv ==
  ASSUME PInv, FinalizarEstados
  PROVE  PInv'
<1> USE DEF FinalizarEstados, Corre, Avanzar
<1>1. DOMAIN asientos' = DOMAIN asientos
  OBVIOUS
<1>2. ASSUME NEW a \in DOMAIN asientos PROVE Mejora(asientos[a], asientos'[a])
  <2>1. EsAsiento(asientos[a]) /\ Mejora(asientos[a], asientos[a])
    BY FormadosMejoran
  <2>2. asientos'[a] \in {asientos[a], [asientos[a] EXCEPT !.estado = EstadoFinal(asientos[a])]}
    OBVIOUS
  <2>3. Mejora(asientos[a], [asientos[a] EXCEPT !.estado = EstadoFinal(asientos[a])])
    BY <2>1, DocumentosNuevos
  <2>4. QED
    BY <2>1, <2>2, <2>3
<1>3. /\ script' \in {[script EXCEPT !.paso = @ + 1, !.pend = {}]}
      /\ script.nombre = "pagos" /\ script.paso = 2
  OBVIOUS
<1>4. QED
  BY <1>1, <1>2, <1>3, RenovarPInv

LEMMA ImpactarAsientoPInv ==
  ASSUME PInv, NEW x, ImpactarAsiento(x)
  PROVE  PInv'
<1> USE DEF ImpactarAsiento, Corre, Hecho
<1>1. DOMAIN asientos' = DOMAIN asientos
  OBVIOUS
<1>2. ASSUME NEW a \in DOMAIN asientos PROVE Mejora(asientos[a], asientos'[a])
  <2>1. EsAsiento(asientos[a]) /\ Mejora(asientos[a], asientos[a])
    BY FormadosMejoran
  <2>2. asientos'[a] \in {asientos[a], [asientos[a] EXCEPT !.recibo = LPagos[x].recibo]}
    OBVIOUS
  <2>3. QED
    BY <2>1, <2>2, DocumentosNuevos
<1>3. script' = [script EXCEPT !.pend = @ \ {x}] /\ script.nombre = "impacto" /\ script.paso = 2
  OBVIOUS
<1>4. QED
  BY <1>1, <1>2, <1>3, RenovarPInv

(* A payment that resolves goes to an entry; what is consolidated of them   *)
(* is a sum of naturals.                                                    *)
LEMMA DestinoExiste ==
  ASSUME NEW x \in PagosResueltos
  PROVE  Destino(x)[1] \in DOMAIN asientos
<1> DEFINE R == Resueltos(LPagos[x].cuenta)
<1>1. Destino(x) \in R
  BY DEF PagosResueltos, Destino
<1>2. \A d \in R : d[1] \in DOMAIN asientos
  BY DEF Resueltos
<1>3. QED
  BY <1>1, <1>2

LEMMA ConsolidadoNatural ==
  ASSUME NEW k
  PROVE  Consolidado(k) \in Nat
<1> DEFINE S == {x \in PagosResueltos : Clave(x) = k}
           f == [x \in S |-> LPagos[x].monto]
<1>1. S \subseteq DOMAIN LPagos
  BY DEF PagosResueltos
<1>2. IsFiniteSet(S) /\ \A x \in S : f[x] \in Nat
  BY <1>1, PagosAssumption, FS_Subset
<1>3. SumFunctionOnSet(f, S) \in Nat
  <2> HIDE DEF f, S
  <2> QED
    BY <1>2, SumaNatural
<1>4. Consolidado(k) = SumFunctionOnSet(f, S)
  BY DEF Consolidado, SumaSobre
<1>5. QED
  BY <1>3, <1>4

(* A script that reads or ends, and writes no entry, receipt nor number.    *)
LEMMA SoloGuion ==
  ASSUME PInv, UNCHANGED <<asientos, recibos, secuencia>>,
         huella' = [y \in {"pagos", "enlaces", "cortados", "cruzados", "reset00"} |-> huella'[y]],
         huella'.cruzados = huella.cruzados, huella'.reset00 \in BOOLEAN,
         tareas' = <<>>, Turno', Estados',
         script' = [y \in {"nombre", "paso", "pend", "tx", "quirurgico"} |-> script'[y]]
  PROVE  PInv'
<1>1. DOMAIN tareas' = {}
  BY Vacia
<1>2. PFormas'
  BY <1>1 DEF PInv, PFormas
<1>3. NumerosDeRecibo' /\ AfectadosExisten' /\ TareasSobreAsientos'
  BY <1>1 DEF PInv, NumerosDeRecibo, AfectadosExisten, TareasSobreAsientos
<1>4. RentaUnica' <=> RentaUnica
  BY DEF RentaUnica, Rentas
<1>5. Periodos'
  BY <1>1, <1>4 DEF PInv, Periodos
<1>6. QED
  BY <1>2, <1>3, <1>5 DEF PInv

LEMMA CargarPagosPInv ==
  ASSUME PInv, CargarPagos
  PROVE  PInv'
<1> USE DEF CargarPagos, Corre
<1>1. PICK P, X : /\ script' = [script EXCEPT !.paso = 2, !.pend = P, !.tx = X]
                  /\ P = {[k |-> Clave(x), monto |-> Consolidado(Clave(x))] : x \in PagosResueltos}
  OBVIOUS
<1>2. \A op \in P : op.monto \in Nat
  BY <1>1, ConsolidadoNatural
<1>3. /\ script' = [y \in {"nombre", "paso", "pend", "tx", "quirurgico"} |-> script'[y]]
      /\ script'.nombre = "pagos" /\ script'.paso = 2 /\ script'.pend = P
  BY <1>1 DEF PInv, PFormas
<1>4. Turno'
  BY <1>2, <1>3 DEF PInv, Turno
<1>5. /\ huella' = [y \in {"pagos", "enlaces", "cortados", "cruzados", "reset00"} |-> huella'[y]]
      /\ huella'.cruzados = huella.cruzados /\ huella'.reset00 = huella.reset00 /\ huella.reset00 \in BOOLEAN
  BY DEF PInv, PFormas
<1>6. Estados'
  BY <1>3, <1>5 DEF PInv, Estados, Sostenidos
<1>7. tareas' = <<>>
  BY DEF PInv, Turno
<1>8. QED
  BY <1>3, <1>4, <1>5, <1>6, <1>7, SoloGuion

LEMMA InsertarTransaccionesPInv ==
  ASSUME PInv, InsertarTransacciones
  PROVE  PInv'
<1> USE DEF InsertarTransacciones, Corre, Fin
<1>1. \A a \in DOMAIN asientos : Mejora(asientos[a], asientos'[a])
  BY FormadosMejoran
<1>2. script' = Quieto /\ script.nombre = "pagos" /\ script.paso = 3 /\ DOMAIN asientos' = DOMAIN asientos
  OBVIOUS
<1>3. QED
  BY <1>1, <1>2, RenovarPInv

LEMMA PasarAAsientosPInv ==
  ASSUME PInv, PasarAAsientos
  PROVE  PInv'
<1> USE DEF PasarAAsientos, Corre
<1>1. /\ script' = [y \in {"nombre", "paso", "pend", "tx", "quirurgico"} |-> script'[y]]
      /\ script'.nombre = "impacto" /\ script'.paso = 2
  BY DEF PInv, PFormas
<1>2. Turno' /\ Estados' /\ tareas' = <<>>
  BY <1>1 DEF PInv, Turno, Estados, Sostenidos
<1>3. huella = [y \in {"pagos", "enlaces", "cortados", "cruzados", "reset00"} |-> huella[y]] /\ huella.reset00 \in BOOLEAN
  BY DEF PInv, PFormas
<1>4. QED
  BY <1>1, <1>2, <1>3, SoloGuion

----------------------------------------------------------------------------
(* Receipts.                                                                *)
LEMMA MigrarReciboPInv ==
  ASSUME PInv, NEW r \in DOMAIN LRecibos, MigrarRecibo(r)
  PROVE  PInv'
<1> USE DEF MigrarRecibo, Corre, Hecho
<1>1. PICK d : d = [numero |-> secuencia + 1, afectados |-> <<>>, pendiente |-> TRUE]
  OBVIOUS
<1>2. recibos' = [x \in DOMAIN recibos \cup {r} |-> IF x = r THEN d ELSE recibos[x]]
  BY <1>1 DEF Insertado
<1>3. /\ EsRecibo(d) /\ d.numero = secuencia + 1 /\ DOMAIN d.afectados = {}
      /\ secuencia \in Nat /\ secuencia' = secuencia + 1
  BY <1>1, Vacia DEF EsRecibo, PInv, PFormas
<1>4. LET s == [script EXCEPT !.pend = @ \ {r}]
      IN  /\ s = [y \in {"nombre", "paso", "pend", "tx", "quirurgico"} |-> s[y]]
          /\ s.nombre = script.nombre /\ s.paso = script.paso
  BY MismoGuion
<1>5. /\ script' = [y \in {"nombre", "paso", "pend", "tx", "quirurgico"} |-> script'[y]]
      /\ script'.nombre = "recibos" /\ script'.paso = script.paso /\ script.nombre = "recibos"
  BY <1>4
<1>6. tareas' = <<>> /\ DOMAIN tareas' = {}
  BY Vacia DEF PInv, Turno
<1>7. PFormas'
  <2>1. \A q \in DOMAIN recibos' : EsRecibo(recibos'[q])
    BY <1>2, <1>3 DEF PInv, PFormas
  <2>2. QED
    BY <1>3, <1>5, <1>6, <2>1 DEF PInv, PFormas, EsAsiento, EsRecibo
<1>8. Turno'
  BY <1>5, <1>6 DEF PInv, Turno
<1>9. Estados'
  BY <1>5 DEF PInv, Estados, Sostenidos
<1>10. NumerosDeRecibo'
  <2>1. \A q \in DOMAIN recibos : recibos[q].numero \in Nat /\ recibos[q].numero <= secuencia
    BY DEF PInv, PFormas, EsRecibo, NumerosDeRecibo
  <2>2. DOMAIN recibos' = DOMAIN recibos \cup {r} /\ recibos'[r].numero = secuencia'
    BY <1>2, <1>3
  <2>3. \A q \in DOMAIN recibos' : q # r => q \in DOMAIN recibos /\ recibos'[q] = recibos[q]
    BY <1>2
  <2>4. \A p, q \in DOMAIN recibos : recibos[p].numero = recibos[q].numero => p = q
    BY DEF PInv, NumerosDeRecibo
  <2>5. ASSUME NEW q \in DOMAIN recibos', q # r
        PROVE  \E n \in Nat : n = recibos'[q].numero /\ n <= secuencia
    <3>1. q \in DOMAIN recibos /\ recibos'[q] = recibos[q]
      BY <2>3, <2>5
    <3>2. recibos'[q].numero = recibos[q].numero
      BY <3>1
    <3>3. recibos[q].numero \in Nat /\ recibos[q].numero <= secuencia
      BY <2>1, <3>1
    <3>4. QED
      BY <3>2, <3>3
  <2>6. ASSUME NEW p \in DOMAIN recibos', NEW q \in DOMAIN recibos', recibos'[p].numero = recibos'[q].numero
        PROVE  p = q
    <3>1. ASSUME NEW x \in DOMAIN recibos', x # r PROVE recibos'[x].numero # secuencia'
      <4>1. PICK n \in Nat : n = recibos'[x].numero /\ n <= secuencia
        BY <2>5, <3>1
      <4>2. secuencia \in Nat /\ secuencia' = secuencia + 1
        BY <1>3
      <4>3. n # secuencia'
        BY <4>1, <4>2
      <4>4. QED
        BY <4>1, <4>3
    <3>2. CASE p = r \/ q = r
      BY <2>2, <2>6, <3>1, <3>2
    <3>3. CASE p # r /\ q # r
      BY <2>3, <2>4, <2>6, <3>3
    <3>4. QED
      BY <3>2, <3>3
  <2>7. ASSUME NEW q \in DOMAIN recibos' PROVE recibos'[q].numero <= secuencia'
    <3>1. secuencia \in Nat /\ secuencia' = secuencia + 1
      BY <1>3
    <3>2. CASE q = r
      BY <2>2, <3>1, <3>2
    <3>3. CASE q # r
      <4>1. PICK n \in Nat : n = recibos'[q].numero /\ n <= secuencia
        BY <2>5, <3>3
      <4>2. n <= secuencia'
        BY <3>1, <4>1
      <4>3. QED
        BY <4>1, <4>2
    <3>4. QED
      BY <3>2, <3>3
  <2>8. QED
    BY <2>6, <2>7 DEF NumerosDeRecibo
<1>11. AfectadosExisten' /\ TareasSobreAsientos'
  BY <1>2, <1>3, <1>6 DEF PInv, AfectadosExisten, TareasSobreAsientos
<1>12. RentaUnica' <=> RentaUnica
  BY DEF RentaUnica, Rentas
<1>13. Periodos'
  BY <1>6, <1>12 DEF PInv, Periodos
<1>14. QED
  BY <1>7, <1>8, <1>9, <1>10, <1>11, <1>13 DEF PInv

(* The elements of a sequence made of a finite set are of the set.          *)
LEMMA DeConjunto ==
  ASSUME NEW S, IsFiniteSet(S)
  PROVE  \A i \in DOMAIN SetToSeq(S) : SetToSeq(S)[i] \in S
<1>1. PICK f \in [1 .. Cardinality(S) -> S] : IsInjective(f)
  <2>1. ExistsBijection(1 .. Cardinality(S), S)
    BY FS_CardinalityType
  <2>2. PICK f \in Bijection(1 .. Cardinality(S), S) : TRUE
    BY <2>1 DEF ExistsBijection
  <2>3. f \in [1 .. Cardinality(S) -> S] /\ IsInjective(f)
    BY <2>2 DEF Bijection, Injection, IsInjective
  <2>4. QED
    BY <2>3
<1>2. SetToSeq(S) \in [1 .. Cardinality(S) -> S]
  BY <1>1 DEF SetToSeq
<1>3. QED
  BY <1>2

(* The receipts get other entries, or no longer wait for the linker.        *)
LEMMA SoloRecibos ==
  ASSUME PInv, DOMAIN recibos' = DOMAIN recibos,
         \A q \in DOMAIN recibos : /\ EsRecibo(recibos'[q]) /\ recibos'[q].numero = recibos[q].numero
                                   /\ \A i \in DOMAIN recibos'[q].afectados :
                                        recibos'[q].afectados[i].a \in DOMAIN asientos
  PROVE  /\ \A q \in DOMAIN recibos' : EsRecibo(recibos'[q])
         /\ secuencia' = secuencia => NumerosDeRecibo'
         /\ DOMAIN asientos \subseteq DOMAIN asientos' => AfectadosExisten'
BY DEF PInv, NumerosDeRecibo, AfectadosExisten

LEMMA ImpactarReciboPInv ==
  ASSUME PInv, NEW r \in DOMAIN LRecibos, ImpactarRecibo(r)
  PROVE  PInv'
<1> USE DEF ImpactarRecibo, Corre, Hecho
<1> DEFINE P == SinRepetir(PagosDe(r))
           S == {[a |-> Destino(x)[1], monto |-> LPagos[x].monto] : x \in P}
<1>1. P \subseteq PagosResueltos
  BY DEF SinRepetir, PagosDe, ConRecibo
<1>2. IsFiniteSet(S)
  <2>1. IsFiniteSet(P)
    BY <1>1, PagosAssumption, FS_Subset DEF PagosResueltos
  <2>2. [x \in P |-> [a |-> Destino(x)[1], monto |-> LPagos[x].monto]] \in Surjection(P, S)
    BY DEF Surjection
  <2>3. QED
    BY <2>1, <2>2, FS_Surjection
<1>3. \A d \in S : d.a \in DOMAIN asientos
  BY <1>1, DestinoExiste
<1>4. \A i \in DOMAIN SetToSeq(S) : SetToSeq(S)[i].a \in DOMAIN asientos
  <2> HIDE DEF S
  <2> QED
    BY <1>2, <1>3, DeConjunto
<1>5. PICK s : s = SetToSeq(S)
  OBVIOUS
<1>6. recibos' = IF r \in DOMAIN recibos THEN [recibos EXCEPT ![r].afectados = s] ELSE recibos
  BY <1>5
<1>7. \A i \in DOMAIN s : s[i].a \in DOMAIN asientos
  BY <1>4, <1>5
<1> HIDE DEF S, P
<1>8. DOMAIN recibos' = DOMAIN recibos
  BY <1>6
<1>9. ASSUME NEW q \in DOMAIN recibos
      PROVE  /\ EsRecibo(recibos'[q]) /\ recibos'[q].numero = recibos[q].numero
             /\ \A i \in DOMAIN recibos'[q].afectados : recibos'[q].afectados[i].a \in DOMAIN asientos
  <2>1. EsRecibo(recibos[q]) /\ \A i \in DOMAIN recibos[q].afectados : recibos[q].afectados[i].a \in DOMAIN asientos
    BY DEF PInv, PFormas, AfectadosExisten
  <2>2. CASE recibos'[q] = recibos[q]
    BY <2>1, <2>2
  <2>3. CASE recibos'[q] = [recibos[q] EXCEPT !.afectados = s]
    <3>1. /\ recibos'[q] = [x \in {"numero", "afectados", "pendiente"} |-> recibos'[q][x]]
          /\ recibos'[q].numero = recibos[q].numero /\ recibos'[q].afectados = s
      BY <2>1, <2>3 DEF EsRecibo
    <3>2. QED
      BY <1>7, <2>1, <3>1 DEF EsRecibo
  <2>4. QED
    BY <1>6, <2>2, <2>3
<1>10. LET t == [script EXCEPT !.pend = @ \ {r}]
       IN  /\ t = [y \in {"nombre", "paso", "pend", "tx", "quirurgico"} |-> t[y]]
           /\ t.nombre = script.nombre /\ t.paso = script.paso
  BY MismoGuion
<1>11. /\ script' = [y \in {"nombre", "paso", "pend", "tx", "quirurgico"} |-> script'[y]]
       /\ script'.nombre = "impacto" /\ script'.paso = 1 /\ script.nombre = "impacto"
  BY <1>10
<1>12. tareas' = <<>> /\ DOMAIN tareas' = {}
  BY Vacia DEF PInv, Turno
<1>13. PFormas'
  BY <1>8, <1>9, <1>11, <1>12 DEF PInv, PFormas
<1>14. Turno' /\ Estados'
  BY <1>11, <1>12 DEF PInv, Turno, Estados, Sostenidos
<1>15. NumerosDeRecibo' /\ AfectadosExisten'
  BY <1>8, <1>9, SoloRecibos
<1>16. RentaUnica' <=> RentaUnica
  BY DEF RentaUnica, Rentas
<1>17. Periodos' /\ TareasSobreAsientos'
  BY <1>12, <1>16 DEF PInv, Periodos, TareasSobreAsientos
<1>18. QED
  BY <1>13, <1>14, <1>15, <1>17 DEF PInv

----------------------------------------------------------------------------
(* The resets.                                                              *)
LEMMA MismasRentas ==
  ASSUME \A a \in DOMAIN asientos' : asientos'[a].tipo = "Alquiler Mensual" =>
           /\ a \in DOMAIN asientos /\ asientos[a].tipo = "Alquiler Mensual"
           /\ asientos'[a].contrato = asientos[a].contrato /\ asientos'[a].per = asientos[a].per
  PROVE  RentaUnica => RentaUnica'
<1>1. ASSUME NEW contrato, NEW per
      PROVE  Rentas(contrato, per)' \subseteq Rentas(contrato, per)
  BY DEF Rentas
<1>2. ASSUME RentaUnica, NEW contrato, NEW per, NEW a \in Rentas(contrato, per)', NEW b \in Rentas(contrato, per)'
      PROVE  a = b
  <2>1. a \in Rentas(contrato, per) /\ b \in Rentas(contrato, per)
    BY <1>1
  <2>2. QED
    BY <1>2, <2>1 DEF RentaUnica
<1>3. QED
  BY <1>2 DEF RentaUnica

(* A document without payments, and one without state either.               *)
LEMMA Limpios ==
  ASSUME NEW d, EsAsiento(d)
  PROVE  /\ EsAsiento(SinPagos(d)) /\ Igual(d, SinPagos(d))
         /\ \A x : LET e == [d EXCEPT !.estado = "PENDIENTE", !.recibo = x]
                   IN  EsAsiento(e) /\ Igual(d, e) /\ Sostenido(e)
         /\ LET e == [SinPagos(d) EXCEPT !.estado = "PENDIENTE"]
            IN  EsAsiento(e) /\ Igual(d, e) /\ Sostenido(e)
         /\ \A x, y, z : LET e == [d EXCEPT !.debito = x, !.credito = y, !.pagado = 0,
                                           !.estado = "PENDIENTE", !.recibo = z]
                         IN  EsAsiento(e) /\ Igual(d, e) /\ Sostenido(e)
         /\ \A z : LET e == [d EXCEPT !.pagado = 0, !.estado = "PENDIENTE", !.recibo = z]
                   IN  EsAsiento(e) /\ Igual(d, e) /\ Sostenido(e)
<1>0. /\ d = [f \in CamposAsiento |-> d[f]]
      /\ d.debe \in Int /\ d.haber \in Int /\ d.pagado \in Int /\ d.liquidado \in Int
  BY DEF EsAsiento
<1>1. ASSUME NEW e, e = SinPagos(d)
      PROVE  EsAsiento(e) /\ Igual(d, e)
  <2>1. /\ e = [f \in CamposAsiento |-> e[f]] /\ e.tipo = d.tipo /\ e.contrato = d.contrato /\ e.per = d.per
        /\ e.debe = d.debe /\ e.haber = d.haber
        /\ e.pagado = 0 /\ e.liquidado = 0
    BY <1>0, <1>1 DEF CamposAsiento, SinPagos
  <2>2. QED
    BY <1>0, <2>1 DEF EsAsiento, Igual
<1>2. ASSUME NEW x, NEW e, e = [d EXCEPT !.estado = "PENDIENTE", !.recibo = x]
      PROVE  EsAsiento(e) /\ Igual(d, e) /\ Sostenido(e)
  <2>1. /\ e = [f \in CamposAsiento |-> e[f]] /\ e.tipo = d.tipo /\ e.contrato = d.contrato /\ e.per = d.per
        /\ e.debe = d.debe /\ e.haber = d.haber
        /\ e.pagado \in Int /\ e.liquidado \in Int /\ e.estado = "PENDIENTE"
    BY <1>0, <1>2 DEF CamposAsiento
  <2>2. QED
    BY <1>0, <2>1 DEF EsAsiento, Igual, Sostenido
<1>3. ASSUME NEW e, e = [SinPagos(d) EXCEPT !.estado = "PENDIENTE"]
      PROVE  EsAsiento(e) /\ Igual(d, e) /\ Sostenido(e)
  <2>1. PICK s : s = SinPagos(d)
    OBVIOUS
  <2>2. EsAsiento(s) /\ Igual(d, s)
    BY <1>1, <2>1
  <2>3. e = [s EXCEPT !.estado = "PENDIENTE"]
    BY <1>3, <2>1
  <2>4. /\ e = [f \in CamposAsiento |-> e[f]] /\ e.tipo = s.tipo /\ e.contrato = s.contrato /\ e.per = s.per
        /\ e.debe = s.debe /\ e.haber = s.haber /\ e.pagado = s.pagado /\ e.liquidado = s.liquidado
        /\ e.estado = "PENDIENTE"
    BY <2>2, <2>3 DEF CamposAsiento, EsAsiento
  <2>5. QED
    BY <2>2, <2>4 DEF EsAsiento, Igual, Sostenido
<1>4. ASSUME NEW x, NEW y, NEW z, NEW e, e = [d EXCEPT !.debito = x, !.credito = y, !.pagado = 0, !.estado = "PENDIENTE", !.recibo = z]
      PROVE  EsAsiento(e) /\ Igual(d, e) /\ Sostenido(e)
  <2>1. e = [f \in CamposAsiento |-> e[f]]
    BY <1>0, <1>4 DEF CamposAsiento
  <2>2. e.tipo = d.tipo /\ e.contrato = d.contrato /\ e.per = d.per
    BY <1>0, <1>4 DEF CamposAsiento
  <2>3. e.debe = d.debe /\ e.haber = d.haber /\ e.liquidado = d.liquidado
    BY <1>0, <1>4 DEF CamposAsiento
  <2>4. e.pagado = 0 /\ e.estado = "PENDIENTE"
    BY <1>0, <1>4 DEF CamposAsiento
  <2>5. QED
    BY <1>0, <2>1, <2>2, <2>3, <2>4 DEF EsAsiento, Igual, Sostenido
<1>5. ASSUME NEW z, NEW e, e = [d EXCEPT !.pagado = 0, !.estado = "PENDIENTE", !.recibo = z]
      PROVE  EsAsiento(e) /\ Igual(d, e) /\ Sostenido(e)
  <2>1. e = [f \in CamposAsiento |-> e[f]]
    BY <1>0, <1>5 DEF CamposAsiento
  <2>2. e.tipo = d.tipo /\ e.contrato = d.contrato /\ e.per = d.per
    BY <1>0, <1>5 DEF CamposAsiento
  <2>3. e.debe = d.debe /\ e.haber = d.haber /\ e.liquidado = d.liquidado
    BY <1>0, <1>5 DEF CamposAsiento
  <2>4. e.pagado = 0 /\ e.estado = "PENDIENTE"
    BY <1>0, <1>5 DEF CamposAsiento
  <2>5. QED
    BY <1>0, <2>1, <2>2, <2>3, <2>4 DEF EsAsiento, Igual, Sostenido
<1>6. QED
  BY <1>1, <1>2, <1>3, <1>4, <1>5

LEMMA Reset00PInv ==
  ASSUME PInv, Reset00
  PROVE  PInv'
<1>1. /\ script.paso \in 1 .. 5 /\ script.nombre = "reset00" /\ tareas' = <<>> /\ DOMAIN tareas' = {}
      /\ script.paso >= 2 => DOMAIN recibos = {}
  <2>1. script.nombre = "reset00" /\ tareas' = tareas
    BY DEF Reset00
  <2>2. QED
    BY <2>1, Vacia DEF PInv, Turno
<1>2. DOMAIN recibos' = {}
  <2>1. recibos' = IF script.paso = 1 THEN <<>> ELSE recibos
    BY DEF Reset00
  <2>2. QED
    BY <1>1, <2>1, Vacia
<1>3. /\ script' = [y \in {"nombre", "paso", "pend", "tx", "quirurgico"} |-> script'[y]]
      /\ script.paso < 5 => script'.nombre = "reset00" /\ script'.paso = script.paso + 1
      /\ script.paso = 5 => script'.nombre = "ninguno" /\ script'.paso = 1
  <2>0. LET s == [script EXCEPT !.paso = @ + 1, !.pend = {}]
        IN  /\ s = [y \in {"nombre", "paso", "pend", "tx", "quirurgico"} |-> s[y]]
            /\ s.nombre = script.nombre /\ s.paso = script.paso + 1
    BY MismoGuion
  <2>1. CASE script.paso < 5
    <3>1. script' = [script EXCEPT !.paso = @ + 1, !.pend = {}]
      BY <2>1 DEF Reset00, Avanzar
    <3>2. QED
      BY <1>1, <2>0, <2>1, <3>1
  <2>2. CASE script.paso = 5
    <3>1. script' = Quieto
      BY <2>2 DEF Reset00, Fin
    <3>2. QED
      BY <2>2, <3>1, MismoGuion
  <2>3. QED
    BY <1>1, <2>1, <2>2
<1>4. Turno'
  BY <1>1, <1>2, <1>3 DEF Turno
<1>5. /\ huella' = [y \in {"pagos", "enlaces", "cortados", "cruzados", "reset00"} |-> huella'[y]]
      /\ huella'.cruzados = huella.cruzados /\ huella'.reset00 \in BOOLEAN
      /\ script.paso < 5 => huella' = huella
  BY DEF PInv, PFormas, Reset00
<1>6. DOMAIN asientos' = DOMAIN asientos /\ secuencia' \in Nat
  BY DEF PInv, PFormas, Reset00
<1>0. script.paso = 4 =>
        asientos' = [b \in DOMAIN asientos |->
                       IF ConPagosEnEstado(asientos[b])
                       THEN [asientos[b] EXCEPT !.estado = "PENDIENTE", !.recibo = Nulo] ELSE asientos[b]]
  <2>1. script.paso = 4 => script.paso # 3
    OBVIOUS
  <2>2. QED
    BY <2>1, Zenon DEF Reset00
<1>7. ASSUME NEW a \in DOMAIN asientos
      PROVE  /\ EsAsiento(asientos'[a]) /\ Igual(asientos[a], asientos'[a])
             /\ script.paso = 4 => Sostenido(asientos'[a])
             /\ script.paso \notin {3, 4} => asientos'[a] = asientos[a]
  <2>1. EsAsiento(asientos[a])
    BY DEF PInv, PFormas
  <2>2. CASE script.paso = 3
    <3>1. asientos'[a] = SinPagos(asientos[a])
      BY <2>2 DEF Reset00
    <3>2. EsAsiento(SinPagos(asientos[a])) /\ Igual(asientos[a], SinPagos(asientos[a]))
      BY <2>1, Limpios
    <3>3. QED
      BY <2>2, <3>1, <3>2
  <2>3. CASE script.paso = 4 /\ ConPagosEnEstado(asientos[a])
    <3>1. asientos'[a] = [asientos[a] EXCEPT !.estado = "PENDIENTE", !.recibo = Nulo]
      BY <1>0, <2>3
    <3>2. LET e == [asientos[a] EXCEPT !.estado = "PENDIENTE", !.recibo = Nulo]
          IN  EsAsiento(e) /\ Igual(asientos[a], e) /\ Sostenido(e)
      BY <2>1, Limpios
    <3>3. QED
      BY <2>3, <3>1, <3>2
  <2>4. CASE script.paso = 4 /\ ~ ConPagosEnEstado(asientos[a])
    <3>1. asientos'[a] = asientos[a]
      BY <1>0, <2>4
    <3>2. QED
      BY <2>1, <2>4, <3>1 DEF ConPagosEnEstado, Sostenido, Igual
  <2>5. CASE script.paso \notin {3, 4}
    BY <2>1, <2>5 DEF Igual, Reset00
  <2>6. QED
    BY <2>2, <2>3, <2>4, <2>5
<1>8. PFormas'
  <2>1. \A a \in DOMAIN asientos' : EsAsiento(asientos'[a])
    BY <1>6, <1>7
  <2>2. (\A a \in DOMAIN asientos' : EsAsiento(asientos'[a])) => (\A a \in DOMAIN asientos : EsAsiento(asientos[a]))'
    BY DEF EsAsiento
  <2>3. huella'.cruzados \in BOOLEAN
    BY <1>5 DEF PInv, PFormas
  <2>4. QED
    BY <1>1, <1>2, <1>3, <1>5, <1>6, <2>1, <2>2, <2>3 DEF PFormas
<1>9. Estados'
  <2>1. CASE script.paso \in {1, 2}
    BY <1>3, <1>5, <1>6, <1>7, <2>1 DEF PInv, Estados, Sostenidos, Corre
  <2>2. CASE script.paso = 3
    BY <1>3, <2>2 DEF Estados, Corre
  <2>3. CASE script.paso = 4
    BY <1>6, <1>7, <2>3 DEF Estados, Sostenidos
  <2>4. CASE script.paso = 5
    BY <1>1, <1>6, <1>7, <2>4 DEF PInv, Estados, Sostenidos, Corre
  <2>5. QED
    BY <1>1, <2>1, <2>2, <2>3, <2>4
<1>10. NumerosDeRecibo' /\ AfectadosExisten' /\ TareasSobreAsientos'
  BY <1>1, <1>2 DEF NumerosDeRecibo, AfectadosExisten, TareasSobreAsientos
<1>11. RentaUnica => RentaUnica'
  BY <1>6, <1>7, MismasRentas DEF Igual
<1>12. Periodos'
  BY <1>1, <1>5, <1>11 DEF PInv, Periodos
<1>13. QED
  BY <1>4, <1>8, <1>9, <1>10, <1>12 DEF PInv

LEMMA Reset08PInv ==
  ASSUME PInv, Reset08
  PROVE  PInv'
<1>1. /\ script.paso \in 1 .. 4 /\ script.nombre = "reset08" /\ tareas' = <<>> /\ DOMAIN tareas' = {}
  <2>1. script.nombre = "reset08" /\ tareas' = tareas
    BY DEF Reset08
  <2>2. QED
    BY <2>1, Vacia DEF PInv, Turno
<1>2. /\ script' = [y \in {"nombre", "paso", "pend", "tx", "quirurgico"} |-> script'[y]]
      /\ script'.nombre # "reset00" /\ script'.nombre \in {"reset08", "ninguno"}
      /\ script'.paso \in 1 .. 4
  <2>0. LET s == [script EXCEPT !.paso = @ + 1, !.pend = {}]
        IN  /\ s = [y \in {"nombre", "paso", "pend", "tx", "quirurgico"} |-> s[y]]
            /\ s.nombre = script.nombre /\ s.paso = script.paso + 1
    BY MismoGuion
  <2>1. CASE script.paso < 4
    <3>1. script' = [script EXCEPT !.paso = @ + 1, !.pend = {}]
      BY <2>1 DEF Reset08, Avanzar
    <3>2. QED
      BY <1>1, <2>0, <2>1, <3>1
  <2>2. CASE script.paso = 4
    <3>1. script' = Quieto
      BY <2>2 DEF Reset08, Fin
    <3>2. QED
      BY <2>2, <3>1, MismoGuion
  <2>3. QED
    BY <1>1, <2>1, <2>2
<1>3. Turno'
  BY <1>1, <1>2 DEF Turno
<1>4. /\ huella' = [y \in {"pagos", "enlaces", "cortados", "cruzados", "reset00"} |-> huella'[y]]
      /\ huella'.cruzados = huella.cruzados /\ huella'.reset00 = huella.reset00
      /\ huella'.cruzados \in BOOLEAN /\ huella'.reset00 \in BOOLEAN
  BY DEF PInv, PFormas, Reset08
<1>5. DOMAIN asientos' = DOMAIN asientos /\ secuencia' = secuencia
  BY DEF Reset08
<1>6. ASSUME NEW a \in DOMAIN asientos
      PROVE  Mejora(asientos[a], asientos'[a])
  <2>1. EsAsiento(asientos[a]) /\ Mejora(asientos[a], asientos[a])
    BY FormadosMejoran
  <2>2. CASE asientos'[a] = asientos[a]
    BY <2>1, <2>2
  <2>3. CASE asientos'[a] = [asientos[a] EXCEPT !.debito = {}, !.credito = {}, !.pagado = 0,
                                        !.estado = "PENDIENTE", !.recibo = Nulo]
    <3>1. LET e == [asientos[a] EXCEPT !.debito = {}, !.credito = {}, !.pagado = 0,
                                        !.estado = "PENDIENTE", !.recibo = Nulo]
          IN  EsAsiento(e) /\ Igual(asientos[a], e) /\ Sostenido(e)
      BY <2>1, Limpios
    <3>2. QED
      BY <2>3, <3>1 DEF Mejora
  <2>4. CASE asientos'[a] = [asientos[a] EXCEPT !.pagado = 0, !.estado = "PENDIENTE", !.recibo = Nulo]
    <3>1. LET e == [asientos[a] EXCEPT !.pagado = 0, !.estado = "PENDIENTE", !.recibo = Nulo]
          IN  EsAsiento(e) /\ Igual(asientos[a], e) /\ Sostenido(e)
      BY <2>1, Limpios
    <3>2. QED
      BY <2>4, <3>1 DEF Mejora
  <2>5. QED
    BY <2>2, <2>3, <2>4 DEF Reset08
<1>7. DOMAIN recibos' = DOMAIN recibos
  BY DEF Reset08
<1>8. ASSUME NEW q \in DOMAIN recibos
      PROVE  /\ EsRecibo(recibos'[q]) /\ recibos'[q].numero = recibos[q].numero
             /\ \A i \in DOMAIN recibos'[q].afectados : recibos'[q].afectados[i].a \in DOMAIN asientos
  <2>1. EsRecibo(recibos[q]) /\ \A i \in DOMAIN recibos[q].afectados : recibos[q].afectados[i].a \in DOMAIN asientos
    BY DEF PInv, PFormas, AfectadosExisten
  <2>2. CASE recibos'[q] = recibos[q]
    BY <2>1, <2>2
  <2>3. CASE recibos'[q] = [recibos[q] EXCEPT !.afectados = <<>>]
    <3>1. /\ recibos'[q] = [x \in {"numero", "afectados", "pendiente"} |-> recibos'[q][x]]
          /\ recibos'[q].numero = recibos[q].numero /\ recibos'[q].afectados = <<>>
      BY <2>1, <2>3 DEF EsRecibo
    <3>2. QED
      BY <2>1, <3>1, Vacia DEF EsRecibo
  <2>4. QED
    BY <2>2, <2>3 DEF Reset08
<1>9. PFormas'
  BY <1>1, <1>2, <1>4, <1>5, <1>6, <1>7, <1>8 DEF PInv, PFormas, Mejora
<1>10. Estados'
  BY <1>1, <1>2, <1>4, <1>5, <1>6 DEF PInv, Estados, Sostenidos, Corre, Mejora
<1>11. NumerosDeRecibo' /\ AfectadosExisten'
  BY <1>5, <1>7, <1>8, SoloRecibos
<1>12. RentaUnica => RentaUnica'
  BY <1>5, <1>6, MismasRentas DEF Mejora, Igual
<1>13. Periodos' /\ TareasSobreAsientos'
  BY <1>1, <1>4, <1>12 DEF PInv, Periodos, TareasSobreAsientos
<1>14. QED
  BY <1>3, <1>9, <1>10, <1>11, <1>13 DEF PInv

LEMMA ResetPagosPInv ==
  ASSUME PInv, ResetPagos
  PROVE  PInv'
<1>1. /\ script.paso \in 1 .. 4 /\ script.nombre = "resetPagos" /\ tareas' = <<>> /\ DOMAIN tareas' = {}
      /\ script.paso >= 3 => DOMAIN recibos = {}
  <2>1. script.nombre = "resetPagos" /\ tareas' = tareas
    BY DEF ResetPagos
  <2>2. QED
    BY <2>1, Vacia DEF PInv, Turno
<1>2. /\ script' = [y \in {"nombre", "paso", "pend", "tx", "quirurgico"} |-> script'[y]]
      /\ script.paso < 4 => script'.nombre = "resetPagos" /\ script'.paso = script.paso + 1
      /\ script.paso = 4 => script'.nombre = "ninguno" /\ script'.paso = 1
  <2>0. LET s == [script EXCEPT !.paso = @ + 1, !.pend = {}]
        IN  /\ s = [y \in {"nombre", "paso", "pend", "tx", "quirurgico"} |-> s[y]]
            /\ s.nombre = script.nombre /\ s.paso = script.paso + 1
    BY MismoGuion
  <2>1. CASE script.paso < 4
    <3>1. script' = [script EXCEPT !.paso = @ + 1, !.pend = {}]
      BY <2>1 DEF ResetPagos, Avanzar
    <3>2. QED
      BY <1>1, <2>0, <2>1, <3>1
  <2>2. CASE script.paso = 4
    <3>1. script' = Quieto
      BY <2>2 DEF ResetPagos, Fin
    <3>2. QED
      BY <2>2, <3>1, MismoGuion
  <2>3. QED
    BY <1>1, <2>1, <2>2
<1>3. /\ script.paso = 2 => DOMAIN recibos' = {}
      /\ script.paso # 2 => recibos' = recibos
  <2>1. recibos' = IF script.paso = 2 THEN <<>> ELSE recibos
    BY DEF ResetPagos
  <2>2. QED
    BY <2>1, Vacia
<1>4. Turno'
  BY <1>1, <1>2, <1>3 DEF Turno
<1>5. /\ huella' = [y \in {"pagos", "enlaces", "cortados", "cruzados", "reset00"} |-> huella'[y]]
      /\ huella'.cruzados = huella.cruzados /\ huella'.reset00 \in BOOLEAN /\ huella'.cruzados \in BOOLEAN
      /\ script.paso < 4 => huella' = huella
  BY DEF PInv, PFormas, ResetPagos
<1>6. asientos' = IF script.paso = 3 THEN Restrict(asientos, {a \in DOMAIN asientos : asientos[a].legacy_id = Nulo})
                  ELSE IF script.paso = 4
                  THEN [a \in DOMAIN asientos |-> [SinPagos(asientos[a]) EXCEPT !.estado = "PENDIENTE"]]
                  ELSE asientos
  BY DEF ResetPagos
<1>7. DOMAIN asientos' \subseteq DOMAIN asientos /\ (script.paso # 3 => DOMAIN asientos' = DOMAIN asientos)
  BY <1>6 DEF Restrict
<1>8. ASSUME NEW a \in DOMAIN asientos'
      PROVE  /\ EsAsiento(asientos'[a]) /\ Igual(asientos[a], asientos'[a])
             /\ script.paso = 4 => Sostenido(asientos'[a])
             /\ script.paso # 4 => asientos'[a] = asientos[a]
  <2>1. EsAsiento(asientos[a]) /\ a \in DOMAIN asientos
    BY <1>7 DEF PInv, PFormas
  <2>2. CASE script.paso = 4
    <3>1. asientos'[a] = [SinPagos(asientos[a]) EXCEPT !.estado = "PENDIENTE"]
      BY <1>6, <2>1, <2>2
    <3>2. LET e == [SinPagos(asientos[a]) EXCEPT !.estado = "PENDIENTE"]
          IN  EsAsiento(e) /\ Igual(asientos[a], e) /\ Sostenido(e)
      BY <2>1, Limpios
    <3>3. QED
      BY <2>2, <3>1, <3>2
  <2>3. CASE script.paso # 4
    <3>1. asientos'[a] = asientos[a]
      BY <1>6, <2>1, <2>3 DEF Restrict
    <3>2. QED
      BY <2>1, <2>3, <3>1 DEF Igual
  <2>4. QED
    BY <2>2, <2>3
<1>9. PFormas'
  <2>1. secuencia' = secuencia /\ secuencia \in Nat
    BY DEF ResetPagos, PInv, PFormas
  <2>2. \A r \in DOMAIN recibos' : EsRecibo(recibos'[r])
    BY <1>3 DEF PInv, PFormas
  <2>3. \A a \in DOMAIN asientos' : EsAsiento(asientos'[a])
    BY <1>8
  <2>4. QED
    BY <1>1, <1>2, <1>5, <2>1, <2>2, <2>3 DEF PFormas, EsAsiento, EsRecibo
<1>10. Estados'
  <2>1. CASE script.paso < 4
    BY <1>1, <1>2, <1>5, <1>7, <1>8, <2>1 DEF PInv, Estados, Sostenidos, Corre
  <2>2. CASE script.paso = 4
    BY <1>8, <2>2 DEF Estados, Sostenidos
  <2>3. QED
    BY <1>1, <2>1, <2>2
<1>11. NumerosDeRecibo'
  <2>1. secuencia' = secuencia
    BY DEF ResetPagos
  <2>2. QED
    BY <1>3, <2>1 DEF PInv, NumerosDeRecibo
<1>12. AfectadosExisten'
  BY <1>1, <1>3, <1>7 DEF PInv, AfectadosExisten
<1>13. RentaUnica => RentaUnica'
  BY <1>7, <1>8, MismasRentas DEF Igual
<1>14. Periodos' /\ TareasSobreAsientos'
  BY <1>1, <1>5, <1>13 DEF PInv, Periodos, TareasSobreAsientos
<1>15. QED
  BY <1>4, <1>9, <1>10, <1>11, <1>12, <1>14 DEF PInv

----------------------------------------------------------------------------
(* Starting a script, ending it, dying.                                     *)
LEMMA EmpezarScriptPInv ==
  ASSUME PInv, NEW n, EmpezarScript(n)
  PROVE  PInv'
<1>1. PICK q : script' = [Quieto EXCEPT !.nombre = n, !.pend = Lectura(n), !.quirurgico = q]
  BY DEF EmpezarScript
<1>2. /\ script.nombre = "ninguno" /\ tareas' = tareas
      /\ UNCHANGED <<asientos, recibos, secuencia>>
      /\ huella' = [huella EXCEPT !.enlaces = @ \/ n = "enlazar"]
  BY DEF EmpezarScript
<1>3. /\ script' = [y \in {"nombre", "paso", "pend", "tx", "quirurgico"} |-> script'[y]]
      /\ script'.nombre = n /\ script'.paso = 1 /\ script'.pend = Lectura(n)
  BY <1>1 DEF Quieto
<1>4. /\ huella' = [y \in {"pagos", "enlaces", "cortados", "cruzados", "reset00"} |-> huella'[y]]
      /\ huella'.cruzados = huella.cruzados /\ huella'.reset00 = huella.reset00 /\ huella'.reset00 \in BOOLEAN
  BY <1>2 DEF PInv, PFormas
<1>5. tareas' = <<>>
  BY <1>2 DEF PInv, Turno
<1>6. n = "pagos" => Lectura(n) = {}
  BY DEF Lectura
<1>7. Turno'
  BY <1>3, <1>5, <1>6 DEF Turno
<1>8. Estados'
  BY <1>2, <1>3, <1>4 DEF PInv, Estados, Sostenidos, Corre
<1>9. QED
  BY <1>2, <1>3, <1>4, <1>5, <1>7, <1>8, SoloGuion

LEMMA TerminarScriptPInv ==
  ASSUME PInv, TerminarScript
  PROVE  PInv'
<1>1. /\ script.nombre # "reset00" /\ script' = Quieto
      /\ UNCHANGED <<asientos, recibos, secuencia, huella, tareas>>
      /\ script.nombre = "enlazar" => tareas = <<>>
  BY DEF TerminarScript, Fin, Corre
<1>2. /\ script' = [y \in {"nombre", "paso", "pend", "tx", "quirurgico"} |-> script'[y]]
      /\ script'.nombre = "ninguno" /\ script'.paso = 1
  BY <1>1, MismoGuion
<1>3. tareas' = <<>>
  BY <1>1 DEF PInv, Turno
<1>4. Turno' /\ Estados'
  BY <1>1, <1>2, <1>3 DEF PInv, Turno, Estados, Sostenidos, Corre
<1>5. huella' = [y \in {"pagos", "enlaces", "cortados", "cruzados", "reset00"} |-> huella'[y]] /\ huella'.reset00 \in BOOLEAN
  BY <1>1 DEF PInv, PFormas
<1>6. QED
  BY <1>1, <1>2, <1>3, <1>4, <1>5, SoloGuion

LEMMA MorirScriptPInv ==
  ASSUME PInv, MorirScript
  PROVE  PInv'
<1>1. /\ script' = Quieto /\ tareas' = <<>>
      /\ UNCHANGED <<asientos, recibos, secuencia>>
  BY DEF MorirScript
<1>2. /\ script' = [y \in {"nombre", "paso", "pend", "tx", "quirurgico"} |-> script'[y]]
      /\ script'.nombre = "ninguno" /\ script'.paso = 1
  BY <1>1, MismoGuion
<1>3. PICK C : huella' = [huella EXCEPT !.cortados = C, !.reset00 = @ \/ Corre("reset00", 4)]
  BY DEF MorirScript
<1>4. /\ huella' = [y \in {"pagos", "enlaces", "cortados", "cruzados", "reset00"} |-> huella'[y]]
      /\ huella'.cruzados = huella.cruzados
      /\ huella'.reset00 = (huella.reset00 \/ Corre("reset00", 4))
  BY <1>3 DEF PInv, PFormas
<1>5. Turno'
  BY <1>1, <1>2 DEF Turno
<1>6. Estados'
  BY <1>1, <1>2, <1>4 DEF PInv, Estados, Sostenidos, Corre
<1>7. QED
  BY <1>1, <1>2, <1>4, <1>5, <1>6, SoloGuion

----------------------------------------------------------------------------
(* The linker: a step of the task of a receipt r leaves the others.         *)
OtrasTareas(r) == \A q \in DOMAIN tareas' : q # r => q \in DOMAIN tareas /\ tareas'[q] = tareas[q]
Sobre(r) ==
  /\ tareas[r].paso = "imputar" => tareas[r].a \in DOMAIN asientos
  /\ tareas[r].paso \in {"crear", "imputar"} => QuedanLineas(r)
  /\ \A i \in DOMAIN tareas[r].afectados : tareas[r].afectados[i].a \in DOMAIN asientos

LEMMA TareasSiguen ==
  ASSUME PInv, NEW r, OtrasTareas(r), DOMAIN asientos \subseteq DOMAIN asientos',
         r \in DOMAIN tareas' => EsTarea(tareas'[r]) /\ r \in DOMAIN LRecibos /\ Sobre(r)'
  PROVE  /\ \A q \in DOMAIN tareas' : EsTarea(tareas'[q]) /\ q \in DOMAIN LRecibos
         /\ TareasSobreAsientos'
<1>1. ASSUME NEW q \in DOMAIN tareas', q # r
      PROVE  EsTarea(tareas'[q]) /\ q \in DOMAIN LRecibos /\ Sobre(q)'
  <2>1. q \in DOMAIN tareas /\ tareas'[q] = tareas[q]
    BY <1>1 DEF OtrasTareas
  <2>2. EsTarea(tareas[q]) /\ q \in DOMAIN LRecibos /\ Sobre(q)
    BY <2>1 DEF PInv, PFormas, TareasSobreAsientos, Sobre
  <2>3. QED
    BY <2>1, <2>2 DEF Sobre, QuedanLineas
<1>2. ASSUME NEW q \in DOMAIN tareas'
      PROVE  EsTarea(tareas'[q]) /\ q \in DOMAIN LRecibos /\ Sobre(q)'
  BY <1>1
<1>3. QED
  BY <1>2 DEF TareasSobreAsientos, Sobre

LEMMA PeriodosSiguen ==
  ASSUME PInv, NEW r \in DOMAIN tareas, OtrasTareas(r), huella'.cruzados = huella.cruzados,
         \A contrato, per : Rentas(contrato, per)' = Rentas(contrato, per),
         ~ huella.cruzados /\ r \in DOMAIN tareas' /\ tareas'[r].paso = "crear" =>
           (Linea(r).contrato # Nulo /\ Rentas(Linea(r).contrato, Linea(r).per) = {})'
  PROVE  Periodos'
<1> SUFFICES ASSUME ~ huella.cruzados PROVE RentaUnica' /\ \A q \in DOMAIN tareas' : TareaDe(q)'
  BY DEF Periodos
<1>1. RentaUnica /\ \A q \in DOMAIN tareas : TareaDe(q)
  BY DEF PInv, Periodos
<1>2. RentaUnica'
  BY <1>1 DEF RentaUnica
<1>3. DOMAIN tareas' \subseteq DOMAIN tareas
  BY DEF OtrasTareas
<1>4. ASSUME NEW q \in DOMAIN tareas'
      PROVE  TareaDe(q)'
  <2>1. TareaDe(q)
    BY <1>1, <1>3
  <2>2. /\ \A i \in DOMAIN LRecibos[q].lineas : LRecibos[q].lineas[i].contrato \in {Nulo, Origen(q)}
        /\ \A p \in DOMAIN tareas' : p # q /\ Origen(p) # Nulo => Origen(p) # Origen(q)
    BY <1>3, <2>1 DEF TareaDe
  <2>3. CASE q = r
    BY <2>2, <2>3 DEF TareaDe, Origen
  <2>4. CASE q # r
    <3>1. tareas'[q] = tareas[q]
      BY <2>4 DEF OtrasTareas
    <3>2. Linea(q)' = Linea(q)
      BY <3>1 DEF Linea
    <3>3. tareas'[q].paso = "crear" => Linea(q)'.contrato # Nulo /\ Rentas(Linea(q).contrato, Linea(q).per)' = {}
      BY <2>1, <3>1, <3>2 DEF TareaDe
    <3>4. QED
      BY <2>2, <3>3 DEF TareaDe, Origen
  <2>5. QED
    BY <2>3, <2>4
<1>5. QED
  BY <1>2, <1>4

(* Entries that are renewed one by one have the same rents.                 *)
LEMMA RentasIguales ==
  ASSUME DOMAIN asientos' = DOMAIN asientos,
         \A a \in DOMAIN asientos : Igual(asientos[a], asientos'[a])
  PROVE  \A contrato, per : Rentas(contrato, per)' = Rentas(contrato, per)
BY DEF Rentas, Igual

(* A search that finds nothing, finds no rent of the period.                *)
LEMMA NadaExacto ==
  ASSUME RentaUnica, NEW l, Exactos(l) = {}, l.contrato # Nulo, l.clase = "alquiler"
  PROVE  Rentas(l.contrato, l.per) = {}
<1> DEFINE adhoc == {a \in DOMAIN asientos : asientos[a].legacy_id = l.maestro}
           cand == {a \in DOMAIN asientos : /\ asientos[a].tipo = "Alquiler Mensual"
                                            /\ asientos[a].contrato = l.contrato
                                            /\ asientos[a].per = l.per}
           monto == {a \in cand : asientos[a].debe = l.monto}
           pendientes == {a \in cand : asientos[a].estado = "PENDIENTE"}
<1>1. cand = Rentas(l.contrato, l.per)
  BY DEF Rentas
<1>2. Exactos(l) = IF l.maestro # Nulo /\ adhoc # {} THEN adhoc
                   ELSE IF l.contrato = Nulo \/ l.clase # "alquiler" THEN {}
                   ELSE IF Cardinality(cand) <= 1 THEN cand
                   ELSE IF monto # {} THEN monto ELSE pendientes
  BY DEF Exactos
<1>3. \A a, b \in cand : a = b
  <2>1. \A a, b \in Rentas(l.contrato, l.per) : a = b
    BY DEF RentaUnica
  <2> HIDE DEF cand
  <2>2. QED
    BY <1>1, <2>1
<1>4. Cardinality(cand) <= 1
  <2> HIDE DEF cand
  <2>1. CASE cand = {}
    BY <2>1, FS_EmptySet
  <2>2. ASSUME NEW a \in cand PROVE Cardinality(cand) = 1
    <3>1. cand = {a}
      BY <1>3, <2>2
    <3>2. QED
      BY <3>1, FS_Singleton
  <2>3. QED
    BY <2>1, <2>2
<1> HIDE DEF adhoc, cand, monto, pendientes
<1>5. QED
  BY <1>1, <1>2, <1>4

(* What every step of the linker keeps.                                     *)
LEMMA EnlazarPInv ==
  ASSUME PInv, script.nombre = "enlazar", script'.nombre = "enlazar", script'.paso = script.paso,
         script' = [y \in {"nombre", "paso", "pend", "tx", "quirurgico"} |-> script'[y]],
         huella' = [y \in {"pagos", "enlaces", "cortados", "cruzados", "reset00"} |-> huella'[y]],
         huella'.reset00 = huella.reset00, huella'.cruzados \in BOOLEAN, secuencia' = secuencia,
         DOMAIN asientos \subseteq DOMAIN asientos',
         \A a \in DOMAIN asientos' : EsAsiento(asientos'[a]) /\ (Sostenidos => Sostenido(asientos'[a])),
         DOMAIN recibos' = DOMAIN recibos,
         \A q \in DOMAIN recibos : /\ EsRecibo(recibos'[q]) /\ recibos'[q].numero = recibos[q].numero
                                   /\ \A i \in DOMAIN recibos'[q].afectados :
                                        recibos'[q].afectados[i].a \in DOMAIN asientos,
         \A q \in DOMAIN tareas' : EsTarea(tareas'[q]) /\ q \in DOMAIN LRecibos,
         TareasSobreAsientos', Periodos'
  PROVE  PInv'
<1>1. PFormas'
  BY DEF PInv, PFormas
<1>2. Turno'
  BY DEF PInv, Turno
<1>3. Estados'
  BY DEF PInv, Estados, Sostenidos, Corre
<1>4. NumerosDeRecibo' /\ AfectadosExisten'
  BY SoloRecibos
<1>5. QED
  BY <1>1, <1>2, <1>3, <1>4 DEF PInv

LEMMA NadaNuevo ==
  ASSUME PInv
  PROVE  /\ \A a \in DOMAIN asientos : EsAsiento(asientos[a]) /\ (Sostenidos => Sostenido(asientos[a]))
         /\ \A q \in DOMAIN recibos : /\ EsRecibo(recibos[q])
                                      /\ \A i \in DOMAIN recibos[q].afectados :
                                           recibos[q].afectados[i].a \in DOMAIN asientos
         /\ \A q \in DOMAIN tareas : EsTarea(tareas[q]) /\ q \in DOMAIN LRecibos /\ Sobre(q)
         /\ script = [y \in {"nombre", "paso", "pend", "tx", "quirurgico"} |-> script[y]]
         /\ huella = [y \in {"pagos", "enlaces", "cortados", "cruzados", "reset00"} |-> huella[y]]
         /\ huella.cruzados \in BOOLEAN
BY DEF PInv, PFormas, AfectadosExisten, Sostenidos, TareasSobreAsientos, Sobre

LEMMA EmpezarTareaPInv ==
  ASSUME PInv, NEW r \in DOMAIN LRecibos, EmpezarTarea(r)
  PROVE  PInv'
<1>1. /\ script.nombre = "enlazar" /\ TareaLibre(r)
      /\ UNCHANGED <<asientos, recibos, secuencia>>
      /\ script' = [script EXCEPT !.pend = @ \ {r}]
  BY DEF EmpezarTarea, Hecho
<1>2. PICK t : t = [paso |-> "buscar", i |-> 1, a |-> Nulo, afectados |-> <<>>, fallo |-> FALSE]
  OBVIOUS
<1>3. tareas' = [x \in DOMAIN tareas \cup {r} |-> IF x = r THEN t ELSE tareas[x]]
  BY <1>2 DEF EmpezarTarea, Tarea, Insertado
<1>4. EsTarea(t) /\ t.paso = "buscar" /\ DOMAIN t.afectados = {}
  BY <1>2, Vacia DEF EsTarea, EsSecuencia
<1>5. OtrasTareas(r) /\ r \notin DOMAIN tareas
  BY <1>1, <1>3 DEF OtrasTareas, TareaLibre
<1>6. PICK b \in BOOLEAN :
        /\ b = (\E i \in DOMAIN LRecibos[r].lineas : LRecibos[r].lineas[i].contrato \notin {Nulo, Origen(r)})
        /\ huella' = [huella EXCEPT !.cruzados = @ \/ b]
  BY DEF EmpezarTarea
<1>7. /\ huella' = [y \in {"pagos", "enlaces", "cortados", "cruzados", "reset00"} |-> huella'[y]]
      /\ huella'.reset00 = huella.reset00 /\ huella'.cruzados = (huella.cruzados \/ b)
  BY <1>6 DEF PInv, PFormas
<1>8. /\ script' = [y \in {"nombre", "paso", "pend", "tx", "quirurgico"} |-> script'[y]]
      /\ script'.nombre = "enlazar" /\ script'.paso = script.paso
  <2>1. LET s == [script EXCEPT !.pend = @ \ {r}]
        IN  /\ s = [y \in {"nombre", "paso", "pend", "tx", "quirurgico"} |-> s[y]]
            /\ s.nombre = script.nombre /\ s.paso = script.paso
    BY MismoGuion
  <2>2. QED
    BY <1>1, <2>1
<1>9. Sobre(r)'
  BY <1>3, <1>4 DEF Sobre
<1>10. TareasSobreAsientos' /\ \A q \in DOMAIN tareas' : EsTarea(tareas'[q]) /\ q \in DOMAIN LRecibos
  BY <1>1, <1>3, <1>4, <1>5, <1>9, TareasSiguen
<1>11. Periodos'
  <2> SUFFICES ASSUME ~ huella'.cruzados PROVE RentaUnica' /\ \A q \in DOMAIN tareas' : TareaDe(q)'
    BY DEF Periodos
  <2>1. ~ huella.cruzados /\ ~ b
    BY <1>7, NadaNuevo
  <2>2. RentaUnica /\ \A q \in DOMAIN tareas : TareaDe(q)
    BY <2>1 DEF PInv, Periodos
  <2>3. RentaUnica'
    <3>1. \A contrato, per : Rentas(contrato, per)' = Rentas(contrato, per)
      BY <1>1 DEF Rentas
    <3>2. QED
      BY <2>2, <3>1 DEF RentaUnica
  <2>4. \A i \in DOMAIN LRecibos[r].lineas : LRecibos[r].lineas[i].contrato \in {Nulo, Origen(r)}
    BY <1>6, <2>1
  <2>5. \A q \in DOMAIN tareas : Origen(q) # Nulo => Origen(q) # Origen(r)
    BY <1>1 DEF TareaLibre
  <2>6. TareaDe(r)'
    BY <1>3, <1>4, <2>4, <2>5 DEF TareaDe, Origen
  <2>7. ASSUME NEW q \in DOMAIN tareas PROVE TareaDe(q)'
    <3>1. TareaDe(q) /\ tareas'[q] = tareas[q] /\ q # r
      BY <1>3, <1>5, <2>2
    <3>2. Linea(q)' = Linea(q) /\ Rentas(Linea(q).contrato, Linea(q).per)' = Rentas(Linea(q).contrato, Linea(q).per)
      BY <1>1, <3>1 DEF Linea, Rentas
    <3>3. \A p \in DOMAIN tareas' : p # q /\ Origen(p) # Nulo => Origen(p) # Origen(q)
      BY <1>3, <2>5, <3>1 DEF TareaDe
    <3>4. QED
      BY <3>1, <3>2, <3>3 DEF TareaDe, Origen
  <2>8. QED
    BY <1>3, <2>3, <2>6, <2>7
<1>12. QED
  BY <1>1, <1>7, <1>8, <1>10, <1>11, NadaNuevo, EnlazarPInv

(* A task at another step, of the same receipt.                             *)
LEMMA TareaEnPaso ==
  ASSUME NEW t, EsTarea(t), NEW p
  PROVE  LET u == [t EXCEPT !.paso = p]
         IN  EsTarea(u) /\ u.paso = p /\ u.i = t.i /\ u.a = t.a /\ u.afectados = t.afectados
<1>1. PICK u : u = [t EXCEPT !.paso = p]
  OBVIOUS
<1>2. u = [x \in {"paso", "i", "a", "afectados", "fallo"} |-> u[x]]
  BY <1>1 DEF EsTarea
<1>3. u.paso = p /\ u.i = t.i /\ u.a = t.a /\ u.afectados = t.afectados /\ u.i = t.i
  BY <1>1 DEF EsTarea
<1>4. t.i \in Nat \ {0}
  BY DEF EsTarea
<1>5. EsTarea(u)
  BY <1>2, <1>3, <1>4 DEF EsTarea
<1>6. QED
  BY <1>1, <1>3, <1>5

ConAsiento(t, p, y) == [t EXCEPT !.paso = p, !.a = y]
LEMMA TareaConAsiento ==
  ASSUME NEW t, EsTarea(t), NEW p, NEW y
  PROVE  LET u == ConAsiento(t, p, y)
         IN  EsTarea(u) /\ u.paso = p /\ u.i = t.i /\ u.a = y /\ u.afectados = t.afectados
<1>1. PICK u : u = [t EXCEPT !.paso = p, !.a = y]
  OBVIOUS
<1>2. u = [x \in {"paso", "i", "a", "afectados", "fallo"} |-> u[x]]
  BY <1>1 DEF EsTarea
<1>3. u.paso = p /\ u.i = t.i /\ u.a = y /\ u.afectados = t.afectados /\ u.i = t.i
  BY <1>1 DEF EsTarea
<1>4. t.i \in Nat \ {0}
  BY DEF EsTarea
<1>5. EsTarea(u)
  BY <1>2, <1>3, <1>4 DEF EsTarea
<1>6. QED
  BY <1>1, <1>3, <1>5 DEF ConAsiento

LEMMA TareaSalteada ==
  ASSUME NEW t, EsTarea(t)
  PROVE  LET u == [t EXCEPT !.i = @ + 1, !.fallo = TRUE]
         IN  EsTarea(u) /\ u.paso = t.paso /\ u.afectados = t.afectados
<1>1. PICK u : u = [t EXCEPT !.i = @ + 1, !.fallo = TRUE]
  OBVIOUS
<1>2. u = [x \in {"paso", "i", "a", "afectados", "fallo"} |-> u[x]]
  BY <1>1 DEF EsTarea
<1>3. u.paso = t.paso /\ u.afectados = t.afectados /\ u.i = t.i + 1
  BY <1>1 DEF EsTarea
<1>4. t.i + 1 \in Nat \ {0}
  BY DEF EsTarea
<1>5. EsTarea(u)
  BY <1>2, <1>3, <1>4 DEF EsTarea
<1>6. QED
  BY <1>1, <1>3, <1>5

LEMMA BuscarAsientoPInv ==
  ASSUME PInv, NEW r \in DOMAIN LRecibos, BuscarAsiento(r)
  PROVE  PInv'
<1>1. /\ script.nombre = "enlazar" /\ r \in DOMAIN tareas /\ tareas[r].paso = "buscar" /\ QuedanLineas(r)
      /\ UNCHANGED <<asientos, recibos, secuencia, script, huella>>
  BY DEF BuscarAsiento, EnTarea
<1>2. EsTarea(tareas[r]) /\ Sobre(r)
  BY <1>1, NadaNuevo
<1>3. PICK u : /\ tareas' = [x \in DOMAIN tareas |-> IF x = r THEN u ELSE tareas[x]]
               /\ EsTarea(u) /\ u.afectados = tareas[r].afectados
               /\ \/ u.paso = "imputar" /\ u.a \in DOMAIN asientos /\ u.i = tareas[r].i
                  \/ /\ u.paso = "crear" /\ u.i = tareas[r].i
                     /\ Exactos(Linea(r)) = {} /\ Linea(r).contrato # Nulo /\ Linea(r).clase = "alquiler"
                  \/ u.paso = "buscar"
  <2>1. ASSUME NEW a \in Exactos(Linea(r)), Tarea(r, ConAsiento(tareas[r], "imputar", a))
        PROVE  /\ tareas' = [x \in DOMAIN tareas |-> IF x = r THEN ConAsiento(tareas[r], "imputar", a) ELSE tareas[x]]
               /\ LET u == ConAsiento(tareas[r], "imputar", a)
                  IN  EsTarea(u) /\ u.paso = "imputar" /\ u.i = tareas[r].i /\ u.a = a /\ u.afectados = tareas[r].afectados
               /\ a \in DOMAIN asientos
    <3>1. tareas' = [x \in DOMAIN tareas |-> IF x = r THEN ConAsiento(tareas[r], "imputar", a) ELSE tareas[x]]
      BY <1>1, <2>1 DEF Tarea, Insertado
    <3>2. LET u == ConAsiento(tareas[r], "imputar", a)
          IN  EsTarea(u) /\ u.paso = "imputar" /\ u.i = tareas[r].i /\ u.a = a /\ u.afectados = tareas[r].afectados
      BY <1>2, TareaConAsiento
    <3>3. a \in DOMAIN asientos
      BY <2>1 DEF Exactos
    <3>4. QED
      BY <3>1, <3>2, <3>3
  <2>2. ASSUME Tarea(r, [tareas[r] EXCEPT !.paso = "crear"])
        PROVE  /\ tareas' = [x \in DOMAIN tareas |-> IF x = r THEN [tareas[r] EXCEPT !.paso = "crear"] ELSE tareas[x]]
               /\ LET u == [tareas[r] EXCEPT !.paso = "crear"]
                  IN  EsTarea(u) /\ u.paso = "crear" /\ u.i = tareas[r].i /\ u.afectados = tareas[r].afectados
    <3>1. tareas' = [x \in DOMAIN tareas |-> IF x = r THEN [tareas[r] EXCEPT !.paso = "crear"] ELSE tareas[x]]
      BY <1>1, <2>2 DEF Tarea, Insertado
    <3>2. LET u == [tareas[r] EXCEPT !.paso = "crear"]
          IN  EsTarea(u) /\ u.paso = "crear" /\ u.i = tareas[r].i /\ u.afectados = tareas[r].afectados
      BY <1>2, TareaEnPaso
    <3>3. QED
      BY <3>1, <3>2
  <2>3. ASSUME SaltarLinea(r)
        PROVE  /\ tareas' = [x \in DOMAIN tareas |-> IF x = r THEN [tareas[r] EXCEPT !.i = @ + 1, !.fallo = TRUE] ELSE tareas[x]]
               /\ LET u == [tareas[r] EXCEPT !.i = @ + 1, !.fallo = TRUE]
                  IN  EsTarea(u) /\ u.paso = tareas[r].paso /\ u.afectados = tareas[r].afectados
    <3>1. tareas' = [x \in DOMAIN tareas |-> IF x = r THEN [tareas[r] EXCEPT !.i = @ + 1, !.fallo = TRUE] ELSE tareas[x]]
      BY <1>1, <2>3 DEF SaltarLinea, Tarea, Insertado
    <3>2. LET u == [tareas[r] EXCEPT !.i = @ + 1, !.fallo = TRUE]
          IN  EsTarea(u) /\ u.paso = tareas[r].paso /\ u.afectados = tareas[r].afectados
      BY <1>2, TareaSalteada
    <3>3. QED
      BY <3>1, <3>2
  <2>4. \/ \E a \in Exactos(Linea(r)) : Tarea(r, ConAsiento(tareas[r], "imputar", a))
        \/ /\ Exactos(Linea(r)) = {} /\ Linea(r).contrato # Nulo /\ Linea(r).clase = "alquiler"
           /\ Tarea(r, [tareas[r] EXCEPT !.paso = "crear"])
        \/ SaltarLinea(r)
    BY DEF BuscarAsiento, ConAsiento
  <2>5. QED
    BY <1>1, <2>1, <2>2, <2>3, <2>4
<1>4. DOMAIN tareas' = DOMAIN tareas /\ tareas'[r] = u /\ OtrasTareas(r)
  BY <1>1, <1>3 DEF OtrasTareas
<1>5. Sobre(r)'
  BY <1>1, <1>2, <1>3, <1>4 DEF Sobre, QuedanLineas
<1>6. TareasSobreAsientos' /\ \A q \in DOMAIN tareas' : EsTarea(tareas'[q]) /\ q \in DOMAIN LRecibos
  BY <1>1, <1>3, <1>4, <1>5, TareasSiguen
<1>7. \A contrato, per : Rentas(contrato, per)' = Rentas(contrato, per)
  BY <1>1 DEF Rentas
<1>8. ASSUME ~ huella.cruzados, tareas'[r].paso = "crear"
      PROVE  (Linea(r).contrato # Nulo /\ Rentas(Linea(r).contrato, Linea(r).per) = {})'
  <2>1. RentaUnica
    BY <1>8 DEF PInv, Periodos
  <2>2. /\ u.i = tareas[r].i
        /\ Exactos(Linea(r)) = {} /\ Linea(r).contrato # Nulo /\ Linea(r).clase = "alquiler"
    BY <1>3, <1>4, <1>8
  <2>3. Rentas(Linea(r).contrato, Linea(r).per) = {}
    BY <2>1, <2>2, NadaExacto
  <2>4. Linea(r)' = Linea(r)
    BY <1>4, <2>2 DEF Linea
  <2>5. QED
    BY <1>7, <2>2, <2>3, <2>4
<1>9. Periodos'
  BY <1>1, <1>4, <1>7, <1>8, PeriodosSiguen
<1>10. QED
  BY <1>1, <1>6, <1>9, NadaNuevo, EnlazarPInv

(* While a receipt has lines left, its task is at one of them.              *)
LEMMA LineaExiste ==
  ASSUME NEW r \in DOMAIN LRecibos, EsTarea(tareas[r]), QuedanLineas(r)
  PROVE  tareas[r].i \in DOMAIN LRecibos[r].lineas /\ Linea(r).monto \in Nat
<1>1. PICK s : s = LRecibos[r].lineas
  OBVIOUS
<1>2. s \in Seq(Range(s)) /\ \A i \in DOMAIN s : s[i].monto \in Nat
  BY <1>1, PagosAssumption
<1>3. DOMAIN s = 1 .. Len(s) /\ Len(s) \in Nat
  BY <1>2
<1>4. tareas[r].i \in Nat \ {0} /\ tareas[r].i <= Len(s)
  BY <1>1 DEF EsTarea, QuedanLineas
<1>5. tareas[r].i \in DOMAIN s
  BY <1>3, <1>4
<1>6. QED
  BY <1>1, <1>2, <1>5 DEF Linea

(* The rent the linker creates, and what it adds to an entry.               *)
Renta(m, c, p) == [AdHoc(Nulo, m, Nulo) EXCEPT !.tipo = "Alquiler Mensual", !.contrato = c, !.per = p]
DelPeriodo(d, c, p) == d.tipo = "Alquiler Mensual" /\ d.contrato = c /\ d.per = p
LEMMA RentaNueva ==
  ASSUME NEW m \in Int, NEW c, NEW p
  PROVE  EsAsiento(Renta(m, c, p)) /\ Sostenido(Renta(m, c, p)) /\ DelPeriodo(Renta(m, c, p), c, p)
<1>1. PICK s : s = AdHoc(Nulo, m, Nulo)
  OBVIOUS
<1>2. /\ s = [x \in CamposAsiento |-> s[x]] /\ s.debe = m /\ s.haber = m /\ s.pagado = 0 /\ s.liquidado = 0
      /\ s.estado = "PENDIENTE"
  BY <1>1 DEF AdHoc, CamposAsiento
<1>3. PICK d : d = [s EXCEPT !.tipo = "Alquiler Mensual", !.contrato = c, !.per = p]
  OBVIOUS
<1>4. d = [x \in CamposAsiento |-> d[x]]
  BY <1>2, <1>3
<1>5. d.debe = m /\ d.haber = m /\ d.pagado = 0 /\ d.liquidado = 0 /\ d.estado = "PENDIENTE"
  BY <1>2, <1>3
<1>6. d.tipo = "Alquiler Mensual" /\ d.contrato = c /\ d.per = p
  BY <1>2, <1>3 DEF CamposAsiento
<1>7. EsAsiento(d) /\ Sostenido(d)
  BY <1>4, <1>5 DEF EsAsiento, Sostenido
<1>8. QED
  BY <1>1, <1>3, <1>6, <1>7 DEF Renta, DelPeriodo

LEMMA CrearFaltantePInv ==
  ASSUME PInv, NEW r \in DOMAIN LRecibos, CrearFaltante(r)
  PROVE  PInv'
<1>1. /\ script.nombre = "enlazar" /\ r \in DOMAIN tareas /\ tareas[r].paso = "crear"
      /\ UNCHANGED <<recibos, secuencia, script, huella>>
  BY DEF CrearFaltante, EnTarea
<1>2. EsTarea(tareas[r]) /\ Sobre(r) /\ QuedanLineas(r)
  BY <1>1, NadaNuevo DEF Sobre
<1>3. Linea(r).monto \in Int
  BY <1>2, LineaExiste
<1>4. PICK n : /\ n \notin DOMAIN asientos
               /\ asientos' = Insertado(asientos, n, Renta(Linea(r).monto, Linea(r).contrato, Linea(r).per))
               /\ Tarea(r, ConAsiento(tareas[r], "imputar", n))
  BY DEF CrearFaltante, Renta, ConAsiento
<1>5. PICK d : d = Renta(Linea(r).monto, Linea(r).contrato, Linea(r).per)
  OBVIOUS
<1>6. /\ EsAsiento(d) /\ Sostenido(d)
      /\ d.tipo = "Alquiler Mensual" /\ d.contrato = Linea(r).contrato /\ d.per = Linea(r).per
  <2>1. PICK m \in Int : m = Linea(r).monto
    BY <1>3
  <2>2. PICK c, p : c = Linea(r).contrato /\ p = Linea(r).per
    OBVIOUS
  <2>3. EsAsiento(Renta(m, c, p)) /\ Sostenido(Renta(m, c, p)) /\ DelPeriodo(Renta(m, c, p), c, p)
    BY RentaNueva
  <2>4. QED
    BY <1>5, <2>1, <2>2, <2>3 DEF DelPeriodo
<1>7. asientos' = [x \in DOMAIN asientos \cup {n} |-> IF x = n THEN d ELSE asientos[x]]
  BY <1>4, <1>5 DEF Insertado
<1>8. PICK u : u = ConAsiento(tareas[r], "imputar", n)
  OBVIOUS
<1>9. EsTarea(u) /\ u.paso = "imputar" /\ u.i = tareas[r].i /\ u.a = n /\ u.afectados = tareas[r].afectados
  BY <1>2, <1>8, TareaConAsiento
<1>10. tareas' = [x \in DOMAIN tareas |-> IF x = r THEN u ELSE tareas[x]]
  BY <1>1, <1>4, <1>8 DEF Tarea, Insertado
<1>11. DOMAIN tareas' = DOMAIN tareas /\ tareas'[r] = u /\ OtrasTareas(r)
  BY <1>1, <1>10 DEF OtrasTareas
<1>12. DOMAIN asientos' = DOMAIN asientos \cup {n} /\ asientos'[n] = d
       /\ \A a \in DOMAIN asientos : asientos'[a] = asientos[a]
  BY <1>4, <1>7
<1>13. Sobre(r)'
  BY <1>2, <1>9, <1>11, <1>12 DEF Sobre, QuedanLineas
<1>14. TareasSobreAsientos' /\ \A q \in DOMAIN tareas' : EsTarea(tareas'[q]) /\ q \in DOMAIN LRecibos
  BY <1>9, <1>11, <1>12, <1>13, TareasSiguen
<1>15. \A a \in DOMAIN asientos' : EsAsiento(asientos'[a]) /\ (Sostenidos => Sostenido(asientos'[a]))
  BY <1>6, <1>12, NadaNuevo
<1>16. Periodos'
  <2> SUFFICES ASSUME ~ huella.cruzados PROVE RentaUnica' /\ \A q \in DOMAIN tareas' : TareaDe(q)'
    BY <1>1 DEF Periodos
  <2>1. RentaUnica /\ \A q \in DOMAIN tareas : TareaDe(q)
    BY DEF PInv, Periodos
  <2>2. Linea(r).contrato # Nulo /\ Rentas(Linea(r).contrato, Linea(r).per) = {}
    BY <1>1, <2>1 DEF TareaDe
  <2>3. ASSUME NEW c, NEW p
        PROVE  Rentas(c, p)' = IF c = Linea(r).contrato /\ p = Linea(r).per THEN Rentas(c, p) \cup {n} ELSE Rentas(c, p)
    BY <1>4, <1>6, <1>12 DEF Rentas
  <2>4. RentaUnica'
    <3>1. ASSUME NEW c, NEW p, NEW a \in Rentas(c, p)', NEW b \in Rentas(c, p)'
          PROVE  a = b
      BY <2>1, <2>2, <2>3 DEF RentaUnica
    <3>2. QED
      BY <3>1 DEF RentaUnica
  <2>5. Linea(r).contrato = Origen(r)
    <3>1. tareas[r].i \in DOMAIN LRecibos[r].lineas
      BY <1>2, LineaExiste
    <3>2. QED
      BY <1>1, <2>1, <2>2, <3>1 DEF TareaDe, Linea
  <2>6. ASSUME NEW q \in DOMAIN tareas PROVE TareaDe(q)'
    <3>1. TareaDe(q)
      BY <2>1
    <3>2. /\ \A i \in DOMAIN LRecibos[q].lineas : LRecibos[q].lineas[i].contrato \in {Nulo, Origen(q)}
          /\ \A p \in DOMAIN tareas' : p # q /\ Origen(p) # Nulo => Origen(p) # Origen(q)
      BY <1>11, <3>1 DEF TareaDe
    <3>3. CASE q = r
      BY <1>9, <1>11, <3>2, <3>3 DEF TareaDe, Origen
    <3>4. ASSUME q # r, tareas[q].paso = "crear"
          PROVE  Linea(q)'.contrato # Nulo /\ (Rentas(Linea(q).contrato, Linea(q).per))' = {}
      <4>1. Linea(q).contrato # Nulo /\ Rentas(Linea(q).contrato, Linea(q).per) = {}
        BY <3>1, <3>4 DEF TareaDe
      <4>2. tareas'[q] = tareas[q] /\ Linea(q)' = Linea(q)
        BY <1>10, <3>4 DEF Linea
      <4>3. Linea(q).contrato \in {Nulo, Origen(q)}
        <5>1. EsTarea(tareas[q]) /\ QuedanLineas(q) /\ q \in DOMAIN LRecibos
          BY <3>4, NadaNuevo DEF Sobre
        <5>2. tareas[q].i \in DOMAIN LRecibos[q].lineas
          BY <5>1, LineaExiste
        <5>3. QED
          BY <3>2, <5>2 DEF Linea
      <4>4. Origen(q) # Origen(r)
        BY <1>1, <2>2, <2>5, <3>1, <3>4 DEF TareaDe
      <4>5. Linea(q).contrato # Linea(r).contrato
        BY <2>5, <4>1, <4>3, <4>4
      <4>6. QED
        BY <2>3, <4>1, <4>2, <4>5
    <3>5. QED
      BY <1>11, <3>2, <3>3, <3>4 DEF TareaDe, Origen, OtrasTareas
  <2>7. QED
    BY <1>11, <2>4, <2>6
<1>17. QED
  BY <1>1, <1>12, <1>14, <1>15, <1>16, NadaNuevo, EnlazarPInv

(* The next line: the one imputed is among those the receipt affects.       *)
Siguiente(t, m) ==
  [t EXCEPT !.paso = "buscar", !.i = @ + 1, !.a = Nulo, !.afectados = Append(@, [a |-> t.a, monto |-> m])]
LEMMA TareaSiguiente ==
  ASSUME NEW t, EsTarea(t), NEW m
  PROVE  /\ EsTarea(Siguiente(t, m)) /\ Siguiente(t, m).paso = "buscar"
         /\ \A i \in DOMAIN Siguiente(t, m).afectados :
              Siguiente(t, m).afectados[i].a = t.a \/ \E j \in DOMAIN t.afectados : Siguiente(t, m).afectados[i] = t.afectados[j]
<1>1. PICK e : e = [a |-> t.a, monto |-> m]
  OBVIOUS
<1>2. e.a = t.a
  BY <1>1
<1>3. PICK s : s = t.afectados
  OBVIOUS
<1>4. PICK A : s \in Seq(A)
  BY <1>3 DEF EsTarea, EsSecuencia
<1>5. PICK z : z = Append(s, e)
  OBVIOUS
<1>6. /\ z \in Seq(A \cup {e}) /\ DOMAIN z = 1 .. Len(s) + 1 /\ DOMAIN s = 1 .. Len(s) /\ Len(s) \in Nat
      /\ \A i \in 1 .. Len(s) : z[i] = s[i]
      /\ z[Len(s) + 1] = e
  <2>1. s \in Seq(A \cup {e}) /\ e \in A \cup {e}
    BY <1>4
  <2>2. QED
    BY <1>5, <2>1
<1>7. EsSecuencia(z) /\ \A i \in DOMAIN z : z[i].a = t.a \/ \E j \in DOMAIN s : z[i] = s[j]
  BY <1>2, <1>6 DEF EsSecuencia
<1>8. PICK u : u = Siguiente(t, m)
  OBVIOUS
<1>9. u = [t EXCEPT !.paso = "buscar", !.i = @ + 1, !.a = Nulo, !.afectados = z]
  BY <1>1, <1>3, <1>5, <1>8 DEF Siguiente, EsTarea
<1>10. u = [x \in {"paso", "i", "a", "afectados", "fallo"} |-> u[x]]
  BY <1>9 DEF EsTarea
<1>11. u.paso = "buscar" /\ u.i = t.i + 1 /\ u.afectados = z
  BY <1>9 DEF EsTarea
<1>12. t.i + 1 \in Nat \ {0}
  BY DEF EsTarea
<1>13. EsTarea(u)
  BY <1>7, <1>10, <1>11, <1>12 DEF EsTarea
<1>14. QED
  BY <1>3, <1>7, <1>8, <1>11, <1>13

LEMMA ImputarLineaPInv ==
  ASSUME PInv, NEW r \in DOMAIN LRecibos, ImputarLinea(r)
  PROVE  PInv'
<1>1. /\ script.nombre = "enlazar" /\ r \in DOMAIN tareas /\ tareas[r].paso = "imputar"
      /\ UNCHANGED <<recibos, secuencia, script, huella>>
  BY DEF ImputarLinea, EnTarea
<1>2. EsTarea(tareas[r]) /\ Sobre(r) /\ QuedanLineas(r)
  BY <1>1, NadaNuevo DEF Sobre
<1>3. PICK m \in Nat : m = Linea(r).monto
  BY <1>2, LineaExiste
<1>4. PICK b : b = tareas[r].a
  OBVIOUS
<1>5. b \in DOMAIN asientos
  BY <1>1, <1>2, <1>4 DEF Sobre
<1>6. PICK d : d = asientos[b]
  OBVIOUS
<1>7. EsAsiento(d)
  BY <1>5, <1>6, FormadosMejoran
<1>8. asientos' = [asientos EXCEPT ![b].pagado = IF d.debe > 0 THEN @ + m ELSE @,
                                   ![b].liquidado = IF d.debe > 0 THEN @ ELSE @ + m]
  BY <1>3, <1>4, <1>6 DEF ImputarLinea
<1>9. DOMAIN asientos' = DOMAIN asientos /\ \A a \in DOMAIN asientos : a # b => asientos'[a] = asientos[a]
  BY <1>8
<1>10. PICK f : f = asientos'[b]
  OBVIOUS
<1>11. f = [d EXCEPT !.pagado = IF d.debe > 0 THEN @ + m ELSE @, !.liquidado = IF d.debe > 0 THEN @ ELSE @ + m]
  BY <1>5, <1>6, <1>7, <1>8, <1>10 DEF EsAsiento, CamposAsiento
<1>12. f = [x \in CamposAsiento |-> f[x]]
  BY <1>7, <1>11 DEF EsAsiento
<1>13. /\ f.tipo = d.tipo /\ f.contrato = d.contrato /\ f.per = d.per /\ f.debe = d.debe
       /\ f.haber = d.haber /\ f.estado = d.estado /\ f.agenteHaber = d.agenteHaber
  BY <1>7, <1>11 DEF EsAsiento, CamposAsiento
<1>14. f.pagado = (IF d.debe > 0 THEN d.pagado + m ELSE d.pagado)
       /\ f.liquidado = (IF d.debe > 0 THEN d.liquidado ELSE d.liquidado + m)
  BY <1>7, <1>11 DEF EsAsiento, CamposAsiento
<1>15. Mejora(d, f)
  <2>1. PICK p \in Int, l \in Int, g \in Int, h \in Int : p = d.pagado /\ l = d.liquidado /\ g = d.debe /\ h = d.haber
    BY <1>7 DEF EsAsiento
  <2>2. PICK p2 \in Int, l2 \in Int : p2 = f.pagado /\ l2 = f.liquidado /\ p2 >= p /\ l2 >= l
    BY <1>14, <2>1
  <2>3. EsAsiento(f)
    BY <1>12, <1>13, <2>1, <2>2 DEF EsAsiento
  <2>4. Sostenido(d) => Sostenido(f)
    BY <1>13, <2>1, <2>2 DEF Sostenido
  <2>5. QED
    BY <1>13, <2>3, <2>4 DEF Mejora, Igual
<1>16. \A a \in DOMAIN asientos : Mejora(asientos[a], asientos'[a])
  BY <1>6, <1>9, <1>10, <1>15, FormadosMejoran
<1>17. PICK u : u = Siguiente(tareas[r], m)
  OBVIOUS
<1>18. /\ EsTarea(u) /\ u.paso = "buscar"
       /\ \A i \in DOMAIN u.afectados :
            u.afectados[i].a = b \/ \E j \in DOMAIN tareas[r].afectados : u.afectados[i] = tareas[r].afectados[j]
  BY <1>2, <1>4, <1>17, TareaSiguiente
<1>19. tareas' = [x \in DOMAIN tareas |-> IF x = r THEN u ELSE tareas[x]]
  <2>1. Tarea(r, Siguiente(tareas[r], Linea(r).monto))
    BY DEF ImputarLinea, Siguiente
  <2>2. QED
    BY <1>1, <1>3, <1>17, <2>1 DEF Tarea, Insertado
<1>20. DOMAIN tareas' = DOMAIN tareas /\ tareas'[r] = u /\ OtrasTareas(r)
  BY <1>1, <1>19 DEF OtrasTareas
<1>21. Sobre(r)'
  BY <1>2, <1>5, <1>9, <1>18, <1>20 DEF Sobre
<1>22. TareasSobreAsientos' /\ \A q \in DOMAIN tareas' : EsTarea(tareas'[q]) /\ q \in DOMAIN LRecibos
  BY <1>9, <1>18, <1>20, <1>21, TareasSiguen
<1>23. \A contrato, per : Rentas(contrato, per)' = Rentas(contrato, per)
  BY <1>9, <1>16, RentasIguales DEF Mejora
<1>24. Periodos'
  BY <1>1, <1>18, <1>20, <1>23, PeriodosSiguen
<1>25. \A a \in DOMAIN asientos' : EsAsiento(asientos'[a]) /\ (Sostenidos => Sostenido(asientos'[a]))
  BY <1>9, <1>16 DEF Mejora, Sostenidos
<1>26. QED
  BY <1>1, <1>9, <1>22, <1>24, <1>25, NadaNuevo, EnlazarPInv

LEMMA CerrarTareaPInv ==
  ASSUME PInv, NEW r \in DOMAIN LRecibos, CerrarTarea(r)
  PROVE  PInv'
<1>1. /\ script.nombre = "enlazar" /\ r \in DOMAIN tareas /\ tareas[r].paso = "buscar"
      /\ UNCHANGED <<asientos, recibos, secuencia, script>>
  BY DEF CerrarTarea, EnTarea
<1>2. EsTarea(tareas[r]) /\ Sobre(r)
  BY <1>1, NadaNuevo
<1>3. PICK u : u = [tareas[r] EXCEPT !.paso = "recibo"]
  OBVIOUS
<1>4. EsTarea(u) /\ u.paso = "recibo" /\ u.afectados = tareas[r].afectados
  <2>1. LET v == [tareas[r] EXCEPT !.paso = "recibo"]
        IN  EsTarea(v) /\ v.paso = "recibo" /\ v.i = tareas[r].i /\ v.a = tareas[r].a /\ v.afectados = tareas[r].afectados
    BY <1>2, TareaEnPaso
  <2>2. QED
    BY <1>3, <2>1
<1>5. PICK C : \/ huella' = huella /\ Tarea(r, u)
               \/ huella' = [huella EXCEPT !.cortados = C] /\ tareas' = Restrict(tareas, DOMAIN tareas \ {r})
  BY <1>3 DEF CerrarTarea
<1>6. /\ huella' = [y \in {"pagos", "enlaces", "cortados", "cruzados", "reset00"} |-> huella'[y]]
      /\ huella'.cruzados = huella.cruzados /\ huella'.reset00 = huella.reset00
  BY <1>5, NadaNuevo
<1>7. OtrasTareas(r) /\ (r \in DOMAIN tareas' => tareas'[r] = u)
  BY <1>1, <1>5 DEF OtrasTareas, Tarea, Insertado, Restrict
<1>8. r \in DOMAIN tareas' => Sobre(r)'
  BY <1>1, <1>2, <1>4, <1>7 DEF Sobre
<1>9. TareasSobreAsientos' /\ \A q \in DOMAIN tareas' : EsTarea(tareas'[q]) /\ q \in DOMAIN LRecibos
  BY <1>1, <1>4, <1>7, <1>8, TareasSiguen
<1>10. \A contrato, per : Rentas(contrato, per)' = Rentas(contrato, per)
  BY <1>1 DEF Rentas
<1>11. Periodos'
  BY <1>1, <1>4, <1>6, <1>7, <1>10, PeriodosSiguen
<1>12. QED
  BY <1>1, <1>6, <1>9, <1>11, NadaNuevo, EnlazarPInv

LEMMA GuardarReciboPInv ==
  ASSUME PInv, NEW r \in DOMAIN LRecibos, GuardarRecibo(r)
  PROVE  PInv'
<1>1. /\ script.nombre = "enlazar" /\ r \in DOMAIN tareas
      /\ UNCHANGED <<asientos, secuencia, script, huella>>
      /\ tareas' = Restrict(tareas, DOMAIN tareas \ {r})
  BY DEF GuardarRecibo, EnTarea
<1>2. PICK s : s = tareas[r].afectados
  OBVIOUS
<1>3. \A i \in DOMAIN s : s[i].a \in DOMAIN asientos
  BY <1>1, <1>2, NadaNuevo DEF Sobre
<1>4. recibos' = [recibos EXCEPT ![r].afectados = s, ![r].pendiente = FALSE]
  BY <1>2 DEF GuardarRecibo
<1>5. DOMAIN recibos' = DOMAIN recibos
  BY <1>4
<1>6. ASSUME NEW q \in DOMAIN recibos
      PROVE  /\ EsRecibo(recibos'[q]) /\ recibos'[q].numero = recibos[q].numero
             /\ \A i \in DOMAIN recibos'[q].afectados : recibos'[q].afectados[i].a \in DOMAIN asientos
  <2>1. EsRecibo(recibos[q]) /\ \A i \in DOMAIN recibos[q].afectados : recibos[q].afectados[i].a \in DOMAIN asientos
    BY NadaNuevo
  <2>2. CASE q # r
    <3>1. recibos'[q] = recibos[q]
      BY <1>4, <2>2
    <3>2. QED
      BY <2>1, <3>1
  <2>3. CASE q = r
    <3>1. PICK d : d = recibos[q]
      OBVIOUS
    <3>2. d = [x \in {"numero", "afectados", "pendiente"} |-> d[x]] /\ d.numero \in Nat
      BY <2>1, <3>1 DEF EsRecibo
    <3>3. PICK e : e = recibos'[q]
      OBVIOUS
    <3>4. e = [d EXCEPT !.afectados = s, !.pendiente = FALSE]
      BY <1>4, <2>3, <3>1, <3>2, <3>3
    <3>5. e = [x \in {"numero", "afectados", "pendiente"} |-> e[x]]
      BY <3>2, <3>4
    <3>6. e.numero = d.numero /\ e.afectados = s
      BY <3>2, <3>4
    <3>7. EsRecibo(e)
      BY <3>2, <3>5, <3>6 DEF EsRecibo
    <3>8. QED
      BY <1>3, <3>1, <3>3, <3>6, <3>7
  <2>4. QED
    BY <2>2, <2>3
<1>7. OtrasTareas(r) /\ r \notin DOMAIN tareas'
  BY <1>1 DEF OtrasTareas, Restrict
<1>8. TareasSobreAsientos' /\ \A q \in DOMAIN tareas' : EsTarea(tareas'[q]) /\ q \in DOMAIN LRecibos
  BY <1>1, <1>7, TareasSiguen
<1>9. \A contrato, per : Rentas(contrato, per)' = Rentas(contrato, per)
  BY <1>1 DEF Rentas
<1>10. Periodos'
  BY <1>1, <1>7, <1>9, PeriodosSiguen
<1>11. QED
  BY <1>1, <1>5, <1>6, <1>8, <1>10, NadaNuevo, EnlazarPInv

----------------------------------------------------------------------------
LEMMA PasoP == PInv /\ [PNext]_pagos => PInv'
<1> SUFFICES ASSUME PInv, [PNext]_pagos PROVE PInv'
  OBVIOUS
<1>1. CASE UNCHANGED pagos
  <2>1. UNCHANGED <<asientos, recibos, secuencia, script, tareas, huella>>
    BY <1>1 DEF pagos
  <2>2. PFormas' /\ Turno' /\ Estados'
    BY <2>1 DEF PInv, PFormas, Turno, Estados, Sostenidos, Corre
  <2>3. NumerosDeRecibo' /\ AfectadosExisten'
    BY <2>1 DEF PInv, NumerosDeRecibo, AfectadosExisten
  <2>4. TareasSobreAsientos'
    BY <2>1 DEF PInv, TareasSobreAsientos, QuedanLineas
  <2>5. \A contrato, per : Rentas(contrato, per)' = Rentas(contrato, per)
    BY <2>1 DEF Rentas
  <2>6. \A r \in DOMAIN tareas : TareaDe(r)' <=> TareaDe(r)
    BY <2>1, <2>5 DEF TareaDe, Origen, Linea
  <2>7. Periodos'
    BY <2>1, <2>5, <2>6 DEF PInv, Periodos, RentaUnica
  <2>8. QED
    BY <2>2, <2>3, <2>4, <2>7 DEF PInv
<1>2. ASSUME NEW n \in Scripts, EmpezarScript(n) PROVE PInv'
  BY <1>2, EmpezarScriptPInv
<1>3. ASSUME NEW c \in DOMAIN LCuentas, UpsertAdHoc(c) \/ InsertarAdHocMaestro(c) \/ Vincular(c) PROVE PInv'
  BY <1>3, UpsertAdHocPInv, InsertarAdHocMaestroPInv, VincularPInv
<1>4. ASSUME NEW r \in DOMAIN LRecibos,
             \/ MigrarRecibo(r) \/ ImpactarRecibo(r)
             \/ EmpezarTarea(r) \/ BuscarAsiento(r) \/ CrearFaltante(r) \/ ImputarLinea(r)
             \/ CerrarTarea(r) \/ GuardarRecibo(r)
      PROVE  PInv'
  BY <1>4, MigrarReciboPInv, ImpactarReciboPInv, EmpezarTareaPInv, BuscarAsientoPInv, CrearFaltantePInv,
     ImputarLineaPInv, CerrarTareaPInv, GuardarReciboPInv
<1>5. ASSUME NEW x \in DOMAIN LPagos, ImpactarAsiento(x) PROVE PInv'
  BY <1>5, ImpactarAsientoPInv
<1>6. ASSUME NEW op \in script.pend, ImputarConsolidado(op) PROVE PInv'
  BY <1>6, ImputarConsolidadoPInv
<1>7. CASE CargarPagos \/ FinalizarEstados \/ InsertarTransacciones \/ PasarAAsientos
  BY <1>7, CargarPagosPInv, FinalizarEstadosPInv, InsertarTransaccionesPInv, PasarAAsientosPInv
<1>8. CASE Reset00 \/ Reset08 \/ ResetPagos
  BY <1>8, Reset00PInv, Reset08PInv, ResetPagosPInv
<1>9. CASE TerminarScript \/ MorirScript
  BY <1>9, TerminarScriptPInv, MorirScriptPInv
<1>10. QED
  BY <1>1, <1>2, <1>3, <1>4, <1>5, <1>6, <1>7, <1>8, <1>9 DEF PNext

LEMMA SiemprePInv == PSpec => []PInv
BY PInitPInv, PasoP, PTL DEF PSpec

(* An entry is COBRADO or LIQUIDADO only with the money behind it, through  *)
(* every order of the scripts, resets and deaths (EstadoSostenido), for any *)
(* legacy accounts, payments and receipts.                                  *)
THEOREM EstadoSiempreSostenido == PSpec => []EstadoSostenido
<1>1. PInv => EstadoSostenido
  BY DEF PInv, Estados, Sostenidos, Sostenido, EstadoSostenido
<1>2. QED
  BY <1>1, SiemprePInv, PTL

(* Migrated receipts never share a number nor affect an entry a reset       *)
(* deleted, and the linker's concurrent receipts never create the rent of   *)
(* one period twice (RecibosMigrados).                                      *)
THEOREM RecibosSiempreMigrados == PSpec => []RecibosMigrados
<1>1. PInv => RecibosMigrados
  <2> SUFFICES ASSUME PInv PROVE RecibosMigrados
    OBVIOUS
  <2>1. ASSUME RentaUnica PROVE UnAsientoPorPeriodo
    <3>1. ASSUME NEW a \in DOMAIN asientos, NEW b \in DOMAIN asientos,
                 asientos[a].tipo = "Alquiler Mensual", asientos[b].tipo = "Alquiler Mensual",
                 asientos[a].contrato = asientos[b].contrato, asientos[a].per = asientos[b].per
          PROVE  a = b
      <4>1. a \in Rentas(asientos[a].contrato, asientos[a].per) /\ b \in Rentas(asientos[a].contrato, asientos[a].per)
        BY <3>1 DEF Rentas
      <4>2. QED
        BY <2>1, <4>1 DEF RentaUnica
    <3>2. QED
      BY <3>1 DEF UnAsientoPorPeriodo
  <2>2. UnAsientoPorPeriodo
    BY <2>1 DEF PInv, Periodos, UnAsientoPorPeriodo
  <2>3. QED
    BY <2>2 DEF PInv, RecibosMigrados
<1>2. QED
  BY <1>1, SiemprePInv, PTL

----------------------------------------------------------------------------
(* What is imputed and what backs it, as sums: of the lines of a detail, of *)
(* the transactions of a bag, of what 05 has yet to impute, and of what the *)
(* linker has imputed and not yet written a transaction for.                *)
EsDetalle(s) == IsFiniteSet(DOMAIN s) /\ \A i \in DOMAIN s : s[i].monto \in Nat
LineasDe(s, a) == {i \in DOMAIN s : s[i].a = a}
MontoDe(s, a) == SumFunctionOnSet([i \in LineasDe(s, a) |-> s[i].monto], LineasDe(s, a))

EsBolsa(B) ==
  /\ IsFiniteSet(DOMAIN B)
  /\ \A t \in DOMAIN B : B[t] \in Nat /\ EsDetalle(t.detalle)
RespaldoDe(B, a) == SumFunctionOnSet([t \in DOMAIN B |-> B[t] * MontoDe(t.detalle, a)], DOMAIN B)

LEMMA MontoNatural ==
  ASSUME NEW s, EsDetalle(s), NEW a
  PROVE  MontoDe(s, a) \in Nat
<1>1. PICK I, f : I = LineasDe(s, a) /\ f = [i \in I |-> s[i].monto]
  OBVIOUS
<1>2. IsFiniteSet(I) /\ \A i \in I : f[i] \in Nat
  BY <1>1, FS_Subset DEF EsDetalle, LineasDe
<1>3. QED
  BY <1>1, <1>2, SumaNatural DEF MontoDe

LEMMA MontoAjeno ==
  ASSUME NEW s, NEW a, \A i \in DOMAIN s : s[i].a # a
  PROVE  MontoDe(s, a) = 0
<1>1. LineasDe(s, a) = {}
  BY DEF LineasDe
<1>2. QED
  BY <1>1, SumaVacia DEF MontoDe

LEMMA MontoDeUna ==
  ASSUME NEW s, DOMAIN s = {1}, NEW b, NEW m \in Nat, s[1] = [a |-> b, monto |-> m]
  PROVE  EsDetalle(s) /\ \A a : MontoDe(s, a) = IF a = b THEN m ELSE 0
<1>1. s[1].a = b /\ s[1].monto = m
  OBVIOUS
<1>2. EsDetalle(s)
  BY <1>1, FS_Singleton DEF EsDetalle
<1>3. ASSUME NEW a, a # b PROVE MontoDe(s, a) = 0
  BY <1>1, <1>3, MontoAjeno
<1>4. MontoDe(s, b) = m
  <2>1. PICK f : f = [i \in {1} |-> s[i].monto]
    OBVIOUS
  <2>2. LineasDe(s, b) = {1}
    BY <1>1 DEF LineasDe
  <2>3. IsFiniteSet({}) /\ Enteros(f, {}) /\ f[1] = m
    BY <1>1, <2>1, FS_EmptySet DEF Enteros
  <2>4. SumFunctionOnSet(f, {} \cup {1}) = f[1] + SumFunctionOnSet(f, {})
    BY <2>3, SumaMas
  <2>5. {} \cup {1} = {1} /\ SumFunctionOnSet(f, {}) = 0
    BY SumaVacia
  <2>6. SumFunctionOnSet(f, {1}) = m
    BY <2>3, <2>4, <2>5
  <2>7. QED
    BY <2>1, <2>2, <2>6 DEF MontoDe
<1>5. QED
  BY <1>2, <1>3, <1>4

LEMMA MontoAgregado ==
  ASSUME NEW s, EsDetalle(s), NEW k, k \notin DOMAIN s, NEW z, DOMAIN z = DOMAIN s \cup {k},
         \A i \in DOMAIN s : z[i] = s[i], NEW b, NEW m \in Nat, z[k] = [a |-> b, monto |-> m]
  PROVE  EsDetalle(z) /\ \A a : MontoDe(z, a) = MontoDe(s, a) + (IF a = b THEN m ELSE 0)
<1>1. z[k].a = b /\ z[k].monto = m
  OBVIOUS
<1>2. EsDetalle(z)
  BY <1>1, FS_AddElement DEF EsDetalle
<1>3. ASSUME NEW a PROVE MontoDe(z, a) = MontoDe(s, a) + (IF a = b THEN m ELSE 0)
  <2>1. PICK I, J, f, g : /\ I = LineasDe(s, a) /\ f = [i \in I |-> s[i].monto]
                          /\ J = LineasDe(z, a) /\ g = [i \in J |-> z[i].monto]
    OBVIOUS
  <2>2. J = IF a = b THEN I \cup {k} ELSE I
    BY <1>1, <2>1 DEF LineasDe
  <2>3. IsFiniteSet(I) /\ Enteros(f, I) /\ k \notin I /\ \A i \in I : f[i] = g[i]
    BY <2>1, <2>2, FS_Subset DEF LineasDe, EsDetalle, Enteros
  <2>4. SumFunctionOnSet(f, I) = SumFunctionOnSet(g, I) /\ SumFunctionOnSet(f, I) \in Int
    BY <2>3, SumaIgual, SumaEntera
  <2>5. CASE a = b
    <3>1. J = I \cup {k} /\ g[k] = m
      BY <1>1, <2>1, <2>2, <2>5
    <3>2. Enteros(g, I)
      BY <2>3 DEF Enteros
    <3>3. SumFunctionOnSet(g, J) = m + SumFunctionOnSet(g, I)
      BY <2>3, <3>1, <3>2, SumaMas
    <3>4. QED
      BY <2>1, <2>4, <2>5, <3>3 DEF MontoDe
  <2>6. CASE a # b
    BY <2>1, <2>2, <2>4, <2>6 DEF MontoDe
  <2>7. QED
    BY <2>5, <2>6
<1>4. QED
  BY <1>2, <1>3

LEMMA RespaldoEs ==
  ASSUME NEW a
  PROVE  Respaldo(a) = RespaldoDe(transacciones, a)
<1>1. \A t : MontoEn(t, a) = MontoDe(t.detalle, a)
  BY DEF MontoEn, MontoDe, LineasDe, SumaSobre
<1>2. QED
  BY <1>1 DEF Respaldo, RespaldoDe, SumaSobre, BagToSet

(* The terms of the sum of a bag.                                           *)
LEMMA PesoNatural ==
  ASSUME NEW B, EsBolsa(B), NEW a, NEW t \in DOMAIN B
  PROVE  B[t] * MontoDe(t.detalle, a) \in Nat
<1>1. PICK n \in Nat, m \in Nat : n = B[t] /\ m = MontoDe(t.detalle, a)
  BY MontoNatural DEF EsBolsa
<1>2. n * m \in Nat
  OBVIOUS
<1>3. QED
  BY <1>1, <1>2

LEMMA RespaldoNatural ==
  ASSUME NEW B, EsBolsa(B), NEW a
  PROVE  RespaldoDe(B, a) \in Nat
<1>1. PICK f : f = [t \in DOMAIN B |-> B[t] * MontoDe(t.detalle, a)]
  OBVIOUS
<1>2. IsFiniteSet(DOMAIN B) /\ \A t \in DOMAIN B : f[t] \in Nat
  BY <1>1, PesoNatural DEF EsBolsa
<1>3. QED
  BY <1>1, <1>2, SumaNatural DEF RespaldoDe

LEMMA RespaldoVacio ==
  ASSUME NEW B, DOMAIN B = {}
  PROVE  EsBolsa(B) /\ \A a : RespaldoDe(B, a) = 0
BY SumaVacia, FS_EmptySet DEF EsBolsa, RespaldoDe

LEMMA RespaldoAjeno ==
  ASSUME NEW B, EsBolsa(B), NEW a, \A t \in DOMAIN B : \A i \in DOMAIN t.detalle : t.detalle[i].a # a
  PROVE  RespaldoDe(B, a) = 0
<1>1. PICK f : f = [t \in DOMAIN B |-> B[t] * MontoDe(t.detalle, a)]
  OBVIOUS
<1>2. ASSUME NEW t \in DOMAIN B PROVE f[t] = 0
  <2>1. PICK n \in Nat : n = B[t]
    BY DEF EsBolsa
  <2>2. MontoDe(t.detalle, a) = 0
    BY MontoAjeno
  <2>3. f[t] = n * 0
    BY <1>1, <2>1, <2>2
  <2>4. QED
    BY <2>3
<1>3. SumFunctionOnSet(f, DOMAIN B) = 0 * Cardinality(DOMAIN B) /\ Cardinality(DOMAIN B) \in Nat
  BY <1>2, SumaConstante, FS_CardinalityType DEF EsBolsa
<1>4. QED
  BY <1>1, <1>3 DEF RespaldoDe

LEMMA RespaldoUnido ==
  ASSUME NEW B, EsBolsa(B), NEW C, EsBolsa(C)
  PROVE  /\ EsBolsa(B (+) C) /\ DOMAIN (B (+) C) = DOMAIN B \cup DOMAIN C
         /\ \A a : RespaldoDe(B (+) C, a) = RespaldoDe(B, a) + RespaldoDe(C, a)
<1>1. PICK D, U : D = DOMAIN B \cup DOMAIN C /\ U = B (+) C
  OBVIOUS
<1>2. U = [t \in D |-> (IF t \in DOMAIN B THEN B[t] ELSE 0) + (IF t \in DOMAIN C THEN C[t] ELSE 0)]
  BY <1>1 DEF (+)
<1>3. IsFiniteSet(D) /\ IsFiniteSet(DOMAIN B) /\ IsFiniteSet(DOMAIN C)
  BY <1>1, FS_Union DEF EsBolsa
<1>4. EsBolsa(U) /\ DOMAIN U = D
  BY <1>1, <1>2, <1>3 DEF EsBolsa
<1>5. ASSUME NEW a PROVE RespaldoDe(U, a) = RespaldoDe(B, a) + RespaldoDe(C, a)
  <2>1. PICK f, g, f2, g2, h :
          /\ f = [t \in DOMAIN B |-> B[t] * MontoDe(t.detalle, a)]
          /\ g = [t \in DOMAIN C |-> C[t] * MontoDe(t.detalle, a)]
          /\ f2 = [t \in D |-> IF t \in DOMAIN B THEN f[t] ELSE 0]
          /\ g2 = [t \in D |-> IF t \in DOMAIN C THEN g[t] ELSE 0]
          /\ h = [t \in D |-> U[t] * MontoDe(t.detalle, a)]
    OBVIOUS
  <2>2. Enteros(f, DOMAIN B) /\ Enteros(g, DOMAIN C)
    <3>1. ASSUME NEW t \in DOMAIN B PROVE f[t] \in Int
      <4>1. f[t] = B[t] * MontoDe(t.detalle, a)
        BY <2>1
      <4>2. B[t] * MontoDe(t.detalle, a) \in Nat
        BY PesoNatural
      <4>3. QED
        BY <4>1, <4>2
    <3>2. ASSUME NEW t \in DOMAIN C PROVE g[t] \in Int
      <4>1. g[t] = C[t] * MontoDe(t.detalle, a)
        BY <2>1
      <4>2. C[t] * MontoDe(t.detalle, a) \in Nat
        BY PesoNatural
      <4>3. QED
        BY <4>1, <4>2
    <3>3. QED
      BY <3>1, <3>2 DEF Enteros
  <2>3. Enteros(f2, D) /\ Enteros(g2, D)
    BY <2>1, <2>2 DEF Enteros
  <2>4. SumFunctionOnSet(f2, D) = SumFunctionOnSet(f, DOMAIN B) /\ SumFunctionOnSet(g2, D) = SumFunctionOnSet(g, DOMAIN C)
    <3>1. PICK E, F : E = DOMAIN B /\ F = DOMAIN C
      OBVIOUS
    <3>2. SumFunctionOnSet(f2, D) = SumFunctionOnSet(f, E)
      <4>1. E \in SUBSET D /\ Enteros(f, E) /\ (\A t \in E : f2[t] = f[t]) /\ \A t \in D \ E : f2[t] = 0
        BY <1>1, <2>1, <2>2, <3>1
      <4>2. QED
        BY <1>3, <4>1, SumaRestringida
    <3>3. SumFunctionOnSet(g2, D) = SumFunctionOnSet(g, F)
      <4>1. F \in SUBSET D /\ Enteros(g, F) /\ (\A t \in F : g2[t] = g[t]) /\ \A t \in D \ F : g2[t] = 0
        BY <1>1, <2>1, <2>2, <3>1
      <4>2. QED
        BY <1>3, <4>1, SumaRestringida
    <3>4. QED
      BY <3>1, <3>2, <3>3
  <2>5. ASSUME NEW t \in D PROVE h[t] = 1 * f2[t] + g2[t]
    <3>1. PICK m \in Nat : m = MontoDe(t.detalle, a)
      BY <1>1, MontoNatural DEF EsBolsa
    <3>2. PICK p \in Nat, q \in Nat : /\ p = IF t \in DOMAIN B THEN B[t] ELSE 0
                                      /\ q = IF t \in DOMAIN C THEN C[t] ELSE 0
      BY DEF EsBolsa
    <3>3. f2[t] = p * m /\ g2[t] = q * m
      BY <2>1, <3>1, <3>2
    <3>4. h[t] = (p + q) * m
      BY <1>2, <2>1, <3>1, <3>2
    <3>5. (p + q) * m = 1 * (p * m) + q * m
      OBVIOUS
    <3>6. QED
      BY <3>3, <3>4, <3>5
  <2>6. SumFunctionOnSet(h, D) = 1 * SumFunctionOnSet(f2, D) + SumFunctionOnSet(g2, D)
    BY <1>3, <2>3, <2>5, SumaLineal DEF Combina
  <2>7. SumFunctionOnSet(f2, D) \in Int
    BY <1>3, <2>3, SumaEntera
  <2>8. QED
    BY <1>4, <2>1, <2>4, <2>6, <2>7 DEF RespaldoDe
<1>6. QED
  BY <1>1, <1>4, <1>5

LEMMA RespaldoDeUna ==
  ASSUME NEW t, EsDetalle(t.detalle)
  PROVE  EsBolsa(SetToBag({t})) /\ \A a : RespaldoDe(SetToBag({t}), a) = MontoDe(t.detalle, a)
<1>1. PICK B : B = SetToBag({t})
  OBVIOUS
<1>2. DOMAIN B = {t} /\ B[t] = 1
  BY <1>1 DEF SetToBag
<1>3. EsBolsa(B)
  <2>1. IsFiniteSet({t}) /\ Cardinality({t}) = 1
    BY FS_Singleton
  <2>2. QED
    BY <1>2, <2>1 DEF EsBolsa
<1>4. ASSUME NEW a PROVE RespaldoDe(B, a) = MontoDe(t.detalle, a)
  <2>1. PICK m \in Nat : m = MontoDe(t.detalle, a)
    BY MontoNatural
  <2>2. PICK f : f = [x \in {t} |-> B[x] * MontoDe(x.detalle, a)]
    OBVIOUS
  <2>3. f[t] = m
    BY <1>2, <2>1, <2>2
  <2>4. PICK S : S = {t}
    OBVIOUS
  <2>5. IsFiniteSet(S) /\ Cardinality(S) = 1 /\ \A x \in S : f[x] = m
    BY <2>3, <2>4, FS_Singleton
  <2>6. SumFunctionOnSet(f, S) = m * 1
    BY <2>5, SumaConstante
  <2>7. RespaldoDe(B, a) = SumFunctionOnSet(f, S)
    BY <1>2, <2>2, <2>4 DEF RespaldoDe
  <2>8. QED
    BY <2>1, <2>6, <2>7
<1>5. QED
  BY <1>1, <1>3, <1>4

----------------------------------------------------------------------------
(* What 05 has yet to impute on an entry, and what the linker has imputed on*)
(* it in the receipts whose transaction is not written yet.                 *)
Parte(op, a) == IF op.k.a = a THEN op.monto ELSE 0
PorImputar(P, a) == SumFunctionOnSet([op \in P |-> Parte(op, a)], P)
Faltan(a) == IF Corre("pagos", 2) THEN PorImputar(script.pend, a) ELSE 0

Abierto(t, a) == IF t.paso # "recibo" THEN MontoDe(t.afectados, a) ELSE 0
EnTareas(T, a) == SumFunctionOnSet([r \in DOMAIN T |-> Abierto(T[r], a)], DOMAIN T)

EsTareas(T) == IsFiniteSet(DOMAIN T) /\ \A r \in DOMAIN T : EsDetalle(T[r].afectados)
Bolsas ==
  /\ EsBolsa(transacciones) /\ EsBolsa(script.tx)
  /\ ~ Corre("pagos", 2) /\ ~ Corre("pagos", 3) => DOMAIN script.tx = {}
  /\ \A t \in DOMAIN script.tx : DOMAIN t.detalle = {1}
  /\ EsTareas(tareas)
  /\ Corre("pagos", 2) => IsFiniteSet(script.pend)

(* What an entry has imputed, and what 05 is about to impute on it, is      *)
(* backed by the transactions written and those that will be.               *)
Fondo(a) == RespaldoDe(transacciones, a) + RespaldoDe(script.tx, a) + EnTareas(tareas, a)
Respaldado(a) == asientos[a].pagado + asientos[a].liquidado + Faltan(a) <= Fondo(a)
Reinicia == script.nombre \in {"reset00", "resetPagos"}
EnCero(d) == d.pagado = 0 /\ d.liquidado = 0
Respaldos ==
  /\ ~ Reinicia => \A a \in DOMAIN asientos \ huella.cortados : Respaldado(a)
  /\ script.nombre = "reset00" /\ script.paso >= 4 => \A a \in DOMAIN asientos : EnCero(asientos[a])

(* The inductive invariant of ImputadoRespaldado: the bags and the tasks are*)
(* finite and hold natural amounts, and every entry is backed.              *)
RespaldoInv == PInv /\ Bolsas /\ Respaldos

LEMMA AbiertoNatural ==
  ASSUME NEW t, EsDetalle(t.afectados), NEW a
  PROVE  Abierto(t, a) \in Nat
BY MontoNatural DEF Abierto

LEMMA EnTareasNatural ==
  ASSUME NEW T, EsTareas(T), NEW a
  PROVE  EnTareas(T, a) \in Nat
<1>1. PICK D, f : D = DOMAIN T /\ f = [r \in D |-> Abierto(T[r], a)]
  OBVIOUS
<1>2. IsFiniteSet(D) /\ \A r \in D : f[r] \in Nat
  BY <1>1, AbiertoNatural DEF EsTareas
<1>3. QED
  BY <1>1, <1>2, SumaNatural DEF EnTareas

LEMMA SinTareas ==
  ASSUME NEW T, DOMAIN T = {}
  PROVE  EsTareas(T) /\ \A a : EnTareas(T, a) = 0
BY SumaVacia, FS_EmptySet DEF EsTareas, EnTareas

(* A task apart from the others.                                            *)
LEMMA TareaAparte ==
  ASSUME NEW T, NEW r \in DOMAIN T, NEW R, EsTareas(R), DOMAIN R = DOMAIN T \ {r},
         \A q \in DOMAIN R : R[q] = T[q], EsDetalle(T[r].afectados)
  PROVE  EsTareas(T) /\ \A a : EnTareas(T, a) = EnTareas(R, a) + Abierto(T[r], a)
<1>1. DOMAIN T = DOMAIN R \cup {r} /\ r \notin DOMAIN R
  OBVIOUS
<1>2. EsTareas(T)
  BY <1>1, FS_AddElement DEF EsTareas
<1>3. ASSUME NEW a PROVE EnTareas(T, a) = EnTareas(R, a) + Abierto(T[r], a)
  <2>1. PICK D, f, g : /\ D = DOMAIN R /\ f = [q \in D |-> Abierto(R[q], a)]
                       /\ g = [q \in DOMAIN T |-> Abierto(T[q], a)]
    OBVIOUS
  <2>2. IsFiniteSet(D) /\ Enteros(f, D) /\ r \notin D /\ \A q \in D : f[q] = g[q]
    <3>1. ASSUME NEW q \in D PROVE f[q] \in Int /\ f[q] = g[q]
      <4>1. f[q] = Abierto(R[q], a) /\ g[q] = Abierto(T[q], a) /\ R[q] = T[q] /\ EsDetalle(R[q].afectados)
        BY <1>1, <2>1 DEF EsTareas
      <4>2. Abierto(R[q], a) \in Nat
        BY <4>1, AbiertoNatural
      <4>3. QED
        BY <4>1, <4>2
    <3>2. QED
      BY <1>1, <2>1, <3>1 DEF EsTareas, Enteros
  <2>3. Enteros(g, D) /\ g[r] = Abierto(T[r], a) /\ g[r] \in Int
    BY <1>1, <2>1, <2>2, AbiertoNatural DEF Enteros
  <2>4. SumFunctionOnSet(g, D \cup {r}) = g[r] + SumFunctionOnSet(g, D)
    BY <2>2, <2>3, SumaMas
  <2>5. SumFunctionOnSet(f, D) = SumFunctionOnSet(g, D) /\ SumFunctionOnSet(f, D) \in Int
    BY <2>2, SumaIgual, SumaEntera
  <2>6. EnTareas(R, a) = SumFunctionOnSet(f, D)
    BY <2>1 DEF EnTareas
  <2>7. EnTareas(T, a) = SumFunctionOnSet(g, D \cup {r})
    BY <1>1, <2>1 DEF EnTareas
  <2>8. QED
    BY <2>3, <2>4, <2>5, <2>6, <2>7
<1>4. QED
  BY <1>2, <1>3

LEMMA TareasSinUna ==
  ASSUME NEW T, EsTareas(T), NEW r
  PROVE  LET R == Restrict(T, DOMAIN T \ {r})
         IN  EsTareas(R) /\ DOMAIN R = DOMAIN T \ {r} /\ \A q \in DOMAIN R : R[q] = T[q]
BY FS_Subset DEF EsTareas, Restrict

(* What 05 has yet to impute.                                               *)
LEMMA PorImputarNatural ==
  ASSUME NEW P, IsFiniteSet(P), \A op \in P : op.monto \in Nat, NEW a
  PROVE  PorImputar(P, a) \in Nat
<1>1. PICK f : f = [op \in P |-> Parte(op, a)]
  OBVIOUS
<1>2. \A op \in P : f[op] \in Nat
  BY <1>1 DEF Parte
<1>3. QED
  BY <1>1, <1>2, SumaNatural DEF PorImputar

LEMMA PorImputarSinUna ==
  ASSUME NEW P, IsFiniteSet(P), \A op \in P : op.monto \in Nat, NEW x \in P, NEW a
  PROVE  PorImputar(P, a) = PorImputar(P \ {x}, a) + Parte(x, a)
<1>1. PICK R, f, g : R = P \ {x} /\ f = [op \in R |-> Parte(op, a)] /\ g = [op \in P |-> Parte(op, a)]
  OBVIOUS
<1>2. IsFiniteSet(R) /\ Enteros(f, R) /\ Enteros(g, R) /\ x \notin R /\ R \cup {x} = P
      /\ (\A op \in R : f[op] = g[op]) /\ g[x] = Parte(x, a) /\ g[x] \in Int
  BY <1>1, FS_Subset DEF Enteros, Parte
<1>3. SumFunctionOnSet(g, R \cup {x}) = g[x] + SumFunctionOnSet(g, R)
  BY <1>2, SumaMas
<1>4. SumFunctionOnSet(f, R) = SumFunctionOnSet(g, R) /\ SumFunctionOnSet(f, R) \in Int
  BY <1>2, SumaIgual, SumaEntera
<1>5. PorImputar(P, a) = SumFunctionOnSet(g, R \cup {x}) /\ PorImputar(R, a) = SumFunctionOnSet(f, R)
  BY <1>1, <1>2 DEF PorImputar
<1>6. QED
  BY <1>1, <1>2, <1>3, <1>4, <1>5

LEMMA Sumandos ==
  ASSUME RespaldoInv, NEW a
  PROVE  /\ Faltan(a) \in Nat /\ RespaldoDe(transacciones, a) \in Nat /\ RespaldoDe(script.tx, a) \in Nat
         /\ EnTareas(tareas, a) \in Nat /\ Fondo(a) \in Nat
         /\ a \in DOMAIN asientos => asientos[a].pagado \in Int /\ asientos[a].liquidado \in Int
<1>1. Faltan(a) \in Nat
  BY PorImputarNatural DEF RespaldoInv, PInv, Turno, Bolsas, Faltan, Corre
<1>2. RespaldoDe(transacciones, a) \in Nat /\ RespaldoDe(script.tx, a) \in Nat /\ EnTareas(tareas, a) \in Nat
  BY RespaldoNatural, EnTareasNatural DEF RespaldoInv, Bolsas
<1>3. QED
  BY <1>1, <1>2 DEF Fondo, RespaldoInv, PInv, PFormas, EsAsiento

LEMMA InitRespaldoInv == PInit => RespaldoInv
<1> SUFFICES ASSUME PInit PROVE RespaldoInv
  OBVIOUS
<1>1. PInv
  BY PInitPInv
<1>2. /\ transacciones = EmptyBag /\ script = Quieto /\ DOMAIN tareas = {} /\ huella.cortados = {}
      /\ asientos = Contractuales
  BY Vacia DEF PInit
<1>3. DOMAIN EmptyBag = {}
  BY DEF EmptyBag, SetToBag
<1>4. script.nombre = "ninguno" /\ DOMAIN script.tx = {}
  BY <1>2, <1>3 DEF Quieto
<1>5. Bolsas
  BY <1>2, <1>3, <1>4, RespaldoVacio, SinTareas DEF Bolsas, Corre
<1>6. ASSUME NEW a \in DOMAIN asientos PROVE Respaldado(a)
  <2>1. asientos[a].pagado = 0 /\ asientos[a].liquidado = 0
    BY <1>2, PagosAssumption
  <2>2. Faltan(a) = 0
    BY <1>4 DEF Faltan, Corre
  <2>3. Fondo(a) = 0
    <3>1. RespaldoDe(transacciones, a) = 0 /\ RespaldoDe(script.tx, a) = 0
      BY <1>2, <1>3, <1>4, RespaldoVacio
    <3>2. EnTareas(tareas, a) = 0
      BY <1>2, SinTareas
    <3>3. QED
      BY <3>1, <3>2 DEF Fondo
  <2>4. QED
    BY <2>1, <2>2, <2>3 DEF Respaldado
<1>7. QED
  BY <1>1, <1>4, <1>5, <1>6 DEF RespaldoInv, Respaldos

(* Steps that impute nothing and write no transaction.                      *)
Quedan(a) ==
  \/ a \in DOMAIN asientos /\ asientos'[a].pagado = asientos[a].pagado /\ asientos'[a].liquidado = asientos[a].liquidado
  \/ EnCero(asientos[a])'

LEMMA SinImputar ==
  ASSUME RespaldoInv, PInv', ~ Reinicia, ~ Corre("pagos", 2), ~ Corre("pagos", 2)',
         script'.nombre = "reset00" => script'.paso < 4,
         transacciones' = transacciones, huella'.cortados = huella.cortados,
         (DOMAIN script.tx = {} /\ DOMAIN script'.tx = {}) \/ (script'.tx = script.tx /\ Corre("pagos", 3)'),
         EsTareas(tareas'), \A a : EnTareas(tareas', a) = EnTareas(tareas, a),
         \A a \in DOMAIN asientos' : Quedan(a)
  PROVE  RespaldoInv'
<1>1. /\ EsBolsa(script'.tx) /\ \A a : RespaldoDe(script'.tx, a) = RespaldoDe(script.tx, a)
      /\ \A t \in DOMAIN script'.tx : DOMAIN t.detalle = {1}
      /\ DOMAIN script'.tx = {} \/ Corre("pagos", 3)'
  BY RespaldoVacio DEF RespaldoInv, Bolsas
<1>2. Bolsas'
  BY <1>1 DEF RespaldoInv, Bolsas
<1>3. ASSUME NEW a \in DOMAIN asientos' \ huella'.cortados PROVE Respaldado(a)'
  <2>1. Faltan(a)' = 0 /\ Faltan(a) = 0
    BY DEF Faltan
  <2>2. Fondo(a)' = Fondo(a) /\ Fondo(a) \in Nat
    BY <1>1, Sumandos DEF Fondo
  <2>3. CASE EnCero(asientos[a])'
    BY <2>1, <2>2, <2>3 DEF EnCero, Respaldado
  <2>4. CASE /\ a \in DOMAIN asientos /\ asientos'[a].pagado = asientos[a].pagado
             /\ asientos'[a].liquidado = asientos[a].liquidado
    <3>1. Respaldado(a)
      BY <2>4 DEF RespaldoInv, Respaldos
    <3>2. QED
      BY <2>1, <2>2, <2>4, <3>1 DEF Respaldado
  <2>5. QED
    BY <2>3, <2>4 DEF Quedan
<1>4. Respaldos'
  <2>1. script'.paso \in 1 .. 5
    BY DEF PInv, Turno
  <2>2. ~ (script'.nombre = "reset00" /\ script'.paso >= 4)
    BY <2>1
  <2>3. QED
    BY <1>3, <2>2 DEF Respaldos
<1>5. QED
  BY <1>2, <1>4 DEF RespaldoInv

(* The scripts that write entries without paying them.                      *)
LEMMA CamposDe ==
  ASSUME PInv, NEW a \in DOMAIN asientos, NEW x, NEW y
  PROVE  /\ LET e == [asientos[a] EXCEPT !.recibo = x] IN e.pagado = asientos[a].pagado /\ e.liquidado = asientos[a].liquidado
         /\ LET e == [asientos[a] EXCEPT !.debito = x] IN e.pagado = asientos[a].pagado /\ e.liquidado = asientos[a].liquidado
         /\ LET e == [asientos[a] EXCEPT !.credito = x] IN e.pagado = asientos[a].pagado /\ e.liquidado = asientos[a].liquidado
         /\ LET e == [asientos[a] EXCEPT !.estado = x] IN e.pagado = asientos[a].pagado /\ e.liquidado = asientos[a].liquidado
BY DEF PInv, PFormas, EsAsiento, CamposAsiento

LEMMA EscribirRespaldoInv ==
  ASSUME RespaldoInv, PInv', script.nombre \in {"adhoc", "adhocMaestro", "vincular", "recibos", "impacto"},
         script'.nombre = script.nombre, script'.tx = script.tx,
         UNCHANGED <<transacciones, tareas, huella>>,
         \A a \in DOMAIN asientos' : Quedan(a)
  PROVE  RespaldoInv'
<1>1. ~ Reinicia /\ ~ Corre("pagos", 2) /\ ~ Corre("pagos", 3) /\ ~ Corre("pagos", 2)'
  BY DEF Reinicia, Corre
<1>2. DOMAIN script.tx = {} /\ DOMAIN script'.tx = {} /\ EsTareas(tareas')
  BY <1>1 DEF RespaldoInv, Bolsas
<1>3. script'.nombre # "reset00" /\ transacciones' = transacciones /\ huella'.cortados = huella.cortados
      /\ \A a : EnTareas(tareas', a) = EnTareas(tareas, a)
  OBVIOUS
<1>4. script'.nombre = "reset00" => script'.paso < 4
  BY <1>3
<1>5. (DOMAIN script.tx = {} /\ DOMAIN script'.tx = {}) \/ (script'.tx = script.tx /\ Corre("pagos", 3)')
  BY <1>2
<1>6. EsTareas(tareas')
  BY <1>2
<1>7. QED
  BY <1>1, <1>3, <1>4, <1>5, <1>6, SinImputar

LEMMA EscribirSinPagar ==
  ASSUME RespaldoInv, PInv', NEW c, NEW r, NEW x,
         UpsertAdHoc(c) \/ InsertarAdHocMaestro(c) \/ Vincular(c) \/ MigrarRecibo(r) \/ ImpactarRecibo(r)
           \/ PasarAAsientos \/ ImpactarAsiento(x)
  PROVE  RespaldoInv'
<1>1. /\ script.nombre \in {"adhoc", "adhocMaestro", "vincular", "recibos", "impacto"}
      /\ UNCHANGED <<transacciones, tareas, huella>>
  BY DEF UpsertAdHoc, InsertarAdHocMaestro, Vincular, MigrarRecibo, ImpactarRecibo, PasarAAsientos, ImpactarAsiento, Corre
<1>2. script'.nombre = script.nombre /\ script'.tx = script.tx
  BY DEF UpsertAdHoc, InsertarAdHocMaestro, Vincular, MigrarRecibo, ImpactarRecibo, PasarAAsientos, ImpactarAsiento, Hecho,
     RespaldoInv, PInv, PFormas
<1>3. ASSUME NEW a \in DOMAIN asientos' PROVE Quedan(a)
  <2>1. CASE a \in DOMAIN asientos /\ asientos'[a] = asientos[a]
    BY <2>1 DEF Quedan
  <2>2. CASE UpsertAdHoc(c)
    <3>1. PICK m, d : asientos' = Insertado(asientos, c, AdHoc(c, m, d))
      BY <2>2 DEF UpsertAdHoc
    <3>2. AdHoc(c, m, d).pagado = 0 /\ AdHoc(c, m, d).liquidado = 0
      BY DEF AdHoc
    <3>3. QED
      BY <2>1, <3>1, <3>2 DEF Insertado, Quedan, EnCero
  <2>3. CASE InsertarAdHocMaestro(c)
    <3>1. PICK n, l, m : asientos' = Insertado(asientos, n, AdHoc(l, m, Deudor))
      BY <2>3 DEF InsertarAdHocMaestro
    <3>2. AdHoc(l, m, Deudor).pagado = 0 /\ AdHoc(l, m, Deudor).liquidado = 0
      BY DEF AdHoc
    <3>3. QED
      BY <2>1, <3>1, <3>2 DEF Insertado, Quedan, EnCero
  <2>4. CASE Vincular(c)
    <3>1. CASE asientos' = asientos
      BY <2>1, <3>1
    <3>2. CASE \E b : asientos' = [asientos EXCEPT ![b].debito = @ \cup {c}]
      <4>1. PICK b : asientos' = [asientos EXCEPT ![b].debito = @ \cup {c}]
        BY <3>2
      <4>2. a \in DOMAIN asientos
        BY <4>1
      <4>3. CASE a = b
        <5>1. asientos'[a] = [asientos[a] EXCEPT !.debito = asientos[a].debito \cup {c}]
          BY <4>1, <4>2, <4>3
        <5>2. QED
          BY <4>2, <5>1, CamposDe DEF Quedan, RespaldoInv
      <4>4. QED
        BY <2>1, <4>1, <4>2, <4>3
    <3>3. CASE \E b : asientos' = [asientos EXCEPT ![b].credito = @ \cup {c}]
      <4>1. PICK b : asientos' = [asientos EXCEPT ![b].credito = @ \cup {c}]
        BY <3>3
      <4>2. a \in DOMAIN asientos
        BY <4>1
      <4>3. CASE a = b
        <5>1. asientos'[a] = [asientos[a] EXCEPT !.credito = asientos[a].credito \cup {c}]
          BY <4>1, <4>2, <4>3
        <5>2. QED
          BY <4>2, <5>1, CamposDe DEF Quedan, RespaldoInv
      <4>4. QED
        BY <2>1, <4>1, <4>2, <4>3
    <3>4. QED
      BY <2>4, <3>1, <3>2, <3>3 DEF Vincular
  <2>5. CASE MigrarRecibo(r) \/ ImpactarRecibo(r) \/ PasarAAsientos
    BY <2>1, <2>5 DEF MigrarRecibo, ImpactarRecibo, PasarAAsientos
  <2>6. CASE ImpactarAsiento(x)
    <3>1. PICK b, y : asientos' = [asientos EXCEPT ![b].recibo = y]
      BY <2>6 DEF ImpactarAsiento
    <3>2. a \in DOMAIN asientos
      BY <3>1
    <3>3. CASE a = b
      <4>1. asientos'[a] = [asientos[a] EXCEPT !.recibo = y]
        BY <3>1, <3>2, <3>3
      <4>2. QED
        BY <3>2, <4>1, CamposDe DEF Quedan, RespaldoInv
    <3>4. QED
      BY <2>1, <3>1, <3>2, <3>3
  <2>7. QED
    BY <2>2, <2>3, <2>4, <2>5, <2>6
<1>4. QED
  BY <1>1, <1>2, <1>3, EscribirRespaldoInv

LEMMA EmpezarTerminar ==
  ASSUME RespaldoInv, PInv', NEW n, EmpezarScript(n) \/ TerminarScript
  PROVE  RespaldoInv'
<1>1. DOMAIN Quieto.tx = {}
  BY DEF Quieto, EmptyBag, SetToBag
<1>2. /\ script.nombre \notin {"reset00", "resetPagos", "pagos"}
      /\ UNCHANGED <<asientos, transacciones, tareas>> /\ huella'.cortados = huella.cortados
  BY DEF EmpezarScript, TerminarScript, Corre, RespaldoInv, PInv, PFormas
<1>3. script'.paso = 1 /\ DOMAIN script'.tx = {}
  <2>1. CASE TerminarScript
    <3>1. script' = Quieto
      BY <2>1 DEF TerminarScript, Fin
    <3>2. Quieto.paso = 1
      BY DEF Quieto
    <3>3. QED
      BY <1>1, <3>1, <3>2
  <2>2. CASE EmpezarScript(n)
    <3>1. PICK l, q : script' = [Quieto EXCEPT !.nombre = n, !.pend = l, !.quirurgico = q]
      BY <2>2 DEF EmpezarScript
    <3>2. script'.paso = 1 /\ script'.tx = Quieto.tx
      BY <3>1 DEF Quieto
    <3>3. QED
      BY <1>1, <3>2
  <2>3. QED
    BY <2>1, <2>2
<1>4. ~ Reinicia /\ ~ Corre("pagos", 2) /\ ~ Corre("pagos", 3) /\ ~ Corre("pagos", 2)'
  BY <1>2, <1>3 DEF Reinicia, Corre
<1>5. (DOMAIN script.tx = {} /\ DOMAIN script'.tx = {}) \/ (script'.tx = script.tx /\ Corre("pagos", 3)')
  BY <1>3, <1>4 DEF RespaldoInv, Bolsas
<1>6. script'.nombre = "reset00" => script'.paso < 4
  BY <1>3
<1>7. EsTareas(tareas') /\ \A a : EnTareas(tareas', a) = EnTareas(tareas, a)
  BY <1>2 DEF RespaldoInv, Bolsas
<1>8. \A a \in DOMAIN asientos' : Quedan(a)
  BY <1>2 DEF Quedan
<1>9. transacciones' = transacciones /\ huella'.cortados = huella.cortados
  BY <1>2
<1>10. QED
  BY <1>4, <1>5, <1>6, <1>7, <1>8, <1>9, SinImputar

----------------------------------------------------------------------------
(* The linker.                                                              *)
LEMMA Enlazando ==
  ASSUME RespaldoInv, PInv', script.nombre = "enlazar", script' = script \/ \E r : Hecho(r),
         transacciones' = transacciones, huella'.cortados = huella.cortados,
         EsTareas(tareas'), \A a : EnTareas(tareas', a) = EnTareas(tareas, a),
         \A a \in DOMAIN asientos' : Quedan(a)
  PROVE  RespaldoInv'
<1>1. script'.nombre = "enlazar" /\ script'.tx = script.tx
  BY DEF Hecho, RespaldoInv, PInv, PFormas
<1>2. ~ Reinicia /\ ~ Corre("pagos", 2) /\ ~ Corre("pagos", 3) /\ ~ Corre("pagos", 2)'
  BY <1>1 DEF Reinicia, Corre
<1>3. (DOMAIN script.tx = {} /\ DOMAIN script'.tx = {}) \/ (script'.tx = script.tx /\ Corre("pagos", 3)')
  BY <1>1, <1>2 DEF RespaldoInv, Bolsas
<1>4. script'.nombre = "reset00" => script'.paso < 4
  BY <1>1
<1>5. QED
  BY <1>2, <1>3, <1>4, SinImputar

(* A task that goes on with what it had imputed.                            *)
LEMMA TareaIgual ==
  ASSUME NEW T, EsTareas(T), NEW r \in DOMAIN T, T[r].paso # "recibo",
         NEW u, u.paso # "recibo", u.afectados = T[r].afectados,
         NEW T2, T2 = [x \in DOMAIN T |-> IF x = r THEN u ELSE T[x]]
  PROVE  EsTareas(T2) /\ \A a : EnTareas(T2, a) = EnTareas(T, a)
<1>1. EsTareas(T2)
  BY DEF EsTareas
<1>2. ASSUME NEW a PROVE [q \in DOMAIN T2 |-> Abierto(T2[q], a)] = [q \in DOMAIN T |-> Abierto(T[q], a)]
  BY DEF Abierto
<1>3. QED
  BY <1>1, <1>2 DEF EnTareas

LEMMA MismosAsientos ==
  ASSUME asientos' = asientos PROVE \A a \in DOMAIN asientos' : Quedan(a)
BY DEF Quedan

LEMMA EmpezarTareaRespaldoInv ==
  ASSUME RespaldoInv, PInv', NEW r, EmpezarTarea(r)
  PROVE  RespaldoInv'
<1>1. /\ script.nombre = "enlazar" /\ TareaLibre(r) /\ Hecho(r)
      /\ asientos' = asientos /\ transacciones' = transacciones /\ huella'.cortados = huella.cortados
  BY DEF EmpezarTarea, RespaldoInv, PInv, PFormas
<1>2. PICK t : t = [paso |-> "buscar", i |-> 1, a |-> Nulo, afectados |-> <<>>, fallo |-> FALSE]
  OBVIOUS
<1>3. tareas' = [x \in DOMAIN tareas \cup {r} |-> IF x = r THEN t ELSE tareas[x]]
  BY <1>2 DEF EmpezarTarea, Tarea, Insertado
<1>4. r \notin DOMAIN tareas /\ DOMAIN t.afectados = {} /\ t.paso = "buscar"
  BY <1>1, <1>2, Vacia DEF TareaLibre
<1>5. EsDetalle(t.afectados) /\ \A a : Abierto(t, a) = 0
  BY <1>4, MontoAjeno, FS_EmptySet DEF EsDetalle, Abierto
<1>6. EsTareas(tareas)
  BY DEF RespaldoInv, Bolsas
<1>7. /\ r \in DOMAIN tareas' /\ tareas'[r] = t /\ DOMAIN tareas = DOMAIN tareas' \ {r}
      /\ \A q \in DOMAIN tareas : tareas[q] = tareas'[q]
  BY <1>3, <1>4
<1>8. EsTareas(tareas') /\ \A a : EnTareas(tareas', a) = EnTareas(tareas, a) + Abierto(t, a)
  <2>1. PICK T : T = tareas'
    OBVIOUS
  <2>2. EsTareas(T) /\ \A a : EnTareas(T, a) = EnTareas(tareas, a) + Abierto(T[r], a)
    BY <1>5, <1>6, <1>7, <2>1, TareaAparte
  <2>3. QED
    BY <1>7, <2>1, <2>2
<1>9. ASSUME NEW a PROVE EnTareas(tareas', a) = EnTareas(tareas, a)
  <2>1. EnTareas(tareas, a) \in Nat
    BY Sumandos
  <2>2. EnTareas(tareas', a) = EnTareas(tareas, a) + 0
    BY <1>5, <1>8
  <2>3. QED
    BY <2>1, <2>2
<1>10. \A a \in DOMAIN asientos' : Quedan(a)
  BY <1>1, MismosAsientos
<1>11. QED
  BY <1>1, <1>8, <1>9, <1>10, Enlazando

LEMMA BuscarAsientoRespaldoInv ==
  ASSUME RespaldoInv, PInv', NEW r, BuscarAsiento(r)
  PROVE  RespaldoInv'
<1>1. /\ script.nombre = "enlazar" /\ r \in DOMAIN tareas /\ tareas[r].paso = "buscar"
      /\ UNCHANGED <<asientos, transacciones, script, huella>>
  BY DEF BuscarAsiento, EnTarea
<1>2. EsTarea(tareas[r])
  BY <1>1 DEF RespaldoInv, PInv, PFormas
<1>3. PICK u : Tarea(r, u) /\ u.paso # "recibo" /\ u.afectados = tareas[r].afectados
  <2>1. ASSUME NEW a, Tarea(r, ConAsiento(tareas[r], "imputar", a))
        PROVE  \E u : Tarea(r, u) /\ u.paso # "recibo" /\ u.afectados = tareas[r].afectados
    BY <1>2, <2>1, TareaConAsiento
  <2>2. ASSUME Tarea(r, [tareas[r] EXCEPT !.paso = "crear"])
        PROVE  \E u : Tarea(r, u) /\ u.paso # "recibo" /\ u.afectados = tareas[r].afectados
    <3>1. PICK u : u = [tareas[r] EXCEPT !.paso = "crear"]
      OBVIOUS
    <3>2. u.paso = "crear" /\ u.afectados = tareas[r].afectados
      BY <1>2, <3>1, TareaEnPaso
    <3>3. QED
      BY <2>2, <3>1, <3>2
  <2>3. ASSUME SaltarLinea(r)
        PROVE  \E u : Tarea(r, u) /\ u.paso # "recibo" /\ u.afectados = tareas[r].afectados
    BY <1>1, <1>2, <2>3, TareaSalteada DEF SaltarLinea
  <2>4. QED
    BY <2>1, <2>2, <2>3 DEF BuscarAsiento, ConAsiento
<1>4. tareas' = [x \in DOMAIN tareas |-> IF x = r THEN u ELSE tareas[x]]
  BY <1>1, <1>3 DEF Tarea, Insertado
<1>5. EsTareas(tareas') /\ \A a : EnTareas(tareas', a) = EnTareas(tareas, a)
  BY <1>1, <1>3, <1>4, TareaIgual DEF RespaldoInv, Bolsas
<1>6. QED
  BY <1>1, <1>5, MismosAsientos, Enlazando

LEMMA CrearFaltanteRespaldoInv ==
  ASSUME RespaldoInv, PInv', NEW r, CrearFaltante(r)
  PROVE  RespaldoInv'
<1>1. /\ script.nombre = "enlazar" /\ r \in DOMAIN tareas /\ tareas[r].paso = "crear"
      /\ UNCHANGED <<transacciones, script, huella>>
  BY DEF CrearFaltante, EnTarea
<1>2. EsTarea(tareas[r])
  BY <1>1 DEF RespaldoInv, PInv, PFormas
<1>3. PICK n, m, c, p : asientos' = Insertado(asientos, n, Renta(m, c, p)) /\ Tarea(r, ConAsiento(tareas[r], "imputar", n))
  BY DEF CrearFaltante, Renta, ConAsiento
<1>4. PICK u : u = ConAsiento(tareas[r], "imputar", n)
  OBVIOUS
<1>5. u.paso # "recibo" /\ u.afectados = tareas[r].afectados
  BY <1>2, <1>4, TareaConAsiento
<1>6. tareas' = [x \in DOMAIN tareas |-> IF x = r THEN u ELSE tareas[x]]
  BY <1>1, <1>3, <1>4 DEF Tarea, Insertado
<1>7. EsTareas(tareas') /\ \A a : EnTareas(tareas', a) = EnTareas(tareas, a)
  BY <1>1, <1>5, <1>6, TareaIgual DEF RespaldoInv, Bolsas
<1>8. Renta(m, c, p).pagado = 0 /\ Renta(m, c, p).liquidado = 0
  BY DEF Renta, AdHoc
<1>9. \A a \in DOMAIN asientos' : Quedan(a)
  BY <1>3, <1>8 DEF Insertado, Quedan, EnCero
<1>10. QED
  BY <1>1, <1>7, <1>9, Enlazando

(* A line imputed is in the hands of its task; a task closed has written    *)
(* its transaction, or leaves its entries cut.                              *)
LEMMA TareaLuego ==
  ASSUME NEW T, EsTareas(T), NEW r \in DOMAIN T, NEW T2, NEW u, EsDetalle(u.afectados),
         T2 = [x \in DOMAIN T |-> IF x = r THEN u ELSE T[x]]
  PROVE  EsTareas(T2) /\ \A a : EnTareas(T2, a) + Abierto(T[r], a) = EnTareas(T, a) + Abierto(u, a)
<1>1. PICK R : R = Restrict(T, DOMAIN T \ {r})
  OBVIOUS
<1>2. EsTareas(R) /\ DOMAIN R = DOMAIN T \ {r} /\ \A q \in DOMAIN R : R[q] = T[q]
  BY <1>1, TareasSinUna
<1>3. EsDetalle(T[r].afectados)
  BY DEF EsTareas
<1>4. \A a : EnTareas(T, a) = EnTareas(R, a) + Abierto(T[r], a)
  BY <1>2, <1>3, TareaAparte
<1>5. T2[r] = u /\ DOMAIN R = DOMAIN T2 \ {r} /\ r \in DOMAIN T2 /\ \A q \in DOMAIN R : R[q] = T2[q]
  BY <1>2
<1>6. EsTareas(T2) /\ \A a : EnTareas(T2, a) = EnTareas(R, a) + Abierto(u, a)
  <2>1. EsDetalle(T2[r].afectados)
    BY <1>5
  <2>2. EsTareas(T2) /\ \A a : EnTareas(T2, a) = EnTareas(R, a) + Abierto(T2[r], a)
    BY <1>2, <1>5, <2>1, TareaAparte
  <2>3. QED
    BY <1>5, <2>2
<1>7. ASSUME NEW a PROVE EnTareas(T2, a) + Abierto(T[r], a) = EnTareas(T, a) + Abierto(u, a)
  <2>1. PICK x \in Nat, y \in Nat, z \in Nat : x = EnTareas(R, a) /\ y = Abierto(T[r], a) /\ z = Abierto(u, a)
    BY <1>2, <1>3, EnTareasNatural, AbiertoNatural
  <2>2. EnTareas(T2, a) = x + z /\ EnTareas(T, a) = x + y
    BY <1>4, <1>6, <2>1
  <2>3. QED
    BY <2>1, <2>2
<1>8. QED
  BY <1>6, <1>7

LEMMA DetalleSiguiente ==
  ASSUME NEW t, EsTarea(t), EsDetalle(t.afectados), t.paso # "recibo", NEW m \in Nat
  PROVE  LET u == Siguiente(t, m)
         IN  /\ EsDetalle(u.afectados) /\ u.paso # "recibo"
             /\ \A a : Abierto(u, a) = Abierto(t, a) + (IF a = t.a THEN m ELSE 0)
<1>1. PICK s, e : s = t.afectados /\ e = [a |-> t.a, monto |-> m]
  OBVIOUS
<1>2. PICK A : s \in Seq(A)
  BY <1>1 DEF EsTarea, EsSecuencia
<1>3. PICK z : z = Append(s, e)
  OBVIOUS
<1>4. PICK n \in Nat : n = Len(s)
  BY <1>2
<1>5. /\ DOMAIN z = 1 .. n + 1 /\ DOMAIN s = 1 .. n
      /\ (\A i \in 1 .. n : z[i] = s[i]) /\ z[n + 1] = e
  <2>1. s \in Seq(A \cup {e}) /\ e \in A \cup {e}
    BY <1>2
  <2>2. QED
    BY <1>3, <1>4, <2>1
<1>6. n + 1 \notin DOMAIN s /\ DOMAIN z = DOMAIN s \cup {n + 1}
  BY <1>5
<1>7. EsDetalle(z) /\ \A a : MontoDe(z, a) = MontoDe(s, a) + (IF a = t.a THEN m ELSE 0)
  <2>1. PICK k : k = n + 1
    OBVIOUS
  <2>2. /\ k \notin DOMAIN s /\ DOMAIN z = DOMAIN s \cup {k} /\ \A i \in DOMAIN s : z[i] = s[i]
        /\ z[k] = [a |-> t.a, monto |-> m]
    BY <1>1, <1>5, <1>6, <2>1
  <2>3. EsDetalle(s)
    BY <1>1
  <2>4. QED
    BY <2>2, <2>3, MontoAgregado
<1>8. PICK u : u = Siguiente(t, m)
  OBVIOUS
<1>9. u = [t EXCEPT !.paso = "buscar", !.i = @ + 1, !.a = Nulo, !.afectados = z]
  BY <1>1, <1>3, <1>8 DEF Siguiente, EsTarea
<1>10. u.paso = "buscar" /\ u.afectados = z
  BY <1>9 DEF EsTarea
<1>11. QED
  BY <1>1, <1>7, <1>8, <1>10 DEF Abierto

(* Amounts that grow with what backs them.                                  *)
LEMMA Crece ==
  ASSUME RespaldoInv, NEW a \in DOMAIN asientos \ huella.cortados, ~ Reinicia, a \in DOMAIN asientos',
         NEW d \in Nat, asientos'[a].pagado + asientos'[a].liquidado = asientos[a].pagado + asientos[a].liquidado + d,
         Faltan(a) = 0, Faltan(a)' = 0,
         Fondo(a)' = Fondo(a) + d
  PROVE  Respaldado(a)'
<1>1. Respaldado(a) /\ Fondo(a) \in Nat /\ asientos[a].pagado \in Int /\ asientos[a].liquidado \in Int
  BY Sumandos DEF RespaldoInv, Respaldos
<1>2. PICK x \in Int, f \in Nat : x = asientos[a].pagado + asientos[a].liquidado /\ f = Fondo(a)
  BY <1>1
<1>3. x <= f
  BY <1>1, <1>2 DEF Respaldado
<1>4. x + d + 0 <= f + d
  BY <1>3
<1>5. QED
  BY <1>2, <1>4 DEF Respaldado

LEMMA EnlazandoRespaldoInv ==
  ASSUME RespaldoInv, PInv', script.nombre = "enlazar", script' = script,
         EsBolsa(transacciones'), EsTareas(tareas'),
         \A a \in DOMAIN asientos' \ huella'.cortados : Respaldado(a)'
  PROVE  RespaldoInv'
<1>1. /\ ~ Corre("pagos", 2) /\ ~ Corre("pagos", 3) /\ ~ Corre("pagos", 2)' /\ script'.nombre = "enlazar"
  BY DEF Corre
<1>2. Bolsas'
  BY <1>1 DEF RespaldoInv, Bolsas
<1>3. Respaldos'
  BY <1>1 DEF Respaldos
<1>4. QED
  BY <1>2, <1>3 DEF RespaldoInv

LEMMA ImputarLineaRespaldoInv ==
  ASSUME RespaldoInv, PInv', NEW r \in DOMAIN LRecibos, ImputarLinea(r)
  PROVE  RespaldoInv'
<1>1. /\ script.nombre = "enlazar" /\ r \in DOMAIN tareas /\ tareas[r].paso = "imputar"
      /\ UNCHANGED <<transacciones, script, huella>>
  BY DEF ImputarLinea, EnTarea
<1>2. EsTarea(tareas[r]) /\ Sobre(r) /\ QuedanLineas(r)
  BY <1>1, NadaNuevo DEF Sobre, RespaldoInv
<1>3. PICK m \in Nat : m = Linea(r).monto
  BY <1>2, LineaExiste
<1>4. PICK b : b = tareas[r].a
  OBVIOUS
<1>5. b \in DOMAIN asientos
  BY <1>1, <1>2, <1>4 DEF Sobre
<1>6. PICK d : d = asientos[b]
  OBVIOUS
<1>7. EsAsiento(d)
  BY <1>5, <1>6, FormadosMejoran DEF RespaldoInv
<1>8. asientos' = [asientos EXCEPT ![b].pagado = IF d.debe > 0 THEN @ + m ELSE @,
                                   ![b].liquidado = IF d.debe > 0 THEN @ ELSE @ + m]
  BY <1>3, <1>4, <1>6 DEF ImputarLinea
<1>9. DOMAIN asientos' = DOMAIN asientos /\ \A a \in DOMAIN asientos : a # b => asientos'[a] = asientos[a]
  BY <1>8
<1>10. PICK f : f = asientos'[b]
  OBVIOUS
<1>11. f = [d EXCEPT !.pagado = IF d.debe > 0 THEN @ + m ELSE @, !.liquidado = IF d.debe > 0 THEN @ ELSE @ + m]
  BY <1>5, <1>6, <1>7, <1>8, <1>10 DEF EsAsiento, CamposAsiento
<1>12. f.pagado = (IF d.debe > 0 THEN d.pagado + m ELSE d.pagado)
       /\ f.liquidado = (IF d.debe > 0 THEN d.liquidado ELSE d.liquidado + m)
  BY <1>7, <1>11 DEF EsAsiento, CamposAsiento
<1>13. f.pagado + f.liquidado = d.pagado + d.liquidado + m
  <2>1. PICK p \in Int, l \in Int : p = d.pagado /\ l = d.liquidado
    BY <1>7 DEF EsAsiento
  <2>2. QED
    BY <1>12, <2>1
<1>14. PICK u : u = Siguiente(tareas[r], m)
  OBVIOUS
<1>15. EsTareas(tareas) /\ EsDetalle(tareas[r].afectados)
  BY <1>1 DEF RespaldoInv, Bolsas, EsTareas
<1>16. /\ EsDetalle(u.afectados)
       /\ \A a : Abierto(u, a) = Abierto(tareas[r], a) + (IF a = b THEN m ELSE 0)
  BY <1>1, <1>2, <1>4, <1>14, <1>15, DetalleSiguiente
<1>17. tareas' = [x \in DOMAIN tareas |-> IF x = r THEN u ELSE tareas[x]]
  <2>1. Tarea(r, Siguiente(tareas[r], Linea(r).monto))
    BY DEF ImputarLinea, Siguiente
  <2>2. QED
    BY <1>1, <1>3, <1>14, <2>1 DEF Tarea, Insertado
<1>18. /\ EsTareas(tareas')
       /\ \A a : EnTareas(tareas', a) + Abierto(tareas[r], a) = EnTareas(tareas, a) + Abierto(u, a)
  <2>1. PICK T2 : T2 = tareas'
    OBVIOUS
  <2>2. T2 = [x \in DOMAIN tareas |-> IF x = r THEN u ELSE tareas[x]]
    BY <1>17, <2>1
  <2>3. EsTareas(T2) /\ \A a : EnTareas(T2, a) + Abierto(tareas[r], a) = EnTareas(tareas, a) + Abierto(u, a)
    BY <1>1, <1>15, <1>16, <2>2, TareaLuego
  <2>4. QED
    BY <2>1, <2>3
<1>19. ASSUME NEW a PROVE Fondo(a)' = Fondo(a) + (IF a = b THEN m ELSE 0)
  <2>1. PICK x \in Nat, y \in Nat, z \in Nat, w \in Nat, v \in Nat :
          /\ x = RespaldoDe(transacciones, a) /\ y = RespaldoDe(script.tx, a) /\ z = EnTareas(tareas, a)
          /\ w = EnTareas(tareas', a) /\ v = Abierto(tareas[r], a)
    BY <1>15, <1>18, Sumandos, EnTareasNatural, AbiertoNatural
  <2>2. w + v = z + (v + (IF a = b THEN m ELSE 0))
    BY <1>16, <1>18, <2>1
  <2>3. w = z + (IF a = b THEN m ELSE 0)
    BY <2>2
  <2>4. Fondo(a)' = x + y + w
    BY <1>1, <2>1 DEF Fondo
  <2>5. QED
    BY <2>1, <2>3, <2>4 DEF Fondo
<1>20. ASSUME NEW a \in DOMAIN asientos' \ huella'.cortados PROVE Respaldado(a)'
  <2>1. a \in DOMAIN asientos \ huella.cortados /\ ~ Reinicia /\ Faltan(a) = 0 /\ Faltan(a)' = 0
    BY <1>1, <1>9 DEF Reinicia, Faltan, Corre
  <2>2. CASE a = b
    BY <1>6, <1>10, <1>13, <1>19, <1>20, <2>1, <2>2, Crece
  <2>3. CASE a # b
    <3>1. asientos'[a].pagado + asientos'[a].liquidado = asientos[a].pagado + asientos[a].liquidado + 0
      BY <1>9, <2>1, <2>3, Sumandos
    <3>2. Fondo(a)' = Fondo(a) + 0
      BY <1>19, <2>3
    <3>3. QED
      BY <1>20, <2>1, <3>1, <3>2, Crece
  <2>4. QED
    BY <2>2, <2>3
<1>21. QED
  <2>1. EsBolsa(transacciones')
    BY <1>1 DEF RespaldoInv, Bolsas
  <2>2. QED
    BY <1>1, <1>18, <1>20, <2>1, EnlazandoRespaldoInv

LEMMA CerrarTareaRespaldoInv ==
  ASSUME RespaldoInv, PInv', NEW r, CerrarTarea(r)
  PROVE  RespaldoInv'
<1>1. /\ script.nombre = "enlazar" /\ r \in DOMAIN tareas /\ tareas[r].paso = "buscar"
      /\ UNCHANGED <<asientos, script>>
  BY DEF CerrarTarea, EnTarea
<1>2. EsTarea(tareas[r]) /\ EsTareas(tareas) /\ EsDetalle(tareas[r].afectados) /\ EsBolsa(transacciones)
  BY <1>1 DEF RespaldoInv, PInv, PFormas, Bolsas, EsTareas
<1>3. PICK s : s = tareas[r].afectados
  OBVIOUS
<1>4. \A a : Abierto(tareas[r], a) = MontoDe(s, a) /\ MontoDe(s, a) \in Nat
  BY <1>1, <1>2, <1>3, MontoNatural DEF Abierto
<1>5. ASSUME NEW a \in DOMAIN asientos' \ huella'.cortados, huella.cortados \subseteq huella'.cortados,
             Fondo(a)' = Fondo(a)
      PROVE  Respaldado(a)'
  <2>1. a \in DOMAIN asientos \ huella.cortados /\ ~ Reinicia /\ Faltan(a) = 0 /\ Faltan(a)' = 0
    BY <1>1, <1>5 DEF Reinicia, Faltan, Corre
  <2>2. asientos'[a].pagado + asientos'[a].liquidado = asientos[a].pagado + asientos[a].liquidado + 0
    BY <1>1, <2>1, Sumandos
  <2>3. Fondo(a)' = Fondo(a) + 0
    BY <1>5, Sumandos
  <2>4. QED
    BY <1>5, <2>1, <2>2, <2>3, Crece
<1>6. CASE ~ tareas[r].fallo /\ tareas[r].afectados # <<>>
  <2>1. PICK t : t = [detalle |-> s, externa |-> FALSE, recibo |-> r, pago |-> Nulo]
    OBVIOUS
  <2>2. PICK u : u = [tareas[r] EXCEPT !.paso = "recibo"]
    OBVIOUS
  <2>3. /\ transacciones' = transacciones (+) SetToBag({t}) /\ Tarea(r, u)
        /\ huella' = huella
    BY <1>3, <1>6, <2>1, <2>2 DEF CerrarTarea
  <2>4. t.detalle = s /\ u.paso = "recibo" /\ u.afectados = s
    BY <1>2, <1>3, <2>1, <2>2, TareaEnPaso
  <2>5. /\ EsBolsa(transacciones')
        /\ \A a : RespaldoDe(transacciones', a) = RespaldoDe(transacciones, a) + MontoDe(s, a)
    <3>1. PICK C : C = SetToBag({t})
      OBVIOUS
    <3>2. EsBolsa(C) /\ \A a : RespaldoDe(C, a) = MontoDe(s, a)
      BY <1>2, <1>3, <2>4, <3>1, RespaldoDeUna
    <3>3. /\ EsBolsa(transacciones (+) C)
          /\ \A a : RespaldoDe(transacciones (+) C, a) = RespaldoDe(transacciones, a) + RespaldoDe(C, a)
      BY <1>2, <3>2, RespaldoUnido
    <3>4. QED
      BY <2>3, <3>1, <3>2, <3>3
  <2>6. EsTareas(tareas') /\ \A a : EnTareas(tareas', a) + Abierto(tareas[r], a) = EnTareas(tareas, a) + Abierto(u, a)
    <3>1. PICK T2 : T2 = tareas'
      OBVIOUS
    <3>2. T2 = [x \in DOMAIN tareas |-> IF x = r THEN u ELSE tareas[x]]
      BY <1>1, <2>3, <3>1 DEF Tarea, Insertado
    <3>3. EsDetalle(u.afectados)
      BY <1>2, <1>3, <2>4
    <3>4. EsTareas(T2) /\ \A a : EnTareas(T2, a) + Abierto(tareas[r], a) = EnTareas(tareas, a) + Abierto(u, a)
      BY <1>1, <1>2, <3>2, <3>3, TareaLuego
    <3>5. QED
      BY <3>1, <3>4
  <2>7. ASSUME NEW a PROVE Fondo(a)' = Fondo(a)
    <3>1. PICK x \in Nat, y \in Nat, z \in Nat, w \in Nat, m \in Nat :
            /\ x = RespaldoDe(transacciones, a) /\ y = RespaldoDe(script.tx, a) /\ z = EnTareas(tareas, a)
            /\ w = EnTareas(tareas', a) /\ m = MontoDe(s, a)
      BY <1>4, <2>6, Sumandos, EnTareasNatural
    <3>2. Abierto(u, a) = 0
      BY <2>4 DEF Abierto
    <3>3. w + m = z + 0
      BY <1>4, <2>6, <3>1, <3>2
    <3>4. Fondo(a)' = (x + m) + y + w
      BY <1>1, <2>5, <3>1 DEF Fondo
    <3>5. Fondo(a) = x + y + z
      BY <3>1 DEF Fondo
    <3>6. QED
      BY <3>3, <3>4, <3>5
  <2>8. \A a \in DOMAIN asientos' \ huella'.cortados : Respaldado(a)'
    BY <1>5, <2>3, <2>7
  <2>9. QED
    BY <1>1, <2>5, <2>6, <2>8, EnlazandoRespaldoInv
<1>7. CASE tareas[r].fallo \/ tareas[r].afectados = <<>>
  <2>1. PICK R : R = Restrict(tareas, DOMAIN tareas \ {r})
    OBVIOUS
  <2>2. /\ tareas' = R /\ transacciones' = transacciones
        /\ huella'.cortados = huella.cortados \cup Marcados(tareas[r])
    BY <1>7, <2>1 DEF CerrarTarea, RespaldoInv, PInv, PFormas
  <2>3. /\ EsTareas(R)
        /\ \A a : EnTareas(tareas, a) = EnTareas(R, a) + Abierto(tareas[r], a)
    <3>1. EsTareas(R) /\ DOMAIN R = DOMAIN tareas \ {r} /\ \A q \in DOMAIN R : R[q] = tareas[q]
      BY <1>2, <2>1, TareasSinUna
    <3>2. QED
      BY <1>1, <1>2, <3>1, TareaAparte
  <2>4. ASSUME NEW a \in DOMAIN asientos' \ huella'.cortados PROVE Fondo(a)' = Fondo(a)
    <3>1. \A i \in DOMAIN s : s[i].a # a
      BY <1>3, <2>2, <2>4 DEF Marcados
    <3>2. Abierto(tareas[r], a) = 0
      BY <1>4, <3>1, MontoAjeno
    <3>3. EnTareas(R, a) \in Nat
      BY <2>3, EnTareasNatural
    <3>4. EnTareas(tareas, a) = EnTareas(R, a)
      BY <2>3, <3>2, <3>3
    <3>5. QED
      BY <1>1, <2>2, <3>4 DEF Fondo
  <2>5. \A a \in DOMAIN asientos' \ huella'.cortados : Respaldado(a)'
    BY <1>5, <2>2, <2>4
  <2>6. EsBolsa(transacciones') /\ EsTareas(tareas')
    BY <1>2, <2>2, <2>3
  <2>7. QED
    BY <1>1, <2>5, <2>6, EnlazandoRespaldoInv
<1>8. QED
  BY <1>6, <1>7

LEMMA GuardarReciboRespaldoInv ==
  ASSUME RespaldoInv, PInv', NEW r, GuardarRecibo(r)
  PROVE  RespaldoInv'
<1>1. /\ script.nombre = "enlazar" /\ r \in DOMAIN tareas /\ tareas[r].paso = "recibo"
      /\ UNCHANGED <<asientos, transacciones, script, huella>>
  BY DEF GuardarRecibo, EnTarea
<1>2. PICK R : R = Restrict(tareas, DOMAIN tareas \ {r})
  OBVIOUS
<1>3. tareas' = R
  BY <1>2 DEF GuardarRecibo
<1>4. EsTareas(tareas) /\ EsDetalle(tareas[r].afectados)
  BY <1>1 DEF RespaldoInv, Bolsas, EsTareas
<1>5. /\ EsTareas(R)
      /\ \A a : EnTareas(tareas, a) = EnTareas(R, a) + Abierto(tareas[r], a)
  <2>1. EsTareas(R) /\ DOMAIN R = DOMAIN tareas \ {r} /\ \A q \in DOMAIN R : R[q] = tareas[q]
    BY <1>2, <1>4, TareasSinUna
  <2>2. QED
    BY <1>1, <1>4, <2>1, TareaAparte
<1>6. ASSUME NEW a PROVE EnTareas(R, a) = EnTareas(tareas, a)
  <2>1. Abierto(tareas[r], a) = 0 /\ EnTareas(R, a) \in Nat
    BY <1>1, <1>5, EnTareasNatural DEF Abierto
  <2>2. QED
    BY <1>5, <2>1
<1>7. EsTareas(tareas') /\ \A a : EnTareas(tareas', a) = EnTareas(tareas, a)
  BY <1>3, <1>5, <1>6
<1>8. QED
  BY <1>1, <1>7, MismosAsientos, Enlazando

----------------------------------------------------------------------------
(* A death leaves cut what was in progress; the resets clear what they cut. *)
LEMMA SinMarcas ==
  ASSUME NEW T, EsTareas(T), NEW a,
         \A r \in DOMAIN T : T[r].paso # "recibo" => a \notin Marcados(T[r])
  PROVE  EnTareas(T, a) = 0
<1>1. PICK D, f : D = DOMAIN T /\ f = [r \in D |-> Abierto(T[r], a)]
  OBVIOUS
<1>2. ASSUME NEW r \in D PROVE f[r] = 0
  <2>1. CASE T[r].paso = "recibo"
    BY <1>1, <2>1 DEF Abierto
  <2>2. CASE T[r].paso # "recibo"
    <3>1. \A i \in DOMAIN T[r].afectados : T[r].afectados[i].a # a
      BY <1>1, <2>2 DEF Marcados
    <3>2. QED
      BY <1>1, <2>2, <3>1, MontoAjeno DEF Abierto
  <2>3. QED
    BY <2>1, <2>2
<1>3. SumFunctionOnSet(f, D) = 0 * Cardinality(D) /\ Cardinality(D) \in Nat
  BY <1>1, <1>2, SumaConstante, FS_CardinalityType DEF EsTareas
<1>4. QED
  BY <1>1, <1>3 DEF EnTareas

LEMMA MorirScriptRespaldoInv ==
  ASSUME RespaldoInv, PInv', MorirScript
  PROVE  RespaldoInv'
<1>1. script' = Quieto /\ DOMAIN tareas' = {} /\ UNCHANGED <<asientos, transacciones>>
  BY Vacia DEF MorirScript
<1>2. script'.nombre = "ninguno" /\ DOMAIN script'.tx = {}
  BY <1>1 DEF Quieto, EmptyBag, SetToBag
<1>3. EsTareas(tareas') /\ (\A a : EnTareas(tareas', a) = 0) /\ EsBolsa(script'.tx) /\ \A a : RespaldoDe(script'.tx, a) = 0
  BY <1>1, <1>2, SinTareas, RespaldoVacio
<1>4. Bolsas'
  BY <1>1, <1>2, <1>3 DEF RespaldoInv, Bolsas, Corre
<1>5. huella'.cortados = (huella.cortados \cup EnCurso) \cup
        IF script.nombre \in {"reset00", "resetPagos"} THEN DOMAIN asientos ELSE {}
  BY DEF MorirScript, RespaldoInv, PInv, PFormas
<1>6. ASSUME NEW a \in DOMAIN asientos' \ huella'.cortados PROVE Respaldado(a)'
  <2>1. a \in DOMAIN asientos \ huella.cortados /\ a \notin EnCurso /\ ~ Reinicia
    BY <1>1, <1>5, <1>6 DEF Reinicia
  <2>2. Respaldado(a)
    BY <2>1 DEF RespaldoInv, Respaldos
  <2>3. RespaldoDe(script.tx, a) = 0
    <3>1. \A t \in DOMAIN script.tx : DOMAIN t.detalle = {1} /\ t.detalle[1].a # a
      BY <2>1 DEF EnCurso, BagToSet, RespaldoInv, Bolsas
    <3>2. QED
      BY <3>1, RespaldoAjeno DEF RespaldoInv, Bolsas
  <2>4. EnTareas(tareas, a) = 0
    <3>1. \A r \in DOMAIN tareas : tareas[r].paso # "recibo" => a \notin Marcados(tareas[r])
      BY <2>1 DEF EnCurso
    <3>2. QED
      BY <3>1, SinMarcas DEF RespaldoInv, Bolsas
  <2>5. PICK n \in Nat, f \in Nat : n = RespaldoDe(transacciones, a) /\ f = Faltan(a)
    BY Sumandos
  <2>6. PICK x \in Int : x = asientos[a].pagado + asientos[a].liquidado
    BY <2>1, Sumandos
  <2>7. x + f <= n
    BY <2>2, <2>3, <2>4, <2>5, <2>6 DEF Respaldado, Fondo
  <2>8. Faltan(a)' = 0 /\ Fondo(a)' = n
    BY <1>1, <1>2, <1>3, <2>5 DEF Faltan, Corre, Fondo
  <2>9. x + 0 <= n
    BY <2>7
  <2>10. QED
    BY <1>1, <2>6, <2>8, <2>9 DEF Respaldado
<1>7. Respaldos'
  BY <1>2, <1>6 DEF Respaldos
<1>8. QED
  BY <1>4, <1>7 DEF RespaldoInv

LEMMA ReinicioRespaldoInv ==
  ASSUME RespaldoInv, PInv', script.nombre # "pagos", script'.nombre # "pagos", tareas' = tareas,
         EsBolsa(transacciones'), DOMAIN script'.tx = {},
         \/ script'.nombre \in {"reset00", "resetPagos"}
         \/ \A a \in DOMAIN asientos' \ huella'.cortados : EnCero(asientos'[a]),
         script'.nombre = "reset00" /\ script'.paso >= 4 => \A a \in DOMAIN asientos' : EnCero(asientos'[a])
  PROVE  RespaldoInv'
<1>1. EsBolsa(script'.tx) /\ EsTareas(tareas')
  BY RespaldoVacio DEF RespaldoInv, Bolsas
<1>2. ~ Corre("pagos", 2)'
  BY DEF Corre
<1>3. Bolsas'
  BY <1>1, <1>2 DEF Bolsas
<1>4. ASSUME NEW a \in DOMAIN asientos' \ huella'.cortados, EnCero(asientos'[a]) PROVE Respaldado(a)'
  <2>1. Faltan(a)' = 0
    BY <1>2 DEF Faltan
  <2>2. RespaldoDe(transacciones', a) \in Nat /\ RespaldoDe(script'.tx, a) \in Nat /\ EnTareas(tareas', a) \in Nat
    BY <1>1, RespaldoNatural, EnTareasNatural
  <2>3. Fondo(a)' \in Nat
    BY <2>2 DEF Fondo
  <2>4. QED
    BY <1>4, <2>1, <2>3 DEF EnCero, Respaldado
<1>5. Respaldos'
  BY <1>4 DEF Respaldos, Reinicia, EnCero
<1>6. QED
  BY <1>3, <1>5 DEF RespaldoInv

LEMMA GuionReinicia ==
  ASSUME RespaldoInv, script.nombre \in {"reset00", "reset08", "resetPagos"}, Avanzar \/ Fin
  PROVE  /\ DOMAIN script'.tx = {} /\ script'.nombre # "pagos"
         /\ Avanzar => script'.nombre = script.nombre /\ script'.paso = script.paso + 1
         /\ Fin => script'.nombre = "ninguno"
<1>1. DOMAIN script.tx = {}
  BY DEF RespaldoInv, Bolsas, Corre
<1>2. CASE Avanzar
  <2>1. script' = [script EXCEPT !.paso = @ + 1, !.pend = {}]
    BY <1>2 DEF Avanzar
  <2>2. script'.nombre = script.nombre /\ script'.paso = script.paso + 1 /\ script'.tx = script.tx
    BY <2>1 DEF RespaldoInv, PInv, PFormas
  <2>3. ~ Fin
    BY <2>2 DEF Fin, Quieto
  <2>4. QED
    BY <1>1, <2>2, <2>3
<1>3. CASE Fin
  <2>1. script' = Quieto /\ DOMAIN Quieto.tx = {} /\ Quieto.nombre = "ninguno"
    BY <1>3 DEF Fin, Quieto, EmptyBag, SetToBag
  <2>2. ~ Avanzar
    <3>1. Avanzar => script'.nombre = script.nombre
      BY DEF Avanzar, RespaldoInv, PInv, PFormas
    <3>2. QED
      BY <2>1, <3>1
  <2>3. QED
    BY <2>1, <2>2
<1>4. QED
  BY <1>2, <1>3

LEMMA SinPagosEnCero ==
  ASSUME NEW d, EsAsiento(d)
  PROVE  /\ EnCero(SinPagos(d))
         /\ EnCero([SinPagos(d) EXCEPT !.estado = "PENDIENTE"])
         /\ EnCero(d) => EnCero([d EXCEPT !.estado = "PENDIENTE", !.recibo = Nulo])
<1>1. PICK s : s = SinPagos(d)
  OBVIOUS
<1>2. s.pagado = 0 /\ s.liquidado = 0 /\ s = [x \in CamposAsiento |-> s[x]]
  BY <1>1 DEF SinPagos, EsAsiento, CamposAsiento
<1>3. EnCero(s) /\ EnCero([s EXCEPT !.estado = "PENDIENTE"])
  BY <1>2 DEF EnCero, CamposAsiento
<1>4. EnCero(d) => EnCero([d EXCEPT !.estado = "PENDIENTE", !.recibo = Nulo])
  BY DEF EnCero, EsAsiento, CamposAsiento
<1>5. QED
  BY <1>1, <1>3, <1>4

LEMMA Reset00RespaldoInv ==
  ASSUME RespaldoInv, PInv', Reset00
  PROVE  RespaldoInv'
<1>1. script.nombre = "reset00" /\ script.paso \in 1 .. 5 /\ tareas' = tareas
  BY DEF Reset00, RespaldoInv, PInv, Turno
<1>2. EsBolsa(transacciones')
  <2>1. EsBolsa(EmptyBag)
    BY RespaldoVacio DEF EmptyBag, SetToBag
  <2>2. QED
    BY <2>1 DEF Reset00, RespaldoInv, Bolsas
<1>3. (script.paso < 5 => Avanzar) /\ (script.paso = 5 => Fin)
  <2>1. (script.paso < 5 => Avanzar) /\ (~ (script.paso < 5) => Fin)
    BY Zenon DEF Reset00
  <2>2. QED
    BY <1>1, <2>1
<1>4. /\ DOMAIN script'.tx = {} /\ script'.nombre # "pagos"
      /\ Avanzar => script'.nombre = script.nombre /\ script'.paso = script.paso + 1
      /\ Fin => script'.nombre = "ninguno"
  BY <1>1, <1>3, GuionReinicia
<1>5. ASSUME script.paso >= 3, NEW a \in DOMAIN asientos' PROVE EnCero(asientos'[a])
  <2>1. a \in DOMAIN asientos
    BY DEF Reset00
  <2>2. EsAsiento(asientos[a])
    BY <2>1 DEF RespaldoInv, PInv, PFormas
  <2>3. CASE script.paso = 3
    <3>1. asientos'[a] = SinPagos(asientos[a])
      BY <2>1, <2>3 DEF Reset00
    <3>2. QED
      BY <2>2, <3>1, SinPagosEnCero
  <2>4. CASE script.paso \in {4, 5}
    <3>1. EnCero(asientos[a])
      BY <1>1, <2>1, <2>4 DEF RespaldoInv, Respaldos
    <3>2. asientos'[a] = asientos[a] \/ asientos'[a] = [asientos[a] EXCEPT !.estado = "PENDIENTE", !.recibo = Nulo]
      <4>1. CASE script.paso = 4
        <5>1. asientos' = [b \in DOMAIN asientos |->
                       IF ConPagosEnEstado(asientos[b])
                       THEN [asientos[b] EXCEPT !.estado = "PENDIENTE", !.recibo = Nulo] ELSE asientos[b]]
          <6>1. script.paso # 3
            BY <4>1
          <6>2. QED
            BY <4>1, <6>1, Zenon DEF Reset00
        <5>2. QED
          BY <2>1, <5>1
      <4>2. CASE script.paso = 5
        BY <4>2 DEF Reset00
      <4>3. QED
        BY <2>4, <4>1, <4>2
    <3>3. QED
      BY <2>2, <3>1, <3>2, SinPagosEnCero
  <2>5. QED
    BY <1>1, <1>5, <2>3, <2>4
<1>6. \/ script'.nombre \in {"reset00", "resetPagos"}
      \/ \A a \in DOMAIN asientos' \ huella'.cortados : EnCero(asientos'[a])
  BY <1>1, <1>3, <1>4, <1>5
<1>7. script'.nombre = "reset00" /\ script'.paso >= 4 => \A a \in DOMAIN asientos' : EnCero(asientos'[a])
  <2>1. CASE script.paso < 5
    <3>1. script'.paso = script.paso + 1
      BY <1>3, <1>4, <2>1
    <3>2. QED
      BY <1>1, <1>5, <3>1
  <2>2. CASE script.paso = 5
    BY <1>3, <1>4, <2>2
  <2>3. QED
    BY <1>1, <2>1, <2>2
<1>8. QED
  BY <1>1, <1>2, <1>4, <1>6, <1>7, ReinicioRespaldoInv

LEMMA Reset08RespaldoInv ==
  ASSUME RespaldoInv, PInv', Reset08
  PROVE  RespaldoInv'
<1>0. script.nombre = "reset08" /\ tareas' = tareas
  BY DEF Reset08
<1>1. script.nombre = "reset08" /\ script.paso \in 1 .. 4 /\ tareas' = tareas
  BY <1>0 DEF RespaldoInv, PInv, Turno
<1>2. EsBolsa(transacciones')
  <2>1. PICK B : B = [t \in {u \in BagToSet(transacciones) : ~ u.externa} |-> transacciones[t]]
    OBVIOUS
  <2>2. EsBolsa(transacciones)
    BY DEF RespaldoInv, Bolsas
  <2>3. EsBolsa(B)
    BY <2>1, <2>2, FS_Subset DEF EsBolsa, BagToSet
  <2>4. QED
    BY <2>1, <2>2, <2>3 DEF Reset08
<1>3. Avanzar \/ Fin
  BY DEF Reset08
<1>4. /\ DOMAIN script'.tx = {} /\ script'.nombre # "pagos"
      /\ Avanzar => script'.nombre = script.nombre
      /\ Fin => script'.nombre = "ninguno"
  BY <1>1, <1>3, GuionReinicia
<1>5. DOMAIN asientos' = DOMAIN asientos
  BY DEF Reset08
<1>6. DOMAIN asientos \subseteq huella'.cortados
  BY DEF Reset08, RespaldoInv, PInv, PFormas
<1>7. script'.nombre # "reset00"
  BY <1>1, <1>3, <1>4
<1>8. QED
  BY <1>1, <1>2, <1>4, <1>5, <1>6, <1>7, ReinicioRespaldoInv

LEMMA ResetPagosRespaldoInv ==
  ASSUME RespaldoInv, PInv', ResetPagos
  PROVE  RespaldoInv'
<1>1. script.nombre = "resetPagos" /\ script.paso \in 1 .. 4 /\ tareas' = tareas
  BY DEF ResetPagos, RespaldoInv, PInv, Turno
<1>2. EsBolsa(transacciones')
  <2>1. EsBolsa(EmptyBag)
    BY RespaldoVacio DEF EmptyBag, SetToBag
  <2>2. QED
    BY <2>1 DEF ResetPagos, RespaldoInv, Bolsas
<1>3. (script.paso < 4 => Avanzar) /\ (script.paso = 4 => Fin)
  <2>1. (script.paso < 4 => Avanzar) /\ (~ (script.paso < 4) => Fin)
    BY Zenon DEF ResetPagos
  <2>2. QED
    BY <1>1, <2>1
<1>4. /\ DOMAIN script'.tx = {} /\ script'.nombre # "pagos"
      /\ Avanzar => script'.nombre = script.nombre
      /\ Fin => script'.nombre = "ninguno"
  BY <1>1, <1>3, GuionReinicia
<1>5. ASSUME script.paso = 4, NEW a \in DOMAIN asientos' PROVE EnCero(asientos'[a])
  <2>1. asientos' = [b \in DOMAIN asientos |-> [SinPagos(asientos[b]) EXCEPT !.estado = "PENDIENTE"]]
    BY <1>5 DEF ResetPagos
  <2>2. EsAsiento(asientos[a])
    BY <2>1 DEF RespaldoInv, PInv, PFormas
  <2>3. QED
    BY <2>1, <2>2, SinPagosEnCero
<1>6. script'.nombre # "reset00"
  BY <1>1, <1>3, <1>4
<1>7. \/ script'.nombre \in {"reset00", "resetPagos"}
      \/ \A a \in DOMAIN asientos' \ huella'.cortados : EnCero(asientos'[a])
  BY <1>1, <1>3, <1>4, <1>5
<1>8. QED
  BY <1>1, <1>2, <1>4, <1>6, <1>7, ReinicioRespaldoInv

----------------------------------------------------------------------------
(* 05 reads the payments: by operation and by transaction, the same sum.    *)
LEMMA SumaDeUna ==
  ASSUME NEW f, NEW x, f[x] \in Int
  PROVE  SumFunctionOnSet(f, {x}) = f[x]
<1>1. IsFiniteSet({}) /\ Enteros(f, {}) /\ x \notin {} /\ {} \cup {x} = {x}
  BY FS_EmptySet DEF Enteros
<1>2. SumFunctionOnSet(f, {} \cup {x}) = f[x] + SumFunctionOnSet(f, {})
  BY <1>1, SumaMas
<1>3. QED
  BY <1>1, <1>2, SumaVacia

LEMMA ImagenFinita ==
  ASSUME NEW S, IsFiniteSet(S), NEW F, DOMAIN F = S, NEW T, \A t : t \in T <=> \E x \in S : t = F[x]
  PROVE  IsFiniteSet(T)
<1>1. PICK G : G = [x \in S |-> F[x]]
  OBVIOUS
<1>2. G \in Surjection(S, T)
  BY <1>1 DEF Surjection
<1>3. QED
  BY <1>2, FS_Surjection

AportePago(x, a) == IF Destino(x)[1] = a THEN LPagos[x].monto ELSE 0
Operacion(x) == [k |-> Clave(x), monto |-> Consolidado(Clave(x))]
Operaciones == {Operacion(x) : x \in PagosResueltos}
Externas == {TransaccionDe(x) : x \in PagosResueltos}
Aportado(a) == SumFunctionOnSet([x \in PagosResueltos |-> AportePago(x, a)], PagosResueltos)

LEMMA PagosFinitos ==
  /\ IsFiniteSet(PagosResueltos) /\ \A x \in PagosResueltos : LPagos[x].monto \in Nat
  /\ \A x \in PagosResueltos : \A a : AportePago(x, a) \in Nat
<1>1. PagosResueltos \subseteq DOMAIN LPagos
  BY DEF PagosResueltos
<1>2. IsFiniteSet(PagosResueltos) /\ \A x \in PagosResueltos : LPagos[x].monto \in Nat
  BY <1>1, PagosAssumption, FS_Subset
<1>3. QED
  BY <1>2 DEF AportePago

(* A sum over payments read by a part of what they carry.                   *)
LEMMA FibraDeOperacion ==
  ASSUME NEW y \in PagosResueltos
  PROVE  /\ \A x \in PagosResueltos : Operacion(x) = Operacion(y) <=> Clave(x) = Clave(y)
         /\ \A x \in PagosResueltos : Clave(x) = Clave(y) => Destino(x)[1] = Clave(y).a
         /\ Operacion(y).k = Clave(y) /\ Operacion(y).monto = Consolidado(Clave(y))
<1>1. ASSUME NEW x \in PagosResueltos PROVE Operacion(x).k = Clave(x) /\ Clave(x).a = Destino(x)[1]
  BY DEF Operacion, Clave
<1>2. \A x \in PagosResueltos : Clave(x) = Clave(y) => Operacion(x) = Operacion(y)
  BY DEF Operacion
<1>3. Operacion(y).monto = Consolidado(Clave(y))
  BY DEF Operacion
<1>4. QED
  BY <1>1, <1>2, <1>3

LEMMA CargaPorImputar ==
  ASSUME NEW a
  PROVE  PorImputar(Operaciones, a) = Aportado(a)
<1>1. PICK S, f, F, P, c :
        /\ S = PagosResueltos /\ f = [x \in S |-> AportePago(x, a)]
        /\ F = [x \in S |-> Operacion(x)] /\ P = Operaciones /\ c = [op \in P |-> Parte(op, a)]
  OBVIOUS
<1>2. IsFiniteSet(S) /\ Enteros(f, S) /\ \A x \in S : f[x] \in Nat
  BY <1>1, PagosFinitos DEF Enteros
<1>3. IsFiniteSet(P) /\ \A x \in S : F[x] \in P
  <2>1. \A t : t \in P <=> \E x \in S : t = F[x]
    BY <1>1 DEF Operaciones
  <2>2. QED
    BY <1>1, <1>2, <2>1, ImagenFinita
<1>4. ASSUME NEW op \in P PROVE c[op] = SumFunctionOnSet(f, {x \in S : F[x] = op})
  <2>1. PICK y \in S : op = Operacion(y)
    BY <1>1 DEF Operaciones
  <2>2. PICK X, k : k = Clave(y) /\ X = {x \in S : Clave(x) = k}
    OBVIOUS
  <2>3. {x \in S : F[x] = op} = X
    BY <1>1, <2>1, <2>2, FibraDeOperacion
  <2>4. /\ op.k = k /\ op.monto = Consolidado(k)
        /\ \A x \in X : x \in S /\ Destino(x)[1] = k.a
    BY <1>1, <2>1, <2>2, FibraDeOperacion
  <2>5. IsFiniteSet(X)
    BY <1>2, <2>2, FS_Subset
  <2>6. CASE k.a = a
    <3>1. PICK g : g = [x \in X |-> LPagos[x].monto]
      OBVIOUS
    <3>2. SumFunctionOnSet(g, X) = Consolidado(k)
      BY <1>1, <2>2, <3>1 DEF Consolidado, SumaSobre
    <3>3. \A x \in X : f[x] = g[x] /\ f[x] \in Int
      BY <1>1, <1>2, <2>4, <2>6, <3>1 DEF AportePago
    <3>4. SumFunctionOnSet(f, X) = SumFunctionOnSet(g, X)
      BY <2>5, <3>3, SumaIgual DEF Enteros
    <3>5. c[op] = Consolidado(k)
      BY <1>1, <2>4, <2>6 DEF Parte
    <3>6. QED
      BY <2>3, <3>2, <3>4, <3>5
  <2>7. CASE k.a # a
    <3>1. \A x \in X : f[x] = 0
      BY <1>1, <2>4, <2>7 DEF AportePago
    <3>2. SumFunctionOnSet(f, X) = 0 * Cardinality(X) /\ Cardinality(X) \in Nat
      BY <2>5, <3>1, SumaConstante, FS_CardinalityType
    <3>3. c[op] = 0
      BY <1>1, <2>4, <2>7 DEF Parte
    <3>4. QED
      BY <2>3, <3>2, <3>3
  <2>8. QED
    BY <2>6, <2>7
<1>5. SumFunctionOnSet(c, P) = SumFunctionOnSet(f, S)
  BY <1>2, <1>3, <1>4, SumaPorFibras
<1>6. QED
  BY <1>1, <1>5 DEF PorImputar, Aportado

LEMMA TransaccionPropia ==
  ASSUME NEW x \in PagosResueltos
  PROVE  /\ DOMAIN TransaccionDe(x).detalle = {1} /\ EsDetalle(TransaccionDe(x).detalle)
         /\ \A a : MontoDe(TransaccionDe(x).detalle, a) = AportePago(x, a)
         /\ TransaccionDe(x).pago = x
<1>1. PICK m \in Nat : m = LPagos[x].monto
  BY PagosFinitos
<1>2. PICK b : b = Destino(x)[1]
  OBVIOUS
<1>3. PICK s : s = <<[a |-> b, monto |-> m]>>
  OBVIOUS
<1>4. DOMAIN s = {1} /\ s[1] = [a |-> b, monto |-> m]
  BY <1>3
<1>5. EsDetalle(s) /\ \A a : MontoDe(s, a) = IF a = b THEN m ELSE 0
  BY <1>4, MontoDeUna
<1>6. TransaccionDe(x).detalle = s /\ TransaccionDe(x).pago = x
  BY <1>1, <1>2, <1>3 DEF TransaccionDe
<1>7. QED
  BY <1>1, <1>2, <1>4, <1>5, <1>6 DEF AportePago

LEMMA CargaRespaldo ==
  LET B == SetToBag(Externas)
  IN  /\ EsBolsa(B) /\ DOMAIN B = Externas /\ \A t \in DOMAIN B : DOMAIN t.detalle = {1}
      /\ \A a : RespaldoDe(B, a) = Aportado(a)
<1>1. PICK S, F, K, B :
        S = PagosResueltos /\ F = [x \in S |-> TransaccionDe(x)] /\ K = Externas /\ B = SetToBag(K)
  OBVIOUS
<1>2. IsFiniteSet(S)
  BY <1>1, PagosFinitos
<1>3. IsFiniteSet(K) /\ \A x \in S : F[x] \in K
  <2>1. \A t : t \in K <=> \E x \in S : t = F[x]
    BY <1>1 DEF Externas
  <2>2. QED
    BY <1>1, <1>2, <2>1, ImagenFinita
<1>4. DOMAIN B = K /\ \A t \in K : B[t] = 1
  BY <1>1 DEF SetToBag
<1>5. \A t \in K : \E x \in S : t = TransaccionDe(x)
  BY <1>1 DEF Externas
<1>6. EsBolsa(B) /\ \A t \in DOMAIN B : DOMAIN t.detalle = {1}
  BY <1>1, <1>3, <1>4, <1>5, TransaccionPropia DEF EsBolsa
<1>7. ASSUME NEW a PROVE RespaldoDe(B, a) = Aportado(a)
  <2>1. PICK f, c : /\ f = [x \in S |-> AportePago(x, a)]
                    /\ c = [t \in K |-> B[t] * MontoDe(t.detalle, a)]
    OBVIOUS
  <2>2. Enteros(f, S)
    BY <1>1, <2>1, PagosFinitos DEF Enteros
  <2>3. ASSUME NEW t \in K PROVE c[t] = SumFunctionOnSet(f, {x \in S : F[x] = t})
    <3>1. PICK y \in S : t = TransaccionDe(y)
      BY <1>5
    <3>2. {x \in S : F[x] = t} = {y}
      BY <1>1, <3>1, TransaccionPropia
    <3>3. PICK m \in Nat : m = AportePago(y, a)
      BY <1>1, PagosFinitos
    <3>4. MontoDe(t.detalle, a) = m
      BY <1>1, <3>1, <3>3, TransaccionPropia
    <3>5. c[t] = 1 * m
      BY <1>4, <2>1, <3>4
    <3>6. f[y] = m
      BY <2>1, <3>3
    <3>7. SumFunctionOnSet(f, {y}) = m
      BY <3>6, SumaDeUna
    <3>8. QED
      BY <3>2, <3>5, <3>7
  <2>4. SumFunctionOnSet(c, K) = SumFunctionOnSet(f, S)
    <3>1. \A t \in K : c[t] = SumFunctionOnSet(f, {x \in S : F[x] = t})
      BY <2>3
    <3>2. IsFiniteSet(S) /\ Enteros(f, S) /\ IsFiniteSet(K) /\ \A x \in S : F[x] \in K
      BY <1>2, <1>3, <2>2
    <3>3. QED
      BY <3>1, <3>2, SumaPorFibras
  <2>5. QED
    BY <1>1, <1>4, <2>1, <2>4 DEF RespaldoDe, Aportado
<1>8. QED
  BY <1>1, <1>4, <1>6, <1>7

LEMMA PagosRespaldoInv ==
  ASSUME RespaldoInv, PInv', tareas' = tareas, EsBolsa(transacciones'), EsBolsa(script'.tx),
         script'.nombre \in {"pagos", "ninguno"},
         Corre("pagos", 2)' \/ Corre("pagos", 3)' \/ DOMAIN script'.tx = {},
         \A t \in DOMAIN script'.tx : DOMAIN t.detalle = {1},
         Corre("pagos", 2)' => IsFiniteSet(script'.pend),
         \A a \in DOMAIN asientos' \ huella'.cortados : Respaldado(a)'
  PROVE  RespaldoInv'
<1>1. EsTareas(tareas')
  BY DEF RespaldoInv, Bolsas
<1>2. Bolsas'
  BY <1>1 DEF Bolsas
<1>3. Respaldos'
  BY DEF Respaldos
<1>4. QED
  BY <1>2, <1>3 DEF RespaldoInv

LEMMA CargarPagosRespaldoInv ==
  ASSUME RespaldoInv, PInv', CargarPagos
  PROVE  RespaldoInv'
<1>1. /\ script.nombre = "pagos" /\ script.paso = 1 /\ huella'.cortados = huella.cortados
      /\ UNCHANGED <<asientos, transacciones, tareas>>
  BY DEF CargarPagos, Corre, RespaldoInv, PInv, PFormas
<1>2. PICK B : B = SetToBag(Externas)
  OBVIOUS
<1>3. /\ EsBolsa(B) /\ (\A t \in DOMAIN B : DOMAIN t.detalle = {1})
      /\ \A a : RespaldoDe(B, a) = Aportado(a)
  BY <1>2, CargaRespaldo
<1>4. script' = [script EXCEPT !.paso = 2, !.pend = Operaciones, !.tx = B]
  BY <1>2 DEF CargarPagos, Operaciones, Operacion, Externas
<1>5. script'.nombre = "pagos" /\ script'.paso = 2 /\ script'.pend = Operaciones /\ script'.tx = B
  BY <1>1, <1>4 DEF RespaldoInv, PInv, PFormas
<1>6. IsFiniteSet(Operaciones)
  <2>1. PICK F : F = [x \in PagosResueltos |-> Operacion(x)]
    OBVIOUS
  <2>2. \A t : t \in Operaciones <=> \E x \in PagosResueltos : t = F[x]
    BY <2>1 DEF Operaciones
  <2>3. QED
    BY <2>1, <2>2, PagosFinitos, ImagenFinita
<1>7. ASSUME NEW a \in DOMAIN asientos' \ huella'.cortados PROVE Respaldado(a)'
  <2>1. a \in DOMAIN asientos /\ Respaldado(a)
    BY <1>1, <1>7 DEF RespaldoInv, Respaldos, Reinicia
  <2>2. Faltan(a) = 0 /\ RespaldoDe(script.tx, a) = 0
    <3>1. ~ Corre("pagos", 2) /\ ~ Corre("pagos", 3)
      BY <1>1 DEF Corre
    <3>2. DOMAIN script.tx = {}
      BY <3>1 DEF RespaldoInv, Bolsas
    <3>3. QED
      BY <3>1, <3>2, RespaldoVacio DEF Faltan
  <2>3. PICK p \in Int, q \in Nat, w \in Nat, g \in Nat :
          /\ p = asientos[a].pagado + asientos[a].liquidado
          /\ q = RespaldoDe(transacciones, a) /\ w = EnTareas(tareas, a) /\ g = Aportado(a)
    <3>1. Aportado(a) \in Nat
      BY <1>3, RespaldoNatural
    <3>2. QED
      BY <2>1, <3>1, Sumandos
  <2>4. p + 0 <= q + 0 + w
    BY <2>1, <2>2, <2>3 DEF Respaldado, Fondo
  <2>5. Faltan(a)' = g
    BY <1>5, <2>3, CargaPorImputar DEF Faltan, Corre
  <2>6. Fondo(a)' = q + g + w
    BY <1>1, <1>3, <1>5, <2>3 DEF Fondo
  <2>7. p + g <= q + g + w
    BY <2>4
  <2>8. QED
    BY <1>1, <2>3, <2>5, <2>6, <2>7 DEF Respaldado
<1>8. Corre("pagos", 2)'
  BY <1>5 DEF Corre
<1>9. EsBolsa(transacciones') /\ EsBolsa(script'.tx) /\ \A t \in DOMAIN script'.tx : DOMAIN t.detalle = {1}
  BY <1>1, <1>3, <1>5 DEF RespaldoInv, Bolsas
<1>10. QED
  BY <1>1, <1>5, <1>6, <1>7, <1>8, <1>9, PagosRespaldoInv

LEMMA ImputadoSube ==
  ASSUME NEW d, EsAsiento(d), NEW k, NEW m \in Nat
  PROVE  LET e == Imputado(d, k, m)
         IN  /\ e.pagado \in Int /\ e.liquidado \in Int
             /\ e.pagado + e.liquidado <= d.pagado + d.liquidado + m
<1>1. PICK p \in Int, l \in Int : p = d.pagado /\ l = d.liquidado
  BY DEF EsAsiento
<1>2. PICK e : e = Imputado(d, k, m)
  OBVIOUS
<1>3. e.pagado = (IF k.lado = "D" /\ d.agenteDebe = k.agente THEN p + m ELSE p)
      /\ e.liquidado = (IF k.lado = "H" /\ d.agenteHaber = k.agente THEN l + m ELSE l)
  BY <1>1, <1>2 DEF Imputado, EsAsiento, CamposAsiento
<1>4. e.pagado + e.liquidado <= p + l + m /\ e.pagado \in Int /\ e.liquidado \in Int
  BY <1>3
<1>5. QED
  BY <1>1, <1>2, <1>4

LEMMA ImputarConsolidadoRespaldoInv ==
  ASSUME RespaldoInv, PInv', NEW op, ImputarConsolidado(op)
  PROVE  RespaldoInv'
<1>1. /\ script.nombre = "pagos" /\ script.paso = 2 /\ op \in script.pend
      /\ UNCHANGED <<transacciones, tareas, huella>>
  BY DEF ImputarConsolidado, Corre
<1>2. PICK P : P = script.pend
  OBVIOUS
<1>3. IsFiniteSet(P) /\ (\A o \in P : o.monto \in Nat) /\ op \in P
  BY <1>1, <1>2 DEF RespaldoInv, PInv, Turno, Bolsas, Corre
<1>4. script'.nombre = "pagos" /\ script'.paso = 2 /\ script'.pend = P \ {op} /\ script'.tx = script.tx
  BY <1>1, <1>2 DEF ImputarConsolidado, Hecho, RespaldoInv, PInv, PFormas
<1>5. PICK m, b : m \in Nat /\ m = op.monto /\ b = op.k.a
  BY <1>3
<1>6. asientos' = [asientos EXCEPT ![b] = Imputado(@, op.k, m)]
  BY <1>5 DEF ImputarConsolidado
<1>7. ASSUME NEW a \in DOMAIN asientos' \ huella'.cortados PROVE Respaldado(a)'
  <2>1. a \in DOMAIN asientos /\ Respaldado(a)
    BY <1>1, <1>6, <1>7 DEF RespaldoInv, Respaldos, Reinicia
  <2>2. EsAsiento(asientos[a])
    BY <2>1 DEF RespaldoInv, PInv, PFormas
  <2>3. PICK v \in Nat : v = Parte(op, a) /\ v = IF a = b THEN m ELSE 0
    BY <1>5 DEF Parte
  <2>4. PICK x \in Int, y \in Int : /\ x = asientos[a].pagado + asientos[a].liquidado
                                    /\ y = asientos'[a].pagado + asientos'[a].liquidado /\ y <= x + v
    <3>1. PICK d, e : d = asientos[a] /\ e = asientos'[a]
      OBVIOUS
    <3>2. EsAsiento(d) /\ d.pagado \in Int /\ d.liquidado \in Int
      BY <2>2, <3>1 DEF EsAsiento
    <3>3. e.pagado \in Int /\ e.liquidado \in Int /\ e.pagado + e.liquidado <= d.pagado + d.liquidado + v
      <4>1. CASE a = b
        <5>1. e = Imputado(d, op.k, m)
          BY <1>6, <2>1, <3>1, <4>1
        <5>2. QED
          BY <2>3, <3>2, <4>1, <5>1, ImputadoSube
      <4>2. CASE a # b
        <5>1. e = d /\ v = 0
          BY <1>6, <2>1, <2>3, <3>1, <4>2
        <5>2. QED
          BY <3>2, <5>1
      <4>3. QED
        BY <4>1, <4>2
    <3>4. QED
      BY <3>1, <3>2, <3>3
  <2>5. PICK z \in Nat : z = PorImputar(P \ {op}, a)
    <3>1. IsFiniteSet(P \ {op})
      BY <1>3, FS_Subset
    <3>2. QED
      BY <1>3, <3>1, PorImputarNatural
  <2>6. Faltan(a) = z + v
    BY <1>1, <1>2, <1>3, <2>3, <2>5, PorImputarSinUna DEF Faltan, Corre
  <2>7. Faltan(a)' = z
    BY <1>4, <2>5 DEF Faltan, Corre
  <2>8. Fondo(a)' = Fondo(a)
    BY <1>1, <1>4 DEF Fondo
  <2>9. PICK f \in Nat : f = Fondo(a)
    BY Sumandos
  <2>10. x + (z + v) <= f
    BY <2>1, <2>4, <2>6, <2>9 DEF Respaldado
  <2>11. y + z <= f
    BY <2>4, <2>10
  <2>12. QED
    BY <2>4, <2>7, <2>8, <2>9, <2>11 DEF Respaldado
<1>8. Corre("pagos", 2)' /\ IsFiniteSet(script'.pend)
  BY <1>3, <1>4, FS_Subset DEF Corre
<1>9. EsBolsa(transacciones') /\ EsBolsa(script'.tx) /\ \A t \in DOMAIN script'.tx : DOMAIN t.detalle = {1}
  BY <1>1, <1>4 DEF RespaldoInv, Bolsas
<1>10. QED
  BY <1>1, <1>4, <1>7, <1>8, <1>9, PagosRespaldoInv

LEMMA FinalizarEstadosRespaldoInv ==
  ASSUME RespaldoInv, PInv', FinalizarEstados
  PROVE  RespaldoInv'
<1>1. /\ script.nombre = "pagos" /\ script.paso = 2
      /\ UNCHANGED <<transacciones, tareas, huella>>
  BY DEF FinalizarEstados, Corre
<1>2. script'.nombre = "pagos" /\ script'.paso = 3 /\ script'.tx = script.tx
  <2>1. script' = [script EXCEPT !.paso = @ + 1, !.pend = {}]
    BY DEF FinalizarEstados, Avanzar
  <2>2. QED
    BY <1>1, <2>1 DEF RespaldoInv, PInv, PFormas
<1>3. DOMAIN asientos' = DOMAIN asientos
  BY DEF FinalizarEstados
<1>4. ASSUME NEW a \in DOMAIN asientos
      PROVE  asientos'[a].pagado = asientos[a].pagado /\ asientos'[a].liquidado = asientos[a].liquidado
  <2>1. asientos'[a] = asientos[a] \/ asientos'[a] = [asientos[a] EXCEPT !.estado = EstadoFinal(asientos[a])]
    BY DEF FinalizarEstados
  <2>2. PICK s, e : s = EstadoFinal(asientos[a]) /\ e = [asientos[a] EXCEPT !.estado = s]
    OBVIOUS
  <2>3. e.pagado = asientos[a].pagado /\ e.liquidado = asientos[a].liquidado
    BY <2>2, CamposDe DEF RespaldoInv
  <2>4. QED
    BY <2>1, <2>2, <2>3
<1>5. ASSUME NEW a \in DOMAIN asientos' \ huella'.cortados PROVE Respaldado(a)'
  <2>1. a \in DOMAIN asientos /\ Respaldado(a)
    BY <1>1, <1>3, <1>5 DEF RespaldoInv, Respaldos, Reinicia
  <2>2. Faltan(a)' = 0
    BY <1>2 DEF Faltan, Corre
  <2>3. Fondo(a)' = Fondo(a)
    BY <1>1, <1>2 DEF Fondo
  <2>4. PICK x \in Int, z \in Nat, f \in Nat :
          x = asientos[a].pagado + asientos[a].liquidado /\ z = Faltan(a) /\ f = Fondo(a)
    BY <2>1, Sumandos
  <2>5. x + z <= f
    BY <2>1, <2>4 DEF Respaldado
  <2>6. x + 0 <= f
    BY <2>5
  <2>7. QED
    BY <1>4, <2>1, <2>2, <2>3, <2>4, <2>6 DEF Respaldado
<1>6. Corre("pagos", 3)' /\ ~ Corre("pagos", 2)'
  BY <1>2 DEF Corre
<1>7. EsBolsa(transacciones') /\ EsBolsa(script'.tx) /\ \A t \in DOMAIN script'.tx : DOMAIN t.detalle = {1}
  BY <1>1, <1>2 DEF RespaldoInv, Bolsas
<1>8. QED
  BY <1>1, <1>2, <1>5, <1>6, <1>7, PagosRespaldoInv

LEMMA InsertarTransaccionesRespaldoInv ==
  ASSUME RespaldoInv, PInv', InsertarTransacciones
  PROVE  RespaldoInv'
<1>1. /\ script.nombre = "pagos" /\ script.paso = 3 /\ script' = Quieto
      /\ transacciones' = transacciones (+) script.tx
      /\ UNCHANGED <<asientos, tareas, huella>>
  BY DEF InsertarTransacciones, Corre, Fin
<1>2. script'.nombre = "ninguno" /\ DOMAIN script'.tx = {}
  BY <1>1 DEF Quieto, EmptyBag, SetToBag
<1>3. EsBolsa(transacciones) /\ EsBolsa(script.tx)
  BY DEF RespaldoInv, Bolsas
<1>4. PICK B, C, U : B = transacciones /\ C = script.tx /\ U = B (+) C
  OBVIOUS
<1>5. EsBolsa(U) /\ \A a : RespaldoDe(U, a) = RespaldoDe(B, a) + RespaldoDe(C, a)
  BY <1>3, <1>4, RespaldoUnido
<1>6. EsBolsa(script'.tx) /\ \A a : RespaldoDe(script'.tx, a) = 0
  BY <1>2, RespaldoVacio
<1>7. ASSUME NEW a \in DOMAIN asientos' \ huella'.cortados PROVE Respaldado(a)'
  <2>1. a \in DOMAIN asientos /\ Respaldado(a)
    BY <1>1, <1>7 DEF RespaldoInv, Respaldos, Reinicia
  <2>2. Faltan(a)' = 0 /\ Faltan(a) = 0
    BY <1>1, <1>2 DEF Faltan, Corre
  <2>3. PICK p \in Nat, q \in Nat, w \in Nat :
          p = RespaldoDe(B, a) /\ q = RespaldoDe(C, a) /\ w = EnTareas(tareas, a)
    BY <1>4, Sumandos
  <2>4. Fondo(a)' = (p + q) + 0 + w /\ Fondo(a) = p + q + w
    BY <1>1, <1>4, <1>5, <1>6, <2>3 DEF Fondo
  <2>5. Fondo(a)' = Fondo(a)
    BY <2>4
  <2>6. QED
    BY <1>1, <2>1, <2>2, <2>5 DEF Respaldado
<1>8. ~ Corre("pagos", 2)' /\ EsBolsa(transacciones')
  BY <1>1, <1>2, <1>4, <1>5 DEF Corre
<1>9. QED
  BY <1>1, <1>2, <1>6, <1>7, <1>8, PagosRespaldoInv

----------------------------------------------------------------------------
LEMMA PasoRespaldo == RespaldoInv /\ [PNext]_pagos => RespaldoInv'
<1> SUFFICES ASSUME RespaldoInv, [PNext]_pagos PROVE RespaldoInv'
  OBVIOUS
<1>0. PInv'
  BY PasoP DEF RespaldoInv
<1>1. CASE UNCHANGED pagos
  <2>1. UNCHANGED <<asientos, transacciones, script, tareas, huella>>
    BY <1>1 DEF pagos
  <2>2. Bolsas'
    BY <2>1 DEF RespaldoInv, Bolsas, Corre
  <2>3. \A a : Faltan(a)' = Faltan(a) /\ Fondo(a)' = Fondo(a)
    BY <2>1 DEF Faltan, Fondo, Corre
  <2>4. Respaldos'
    BY <2>1, <2>3 DEF RespaldoInv, Respaldos, Respaldado, Reinicia, EnCero
  <2>5. QED
    BY <1>0, <2>2, <2>4 DEF RespaldoInv
<1>2. ASSUME NEW n \in Scripts, EmpezarScript(n) PROVE RespaldoInv'
  BY <1>0, <1>2, EmpezarTerminar
<1>3. ASSUME NEW c \in DOMAIN LCuentas, UpsertAdHoc(c) \/ InsertarAdHocMaestro(c) \/ Vincular(c) PROVE RespaldoInv'
  BY <1>0, <1>3, EscribirSinPagar
<1>4. ASSUME NEW r \in DOMAIN LRecibos,
             \/ MigrarRecibo(r) \/ ImpactarRecibo(r)
             \/ EmpezarTarea(r) \/ BuscarAsiento(r) \/ CrearFaltante(r) \/ ImputarLinea(r)
             \/ CerrarTarea(r) \/ GuardarRecibo(r)
      PROVE  RespaldoInv'
  BY <1>0, <1>4, EscribirSinPagar, EmpezarTareaRespaldoInv, BuscarAsientoRespaldoInv, CrearFaltanteRespaldoInv,
     ImputarLineaRespaldoInv, CerrarTareaRespaldoInv, GuardarReciboRespaldoInv
<1>5. ASSUME NEW x \in DOMAIN LPagos, ImpactarAsiento(x) PROVE RespaldoInv'
  BY <1>0, <1>5, EscribirSinPagar
<1>6. ASSUME NEW op \in script.pend, ImputarConsolidado(op) PROVE RespaldoInv'
  BY <1>0, <1>6, ImputarConsolidadoRespaldoInv
<1>7. CASE CargarPagos \/ FinalizarEstados \/ InsertarTransacciones \/ PasarAAsientos
  BY <1>0, <1>7, CargarPagosRespaldoInv, FinalizarEstadosRespaldoInv, InsertarTransaccionesRespaldoInv, EscribirSinPagar
<1>8. CASE Reset00 \/ Reset08 \/ ResetPagos
  BY <1>0, <1>8, Reset00RespaldoInv, Reset08RespaldoInv, ResetPagosRespaldoInv
<1>9. CASE TerminarScript \/ MorirScript
  BY <1>0, <1>9, EmpezarTerminar, MorirScriptRespaldoInv
<1>10. QED
  BY <1>1, <1>2, <1>3, <1>4, <1>5, <1>6, <1>7, <1>8, <1>9 DEF PNext

LEMMA RespaldoInvImplica == RespaldoInv => ImputadoRespaldado
<1> SUFFICES ASSUME RespaldoInv, NEW a \in DOMAIN asientos \ (huella.cortados \cup EnCurso),
                    script.nombre \notin {"reset00", "resetPagos"}
             PROVE  asientos[a].pagado + asientos[a].liquidado <= Respaldo(a)
  BY DEF ImputadoRespaldado
<1>1. Respaldado(a)
  BY DEF RespaldoInv, Respaldos, Reinicia
<1>2. RespaldoDe(script.tx, a) = 0
  <2>1. \A t \in DOMAIN script.tx : DOMAIN t.detalle = {1} /\ t.detalle[1].a # a
    BY DEF EnCurso, BagToSet, RespaldoInv, Bolsas
  <2>2. QED
    BY <2>1, RespaldoAjeno DEF RespaldoInv, Bolsas
<1>3. EnTareas(tareas, a) = 0
  <2>1. \A r \in DOMAIN tareas : tareas[r].paso # "recibo" => a \notin Marcados(tareas[r])
    BY DEF EnCurso
  <2>2. QED
    BY <2>1, SinMarcas DEF RespaldoInv, Bolsas
<1>4. PICK n \in Nat, f \in Nat, x \in Int :
        n = RespaldoDe(transacciones, a) /\ f = Faltan(a) /\ x = asientos[a].pagado + asientos[a].liquidado
  BY Sumandos
<1>5. x + f <= n + 0 + 0
  BY <1>1, <1>2, <1>3, <1>4 DEF Respaldado, Fondo
<1>6. x <= n
  BY <1>5
<1>7. QED
  BY <1>4, <1>6, RespaldoEs

----------------------------------------------------------------------------
(* What 05 paid on the debt side of an entry, once.                         *)
PagaLegacy(A, x, a) ==
  LET c == LPagos[x].cuenta
  IN  /\ LPagos[x].agente = A[a].agenteDebe
      /\ IF c \in CuentasAdHoc THEN c = a
         ELSE /\ LCuentas[c].tipo = "Debito" /\ a \in DOMAIN A /\ A[a].tipo = "Alquiler Mensual"
              /\ A[a].contrato = LCuentas[c].contrato /\ A[a].per = LCuentas[c].per
LegacyEn(A, a) == {x \in DOMAIN LPagos : PagaLegacy(A, x, a)}
SumaLegacy(L) == SumFunctionOnSet([x \in L |-> LPagos[x].monto], L)

(* An entry a reset 08 finds: linked, or with a legacy account of its own.  *)
ConOrigen(d) == d.debito \cup d.credito # {} \/ d.legacy_id # Nulo
Vinculable(c, d) ==
  /\ c \in DOMAIN LCuentas \ CuentasAdHoc /\ LCuentas[c].tipo = "Debito"
  /\ d.tipo = "Alquiler Mensual" /\ d.contrato = LCuentas[c].contrato /\ d.per = LCuentas[c].per
Anotado(a, d) ==
  /\ a \in DOMAIN Contractuales \cup Nuevos \cup CuentasAdHoc
  /\ a \in CuentasAdHoc => d.legacy_id # Nulo
  /\ \A c \in d.debito : Vinculable(c, d)

LadoD(a) == [a |-> a, lado |-> "D", agente |-> asientos[a].agenteDebe]
ParteDe(op, k) == IF op.k = k THEN op.monto ELSE 0
PorImputarEn(P, k) == SumFunctionOnSet([op \in P |-> ParteDe(op, k)], P)
FaltanD(a) == IF Corre("pagos", 2) THEN PorImputarEn(script.pend, LadoD(a)) ELSE 0

Anotados == \A a \in DOMAIN asientos : Anotado(a, asientos[a])
EsClave(k) == k = [x \in {"a", "lado", "agente"} |-> k[x]]
Lecturas ==
  /\ script.nombre = "vincular" => script.pend \subseteq DOMAIN LCuentas \ CuentasAdHoc
  /\ script.nombre \in {"adhoc", "adhocMaestro"} => script.pend \subseteq CuentasAdHoc
  /\ Corre("pagos", 2) =>
       \A op \in script.pend : EsClave(op.k) /\ op.k.a \in DOMAIN asientos /\ ConOrigen(asientos[op.k.a])
Veces ==
  /\ huella.pagos \in Nat
  /\ ~ huella.enlaces => script.nombre # "enlazar"
  /\ Corre("pagos", 2) \/ Corre("pagos", 3) => huella.pagos >= 1
UnaVez(a) ==
  /\ asientos[a].pagado # 0 => ConOrigen(asientos[a]) /\ huella.pagos # 0
  /\ huella.pagos <= 1 => asientos[a].pagado + FaltanD(a) <= PagoLegacy(a, "D")
Limpio08(a) ==
  /\ script.nombre = "reset08" /\ script.paso >= 3 => asientos[a].pagado = 0 \/ asientos[a].legacy_id # Nulo
  /\ Corre("reset08", 4) => asientos[a].pagado = 0
SinEnlazar == ~ huella.enlaces => \A a \in DOMAIN asientos : UnaVez(a) /\ Limpio08(a)

(* The inductive invariant of PagadoUnaVez.  An ad-hoc entry has the id and *)
(* the legacy_id of its account, and a rent is linked to the accounts of its*)
(* contract and month only (Anotados); 05 imputes on entries with an origin *)
(* (Lecturas); what an entry was paid and 05 has yet to pay it is at most what*)
(* the legacy accounts say (UnaVez); and reset 08, which reaches an entry by*)
(* its links or its legacy_id, leaves nothing paid behind (Limpio08).       *)
UnaVezInv == RespaldoInv /\ Anotados /\ Lecturas /\ Veces /\ SinEnlazar

LEMMA LegacyNatural ==
  ASSUME NEW A, NEW a
  PROVE  /\ IsFiniteSet(LegacyEn(A, a)) /\ \A x \in LegacyEn(A, a) : LPagos[x].monto \in Nat
         /\ SumaLegacy(LegacyEn(A, a)) \in Nat
<1>1. PICK S, f : S = LegacyEn(A, a) /\ f = [x \in S |-> LPagos[x].monto]
  OBVIOUS
<1>2. IsFiniteSet(S) /\ \A x \in S : f[x] \in Nat /\ LPagos[x].monto \in Nat
  BY <1>1, PagosAssumption, FS_Subset DEF LegacyEn
<1>3. SumFunctionOnSet(f, S) \in Nat
  BY <1>2, SumaNatural
<1>4. QED
  BY <1>1, <1>2, <1>3 DEF SumaLegacy

LEMMA LegacyEs ==
  ASSUME NEW a
  PROVE  /\ PagoLegacy(a, "D") = SumaLegacy(LegacyEn(asientos, a))
         /\ PagoLegacy(a, "D")' = SumaLegacy(LegacyEn(asientos', a))
<1>1. PICK S : S = {x \in DOMAIN LPagos :
               LET c == LPagos[x].cuenta
               IN  /\ LPagos[x].agente = IF "D" = "D" THEN asientos[a].agenteDebe ELSE asientos[a].agenteHaber
                   /\ IF c \in CuentasAdHoc THEN "D" = "D" /\ c = a
                      ELSE (LCuentas[c].tipo = "Debito") = ("D" = "D") /\ a \in DestinoContractual(c)}
  OBVIOUS
<1>2. S = LegacyEn(asientos, a)
  BY <1>1 DEF LegacyEn, PagaLegacy, DestinoContractual
<1>3. PICK T : T = {x \in DOMAIN LPagos :
               LET c == LPagos[x].cuenta
               IN  /\ LPagos[x].agente = IF "D" = "D" THEN asientos'[a].agenteDebe ELSE asientos'[a].agenteHaber
                   /\ IF c \in CuentasAdHoc THEN "D" = "D" /\ c = a
                      ELSE (LCuentas[c].tipo = "Debito") = ("D" = "D") /\ a \in DestinoContractual(c)'}
  OBVIOUS
<1>4. T = LegacyEn(asientos', a)
  BY <1>3 DEF LegacyEn, PagaLegacy, DestinoContractual
<1>5. PagoLegacy(a, "D") = SumaLegacy(S)
  BY <1>1 DEF PagoLegacy, SumaSobre, SumaLegacy
<1>6. PagoLegacy(a, "D")' = SumaLegacy(T)
  BY <1>3 DEF PagoLegacy, SumaSobre, SumaLegacy, CuentasAdHoc
<1>7. QED
  BY <1>2, <1>4, <1>5, <1>6

LEMMA LegacyIgual ==
  ASSUME NEW a \in DOMAIN asientos, a \in DOMAIN asientos',
         asientos'[a].agenteDebe = asientos[a].agenteDebe, asientos'[a].tipo = asientos[a].tipo,
         asientos'[a].contrato = asientos[a].contrato, asientos'[a].per = asientos[a].per
  PROVE  PagoLegacy(a, "D")' = PagoLegacy(a, "D")
<1>1. LegacyEn(asientos', a) = LegacyEn(asientos, a)
  BY DEF LegacyEn, PagaLegacy
<1>2. QED
  BY <1>1, LegacyEs

(* What 05 has yet to impute on a side.                                     *)
LEMMA PorImputarEnNatural ==
  ASSUME NEW P, IsFiniteSet(P), \A op \in P : op.monto \in Nat, NEW k
  PROVE  PorImputarEn(P, k) \in Nat
<1>1. PICK f : f = [op \in P |-> ParteDe(op, k)]
  OBVIOUS
<1>2. \A op \in P : f[op] \in Nat
  BY <1>1 DEF ParteDe
<1>3. QED
  BY <1>1, <1>2, SumaNatural DEF PorImputarEn

LEMMA PorImputarEnSinUna ==
  ASSUME NEW P, IsFiniteSet(P), \A op \in P : op.monto \in Nat, NEW x \in P, NEW k
  PROVE  PorImputarEn(P, k) = PorImputarEn(P \ {x}, k) + ParteDe(x, k)
<1>1. PICK R, f, g : R = P \ {x} /\ f = [op \in R |-> ParteDe(op, k)] /\ g = [op \in P |-> ParteDe(op, k)]
  OBVIOUS
<1>2. IsFiniteSet(R) /\ Enteros(f, R) /\ Enteros(g, R) /\ x \notin R /\ R \cup {x} = P
      /\ (\A op \in R : f[op] = g[op]) /\ g[x] = ParteDe(x, k) /\ g[x] \in Int
  BY <1>1, FS_Subset DEF Enteros, ParteDe
<1>3. SumFunctionOnSet(g, R \cup {x}) = g[x] + SumFunctionOnSet(g, R)
  BY <1>2, SumaMas
<1>4. SumFunctionOnSet(f, R) = SumFunctionOnSet(g, R) /\ SumFunctionOnSet(f, R) \in Int
  BY <1>2, SumaIgual, SumaEntera
<1>5. PorImputarEn(P, k) = SumFunctionOnSet(g, R \cup {x}) /\ PorImputarEn(R, k) = SumFunctionOnSet(f, R)
  BY <1>1, <1>2 DEF PorImputarEn
<1>6. QED
  BY <1>1, <1>2, <1>3, <1>4, <1>5

LEMMA FaltanDNatural ==
  ASSUME RespaldoInv, NEW a
  PROVE  FaltanD(a) \in Nat
BY PorImputarEnNatural DEF RespaldoInv, PInv, Turno, Bolsas, FaltanD, Corre

(* What 05 read for a side, among the payments of its accounts.             *)
LEMMA CargaEnLado ==
  ASSUME Anotados, NEW a \in DOMAIN asientos
  PROVE  PorImputarEn(Operaciones, LadoD(a)) <= PagoLegacy(a, "D")
<1>1. PICK k : k = LadoD(a)
  OBVIOUS
<1>2. PICK S, f, F, P, c :
        /\ S = PagosResueltos /\ f = [x \in S |-> IF Clave(x) = k THEN LPagos[x].monto ELSE 0]
        /\ F = [x \in S |-> Operacion(x)] /\ P = Operaciones /\ c = [op \in P |-> ParteDe(op, k)]
  OBVIOUS
<1>3. IsFiniteSet(S) /\ Enteros(f, S) /\ \A x \in S : f[x] \in Nat
  BY <1>2, PagosFinitos DEF Enteros
<1>4. IsFiniteSet(P) /\ \A x \in S : F[x] \in P
  <2>1. \A t : t \in P <=> \E x \in S : t = F[x]
    BY <1>2 DEF Operaciones
  <2>2. QED
    BY <1>2, <1>3, <2>1, ImagenFinita
<1>5. ASSUME NEW op \in P PROVE c[op] = SumFunctionOnSet(f, {x \in S : F[x] = op})
  <2>1. PICK y \in S : op = Operacion(y)
    BY <1>2 DEF Operaciones
  <2>2. PICK X, q : q = Clave(y) /\ X = {x \in S : Clave(x) = q}
    OBVIOUS
  <2>3. {x \in S : F[x] = op} = X
    BY <1>2, <2>1, <2>2, FibraDeOperacion
  <2>4. op.k = q /\ op.monto = Consolidado(q)
    BY <1>2, <2>1, <2>2, FibraDeOperacion
  <2>5. IsFiniteSet(X)
    BY <1>3, <2>2, FS_Subset
  <2>6. CASE q = k
    <3>1. PICK g : g = [x \in X |-> LPagos[x].monto]
      OBVIOUS
    <3>2. SumFunctionOnSet(g, X) = Consolidado(q)
      BY <1>2, <2>2, <3>1 DEF Consolidado, SumaSobre
    <3>3. \A x \in X : f[x] = g[x] /\ f[x] \in Int
      BY <1>2, <1>3, <2>2, <2>6, <3>1
    <3>4. SumFunctionOnSet(f, X) = SumFunctionOnSet(g, X)
      BY <2>5, <3>3, SumaIgual DEF Enteros
    <3>5. c[op] = Consolidado(q)
      BY <1>2, <2>4, <2>6 DEF ParteDe
    <3>6. QED
      BY <2>3, <3>2, <3>4, <3>5
  <2>7. CASE q # k
    <3>1. \A x \in X : f[x] = 0
      BY <1>2, <2>2, <2>7
    <3>2. SumFunctionOnSet(f, X) = 0 * Cardinality(X) /\ Cardinality(X) \in Nat
      BY <2>5, <3>1, SumaConstante, FS_CardinalityType
    <3>3. c[op] = 0
      BY <1>2, <2>4, <2>7 DEF ParteDe
    <3>4. QED
      BY <2>3, <3>2, <3>3
  <2>8. QED
    BY <2>6, <2>7
<1>6. SumFunctionOnSet(c, P) = SumFunctionOnSet(f, S)
  <2>1. \A op \in P : c[op] = SumFunctionOnSet(f, {x \in S : F[x] = op})
    BY <1>5
  <2>2. IsFiniteSet(S) /\ Enteros(f, S) /\ IsFiniteSet(P) /\ \A x \in S : F[x] \in P
    BY <1>3, <1>4
  <2>3. QED
    BY <2>1, <2>2, SumaPorFibras
<1>7. PICK L, h : L = LegacyEn(asientos, a) /\ h = [x \in L |-> LPagos[x].monto]
  OBVIOUS
<1>8. PICK T : T = {x \in S : Clave(x) = k}
  OBVIOUS
<1>9. T \in SUBSET S /\ IsFiniteSet(T) /\ (\A x \in T : f[x] = LPagos[x].monto) /\ \A x \in S \ T : f[x] = 0
  BY <1>2, <1>3, <1>8, FS_Subset
<1>10. ASSUME NEW x \in T PROVE x \in L
  <2>1. x \in PagosResueltos /\ Clave(x) = k
    BY <1>2, <1>8
  <2>2. PICK w : w = LPagos[x].cuenta
    OBVIOUS
  <2>3. PICK d : d = Destino(x)
    OBVIOUS
  <2>4. d[1] = a /\ d[2] = "D" /\ LPagos[x].agente = asientos[a].agenteDebe
    BY <1>1, <2>1, <2>3 DEF Clave, LadoD
  <2>5. d \in Resueltos(w) /\ x \in DOMAIN LPagos
    BY <2>1, <2>2, <2>3 DEF PagosResueltos, Destino
  <2>6. CASE w \in DOMAIN asientos
    <3>1. w = a
      BY <2>4, <2>5, <2>6 DEF Resueltos
    <3>2. w \in CuentasAdHoc
      BY <2>2, <2>5, <2>6, IdentidadesAssumption DEF Anotados, Anotado
    <3>3. QED
      BY <1>7, <2>2, <2>4, <2>5, <3>1, <3>2 DEF LegacyEn, PagaLegacy
  <2>7. CASE w \notin DOMAIN asientos
    <3>1. PICK b \in DOMAIN asientos : d = <<b, IF w \in asientos[b].debito THEN "D" ELSE "H">>
      BY <2>5, <2>7 DEF Resueltos
    <3>2. b = a /\ w \in asientos[a].debito
      BY <2>4, <3>1
    <3>3. Vinculable(w, asientos[a])
      BY <3>2 DEF Anotados, Anotado
    <3>4. w \notin CuentasAdHoc /\ LCuentas[w].tipo = "Debito" /\ asientos[a].tipo = "Alquiler Mensual"
          /\ asientos[a].contrato = LCuentas[w].contrato /\ asientos[a].per = LCuentas[w].per
      BY <3>3 DEF Vinculable
    <3>5. QED
      BY <1>7, <2>2, <2>4, <2>5, <3>4 DEF LegacyEn, PagaLegacy
  <2>8. QED
    BY <2>6, <2>7
<1>11. SumFunctionOnSet(f, S) = SumFunctionOnSet(h, T)
  <2>1. (\A x \in T : f[x] = h[x]) /\ Enteros(h, T)
    BY <1>3, <1>7, <1>9, <1>10 DEF Enteros
  <2>2. QED
    BY <1>3, <1>9, <2>1, SumaRestringida
<1>12. SumFunctionOnSet(h, T) <= SumFunctionOnSet(h, L)
  <2>1. IsFiniteSet(L) /\ (\A x \in L : h[x] \in Nat) /\ T \in SUBSET L
    BY <1>7, <1>10, LegacyNatural
  <2>2. QED
    BY <2>1, SumaParte
<1>13. PagoLegacy(a, "D") = SumFunctionOnSet(h, L)
  BY <1>7, LegacyEs DEF SumaLegacy
<1>14. PorImputarEn(Operaciones, LadoD(a)) = SumFunctionOnSet(c, P)
  BY <1>1, <1>2 DEF PorImputarEn
<1>15. QED
  BY <1>6, <1>11, <1>12, <1>13, <1>14

(* What a step keeps of a document.                                         *)
Mismo(d, e) ==
  /\ e.tipo = d.tipo /\ e.contrato = d.contrato /\ e.per = d.per
  /\ e.legacy_id = d.legacy_id /\ e.agenteDebe = d.agenteDebe
Papeles(d, e) == Mismo(d, e) /\ e.debito = d.debito /\ e.credito = d.credito

LEMMA Cambios ==
  ASSUME NEW d, EsAsiento(d)
  PROVE  /\ \A x : LET e == [d EXCEPT !.recibo = x] IN Papeles(d, e) /\ e.pagado = d.pagado
         /\ \A x : LET e == [d EXCEPT !.estado = x] IN Papeles(d, e) /\ e.pagado = d.pagado
         /\ \A x : LET e == [d EXCEPT !.estado = "PENDIENTE", !.recibo = x] IN Papeles(d, e) /\ e.pagado = d.pagado
         /\ \A k, m : Papeles(d, Imputado(d, k, m))
         /\ \A x, y : Papeles(d, [d EXCEPT !.pagado = x, !.liquidado = y])
         /\ Papeles(d, SinPagos(d)) /\ SinPagos(d).pagado = 0
         /\ LET e == [SinPagos(d) EXCEPT !.estado = "PENDIENTE"] IN Papeles(d, e) /\ e.pagado = 0
<1>0. d = [f \in CamposAsiento |-> d[f]]
  BY DEF EsAsiento
<1>1. ASSUME NEW x, NEW e, e = [d EXCEPT !.recibo = x] PROVE Papeles(d, e) /\ e.pagado = d.pagado
  BY <1>0, <1>1 DEF CamposAsiento, Papeles, Mismo
<1>2. ASSUME NEW x, NEW e, e = [d EXCEPT !.estado = x] PROVE Papeles(d, e) /\ e.pagado = d.pagado
  BY <1>0, <1>2 DEF CamposAsiento, Papeles, Mismo
<1>3. ASSUME NEW x, NEW e, e = [d EXCEPT !.estado = "PENDIENTE", !.recibo = x] PROVE Papeles(d, e) /\ e.pagado = d.pagado
  BY <1>0, <1>3 DEF CamposAsiento, Papeles, Mismo
<1>4. ASSUME NEW x, NEW y, NEW e, e = [d EXCEPT !.pagado = x, !.liquidado = y]
      PROVE  Papeles(d, e) /\ e.pagado = x
  BY <1>0, <1>4 DEF CamposAsiento, Papeles, Mismo
<1>5. ASSUME NEW k, NEW m PROVE Papeles(d, Imputado(d, k, m))
  <2>1. PICK x, y : /\ x = IF k.lado = "D" /\ d.agenteDebe = k.agente THEN d.pagado + m ELSE d.pagado
                    /\ y = IF k.lado = "H" /\ d.agenteHaber = k.agente THEN d.liquidado + m ELSE d.liquidado
    OBVIOUS
  <2>2. Imputado(d, k, m) = [d EXCEPT !.pagado = x, !.liquidado = y]
    BY <1>0, <2>1 DEF Imputado, CamposAsiento
  <2>3. QED
    BY <1>4, <2>2
<1>6. Papeles(d, SinPagos(d)) /\ SinPagos(d).pagado = 0
  BY <1>4 DEF SinPagos
<1>7. ASSUME NEW e, e = [SinPagos(d) EXCEPT !.estado = "PENDIENTE"] PROVE Papeles(d, e) /\ e.pagado = 0
  <2>1. PICK s : s = SinPagos(d)
    OBVIOUS
  <2>2. s = [f \in CamposAsiento |-> s[f]] /\ Papeles(d, s) /\ s.pagado = 0
    BY <1>0, <1>6, <2>1 DEF SinPagos, CamposAsiento
  <2>3. e = [s EXCEPT !.estado = "PENDIENTE"]
    BY <1>7, <2>1
  <2>4. Papeles(s, e) /\ e.pagado = s.pagado
    BY <2>2, <2>3 DEF CamposAsiento, Papeles, Mismo
  <2>5. QED
    BY <2>2, <2>4 DEF Papeles, Mismo
<1>8. QED
  BY <1>1, <1>2, <1>3, <1>4, <1>5, <1>6, <1>7

LEMMA ConDebito ==
  ASSUME NEW d, EsAsiento(d), NEW c, NEW e, e = [d EXCEPT !.debito = @ \cup {c}]
  PROVE  Mismo(d, e) /\ e.debito = d.debito \cup {c} /\ e.pagado = d.pagado /\ ConOrigen(e)
<1>1. Mismo(d, e) /\ e.debito = d.debito \cup {c} /\ e.pagado = d.pagado
  BY DEF EsAsiento, CamposAsiento, Mismo
<1>2. QED
  BY <1>1 DEF ConOrigen

LEMMA ConCredito ==
  ASSUME NEW d, EsAsiento(d), NEW c, NEW e, e = [d EXCEPT !.credito = @ \cup {c}]
  PROVE  Mismo(d, e) /\ e.debito = d.debito /\ e.pagado = d.pagado /\ ConOrigen(e)
<1>0. d = [f \in CamposAsiento |-> d[f]]
  BY DEF EsAsiento
<1>1. e.credito = d.credito \cup {c}
  BY <1>0 DEF CamposAsiento
<1>2. Mismo(d, e) /\ e.debito = d.debito /\ e.pagado = d.pagado
  BY <1>0 DEF CamposAsiento, Mismo
<1>3. QED
  BY <1>1, <1>2 DEF ConOrigen

(* An entry the step keeps, for what is said of its papers and its payments. *)
AnotadoSigue(a) ==
  \/ Anotado(a, asientos[a])'
  \/ a \in DOMAIN asientos /\ Mismo(asientos[a], asientos'[a]) /\ asientos'[a].debito \subseteq asientos[a].debito
PagadoIgual(a) ==
  /\ a \in DOMAIN asientos /\ Mismo(asientos[a], asientos'[a]) /\ asientos'[a].pagado = asientos[a].pagado
  /\ ConOrigen(asientos[a]) => ConOrigen(asientos'[a])
  /\ huella'.pagos = huella.pagos /\ ~ huella.enlaces

LEMMA UnaVezCero ==
  ASSUME NEW a, asientos'[a].pagado = 0, FaltanD(a)' = 0
  PROVE  UnaVez(a)'
BY LegacyEs, LegacyNatural DEF UnaVez

LEMMA UnaVezIgual ==
  ASSUME UnaVezInv, NEW a \in DOMAIN asientos', PagadoIgual(a), FaltanD(a)' = 0
  PROVE  UnaVez(a)'
<1>1. UnaVez(a) /\ a \in DOMAIN asientos
  BY DEF UnaVezInv, SinEnlazar, PagadoIgual
<1>2. PICK p \in Int, f \in Nat, l \in Nat : p = asientos[a].pagado /\ f = FaltanD(a) /\ l = PagoLegacy(a, "D")
  BY <1>1, LegacyEs, LegacyNatural, FaltanDNatural, Sumandos DEF UnaVezInv
<1>3. PagoLegacy(a, "D")' = l
  BY <1>1, <1>2, LegacyIgual DEF PagadoIgual, Mismo
<1>4. asientos'[a].pagado = p /\ huella'.pagos = huella.pagos
  BY <1>2 DEF PagadoIgual
<1>5. huella.pagos <= 1 => p + f <= l
  BY <1>1, <1>2 DEF UnaVez
<1>6. huella.pagos <= 1 => p + 0 <= l
  BY <1>2, <1>5
<1>7. p # 0 => ConOrigen(asientos'[a]) /\ huella.pagos # 0
  BY <1>1, <1>2 DEF UnaVez, PagadoIgual
<1>8. QED
  BY <1>3, <1>4, <1>6, <1>7 DEF UnaVez, ConOrigen

LEMMA AnotadosSiguen ==
  ASSUME Anotados, \A a \in DOMAIN asientos' : AnotadoSigue(a)
  PROVE  Anotados'
<1>1. ASSUME NEW a \in DOMAIN asientos', a \in DOMAIN asientos, Mismo(asientos[a], asientos'[a]),
             asientos'[a].debito \subseteq asientos[a].debito
      PROVE  Anotado(a, asientos'[a])
  BY <1>1 DEF Anotados, Anotado, Mismo, Vinculable
<1>2. \A a \in DOMAIN asientos' : Anotado(a, asientos[a])' <=> Anotado(a, asientos'[a])
  BY DEF Anotado, Vinculable, CuentasAdHoc
<1>3. QED
  BY <1>1, <1>2 DEF Anotados, AnotadoSigue

LEMMA UnaVezSigue ==
  ASSUME UnaVezInv, RespaldoInv', ~ Corre("pagos", 2)',
         \A a \in DOMAIN asientos' : AnotadoSigue(a),
         huella'.enlaces \/ \A a \in DOMAIN asientos' : asientos'[a].pagado = 0 \/ PagadoIgual(a),
         huella'.enlaces \/ \A a \in DOMAIN asientos' : Limpio08(a)',
         Lecturas', Veces'
  PROVE  UnaVezInv'
<1>1. Anotados'
  BY AnotadosSiguen DEF UnaVezInv
<1>2. \A a : FaltanD(a)' = 0
  BY DEF FaltanD
<1>3. SinEnlazar'
  BY <1>2, UnaVezCero, UnaVezIgual DEF SinEnlazar
<1>4. QED
  BY <1>1, <1>3 DEF UnaVezInv

LEMMA GuionIgual ==
  ASSUME UnaVezInv, ~ Corre("pagos", 2)', ~ Corre("pagos", 3)', huella'.pagos = huella.pagos, huella'.enlaces = huella.enlaces,
         script'.nombre = script.nombre,
         script'.pend \subseteq script.pend \/ script.nombre \notin {"vincular", "adhoc", "adhocMaestro"}
  PROVE  Lecturas' /\ Veces'
<1>1. Lecturas'
  BY DEF UnaVezInv, Lecturas, CuentasAdHoc
<1>2. Veces'
  BY DEF UnaVezInv, Veces
<1>3. QED
  BY <1>1, <1>2

LEMMA PapelesSiguen ==
  ASSUME NEW a \in DOMAIN asientos, Papeles(asientos[a], asientos'[a])
  PROVE  /\ AnotadoSigue(a)
         /\ asientos'[a].pagado = asientos[a].pagado /\ huella'.pagos = huella.pagos /\ ~ huella.enlaces => PagadoIgual(a)
BY DEF Papeles, Mismo, AnotadoSigue, PagadoIgual, ConOrigen

Sigue(a) == a \in DOMAIN asientos /\ Papeles(asientos[a], asientos'[a]) /\ asientos'[a].pagado = asientos[a].pagado
Nace(a) == Anotado(a, asientos[a])' /\ asientos'[a].pagado = 0

LEMMA Mismos ==
  ASSUME asientos' = asientos
  PROVE  \A a \in DOMAIN asientos' : Sigue(a)
BY DEF Sigue, Papeles, Mismo

LEMMA SigueONace ==
  ASSUME NEW a \in DOMAIN asientos', Sigue(a) \/ Nace(a)
  PROVE  /\ AnotadoSigue(a)
         /\ huella'.pagos = huella.pagos /\ ~ huella.enlaces => asientos'[a].pagado = 0 \/ PagadoIgual(a)
BY PapelesSiguen DEF Sigue, Nace, AnotadoSigue

LEMMA UnaVezEscribe ==
  ASSUME UnaVezInv, RespaldoInv', script.nombre \in {"adhoc", "adhocMaestro", "vincular", "recibos", "impacto"},
         script'.nombre = script.nombre, huella' = huella,
         script'.pend \subseteq script.pend \/ script.nombre \notin {"vincular", "adhoc", "adhocMaestro"},
         \A a \in DOMAIN asientos' : Sigue(a) \/ Nace(a) \/ (AnotadoSigue(a) /\ (~ huella.enlaces => PagadoIgual(a)))
  PROVE  UnaVezInv'
<1>1. ~ Corre("pagos", 2)' /\ ~ Corre("pagos", 3)' /\ \A a : Limpio08(a)'
  BY DEF Corre, Limpio08
<1>2. \A a \in DOMAIN asientos' : AnotadoSigue(a)
  BY SigueONace
<1>3. huella'.enlaces \/ \A a \in DOMAIN asientos' : asientos'[a].pagado = 0 \/ PagadoIgual(a)
  BY SigueONace
<1>4. Lecturas' /\ Veces'
  BY <1>1, GuionIgual
<1>5. QED
  BY <1>1, <1>2, <1>3, <1>4, UnaVezSigue

LEMMA UpsertAdHocUnaVez ==
  ASSUME UnaVezInv, RespaldoInv', NEW c \in DOMAIN LCuentas, UpsertAdHoc(c)
  PROVE  UnaVezInv'
<1>1. /\ script.nombre = "adhoc" /\ c \in script.pend /\ Hecho(c) /\ huella' = huella
  BY DEF UpsertAdHoc, Corre
<1>2. script'.nombre = script.nombre /\ script'.pend \subseteq script.pend
  BY DEF UpsertAdHoc, Hecho, UnaVezInv, RespaldoInv, PInv, PFormas
<1>3. c \in CuentasAdHoc
  BY <1>1 DEF UnaVezInv, Lecturas
<1>4. PICK e, m, g : e = AdHoc(c, m, g) /\ asientos' = Insertado(asientos, c, e)
  BY DEF UpsertAdHoc
<1>5. e.pagado = 0 /\ e.legacy_id # Nulo /\ e.debito = {}
  BY <1>4, IdentidadesAssumption DEF AdHoc
<1>6. ASSUME NEW a \in DOMAIN asientos' PROVE Sigue(a) \/ Nace(a)
  <2>1. CASE a = c
    <3>1. asientos'[a] = e
      BY <1>4, <1>6, <2>1 DEF Insertado
    <3>2. Anotado(a, e)
      BY <1>3, <1>5, <2>1 DEF Anotado
    <3>3. Anotado(a, asientos[a])' <=> Anotado(a, asientos'[a])
      BY DEF Anotado, Vinculable, CuentasAdHoc
    <3>4. QED
      BY <1>5, <3>1, <3>2, <3>3 DEF Nace
  <2>2. CASE a # c
    BY <1>4, <1>6, <2>2 DEF Insertado, Sigue, Papeles, Mismo
  <2>3. QED
    BY <2>1, <2>2
<1>7. QED
  BY <1>1, <1>2, <1>6, UnaVezEscribe

LEMMA InsertarAdHocMaestroUnaVez ==
  ASSUME UnaVezInv, RespaldoInv', NEW c \in DOMAIN LCuentas, InsertarAdHocMaestro(c)
  PROVE  UnaVezInv'
<1>1. /\ script.nombre = "adhocMaestro" /\ Hecho(c) /\ huella' = huella
  BY DEF InsertarAdHocMaestro, Corre
<1>2. script'.nombre = script.nombre /\ script'.pend \subseteq script.pend
  BY DEF InsertarAdHocMaestro, Hecho, UnaVezInv, RespaldoInv, PInv, PFormas
<1>3. PICK n, e, l, m : n \in Nuevos /\ e = AdHoc(l, m, Deudor) /\ asientos' = Insertado(asientos, n, e)
  BY DEF InsertarAdHocMaestro
<1>4. n \notin CuentasAdHoc
  BY <1>3, IdentidadesAssumption DEF CuentasAdHoc
<1>5. e.pagado = 0 /\ e.debito = {}
  BY <1>3 DEF AdHoc
<1>6. ASSUME NEW a \in DOMAIN asientos' PROVE Sigue(a) \/ Nace(a)
  <2>1. CASE a = n
    <3>1. asientos'[a] = e
      BY <1>3, <1>6, <2>1 DEF Insertado
    <3>2. Anotado(a, e)
      BY <1>3, <1>4, <1>5, <2>1 DEF Anotado
    <3>3. Anotado(a, asientos[a])' <=> Anotado(a, asientos'[a])
      BY DEF Anotado, Vinculable, CuentasAdHoc
    <3>4. QED
      BY <1>5, <3>1, <3>2, <3>3 DEF Nace
  <2>2. CASE a # n
    BY <1>3, <1>6, <2>2 DEF Insertado, Sigue, Papeles, Mismo
  <2>3. QED
    BY <2>1, <2>2
<1>7. QED
  BY <1>1, <1>2, <1>6, UnaVezEscribe

LEMMA VincularUnaVez ==
  ASSUME UnaVezInv, RespaldoInv', NEW c \in DOMAIN LCuentas, Vincular(c)
  PROVE  UnaVezInv'
<1>1. /\ script.nombre = "vincular" /\ c \in script.pend /\ Hecho(c) /\ huella' = huella
  BY DEF Vincular, Corre
<1>2. script'.nombre = script.nombre /\ script'.pend \subseteq script.pend
  BY DEF Vincular, Hecho, UnaVezInv, RespaldoInv, PInv, PFormas
<1>3. c \in DOMAIN LCuentas \ CuentasAdHoc
  BY <1>1 DEF UnaVezInv, Lecturas
<1>4. CASE asientos' = asientos
  BY <1>1, <1>2, <1>4, Mismos, UnaVezEscribe
<1>5. ASSUME NEW b \in DestinoContractual(c),
             asientos' = IF LCuentas[c].tipo = "Debito"
                         THEN [asientos EXCEPT ![b].debito = @ \cup {c}]
                         ELSE [asientos EXCEPT ![b].credito = @ \cup {c}]
      PROVE  UnaVezInv'
  <2>1. PICK d, e : d = asientos[b] /\ e = asientos'[b]
    OBVIOUS
  <2>2. /\ b \in DOMAIN asientos /\ d.tipo = "Alquiler Mensual" /\ d.contrato = LCuentas[c].contrato
        /\ d.per = LCuentas[c].per
    BY <2>1 DEF DestinoContractual
  <2>3. EsAsiento(d) /\ Anotado(b, d)
    BY <2>1, <2>2 DEF UnaVezInv, RespaldoInv, PInv, PFormas, Anotados
  <2>4. /\ Mismo(d, e) /\ e.pagado = d.pagado /\ ConOrigen(e)
        /\ e.debito = IF LCuentas[c].tipo = "Debito" THEN d.debito \cup {c} ELSE d.debito
    <3>1. CASE LCuentas[c].tipo = "Debito"
      <4>1. e = [d EXCEPT !.debito = @ \cup {c}]
        BY <1>5, <2>1, <2>2, <3>1
      <4>2. Mismo(d, e) /\ e.debito = d.debito \cup {c} /\ e.pagado = d.pagado /\ ConOrigen(e)
        BY <2>3, <4>1, ConDebito
      <4>3. QED
        BY <3>1, <4>2
    <3>2. CASE LCuentas[c].tipo # "Debito"
      <4>1. e = [d EXCEPT !.credito = @ \cup {c}]
        BY <1>5, <2>1, <2>2, <3>2
      <4>2. QED
        BY <2>3, <3>2, <4>1, ConCredito
    <3>3. QED
      BY <3>1, <3>2
  <2>5. Anotado(b, e)
    BY <1>3, <2>2, <2>3, <2>4 DEF Anotado, Mismo, Vinculable
  <2>6. Anotado(b, asientos[b])' <=> Anotado(b, asientos'[b])
    BY DEF Anotado, Vinculable, CuentasAdHoc
  <2>7. AnotadoSigue(b) /\ (~ huella.enlaces => PagadoIgual(b))
    BY <1>1, <2>1, <2>2, <2>4, <2>5, <2>6 DEF AnotadoSigue, PagadoIgual
  <2>8. \A a \in DOMAIN asientos' : a # b => Sigue(a)
    BY <1>5 DEF Sigue, Papeles, Mismo
  <2>9. QED
    BY <1>1, <1>2, <2>7, <2>8, UnaVezEscribe
<1>6. QED
  BY <1>4, <1>5 DEF Vincular

LEMMA RecibosUnaVez ==
  ASSUME UnaVezInv, RespaldoInv', NEW r, MigrarRecibo(r) \/ ImpactarRecibo(r) \/ PasarAAsientos
  PROVE  UnaVezInv'
<1>1. script.nombre \in {"recibos", "impacto"} /\ huella' = huella /\ asientos' = asientos
  BY DEF MigrarRecibo, ImpactarRecibo, PasarAAsientos, Corre
<1>2. script'.nombre = script.nombre
  BY DEF MigrarRecibo, ImpactarRecibo, PasarAAsientos, Hecho, UnaVezInv, RespaldoInv, PInv, PFormas
<1>3. QED
  BY <1>1, <1>2, Mismos, UnaVezEscribe

LEMMA ImpactarAsientoUnaVez ==
  ASSUME UnaVezInv, RespaldoInv', NEW x, ImpactarAsiento(x)
  PROVE  UnaVezInv'
<1>1. script.nombre = "impacto" /\ huella' = huella
  BY DEF ImpactarAsiento, Corre
<1>2. script'.nombre = script.nombre
  BY DEF ImpactarAsiento, Hecho, UnaVezInv, RespaldoInv, PInv, PFormas
<1>3. PICK b, y : asientos' = [asientos EXCEPT ![b].recibo = y]
  BY DEF ImpactarAsiento
<1>4. ASSUME NEW a \in DOMAIN asientos' PROVE Sigue(a)
  <2>1. a \in DOMAIN asientos
    BY <1>3, <1>4
  <2>2. CASE a = b
    <3>1. asientos'[a] = [asientos[a] EXCEPT !.recibo = y]
      BY <1>3, <2>1, <2>2
    <3>2. EsAsiento(asientos[a])
      BY <2>1 DEF UnaVezInv, RespaldoInv, PInv, PFormas
    <3>3. PICK d, e : d = asientos[a] /\ e = [d EXCEPT !.recibo = y]
      OBVIOUS
    <3>4. Papeles(d, e) /\ e.pagado = d.pagado
      BY <3>2, <3>3, Cambios
    <3>5. QED
      BY <2>1, <3>1, <3>3, <3>4 DEF Sigue
  <2>3. CASE a # b
    BY <1>3, <2>1, <2>3 DEF Sigue, Papeles, Mismo
  <2>4. QED
    BY <2>2, <2>3
<1>5. QED
  BY <1>1, <1>2, <1>4, UnaVezEscribe

----------------------------------------------------------------------------
(* Starting, ending and dying.                                              *)
LEMMA GuionQuieto ==
  ASSUME UnaVezInv, script' = Quieto, huella'.pagos \in Nat
  PROVE  /\ Lecturas' /\ Veces' /\ ~ Corre("pagos", 2)' /\ \A a : Limpio08(a)'
<1>1. script'.nombre = "ninguno"
  BY DEF Quieto
<1>2. QED
  BY <1>1 DEF Lecturas, Veces, Corre, Limpio08

LEMMA QuietoUnaVez ==
  ASSUME UnaVezInv, RespaldoInv', script' = Quieto, huella'.pagos = huella.pagos, huella'.enlaces = huella.enlaces,
         \A a \in DOMAIN asientos' : Sigue(a)
  PROVE  UnaVezInv'
<1>1. huella'.pagos \in Nat
  BY DEF UnaVezInv, Veces
<1>2. /\ Lecturas' /\ Veces' /\ ~ Corre("pagos", 2)' /\ \A a : Limpio08(a)'
  BY <1>1, GuionQuieto
<1>3. /\ \A a \in DOMAIN asientos' : AnotadoSigue(a)
      /\ huella'.enlaces \/ \A a \in DOMAIN asientos' : asientos'[a].pagado = 0 \/ PagadoIgual(a)
  BY SigueONace
<1>4. QED
  BY <1>2, <1>3, UnaVezSigue

LEMMA TerminarUnaVez ==
  ASSUME UnaVezInv, RespaldoInv', TerminarScript \/ MorirScript \/ InsertarTransacciones
  PROVE  UnaVezInv'
<1>1. script' = Quieto /\ asientos' = asientos
  BY DEF TerminarScript, MorirScript, InsertarTransacciones, Fin
<1>2. huella'.pagos = huella.pagos /\ huella'.enlaces = huella.enlaces
  BY DEF TerminarScript, MorirScript, InsertarTransacciones, UnaVezInv, RespaldoInv, PInv, PFormas
<1>3. QED
  BY <1>1, <1>2, Mismos, QuietoUnaVez

LEMMA EmpezarScriptUnaVez ==
  ASSUME UnaVezInv, RespaldoInv', NEW n, EmpezarScript(n)
  PROVE  UnaVezInv'
<1>1. script.nombre = "ninguno" /\ asientos' = asientos
  BY DEF EmpezarScript
<1>2. PICK q : script' = [Quieto EXCEPT !.nombre = n, !.pend = Lectura(n), !.quirurgico = q]
  BY DEF EmpezarScript
<1>3. script'.nombre = n /\ script'.paso = 1 /\ script'.pend = Lectura(n)
  BY <1>2 DEF Quieto
<1>4. huella'.pagos = huella.pagos /\ huella'.enlaces = (huella.enlaces \/ n = "enlazar")
  BY DEF EmpezarScript, UnaVezInv, RespaldoInv, PInv, PFormas
<1>5. ~ Corre("pagos", 2)' /\ ~ Corre("pagos", 3)' /\ \A a : Limpio08(a)'
  BY <1>3 DEF Corre, Limpio08
<1>6. Veces'
  BY <1>3, <1>4, <1>5 DEF UnaVezInv, Veces
<1>7. /\ n = "vincular" => Lectura(n) = DOMAIN LCuentas \ CuentasAdHoc
      /\ n \in {"adhoc", "adhocMaestro"} => Lectura(n) = CuentasAdHoc
  BY DEF Lectura
<1>8. Lecturas'
  BY <1>3, <1>5, <1>7 DEF Lecturas, CuentasAdHoc
<1>9. \A a \in DOMAIN asientos' : Sigue(a)
  BY <1>1, Mismos
<1>10. \A a \in DOMAIN asientos' : AnotadoSigue(a)
  BY <1>9, SigueONace
<1>11. huella'.enlaces \/ \A a \in DOMAIN asientos' : asientos'[a].pagado = 0 \/ PagadoIgual(a)
  BY <1>4, <1>9, SigueONace
<1>12. QED
  BY <1>5, <1>6, <1>8, <1>10, <1>11, UnaVezSigue

----------------------------------------------------------------------------
(* Once the linker ran, only what the entries stand for is of interest.     *)
LEMMA EnlazarUnaVez ==
  ASSUME UnaVezInv, RespaldoInv', script.nombre = "enlazar", script'.nombre = "enlazar",
         huella'.pagos = huella.pagos, huella'.enlaces = huella.enlaces,
         \A a \in DOMAIN asientos' : AnotadoSigue(a)
  PROVE  UnaVezInv'
<1>1. huella'.enlaces
  BY DEF UnaVezInv, Veces
<1>2. ~ Corre("pagos", 2)' /\ ~ Corre("pagos", 3)'
  BY DEF Corre
<1>3. Lecturas' /\ Veces'
  BY <1>2, GuionIgual
<1>4. QED
  BY <1>1, <1>2, <1>3, UnaVezSigue

LEMMA TareasUnaVez ==
  ASSUME UnaVezInv, RespaldoInv', NEW r, EmpezarTarea(r) \/ BuscarAsiento(r) \/ CerrarTarea(r) \/ GuardarRecibo(r)
  PROVE  UnaVezInv'
<1>1. script.nombre = "enlazar" /\ asientos' = asientos
  BY DEF EmpezarTarea, BuscarAsiento, CerrarTarea, GuardarRecibo, EnTarea
<1>2. huella'.pagos = huella.pagos /\ huella'.enlaces = huella.enlaces
  BY DEF EmpezarTarea, BuscarAsiento, CerrarTarea, GuardarRecibo, UnaVezInv, RespaldoInv, PInv, PFormas
<1>3. script'.nombre = script.nombre
  BY DEF EmpezarTarea, BuscarAsiento, CerrarTarea, GuardarRecibo, Hecho, UnaVezInv, RespaldoInv, PInv, PFormas
<1>4. QED
  BY <1>1, <1>2, <1>3, Mismos, SigueONace, EnlazarUnaVez

LEMMA CrearFaltanteUnaVez ==
  ASSUME UnaVezInv, RespaldoInv', NEW r, CrearFaltante(r)
  PROVE  UnaVezInv'
<1>1. script.nombre = "enlazar" /\ huella' = huella /\ script' = script
  BY DEF CrearFaltante, EnTarea
<1>2. PICK n, e, m, c, p : n \in Nuevos /\ e = Renta(m, c, p) /\ asientos' = Insertado(asientos, n, e)
  BY DEF CrearFaltante, Renta
<1>3. e.debito = {}
  BY <1>2 DEF Renta, AdHoc
<1>4. n \notin CuentasAdHoc
  BY <1>2, IdentidadesAssumption DEF CuentasAdHoc
<1>5. ASSUME NEW a \in DOMAIN asientos' PROVE AnotadoSigue(a)
  <2>1. CASE a = n
    <3>1. asientos'[a] = e
      BY <1>2, <1>5, <2>1 DEF Insertado
    <3>2. Anotado(a, e)
      BY <1>2, <1>3, <1>4, <2>1 DEF Anotado
    <3>3. Anotado(a, asientos[a])' <=> Anotado(a, asientos'[a])
      BY DEF Anotado, Vinculable, CuentasAdHoc
    <3>4. QED
      BY <3>1, <3>2, <3>3 DEF AnotadoSigue
  <2>2. CASE a # n
    BY <1>2, <1>5, <2>2 DEF Insertado, AnotadoSigue, Mismo
  <2>3. QED
    BY <2>1, <2>2
<1>6. QED
  BY <1>1, <1>5, EnlazarUnaVez

LEMMA ImputarLineaUnaVez ==
  ASSUME UnaVezInv, RespaldoInv', NEW r, ImputarLinea(r)
  PROVE  UnaVezInv'
<1>1. script.nombre = "enlazar" /\ huella' = huella /\ script' = script
  BY DEF ImputarLinea, EnTarea
<1>2. PICK b, x, y : asientos' = [asientos EXCEPT ![b].pagado = x, ![b].liquidado = y]
  BY DEF ImputarLinea
<1>3. ASSUME NEW a \in DOMAIN asientos' PROVE AnotadoSigue(a)
  <2>1. a \in DOMAIN asientos
    BY <1>2, <1>3
  <2>2. EsAsiento(asientos[a])
    BY <2>1 DEF UnaVezInv, RespaldoInv, PInv, PFormas
  <2>3. asientos'[a] = asientos[a] \/ asientos'[a] = [asientos[a] EXCEPT !.pagado = x, !.liquidado = y]
    BY <1>2, <2>1
  <2>4. Papeles(asientos[a], asientos'[a])
    <3>1. PICK d, e : d = asientos[a] /\ e = [d EXCEPT !.pagado = x, !.liquidado = y]
      OBVIOUS
    <3>2. Papeles(d, e) /\ Papeles(d, d)
      BY <2>2, <3>1, Cambios DEF Papeles, Mismo
    <3>3. QED
      BY <2>3, <3>1, <3>2
  <2>5. QED
    BY <2>1, <2>4, PapelesSiguen
<1>4. QED
  BY <1>1, <1>3, EnlazarUnaVez

----------------------------------------------------------------------------
(* 05: what it reads, once, is at most what the legacy accounts hold.       *)
LEMMA ImputadoEnLado ==
  ASSUME NEW d, EsAsiento(d), NEW k, EsClave(k), NEW m \in Nat, NEW a, k.a = a
  PROVE  LET e == Imputado(d, k, m)
         IN  e.pagado = d.pagado + (IF k = [a |-> a, lado |-> "D", agente |-> d.agenteDebe] THEN m ELSE 0)
<1>1. PICK p \in Int : p = d.pagado
  BY DEF EsAsiento
<1>2. PICK e : e = Imputado(d, k, m)
  OBVIOUS
<1>3. e.pagado = (IF k.lado = "D" /\ d.agenteDebe = k.agente THEN p + m ELSE p)
  BY <1>1, <1>2 DEF Imputado, EsAsiento, CamposAsiento
<1>4. k = [a |-> a, lado |-> "D", agente |-> d.agenteDebe] <=> k.lado = "D" /\ d.agenteDebe = k.agente
  BY DEF EsClave
<1>5. QED
  BY <1>1, <1>2, <1>3, <1>4

LEMMA CargarPagosUnaVez ==
  ASSUME UnaVezInv, RespaldoInv', CargarPagos
  PROVE  UnaVezInv'
<1>1. script.nombre = "pagos" /\ script.paso = 1 /\ asientos' = asientos
  BY DEF CargarPagos, Corre
<1>2. script'.nombre = "pagos" /\ script'.paso = 2 /\ script'.pend = Operaciones
  <2>1. PICK B : script' = [script EXCEPT !.paso = 2, !.pend = Operaciones, !.tx = B]
    BY DEF CargarPagos, Operaciones, Operacion
  <2>2. QED
    BY <1>1, <2>1 DEF UnaVezInv, RespaldoInv, PInv, PFormas
<1>3. huella'.pagos = huella.pagos + 1 /\ huella'.enlaces = huella.enlaces /\ huella.pagos \in Nat
  BY DEF CargarPagos, UnaVezInv, RespaldoInv, PInv, PFormas, Veces
<1>4. Anotados'
  BY <1>1, Mismos, SigueONace, AnotadosSiguen DEF UnaVezInv
<1>5. Veces'
  BY <1>1, <1>2, <1>3 DEF UnaVezInv, Veces, Corre
<1>6. ASSUME NEW x \in PagosResueltos
      PROVE  LET k == Clave(x) IN EsClave(k) /\ k.a \in DOMAIN asientos /\ ConOrigen(asientos[k.a])
  <2>1. PICK d, w, b : d = Destino(x) /\ w = LPagos[x].cuenta /\ b = d[1]
    OBVIOUS
  <2>2. EsClave(Clave(x)) /\ Clave(x).a = b
    BY <2>1 DEF Clave, EsClave
  <2>3. d \in Resueltos(w) /\ x \in DOMAIN LPagos
    BY <2>1 DEF PagosResueltos, Destino
  <2>4. CASE w \in DOMAIN asientos
    <3>1. b = w
      BY <2>1, <2>3, <2>4 DEF Resueltos
    <3>2. w \in CuentasAdHoc
      BY <2>1, <2>3, <2>4, IdentidadesAssumption DEF UnaVezInv, Anotados, Anotado
    <3>3. asientos[w].legacy_id # Nulo
      BY <2>4, <3>2 DEF UnaVezInv, Anotados, Anotado
    <3>4. QED
      BY <2>2, <2>4, <3>1, <3>3 DEF ConOrigen
  <2>5. CASE w \notin DOMAIN asientos
    <3>1. PICK z \in DOMAIN asientos : /\ w \in asientos[z].debito \cup asientos[z].credito
                                       /\ d = <<z, IF w \in asientos[z].debito THEN "D" ELSE "H">>
      BY <2>3, <2>5 DEF Resueltos
    <3>2. b = z /\ asientos[z].debito \cup asientos[z].credito # {}
      BY <2>1, <3>1
    <3>3. QED
      BY <2>2, <3>2 DEF ConOrigen
  <2>6. QED
    BY <2>4, <2>5
<1>7. ASSUME NEW op \in Operaciones
      PROVE  EsClave(op.k) /\ op.k.a \in DOMAIN asientos /\ ConOrigen(asientos[op.k.a])
  <2>1. PICK x \in PagosResueltos : op = Operacion(x)
    BY DEF Operaciones
  <2>2. op.k = Clave(x)
    BY <2>1, FibraDeOperacion
  <2>3. QED
    BY <1>6, <2>2
<1>8. Lecturas'
  BY <1>1, <1>2, <1>7 DEF Lecturas, EsClave, ConOrigen
<1>9. ASSUME ~ huella'.enlaces, NEW a \in DOMAIN asientos' PROVE UnaVez(a)' /\ Limpio08(a)'
  <2>1. Limpio08(a)'
    BY <1>2 DEF Limpio08, Corre
  <2>2. UnaVez(a) /\ a \in DOMAIN asientos
    BY <1>1, <1>3, <1>9 DEF UnaVezInv, SinEnlazar
  <2>3. asientos'[a].pagado # 0 => ConOrigen(asientos'[a]) /\ huella'.pagos # 0
    BY <1>1, <1>3, <2>2 DEF UnaVez
  <2>4. ASSUME huella'.pagos <= 1 PROVE asientos'[a].pagado + FaltanD(a)' <= PagoLegacy(a, "D")'
    <3>1. huella.pagos = 0
      BY <1>3, <2>4
    <3>2. asientos'[a].pagado = 0
      BY <1>1, <2>2, <3>1 DEF UnaVez
    <3>3. FaltanD(a)' = PorImputarEn(Operaciones, LadoD(a))
      BY <1>1, <1>2 DEF FaltanD, Corre, LadoD
    <3>4. PorImputarEn(Operaciones, LadoD(a)) <= PagoLegacy(a, "D")
      BY <2>2, CargaEnLado DEF UnaVezInv
    <3>5. PagoLegacy(a, "D")' = PagoLegacy(a, "D")
      BY <1>1, LegacyEs
    <3>6. FaltanD(a)' \in Nat
      <4>1. IsFiniteSet(script'.pend) /\ \A op \in script'.pend : op.monto \in Nat
        BY <1>2 DEF RespaldoInv, PInv, Turno, Bolsas, Corre
      <4>2. QED
        BY <1>2, <3>3, <4>1, PorImputarEnNatural
    <3>7. QED
      BY <3>2, <3>3, <3>4, <3>5, <3>6
  <2>5. QED
    BY <2>1, <2>3, <2>4 DEF UnaVez, ConOrigen
<1>10. QED
  BY <1>4, <1>5, <1>8, <1>9 DEF UnaVezInv, SinEnlazar

LEMMA ImputarConsolidadoUnaVez ==
  ASSUME UnaVezInv, RespaldoInv', NEW op, ImputarConsolidado(op)
  PROVE  UnaVezInv'
<1>1. script.nombre = "pagos" /\ script.paso = 2 /\ op \in script.pend /\ huella' = huella
  BY DEF ImputarConsolidado, Corre
<1>2. PICK P : P = script.pend
  OBVIOUS
<1>3. IsFiniteSet(P) /\ (\A o \in P : o.monto \in Nat) /\ op \in P
  BY <1>1, <1>2 DEF UnaVezInv, RespaldoInv, PInv, Turno, Bolsas, Corre
<1>4. script'.nombre = "pagos" /\ script'.paso = 2 /\ script'.pend = P \ {op}
  BY <1>1, <1>2 DEF ImputarConsolidado, Hecho, UnaVezInv, RespaldoInv, PInv, PFormas
<1>5. PICK m, b, k : m \in Nat /\ m = op.monto /\ k = op.k /\ b = op.k.a
  BY <1>3
<1>6. EsClave(k) /\ k.a = b /\ b \in DOMAIN asientos /\ ConOrigen(asientos[b]) /\ huella.pagos # 0
  BY <1>1, <1>5 DEF UnaVezInv, Lecturas, Veces, Corre
<1>7. asientos' = [asientos EXCEPT ![b] = Imputado(@, k, m)]
  BY <1>5 DEF ImputarConsolidado
<1>8. DOMAIN asientos' = DOMAIN asientos
  BY <1>7
<1>9. ASSUME NEW a \in DOMAIN asientos
      PROVE  /\ EsAsiento(asientos[a]) /\ Papeles(asientos[a], asientos'[a])
             /\ asientos'[a].pagado = asientos[a].pagado + ParteDe(op, LadoD(a))
  <2>1. PICK d, e : d = asientos[a] /\ e = asientos'[a]
    OBVIOUS
  <2>2. EsAsiento(d)
    BY <2>1 DEF UnaVezInv, RespaldoInv, PInv, PFormas
  <2>3. CASE a = b
    <3>1. e = Imputado(d, k, m)
      BY <1>7, <2>1, <2>3
    <3>2. Papeles(d, e)
      BY <2>2, <3>1, Cambios
    <3>3. e.pagado = d.pagado + (IF k = LadoD(a) THEN m ELSE 0)
      BY <1>5, <1>6, <2>1, <2>2, <2>3, <3>1, ImputadoEnLado DEF LadoD
    <3>4. ParteDe(op, LadoD(a)) = IF k = LadoD(a) THEN m ELSE 0
      BY <1>5 DEF ParteDe
    <3>5. QED
      BY <2>1, <2>2, <3>2, <3>3, <3>4
  <2>4. CASE a # b
    <3>1. e = d
      BY <1>7, <2>1, <2>4
    <3>2. k # LadoD(a)
      BY <1>6, <2>4 DEF LadoD
    <3>3. ParteDe(op, LadoD(a)) = 0
      BY <1>5, <3>2 DEF ParteDe
    <3>4. d.pagado \in Int
      BY <2>2 DEF EsAsiento
    <3>5. QED
      BY <2>1, <2>2, <3>1, <3>3, <3>4 DEF Papeles, Mismo
  <2>5. QED
    BY <2>3, <2>4
<1>10. Anotados'
  BY <1>8, <1>9, PapelesSiguen, AnotadosSiguen DEF UnaVezInv
<1>11. Veces'
  BY <1>1, <1>4 DEF UnaVezInv, Veces, Corre
<1>12. Lecturas'
  <2>1. \A o \in P : EsClave(o.k) /\ o.k.a \in DOMAIN asientos /\ ConOrigen(asientos[o.k.a])
    BY <1>1, <1>2 DEF UnaVezInv, Lecturas, Corre
  <2>2. \A a \in DOMAIN asientos : ConOrigen(asientos[a]) => ConOrigen(asientos'[a])
    BY <1>9 DEF Papeles, Mismo, ConOrigen
  <2>3. \A o \in script'.pend : EsClave(o.k) /\ o.k.a \in DOMAIN asientos' /\ ConOrigen(asientos'[o.k.a])
    BY <1>4, <1>8, <2>1, <2>2
  <2>4. QED
    BY <1>4, <2>3 DEF Lecturas, EsClave, ConOrigen
<1>13. ASSUME ~ huella'.enlaces, NEW a \in DOMAIN asientos' PROVE UnaVez(a)' /\ Limpio08(a)'
  <2>1. Limpio08(a)'
    BY <1>4 DEF Limpio08, Corre
  <2>2. UnaVez(a) /\ a \in DOMAIN asientos
    BY <1>1, <1>8, <1>13 DEF UnaVezInv, SinEnlazar
  <2>3. PICK p \in Int, v \in Nat, z \in Nat, l \in Nat :
          /\ p = asientos[a].pagado /\ v = ParteDe(op, LadoD(a)) /\ z = PorImputarEn(P \ {op}, LadoD(a))
          /\ l = PagoLegacy(a, "D")
    <3>1. IsFiniteSet(P \ {op})
      BY <1>3, FS_Subset
    <3>2. PorImputarEn(P \ {op}, LadoD(a)) \in Nat
      BY <1>3, <3>1, PorImputarEnNatural
    <3>3. ParteDe(op, LadoD(a)) \in Nat
      BY <1>3 DEF ParteDe
    <3>4. PagoLegacy(a, "D") \in Nat
      BY LegacyEs, LegacyNatural
    <3>5. asientos[a].pagado \in Int
      BY <1>9, <2>2 DEF EsAsiento
    <3>6. QED
      BY <3>2, <3>3, <3>4, <3>5
  <2>4. Papeles(asientos[a], asientos'[a]) /\ asientos'[a].pagado = p + v
    BY <1>9, <2>2, <2>3
  <2>5. FaltanD(a) = z + v
    BY <1>1, <1>2, <1>3, <2>3, PorImputarEnSinUna DEF FaltanD, Corre
  <2>6. FaltanD(a)' = z
    <3>1. LadoD(a)' = LadoD(a)
      BY <2>4 DEF LadoD, Papeles, Mismo
    <3>2. QED
      BY <1>4, <2>3, <3>1 DEF FaltanD, Corre
  <2>7. PagoLegacy(a, "D")' = l
    BY <1>8, <2>2, <2>3, <2>4, LegacyIgual DEF Papeles, Mismo
  <2>8. huella.pagos <= 1 => p + (z + v) <= l
    BY <2>2, <2>3, <2>5 DEF UnaVez
  <2>9. huella.pagos <= 1 => (p + v) + z <= l
    BY <2>8
  <2>10. asientos'[a].pagado # 0 => ConOrigen(asientos'[a])
    <3>1. CASE a = b
      BY <1>6, <2>4, <3>1 DEF Papeles, Mismo, ConOrigen
    <3>2. CASE a # b
      <4>1. asientos'[a] = asientos[a]
        BY <1>7, <2>2, <3>2
      <4>2. QED
        BY <2>2, <4>1 DEF UnaVez
    <3>3. QED
      BY <3>1, <3>2
  <2>11. UnaVez(a)'
    BY <1>1, <1>6, <2>4, <2>6, <2>7, <2>9, <2>10 DEF UnaVez, ConOrigen
  <2>12. QED
    BY <2>1, <2>11
<1>14. QED
  BY <1>10, <1>11, <1>12, <1>13 DEF UnaVezInv, SinEnlazar

LEMMA FinalizarEstadosUnaVez ==
  ASSUME UnaVezInv, RespaldoInv', FinalizarEstados
  PROVE  UnaVezInv'
<1>1. script.nombre = "pagos" /\ script.paso = 2 /\ huella' = huella /\ DOMAIN asientos' = DOMAIN asientos
  BY DEF FinalizarEstados, Corre
<1>2. script'.nombre = "pagos" /\ script'.paso = 3
  <2>1. script' = [script EXCEPT !.paso = @ + 1, !.pend = {}]
    BY DEF FinalizarEstados, Avanzar
  <2>2. QED
    BY <1>1, <2>1 DEF UnaVezInv, RespaldoInv, PInv, PFormas
<1>3. ASSUME NEW a \in DOMAIN asientos' PROVE Sigue(a)
  <2>1. PICK d, e, s : d = asientos[a] /\ e = [d EXCEPT !.estado = s] /\ s = EstadoFinal(d)
    OBVIOUS
  <2>2. EsAsiento(d)
    BY <1>1, <2>1 DEF UnaVezInv, RespaldoInv, PInv, PFormas
  <2>3. Papeles(d, e) /\ e.pagado = d.pagado /\ Papeles(d, d)
    BY <2>1, <2>2, Cambios DEF Papeles, Mismo
  <2>4. asientos'[a] \in {d, e}
    BY <1>1, <2>1 DEF FinalizarEstados
  <2>5. QED
    BY <1>1, <2>1, <2>3, <2>4 DEF Sigue
<1>4. ~ Corre("pagos", 2)' /\ \A a : Limpio08(a)'
  BY <1>2 DEF Corre, Limpio08
<1>5. Veces' /\ Lecturas'
  BY <1>1, <1>2 DEF UnaVezInv, Veces, Lecturas, Corre
<1>6. \A a \in DOMAIN asientos' : AnotadoSigue(a)
  BY <1>3, SigueONace
<1>7. huella'.enlaces \/ \A a \in DOMAIN asientos' : asientos'[a].pagado = 0 \/ PagadoIgual(a)
  BY <1>1, <1>3, SigueONace
<1>8. QED
  BY <1>4, <1>5, <1>6, <1>7, UnaVezSigue

----------------------------------------------------------------------------
(* The resets: the script goes on, or ends with the count of runs at zero.  *)
Puesto(a) == AnotadoSigue(a) /\ asientos'[a].pagado = 0

LEMMA ReinicioSigueUnaVez ==
  ASSUME UnaVezInv, RespaldoInv', script.nombre \in {"reset00", "reset08", "resetPagos"}, Avanzar,
         huella'.pagos = huella.pagos, huella'.enlaces = huella.enlaces,
         \A a \in DOMAIN asientos' : Sigue(a) \/ Puesto(a),
         huella'.enlaces \/ \A a \in DOMAIN asientos' : Limpio08(a)'
  PROVE  UnaVezInv'
<1>1. script'.nombre = script.nombre
  BY GuionReinicia DEF UnaVezInv
<1>2. ~ Corre("pagos", 2)' /\ ~ Corre("pagos", 3)'
  BY <1>1 DEF Corre
<1>3. Lecturas' /\ Veces'
  BY <1>1, <1>2, GuionIgual
<1>4. \A a \in DOMAIN asientos' : AnotadoSigue(a)
  BY SigueONace DEF Puesto
<1>5. huella'.enlaces \/ \A a \in DOMAIN asientos' : asientos'[a].pagado = 0 \/ PagadoIgual(a)
  BY SigueONace DEF Puesto
<1>6. QED
  BY <1>2, <1>3, <1>4, <1>5, UnaVezSigue

LEMMA ReinicioTerminaUnaVez ==
  ASSUME UnaVezInv, RespaldoInv', script' = Quieto, huella'.pagos = 0,
         \A a \in DOMAIN asientos' : AnotadoSigue(a),
         huella'.enlaces \/ \A a \in DOMAIN asientos' : asientos'[a].pagado = 0
  PROVE  UnaVezInv'
<1>1. /\ Lecturas' /\ Veces' /\ ~ Corre("pagos", 2)' /\ \A a : Limpio08(a)'
  BY GuionQuieto
<1>2. QED
  BY <1>1, UnaVezSigue

LEMMA Reset00UnaVez ==
  ASSUME UnaVezInv, RespaldoInv', Reset00
  PROVE  UnaVezInv'
<1>1. script.nombre = "reset00" /\ script.paso \in 1 .. 5
  BY DEF Reset00, UnaVezInv, RespaldoInv, PInv, Turno
<1>2. /\ script.paso < 5 => Avanzar /\ huella' = huella
      /\ ~ (script.paso < 5) => Fin /\ huella'.pagos = 0
  <2>1. /\ script.paso < 5 => Avanzar /\ UNCHANGED huella
        /\ ~ (script.paso < 5) =>
             Fin /\ huella' = [huella EXCEPT !.pagos = 0, !.enlaces = FALSE, !.cortados = {}, !.reset00 = FALSE]
    BY Zenon DEF Reset00
  <2>2. [huella EXCEPT !.pagos = 0, !.enlaces = FALSE, !.cortados = {}, !.reset00 = FALSE].pagos = 0
    BY DEF UnaVezInv, RespaldoInv, PInv, PFormas
  <2>3. QED
    BY <2>1, <2>2
<1>3. ASSUME NEW a \in DOMAIN asientos' PROVE Sigue(a) \/ Puesto(a)
  <2>1. a \in DOMAIN asientos
    BY DEF Reset00
  <2>2. PICK d, e, f : /\ d = asientos[a] /\ e = SinPagos(d)
                       /\ f = [d EXCEPT !.estado = "PENDIENTE", !.recibo = Nulo]
    OBVIOUS
  <2>3. EsAsiento(d)
    BY <2>1, <2>2 DEF UnaVezInv, RespaldoInv, PInv, PFormas
  <2>4. Papeles(d, e) /\ e.pagado = 0 /\ Papeles(d, f) /\ f.pagado = d.pagado /\ Papeles(d, d)
    BY <2>2, <2>3, Cambios DEF Papeles, Mismo
  <2>5. asientos'[a] \in {d, e, f}
    <3>1. CASE script.paso = 3
      BY <2>1, <2>2, <3>1 DEF Reset00
    <3>2. CASE script.paso # 3
      <4>1. asientos' = asientos \/
              asientos' = [b \in DOMAIN asientos |->
                       IF ConPagosEnEstado(asientos[b])
                       THEN [asientos[b] EXCEPT !.estado = "PENDIENTE", !.recibo = Nulo] ELSE asientos[b]]
        BY <3>2, Zenon DEF Reset00
      <4>2. QED
        BY <2>1, <2>2, <4>1
    <3>3. QED
      BY <3>1, <3>2
  <2>6. QED
    BY <2>1, <2>2, <2>4, <2>5, PapelesSiguen DEF Sigue, Puesto
<1>4. CASE script.paso < 5
  <2>1. script'.nombre = "reset00"
    BY <1>1, <1>2, <1>4, GuionReinicia DEF UnaVezInv
  <2>2. \A a : Limpio08(a)'
    BY <2>1 DEF Limpio08, Corre
  <2>3. QED
    BY <1>1, <1>2, <1>3, <1>4, <2>2, ReinicioSigueUnaVez
<1>5. CASE script.paso = 5
  <2>1. asientos' = asientos /\ script' = Quieto /\ huella'.pagos = 0
    BY <1>2, <1>5 DEF Reset00, Fin
  <2>2. \A a \in DOMAIN asientos : asientos[a].pagado = 0
    BY <1>1, <1>5 DEF UnaVezInv, RespaldoInv, Respaldos, EnCero
  <2>3. \A a \in DOMAIN asientos' : AnotadoSigue(a)
    BY <1>3, SigueONace DEF Puesto
  <2>4. QED
    BY <2>1, <2>2, <2>3, ReinicioTerminaUnaVez
<1>6. QED
  BY <1>1, <1>4, <1>5

LEMMA ResetPagosUnaVez ==
  ASSUME UnaVezInv, RespaldoInv', ResetPagos
  PROVE  UnaVezInv'
<1>1. script.nombre = "resetPagos" /\ script.paso \in 1 .. 4
  BY DEF ResetPagos, UnaVezInv, RespaldoInv, PInv, Turno
<1>2. /\ script.paso < 4 => Avanzar /\ huella' = huella
      /\ ~ (script.paso < 4) => Fin /\ huella'.pagos = 0
  <2>1. /\ script.paso < 4 => Avanzar /\ UNCHANGED huella
        /\ ~ (script.paso < 4) =>
             Fin /\ huella' = [huella EXCEPT !.pagos = 0, !.enlaces = FALSE, !.cortados = {}, !.reset00 = FALSE]
    BY Zenon DEF ResetPagos
  <2>2. [huella EXCEPT !.pagos = 0, !.enlaces = FALSE, !.cortados = {}, !.reset00 = FALSE].pagos = 0
    BY DEF UnaVezInv, RespaldoInv, PInv, PFormas
  <2>3. QED
    BY <2>1, <2>2
<1>3. CASE script.paso < 4
  <2>1. script'.nombre = "resetPagos"
    BY <1>1, <1>2, <1>3, GuionReinicia DEF UnaVezInv
  <2>2. \A a : Limpio08(a)'
    BY <2>1 DEF Limpio08, Corre
  <2>3. asientos' = asientos \/ asientos' = Restrict(asientos, {a \in DOMAIN asientos : asientos[a].legacy_id = Nulo})
    <3>1. script.paso # 4
      BY <1>1, <1>3
    <3>2. QED
      BY <3>1, Zenon DEF ResetPagos
  <2>4. \A a \in DOMAIN asientos' : Sigue(a)
    BY <2>3 DEF Restrict, Sigue, Papeles, Mismo
  <2>5. QED
    BY <1>1, <1>2, <1>3, <2>2, <2>4, ReinicioSigueUnaVez
<1>4. CASE script.paso = 4
  <2>1. asientos' = [a \in DOMAIN asientos |-> [SinPagos(asientos[a]) EXCEPT !.estado = "PENDIENTE"]]
    BY <1>4 DEF ResetPagos
  <2>2. script' = Quieto /\ huella'.pagos = 0
    BY <1>2, <1>4 DEF Fin
  <2>3. ASSUME NEW a \in DOMAIN asientos' PROVE Puesto(a)
    <3>1. PICK d, e : d = asientos[a] /\ e = [SinPagos(d) EXCEPT !.estado = "PENDIENTE"]
      OBVIOUS
    <3>2. a \in DOMAIN asientos /\ EsAsiento(d) /\ asientos'[a] = e
      BY <2>1, <3>1 DEF UnaVezInv, RespaldoInv, PInv, PFormas
    <3>3. Papeles(d, e) /\ e.pagado = 0
      BY <3>1, <3>2, Cambios
    <3>4. QED
      BY <3>1, <3>2, <3>3, PapelesSiguen DEF Puesto
  <2>4. QED
    BY <2>2, <2>3, ReinicioTerminaUnaVez DEF Puesto
<1>5. QED
  BY <1>1, <1>3, <1>4

LEMMA Reset08Documento ==
  ASSUME UnaVezInv, Reset08, NEW a \in DOMAIN asientos
  PROVE  LET d == asientos[a]
             e == asientos'[a]
         IN  \/ e = d /\ script.paso \in {1, 4}
             \/ e = d /\ script.paso = 2 /\ d.debito \cup d.credito = {}
             \/ e = d /\ script.paso = 3 /\ d.legacy_id = Nulo
             \/ script.paso \in {2, 3} /\ Mismo(d, e) /\ e.debito \subseteq d.debito /\ e.pagado = 0
<1>0. script.nombre = "reset08"
  BY DEF Reset08
<1>1. script.nombre = "reset08" /\ script.paso \in 1 .. 4
  BY <1>0 DEF UnaVezInv, RespaldoInv, PInv, Turno
<1>2. PICK d, e, f, g : /\ d = asientos[a] /\ e = asientos'[a]
                        /\ f = [d EXCEPT !.debito = {}, !.credito = {}, !.pagado = 0, !.estado = "PENDIENTE", !.recibo = Nulo]
                        /\ g = [d EXCEPT !.pagado = 0, !.estado = "PENDIENTE", !.recibo = Nulo]
  OBVIOUS
<1>3. EsAsiento(d)
  BY <1>2 DEF UnaVezInv, RespaldoInv, PInv, PFormas
<1>4. Mismo(d, f) /\ f.debito = {} /\ f.pagado = 0 /\ Papeles(d, g) /\ g.pagado = 0
  <2>0. d = [x \in CamposAsiento |-> d[x]]
    BY <1>3 DEF EsAsiento
  <2>1. Mismo(d, f) /\ f.debito = {} /\ f.pagado = 0
    BY <1>2, <2>0 DEF CamposAsiento, Mismo
  <2>2. Papeles(d, g) /\ g.pagado = 0
    BY <1>2, <2>0 DEF CamposAsiento, Papeles, Mismo
  <2>3. QED
    BY <2>1, <2>2
<1>5. CASE script.paso = 2
  <2>1. asientos' = [b \in DOMAIN asientos |->
               IF asientos[b].debito \cup asientos[b].credito # {}
               THEN [asientos[b] EXCEPT !.debito = {}, !.credito = {}, !.pagado = 0,
                                        !.estado = "PENDIENTE", !.recibo = Nulo]
               ELSE asientos[b]]
    BY <1>5, Zenon DEF Reset08
  <2>2. e = IF d.debito \cup d.credito # {} THEN f ELSE d
    BY <1>2, <2>1
  <2>3. QED
    BY <1>2, <1>4, <1>5, <2>2
<1>6. CASE script.paso = 3
  <2>1. asientos' = [b \in DOMAIN asientos |->
               IF asientos[b].legacy_id # Nulo
               THEN [asientos[b] EXCEPT !.pagado = 0, !.estado = "PENDIENTE", !.recibo = Nulo]
               ELSE asientos[b]]
    <3>1. script.paso # 2
      BY <1>6
    <3>2. QED
      BY <1>6, <3>1, Zenon DEF Reset08
  <2>2. e = IF d.legacy_id # Nulo THEN g ELSE d
    BY <1>2, <2>1
  <2>3. QED
    BY <1>2, <1>4, <1>6, <2>2 DEF Papeles
<1>7. CASE script.paso \in {1, 4}
  <2>1. script.paso # 2 /\ script.paso # 3
    BY <1>7
  <2>2. asientos' = asientos
    BY <2>1, Zenon DEF Reset08
  <2>3. QED
    BY <1>7, <2>2
<1>8. QED
  BY <1>1, <1>5, <1>6, <1>7

LEMMA Reset08UnaVez ==
  ASSUME UnaVezInv, RespaldoInv', Reset08
  PROVE  UnaVezInv'
<1>0. script.nombre = "reset08" /\ DOMAIN asientos' = DOMAIN asientos
  BY DEF Reset08
<1>1. script.nombre = "reset08" /\ script.paso \in 1 .. 4 /\ DOMAIN asientos' = DOMAIN asientos
  BY <1>0 DEF UnaVezInv, RespaldoInv, PInv, Turno
<1>2. /\ script.paso < 4 => Avanzar
      /\ ~ (script.paso < 4) => Fin
      /\ huella' = [huella EXCEPT !.cortados = @ \cup DOMAIN asientos, !.pagos = IF script.paso = 4 THEN 0 ELSE @]
  BY Zenon DEF Reset08
<1>3. huella'.enlaces = huella.enlaces /\ huella'.pagos = IF script.paso = 4 THEN 0 ELSE huella.pagos
  BY <1>2 DEF UnaVezInv, RespaldoInv, PInv, PFormas
<1>4. \A a \in DOMAIN asientos' :
        LET d == asientos[a]
            e == asientos'[a]
        IN  \/ e = d /\ script.paso \in {1, 4}
            \/ e = d /\ script.paso = 2 /\ d.debito \cup d.credito = {}
            \/ e = d /\ script.paso = 3 /\ d.legacy_id = Nulo
            \/ script.paso \in {2, 3} /\ Mismo(d, e) /\ e.debito \subseteq d.debito /\ e.pagado = 0
  BY <1>1, Reset08Documento
<1>5. ASSUME NEW a \in DOMAIN asientos' PROVE Sigue(a) \/ Puesto(a)
  BY <1>1, <1>4, <1>5 DEF Sigue, Puesto, AnotadoSigue, Papeles, Mismo
<1>6. CASE script.paso < 4
  <2>1. script'.nombre = "reset08" /\ script'.paso = script.paso + 1
    BY <1>1, <1>2, <1>6, GuionReinicia DEF UnaVezInv
  <2>2. ASSUME ~ huella'.enlaces, NEW a \in DOMAIN asientos' PROVE Limpio08(a)'
    <3>1. UnaVez(a) /\ Limpio08(a)
      BY <1>1, <1>3, <2>2 DEF UnaVezInv, SinEnlazar
    <3>2. PICK d, e : d = asientos[a] /\ e = asientos'[a]
      OBVIOUS
    <3>3. script.paso \in {2, 3} => e.pagado = 0 \/ e = d
      BY <1>4, <2>2, <3>2
    <3>4. script.paso = 2 => e.pagado = 0 \/ e.legacy_id # Nulo
      BY <1>4, <2>2, <3>1, <3>2 DEF UnaVez, ConOrigen
    <3>5. script.paso = 3 => e.pagado = 0
      BY <1>1, <1>4, <2>2, <3>1, <3>2 DEF Limpio08
    <3>6. QED
      BY <1>1, <1>6, <2>1, <3>2, <3>4, <3>5 DEF Limpio08, Corre
  <2>3. QED
    BY <1>1, <1>2, <1>3, <1>5, <1>6, <2>2, ReinicioSigueUnaVez
<1>7. CASE script.paso = 4
  <2>1. script' = Quieto /\ huella'.pagos = 0
    BY <1>2, <1>3, <1>7 DEF Fin
  <2>2. ASSUME ~ huella'.enlaces, NEW a \in DOMAIN asientos' PROVE asientos'[a].pagado = 0
    <3>1. asientos[a].pagado = 0
      BY <1>1, <1>3, <1>7, <2>2 DEF UnaVezInv, SinEnlazar, Limpio08, Corre
    <3>2. QED
      BY <1>4, <1>7, <2>2, <3>1
  <2>3. \A a \in DOMAIN asientos' : AnotadoSigue(a)
    BY <1>5, SigueONace DEF Puesto
  <2>4. QED
    BY <2>1, <2>2, <2>3, ReinicioTerminaUnaVez
<1>8. QED
  BY <1>1, <1>6, <1>7

----------------------------------------------------------------------------
LEMMA InitUnaVezInv == PInit => UnaVezInv
<1> SUFFICES ASSUME PInit PROVE UnaVezInv
  OBVIOUS
<1>1. RespaldoInv
  BY InitRespaldoInv
<1>2. /\ asientos = Contractuales /\ script = Quieto /\ script.nombre = "ninguno"
      /\ huella.pagos = 0 /\ ~ huella.enlaces
  BY DEF PInit, Quieto
<1>3. ASSUME NEW a \in DOMAIN asientos PROVE Anotado(a, asientos[a]) /\ asientos[a].pagado = 0
  <2>1. a \notin CuentasAdHoc /\ asientos[a].debito = {} /\ asientos[a].pagado = 0
    BY <1>2, IdentidadesAssumption, PagosAssumption DEF CuentasAdHoc
  <2>2. QED
    BY <1>2, <2>1 DEF Anotado
<1>4. Anotados /\ Lecturas /\ Veces
  BY <1>2, <1>3 DEF Anotados, Lecturas, Veces, Corre
<1>5. ASSUME NEW a \in DOMAIN asientos PROVE UnaVez(a) /\ Limpio08(a)
  <2>1. FaltanD(a) = 0
    BY <1>2 DEF FaltanD, Corre
  <2>2. PagoLegacy(a, "D") \in Nat
    BY LegacyEs, LegacyNatural
  <2>3. QED
    BY <1>2, <1>3, <2>1, <2>2 DEF UnaVez, Limpio08, Corre
<1>6. QED
  BY <1>1, <1>4, <1>5 DEF UnaVezInv, SinEnlazar

LEMMA PasoUnaVez == UnaVezInv /\ [PNext]_pagos => UnaVezInv'
<1> SUFFICES ASSUME UnaVezInv, [PNext]_pagos PROVE UnaVezInv'
  OBVIOUS
<1>0. RespaldoInv'
  BY PasoRespaldo DEF UnaVezInv
<1>1. CASE UNCHANGED pagos
  <2>1. UNCHANGED <<asientos, script, huella>>
    BY <1>1 DEF pagos
  <2>2. \A a \in DOMAIN asientos : PagoLegacy(a, "D")' = PagoLegacy(a, "D") /\ FaltanD(a)' = FaltanD(a)
    BY <2>1, LegacyIgual DEF FaltanD, LadoD, Corre
  <2>3. Anotados' /\ Lecturas' /\ Veces'
    <3>1. Anotados'
      BY <2>1, AnotadosSiguen DEF UnaVezInv, AnotadoSigue, Mismo
    <3>2. Lecturas' /\ Veces'
      BY <2>1 DEF UnaVezInv, Lecturas, Veces, ConOrigen, CuentasAdHoc, Corre
    <3>3. QED
      BY <3>1, <3>2
  <2>4. SinEnlazar'
    BY <2>1, <2>2 DEF UnaVezInv, SinEnlazar, UnaVez, Limpio08, ConOrigen, Corre
  <2>5. QED
    BY <1>0, <2>3, <2>4 DEF UnaVezInv
<1>2. ASSUME NEW n \in Scripts, EmpezarScript(n) PROVE UnaVezInv'
  BY <1>0, <1>2, EmpezarScriptUnaVez
<1>3. ASSUME NEW c \in DOMAIN LCuentas, UpsertAdHoc(c) \/ InsertarAdHocMaestro(c) \/ Vincular(c) PROVE UnaVezInv'
  BY <1>0, <1>3, UpsertAdHocUnaVez, InsertarAdHocMaestroUnaVez, VincularUnaVez
<1>4. ASSUME NEW r \in DOMAIN LRecibos,
             \/ MigrarRecibo(r) \/ ImpactarRecibo(r)
             \/ EmpezarTarea(r) \/ BuscarAsiento(r) \/ CrearFaltante(r) \/ ImputarLinea(r)
             \/ CerrarTarea(r) \/ GuardarRecibo(r)
      PROVE  UnaVezInv'
  BY <1>0, <1>4, RecibosUnaVez, TareasUnaVez, CrearFaltanteUnaVez, ImputarLineaUnaVez
<1>5. ASSUME NEW x \in DOMAIN LPagos, ImpactarAsiento(x) PROVE UnaVezInv'
  BY <1>0, <1>5, ImpactarAsientoUnaVez
<1>6. ASSUME NEW op \in script.pend, ImputarConsolidado(op) PROVE UnaVezInv'
  BY <1>0, <1>6, ImputarConsolidadoUnaVez
<1>7. CASE CargarPagos \/ FinalizarEstados \/ InsertarTransacciones \/ PasarAAsientos
  BY <1>0, <1>7, CargarPagosUnaVez, FinalizarEstadosUnaVez, TerminarUnaVez, RecibosUnaVez
<1>8. CASE Reset00 \/ Reset08 \/ ResetPagos
  BY <1>0, <1>8, Reset00UnaVez, Reset08UnaVez, ResetPagosUnaVez
<1>9. CASE TerminarScript \/ MorirScript
  BY <1>0, <1>9, TerminarUnaVez
<1>10. QED
  BY <1>1, <1>2, <1>3, <1>4, <1>5, <1>6, <1>7, <1>8, <1>9 DEF PNext

LEMMA UnaVezInvImplica == UnaVezInv => PagosRespaldados
<1> SUFFICES ASSUME UnaVezInv PROVE PagosRespaldados
  OBVIOUS
<1>1. ImputadoRespaldado
  BY RespaldoInvImplica DEF UnaVezInv
<1>2. ASSUME huella.pagos <= 1, ~ huella.enlaces, NEW a \in DOMAIN asientos
      PROVE  asientos[a].pagado <= PagoLegacy(a, "D")
  <2>1. PICK f \in Nat, l \in Nat, p \in Int : f = FaltanD(a) /\ l = PagoLegacy(a, "D") /\ p = asientos[a].pagado
    BY FaltanDNatural, LegacyEs, LegacyNatural, Sumandos DEF UnaVezInv
  <2>2. p + f <= l
    BY <1>2, <2>1 DEF UnaVezInv, SinEnlazar, UnaVez
  <2>3. QED
    BY <2>1, <2>2
<1>3. QED
  BY <1>1, <1>2 DEF PagosRespaldados, PagadoUnaVez

(* Whatever scripts ran, in whatever order, however often and wherever they *)
(* died: every amount 05-migrate-payments or 03-link-payments imputed on an *)
(* entry has its financial transaction, unless a death, a failed receipt or *)
(* reset 08 left the entry half written; and with one run of 05 since the   *)
(* last reset and none of the linker, no entry was paid more than its own   *)
(* agent paid in the legacy accounts it stands for.                         *)
THEOREM PagosSiempreRespaldados == PSpec => []PagosRespaldados
<1>1. PSpec => []UnaVezInv
  BY InitUnaVezInv, PasoUnaVez, PTL DEF PSpec
<1>2. QED
  BY <1>1, UnaVezInvImplica, PTL
=============================================================================
