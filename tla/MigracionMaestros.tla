------------------------- MODULE MigracionMaestros -------------------------
(***************************************************************************)
(* The migration scripts of the master data: agents (fase 1), properties   *)
(* (fase 2), contracts (fase 3) and inventories (fase 3.5).  Each script   *)
(* is a process started by hand; it reads the legacy database, which never *)
(* changes, transforms every document in memory and inserts the results    *)
(* one by one in V3 under the legacy _id.  A script may die between two    *)
(* writes and may be run again, with --dry-run or --truncate or without.   *)
(* Partial functions stand for the collections of V3, by _id.              *)
(***************************************************************************)
EXTENDS Integers, FiniteSets, FiniteSetsExt, Sequences, SequencesExt, Functions, Bags, TLC

CONSTANTS
  Nulo,           \* no document (a model value)
  LAgentes, LPropiedades, LContratos,  \* legacy collections: see LegacyAssumption
  Digitos,        \* the random last digit of a CUIT made from a DNI
  LocalidadDe,    \* [province code -> its default locality] (DEFAULT_LOCATIONS)
  ProvinciaDe,    \* [locality code -> province code]
  Catalogos,      \* the catalogues V3 may have been seeded with
  Global,         \* the province of last resort ('26', with Rawson)
  MaxCorridas,    \* bound: scripts started
  MaxFallas       \* bound: deaths and failed inserts

ASSUME LegacyAssumption ==
  /\ \A a \in DOMAIN LAgentes :
       DOMAIN LAgentes[a] = {"persona", "taxId", "dni", "prov", "loc"}
  /\ \A p \in DOMAIN LPropiedades :
       DOMAIN LPropiedades[p] = {"sufijo", "duenos", "prov", "loc", "contrato", "activa", "inventario"}
  /\ \A c \in DOMAIN LContratos :
       DOMAIN LContratos[c] = {"propiedad", "partes", "baja", "plazo"}
  /\ Global \in DOMAIN LocalidadDe
  /\ \A v \in DOMAIN LocalidadDe : LocalidadDe[v] \in DOMAIN ProvinciaDe
                                    /\ ProvinciaDe[LocalidadDe[v]] = v
  /\ Nulo \notin Nat \cup DOMAIN LPropiedades
  /\ MaxCorridas \in Nat /\ MaxFallas \in Nat

(* insertOne (or upsert) of doc under id, and deleteOne.                    *)
Insertado(f, id, doc) == [x \in DOMAIN f \cup {id} |-> IF x = id THEN doc ELSE f[x]]
Quitar(f, id) == Restrict(f, DOMAIN f \ {id})

VARIABLES
  catalogo,    \* the provinces and localities seeded in V3
  agentes, propiedades, contratos,  \* V3: partial functions by _id
  inventarios, \* propertyinventories: property -> current version (Nulo: none)
  versiones,   \* inventoryversions: id -> property
  proceso,     \* the script that is running
  hist,        \* history: what the finished scripts left, deaths, truncations
  corridas, fallas

maestros == <<catalogo, agentes, propiedades, contratos, inventarios, versiones,
              proceso, hist, corridas, fallas>>

Fases == {"agentes", "propiedades", "contratos", "inventarios"}
Inactivo == [fase |-> "ninguna", pend |-> <<>>, omitidos |-> {}, errores |-> {},
             paso |-> "leer", prop |-> Nulo]

MInit ==
  /\ catalogo \in Catalogos
  /\ agentes = <<>> /\ propiedades = <<>> /\ contratos = <<>>
  /\ inventarios = <<>> /\ versiones = <<>>
  /\ proceso = Inactivo
  /\ hist = [perdidos |-> {}, agentesCompletos |-> FALSE, vaciadas |-> {}, cortados |-> {}]
  /\ corridas = 0 /\ fallas = 0

----------------------------------------------------------------------------
(* Location: the legacy codes, then the province's default locality, then   *)
(* the global default; Nulo when not even that one is in the catalogue.     *)
(* Mutant: the global fallback keeps the province of the document.          *)
UbicarMezclando(prov, loc) ==
  LET s  == IF prov = Nulo THEN Global ELSE prov
      c0 == IF loc = Nulo THEN LocalidadDe[Global] ELSE loc
      c  == IF s \in catalogo.provincias /\ c0 \notin catalogo.localidades /\ s \in DOMAIN LocalidadDe
            THEN LocalidadDe[s] ELSE c0
      g  == LocalidadDe[Global]
  IN  IF s \in catalogo.provincias /\ c \in catalogo.localidades THEN [prov |-> s, loc |-> c]
      ELSE IF Global \in catalogo.provincias /\ g \in catalogo.localidades
           THEN [prov |-> s, loc |-> g]
      ELSE [prov |-> Nulo, loc |-> Nulo]

Ubicar(prov, loc) ==
  LET s  == IF prov = Nulo THEN Global ELSE prov
      c0 == IF loc = Nulo THEN LocalidadDe[Global] ELSE loc
      c  == IF s \in catalogo.provincias /\ c0 \notin catalogo.localidades /\ s \in DOMAIN LocalidadDe
            THEN LocalidadDe[s] ELSE c0
      g  == LocalidadDe[Global]
  IN  IF s \in catalogo.provincias /\ c \in catalogo.localidades THEN [prov |-> s, loc |-> c]
      ELSE IF Global \in catalogo.provincias /\ g \in catalogo.localidades
           THEN [prov |-> Global, loc |-> g]
      ELSE [prov |-> Nulo, loc |-> Nulo]

(* identificador_fiscal: the legacy taxId, a CUIT made from the DNI of a    *)
(* FISICA with a random last digit, or TEMP-<_id>.                          *)
IdentificadoresFiscales(a) ==
  LET l == LAgentes[a]
  IN  IF l.taxId # Nulo THEN {<<"taxId", l.taxId>>}
      ELSE IF l.dni # Nulo /\ l.persona = "FISICA" THEN {<<"dni", l.dni, d>> : d \in Digitos}
      ELSE {<<"temp", a>>}

AgenteV3(a, fiscal) == [fiscal |-> fiscal, ubicacion |-> Ubicar(LAgentes[a].prov, LAgentes[a].loc),
                        editado |-> FALSE]

(* A property keeps every owner of the legacy document, present in V3 or    *)
(* not, and the contract the legacy document names.                         *)
PropiedadV3(p) ==
  LET l == LPropiedades[p]
  IN  [identificador |-> l.sufijo, propietarios |-> l.duenos, ubicacion |-> Ubicar(l.prov, l.loc),
       contrato_vigente_id |-> l.contrato,
       estado_ocupacional |-> IF l.contrato # Nulo THEN "ALQUILADA" ELSE "DISPONIBLE",
       status |-> IF l.activa THEN "DISPONIBLE" ELSE "INACTIVA", editado |-> FALSE]

(* status of a contract, by its legacy flag and where today falls.          *)
StatusContrato(l) ==
  IF l.baja \/ l.plazo = "vencido" THEN "FINALIZADO"
  ELSE IF l.plazo = "futuro" THEN "PENDIENTE" ELSE "VIGENTE"

(* fotos_inventario, with inventario_actualizado, is migrated empty and     *)
(* completed apart from the rest of the contract: people's own photos       *)
(* ("propias"), or the placeholder of the inventories script ("migradas").  *)
ContratoV3(c) ==
  LET l == LContratos[c]
  IN  [propiedad |-> l.propiedad, partes |-> l.partes, status |-> StatusContrato(l),
       ubicacion |-> propiedades[l.propiedad].ubicacion, inventory_version_id |-> Nulo,
       fotos_inventario |-> "ninguna", editado |-> FALSE]

(* transformContract: without a property in V3, or without parties, a       *)
(* contract is skipped.                                                     *)
AdmiteContrato(c) ==
  /\ LContratos[c].propiedad \in DOMAIN propiedades
  /\ LContratos[c].partes # {}

----------------------------------------------------------------------------
(* migrateAgents: the catalogue is loaded, every agent transformed, and the *)
(* ones without a location skipped.                                         *)
SeUbica(l) == Ubicar(l.prov, l.loc).prov # Nulo

Transformables(fase) ==
  CASE fase = "agentes"     -> {a \in DOMAIN LAgentes : SeUbica(LAgentes[a])}
    [] fase = "propiedades" -> {p \in DOMAIN LPropiedades : SeUbica(LPropiedades[p])}
    [] fase = "contratos"   -> {c \in DOMAIN LContratos : AdmiteContrato(c)}
    [] OTHER -> {p \in DOMAIN LPropiedades : LPropiedades[p].inventario}

LegacyDe(fase) ==
  CASE fase = "agentes" -> DOMAIN LAgentes
    [] fase = "contratos" -> DOMAIN LContratos
    [] OTHER -> DOMAIN LPropiedades

Documentos(fase, ids) ==
  CASE fase = "agentes" ->
         {f \in [ids -> UNION {{AgenteV3(a, x) : x \in IdentificadoresFiscales(a)} : a \in ids}] :
            \A a \in ids : f[a] \in {AgenteV3(a, x) : x \in IdentificadoresFiscales(a)}}
    [] fase = "propiedades" -> {[p \in ids |-> PropiedadV3(p)]}
    [] fase = "contratos"   -> {[c \in ids |-> ContratoV3(c)]}
    [] OTHER -> {[p \in ids |-> p]}

Comenzar(fase, pend) ==
  /\ proceso' = [Inactivo EXCEPT !.fase = fase, !.pend = pend,
                   !.omitidos = LegacyDe(fase) \ DOMAIN pend]
  /\ corridas' = corridas + 1

(* A script is started: --truncate (fases 1 to 3) empties its collection    *)
(* before anything is read.                                                 *)
Empezar(fase) ==
  /\ proceso.fase = "ninguna" /\ corridas < MaxCorridas
  /\ \E pend \in Documentos(fase, Transformables(fase)) : Comenzar(fase, pend)
  /\ UNCHANGED <<catalogo, agentes, propiedades, contratos, inventarios, versiones, hist, fallas>>

EmpezarVaciando(fase) ==
  /\ proceso.fase = "ninguna" /\ corridas < MaxCorridas
  /\ fase # "inventarios"
  /\ \E pend \in Documentos(fase, Transformables(fase)) : Comenzar(fase, pend)
  /\ agentes' = IF fase = "agentes" THEN <<>> ELSE agentes
  /\ propiedades' = IF fase = "propiedades" THEN <<>> ELSE propiedades
  /\ contratos' = IF fase = "contratos" THEN <<>> ELSE contratos
  /\ hist' = [hist EXCEPT !.vaciadas = @ \cup {fase},
                           !.agentesCompletos = @ /\ fase # "agentes"]
  /\ UNCHANGED <<catalogo, inventarios, versiones, fallas>>

(* --dry-run transforms and writes nothing.                                 *)
EnSeco(fase) ==
  /\ proceso.fase = "ninguna" /\ corridas < MaxCorridas
  /\ corridas' = corridas + 1
  /\ UNCHANGED <<catalogo, agentes, propiedades, contratos, inventarios, versiones, proceso, hist, fallas>>

(* ContractsMigrationService.migratePropertiesFromLegacy, an endpoint: it    *)
(* may empty the collection first; then every create() is refused by the    *)
(* schema, which requires the province and the locality that the            *)
(* transformation leaves out, and is counted as an error.                   *)
MigratePropertiesFromLegacy(borrar) ==
  /\ proceso.fase = "ninguna" /\ corridas < MaxCorridas
  /\ propiedades' = IF borrar THEN <<>> ELSE propiedades
  /\ hist' = IF borrar THEN [hist EXCEPT !.vaciadas = @ \cup {"propiedades"}] ELSE hist
  /\ corridas' = corridas + 1
  /\ UNCHANGED <<catalogo, agentes, contratos, inventarios, versiones, proceso, fallas>>

----------------------------------------------------------------------------
(* bulkInsertWithDuplicateHandling: insertOne per document; a duplicate     *)
(* (of the _id, or of another unique index) is counted and skipped, another *)
(* error is recorded, and the loop goes on.                                 *)
Duplicado(fase, id, doc) ==
  CASE fase = "agentes" -> id \in DOMAIN agentes \/ \E b \in DOMAIN agentes : agentes[b].fiscal = doc.fiscal
    [] fase = "propiedades" -> \/ id \in DOMAIN propiedades
                               \/ \E q \in DOMAIN propiedades : propiedades[q].identificador = doc.identificador
    [] OTHER -> id \in DOMAIN contratos

EscribirDocumento(fase, id, doc) ==
  /\ agentes' = IF fase = "agentes" THEN Insertado(agentes, id, doc) ELSE agentes
  /\ propiedades' = IF fase = "propiedades" THEN Insertado(propiedades, id, doc) ELSE propiedades
  /\ contratos' = IF fase = "contratos" THEN Insertado(contratos, id, doc) ELSE contratos

(* Mutant: an upsert by _id, as bulkUpsert does, instead of an insert.      *)
InsertarUpsert(id) ==
  LET fase == proceso.fase
      doc == proceso.pend[id]
  IN  /\ fase \in {"agentes", "propiedades", "contratos"}
      /\ id \in DOMAIN proceso.pend
      /\ EscribirDocumento(fase, id, doc)
      /\ proceso' = [proceso EXCEPT !.pend = Quitar(proceso.pend, id)]
      /\ UNCHANGED <<catalogo, inventarios, versiones, hist, corridas, fallas>>

(* Mutant: a duplicate stops the loop, as an error does without             *)
(* continueOnError.                                                         *)
InsertarDetenido(id) ==
  LET fase == proceso.fase
      doc == proceso.pend[id]
  IN  /\ fase \in {"agentes", "propiedades", "contratos"}
      /\ id \in DOMAIN proceso.pend
      /\ IF Duplicado(fase, id, doc)
         THEN /\ proceso' = [proceso EXCEPT !.pend = <<>>]
              /\ UNCHANGED <<agentes, propiedades, contratos>>
         ELSE /\ EscribirDocumento(fase, id, doc)
              /\ proceso' = [proceso EXCEPT !.pend = Quitar(proceso.pend, id)]
      /\ UNCHANGED <<catalogo, inventarios, versiones, hist, corridas, fallas>>

Insertar(id) ==
  LET fase == proceso.fase
      doc == proceso.pend[id]
  IN  /\ fase \in {"agentes", "propiedades", "contratos"}
      /\ id \in DOMAIN proceso.pend
      /\ IF Duplicado(fase, id, doc)
         THEN UNCHANGED <<agentes, propiedades, contratos>>
         ELSE EscribirDocumento(fase, id, doc)
      /\ proceso' = [proceso EXCEPT !.pend = Quitar(proceso.pend, id)]
      /\ UNCHANGED <<catalogo, inventarios, versiones, hist, corridas, fallas>>

FalloAlInsertar(id) ==
  /\ proceso.fase \in {"agentes", "propiedades", "contratos"}
  /\ id \in DOMAIN proceso.pend /\ fallas < MaxFallas
  /\ proceso' = [proceso EXCEPT !.pend = Quitar(proceso.pend, id), !.errores = @ \cup {id}]
  /\ fallas' = fallas + 1
  /\ UNCHANGED <<catalogo, agentes, propiedades, contratos, inventarios, versiones, hist, corridas>>

----------------------------------------------------------------------------
(* migrateInventories, per property: insert the inventory, insert version   *)
(* 1, point the inventory at it, point the property's contracts at it.  Any *)
(* error is caught and the next property follows.                           *)
EnInventario(p, paso) ==
  /\ proceso.fase = "inventarios" /\ proceso.paso = paso
  /\ IF paso = "leer" THEN p \in DOMAIN proceso.pend ELSE p = proceso.prop

PropiedadSiguiente(p) == proceso' = [proceso EXCEPT !.pend = Quitar(proceso.pend, p), !.paso = "leer", !.prop = Nulo]

CrearInventario(p) ==
  /\ EnInventario(p, "leer")
  /\ IF p \notin DOMAIN propiedades \/ p \in DOMAIN inventarios
     THEN PropiedadSiguiente(p) /\ UNCHANGED inventarios
     ELSE /\ inventarios' = Insertado(inventarios, p, Nulo)
          /\ proceso' = [proceso EXCEPT !.paso = "version", !.prop = p]
  /\ UNCHANGED <<catalogo, agentes, propiedades, contratos, versiones, hist, corridas, fallas>>

CrearVersion(p) ==
  /\ EnInventario(p, "version")
  /\ versiones' = Insertado(versiones, Cardinality(DOMAIN versiones) + 1, p)
  /\ proceso' = [proceso EXCEPT !.paso = "apuntar"]
  /\ UNCHANGED <<catalogo, agentes, propiedades, contratos, inventarios, hist, corridas, fallas>>

ApuntarVersion(p) ==
  /\ EnInventario(p, "apuntar")
  /\ inventarios' = [inventarios EXCEPT ![p] = Cardinality(DOMAIN versiones)]
  /\ proceso' = [proceso EXCEPT !.paso = "contratos"]
  /\ UNCHANGED <<catalogo, agentes, propiedades, contratos, versiones, hist, corridas, fallas>>

(* updateMany on the contracts of the property: their version, and with it  *)
(* their photos, whoever had completed them.                                *)
ConVersion(c) == [contratos[c] EXCEPT !.inventory_version_id = Cardinality(DOMAIN versiones),
                                      !.fotos_inventario = "migradas"]

(* Mutant: the update of the contracts has lost its filter.                 *)
ApuntarTodosLosContratos(p) ==
  /\ EnInventario(p, "contratos")
  /\ contratos' = [c \in DOMAIN contratos |-> ConVersion(c)]
  /\ PropiedadSiguiente(p)
  /\ UNCHANGED <<catalogo, agentes, propiedades, inventarios, versiones, hist, corridas, fallas>>

ApuntarContratos(p) ==
  /\ EnInventario(p, "contratos")
  /\ contratos' = [c \in DOMAIN contratos |->
                     IF contratos[c].propiedad = p THEN ConVersion(c) ELSE contratos[c]]
  /\ PropiedadSiguiente(p)
  /\ UNCHANGED <<catalogo, agentes, propiedades, inventarios, versiones, hist, corridas, fallas>>

(* Mutant: a failed property is not recorded among the errors.              *)
FalloDeInventarioCallado(p) ==
  /\ proceso.fase = "inventarios" /\ p = proceso.prop /\ proceso.paso # "leer" /\ fallas < MaxFallas
  /\ PropiedadSiguiente(p)
  /\ fallas' = fallas + 1
  /\ UNCHANGED <<catalogo, agentes, propiedades, contratos, inventarios, versiones, hist, corridas>>

FalloDeInventario(p) ==
  /\ proceso.fase = "inventarios" /\ p = proceso.prop /\ proceso.paso # "leer" /\ fallas < MaxFallas
  /\ PropiedadSiguiente(p)
  /\ hist' = [hist EXCEPT !.cortados = @ \cup {p}]
  /\ fallas' = fallas + 1
  /\ UNCHANGED <<catalogo, agentes, propiedades, contratos, inventarios, versiones, corridas>>

----------------------------------------------------------------------------
(* The script ends and reports, or dies.                                    *)
Terminar ==
  /\ proceso.fase # "ninguna" /\ proceso.pend = <<>>
  /\ hist' = IF proceso.fase = "agentes"
             THEN [hist EXCEPT !.perdidos = proceso.omitidos \cup proceso.errores,
                               !.agentesCompletos = TRUE]
             ELSE hist
  /\ proceso' = Inactivo
  /\ UNCHANGED <<catalogo, agentes, propiedades, contratos, inventarios, versiones, corridas, fallas>>

Morir ==
  /\ proceso.fase # "ninguna" /\ fallas < MaxFallas
  /\ hist' = [hist EXCEPT !.cortados = IF proceso.prop = Nulo THEN @ ELSE @ \cup {proceso.prop}]
  /\ proceso' = Inactivo
  /\ fallas' = fallas + 1
  /\ UNCHANGED <<catalogo, agentes, propiedades, contratos, inventarios, versiones, corridas>>

(* Between two scripts people complete what the migration left for them:    *)
(* the empty role of a client, a temporary fiscal id, the terms of a        *)
(* contract, or its photos.  Bound: one edited document at a time.          *)
SinEditar ==
  /\ proceso.fase = "ninguna"
  /\ \A a \in DOMAIN agentes : ~ agentes[a].editado
  /\ \A c \in DOMAIN contratos :
       ~ contratos[c].editado /\ contratos[c].fotos_inventario # "propias"

Editar ==
  /\ SinEditar
  /\ \/ \E a \in DOMAIN agentes : /\ agentes' = [agentes EXCEPT ![a].editado = TRUE]
                                  /\ UNCHANGED contratos
     \/ \E c \in DOMAIN contratos : /\ contratos' = [contratos EXCEPT ![c].editado = TRUE]
                                    /\ UNCHANGED agentes
  /\ UNCHANGED <<catalogo, propiedades, inventarios, versiones, proceso, hist, corridas, fallas>>

CompletarFotos ==
  /\ SinEditar
  /\ \E c \in DOMAIN contratos : contratos' = [contratos EXCEPT ![c].fotos_inventario = "propias"]
  /\ UNCHANGED <<catalogo, agentes, propiedades, inventarios, versiones, proceso, hist, corridas, fallas>>

Documento == DOMAIN LAgentes \cup DOMAIN LPropiedades \cup DOMAIN LContratos

MNext ==
  \/ \E f \in Fases : Empezar(f) \/ EmpezarVaciando(f) \/ EnSeco(f)
  \/ \E b \in BOOLEAN : MigratePropertiesFromLegacy(b)
  \/ \E id \in Documento : Insertar(id) \/ FalloAlInsertar(id)
  \/ \E p \in DOMAIN LPropiedades :
       CrearInventario(p) \/ CrearVersion(p) \/ ApuntarVersion(p) \/ ApuntarContratos(p)
         \/ FalloDeInventario(p)
  \/ Terminar \/ Morir \/ Editar \/ CompletarFotos

MSpec == MInit /\ [][MNext]_maestros

----------------------------------------------------------------------------
(* Properties.                                                              *)

(* Every migrated contract names a property that is in V3 and, when it has  *)
(* an inventory version, that version belongs to the inventory of its own   *)
(* property: the order of the scripts and the lookups of transformContract  *)
(* give it, until a collection is emptied under the others.                 *)
ReferenciasMigradas ==
  \A c \in DOMAIN contratos :
    /\ "propiedades" \in hist.vaciadas \/ contratos[c].propiedad \in DOMAIN propiedades
    /\ contratos[c].inventory_version_id # Nulo =>
         /\ contratos[c].inventory_version_id \in DOMAIN versiones
         /\ versiones[contratos[c].inventory_version_id] = contratos[c].propiedad

(* After a complete migrateAgents, a legacy agent is missing from V3 only   *)
(* if the report lists it, or another agent holds its fiscal identifier: a  *)
(* duplicate in the middle of the list never hides the agents after it.     *)
PerdidasExplicadas ==
  hist.agentesCompletos =>
    \A a \in DOMAIN LAgentes \ DOMAIN agentes :
      \/ a \in hist.perdidos
      \/ \E b \in DOMAIN agentes : agentes[b].fiscal \in IdentificadoresFiscales(a)

(* A migrated agent or property with both legacy codes, or with neither,    *)
(* gets a locality of its own province, whatever the catalogue lacks.       *)
Completa(l) == (l.prov = Nulo) = (l.loc = Nulo) /\ (l.loc # Nulo => ProvinciaDe[l.loc] = l.prov)
UbicacionCoherente ==
  /\ \A a \in DOMAIN agentes : Completa(LAgentes[a]) =>
       ProvinciaDe[agentes[a].ubicacion.loc] = agentes[a].ubicacion.prov
  /\ \A p \in DOMAIN propiedades : Completa(LPropiedades[p]) =>
       ProvinciaDe[propiedades[p].ubicacion.loc] = propiedades[p].ubicacion.prov

(* "Omiten registros ya migrados": running a script again rewrites neither  *)
(* an agent nor a contract somebody completed since, nor moves a contract   *)
(* to another inventory version; only --truncate removes it.  The photos    *)
(* of a contract are the exception: the inventories script replaces them,   *)
(* once, when it gives the contract its first version, and from then on     *)
(* what people upload stays.                                                *)
ContratoConservado(antes, despues) ==
  /\ antes.editado => despues.editado
  /\ antes.inventory_version_id # Nulo => despues.inventory_version_id = antes.inventory_version_id
  /\ antes.fotos_inventario = "propias" =>
       \/ despues.fotos_inventario = "propias"
       \/ antes.inventory_version_id = Nulo /\ despues.inventory_version_id # Nulo

EdicionesPreservadas ==
  [][ /\ \A a \in DOMAIN agentes \cap DOMAIN agentes' : agentes[a].editado => agentes'[a].editado
      /\ \A c \in DOMAIN contratos \cap DOMAIN contratos' :
           ContratoConservado(contratos[c], contratos'[c]) ]_maestros

(* An inventory stays without a current version only if its script was cut  *)
(* short at that property: no run completes it later, since the unique      *)
(* index rejects its first insert.                                          *)
InventarioConVersion ==
  \A p \in DOMAIN inventarios :
    \/ inventarios[p] # Nulo /\ versiones[inventarios[p]] = p
    \/ p \in hist.cortados \/ p = proceso.prop

(* The master data as a whole: references, locations and inventories.       *)
MaestrosMigrados == ReferenciasMigradas /\ UbicacionCoherente /\ InventarioConVersion
=============================================================================
