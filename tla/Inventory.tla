------------------------------ MODULE Inventory ------------------------------
(***************************************************************************)
(* InventoryService: the inventory of a property and its numbered          *)
(* versions, two collections that no transaction joins.                    *)
(***************************************************************************)
EXTENDS Peticiones

CONSTANTS
  Propiedades,
  MaxVersiones, \* bound: versions that will be created, identified in that order
  NoVersion     \* no version (a model value)

VARIABLES
  inventario,  \* [Propiedades -> [existe, actual, versions]]: PropertyInventory
  version,     \* [Versiones -> NoVersion or [de, numero, status]]: InventoryVersion
  creadas,     \* history: versions inserted
  sinEnlace,   \* history: versions whose creation died before the inventory was saved
  borrada      \* history: a version was deleted

inventarioVars == <<inventario, version, creadas, sinEnlace, borrada>>

Versiones == 1 .. MaxVersiones
Estados == {"DRAFT", "ACTIVE", "ARCHIVED"}
De(p) == {v \in Versiones : version[v] # NoVersion /\ version[v].de = p}

InitInventario ==
  /\ inventario = [p \in Propiedades |-> [existe |-> FALSE, actual |-> NoVersion, versions |-> {}]]
  /\ version = [v \in Versiones |-> NoVersion]
  /\ creadas = 0 /\ sinEnlace = {} /\ borrada = FALSE

----------------------------------------------------------------------------
(* createPropertyInventory(): property_id has a unique index.               *)
CreatePropertyInventory(p) ==
  /\ ~ inventario[p].existe
  /\ Atomica
  /\ inventario' = [inventario EXCEPT ![p].existe = TRUE]
  /\ UNCHANGED <<version, creadas, sinEnlace, borrada>>

(* createVersion(), up to getOrCreatePropertyInventory()'s upsert.          *)
CreateVersion(r, p, status) ==
  /\ Comenzar(r, [paso |-> "contar", p |-> p, status |-> status,
                  sinActual |-> inventario[p].actual = NoVersion])
  /\ inventario' = [inventario EXCEPT ![p].existe = TRUE]
  /\ UNCHANGED <<version, creadas, sinEnlace, borrada>>

(* copyInventoryToProperty(): of a version of p, as a draft of q.           *)
CopyInventoryToProperty(r, p, q) == De(p) # {} /\ CreateVersion(r, q, "DRAFT")

(* versionCount + 1, and the document that is built with it.                *)
Contar(r) ==
  /\ op[r].paso = "contar"
  /\ Seguir(r, [paso |-> "insertar", p |-> op[r].p, sinActual |-> op[r].sinActual,
                doc |-> [de |-> op[r].p, status |-> op[r].status,
                         numero |-> Cardinality(De(op[r].p)) + 1]])
  /\ UNCHANGED inventarioVars

Insertar(r) ==
  /\ op[r].paso = "insertar" /\ creadas < MaxVersiones
  /\ creadas' = creadas + 1
  /\ version' = [version EXCEPT ![creadas'] = op[r].doc]
  /\ Seguir(r, [paso |-> "enlazar", p |-> op[r].p, v |-> creadas', sinActual |-> op[r].sinActual])
  /\ UNCHANGED <<inventario, sinEnlace, borrada>>

(* Mutant: a draft does not become the current version.                     *)
EnlazarSoloActivas(r) ==
  LET q == op[r]
  IN  /\ q.paso = "enlazar"
      /\ inventario' = [inventario EXCEPT
           ![q.p].versions = @ \cup {q.v},
           ![q.p].actual = IF q.sinActual /\ version[q.v] # NoVersion /\ version[q.v].status = "ACTIVE"
                           THEN q.v ELSE @]
      /\ Terminar(r)
      /\ UNCHANGED <<version, creadas, sinEnlace, borrada>>

(* propertyInventory.save(): a $push, and the current version if the copy   *)
(* read at the start had none.                                              *)
Enlazar(r) ==
  LET q == op[r]
  IN  /\ q.paso = "enlazar"
      /\ inventario' = [inventario EXCEPT ![q.p].versions = @ \cup {q.v},
                                          ![q.p].actual = IF q.sinActual THEN q.v ELSE @]
      /\ Terminar(r)
      /\ UNCHANGED <<version, creadas, sinEnlace, borrada>>

(* getVersion() and the check of a handler, and then its write.             *)
UpdateVersion(r, v, status) ==
  /\ version[v] # NoVersion /\ version[v].status # "ARCHIVED"
  /\ Comenzar(r, [paso |-> "modificar", v |-> v, status |-> status])
  /\ UNCHANGED inventarioVars

SetCurrentVersion(r, p, v) ==
  /\ v \in De(p) /\ version[v].status = "ACTIVE"
  /\ Comenzar(r, [paso |-> "fijar", p |-> p, v |-> v])
  /\ UNCHANGED inventarioVars

(* deleteVersion(): current_version_id and versions are populated, and a    *)
(* document's toString() is never the text of an id: the current version is *)
(* not refused and nothing is filtered out of versions.                     *)
DeleteVersion(r, p, v) ==
  /\ v \in De(p)
  /\ Comenzar(r, [paso |-> "borrar", v |-> v])
  /\ UNCHANGED inventarioVars

(* save() of a version deleted meanwhile throws.                            *)
Modificar(r) ==
  LET q == op[r]
  IN  /\ q.paso = "modificar"
      /\ version' = IF version[q.v] = NoVersion THEN version
                    ELSE [version EXCEPT ![q.v].status = q.status]
      /\ Terminar(r)
      /\ UNCHANGED <<inventario, creadas, sinEnlace, borrada>>

Fijar(r) ==
  /\ op[r].paso = "fijar"
  /\ inventario' = [inventario EXCEPT ![op[r].p].actual = op[r].v]
  /\ Terminar(r)
  /\ UNCHANGED <<version, creadas, sinEnlace, borrada>>

Borrar(r) ==
  /\ op[r].paso = "borrar"
  /\ version' = [version EXCEPT ![op[r].v] = NoVersion]
  /\ borrada' = TRUE
  /\ Terminar(r)
  /\ UNCHANGED <<inventario, creadas, sinEnlace>>

MuerteInventario(r) ==
  /\ Morir(r)
  /\ sinEnlace' = sinEnlace \cup (IF op[r].paso = "enlazar" THEN {op[r].v} ELSE {})
  /\ UNCHANGED <<inventario, version, creadas, borrada>>

NextInventario ==
  \/ \E p \in Propiedades : CreatePropertyInventory(p)
  \/ \E r \in Requests :
       \/ \E p \in Propiedades :
            \/ \E s \in Estados : CreateVersion(r, p, s)
            \/ \E q \in Propiedades : CopyInventoryToProperty(r, p, q)
            \/ \E v \in Versiones : SetCurrentVersion(r, p, v) \/ DeleteVersion(r, p, v)
       \/ \E v \in Versiones, s \in Estados : UpdateVersion(r, v, s)
       \/ Contar(r) \/ Insertar(r) \/ Enlazar(r)
       \/ Modificar(r) \/ Fijar(r) \/ Borrar(r) \/ MuerteInventario(r)

----------------------------------------------------------------------------
(* Properties.                                                              *)

(* No version is lost to its inventory: each one is in its list, about to   *)
(* be, or of a creation that died; an inventory with versions has a current *)
(* one; and numbers are unique until two requests overlap or a deletion     *)
(* lowers the count that the next number is taken from.                     *)
VersionesEnlazadas ==
  \A p \in Propiedades :
    \A v \in De(p) : \/ v \in inventario[p].versions \cup sinEnlace
                     \/ \E r \in Requests : op[r].paso = "enlazar" /\ op[r].v = v
InventarioEnlazado ==
  /\ VersionesEnlazadas
  /\ \A p \in Propiedades : inventario[p].versions # {} => inventario[p].actual # NoVersion
  /\ ~ solape /\ ~ borrada =>
       \A p \in Propiedades : \A v, w \in De(p) : v # w => version[v].numero # version[w].numero

(* "No permitir eliminar la versión actual" (inventory.service.ts:219): the *)
(* current version of an inventory exists.                                  *)
VersionActualExiste ==
  \A p \in Propiedades :
    inventario[p].actual # NoVersion => version[inventario[p].actual] # NoVersion
=============================================================================
