---------------------------- MODULE MCMigracion ----------------------------
(* Instances of the migration for TLC.  The master data, the generation of  *)
(* the entries and the accounting data share no state once each one's input *)
(* is given, so a behaviour moves one of the three (foco) and leaves the    *)
(* others as they start.                                                    *)
EXTENDS MigracionMaestros, MigracionAsientos, MigracionPagos

CONSTANTS q1, q2, Focos

VARIABLE foco

MCInit ==
  /\ MInit /\ GInit /\ PInit /\ foco \in Focos
  /\ foco # "maestros" => Cardinality(catalogo.localidades) = 2
MCNext ==
  /\ UNCHANGED foco
  /\ \/ foco = "maestros" /\ MNext /\ UNCHANGED <<generacion, pagos>>
     \/ foco = "asientos" /\ GNext /\ UNCHANGED <<maestros, pagos>>
     \/ foco = "pagos" /\ PNext /\ UNCHANGED <<maestros, generacion>>
MCSpec == MCInit /\ [][MCNext]_<<maestros, generacion, pagos, foco>>

Agente(persona, taxId, dni, prov, loc) ==
  [persona |-> persona, taxId |-> taxId, dni |-> dni, prov |-> prov, loc |-> loc]

(* Two people of one DNI, and a company of another province.                *)
MCLAgentes == [x \in {"ag1", "ag2", "ag3"} |->
  CASE x = "ag1" -> Agente("FISICA", Nulo, "dni1", Nulo, Nulo)
    [] x = "ag2" -> Agente("FISICA", Nulo, "dni1", "26", "rawson")
    [] OTHER     -> Agente("JURIDICA", "cuit3", Nulo, "6", "pilar")]

MCLPropiedades == [x \in {"p1", "p2"} |->
  IF x = "p1" THEN [sufijo |-> "s1", duenos |-> {"ag1"}, prov |-> "6", loc |-> "pilar",
                    contrato |-> "k1", activa |-> TRUE, inventario |-> TRUE]
  ELSE [sufijo |-> "s2", duenos |-> {"ag3"}, prov |-> "26", loc |-> "rawson",
        contrato |-> Nulo, activa |-> FALSE, inventario |-> FALSE]]

MCLContratos == [x \in {"k1", "k2"} |->
  IF x = "k1" THEN [propiedad |-> "p1", partes |-> {"ag1", "ag2"}, baja |-> FALSE, plazo |-> "vigente"]
  ELSE [propiedad |-> "p2", partes |-> {"ag3"}, baja |-> FALSE, plazo |-> "futuro"]]

MCLocalidadDe == [v \in {"26", "6"} |-> IF v = "26" THEN "rawson" ELSE "laplata"]
MCProvinciaDe == [l \in {"rawson", "laplata", "pilar"} |-> IF l = "rawson" THEN "26" ELSE "6"]

(* A catalogue without the locality Pilar, one with Rawson alone, and an    *)
(* empty one.                                                               *)
MCCatalogos ==
  {[provincias |-> {"26", "6"}, localidades |-> {"rawson", "laplata"}],
   [provincias |-> {"26"}, localidades |-> {"rawson"}],
   [provincias |-> {}, localidades |-> {}]}

Cuenta(clase, tipo, contrato, per, monto, maestro) ==
  [clase |-> clase, tipo |-> tipo, contrato |-> contrato, per |-> per, monto |-> monto, maestro |-> maestro]

(* A rent as the tenant's and the owner's accounts, and a service bill.     *)
MCLCuentas == [c \in {"d1", "k1", "h1"} |->
  CASE c = "d1" -> Cuenta("alquiler", "Debito", "c1", 1, 2, "m1")
    [] c = "k1" -> Cuenta("alquiler", "Credito", "c1", 1, 2, "m1")
    [] OTHER    -> Cuenta("adhoc", "Debito", Nulo, 0, 1, "mh")]

Pago(cuenta, monto, agente, recibo) == [cuenta |-> cuenta, monto |-> monto, agente |-> agente, recibo |-> recibo]
(* The rent's payments: by the tenant, by a guarantor, to the owner and, on *)
(* the owner's account, by the tenant.                                      *)
MCLPagos == [x \in {"x1", "x2", "x3", "x4", "x5"} |->
  CASE x = "x1" -> Pago("d1", 1, "inq", "r1")
    [] x = "x2" -> Pago("d1", 1, "gar", "r2")
    [] x = "x5" -> Pago("k1", 1, "inq", Nulo)
    [] x = "x3" -> Pago("k1", 2, "prop", "r1")
    [] OTHER    -> Pago("h1", 1, "inq", "r2")]

Renglon(clase, maestro, contrato, per, monto) ==
  [clase |-> clase, maestro |-> maestro, contrato |-> contrato, per |-> per, monto |-> monto]

(* Two receipts of the contract pay a rent fase 4 did not generate (period  *)
(* 2); one of them also a service bill that may not be there.               *)
MCLRecibos == [r \in {"r1", "r2", "r3"} |->
  CASE r = "r1" -> [valido |-> TRUE, lineas |-> <<Renglon("alquiler", "m2", "c1", 2, 1)>>]
    [] r = "r2" -> [valido |-> TRUE, lineas |-> <<Renglon("alquiler", "m2", "c1", 2, 1),
                                                  Renglon("servicios", "mh", Nulo, 0, 1)>>]
    [] OTHER    -> [valido |-> FALSE, lineas |-> <<Renglon("alquiler", "m1", "c1", 1, 1)>>]]

MCContractuales == [a \in {"e1"} |->
  [tipo |-> "Alquiler Mensual", contrato |-> "c1", per |-> 1, legacy_id |-> Nulo,
   debe |-> 2, haber |-> 2, agenteDebe |-> "inq", agenteHaber |-> "prop",
   pagado |-> 0, liquidado |-> 0, estado |-> "PENDIENTE", debito |-> {}, credito |-> {}, recibo |-> Nulo]]

(* The generation: a month of fixed rent with a deposit; and two by IPC,    *)
(* adjusted once with an index that is not there, and the tenant's fee.     *)
Plazo(indice, fin, ajuste, deposito, honLocatario) ==
  [monto |-> 100, comision |-> 10, indice |-> indice, inicio |-> 0, fin |-> fin, ajuste |-> ajuste,
   deposito |-> deposito, honLocador |-> 0, cuotasLocador |-> 1, honLocatario |-> honLocatario,
   cuotasLocatario |-> 1, partes |-> {"LOCADOR", "LOCATARIO"}]
MCGContratos == [c \in {"k1", "k2"} |->
  IF c = "k1" THEN Plazo("FIJO", 2, -1, 50, 0) ELSE Plazo("IPC", 4, 2, 0, 10)]
MCTabla == [f \in {1} |-> 10]
MCLotes == <<<<"k1">>, <<"k2">>>>
MCOpciones == {
  [estrategia |-> "FULL_HISTORY", borrar |-> FALSE, seco |-> FALSE],
  [estrategia |-> "FULL_HISTORY", borrar |-> TRUE, seco |-> TRUE],
  [estrategia |-> "OPENING_BALANCE", borrar |-> TRUE, seco |-> FALSE]}
MCSimetria == Permutations({q1, q2})
=============================================================================
