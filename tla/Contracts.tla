----------------------------- MODULE Contracts -----------------------------
(***************************************************************************)
(* ContractsService and PropertiesService: the life of a contract, the     *)
(* entries its activation generates through the shared builder, and the    *)
(* property it takes.  None of it runs in a transaction: a request awaits  *)
(* between its writes, and stops at the first error.                       *)
(***************************************************************************)
EXTENDS EntryBuilder

CONSTANTS
  Contratos, Propiedades,
  Terminos,   \* [Contratos -> the data of the contract]: see TerminosAssumption
  DtosContrato,  \* UpdateContractDto values: [status, hitos]
  DtosPropiedad, \* UpdatePropertyDto values: [status, liberar]
  Altas,      \* CreateContractDto values: [status, hitos]
  Agentes, Nadie,
  MaxOps      \* bound: requests started in a behaviour

(* meses: the contract's months; ajuste: ajuste_periodicidad_meses; fijo:   *)
(* a FIJO index; deposito: -1 when the dto has none; honorarios: the fee of *)
(* each instalment; cuotas: how many (0 when the percentage is 0).          *)
ASSUME TerminosAssumption ==
  Terminos \in [Contratos ->
    [propiedad : Propiedades, meses : Nat, monto : Nat, comision : Nat, ajuste : Nat, fijo : BOOLEAN,
     deposito : Int, honorarios : Nat, cuotasLocador : Nat, cuotasLocatario : Nat,
     locador : Agentes, locatario : Agentes]]

EstadosContrato == {"VIGENTE", "FINALIZADO", "RESCINDIDO", "PENDIENTE"}
EstadosPropiedad == {"DISPONIBLE", "ALQUILADO", "RESERVADO", "INACTIVO"}

(* The plan of accounts that is loaded with the system (nest-propietasV3.   *)
(* chartofaccounts.json) has the six accounts of an activation.             *)
ASSUME CuentasAssumption ==
  {"CXC_ALQ", "CXP_LOC", "ING_HNR", "ING_HNR_INIC", "PAS_DEP", "ACT_FID"} \subseteq Codigos

(* Nadie is the agent of a partida without one.  That a contract is between *)
(* two different agents, and the agency is not the landlord, is the         *)
(* business; no code checks it.                                             *)
Inmobiliaria == "inmobiliaria"
ASSUME PartesAssumption ==
  /\ Nadie \notin Agentes
  /\ \A c \in Contratos : Terminos[c].locador \notin {Terminos[c].locatario, Inmobiliaria}

(* "igual" stands for a field that a dto does not carry.                    *)
ASSUME DtosAssumption ==
  /\ DtosContrato \subseteq [status : EstadosContrato \cup {"igual"}, hitos : {"si", "no", "igual"}]
  /\ DtosPropiedad \subseteq [status : EstadosPropiedad \cup {"igual"}, liberar : BOOLEAN]
  /\ Altas \subseteq [status : EstadosContrato, hitos : BOOLEAN]

VARIABLES
  contrato,   \* [c -> [vida, status, hitos]]: hitos stands for the six milestones
  propiedad,  \* [p -> [status, vigente]]: vigente is contrato_vigente_id
  asientos,   \* [c -> sequence of the entries with that contrato_id]
  activados,  \* history: times c went from PENDIENTE to VIGENTE
  pedido,     \* [r -> the request in progress]
  solape,     \* history: two requests have been in progress at the same time
  ops

ctrVars == <<contrato, propiedad, asientos, activados, pedido, solape, ops>>
cvars == <<ctrVars, bldVars>>

SinContrato == "sin contrato"
Ausente == [vida |-> "ausente", status |-> "PENDIENTE", hitos |-> FALSE]

(* fase of a request: "libre"; "actualizar", "generar", "armando" in        *)
(* update(); "propiedad" in create(); "borrar" in deleteWithEntries();      *)
(* "escribir" in PropertiesService.update().  k: the next entry of the plan.*)
SinPedido == [fase |-> "libre", c |-> SinContrato, p |-> SinContrato, status |-> "igual",
              hitos |-> "igual", liberar |-> FALSE, generar |-> FALSE, k |-> 1]

CInit ==
  /\ BldInit
  /\ contrato = [c \in Contratos |-> Ausente]
  /\ propiedad = [p \in Propiedades |-> [status |-> "DISPONIBLE", vigente |-> SinContrato]]
  /\ asientos = [c \in Contratos |-> <<>>]
  /\ activados = [c \in Contratos |-> 0]
  /\ pedido = [r \in Requests |-> SinPedido]
  /\ solape = FALSE /\ ops = 0

----------------------------------------------------------------------------
(* The entries that an activation generates, in order.                      *)

(* The rents: one per month.  The months of adjustment are marked           *)
(* adjustable, but the state that the builder is given ends up in metadata. *)
MesesAjuste(t) == IF t.ajuste = 0 \/ t.ajuste > t.meses THEN 12 ELSE t.ajuste
EsMesAjuste(t, mes) == ~ t.fijo /\ mes > 1 /\ (mes - 1) % MesesAjuste(t) = 0
Rents(t) ==
  [mes \in 1 .. t.meses |->
     CreateMonthlyRentEntry(t.monto, t.comision, EsMesAjuste(t, mes),
                            t.locatario, t.locador, Inmobiliaria)]

Deposit(t) == <<CreateDepositEntry("COBRO", t.deposito, t.locatario, t.locador, Nadie),
                CreateDepositEntry("DEVOLUCION", t.deposito, t.locatario, t.locador, Nadie)>>

Honorarios(t) ==
  [i \in 1 .. t.cuotasLocador |->
     CreateHonorariosEntry("LOCADOR", t.honorarios, t.locador, Inmobiliaria)]
  \o [i \in 1 .. t.cuotasLocatario |->
     CreateHonorariosEntry("LOCATARIO", t.honorarios, t.locatario, Inmobiliaria)]

Plan(c) == Rents(Terminos[c]) \o Deposit(Terminos[c]) \o Honorarios(Terminos[c])

----------------------------------------------------------------------------
Libre(r) ==
  /\ pedido[r].fase = "libre" /\ ops < MaxOps
  /\ ops' = ops + 1
  /\ solape' = (solape \/ \E s \in Requests : pedido[s].fase # "libre")
Terminar(r) == pedido' = [pedido EXCEPT ![r] = SinPedido]

(* create(): the contract is saved with the status of the dto, and then the *)
(* property, whoever holds it, is given to it.                              *)
Create(r, c, e) ==
  /\ Libre(r)
  /\ contrato[c].vida = "ausente"
  /\ contrato' = [contrato EXCEPT ![c] = [vida |-> "vivo", status |-> e.status, hitos |-> e.hitos]]
  /\ pedido' = [pedido EXCEPT ![r] = [SinPedido EXCEPT !.fase = "propiedad", !.c = c]]
  /\ UNCHANGED <<propiedad, asientos, activados, bldVars>>

TomarPropiedad(r) ==
  /\ pedido[r].fase = "propiedad"
  /\ propiedad' = [propiedad EXCEPT ![Terminos[pedido[r].c].propiedad] =
                     [status |-> "ALQUILADO", vigente |-> pedido[r].c]]
  /\ Terminar(r)
  /\ UNCHANGED <<contrato, asientos, activados, solape, ops, bldVars>>

(* The milestones with those of a dto.                                      *)
Hitos(c, h) == IF h = "igual" THEN contrato[c].hitos ELSE h = "si"

(* update(): an activation first reads the contract and checks the          *)
(* milestones; it will generate the entries if it read PENDIENTE.           *)
Update(r, c, dto) ==
  /\ Libre(r)
  /\ contrato[c].vida = "vivo"
  /\ dto.status = "VIGENTE" => Hitos(c, dto.hitos)
  /\ pedido' = [pedido EXCEPT ![r] = [SinPedido EXCEPT
       !.fase = "actualizar", !.c = c, !.status = dto.status, !.hitos = dto.hitos,
       !.generar = dto.status = "VIGENTE" /\ contrato[c].status = "PENDIENTE"]]
  /\ UNCHANGED <<contrato, propiedad, asientos, activados, bldVars>>

(* findByIdAndUpdate, whatever the status is by now.                        *)
Actualizar(r) ==
  LET q == pedido[r]
      c == q.c
      s == IF q.status = "igual" THEN contrato[c].status ELSE q.status
  IN  /\ q.fase = "actualizar"
      /\ IF contrato[c].vida = "vivo"
         THEN /\ contrato' = [contrato EXCEPT ![c].status = s, ![c].hitos = Hitos(c, q.hitos)]
              /\ activados' = [activados EXCEPT ![c] =
                   IF s = "VIGENTE" /\ contrato[c].status = "PENDIENTE" THEN @ + 1 ELSE @]
              /\ IF q.generar THEN pedido' = [pedido EXCEPT ![r].fase = "generar"]
                 ELSE Terminar(r)
         ELSE Terminar(r) /\ UNCHANGED <<contrato, activados>>
      /\ UNCHANGED <<propiedad, asientos, solape, ops, bldVars>>

(* The next entry of the plan is asked of the factory.  A deposit without   *)
(* amount makes the totals NaN, which build() lets through and the schema   *)
(* refuses.                                                                 *)
SinMonto(llamada) == \E k \in DOMAIN llamada.partidas : llamada.partidas[k].debe < 0

Generar(r) ==
  LET q == pedido[r]
  IN  /\ q.fase = "generar"
      /\ IF q.k <= Len(Plan(q.c)) /\ ~ SinMonto(Plan(q.c)[q.k])
         THEN /\ pedido' = [pedido EXCEPT ![r].fase = "armando"]
              /\ Llamar(r, Plan(q.c)[q.k])
         ELSE Terminar(r) /\ UNCHANGED bldVars
      /\ UNCHANGED <<contrato, propiedad, asientos, activados, solape, ops>>

BuscarCuenta(r) ==
  /\ GetAccountByCode(r)
  /\ UNCHANGED ctrVars

(* accountingEntriesService.create() of what build() returned.              *)
GuardarAsiento(r) ==
  LET q == pedido[r]
      b == cadena[r].armado
  IN  /\ cadena[r].fase = "armado"
      /\ asientos' = [asientos EXCEPT ![q.c] =
           Append(@, [tipo |-> b.tipo, estado |-> "PENDIENTE", ajuste |-> b.ajuste,
                      partidas |-> b.partidas])]
      /\ pedido' = [pedido EXCEPT ![r].fase = "generar", ![r].k = @ + 1]
      /\ cadena' = [cadena EXCEPT ![r] = SinCadena]
      /\ UNCHANGED <<contrato, propiedad, activados, solape, ops,
                     constructor, cuentas>>

(* build() or the look-up threw: the request ends where it stands.          *)
GeneracionInterrumpida(r) ==
  /\ cadena[r].fase = "error"
  /\ Terminar(r)
  /\ cadena' = [cadena EXCEPT ![r] = SinCadena]
  /\ UNCHANGED <<contrato, propiedad, asientos, activados, solape, ops,
                 constructor, cuentas>>

(* deleteWithEntries(): the entries, then the contract.  The property keeps *)
(* pointing to it.                                                          *)
DeleteWithEntries(r, c) ==
  /\ Libre(r)
  /\ contrato[c].vida = "vivo"
  /\ asientos' = [asientos EXCEPT ![c] = <<>>]
  /\ pedido' = [pedido EXCEPT ![r] = [SinPedido EXCEPT !.fase = "borrar", !.c = c]]
  /\ UNCHANGED <<contrato, propiedad, activados, bldVars>>

BorrarContrato(r) ==
  /\ pedido[r].fase = "borrar"
  /\ contrato' = [contrato EXCEPT ![pedido[r].c].vida = "borrado"]
  /\ Terminar(r)
  /\ UNCHANGED <<propiedad, asientos, activados, solape, ops, bldVars>>

----------------------------------------------------------------------------
(* PropertiesService.                                                       *)

(* Mutant: a property under contract can be set free by hand.               *)
UpdatePropertySinGuarda(r, p, dto) ==
  /\ Libre(r)
  /\ pedido' = [pedido EXCEPT ![r] = [SinPedido EXCEPT
       !.fase = "escribir", !.p = p, !.status = dto.status, !.liberar = dto.liberar]]
  /\ UNCHANGED <<contrato, propiedad, asientos, activados, bldVars>>

(* update(): DISPONIBLE is refused to a property under contract.            *)
UpdateProperty(r, p, dto) ==
  /\ Libre(r)
  /\ ~ (propiedad[p].vigente # SinContrato /\ dto.status = "DISPONIBLE")
  /\ pedido' = [pedido EXCEPT ![r] = [SinPedido EXCEPT
       !.fase = "escribir", !.p = p, !.status = dto.status, !.liberar = dto.liberar]]
  /\ UNCHANGED <<contrato, propiedad, asientos, activados, bldVars>>

EscribirPropiedad(r) ==
  LET q == pedido[r]
  IN  /\ q.fase = "escribir"
      /\ propiedad' = [propiedad EXCEPT
           ![q.p].status = IF q.status = "igual" THEN @ ELSE q.status,
           ![q.p].vigente = IF q.liberar THEN SinContrato ELSE @]
      /\ Terminar(r)
      /\ UNCHANGED <<contrato, asientos, activados, solape, ops, bldVars>>

----------------------------------------------------------------------------
EnReposo == \A r \in Requests : pedido[r].fase = "libre"

CNext ==
  \/ \E r \in Requests :
       \/ \E c \in Contratos : \/ \E e \in Altas : Create(r, c, e)
                               \/ \E dto \in DtosContrato : Update(r, c, dto)
                               \/ DeleteWithEntries(r, c)
       \/ \E p \in Propiedades, dto \in DtosPropiedad : UpdateProperty(r, p, dto)
       \/ TomarPropiedad(r) \/ Actualizar(r) \/ Generar(r) \/ BuscarCuenta(r)
       \/ GuardarAsiento(r) \/ GeneracionInterrumpida(r)
       \/ BorrarContrato(r) \/ EscribirPropiedad(r)
  \/ EnReposo /\ UNCHANGED cvars

CSpec == CInit /\ [][CNext]_cvars

----------------------------------------------------------------------------
(* Properties.                                                              *)

(* Every stored entry is balanced, even one that the shared builder mixed   *)
(* from the calls of two requests.                                          *)
AsientosBalanceados ==
  \A c \in Contratos : \A k \in DOMAIN asientos[c] :
    TotalDebe(asientos[c][k].partidas) - TotalHaber(asientos[c][k].partidas)
      \in -Centavos .. Centavos

(* What an agent is charged ("debe") or credited ("haber"), by the partidas *)
(* of an entry and by the entries of a contract.                            *)
Imputado(partidas, g, lado) ==
  SumFunctionOnSet([j \in DOMAIN partidas |->
                      IF partidas[j].agente = g THEN partidas[j][lado] ELSE 0], DOMAIN partidas)
Acumulado(c, g, lado) ==
  SumFunctionOnSet([k \in DOMAIN asientos[c] |-> Imputado(asientos[c][k].partidas, g, lado)],
                   DOMAIN asientos[c])
Cargo(c, g) == Acumulado(c, g, "debe")
Credito(c, g) == Acumulado(c, g, "haber")

(* Until two requests overlap, the activation of a contract charges the     *)
(* tenant the rents, the deposit and the fees of its terms, and credits the *)
(* owner the rents net of commission and the deposit, once for each         *)
(* activation: none is lost, repeated or half made, however often the       *)
(* status is taken back.                                                    *)
ContratoContabilizado ==
  EnReposo /\ ~ solape => \A c \in Contratos :
    contrato[c].vida = "vivo" /\ Terminos[c].deposito >= 0 =>
      LET t == Terminos[c] IN
      /\ Cargo(c, t.locatario) =
           activados[c] * (t.meses * t.monto + t.deposito + t.cuotasLocatario * t.honorarios)
      /\ Credito(c, t.locador) =
           activados[c] * (t.meses * (t.monto - t.comision) + t.deposito)
      /\ Cargo(c, t.locador) = activados[c] * t.cuotasLocador * t.honorarios

(* Until two requests overlap, a property is free only when no contract     *)
(* holds it, though the operators write its status by hand                  *)
(* (PropertiesService.update).                                              *)
DisponibleSinContrato ==
  ~ solape => \A p \in Propiedades :
    propiedad[p].status = "DISPONIBLE" => propiedad[p].vigente = SinContrato

----------------------------------------------------------------------------
(* What the documentation and the comments say, and the code does not do.   *)

(* "DEBE [CXC_ALQ]: Cargo al Locatario por el monto total", "HABER          *)
(* [CXP_LOC]", "HABER [ING_HNR]" (accounting-entry.factory.ts:63-65): a     *)
(* rent has these three partidas.  Two calls interleaved on the cold cache  *)
(* mix them.                                                                *)
EstructuraAlquiler ==
  \A c \in Contratos : \A k \in DOMAIN asientos[c] :
    asientos[c][k].tipo = "Alquiler" => Len(asientos[c][k].partidas) = 3
=============================================================================
