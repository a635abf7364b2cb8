-------------------------- MODULE ContractSettings --------------------------
(***************************************************************************)
(* ContractSettingsService: the one active document of defaults that       *)
(* contracts are drawn up with.  The general values are $set one by one;   *)
(* the list of contract types is written whole, from a copy.               *)
(***************************************************************************)
EXTENDS Peticiones

CONSTANTS
  TiposDeContrato,
  SinConfig,        \* no document yet (a model value)
  Porcentajes       \* values that a request may give a type or the general part

VARIABLES
  ajustes_,  \* SinConfig, or [general, tipos]
  pedidos    \* history: what was last asked for, by initialization or a request

configVars == <<ajustes_, pedidos>>

(* Of a type, the tenant's fee: a type may have none of its own.            *)
SinValor == -1
PorDefecto == 5
Defaults ==
  [general |-> PorDefecto,
   tipos |-> [t \in TiposDeContrato |-> CASE t \in {"VIVIENDA_UNICA", "VIVIENDA"} -> 2
                                        [] t = "COMERCIAL" -> 5 [] OTHER -> SinValor]]

InitConfig == ajustes_ = SinConfig /\ pedidos = Defaults

----------------------------------------------------------------------------
(* initializeDefaults(): $setOnInsert, under the unique index on activo.    *)
InitializeDefaults ==
  /\ Atomica
  /\ ajustes_' = IF ajustes_ = SinConfig THEN Defaults ELSE ajustes_
  /\ UNCHANGED pedidos

(* getSettings() throws without a document; then the handler's write.       *)
Pedir(r, general, tipos, pide) ==
  /\ ajustes_ # SinConfig
  /\ Comenzar(r, [paso |-> "escribir", general |-> general, tipos |-> tipos])
  /\ pedidos' = pide
  /\ UNCHANGED ajustes_

(* updateHonorariosForTipo(): the types as they were read, one replaced.    *)
UpdateHonorariosForTipo(r, t, x) ==
  Pedir(r, {}, {[ajustes_.tipos EXCEPT ![t] = x]}, [pedidos EXCEPT !.tipos[t] = x])

(* updateSettings(): the fields that the dto names, the types as a whole.   *)
UpdateSettings(r, x, conTipos, propio) ==
  LET tipos == [t \in TiposDeContrato |-> propio]
  IN  Pedir(r, {x}, IF conTipos THEN {tipos} ELSE {},
            [general |-> x, tipos |-> IF conTipos THEN tipos ELSE pedidos.tipos])

(* Mutant: the types are reset from a copy too.                             *)
ResetToDefaultsConTipos(r) == Pedir(r, {PorDefecto}, {Defaults.tipos}, [pedidos EXCEPT !.general = PorDefecto])

(* resetToDefaults(): every general value; the types keep their overrides.  *)
ResetToDefaults(r) == Pedir(r, {PorDefecto}, {}, [pedidos EXCEPT !.general = PorDefecto])

(* findByIdAndUpdate(): $set of what the request carries.                   *)
Escribir(r) ==
  LET q == op[r]
  IN  /\ q.paso = "escribir"
      /\ ajustes_' = [general |-> IF q.general = {} THEN ajustes_.general
                                  ELSE CHOOSE x \in q.general : TRUE,
                      tipos |-> IF q.tipos = {} THEN ajustes_.tipos
                                ELSE CHOOSE x \in q.tipos : TRUE]
      /\ Terminar(r)
      /\ UNCHANGED pedidos

NextConfig ==
  \/ InitializeDefaults
  \/ \E r \in Requests :
       \/ \E x \in Porcentajes : \/ \E t \in TiposDeContrato : UpdateHonorariosForTipo(r, t, x)
                                 \/ \E b \in BOOLEAN, y \in {SinValor, x} : UpdateSettings(r, x, b, y)
       \/ ResetToDefaults(r) \/ Escribir(r)

(* getSettingsByTipoContrato(): the fee a contract of the type is drawn up  *)
(* with.                                                                    *)
HonorariosEfectivos(t) ==
  IF ajustes_.tipos[t] # SinValor THEN ajustes_.tipos[t]
  ELSE CASE t \in {"VIVIENDA_UNICA", "VIVIENDA"} -> 2 [] t = "COMERCIAL" -> 5
       [] OTHER -> ajustes_.general

----------------------------------------------------------------------------
(* Properties.                                                              *)

(* Until two requests overlap, the settings are what was last asked for of  *)
(* each value: an override of one contract type survives the updates of the *)
(* others, of the general part and its reset; and a type is drawn up with   *)
(* its override, or else with what its rule says (the same as its default), *)
(* or else, if it has no rule, with the general value.                      *)
ConfiguracionPedida ==
  ~ solape /\ EnCurso = {} /\ ajustes_ # SinConfig =>
    /\ ajustes_ = pedidos
    /\ \A t \in TiposDeContrato :
         HonorariosEfectivos(t) = IF pedidos.tipos[t] # SinValor THEN pedidos.tipos[t]
                                  ELSE IF Defaults.tipos[t] # SinValor THEN Defaults.tipos[t]
                                  ELSE pedidos.general
=============================================================================
