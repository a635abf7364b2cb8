----------------------------- MODULE Registros -----------------------------
(***************************************************************************)
(* The components that share no state with the others or with each other:  *)
(* a behaviour takes one of them, foco, through its steps, or none.  The   *)
(* machinery of requests is declared once; the cash box keeps its own      *)
(* record of a request in opCaja.                                          *)
(***************************************************************************)
EXTENDS Integers, FiniteSets

CONSTANTS
  Requests,     \* requests that may be in progress at the same time
  MaxMuertes,   \* bound: requests that die, or restarts
  Importes,     \* CashBox
  Propiedades, MaxVersiones, NoVersion,                 \* Inventory
  MaxArchivos,                                          \* PropertyFiles
  Mails, Sincs, HorasDelDia, Margen, Duracion, MaxHora, \* MailSync
  Enteras, Ventana, MaxFecha,                           \* IndexValues
  TiposDeContrato, SinConfig, Porcentajes,              \* ContractSettings
  Jids, Codigos, Vigencia, MaxMinuto,                   \* OtpVerification
  Llegan, Ilegibles, Repite, CheckPeriodDays, MaxDia            \* RedLinkScan

(* The requests are finitely many; a notice says which one it repeats; the  *)
(* margin of the mailbox's search covers the hours that a fetch may last;   *)
(* and what stands for the absence of a document is none.                   *)
ASSUME PeticionesAssumption == IsFiniteSet(Requests)
ASSUME AvisosAssumption == Repite \in [Llegan -> Llegan]
ASSUME CorreoAssumption ==
  HorasDelDia \in Nat \ {0} /\ Margen \in Nat /\ Duracion \in 0 .. Margen
ASSUME InventarioAssumption ==
  /\ MaxVersiones \in Nat
  /\ NoVersion \notin Nat \cup [de : Propiedades, numero : Nat, status : {"DRAFT", "ACTIVE", "ARCHIVED"}]
ASSUME ConfigAssumption ==
  Porcentajes \subseteq Nat /\ SinConfig \notin [general : Int, tipos : [TiposDeContrato -> Int]]
ASSUME IndicesAssumption == Ventana \in Nat /\ MaxFecha \in Nat /\ "IPC" \in Enteras
ASSUME OtpAssumption == Vigencia \in Nat
ASSUME CajaAssumption == Importes \subseteq Int

VARIABLES
  foco,
  op, ops, solape, muertes,
  opCaja, saldo, movs, ajustes, apertura, flujos, base, pisado,
  inventario, version, creadas, sinEnlace, borrada,
  lista, satelite, disco, dados, sueltos,
  llegada, mensaje, ultima, hora, sinc, vuelo, explicados, pedido,
  publicado, serie, ajena,
  ajustes_, pedidos,
  otps, minuto, probados, vinculados,
  llegado, dia, isScanning, emails, parseando, movimientos, buscados, perdidos

(* The bounds on the requests of a behaviour are each component's own.      *)
Caja        == INSTANCE CashBox WITH op <- opCaja, MaxOps <- 4
Inventarios == INSTANCE Inventory WITH MaxOps <- 3
Ficheros    == INSTANCE PropertyFiles WITH MaxOps <- 4
Bandeja     == INSTANCE MailSync WITH MaxOps <- 1
Indices     == INSTANCE IndexValues WITH MaxOps <- 3
Ajustes     == INSTANCE ContractSettings WITH MaxOps <- 4
Otp         == INSTANCE OtpVerification WITH MaxOps <- 5
Escaner     == INSTANCE RedLinkScan WITH MaxOps <- 2, Avisos <- Llegan

peticionesVars == <<op, ops, solape, muertes>>
cajaVars == <<opCaja, saldo, movs, ajustes, apertura, flujos, base, pisado>>
inventarioVars == <<inventario, version, creadas, sinEnlace, borrada>>
archivosVars == <<lista, satelite, disco, dados, sueltos>>
correoVars == <<llegada, mensaje, ultima, hora, sinc, vuelo, explicados, pedido>>
indicesVars == <<publicado, serie, ajena>>
configVars == <<ajustes_, pedidos>>
otpVars == <<otps, minuto, probados, vinculados>>
redlinkVars == <<llegado, dia, isScanning, emails, parseando, movimientos, buscados, perdidos>>
registrosVars == <<foco, peticionesVars, cajaVars, inventarioVars, archivosVars, correoVars,
                   indicesVars, configVars, otpVars, redlinkVars>>

Init ==
  /\ foco \in {"ninguno", "caja", "inventario", "archivos", "correo", "indices", "config", "otp",
               "redlink"}
  /\ Caja!XInit /\ Inventarios!InitPeticiones
  /\ Inventarios!InitInventario /\ Ficheros!InitArchivos
  /\ IF foco = "correo" THEN Bandeja!InitCorreo ELSE Bandeja!Buzon({}, "Nuevo")
  /\ Indices!InitIndices /\ Ajustes!InitConfig /\ Otp!InitOtp /\ Escaner!InitRedlink

(* Everything that is not of the component in focus.                        *)
LosDemas ==
  /\ UNCHANGED foco
  /\ IF foco = "caja" THEN TRUE ELSE UNCHANGED cajaVars
  /\ IF foco = "inventario" THEN TRUE ELSE UNCHANGED inventarioVars
  /\ IF foco = "archivos" THEN TRUE ELSE UNCHANGED archivosVars
  /\ IF foco = "correo" THEN TRUE ELSE UNCHANGED correoVars
  /\ IF foco = "indices" THEN TRUE ELSE UNCHANGED indicesVars
  /\ IF foco = "config" THEN TRUE ELSE UNCHANGED configVars
  /\ IF foco = "otp" THEN TRUE ELSE UNCHANGED otpVars
  /\ IF foco = "redlink" THEN TRUE ELSE UNCHANGED redlinkVars

Next ==
  /\ \/ foco = "caja" /\ Caja!XNext /\ UNCHANGED op
     \/ foco = "inventario" /\ Inventarios!NextInventario
     \/ foco = "archivos" /\ Ficheros!NextArchivos
     \/ foco = "correo" /\ Bandeja!NextCorreo
     \/ foco = "indices" /\ Indices!NextIndices
     \/ foco = "config" /\ Ajustes!NextConfig
     \/ foco = "otp" /\ Otp!NextOtp
     \/ foco = "redlink" /\ Escaner!NextRedlink
  /\ LosDemas

Spec == Init /\ [][Next]_registrosVars

----------------------------------------------------------------------------
(* Properties, stated in the components' modules.                           *)

(* CashBox: closures match their adjustments, and openings their closures.  *)
MovimientosDeCaja == foco = "caja" => Caja!MovimientosDeCaja
(* CashBox: the balance is explained unless it was overwritten unread.      *)
SaldoExplicado == foco = "caja" => Caja!SaldoExplicado
(* Inventory: no version is lost to its inventory.                          *)
InventarioEnlazado == foco = "inventario" => Inventarios!InventarioEnlazado
(* PropertyFiles: one cover, and a document and a disk that agree.          *)
ArchivosEnDisco == foco = "archivos" => Ficheros!ArchivosEnDisco
(* MailSync: no mail is left behind, and statuses are those asked for.      *)
BandejaFiel == foco = "correo" => Bandeja!BandejaFiel
(* IndexValues: the series of ICL has no gap.                               *)
SerieSinHuecos == foco = "indices" => Indices!SerieSinHuecos
(* What is written back from a copy, the settings of the contracts and the  *)
(* record of a code, was up to date: the settings are what was last asked   *)
(* for, and a code is one, counted and used once.                           *)
CopiasAlDia ==
  /\ foco = "config" => Ajustes!ConfiguracionPedida
  /\ foco = "otp" => Otp!UnSoloCodigo /\ Otp!VinculoComprobado
(* RedLinkScan: one scan at a time, which registers every notice it found.  *)
AvisosRegistrados == foco = "redlink" => Escaner!AvisosRegistrados

----------------------------------------------------------------------------
(* What the code says of itself and does not do.                            *)

(* "No permitir eliminar la versión actual" (inventory.service.ts:219): the *)
(* current version of an inventory exists.                                  *)
VersionActualExiste == Inventarios!VersionActualExiste
=============================================================================
