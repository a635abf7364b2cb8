------------------------- MODULE MigracionAsientos -------------------------
(***************************************************************************)
(* The generation of the contractual entries (fase 4): requests to the     *)
(* ContractsMigrationService, sent by the script 02 in batches it may stop *)
(* waiting for, or by an operator for one contract; the script 03, which   *)
(* writes the entries itself.  A request works through its contracts one   *)
(* by one, with no transaction; the server may restart.                    *)
(***************************************************************************)
EXTENDS PlanMigracion

CONSTANTS
  GContratos,   \* [contract -> its terms]: see PlanMigracion
  Tabla,        \* the index values, by date
  Hoy,
  Opciones,     \* what an operator may ask: [estrategia, borrar, seco]
  Lotes,        \* sequence of the batches (sequences of contracts) of script 02
  Nadie,
  Peticiones,   \* requests the server may be working on at once
  MaxPeticiones, MaxCaidas \* bounds: requests and runs started; restarts

(* The contracts of the legacy database are finite in number, with whole    *)
(* dates and instalments; a batch is of some of them.                       *)
ASSUME GeneracionAssumption ==
  /\ IsFiniteSet(DOMAIN GContratos) /\ Hoy \in Int
  /\ \A c \in DOMAIN GContratos :
       /\ GContratos[c].inicio \in Int /\ GContratos[c].fin \in Int
       /\ GContratos[c].cuotasLocador \in Nat /\ GContratos[c].cuotasLocatario \in Nat
  /\ Lotes \in Seq(Seq(DOMAIN GContratos) \ {<<>>})
  /\ \A o \in Opciones : o.borrar \in BOOLEAN /\ o.seco \in BOOLEAN

VARIABLES
  asientosDe,   \* accountingentries: contract -> sequence, in order of creation
  peticion,     \* [Peticiones -> the request in progress]
  lote,         \* script 02: the batch to send, 0 when it is not running
  espera,       \* the request script 02 waits for, or none
  directo,      \* script 03: the contracts to go, or not running
  informe,      \* history: contract -> what its last request answered
  solapados,    \* history: contracts two generations have worked on at once
  pedidas, caidas

generacion == <<asientosDe, peticion, lote, espera, directo, informe, solapados, pedidas, caidas>>

SinPeticion == [fase |-> "libre", lista |-> <<>>, k |-> 1, plan |-> <<>>, tope |-> 0,
                estrategia |-> "FULL_HISTORY", borrar |-> FALSE, seco |-> FALSE]
Parado == [activo |-> FALSE, lista |-> <<>>]

GInit ==
  /\ asientosDe = [c \in DOMAIN GContratos |-> <<>>]
  /\ peticion = [r \in Peticiones |-> SinPeticion]
  /\ lote = 0 /\ espera = Nadie /\ directo = Parado
  /\ informe = [c \in DOMAIN GContratos |-> "nada"]
  /\ solapados = {}
  /\ pedidas = 0 /\ caidas = 0

PlanDe(c, estrategia) ==
  IF estrategia = "OPENING_BALANCE" THEN PlanApertura(GContratos[c], Tabla, Hoy)
  ELSE PlanHistorial(GContratos[c], Tabla)

----------------------------------------------------------------------------
(* The contracts a request has in front of it or under way.                 *)
Alcance(q) == {q.lista[i] : i \in DOMAIN q.lista}
EnObra == (UNION {Alcance(peticion[r]) : r \in Peticiones}) \cup Alcance(directo)

(* generateAccountingEntriesForMigratedContracts: the contracts are loaded. *)
Pedir(r, contratos, estrategia, borrar, seco) ==
  /\ peticion[r].fase = "libre" /\ pedidas < MaxPeticiones
  /\ peticion' = [peticion EXCEPT ![r] =
       [SinPeticion EXCEPT !.fase = "contar", !.lista = contratos,
                           !.estrategia = estrategia, !.borrar = borrar, !.seco = seco]]
  /\ solapados' = solapados \cup (EnObra \cap {contratos[i] : i \in DOMAIN contratos})
  /\ pedidas' = pedidas + 1

(* migrateSpecificContract: an operator asks for one.                       *)
MigrateSpecificContract(r, c, estrategia, borrar, seco) ==
  /\ Pedir(r, <<c>>, estrategia, borrar, seco)
  /\ UNCHANGED <<asientosDe, lote, espera, directo, informe, caidas>>

(* processContract, first half: the entries it has are counted; then they   *)
(* are deleted, or their existence is an error.                             *)
Actual(r) == peticion[r].lista[1]
ContratoSiguiente(q) == IF Len(q.lista) = 1 THEN SinPeticion
                ELSE [q EXCEPT !.fase = "contar", !.lista = Tail(@), !.k = 1]
ConResultado(r, resultado) ==
  /\ peticion' = [peticion EXCEPT ![r] = ContratoSiguiente(@)]
  /\ informe' = [informe EXCEPT ![Actual(r)] = IF peticion[r].seco THEN @ ELSE resultado]

ConPlan(q, c) ==
  LET plan == PlanDe(c, q.estrategia)
  IN  [q EXCEPT !.fase = "generar", !.k = 1, !.plan = plan, !.tope = Interrupcion(GContratos[c], Tabla, plan)]

(* Mutant: the existing entries are counted and never deleted.              *)
ContarSinBorrar(r) ==
  LET q == peticion[r]
      c == Actual(r)
  IN  /\ q.fase = "contar"
      /\ IF asientosDe[c] = <<>> \/ q.borrar
         THEN peticion' = [peticion EXCEPT ![r] = ConPlan(q, c)] /\ UNCHANGED informe
         ELSE ConResultado(r, "error")
      /\ UNCHANGED <<asientosDe, lote, espera, directo, solapados, pedidas, caidas>>

Contar(r) ==
  LET q == peticion[r]
      c == Actual(r)
  IN  /\ q.fase = "contar"
      /\ IF asientosDe[c] = <<>>
         THEN peticion' = [peticion EXCEPT ![r] = ConPlan(q, c)] /\ UNCHANGED informe
         ELSE IF q.borrar
         THEN peticion' = [peticion EXCEPT ![r].fase = "borrar"] /\ UNCHANGED informe
         ELSE ConResultado(r, "error")
      /\ UNCHANGED <<asientosDe, lote, espera, directo, solapados, pedidas, caidas>>

BorrarExistentes(r) ==
  LET q == peticion[r]
  IN  /\ q.fase = "borrar"
      /\ asientosDe' = IF q.seco THEN asientosDe ELSE [asientosDe EXCEPT ![Actual(r)] = <<>>]
      /\ peticion' = [peticion EXCEPT ![r] = ConPlan(q, Actual(r))]
      /\ UNCHANGED <<lote, espera, directo, informe, solapados, pedidas, caidas>>

(* Second half: the entries, one create() after another.  An error leaves   *)
(* what was written, and the next contract follows.                         *)
CrearAsiento(r) ==
  LET q == peticion[r]
  IN  /\ q.fase = "generar" /\ q.k <= q.tope
      /\ asientosDe' = IF q.seco THEN asientosDe
                       ELSE [asientosDe EXCEPT ![Actual(r)] = Append(@, q.plan[q.k])]
      /\ peticion' = [peticion EXCEPT ![r].k = @ + 1]
      /\ UNCHANGED <<lote, espera, directo, informe, solapados, pedidas, caidas>>

(* Mutant: the error is reported as a success.                              *)
ContratoProcesadoSiempreBien(r) ==
  LET q == peticion[r]
  IN  /\ q.fase = "generar" /\ q.k > q.tope
      /\ ConResultado(r, "exito")
      /\ UNCHANGED <<asientosDe, lote, espera, directo, solapados, pedidas, caidas>>

ContratoProcesado(r) ==
  LET q == peticion[r]
  IN  /\ q.fase = "generar" /\ q.k > q.tope
      /\ ConResultado(r, IF q.tope = Len(q.plan) THEN "exito" ELSE "error")
      /\ UNCHANGED <<asientosDe, lote, espera, directo, solapados, pedidas, caidas>>

----------------------------------------------------------------------------
(* Script 02: the batches one after another, deleteExisting always; a batch *)
(* that answers nothing in ten minutes is reported as failed, and the next  *)
(* one is sent while the server may still be working on it.                 *)
EmpezarLotes(seco) ==
  /\ lote = 0 /\ pedidas < MaxPeticiones
  /\ lote' = IF seco THEN -1 ELSE 1
  /\ UNCHANGED <<asientosDe, peticion, espera, directo, informe, solapados, pedidas, caidas>>

NumeroDeLote == IF lote < 0 THEN -lote ELSE lote
EnviarLote(r) ==
  /\ lote # 0 /\ espera = Nadie /\ NumeroDeLote <= Len(Lotes)
  /\ Pedir(r, Lotes[NumeroDeLote], "FULL_HISTORY", TRUE, lote < 0)
  /\ espera' = r
  /\ UNCHANGED <<asientosDe, lote, directo, informe, caidas>>

(* The answer, or the time-out.                                             *)
LoteSiguiente ==
  /\ lote # 0 /\ espera # Nadie
  /\ espera' = Nadie
  /\ lote' = IF NumeroDeLote = Len(Lotes) THEN 0 ELSE IF lote < 0 THEN lote - 1 ELSE lote + 1
  /\ UNCHANGED <<asientosDe, peticion, directo, informe, solapados, pedidas, caidas>>

(* Script 03: every entry is deleted, the contracts are read, and each one  *)
(* gets its entries in one insertMany.                                      *)
EmpezarDirecto ==
  /\ ~ directo.activo /\ pedidas < MaxPeticiones
  /\ asientosDe' = [c \in DOMAIN GContratos |-> <<>>]
  /\ directo' = [activo |-> TRUE, lista |-> SetToSeq(DOMAIN GContratos)]
  /\ solapados' = EnObra
  /\ informe' = [c \in DOMAIN GContratos |-> "nada"]
  /\ pedidas' = pedidas + 1
  /\ UNCHANGED <<peticion, lote, espera, caidas>>

InsertarDirecto ==
  /\ directo.activo
  /\ IF directo.lista = <<>> THEN directo' = Parado /\ UNCHANGED <<asientosDe, informe>>
     ELSE LET c == Head(directo.lista)
          IN  /\ asientosDe' = [asientosDe EXCEPT ![c] = @ \o PlanDirecto(GContratos[c])]
              /\ informe' = [informe EXCEPT ![c] = "directo"]
              /\ directo' = [directo EXCEPT !.lista = Tail(@)]
  /\ UNCHANGED <<peticion, lote, espera, solapados, pedidas, caidas>>

(* It dies after any of its writes.                                         *)
MorirDirecto ==
  /\ directo.activo /\ caidas < MaxCaidas
  /\ directo' = Parado
  /\ caidas' = caidas + 1
  /\ UNCHANGED <<asientosDe, peticion, lote, espera, informe, solapados, pedidas>>

(* The server restarts: its requests end where they stand.                  *)
Reiniciar ==
  /\ caidas < MaxCaidas
  /\ \E r \in Peticiones : peticion[r].fase # "libre"
  /\ peticion' = [r \in Peticiones |-> SinPeticion]
  /\ informe' = [c \in DOMAIN GContratos |->
       IF \E r \in Peticiones : c \in Alcance(peticion[r]) /\ ~ peticion[r].seco THEN "error" ELSE informe[c]]
  /\ caidas' = caidas + 1
  /\ UNCHANGED <<asientosDe, lote, espera, directo, solapados, pedidas>>

GNext ==
  \/ \E r \in Peticiones :
       \/ \E c \in DOMAIN GContratos, o \in Opciones :
            MigrateSpecificContract(r, c, o.estrategia, o.borrar, o.seco)
       \/ Contar(r) \/ BorrarExistentes(r) \/ CrearAsiento(r) \/ ContratoProcesado(r)
       \/ EnviarLote(r)
  \/ \E s \in BOOLEAN : EmpezarLotes(s)
  \/ LoteSiguiente \/ EmpezarDirecto \/ InsertarDirecto \/ MorirDirecto \/ Reiniciar

GSpec == GInit /\ [][GNext]_generacion

----------------------------------------------------------------------------
(* Properties.                                                              *)

Planes(c) == {PlanDe(c, "FULL_HISTORY"), PlanDe(c, "OPENING_BALANCE"), PlanDirecto(GContratos[c])}

(* Until two generations work on a contract at once, its entries are the    *)
(* beginning of one plan: a month is never charged twice, whatever failed,  *)
(* timed out, was restarted or generated again (processContract's count and *)
(* delete).                                                                 *)
GeneracionUnica ==
  \A c \in DOMAIN GContratos \ solapados : \E plan \in Planes(c) : IsPrefix(asientosDe[c], plan)

(* A contract that the service reported as migrated has a whole plan,       *)
(* until another request takes it on.                                       *)
ExitoCompleto ==
  \A c \in DOMAIN GContratos \ (solapados \cup EnObra) :
    informe[c] = "exito" => asientosDe[c] \in Planes(c)

(* The generation as a whole: one plan, and whole when it is reported so.   *)
GeneracionFiel == GeneracionUnica /\ ExitoCompleto
=============================================================================
