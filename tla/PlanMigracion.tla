--------------------------- MODULE PlanMigracion ---------------------------
(***************************************************************************)
(* The entries that the migration generates for a legacy contract, as the  *)
(* ContractsMigrationService (an opening balance plus the months to come,  *)
(* or the full history) and the script 03-generate-direct-mongodb compute  *)
(* them.  Dates are counted in half months (two per month: the 1st and the *)
(* 16th), amounts in cents.                                                *)
(***************************************************************************)
EXTENDS Integers, FiniteSets, Sequences, SequencesExt

(* Terms: monto, comision (per cent), indice ("FIJO", "ICL", "IPC"), inicio,*)
(* fin, ajuste (the first adjustment, -1 when there is none), deposito,     *)
(* honLocador, cuotasLocador, honLocatario, cuotasLocatario (per cent and   *)
(* instalments), partes (the roles it names).                               *)

(* Math.round of n / d, for n >= 0.                                         *)
Redondeo(n, d) == (2 * n + d) \div (2 * d)

(* calculateMonthsBetween: whole months, rounded down; and rounded up.      *)
MesesEntre(a, b) == (b - a) \div 2
MesesDelContrato(t) == -((t.inicio - t.fin) \div 2)

----------------------------------------------------------------------------
(* Index values: a table of dates and values.  The ICL is read at the date, *)
(* the IPC a month before it; 0 when there is none (for the IPC, an error). *)
Indice(tabla, tipo, fecha) ==
  LET hasta == IF tipo = "IPC" THEN fecha - 2 ELSE fecha
      previos == {f \in DOMAIN tabla : f <= hasta}
  IN  IF previos = {} THEN 0
      ELSE tabla[CHOOSE f \in previos : \A g \in previos : g <= f]

(* getAdjustmentPeriods: the k-th interval goes from the previous date of   *)
(* adjustment (the start, for the first) to the next one, six months later. *)
(* Intervals shorter than a month are left out.                             *)
Intervalo == 12
Comienzo(t, k) == IF k = 0 THEN t.inicio ELSE t.ajuste + Intervalo * (k - 1)
Periodo(t, k, hasta) ==
  LET aj == t.ajuste + Intervalo * k
      f  == IF aj < hasta THEN aj ELSE hasta
  IN  [inicio |-> Comienzo(t, k), fin |-> f, ajuste |-> aj, meses |-> MesesEntre(Comienzo(t, k), f)]
PeriodosDeAjuste(t, hasta) ==
  LET ks == {k \in 0 .. hasta : \A j \in 0 .. k : Comienzo(t, j) < hasta}
  IN  SelectSeq([i \in 1 .. Cardinality(ks) |-> Periodo(t, i - 1, hasta)], LAMBDA p : p.meses > 0)

Ajustado(monto, base, nuevo) == IF base > 0 /\ nuevo > 0 THEN Redondeo(monto * nuevo, base) ELSE monto

(* Mutant: every ratio is taken from the index at the start of the contract.*)
MontosAperturaDesdeElInicio(t, tabla, ps) ==
  LET monto[i \in 1 .. Len(ps)] ==
        IF i = 1 THEN t.monto
        ELSE Ajustado(monto[i - 1], Indice(tabla, t.indice, ps[1].inicio),
                                    Indice(tabla, t.indice, ps[i - 1].ajuste))
  IN  monto

(* calculateAccruedAmount: the rent of each period is the previous one      *)
(* times the index at the date of adjustment over the index at its start.   *)
MontosApertura(t, tabla, ps) ==
  LET monto[i \in 1 .. Len(ps)] ==
        IF i = 1 THEN t.monto
        ELSE Ajustado(monto[i - 1], Indice(tabla, t.indice, ps[i - 1].inicio),
                                    Indice(tabla, t.indice, ps[i - 1].ajuste))
  IN  monto

Devengado(t, tabla, hoy) ==
  IF t.indice = "FIJO" \/ t.ajuste = -1 THEN t.monto * MesesEntre(t.inicio, hoy)
  ELSE LET ps == PeriodosDeAjuste(t, hoy)
           montos == MontosApertura(t, tabla, ps)
           hasta[i \in 0 .. Len(ps)] == IF i = 0 THEN 0 ELSE hasta[i - 1] + montos[i] * ps[i].meses
       IN  hasta[Len(ps)]

(* generateFullHistoricalEntries: the rent of each month.  A new period     *)
(* adjusts the rent with the index of its own date of adjustment.           *)
RentasHistoricas(t, tabla) ==
  LET ps == IF t.indice = "FIJO" \/ t.ajuste = -1 THEN <<>> ELSE PeriodosDeAjuste(t, t.fin)
      cambia(e, n) == e.p < Len(ps) /\ t.inicio + 2 * (n - 1) >= ps[e.p].fin
      estado[n \in 0 .. MesesDelContrato(t)] ==
        IF n = 0 THEN [p |-> 1, monto |-> t.monto]
        ELSE LET e == estado[n - 1]
             IN  IF ~ cambia(e, n) THEN e
                 ELSE [p |-> e.p + 1,
                       monto |-> Ajustado(e.monto, Indice(tabla, t.indice, ps[e.p].inicio),
                                                   Indice(tabla, t.indice, ps[e.p + 1].ajuste))]
  IN  [n \in 1 .. MesesDelContrato(t) |-> estado[n].monto]

----------------------------------------------------------------------------
(* Entries.                                                                 *)
Partida(codigo, debe, haber, agente) ==
  [codigo |-> codigo, debe |-> debe, haber |-> haber, agente |-> agente]
Asiento(tipo, periodo, partidas) == [tipo |-> tipo, periodo |-> periodo, partidas |-> partidas]

Comision(t, monto) == Redondeo(monto * t.comision, 100)
PartidasAlquiler(t, monto) ==
  <<Partida("CXC_ALQ", monto, 0, "LOCATARIO"),
    Partida("CXP_LOC", 0, monto - Comision(t, monto), "LOCADOR"),
    Partida("ING_HNR", 0, Comision(t, monto), "NADIE")>>

(* generateOpeningBalanceEntry: nothing for a contract yet to start or a    *)
(* balance of 0.                                                            *)
Apertura(t, tabla, hoy) ==
  IF t.inicio > hoy \/ Devengado(t, tabla, hoy) = 0 THEN <<>>
  ELSE <<Asiento("SALDO_APERTURA_DEVENGADO", 0, PartidasAlquiler(t, Devengado(t, tabla, hoy)))>>

(* generateFutureEntries: from the 1st of next month to the end.            *)
Futuros(t, hoy) ==
  LET primero == 2 * (hoy \div 2) + 2
      cuantos == IF hoy >= t.fin \/ primero >= t.fin THEN 0 ELSE -((primero - t.fin) \div 2)
  IN  [n \in 1 .. cuantos |-> Asiento("Alquiler", primero + 2 * (n - 1), PartidasAlquiler(t, t.monto))]

(* Fees: a percentage of the base rent times the months, in instalments.    *)
TotalHonorarios(t, pct) == Redondeo(t.monto * MesesDelContrato(t) * pct, 100)
CuotaHonorarios(t, pct, cuotas) == Redondeo(TotalHonorarios(t, pct), cuotas)

HonorariosLocador(t) ==
  LET cuota == CuotaHonorarios(t, t.honLocador, t.cuotasLocador)
  IN  [i \in 1 .. IF cuota > 0 THEN t.cuotasLocador ELSE 0 |->
         Asiento("Honorarios Locador", i,
                 <<Partida("CXP_LOC", cuota, 0, "LOCADOR"), Partida("ING_HNR", 0, cuota, "NADIE")>>)]

HonorariosLocatario(t) ==
  LET cuota == CuotaHonorarios(t, t.honLocatario, t.cuotasLocatario)
  IN  [i \in 1 .. IF cuota > 0 THEN t.cuotasLocatario ELSE 0 |->
         Asiento("Honorarios Locatario", i,
                 <<Partida("CXC_ALQ", cuota, 0, "LOCATARIO"), Partida("ING_HNR", 0, cuota, "NADIE")>>)]

Depositos(t) ==
  IF t.deposito = 0 THEN <<>>
  ELSE <<Asiento("Deposito en Garantia - Cobro", 0,
                 <<Partida("CXC_ALQ", t.deposito, 0, "LOCATARIO"), Partida("ACT_FID", 0, t.deposito, "NADIE")>>),
         Asiento("Deposito en Garantia - Devolucion", 0,
                 <<Partida("ACT_FID", t.deposito, 0, "NADIE"), Partida("PAS_DEP", 0, t.deposito, "LOCADOR")>>)>>

Alquileres(t, tabla) ==
  LET rentas == RentasHistoricas(t, tabla)
  IN  [n \in DOMAIN rentas |-> Asiento("Alquiler", n, PartidasAlquiler(t, rentas[n]))]

(* The two strategies of processContract, in the order of their writes.     *)
PlanApertura(t, tabla, hoy) == Apertura(t, tabla, hoy) \o Futuros(t, hoy) \o Depositos(t)
PlanHistorial(t, tabla) == Alquileres(t, tabla) \o HonorariosLocador(t) \o HonorariosLocatario(t) \o Depositos(t)

(* 03-generate-direct-mongodb: no adjustments, every entry in one write; a  *)
(* contract without owner or tenant gets none.  (A fee whose percentage is  *)
(* positive is taken to be at least a cent.)                                *)
PlanDirecto(t) ==
  IF ~ {"LOCADOR", "LOCATARIO"} \subseteq t.partes THEN <<>>
  ELSE [n \in 1 .. MesesDelContrato(t) |-> Asiento("Alquiler Mensual", n, PartidasAlquiler(t, t.monto))]
         \o Depositos(t) \o HonorariosLocador(t) \o HonorariosLocatario(t)

(* What stops processContract midway: a partida of a party the contract     *)
(* does not name, or an IPC that is not in the table when the history       *)
(* reaches its adjustment.  Interrupcion is the number of entries written.  *)
ConParte(t, a) == \A i \in DOMAIN a.partidas : a.partidas[i].agente \in t.partes \cup {"NADIE"}
SinIndice(t, tabla) ==
  LET ps == IF t.indice # "IPC" \/ t.ajuste = -1 THEN <<>> ELSE PeriodosDeAjuste(t, t.fin)
  IN  {(ps[i - 1].fin - t.inicio + 1) \div 2 + 1 :
         i \in {j \in 2 .. Len(ps) : \/ Indice(tabla, "IPC", ps[j - 1].inicio) = 0
                                     \/ Indice(tabla, "IPC", ps[j].ajuste) = 0}}
Interrupcion(t, tabla, plan) ==
  LET malos == {k \in DOMAIN plan : ~ ConParte(t, plan[k])} \cup SinIndice(t, tabla)
  IN  Max({n \in 0 .. Len(plan) : malos \cap 1 .. n = {}})
=============================================================================
