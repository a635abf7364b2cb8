--------------------------- MODULE PagosIniciales ---------------------------
(***************************************************************************)
(* calculateInitialPayments: the entries of a contract as they are shown   *)
(* before it exists, its summary and what each party pays first; beside    *)
(* the entries that the activation of the contract generates.              *)
(***************************************************************************)
EXTENDS Integers, Sequences, FiniteSetsExt, SequencesExt

(* Terms: monto, comision (per cent), inicio, fin and ajuste (fecha_inicio, *)
(* fecha_final and ajuste_programado), periodicidad (months between         *)
(* adjustments), fijo (indice_tipo), deposito, honLocador, cuotasLocador,   *)
(* honLocatario, cuotasLocatario.  Locador and locatario are two agents.    *)
(* Amounts are neither rounded here nor there: they are kept in units of    *)
(* 1 / Escala.                                                              *)

(* Dates of luxon: [mes, dia], with the months counted from the January of  *)
(* a leap year, and the number of the day in which an entry is due.         *)
DiasAntes == <<0, 31, 59, 90, 120, 151, 181, 212, 243, 273, 304, 334>>
Numero(f) ==
  LET a == f.mes \div 12
      m == f.mes % 12
  IN  365 * a + (a + 3) \div 4 + DiasAntes[m + 1] + (IF a % 4 = 0 /\ m > 1 THEN 1 ELSE 0) + f.dia
DiasDelMes(m) == Numero([mes |-> m + 1, dia |-> 1]) - Numero([mes |-> m, dia |-> 1])

(* plus({months: n}): the same day, or the last one of a month without it.  *)
Mas(f, n) == [mes |-> f.mes + n, dia |-> Min({f.dia, DiasDelMes(f.mes + n)})]
Antes(f, g) == Numero(f) < Numero(g)

(* A due date: ten days after the date of the entry.                        *)
Vence(f) == Numero(f) + 10

Escala(t) == 100 * t.cuotasLocador * t.cuotasLocatario
PorCiento(t, monto, pct) == monto * pct * (Escala(t) \div 100)

(* Math.round of the difference of dates, in months: whole months, and the  *)
(* part of the next one that is left.                                       *)
MesesContrato(t) ==
  LET d == t.fin.mes - t.inicio.mes
      n == IF Antes(t.fin, Mas(t.inicio, d)) THEN d - 1 ELSE d
      cursor == Mas(t.inicio, n)
      tope == IF n = d THEN Mas(cursor, 1) ELSE Mas(t.inicio, d)
  IN  IF 2 * (Numero(t.fin) - Numero(cursor)) >= Numero(tope) - Numero(cursor) THEN n + 1 ELSE n

Partida(codigo, debe, haber, rol) == [codigo |-> codigo, debe |-> debe, haber |-> haber, rol |-> rol]
Asiento(tipo, vence, partidas) == [tipo |-> tipo, vence |-> vence, ajustable |-> FALSE, partidas |-> partidas]

----------------------------------------------------------------------------
(* The preview.                                                             *)

(* Mutant: the rents are projected to the end, whatever the index.          *)
FinProyeccionSiempreFinal(t) == t.fin

FinProyeccion(t) == IF t.fijo THEN t.fin ELSE t.ajuste

(* fechaActual, moved a month at a time from where the last move left it,   *)
(* while it is before the end of the projection.                            *)
FechasPrevistas(t) ==
  LET meses == 1 .. FinProyeccion(t).mes - t.inicio.mes + 1
      fecha[n \in meses] == IF n = 1 THEN t.inicio ELSE Mas(fecha[n - 1], 1)
  IN  [n \in {k \in meses : Antes(fecha[k], FinProyeccion(t))} |-> fecha[n]]

(* One rent for each of them.                                               *)
AlquileresPrevistos(t) ==
  LET fechas == FechasPrevistas(t)
  IN  [n \in DOMAIN fechas |->
     Asiento("Alquiler", Vence(fechas[n]),
       <<Partida("CXC_ALQ", t.monto * Escala(t), 0, "LOCATARIO"),
         Partida("CXP_LOC", 0, t.monto * Escala(t) - PorCiento(t, t.monto, t.comision), "LOCADOR"),
         Partida("ING_HNR", 0, PorCiento(t, t.monto, t.comision), "NADIE")>>)]

DepositoPrevisto(t) ==
  IF t.deposito > 0
  THEN <<Asiento("Deposito en Garantia", Numero(t.fin),
           <<Partida("ACT_FID", t.deposito * Escala(t), 0, "NADIE"),
             Partida("PAS_DEP", 0, t.deposito * Escala(t), "LOCADOR")>>)>>
  ELSE <<>>

(* A fee: a percentage of the whole contract's rent, in instalments.        *)
Cuota(t, pct, cuotas) == PorCiento(t, MesesContrato(t) * t.monto, pct) \div cuotas

HonorariosPrevistos(t, rol, pct, cuotas) ==
  [i \in 1 .. IF pct > 0 THEN cuotas ELSE 0 |->
     Asiento(rol, Vence(Mas(t.inicio, i - 1)),
       <<Partida(IF rol = "LOCADOR" THEN "CXP_LOC" ELSE "CXC_ALQ", Cuota(t, pct, cuotas), 0, rol),
         Partida("ING_HNR", 0, Cuota(t, pct, cuotas), "NADIE")>>)]
HonorariosLocadorPrevistos(t) == HonorariosPrevistos(t, "LOCADOR", t.honLocador, t.cuotasLocador)
HonorariosLocatarioPrevistos(t) == HonorariosPrevistos(t, "LOCATARIO", t.honLocatario, t.cuotasLocatario)

Suma(partidas, campo(_)) == FoldLeft(LAMBDA s, p : s + campo(p), 0, partidas)
Debe(partidas) == Suma(partidas, LAMBDA p : p.debe)
Haber(partidas) == Suma(partidas, LAMBDA p : p.haber)
Partidas(as) == FlattenSeq([i \in DOMAIN as |-> as[i].partidas])

(* resumen and honorarios_inmobiliaria.                                     *)
Resumen(t) ==
  LET alquileres == AlquileresPrevistos(t)
  IN  [meses |-> Len(alquileres),
       alquileres |-> Debe(Partidas(alquileres)),
       deposito |-> t.deposito * Escala(t),
       honLocador |-> Debe(Partidas(HonorariosLocadorPrevistos(t))),
       honLocatario |-> Debe(Partidas(HonorariosLocatarioPrevistos(t))),
       comisiones |-> Suma(Partidas(alquileres),
                           LAMBDA p : IF p.codigo = "ING_HNR" THEN p.haber ELSE 0)]

(* pagos_iniciales: the partidas of the first rent and of the first fees    *)
(* under each party, and those without agent, of ING_HNR, under the agency; *)
(* of the deposit, only partidas of the tenant.                             *)
Primero(as) == IF as = <<>> THEN <<>> ELSE as[1].partidas
MovimientosDe(t, rol) ==
  LET es(p) == IF rol = "INMOBILIARIA" THEN p.rol = "NADIE" /\ p.codigo = "ING_HNR" ELSE p.rol = rol
      del(as) == SelectSeq(Primero(as), es)
  IN  del(AlquileresPrevistos(t))
        \o (IF rol = "LOCATARIO" THEN del(DepositoPrevisto(t)) ELSE <<>>)
        \o (IF rol # "LOCATARIO" THEN del(HonorariosLocadorPrevistos(t)) ELSE <<>>)
        \o (IF rol # "LOCADOR" THEN del(HonorariosLocatarioPrevistos(t)) ELSE <<>>)

Roles == {"LOCADOR", "LOCATARIO", "INMOBILIARIA"}
TotalizadoresPorAgente(t) ==
  [rol \in Roles |-> [debe |-> Debe(MovimientosDe(t, rol)), haber |-> Haber(MovimientosDe(t, rol))]]

----------------------------------------------------------------------------
(* What the activation generates.                                           *)
MesesAjuste(t) ==
  IF t.periodicidad <= 0 \/ t.periodicidad > MesesContrato(t) THEN 12 ELSE t.periodicidad

GenerateInitialAccountingEntries(t) ==
  [n \in 1 .. MesesContrato(t) |->
     [Asiento("Alquiler", Vence(Mas(t.inicio, n - 1)),
        <<Partida("CXC_ALQ", t.monto * Escala(t), 0, "LOCATARIO"),
          Partida("CXP_LOC", 0, t.monto * Escala(t) - PorCiento(t, t.monto, t.comision), "LOCADOR"),
          Partida("ING_HNR", 0, PorCiento(t, t.monto, t.comision), "INMOBILIARIA")>>)
      EXCEPT !.ajustable = ~ t.fijo /\ n > 1 /\ (n - 1) % MesesAjuste(t) = 0]]

(* Two entries, whatever the amount.                                        *)
GenerateDepositEntry(t) ==
  <<Asiento("Deposito en Garantia - Cobro", Numero(t.inicio),
      <<Partida("CXC_ALQ", t.deposito * Escala(t), 0, "LOCATARIO"),
        Partida("ACT_FID", 0, t.deposito * Escala(t), "NADIE")>>),
    Asiento("Deposito en Garantia - Devolucion", Numero(t.fin),
      <<Partida("ACT_FID", t.deposito * Escala(t), 0, "NADIE"),
        Partida("PAS_DEP", 0, t.deposito * Escala(t), "LOCADOR")>>)>>

CuotasDe(t, rol, pct, cuotas) ==
  LET monto == PorCiento(t, MesesContrato(t) * t.monto, pct) \div cuotas
  IN  [i \in 1 .. IF pct > 0 THEN cuotas ELSE 0 |->
         Asiento(rol, Vence(Mas(t.inicio, i - 1)),
           <<Partida(IF rol = "LOCADOR" THEN "CXP_LOC" ELSE "CXC_ALQ", monto, 0, rol),
             Partida("ING_HNR_INIC", 0, monto, "INMOBILIARIA")>>)]
GenerateHonorariosEntries(t) ==
  CuotasDe(t, "LOCADOR", t.honLocador, t.cuotasLocador)
    \o CuotasDe(t, "LOCATARIO", t.honLocatario, t.cuotasLocatario)

Activacion(t) ==
  GenerateInitialAccountingEntries(t) \o GenerateDepositEntry(t) \o GenerateHonorariosEntries(t)

----------------------------------------------------------------------------
(* Properties.                                                              *)

(* What an entry charges and credits to a role, whatever the account; the   *)
(* preview names no agent for the agency's income.                          *)
De(a, rol) ==
  SelectSeq(a.partidas, LAMBDA p : \/ p.rol = rol
                                   \/ rol = "INMOBILIARIA" /\ p.rol = "NADIE" /\ p.codigo = "ING_HNR")
MismoEfecto(a, b) ==
  \A rol \in Roles : Debe(De(a, rol)) = Debe(De(b, rol)) /\ Haber(De(a, rol)) = Haber(De(b, rol))
Empieza(previstos, generados) ==
  \A i \in DOMAIN previstos \cap DOMAIN generados : MismoEfecto(previstos[i], generados[i])
MismosVencimientos(previstos, generados) ==
  \A i \in DOMAIN previstos \cap DOMAIN generados : previstos[i].vence = generados[i].vence

(* The start day is in each of the first n months, and in every month.      *)
DiaEnLosMeses(t, n) == \A k \in 1 .. n - 1 : t.inicio.dia <= DiasDelMes(t.inicio.mes + k)
DiaComun(t) == t.inicio.dia <= 28
MesesEnteros(t) ==
  \E n \in 1 .. t.fin.mes - t.inicio.mes + 1 :
     Numero(Mas(t.inicio, n)) - Numero(t.fin) \in {0, 1}

(* The preview shows what the activation will charge and credit: the first  *)
(* rents, every instalment of the fees with its due date, and the deposit   *)
(* to give back.  The rents fall due on the same days until a month is too  *)
(* short for the day the contract starts: from there on the preview moves   *)
(* them up to three days forward, and the activation only in that month.    *)
(* Of a fixed rent it shows them all, when the contract lasts whole months  *)
(* or ends on the eve, and otherwise at most one more; of one that an index *)
(* changes, none that will be adjusted, when the first adjustment is dated  *)
(* as many months after the start as its period says; started after day 28, *)
(* at most the first of them.                                               *)
PreviaFiel(t) ==
  LET alquileres == AlquileresPrevistos(t)
      generados == GenerateInitialAccountingEntries(t)
      honorarios == HonorariosLocadorPrevistos(t) \o HonorariosLocatarioPrevistos(t)
      deMas == Len(alquileres) - Len(generados)
      ajustados == {n \in DOMAIN alquileres \cap DOMAIN generados : generados[n].ajustable}
  IN  /\ Empieza(alquileres, generados)
      /\ \A n \in DOMAIN alquileres \cap DOMAIN generados :
           generados[n].vence - alquileres[n].vence \in IF DiaEnLosMeses(t, n) THEN {0} ELSE 0 .. 3
      /\ t.fijo => deMas \in IF DiaComun(t) /\ MesesEnteros(t) THEN {0} ELSE {0, 1}
      /\ ~ t.fijo /\ t.ajuste = Mas(t.inicio, MesesAjuste(t)) /\ ~ Antes(t.fin, t.ajuste) =>
           ajustados \subseteq IF DiaComun(t) THEN {} ELSE {MesesAjuste(t) + 1}
      /\ Len(honorarios) = Len(GenerateHonorariosEntries(t))
      /\ Empieza(honorarios, GenerateHonorariosEntries(t))
      /\ MismosVencimientos(honorarios, GenerateHonorariosEntries(t))
      /\ Resumen(t).honLocador + Resumen(t).honLocatario = Debe(Partidas(GenerateHonorariosEntries(t)))
      /\ t.deposito > 0 =>
           /\ MismoEfecto(DepositoPrevisto(t)[1], GenerateDepositEntry(t)[2])
           /\ DepositoPrevisto(t)[1].vence = GenerateDepositEntry(t)[2].vence

(* The totals of the first payments are what the activation charges and     *)
(* credits with the first due dates, from the start to ten days later,      *)
(* except the deposit: it charges it to the tenant, whose first payments    *)
(* never show it.                                                           *)
PrimerosPagosSinDeposito(t) ==
  LET primeros == SelectSeq(Activacion(t), LAMBDA a : a.vence <= Vence(t.inicio))
      de(rol) == SelectSeq(Partidas(primeros), LAMBDA p : p.rol = rol)
  IN  \A rol \in Roles :
        /\ TotalizadoresPorAgente(t)[rol].debe =
             Debe(de(rol)) - IF rol = "LOCATARIO" THEN t.deposito * Escala(t) ELSE 0
        /\ TotalizadoresPorAgente(t)[rol].haber = Haber(de(rol))
=============================================================================
