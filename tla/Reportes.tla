------------------------------ MODULE Reportes ------------------------------
(***************************************************************************)
(* The reports: four financial readings of the same entries, and of the    *)
(* cash accounts as they stand; and the dashboard of the contracts         *)
(* (ContractReportsService).                                               *)
(***************************************************************************)
EXTENDS Integers, Sequences, FiniteSetsExt, SequencesExt

CONSTANTS
  Tipo,           \* [codes of the chart of accounts -> tipo_cuenta]
  Nunca, Limite   \* no date; the most contracts that are listed (50)

(* A set of books: partidas, a function from ids to [estado, codigo, debe,  *)
(* haber] (a code out of the chart is dropped by the $lookup), and cajas,   *)
(* a function from ids to [activa, saldo].                                  *)
Efectivo == {"ACT_CAJ", "ACT_BCO", "ACT_FID"}

(* What every report reads.  Dates are compared with fecha_asiento, which   *)
(* no entry has: a period selects nothing.                                  *)
Alcance(l, conFechas) ==
  {i \in DOMAIN l.partidas : /\ ~ conFechas
                             /\ l.partidas[i].estado \in {"PAGADO", "PAGADO_PARCIAL", "LIQUIDADO"}
                             /\ l.partidas[i].codigo \in DOMAIN Tipo}

De(l, is, codigo) == {i \in is : l.partidas[i].codigo = codigo}
Saldo(l, is, codigo) == MapThenSumSet(LAMBDA i : l.partidas[i].debe - l.partidas[i].haber, De(l, is, codigo))
Cuentas(l, is, tipo) == {c \in DOMAIN Tipo : Tipo[c] = tipo /\ De(l, is, c) # {}}
Abs(x) == IF x < 0 THEN -x ELSE x
Positivo(x) == IF x > 0 THEN x ELSE 0
SaldoReal(l) == MapThenSumSet(LAMBDA k : IF l.cajas[k].activa THEN l.cajas[k].saldo ELSE 0, DOMAIN l.cajas)

GetBalanceSheet(l, conFechas) ==
  LET is == Alcance(l, conFechas)
      otros == MapThenSumSet(LAMBDA c : Saldo(l, is, c), Cuentas(l, is, "ACTIVO") \ Efectivo)
      absoluto(tipo) == MapThenSumSet(LAMBDA c : Abs(Saldo(l, is, c)), Cuentas(l, is, tipo))
      activos == SaldoReal(l) + otros
  IN  [activos |-> activos, otros_activos |-> otros, efectivo_real |-> SaldoReal(l),
       pasivos |-> absoluto("PASIVO"), patrimonio |-> absoluto("PATRIMONIO_NETO"),
       diferencia |-> activos - (absoluto("PASIVO") + absoluto("PATRIMONIO_NETO"))]

(* Mutant: an account of expense is read as one of income.                  *)
GetIncomeStatementSinSigno(l, conFechas) ==
  LET is == Alcance(l, conFechas)
      haberMenosDebe(tipo) == MapThenSumSet(LAMBDA c : -Saldo(l, is, c), Cuentas(l, is, tipo))
  IN  [ingresos |-> haberMenosDebe("INGRESO"), egresos |-> haberMenosDebe("EGRESO"),
       resultado_neto |-> haberMenosDebe("INGRESO") - haberMenosDebe("EGRESO")]

GetIncomeStatement(l, conFechas) ==
  LET is == Alcance(l, conFechas)
      ingresos == MapThenSumSet(LAMBDA c : -Saldo(l, is, c), Cuentas(l, is, "INGRESO"))
      egresos == MapThenSumSet(LAMBDA c : Saldo(l, is, c), Cuentas(l, is, "EGRESO"))
  IN  [ingresos |-> ingresos, egresos |-> egresos, resultado_neto |-> ingresos - egresos]

GetTrialBalance(l, conFechas) ==
  LET is == Alcance(l, conFechas)
      conPartidas == {c \in DOMAIN Tipo : De(l, is, c) # {}}
  IN  [debe |-> MapThenSumSet(LAMBDA i : l.partidas[i].debe, is),
       haber |-> MapThenSumSet(LAMBDA i : l.partidas[i].haber, is),
       saldo_deudor |-> MapThenSumSet(LAMBDA c : Positivo(Saldo(l, is, c)), conPartidas),
       saldo_acreedor |-> MapThenSumSet(LAMBDA c : Positivo(-Saldo(l, is, c)), conPartidas)]

(* The movements of the cash accounts; the initial balance is computed back *)
(* from the one of now.                                                     *)
GetCashFlow(l, conFechas) ==
  LET is == {i \in Alcance(l, conFechas) : l.partidas[i].codigo \in Efectivo}
      movimiento(i) == l.partidas[i].debe - l.partidas[i].haber
      ingresos == MapThenSumSet(LAMBDA i : Positivo(movimiento(i)), is)
      egresos == MapThenSumSet(LAMBDA i : Positivo(-movimiento(i)), is)
  IN  [ingresos |-> ingresos, egresos |-> egresos, flujo_neto |-> ingresos - egresos,
       inicial |-> SaldoReal(l) - (ingresos - egresos), final |-> SaldoReal(l)]

----------------------------------------------------------------------------
(* Properties.                                                              *)

(* The four reports of balanced entries agree: the trial balance balances,  *)
(* and other assets plus the cash flow, less what is owed and the equity,   *)
(* are the result.  The balance sheet shows absolute values: so only while  *)
(* no liability or equity account is in debit, and otherwise it is off by   *)
(* twice that debit.                                                        *)
InformesCuadran(l, conFechas) ==
  LET is == Alcance(l, conFechas)
      trial == GetTrialBalance(l, conFechas)
      hoja == GetBalanceSheet(l, conFechas)
      enContra == {c \in DOMAIN Tipo : Tipo[c] \in {"PASIVO", "PATRIMONIO_NETO"} /\ Saldo(l, is, c) > 0}
  IN  /\ trial.debe = trial.haber /\ trial.saldo_deudor = trial.saldo_acreedor
      /\ hoja.otros_activos + GetCashFlow(l, conFechas).flujo_neto
           - (hoja.pasivos + hoja.patrimonio)
           + 2 * MapThenSumSet(LAMBDA c : Saldo(l, is, c), enContra)
         = GetIncomeStatement(l, conFechas).resultado_neto

----------------------------------------------------------------------------
(* The dashboard, computed from a sequence of contracts [status, inicio,    *)
(* fin, ajuste, monto, partes].  Dates are in months from now; ajuste is    *)
(* Nunca when there is none.                                                *)
NoventaDias == 3
Donde(cs, P(_)) == {i \in DOMAIN cs : P(cs[i])}
Cuantos(cs, P(_)) == Cardinality(Donde(cs, P))
Vigente(c) == c.status = "VIGENTE"

GetStatusDistribution(cs) ==
  [s \in {"VIGENTE", "RESCINDIDO", "FINALIZADO", "PENDIENTE"} |-> Cuantos(cs, LAMBDA c : c.status = s)]

(* The end or the adjustment falls within 90 days, or has passed.           *)
Proximo(c) ==
  /\ Vigente(c)
  /\ c.fin <= NoventaDias \/ (c.ajuste # Nunca /\ c.ajuste <= NoventaDias)
GetDueSoonCount(cs) == Cuantos(cs, Proximo)

(* The average, as a sum and a count (0 / 1 for none).                      *)
GetAvgMonthlyValue(cs) ==
  LET v == Donde(cs, Vigente)
  IN  IF v = {} THEN [suma |-> 0, n |-> 1]
      ELSE [suma |-> MapThenSumSet(LAMBDA i : cs[i].monto, v), n |-> Cardinality(v)]

GetAgentRoleCount(cs) ==
  [rol \in {"LOCADOR", "LOCATARIO", "GARANTE"} |->
     MapThenSumSet(LAMBDA i : Cardinality({j \in DOMAIN cs[i].partes : cs[i].partes[j] = rol}),
                   Donde(cs, Vigente))]

(* In tenths of a per cent.                                                 *)
CalculateRescissionRate(cs) ==
  LET r == Cuantos(cs, LAMBDA c : c.status = "RESCINDIDO")
      total == r + Cuantos(cs, LAMBDA c : c.status = "FINALIZADO")
  IN  IF total = 0 THEN 0 ELSE (2000 * r + total) \div (2 * total)

(* $bucket answers one document for each bucket that is not empty, in their *)
(* order, and the labels are given by the position in the answer.           *)
Tramo(c) ==
  LET meses == c.fin - c.inicio
  IN  IF meses \in 0 .. 11 THEN 1 ELSE IF meses \in 12 .. 23 THEN 2
      ELSE IF meses \in 24 .. 35 THEN 3 ELSE IF meses \in 36 .. 999 THEN 4 ELSE 5
Tramos(cs) == {Tramo(cs[i]) : i \in Donde(cs, Vigente)}
EnTramo(cs, k) == Cuantos(cs, LAMBDA c : Vigente(c) /\ Tramo(c) = k)
GetMaturityDistribution(cs) ==
  LET cubos == SetToSortSeq(Tramos(cs), <)
  IN  [etiqueta \in 1 .. 4 |-> IF etiqueta <= Len(cubos) THEN EnTramo(cs, cubos[etiqueta]) ELSE 0]

----------------------------------------------------------------------------
(* The projection: least squares over the last twelve months.               *)
Facturacion(cs) ==
  [x \in 0 .. 11 |->
     MapThenSumSet(LAMBDA i : cs[i].monto,
       Donde(cs, LAMBDA c : /\ c.status \in {"VIGENTE", "FINALIZADO", "RESCINDIDO"}
                            /\ c.inicio <= x - 11 /\ x - 11 <= c.fin))]

(* Mutant: the months are numbered from 1 in one of the sums.               *)
CalculateLinearRegressionCorrida(y) ==
  LET n == Cardinality(DOMAIN y)
      sX == MapThenSumSet(LAMBDA x : x, DOMAIN y)
      sY == MapThenSumSet(LAMBDA x : y[x], DOMAIN y)
      sXY == MapThenSumSet(LAMBDA x : (x + 1) * y[x], DOMAIN y)
      sX2 == MapThenSumSet(LAMBDA x : x * x, DOMAIN y)
  IN  [num |-> n * sXY - sX * sY, den |-> n * sX2 - sX * sX]

(* The slope, as a fraction.                                                *)
CalculateLinearRegression(y) ==
  LET n == Cardinality(DOMAIN y)
      sX == MapThenSumSet(LAMBDA x : x, DOMAIN y)
      sY == MapThenSumSet(LAMBDA x : y[x], DOMAIN y)
      sXY == MapThenSumSet(LAMBDA x : x * y[x], DOMAIN y)
      sX2 == MapThenSumSet(LAMBDA x : x * x, DOMAIN y)
  IN  [num |-> n * sXY - sX * sY, den |-> n * sX2 - sX * sX]

(* The next months go on from the last one, never below zero.               *)
GetBillingProjection(cs) ==
  LET y == Facturacion(cs)
      p == CalculateLinearRegression(y)
      valor(i) == y[11] * p.den + p.num * i
  IN  [i \in 1 .. 3 |-> IF valor(i) <= 0 THEN 0 ELSE (2 * valor(i) + p.den) \div (2 * p.den)]

----------------------------------------------------------------------------
Vence(c) ==
  IF c.ajuste # Nunca /\ c.ajuste < c.fin THEN [accion |-> "AJUSTE", faltan |-> c.ajuste]
  ELSE [accion |-> "VENCIMIENTO", faltan |-> c.fin]

(* By end, then by adjustment (a missing one first), up to Limite.          *)
Antes(c, d) ==
  \/ c.fin < d.fin
  \/ c.fin = d.fin /\ d.ajuste # Nunca /\ (c.ajuste = Nunca \/ c.ajuste < d.ajuste)
GetUpcomingContracts(cs) ==
  LET orden == SetToSortSeq(Donde(cs, Proximo),
                            LAMBDA i, j : Antes(cs[i], cs[j]) \/ (~ Antes(cs[j], cs[i]) /\ i < j))
  IN  [k \in 1 .. IF Len(orden) < Limite THEN Len(orden) ELSE Limite |->
         [contrato |-> orden[k], vence |-> Vence(cs[orden[k]])]]

----------------------------------------------------------------------------
(* Properties.                                                              *)

(* The dashboard is one account of the contracts: the statuses and the      *)
(* owners add up; the contracts listed are those counted as due soon, each  *)
(* shown with a date within 90 days; every contract in force has a          *)
(* maturity, under its own label unless a shorter one is empty; what is     *)
(* averaged is billed in the months it runs; the projection follows the     *)
(* least squares (its slope times the spread of the months is the           *)
(* covariance), and goes on from the last month in their direction.         *)
TableroCoherente(cs) ==
  LET listados == GetUpcomingContracts(cs)
      y == Facturacion(cs)
      p == CalculateLinearRegression(y)
      madurez == GetMaturityDistribution(cs)
      centro(f) == [x \in DOMAIN f |-> 12 * f[x] - MapThenSumSet(LAMBDA z : f[z], DOMAIN f)]
      cov(f, g) == MapThenSumSet(LAMBDA x : centro(f)[x] * centro(g)[x], DOMAIN f)
      eje == [x \in DOMAIN y |-> x]
      corre(c) == Vigente(c) /\ c.inicio <= 0 /\ 0 <= c.fin
      prox == GetBillingProjection(cs)
  IN  /\ MapThenSumSet(LAMBDA s : GetStatusDistribution(cs)[s], DOMAIN GetStatusDistribution(cs)) = Len(cs)
      /\ Len(listados) = IF GetDueSoonCount(cs) < Limite THEN GetDueSoonCount(cs) ELSE Limite
      /\ \A k \in DOMAIN listados : listados[k].vence.faltan <= NoventaDias
      /\ 5 \notin Tramos(cs) =>
           /\ MapThenSumSet(LAMBDA e : madurez[e], 1 .. 4) = Cuantos(cs, Vigente)
           /\ \A e \in 1 .. 4 : 1 .. e \subseteq Tramos(cs) => madurez[e] = EnTramo(cs, e)
      /\ GetAgentRoleCount(cs)["LOCADOR"] = Cuantos(cs, Vigente)
      /\ CalculateRescissionRate(cs) \in 0 .. 1000
      /\ Donde(cs, Vigente) # {} /\ Donde(cs, Vigente) = Donde(cs, corre) =>
           GetAvgMonthlyValue(cs).n * y[11] >= Cuantos(cs, Vigente) * GetAvgMonthlyValue(cs).suma
      /\ p.num * cov(eje, eje) = p.den * cov(eje, y)
      /\ p.num >= 0 => y[11] <= prox[1] /\ prox[1] <= prox[2] /\ prox[2] <= prox[3]
      /\ p.num <= 0 => y[11] >= prox[1] /\ prox[1] >= prox[2] /\ prox[2] >= prox[3]
=============================================================================
