------------------------------ MODULE Calculos ------------------------------
(***************************************************************************)
(* The calculations that read and write nothing: each behaviour is a case, *)
(* the input of one of them.                                               *)
(***************************************************************************)
EXTENDS Integers, Sequences

CONSTANTS
  Terminos,      \* terms of contracts to preview
  Legados,       \* [t, tabla, hoy]: legacy contracts to open
  Libros,        \* [l, fechas]: books to report
  Carteras,      \* sequences of contracts for the dashboard
  Documentos,    \* documents, as sequences of digits
  Notas,         \* notices of the bank
  Buscados,      \* by kind, [rs, q, ...]: searches, over a sequence of documents
  Consultas,     \* by kind, [rs, q, dia]: lists, over a sequence of records
  TipoDe,        \* the chart of accounts
  Jamas, Tope,   \* Nunca and Limite of the dashboard
  LimiteBot, MaximoBot, SinFiltro   \* Busquedas and Listados

VARIABLE caso

Pagos == INSTANCE PagosIniciales
Migracion == INSTANCE PlanMigracion
Informes == INSTANCE Reportes WITH Tipo <- TipoDe, Nunca <- Jamas, Limite <- Tope
CuitDe == INSTANCE Cuit
Correo == INSTANCE Avisos
Buscador == INSTANCE Busquedas
Listas == INSTANCE Listados
Mixto == INSTANCE ReciboMixto WITH Agentes <- {}, Contratos <- {}, Peso <- 1

CalInit ==
  \/ \E x \in Terminos   : caso = [de |-> "pagos", x |-> x]
  \/ \E x \in Legados    : caso = [de |-> "migracion", x |-> x]
  \/ \E x \in Libros     : caso = [de |-> "informes", x |-> x]
  \/ \E x \in Carteras   : caso = [de |-> "panel", x |-> x]
  \/ \E x \in Documentos : caso = [de |-> "cuit", x |-> x]
  \/ \E x \in Notas      : caso = [de |-> "avisos", x |-> x]
  \/ \E clase \in DOMAIN Buscados  : \E x \in Buscados[clase]  : caso = [de |-> clase, x |-> x]
  \/ \E clase \in DOMAIN Consultas : \E x \in Consultas[clase] : caso = [de |-> clase, x |-> x]

----------------------------------------------------------------------------
(* Properties.                                                              *)

(* calculateInitialPayments shows what the activation of the contract will  *)
(* charge and credit, and its first payments leave out only the deposit.    *)
VistaPreviaFiel ==
  caso.de = "pagos" => Pagos!PreviaFiel(caso.x) /\ Pagos!PrimerosPagosSinDeposito(caso.x)

(* The opening balance and the months to come never charge more months than *)
(* the contract has, and leave out less than two of its time (the one in    *)
(* progress, and a broken one at its ends); the rents that it accrues       *)
(* follow the index from the start of the contract, up to the rounding of   *)
(* each adjustment; the instalments of a fee add up to it.                  *)
AperturaFiel ==
  caso.de = "migracion" =>
    LET t == caso.x.t
        hoy == caso.x.hoy
        tabla == caso.x.tabla
        ps == Migracion!PeriodosDeAjuste(t, hoy)
        montos == Migracion!MontosApertura(t, tabla, ps)
        idx(i) == Migracion!Indice(tabla, t.indice, ps[i].inicio)
        desvio(i) == montos[i] * idx(1) - t.monto * idx(i)
        cobrados == Migracion!MesesEntre(t.inicio, hoy) + Len(Migracion!Futuros(t, hoy))
    IN  /\ cobrados <= Migracion!MesesDelContrato(t) /\ (t.fin - t.inicio) - 2 * cobrados < 4
        /\ t.indice # "FIJO" /\ t.ajuste # -1 => \A i \in DOMAIN ps :
             idx(1) > 0 => 2 * desvio(i) \in -(i * idx(i)) .. i * idx(i)
        /\ LET faltan == t.cuotasLocador * Migracion!CuotaHonorarios(t, t.honLocador, t.cuotasLocador)
                           - Migracion!TotalHonorarios(t, t.honLocador)
           IN  2 * faltan \in -t.cuotasLocador .. t.cuotasLocador

(* What is asked of the records is answered whole: the four financial       *)
(* reports agree with each other on the same entries, the dashboard's       *)
(* figures are one account of the same contracts, lists show what was asked *)
(* for once and add up what they show, searches find it, and a receipt of   *)
(* several lines answers for each of them.                                  *)
InformesCoherentes ==
  LET x == caso.x IN
  CASE caso.de = "informes"  -> Informes!InformesCuadran(x.l, x.fechas)
    [] caso.de = "panel"     -> Informes!TableroCoherente(x)
    [] caso.de = "caja"      -> /\ Listas!ResumenDeLoListado(x.rs, x.q)
                                /\ Listas!SeReparten(x.rs, Listas!MovimientosPedidos, x.q, x.dia)
                                /\ Listas!SeReparten(x.rs, Listas!FindByAgent, x.q, x.dia)
    [] caso.de = "banco"     -> Listas!CuentaCerrada(x.rs)
    [] caso.de = "libro"     -> Listas!TotalesBalanceados(x.rs, x.q)
    [] caso.de = "depositos" -> Listas!DepositosEnOrden(x.rs, x.q)
    [] caso.de = "bandeja"   -> Listas!BandejaContada(x.rs, x.q)
    [] caso.de = "recibo"    -> Mixto!ReciboCuadra(x.rs, x.q)
    [] caso.de = "cliente"   -> Buscador!ClienteHallado(x.rs, x.q)
    [] caso.de = "identidad" -> Buscador!IdentidadHallada(x.rs, x.q)
    [] caso.de = "pagina"    -> Buscador!PaginasFieles(x.rs, x.q, x.sort, x.n)
    [] caso.de = "contratos" -> Buscador!ContratosHallados(x.rs, x.q)
    [] caso.de = "oferta"    -> Buscador!OfertaReal(x.rs, x.q)
    [] OTHER -> TRUE

(* What comes from outside is read as it was meant: CUITs offered for a     *)
(* document are valid, and one mistyped is refused; a movement says what    *)
(* the notice of the bank said, in whichever of its layouts.                *)
DatosLeidos ==
  /\ caso.de = "cuit" => CuitDe!SinErrores(caso.x)
  /\ caso.de = "avisos" => Correo!MovimientoFiel(caso.x)
=============================================================================
