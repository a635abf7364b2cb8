--------------------------- MODULE MCBankingSync ---------------------------
(* Instances of BankingSync for TLC: two movements of the same amount two   *)
(* days apart, a transaction that matches the first, one that matches both, *)
(* and one of the other type.                                               *)
EXTENDS BankingSync

CONSTANTS m1, m2, t1, t2, t3, g1, g2, o1, o2

Op(tipo, monto, mes, dia) == [tipo |-> tipo, monto |-> monto, mes |-> mes, dia |-> dia]

MCMovs == {m1, m2}
MCTxs == {t1, t2, t3}
MCOperacion == [x \in MCMovs \cup MCTxs |->
  CASE x = m1 -> Op("INGRESO", 1, 0, 10)
    [] x = m2 -> Op("INGRESO", 1, 0, 12)
    [] x = t1 -> Op("INGRESO", 1, 0, 9)
    [] x = t2 -> Op("INGRESO", 1, 0, 11)
    [] x = t3 -> Op("EGRESO", 1, 0, 12)]

(* One movement and two transactions that match it.                         *)
MCUno == {m1}
MCTxsUno == {t1, t2}
MCGeneradores == {g1, g2}
MCOperadores == {o1, o2}

(* A tolerance of one day, by default and as a query string brings it.      *)
UnDiaEnTexto == {[texto |-> TRUE, dias |-> 1]}
=============================================================================
