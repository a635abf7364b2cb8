---------------------------- MODULE LibroContable ----------------------------
(***************************************************************************)
(* What the ledger promises about the cash of a financial account: a       *)
(* movement of the balance is in the hands of one request, that made it    *)
(* for one entry, until it is written in that entry's history, once, or    *)
(* lost; an entry that is deleted takes its history with it.  No cash is   *)
(* recorded that did not move, and none moves in silence.                  *)
(***************************************************************************)
EXTENDS Integers

CONSTANTS
  Asientos,   \* entries
  Portadores  \* requests, that move cash and write it down

VARIABLES
  saldo,    \* the balance of the account
  enMano,   \* [Portadores -> [lleno, a, x]]: x was moved for entry a, and is not written yet
  anotado,  \* [Asientos -> Int]: what the history of the entry adds up to
  perdido   \* [Asientos -> Int]: moved, and in no history any more

vars == <<saldo, enMano, anotado, perdido>>

Cero == [a \in Asientos |-> 0]
Libre == [lleno |-> FALSE, a |-> "ninguno", x |-> 0]

Init == /\ saldo = 0
        /\ enMano = [r \in Portadores |-> Libre]
        /\ anotado = Cero /\ perdido = Cero

(* The balance moves by any amount, and a free request answers for it.      *)
Mover(r) ==
  /\ ~ enMano[r].lleno
  /\ saldo' \in Int
  /\ \E a \in Asientos :
       enMano' = [enMano EXCEPT ![r] = [lleno |-> TRUE, a |-> a, x |-> saldo' - saldo]]
  /\ UNCHANGED <<anotado, perdido>>

(* What the request had in hand goes to the history of its entry, or to     *)
(* none.                                                                    *)
Anotar(r) ==
  /\ enMano[r].lleno
  /\ anotado' = [anotado EXCEPT ![enMano[r].a] = @ + enMano[r].x]
  /\ enMano' = [enMano EXCEPT ![r] = Libre]
  /\ UNCHANGED <<saldo, perdido>>

Perder(r) ==
  /\ enMano[r].lleno
  /\ perdido' = [perdido EXCEPT ![enMano[r].a] = @ + enMano[r].x]
  /\ enMano' = [enMano EXCEPT ![r] = Libre]
  /\ UNCHANGED <<saldo, anotado>>

Borrar(A) ==
  /\ perdido' = [a \in Asientos |-> IF a \in A THEN perdido[a] + anotado[a] ELSE perdido[a]]
  /\ anotado' = [a \in Asientos |-> IF a \in A THEN 0 ELSE anotado[a]]
  /\ UNCHANGED <<saldo, enMano>>

Next ==
  \/ \E r \in Portadores : Mover(r) \/ Anotar(r) \/ Perder(r)
  \/ \E A \in SUBSET Asientos : Borrar(A)

Spec == Init /\ [][Next]_vars
=============================================================================
