----------------------------- MODULE Peticiones -----------------------------
(***************************************************************************)
(* Requests to one process of Node: a handler runs up to an await and      *)
(* others run until it goes on.  A request is Libre, or the record of what *)
(* its handler holds in memory, with the step (paso) it goes on with.      *)
(***************************************************************************)
EXTENDS Integers, FiniteSets

CONSTANTS
  Requests,   \* requests that may be in progress at the same time
  MaxOps,     \* bound: requests started in a behaviour
  MaxMuertes  \* bound: requests that die midway

VARIABLES
  op,      \* [Requests -> Libre or a record with a field paso]
  ops,     \* history: requests started
  solape,  \* history: two requests have been in progress at the same time
  muertes  \* history: requests that died

peticiones == <<op, ops, solape, muertes>>

Libre == [paso |-> "libre"]
EnCurso == {r \in Requests : op[r] # Libre}

InitPeticiones ==
  /\ op = [r \in Requests |-> Libre]
  /\ ops = 0 /\ solape = FALSE /\ muertes = 0

(* A handler up to its first await; q is what it holds from then on.        *)
Comenzar(r, q) ==
  /\ op[r] = Libre /\ ops < MaxOps
  /\ op' = [op EXCEPT ![r] = q]
  /\ ops' = ops + 1
  /\ solape' = (solape \/ EnCurso # {})
  /\ UNCHANGED muertes

(* A handler that is a single write of the database.                        *)
Atomica ==
  /\ ops < MaxOps
  /\ ops' = ops + 1
  /\ solape' = (solape \/ EnCurso # {})
  /\ UNCHANGED <<op, muertes>>

Seguir(r, q) == op' = [op EXCEPT ![r] = q] /\ UNCHANGED <<ops, solape, muertes>>
Terminar(r) == Seguir(r, Libre)

(* The process dies, or the next write fails: what was written stays.       *)
Morir(r) ==
  /\ op[r] # Libre /\ muertes < MaxMuertes
  /\ op' = [op EXCEPT ![r] = Libre]
  /\ muertes' = muertes + 1
  /\ UNCHANGED <<ops, solape>>
=============================================================================
