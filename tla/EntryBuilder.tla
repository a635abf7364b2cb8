---------------------------- MODULE EntryBuilder ----------------------------
(***************************************************************************)
(* AccountingEntryFactory and AccountingEntryBuilder: one builder object,  *)
(* shared by every request of the server.  A factory method resets it,     *)
(* adds partidas and calls build(); each partida's account is looked up by *)
(* code with an await between two calls on the builder.  A code that is in *)
(* the factory's cache resolves before any other request runs; the first   *)
(* lookup of a code goes to the database, and other requests run meanwhile.*)
(***************************************************************************)
EXTENDS Integers, Sequences, FiniteSetsExt

CONSTANTS
  Requests,   \* requests that may build entries at the same time
  Codigos,    \* account codes of the chart of accounts
  Centavos    \* tolerance of build(), in money units (0.01 pesos)

ASSUME CentavosAssumption == Centavos \in Nat

VARIABLES
  constructor,  \* the builder: [tipo, ajuste, partidas]
  cuentas,      \* accountsCache: codes already looked up
  cadena        \* [Requests -> the factory call in progress]

bldVars == <<constructor, cuentas, cadena>>

(* A partida to add, and the call that adds it: previo says that the code   *)
(* of the first partida is looked up before reset() (createHonorariosEntry).*)
Partida(codigo, debe, haber, agente) ==
  [codigo |-> codigo, debe |-> debe, haber |-> haber, agente |-> agente]
SinLlamada == [tipo |-> "", ajuste |-> FALSE, previo |-> FALSE, partidas |-> <<>>]

(* fase: "libre"; "previa" or "cuenta", while the account of partida i is   *)
(* looked up; "armado", when build() has returned armado, or "error", when  *)
(* it threw.                                                                *)
NadaArmado == [tipo |-> "", ajuste |-> FALSE, partidas |-> <<>>]
SinCadena == [fase |-> "libre", llamada |-> SinLlamada, i |-> 1, armado |-> NadaArmado]

BldInit ==
  /\ constructor = NadaArmado
  /\ cuentas = {}
  /\ cadena = [r \in Requests |-> SinCadena]

----------------------------------------------------------------------------
(* The factory methods, as the calls they make on the builder.              *)

(* Mutant: the landlord is credited with the whole rent.                    *)
RentSinDescontarComision(monto, comision, ajuste, locatario, locador, inmobiliaria) ==
  [tipo |-> "Alquiler", ajuste |-> ajuste, previo |-> FALSE,
   partidas |-> <<Partida("CXC_ALQ", monto, 0, locatario),
                  Partida("CXP_LOC", 0, monto, locador)>>]

CreateMonthlyRentEntry(monto, comision, ajuste, locatario, locador, inmobiliaria) ==
  [tipo |-> "Alquiler", ajuste |-> ajuste, previo |-> FALSE,
   partidas |-> <<Partida("CXC_ALQ", monto, 0, locatario),
                  Partida("CXP_LOC", 0, monto - comision, locador),
                  Partida("ING_HNR", 0, comision, inmobiliaria)>>]

CreateDepositEntry(entryType, monto, locatario, locador, nadie) ==
  IF entryType = "COBRO"
  THEN [tipo |-> "Deposito en Garantia - Cobro", ajuste |-> FALSE, previo |-> FALSE,
        partidas |-> <<Partida("CXC_ALQ", monto, 0, locatario),
                       Partida("ACT_FID", 0, monto, nadie)>>]
  ELSE [tipo |-> "Deposito en Garantia - Devolucion", ajuste |-> FALSE, previo |-> FALSE,
        partidas |-> <<Partida("ACT_FID", monto, 0, nadie),
                       Partida("PAS_DEP", 0, monto, locador)>>]

CreateHonorariosEntry(agentType, cuota, agente, inmobiliaria) ==
  [tipo |-> IF agentType = "LOCADOR" THEN "Honorarios Locador" ELSE "Honorarios Locatario",
   ajuste |-> FALSE, previo |-> TRUE,
   partidas |-> <<Partida(IF agentType = "LOCADOR" THEN "CXP_LOC" ELSE "CXC_ALQ",
                          cuota, 0, agente),
                  Partida("ING_HNR_INIC", 0, cuota, inmobiliaria)>>]

----------------------------------------------------------------------------
(* A call in progress.                                                      *)

(* The partidas from i on run until the first whose account is not cached.  *)
Hasta(llamada, i, conocidas) ==
  LET faltan == {j \in i .. Len(llamada.partidas) : llamada.partidas[j].codigo \notin conocidas}
  IN  IF faltan = {} THEN Len(llamada.partidas) + 1 ELSE Min(faltan)

(* Adds the partidas i, i + 1, ... to the builder b while they need no wait.*)
Agregar(b, llamada, i, conocidas) ==
  [b EXCEPT !.partidas = @ \o SubSeq(llamada.partidas, i, Hasta(llamada, i, conocidas) - 1)]

Reset(llamada) == [tipo |-> llamada.tipo, ajuste |-> llamada.ajuste, partidas |-> <<>>]

(* lado is "debe" or "haber".                                               *)
TotalDe(partidas, lado) == SumFunctionOnSet([k \in DOMAIN partidas |-> partidas[k][lado]], DOMAIN partidas)
TotalDebe(partidas) == TotalDe(partidas, "debe")
TotalHaber(partidas) == TotalDe(partidas, "haber")

(* Mutant: build() does not compare the totals.                             *)
BalanceadoSiempre(partidas) == Len(partidas) > 0

(* build()'s checks on whatever the shared builder holds by then.           *)
Balanceado(partidas) ==
  /\ Len(partidas) > 0
  /\ TotalDebe(partidas) - TotalHaber(partidas) \in -Centavos .. Centavos

(* The call goes on at partida i with the builder as b: it stops at the     *)
(* first account to look up, or runs through build() without a pause.       *)
Seguir(r, llamada, b, i, conocidas) ==
  LET j == Hasta(llamada, i, conocidas)
      c == Agregar(b, llamada, i, conocidas)
  IN  /\ constructor' = c
      /\ cadena' = [cadena EXCEPT ![r] =
           [fase |-> IF j <= Len(llamada.partidas) THEN "cuenta"
                     ELSE IF Balanceado(c.partidas) THEN "armado" ELSE "error",
            llamada |-> llamada, i |-> j,
            armado |-> IF j <= Len(llamada.partidas) THEN NadaArmado ELSE c]]

(* A factory method is called.                                              *)
Llamar(r, llamada) ==
  /\ cadena[r].fase = "libre"
  /\ IF llamada.previo /\ llamada.partidas[1].codigo \notin cuentas
     THEN /\ cadena' = [cadena EXCEPT ![r] = [SinCadena EXCEPT !.fase = "previa",
                                                               !.llamada = llamada]]
          /\ UNCHANGED constructor
     ELSE Seguir(r, llamada, Reset(llamada), 1, cuentas)
  /\ UNCHANGED cuentas

(* getAccountByCode: the code is found, cached, and the call goes on; or it *)
(* is not in the chart of accounts, and the call throws.                    *)
GetAccountByCode(r) ==
  LET q == cadena[r]
      codigo == q.llamada.partidas[q.i].codigo
      conocidas == cuentas \cup {codigo}
  IN  /\ q.fase \in {"previa", "cuenta"}
      /\ IF codigo \in Codigos
         THEN /\ cuentas' = conocidas
              /\ Seguir(r, q.llamada,
                        IF q.fase = "previa" THEN Reset(q.llamada) ELSE constructor,
                        q.i, conocidas)
         ELSE /\ cadena' = [cadena EXCEPT ![r] = [SinCadena EXCEPT !.fase = "error"]]
              /\ UNCHANGED <<constructor, cuentas>>
=============================================================================
