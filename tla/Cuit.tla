-------------------------------- MODULE Cuit --------------------------------
(***************************************************************************)
(* The check digit of a CUIT, as it is generated from a document and as it *)
(* is validated.  A CUIT is a sequence of eleven digits; what is not one   *)
(* (another length, a letter) is refused before.                           *)
(***************************************************************************)
EXTENDS Integers, Sequences, FiniteSetsExt

Multiplicadores == <<5, 4, 3, 2, 7, 6, 5, 4, 3, 2>>
Prefijos == {20, 23, 24, 27, 30, 33, 34}
Resto(d) == MapThenSumSet(LAMBDA i : d[i] * Multiplicadores[i], 1 .. 10) % 11

(* Mutant: the weights of two neighbours are not told apart.                *)
CalcularDigitoVerificadorSinPesos(d) ==
  LET resto == MapThenSumSet(LAMBDA i : d[i], 1 .. 10) % 11
  IN  IF resto = 0 THEN 0 ELSE IF resto = 1 THEN 9 ELSE 11 - resto

CalcularDigitoVerificador(d) ==
  IF Resto(d) = 0 THEN 0 ELSE IF Resto(d) = 1 THEN 9 ELSE 11 - Resto(d)

ValidarCuit(c) ==
  /\ Len(c) = 11 /\ \A i \in DOMAIN c : c[i] \in 0 .. 9
  /\ 10 * c[1] + c[2] \in Prefijos
  /\ c[11] = CalcularDigitoVerificador(c)

(* A document of seven digits is padded with a zero.                        *)
GenerarCuitsDesdeDocumento(doc) ==
  LET ocho == IF Len(doc) = 7 THEN <<0>> \o doc ELSE doc
  IN  {<<p \div 10, p % 10>> \o ocho \o <<CalcularDigitoVerificador(<<p \div 10, p % 10>> \o ocho)>> :
         p \in Prefijos}

(* One digit changed, or two neighbours exchanged.                          *)
Errores(c) ==
  {[c EXCEPT ![i] = v] : i \in 1 .. 11, v \in 0 .. 9} \cup
  {[c EXCEPT ![i] = c[i + 1], ![i + 1] = c[i]] : i \in 1 .. 10}

(* The CUITs offered for a document are accepted, and a slip of the pen in  *)
(* one of them is not, unless the digit 9 stands for both remainders that   *)
(* share it (1, which has no digit of its own, and 2).                      *)
SinErrores(doc) ==
  \A c \in GenerarCuitsDesdeDocumento(doc) :
    /\ ValidarCuit(c)
    /\ \A e \in Errores(c) \ {c} : ValidarCuit(e) => {Resto(c), Resto(e)} = {1, 2}
=============================================================================
