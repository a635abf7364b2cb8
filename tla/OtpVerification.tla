--------------------------- MODULE OtpVerification ---------------------------
(***************************************************************************)
(* OtpService: a code of six digits is mailed to the client that a         *)
(* WhatsApp user (jid) claims to be, and the user sends it back.  The      *)
(* record of a code is read, changed and saved whole paths at a time, and  *)
(* disappears some time after it expired.                                  *)
(***************************************************************************)
EXTENDS Peticiones, Sequences

CONSTANTS
  Jids,
  Codigos,    \* codes that may be drawn, and typed
  Vigencia,   \* OTP_EXPIRATION_MINUTES, in ticks of the clock
  MaxMinuto   \* bound: the clock

VARIABLES
  otps,       \* [Jids -> Seq(the records of the user, oldest first)]
  minuto,
  probados,   \* history: [Jids -> Seq(times each record was compared)]
  vinculados  \* history: [Jids -> Seq(times each record linked the user)]

otpVars == <<otps, minuto, probados, vinculados>>

MAX_ATTEMPTS == 3

InitOtp ==
  /\ otps = [j \in Jids |-> <<>>]
  /\ minuto = 0
  /\ probados = [j \in Jids |-> <<>>]
  /\ vinculados = [j \in Jids |-> <<>>]

Existe(j, i) == i \in DOMAIN otps[j] /\ ~ otps[j][i].borrado
(* What verifyOtp's filter finds.                                           *)
Activos(j) ==
  {i \in DOMAIN otps[j] : Existe(j, i) /\ ~ otps[j][i].verified /\ otps[j][i].expiresAt > minuto}

----------------------------------------------------------------------------
(* validateIdentity(), for a client that is found and has an e-mail.        *)
ValidateIdentity(r, j) ==
  /\ Comenzar(r, [paso |-> "invalidar", jid |-> j])
  /\ UNCHANGED otpVars

(* updateMany(): what was not verified is marked so that it is not used.    *)
Invalidar(r) ==
  LET q == op[r]
  IN  /\ q.paso = "invalidar"
      /\ otps' = [otps EXCEPT ![q.jid] = [i \in DOMAIN @ |-> [@[i] EXCEPT !.verified = TRUE]]]
      /\ Seguir(r, [q EXCEPT !.paso = "crear"])
      /\ UNCHANGED <<minuto, probados, vinculados>>

(* create() of the new one.  It is not taken back if the mail then fails:   *)
(* sent or not, the handler has no more to write.                           *)
Crear(r, c) ==
  LET q == op[r]
  IN  /\ q.paso = "crear"
      /\ otps' = [otps EXCEPT ![q.jid] =
                    Append(@, [otp |-> c, expiresAt |-> minuto + Vigencia, verified |-> FALSE,
                               attempts |-> 0, borrado |-> FALSE])]
      /\ probados' = [probados EXCEPT ![q.jid] = Append(@, 0)]
      /\ vinculados' = [vinculados EXCEPT ![q.jid] = Append(@, 0)]
      /\ Terminar(r)
      /\ UNCHANGED minuto

----------------------------------------------------------------------------
(* verifyOtp(): a record as it is found, and turned away without a write    *)
(* when there is none or it was tried enough.                               *)
VerifyOtp(r, j, c) ==
  /\ \E i \in Activos(j) :
       /\ otps[j][i].attempts < MAX_ATTEMPTS
       /\ Comenzar(r, [paso |-> "contar", jid |-> j, i |-> i, attempts |-> otps[j][i].attempts + 1,
                       otp |-> c])
  /\ UNCHANGED otpVars

(* save() of the count as it was read plus one, and the comparison.         *)
Contar(r) ==
  LET q == op[r]
  IN  /\ q.paso = "contar" /\ Existe(q.jid, q.i)
      /\ otps' = [otps EXCEPT ![q.jid][q.i].attempts = q.attempts]
      /\ probados' = [probados EXCEPT ![q.jid][q.i] = @ + 1]
      /\ IF otps[q.jid][q.i].otp = q.otp THEN Seguir(r, [q EXCEPT !.paso = "vincular"])
                                         ELSE Terminar(r)
      /\ UNCHANGED <<minuto, vinculados>>

(* The second save(), and the answer that links the user to the client.     *)
Vincular(r) ==
  LET q == op[r]
  IN  /\ q.paso = "vincular" /\ Existe(q.jid, q.i)
      /\ otps' = [otps EXCEPT ![q.jid][q.i].verified = TRUE]
      /\ vinculados' = [vinculados EXCEPT ![q.jid][q.i] = @ + 1]
      /\ Terminar(r)
      /\ UNCHANGED <<minuto, probados>>

(* save() of a record that is gone throws.                                  *)
NoGuardar(r) ==
  LET q == op[r]
  IN  /\ q.paso \in {"contar", "vincular"} /\ ~ Existe(q.jid, q.i)
      /\ Terminar(r)
      /\ UNCHANGED otpVars

----------------------------------------------------------------------------
PasaElTiempo ==
  /\ minuto < MaxMinuto
  /\ minuto' = minuto + 1
  /\ UNCHANGED <<otps, probados, vinculados, peticiones>>

(* The TTL index of expiresAt.                                              *)
Caducar(j, i) ==
  /\ Existe(j, i) /\ otps[j][i].expiresAt <= minuto
  /\ otps' = [otps EXCEPT ![j][i].borrado = TRUE]
  /\ UNCHANGED <<minuto, probados, vinculados, peticiones>>

NextOtp ==
  \/ \E r \in Requests :
       \/ \E j \in Jids : ValidateIdentity(r, j) \/ \E c \in Codigos : VerifyOtp(r, j, c)
       \/ Invalidar(r)
       \/ \E c \in Codigos : Crear(r, c)
       \/ Contar(r) \/ Vincular(r) \/ NoGuardar(r)
       \/ Morir(r) /\ UNCHANGED otpVars
  \/ PasaElTiempo
  \/ \E j \in Jids : \E i \in DOMAIN otps[j] : Caducar(j, i)

----------------------------------------------------------------------------
(* Properties.                                                              *)

(* Until two requests overlap, whatever dies midway: one code of a user is  *)
(* active at most, the last one given, and it is not the one that already   *)
(* linked the user; every comparison that was made is on the record; and no *)
(* code is compared more often than allowed, nor links the user twice.      *)
UnSoloCodigo ==
  ~ solape => \A j \in Jids :
    /\ Activos(j) \subseteq {Len(otps[j])}
    /\ \A i \in Activos(j) : vinculados[j][i] = 0
    /\ \A i \in DOMAIN otps[j] : /\ probados[j][i] = otps[j][i].attempts
                                 /\ probados[j][i] <= MAX_ATTEMPTS
                                 /\ vinculados[j][i] <= 1

(* Whatever overlaps: the count may miss comparisons but never invents one, *)
(* a code that linked its user is never active again, and only a comparison *)
(* links.                                                                   *)
VinculoComprobado ==
  \A j \in Jids : \A i \in DOMAIN otps[j] :
    /\ otps[j][i].attempts <= probados[j][i]
    /\ vinculados[j][i] <= probados[j][i]
    /\ vinculados[j][i] > 0 => i \notin Activos(j)
=============================================================================
