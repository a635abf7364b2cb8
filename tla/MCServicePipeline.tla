------------------------- MODULE MCServicePipeline -------------------------
(* Instances of ServicePipeline.                                            *)
EXTENDS ServicePipeline

CONSTANTS ana, beto, nadie, sin, casas, depto, baldio, factura, aviso, folleto

MCServicios == [s \in {casas, depto, baldio} |->
  CASE s = casas  -> <<[pct |-> 0, propietario |-> ana], [pct |-> 0, propietario |-> beto],
                       [pct |-> 0, propietario |-> nadie]>>
    [] s = depto  -> <<[pct |-> 30, propietario |-> ana], [pct |-> 30, propietario |-> ana],
                       [pct |-> 0, propietario |-> beto]>>
    [] s = baldio -> <<>>]

(* A bill and a notice whose service is only in its text; and then a mail   *)
(* without Message-ID, of a service of no property, and one of no service.  *)
MCAviso == [m \in Mails |->
  IF m = factura THEN [mid |-> TRUE, sid |-> casas, enTexto |-> casas, monto |-> 1000]
  ELSE [mid |-> TRUE, sid |-> sin, enTexto |-> depto, monto |-> 5]]
MCAvisoSinId == [m \in Mails |->
  IF m = aviso THEN [mid |-> FALSE, sid |-> sin, enTexto |-> baldio, monto |-> 5]
  ELSE [mid |-> TRUE, sid |-> sin, enTexto |-> sin, monto |-> 0]]
=============================================================================
