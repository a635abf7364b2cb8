---------------------------- MODULE MCContracts ----------------------------
(* Instances of Contracts for TLC: two contracts on one property.           *)
EXTENDS Contracts, TLC

CONSTANTS c1, c2, r1, r2, casa

MCCodigos == {"CXC_ALQ", "CXP_LOC", "ING_HNR", "ING_HNR_INIC", "PAS_DEP", "ACT_FID"}
MCContratos == {c1, c2}
MCRequests == {r1, r2}
MCPropiedades == {casa}
MCAgentes == {"locador", "locatario"}

T(meses, ajuste, deposito, locador, locatario) ==
  [propiedad |-> casa, meses |-> meses, monto |-> 10, comision |-> 1, ajuste |-> ajuste,
   fijo |-> FALSE, deposito |-> deposito, honorarios |-> 3,
   cuotasLocador |-> locador, cuotasLocatario |-> locatario,
   locador |-> "locador", locatario |-> "locatario"]

(* Two months, one of them an adjustment, and fees of both parties; and one *)
(* month with no amount of deposit.                                         *)
MCTerminos == [c \in MCContratos |-> IF c = c1 THEN T(2, 1, 5, 1, 2) ELSE T(1, 1, -1, 0, 0)]

Dto(status, hitos) == [status |-> status, hitos |-> hitos]
MCDtosContrato == {Dto("VIGENTE", "si"), Dto("igual", "no"), Dto("PENDIENTE", "igual"),
                   Dto("FINALIZADO", "igual"), Dto("VIGENTE", "igual")}
MCDtosActivar == {Dto("VIGENTE", "si")}
MCDtosPropiedad == {[status |-> "DISPONIBLE", liberar |-> FALSE],
                    [status |-> "igual", liberar |-> TRUE]}
MCAltas == {[status |-> e, hitos |-> FALSE] : e \in {"PENDIENTE", "VIGENTE"}}
MCSimetria == Permutations(MCRequests)
=============================================================================
