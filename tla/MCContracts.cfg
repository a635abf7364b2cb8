\* Two requests interleave on two contracts of one property, from a cold cache.
SPECIFICATION CSpec
CONSTANTS
  c1 = c1
  c2 = c2
  r1 = r1
  r2 = r2
  casa = casa
  Requests <- MCRequests
  Codigos <- MCCodigos
  Centavos = 0
  Contratos <- MCContratos
  Propiedades <- MCPropiedades
  Terminos <- MCTerminos
  DtosContrato <- MCDtosContrato
  DtosPropiedad <- MCDtosPropiedad
  Altas <- MCAltas
  Agentes <- MCAgentes
  Nadie = "nadie"
  MaxOps = 4
INVARIANTS AsientosBalanceados ContratoContabilizado DisponibleSinContrato
SYMMETRY MCSimetria
