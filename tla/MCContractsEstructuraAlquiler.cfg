\* Two activations of two contracts, from a cold cache.
SPECIFICATION CSpec
CONSTANTS
  c1 = c1
  c2 = c2
  r1 = r1
  r2 = r2
  casa = casa
  Requests <- MCRequests
  Codigos <- MCCodigos
  Centavos = 0
  Contratos <- MCContratos
  Propiedades <- MCPropiedades
  Terminos <- MCTerminos
  DtosContrato <- MCDtosActivar
  DtosPropiedad = {}
  Altas <- MCAltas
  Agentes <- MCAgentes
  Nadie = "nadie"
  MaxOps = 4
INVARIANT EstructuraAlquiler
