\* Two receipts interleave on two entries that may be deleted meanwhile.
SPECIFICATION RSpec
CONSTANTS
  a1 = a1
  a2 = a2
  Agentes <- MCAgentes
  Contratos = {"c1"}
  Peso = 1
  Asientos <- MCAsientos
  Requests = {r1, r2}
  Plantillas <- MCPlantillas
  Montos = {}
  MaxOps = 9
  MaxFallas = 1
  Dtos <- MCDtos
  Facturables <- MCFacturables
  MaxRecibos = 2
INVARIANTS NumerosUnicos RecibosRespaldados CobrosCuadran
