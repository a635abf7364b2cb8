\* One receipt at a time on two entries.
SPECIFICATION RSpec
CONSTANTS
  a1 = a1
  a2 = a2
  Agentes <- MCAgentes
  Contratos = {"c1"}
  Peso = 1
  Asientos <- MCAsientos
  Requests = {r1}
  Plantillas <- MCPlantillas
  Montos = {}
  MaxOps = 9
  MaxFallas = 0
  Dtos <- MCDtos
  Facturables <- MCFacturables
  MaxRecibos = 1
INVARIANT CajaConTransaccion
