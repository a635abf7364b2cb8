\* One request at a time on one entry.
SPECIFICATION Spec
CONSTANTS
  r1 = r1
  r2 = r2
  Agentes <- MCAgentes
  Contratos = {"c1", "c2"}
  Peso = 2
  Asientos = {a1}
  Requests = {r1}
  Plantillas <- MCPlantillas
  EsDevolucion <- MCEsDevolucion
  Escala = 12
  Montos = {1, 4}
  MaxOps = 3
  MaxFallas = 0
INVARIANT PagosDentroDeLaDeuda
