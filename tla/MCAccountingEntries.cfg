\* Two requests interleave on one entry; one of them may die.
SPECIFICATION Spec
CONSTANTS
  r1 = r1
  r2 = r2
  Agentes <- MCAgentes
  Contratos = {"c1", "c2"}
  Peso = 2
  Asientos = {a1}
  Requests <- MCRequests
  Plantillas <- MCPlantillas
  EsDevolucion <- MCEsDevolucion
  Escala = 12
  Montos = {1, 3}
  MaxOps = 4
  MaxFallas = 1
SYMMETRY MCSimetria
INVARIANTS TypeOK ImputacionAcotada CreditoRespaldado
INVARIANTS CreditoExacto EstadoCoherente EstadoDeCuentaFiel
PROPERTY ImplementaLibro
