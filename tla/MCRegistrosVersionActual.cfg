\* What the code says of deletions of versions of an inventory.
SPECIFICATION MCSpec
CONSTANTS
  r1 = r1
  r2 = r2
  m1 = m1
  m2 = m2
  s1 = s1
  a1 = a1
  a2 = a2
  a3 = a3
  Requests <- MCRequests
  MaxMuertes = 1
  Importes = {1}
  Propiedades = {"p", "q"}
  MaxVersiones = 3
  NoVersion = NoVersion
  MaxArchivos = 3
  Mails <- MCMails
  Sincs <- MCSincs
  HorasDelDia = 1
  Margen = 1
  Duracion = 1
  MaxHora = 2
  Enteras = {"IPC"}
  Ventana = 1
  MaxFecha = 4
  TiposDeContrato = {"VIVIENDA", "OTROS"}
  SinConfig = SinConfig
  Porcentajes = {1, 2}
  Jids = {"j"}
  Codigos = {"c1", "c2"}
  Vigencia = 1
  MaxMinuto = 1
  Llegan <- MCLlegan
  Ilegibles <- MCIlegibles
  Repite <- MCRepite
  CheckPeriodDays = 1
  MaxDia = 1
  Terminos <- MCTerminos
  Legados <- MCLegados
  Libros <- MCLibros
  Carteras <- MCCarteras
  Documentos <- MCDocumentos
  Notas <- MCNotas
  TipoDe <- MCTipo
  Jamas = 99
  Tope = 2
  Buscados <- MCBuscados
  Consultas <- MCConsultas
  LimiteBot = 3
  MaximoBot = 1
  SinFiltro = SinFiltro
INVARIANT VersionActualExiste
SYMMETRY MCSimetria
\* Every component stops at its bounds, and a calculation does nothing.
CHECK_DEADLOCK FALSE
