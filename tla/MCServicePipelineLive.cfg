\* Scans that generate candidates, beside any other request, under fairness.
SPECIFICATION SFairSpec
CONSTANTS
  ana = ana  beto = beto  nadie = nadie  sin = sin
  casas = casas  depto = depto  baldio = baldio
  factura = factura  aviso = aviso  folleto = folleto
  Mails = {aviso, folleto}
  Aviso <- MCAvisoSinId
  Servicios <- MCServicios
  SinServicio = sin
  SinDuenio = nadie
  ConMapping = {casas, depto}
  AutoCandidatos = {TRUE}
  EstadosOperador = {"IGNORED"}
  Requests = {r1, r2}
  MaxOps = 3
  MaxFallas = 1
PROPERTIES TodaComunicacionSeClasifica
