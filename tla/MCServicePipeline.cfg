\* Two requests interleave; one await fails or the process restarts.
SPECIFICATION SSpec
CONSTANTS
  ana = ana  beto = beto  nadie = nadie  sin = sin
  casas = casas  depto = depto  baldio = baldio
  factura = factura  aviso = aviso  folleto = folleto
  Mails = {factura, aviso}
  Aviso <- MCAviso
  Servicios <- MCServicios
  SinServicio = sin
  SinDuenio = nadie
  ConMapping = {casas, depto}
  AutoCandidatos = {TRUE, FALSE}
  EstadosOperador = {"IGNORED", "UNPROCESSED"}
  Requests = {r1, r2}
  MaxOps = 3
  MaxFallas = 1
INVARIANTS GastoConComunicacion EscaneoExclusivo AsientoContabilizado UnGastoPorAviso
