\* The migration: master data, generation of the entries, accounting data.
SPECIFICATION MCSpec
CONSTANTS
  Nulo = Nulo
  q1 = q1
  q2 = q2
  Focos = {"maestros", "asientos", "pagos"}
  LAgentes <- MCLAgentes
  LPropiedades <- MCLPropiedades
  LContratos <- MCLContratos
  Digitos = {0, 1}
  LocalidadDe <- MCLocalidadDe
  ProvinciaDe <- MCProvinciaDe
  Catalogos <- MCCatalogos
  Global = "26"
  MaxCorridas = 4
  MaxFallas = 1
  GContratos <- MCGContratos
  Tabla <- MCTabla
  Hoy = 2
  Opciones <- MCOpciones
  Lotes <- MCLotes
  Nadie = Nadie
  Peticiones = {q1, q2}
  MaxPeticiones = 3
  MaxCaidas = 1
  Scripts = {"adhoc", "adhocMaestro", "vincular", "recibos", "pagos", "impacto", "enlazar",
             "reset00", "reset08", "resetPagos"}
  LCuentas <- MCLCuentas
  LPagos <- MCLPagos
  LRecibos <- MCLRecibos
  Contractuales <- MCContractuales
  Deudor = "inq"
  Nuevos = {"n1", "n2", "n3"}
  MaxScripts = 5
  MaxMuertes = 1
INVARIANTS MaestrosMigrados PerdidasExplicadas GeneracionFiel PagosRespaldados RecibosMigrados EstadoSostenido
PROPERTY EdicionesPreservadas
SYMMETRY MCSimetria
CHECK_DEADLOCK FALSE
