\* Two generations and two operators, whose handlers go on, on two movements.
SPECIFICATION BFairSpec
CONSTANTS
  m1 = m1
  m2 = m2
  t1 = t1
  t2 = t2
  t3 = t3
  g1 = g1
  g2 = g2
  o1 = o1
  o2 = o2
  Movs <- MCMovs
  Txs <- MCTxs
  Operacion <- MCOperacion
  Tolerancias <- UnDiaEnTexto
  MaxPorMov = 2
  Generadores <- MCGeneradores
  Operadores <- MCOperadores
  MaxOps = 3
  MaxFallas = 1
INVARIANTS ConciliacionRespaldada
PROPERTIES ConfirmadoSoloPorOperador ConfirmacionSeCompleta
