SPECIFICATION Spec
CONSTANTS
  Txns = {x1, x2}
  Members = {ada, bea}
  Branches = {b1, b2}
  Codes = {k1, k2}
  Days = 2
  Rulebook <- SomeRules
  NoToken = NoToken
  Anyone = Anyone
  Idle = Idle
CONSTRAINT Focus
SYMMETRY Interchangeable
INVARIANTS SingleUseAdmitsOnce SpentByItsMember
