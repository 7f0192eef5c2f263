CONSTANTS
  Req = {r1, r2}
  Email = {e1, e2}
  Key = {k1}
  NoKey = NoKey
  Earlier = Earlier
  NoCode = NoCode
  Wrong = Wrong
  NoUser = NoUser
  Ops <- Operations
CHECK_DEADLOCK FALSE
SPECIFICATION Spec
SYMMETRY Symmetry
INVARIANTS
  TypeOK
  SignupAnswered
  OneEntityPerUser
  ExchangedTokenDead
PROPERTIES
  UsedCodeRejected
  ConfirmedForGood
