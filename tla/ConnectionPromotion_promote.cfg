SPECIFICATION Spec
CONSTANTS
  c1 = c1
  c2 = c2
  Conns = {c1, c2}
  None = None
  MaxSends = 1
CONSTRAINT FirstIsC1
INVARIANTS PromotionNotLost HandlerOnPeersPrimary
PROPERTY PromotionTakesEffect
CHECK_DEADLOCK FALSE
