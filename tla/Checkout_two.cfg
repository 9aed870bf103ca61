CONSTANTS
  h1 = h1 h2 = h2 q1 = q1 q2 = q2 i1 = i1 i2 = i2 i3 = i3 r1 = r1 r2 = r2
  o1 = o1 o2 = o2 p1 = p1 p2 = p2 full = full part = part
  Handlers = {h1, h2}
  Quotes = {q1, q2}
  Intents = {i1, i2}
  References = {r1}
  Orders = {o1, o2}
  Payments = {p1, p2}
  Amounts = {full}
  Price <- PriceDef
  None = None
  MaxAborts = 0
SYMMETRY Symmetry
SPECIFICATION Spec
INVARIANT BoundToItsOwnOrder
