CONSTANTS
  h1 = h1 h2 = h2 q1 = q1 q2 = q2 i1 = i1 i2 = i2 i3 = i3 r1 = r1 r2 = r2
  o1 = o1 o2 = o2 p1 = p1 p2 = p2 full = full part = part
  Handlers = {h1, h2}
  Quotes = {q1}
  Intents = {i1, i2}
  References = {}
  Orders = {o1, o2}
  Payments = {}
  Amounts = {full}
  Price <- PriceDef
  None = None
  MaxAborts = 1
SPECIFICATION LiveSpec
PROPERTY RecordedOrdersAreBound
