SPECIFICATION Spec
CONSTANTS
  t1 = t1  t2 = t2  p1 = p1  p2 = p2  n1 = n1  n2 = n2  a = a  b = b
  None = None
  Tenants = {t1, t2}
  Phones = {p1}
  Numbers = {n1, n2}
  Statuses = {"active", "suspended"}
  Messages = {a, b}
  MaxChanges = 6
SYMMETRY MCSymmetry
CHECK_DEADLOCK FALSE
INVARIANTS TypeOK TenantsStayApart BarredMessagesAreIgnored LaterFilesAreNumberedHigher
