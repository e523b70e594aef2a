SPECIFICATION Spec
CONSTANTS
  m1 = m1  m2 = m2
  None = None
  Tasks = {t1}  Users = {c1, m1, m2}  Managers = {m1, m2}
  Sessions = {s1, s2}
PROPERTIES CompletedStays
