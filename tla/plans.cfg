SPECIFICATION Spec
CONSTANTS
  None = None
  Groups = {g1}  Pilgrims = {p1}  Staff = {u1}
  Plans = {1}  Procedures = {x1, x2, x3}  LastDay = 2
  AskedOf = {"BOTH"}
  Sessions = {s1, s2}
  Ops = {"updatePlan", "deletePlan", "createProcedure", "updateProcedure",
         "deleteProcedure", "confirm", "confirmAsStaff", "getCurrentPlan", "move"}
  Editors = {"updatePlan", "deletePlan", "deleteProcedure"}
  Confirmers = {"updateProcedure", "confirm", "confirmAsStaff", "getCurrentPlan"}
INVARIANTS PlansTypeOK PlacesInOrder ToldIsRecorded TomorrowIsEarned
SYMMETRY SymmetricRows
CONSTRAINT OneHalf
CHECK_DEADLOCK FALSE
