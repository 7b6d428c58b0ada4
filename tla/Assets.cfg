SPECIFICATION Spec
CONSTANTS
  Task = {t1, t2, t3}
  Image = {i1, i2}
  Upload = {u1}
  Foreign = {x1}
  Deletion = {d1, d2}
  Boot = Boot
  None = None
  Requests = 6
INVARIANT TypeOK
PROPERTIES NewAndForeignFilesStay SettledFilesStay StartSettles
CHECK_DEADLOCK FALSE
