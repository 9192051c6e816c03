SPECIFICATION Spec
CONSTANTS
  ana = ana  ben = ben  old = old  new = new  board = board  Nobody = Nobody
  Agents = {ana, ben}  Trees = {old, new}  Contents = {board}
  MaxDeaths = 1
SYMMETRY Alike
INVARIANTS TypeOK NamedIsThere CopyClosed OneOfEach
CHECK_DEADLOCK FALSE
