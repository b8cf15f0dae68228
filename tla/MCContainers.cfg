SPECIFICATION MCSpec
CONSTANTS
  MCScenes = {"dict", "set", "deque", "vec", "tensor", "matrix", "hamt", "dict hooks", "set hooks", "deque hooks", "vec hooks", "image"}
  Scenes <- TheScenes
  Object = 1
  Others = {2, 3}
  Watchers = {"f"}
  Validators = {"v"}
  Rewatch = FALSE
  MaxSize = 3
  MaxCap = 12
  MaxNumber = 2
  MaxHooks = 2
  Curve <- MCCurve
  HashOf <- MCHashOf
  InitialSize = 2
  TextOf <- MCTextOf
  NumberOf <- MCNumberOf
  Bits = 1
  Width = 2
  HashKey <- MCHashKey
  Home <- MCHome
  FirstCap = 4
  LoadNum = 7
  LoadDen = 10
CHECK_DEADLOCK FALSE
INVARIANTS AnswersRight Sound HooksRight ImageRestores
PROPERTIES Implements EventsTell
