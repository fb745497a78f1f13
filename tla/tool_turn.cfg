SPECIFICATION Spec
CONSTANTS
  r1 = r1
  r2 = r2
  notes = notes
  plan = plan
  photo = photo
  dir = dir
  x = x
  y = y
  bad = bad
  i1 = i1
  Newline = Newline
  Return = Return
  Invalid = {bad}
  Replacement = Replacement
  Breaks = {}
  MaxReadLines = 2
  MaxOutput = 5
  NoticeSize = 1
  MaxResult = 4
  MarkerSize = 1
  Runs = {r1, r2}
  Nobody = Nobody
  Paths = {notes, plan, photo, dir}
  PathOrder <- InOrder
  Ignored = {}
  Missing = Missing
  Folder = Folder
  Picture = Picture
  ImagePaths = {photo}
  Workspaces <- Starts
  Turns <- SomeTurns
  ToolNames <- Names
  Json <- Objects
  NoId = NoId
  MaxMishaps = 1
SYMMETRY Interchangeable
INVARIANTS
  TypeOK
  CallsArriveWhole
  ImagesOfferedOnce
  ViewsHold
PROPERTIES
  EffectsAsReplied
CHECK_DEADLOCK FALSE
