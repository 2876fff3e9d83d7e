SPECIFICATION Spec
CONSTANTS
  Workers = {w1, w2}
  NoPage = NoPage
  NoText = NoText
  Pages <- MirrorPages
  Jobs = {"job"}
  JobOf <- MirrorJobOf
  Urls = {"a/", "b/"}
  UrlOf <- MirrorUrlOf
  Bodies = {"text"}
  BodyOf <- MirrorBodyOf
  Links = {"x", "y"}
  LinksOf <- MirrorLinksOf
  Malformed = {}
  Visibility = 1
  MaxRedeliveries = 1
  ReapInterval = 1
  MaxDocs = 0
  Overrun = {"p1", "p2"}
  Faults = TRUE
  MaxStops = 1
  MaxReplays = 1
SYMMETRY Perms
INVARIANTS TypeOK OnePlace JobBooks SinkComplete
PROPERTIES KeepsPromise
