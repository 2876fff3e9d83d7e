SPECIFICATION Spec
CONSTANTS
  Workers = {w1, w2}
  NoPage = NoPage
  NoText = NoText
  Pages <- MirrorPages
  Jobs = {"job"}
  JobOf <- MirrorJobOf
  Urls = {"a/", "b/"}
  UrlOf <- SameUrlOf
  Bodies = {"text"}
  BodyOf <- MirrorBodyOf
  Links = {"x", "y"}
  LinksOf <- MirrorLinksOf
  Malformed = {}
  Visibility = 1
  MaxRedeliveries = 1
  ReapInterval = 1
  MaxDocs = 0
  Overrun = {"p1", "p2"}
  Faults = FALSE
  MaxStops = 0
  MaxReplays = 0
SYMMETRY Perms
INVARIANTS SinkComplete
