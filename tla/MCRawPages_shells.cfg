SPECIFICATION FairSpec
CONSTANTS
  Workers = {w1, w2}
  NoPage = NoPage
  NoText = NoText
  Pages <- MirrorPages
  Jobs = {"job1", "job2"}
  JobOf <- ShellJobOf
  Urls = {"a/", "b/"}
  UrlOf <- MirrorUrlOf
  Bodies = {"text"}
  BodyOf <- ShellBodyOf
  Links = {"x", "y"}
  LinksOf <- ShellLinksOf
  Malformed = {}
  Visibility = 1
  MaxRedeliveries = 1
  ReapInterval = 1
  MaxDocs = 1
  Overrun = {"p1"}
  Faults = TRUE
  MaxStops = 0
  MaxReplays = 0
INVARIANTS LinksOnce DocsKept OneHolder
PROPERTIES PagesSettle StaleLeasesEnd
