\* Panels of every interval, with keys that live for 2, 5 and 48 seconds longer
\* than it is; the one that lives for 300 seconds is left out, and the AWR one,
\* which lives no longer than its interval, has a run of its own;
\* three passes of the loop of the rates, with the shortest interval, min(5, 2);
\* and one or two keys at a time for the advisor, whose interval and list are short.
\* Of the files: two instances; of one the dialog.  Two connections, three calls
\* and a death among them: enough for two calls that overlap and a third one
\* after them.
\* A wallet of two files; three dates for a zip and a marker, before, at and
\* after each other.
CONSTANTS
  Panels = {"dashboard", "sessions", "locks", "topsql", "asm", "dataguard",
            "jobs", "rman", "memory", "ash"}
  RefreshInterval = 5
  NoRow = NoRow
  HealthInterval = 2
  Horizon = 5
  Watched <- MCWatched
  Reading <- MCReading
  Every <- MCEvery
  interval = 2
  PassMax = 1
  FindingMax = 2
  NoPass = NoPass
  Instance = {i1, i2}
  Me = i1
  Key = {k1, k2}
  None = None
  CallMax = 4
  OverlapMax = 3
  OverlapInboxMax = 1
  DeathMax = 1
  InboxMax = 2
  Process = {i1, i2}
  Member = {m1, m2}
  Nothing = Nothing
  Torn = Torn
  DateMax = 1
  ReplaceMax = 2
  ExtractMax = 3
  CutMax = 1
SPECIFICATION BothSpec
INVARIANTS
  TypesOK
  FilesTypesOK
  SilenceIsFresh
  SwitchRefreshes
  CountsOnce
  
  OneEntryPerKey
  MarkedIsCurrent
PROPERTIES
  AlarmIsEarned
  IsAMap
  DeletesWhatWasSeen
CHECK_DEADLOCK FALSE
