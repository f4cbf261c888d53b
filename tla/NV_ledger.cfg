SPECIFICATION Spec
CONSTANTS
  m1 = m1
  n1 = n1
  n2 = n2
  r1 = r1
  r2 = r2
  Recip = {r1, r2}
  Notif = {n1, n2}
  Msg = {m1}
  Reports <- ReportsTwoDsn
  Kind <- KindTwoDsn
  Orig <- MCOrig
  Recipients <- MCRecipients
  Requested <- MCRequested
  Wanted <- BothKinds
  ThreadPref = FALSE
  KeepFailed = FALSE
  Folder <- MCFolder
  Inbox = "Inbox"
  Sent = "Sent"
  Trash = "Trash"
  Rank <- MCRank
  Key = {1, 2, 3}
  MaxAttempts = 1
  MaxStreams = 1
  Env = {"sqlite", "display", "clock", "time", "stream"}
INVARIANTS TypeOK ShownIsRecorded GoodIsComplete ColumnsAreShown DelaysAreWatched
PROPERTIES ImplementsLedger ReportsStayShown
CHECK_DEADLOCK FALSE
