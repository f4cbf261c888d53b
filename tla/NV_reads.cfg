SPECIFICATION FairSpec
CONSTANTS
  m1 = m1
  n1 = n1
  n2 = n2
  r1 = r1
  r2 = r2
  Recip = {r1, r2}
  Notif = {n1, n2}
  Msg = {m1}
  Reports <- ReportsKept
  Kind <- KindRfc
  Orig <- MCOrig
  Recipients <- MCRecipients
  Requested <- MCRequestedDsn
  Wanted <- BothKinds
  ThreadPref = TRUE
  KeepFailed = TRUE
  Folder <- MCFolder
  Inbox = "Inbox"
  Sent = "Sent"
  Trash = "Trash"
  Rank <- MCRank
  Key = {1, 2, 3, 4}
  MaxAttempts = 1
  MaxStreams = 1
  Env = {"display"}
INVARIANTS SingleCopy FailedStaysPut
PROPERTIES ThreadedAtLast
CHECK_DEADLOCK FALSE
