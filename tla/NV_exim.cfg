SPECIFICATION Spec
CONSTANTS
  m1 = m1
  n1 = n1
  n2 = n2
  r1 = r1
  r2 = r2
  Recip = {r1, r2}
  Notif = {n1, n2}
  Msg = {m1}
  Reports <- ReportsFailed
  Kind <- KindExim
  Orig <- MCOrig
  Recipients <- MCRecipients
  Requested <- MCRequested
  Wanted <- BothKinds
  ThreadPref = FALSE
  KeepFailed = FALSE
  Folder <- MCFolder
  Inbox = "Inbox"
  Sent = "Sent"
  Trash = "Trash"
  Rank <- MCRank
  Key = {1, 2, 3}
  MaxAttempts = 1
  MaxStreams = 1
  Env = {}
PROPERTIES BouncesStayShown
CHECK_DEADLOCK FALSE
