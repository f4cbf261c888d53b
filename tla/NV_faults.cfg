SPECIFICATION Spec
CONSTANTS
  m1 = m1
  n1 = n1
  n2 = n2
  r1 = r1
  r2 = r2
  Recip = {r1, r2}
  Notif = {n1}
  Msg = {m1}
  Reports <- ReportsOne
  Kind <- KindOne
  Orig <- OrigOne
  Recipients <- MCRecipients
  Requested <- MCRequested
  Wanted <- BothKinds
  ThreadPref = TRUE
  KeepFailed = FALSE
  Folder <- MCFolder
  Inbox = "Inbox"
  Sent = "Sent"
  Trash = "Trash"
  Rank <- MCRank
  Key = {1, 2, 3, 4}
  MaxAttempts = 2
  MaxStreams = 1
  Env = {"user", "copy", "crash"}
INVARIANTS LedgerComplete MailKept
CHECK_DEADLOCK FALSE
