------------------------ MODULE MCNotificationViewer ------------------------
(***************************************************************************)
(* Small instances of NotificationViewer for TLC.  One sent message m1 to  *)
(* the recipients r1 and r2, asking for DSN and MDN; notifications n1 and  *)
(* n2 of the kinds each run needs.                                         *)
(***************************************************************************)
EXTENDS NotificationViewer, TLC

CONSTANTS m1, n1, n2, r1, r2

Dsn(r, action) == [to |-> r, type |-> "DSN", value |-> action]
Mdn(r, disposition) == [to |-> r, type |-> "MDN", value |-> disposition]

MCFolder == {"Inbox", "Sent", "Trash"}
MCRank == [f \in MCFolder |-> CASE f = "Inbox" -> 1 [] f = "Sent" -> 2 [] OTHER -> 3]

MCRecipients == m1 :> {r1, r2}
MCRequested == m1 :> {"DSN", "MDN"}
MCRequestedDsn == m1 :> {"DSN"}
MCOrig == n1 :> m1 @@ n2 :> m1

\* A DSN of failure, kept where it is, and a receipt of reading.
KindRfc == n1 :> "DSN" @@ n2 :> "MDN"
ReportsKept == n1 :> {Dsn(r1, "failed")} @@ n2 :> {Mdn(r1, "displayed")}

\* Two DSN that together cover the recipients.
KindTwoDsn == n1 :> "DSN" @@ n2 :> "DSN"
ReportsTwoDsn == n1 :> {Dsn(r1, "delivered")} @@ n2 :> {Dsn(r2, "delivered")}

\* A delivery and a failure.
ReportsFailed == n1 :> {Dsn(r1, "delivered")} @@ n2 :> {Dsn(r2, "failed")}

\* One notification only.
OrigOne == n1 :> m1
KindOne == n1 :> "DSN"
ReportsOne == n1 :> {Dsn(r1, "delivered")}

\* One notification about both recipients.
ReportsBoth == n1 :> {Dsn(r1, "delivered"), Dsn(r2, "delayed")}

\* A DSN, and an exim bounce.
KindExim == n1 :> "DSN" @@ n2 :> "exim"

\* A DSN that answers for both, and a receipt of reading.
ReportsAll ==
    n1 :> {Dsn(r1, "delivered"), Dsn(r2, "relayed")} @@ n2 :> {Mdn(r1, "displayed")}

BothKinds == {"DSN", "MDN"}
DsnOnly == {"DSN"}
=============================================================================
