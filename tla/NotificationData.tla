-------------------------- MODULE NotificationData --------------------------
(***************************************************************************)
(* The notification data kept for one original message: the object the     *)
(* notification-viewer add-on calls customProperties                       *)
(* (addons/notification-viewer/chrome/content/customProperties.js).        *)
(*                                                                         *)
(* The order of deliveredToArray, dsnList and mdnList decides nothing but  *)
(* the order of display, so the rows are a set of recipients and the two   *)
(* lists are one bag of entries.  The bag counts how often an entry was    *)
(* pushed: the lists of the code may hold duplicates, and it is the code's *)
(* own look-up that keeps them out.  Addresses and report values are those *)
(* the regular expressions of the code accept.                             *)
(***************************************************************************)
EXTENDS Naturals, FiniteSets

CONSTANTS
    Recip,      \* recipient addresses
    Notif,      \* Message-IDs of notification messages
    Reports     \* Reports[n]: the valid per-recipient reports that n carries

Request == {"DSN", "MDN"}

DsnAction == {"delivered", "expanded", "relayed", "failed", "delayed"}

Disposition == {"displayed", "deleted", "dispatched", "processed", "denied", "failed"}

Report ==
    [to : Recip, type : {"DSN"}, value : DsnAction]
        \cup [to : Recip, type : {"MDN"}, value : Disposition]

ASSUME ReportsAssumption ==
    /\ Reports \in [Notif -> SUBSET Report]
    /\ IsFiniteSet(Recip)

\* One dsnProperty or mdnProperty of a row: a report and the notification
\* that carried it.
EntriesOf(n) == {<<n, r>> : r \in Reports[n]}

Entry == UNION {EntriesOf(n) : n \in Notif}

Data ==
    [dated    : BOOLEAN,                \* messageDate is known (not 0)
     rows     : SUBSET Recip,           \* recipients of deliveredToArray
     requests : [Recip -> SUBSET Request],
     armed    : SUBSET Recip,           \* rows whose timeoutDelay is not 0
     count    : [Entry -> Nat]]         \* dsnList and mdnList, all rows

\* What the constructor makes of the empty string.
EmptyData ==
    [dated    |-> FALSE,
     rows     |-> {},
     requests |-> [r \in Recip |-> {}],
     armed    |-> {},
     count    |-> [e \in Entry |-> 0]]

Recorded(d) == {e \in Entry : d.count[e] > 0}

\* Recipients with a DSN of one of the given actions.
With(d, actions) ==
    {r \in Recip : \E e \in Recorded(d) :
        e[2].to = r /\ e[2].type = "DSN" /\ e[2].value \in actions}

Delivered(d) == With(d, {"delivered", "expanded"})
Relayed(d)   == With(d, {"relayed"})
Failed(d)    == With(d, {"failed"})

\* Recipients whose DSN has been received: a delayed one does not count.
Answered(d) == Delivered(d) \cup Relayed(d) \cup Failed(d)

\* The recipients whose DSN is still waited for.
AwaitedDsn(d) == {r \in d.armed : "DSN" \in d.requests[r]} \ Answered(d)

-----------------------------------------------------------------------------
(* The object as it is saved: the data, and what updateProperties derives  *)
(* from them (getDeliveredToProperty calls it before anything is written). *)
Object ==
    [data : Data,
     columns : SUBSET Request,      \* summaries that are not empty
     timedOut : BOOLEAN,
     checkDelay : BOOLEAN]

\* updateProperties stops waiting for a recipient whose DSN has come or who
\* was asked for none.  (The code keeps dsnRequest from one row to the next:
\* all the recipients of a message are asked the same, and the rows reports
\* create have no timeout, so this is the test of each row.)
Settle(d) == [d EXCEPT !.armed = AwaitedDsn(d)]

\* Faulty variant: the delay is checked before the waiting is stopped.
CheckBeforeStop(d, overdue) ==
    [data       |-> Settle(d),
     columns    |-> UNION {d.requests[r] : r \in d.rows},
     timedOut   |-> d.dated /\ d.armed # {} /\ overdue,
     checkDelay |-> d.dated /\ d.armed # {} /\ ~overdue]

\* Faulty variant: the first answer ends the check for everybody.
CheckUntilAnswer(d, overdue) ==
    [data       |-> Settle(d),
     columns    |-> UNION {d.requests[r] : r \in d.rows},
     timedOut   |-> d.dated /\ AwaitedDsn(d) # {} /\ overdue,
     checkDelay |-> d.dated /\ AwaitedDsn(d) # {} /\ Answered(d) = {} /\ ~overdue]

\* Faulty variant: a delay that ran out is checked again.
CheckForEver(d, overdue) ==
    [data       |-> Settle(d),
     columns    |-> UNION {d.requests[r] : r \in d.rows},
     timedOut   |-> d.dated /\ AwaitedDsn(d) # {} /\ overdue,
     checkDelay |-> d.dated /\ AwaitedDsn(d) # {}]

\* updateProperties; overdue says that more than timeoutDelay has passed
\* since messageDate.
UpdateProperties(d, overdue) ==
    [data       |-> Settle(d),
     columns    |-> UNION {d.requests[r] : r \in d.rows},
     timedOut   |-> d.dated /\ AwaitedDsn(d) # {} /\ overdue,
     checkDelay |-> d.dated /\ AwaitedDsn(d) # {} /\ ~overdue]

\* Faulty variants: what was known is dropped; a message that has any row is
\* taken to be registered.
AddAfresh(d, recipients, wanted) ==
    [EmptyData EXCEPT !.dated = d.dated,
                      !.rows = recipients,
                      !.armed = recipients,
                      !.requests = [r \in Recip |-> IF r \in recipients THEN wanted ELSE {}]]

AddUnlessKnown(d, recipients, wanted) ==
    IF d.rows # {} THEN d ELSE AddAfresh(d, recipients, wanted)

\* addDeliveredTo for every recipient of a message: a row for one that is not
\* known, a timeout and the requests for each.  (A new row is followed by
\* updateProperties and a known one is not; whoever saves the object calls it
\* once more, in getDeliveredToProperty.)
AddDeliveredTo(d, recipients, wanted) ==
    [d EXCEPT !.rows = @ \cup recipients,
              !.armed = @ \cup recipients,
              !.requests = [r \in Recip |-> IF r \in recipients
                                            THEN @[r] \cup wanted
                                            ELSE @[r]]]

\* Faulty variants: no look-up of the entry; entries in new rows only; the
\* entries of other notifications dropped.
AddTwice(d, n) ==
    [d EXCEPT !.rows = @ \cup {r.to : r \in Reports[n]},
              !.count = [e \in Entry |-> IF e \in EntriesOf(n) THEN @[e] + 1 ELSE @[e]]]

AddInNewRows(d, n) ==
    [d EXCEPT !.rows = @ \cup {r.to : r \in Reports[n]},
              !.count = [e \in Entry |-> IF e \in EntriesOf(n) /\ e[2].to \notin d.rows
                                         THEN 1 ELSE @[e]]]

AddOver(d, n) ==
    [d EXCEPT !.rows = @ \cup {r.to : r \in Reports[n]},
              !.count = [e \in Entry |-> IF e \in EntriesOf(n) THEN 1 ELSE 0]]

\* addDsnReport / addMdnReport for every report of notification n: a row for
\* a recipient not known yet, and one entry unless the entry is there already.
\* Each change is followed by updateProperties.
AddReports(d, n) ==
    [d EXCEPT !.rows = @ \cup {r.to : r \in Reports[n]},
              !.count = [e \in Entry |-> IF e \in EntriesOf(n) /\ @[e] = 0
                                         THEN 1
                                         ELSE @[e]]]

\* The status updateProperties derives.
Status(d) ==
    IF Failed(d) # {} THEN "bad"
    ELSE IF Relayed(d) # {} THEN "middle"
    ELSE IF Cardinality(d.rows) = Cardinality(Delivered(d)) THEN "good"
    ELSE ""
=============================================================================
