------------------------ MODULE NotificationDataProofs ------------------------
(***************************************************************************)
(* What the operations of customProperties return, for every value of the  *)
(* constants.                                                              *)
(***************************************************************************)
EXTENDS NotificationData, TLAPS

\* A report is a record with three known fields.
LEMMA ReportFields ==
    ASSUME NEW n \in Notif, NEW r \in Reports[n]
    PROVE  /\ r.to \in Recip
           /\ r \in Report
BY ReportsAssumption DEF Report

LEMMA EntryType ==
    ASSUME NEW n \in Notif
    PROVE  /\ EntriesOf(n) \subseteq Entry
           /\ \A e \in EntriesOf(n) : e[1] = n /\ e[2] \in Reports[n]
BY DEF EntriesOf, Entry

LEMMA EntryOwner ==
    ASSUME NEW e \in Entry
    PROVE  e[1] \in Notif /\ e \in EntriesOf(e[1])
BY DEF EntriesOf, Entry

LEMMA EmptyDataType == EmptyData \in Data /\ Recorded(EmptyData) = {}
BY DEF EmptyData, Data, Recorded, Request

\* updateProperties of customProperties.js touches no row, request or report.
LEMMA SettleType ==
    ASSUME NEW d \in Data
    PROVE  /\ Settle(d) \in Data
           /\ Settle(d).count = d.count
           /\ Settle(d).rows = d.rows
           /\ Settle(d).requests = d.requests
           /\ Settle(d).dated = d.dated
           /\ Settle(d).armed = AwaitedDsn(d)
BY DEF Settle, AwaitedDsn, Data

LEMMA SettleRecords ==
    ASSUME NEW d \in Data
    PROVE  /\ Recorded(Settle(d)) = Recorded(d)
           /\ AwaitedDsn(Settle(d)) = AwaitedDsn(d)
<1>1. Recorded(Settle(d)) = Recorded(d)
  BY SettleType DEF Recorded
<1>2. Answered(Settle(d)) = Answered(d)
  BY <1>1 DEF Answered, Delivered, Relayed, Failed, With
<1>3. Settle(d).armed = AwaitedDsn(d) /\ Settle(d).requests = d.requests
  BY SettleType
<1> QED
  BY <1>1, <1>2, <1>3 DEF AwaitedDsn

\* An object asks to be checked exactly while it waits and is not timed out.
Honest(o) ==
    o.checkDelay <=> (o.data.dated /\ AwaitedDsn(o.data) # {} /\ ~o.timedOut)

LEMMA UpdatePropertiesType ==
    ASSUME NEW d \in Data, NEW overdue \in BOOLEAN
    PROVE  /\ UpdateProperties(d, overdue) \in Object
           /\ UpdateProperties(d, overdue).data = Settle(d)
           /\ Honest(UpdateProperties(d, overdue))
           /\ UpdateProperties(d, overdue).timedOut => overdue
<1> DEFINE o == UpdateProperties(d, overdue)
<1>1. o.data = Settle(d) /\ Settle(d) \in Data /\ Settle(d).dated = d.dated
  BY SettleType DEF UpdateProperties
<1>2. AwaitedDsn(Settle(d)) = AwaitedDsn(d)
  BY SettleRecords
<1>3. o.columns \subseteq Request
  <2>1. \A r \in d.rows : d.requests[r] \subseteq Request
    BY DEF Data
  <2> QED
    BY <2>1 DEF UpdateProperties
<1>4. o \in Object
  <2>1. d.dated \in BOOLEAN
    BY DEF Data
  <2> QED
    BY <1>1, <1>3, <2>1 DEF UpdateProperties, Object
<1>5. Honest(o) /\ (o.timedOut => overdue)
  BY <1>1, <1>2 DEF Honest, UpdateProperties
<1> QED
  BY <1>1, <1>4, <1>5

\* No row or request of d is missing from d2, and no report is new or lost.
Preserves(d, d2) ==
    /\ d2.count = d.count
    /\ d.rows \subseteq d2.rows
    /\ \A r \in Recip : d.requests[r] \subseteq d2.requests[r]

\* addDeliveredTo adds rows and requests, and no report.
LEMMA AddDeliveredToType ==
    ASSUME NEW d \in Data, NEW recipients \in SUBSET Recip,
           NEW wanted \in SUBSET Request
    PROVE  /\ AddDeliveredTo(d, recipients, wanted) \in Data
           /\ Preserves(d, AddDeliveredTo(d, recipients, wanted))
BY DEF AddDeliveredTo, Preserves, Data

LEMMA AddReportsType ==
    ASSUME NEW d \in Data, NEW n \in Notif
    PROVE  /\ AddReports(d, n) \in Data
           /\ d.rows \subseteq AddReports(d, n).rows
           /\ AddReports(d, n).requests = d.requests
           /\ \A e \in Entry : AddReports(d, n).count[e] =
                IF e \in EntriesOf(n) /\ d.count[e] = 0 THEN 1 ELSE d.count[e]
<1>1. {r.to : r \in Reports[n]} \subseteq Recip
  BY ReportFields
<1> QED
  BY <1>1 DEF AddReports, Data

\* addDsnReport and addMdnReport record exactly the reports of the
\* notification, once each.
LEMMA AddReportsRecords ==
    ASSUME NEW d \in Data, NEW n \in Notif
    PROVE  /\ Recorded(AddReports(d, n)) = Recorded(d) \cup EntriesOf(n)
           /\ \A e \in Recorded(AddReports(d, n)) :
                AddReports(d, n).count[e] = IF e \in Recorded(d) THEN d.count[e] ELSE 1
<1> DEFINE a == AddReports(d, n)
<1>1. \A e \in Entry : d.count[e] \in Nat
  BY DEF Data
<1>2. \A e \in Entry : a.count[e] =
        IF e \in EntriesOf(n) /\ d.count[e] = 0 THEN 1 ELSE d.count[e]
  BY AddReportsType
<1>3. EntriesOf(n) \subseteq Entry
  BY EntryType
<1> HIDE DEF a
<1>4. Recorded(a) = Recorded(d) \cup EntriesOf(n)
  BY <1>1, <1>2, <1>3 DEF Recorded
<1>5. \A e \in Recorded(a) : a.count[e] = IF e \in Recorded(d) THEN d.count[e] ELSE 1
  BY <1>1, <1>2, <1>3, <1>4 DEF Recorded
<1> QED
  BY <1>4, <1>5 DEF a

\* The order in which notifications are read does not matter to the data they
\* leave behind, and reading one twice changes nothing: callbacks of
\* parseMsg may come in any order, and an index may be rebuilt.
THEOREM ReportsCommute ==
    ASSUME NEW d \in Data, NEW a \in Notif, NEW b \in Notif
    PROVE  /\ AddReports(AddReports(d, a), b) = AddReports(AddReports(d, b), a)
           /\ AddReports(AddReports(d, a), a) = AddReports(d, a)
<1> DEFINE da == AddReports(d, a)
           db == AddReports(d, b)
           ab == AddReports(da, b)
           ba == AddReports(db, a)
           aa == AddReports(da, a)
<1>1. da \in Data /\ db \in Data
  BY AddReportsType
<1>2. ab \in Data /\ ba \in Data /\ aa \in Data
  BY <1>1, AddReportsType
<1>3. ab.count = ba.count /\ aa.count = da.count
  <2>1. \A e \in Entry : d.count[e] \in Nat
    BY DEF Data
  <2>2. \A e \in Entry :
          /\ da.count[e] = IF e \in EntriesOf(a) /\ d.count[e] = 0 THEN 1 ELSE d.count[e]
          /\ db.count[e] = IF e \in EntriesOf(b) /\ d.count[e] = 0 THEN 1 ELSE d.count[e]
    BY AddReportsType
  <2>3. \A e \in Entry :
          /\ ab.count[e] = IF e \in EntriesOf(b) /\ da.count[e] = 0 THEN 1 ELSE da.count[e]
          /\ ba.count[e] = IF e \in EntriesOf(a) /\ db.count[e] = 0 THEN 1 ELSE db.count[e]
          /\ aa.count[e] = IF e \in EntriesOf(a) /\ da.count[e] = 0 THEN 1 ELSE da.count[e]
    BY <1>1, AddReportsType
  <2> HIDE DEF da, db, ab, ba, aa
  <2>4. \A e \in Entry : ab.count[e] = ba.count[e] /\ aa.count[e] = da.count[e]
    BY <2>1, <2>2, <2>3
  <2> QED
    BY <2>4, <1>1, <1>2 DEF Data
<1>4. /\ ab.rows = ba.rows /\ aa.rows = da.rows
      /\ ab.dated = ba.dated /\ aa.dated = da.dated
      /\ ab.requests = ba.requests /\ aa.requests = da.requests
      /\ ab.armed = ba.armed /\ aa.armed = da.armed
  BY DEF AddReports, Data
<1>5. ASSUME NEW x \in Data, NEW y \in Data,
             x.count = y.count, x.rows = y.rows, x.dated = y.dated,
             x.requests = y.requests, x.armed = y.armed
      PROVE  x = y
  BY <1>5 DEF Data
<1> HIDE DEF da, db, ab, ba, aa
<1>6. ab = ba /\ aa = da
  BY <1>1, <1>2, <1>3, <1>4, <1>5
<1> QED
  BY <1>6 DEF da, db, ab, ba, aa
=============================================================================
