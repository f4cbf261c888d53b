---------------------------- MODULE ReportLedger ----------------------------
(***************************************************************************)
(* What the notification-viewer add-on promises of its SQLite table: a     *)
(* ledger that a notification enters with all its reports at once, in the  *)
(* one row of the message it is about, and that nothing ever leaves.       *)
(***************************************************************************)
CONSTANTS
    Row,        \* keys of the table
    Notice,     \* notifications
    Owner,      \* Owner[n]: the row notification n belongs to
    Entries     \* Entries[n]: what n reports

VARIABLE ledger

Init == ledger = [row \in Row |-> {}]

\* A notification may be recorded again: that changes nothing.
Record(n) == ledger' = [ledger EXCEPT ![Owner[n]] = @ \cup Entries[n]]

Next == \E n \in Notice : Record(n)

Spec == Init /\ [][Next]_ledger
=============================================================================
