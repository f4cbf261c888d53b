----------------------------- MODULE SmtpSession -----------------------------
(***************************************************************************)
(* What an SMTP session promises to the code that sends a message with it. *)
(* The session asks for one recipient after the other, each with the       *)
(* delivery notifications that the global mail.dsn.* preferences name at   *)
(* that moment (or none, when the server offers none); the server accepts  *)
(* the message only after the last recipient; the outcome is reported      *)
(* once, and success only for a message that the server has accepted.      *)
(***************************************************************************)
EXTENDS Naturals, Sequences

CONSTANTS
    Recipients,     \* number of distinct recipients of the message
    DsnPrefs        \* values that the mail.dsn.* preferences may take

VARIABLES
    session,        \* the session, as its caller and its server see it
    prefs           \* the mail.dsn.* preferences that are on

\* The NOTIFY parameter for preferences p.
NotifyOf(p) ==
    IF "NEVER" \in p THEN {"NEVER"} ELSE p \cap {"SUCCESS", "FAILURE", "DELAY"}

Notify == SUBSET {"SUCCESS", "FAILURE", "DELAY", "NEVER"}

Session == [asked     : Seq(Notify),
            delivered : BOOLEAN,
            result    : {"running", "ok", "failed"}]

NewSession == [asked |-> <<>>, delivered |-> FALSE, result |-> "running"]

\* What a session may become: it asks for one more recipient, its message is
\* accepted, it reports its outcome.
Asks(s, p) ==
    IF s.result = "running" /\ Len(s.asked) < Recipients
    THEN {[s EXCEPT !.asked = Append(@, n)] : n \in {NotifyOf(p), {}}}
    ELSE {}

Delivers(s) ==
    IF s.result = "running" /\ Len(s.asked) = Recipients
    THEN {[asked |-> s.asked, delivered |-> TRUE, result |-> s.result]}
    ELSE {}

Reports(s) ==
    IF s.result = "running"
    THEN {[s EXCEPT !.result = r] :
            r \in IF s.delivered THEN {"ok", "failed"} ELSE {"failed"}}
    ELSE {}

SessionNext(s, p) == Asks(s, p) \cup Delivers(s) \cup Reports(s)

Init == session = NewSession /\ prefs \in DsnPrefs

Next == \/ session' \in SessionNext(session, prefs) /\ UNCHANGED prefs
        \/ prefs' \in DsnPrefs /\ UNCHANGED session

Spec == Init /\ [][Next]_<<session, prefs>>
=============================================================================
