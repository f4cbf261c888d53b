---------------------------- MODULE MCRemoteSend ----------------------------
(***************************************************************************)
(* A small instance of RemoteSend for TLC: two clients.                    *)
(***************************************************************************)
EXTENDS RemoteSend

CONSTANTS c1, c2

\* What InitCompose makes of a remote message: mail to an identity that files
\* what it sends in a folder, or in none; no window, no progress dialog.
Composed(fcc, attachments, dsn) ==
    [to |-> TRUE, newsgroups |-> FALSE, fcc2 |-> FALSE, draft |-> FALSE,
     attachments |-> attachments, progress |-> FALSE, dsn |-> dsn, fcc |-> fcc]

RemoteFields == {Composed("folder", TRUE, TRUE), Composed("unsavable", FALSE, FALSE)}

Wanting(options) ==
    [dsn |-> TRUE, options |-> options, addresses |-> TRUE, files |-> TRUE]

\* Good requests for DSN, one without, one with options that exclude each other,
\* one with a bad address.
RemoteRequests ==
    {Wanting({"SUCCESS", "FULL"}), Wanting({"NEVER"}), Wanting({"NEVER", "DELAY"}),
     [Wanting({}) EXCEPT !.dsn = FALSE],
     [Wanting({"FAILURE"}) EXCEPT !.addresses = FALSE]}

AnyPrefs == SUBSET Option
TheUsers == {{"SUCCESS", "FAILURE"}}
=============================================================================
