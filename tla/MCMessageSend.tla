--------------------------- MODULE MCMessageSend ---------------------------
(***************************************************************************)
(* Small instances of MessageSend for TLC.                                 *)
(***************************************************************************)
EXTENDS MessageSend

CONSTANT m1

\* Mail, news or both, with attachments and a progress dialog or without, every
\* kind of Fcc, a second copy or none, a draft or none.
AllFields == {f \in Field : (f.to \/ f.newsgroups) /\ f.dsn}

\* Mail without a folder for copies.
NoCopyFields ==
    {f \in Field : /\ f.to /\ f.dsn /\ f.fcc = "nocopy"
                   /\ ~ (f.newsgroups \/ f.fcc2 \/ f.draft \/ f.attachments)}

OnePreference == {{"SUCCESS", "FAILURE"}}
=============================================================================
