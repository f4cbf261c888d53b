---------------------------- MODULE MessageSend ----------------------------
(***************************************************************************)
(* How Trustedbird sends, queues and saves a composed message: the chain   *)
(* of callbacks of nsMsgComposeAndSend (prepare, post to newsgroups, send  *)
(* by SMTP, copy to folders, ask whether to try a copy again), and what    *)
(* nsMsgComposeSendListener does to the window and the draft.              *)
(* The SMTP session is SmtpSession, which SmtpProtocol implements; the     *)
(* news and copy services are external: they succeed or fail.              *)
(***************************************************************************)
EXTENDS Naturals, Sequences, FiniteSets

CONSTANTS
    Messages,       \* messages being composed
    Fields,         \* what a message and its account may be like
    Recipients,     \* mail recipients of a message
    DsnPrefs,       \* values that the mail.dsn.* preferences may take
    MaxRetries,     \* bound: copies of one message tried again
    MaxSends        \* bound: sends and saves of one message

VARIABLES
    fields,         \* nsMsgCompose, what is composed and for which account
    send,           \* nsMsgComposeAndSend and its listener, for each message
    session,        \* the SMTP session of the last send
    prefs           \* the mail.dsn.* preferences that are on

sendVars == <<fields, send, session, prefs>>

Smtp == INSTANCE SmtpSession

\* Header fields filled in; whether the folder named by Fcc can be written;
\* a second folder; a draft that the window was opened from; attachments, which
\* are fetched asynchronously; a progress dialog; DSN requested.
Field == [to : BOOLEAN, newsgroups : BOOLEAN, fcc2 : BOOLEAN, draft : BOOLEAN,
          attachments : BOOLEAN, progress : BOOLEAN, dsn : BOOLEAN,
          fcc : {"folder", "nocopy", "unsavable"}]

ASSUME SendAssumption ==
    /\ Fields \subseteq Field
    /\ {Recipients, MaxRetries, MaxSends} \subseteq Nat

Mode == {"DeliverNow", "QueueForLater", "SaveAsDraft", "SaveAsTemplate"}

Folder == {"Sent", "Second", "Unsent", "Drafts", "Templates"}

\* "stuck": the send is over and its window does not know.
Phase == {"idle", "preparing", "posting", "mailing", "copying", "asking", "stuck"}

Send == [mode      : Mode \cup {"none"},
         phase     : Phase,
         within    : {"callback", "deliver", "doomed"},
         target    : Folder \cup {"none"},
         folders   : SUBSET Folder,     \* where this send has copied the message
         posted    : BOOLEAN,           \* the newsgroups have it
         told      : Seq({"ok", "failed"}),     \* calls of OnStopSending
         stopped   : {"none", "ok", "failed"},  \* call of OnStopCopy
         silent    : BOOLEAN,           \* ended without any call
         second    : BOOLEAN,           \* mNeedToPerformSecondFCC
         progress  : BOOLEAN,           \* mSendProgress
         cancelled : BOOLEAN,           \* mProcessCanceledByUser
         deleteDraft : BOOLEAN,         \* mDeleteDraft
         draft     : BOOLEAN,           \* the draft of this window exists
         window    : BOOLEAN,           \* the window is there
         retries   : Nat,
         sends     : Nat]

NewSend(f) ==
    [mode |-> "none", phase |-> "idle", within |-> "callback", target |-> "none",
     folders |-> {}, posted |-> FALSE, told |-> <<>>, stopped |-> "none",
     silent |-> FALSE, second |-> FALSE, progress |-> FALSE, cancelled |-> FALSE,
     deleteDraft |-> f.draft, draft |-> f.draft, window |-> TRUE,
     retries |-> 0, sends |-> 0]

Init ==
    /\ fields \in [Messages -> Fields]
    /\ send = [m \in Messages |-> NewSend(fields[m])]
    /\ session = [m \in Messages |-> Smtp!NewSession]
    /\ prefs \in DsnPrefs

-----------------------------------------------------------------------------
(* The listener of the compose window.                                     *)

\* The window is left as it is unless there is nothing to copy; the draft goes
\* when the message does.
OnStopSending(s, f, status) ==
    IF status = "ok"
    THEN [s EXCEPT !.told = Append(@, status),
                   !.window = @ /\ f.fcc # "nocopy",
                   !.draft = @ /\ ~s.deleteDraft]
    ELSE [s EXCEPT !.told = Append(@, status), !.phase = "idle"]

\* Faulty: the window is closed whatever became of the copy.
CloseAnyway(s, status) ==
    [s EXCEPT !.stopped = status, !.phase = "idle",
              !.window = @ /\ s.mode \in {"SaveAsDraft", "SaveAsTemplate"}]

\* The draft goes and its replacement, if that is where the copy went, becomes
\* the draft of the window; a window that saves stays open.
OnStopCopy(s, status) ==
    LET t == [s EXCEPT !.stopped = status, !.phase = "idle",
                       !.within = "callback"]
        saved == s.mode = "SaveAsDraft" /\ s.target = "Drafts"
    IN  IF status = "failed"
        THEN t
        ELSE CASE s.mode = "DeliverNow" -> [t EXCEPT !.window = FALSE]
               [] s.mode = "QueueForLater" ->
                    [t EXCEPT !.window = FALSE, !.deleteDraft = TRUE, !.draft = FALSE]
               [] OTHER ->
                    [t EXCEPT !.deleteDraft = TRUE, !.draft = saved,
                              !.folders = IF saved THEN @ \ {"Drafts"} ELSE @]

\* Fail, and nobody but the window's own caller hears of it: the window does
\* when the failure comes back to SendMsg, before anything asynchronous.
Silently(s, f) ==
    [s EXCEPT !.silent = TRUE, !.phase = IF f.attachments THEN "stuck" ELSE "idle"]

-----------------------------------------------------------------------------
(* Copies.  MimeDoFCC may fail at once, which its caller deals with.       *)

\* The copies that MimeDoFCC may start.
Copying(s, folder) ==
    {t \in {[s EXCEPT !.phase = "copying", !.target = folder, !.within = "callback"]} :
        ~ (s.progress /\ s.cancelled)}

\* NotifyListenerOnStopCopy with an error: the user is asked.
Asking(s) == [s EXCEPT !.phase = "asking", !.within = "callback"]

\* Faulty: the second copy is forgotten.
CopyOnce(s) == {OnStopCopy(s, "ok")}

\* NotifyListenerOnStopCopy without an error.
StopCopy(s) ==
    LET t == [s EXCEPT !.second = FALSE]
    IN  IF s.second
        THEN Copying(t, "Second") \cup {OnStopCopy(t, "failed")}
        ELSE {OnStopCopy(s, "ok")}

\* Faulty: the listener is told before every copy.
TellAndCopy(s, f) ==
    IF f.fcc = "folder"
    THEN Copying(OnStopSending(s, f, "ok"), "Sent") \cup {Asking(s)}
    ELSE StopCopy(OnStopSending(s, f, "ok"))

DoFcc(s, f) ==
    IF f.fcc = "folder"
    THEN Copying(s, "Sent") \cup {Asking(s)}
    ELSE StopCopy(OnStopSending(s, f, "ok"))

MagicFolder(mode) ==
    CASE mode = "QueueForLater" -> "Unsent"
      [] mode = "SaveAsDraft" -> "Drafts"
      [] mode = "SaveAsTemplate" -> "Templates"

\* The prompt is answered below SendToMagicFolder, in the call of SendMsg.
SendToMagicFolder(s) ==
    Copying(s, MagicFolder(s.mode))
        \cup {[Asking(s) EXCEPT !.within = "deliver"]}

\* What is left to do when the prompt has been answered.  Called back, nothing.
\* Below SendToMagicFolder a second failure is returned, whatever a third try
\* does: Fail then aborts the copy under way, and the user is asked again.
Unwound(t, within) ==
    CASE within # "callback" /\ t.phase = "asking" -> [t EXCEPT !.within = "doomed"]
      [] within = "doomed" /\ t.phase = "copying" -> Asking(t)
      [] OTHER -> t

-----------------------------------------------------------------------------
(* Delivery.                                                               *)

Delivery(f) == IF f.newsgroups THEN "posting" ELSE "mailing"

\* The user may refuse to send a large message, and a service may refuse it at
\* once: both are errors that Fail reports, and no listener.
DeliverMessage(s, f) ==
    IF s.progress /\ s.cancelled THEN {Silently(s, f)}
    ELSE IF s.mode # "DeliverNow" THEN SendToMagicFolder(s)
    ELSE {Silently(s, f), [s EXCEPT !.phase = Delivery(f)]}

\* DoDeliveryExitProcessing.

\* Faulty: the window is told, the listener is not.
FailUntold(s, f) == {[s EXCEPT !.phase = "idle"]}

DeliveryFailed(s, f) == {OnStopSending(s, f, "failed")}

Delivered(s, f) == DoFcc(OnStopSending(s, f, "ok"), f)

\* The error of a mail that cannot be begun after the news is ignored.
MailAlso(s) ==
    {[s EXCEPT !.phase = "mailing"], [s EXCEPT !.phase = "stuck", !.silent = TRUE]}

\* Faulty: the mail is forgotten.
PostedOnly(s, f) == Delivered(s, f)

DeliverAsNewsExit(s, f) == IF f.to THEN MailAlso(s) ELSE Delivered(s, f)

-----------------------------------------------------------------------------
(* One action for each thing that happens to message m.                    *)

Becomes(m, set) == \E t \in set : send' = [send EXCEPT ![m] = t]

\* nsMsgCompose::SendMsg, with a new nsMsgComposeAndSend.
SendMsg(m, mode) ==
    LET s == send[m]  f == fields[m]
    IN  /\ s.window /\ s.phase = "idle" /\ s.sends < MaxSends
        /\ mode \in {"DeliverNow", "QueueForLater"} => f.to \/ f.newsgroups
        /\ send' = [send EXCEPT ![m] =
                      [s EXCEPT !.mode = mode, !.phase = "preparing",
                                !.within = "callback", !.target = "none",
                                !.posted = FALSE, !.told = <<>>, !.stopped = "none",
                                !.silent = FALSE, !.second = f.fcc2,
                                !.progress = f.progress, !.cancelled = FALSE,
                                !.folders = {}, !.sends = @ + 1]]
        /\ session' = [session EXCEPT ![m] = Smtp!NewSession]
        /\ UNCHANGED <<fields, prefs>>

\* GatherMimeAttachments fails: an attachment, the disk, the signature.
PrepareFails(m) ==
    /\ send[m].phase = "preparing"
    /\ Becomes(m, {Silently(send[m], fields[m])})
    /\ UNCHANGED <<fields, session, prefs>>

Prepared(m) ==
    /\ send[m].phase = "preparing"
    /\ Becomes(m, DeliverMessage(send[m], fields[m]))
    /\ UNCHANGED <<fields, session, prefs>>

NewsExit(m) ==
    /\ send[m].phase = "posting"
    /\ Becomes(m, DeliverAsNewsExit([send[m] EXCEPT !.posted = TRUE], fields[m])
                    \cup DeliveryFailed(send[m], fields[m]))
    /\ UNCHANGED <<fields, session, prefs>>

\* The SMTP session goes on, with or without DSN.
MailGoesOn(m) ==
    /\ send[m].phase = "mailing"
    /\ \E t \in Smtp!Asks(session[m], prefs) \cup Smtp!Delivers(session[m]) :
        /\ fields[m].dsn \/ \A i \in DOMAIN t.asked : t.asked[i] = {}
        /\ session' = [session EXCEPT ![m] = t]
    /\ UNCHANGED <<fields, send, prefs>>

\* It reports its outcome, by SendDeliveryCallback.
MailExit(m) ==
    /\ send[m].phase = "mailing"
    /\ \E t \in Smtp!Reports(session[m]) :
        /\ session' = [session EXCEPT ![m] = t]
        /\ Becomes(m, IF t.result = "ok" THEN Delivered(send[m], fields[m])
                                         ELSE DeliveryFailed(send[m], fields[m]))
    /\ UNCHANGED <<fields, prefs>>

CopyEnds(m) ==
    LET s == send[m]
    IN  /\ s.phase = "copying"
        /\ Becomes(m, StopCopy([s EXCEPT !.folders = @ \cup {s.target}])
                        \cup {Asking(s)})
        /\ UNCHANGED <<fields, session, prefs>>

\* Faulty: everything is done again.
RetryAll(m) ==
    /\ send[m].phase = "asking" /\ send[m].retries < MaxRetries
    /\ Becomes(m, DeliverMessage([send[m] EXCEPT !.retries = @ + 1], fields[m]))
    /\ UNCHANGED <<fields, session, prefs>>

\* A prompt is answered with yes: NotifyListenerOnStopCopy calls DoFcc.
RetryCopy(m) ==
    LET s == [send[m] EXCEPT !.progress = FALSE, !.retries = @ + 1]
    IN  /\ s.phase = "asking" /\ send[m].retries < MaxRetries
        /\ Becomes(m, {Unwound(t, s.within) : t \in DoFcc(s, fields[m])})
        /\ UNCHANGED <<fields, session, prefs>>

GiveUpCopy(m) ==
    /\ send[m].phase = "asking"
    /\ Becomes(m, {OnStopCopy(send[m], "failed")})
    /\ UNCHANGED <<fields, session, prefs>>

\* The user cancels in the progress dialog, and OnStateChange aborts a copy under
\* way; what else goes on ends as it does, sooner.
Cancel(m) ==
    LET s == [send[m] EXCEPT !.cancelled = TRUE]
    IN  /\ s.phase \in {"preparing", "posting", "mailing", "copying"}
        /\ s.progress /\ ~ send[m].cancelled
        /\ Becomes(m, {IF s.phase = "copying" THEN Asking(s) ELSE s})
        /\ UNCHANGED <<fields, session, prefs>>

\* What happens to a message once its sending has begun.
Continues(m) ==
    \/ PrepareFails(m) \/ Prepared(m) \/ NewsExit(m) \/ MailGoesOn(m) \/ MailExit(m)
    \/ CopyEnds(m) \/ RetryCopy(m) \/ GiveUpCopy(m) \/ Cancel(m)

Next == \E m \in Messages : Continues(m) \/ \E mode \in Mode : SendMsg(m, mode)

Spec == Init /\ [][Next]_sendVars

-----------------------------------------------------------------------------
(* Properties.                                                             *)

\* Every variable has its type, and the listener hears once of the end of sending;
\* twice when nothing may be copied, and again when a copy is tried again then.
TypeOK ==
    /\ fields \in [Messages -> Fields]
    /\ send \in [Messages -> Send]
    /\ session \in [Messages -> Smtp!Session]
    /\ prefs \in DsnPrefs
    /\ \A m \in Messages :
            Len(send[m].told) <= IF fields[m].fcc = "folder" THEN 1
                                                             ELSE 2 + send[m].retries

\* The message is where it was addressed to.
Sent(m) == /\ fields[m].to => session[m].delivered
           /\ fields[m].newsgroups => send[m].posted

\* The listener hears that a message was sent (and marks the original as replied
\* to, and deletes the draft) only when the newsgroups and the mail server both
\* have what they were to have, whichever came last.
SentAsTold ==
    \A m \in Messages :
        send[m].mode = "DeliverNow" /\ send[m].told # <<>> =>
            \/ send[m].told = <<"failed">>
            \/ Sent(m) /\ "failed" \notin {send[m].told[i] : i \in DOMAIN send[m].told}

\* What must have happened to a message whose window is gone.
Kept(m) ==
    IF send[m].mode = "QueueForLater" THEN "Unsent" \in send[m].folders ELSE Sent(m)

\* The window is closed, and with it the last copy of a text that has no draft,
\* only when the message is sent, or is queued; copies that were tried again are
\* another matter (ClosedMeansKept).
ClosedKeepsMail ==
    \A m \in Messages :
        ~ send[m].window /\ (send[m].retries = 0 \/ send[m].mode = "DeliverNow")
            => Kept(m)

\* nsMsgCompose.cpp says of OnStopCopy "we are done with the send/copy operation
\* so we have to do something with the window....SHOW if failed, Close if
\* succeeded": a window that is closed leaves a message sent or queued.
ClosedMeansKept == \A m \in Messages : ~ send[m].window => Kept(m)

\* When the listener hears that copying is done, every copy that was asked for is
\* there: the one of the mode, then the second one; a saved draft has taken the
\* place of the one that the window was opened from.
FiledAsTold ==
    \A m \in Messages :
        LET s == send[m]
        IN  s.stopped = "ok" /\ s.retries = 0 =>
                /\ fields[m].fcc2 => "Second" \in s.folders
                /\ CASE s.mode = "DeliverNow" ->
                            fields[m].fcc = "folder" => "Sent" \in s.folders
                     [] s.mode = "SaveAsDraft" -> s.draft \/ "Drafts" \in s.folders
                     [] OTHER -> MagicFolder(s.mode) \in s.folders

\* Until the user sends it again, a message that the listener knows to be sent, or
\* not, does not go out: a copy that is tried again sends nothing.
NeverSentAgain ==
    [][\A m \in Messages :
        send'[m].sends = send[m].sends /\ send[m].told # <<>> =>
            send'[m].phase \notin {"preparing", "posting", "mailing"}]_sendVars
=============================================================================
