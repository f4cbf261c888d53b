----------------------------- MODULE RemoteSend -----------------------------
(***************************************************************************)
(* The CORBA service that sends messages for other programs                *)
(* (message-remote-services): each call of SendMessage runs in a thread of *)
(* the ORB, writes what it wants of DSN to the global preferences, posts   *)
(* the sending to the user interface, and returns when its listener has    *)
(* been told.  The sending itself is MessageSend.                          *)
(***************************************************************************)
EXTENDS MessageSend

CONSTANTS
    Requests,       \* what clients may ask for
    UserPrefs       \* what the user may set the preferences to

VARIABLES
    request,        \* the parameters of each call
    call,           \* how far it has come
    left,           \* preferences that it has still to write
    alone           \* nobody else has written the preferences since it began

callVars == <<request, call, left, alone>>
remoteVars == <<sendVars, callVars>>

Option == {"FULL", "SUCCESS", "FAILURE", "DELAY", "NEVER"}

\* isDSNRequested, DSNType; every recipient has an '@', every attachment a file.
Request == [dsn : BOOLEAN, options : SUBSET Option,
            addresses : BOOLEAN, files : BOOLEAN]

\* The preferences are independent of each other; SetTo alone addresses a message,
\* and ControlFormat raises when there is nobody to send it to.
ASSUME RemoteAssumption ==
    /\ Requests \subseteq Request
    /\ UserPrefs \subseteq SUBSET Option
    /\ DsnPrefs = SUBSET Option
    /\ \A f \in Fields : f.to

Stage == {"idle", "dsn", "filled", "posted", "waiting", "returned", "raised"}

\* The order of the calls of SetBoolPref, after mail.dsn.ret_full_on.
PrefOrder == <<"SUCCESS", "FAILURE", "DELAY", "NEVER">>

\* The stages in which a call may still write, or need, the preferences.
Active(c) == call[c] \in {"dsn", "filled", "posted", "waiting"}

Valid(options) ==
    /\ options \cap {"SUCCESS", "FAILURE", "DELAY", "NEVER"} # {}
    /\ "NEVER" \in options => options \cap {"SUCCESS", "FAILURE", "DELAY"} = {}

RemoteInit ==
    /\ Init
    /\ prefs \in UserPrefs
    /\ request \in [Messages -> Requests]
    /\ \A c \in Messages : fields[c].dsn = request[c].dsn
    /\ call = [c \in Messages |-> "idle"]
    /\ left = [c \in Messages |-> <<>>]
    /\ alone = [c \in Messages |-> TRUE]

\* Faulty: a preference that is not wanted is left as it is.
AddPref(c, o) == prefs \cup ({o} \cap request[c].options)

\* SetBoolPref.
SetPref(c, o) == (prefs \ {o}) \cup ({o} \cap request[c].options)

\* Call c writes option o.
Writes(c, o) ==
    /\ prefs' = SetPref(c, o)
    /\ alone' = [d \in Messages |-> alone[d] /\ (d = c \/ ~ Active(d))]

-----------------------------------------------------------------------------
(* The thread of call c.                                                   *)

\* FillMsgComposeParams; the return option is written before the others are
\* looked at.
BeginCall(c) ==
    /\ call[c] = "idle"
    /\ IF request[c].dsn
       THEN /\ Writes(c, "FULL")
            /\ IF Valid(request[c].options)
               THEN /\ call' = [call EXCEPT ![c] = "dsn"]
                    /\ left' = [left EXCEPT ![c] = PrefOrder]
               ELSE /\ call' = [call EXCEPT ![c] = "raised"]
                    /\ UNCHANGED left
       ELSE /\ call' = [call EXCEPT ![c] = "filled"]
            /\ UNCHANGED <<left, prefs, alone>>
    /\ UNCHANGED <<fields, send, session, request>>

\* Faulty: the last preference is not waited for.
WriteUnfinished(c) ==
    /\ call[c] = "dsn"
    /\ Writes(c, Head(left[c]))
    /\ left' = [left EXCEPT ![c] = Tail(@)]
    /\ call' = [call EXCEPT ![c] = IF Len(left[c]) = 2 THEN "filled" ELSE @]
    /\ UNCHANGED <<fields, send, session, request>>

WritePref(c) ==
    /\ call[c] = "dsn"
    /\ Writes(c, Head(left[c]))
    /\ left' = [left EXCEPT ![c] = Tail(@)]
    /\ call' = [call EXCEPT ![c] = IF Len(left[c]) = 1 THEN "filled" ELSE @]
    /\ UNCHANGED <<fields, send, session, request>>

\* AddAttachment and ControlFormat raise; otherwise SendMsg is posted to the
\* thread of the user interface.
PostSendMsg(c) ==
    /\ call[c] = "filled"
    /\ call' = [call EXCEPT ![c] = IF request[c].files /\ request[c].addresses
                                   THEN "posted" ELSE "raised"]
    /\ UNCHANGED <<sendVars, request, left, alone>>

\* Faulty: the thread goes when the session is over.
ReturnEarly(c) ==
    /\ call[c] = "waiting" /\ send[c].phase \notin {"preparing", "posting"}
    /\ call' = [call EXCEPT ![c] = "returned"]
    /\ UNCHANGED <<sendVars, request, left, alone>>

\* IsDone, after OnStop has told the client.
Return(c) ==
    /\ call[c] = "waiting" /\ send[c].told # <<>>
    /\ call' = [call EXCEPT ![c] = "returned"]
    /\ UNCHANGED <<sendVars, request, left, alone>>

-----------------------------------------------------------------------------
(* The thread of the user interface.                                       *)

RunSendMsg(c) ==
    /\ call[c] = "posted"
    /\ SendMsg(c, "DeliverNow")
    /\ call' = [call EXCEPT ![c] = "waiting"]
    /\ UNCHANGED <<request, left, alone>>

SendContinues(c) == Continues(c) /\ UNCHANGED callVars

\* The user changes the preferences, in the window of dsn-settings.
UserSetsPrefs ==
    /\ prefs' \in UserPrefs /\ prefs' # prefs
    /\ alone' = [d \in Messages |-> alone[d] /\ ~ Active(d)]
    /\ UNCHANGED <<fields, send, session, request, call, left>>

RemoteNext ==
    \/ \E c \in Messages :
        \/ BeginCall(c) \/ WritePref(c) \/ PostSendMsg(c) \/ Return(c)
        \/ RunSendMsg(c) \/ SendContinues(c)
    \/ UserSetsPrefs

RemoteSpec == RemoteInit /\ [][RemoteNext]_remoteVars

\* Threads run; events of the user interface are processed; attachments and
\* sessions end (SmtpProtocol: SendEnds), as do copies; prompts are answered.
RemoteFairness ==
    \A c \in Messages :
        /\ WF_remoteVars(WritePref(c) \/ PostSendMsg(c) \/ Return(c))
        /\ WF_remoteVars(RunSendMsg(c))
        /\ WF_remoteVars((Prepared(c) \/ PrepareFails(c)) /\ UNCHANGED callVars)
        /\ WF_remoteVars(MailExit(c) /\ UNCHANGED callVars)

FairRemoteSpec == RemoteSpec /\ RemoteFairness

-----------------------------------------------------------------------------
(* Properties.                                                             *)

\* Every variable has its type, and a call leaves SetDSNProperties exactly when
\* all of its preferences are written.
RemoteTypeOK ==
    /\ TypeOK
    /\ request \in [Messages -> Requests]
    /\ call \in [Messages -> Stage]
    /\ alone \in [Messages -> BOOLEAN]
    /\ \A c \in Messages :
        /\ left[c] \in {SubSeq(PrefOrder, i, 4) : i \in 1..5}
        /\ left[c] # <<>> <=> call[c] = "dsn"

\* The server is asked for the DSN that the client wants, if for any, unless
\* another call or the user wrote the preferences after this call began:
\* whatever they were before the call, and in every order of earlier calls.
DsnAsRequested ==
    \A c \in Messages : \A i \in DOMAIN session[c].asked :
        LET notify == session[c].asked[i]
        IN  \/ notify = {}
            \/ request[c].dsn /\ (alone[c] => notify = Smtp!NotifyOf(request[c].options))

\* A call that raised has sent nothing and never will; one that returned has told
\* its client, and "success" means that the server has accepted the message for
\* every recipient.
CallSettled ==
    \A c \in Messages :
        /\ call[c] \in {"idle", "raised"} => send[c].sends = 0
        /\ call[c] = "returned" =>
            /\ send[c].told # <<>>
            /\ send[c].told[1] = "ok" =>
                session[c].delivered /\ Len(session[c].asked) = Recipients

\* A posted call returns, unless the sending ended without any callback: the
\* failures that DeliverMessage and GatherMimeAttachments only report to the user.
CallReturns ==
    \A c \in Messages : call[c] = "posted" ~> call[c] = "returned" \/ send[c].silent
=============================================================================
