---------------------------- MODULE SmtpProtocol ----------------------------
(***************************************************************************)
(* The SMTP client of Trustedbird, nsSmtpProtocol: one connection, one     *)
(* message.  Each handler of ProcessProtocolState is an action; the client *)
(* pauses only where m_nextState is RESPONSE, and where it asks the user   *)
(* for a password.  The server conforms to the protocol: it answers each   *)
(* command once, accepts or refuses it, and may be gone at any time.       *)
(***************************************************************************)
EXTENDS Naturals, Sequences

CONSTANTS
    Recipients,     \* number of distinct recipients of the message
    Settings,       \* settings that the account and the message may have
    DsnPrefs,       \* values that the mail.dsn.* preferences may take
    Offers          \* sets of keywords that a server may offer

Mechanism == {"GSSAPI", "CRAM-MD5", "NTLM", "MSN", "PLAIN", "LOGIN", "EXTERNAL"}

\* "SIZE" stands for a limit that the message meets, "LIMIT" for one it exceeds.
Keyword == Mechanism \cup {"STARTTLS", "DSN", "PRIORITY", "SIZE", "LIMIT"}

Option == {"FULL", "SUCCESS", "FAILURE", "DELAY", "NEVER"}

\* m_prefTrySSL ("try" and "always" by STARTTLS), m_prefAuthMethod other than
\* PREF_AUTH_NONE, m_prefTrySecAuth, a user name, m_requestDSN.
Setting == [trySSL : {"never", "try", "always", "smtps"}, authAny : BOOLEAN,
            trySecAuth : BOOLEAN, username : BOOLEAN, requestDSN : BOOLEAN]

ASSUME SmtpAssumption ==
    /\ Recipients \in Nat
    /\ Settings \subseteq Setting
    /\ DsnPrefs \subseteq SUBSET Option
    /\ Offers \subseteq SUBSET Keyword

VARIABLES
    m_nextState, m_nextStateAfterResponse,
    m_flags, m_origAuthFlags,
    m_responseCode,
    m_tlsInitiated, m_tlsEnabled,
    m_addressesLeft,
    m_sendDone,
    password,       \* nsSmtpServer has a password
    settings,       \* those of the account and the message, for the session
    prefs,          \* the mail.dsn.* preferences that are on
    result,         \* what SetUrlState told the sender
    asked,          \* parameters of the RCPT commands sent
    channel,        \* the connection: "clear", "tls" or "closed"
    command,        \* what was sent and is not yet answered
    reply,          \* an answer not yet read, or 0
    offered,        \* keywords of the server's answer to the last EHLO
    secured,        \* the server has accepted STARTTLS
    dialogue,       \* the mechanism of the AUTH dialogue that goes on, if any
    challenges,     \* challenges left in it
    refused,        \* mechanisms refused since the password was asked for
    accepted,       \* recipients accepted by the server
    delivered       \* the server has accepted the message

machine == <<m_nextState, m_nextStateAfterResponse, m_responseCode>>
flags   == <<m_flags, m_origAuthFlags>>
choices == <<settings, prefs>>
tls     == <<m_tlsInitiated, m_tlsEnabled>>
wire    == <<channel, command, reply>>
server  == <<offered, secured, dialogue, challenges, refused, accepted, delivered>>
vars    == <<machine, flags, tls, m_addressesLeft, m_sendDone, password,
             choices, result, asked, wire, server>>

Verb == {"none", "connect", "EHLO", "HELO", "STARTTLS", "AUTH", "line", "cancel",
         "MAIL", "RCPT", "DATA", "message", "QUIT"}

Param == Mechanism \cup {"FULL", "HDRS", "ENVID", "SIZE", "PRIORITY",
                         "SUCCESS", "FAILURE", "DELAY", "NEVER"}

\* Parameters that only a server with the keyword DSN understands.
DsnParam == {"FULL", "HDRS", "ENVID", "SUCCESS", "FAILURE", "DELAY", "NEVER"}

Cmd(verb, params) == [verb |-> verb, params |-> params]
Command == [verb : Verb, params : SUBSET Param]
NoCommand == Cmd("none", {})
-----------------------------------------------------------------------------
(* The client's end of the connection *)

Init ==
    /\ m_nextState = "START_CONNECT"
    /\ m_nextStateAfterResponse = "START_CONNECT"
    /\ m_flags = {} /\ m_origAuthFlags = {}
    /\ m_responseCode = 0
    /\ m_tlsInitiated = FALSE /\ m_tlsEnabled = FALSE
    /\ m_addressesLeft = 0
    /\ m_sendDone = FALSE
    /\ password \in BOOLEAN
    /\ settings \in Settings /\ prefs \in DsnPrefs
    /\ result = "running"
    /\ asked = <<>>
    /\ channel = IF settings.trySSL = "smtps" THEN "tls" ELSE "clear"
    /\ command = NoCommand /\ reply = 0
    /\ offered = {} /\ secured = FALSE
    /\ dialogue = {} /\ challenges = 0 /\ refused = {}
    /\ accepted = 0 /\ delivered = FALSE

\* A message without recipients is refused before anything is sent: LoadUrl
\* returns the error.
LoadUrl ==
    /\ m_nextState = "START_CONNECT"
    /\ m_addressesLeft' = Recipients
    /\ IF Recipients = 0
       THEN /\ m_nextState' = "ERROR_DONE"
            /\ result' = "failed"
            /\ UNCHANGED <<m_nextStateAfterResponse, command>>
       ELSE /\ m_nextState' = "RESPONSE"
            /\ m_nextStateAfterResponse' = "EXTN_LOGIN_RESPONSE"
            /\ command' = Cmd("connect", {})
            /\ UNCHANGED result
    /\ UNCHANGED <<m_responseCode, flags, tls, m_sendDone, password, choices, asked,
                   channel, reply, server>>

\* SendData fails when the connection is gone, and the error branch of
\* ProcessProtocolState then ends the session.
Send(c, after) ==
    /\ IF channel = "closed"
       THEN /\ m_nextState' = "ERROR_DONE"
            /\ UNCHANGED <<m_nextStateAfterResponse, command>>
       ELSE /\ m_nextState' = "RESPONSE"
            /\ m_nextStateAfterResponse' = after
            /\ command' = c
    /\ UNCHANGED <<channel, reply>>

\* A handler that returns an error.
Fail == Send(Cmd("QUIT", {}), "ERROR_DONE")

Goto(state) ==
    /\ m_nextState' = state
    /\ UNCHANGED <<m_nextStateAfterResponse, wire>>

SmtpResponse ==
    /\ m_nextState = "RESPONSE" /\ reply # 0 /\ channel # "closed"
    /\ m_responseCode' = reply
    /\ m_nextStateAfterResponse' =
         IF reply = 220 /\ ~m_tlsInitiated THEN "EXTN_LOGIN_RESPONSE"
                                           ELSE m_nextStateAfterResponse
    /\ m_nextState' = m_nextStateAfterResponse'
    /\ command' = NoCommand /\ reply' = 0
    /\ UNCHANGED <<flags, tls, m_addressesLeft, m_sendDone, password, choices,
                   result, asked, channel, server>>
-----------------------------------------------------------------------------
(* Greeting, EHLO and STARTTLS *)

ExtensionLoginResponse ==
    /\ m_nextState = "EXTN_LOGIN_RESPONSE"
    /\ IF m_responseCode = 220 THEN Send(Cmd("EHLO", {}), "SEND_EHLO_RESPONSE")
                               ELSE Fail
    /\ UNCHANGED <<m_responseCode, flags, tls, m_addressesLeft, m_sendDone,
                   password, choices, result, asked, server>>

\* The mechanisms the client is ready to use.
Wanted == IF settings.trySecAuth THEN Mechanism ELSE {"PLAIN", "LOGIN", "EXTERNAL"}

\* The flags that the server's keywords set.
FlagsOf(keywords) ==
    (keywords \ (Mechanism \ Wanted)) \cup {w \in {"SIZE"} : "LIMIT" \in keywords}

\* Faulty: HELO also where STARTTLS is required.
EhloOrHelo ==
    /\ m_nextState = "SEND_EHLO_RESPONSE"
    /\ IF m_responseCode = 250
       THEN /\ m_flags' = m_flags \cup FlagsOf(offered)
            /\ m_origAuthFlags' = m_flags' \cap Mechanism
            /\ Goto("AUTH_PROCESS_STATE")
       ELSE Send(Cmd("HELO", {}), "SEND_HELO_RESPONSE") /\ UNCHANGED flags
    /\ UNCHANGED <<m_responseCode, tls, m_addressesLeft, m_sendDone, password,
                   choices, result, asked, server>>

\* The server may not know EHLO (500): then HELO is sent, unless STARTTLS is
\* required, which only EHLO can offer.
SendEhloResponse ==
    /\ m_nextState = "SEND_EHLO_RESPONSE"
    /\ IF m_responseCode = 250
       THEN /\ m_flags' = m_flags \cup FlagsOf(offered)
            /\ m_origAuthFlags' = IF Mechanism \cap offered = {}
                                  THEN m_origAuthFlags ELSE m_flags' \cap Mechanism
            /\ IF "LIMIT" \in offered THEN Fail ELSE Goto("AUTH_PROCESS_STATE")
       ELSE /\ IF m_responseCode = 500 /\ settings.trySSL # "always"
               THEN Send(Cmd("HELO", {}), "SEND_HELO_RESPONSE")
               ELSE Fail
            /\ UNCHANGED flags
    /\ UNCHANGED <<m_responseCode, tls, m_addressesLeft, m_sendDone, password,
                   choices, result, asked, server>>

\* Faulty: what the server offered in clear is kept.
TLSKeepsFlags ==
    /\ m_nextState = "TLS_RESPONSE" /\ m_responseCode = 220
    /\ m_nextState' = "EXTN_LOGIN_RESPONSE"
    /\ m_nextStateAfterResponse' = "EXTN_LOGIN_RESPONSE"
    /\ m_tlsEnabled' = TRUE
    /\ channel' = "tls"
    /\ UNCHANGED <<m_responseCode, flags, m_tlsInitiated, m_addressesLeft, m_sendDone,
                   password, choices, result, asked, command, reply, server>>

\* StartTLS may fail on this side after the server has accepted STARTTLS.
SendTLSResponse ==
    /\ m_nextState = "TLS_RESPONSE"
    /\ \/ /\ m_responseCode = 220
          /\ m_nextState' = "EXTN_LOGIN_RESPONSE"
          /\ m_nextStateAfterResponse' = "EXTN_LOGIN_RESPONSE"
          /\ m_tlsEnabled' = TRUE
          /\ channel' = "tls"
          /\ m_flags' = {} /\ m_origAuthFlags' = {}
          /\ UNCHANGED <<m_tlsInitiated, command, reply>>
       \/ /\ IF m_responseCode = 220 THEN Fail ELSE Goto("AUTH_PROCESS_STATE")
          /\ m_flags' = m_flags \ {"STARTTLS"}
          /\ m_tlsInitiated' = FALSE
          /\ UNCHANGED <<m_tlsEnabled, m_origAuthFlags>>
    /\ UNCHANGED <<m_responseCode, m_addressesLeft, m_sendDone, password, choices,
                   result, asked, server>>
-----------------------------------------------------------------------------
(* Authentication *)

\* The state in which the client authenticates with the mechanisms it has left.
AuthState ==
    IF ~settings.authAny THEN "SEND_HELO_RESPONSE"
    ELSE IF "GSSAPI" \in m_flags THEN "SEND_AUTH_GSSAPI_FIRST"
    ELSE IF m_flags \cap {"CRAM-MD5", "NTLM", "PLAIN"} # {} THEN "SEND_AUTH_LOGIN_STEP1"
    ELSE IF m_flags \cap {"LOGIN", "MSN"} # {} THEN "SEND_AUTH_LOGIN_STEP0"
    ELSE "SEND_HELO_RESPONSE"

\* SEND_HELO_RESPONSE wants to see a 250.
Proceed(state) ==
    /\ Goto(state)
    /\ m_responseCode' = IF state = "SEND_HELO_RESPONSE" THEN 250 ELSE m_responseCode

ProcessAuth ==
    /\ m_nextState = "AUTH_PROCESS_STATE"
    /\ IF /\ ~m_tlsEnabled /\ "STARTTLS" \in m_flags
          /\ settings.trySSL \in {"try", "always"}
       THEN /\ Send(Cmd("STARTTLS", {}), "TLS_RESPONSE")
            /\ m_tlsInitiated' = TRUE
            /\ UNCHANGED m_responseCode
       ELSE /\ IF /\ ~m_tlsEnabled /\ "STARTTLS" \notin m_flags
                  /\ settings.trySSL = "always"
               THEN Fail /\ UNCHANGED m_responseCode
               ELSE IF "EXTERNAL" \in m_flags
               THEN /\ Send(Cmd("AUTH", {"EXTERNAL"}), "AUTH_EXTERNAL_RESPONSE")
                    /\ UNCHANGED m_responseCode
               ELSE Proceed(AuthState)
            /\ UNCHANGED m_tlsInitiated
    /\ UNCHANGED <<flags, m_tlsEnabled, m_addressesLeft, m_sendDone, password,
                   choices, result, asked, server>>

\* Weaker and weaker: the order in which mechanisms are given up.
FallBack == <<"GSSAPI", "CRAM-MD5", "NTLM", "MSN", "PLAIN", "LOGIN">>

\* Faulty: the weakest is given up first.
GivenUpLast(left) ==
    {FallBack[i] : i \in {i \in DOMAIN FallBack :
        /\ FallBack[i] \in left
        /\ \A j \in i + 1 .. Len(FallBack) : FallBack[j] \notin left}}

\* The first mechanism left in that order, if any.
GivenUp(left) ==
    {FallBack[i] : i \in {i \in DOMAIN FallBack :
        /\ FallBack[i] \in left
        /\ \A j \in 1 .. i - 1 : FallBack[j] \notin left}}

\* Faulty: all are tried again with the password that was refused.
RetryForEver ==
    /\ m_nextState \in {"AUTH_LOGIN_RESPONSE", "AUTH_EXTERNAL_RESPONSE"}
    /\ Proceed(IF m_responseCode \in 200 .. 299 THEN "SEND_HELO_RESPONSE"
               ELSE IF m_responseCode \in 300 .. 399 THEN "SEND_AUTH_LOGIN_STEP2"
               ELSE "AUTH_PROCESS_STATE")
    /\ LET left == m_flags \ GivenUp(m_flags)
       IN m_flags' = IF m_responseCode \in 200 .. 399 THEN m_flags
                     ELSE IF left \cap Mechanism # {} THEN left
                     ELSE (left \cup m_origAuthFlags) \ {"GSSAPI"}
    /\ refused' = {}
    /\ UNCHANGED <<m_origAuthFlags, tls, m_addressesLeft, m_sendDone, password,
                   choices, result, asked, offered, secured, dialogue, challenges,
                   accepted, delivered>>

\* After a failure the next mechanism is tried; when none is left, the password
\* is forgotten and all are tried again, but GSSAPI.
AuthLoginResponse ==
    /\ m_nextState \in {"AUTH_LOGIN_RESPONSE", "AUTH_EXTERNAL_RESPONSE"}
    /\ \/ /\ m_responseCode \in 200 .. 299
          /\ Proceed("SEND_HELO_RESPONSE")
          /\ UNCHANGED <<m_flags, password, refused>>
       \/ /\ m_responseCode \in 300 .. 399
          /\ Proceed("SEND_AUTH_LOGIN_STEP2")
          /\ UNCHANGED <<m_flags, password, refused>>
       \/ /\ m_responseCode \notin 200 .. 399
          /\ Proceed("AUTH_PROCESS_STATE")
          /\ LET left == m_flags \ GivenUp(m_flags)
             IN IF left \cap Mechanism # {}
                THEN m_flags' = left /\ UNCHANGED <<password, refused>>
                ELSE /\ m_flags' = (left \cup m_origAuthFlags) \ {"GSSAPI"}
                     /\ password' = FALSE
                     /\ refused' = {}
    /\ UNCHANGED <<m_origAuthFlags, tls, m_addressesLeft, m_sendDone, choices,
                   result, asked, offered, secured, dialogue, challenges, accepted,
                   delivered>>

\* The ticket may be missing on this side: then nothing is sent.
AuthGSSAPIFirst ==
    /\ m_nextState = "SEND_AUTH_GSSAPI_FIRST"
    /\ \/ /\ Send(Cmd("AUTH", {"GSSAPI"}), "SEND_AUTH_GSSAPI_STEP")
          /\ UNCHANGED m_flags
       \/ /\ Goto("AUTH_PROCESS_STATE")
          /\ m_flags' = m_flags \ {"GSSAPI"}
    /\ UNCHANGED <<m_responseCode, m_origAuthFlags, tls, m_addressesLeft,
                   m_sendDone, password, choices, result, asked, server>>

\* The exchange may fail on this side ("*"), or go on to the server's last word.
AuthGSSAPIStep ==
    /\ m_nextState = "SEND_AUTH_GSSAPI_STEP"
    /\ IF m_responseCode \notin 300 .. 399
       THEN Goto("AUTH_LOGIN_RESPONSE")
       ELSE \/ Send(Cmd("cancel", {}), "SEND_AUTH_GSSAPI_STEP")
            \/ Send(Cmd("line", {"GSSAPI"}),
                    IF challenges = 0 THEN "AUTH_LOGIN_RESPONSE"
                                      ELSE "SEND_AUTH_GSSAPI_STEP")
    /\ UNCHANGED <<m_responseCode, flags, tls, m_addressesLeft, m_sendDone,
                   password, choices, result, asked, server>>

AuthLoginStep0 ==
    /\ m_nextState = "SEND_AUTH_LOGIN_STEP0"
    /\ Send(Cmd("AUTH", {IF "MSN" \in m_flags THEN "MSN" ELSE "LOGIN"}),
            "AUTH_LOGIN_STEP0_RESPONSE")
    /\ UNCHANGED <<m_responseCode, flags, tls, m_addressesLeft, m_sendDone,
                   password, choices, result, asked, server>>

AuthLoginStep0Response ==
    /\ m_nextState = "AUTH_LOGIN_STEP0_RESPONSE"
    /\ Goto(IF m_responseCode \in 300 .. 399 THEN "SEND_AUTH_LOGIN_STEP1"
                                           ELSE "AUTH_LOGIN_RESPONSE")
    /\ UNCHANGED <<m_responseCode, flags, tls, m_addressesLeft, m_sendDone,
                   password, choices, result, asked, server>>

\* MSN and LOGIN go on with the line after AUTH MSN or AUTH LOGIN.
Step1Command ==
    IF "CRAM-MD5" \in m_flags THEN Cmd("AUTH", {"CRAM-MD5"})
    ELSE IF "NTLM" \in m_flags THEN Cmd("AUTH", {"NTLM"})
    ELSE IF "MSN" \in m_flags THEN Cmd("line", {"MSN"})
    ELSE IF "PLAIN" \in m_flags THEN Cmd("AUTH", {"PLAIN"})
    ELSE Cmd("line", {"LOGIN"})

\* The user is asked for a password that is not known.  Without a user name the
\* step fails, whatever the user types.
AuthLoginStep1 ==
    /\ m_nextState = "SEND_AUTH_LOGIN_STEP1"
    /\ IF /\ settings.username
          /\ m_flags \cap {"CRAM-MD5", "NTLM", "MSN", "PLAIN", "LOGIN"} # {}
       THEN password /\ Send(Step1Command, "AUTH_LOGIN_RESPONSE")
       ELSE Fail
    /\ UNCHANGED <<m_responseCode, flags, tls, m_addressesLeft, m_sendDone,
                   password, choices, result, asked, server>>

\* Faulty: MSN before NTLM, unlike the first step.
Step2Swapped ==
    IF "CRAM-MD5" \in m_flags THEN "CRAM-MD5"
    ELSE IF "MSN" \in m_flags THEN "MSN"
    ELSE IF "NTLM" \in m_flags THEN "NTLM"
    ELSE "LOGIN"

\* The mechanism whose next line answers a challenge.
Step2Line ==
    IF "CRAM-MD5" \in m_flags THEN "CRAM-MD5"
    ELSE IF "NTLM" \in m_flags THEN "NTLM"
    ELSE IF "MSN" \in m_flags THEN "MSN"
    ELSE "LOGIN"

AuthLoginStep2 ==
    /\ m_nextState = "SEND_AUTH_LOGIN_STEP2"
    /\ password
    /\ Send(Cmd("line", {Step2Line}), "AUTH_LOGIN_RESPONSE")
    /\ UNCHANGED <<m_responseCode, flags, tls, m_addressesLeft, m_sendDone,
                   password, choices, result, asked, server>>

\* GetPassword has put its question to the user.
Prompting ==
    /\ m_nextState \in {"SEND_AUTH_LOGIN_STEP1", "SEND_AUTH_LOGIN_STEP2"}
    /\ ~password

PasswordGiven ==
    /\ Prompting /\ (m_nextState = "SEND_AUTH_LOGIN_STEP1" => settings.username)
    /\ password' = TRUE
    /\ UNCHANGED <<machine, flags, tls, m_addressesLeft, m_sendDone, choices,
                   result, asked, wire, server>>

PasswordRefused ==
    /\ Prompting /\ (m_nextState = "SEND_AUTH_LOGIN_STEP1" => settings.username)
    /\ Fail
    /\ UNCHANGED <<m_responseCode, flags, tls, m_addressesLeft, m_sendDone,
                   password, choices, result, asked, server>>
-----------------------------------------------------------------------------
(* The envelope and the message *)

MailParams ==
    (IF "DSN" \in m_flags /\ settings.requestDSN
     THEN {IF "FULL" \in prefs THEN "FULL" ELSE "HDRS", "ENVID"} ELSE {})
    \cup {w \in {"SIZE"} : w \in m_flags}

SendHeloResponse ==
    /\ m_nextState = "SEND_HELO_RESPONSE"
    /\ IF m_responseCode = 250
       THEN Send(Cmd("MAIL", MailParams), "SEND_MAIL_RESPONSE")
       ELSE Fail
    /\ UNCHANGED <<m_responseCode, flags, tls, m_addressesLeft, m_sendDone,
                   password, choices, result, asked, server>>

Notify == {"SUCCESS", "FAILURE", "DELAY", "NEVER"}

\* Faulty: NEVER beside others.
RcptAll ==
    IF "DSN" \in m_flags /\ settings.requestDSN /\ prefs \cap Notify # {}
    THEN prefs \cap Notify
    ELSE {w \in {"PRIORITY"} : w \in m_flags}

\* PRIORITY is sent only where no notification is asked for.
RcptParams ==
    IF "DSN" \in m_flags /\ settings.requestDSN /\ prefs \cap Notify # {}
    THEN IF "NEVER" \in prefs THEN {"NEVER"} ELSE prefs \cap Notify
    ELSE {w \in {"PRIORITY"} : w \in m_flags}

SendMailResponse ==
    /\ m_nextState = "SEND_MAIL_RESPONSE"
    /\ IF m_responseCode = 250
       THEN /\ Send(Cmd("RCPT", RcptParams), "SEND_RCPT_RESPONSE")
            /\ asked' = Append(asked, RcptParams)
            /\ m_addressesLeft' = m_addressesLeft - 1
       ELSE Fail /\ UNCHANGED <<asked, m_addressesLeft>>
    /\ UNCHANGED <<m_responseCode, flags, tls, m_sendDone, password, choices,
                   result, server>>

\* Faulty: one recipient more.
RecipientsAndOne ==
    /\ m_nextState = "SEND_RCPT_RESPONSE"
    /\ IF m_responseCode \in {250, 251}
       THEN Goto("SEND_MAIL_RESPONSE") /\ m_responseCode' = 250
       ELSE Fail /\ UNCHANGED m_responseCode
    /\ UNCHANGED <<flags, tls, m_addressesLeft, m_sendDone, password, choices, result,
                   asked, server>>

\* SEND_MAIL_RESPONSE wants to see a 250, also where a recipient got a 251.
SendRecipientResponse ==
    /\ m_nextState = "SEND_RCPT_RESPONSE"
    /\ IF m_responseCode \notin {250, 251}
       THEN Fail /\ UNCHANGED m_responseCode
       ELSE IF m_addressesLeft > 0
       THEN Goto("SEND_MAIL_RESPONSE") /\ m_responseCode' = 250
       ELSE Send(Cmd("DATA", {}), "SEND_DATA_RESPONSE") /\ UNCHANGED m_responseCode
    /\ UNCHANGED <<flags, tls, m_addressesLeft, m_sendDone, password, choices,
                   result, asked, server>>

SendDataResponse ==
    /\ m_nextState = "SEND_DATA_RESPONSE"
    /\ IF m_responseCode \in {354, 250} THEN Goto("SEND_POST_DATA") ELSE Fail
    /\ UNCHANGED <<m_responseCode, flags, tls, m_addressesLeft, m_sendDone,
                   password, choices, result, asked, server>>

SendPostData ==
    /\ m_nextState = "SEND_POST_DATA"
    /\ Send(Cmd("message", {}), "SEND_MESSAGE_RESPONSE")
    /\ UNCHANGED <<m_responseCode, flags, tls, m_addressesLeft, m_sendDone,
                   password, choices, result, asked, server>>

\* Faulty: whatever the server answers.
MessageSent ==
    /\ m_nextState = "SEND_MESSAGE_RESPONSE"
    /\ m_sendDone' = TRUE /\ Send(Cmd("QUIT", {}), "DONE")
    /\ UNCHANGED <<m_responseCode, flags, tls, m_addressesLeft, password, choices,
                   result, asked, server>>

SendMessageResponse ==
    /\ m_nextState = "SEND_MESSAGE_RESPONSE"
    /\ IF m_responseCode \in {354, 250}
       THEN m_sendDone' = TRUE /\ Send(Cmd("QUIT", {}), "DONE")
       ELSE Fail /\ UNCHANGED m_sendDone
    /\ UNCHANGED <<m_responseCode, flags, tls, m_addressesLeft, password, choices,
                   result, asked, server>>

\* SetUrlState tells the outcome once: a URL that is not running stays as it is.
SetUrlState(outcome) == result' = IF result = "running" THEN outcome ELSE result

\* SMTP_DONE and SMTP_ERROR_DONE, then SMTP_FREE, which closes the connection.
Finish ==
    /\ \/ m_nextState = "DONE" /\ SetUrlState("ok")
       \/ /\ m_nextState = "ERROR_DONE" /\ m_nextStateAfterResponse # "START_CONNECT"
          /\ SetUrlState("failed")
    /\ m_nextState' = "FREE"
    /\ channel' = "closed"
    /\ UNCHANGED <<m_nextStateAfterResponse, m_responseCode, flags, tls,
                   m_addressesLeft, m_sendDone, password, choices, asked, command,
                   reply, server>>

\* The connection is gone while the client waits for an answer or for the user.
\* A server that closes it in good order has its answers read first.
OnStopRequest ==
    /\ channel # "closed"
    /\ \/ m_nextState = "RESPONSE"
       \/ Prompting
    /\ \E clean \in BOOLEAN :
         /\ clean => reply = 0
         /\ SetUrlState(IF clean /\ m_sendDone THEN "ok" ELSE "failed")
    /\ channel' = "closed"
    /\ UNCHANGED <<machine, flags, tls, m_addressesLeft, m_sendDone, password,
                   choices, asked, command, reply, server>>

\* The user, or another client of the profile, changes the preferences.
ChangePrefs ==
    /\ result = "running"
    /\ prefs' \in DsnPrefs
    /\ UNCHANGED <<machine, flags, tls, m_addressesLeft, m_sendDone, password,
                   settings, result, asked, wire, server>>
-----------------------------------------------------------------------------
(* The server (external).  A refused command gets 554, an unknown one 500. *)

Answer(code) ==
    /\ reply' = code
    /\ UNCHANGED <<machine, flags, tls, m_addressesLeft, m_sendDone, password,
                   choices, result, asked, channel, command>>

\* Challenges of a mechanism after the command AUTH.
Challenges(m) ==
    CASE m \in {"PLAIN", "EXTERNAL"} -> 0
      [] m \in {"CRAM-MD5", "NTLM"} -> 1
      [] m \in {"GSSAPI", "MSN", "LOGIN"} -> 2

ServerAuth ==
    \E m \in command.params :
        \/ /\ Challenges(m) = 0 /\ Answer(235)
           /\ UNCHANGED <<dialogue, challenges, refused>>
        \/ /\ Challenges(m) > 0 /\ Answer(334)
           /\ dialogue' = {m} /\ challenges' = Challenges(m) - 1
           /\ UNCHANGED refused
        \/ /\ Answer(535)
           /\ refused' = refused \cup {m}
           /\ UNCHANGED <<dialogue, challenges>>

\* What the server reads while a dialogue goes on.
ServerDialogue ==
    \/ /\ command.verb = "line" /\ challenges > 0 /\ Answer(334)
       /\ challenges' = challenges - 1
       /\ UNCHANGED <<dialogue, refused>>
    \/ /\ command.verb = "line" /\ challenges = 0 /\ Answer(235)
       /\ dialogue' = {}
       /\ UNCHANGED <<challenges, refused>>
    \/ /\ Answer(535)
       /\ dialogue' = {} /\ refused' = refused \cup dialogue
       /\ UNCHANGED challenges

\* The answers to commands that change nothing on the server.
PlainAnswers ==
    [connect |-> {220, 554}, HELO |-> {250, 554}, MAIL |-> {250, 554},
     RCPT    |-> {554},      DATA |-> {354, 554}, message |-> {554},
     EHLO    |-> {500, 554}, STARTTLS |-> {454},  QUIT |-> {221},
     line    |-> {500},      cancel |-> {500},    AUTH |-> {}]

\* A server that has accepted STARTTLS reads nothing in clear.
ServerAnswers ==
    /\ command.verb # "none" /\ reply = 0 /\ channel # "closed"
    /\ secured => channel = "tls"
    /\ IF dialogue # {}
       THEN ServerDialogue /\ UNCHANGED <<offered, secured, accepted, delivered>>
       ELSE \/ /\ \E code \in PlainAnswers[command.verb] : Answer(code)
               /\ UNCHANGED server
            \/ /\ command.verb = "AUTH" /\ ServerAuth
               /\ UNCHANGED <<offered, secured, accepted, delivered>>
            \/ /\ command.verb = "EHLO" /\ Answer(250)
               /\ offered' \in Offers
               /\ UNCHANGED <<secured, dialogue, challenges, refused, accepted,
                              delivered>>
            \/ /\ command.verb = "STARTTLS" /\ Answer(220)
               /\ offered' = {} /\ secured' = TRUE /\ refused' = {}
               /\ UNCHANGED <<dialogue, challenges, accepted, delivered>>
            \/ /\ command.verb = "RCPT" /\ \E code \in {250, 251} : Answer(code)
               /\ accepted' = accepted + 1
               /\ UNCHANGED <<offered, secured, dialogue, challenges, refused,
                              delivered>>
            \/ /\ command.verb = "message" /\ Answer(250)
               /\ delivered' = TRUE
               /\ UNCHANGED <<offered, secured, dialogue, challenges, refused,
                              accepted>>
-----------------------------------------------------------------------------
Client ==
    \/ LoadUrl \/ SmtpResponse \/ ExtensionLoginResponse \/ SendEhloResponse
    \/ SendTLSResponse \/ ProcessAuth \/ AuthLoginResponse \/ AuthGSSAPIFirst
    \/ AuthGSSAPIStep \/ AuthLoginStep0 \/ AuthLoginStep0Response \/ AuthLoginStep1
    \/ AuthLoginStep2 \/ SendHeloResponse \/ SendMailResponse
    \/ SendRecipientResponse \/ SendDataResponse \/ SendPostData
    \/ SendMessageResponse \/ Finish

Next == Client \/ PasswordGiven \/ PasswordRefused \/ OnStopRequest \/ ChangePrefs
        \/ ServerAnswers

Spec == Init /\ [][Next]_vars

\* The client runs its handlers; what it waits for comes, or the connection
\* breaks; a user who is asked again and again gives up some day.
Fairness ==
    /\ WF_vars(Client)
    /\ WF_vars(ServerAnswers \/ OnStopRequest)
    /\ SF_vars(PasswordRefused)

FairSpec == Spec /\ Fairness

\* A server that is not always in the way: a mechanism it offers is let begin
\* some day.
Begins == command.verb = "AUTH" /\ ServerAnswers /\ reply' # 535

PatientSpec == FairSpec /\ SF_vars(Begins)
-----------------------------------------------------------------------------
(* Properties *)

State == {"START_CONNECT", "RESPONSE", "EXTN_LOGIN_RESPONSE", "SEND_EHLO_RESPONSE",
          "SEND_HELO_RESPONSE", "TLS_RESPONSE", "AUTH_PROCESS_STATE",
          "AUTH_EXTERNAL_RESPONSE", "AUTH_LOGIN_RESPONSE", "SEND_AUTH_GSSAPI_FIRST",
          "SEND_AUTH_GSSAPI_STEP", "SEND_AUTH_LOGIN_STEP0",
          "AUTH_LOGIN_STEP0_RESPONSE", "SEND_AUTH_LOGIN_STEP1",
          "SEND_AUTH_LOGIN_STEP2", "SEND_MAIL_RESPONSE", "SEND_RCPT_RESPONSE",
          "SEND_DATA_RESPONSE", "SEND_POST_DATA", "SEND_MESSAGE_RESPONSE", "DONE",
          "ERROR_DONE", "FREE"}

Code == {220, 221, 235, 250, 251, 334, 354, 454, 500, 535, 554}

\* Every variable keeps its type.  m_addressesLeft is decremented without a
\* test, in SendMailResponse: it never goes below zero.
TypeOK ==
    /\ m_nextState \in State /\ m_nextStateAfterResponse \in State
    /\ m_flags \subseteq Keyword /\ m_origAuthFlags \subseteq Mechanism
    /\ m_responseCode \in Code \cup {0}
    /\ m_tlsInitiated \in BOOLEAN /\ m_tlsEnabled \in BOOLEAN
    /\ m_addressesLeft \in 0 .. Recipients
    /\ m_sendDone \in BOOLEAN /\ password \in BOOLEAN
    /\ settings \in Settings /\ prefs \in DsnPrefs
    /\ result \in {"running", "ok", "failed"}
    /\ asked \in Seq(SUBSET Param)
    /\ channel \in {"clear", "tls", "closed"}
    /\ command \in Command
    /\ reply \in Code \cup {0}
    /\ offered \subseteq Keyword /\ secured \in BOOLEAN
    /\ dialogue \subseteq Mechanism /\ challenges \in 0 .. 2
    /\ refused \subseteq Mechanism
    /\ accepted \in 0 .. Recipients /\ delivered \in BOOLEAN

\* A send that is reported as done is one whose message the server has accepted,
\* for every recipient and with one RCPT each: also when the connection ends
\* before the answer to QUIT (OnStopRequest).
SentMeansAccepted ==
    /\ result = "ok" => delivered
    /\ delivered => accepted = Recipients /\ Len(asked) = Recipients

\* With PREF_SECURE_ALWAYS_STARTTLS nothing of the account or of the message
\* travels before the connection is secured, whatever the server offers, refuses
\* or does not know (SendEhloResponse, SendTLSResponse, ProcessAuth).
NothingInClear ==
    settings.trySSL = "always" /\ channel = "clear" =>
        command.verb \in {"none", "connect", "EHLO", "STARTTLS", "QUIT"}

\* The client uses only what the server offers on the connection as it is now:
\* after STARTTLS, what it offered before no longer counts (SendTLSResponse).
OfferedOnChannel ==
    /\ command.verb = "AUTH" => command.params \subseteq offered
    /\ command.verb = "STARTTLS" /\ reply = 0 => "STARTTLS" \in offered
    /\ command.params \cap DsnParam # {} => "DSN" \in offered
    /\ command.params \cap {"SIZE", "PRIORITY"} \subseteq offered

\* A mechanism that the server has refused is not tried again before the user is
\* asked for another password (AuthLoginResponse).
FallsBack ==
    command.verb = "AUTH" /\ reply = 0 => command.params \cap refused = {}

\* A line that is no command answers a challenge of the dialogue that goes on,
\* and is of the mechanism of that dialogue (AuthLoginStep1, AuthLoginStep2).
LineInDialogue ==
    command.verb = "line" /\ reply = 0 => command.params = dialogue

\* Every session comes to an end and tells its sender the outcome.
SendEnds == <>(result # "running")

\* The session as its sender sees it.
SessionView ==
    [asked     |-> [i \in 1 .. Len(asked) |-> asked[i] \cap Notify],
     delivered |-> delivered,
     result    |-> result]

Session == INSTANCE SmtpSession WITH session <- SessionView

\* The protocol machine implements a session: recipients are asked for one by
\* one with the preferences of that moment, the message is accepted after the
\* last of them, the outcome is told once.
SessionKept == Session!Spec
=============================================================================
