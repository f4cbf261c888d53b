------------------------- MODULE SmtpProtocolProofs -------------------------
(***************************************************************************)
(* Proofs about SmtpProtocol, for every number of recipients, all settings *)
(* and whatever a server may offer.                                        *)
(***************************************************************************)
EXTENDS SmtpProtocol, TLAPS

\* The handler that runs, or that the next answer runs.
Stage == IF m_nextState = "RESPONSE" THEN m_nextStateAfterResponse ELSE m_nextState

\* The stages in which the answer to a command may be awaited.
StagesOf(verb) ==
    CASE verb = "none" -> {}
      [] verb = "connect" -> {"EXTN_LOGIN_RESPONSE"}
      [] verb = "EHLO" -> {"SEND_EHLO_RESPONSE"}
      [] verb = "HELO" -> {"SEND_HELO_RESPONSE"}
      [] verb = "STARTTLS" -> {"TLS_RESPONSE"}
      [] verb = "AUTH" -> {"AUTH_EXTERNAL_RESPONSE", "AUTH_LOGIN_RESPONSE",
                           "SEND_AUTH_GSSAPI_STEP", "AUTH_LOGIN_STEP0_RESPONSE"}
      [] verb = "line" -> {"AUTH_LOGIN_RESPONSE", "SEND_AUTH_GSSAPI_STEP"}
      [] verb = "cancel" -> {"SEND_AUTH_GSSAPI_STEP"}
      [] verb = "MAIL" -> {"SEND_MAIL_RESPONSE"}
      [] verb = "RCPT" -> {"SEND_RCPT_RESPONSE"}
      [] verb = "DATA" -> {"SEND_DATA_RESPONSE"}
      [] verb = "message" -> {"SEND_MESSAGE_RESPONSE"}
      [] verb = "QUIT" -> {"DONE", "ERROR_DONE"}

\* A command is out exactly while its answer is awaited; AUTH names a mechanism.
CommandFits ==
    /\ IF m_nextState = "RESPONSE"
       THEN m_nextStateAfterResponse \in StagesOf(command.verb)
       ELSE command = NoCommand /\ reply = 0
    /\ command.verb = "AUTH" => command.params \subseteq Mechanism
    /\ command.verb \in {"EHLO", "STARTTLS"} => command.params = {}

\* The connection ends only where the client waits; until it ends the sender is
\* told nothing, but that there is nobody to send to.
ClosedWaiting ==
    /\ channel = "closed" =>
         m_nextState \in {"RESPONSE", "SEND_AUTH_LOGIN_STEP1", "SEND_AUTH_LOGIN_STEP2",
                          "ERROR_DONE", "FREE"}
    /\ m_nextState = "FREE" => channel = "closed"
    /\ result # "running" =>
         channel = "closed" \/ (m_nextState = "ERROR_DONE" /\ Recipients = 0)

\* 220 comes as a greeting and as the acceptance of STARTTLS only.
Greeting ==
    /\ reply = 220 => command.verb \in {"connect", "STARTTLS"}
    /\ Stage = "TLS_RESPONSE" => m_tlsInitiated

\* The client knows whether the connection is secured; one that must be secured
\* gets no further in clear than the choice of the mechanism.
ClearStages ==
    /\ channel = "clear" => ~m_tlsEnabled
    /\ settings.trySSL = "always" /\ channel = "clear" =>
         Stage \in {"START_CONNECT", "EXTN_LOGIN_RESPONSE", "SEND_EHLO_RESPONSE",
                    "TLS_RESPONSE", "AUTH_PROCESS_STATE", "ERROR_DONE", "FREE"}

\* The answer that the handler of this stage sees.
Seen == IF m_nextState = "RESPONSE" THEN reply ELSE m_responseCode

MessageStages == {"SEND_DATA_RESPONSE", "SEND_POST_DATA", "SEND_MESSAGE_RESPONSE", "DONE"}

EndStages == {"ERROR_DONE", "FREE"}

Envelope == {"SEND_MAIL_RESPONSE", "SEND_RCPT_RESPONSE"}

\* How far the recipients have got in each stage.
Counts ==
    /\ accepted \in {Len(asked), Len(asked) - 1}
    /\ Stage # "START_CONNECT" => Len(asked) + m_addressesLeft = Recipients
    /\ Stage \notin Envelope \cup MessageStages \cup EndStages =>
         /\ asked = <<>> /\ accepted = 0
         /\ Stage # "START_CONNECT" => Recipients > 0
    /\ Stage = "SEND_MAIL_RESPONSE" => m_addressesLeft > 0 /\ accepted = Len(asked)
    /\ Stage = "SEND_RCPT_RESPONSE" =>
         accepted = IF Seen \in {250, 251} THEN Len(asked) ELSE Len(asked) - 1
    /\ Stage \in MessageStages => m_addressesLeft = 0 /\ accepted = Len(asked)

\* The message is accepted once everything before it was.
Acceptance ==
    /\ delivered => /\ Stage \in {"SEND_MESSAGE_RESPONSE", "DONE"} \cup EndStages
                    /\ accepted = Recipients /\ Len(asked) = Recipients
    /\ Stage = "SEND_MESSAGE_RESPONSE" /\ Seen \in {250, 354} => delivered
    /\ Stage = "DONE" => m_sendDone
    /\ m_sendDone => delivered
    /\ result = "ok" => delivered

\* The flags are the server's last word, until STARTTLS is accepted.
FlagsOffered ==
    /\ Stage \in {"START_CONNECT", "EXTN_LOGIN_RESPONSE", "SEND_EHLO_RESPONSE"} =>
         m_flags = {} /\ m_origAuthFlags = {}
    /\ secured /\ channel = "clear" =>
         Stage \in EndStages \/ (Stage = "TLS_RESPONSE" /\ Seen = 220)
    /\ channel # "closed" /\ (secured => channel = "tls") =>
         m_flags \ {"SIZE"} \subseteq offered /\ m_origAuthFlags \subseteq offered
    /\ "SIZE" \in m_flags /\ "SIZE" \notin offered /\ channel # "closed"
         /\ (secured => channel = "tls") => Stage \in EndStages
    /\ m_nextState = "SEND_AUTH_GSSAPI_FIRST" => "GSSAPI" \in m_flags
    /\ m_nextState = "SEND_AUTH_LOGIN_STEP0" => m_flags \cap {"MSN", "LOGIN"} # {}
    /\ Stage = "TLS_RESPONSE" => ~m_tlsEnabled /\ settings.trySSL # "smtps"
    /\ channel = "tls" => m_tlsEnabled \/ settings.trySSL = "smtps"

\* The inductive invariant.
IInv == /\ TypeOK /\ CommandFits /\ ClosedWaiting /\ Greeting /\ ClearStages
        /\ Counts /\ Acceptance /\ FlagsOffered /\ OfferedOnChannel

\* What the client's end of the connection looks like.
MachineOK == /\ m_nextState \in State /\ m_nextStateAfterResponse \in State
             /\ channel \in {"clear", "tls", "closed"}
             /\ command \in Command /\ reply \in Code \cup {0}

\* And everything else.
RestOK == /\ m_flags \subseteq Keyword /\ m_origAuthFlags \subseteq Mechanism
          /\ m_responseCode \in Code \cup {0}
          /\ m_tlsInitiated \in BOOLEAN /\ m_tlsEnabled \in BOOLEAN
          /\ m_addressesLeft \in 0 .. Recipients
          /\ m_sendDone \in BOOLEAN /\ password \in BOOLEAN
          /\ settings \in Settings /\ prefs \in DsnPrefs
          /\ result \in {"running", "ok", "failed"}
          /\ asked \in Seq(SUBSET Param)
          /\ offered \subseteq Keyword /\ secured \in BOOLEAN
          /\ dialogue \subseteq Mechanism /\ challenges \in 0 .. 2
          /\ refused \subseteq Mechanism
          /\ accepted \in 0 .. Recipients /\ delivered \in BOOLEAN

LEMMA SendTyped ==
    ASSUME MachineOK, NEW verb \in Verb, NEW params \in SUBSET Param,
           NEW after \in State, Send(Cmd(verb, params), after)
    PROVE  MachineOK'
BY DEF MachineOK, Send, Cmd, Command, State

LEMMA FailTyped ==
    ASSUME MachineOK, Fail
    PROVE  MachineOK'
BY SendTyped DEF Fail, Verb, State

LEMMA GotoTyped ==
    ASSUME MachineOK, NEW state \in State, Goto(state)
    PROVE  MachineOK'
BY DEF MachineOK, Goto, wire

\* The parameters and flags are those that the operators may name.
LEMMA ParamsTyped ==
    /\ MailParams \subseteq Param /\ RcptParams \subseteq Param
    /\ {Step2Line} \subseteq Param
    /\ Step1Command \in Command
    /\ \E verb \in Verb, params \in SUBSET Param : Step1Command = Cmd(verb, params)
    /\ \A keywords \in SUBSET Keyword : FlagsOf(keywords) \subseteq Keyword
<1>1. MailParams \subseteq Param /\ RcptParams \subseteq Param
    BY DEF MailParams, RcptParams, Param, Notify
<1>2. {Step2Line} \subseteq Param
    BY DEF Step2Line, Param, Mechanism
<1>3. \E verb \in Verb, params \in SUBSET Param : Step1Command = Cmd(verb, params)
    <2>1. \A m \in Mechanism : {m} \in SUBSET Param
        BY DEF Param
    <2>2. {"AUTH", "line"} \subseteq Verb
        BY DEF Verb
    <2> QED
        BY <2>1, <2>2 DEF Step1Command, Mechanism
<1>4. Step1Command \in Command
    BY <1>3 DEF Command, Cmd
<1>5. \A keywords \in SUBSET Keyword : FlagsOf(keywords) \subseteq Keyword
    BY DEF FlagsOf, Keyword
<1> QED
    BY <1>1, <1>2, <1>3, <1>4, <1>5

LEMMA TypeStep == TypeOK /\ Counts /\ CommandFits /\ [Next]_vars => TypeOK'
<1> SUFFICES ASSUME TypeOK, Counts, CommandFits, [Next]_vars PROVE TypeOK'
    OBVIOUS
<1>a. MachineOK /\ RestOK
    BY DEF TypeOK, MachineOK, RestOK
<1>b. SUFFICES MachineOK' /\ RestOK'
    BY DEF TypeOK, MachineOK, RestOK
<1>1. CASE LoadUrl
    <2>1. MachineOK'
        BY <1>a, <1>1 DEF LoadUrl, MachineOK, Cmd, Command, Verb, State
    <2>2. RestOK'
        BY <1>a, <1>1, SmtpAssumption DEF LoadUrl, RestOK, machine, flags,
            tls, choices, server
    <2> QED
        BY <2>1, <2>2
<1>2. CASE SmtpResponse
    <2>1. MachineOK'
        BY <1>a, <1>2 DEF SmtpResponse, MachineOK, NoCommand, Cmd, Command,
            Verb, State
    <2>2. RestOK'
        BY <1>a, <1>2, SmtpAssumption DEF SmtpResponse, RestOK, machine,
            flags, tls, choices, server, MachineOK
    <2> QED
        BY <2>1, <2>2
<1>3. CASE ExtensionLoginResponse
    <2>1. MachineOK'
        BY <1>a, <1>3, SendTyped, FailTyped DEF ExtensionLoginResponse,
            Verb, State
    <2>2. RestOK'
        BY <1>a, <1>3, SmtpAssumption DEF ExtensionLoginResponse, RestOK,
            machine, flags, tls, choices, server
    <2> QED
        BY <2>1, <2>2
<1>4. CASE SendEhloResponse
    <2>1. MachineOK'
        BY <1>a, <1>4, SendTyped, FailTyped, GotoTyped DEF SendEhloResponse,
            Verb, State
    <2>2. RestOK'
        BY ZenonT(60), <1>a, <1>4, SmtpAssumption, ParamsTyped DEF SendEhloResponse,
            RestOK, machine, flags, tls, choices, server, Mechanism, Keyword
    <2> QED
        BY <2>1, <2>2
<1>5. CASE SendTLSResponse
    <2>1. MachineOK'
        BY <1>a, <1>5, FailTyped, GotoTyped DEF SendTLSResponse, MachineOK,
            State
    <2>2. RestOK'
        <3>1. UNCHANGED <<m_responseCode, m_addressesLeft, m_sendDone, password,
                          choices, result, asked, server>>
            BY <1>5 DEF SendTLSResponse
        <3>2. /\ m_flags' \in {{}, m_flags \ {"STARTTLS"}}
              /\ m_origAuthFlags' \in {{}, m_origAuthFlags}
              /\ m_tlsInitiated' = m_tlsInitiated \/ m_tlsInitiated' = FALSE
              /\ m_tlsEnabled' = m_tlsEnabled \/ m_tlsEnabled' = TRUE
            BY <1>5 DEF SendTLSResponse
        <3> QED
            BY ZenonT(60), <1>a, <3>1, <3>2 DEF RestOK, choices, server
    <2> QED
        BY <2>1, <2>2
<1>6. CASE ProcessAuth
    <2>1. MachineOK'
        BY <1>a, <1>6, SendTyped, FailTyped, GotoTyped DEF ProcessAuth,
            Proceed, AuthState, Verb, State, Param, Mechanism
    <2>2. RestOK'
        <3>1. UNCHANGED <<flags, m_tlsEnabled, m_addressesLeft, m_sendDone, password,
                          choices, result, asked, server>>
            BY <1>6 DEF ProcessAuth
        <3>2. m_tlsInitiated' = m_tlsInitiated \/ m_tlsInitiated' = TRUE
            BY <1>6 DEF ProcessAuth
        <3>3. m_responseCode' \in Code \cup {0}
            BY <1>a, <1>6 DEF RestOK, ProcessAuth, Proceed, Code
        <3> QED
            BY <1>a, <3>1, <3>2, <3>3 DEF RestOK, choices, server, flags
    <2> QED
        BY <2>1, <2>2
<1>7. CASE AuthLoginResponse
    <2>1. MachineOK'
        BY <1>a, <1>7, GotoTyped DEF AuthLoginResponse, Proceed, State
    <2>2. RestOK'
        <3>1. UNCHANGED <<m_origAuthFlags, tls, m_addressesLeft, m_sendDone, choices,
                          result, asked, offered, secured, dialogue, challenges,
                          accepted, delivered>>
            BY <1>7 DEF AuthLoginResponse
        <3>2. m_responseCode' \in Code \cup {0}
            BY <1>a, <1>7 DEF RestOK, AuthLoginResponse, Proceed, Code
        <3>3. /\ m_flags' \subseteq Keyword
              /\ refused' \subseteq Mechanism
            <4>1. m_flags' \subseteq m_flags \cup m_origAuthFlags
                BY <1>7 DEF AuthLoginResponse
            <4>2. refused' \in {{}, refused}
                BY <1>7 DEF AuthLoginResponse
            <4> QED
                BY <1>a, <4>1, <4>2 DEF RestOK, Keyword
        <3>4. password' = password \/ password' = FALSE
            BY <1>7 DEF AuthLoginResponse
        <3> QED
            BY <1>a, <3>1, <3>2, <3>3, <3>4
            DEF RestOK, choices, tls
    <2> QED
        BY <2>1, <2>2
<1>8. CASE AuthGSSAPIFirst
    <2>1. MachineOK'
        BY <1>a, <1>8, SendTyped, GotoTyped DEF AuthGSSAPIFirst, Verb,
            State, Param, Mechanism
    <2>2. RestOK'
        BY <1>a, <1>8, SmtpAssumption DEF AuthGSSAPIFirst, RestOK, machine,
            flags, tls, choices, server
    <2> QED
        BY <2>1, <2>2
<1>9. CASE AuthGSSAPIStep
    <2>1. MachineOK'
        BY <1>a, <1>9, SendTyped, GotoTyped DEF AuthGSSAPIStep, Verb, State,
            Param, Mechanism
    <2>2. RestOK'
        BY <1>a, <1>9, SmtpAssumption DEF AuthGSSAPIStep, RestOK, machine,
            flags, tls, choices, server
    <2> QED
        BY <2>1, <2>2
<1>10. CASE AuthLoginStep0
    <2>1. MachineOK'
        BY <1>a, <1>10, SendTyped DEF AuthLoginStep0, Verb, State, Param,
            Mechanism
    <2>2. RestOK'
        BY <1>a, <1>10, SmtpAssumption DEF AuthLoginStep0, RestOK, machine,
            flags, tls, choices, server
    <2> QED
        BY <2>1, <2>2
<1>11. CASE AuthLoginStep0Response
    <2>1. MachineOK'
        BY <1>a, <1>11, GotoTyped DEF AuthLoginStep0Response, State
    <2>2. RestOK'
        BY <1>a, <1>11, SmtpAssumption DEF AuthLoginStep0Response, RestOK,
            machine, flags, tls, choices, server
    <2> QED
        BY <2>1, <2>2
<1>12. CASE AuthLoginStep1
    <2>1. MachineOK'
        BY <1>a, <1>12, SendTyped, FailTyped, ParamsTyped DEF
            AuthLoginStep1, Verb, State
    <2>2. RestOK'
        BY <1>a, <1>12, SmtpAssumption DEF AuthLoginStep1, RestOK, machine,
            flags, tls, choices, server
    <2> QED
        BY <2>1, <2>2
<1>13. CASE AuthLoginStep2
    <2>1. MachineOK'
        BY <1>a, <1>13, SendTyped, ParamsTyped DEF AuthLoginStep2, Verb,
            State
    <2>2. RestOK'
        BY <1>a, <1>13, SmtpAssumption DEF AuthLoginStep2, RestOK, machine,
            flags, tls, choices, server
    <2> QED
        BY <2>1, <2>2
<1>14. CASE SendHeloResponse
    <2>1. MachineOK'
        BY <1>a, <1>14, SendTyped, FailTyped, ParamsTyped DEF
            SendHeloResponse, Verb, State
    <2>2. RestOK'
        BY <1>a, <1>14, SmtpAssumption DEF SendHeloResponse, RestOK,
            machine, flags, tls, choices, server
    <2> QED
        BY <2>1, <2>2
<1>15. CASE SendMailResponse
    <2>1. MachineOK'
        BY <1>a, <1>15, SendTyped, FailTyped, ParamsTyped DEF
            SendMailResponse, Verb, State
    <2>2. RestOK'
        BY <1>a, <1>15, SmtpAssumption, ParamsTyped DEF SendMailResponse,
            RestOK, machine, flags, tls, choices, server, Counts, Stage,
            Envelope, MessageStages, EndStages, Seen
    <2> QED
        BY <2>1, <2>2
<1>16. CASE SendRecipientResponse
    <2>1. MachineOK'
        BY <1>a, <1>16, SendTyped, FailTyped, GotoTyped DEF
            SendRecipientResponse, Verb, State
    <2>2. RestOK'
        BY <1>a, <1>16, SmtpAssumption DEF SendRecipientResponse, RestOK,
            machine, flags, tls, choices, server, Code
    <2> QED
        BY <2>1, <2>2
<1>17. CASE SendDataResponse
    <2>1. MachineOK'
        BY <1>a, <1>17, FailTyped, GotoTyped DEF SendDataResponse, Verb,
            State
    <2>2. RestOK'
        BY <1>a, <1>17, SmtpAssumption DEF SendDataResponse, RestOK,
            machine, flags, tls, choices, server
    <2> QED
        BY <2>1, <2>2
<1>18. CASE SendPostData
    <2>1. MachineOK'
        BY <1>a, <1>18, SendTyped DEF SendPostData, Verb, State
    <2>2. RestOK'
        BY <1>a, <1>18, SmtpAssumption DEF SendPostData, RestOK, machine,
            flags, tls, choices, server
    <2> QED
        BY <2>1, <2>2
<1>19. CASE SendMessageResponse
    <2>1. MachineOK'
        BY <1>a, <1>19, SendTyped, FailTyped DEF SendMessageResponse, Verb,
            State
    <2>2. RestOK'
        BY ZenonT(60), <1>a, <1>19, SmtpAssumption DEF SendMessageResponse, RestOK,
            machine, flags, tls, choices, server
    <2> QED
        BY <2>1, <2>2
<1>20. CASE Finish
    <2>1. MachineOK'
        BY <1>a, <1>20 DEF Finish, MachineOK, State
    <2>2. RestOK'
        BY <1>a, <1>20, SmtpAssumption DEF Finish, RestOK, machine, flags,
            tls, choices, server, SetUrlState
    <2> QED
        BY <2>1, <2>2
<1>21. CASE PasswordGiven
    <2>1. MachineOK'
        BY <1>a, <1>21 DEF PasswordGiven, MachineOK, machine, wire
    <2>2. RestOK'
        BY <1>a, <1>21, SmtpAssumption DEF PasswordGiven, RestOK, machine,
            flags, tls, choices, server
    <2> QED
        BY <2>1, <2>2
<1>22. CASE PasswordRefused
    <2>1. MachineOK'
        BY <1>a, <1>22, FailTyped DEF PasswordRefused
    <2>2. RestOK'
        BY <1>a, <1>22, SmtpAssumption DEF PasswordRefused, RestOK, machine,
            flags, tls, choices, server
    <2> QED
        BY <2>1, <2>2
<1>23. CASE OnStopRequest
    <2>1. MachineOK'
        BY <1>a, <1>23 DEF OnStopRequest, MachineOK, machine, wire
    <2>2. RestOK'
        BY <1>a, <1>23, SmtpAssumption DEF OnStopRequest, RestOK, machine,
            flags, tls, choices, server, SetUrlState
    <2> QED
        BY <2>1, <2>2
<1>24. CASE ChangePrefs
    <2>1. MachineOK'
        BY <1>a, <1>24 DEF ChangePrefs, MachineOK, machine, wire
    <2>2. RestOK'
        BY <1>a, <1>24, SmtpAssumption DEF ChangePrefs, RestOK, machine,
            flags, tls, choices, server
    <2> QED
        BY <2>1, <2>2
<1>25. CASE ServerAnswers
    <2>1. MachineOK'
        BY <1>a, <1>25 DEF ServerAnswers, MachineOK, Answer, ServerAuth,
            ServerDialogue, PlainAnswers, Command, Verb, Code, machine
    <2>2. RestOK'
        <3>1. UNCHANGED <<flags, tls, m_addressesLeft, m_sendDone, password, choices,
                          result, asked, m_responseCode>>
            BY <1>25 DEF ServerAnswers, Answer, ServerAuth, ServerDialogue, machine
        <3>2. offered' \subseteq Keyword /\ secured' \in BOOLEAN
            BY <1>a, <1>25, SmtpAssumption DEF ServerAnswers, RestOK, server
        <3>3. delivered' = delivered \/ delivered' = TRUE
            BY <1>25 DEF ServerAnswers, server
        <3>4. accepted' \in 0 .. Recipients
            <4>1. CASE command.verb = "RCPT" /\ reply = 0 /\ accepted' = accepted + 1
                <5>1. Stage = "SEND_RCPT_RESPONSE" /\ Seen = 0
                    BY <4>1 DEF CommandFits, StagesOf, Stage, Seen, NoCommand, Cmd
                <5> QED
                    BY <1>a, <4>1, <5>1, SmtpAssumption DEF RestOK, Counts
            <4>2. CASE accepted' = accepted
                BY <1>a, <4>2 DEF RestOK
            <4> QED
                BY <1>25, <4>1, <4>2 DEF ServerAnswers, server
        <3>5. dialogue' \subseteq Mechanism /\ refused' \subseteq Mechanism
                  /\ challenges' \in 0 .. 2
            <4>1. CASE ServerDialogue
                <5>1. dialogue' \in {{}, dialogue}
                    BY <4>1 DEF ServerDialogue
                <5>2. refused' \in {refused, refused \cup dialogue}
                    BY <4>1 DEF ServerDialogue
                <5>3. challenges' = challenges
                        \/ (challenges > 0 /\ challenges' = challenges - 1)
                    BY <4>1 DEF ServerDialogue
                <5> QED
                    BY <1>a, <5>1, <5>2, <5>3 DEF RestOK
            <4>2. CASE command.verb = "AUTH" /\ ServerAuth
                <5>1. PICK m \in command.params :
                        /\ dialogue' \in {dialogue, {m}}
                        /\ challenges' \in {challenges, Challenges(m) - 1}
                        /\ challenges' = challenges \/ Challenges(m) > 0
                        /\ refused' \in {refused, refused \cup {m}}
                    BY <4>2 DEF ServerAuth
                <5>2. m \in Mechanism
                    BY <4>2 DEF CommandFits
                <5>3. Challenges(m) \in 0 .. 2
                    BY <5>2 DEF Challenges, Mechanism
                <5> QED
                    BY <1>a, <5>1, <5>2, <5>3 DEF RestOK
            <4>3. CASE UNCHANGED <<dialogue, challenges>> /\ refused' \in {{}, refused}
                BY <1>a, <4>3 DEF RestOK
            <4> QED
                BY <1>25, <4>1, <4>2, <4>3 DEF ServerAnswers, server
        <3> QED
            BY <1>a, <3>1, <3>2, <3>3, <3>4, <3>5 DEF RestOK, choices, flags, tls
    <2> QED
        BY <2>1, <2>2
<1>26. CASE UNCHANGED vars
    BY <1>a, <1>26 DEF vars, machine, flags, tls, choices, wire, server, MachineOK, RestOK
<1> QED
    BY <1>1, <1>2, <1>3, <1>4, <1>5, <1>6, <1>7, <1>8, <1>9, <1>10, <1>11, <1>12, <1>13, <1>14, <1>15, <1>16, <1>17, <1>18, <1>19, <1>20, <1>21, <1>22, <1>23, <1>24, <1>25, <1>26 DEF Next, Client
\* The stages in which the client waits for an answer.
LEMMA StagesKnown ==
    ASSUME TypeOK
    PROVE  /\ command.verb \in Verb
           /\ StagesOf(command.verb) \subseteq
                {"EXTN_LOGIN_RESPONSE", "SEND_EHLO_RESPONSE", "SEND_HELO_RESPONSE",
                 "TLS_RESPONSE", "AUTH_EXTERNAL_RESPONSE", "AUTH_LOGIN_RESPONSE",
                 "SEND_AUTH_GSSAPI_STEP", "AUTH_LOGIN_STEP0_RESPONSE",
                 "SEND_MAIL_RESPONSE", "SEND_RCPT_RESPONSE", "SEND_DATA_RESPONSE",
                 "SEND_MESSAGE_RESPONSE", "DONE", "ERROR_DONE"}
<1>1. command.verb \in Verb
    BY DEF TypeOK, Command
<1> QED
    BY <1>1 DEF Verb, StagesOf

\* What an answer of the server leaves as it is.
LEMMA ServerLeaves ==
    ASSUME ServerAnswers, CommandFits
    PROVE  /\ m_nextState = "RESPONSE" /\ reply = 0 /\ channel # "closed"
           /\ secured => channel = "tls"
           /\ UNCHANGED <<machine, flags, tls, m_addressesLeft, m_sendDone, password,
                          choices, result, asked, channel, command>>
BY DEF ServerAnswers, ServerDialogue, ServerAuth, Answer, CommandFits, NoCommand, Cmd

\* What STARTTLS may come to.
LEMMA TLSOutcomes ==
    ASSUME SendTLSResponse
    PROVE  /\ m_nextState = "TLS_RESPONSE"
           /\ \/ /\ m_nextState' = "EXTN_LOGIN_RESPONSE" /\ channel' = "tls"
                 /\ m_tlsEnabled' = TRUE
                 /\ m_flags' = {} /\ m_origAuthFlags' = {}
                 /\ UNCHANGED <<m_tlsInitiated, command, reply>>
              \/ /\ \/ Fail /\ m_responseCode = 220
                    \/ Goto("AUTH_PROCESS_STATE") /\ m_responseCode # 220
                 /\ m_flags' = m_flags \ {"STARTTLS"} /\ m_tlsInitiated' = FALSE
                 /\ UNCHANGED <<m_tlsEnabled, m_origAuthFlags>>
           /\ UNCHANGED <<m_responseCode, m_addressesLeft, m_sendDone, choices, result,
                          asked, server>>
BY DEF SendTLSResponse

LEMMA FitsStep == TypeOK /\ CommandFits /\ Greeting /\ [Next]_vars => CommandFits'
<1> SUFFICES ASSUME TypeOK, CommandFits, Greeting, [Next]_vars PROVE CommandFits'
    OBVIOUS
<1> USE DEF CommandFits, StagesOf, NoCommand, Cmd
<1>1. CASE LoadUrl
    BY <1>1 DEF LoadUrl, machine, flags, tls, choices, wire, server
<1>2. CASE SmtpResponse
    <2>1. m_nextState' # "RESPONSE" /\ command' = NoCommand /\ reply' = 0
        BY <1>2, StagesKnown DEF SmtpResponse
    <2> QED
        BY <2>1
<1>3. CASE ExtensionLoginResponse
    BY <1>3 DEF ExtensionLoginResponse, Fail, Send, machine, flags, tls,
       choices, wire, server
<1>4. CASE SendEhloResponse
    BY <1>4 DEF SendEhloResponse, Fail, Goto, Send, machine, flags, tls,
       choices, wire, server
<1>5. CASE SendTLSResponse
    BY <1>5 DEF SendTLSResponse, Fail, Goto, Send, machine, flags, tls,
       choices, wire, server
<1>6. CASE ProcessAuth
    BY <1>6 DEF ProcessAuth, Fail, Goto, Proceed, AuthState, Send,
       Mechanism, machine, flags, tls, choices, wire, server
<1>7. CASE AuthLoginResponse
    BY <1>7 DEF AuthLoginResponse, Proceed, Goto, machine, flags, tls,
       choices, wire, server
<1>8. CASE AuthGSSAPIFirst
    BY <1>8 DEF AuthGSSAPIFirst, Goto, Send, Mechanism, machine, flags,
       tls, choices, wire, server
<1>9. CASE AuthGSSAPIStep
    BY <1>9 DEF AuthGSSAPIStep, Goto, Send, machine, flags, tls, choices,
       wire, server
<1>10. CASE AuthLoginStep0
    BY <1>10 DEF AuthLoginStep0, Send, Mechanism, machine, flags, tls,
       choices, wire, server
<1>11. CASE AuthLoginStep0Response
    BY <1>11 DEF AuthLoginStep0Response, Goto, machine, flags, tls,
       choices, wire, server
<1>12. CASE AuthLoginStep1
    BY <1>12 DEF AuthLoginStep1, Fail, Step1Command, Send, Mechanism,
       machine, flags, tls, choices, wire, server
<1>13. CASE AuthLoginStep2
    BY <1>13 DEF AuthLoginStep2, Send, machine, flags, tls, choices, wire,
       server
<1>14. CASE SendHeloResponse
    BY <1>14 DEF SendHeloResponse, Fail, Send, machine, flags, tls,
       choices, wire, server
<1>15. CASE SendMailResponse
    BY <1>15 DEF SendMailResponse, Fail, Send, machine, flags, tls,
       choices, wire, server
<1>16. CASE SendRecipientResponse
    BY <1>16 DEF SendRecipientResponse, Fail, Goto, Send, machine, flags,
       tls, choices, wire, server
<1>17. CASE SendDataResponse
    BY <1>17 DEF SendDataResponse, Fail, Goto, Send, machine, flags, tls,
       choices, wire, server
<1>18. CASE SendPostData
    BY <1>18 DEF SendPostData, Send, machine, flags, tls, choices, wire,
       server
<1>19. CASE SendMessageResponse
    BY <1>19 DEF SendMessageResponse, Fail, Send, machine, flags, tls,
       choices, wire, server
<1>20. CASE Finish
    BY <1>20 DEF Finish, SetUrlState, machine, flags, tls, choices, wire,
       server
<1>21. CASE PasswordGiven
    BY <1>21 DEF PasswordGiven, Prompting, machine, flags, tls, choices,
       wire, server
<1>22. CASE PasswordRefused
    BY <1>22 DEF PasswordRefused, Prompting, Fail, Send, machine, flags,
       tls, choices, wire, server
<1>23. CASE OnStopRequest
    BY <1>23 DEF OnStopRequest, Prompting, SetUrlState, machine, flags,
       tls, choices, wire, server
<1>24. CASE ChangePrefs
    BY <1>24 DEF ChangePrefs, machine, flags, tls, choices, wire, server
<1>25. CASE ServerAnswers
    BY <1>25, ServerLeaves DEF machine
<1>26. CASE UNCHANGED vars
    BY <1>26 DEF vars, Stage, Seen, machine, flags, tls, choices, wire,
       server
<1> QED
    BY <1>1, <1>2, <1>3, <1>4, <1>5, <1>6, <1>7, <1>8, <1>9, <1>10, <1>11,
       <1>12, <1>13, <1>14, <1>15, <1>16, <1>17, <1>18, <1>19, <1>20,
       <1>21, <1>22, <1>23, <1>24, <1>25, <1>26 DEF Next, Client

LEMMA ClosedStep == TypeOK /\ ClosedWaiting /\ CommandFits /\ [Next]_vars => ClosedWaiting'
<1> SUFFICES ASSUME TypeOK, ClosedWaiting, CommandFits, [Next]_vars PROVE ClosedWaiting'
    OBVIOUS
<1> USE DEF ClosedWaiting, CommandFits, NoCommand, Cmd
<1>1. CASE LoadUrl
    BY <1>1 DEF LoadUrl, machine, flags, tls, choices, wire, server
<1>2. CASE SmtpResponse
    <2>1. m_nextState' # "FREE" /\ channel' # "closed" /\ UNCHANGED result
        BY <1>2, StagesKnown DEF SmtpResponse
    <2>2. result = "running"
        BY <1>2 DEF SmtpResponse
    <2> QED
        BY <2>1, <2>2
<1>3. CASE ExtensionLoginResponse
    BY <1>3 DEF ExtensionLoginResponse, Fail, Send, machine, flags, tls,
       choices, wire, server
<1>4. CASE SendEhloResponse
    BY <1>4 DEF SendEhloResponse, Fail, Goto, Send, machine, flags, tls,
       choices, wire, server
<1>5. CASE SendTLSResponse
    BY <1>5 DEF SendTLSResponse, Fail, Goto, Send, machine, flags, tls,
       choices, wire, server
<1>6. CASE ProcessAuth
    BY <1>6 DEF ProcessAuth, Fail, Goto, Proceed, AuthState, Send,
       machine, flags, tls, choices, wire, server
<1>7. CASE AuthLoginResponse
    BY <1>7 DEF AuthLoginResponse, Proceed, Goto, machine, flags, tls,
       choices, wire, server
<1>8. CASE AuthGSSAPIFirst
    BY <1>8 DEF AuthGSSAPIFirst, Goto, Send, machine, flags, tls, choices,
       wire, server
<1>9. CASE AuthGSSAPIStep
    BY <1>9 DEF AuthGSSAPIStep, Goto, Send, machine, flags, tls, choices,
       wire, server
<1>10. CASE AuthLoginStep0
    BY <1>10 DEF AuthLoginStep0, Send, machine, flags, tls, choices, wire,
       server
<1>11. CASE AuthLoginStep0Response
    BY <1>11 DEF AuthLoginStep0Response, Goto, machine, flags, tls,
       choices, wire, server
<1>12. CASE AuthLoginStep1
    BY <1>12 DEF AuthLoginStep1, Fail, Step1Command, Send, machine, flags,
       tls, choices, wire, server
<1>13. CASE AuthLoginStep2
    BY <1>13 DEF AuthLoginStep2, Send, machine, flags, tls, choices, wire,
       server
<1>14. CASE SendHeloResponse
    BY <1>14 DEF SendHeloResponse, Fail, Send, machine, flags, tls,
       choices, wire, server
<1>15. CASE SendMailResponse
    BY <1>15 DEF SendMailResponse, Fail, Send, machine, flags, tls,
       choices, wire, server
<1>16. CASE SendRecipientResponse
    BY <1>16 DEF SendRecipientResponse, Fail, Goto, Send, machine, flags,
       tls, choices, wire, server
<1>17. CASE SendDataResponse
    BY <1>17 DEF SendDataResponse, Fail, Goto, Send, machine, flags, tls,
       choices, wire, server
<1>18. CASE SendPostData
    BY <1>18 DEF SendPostData, Send, machine, flags, tls, choices, wire,
       server
<1>19. CASE SendMessageResponse
    BY <1>19 DEF SendMessageResponse, Fail, Send, machine, flags, tls,
       choices, wire, server
<1>20. CASE Finish
    BY <1>20 DEF Finish, SetUrlState, machine, flags, tls, choices, wire,
       server
<1>21. CASE PasswordGiven
    BY <1>21 DEF PasswordGiven, Prompting, machine, flags, tls, choices,
       wire, server
<1>22. CASE PasswordRefused
    BY <1>22 DEF PasswordRefused, Prompting, Fail, Send, machine, flags,
       tls, choices, wire, server
<1>23. CASE OnStopRequest
    BY <1>23 DEF OnStopRequest, Prompting, SetUrlState, machine, flags,
       tls, choices, wire, server
<1>24. CASE ChangePrefs
    BY <1>24 DEF ChangePrefs, machine, flags, tls, choices, wire, server
<1>25. CASE ServerAnswers
    BY <1>25 DEF ServerAnswers, Answer, ServerAuth, ServerDialogue,
       PlainAnswers, machine, flags, tls, choices, wire, server
<1>26. CASE UNCHANGED vars
    BY <1>26 DEF vars, Stage, Seen, machine, flags, tls, choices, wire,
       server
<1> QED
    BY <1>1, <1>2, <1>3, <1>4, <1>5, <1>6, <1>7, <1>8, <1>9, <1>10, <1>11,
       <1>12, <1>13, <1>14, <1>15, <1>16, <1>17, <1>18, <1>19, <1>20,
       <1>21, <1>22, <1>23, <1>24, <1>25, <1>26 DEF Next, Client

LEMMA GreetingStep == TypeOK /\ CommandFits /\ Greeting /\ [Next]_vars => Greeting'
<1> SUFFICES ASSUME TypeOK, CommandFits, Greeting, [Next]_vars PROVE Greeting'
    OBVIOUS
<1> USE DEF Greeting, CommandFits, Stage, StagesOf, NoCommand, Cmd
<1>1. CASE LoadUrl
    BY <1>1 DEF LoadUrl, machine, flags, tls, choices, wire, server
<1>2. CASE SmtpResponse
    BY <1>2 DEF SmtpResponse, machine, flags, tls, choices, wire, server
<1>3. CASE ExtensionLoginResponse
    BY <1>3 DEF ExtensionLoginResponse, Fail, Send, machine, flags, tls,
       choices, wire, server
<1>4. CASE SendEhloResponse
    BY <1>4 DEF SendEhloResponse, Fail, Goto, Send, machine, flags, tls,
       choices, wire, server
<1>5. CASE SendTLSResponse
    <2>1. CASE Fail
        BY <1>5, <2>1, TLSOutcomes DEF Fail, Send, Cmd, choices
    <2>2. CASE Goto("AUTH_PROCESS_STATE")
        BY <1>5, <2>2, TLSOutcomes DEF Goto, wire, choices
    <2>3. CASE m_nextState' = "EXTN_LOGIN_RESPONSE" /\ channel' = "tls"
               /\ UNCHANGED <<m_tlsInitiated, command, reply>>
        BY <1>5, <2>3, TLSOutcomes DEF choices
    <2> QED
        BY <1>5, <2>1, <2>2, <2>3, TLSOutcomes
<1>6. CASE ProcessAuth
    BY <1>6 DEF ProcessAuth, Fail, Goto, Proceed, AuthState, Send,
       machine, flags, tls, choices, wire, server
<1>7. CASE AuthLoginResponse
    BY <1>7 DEF AuthLoginResponse, Proceed, Goto, machine, flags, tls,
       choices, wire, server
<1>8. CASE AuthGSSAPIFirst
    BY <1>8 DEF AuthGSSAPIFirst, Goto, Send, machine, flags, tls, choices,
       wire, server
<1>9. CASE AuthGSSAPIStep
    BY <1>9 DEF AuthGSSAPIStep, Goto, Send, machine, flags, tls, choices,
       wire, server
<1>10. CASE AuthLoginStep0
    BY <1>10 DEF AuthLoginStep0, Send, machine, flags, tls, choices, wire,
       server
<1>11. CASE AuthLoginStep0Response
    BY <1>11 DEF AuthLoginStep0Response, Goto, machine, flags, tls,
       choices, wire, server
<1>12. CASE AuthLoginStep1
    BY <1>12 DEF AuthLoginStep1, Fail, Step1Command, Send, machine, flags,
       tls, choices, wire, server
<1>13. CASE AuthLoginStep2
    BY <1>13 DEF AuthLoginStep2, Send, machine, flags, tls, choices, wire,
       server
<1>14. CASE SendHeloResponse
    BY <1>14 DEF SendHeloResponse, Fail, Send, machine, flags, tls,
       choices, wire, server
<1>15. CASE SendMailResponse
    BY <1>15 DEF SendMailResponse, Fail, Send, machine, flags, tls,
       choices, wire, server
<1>16. CASE SendRecipientResponse
    BY <1>16 DEF SendRecipientResponse, Fail, Goto, Send, machine, flags,
       tls, choices, wire, server
<1>17. CASE SendDataResponse
    BY <1>17 DEF SendDataResponse, Fail, Goto, Send, machine, flags, tls,
       choices, wire, server
<1>18. CASE SendPostData
    BY <1>18 DEF SendPostData, Send, machine, flags, tls, choices, wire,
       server
<1>19. CASE SendMessageResponse
    BY <1>19 DEF SendMessageResponse, Fail, Send, machine, flags, tls,
       choices, wire, server
<1>20. CASE Finish
    BY <1>20 DEF Finish, SetUrlState, machine, flags, tls, choices, wire,
       server
<1>21. CASE PasswordGiven
    BY <1>21 DEF PasswordGiven, Prompting, machine, flags, tls, choices,
       wire, server
<1>22. CASE PasswordRefused
    BY <1>22 DEF PasswordRefused, Prompting, Fail, Send, machine, flags,
       tls, choices, wire, server
<1>23. CASE OnStopRequest
    BY <1>23 DEF OnStopRequest, Prompting, SetUrlState, machine, flags,
       tls, choices, wire, server
<1>24. CASE ChangePrefs
    BY <1>24 DEF ChangePrefs, machine, flags, tls, choices, wire, server
<1>25. CASE ServerAnswers
    <2>1. reply' = 220 => command.verb \in {"connect", "STARTTLS"}
        <3>1. CASE ServerDialogue
            BY <3>1 DEF ServerDialogue, Answer
        <3>2. CASE ServerAuth
            BY <3>2 DEF ServerAuth, Answer
        <3>3. CASE command.verb # "none" /\ \E code \in PlainAnswers[command.verb] : reply' = code
            BY <3>3, StagesKnown DEF PlainAnswers, Verb
        <3>4. CASE reply' \in {250, 251}
            BY <3>4
        <3> QED
            BY <1>25, <3>1, <3>2, <3>3, <3>4 DEF ServerAnswers, Answer
    <2> QED
        BY <1>25, <2>1, ServerLeaves DEF machine, tls
<1>26. CASE UNCHANGED vars
    BY <1>26 DEF vars, Seen, machine, flags, tls, choices, wire, server
<1> QED
    BY <1>1, <1>2, <1>3, <1>4, <1>5, <1>6, <1>7, <1>8, <1>9, <1>10, <1>11,
       <1>12, <1>13, <1>14, <1>15, <1>16, <1>17, <1>18, <1>19, <1>20,
       <1>21, <1>22, <1>23, <1>24, <1>25, <1>26 DEF Next, Client

LEMMA ClearStep == TypeOK /\ CommandFits /\ ClosedWaiting /\ Greeting /\ ClearStages /\ [Next]_vars => ClearStages'
<1> SUFFICES ASSUME TypeOK, CommandFits, ClosedWaiting, Greeting, ClearStages, [Next]_vars PROVE ClearStages'
    OBVIOUS
<1> USE DEF ClearStages, Greeting, CommandFits, Stage
<1>1. CASE LoadUrl
    BY <1>1 DEF LoadUrl, Cmd, ClosedWaiting, machine, flags, tls, choices,
       wire, server
<1>2. CASE SmtpResponse
    BY <1>2 DEF SmtpResponse, NoCommand, Cmd, ClosedWaiting, machine,
       flags, tls, choices, wire, server
<1>3. CASE ExtensionLoginResponse
    BY <1>3 DEF ExtensionLoginResponse, Fail, Send, Cmd, ClosedWaiting,
       machine, flags, tls, choices, wire, server
<1>4. CASE SendEhloResponse
    BY <1>4 DEF SendEhloResponse, Fail, Goto, Send, Cmd, ClosedWaiting,
       machine, flags, tls, choices, wire, server
<1>5. CASE SendTLSResponse
    <2>1. CASE Fail
        <3>1. /\ channel' = channel /\ UNCHANGED <<settings, m_tlsEnabled>>
              /\ IF m_nextState' = "RESPONSE" THEN m_nextStateAfterResponse' = "ERROR_DONE"
                                             ELSE m_nextState' = "ERROR_DONE"
            BY <1>5, <2>1, TLSOutcomes DEF Fail, Send, Cmd, choices
        <3> QED
            BY <3>1
    <2>2. CASE Goto("AUTH_PROCESS_STATE")
        BY <1>5, <2>2, TLSOutcomes DEF Goto, wire, choices
    <2>3. CASE m_nextState' = "EXTN_LOGIN_RESPONSE" /\ channel' = "tls"
               /\ UNCHANGED <<m_tlsInitiated, command, reply>>
        BY <1>5, <2>3, TLSOutcomes DEF choices
    <2> QED
        BY <1>5, <2>1, <2>2, <2>3, TLSOutcomes
<1>6. CASE ProcessAuth
    BY <1>6 DEF ProcessAuth, Fail, Goto, Proceed, AuthState, Send, Cmd,
       ClosedWaiting, machine, flags, tls, choices, wire, server
<1>7. CASE AuthLoginResponse
    BY <1>7 DEF AuthLoginResponse, Proceed, Goto, ClosedWaiting, machine,
       flags, tls, choices, wire, server
<1>8. CASE AuthGSSAPIFirst
    BY <1>8 DEF AuthGSSAPIFirst, Goto, Send, Cmd, ClosedWaiting, machine,
       flags, tls, choices, wire, server
<1>9. CASE AuthGSSAPIStep
    BY <1>9 DEF AuthGSSAPIStep, Goto, Send, Cmd, ClosedWaiting, machine,
       flags, tls, choices, wire, server
<1>10. CASE AuthLoginStep0
    BY <1>10 DEF AuthLoginStep0, Send, Cmd, ClosedWaiting, machine, flags,
       tls, choices, wire, server
<1>11. CASE AuthLoginStep0Response
    BY <1>11 DEF AuthLoginStep0Response, Goto, ClosedWaiting, machine,
       flags, tls, choices, wire, server
<1>12. CASE AuthLoginStep1
    BY <1>12 DEF AuthLoginStep1, Fail, Step1Command, Send, Cmd,
       ClosedWaiting, machine, flags, tls, choices, wire, server
<1>13. CASE AuthLoginStep2
    BY <1>13 DEF AuthLoginStep2, Send, Cmd, ClosedWaiting, machine, flags,
       tls, choices, wire, server
<1>14. CASE SendHeloResponse
    BY <1>14 DEF SendHeloResponse, Fail, Send, Cmd, ClosedWaiting,
       machine, flags, tls, choices, wire, server
<1>15. CASE SendMailResponse
    BY <1>15 DEF SendMailResponse, Fail, Send, Cmd, ClosedWaiting,
       machine, flags, tls, choices, wire, server
<1>16. CASE SendRecipientResponse
    BY <1>16 DEF SendRecipientResponse, Fail, Goto, Send, Cmd,
       ClosedWaiting, machine, flags, tls, choices, wire, server
<1>17. CASE SendDataResponse
    BY <1>17 DEF SendDataResponse, Fail, Goto, Send, Cmd, ClosedWaiting,
       machine, flags, tls, choices, wire, server
<1>18. CASE SendPostData
    BY <1>18 DEF SendPostData, Send, Cmd, ClosedWaiting, machine, flags,
       tls, choices, wire, server
<1>19. CASE SendMessageResponse
    BY <1>19 DEF SendMessageResponse, Fail, Send, Cmd, ClosedWaiting,
       machine, flags, tls, choices, wire, server
<1>20. CASE Finish
    BY <1>20 DEF Finish, SetUrlState, ClosedWaiting, machine, flags, tls,
       choices, wire, server
<1>21. CASE PasswordGiven
    BY <1>21 DEF PasswordGiven, Prompting, ClosedWaiting, machine, flags,
       tls, choices, wire, server
<1>22. CASE PasswordRefused
    BY <1>22 DEF PasswordRefused, Prompting, Fail, Send, Cmd,
       ClosedWaiting, machine, flags, tls, choices, wire, server
<1>23. CASE OnStopRequest
    BY <1>23 DEF OnStopRequest, Prompting, SetUrlState, ClosedWaiting,
       machine, flags, tls, choices, wire, server
<1>24. CASE ChangePrefs
    BY <1>24 DEF ChangePrefs, ClosedWaiting, machine, flags, tls, choices,
       wire, server
<1>25. CASE ServerAnswers
    BY <1>25 DEF ServerAnswers, Answer, ServerAuth, ServerDialogue,
       PlainAnswers, ClosedWaiting, machine, flags, tls, choices, wire,
       server
<1>26. CASE UNCHANGED vars
    BY <1>26 DEF vars, Seen, machine, flags, tls, choices, wire, server
<1> QED
    BY <1>1, <1>2, <1>3, <1>4, <1>5, <1>6, <1>7, <1>8, <1>9, <1>10, <1>11,
       <1>12, <1>13, <1>14, <1>15, <1>16, <1>17, <1>18, <1>19, <1>20,
       <1>21, <1>22, <1>23, <1>24, <1>25, <1>26 DEF Next, Client
\* The answer that is read is the one its handler sees.
LEMMA AnswerSeen ==
    ASSUME TypeOK, CommandFits, Greeting, SmtpResponse
    PROVE  /\ Stage' = Stage /\ Seen' = Seen /\ m_nextState' = Stage
           /\ m_nextState = "RESPONSE" /\ reply # 0 /\ channel # "closed"
           /\ command' = NoCommand /\ reply' = 0
<1>1. m_nextState = "RESPONSE" /\ Stage = m_nextStateAfterResponse
      /\ Stage \in StagesOf(command.verb)
    BY DEF SmtpResponse, Stage, CommandFits
<1>2. m_nextStateAfterResponse' = m_nextStateAfterResponse
    BY <1>1 DEF SmtpResponse, Greeting, StagesOf
<1>3. Stage # "RESPONSE"
    BY <1>1, StagesKnown
<1> QED
    BY <1>1, <1>2, <1>3 DEF SmtpResponse, Stage, Seen

LEMMA CountsStep == TypeOK /\ CommandFits /\ ClosedWaiting /\ Greeting /\ Counts /\ [Next]_vars => Counts'
<1> SUFFICES ASSUME TypeOK, CommandFits, ClosedWaiting, Greeting, Counts, [Next]_vars PROVE Counts'
    OBVIOUS
<1> USE SmtpAssumption DEF Counts, MessageStages, EndStages, Envelope
<1>1. CASE LoadUrl
    BY <1>1 DEF LoadUrl, Cmd, Stage, Seen, CommandFits, TypeOK, machine,
       flags, tls, choices, wire, server
<1>2. CASE SmtpResponse
    BY <1>2, AnswerSeen DEF SmtpResponse, server
<1>3. CASE ExtensionLoginResponse
    BY <1>3 DEF ExtensionLoginResponse, Fail, Send, Cmd, Stage, Seen,
       CommandFits, TypeOK, machine, flags, tls, choices, wire, server
<1>4. CASE SendEhloResponse
    BY <1>4 DEF SendEhloResponse, Fail, Goto, Send, Cmd, Stage, Seen,
       CommandFits, TypeOK, machine, flags, tls, choices, wire, server
<1>5. CASE SendTLSResponse
    BY <1>5 DEF SendTLSResponse, Fail, Goto, Send, Cmd, Stage, Seen,
       CommandFits, TypeOK, machine, flags, tls, choices, wire, server
<1>6. CASE ProcessAuth
    BY <1>6 DEF ProcessAuth, Fail, Goto, Proceed, AuthState, Send, Cmd,
       Stage, Seen, CommandFits, TypeOK, machine, flags, tls, choices,
       wire, server
<1>7. CASE AuthLoginResponse
    <2>1. /\ Stage' \in {"SEND_HELO_RESPONSE", "SEND_AUTH_LOGIN_STEP2", "AUTH_PROCESS_STATE"}
          /\ Stage = m_nextState
        BY ZenonT(60), <1>7 DEF AuthLoginResponse, Proceed, Goto, Stage
    <2>2. UNCHANGED <<m_addressesLeft, asked, accepted>>
        BY <1>7 DEF AuthLoginResponse
    <2> QED
        BY ZenonT(60), <1>7, <2>1, <2>2 DEF AuthLoginResponse
<1>8. CASE AuthGSSAPIFirst
    BY <1>8 DEF AuthGSSAPIFirst, Goto, Send, Cmd, Stage, Seen,
       CommandFits, TypeOK, machine, flags, tls, choices, wire, server
<1>9. CASE AuthGSSAPIStep
    <2>1. /\ Stage' \in {"AUTH_LOGIN_RESPONSE", "SEND_AUTH_GSSAPI_STEP", "ERROR_DONE"}
          /\ Stage = "SEND_AUTH_GSSAPI_STEP"
        BY <1>9 DEF AuthGSSAPIStep, Goto, Send, Stage
    <2>2. UNCHANGED <<m_addressesLeft, asked, accepted>>
        BY <1>9 DEF AuthGSSAPIStep, server
    <2> QED
        BY <2>1, <2>2 DEF TypeOK
<1>10. CASE AuthLoginStep0
    BY <1>10 DEF AuthLoginStep0, Send, Cmd, Stage, Seen, CommandFits,
       TypeOK, machine, flags, tls, choices, wire, server
<1>11. CASE AuthLoginStep0Response
    BY <1>11 DEF AuthLoginStep0Response, Goto, Stage, Seen, CommandFits,
       TypeOK, machine, flags, tls, choices, wire, server
<1>12. CASE AuthLoginStep1
    BY <1>12 DEF AuthLoginStep1, Fail, Step1Command, Send, Cmd, Stage,
       Seen, CommandFits, TypeOK, machine, flags, tls, choices, wire,
       server
<1>13. CASE AuthLoginStep2
    BY <1>13 DEF AuthLoginStep2, Send, Cmd, Stage, Seen, CommandFits,
       TypeOK, machine, flags, tls, choices, wire, server
<1>14. CASE SendHeloResponse
    BY <1>14 DEF SendHeloResponse, Fail, Send, Cmd, Stage, Seen,
       CommandFits, TypeOK, machine, flags, tls, choices, wire, server
<1>15. CASE SendMailResponse
    BY <1>15 DEF SendMailResponse, Fail, Send, Cmd, Stage, Seen,
       CommandFits, TypeOK, machine, flags, tls, choices, wire, server
<1>16. CASE SendRecipientResponse
    BY <1>16 DEF SendRecipientResponse, Fail, Goto, Send, Cmd, Stage,
       Seen, CommandFits, TypeOK, machine, flags, tls, choices, wire,
       server
<1>17. CASE SendDataResponse
    BY <1>17 DEF SendDataResponse, Fail, Goto, Send, Cmd, Stage, Seen,
       CommandFits, TypeOK, machine, flags, tls, choices, wire, server
<1>18. CASE SendPostData
    BY <1>18 DEF SendPostData, Send, Cmd, Stage, Seen, CommandFits,
       TypeOK, machine, flags, tls, choices, wire, server
<1>19. CASE SendMessageResponse
    BY <1>19 DEF SendMessageResponse, Fail, Send, Cmd, Stage, Seen,
       CommandFits, TypeOK, machine, flags, tls, choices, wire, server
<1>20. CASE Finish
    BY <1>20 DEF Finish, SetUrlState, Stage, Seen, CommandFits, TypeOK,
       machine, flags, tls, choices, wire, server
<1>21. CASE PasswordGiven
    BY <1>21 DEF PasswordGiven, Prompting, Stage, Seen, CommandFits,
       TypeOK, machine, flags, tls, choices, wire, server
<1>22. CASE PasswordRefused
    BY <1>22 DEF PasswordRefused, Prompting, Fail, Send, Cmd, Stage, Seen,
       CommandFits, TypeOK, machine, flags, tls, choices, wire, server
<1>23. CASE OnStopRequest
    BY <1>23 DEF OnStopRequest, Prompting, SetUrlState, Stage, Seen,
       CommandFits, TypeOK, machine, flags, tls, choices, wire, server
<1>24. CASE ChangePrefs
    BY <1>24 DEF ChangePrefs, Stage, Seen, CommandFits, TypeOK, machine,
       flags, tls, choices, wire, server
<1>25. CASE ServerAnswers
    <2>1. /\ Stage' = Stage /\ Seen = 0 /\ Seen' = reply'
          /\ UNCHANGED <<m_addressesLeft, asked>>
        BY <1>25, ServerLeaves DEF Stage, Seen, machine
    <2>2. CASE accepted' = accepted /\ reply' \notin {250, 251}
        BY <2>1, <2>2
    <2>3. CASE accepted' = accepted /\ command.verb # "RCPT"
        <3>1. Stage # "SEND_RCPT_RESPONSE"
            BY <1>25, <2>3, ServerLeaves, StagesKnown DEF CommandFits, Stage, StagesOf, Verb
        <3> QED
            BY <2>1, <2>3, <3>1
    <2>4. CASE /\ command.verb = "RCPT" /\ reply' \in {250, 251}
               /\ accepted' = accepted + 1
        <3>1. Stage = "SEND_RCPT_RESPONSE"
            BY <1>25, <2>4, ServerLeaves DEF CommandFits, Stage, StagesOf
        <3> QED
            BY <2>1, <2>4, <3>1 DEF TypeOK
    <2> QED
        <3>1. CASE dialogue # {}
            BY <1>25, <2>2, <3>1 DEF ServerAnswers, ServerDialogue, Answer
        <3>2. CASE command.verb # "RCPT"
            BY <1>25, <2>2, <2>3, <3>2
            DEF ServerAnswers, ServerDialogue, ServerAuth, Answer, server
        <3>3. CASE dialogue = {} /\ command.verb = "RCPT"
            BY <1>25, <2>2, <2>4, <3>3 DEF ServerAnswers, Answer, PlainAnswers, server
        <3> QED
            BY <3>1, <3>2, <3>3
<1>26. CASE UNCHANGED vars
    BY <1>26 DEF vars, Stage, Seen, machine, flags, tls, choices, wire,
       server
<1> QED
    BY <1>1, <1>2, <1>3, <1>4, <1>5, <1>6, <1>7, <1>8, <1>9, <1>10, <1>11,
       <1>12, <1>13, <1>14, <1>15, <1>16, <1>17, <1>18, <1>19, <1>20,
       <1>21, <1>22, <1>23, <1>24, <1>25, <1>26 DEF Next, Client
LEMMA AcceptanceStep == TypeOK /\ CommandFits /\ ClosedWaiting /\ Greeting /\ Counts /\ Acceptance /\ [Next]_vars => Acceptance'
<1> SUFFICES ASSUME TypeOK, CommandFits, ClosedWaiting, Greeting, Counts, Acceptance, [Next]_vars PROVE Acceptance'
    OBVIOUS
<1> USE DEF Acceptance, MessageStages, EndStages, Envelope
<1>1. CASE LoadUrl
    BY <1>1 DEF LoadUrl, Cmd, Stage, Seen, CommandFits, machine, flags,
       tls, choices, wire, server
<1>2. CASE SmtpResponse
    BY <1>2, AnswerSeen DEF SmtpResponse, server
<1>3. CASE ExtensionLoginResponse
    BY <1>3 DEF ExtensionLoginResponse, Fail, Send, Cmd, Stage, Seen,
       CommandFits, machine, flags, tls, choices, wire, server
<1>4. CASE SendEhloResponse
    BY <1>4 DEF SendEhloResponse, Fail, Goto, Send, Cmd, Stage, Seen,
       CommandFits, machine, flags, tls, choices, wire, server
<1>5. CASE SendTLSResponse
    BY <1>5 DEF SendTLSResponse, Fail, Goto, Send, Cmd, Stage, Seen,
       CommandFits, machine, flags, tls, choices, wire, server
<1>6. CASE ProcessAuth
    BY <1>6 DEF ProcessAuth, Fail, Goto, Proceed, AuthState, Send, Cmd,
       Stage, Seen, CommandFits, machine, flags, tls, choices, wire,
       server
<1>7. CASE AuthLoginResponse
    BY ZenonT(60), <1>7 DEF AuthLoginResponse, Proceed, Goto, Stage, Seen,
       CommandFits, machine, flags, tls, choices, wire, server
<1>8. CASE AuthGSSAPIFirst
    BY <1>8 DEF AuthGSSAPIFirst, Goto, Send, Cmd, Stage, Seen,
       CommandFits, machine, flags, tls, choices, wire, server
<1>9. CASE AuthGSSAPIStep
    BY ZenonT(60), <1>9 DEF AuthGSSAPIStep, Goto, Send, Cmd, Stage, Seen, CommandFits,
       machine, flags, tls, choices, wire, server
<1>10. CASE AuthLoginStep0
    BY <1>10 DEF AuthLoginStep0, Send, Cmd, Stage, Seen, CommandFits,
       machine, flags, tls, choices, wire, server
<1>11. CASE AuthLoginStep0Response
    BY <1>11 DEF AuthLoginStep0Response, Goto, Stage, Seen, CommandFits,
       machine, flags, tls, choices, wire, server
<1>12. CASE AuthLoginStep1
    BY <1>12 DEF AuthLoginStep1, Fail, Step1Command, Send, Cmd, Stage,
       Seen, CommandFits, machine, flags, tls, choices, wire, server
<1>13. CASE AuthLoginStep2
    BY <1>13 DEF AuthLoginStep2, Send, Cmd, Stage, Seen, CommandFits,
       machine, flags, tls, choices, wire, server
<1>14. CASE SendHeloResponse
    BY <1>14 DEF SendHeloResponse, Fail, Send, Cmd, Stage, Seen,
       CommandFits, machine, flags, tls, choices, wire, server
<1>15. CASE SendMailResponse
    BY <1>15 DEF SendMailResponse, Fail, Send, Cmd, Stage, Seen,
       CommandFits, machine, flags, tls, choices, wire, server
<1>16. CASE SendRecipientResponse
    BY <1>16 DEF SendRecipientResponse, Fail, Goto, Send, Cmd, Stage,
       Seen, CommandFits, machine, flags, tls, choices, wire, server
<1>17. CASE SendDataResponse
    BY <1>17 DEF SendDataResponse, Fail, Goto, Send, Cmd, Stage, Seen,
       CommandFits, machine, flags, tls, choices, wire, server
<1>18. CASE SendPostData
    BY <1>18 DEF SendPostData, Send, Cmd, Stage, Seen, CommandFits,
       machine, flags, tls, choices, wire, server
<1>19. CASE SendMessageResponse
    BY <1>19 DEF SendMessageResponse, Fail, Send, Cmd, Stage, Seen,
       CommandFits, machine, flags, tls, choices, wire, server
<1>20. CASE Finish
    BY <1>20 DEF Finish, SetUrlState, Stage, Seen, CommandFits, machine,
       flags, tls, choices, wire, server
<1>21. CASE PasswordGiven
    BY <1>21 DEF PasswordGiven, Prompting, Stage, Seen, CommandFits,
       machine, flags, tls, choices, wire, server
<1>22. CASE PasswordRefused
    BY <1>22 DEF PasswordRefused, Prompting, Fail, Send, Cmd, Stage, Seen,
       CommandFits, machine, flags, tls, choices, wire, server
<1>23. CASE OnStopRequest
    BY <1>23 DEF OnStopRequest, Prompting, SetUrlState, Stage, Seen,
       CommandFits, machine, flags, tls, choices, wire, server
<1>24. CASE ChangePrefs
    BY <1>24 DEF ChangePrefs, Stage, Seen, CommandFits, machine, flags,
       tls, choices, wire, server
<1>25. CASE ServerAnswers
    <2>1. /\ Stage' = Stage /\ Seen = 0 /\ Seen' = reply'
          /\ UNCHANGED <<m_addressesLeft, asked, m_sendDone, result>>
        BY <1>25, ServerLeaves DEF Stage, Seen, machine
    <2>2. CASE delivered' = delivered /\ reply' \notin {250, 354}
        <3>1. CASE delivered
            <4>1. Stage # "SEND_RCPT_RESPONSE" /\ command.verb # "RCPT"
                BY <1>25, <3>1, ServerLeaves DEF CommandFits, Stage, StagesOf
            <4>2. accepted' = accepted
                BY <1>25, <4>1 DEF ServerAnswers, server
            <4> QED
                BY <2>1, <2>2, <4>2
        <3>2. CASE ~delivered
            BY <2>1, <2>2, <3>2
        <3> QED
            BY <3>1, <3>2
    <2>3. CASE delivered' = delivered /\ command.verb # "message"
        <3>1. Stage # "SEND_MESSAGE_RESPONSE"
            BY <1>25, <2>3, ServerLeaves, StagesKnown DEF CommandFits, Stage, StagesOf, Verb
        <3>2. delivered => command.verb # "RCPT"
            BY <1>25, ServerLeaves DEF CommandFits, Stage, StagesOf
        <3>3. delivered => accepted' = accepted
            BY <1>25, <3>2 DEF ServerAnswers, server
        <3> QED
            BY <2>1, <2>3, <3>1, <3>3
    <2>4. CASE command.verb = "message" /\ delivered' = TRUE /\ accepted' = accepted
        <3>1. Stage = "SEND_MESSAGE_RESPONSE"
            BY <1>25, <2>4, ServerLeaves DEF CommandFits, Stage, StagesOf
        <3> QED
            BY <2>1, <2>4, <3>1, SmtpAssumption DEF TypeOK, Counts
    <2> QED
        <3>1. CASE dialogue # {}
            BY <1>25, <2>2, <3>1 DEF ServerAnswers, ServerDialogue, Answer
        <3>2. CASE command.verb # "message"
            <4>1. delivered' = delivered
                BY <1>25, <3>2 DEF ServerAnswers, server
            <4> QED
                BY <2>3, <3>2, <4>1
        <3>3. CASE dialogue = {} /\ command.verb = "message"
            <4>1. PlainAnswers["message"] = {554}
                BY DEF PlainAnswers
            <4>2. accepted' = accepted
                BY <1>25, <3>3 DEF ServerAnswers, server
            <4>3. (delivered' = delivered /\ reply' = 554) \/ delivered' = TRUE
                BY <1>25, <3>3, <4>1 DEF ServerAnswers, Answer, server
            <4>4. CASE delivered' = delivered /\ reply' = 554
                <5>1. delivered' = delivered /\ reply' \notin {250, 354}
                    BY <4>4
                <5> QED
                    BY <2>2, <5>1
            <4>5. CASE delivered' = TRUE
                BY <2>4, <3>3, <4>2, <4>5
            <4> QED
                BY <4>3, <4>4, <4>5
        <3> QED
            BY <3>1, <3>2, <3>3
<1>26. CASE UNCHANGED vars
    BY <1>26 DEF vars, Stage, Seen, machine, flags, tls, choices, wire,
       server
<1> QED
    BY <1>1, <1>2, <1>3, <1>4, <1>5, <1>6, <1>7, <1>8, <1>9, <1>10, <1>11,
       <1>12, <1>13, <1>14, <1>15, <1>16, <1>17, <1>18, <1>19, <1>20,
       <1>21, <1>22, <1>23, <1>24, <1>25, <1>26 DEF Next, Client
\* A handler that is not about STARTTLS or the end has flags the server offers.
LEMMA FlagsHold ==
    ASSUME TypeOK, FlagsOffered, channel # "closed",
           m_nextState \notin {"RESPONSE", "TLS_RESPONSE", "ERROR_DONE", "FREE"}
    PROVE  m_flags \subseteq offered
<1>1. secured => channel = "tls"
    BY DEF FlagsOffered, Stage, EndStages, TypeOK
<1>2. m_flags \ {"SIZE"} \subseteq offered
    BY <1>1 DEF FlagsOffered
<1>3. "SIZE" \in m_flags => "SIZE" \in offered
    BY <1>1 DEF FlagsOffered, Stage, EndStages
<1> QED
    BY <1>2, <1>3

\* What a command may carry.
LEMMA SendOffered ==
    ASSUME CommandFits, m_nextState # "RESPONSE", UNCHANGED offered,
           NEW verb, NEW params, NEW after, Send(Cmd(verb, params), after),
           channel # "closed" =>
             /\ verb = "AUTH" => params \subseteq offered
             /\ verb = "STARTTLS" => "STARTTLS" \in offered
             /\ params \cap DsnParam # {} => "DSN" \in offered
             /\ params \cap {"SIZE", "PRIORITY"} \subseteq offered
    PROVE  OfferedOnChannel'
BY DEF CommandFits, NoCommand, Cmd, Send, OfferedOnChannel

LEMMA FailOffered ==
    ASSUME CommandFits, m_nextState # "RESPONSE", UNCHANGED offered, Fail
    PROVE  OfferedOnChannel'
BY SendOffered DEF Fail

LEMMA GotoOffered ==
    ASSUME CommandFits, m_nextState # "RESPONSE", UNCHANGED command
    PROVE  OfferedOnChannel'
BY DEF CommandFits, NoCommand, Cmd, OfferedOnChannel

LEMMA FlagsStep == TypeOK /\ CommandFits /\ ClosedWaiting /\ Greeting /\ ClearStages /\ FlagsOffered /\ [Next]_vars => FlagsOffered'
<1> SUFFICES ASSUME TypeOK, CommandFits, ClosedWaiting, Greeting, ClearStages, FlagsOffered, [Next]_vars PROVE FlagsOffered'
    OBVIOUS
<1> USE DEF FlagsOffered, EndStages
<1>1. CASE LoadUrl
    BY <1>1 DEF LoadUrl, Cmd, Stage, Seen, CommandFits, ClosedWaiting,
       machine, flags, tls, choices, wire, server
<1>2. CASE SmtpResponse
    BY <1>2, AnswerSeen, StagesKnown
    DEF SmtpResponse, server, flags, tls, choices, CommandFits, Stage
<1>3. CASE ExtensionLoginResponse
    BY <1>3 DEF ExtensionLoginResponse, Fail, Send, Cmd, Stage, Seen,
       CommandFits, ClosedWaiting, machine, flags, tls, choices, wire,
       server
<1>4. CASE SendEhloResponse
    <2>1. UNCHANGED <<channel, secured, tls, choices, offered>> /\ Stage = "SEND_EHLO_RESPONSE"
        BY <1>4 DEF SendEhloResponse, Fail, Goto, Send, wire, server, Stage
    <2>2. channel # "closed" /\ (secured => channel = "tls")
        BY <1>4, <2>1 DEF SendEhloResponse, ClosedWaiting, TypeOK
    <2>3. CASE m_responseCode = 250
        <3>1. m_flags' \subseteq offered \cup {w \in {"SIZE"} : "LIMIT" \in offered}
            BY <1>4, <2>1, <2>3 DEF SendEhloResponse, FlagsOf
        <3>2. m_origAuthFlags' \subseteq offered
            <4>1. m_origAuthFlags' \in {m_origAuthFlags, m_flags' \cap Mechanism}
                BY <1>4, <2>3 DEF SendEhloResponse
            <4> QED
                BY <2>1, <3>1, <4>1 DEF Mechanism
        <3>3. Stage' \in {"AUTH_PROCESS_STATE", "ERROR_DONE"} /\ m_nextState' # "SEND_AUTH_GSSAPI_FIRST"
                /\ m_nextState' # "SEND_AUTH_LOGIN_STEP0"
            BY <1>4, <2>3 DEF SendEhloResponse, Fail, Goto, Send, Stage
        <3>4. "LIMIT" \in offered => Stage' = "ERROR_DONE"
            BY <1>4, <2>3 DEF SendEhloResponse, Fail, Send, Stage
        <3> QED
            BY <2>1, <2>2, <3>1, <3>2, <3>3, <3>4 DEF tls, choices
    <2>4. CASE m_responseCode # 250
        <3>1. m_flags' = {} /\ m_origAuthFlags' = {}
            BY <1>4, <2>1, <2>4 DEF SendEhloResponse, flags
        <3>2. Stage' \in {"SEND_HELO_RESPONSE", "ERROR_DONE"}
              /\ m_nextState' \in {"RESPONSE", "ERROR_DONE"}
            BY <1>4, <2>4 DEF SendEhloResponse, Fail, Send, Stage
        <3> QED
            BY <2>1, <2>2, <3>1, <3>2 DEF tls, choices
    <2> QED
        BY <2>3, <2>4
<1>5. CASE SendTLSResponse
    BY <1>5 DEF SendTLSResponse, Fail, Goto, Send, Cmd, Stage, Seen,
       CommandFits, ClosedWaiting, machine, flags, tls, choices, wire,
       server
<1>6. CASE ProcessAuth
    BY <1>6 DEF ProcessAuth, Fail, Goto, Proceed, AuthState, Send, Cmd,
       Stage, Seen, CommandFits, ClosedWaiting, ClearStages, machine,
       flags, tls, choices, wire, server
<1>7. CASE AuthLoginResponse
    BY <1>7 DEF AuthLoginResponse, Proceed, Goto, Stage, Seen,
       CommandFits, ClosedWaiting, machine, flags, tls, choices, wire,
       server
<1>8. CASE AuthGSSAPIFirst
    BY <1>8 DEF AuthGSSAPIFirst, Goto, Send, Cmd, Stage, Seen,
       CommandFits, ClosedWaiting, machine, flags, tls, choices, wire,
       server
<1>9. CASE AuthGSSAPIStep
    BY <1>9 DEF AuthGSSAPIStep, Goto, Send, Cmd, Stage, Seen, CommandFits,
       ClosedWaiting, machine, flags, tls, choices, wire, server
<1>10. CASE AuthLoginStep0
    BY <1>10 DEF AuthLoginStep0, Send, Cmd, Stage, Seen, CommandFits,
       ClosedWaiting, machine, flags, tls, choices, wire, server
<1>11. CASE AuthLoginStep0Response
    BY <1>11 DEF AuthLoginStep0Response, Goto, Stage, Seen, CommandFits,
       ClosedWaiting, machine, flags, tls, choices, wire, server
<1>12. CASE AuthLoginStep1
    BY <1>12 DEF AuthLoginStep1, Fail, Step1Command, Send, Cmd, Stage,
       Seen, CommandFits, ClosedWaiting, machine, flags, tls, choices,
       wire, server
<1>13. CASE AuthLoginStep2
    BY <1>13 DEF AuthLoginStep2, Send, Cmd, Stage, Seen, CommandFits,
       ClosedWaiting, machine, flags, tls, choices, wire, server
<1>14. CASE SendHeloResponse
    BY <1>14 DEF SendHeloResponse, Fail, Send, Cmd, Stage, Seen,
       CommandFits, ClosedWaiting, machine, flags, tls, choices, wire,
       server
<1>15. CASE SendMailResponse
    BY <1>15 DEF SendMailResponse, Fail, Send, Cmd, Stage, Seen,
       CommandFits, ClosedWaiting, machine, flags, tls, choices, wire,
       server
<1>16. CASE SendRecipientResponse
    BY <1>16 DEF SendRecipientResponse, Fail, Goto, Send, Cmd, Stage,
       Seen, CommandFits, ClosedWaiting, machine, flags, tls, choices,
       wire, server
<1>17. CASE SendDataResponse
    BY <1>17 DEF SendDataResponse, Fail, Goto, Send, Cmd, Stage, Seen,
       CommandFits, ClosedWaiting, machine, flags, tls, choices, wire,
       server
<1>18. CASE SendPostData
    BY <1>18 DEF SendPostData, Send, Cmd, Stage, Seen, CommandFits,
       ClosedWaiting, machine, flags, tls, choices, wire, server
<1>19. CASE SendMessageResponse
    BY <1>19 DEF SendMessageResponse, Fail, Send, Cmd, Stage, Seen,
       CommandFits, ClosedWaiting, machine, flags, tls, choices, wire,
       server
<1>20. CASE Finish
    BY <1>20 DEF Finish, SetUrlState, Stage, Seen, CommandFits,
       ClosedWaiting, machine, flags, tls, choices, wire, server
<1>21. CASE PasswordGiven
    BY <1>21 DEF PasswordGiven, Prompting, Stage, Seen, CommandFits,
       ClosedWaiting, machine, flags, tls, choices, wire, server
<1>22. CASE PasswordRefused
    BY <1>22 DEF PasswordRefused, Prompting, Fail, Send, Cmd, Stage, Seen,
       CommandFits, ClosedWaiting, machine, flags, tls, choices, wire,
       server
<1>23. CASE OnStopRequest
    BY <1>23 DEF OnStopRequest, Prompting, SetUrlState, Stage, Seen,
       CommandFits, ClosedWaiting, machine, flags, tls, choices, wire,
       server
<1>24. CASE ChangePrefs
    BY <1>24 DEF ChangePrefs, Stage, Seen, CommandFits, ClosedWaiting,
       machine, flags, tls, choices, wire, server
<1>25. CASE ServerAnswers
    <2>1. /\ Stage' = Stage /\ Seen = 0 /\ Seen' = reply' /\ m_nextState' = "RESPONSE"
          /\ channel # "closed" /\ (secured => channel = "tls")
          /\ UNCHANGED <<m_flags, m_origAuthFlags, tls, choices, channel>>
        BY <1>25, ServerLeaves DEF Stage, Seen, machine, flags
    <2>2. CASE UNCHANGED <<offered, secured>>
        BY <2>1, <2>2 DEF tls, choices
    <2>3. CASE command.verb = "EHLO" /\ secured' = secured
        <3>1. Stage = "SEND_EHLO_RESPONSE"
            BY <1>25, <2>3, ServerLeaves DEF CommandFits, Stage, StagesOf
        <3> QED
            BY <2>1, <2>3, <3>1 DEF tls, choices
    <2>4. CASE command.verb = "STARTTLS" /\ reply' = 220 /\ secured' = TRUE
        <3>1. Stage = "TLS_RESPONSE"
            BY <1>25, <2>4, ServerLeaves DEF CommandFits, Stage, StagesOf
        <3>2. channel = "clear"
            BY <2>1, <3>1 DEF TypeOK
        <3> QED
            BY <2>1, <2>4, <3>1, <3>2 DEF tls, choices
    <2> QED
        BY <1>25, <2>2, <2>3, <2>4 DEF ServerAnswers, Answer, server
<1>26. CASE UNCHANGED vars
    BY <1>26 DEF vars, Stage, Seen, machine, flags, tls, choices, wire,
       server
<1> QED
    BY <1>1, <1>2, <1>3, <1>4, <1>5, <1>6, <1>7, <1>8, <1>9, <1>10, <1>11,
       <1>12, <1>13, <1>14, <1>15, <1>16, <1>17, <1>18, <1>19, <1>20,
       <1>21, <1>22, <1>23, <1>24, <1>25, <1>26 DEF Next, Client

LEMMA OfferStep == TypeOK /\ CommandFits /\ ClosedWaiting /\ Greeting /\ ClearStages /\ FlagsOffered /\ OfferedOnChannel /\ [Next]_vars => OfferedOnChannel'
<1> SUFFICES ASSUME TypeOK, CommandFits, ClosedWaiting, Greeting, ClearStages, FlagsOffered, OfferedOnChannel, [Next]_vars PROVE OfferedOnChannel'
    OBVIOUS
<1>1. CASE LoadUrl
    BY <1>1 DEF LoadUrl, OfferedOnChannel, CommandFits, NoCommand, Cmd, server
<1>2. CASE SmtpResponse
    BY <1>2, AnswerSeen DEF OfferedOnChannel, NoCommand, Cmd
<1>3. CASE ExtensionLoginResponse
    <2>1. m_nextState # "RESPONSE" /\ UNCHANGED offered
        BY <1>3 DEF ExtensionLoginResponse, server
    <2>2. CASE Fail
        BY <2>1, <2>2, FailOffered
    <2>3. CASE Send(Cmd("EHLO", {}), "SEND_EHLO_RESPONSE")
        BY <2>1, <2>3, SendOffered DEF DsnParam
    <2> QED
        BY <1>3, <2>2, <2>3 DEF ExtensionLoginResponse
<1>4. CASE SendEhloResponse
    <2>1. m_nextState # "RESPONSE" /\ UNCHANGED offered
        BY <1>4 DEF SendEhloResponse, server
    <2>2. CASE Fail
        BY <2>1, <2>2, FailOffered
    <2>3. CASE UNCHANGED command
        BY <2>1, <2>3, GotoOffered
    <2>4. CASE Send(Cmd("HELO", {}), "SEND_HELO_RESPONSE")
        BY <2>1, <2>4, SendOffered
    <2> QED
        BY <1>4, <2>2, <2>3, <2>4 DEF SendEhloResponse, Goto, wire
<1>5. CASE SendTLSResponse
    BY <1>5, TLSOutcomes, FailOffered, GotoOffered DEF Goto, wire, server
<1>6. CASE ProcessAuth
    <2>1. m_nextState # "RESPONSE" /\ UNCHANGED offered
        BY <1>6 DEF ProcessAuth, server
    <2>2. CASE Fail
        BY <2>1, <2>2, FailOffered
    <2>3. CASE UNCHANGED command
        BY <2>1, <2>3, GotoOffered
    <2>4. CASE /\ "STARTTLS" \in m_flags
               /\ Send(Cmd("STARTTLS", {}), "TLS_RESPONSE")
        <3>1. channel # "closed" => "STARTTLS" \in offered
            BY <1>6, <2>4, FlagsHold DEF ProcessAuth
        <3> QED
            BY <2>1, <2>4, <3>1, SendOffered
    <2>5. CASE /\ "EXTERNAL" \in m_flags
               /\ Send(Cmd("AUTH", {"EXTERNAL"}), "AUTH_EXTERNAL_RESPONSE")
        <3>1. channel # "closed" => "EXTERNAL" \in offered
            BY <1>6, <2>5, FlagsHold DEF ProcessAuth
        <3> QED
            BY <2>1, <2>5, <3>1, SendOffered DEF DsnParam
    <2> QED
        BY <1>6, <2>2, <2>3, <2>4, <2>5 DEF ProcessAuth, Proceed, Goto, wire
<1>7. CASE AuthLoginResponse
    BY <1>7, GotoOffered DEF AuthLoginResponse, Proceed, Goto, wire
<1>8. CASE AuthGSSAPIFirst
    <2>1. m_nextState # "RESPONSE" /\ UNCHANGED offered
        BY <1>8 DEF AuthGSSAPIFirst, server
    <2>2. CASE UNCHANGED command
        BY <2>1, <2>2, GotoOffered
    <2>3. CASE Send(Cmd("AUTH", {"GSSAPI"}), "SEND_AUTH_GSSAPI_STEP")
        <3>1. channel # "closed" => "GSSAPI" \in offered
            BY <1>8, FlagsHold DEF AuthGSSAPIFirst, FlagsOffered
        <3> QED
            BY <2>1, <2>3, <3>1, SendOffered DEF DsnParam
    <2> QED
        BY <1>8, <2>2, <2>3 DEF AuthGSSAPIFirst, Goto, wire
<1>9. CASE AuthGSSAPIStep
    <2>1. m_nextState # "RESPONSE" /\ UNCHANGED offered
        BY <1>9 DEF AuthGSSAPIStep, server
    <2>2. CASE UNCHANGED command
        BY <2>1, <2>2, GotoOffered
    <2>3. CASE Send(Cmd("cancel", {}), "SEND_AUTH_GSSAPI_STEP")
        BY <2>1, <2>3, SendOffered DEF DsnParam
    <2>4. CASE \E after \in State : Send(Cmd("line", {"GSSAPI"}), after)
        BY <2>1, <2>4, SendOffered DEF DsnParam
    <2> QED
        BY <1>9, <2>2, <2>3, <2>4 DEF AuthGSSAPIStep, Goto, wire, State
<1>10. CASE AuthLoginStep0
    <2>1. /\ m_nextState # "RESPONSE" /\ UNCHANGED offered
          /\ Send(Cmd("AUTH", {IF "MSN" \in m_flags THEN "MSN" ELSE "LOGIN"}),
                  "AUTH_LOGIN_STEP0_RESPONSE")
        BY <1>10 DEF AuthLoginStep0, server
    <2>2. channel # "closed" => (IF "MSN" \in m_flags THEN "MSN" ELSE "LOGIN") \in offered
        BY <1>10, FlagsHold DEF AuthLoginStep0, FlagsOffered
    <2> QED
        BY <2>1, <2>2, SendOffered DEF DsnParam
<1>11. CASE AuthLoginStep0Response
    BY <1>11, GotoOffered DEF AuthLoginStep0Response, Proceed, Goto, wire
<1>12. CASE AuthLoginStep1
    <2>1. m_nextState # "RESPONSE" /\ UNCHANGED offered
        BY <1>12 DEF AuthLoginStep1, server
    <2>2. CASE Fail
        BY <2>1, <2>2, FailOffered
    <2>3. CASE Send(Step1Command, "AUTH_LOGIN_RESPONSE")
        <3>1. PICK verb \in {"AUTH", "line"}, m \in Mechanism :
                /\ Step1Command = Cmd(verb, {m})
                /\ verb = "AUTH" => m \in m_flags
            BY DEF Step1Command, Mechanism
        <3>2. channel # "closed" /\ verb = "AUTH" => m \in offered
            BY <1>12, <3>1, FlagsHold DEF AuthLoginStep1
        <3>3. {m} \cap DsnParam = {} /\ {m} \cap {"SIZE", "PRIORITY"} = {}
            BY <3>1 DEF Mechanism, DsnParam
        <3> QED
            BY <2>1, <2>3, <3>1, <3>2, <3>3, SendOffered
    <2> QED
        BY <1>12, <2>2, <2>3 DEF AuthLoginStep1
<1>13. CASE AuthLoginStep2
    <2>1. /\ m_nextState # "RESPONSE" /\ UNCHANGED offered
          /\ Send(Cmd("line", {Step2Line}), "AUTH_LOGIN_RESPONSE")
        BY <1>13 DEF AuthLoginStep2, server
    <2>2. {Step2Line} \cap DsnParam = {} /\ {Step2Line} \cap {"SIZE", "PRIORITY"} = {}
        BY DEF Step2Line, DsnParam
    <2> QED
        BY <2>1, <2>2, SendOffered
<1>14. CASE SendHeloResponse
    <2>1. m_nextState # "RESPONSE" /\ UNCHANGED offered
        BY <1>14 DEF SendHeloResponse, server
    <2>2. CASE Fail
        BY <2>1, <2>2, FailOffered
    <2>3. CASE Send(Cmd("MAIL", MailParams), "SEND_MAIL_RESPONSE")
        <3>1. channel # "closed" => m_flags \subseteq offered
            BY <1>14, FlagsHold DEF SendHeloResponse
        <3>2. /\ MailParams \cap DsnParam # {} => "DSN" \in m_flags
              /\ MailParams \cap {"SIZE", "PRIORITY"} \subseteq m_flags
            BY DEF MailParams, DsnParam
        <3> QED
            BY <2>1, <2>3, <3>1, <3>2, SendOffered
    <2> QED
        BY <1>14, <2>2, <2>3 DEF SendHeloResponse
<1>15. CASE SendMailResponse
    <2>1. m_nextState # "RESPONSE" /\ UNCHANGED offered
        BY <1>15 DEF SendMailResponse, server
    <2>2. CASE Fail
        BY <2>1, <2>2, FailOffered
    <2>3. CASE Send(Cmd("RCPT", RcptParams), "SEND_RCPT_RESPONSE")
        <3>1. channel # "closed" => m_flags \subseteq offered
            BY <1>15, FlagsHold DEF SendMailResponse
        <3>2. /\ RcptParams \cap DsnParam # {} => "DSN" \in m_flags
              /\ RcptParams \cap {"SIZE", "PRIORITY"} \subseteq m_flags
            BY DEF RcptParams, DsnParam, Notify
        <3> QED
            BY <2>1, <2>3, <3>1, <3>2, SendOffered
    <2> QED
        BY <1>15, <2>2, <2>3 DEF SendMailResponse
<1>16. CASE SendRecipientResponse
    <2>1. m_nextState # "RESPONSE" /\ UNCHANGED offered
        BY <1>16 DEF SendRecipientResponse, server
    <2>2. CASE Fail
        BY <2>1, <2>2, FailOffered
    <2>3. CASE UNCHANGED command
        BY <2>1, <2>3, GotoOffered
    <2>4. CASE Send(Cmd("DATA", {}), "SEND_DATA_RESPONSE")
        BY <2>1, <2>4, SendOffered DEF DsnParam
    <2> QED
        BY <1>16, <2>2, <2>3, <2>4 DEF SendRecipientResponse, Goto, wire
<1>17. CASE SendDataResponse
    BY <1>17, FailOffered, GotoOffered DEF SendDataResponse, Goto, wire, server
<1>18. CASE SendPostData
    <2>1. m_nextState # "RESPONSE" /\ UNCHANGED offered
        BY <1>18 DEF SendPostData, server
    <2>2. CASE Send(Cmd("message", {}), "SEND_MESSAGE_RESPONSE")
        BY <2>1, <2>2, SendOffered DEF DsnParam
    <2> QED
        BY <1>18, <2>2 DEF SendPostData
<1>19. CASE SendMessageResponse
    <2>1. m_nextState # "RESPONSE" /\ UNCHANGED offered
        BY <1>19 DEF SendMessageResponse, server
    <2>2. CASE Fail
        BY <2>1, <2>2, FailOffered
    <2>3. CASE Send(Cmd("QUIT", {}), "DONE")
        BY <2>1, <2>3, SendOffered DEF DsnParam
    <2> QED
        BY <1>19, <2>2, <2>3 DEF SendMessageResponse
<1>20. CASE Finish
    BY <1>20, GotoOffered DEF Finish, Prompting, wire
<1>21. CASE PasswordGiven
    BY <1>21, GotoOffered DEF PasswordGiven, Prompting, wire
<1>22. CASE PasswordRefused
    BY <1>22, FailOffered DEF PasswordRefused, Prompting, server
<1>23. CASE OnStopRequest
    BY <1>23 DEF OnStopRequest, OfferedOnChannel, wire, server
<1>24. CASE ChangePrefs
    BY <1>24 DEF ChangePrefs, OfferedOnChannel, wire, server
<1>25. CASE ServerAnswers
    <2>1. UNCHANGED command /\ reply = 0 /\ reply' # 0
        <3>1. reply' # 0
            BY StagesKnown, <1>25 DEF ServerAnswers, ServerDialogue, ServerAuth, Answer, PlainAnswers, Verb
        <3> QED
            BY <1>25, <3>1, ServerLeaves
    <2>2. CASE UNCHANGED offered
        BY <2>1, <2>2 DEF OfferedOnChannel
    <2>3. CASE command.verb \in {"EHLO", "STARTTLS"}
        <3>1. command.params = {}
            BY <2>3, <1>25 DEF CommandFits
        <3> QED
            BY <2>1, <2>3, <3>1 DEF OfferedOnChannel
    <2> QED
        BY <1>25, <2>2, <2>3 DEF ServerAnswers, server
<1>26. CASE UNCHANGED vars
    BY <1>26 DEF vars, wire, server, OfferedOnChannel
<1> QED
    BY <1>1, <1>2, <1>3, <1>4, <1>5, <1>6, <1>7, <1>8, <1>9, <1>10, <1>11,
       <1>12, <1>13, <1>14, <1>15, <1>16, <1>17, <1>18, <1>19, <1>20,
       <1>21, <1>22, <1>23, <1>24, <1>25, <1>26 DEF Next, Client
LEMMA Initially == Init => IInv
<1> SUFFICES ASSUME Init PROVE IInv
    OBVIOUS
<1>1. TypeOK
    <2>1. MachineOK
        BY DEF Init, MachineOK, State, Code, Command, NoCommand, Cmd, Verb
    <2>2. RestOK
        <3>1. asked \in Seq(SUBSET Param)
            BY DEF Init
        <3>2. m_addressesLeft \in 0 .. Recipients /\ accepted \in 0 .. Recipients
              /\ challenges \in 0 .. 2
            BY SmtpAssumption DEF Init
        <3>3. /\ m_tlsInitiated \in BOOLEAN /\ m_tlsEnabled \in BOOLEAN
              /\ m_sendDone \in BOOLEAN /\ password \in BOOLEAN
              /\ secured \in BOOLEAN /\ delivered \in BOOLEAN
            BY Zenon DEF Init
        <3>4. /\ settings \in Settings /\ prefs \in DsnPrefs /\ result = "running"
              /\ m_flags = {} /\ m_origAuthFlags = {} /\ m_responseCode = 0
              /\ offered = {} /\ dialogue = {} /\ refused = {}
            BY DEF Init
        <3> QED
            BY <3>1, <3>2, <3>3, <3>4 DEF RestOK
    <2> QED
        BY <2>1, <2>2 DEF TypeOK, MachineOK, RestOK
<1>2. CommandFits /\ ClosedWaiting /\ Greeting /\ ClearStages
    BY DEF Init, CommandFits, ClosedWaiting, Greeting, ClearStages, Stage, NoCommand, Cmd
<1>3. Counts /\ Acceptance
    BY SmtpAssumption
    DEF Init, Counts, Acceptance, Stage, Seen, Envelope, MessageStages, EndStages
<1>4. FlagsOffered /\ OfferedOnChannel
    BY DEF Init, FlagsOffered, OfferedOnChannel, Stage, Seen, EndStages, NoCommand, Cmd,
       DsnParam
<1> QED
    BY <1>1, <1>2, <1>3, <1>4 DEF IInv

LEMMA Inductive == IInv /\ [Next]_vars => IInv'
BY TypeStep, FitsStep, ClosedStep, GreetingStep, ClearStep, CountsStep, AcceptanceStep,
   FlagsStep, OfferStep DEF IInv

LEMMA Invariance == Spec => []IInv
BY Initially, Inductive, PTL DEF Spec

\* Every reachable state has its type: with it, the number of recipients left is
\* never decremented below zero (SendMailResponse).
THEOREM SmtpTypeCorrect == Spec => []TypeOK
<1>1. IInv => TypeOK
    BY DEF IInv
<1> QED
    BY <1>1, Invariance, PTL

\* A send that is reported as done was accepted by the server for every recipient
\* (SendMessageResponse, OnStopRequest, SMTP_DONE).
THEOREM SentIsAccepted == Spec => []SentMeansAccepted
<1>1. IInv => SentMeansAccepted
    BY DEF IInv, Acceptance, SentMeansAccepted
<1> QED
    BY <1>1, Invariance, PTL

\* Where STARTTLS is required nothing of the account or the message travels in clear
\* (SendEhloResponse, SendTLSResponse, ProcessAuth).
THEOREM ClearIsEmpty == Spec => []NothingInClear
<1>1. IInv => NothingInClear
    <2> SUFFICES ASSUME IInv, settings.trySSL = "always", channel = "clear"
                 PROVE  command.verb \in {"none", "connect", "EHLO", "STARTTLS", "QUIT"}
        BY DEF NothingInClear
    <2>1. command.verb \in Verb
        BY StagesKnown DEF IInv
    <2>2. CASE m_nextState = "RESPONSE"
        BY <2>1, <2>2 DEF IInv, ClearStages, CommandFits, Stage, StagesOf, Verb
    <2>3. CASE m_nextState # "RESPONSE"
        BY <2>3 DEF IInv, CommandFits, NoCommand, Cmd
    <2> QED
        BY <2>2, <2>3
<1> QED
    BY <1>1, Invariance, PTL

\* The client uses only what the server offers on the connection as it is now
\* (SendEhloResponse, SendTLSResponse and every handler that sends a command).
THEOREM UsesWhatIsOffered == Spec => []OfferedOnChannel
<1>1. IInv => OfferedOnChannel
    BY DEF IInv
<1> QED
    BY <1>1, Invariance, PTL

\* The parameters of one more RCPT, as the session's caller sees them.
LEMMA ViewAppended ==
    ASSUME TypeOK, asked' = Append(asked, RcptParams)
    PROVE  SessionView.asked' = Append(SessionView.asked, RcptParams \cap Notify)
<1> DEFINE n == Len(asked)
           v == [i \in 1 .. n |-> asked[i] \cap Notify]
           w == [i \in 1 .. n + 1 |-> Append(asked, RcptParams)[i] \cap Notify]
<1>1. n \in Nat /\ Len(Append(asked, RcptParams)) = n + 1
    BY ParamsTyped DEF TypeOK
<1>2. SessionView.asked = v /\ SessionView.asked' = w
    BY <1>1 DEF SessionView
<1>3. v \in Seq(SUBSET Notify) /\ Len(v) = n
    BY <1>1
<1>4. \A i \in 1 .. n : Append(asked, RcptParams)[i] = asked[i]
    BY <1>1, ParamsTyped DEF TypeOK
<1>5. Append(asked, RcptParams)[n + 1] = RcptParams
    BY <1>1, ParamsTyped DEF TypeOK
<1>6. Append(v, RcptParams \cap Notify) =
        [i \in 1 .. n + 1 |-> IF i <= n THEN v[i] ELSE RcptParams \cap Notify]
    BY <1>1, <1>3
<1> QED
    BY <1>1, <1>2, <1>4, <1>5, <1>6

\* NOTIFY is what the preferences of the moment ask for, or nothing.
LEMMA RcptNotify ==
    ASSUME TypeOK
    PROVE  RcptParams \cap Notify \in {Session!NotifyOf(prefs), {}}
BY DEF RcptParams, Notify, Session!NotifyOf

LEMMA SessionStep ==
    IInv /\ [Next]_vars => [Session!Next]_<<SessionView, prefs>>
<1> SUFFICES ASSUME IInv, [Next]_vars
             PROVE  Session!Next \/ UNCHANGED <<SessionView, prefs>>
    OBVIOUS
<1>v. /\ SessionView = [asked |-> SessionView.asked, delivered |-> delivered,
                      result |-> result]
      /\ SessionView' = [asked |-> SessionView.asked', delivered |-> delivered',
                        result |-> result']
    BY DEF SessionView
<1>0. TypeOK /\ CommandFits /\ ClosedWaiting /\ Counts /\ Acceptance
    BY DEF IInv
<1>1. ASSUME UNCHANGED <<asked, delivered, result, prefs>>
      PROVE  UNCHANGED <<SessionView, prefs>>
    BY <1>1 DEF SessionView
\* One more outcome.
<1>2. ASSUME UNCHANGED <<asked, delivered, prefs>>,
             result' = result \/ (result = "running" /\ result' \in {"ok", "failed"}),
             result' = "ok" => delivered
      PROVE  Session!Next \/ UNCHANGED <<SessionView, prefs>>
    <2>1. CASE result' = result
        BY <1>1, <1>2, <2>1
    <2>2. CASE result = "running" /\ result' \in {"ok", "failed"}
        <3>1. SessionView.asked' = SessionView.asked
            BY <1>2 DEF SessionView
        <3>2. SessionView' = [SessionView EXCEPT !.result = result']
            BY <1>v, <1>2, <3>1
        <3>3. SessionView.result = "running" /\ SessionView.delivered = delivered
            BY <1>v, <2>2
        <3>4. result' \in IF SessionView.delivered THEN {"ok", "failed"} ELSE {"failed"}
            BY <1>2, <2>2, <3>3
        <3>5. SessionView' \in Session!Reports(SessionView)
            BY <3>2, <3>3, <3>4 DEF Session!Reports
        <3> QED
            BY <1>2, <3>5 DEF Session!Next, Session!SessionNext
    <2> QED
        BY <1>2, <2>1, <2>2
<1>3. CASE LoadUrl
    <2>1. result' = result \/ (result = "running" /\ result' = "failed")
        BY <1>0, <1>3 DEF LoadUrl, ClosedWaiting, Acceptance, TypeOK
    <2> QED
        BY <1>3, <1>2, <2>1, <1>0 DEF LoadUrl, choices, server, Acceptance
<1>4. CASE SmtpResponse
    BY <1>4, <1>1 DEF SmtpResponse, choices, server
<1>5. CASE ExtensionLoginResponse
    BY <1>5, <1>1 DEF ExtensionLoginResponse, choices, server
<1>6. CASE SendEhloResponse
    BY <1>6, <1>1 DEF SendEhloResponse, choices, server
<1>7. CASE SendTLSResponse
    BY <1>7, <1>1 DEF SendTLSResponse, choices, server
<1>8. CASE ProcessAuth
    BY <1>8, <1>1 DEF ProcessAuth, choices, server
<1>9. CASE AuthLoginResponse
    BY <1>9, <1>1 DEF AuthLoginResponse, choices, server
<1>10. CASE AuthGSSAPIFirst
    BY <1>10, <1>1 DEF AuthGSSAPIFirst, choices, server
<1>11. CASE AuthGSSAPIStep
    BY <1>11, <1>1 DEF AuthGSSAPIStep, choices, server
<1>12. CASE AuthLoginStep0
    BY <1>12, <1>1 DEF AuthLoginStep0, choices, server
<1>13. CASE AuthLoginStep0Response
    BY <1>13, <1>1 DEF AuthLoginStep0Response, choices, server
<1>14. CASE AuthLoginStep1
    BY <1>14, <1>1 DEF AuthLoginStep1, choices, server
<1>15. CASE AuthLoginStep2
    BY <1>15, <1>1 DEF AuthLoginStep2, choices, server
<1>16. CASE SendHeloResponse
    BY <1>16, <1>1 DEF SendHeloResponse, choices, server
<1>17. CASE SendMailResponse
    <2>1. UNCHANGED <<delivered, result, prefs>>
        BY <1>17 DEF SendMailResponse, choices, server
    <2>2. CASE asked' = asked
        BY <1>1, <2>1, <2>2
    <2>3. CASE asked' = Append(asked, RcptParams)
        <3>1. SessionView' = [SessionView EXCEPT
                                !.asked = Append(@, RcptParams \cap Notify)]
            BY <1>v, <1>0, <2>1, <2>3, ViewAppended
        <3>2. Stage = "SEND_MAIL_RESPONSE" /\ m_nextState = Stage
            BY <1>17 DEF SendMailResponse, Stage
        <3>3. Len(asked) < Recipients /\ result = "running"
            BY <1>0, <3>2, SmtpAssumption DEF Counts, ClosedWaiting, TypeOK
        <3>4. Len(SessionView.asked) = Len(asked) /\ SessionView.result = result
            BY <1>0 DEF SessionView, TypeOK
        <3>5. SessionView' \in Session!Asks(SessionView, prefs)
            BY <1>0, <3>1, <3>3, <3>4, RcptNotify DEF Session!Asks
        <3> QED
            BY <2>1, <3>5 DEF Session!Next, Session!SessionNext
    <2> QED
        BY <1>17, <2>2, <2>3 DEF SendMailResponse
<1>18. CASE SendRecipientResponse
    BY <1>18, <1>1 DEF SendRecipientResponse, choices, server
<1>19. CASE SendDataResponse
    BY <1>19, <1>1 DEF SendDataResponse, choices, server
<1>20. CASE SendPostData
    BY <1>20, <1>1 DEF SendPostData, choices, server
<1>21. CASE SendMessageResponse
    BY <1>21, <1>1 DEF SendMessageResponse, choices, server
<1>22. CASE Finish
    <2>1. result' = result
            \/ (result = "running" /\ result' = "failed")
            \/ (result = "running" /\ result' = "ok" /\ m_nextState = "DONE")
        BY <1>22 DEF Finish, SetUrlState
    <2>2. result' = "ok" => delivered
        BY <1>0, <2>1 DEF Acceptance, Stage
    <2> QED
        BY <1>22, <1>2, <2>1, <2>2 DEF Finish, choices, server
<1>23. CASE PasswordGiven
    BY <1>23, <1>1 DEF PasswordGiven, Prompting, choices, server
<1>24. CASE PasswordRefused
    BY <1>24, <1>1 DEF PasswordRefused, Prompting, choices, server
<1>25. CASE OnStopRequest
    <2>1. result' = result
            \/ (result = "running" /\ result' = "failed")
            \/ (result = "running" /\ result' = "ok" /\ m_sendDone)
        BY <1>25 DEF OnStopRequest, SetUrlState
    <2>2. result' = "ok" => delivered
        BY <1>0, <2>1 DEF Acceptance
    <2> QED
        BY <1>25, <1>2, <2>1, <2>2 DEF OnStopRequest, choices, server
<1>26. CASE ChangePrefs
    <2>1. UNCHANGED SessionView /\ prefs' \in DsnPrefs
        BY <1>26 DEF ChangePrefs, SessionView, server
    <2> QED
        BY <2>1 DEF Session!Next
<1>27. CASE ServerAnswers
    <2>1. UNCHANGED <<asked, result, prefs>>
        BY <1>0, <1>27, ServerLeaves DEF choices
    <2>2. CASE delivered' = delivered
        BY <1>1, <2>1, <2>2
    <2>3. CASE command.verb = "message" /\ delivered' = TRUE
        <3>0. SessionView.asked' = SessionView.asked
            BY <2>1 DEF SessionView
        <3>1. SessionView' = [asked |-> SessionView.asked, delivered |-> TRUE,
                              result |-> SessionView.result]
            <4>1. SessionView' = [asked |-> SessionView.asked, delivered |-> TRUE,
                                  result |-> result]
                BY <1>v, <2>1, <2>3, <3>0, Zenon
            <4>2. SessionView.result = result
                BY <1>v
            <4> QED
                BY <4>1, <4>2, Zenon
        <3>2. Stage = "SEND_MESSAGE_RESPONSE"
            BY <1>0, <1>27, <2>3, ServerLeaves DEF CommandFits, Stage, StagesOf
        <3>3. Len(asked) = Recipients
            BY <1>0, <3>2, SmtpAssumption DEF Counts, MessageStages, TypeOK
        <3>4. result = "running"
            BY <1>0, <1>27, ServerLeaves DEF ClosedWaiting
        <3>5. Len(SessionView.asked) = Len(asked) /\ SessionView.result = result
            BY <1>0 DEF SessionView, TypeOK
        <3>6. SessionView' \in Session!Delivers(SessionView)
            BY <3>1, <3>3, <3>4, <3>5 DEF Session!Delivers
        <3> QED
            BY <2>1, <3>6 DEF Session!Next, Session!SessionNext
    <2> QED
        BY <1>27, <2>2, <2>3 DEF ServerAnswers, server
<1>28. CASE UNCHANGED vars
    BY <1>28, <1>1 DEF vars, choices, server
<1> QED
    BY <1>3, <1>4, <1>5, <1>6, <1>7, <1>8, <1>9, <1>10, <1>11, <1>12,
       <1>13, <1>14, <1>15, <1>16, <1>17, <1>18, <1>19, <1>20, <1>21,
       <1>22, <1>23, <1>24, <1>25, <1>26, <1>27, <1>28 DEF Next, Client

\* The protocol machine implements SmtpSession: recipients are asked for one by
\* one, the message is accepted after the last, the outcome is told once.
THEOREM SmtpImplementsSession == Spec => SessionKept
<1>1. Init => Session!Init
    <2> SUFFICES ASSUME Init PROVE Session!Init
        OBVIOUS
    <2>1. [i \in 1 .. Len(asked) |-> asked[i] \cap Notify] = <<>>
        BY DEF Init
    <2> QED
        BY <2>1 DEF Init, Session!Init, SessionView, Session!NewSession
<1> QED
    BY <1>1, SessionStep, Invariance, PTL DEF Spec, SessionKept, Session!Spec
=============================================================================
